SPECIFICATION SwipeSpec
CONSTANTS
    Width = 1920
    SWIPE_GESTURE_EDGE_MARGIN = 200
    Positions = {0, 199, 200, 1720, 1721}
PROPERTIES
    SecondFingerCancels
