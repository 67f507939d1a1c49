------------------------------ MODULE MCStatusPc ------------------------------
(***************************************************************************)
(* What runs on the PC side of the status interface: four parts that share *)
(* no state, and what a report says from one end to the other.  A          *)
(* behaviour explores one of them and leaves the others as they begin.     *)
(* The readers have a path of either backend, three goroutines (one more   *)
(* than should ever be needed) and a channel of one packet; the overlay    *)
(* has two adapters and three calls, one of the loop and two of the        *)
(* button; macOS has two adapters and two packets; the hub has two         *)
(* clients with channels of two reports.                                   *)
(***************************************************************************)
EXTENDS StatusReaders, StatusOverlay, StatusDarwin, StatusPayload, StatusHub

CONSTANTS stadia, dualshock4

VARIABLE explored

MCbackendIDs == <<{stadia}, {dualshock4}>>

PcInit ==
    /\ explored \in {"readers", "overlay", "darwin", "payload", "hub"}
    /\ ReadersInit /\ OverlayInit /\ DarwinInit /\ PayloadInit /\ Init
    /\ explored # "overlay" =>
        present = {} /\ granted = {} /\ call = [NoCalls EXCEPT ![CHOOSE c \in Calls : TRUE].by = "reconnect"]
    /\ explored # "darwin" => attached = {}
    /\ explored # "payload" => flags = {} /\ active_mode = "kGamepad"

\* Every part but p stays as it is.
Only(p) ==
    /\ explored = p
    /\ p # "readers" => UNCHANGED readersVars
    /\ p # "overlay" => UNCHANGED overlayVars
    /\ p # "darwin" => UNCHANGED darwinVars
    /\ p # "payload" => UNCHANGED payloadVars
    /\ p # "hub" => UNCHANGED vars

\* The hub stops for good when publish is wedged, and the model of it after the
\* last of the MaxMessages reports.
HubStops == (Wedged \/ (Unlocked /\ latest = MaxMessages)) /\ UNCHANGED vars

PcNext ==
    /\ UNCHANGED explored
    /\ \/ Only("readers") /\ ReadersNext
       \/ Only("overlay") /\ OverlayNext
       \/ Only("darwin") /\ DarwinNext
       \/ Only("payload") /\ PayloadNext
       \/ Only("hub") /\ (Next \/ HubStops)

pcVars == <<explored, readersVars, overlayVars, darwinVars, payloadVars, vars>>

PcSpec == PcInit /\ [][PcNext]_pcVars

\* The part that is explored goes on as it would alone.
FairPcSpec ==
    /\ PcSpec
    /\ \/ explored = "readers" /\ ReadersFairness
       \/ explored = "overlay" /\ OverlayFairness
       \/ explored = "darwin" /\ DarwinFairness
       \/ explored = "payload"
       \/ explored = "hub" /\ Fairness
=============================================================================
