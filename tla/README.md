# TLA+ models of the Feather DualSense firmware

The firmware in `src/src` turns a Feather RP2040 into an adapter: a DualSense is
plugged into its USB host port, and the PC sees a keyboard, a mouse, a gamepad or a
mix of them on its device port. `src/tools` holds the status bridge (Go) and the
status overlay (a web page) that show what the firmware reports about itself.

This directory holds TLA+ models of that system, the TLC runs that check them on
small instances, and TLAPS proofs of the results that matter most. There are no
tests in the repository and the firmware runs on a board, so the models are where
the orders of events nobody can produce on a bench are tried.

## The system

The firmware is one loop on one core (`main.cc`): `device_out::Task` runs the USB
device stack, `host_reader::Task` the USB host stack, `status_hid::Task` sends a
status report 60 times a second. There are no threads. What interleaves is the loop,
the callbacks the two stacks make from inside their tasks, and the hardware: the PC
polls an endpoint, a transfer fails, a controller is pulled, the power goes.

| Part | State it keeps | Operations | What makes it hard |
| --- | --- | --- | --- |
| Mode store, `mode.cc` | the profile in RAM, its record in flash | load, save (erase, then program), reboot | power lost anywhere in the save |
| Controller link, `host_reader.cc` | the interface in use, the receive waited for, the lightbar to send, LED | mount and unmount callbacks, arming, flushing | refused and failed transfers, two removal callbacks in either order, several interfaces |
| Output reports, `host_reader.cc`, `device_out.cc` | three reports, three pending flags, held inputs | the report callback, the flushes, profile switch, removal | endpoints that refuse while busy, two flush points in a callback, absolute and relative data |
| Gestures, `host_reader.cc` | a finger's path, two scroll sums, the zone clicked | swipe, scroll, click | fingers that change, lost touch, two fingers at once |
| Keyboard report, `host_reader.cc` | 14 key slots, modifiers | AddKey, RemoveKey | more keys than slots |
| Gyro pointer, `host_reader.cc` | the bias learnt at rest, remainders of pixels, charges of stick pulses | `ParseGyroMouse`, `ParseGyroRightStick` | fixed-point rounding and width, what outlives a touch |
| Lean estimate, `host_reader.cc` | gravity, fused roll, gyro bias, neutral roll | `UpdateLeanEstimate` | four filters, one after the other, each of which rounds |
| Sticks as buttons, `host_reader.cc` | none | `ParseLeftStickButtons`, `ParseRightStickButtons` | integer products where geometry has tangents |
| Status HID, `status_hid.cc` | one payload, a timing window, a send clock | connect, disconnect, input, timing, Task | wrapping clocks, saturating counters, refused sends |
| USB descriptors, `usb_descriptors.cc`, `usb_layout.h` | none (tables) | descriptor callbacks | tables that must agree with `device_out.cc` in every build |
| Gamepad reports and mappings, `host_reader.cc`, `mapping.h` | none (tables) | `ParseDualSenseButtons`, `ParseForGamepad`, `FindMapping` | four tables of bits, kept by hand, that a PC reads through a fifth |
| Status payload, `status_hid.*`, `main.go`, `status_overlay.html` | the packed report | `UpdateFromInput`, `parsePayload`, `parseStatusReport` | one layout written down four times; short reports |
| Status bridge, `main.go`, `hid_*.go` | hub of subscribers, open devices | add, remove, publish, events, readers | goroutines, a mutex held over channel operations, slow subscribers, callbacks on a run loop (macOS) |
| Status overlay, `status_overlay.html` | the attached device, reconnect timer | connect, reconnect, disconnect, report parsing | promises that resolve after the state they read has changed |

The parts meet in `g_controller`: the host stack's callbacks write it, the report
callback turns it into pending reports, `FlushPendingOutputs` offers those to
`device_out`, and the mode store decides which interfaces exist at all, because a
profile switch saves the new profile and reboots. The status payload is written by
the same callbacks and read by `status_hid::Task`; the bridge and the overlay read it
over USB.

## Modules

| Module | Models | Checked by | Proved in |
| --- | --- | --- | --- |
| `ModeRegister` | abstract: a register that is old, cleared or new after a crash | `ImplementsRegister` | |
| `ModeStore` | `mode.cc` and the switch that calls it | `MCModeStore` | `ModeStoreProofs` |
| `OutputReports` | report callback, flushes, endpoints, PC | `MCOutputReports`, three configurations | `HostReaderProofs` |
| `ControllerLink` | mount, unmount, arming, lightbar, LED | `MCControllerLink` | `ControllerLinkProofs` |
| `HostReader` | the two above composed, callback by callback | `MCHostReader` | `HostReaderProofs` |
| `KeyRollover` | abstract: what a keyboard report of so many keys promises | `IsRollover` | |
| `KeyboardReport` | the key slots and the order changes are applied in | `MCFirmwareParts` | `InputProofs` |
| `SwipeGesture` | the finger path that switches profiles | `MCFirmwareParts`, `MCSecondFinger` | `InputProofs` |
| `TouchScroll` | the finger paths that turn the wheel | `MCFirmwareParts` | `InputProofs` |
| `StatusHid` | the status payload, its send clock and sequence number | `MCStatusTiming` | `StatusHidProofs` |
| `StatusTiming` | what the status interface measures, on top of `StatusHid` | `MCStatusTiming` | `StatusHidProofs` |
| `UsbLayout` | interface numbers, descriptors, instances, what the bridge looks for | `MCFirmwareParts` | `InputProofs` |
| `CArithmetic` | numbers as C++ has them: `int16_t`, division towards zero | by its users | `MotionProofs` |
| `GyroPointer` | turning the controller moves the mouse or the right stick | `MCFirmwareParts`, `MCGyroFlick` | `MotionProofs` |
| `LeanEstimate` | how far the controller leans | `MCFirmwareParts` | `MotionProofs` |
| `StickButtons` | the sticks as buttons, at every position | `MCFirmwareParts` | `MotionProofs` |
| `GamepadReports` | a controller's bits, the gamepad's bits, the keys, and what a PC reads off the descriptor | `MCFirmwareParts` | `InputProofs` |
| `StatusHub` | the bridge's hub, its handlers and the mutex | `MCStatusPc`, `MCStatusHub` | `StatusHubProofs` |
| `StatusReaders` | the bridge's scan and reading goroutines | `MCStatusPc` | `StatusPcProofs` |
| `StatusDarwin` | the bridge's callbacks on macOS | `MCStatusPc` | |
| `StatusOverlay` | the page's ways to a device | `MCStatusPc` | `StatusPcProofs` |
| `StatusPayload` | a report's fields, byte by byte, from the controller to the page | `MCStatusPc` | `StatusPcProofs` |

### ModeStore

The sector is a record with a header (magic and version), a mode field and a
checksum; a field is the set of its bits that read 1. `SavePersistedMode` either
finds the record there and leaves it, or erases (`FinishErase`) and programs
(`FinishProgram`); `PowerLoss` in between leaves any bits an interrupted erase or
program can leave. `Boot` is `mode::Init`, `Switch` is `HandleModeSwitch` up to
`PersistAndReboot`, `Reboot` the watchdog.

`NoForeignMode` is the property the record format exists for: a torn record never
decodes to a profile nobody selected. It rests on the checksum being the complement,
bit by bit, of the mode over bits the base sets, so an interrupted program leaves
too many ones in one field or the other. `ModeAssumption` states exactly that, and
TLC evaluates it for the real constants. `ModeRegister` is what a caller sees.

### OutputReports

One action is one callback: `ReportReceived` is all of `tuh_hid_report_received_cb`
after the swipe test, both flushes included. `out[o]` is a report, its pending flag
and the IN endpoint's buffer (`sent`, empty or one report). Inputs are names; a key
is named by the input it is mapped to, because the table gives every input a key of
its own. Axes of movement are integers with the ranges of the real report as
constants (`AxisMin`, `AxisMax`). A controller report says which inputs are down,
where a finger clicks the touchpad, and how much gyro and scroll amount to; a failed
transfer is the report of length 0 the host stack hands over.

Four history variables carry what the properties need and the code does not have:
`pc` (what the PC takes to be held), `owed` (movement produced and not polled),
`clamped` (axes that ever hit their limit) and `stale` (outputs whose state on the PC
changed without a report: a bus reset, a removal, the first connection).

### ControllerLink

Devices have a set of HID interfaces and are known or not. The host stack is a small
automaton (`idle`, `mounting`, `mounted`, `closing`, `unmounted`): mount callbacks are
spread over several passes of the main loop, a removal's callbacks run inside one, in
an order the stack chooses. Every request for a report and every lightbar report may be
refused, every transfer may fail.

### HostReader

Shares `running`, `mode` and `active` between the two, and makes every callback one
step of both. `ImplementsOutputReports` says the composed system is an
`OutputReports` system, fairness included: the stream of reports that
`OutputReports` assumes is what `Arm` in `Task` and in the callbacks provides.

### KeyboardReport and KeyRollover

`OutputReports` treats a keyboard report as a set of keys; these two say when it may.
A callback compares the buttons with the last ones and applies every change in the
order of the table: `Applied[n]` is the report once the first `n` keys of `KeyOrder` have
been compared. A slot is a position of a sequence. `KeyRollover` is the report as a set: it names only held keys,
keeps what it named, and names everything while old and new keys together fit.

### SwipeGesture

The two touch points of one report are the input, as positions: the gesture does not
look at touch ids. Its own state is the finger-down flag and two positions. The history
variable `stroke` is about the pad, not the gesture: it follows the first touch point from
the report that first names it to the first that does not, whatever the second does, and
remembers whether that one joined it. `SwitchesAsMoved` is what holds: a finger that nobody
joins is judged by where it touched and where it let go, and no touch switches but by the
way it went after the second finger was last there. `SecondFingerCancels` is what the docs
say, and does not hold (below).

### TouchScroll

`finger` is `touch0_*` and `touch1_*` of `g_controller`; `stretch` is a history variable
that follows each finger from where it touched, or was at the last turn, without
adding anything up. `AsInt16` keeps the width of the sums.

### StatusHid and StatusTiming

Time is a clock that wraps; a pass of the main loop takes up to `MaxPass` ticks before
`Task` runs again. A report is the payload at the time it is built, with its number; the
endpoint holds one. `StatusTiming` conjoins to every action of `StatusHid` what that
action does to the measurements, and keeps beside them what really happened in the
window (`window`), told by a time that does not wrap. `WindowIsTrue` compares the two,
with the exceptions the code has by design: an interval longer than the clock, and a
callback at clock time 0, which the code's marker for "none" cannot tell apart.
`renewed` and `restarted` are history too: they say where a controller came or went, so
that `SequenceHasNoGap` can tell a number that starts again from one that was lost.

### GyroPointer and CArithmetic

One action per report of either profile, with the rates as integers of their width:
`Corrected` wraps at 16 bits as the code's variable does, `Quot` rounds towards zero,
`\div` rounds down as a shift does. A touch is measured beside the code: `touch.turned`
is what the shaped rates add up to, in no particular width, from the bias at the
beginning of the touch, `moved` what the pointer was told. `rest` follows how long the
controller has lain at one rate, so that `StillIsStill` can say that a drift the bias
has learnt moves nothing, ever. A rest goes on for a thousand reports before anything
else happens: between, the only thing that changes is the average.

### LeanEstimate, StickButtons, GamepadReports

`LeanEstimate` is the fixed-point pipeline report by report; a pose is held either for
one report, or until it counts as upright, or for `Hold` reports, which is long enough
for every filter to come to rest, and `LeanReadsThePose` compares what it says then to
the true angle, limited to 90 degrees as the code limits it. `StickButtons` walks a stick through all 65,536 positions and compares
the sectors with the angle, by products: no tangent is needed to say that an angle is at
most another. `GamepadReports` goes through what a bit passes on its way: the layout of
a wired DualSense (external), `mapping::Button`, the gamepad's bit, and the usage that
the gamepad's own report descriptor gives that bit, which is what a PC goes by.
`PcSeesWhatIsHeld` relates the two ends only.

### UsbLayout

Four tables kept by hand in four files: interface numbers, configuration and report
descriptors, the instances `device_out.cc` sends to, and the interface numbers the bridge
accepts. The state is a PC that reads the configuration of a build and profile and then
takes reports; the properties relate the tables.

### StatusHub, StatusReaders, StatusDarwin

Processes of the bridge. In `StatusHub` the body of `add` and of `remove` is one step,
because neither can block while it holds the mutex, and `publish` is a step per channel
operation, because a handler may receive between any two of them. In `StatusReaders` a
scan and the goroutines it starts share `openPaths`; a send to the full channel blocks, and
a read may fail whether or not the device is still there.
In `StatusDarwin` all devices share a buffer; a report is copied out of it inside the
callback that filled it, on the one run loop, and a full channel drops it.

### StatusOverlay

One action per stretch of code between two promises. `reconnectAuthorizedDevice` and
`connect` run as calls that overlap; what a call waits for (`getDevices`,
`requestDevice`, `open`) is a phase of it, during which devices come and go.

### StatusPayload

A byte of the payload is the field it belongs to, its place there and the number of the
controller report its value was taken from, so that one short report after a long one
shows which fields it leaves behind. The firmware writes it through the packed struct;
the overlay reads it at its own offsets, directly or rebuilt from what the bridge's
JSON says. `ReadsAsWritten` compares both with the struct.

### MCFirmwareParts and MCStatusPc

`KeyboardReport`, `SwipeGesture`, `TouchScroll`, `UsbLayout`, `GyroPointer`,
`StickButtons`, `GamepadReports` and `LeanEstimate` share no state, so nothing is learnt
from their product. One run explores all eight: a variable says which of them a
behaviour is about, and the others stay as they begin. The four parts that run on the
PC, and the payload between the ends, are explored the same way by `MCStatusPc`; its
fairness is that of the part explored (`FairPcSpec` is a disjunction, one disjunct for
each).

## Runs

| Run | Question |
| --- | --- |
| `mode_store` | power lost anywhere in a save, 4 profiles, 4-bit fields |
| `output_keys` | keyboard/mouse profile: one key, one mouse button, zones 1 and 2 |
| `output_hybrid` | three outputs fed by one callback: a key, a gamepad button, an axis of range -1..1; what is held or moved arrives |
| `output_unplug` | expected violation, below |
| `controller_link` | devices with up to two interfaces, two profiles |
| `host_reader` | the composition, one key, two interfaces: refinement, and from plugging in to the PC |
| `status` | clock of 3 ticks, interval 1, late above 1, counters that stop at 2, numbers 0..2 |
| `status_hub_streams` | expected violation, below |
| `status_pc` | hub: two overlays, channels of 2, four reports; readers: a path of either backend, three goroutines, a channel of 1; overlay: two adapters, three overlapping calls; macOS: two adapters, a channel of 2; payload: two reports of thirteen lengths |
| `firmware_parts` | six keys in three slots; positions at, before and after both edges; a pad of 5 rows, 2 of which turn the wheel; all eight builds in all their profiles; six turning rates, two rests, touches of 4 reports; sticks at every position; two controls of the gamepad at once; two poses of three, for 1950 reports, and a jolt |
| `second_finger` | expected violation, below |
| `gyro_flick` | expected violation, below |

Bounds. The code treats inputs of one kind alike and independently, so one key and
one mouse button show every interaction they have; two zones are needed because the
zone released must be the one clicked. An endpoint holds one report, so `sent` needs
no bound. With an axis of range 1 and movement of 1 per report, the report may hold one
and the endpoint another, so accumulation, movement back, clamping and delivery all
occur. Two interfaces are the smallest number where the wrong one can be listened to.
Four mode bits cover the bits that differ between mode values and a few that do not. Six
keys in three slots fill the report, overfill it, and let half the keys change in one
callback. A clock of three ticks wraps before a counter reaches its limit and while the
endpoint refuses, and three sequence numbers tell a gap from a repeat; the proofs of
`StatusHidProofs` are for every clock. A channel of two tells the oldest report from the
newest, and four reports overfill it twice. Three goroutines on two paths let one end
while its successor starts. Three calls are one of the loop and two of the button, or the
loop's next one waiting behind. The rates of `MCFirmwareParts` are two drifts of the
sensor, both signs, both sides of the soft threshold of 15, and a flick that shaping
passes through unchanged; two rests let the bias be learnt, and learnt again from there;
the proofs of `MotionProofs` are for every number and length. Two reports are
enough for the payload, since a field comes from the last report that carried it or
from one before; the lengths are those on either side of each field's last byte. Two
controls at once tell a table that maps both to one bit. The poses are upright, full
lean and one between, where the approximated root and arc tangent are half a degree out;
one that counts as upright, another and a jolt are all that a reading of the lean
depends on, and 1950 reports are more than the 1921 its proof needs. No run uses a state
constraint; no state space is cut.

`CHECK_DEADLOCK` is off in `status_hub_streams` alone: after the last of the `MaxMessages`
reports, and when `publish` waits for ever, the hub really stops. In `status_pc` these two
ends are stuttering steps (`HubStops`), so deadlock is checked for every part.

Fairness. `HostPoll` is weakly fair: a USB host polls every interrupt endpoint of a
configured device at its interval, whatever the device has to say. A report stream is
assumed in `OutputReports` only while an endpoint could take something, and only that
some report comes, never that a user presses anything; `HostReader` derives it from
weak fairness of `Task` with a request the stack accepts (the main loop runs for ever,
and the controller's endpoint does not stay busy for ever) and of transfers completing
or failing. The mode store's steps are weakly fair: nothing but power loss stops
straight-line code. In `StatusHid`, time passes and the main loop goes on. In the
bridge, goroutines that can go on do; `Add`, `RemoveClient` and `SendPacket` are strongly fair
because Go's mutex hands itself to a waiter of more than 1 ms and a channel serves
blocked senders in order, so neither can be overtaken for ever. An open that is tried
again and again on a device that stays succeeds in the end (`StatusReaders`,
`StatusOverlay`): strong fairness per device, of opening by any process; without it no
retry could be said to help. Nothing is assumed of reads: those of a device that is there
may fail for ever, and `ReadInTheEnd` then promises only that it is opened again and again. In the overlay the interval timer ticks and the browser's
promises settle, except `requestDevice`, which waits for the user. On macOS the run
loop calls back for every device that has come or has a report (`StatusDarwin`), and
the pump takes packets. No property
assumes that a user acts, that a controller stays, or that a PC configures the device:
those are premises of the liveness properties, as `<>[]`, because the code gives no
promise otherwise.

### The expected violations

`output_unplug`: the comment at `host_reader.cc:1583` explains why absolute state stays
pending until the endpoint takes it. The removal path does not: `tuh_hid_umount_cb`
offers an empty report once, ignores the answer and clears the pending flags. TLC's
counterexample is short: a key goes down and its report is taken by the PC, another
report fills the endpoint, the controller is pulled, the release is refused, and the
key stays down on the PC with nothing left that would release it. The neighbouring
property that does hold, `NothingUnsaid`, names the removal as an exception.

`status_hub_streams`: `publish` finds a channel full, that client's handler empties it,
and `publish` then receives from the empty channel with the mutex held. No overlay gets
anything again, and none can connect or leave. `StreamsUnlessWedged` says that this is
the only way the stream ends.

`gyro_flick`: `README.md:283` says that the bias "continuously compensates for sensor
drift without interfering with aiming". `ParseGyroMouse` stores the corrected rate, a
difference of two `int16_t`, in an `int16_t` (`host_reader.cc:906`). With the sensor at
its lowest value and a positive bias the difference wraps, and the pointer jumps
some eighty pixels against the turn. The wrap needs a turn at full scale and is the only
way: `NarrowRatesNeverAgainstTheTurn` proves that the pointer never goes against the turn
while the differences of rates fit 16 bits.

`second_finger`: README.md:296 says "A second finger on the pad at any point during the
swipe cancels it." and host_reader.cc:1029 "Second finger cancels."
`ParseSwipeGesture` only clears `swipe_finger_down` while the second point is there; once
it has gone the swipe begins anew from where the first then is. TLC's counterexample: a
finger touches at the left edge, a second one taps, the first goes on to the right edge and
lets go, and the profile is switched. What the second finger does cancel is the way the
first had gone before: `SwitchesAsMoved`.

### Other places where docs say more than the code does

No run is about these; the properties say what holds instead.

- `AddKey` (`host_reader.cc:288`) drops a key that finds no empty slot and never comes
  back to it, and changes are applied in button order: with the slots full, a press in
  the callback that also lets a later button go is lost until it is pressed again, though
  the report has room for it (README.md:85 promises 14 keys). `IsRollover` promises only
  what fits together with the keys held before.
- `ParseSwipeGesture` does not look at the touch id, so a finger lifted at one edge and
  another put down at the other between two reports are one swipe.
- A mount or a removal sets the status sequence number back (`status_hid.cc:36`), which
  README.md:112 calls incremented after each accepted report. `SequenceHasNoGap` expects
  the numbers to start again there, and nowhere else.
- "Micro-movements are preserved rather than cut off" (README.md, soft suppression): a
  corrected rate of at most 3 is squared, divided by 15 and gives 0. `StillIsStill` relies
  on it: the error the average never learns away is smaller than that.
- The bias is learnt only while each axis reads less than 12 beyond it. A sensor whose
  drift starts above that is never compensated: MCRates' drifts are below.
- The stick's scale is an arithmetic shift, which rounds down: the same small turn
  deflects the stick one way and not the other (+4 gives -1, -4 gives 0). `MovesAsTurned`
  counts what was wanted with that rounding in it.
- The comment at `device_out.h:51` lists bits of the gamepad's report in an order neither
  `mapping.h` nor the descriptor has; the two agree with each other.
- The DS4 backend forwards the touchpad's click; README.md:277 says it is not forwarded, but
  below the table of the Stadia backend, and README.md:90 that all digital buttons are; the paddles of an Edge (L3 and A) are in no table of README; the right
  stick's "Numpad 1-8" sends the digits of the top row.
- `ParseDualSenseButtons` and `ParseForGamepad` find the start of a report that has no
  identifier differently: a wired DualSense's always has one, and only such are modelled
  (`kReportBa` and `kReportBas` are 1).
- `build_config.h` calls the accelerometer's correction of the lean slow; a fused roll of
  exactly 0 is taken for none and is set to the accelerometer's at once.
- `connect` in the overlay attaches without looking at `state.device`: with the loop's
  call in between, a device is listened to twice. `LoopListensOnce` speaks of the loop
  alone.

## Proofs

All proofs are for every value of the constants that satisfies the named assumptions.

- `ModeStoreProofs`: `TypeOK`, `NoForeignMode`, `SavedBeforeReboot`,
  `RunsWhatIsStored`, and that `ModeStore` implements `ModeRegister`. The inductive
  invariant ties the contents of the sector to the phase: which record is whole, and
  that a torn one has a bit too many on one side. The lemma about the checksum is
  where `ModeAssumption` is used.
- `HostReaderProofs`: first `OutputReports` alone: `TypeOK` and the six safety invariants.
  `TypeOK` is inductive;
  the others need strengthening, kept in separate invariants because they rest on
  different parts of the state. `TrackInv` adds to `ReportsTrackInputs` that a profile
  without a keyboard holds no input and the hybrid profile no mouse button; `MoveInv`
  adds that nothing waits to move while no profile reads movement; `GamepadInv` that a
  pending gamepad report was built since the last memset. `NothingUnsaid` is inductive
  given the type. Then the composition: every callback of `HostReader` is a step of
  `OutputReports` or none (`SystemReports`, the safety half of `ImplementsOutputReports`),
  and a step of `ControllerLink` or none (`SystemLink`), so what is proved of each part
  holds of the firmware as a whole (`SystemReportsSafe`, `SystemNotDeaf`,
  `SystemListensToOne`, `SystemLampsAreTrue`). Neither part alone gives `HeldByMounted`:
  a key or mouse button in a report is held by an interface that is mounted, of a device
  the firmware knows. The only assumption added is `InstanceAssumption`, that the number
  `g_controller` starts with is one an interface can have.
- `ControllerLinkProofs`: `NotDeaf`, `ListensToOne`, `LampsAreTrue` from one
  invariant that relates the flags in `g_controller` to the interfaces the host stack
  has mounted and the transfers it holds, per phase of a removal.
- `StatusHidProofs`: `TypeOK`, `NothingIsLeftBehind`, `RateBound`, `SequenceHasNoGap`. The
  inductive invariant adds that the clock never tells more time since the last report
  than has passed (`AgeIsTrue`; a wrapped clock tells less, which only delays a
  report), that a payload without a controller is empty, and how the numbers in the
  payload, the endpoint and the PC follow one another, from a restart too (`NumbersFollow`). `WindowIsTrue`
  of `StatusTiming`, for every clock, threshold and capacity of a counter: it needs that
  the last input is as old on the clock as in truth, while the clock can tell
  (`LastInputIsTrue`; `ElapsedAfter` is the lemma about the wrapping difference).
- `StatusHubProofs`: `TypeOK` (no channel over its capacity), `NeverSendsOnClosed` and
  `NewestInOrder`. Added: what `publish` has yet to visit are clients, and the room it made
  in a channel is still there when it sends, since nobody else sends (`Inductive`); and,
  in the middle of a `publish` too, that each channel holds a run of reports up to the
  last one sent to it, all later than what its handler has written, and is empty only
  if that is the last one or `publish` is about to push (`InLine`).
- `StatusPcProofs`: `PathsAreRead`, for any backends, paths and goroutines, from an
  invariant that gives every started goroutine one open path and every open path a
  goroutine; `ShownIsThere`, which needs that one device is shown at most; and
  `LoopListensOnce`, which needs that the loop's one call finds nothing shown, and
  nothing listened to, until a device came through the button (`LoopInv`).
  `ReadsAsWritten`, for reports of any number, lengths and buttons, has two halves.
  About the tables: the struct's fields follow each other without overlap or gap
  (`NoOverlap`, `NoGap`), so each is found in the flattened payload at the sum of the
  sizes before it (`OneMore`, `Flattened`), and the bridge's message puts each back
  where it was (`RebuiltIs`). About the updates: each field carries the number of the last
  report that had it, and what is pressed and touched is that report's
  (`TakesTheLastWord`), which every report keeps, however short (`InputTakes`).
- `InputProofs`: `SwitchesAsMoved`, as a property of every step: while the gesture is under
  way its start is a place the touch went to after the second finger was last there, and
  throughout a touch nobody joins it is under way from where that began (`Follows`).
  `TypeOK` of the scroll and `TurnsAsMoved`, for every threshold and pad. The
  invariant is that each sum is what its finger went since the last turn
  (`AccumulatesTravel`); it needs that a pad's travel fits 16 bits. `RollsOver`:
  `KeyboardReport` implements `KeyRollover` for every number of keys and slots and every
  order of the table. The invariant `KeyInv` is that no key has two slots and that only
  held keys have one; within a callback `Progress` follows the report from key to key:
  keys already compared are `Settled`, later ones are as they were. A report
  with no slot free names as many keys as it has slots (`FullNamesMany`, by the pigeonhole
  principle), so a key finds a free one while old and new keys fit together (`Room`).
  `PcSeesWhatIsHeld`, for any number of controls at once, where the run holds two: the
  invariant (`PadInv`) is only that controller and report are ones there can be. The work
  is in the chain of tables: a control's bit is its button's (`ButtonsAreControls`,
  `PressedIs`), the button's bit on the gamepad is that of what it stands for
  (`StadiaMapping`, `Ds4Mapping`, `OnIfHeld`), a byte as a sum of powers of two gives its
  bits back, beside the hat too (`BitOf`, `BitBesideHat`), and the descriptor's fields,
  counted one after another, put the usage there (`Counted`, `UsagesDiffer`,
  `SaysOfField`).
  `Enumerates` and `SpeaksAsDescribed`, for any builds and any order of boots and reports.
  The invariant (`LayoutInv`) ties what the PC knows to the firmware that told it, until
  the next boot: each descriptor it has read is the one this build and profile has for
  that interface (`ReadSoFar`), each report it was sent came from its output's own
  instance, with that report's identifier and length (`SentSoFar`), and what it was
  answered about the gamepad's configuration is true (`AnsweredSoFar`). Below it are the
  tables: the profile's interfaces, the status interface always last (`InterfacesAre`),
  each described with the length of the descriptor it answers with (`DescribedSo`),
  lengths that add up to the total (`EndsAreSums`).
- `MotionProofs`: types, and `LeftOver` (less than a pixel remains, and less than the
  charge of a pulse), for any rates of 16 bits. `MovesAsTurned`, and that the pointer
  never goes against the turn, under `NarrowRates`: rates within a quarter of the 16-bit
  range's width either side of zero, so that no difference of two wraps; `gyro_flick`
  shows that this assumption is needed. The invariant (`Tracks`) is that the remainder is
  exactly what the turn is ahead of the pointer, that the charge and the pulses together
  are what was wanted, and that the bias a touch is measured from is still the bias. The
  lemmas before it are about the code's fixed-point operators: what `AsInt16`, `Quot`,
  `Soft`, `ShapeGyroDeltaQ16` and `StickDeflection` bound, that an average does not pass what
  it moves towards (`DriftBetween`), and that the clamp of `ConsumeMouseDelta`, whose
  remainder would be wrong, is never met (`ConsumeIs`). `StillIsStill`, for the same rates
  and a `Settle` of 856 reports or more (`RestsQuietly`): the error of the bias shrinks at
  every report at rest by a four-hundredth, rounded towards zero, until it is at most 3
  units of rate; a patience that counts six for every report it may still take is used up
  in 856 of them (`PatienceRunsOut`, `Learning`; the largest error the average learns from
  needs some 650, so 856 is enough without being least). An error of 3 shapes to nothing,
  so a rested controller moves nothing and leaves no remainder (`SoftMakesNothing`,
  `Unmoved`). The run's `Settle` is 1000.
  `SticksPointWhereTheyAre`: the code compares tangents by products, the property angles
  by squares, so what is needed is that squares keep the order of what is not negative
  (`SquaresKeepOrder`). `LeftPointsThere` and `SectorIsNearest` then hold for a stick at
  any pair of integers; the 65,536 positions only follow.
  `LeanReadsThePose`, for any poses, any times between and one jolt, has three parts.
  Filters: an average over m reports, whatever it rounds, leaves at most m - 1 parts in
  m of what it lacks (`Falls`), so from a table that halves every m reports it is known
  what is left after n (`Fallen`, `FallsOn`). Gravity is at rest after 640 reports, not
  more than 31 parts of 256 below each reading (`GravityRests`). From then on what the
  fused roll makes for stands still and the gyro adds no more than 29 a report, once its
  bias is known to be one a sensor at rest can have taught (`TurnIsSmall`): 1280 reports
  later it is within a quarter of a degree (`Following`). What counts as upright is the
  other end: until then the pose was the only one, so gravity is exactly what it reads
  and the bias lies between nothing and the drift (`AtHome`); a jolt may move the fused
  roll by 1.65 degrees, but starts the 250 reports again, and these leave half a degree
  of it (`HomeRead`). `LeanFollows` adds the two ends up to 76 hundredths of a degree,
  for all poses. It says nothing about the approximated root and arc tangent, which by
  themselves are out by up to 1.06 degrees, depending on how the controller is turned.
  So `LeanReadsTrue` takes a hypothesis, `Readable`: that they tell the rolls of the
  poses apart to 74 hundredths. The run's do, to 53. One jolt is the limit: nothing
  bounds what more of them, one after the other, would add to the fused roll.

TLC evaluated each strengthening as an invariant, on the instances of the runs, before
it was proved. The type invariants of `ModeStore`, `OutputReports`, `StatusHid`,
`StatusHub`, `TouchScroll`, `GyroPointer`, `UsbLayout` and `LeanEstimate` are theorems,
and so are `SavedBeforeReboot`, `RunsWhatIsStored`, `MovementPending` and
`ParsedForBootedMode`, which no run repeats.

The library's induction theorems take an operator as a parameter, which no installed prover
can instantiate. Where a proof goes through data of any length (the keys of a callback, the
fields of the payload and of a descriptor) it is by the least counterexample instead: a
set of naturals with a member has a least one (`LeastNat`, from `WFMin`), and what holds
of its predecessor rules it out. The recursive functions are unfolded the same way, once
a function that satisfies the equation is shown to exist.

Model-checked only, and why:

- Liveness, and the half of `ImplementsOutputReports` that is about fairness: the prover
  has no support for `ENABLED`.
- What `Readable` says of other poses than the run's: a true roll is no arithmetic of
  integers.

Every safety invariant and action property that a passing run checks is a theorem.

## Plan

The most important behaviour was modelled first: input to PC, what survives a switch,
the link to the controller; then what reports on it; then the arithmetic and the tables.
What is left, in order:

1. A bridge composed of `StatusHub` and `StatusReaders`, with the pump between them, so
   that a wedged hub is seen to stop the readers.
2. The overlay's fallback to the bridge's event stream, and its timing statistics.
3. `GyroPointer` under `HostReader`'s reports: whether a report lost while a finger
   leaves and comes back joins two touches.

Theorems still worth proving, once they are composed: that `StatusReaders` and `StatusHub`
together deliver in order.

## Not modelled

Build files: they choose the gamepad backend and the profiles, which are constants here.
Drawing in the overlay, its charts of timing and its event-stream fallback: no decision
of the connection depends on them. `ApplyStickDeadzoneSkip`, which is compiled only in a
configuration no build sets. Reports without an identifier. Strings, ranges and logical
units in descriptors, except the gamepads' usages. Keepalives and HTTP in the bridge.
They are listed in `PROJECT.json` with the reason for each. TinyUSB, the flash chip, the
PC, the browser, IOKit and the user are modelled as external, from what the code relies
on.
