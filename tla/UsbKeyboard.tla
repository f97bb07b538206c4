----------------------------- MODULE UsbKeyboard -----------------------------
(***************************************************************************)
(* usb_hid_input.cpp: the keyboard and the mouse on the USB bus.  TinyUSB's  *)
(* callbacks mount and unmount interfaces and hand over one report at a     *)
(* time, inside the storage task; taskUSBHIDInput, in the main loop, selects *)
(* a keyboard and a mouse, processes their reports, repeats the key that is *)
(* held and asks for the next report.                                       *)
(*                                                                         *)
(* The keyboards themselves, and who plugs them in, are the environment: a  *)
(* transfer that was asked for ends with the keys held at that moment.      *)
(* Times are choices: whether a delay is over when the task looks.  What a   *)
(* key becomes is kept by the kinds of key that differ.                     *)
(***************************************************************************)
EXTENDS Integers, Sequences, FiniteSets, Functions

CONSTANTS
  Interfaces,   \* HID interfaces, a dev_addr and instance each
  MAX_RECORDS,  \* USB_HID_MAX_RECORDS
  Reports,      \* the reports of a keyboard: records keys, modifier
  NoInterface

Roles == {"keyboard", "mouse"}
Up == [keys |-> <<>>, modifier |-> ""]

ASSUME KeyboardAssumption ==
  /\ IsFiniteSet(Interfaces) /\ NoInterface \notin Interfaces /\ "monitor" \notin Interfaces
  /\ MAX_RECORDS \in Nat
  /\ Up \in Reports
  /\ \A report \in Reports : report.keys \in Seq(STRING)

VARIABLES
  attached,      \* environment: the role of each interface plugged in, else ""
  held,          \* environment: the keys held on each
  g_hidRecords,  \* the mounted interfaces, by record
  port,          \* for each role: what is selected, its transfer and its report
  armDelay,      \* "idle", "started", "over": g_hidArmDelayStarted and its time
  lastReport,    \* g_lastKeyboardReport
  repeat,        \* the key being repeated, what it types and with which modifier
  consolePID,
  routedBy,      \* history: the keyboard that chose consolePID, or the monitor; not for 0
  astray         \* history: something was typed where the keyboard had no business

vars == <<attached, held, g_hidRecords, port, armDelay, lastReport, repeat, consolePID,
          routedBy, astray>>

Records == 1 .. MAX_RECORDS
NoRecord == [interface |-> NoInterface, role |-> ""]
NoRepeat == [key |-> "", modifier |-> "", ascii |-> <<>>]
NoPort == [selected |-> NoInterface, active |-> FALSE, pending |-> FALSE, removed |-> FALSE,
           report |-> Up]

Init ==
  /\ attached = [i \in Interfaces |-> ""]
  /\ held = [i \in Interfaces |-> Up]
  /\ g_hidRecords = [r \in Records |-> NoRecord]
  /\ port = [role \in Roles |-> NoPort]
  /\ armDelay = "idle"
  /\ lastReport = Up
  /\ repeat = NoRepeat
  /\ consolePID = 0
  /\ routedBy = NoInterface
  /\ astray = FALSE

-----------------------------------------------------------------------------
\* What a key types: a letter always something, a digit nothing with Ctrl.
usb_keyboard_keycode_to_ascii(key, modifier) ==
  IF key \in {"letter", "c", "digit"} /\ <<key, modifier>> # <<"digit", "ctrl">>
  THEN <<key, modifier>> ELSE <<>>

Routes == [F1 |-> 1, F10 |-> 0]

\* What a report changes is the record k.  A key is typed where the console
\* is; a function key moves it there; the break goes to the 6502 itself.
Typed(k) ==
  [k EXCEPT !.astray = @ \/ (k.pid # 0 /\ k.by \notin {port["keyboard"].selected, "monitor"})]

Routed(k, pid) ==
  [k EXCEPT !.pid = pid, !.by = IF pid = 0 THEN NoInterface ELSE port["keyboard"].selected]

Press(k, key, report) ==
  LET c == usb_keyboard_keycode_to_ascii(key, report.modifier)
  IN CASE key \in Range(lastReport.keys) -> k
       [] key = "c" /\ report.modifier = "ctrl" ->
            [k EXCEPT !.repeat = NoRepeat]
       [] key \in DOMAIN Routes -> Routed([k EXCEPT !.repeat = NoRepeat], Routes[key])
       [] key = "F11" -> [k EXCEPT !.repeat = NoRepeat]
       [] c = <<>> -> k
       [] OTHER ->
            [Typed(k) EXCEPT !.repeat = [key |-> key, modifier |-> report.modifier, ascii |-> c],
                             !.started = TRUE]

\* Keeps a key that has been released.
MutantRepeatUpdate(k, report) ==
  LET c == usb_keyboard_keycode_to_ascii(k.repeat.key, report.modifier)
  IN IF k.repeat = NoRepeat \/ report.modifier = k.repeat.modifier THEN k
     ELSE IF c = <<>> THEN [k EXCEPT !.repeat = NoRepeat]
     ELSE [k EXCEPT !.repeat.modifier = report.modifier, !.repeat.ascii = c]

usb_keyboard_repeat_update_from_report(k, report) ==
  LET c == usb_keyboard_keycode_to_ascii(k.repeat.key, report.modifier)
  IN IF k.repeat = NoRepeat THEN k
     ELSE IF k.repeat.key \notin Range(report.keys) THEN [k EXCEPT !.repeat = NoRepeat]
     ELSE IF report.modifier = k.repeat.modifier THEN k
     ELSE IF c = <<>> THEN [k EXCEPT !.repeat = NoRepeat]
     ELSE [k EXCEPT !.repeat.modifier = report.modifier, !.repeat.ascii = c]

usb_keyboard_process_report(k, report) ==
  LET pressed[n \in 0 .. Len(report.keys)] ==
        IF n = 0 THEN k ELSE Press(pressed[n - 1], report.keys[n], report)
  IN usb_keyboard_repeat_update_from_report(pressed[Len(report.keys)], report)

-----------------------------------------------------------------------------
\* The callbacks of TinyUSB.

\* Without a free record the interface is never used.
tuh_hid_mount_cb(i, role) ==
  LET free == {r \in Records : g_hidRecords[r] = NoRecord}
      first == CHOOSE r \in free : \A q \in free : r <= q
  IN /\ attached[i] = ""
     /\ attached' = [attached EXCEPT ![i] = role]
     /\ g_hidRecords' = IF free = {} THEN g_hidRecords
                        ELSE [g_hidRecords EXCEPT ![first] = [interface |-> i, role |-> role]]
     /\ UNCHANGED <<astray, held, port, armDelay, lastReport, repeat, consolePID, routedBy>>

\* Forgets the interface and leaves the repeated key as it is.
MutantUnmount(i) ==
  /\ attached[i] # ""
  /\ attached' = [attached EXCEPT ![i] = ""]
  /\ held' = [held EXCEPT ![i] = Up]
  /\ g_hidRecords' = [r \in Records |->
       IF g_hidRecords[r].interface = i THEN NoRecord ELSE g_hidRecords[r]]
  /\ port' = [role \in Roles |->
       IF port[role].selected = i THEN [NoPort EXCEPT !.removed = TRUE] ELSE port[role]]
  /\ lastReport' = IF port["keyboard"].selected = i THEN Up ELSE lastReport
  /\ UNCHANGED <<astray, armDelay, repeat, consolePID, routedBy>>

tuh_hid_umount_cb(i) ==
  /\ attached[i] # ""
  /\ attached' = [attached EXCEPT ![i] = ""]
  /\ held' = [held EXCEPT ![i] = Up]
  /\ g_hidRecords' = [r \in Records |->
       IF g_hidRecords[r].interface = i THEN NoRecord ELSE g_hidRecords[r]]
  /\ port' = [role \in Roles |->
       IF port[role].selected = i THEN [NoPort EXCEPT !.removed = TRUE] ELSE port[role]]
  /\ IF port["keyboard"].selected = i
     THEN lastReport' = Up /\ repeat' = NoRepeat
     ELSE UNCHANGED <<lastReport, repeat>>
  /\ UNCHANGED <<astray, armDelay, consolePID, routedBy>>

\* A transfer ends, with a report or with one that is too short to be one.
tuh_hid_report_received_cb(role, whole) ==
  /\ port[role].active
  /\ port' = [port EXCEPT ![role].active = FALSE, ![role].pending = @ \/ whole,
                          ![role].report = IF whole THEN held[port[role].selected] ELSE @]
  /\ UNCHANGED <<astray, attached, held, g_hidRecords, armDelay, lastReport, repeat, consolePID, routedBy>>

-----------------------------------------------------------------------------
\* The first mounted interface of a role, unless one is selected.
Select(role, p) ==
  LET fit == {r \in Records : g_hidRecords[r].role = role}
      first == CHOOSE r \in fit : \A q \in fit : r <= q
  IN IF p.selected # NoInterface \/ fit = {} THEN p
     ELSE [p EXCEPT !.selected = g_hidRecords[first].interface]

\* Takes a report off, and asks for the next where the time for it has come
\* and TinyUSB takes the request.
Serve(role, ready) ==
  LET p == Select(role, port[role])
  IN [p EXCEPT !.removed = FALSE, !.pending = FALSE, !.report = Up,
               !.active = @ \/ (p.selected # NoInterface /\ ready)]

\* Leaves the route to the keyboard that was removed.
MutantRoute == [pid |-> consolePID, by |-> routedBy]

\* The route at the beginning of the task: a keyboard's goes with it.
Route ==
  IF port["keyboard"].removed THEN [pid |-> 0, by |-> NoInterface]
  ELSE [pid |-> consolePID, by |-> routedBy]

\* Until 1500 ms after the first interface was seen it does nothing else.
Waits(over) == armDelay # "over" /\ ~(armDelay = "started" /\ over)

\* usb_keyboard_repeat_task, when the key was not pressed in this same pass.
Repeated(k, due) ==
  IF due /\ k.repeat # NoRepeat /\ ~k.started
  THEN Typed(k) ELSE k

taskUSBHIDInput(over, due, ready) ==
  LET p == port["keyboard"]
      k0 == [pid |-> Route.pid, by |-> Route.by, repeat |-> repeat, astray |-> astray,
             started |-> FALSE]
      k == Repeated(IF p.pending THEN usb_keyboard_process_report(k0, p.report) ELSE k0, due)
  IN /\ UNCHANGED <<attached, held, g_hidRecords>>
     /\ IF Waits(over)
        THEN /\ armDelay' = IF \E r \in Records : g_hidRecords[r] # NoRecord THEN "started" ELSE armDelay
             /\ port' = [role \in Roles |-> [port[role] EXCEPT !.removed = FALSE]]
             /\ consolePID' = Route.pid /\ routedBy' = Route.by
             /\ UNCHANGED <<astray, lastReport, repeat>>
        ELSE /\ armDelay' = "over"
             /\ port' = [role \in Roles |-> Serve(role, ready)]
             /\ lastReport' = IF p.pending THEN p.report ELSE lastReport
             /\ repeat' = k.repeat
             /\ consolePID' = k.pid /\ routedBy' = k.by
             /\ astray' = k.astray

-----------------------------------------------------------------------------
\* The environment, and the monitor's own choice of the console.
Hold(i, report) ==
  /\ attached[i] = "keyboard" /\ held[i] # report
  /\ held' = [held EXCEPT ![i] = report]
  /\ UNCHANGED <<astray, attached, g_hidRecords, port, armDelay, lastReport, repeat, consolePID, routedBy>>

cmdPID(pid) ==
  /\ consolePID' = pid /\ routedBy' = IF pid = 0 THEN NoInterface ELSE "monitor"
  /\ UNCHANGED <<astray, attached, held, g_hidRecords, port, armDelay, lastReport, repeat>>

Next ==
  \/ \E i \in Interfaces, role \in Roles : tuh_hid_mount_cb(i, role)
  \/ \E i \in Interfaces : tuh_hid_umount_cb(i)
  \/ \E role \in Roles, whole \in BOOLEAN : tuh_hid_report_received_cb(role, whole)
  \/ \E over, due, ready \in BOOLEAN : taskUSBHIDInput(over, due, ready)
  \/ \E i \in Interfaces, report \in Reports : Hold(i, report)
  \/ \E pid \in Range(Routes) : cmdPID(pid)

\* The loop goes round, its delays end, and not every transfer that it asks
\* for ends without a whole report.
Fairness ==
  /\ WF_vars(taskUSBHIDInput(TRUE, FALSE, TRUE))
  /\ SF_vars(tuh_hid_report_received_cb("keyboard", TRUE))

Spec == Init /\ [][Next]_vars

FairSpec == Spec /\ Fairness

-----------------------------------------------------------------------------
\* What is repeated is a key of the selected keyboard that its last report
\* has down, as the modifiers of that report make it.
RepeatIsHeld ==
  repeat # NoRepeat =>
    /\ port["keyboard"].selected # NoInterface
    /\ repeat.key \in Range(lastReport.keys)
    /\ repeat.modifier = lastReport.modifier
    /\ repeat.ascii = usb_keyboard_keycode_to_ascii(repeat.key, lastReport.modifier)
    /\ repeat.ascii # <<>>

\* What a keyboard types goes to context 0, or to the one that this keyboard
\* or the monitor chose: never where a keyboard that was since pulled out had
\* been switched to, with another in its place.
RouteIsOwn == ~astray

Runaway(key) ==
  repeat.key = key /\ key \notin Range(held[port["keyboard"].selected].keys)

\* A key that was released, a digit for all of them, is not repeated for ever.
RepeatStops == Runaway("digit") ~> ~Runaway("digit")
=============================================================================
