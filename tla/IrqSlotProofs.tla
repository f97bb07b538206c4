--------------------------- MODULE IrqSlotProofs ---------------------------
(***************************************************************************)
(* Proofs about the interrupt slot, for every set of monitor commands and  *)
(* every bound: the slot does not leak, and, when nobody types a command   *)
(* over an unanswered interrupt, none is lost.                             *)
(***************************************************************************)
EXTENDS IrqSlot, TLAPS

(* What the firmware knows at each place of taskIRQTimer and genIRQ6502.   *)
(* The source may already be NONE again when the pin is pulled low: a      *)
(* handler of an interrupt that a timer command wiped acknowledges late.   *)
Progress ==
  /\ pc = "release" => gIntrPending /\ source = "NONE"
  /\ pc = "store" => ~gIntrPending /\ source = "NONE"
  /\ pc = "assert" => ~gIntrPending /\ source \in {"NONE", vSrc}

IInv == TypeOK /\ SlotNeverLeaks /\ Progress

LEMMA InitIInv == Init => IInv
<1> SUFFICES ASSUME Init PROVE IInv
  OBVIOUS
<1>1. /\ gIntrPending \in BOOLEAN /\ gFsCompletionPending \in BOOLEAN
      /\ gConsoleBreakPending \in BOOLEAN /\ irqTimerEnabled \in BOOLEAN
      /\ fsOwed \in BOOLEAN
  BY DEF Init
<1>2. commands \in 0 .. MaxCommands /\ breaks \in 0 .. MaxBreaks
  BY IrqAssumption DEF Init
<1> QED
  BY <1>1, <1>2 DEF Init, IInv, TypeOK, SlotNeverLeaks, Progress, Sources

(* Every action of the firmware, the monitor and the 6502 preserves it.    *)
LEMMA StepIInv == IInv /\ [Next]_vars => IInv'
<1> SUFFICES ASSUME IInv, [Next]_vars
             PROVE  IInv'
  OBVIOUS
<1> USE IrqAssumption
    DEF IInv, TypeOK, SlotNeverLeaks, Progress, slot, requests, history, AfterSnoop
<1>1. CASE requestFSCompletionIRQ
  BY <1>1 DEF requestFSCompletionIRQ
<1>2. CASE requestConsoleBreakIRQ
  BY <1>2 DEF requestConsoleBreakIRQ
<1>3. CASE CheckAck
  BY <1>3 DEF CheckAck
<1>4. CASE Release
  BY <1>4 DEF Release
<1>5. CASE Generate
  BY <1>5 DEF Generate, GenState, SlotIsFree
<1>6. CASE GenSource
  BY <1>6 DEF GenSource
<1>7. CASE GenAssert
  BY <1>7 DEF GenAssert
<1>8. ASSUME NEW c, NEW src \in Sources, cmdIRQ(c, src)
      PROVE  IInv'
  BY <1>8 DEF cmdIRQ, Command, GenState, SlotIsFree
<1>9. CASE cmdTimer
  <2> USE <1>9 DEF cmdTimer, Command, startIRQTimer, stopIRQTimer
  <2>1. TypeOK'
    <3>1. gIntrPending' \in BOOLEAN /\ irqTimerEnabled' \in BOOLEAN
      OBVIOUS
    <3> QED
      BY <3>1
  <2>2. pin' = "high" /\ pc' = "loop" /\ source' = "NONE" /\ state' = "NONE"
    OBVIOUS
  <2> QED
    BY ONLY <2>1, <2>2 DEF IInv, SlotNeverLeaks, Progress
<1>10. CASE cmdBoot
  BY <1>10 DEF cmdBoot, Command, startIRQTimer
<1>11. CASE cmdStop
  BY <1>11 DEF cmdStop, Command
<1>12. CASE cmdGo
  BY <1>12 DEF cmdGo
<1>13. CASE cmdReset
  <2> USE <1>13 DEF cmdReset, Command, stopIRQTimer
  <2>1. TypeOK'
    <3>1. gIntrPending' \in BOOLEAN /\ irqTimerEnabled' \in BOOLEAN
      OBVIOUS
    <3>2. fsOwed' \in BOOLEAN
      OBVIOUS
    <3> QED
      BY <3>1, <3>2
  <2>2. pin' = "high" /\ pc' = "loop" /\ source' = "NONE" /\ state' = "NONE"
    OBVIOUS
  <2> QED
    BY ONLY <2>1, <2>2 DEF IInv, SlotNeverLeaks, Progress
<1>14. CASE OtherSnoop
  BY <1>14 DEF OtherSnoop
<1>15. CASE EnterHandler
  BY <1>15 DEF EnterHandler
<1>16. CASE Acknowledge
  BY <1>16 DEF Acknowledge
<1>17. CASE UNCHANGED vars
  BY <1>17 DEF vars
<1>18. "TIMER" \in Sources /\ "MONITOR" \in Sources
  BY DEF Sources
<1> QED
  BY <1>1, <1>2, <1>3, <1>4, <1>5, <1>6, <1>7, <1>8, <1>9, <1>10, <1>11,
     <1>12, <1>13, <1>14, <1>15, <1>16, <1>17, <1>18
     DEF Next, taskIRQTimer, Monitor

(* Whatever commands are typed when, the slot of scheduler.cpp is found    *)
(* free whenever gIntrPending says it is, and a low IRQ pin is always      *)
(* taken back.                                                             *)
THEOREM SlotSafe == Spec => [](TypeOK /\ SlotNeverLeaks)
<1>1. IInv => TypeOK /\ SlotNeverLeaks
  BY DEF IInv
<1> QED
  BY InitIInv, StepIInv, <1>1, PTL DEF Spec

-----------------------------------------------------------------------------
(* Without careless commands the handler works on what is in the slot, and *)
(* a granted completion is dropped only when its source is in place.       *)
Handled ==
  /\ isr # "NONE" => source = isr /\ pc = "loop" /\ gIntrPending
  /\ pc = "assert" => source = vSrc
  /\ isr = "FS_DONE" /\ fsOwed => gFsCompletionPending
  /\ NotificationHeld

CarefulInv == IInv /\ Handled

LEMMA InitCareful == Init => CarefulInv
BY InitIInv DEF Init, CarefulInv, Handled, NotificationHeld

LEMMA StepCareful ==
  ASSUME Careless = FALSE
  PROVE  CarefulInv /\ [Next]_vars => CarefulInv'
<1> SUFFICES ASSUME CarefulInv, [Next]_vars
             PROVE  Handled'
  BY StepIInv DEF CarefulInv
<1> USE DEF CarefulInv, IInv, TypeOK, SlotNeverLeaks, Progress, Handled,
            NotificationHeld, slot, requests, history
<1>1. CASE requestFSCompletionIRQ
  BY <1>1 DEF requestFSCompletionIRQ
<1>2. CASE requestConsoleBreakIRQ
  BY <1>2 DEF requestConsoleBreakIRQ
<1>3. CASE CheckAck
  BY <1>3 DEF CheckAck
<1>4. CASE Release
  BY <1>4 DEF Release
<1>5. CASE Generate
  BY <1>5 DEF Generate, GenState, SlotIsFree
<1>6. CASE GenSource
  BY <1>6 DEF GenSource, Sources
<1>7. CASE GenAssert
  BY <1>7 DEF GenAssert
<1>8. ASSUME NEW c, NEW src \in Sources, cmdIRQ(c, src)
      PROVE  Handled'
  BY <1>8 DEF cmdIRQ, Command, GenState, SlotIsFree
<1>9. CASE cmdTimer
  BY <1>9 DEF cmdTimer, Command, startIRQTimer, stopIRQTimer
<1>10. CASE cmdBoot
  BY <1>10 DEF cmdBoot, Command, startIRQTimer
<1>11. CASE cmdStop
  BY <1>11 DEF cmdStop, Command
<1>12. CASE cmdGo
  BY <1>12 DEF cmdGo
<1>13. CASE cmdReset
  BY <1>13 DEF cmdReset, Command, stopIRQTimer
<1>14. CASE OtherSnoop
  BY <1>14 DEF OtherSnoop
<1>15. CASE EnterHandler
  BY <1>15 DEF EnterHandler, Sources
<1>16. CASE Acknowledge
  BY <1>16 DEF Acknowledge
<1>17. CASE UNCHANGED vars
  BY <1>17 DEF vars
<1>18. "TIMER" \in Sources /\ "MONITOR" \in Sources
  BY DEF Sources
<1> QED
  BY <1>1, <1>2, <1>3, <1>4, <1>5, <1>6, <1>7, <1>8, <1>9, <1>10, <1>11,
     <1>12, <1>13, <1>14, <1>15, <1>16, <1>17, <1>18
     DEF Next, taskIRQTimer, Monitor

(* The scheduler "cannot lose the completion notification": true as long   *)
(* as no timer or boot command comes over an unanswered interrupt and no   *)
(* interrupt is asked for in sRESET.                                       *)
THEOREM NotificationNeverLost ==
  Careless = FALSE => (Spec => []NotificationHeld)
<1> SUFFICES ASSUME Careless = FALSE
             PROVE  Spec => []NotificationHeld
  OBVIOUS
<1>1. CarefulInv => NotificationHeld
  BY DEF CarefulInv, Handled
<1>2. CarefulInv /\ [Next]_vars => CarefulInv'
  BY StepCareful
<1> QED
  BY InitCareful, <1>1, <1>2, PTL DEF Spec

(* Under the same condition an interrupt leaves the slot only when the     *)
(* 6502 acknowledges it, or resets.                                        *)
THEOREM SlotOnlyAcknowledged ==
  Careless = FALSE => (Spec => OnlyAcknowledged)
<1> SUFFICES ASSUME Careless = FALSE
             PROVE  Spec => OnlyAcknowledged
  OBVIOUS
<1>1. CarefulInv /\ [Next]_vars => CarefulInv'
  BY StepCareful
<1>2. CarefulInv /\ [Next]_vars
        => [source # "NONE" /\ source' # source
              => source' = "NONE" /\ (isr = source \/ cpu' = "sRESET")]_vars
  <2> SUFFICES ASSUME CarefulInv, Next, source # "NONE", source' # source
               PROVE  source' = "NONE" /\ (isr = source \/ cpu' = "sRESET")
    BY DEF vars
  <2> USE DEF CarefulInv, IInv, SlotNeverLeaks, Progress, Handled, slot
  <2>1. CASE taskIRQTimer
    BY <2>1 DEF taskIRQTimer, CheckAck, Release, Generate, GenState, GenSource, GenAssert
  <2>2. CASE Monitor
    BY <2>2 DEF Monitor, Command, cmdIRQ, GenState, cmdTimer, cmdBoot, cmdStop,
                cmdGo, cmdReset, startIRQTimer, stopIRQTimer
  <2>3. CASE Acknowledge
    BY <2>3 DEF Acknowledge
  <2> QED
    BY <2>1, <2>2, <2>3
       DEF Next, requestFSCompletionIRQ, requestConsoleBreakIRQ, OtherSnoop, EnterHandler
<1> QED
  BY InitCareful, <1>1, <1>2, PTL DEF Spec, OnlyAcknowledged
=============================================================================
