------------------------------ MODULE IrqSlot ------------------------------
(***************************************************************************)
(* The single interrupt slot between the RP and the 6502 (scheduler.cpp):  *)
(* the shared locations RP_IRQ_SOURCE and RP_IRQ_STATE, the IRQ pin, the   *)
(* flags of requests that wait for the slot, and the monitor commands that *)
(* use or clear it (monitor.cpp).                                          *)
(*                                                                         *)
(* An interrupt is generated by storing the state, storing the source and  *)
(* pulling the pin low; the 6502 acknowledges by clearing the source; the  *)
(* next taskIRQTimer sees that and frees the slot.  The 6502 runs between  *)
(* the firmware's accesses to its memory.  While the machine is in sRESET, *)
(* every such access ends with set6502State(sRESET), which also puts the   *)
(* IRQ pin high (p6502.cpp, line 334).                                     *)
(***************************************************************************)
EXTENDS Naturals

CONSTANTS
  Commands,     \* the monitor commands that are typed
  Careless,     \* interrupts are asked for, and the timer set, at any time;
                \* otherwise not in sRESET and not over an unanswered interrupt
  MaxCommands,  \* bound: monitor commands that take or clear the slot
  MaxBreaks     \* bound: Ctrl-C and break keys

AllCommands == {"irq", "monitor", "timer", "boot", "stop", "go", "reset"}

ASSUME IrqAssumption ==
  /\ Commands \subseteq AllCommands
  /\ Careless \in BOOLEAN
  /\ MaxCommands \in Nat
  /\ MaxBreaks \in Nat

VARIABLES
  source,                \* RP_IRQ_SOURCE
  state,                 \* RP_IRQ_STATE
  pin,                   \* the IRQ pin; low interrupts the 6502
  gIntrPending,
  gFsCompletionPending,
  gConsoleBreakPending,
  irqTimerEnabled,
  cpu,                   \* gSysState between two accesses
  pc,                    \* where the firmware is in taskIRQTimer and genIRQ6502
  vSrc,                  \* the parameter of genIRQ6502
  isr,                   \* the source the 6502's handler is working on
  fsOwed,                \* history: a completion the 6502 has not seen yet
  commands,              \* history, for the bound
  breaks                 \* history, for the bound

slot     == <<source, state, pin, gIntrPending>>
requests == <<gFsCompletionPending, gConsoleBreakPending>>
history  == <<commands, breaks>>

vars == <<slot, requests, irqTimerEnabled, cpu, pc, vSrc, isr, fsOwed, history>>

Sources == {"TIMER", "MONITOR", "FS_DONE", "CONSOLE_BREAK"}

TypeOK ==
  /\ source \in Sources \union {"NONE"}
  /\ state \in {"NONE", "PENDING"}
  /\ pin \in {"high", "low"}
  /\ gIntrPending \in BOOLEAN
  /\ gFsCompletionPending \in BOOLEAN
  /\ gConsoleBreakPending \in BOOLEAN
  /\ irqTimerEnabled \in BOOLEAN
  /\ cpu \in {"sRESET", "sHALTED", "sRUNNING"}
  /\ pc \in {"loop", "release", "store", "assert"}
  /\ vSrc \in Sources
  /\ isr \in Sources \union {"NONE"}
  /\ fsOwed \in BOOLEAN
  /\ commands \in 0 .. MaxCommands
  /\ breaks \in 0 .. MaxBreaks

(* initScheduler has run and setup() has put the CPU in reset.             *)
Init ==
  /\ source = "NONE" /\ state = "NONE" /\ pin = "high" /\ gIntrPending = FALSE
  /\ gFsCompletionPending = FALSE /\ gConsoleBreakPending = FALSE
  /\ irqTimerEnabled = FALSE
  /\ cpu = "sRESET" /\ pc = "loop" /\ vSrc = "TIMER" /\ isr = "NONE"
  /\ fsOwed = FALSE /\ commands = 0 /\ breaks = 0

(* The pin after an access to 6502 memory that leaves it at p.             *)
AfterSnoop(p) == IF cpu = "sRESET" THEN "high" ELSE p

-----------------------------------------------------------------------------
(* Requests for the slot, made by other tasks of loop().                   *)

(* Called when an fs.exec request completes, which only a 6502 that is not *)
(* in reset can have made.                                                 *)
requestFSCompletionIRQ ==
  /\ pc = "loop"
  /\ cpu # "sRESET"
  /\ gFsCompletionPending' = TRUE
  /\ fsOwed' = TRUE
  /\ UNCHANGED <<slot, gConsoleBreakPending, irqTimerEnabled, cpu, pc, vSrc, isr, history>>

requestConsoleBreakIRQ ==
  /\ pc = "loop"
  /\ Careless \/ cpu # "sRESET"
  /\ breaks < MaxBreaks
  /\ breaks' = breaks + 1
  /\ gConsoleBreakPending' = TRUE
  /\ UNCHANGED <<slot, gFsCompletionPending, irqTimerEnabled, cpu, pc, vSrc, isr, fsOwed, commands>>

-----------------------------------------------------------------------------
(* genIRQ6502: the slot must be free here and in 6502 memory.  A call that *)
(* finds it taken returns false and changes nothing.  The mutant lets the  *)
(* next interrupt replace a timer tick.                                    *)
MutantSlotIsFree == (~gIntrPending /\ state = "NONE") \/ source = "TIMER"

SlotIsFree == ~gIntrPending /\ state = "NONE"

GenState(src) ==
  /\ SlotIsFree
  /\ state' = "PENDING"
  /\ pin' = AfterSnoop(pin)
  /\ vSrc' = src
  /\ pc' = "store"
  /\ UNCHANGED <<source, gIntrPending>>

(* The source stored where the state belongs. *)
MutantGenSource ==
  /\ pc = "store"
  /\ state' = vSrc
  /\ pin' = AfterSnoop(pin)
  /\ pc' = "assert"
  /\ UNCHANGED <<source, gIntrPending, requests, irqTimerEnabled, cpu, vSrc, isr, fsOwed, history>>

GenSource ==
  /\ pc = "store"
  /\ source' = vSrc
  /\ pin' = AfterSnoop(pin)
  /\ pc' = "assert"
  /\ UNCHANGED <<state, gIntrPending, requests, irqTimerEnabled, cpu, vSrc, isr, fsOwed, history>>

(* Both requests dropped, whichever was granted. *)
MutantGenAssert ==
  /\ pc = "assert"
  /\ pin' = "low"
  /\ gIntrPending' = TRUE
  /\ gConsoleBreakPending' = FALSE
  /\ gFsCompletionPending' = FALSE
  /\ pc' = "loop"
  /\ UNCHANGED <<source, state, irqTimerEnabled, cpu, vSrc, isr, fsOwed, history>>

(* IRQPin::low, no access to memory; taskIRQTimer then drops the request.  *)
GenAssert ==
  /\ pc = "assert"
  /\ pin' = "low"
  /\ gIntrPending' = TRUE
  /\ gConsoleBreakPending' = (gConsoleBreakPending /\ vSrc # "CONSOLE_BREAK")
  /\ gFsCompletionPending' = (gFsCompletionPending /\ vSrc # "FS_DONE")
  /\ pc' = "loop"
  /\ UNCHANGED <<source, state, irqTimerEnabled, cpu, vSrc, isr, fsOwed, history>>

-----------------------------------------------------------------------------
(* taskIRQTimer.                                                           *)

(* An interrupt is out: has the 6502 cleared the source?                   *)
CheckAck ==
  /\ pc = "loop"
  /\ gIntrPending
  /\ pin' = AfterSnoop(pin)
  /\ pc' = IF source = "NONE" THEN "release" ELSE "loop"
  /\ UNCHANGED <<source, state, gIntrPending, requests, irqTimerEnabled, cpu, vSrc, isr, fsOwed, history>>

(* The slot is given free without clearing the state. *)
MutantRelease ==
  /\ pc = "release"
  /\ pin' = "high"
  /\ gIntrPending' = FALSE
  /\ pc' = "loop"
  /\ UNCHANGED <<source, state, requests, irqTimerEnabled, cpu, vSrc, isr, fsOwed, history>>

Release ==
  /\ pc = "release"
  /\ pin' = "high"
  /\ state' = "NONE"
  /\ gIntrPending' = FALSE
  /\ pc' = "loop"
  /\ UNCHANGED <<source, requests, irqTimerEnabled, cpu, vSrc, isr, fsOwed, history>>

(* File system before break. *)
MutantGrant(src) ==
  CASE gFsCompletionPending -> src = "FS_DONE"
    [] ~gFsCompletionPending /\ gConsoleBreakPending -> src = "CONSOLE_BREAK"
    [] OTHER -> irqTimerEnabled /\ src = "TIMER"

(* Break, then file system, then timer, which may or may not be due.       *)
Grant(src) ==
  CASE gConsoleBreakPending -> src = "CONSOLE_BREAK"
    [] ~gConsoleBreakPending /\ gFsCompletionPending -> src = "FS_DONE"
    [] OTHER -> irqTimerEnabled /\ src = "TIMER"

Generate ==
  /\ pc = "loop"
  /\ \E src \in Sources : Grant(src) /\ GenState(src)
  /\ UNCHANGED <<requests, irqTimerEnabled, cpu, isr, fsOwed, history>>

taskIRQTimer == CheckAck \/ Release \/ Generate \/ GenSource \/ GenAssert

-----------------------------------------------------------------------------
(* Monitor commands (taskICMonitor).                                       *)
Command(c) ==
  /\ c \in Commands
  /\ pc = "loop"
  /\ commands < MaxCommands
  /\ commands' = commands + 1
  /\ UNCHANGED breaks

cmdIRQ(c, src) ==
  /\ Command(c)
  /\ Careless \/ cpu # "sRESET"
  /\ GenState(src)
  /\ UNCHANGED <<requests, irqTimerEnabled, cpu, isr, fsOwed>>

(* startIRQTimer clears the slot but leaves gIntrPending as it is.         *)
startIRQTimer ==
  /\ irqTimerEnabled' = TRUE
  /\ source' = "NONE"
  /\ state' = "NONE"
  /\ pin' = "high"
  /\ UNCHANGED gIntrPending

stopIRQTimer ==
  /\ irqTimerEnabled' = FALSE
  /\ source' = "NONE"
  /\ state' = "NONE"
  /\ pin' = "high"
  /\ gIntrPending' = FALSE

cmdTimer ==
  /\ Command("timer")
  /\ Careless \/ (cpu # "sRESET" /\ ~gIntrPending)
  /\ startIRQTimer \/ stopIRQTimer
  /\ UNCHANGED <<requests, cpu, pc, vSrc, isr, fsOwed>>

cmdBoot ==
  /\ Command("boot")
  /\ Careless \/ ~gIntrPending
  /\ cpu' = "sRUNNING"
  /\ startIRQTimer
  /\ UNCHANGED <<requests, pc, vSrc, isr, fsOwed>>

cmdStop ==
  /\ Command("stop")
  /\ cpu = "sRUNNING"
  /\ cpu' = "sHALTED"
  /\ UNCHANGED <<slot, requests, irqTimerEnabled, pc, vSrc, isr, fsOwed>>

cmdGo ==
  /\ "go" \in Commands
  /\ pc = "loop"
  /\ cpu # "sRUNNING"
  /\ cpu' = "sRUNNING"
  /\ UNCHANGED <<slot, requests, irqTimerEnabled, pc, vSrc, isr, fsOwed, history>>

(* reset: whoever waited for a completion is gone.  The request flags stay. *)
cmdReset ==
  /\ Command("reset")
  /\ cpu' = "sRESET"
  /\ stopIRQTimer
  /\ isr' = "NONE"
  /\ fsOwed' = FALSE
  /\ UNCHANGED <<requests, pc, vSrc>>

Monitor ==
  \/ cmdIRQ("irq", "TIMER")
  \/ cmdIRQ("monitor", "MONITOR")
  \/ cmdTimer
  \/ cmdBoot
  \/ cmdStop
  \/ cmdGo
  \/ cmdReset

(* In sRESET the other tasks' accesses put the pin high as well.           *)
OtherSnoop ==
  /\ pc = "loop"
  /\ cpu = "sRESET"
  /\ pin = "low"
  /\ pin' = "high"
  /\ UNCHANGED <<source, state, gIntrPending, requests, irqTimerEnabled, cpu, pc, vSrc, isr, fsOwed, history>>

-----------------------------------------------------------------------------
(* The 6502's interrupt handler.  Entered again before the pin went high,  *)
(* it finds no source and returns; so it does not count as entered.        *)
EnterHandler ==
  /\ cpu = "sRUNNING"
  /\ pin = "low"
  /\ isr = "NONE"
  /\ source # "NONE"
  /\ isr' = source
  /\ fsOwed' = (fsOwed /\ source # "FS_DONE")
  /\ UNCHANGED <<slot, requests, irqTimerEnabled, cpu, pc, vSrc, history>>

Acknowledge ==
  /\ cpu = "sRUNNING"
  /\ isr # "NONE"
  /\ source' = "NONE"
  /\ isr' = "NONE"
  /\ UNCHANGED <<state, pin, gIntrPending, requests, irqTimerEnabled, cpu, pc, vSrc, fsOwed, history>>

Next ==
  \/ requestFSCompletionIRQ
  \/ requestConsoleBreakIRQ
  \/ taskIRQTimer
  \/ Monitor
  \/ OtherSnoop
  \/ EnterHandler
  \/ Acknowledge

Spec == Init /\ [][Next]_vars

(* loop() calls taskIRQTimer every turn, and a started 6502 handles and    *)
(* acknowledges its interrupts.                                            *)
FairSpec ==
  /\ Spec
  /\ WF_vars(taskIRQTimer)
  /\ WF_vars(EnterHandler)
  /\ WF_vars(Acknowledge)
  /\ WF_vars(cmdGo)

-----------------------------------------------------------------------------
(* The slot does not leak: when no interrupt is out the shared locations   *)
(* and the pin say so too, so the next genIRQ6502 succeeds; and a low pin  *)
(* always belongs to an interrupt taskIRQTimer will take back.             *)
SlotNeverLeaks ==
  /\ pc = "loop" /\ ~gIntrPending => source = "NONE" /\ state = "NONE"
  /\ pin = "low" => gIntrPending

(* "it cannot lose the completion notification" (scheduler.cpp, 154): a    *)
(* completion the 6502 has not seen is requested, on its way, or in the    *)
(* slot.                                                                   *)
NotificationHeld ==
  fsOwed => \/ gFsCompletionPending
            \/ source = "FS_DONE"

(* An interrupt in the slot leaves it only by the 6502's acknowledgement   *)
(* of that very interrupt, or by a reset.                                  *)
OnlyAcknowledged ==
  [][source # "NONE" /\ source' # source
       => source' = "NONE" /\ (isr = source \/ cpu' = "sRESET")]_vars

(* Every completion is seen by the 6502 in the end, and every break: the   *)
(* scheduler retries until the slot is free (scheduler.cpp, 72 to 83).     *)
FsDelivered == fsOwed ~> ~fsOwed

BreakDelivered == gConsoleBreakPending ~> isr = "CONSOLE_BREAK"
=============================================================================
