------------------------------ MODULE Mailbox ------------------------------
(***************************************************************************)
(* The RP mailbox: the request block at $B000 that the 6502 and the RP     *)
(* firmware share, the FSM of taskMailbox (mailbox.cpp), the console       *)
(* transfers (rp_console_io.cpp) and the two byte queues (input.cpp).      *)
(*                                                                         *)
(* The firmware is one loop.  It touches 6502 memory by "snooping": the    *)
(* CPU is halted, one location or block is accessed, the CPU goes on.  The *)
(* 6502 therefore runs between two snoops and never during one, and a step *)
(* of the firmware below ends where the 6502 can see or change something   *)
(* that matters.  Reads and writes of fields that a waiting 6502 neither   *)
(* reads nor changes (the arguments, the clearing of the result fields)    *)
(* are part of the step that uses them.                                    *)
(*                                                                         *)
(* A request is a command and a length.  Typed characters are numbered, so *)
(* that a lost, repeated or reordered one shows; of the bytes written to   *)
(* the display their places in the text are kept, and which of them are    *)
(* 0x00, as those do not reach the display.                                *)
(***************************************************************************)
EXTENDS Integers, Sequences, FiniteSets

CONSTANTS
  Chunk,      \* RP_CONSOLE_CHUNK_SIZE
  QCap,       \* the capacity of cpu_tx_fifo and vdu_tx_fifo
  PollMax,    \* the polls taskMailbox skips when nothing triggers it
  Lengths,    \* bound: the lengths of the transfers the 6502 asks for
  Zeros,      \* bound: the places in a text where its bytes are 0x00
  MaxTyped,   \* bound: the characters typed
  MaxResets   \* bound: the monitor's reset commands

ASSUME ConstantsAssumption ==
  /\ Chunk \in Nat \ {0}
  /\ QCap \in Nat \ {0}
  /\ PollMax \in Nat
  /\ Lengths \subseteq Nat
  /\ {} \in Zeros /\ Zeros \subseteq SUBSET Nat
  /\ MaxTyped \in Nat
  /\ MaxResets \in Nat

VARIABLES
  \* 6502 memory
  cmd,       \* RP_GROUP and RP_CMD
  len,       \* RP_ARG1: the length asked for
  status,    \* RP_STATUS
  doorbell,  \* RP_DOORBELL is not RP_DOORBELL_NONE
  res,       \* RP_RES0
  err,       \* RP_ERR
  rdy,       \* RP_CONSOLE_RDY
  getchar,   \* RP_GETCHAR, 0 when free
  userBuf,   \* the characters console.read put at RP_ARG0, not yet used
  \* the firmware
  pc,        \* where loop() is
  mailbox_state,
  lCount,
  lastCheck,          \* taskMailbox believes the CPU queue empty
  trigger,            \* gMMUIOTrigger
  gConsoleLen,
  gConsoleRemaining,
  gConsoleCurrent,    \* as an offset from gConsoleTarget
  reply,              \* what set_done or set_error is writing
  todo,               \* the stores it has still to make
  cpuQ,               \* cpu_tx_fifo
  vduCount,           \* the bytes in vdu_tx_fifo
  context,            \* gCurrentContext: the boot context 0, or another
  \* the 6502
  cpu,       \* "running", "reset", or "resetting" until the loop goes round
  client,    \* "idle" or "waiting" for its answer
  \* history
  executed,  \* times the current request was dispatched
  nuls,      \* the places of the 0x00 bytes in the text to be written
  accepted,  \* the places of the bytes of it that reached vdu_tx_fifo
  typed,     \* characters that entered cpu_tx_fifo
  spent,     \* characters the 6502 has used, or a reset threw away
  resets

request6502 == <<cmd, len, client, nuls, accepted>>
console     == <<gConsoleLen, gConsoleRemaining, gConsoleCurrent>>
input       == <<cpuQ, getchar, userBuf, typed, spent>>
answer6502  == <<status, doorbell, res, err>>
completion  == <<reply, todo>>
machine     == <<cpu, resets, context>>
poll        == <<lCount, trigger>>
ready       == <<rdy, lastCheck>>

vars == <<request6502, console, input, answer6502, completion, machine, poll,
          ready, pc, mailbox_state, vduCount, executed>>

Transfers == {"console.write", "console.read"}

Commands == Transfers \union {"fs.exec", "unknown"}

NoRequest == [cmd |-> "none", len |-> 0]

(* The other commands have arguments of their own, which do not matter.    *)
Requests == [cmd : Transfers, len : Lengths] \union [cmd : Commands \ Transfers, len : {0}]

Statuses == {"IDLE", "BUSY", "DONE", "ERROR"}

Done(n) == [status |-> "DONE", res |-> n, err |-> "OK"]

Failed(e) == [status |-> "ERROR", res |-> 0, err |-> e]

Replies == [status : {"DONE", "ERROR"}, res : Nat, err : {"OK", "EIO", "EINVAL"}]

Fields == {"result", "error", "status", "doorbell"}

Members(s) == {s[i] : i \in DOMAIN s}

lesser(a, b) == IF a < b THEN a ELSE b

TypeOK ==
  /\ [cmd |-> cmd, len |-> len] \in Requests \union {NoRequest}
  /\ status \in Statuses
  /\ doorbell \in BOOLEAN
  /\ res \in Nat
  /\ err \in {"OK", "EIO", "EINVAL"}
  /\ rdy \in BOOLEAN
  /\ getchar \in 0 .. MaxTyped
  /\ userBuf \in Seq(1 .. MaxTyped) /\ Len(userBuf) <= Chunk
  /\ pc \in {"tasks", "ready", "fsm", "doorbell", "status", "dispatch", "reply"}
  /\ mailbox_state \in {"mbINIT", "mbIDLE", "mbWRITE", "mbREAD", "mbDONE"}
  /\ lCount \in 0 .. PollMax
  /\ lastCheck \in BOOLEAN
  /\ trigger \in BOOLEAN
  /\ gConsoleLen \in Nat
  /\ gConsoleRemaining \in Nat
  /\ gConsoleCurrent \in Nat
  /\ reply \in Replies
  /\ todo \in Seq(Fields)
  /\ cpuQ \in Seq(1 .. MaxTyped) /\ Len(cpuQ) <= QCap
  /\ vduCount \in 0 .. QCap
  /\ context \in {0, 1}
  /\ cpu \in {"running", "reset", "resetting"}
  /\ client \in {"idle", "waiting"}
  /\ executed \in 0 .. 2
  /\ nuls \subseteq Nat
  /\ accepted \in Seq(Nat)
  /\ typed \in 0 .. MaxTyped
  /\ spent \subseteq 1 .. MaxTyped
  /\ resets \in 0 .. MaxResets

(* setup() has called initMailbox, initInput, initSimpleIO and put the CPU *)
(* in reset; loop() is about to run.                                       *)
Init ==
  /\ cmd = "none" /\ len = 0 /\ status = "IDLE" /\ doorbell = FALSE
  /\ res = 0 /\ err = "OK" /\ rdy = FALSE /\ getchar = 0 /\ userBuf = <<>>
  /\ pc = "tasks" /\ mailbox_state = "mbINIT"
  /\ lCount = 0 /\ lastCheck = TRUE /\ trigger = FALSE
  /\ gConsoleLen = 0 /\ gConsoleRemaining = 0 /\ gConsoleCurrent = 0
  /\ reply = Done(0) /\ todo = <<>>
  /\ cpuQ = <<>> /\ vduCount = 0 /\ context = 0
  /\ cpu = "reset" /\ client = "idle"
  /\ executed = 0 /\ nuls = {} /\ accepted = <<>>
  /\ typed = 0 /\ spent = {} /\ resets = 0

-----------------------------------------------------------------------------
(* The tasks of loop() other than taskMailbox, as far as they touch what   *)
(* the mailbox uses.                                                       *)

(* monitorConsoleInput, from the keyboard or the serial line: writeCPUQ    *)
(* refuses the character when the queue is full.                           *)
monitorConsoleInput ==
  /\ pc = "tasks"
  /\ typed < MaxTyped
  /\ Len(cpuQ) < QCap
  /\ typed' = typed + 1
  /\ cpuQ' = Append(cpuQ, typed')
  /\ UNCHANGED <<getchar, userBuf, spent>>
  /\ UNCHANGED <<request6502, console, answer6502, completion, machine, poll,
                 ready, pc, mailbox_state, vduCount, executed>>

(* taskSimpleIO hands one character to the 6502 while context 0 is mapped. *)
(* The 6502 only ever frees the location, so test and store are one step.  *)
simple_getchar ==
  /\ pc = "tasks"
  /\ context = 0
  /\ getchar = 0
  /\ cpuQ # <<>>
  /\ getchar' = Head(cpuQ)
  /\ cpuQ' = Tail(cpuQ)
  /\ trigger' = FALSE
  /\ UNCHANGED <<userBuf, typed, spent, lCount>>
  /\ UNCHANGED <<request6502, console, answer6502, completion, machine,
                 ready, pc, mailbox_state, vduCount, executed>>

(* taskScheduler carries out the 6502's CMD6502_CONTEXT_SWITCH.            *)
schedSwitchcontext(c) ==
  /\ pc = "tasks"
  /\ cpu = "running"
  /\ context' = c
  /\ trigger' = FALSE
  /\ UNCHANGED <<cpu, resets, lCount>>
  /\ UNCHANGED <<request6502, console, input, answer6502, completion,
                 ready, pc, mailbox_state, vduCount, executed>>

(* The monitor's reset: set6502State(sRESET), stopIRQTimer,                *)
(* initCmdInterface, initMailbox.  The 6502 is in reset throughout.        *)
(* mailbox_state and lastCheck are not touched, nor are the queues.        *)
cmdReset ==
  /\ pc = "tasks"
  /\ resets < MaxResets
  /\ resets' = resets + 1
  /\ cpu' = "resetting"
  /\ context' = 0
  /\ client' = "idle"
  /\ cmd' = "none" /\ len' = 0
  /\ status' = "IDLE" /\ doorbell' = FALSE /\ res' = 0 /\ err' = "OK"
  /\ gConsoleLen' = 0 /\ gConsoleRemaining' = 0 /\ gConsoleCurrent' = 0
  /\ rdy' = FALSE
  /\ trigger' = FALSE
  /\ getchar' = 0
  /\ userBuf' = <<>>
  /\ spent' = spent \union Members(userBuf) \union ({getchar} \ {0})
  /\ executed' = 0
  /\ nuls' = {}
  /\ accepted' = <<>>
  /\ UNCHANGED <<cpuQ, typed, lastCheck, lCount>>
  /\ UNCHANGED <<completion, pc, mailbox_state, vduCount>>

(* The monitor's go.  taskICMonitor reads one character a turn of loop(),  *)
(* so at least one turn lies between reset and go.                         *)
cmdGo ==
  /\ pc = "tasks"
  /\ cpu = "reset"
  /\ cpu' = "running"
  /\ UNCHANGED <<resets, context>>
  /\ UNCHANGED <<request6502, console, input, answer6502, completion, poll,
                 ready, pc, mailbox_state, vduCount, executed>>

(* taskInput empties the display queue just before taskMailbox.  By then   *)
(* the other tasks' snoops may have cleared the trigger, or set it by      *)
(* touching the I/O page, and a 6502 in reset has stayed so for a turn.    *)
taskInput ==
  /\ pc = "tasks"
  /\ pc' = "ready"
  /\ vduCount' = 0
  /\ trigger' \in BOOLEAN
  /\ cpu' = IF cpu = "resetting" THEN "reset" ELSE cpu
  /\ UNCHANGED <<resets, context, lCount>>
  /\ UNCHANGED <<request6502, console, input, answer6502, completion, ready,
                 mailbox_state, executed>>

-----------------------------------------------------------------------------
(* taskMailbox.                                                            *)

(* RP_CONSOLE_RDY is written when the CPU queue became empty or nonempty;  *)
(* a write to 6502 memory ends with enableMMUInterrupt, which clears the   *)
(* trigger.                                                                *)
MutantUpdateReady ==
  /\ pc = "ready"
  /\ pc' = "fsm"
  /\ IF cpuQ # <<>> /\ lastCheck
     THEN rdy' = TRUE /\ lastCheck' = FALSE /\ trigger' = FALSE
     ELSE UNCHANGED <<rdy, lastCheck, trigger>>
  /\ UNCHANGED lCount
  /\ UNCHANGED <<request6502, console, input, answer6502, completion, machine,
                 mailbox_state, vduCount, executed>>

UpdateReady ==
  /\ pc = "ready"
  /\ pc' = "fsm"
  /\ IF (cpuQ = <<>>) # lastCheck
     THEN rdy' = (cpuQ # <<>>) /\ lastCheck' = (cpuQ = <<>>) /\ trigger' = FALSE
     ELSE UNCHANGED <<rdy, lastCheck, trigger>>
  /\ UNCHANGED lCount
  /\ UNCHANGED <<request6502, console, input, answer6502, completion, machine,
                 mailbox_state, vduCount, executed>>

(* mbINIT and mbDONE only move on to mbIDLE.                               *)
ToIdle ==
  /\ pc = "fsm"
  /\ mailbox_state \in {"mbINIT", "mbDONE"}
  /\ mailbox_state' = "mbIDLE"
  /\ pc' = "tasks"
  /\ UNCHANGED <<request6502, console, input, answer6502, completion, machine,
                 poll, ready, vduCount, executed>>

(* A poll is due on a trigger, or when enough turns went by without one.   *)
PollDue == trigger \/ lCount >= PollMax

SkipPoll ==
  /\ pc = "fsm"
  /\ mailbox_state = "mbIDLE"
  /\ ~PollDue
  /\ lCount' = lCount + 1
  /\ pc' = "tasks"
  /\ UNCHANGED trigger
  /\ UNCHANGED <<request6502, console, input, answer6502, completion, machine,
                 ready, mailbox_state, vduCount, executed>>

StartPoll ==
  /\ pc = "fsm"
  /\ mailbox_state = "mbIDLE"
  /\ PollDue
  /\ trigger' = FALSE
  /\ lCount' = 0
  /\ pc' = "doorbell"
  /\ UNCHANGED <<request6502, console, input, answer6502, completion, machine,
                 ready, mailbox_state, vduCount, executed>>

(* A poll that trusts the doorbell alone. *)
MutantLookDoorbell ==
  /\ pc = "doorbell"
  /\ pc' = IF doorbell THEN "dispatch" ELSE "tasks"
  /\ UNCHANGED <<request6502, console, input, answer6502, completion, machine,
                 poll, ready, mailbox_state, vduCount, executed>>

(* The two reads of the condition; the 6502 may submit between them.       *)
LookDoorbell ==
  /\ pc = "doorbell"
  /\ pc' = IF doorbell THEN "dispatch" ELSE "status"
  /\ UNCHANGED <<request6502, console, input, answer6502, completion, machine,
                 poll, ready, mailbox_state, vduCount, executed>>

LookStatus ==
  /\ pc = "status"
  /\ pc' = IF status = "BUSY" THEN "dispatch" ELSE "tasks"
  /\ UNCHANGED <<request6502, console, input, answer6502, completion, machine,
                 poll, ready, mailbox_state, vduCount, executed>>

-----------------------------------------------------------------------------
(* Completion: set_done and set_error store the result fields, then        *)
(* RP_STATUS, then clear the doorbell.                                     *)

(* The status published before the result it announces. *)
MutantStatusFirst == <<"status", "result", "error", "doorbell">>

(* A completion that forgets rp_clear_doorbell. *)
MutantDoorbellKept == <<"result", "error", "status">>

CompletionOrder == <<"result", "error", "status", "doorbell">>

(* The handler returns mbDONE after it has set a reply.                    *)
Complete(r) ==
  /\ reply' = r
  /\ todo' = CompletionOrder
  /\ pc' = "reply"
  /\ mailbox_state' = "mbDONE"

StoreReply ==
  /\ pc = "reply"
  /\ res' = IF Head(todo) = "result" THEN reply.res ELSE res
  /\ err' = IF Head(todo) = "error" THEN reply.err ELSE err
  /\ status' = IF Head(todo) = "status" THEN reply.status ELSE status
  /\ doorbell' = (doorbell /\ Head(todo) # "doorbell")
  /\ trigger' = FALSE
  /\ todo' = Tail(todo)
  /\ IF Len(todo) = 1
     THEN pc' = "tasks" /\ reply' = Done(0)
     ELSE UNCHANGED <<pc, reply>>
  /\ UNCHANGED lCount
  /\ UNCHANGED <<request6502, console, input, machine, ready, mailbox_state,
                 vduCount, executed>>

-----------------------------------------------------------------------------
(* Dispatch through the central command table.                             *)
Dispatch(c) ==
  /\ pc = "dispatch"
  /\ cmd = c
  /\ executed' = IF executed = 0 THEN 1 ELSE 2
  /\ UNCHANGED <<request6502, input, machine, lCount, ready, vduCount>>

(* rp_mailbox_clear_result_fields, before the handler of a known command.  *)
ClearResultFields ==
  /\ res' = 0
  /\ err' = "OK"
  /\ trigger' = FALSE
  /\ UNCHANGED <<status, doorbell>>

rp_handle_unknown_command ==
  /\ \E c \in {"unknown", "none"} : Dispatch(c)
  /\ Complete(Failed("EINVAL"))
  /\ UNCHANGED <<answer6502, trigger, console>>

(* A request for no bytes is done at once.                                 *)
HandleEmpty ==
  /\ \E c \in {"console.write", "console.read"} : Dispatch(c)
  /\ len = 0
  /\ ClearResultFields
  /\ gConsoleLen' = 0
  /\ UNCHANGED <<gConsoleRemaining, gConsoleCurrent>>
  /\ Complete(Done(0))

rp_console_io_handle_write ==
  /\ Dispatch("console.write")
  /\ len # 0
  /\ ClearResultFields
  /\ gConsoleLen' = len
  /\ gConsoleRemaining' = len
  /\ gConsoleCurrent' = 0
  /\ mailbox_state' = "mbWRITE"
  /\ pc' = "tasks"
  /\ UNCHANGED completion

rp_console_io_handle_read ==
  /\ Dispatch("console.read")
  /\ len # 0
  /\ ClearResultFields
  /\ gConsoleLen' = lesser(len, Chunk)
  /\ mailbox_state' = "mbREAD"
  /\ pc' = "tasks"
  /\ UNCHANGED <<completion, gConsoleRemaining, gConsoleCurrent>>

(* fs.exec runs to its end inside the dispatch; what it answers is the     *)
(* file system's business.                                                 *)
rp_fs_mailbox_handle_exec ==
  /\ Dispatch("fs.exec")
  /\ ClearResultFields
  /\ \E r \in {Done(0), Failed("EIO"), Failed("EINVAL")} : Complete(r)
  /\ UNCHANGED console

-----------------------------------------------------------------------------
(* The long-running console transfers, one slice per turn of loop().       *)

(* The size of the last slice not cut down to what is left. *)
MutantSlice(remaining) == Chunk

Slice(remaining) == lesser(remaining, Chunk)

(* The current address is not moved on past the slice. *)
MutantNextOffset(current, n) == current

NextOffset(current, n) == current + n

(* The text's bytes go to the display queue one by one: a 0x00 is left     *)
(* out, and a byte that finds the queue full is lost.  The mutant pushes   *)
(* the 0x00 as well.                                                       *)
MutantVDUQ(q, i) ==
  IF q.count = QCap THEN q
  ELSE [accepted |-> Append(q.accepted, i), count |-> q.count + 1]

writeVDUQ(q, i) ==
  IF i \in nuls \/ q.count = QCap THEN q
  ELSE [accepted |-> Append(q.accepted, i), count |-> q.count + 1]

rp_console_output_bytes(n) ==
  LET after[i \in 0 .. n] ==
        IF i = 0 THEN [accepted |-> accepted, count |-> vduCount]
        ELSE writeVDUQ(after[i - 1], gConsoleCurrent + i)
  IN after[n]

WriteSlice ==
  /\ pc = "fsm"
  /\ mailbox_state = "mbWRITE"
  /\ gConsoleRemaining # 0
  /\ LET n == Slice(gConsoleRemaining)
         q == rp_console_output_bytes(n)
     IN /\ accepted' = q.accepted
        /\ vduCount' = q.count
        /\ gConsoleCurrent' = NextOffset(gConsoleCurrent, n)
        /\ gConsoleRemaining' = gConsoleRemaining - n
  /\ pc' = "tasks"
  /\ UNCHANGED <<gConsoleLen, cmd, len, client, nuls>>
  /\ UNCHANGED <<input, answer6502, completion, machine, poll, ready,
                 mailbox_state, executed>>

FinishWrite ==
  /\ pc = "fsm"
  /\ mailbox_state = "mbWRITE"
  /\ gConsoleRemaining = 0
  /\ Complete(Done(gConsoleLen))
  /\ UNCHANGED <<request6502, console, input, answer6502, machine, poll, ready,
                 vduCount, executed>>

(* rp_console_input_bytes: what the queue holds, up to the length.  The    *)
(* mutants wait for the whole length, or pop one character too many.       *)
MutantInputBytes(n) == IF Len(cpuQ) < n THEN 0 ELSE n

InputBytes(n) == lesser(n, Len(cpuQ))

MutantLeft(n) == SubSeq(cpuQ, n + 2, Len(cpuQ))

Left(n) == SubSeq(cpuQ, n + 1, Len(cpuQ))

(* The characters go to the 6502's buffer; a read of an empty queue, or of *)
(* no length, is tried again next turn.                                    *)
FinishRead ==
  /\ pc = "fsm"
  /\ mailbox_state = "mbREAD"
  /\ LET n == InputBytes(gConsoleLen)
     IN /\ n > 0
        /\ userBuf' = SubSeq(cpuQ, 1, n)
        /\ cpuQ' = Left(n)
        /\ Complete(Done(n))
  /\ UNCHANGED <<getchar, typed, spent>>
  /\ trigger' = FALSE
  /\ UNCHANGED lCount
  /\ UNCHANGED <<request6502, console, answer6502, machine, ready,
                 vduCount, executed>>

RetryRead ==
  /\ pc = "fsm"
  /\ mailbox_state = "mbREAD"
  /\ InputBytes(gConsoleLen) = 0
  /\ pc' = "tasks"
  /\ UNCHANGED <<request6502, console, input, answer6502, completion, machine,
                 poll, ready, mailbox_state, vduCount, executed>>

-----------------------------------------------------------------------------
(* The program on the 6502, as mailbox.h expects it.  The stores of        *)
(* RP_STATUS and RP_DOORBELL that end a submission are adjacent.  The      *)
(* doorbell's MMU interrupt may be missed (cmd.cpp, line 41).              *)
Submit(r) ==
  /\ cpu = "running"
  /\ client = "idle"
  /\ client' = "waiting"
  /\ cmd' = r.cmd
  /\ len' = r.len
  /\ status' = "BUSY"
  /\ doorbell' = TRUE
  /\ trigger' \in {trigger, TRUE}
  /\ executed' = 0
  /\ nuls' \in IF r.cmd = "console.write" THEN {z \in Zeros : z \subseteq 1 .. r.len} ELSE {{}}
  /\ accepted' = <<>>
  /\ UNCHANGED <<res, err, lCount>>
  /\ UNCHANGED <<console, input, completion, machine, ready, pc,
                 mailbox_state, vduCount>>

Collect ==
  /\ cpu = "running"
  /\ client = "waiting"
  /\ status \in {"DONE", "ERROR"}
  /\ client' = "idle"
  /\ spent' = spent \union Members(SubSeq(userBuf, 1, lesser(res, Len(userBuf))))
  /\ userBuf' = <<>>
  /\ nuls' = {}
  /\ accepted' = <<>>
  /\ UNCHANGED <<cmd, len, cpuQ, getchar, typed>>
  /\ UNCHANGED <<console, answer6502, completion, machine, poll, ready, pc,
                 mailbox_state, vduCount, executed>>

TakeChar ==
  /\ cpu = "running"
  /\ getchar # 0
  /\ spent' = spent \union {getchar}
  /\ getchar' = 0
  /\ UNCHANGED <<cpuQ, userBuf, typed>>
  /\ UNCHANGED <<request6502, console, answer6502, completion, machine, poll,
                 ready, pc, mailbox_state, vduCount, executed>>

-----------------------------------------------------------------------------
taskMailbox ==
  \/ UpdateReady \/ ToIdle \/ SkipPoll \/ StartPoll
  \/ LookDoorbell \/ LookStatus \/ StoreReply
  \/ rp_handle_unknown_command \/ HandleEmpty
  \/ rp_console_io_handle_write \/ rp_console_io_handle_read
  \/ rp_fs_mailbox_handle_exec
  \/ WriteSlice \/ FinishWrite \/ FinishRead \/ RetryRead

OtherTasks ==
  \/ monitorConsoleInput \/ simple_getchar
  \/ \E c \in {0, 1} : schedSwitchcontext(c)
  \/ cmdReset \/ cmdGo

Program ==
  \/ \E r \in Requests : Submit(r)
  \/ Collect
  \/ TakeChar

Next == taskMailbox \/ taskInput \/ OtherTasks \/ Program

Spec == Init /\ [][Next]_vars

(* loop() always comes round, and the 6502 looks at the status in a loop.  *)
(* Typing, monitor commands and interrupts owe nobody anything.            *)
FairSpec ==
  /\ Spec
  /\ WF_vars(taskInput \/ taskMailbox)
  /\ WF_vars(Collect)

-----------------------------------------------------------------------------
Answered == client = "waiting" /\ status \in {"DONE", "ERROR"}

(* One dispatch for one request, whichever of doorbell and status brought  *)
(* the firmware to look: no answer without one, and never a second one.    *)
ExactlyOnce ==
  /\ executed <= 1
  /\ Answered => executed = 1

(* The places of the text that writeVDUQ is to push.                       *)
Shown == (1 .. len) \ nuls

(* The bytes of console.write that reach the display queue are in the      *)
(* order of the text, none of them twice and none of them 0x00; and when   *)
(* the 6502 reads DONE every byte but the 0x00 is there, for a text whose  *)
(* other bytes fit the queue.  The length answered counts the 0x00, too.   *)
WriteComplete ==
  /\ \A i, j \in DOMAIN accepted : i < j => accepted[i] < accepted[j]
  /\ Members(accepted) \intersect nuls = {}
  /\ (Answered /\ cmd = "console.write" /\ Cardinality(Shown) <= QCap) => Members(accepted) = Shown

(* A typed character is in exactly one place: queued, in RP_GETCHAR, in    *)
(* the buffer of a read, used by the 6502, or thrown away by a reset.      *)
(* What console.read takes is older than all that stays queued.            *)
InputConserved ==
  LET queued == userBuf \o cpuQ
      slot   == {getchar} \ {0}
  IN /\ Members(queued) \union slot \union spent = 1 .. typed
     /\ Len(queued) + Cardinality(slot) + Cardinality(spent) = typed
     /\ \A i, j \in DOMAIN queued : i < j => queued[i] < queued[j]

(* The answers that fit a request.                                         *)
ValidAnswers(r) ==
  CASE r.cmd = "console.write" -> {Done(r.len)}
    [] r.cmd = "console.read"  ->
         IF r.len = 0 THEN {Done(0)} ELSE {Done(n) : n \in 1 .. lesser(r.len, Chunk)}
    [] r.cmd = "fs.exec"       -> {Done(0), Failed("EIO"), Failed("EINVAL")}
    [] r.cmd = "unknown"       -> {Failed("EINVAL")}

Protocol == INSTANCE RequestReply WITH
  Answers   <- [r \in Requests |-> ValidAnswers(r)],
  NoAnswer  <- Done(0),
  state     <- IF client = "idle" THEN "idle"
               ELSE IF Answered THEN "answered" ELSE "asked",
  request   <- IF client = "idle" THEN NoRequest ELSE [cmd |-> cmd, len |-> len],
  answer    <- IF Answered THEN [status |-> status, res |-> res, err |-> err]
               ELSE Done(0)

(* The shared block, with its separate stores of result, error, status and *)
(* doorbell, is the request/reply protocol the 6502 relies on.             *)
ImplementsProtocol == Protocol!Spec

(* Every request but a read of an empty queue is answered, though the      *)
(* doorbell's interrupt may be missed and a doorbell may be cleared by the *)
(* completion of the request before it.                                    *)
RequestServed ==
  (client = "waiting" /\ (cmd # "console.read" \/ len = 0)) ~> (client = "idle")

(* A read does not stay pending while there is input for it.               *)
ReadServed ==
  (client = "waiting" /\ cpuQ # <<>>) ~> (client = "idle" \/ cpuQ = <<>>)

(* RP_CONSOLE_RDY: "0 when no input available" (mailbox.h, line 40).       *)
ReadyShown ==
  /\ (cpuQ # <<>>) ~> (rdy \/ cpuQ = <<>>)
  /\ (cpuQ = <<>>) ~> (~rdy \/ cpuQ # <<>>)
=============================================================================
