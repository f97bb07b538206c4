-------------------------------- MODULE Bus --------------------------------
(***************************************************************************)
(* Who drives the 6502's bus: set6502State and the stepping routines of    *)
(* p6502.cpp, the memory accesses ("snoops") of neobus.cpp, the MMU's      *)
(* context and page registers of mmu.cpp, and the operations of the        *)
(* scheduler, the file system and the monitor that are made of them.       *)
(*                                                                         *)
(* An operation of the firmware is a list of primitive steps, kept in      *)
(* work.  Nearly every one saves the system state, takes the bus in sRPI   *)
(* or sHALTED, and restores the state it found: the 6502 goes on between   *)
(* any two steps that leave it in sRUNNING.                                *)
(*                                                                         *)
(* One register, AREG, holds the address of a memory access and, in its    *)
(* high nibble, the index of an MMU entry.  Addresses are that nibble.     *)
(***************************************************************************)
EXTENDS Integers, Sequences

CONSTANTS
  NumContexts,  \* MMU contexts
  NumPages,     \* NUM_CONTEXT_PAGES: the entries of a context
  Pages,        \* the values of an entry
  MailboxPage,  \* the nibble of the mailbox's address
  BootContext,  \* boot_context of memory.ini
  Operations,   \* the operations that are called
  MaxBurst,     \* the 6502 never writes in more than MaxBurst cycles running
  MaxOps        \* bound: operations that change what MMU, state or context should be

ASSUME BusAssumption ==
  /\ NumContexts \in Nat \ {0}
  /\ NumPages \in Nat \ {0, 1}
  /\ MailboxPage \in 0 .. NumPages - 1
  /\ BootContext \in 0 .. NumContexts - 1
  /\ MaxBurst \in 0 .. 7
  /\ MaxOps \in Nat

Contexts == 0 .. NumContexts - 1

Indexes == 0 .. NumPages - 1

AllOperations == {"snoop", "switch", "fs", "mmu", "ss", "go", "stop", "reset",
                  "zero", "syscfg", "sc", "page"}

VARIABLES
  gSysState,
  pins,             \* RESET, RDY and BE: TRUE is high
  gDir6502RW,
  gControlMode,
  gClockState,
  writes,           \* cycles before the 6502 is in a read cycle: 0 is now
  gCurrentContext,  \* also what the context register holds
  gCurrentIndex,
  areg,             \* the high nibble AREG holds
  mmu,              \* the entries: mmu[context][index]
  listening,        \* the MMUIO interrupt is enabled
  work,             \* the primitive steps still to be made
  saved,            \* the state an operation restores
  savedContext,     \* the context a file system access restores
  wanted,           \* history: what the last command made of state and context
  asked,            \* history: the entries memory.ini and page asked for
  edited,           \* history: the contexts page was used in
  stepped,          \* history: the stopped clock was stepped by a cycle
  ops               \* history, for the bound

control == <<gSysState, pins, gDir6502RW, gControlMode, gClockState>>
mapping == <<gCurrentIndex, areg, mmu>>
commands == <<wanted, asked, edited, ops>>

vars == <<control, writes, gCurrentContext, mapping, listening, work, saved,
          savedContext, commands, stepped>>

SysStates == {"sSTARTUP", "sBOOT", "sRESET", "sHALTED", "sRUNNING", "sREAD", "sRPI"}

TypeOK ==
  /\ gSysState \in SysStates
  /\ pins \in [reset : BOOLEAN, rdy : BOOLEAN, be : BOOLEAN]
  /\ gDir6502RW \in {"OUT", "IN"}
  /\ gControlMode \in {"RPI", "CPU"}
  /\ gClockState \in {"ON", "OFF"}
  /\ writes \in 0 .. MaxBurst
  /\ gCurrentContext \in Contexts \union {-1}
  /\ gCurrentIndex \in Indexes \union {-1}
  /\ areg \in Indexes
  /\ mmu \in [Contexts -> [Indexes -> Pages]]
  /\ listening \in BOOLEAN
  /\ saved \in SysStates
  /\ savedContext \in Contexts
  /\ wanted \in [state : SysStates, context : Contexts]
  /\ asked \in [Contexts -> [Indexes -> Pages]]
  /\ edited \subseteq Contexts
  /\ stepped \in BOOLEAN
  /\ ops \in 0 .. MaxOps

-----------------------------------------------------------------------------
(* The primitive steps.                                                    *)
Step(op)        == [op |-> op]
State(s)        == [op |-> "state", state |-> s]
Context(c)      == [op |-> "context", context |-> c]
Read(a)         == [op |-> "read", address |-> a]
Write(a)        == [op |-> "write", address |-> a]
ReadPage(c, i)  == [op |-> "readPage", context |-> c, index |-> i]
WritePage(c, i, p) == [op |-> "writePage", context |-> c, index |-> i, page |-> p]

(* A snoop that leaves the 6502 in control of its bus. *)
MutantSnoop(s) == <<Step("save"), State("sHALTED")>> \o s \o <<Step("restore")>>

(* What snoop_read6502Memory, snoop_write6502Memory and the monitor's MMU  *)
(* commands put around their accesses.                                     *)
Snoop(s) == <<Step("save"), State("sRPI")>> \o s \o <<Step("restore")>>

(* The file system forgets to go back to the context it found. *)
MutantContextAccess(c, s) ==
  Snoop(<<Step("saveContext"), Context(c)>> \o s)

(* rp_fs_mb_begin_context_access ... rp_fs_mb_end_context_access, and the  *)
(* same pair for the monitor's fsbulk.                                     *)
ContextAccess(c, s) ==
  Snoop(<<Step("saveContext"), Context(c)>> \o s \o <<Step("restoreContext")>>)

(* The interrupt is not enabled again after a switch. *)
MutantSwitch(c) ==
  <<Step("deaf"), Step("save"), State("sHALTED"), Context(c), Step("restore")>>

schedSwitchcontext(c) ==
  <<Step("deaf"), Step("save"), State("sHALTED"), Context(c), Step("restore"),
    Step("listen")>>

(* For every entry of every context, in the order of the code's loops.     *)
Entry(k) == <<(k - 1) \div NumPages, (k - 1) % NumPages>>

EveryPage(f) ==
  [k \in 1 .. NumContexts * NumPages |->
     WritePage(Entry(k)[1], Entry(k)[2], f[Entry(k)[1]][Entry(k)[2]])]

(* initMMU, with the default map of page i at index i.                     *)
initMMU ==
  <<Step("deaf")>>
  \o EveryPage([c \in Contexts |-> [i \in Indexes |-> CHOOSE p \in Pages : TRUE]])
  \o <<Context(0), Step("listen")>>

dumpMMUPageMap(c) == [k \in 1 .. NumPages |-> ReadPage(c, k - 1)]

(* Loading the cartridges of a configuration: one byte of each here.       *)
activateConfiguration ==
  <<State("sBOOT")>>
  \o [k \in 1 .. 2 * NumContexts |->
        IF k % 2 = 1 THEN Context((k - 1) \div 2) ELSE Write(NumPages - 1)]

bootSystemWithMenu == activateConfiguration \o <<Context(BootContext)>>

(* setup(), from init6502 on.                                              *)
setup(layout) ==
  <<State("sBOOT")>> \o initMMU \o EveryPage(layout) \o dumpMMUPageMap(0)
  \o bootSystemWithMenu \o Snoop(<<Write(MailboxPage)>>) \o <<State("sRESET")>>

(* setup6502 has left the pins as below; MMU entries hold anything.        *)
Init ==
  /\ gSysState = "sSTARTUP"
  /\ pins = [reset |-> FALSE, rdy |-> FALSE, be |-> FALSE]
  /\ gDir6502RW = "OUT" /\ gControlMode = "RPI" /\ gClockState = "OFF"
  /\ writes = 0
  /\ gCurrentContext = -1 /\ gCurrentIndex = -1 /\ areg = 0
  /\ mmu \in [Contexts -> [Indexes -> Pages]]
  /\ asked \in [Contexts -> [Indexes -> Pages]]
  /\ listening = FALSE
  /\ work = setup(asked)
  /\ saved = "sSTARTUP" /\ savedContext = 0
  /\ wanted = [state |-> "sRESET", context |-> 0]
  /\ edited = {} /\ stepped = FALSE /\ ops = 0

-----------------------------------------------------------------------------
(* set6502State.                                                           *)

(* One step more than the test of RW asks for. *)
MutantAdvanced == writes - 1

(* advance6502clock steps the 6502 on, at most eight cycles, until it      *)
(* reads.  It sees RW only while the RW pin is an input.                   *)
Advanced == IF gDir6502RW = "IN" /\ writes <= 8 THEN 0 ELSE writes

(* The clock stopped wherever the 6502 is. *)
MutantHalted == writes

(* halt6502clock(true) does nothing when the clock is off already.         *)
Halted == IF gClockState = "ON" THEN Advanced ELSE writes

ContextIn(s) == IF s = "sRESET" THEN 0 ELSE gCurrentContext

set6502State(s) ==
  IF s \in {gSysState, "sSTARTUP"}
  THEN UNCHANGED <<control, writes, gCurrentContext>>
  ELSE
    /\ gSysState' = s
    /\ pins' = [reset |-> CASE s \in {"sBOOT", "sRESET"}   -> FALSE
                            [] s \in {"sRUNNING", "sREAD"} -> TRUE
                            [] OTHER                       -> pins.reset,
                rdy   |-> s \in {"sRUNNING", "sREAD"},
                be    |-> s \notin {"sBOOT", "sRPI"}]
    /\ gDir6502RW' = IF s \in {"sBOOT", "sRPI"} THEN "OUT" ELSE "IN"
    /\ gControlMode' = IF s \in {"sBOOT", "sREAD", "sRPI"} THEN "RPI" ELSE "CPU"
    /\ gClockState' = IF s \in {"sRESET", "sRUNNING"} THEN "ON" ELSE "OFF"
    /\ writes' = CASE s = "sRESET"   -> 0
                   [] s = "sRUNNING" -> writes
                   [] OTHER          -> Halted
    /\ gCurrentContext' = ContextIn(s)

(* The index is noted but not latched. *)
MutantLatchIndex(i) ==
  /\ areg' = areg
  /\ gCurrentIndex' = i

(* writeMMUIndex latches the index unless it is the one latched last.      *)
LatchIndex(i) ==
  /\ areg' = IF i # gCurrentIndex THEN i ELSE areg
  /\ gCurrentIndex' = i

(* One primitive step; s is the first of work.                             *)
ChangeState(s) ==
  /\ \/ s.op = "state" /\ set6502State(s.state)
     \/ s.op = "restore" /\ set6502State(saved)
  /\ UNCHANGED <<mapping, listening, saved, savedContext>>

Save(s) ==
  /\ \/ s.op = "save" /\ saved' = gSysState /\ UNCHANGED savedContext
     \/ s.op = "saveContext" /\ savedContext' = gCurrentContext /\ UNCHANGED saved
  /\ UNCHANGED <<control, writes, gCurrentContext, mapping, listening>>

setMMUContext(s) ==
  /\ \/ s.op = "context" /\ gCurrentContext' = s.context
     \/ s.op = "restoreContext" /\ gCurrentContext' = savedContext
  /\ UNCHANGED <<control, writes, mapping, listening, saved, savedContext>>

(* writeCPUAddress uses AREG; a write also disables and enables MMUIO.     *)
AccessMemory(s) ==
  /\ s.op \in {"read", "write"}
  /\ areg' = s.address
  /\ listening' = (listening \/ s.op = "write")
  /\ UNCHANGED <<control, writes, gCurrentContext, gCurrentIndex, mmu, saved, savedContext>>

(* readMMUPage and writeMMUPage: the entry is the one AREG points at.      *)
AccessPage(s) ==
  /\ s.op \in {"readPage", "writePage"}
  /\ gCurrentContext' = s.context
  /\ LatchIndex(s.index)
  /\ mmu' = IF s.op = "writePage"
            THEN [mmu EXCEPT ![gCurrentContext'][areg'] = s.page]
            ELSE mmu
  /\ UNCHANGED <<control, writes, listening, saved, savedContext>>

enableMMUInterrupt(s) ==
  /\ s.op \in {"listen", "deaf"}
  /\ listening' = (s.op = "listen")
  /\ UNCHANGED <<control, writes, gCurrentContext, mapping, saved, savedContext>>

(* ss6502ClockStep: one cycle, or as many as it takes to fetch an opcode.  *)
ss6502ClockStep(s) ==
  /\ \/ s.op = "cycle" /\ writes' \in (IF writes > 0 THEN {writes - 1} ELSE 0 .. MaxBurst)
     \/ s.op = "opcode" /\ writes' = 0
  /\ UNCHANGED <<control, gCurrentContext, mapping, listening, saved, savedContext>>

DoStep ==
  /\ work # <<>>
  /\ work' = Tail(work)
  /\ LET s == Head(work)
     IN \/ ChangeState(s) \/ Save(s) \/ setMMUContext(s) \/ AccessMemory(s)
        \/ AccessPage(s) \/ enableMMUInterrupt(s) \/ ss6502ClockStep(s)
  /\ stepped' = (gClockState' = "OFF" /\ (stepped \/ Head(work).op = "cycle"))
  /\ UNCHANGED commands

-----------------------------------------------------------------------------
(* The operations, called by the tasks of loop() one at a time.            *)
Call(op, steps) ==
  /\ op \in Operations
  /\ work = <<>>
  /\ work' = steps
  /\ UNCHANGED <<control, writes, gCurrentContext, mapping, listening, saved,
                 savedContext, stepped>>

(* A call that leaves everything as it was.                                *)
Keep == UNCHANGED commands

(* A command that sets the state, the context or an entry for good.        *)
Want(s, c) ==
  /\ ops < MaxOps
  /\ ops' = ops + 1
  /\ wanted' = [state |-> s, context |-> c]
  /\ UNCHANGED <<asked, edited>>

snoop ==
  /\ \E a \in Indexes : Call("snoop", Snoop(<<Read(a)>>)) \/ Call("snoop", Snoop(<<Write(a)>>))
  /\ Keep

(* A transfer of the file system or of fsbulk in the caller's context.     *)
FileAccess ==
  /\ \E c \in Contexts :
       \/ Call("fs", ContextAccess(c, <<Read(0)>>))
       \/ Call("fs", ContextAccess(c, <<Write(0), Write(1)>>))
  /\ Keep

(* The 6502 asked for it, so it is not in reset.                           *)
taskScheduler ==
  /\ gSysState # "sRESET"
  /\ \E c \in Contexts : Call("switch", schedSwitchcontext(c)) /\ Want(gSysState, c)

cmdMMU == Call("mmu", Snoop(dumpMMUPageMap(gCurrentContext))) /\ Keep

cmdPage ==
  \E i \in Indexes, p \in Pages :
    /\ Call("page", Snoop(<<ReadPage(gCurrentContext, i), WritePage(gCurrentContext, i, p)>>))
    /\ ops < MaxOps
    /\ ops' = ops + 1
    /\ asked' = [asked EXCEPT ![gCurrentContext][i] = p]
    /\ edited' = edited \union {gCurrentContext}
    /\ UNCHANGED wanted

cmdGo == Call("go", <<State("sRUNNING")>>) /\ Want("sRUNNING", gCurrentContext)

cmdStop == Call("stop", <<State("sHALTED")>>) /\ Want("sHALTED", gCurrentContext)

cmdReset ==
  /\ Call("reset", <<State("sRESET")>> \o Snoop(<<Write(MailboxPage)>>))
  /\ Want("sRESET", 0)

(* fillMemory ends at $FFFF.                                               *)
cmdZero ==
  /\ Call("zero", <<Step("save"), State("sBOOT"), Write(0), Write(NumPages - 1), Step("restore")>>)
  /\ Keep

cmdSysConfig == Call("syscfg", bootSystemWithMenu) /\ Want("sBOOT", BootContext)

(* singleStep6502, and singleCycle6502 for one cycle or more.              *)
cmdSS ==
  /\ Call("ss", <<Step("save"), State("sHALTED"), State("sREAD"), Step("opcode"), Step("restore")>>)
  /\ Keep

cmdSC ==
  /\ Call("sc", <<Step("save"), State("sREAD"), Step("cycle"), Step("restore")>>)
  /\ Keep

(* The 6502 itself, while its clock runs and it is neither reset nor held. *)
Execute ==
  /\ gSysState = "sRUNNING"
  /\ writes' \in (IF writes > 0 THEN {writes - 1} ELSE 0 .. MaxBurst)
  /\ UNCHANGED <<control, gCurrentContext, mapping, listening, work, saved,
                 savedContext, commands, stepped>>

Next ==
  \/ DoStep
  \/ snoop \/ FileAccess \/ taskScheduler \/ cmdMMU \/ cmdPage \/ cmdGo \/ cmdStop
  \/ cmdReset \/ cmdZero \/ cmdSysConfig \/ cmdSS \/ cmdSC
  \/ Execute

Spec == Init /\ [][Next]_vars

-----------------------------------------------------------------------------
(* The RP touches the bus only when the 6502 is off it: no access finds    *)
(* "wrong mode" or "not output", and none collides with a running 6502.    *)
OneBusMaster ==
  work # <<>> =>
    LET op == Head(work).op
    IN /\ op \in {"read", "write", "readPage", "writePage"} =>
            /\ gControlMode = "RPI" /\ gDir6502RW = "OUT"
            /\ ~pins.be /\ gClockState = "OFF"
       /\ op \in {"context", "restoreContext"} => gClockState = "OFF"

(* Whatever was called in between, snoops, file transfers, context         *)
(* switches and steps, the machine is between two operations in the state  *)
(* and the context the last command meant, and hears the 6502's doorbell.  *)
StateRestored ==
  work = <<>> =>
    /\ gSysState = wanted.state
    /\ gCurrentContext = wanted.context
    /\ listening

(* The 6502 never goes on in another process's memory: whoever halted it   *)
(* and changed the context has put it back, or was asked to change it.     *)
ResumesInOwnContext ==
  [][gSysState # "sRUNNING" /\ gSysState' = "sRUNNING"
       => gCurrentContext' = wanted.context]_vars

(* A 6502 that is halted, or taken off its bus, is not in the middle of a *)
(* write: halt6502clock(true) goes on to a read cycle (p6502.cpp, 211).    *)
(* After "sc" the clock is off already and nothing goes on: the 6502 may   *)
(* then be anywhere until its clock has run again.                         *)
HaltedInRead == gSysState \in {"sHALTED", "sRPI"} /\ ~stepped => writes = 0

(* Once setup has run, the MMU maps what memory.ini asked for, though the  *)
(* memory accesses of everything else go through the register that holds   *)
(* an entry's index; contexts that "page" edited are left aside.           *)
MapsAsAsked == work = <<>> => \A c \in Contexts \ edited : mmu[c] = asked[c]
=============================================================================
