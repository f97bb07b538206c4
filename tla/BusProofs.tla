------------------------------ MODULE BusProofs ------------------------------
(***************************************************************************)
(* Proofs about the bus, for any number of contexts, pages and entries and *)
(* any operations that are called: the RP drives the bus only while the    *)
(* 6502 is off it, and every operation leaves state, context, doorbell and *)
(* MMU as the last command meant them.                                     *)
(*                                                                         *)
(* The argument is about the list of steps still to be made: what the      *)
(* steps before a step leave behind is read off the list, and whatever     *)
(* holds of a list holds of what is left of it after its first step.       *)
(***************************************************************************)
EXTENDS Bus, SequenceTheorems, TLAPS

Plain == {"save", "restore", "saveContext", "restoreContext", "listen", "deaf",
          "cycle", "opcode"}

Primitives ==
  {Step(o) : o \in Plain}
  \union {State(x) : x \in SysStates \ {"sSTARTUP"}}
  \union {Context(c) : c \in Contexts}
  \union {Read(a) : a \in Indexes} \union {Write(a) : a \in Indexes}
  \union {ReadPage(c, i) : c \in Contexts, i \in Indexes}
  \union {WritePage(c, i, p) : c \in Contexts, i \in Indexes, p \in Pages}

(* What there is to know of a list made of two.                            *)
LEMMA Joined ==
  ASSUME NEW S, NEW s \in Seq(S), NEW t \in Seq(S)
  PROVE  /\ s \o t \in Seq(S)
         /\ Len(s) \in Nat /\ Len(t) \in Nat
         /\ Len(s \o t) = Len(s) + Len(t)
         /\ \A i \in 1 .. Len(s) : (s \o t)[i] = s[i]
         /\ \A i \in 1 .. Len(t) : (s \o t)[i + Len(s)] = t[i]
<1>1. Len(s) \in Nat /\ Len(t) \in Nat
  BY LenProperties
<1>2. /\ s \o t \in Seq(S) /\ Len(s \o t) = Len(s) + Len(t)
      /\ \A i \in 1 .. Len(s) + Len(t) : (s \o t)[i] = IF i <= Len(s) THEN s[i] ELSE t[i - Len(s)]
  BY ConcatProperties
<1>3. \A i \in 1 .. Len(s) : i \in 1 .. Len(s) + Len(t) /\ i <= Len(s)
  BY <1>1
<1>4. \A i \in 1 .. Len(t) : /\ i + Len(s) \in 1 .. Len(s) + Len(t) /\ ~(i + Len(s) <= Len(s))
                              /\ (i + Len(s)) - Len(s) = i
  BY <1>1
<1> QED BY <1>1, <1>2, <1>3, <1>4

(* What there is to know of a step.                                        *)
LEMMA PrimitiveFields ==
  ASSUME NEW s \in Primitives
  PROVE  /\ s.op \in Plain \union {"state", "context", "read", "write", "readPage", "writePage"}
         /\ s.op = "state" => s.state \in SysStates \ {"sSTARTUP"}
         /\ s.op \in {"context", "readPage", "writePage"} => s.context \in Contexts
         /\ s.op \in {"read", "write"} => s.address \in Indexes
         /\ s.op \in {"readPage", "writePage"} => s.index \in Indexes
         /\ s.op = "writePage" => s.page \in Pages
<1>1. CASE s \in {Step(o) : o \in Plain}
  BY <1>1 DEF Step, Plain
<1>2. CASE s \in {State(x) : x \in SysStates \ {"sSTARTUP"}}
  BY <1>2 DEF State
<1>3. CASE s \in {Context(c) : c \in Contexts}
  BY <1>3 DEF Context
<1>4. CASE s \in {Read(a) : a \in Indexes} \union {Write(a) : a \in Indexes}
  BY <1>4 DEF Read, Write
<1>5. CASE s \in {ReadPage(c, i) : c \in Contexts, i \in Indexes}
  BY <1>5 DEF ReadPage
<1>6. CASE s \in {WritePage(c, i, p) : c \in Contexts, i \in Indexes, p \in Pages}
  BY <1>6 DEF WritePage
<1> QED
  BY <1>1, <1>2, <1>3, <1>4, <1>5, <1>6 DEF Primitives

-----------------------------------------------------------------------------
(* The state in which step k of the list w is made, when w begins in g:    *)
(* it is one of X, since step m made it so and no later one changes that.  *)
Modal(s) == s.op \in {"state", "restore"}

Enters(s, X) == s.op = "state" /\ s.state \in X

Holds(w, g, k, X) ==
  \E m \in Nat :
    /\ m < k
    /\ m = 0 => g \in X
    /\ m # 0 => Enters(w[m], X)
    /\ \A i \in Nat : m < i /\ i < k /\ Modal(w[i]) => Enters(w[i], X)

(* What is saved by then is x, when sv was at the beginning.               *)
SavedAt(w, g, sv, k, x) ==
  \E m \in Nat :
    /\ m < k
    /\ m = 0 => sv = x
    /\ m # 0 => w[m].op = "save" /\ Holds(w, g, m, {x})
    /\ \A i \in Nat : m < i /\ i < k => w[i].op # "save"

(* The state after the n steps of w is x: a step or the last restore made  *)
(* it so.                                                                  *)
Ends(w, n, g, sv, x) ==
  \/ Holds(w, g, n + 1, {x})
  \/ \E r \in 1 .. n :
       /\ w[r].op = "restore" /\ SavedAt(w, g, sv, r, x)
       /\ \A i \in Nat : r < i /\ i <= n /\ Modal(w[i]) => Enters(w[i], {x})

(* The same of the MMU's context.                                          *)
Places(s) ==
  \/ s.op \in {"context", "restoreContext", "readPage", "writePage"}
  \/ Enters(s, {"sRESET"})

PlacesIn(s, c) ==
  \/ s.op \in {"context", "readPage", "writePage"} /\ s.context = c
  \/ Enters(s, {"sRESET"}) /\ c = 0

ContextHolds(w, g, k, c) ==
  \E m \in Nat :
    /\ m < k
    /\ m = 0 => g = c
    /\ m # 0 => PlacesIn(w[m], c)
    /\ \A i \in Nat : m < i /\ i < k /\ Places(w[i]) => PlacesIn(w[i], c)

ContextSavedAt(w, g, sv, k, c) ==
  \E m \in Nat :
    /\ m < k
    /\ m = 0 => sv = c
    /\ m # 0 => w[m].op = "saveContext" /\ ContextHolds(w, g, m, c)
    /\ \A i \in Nat : m < i /\ i < k => w[i].op # "saveContext"

ContextEnds(w, n, g, sv, c) ==
  \/ ContextHolds(w, g, n + 1, c)
  \/ \E r \in 1 .. n :
       /\ w[r].op = "restoreContext" /\ ContextSavedAt(w, g, sv, r, c)
       /\ \A i \in Nat : r < i /\ i <= n /\ Places(w[i]) => PlacesIn(w[i], c)

-----------------------------------------------------------------------------
(* What holds of a list of steps holds of the rest t, of n steps, after    *)
(* the first one is made.                                                  *)
Rest(w, t, n) == n \in Nat /\ \A i \in Nat : 1 <= i /\ i <= n => t[i] = w[i + 1]

LEMMA HoldsRest ==
  ASSUME NEW w, NEW t, NEW n, Rest(w, t, n), NEW g, NEW h, NEW X,
         NEW k \in 1 .. n + 1, Holds(w, g, k + 1, X),
         Enters(w[1], X) => h \in X,
         ~Modal(w[1]) => h = g
  PROVE  Holds(t, h, k, X)
<1>1. PICK m \in Nat :
        /\ m < k + 1
        /\ m = 0 => g \in X
        /\ m # 0 => Enters(w[m], X)
        /\ \A i \in Nat : m < i /\ i < k + 1 /\ Modal(w[i]) => Enters(w[i], X)
  BY DEF Holds
<1>2. \A i \in Nat : m - 1 < i /\ 0 < i /\ i < k /\ Modal(t[i]) => Enters(t[i], X)
  BY <1>1 DEF Rest
<1>3. CASE m <= 1
  <2>1. h \in X
    BY <1>1, <1>3 DEF Modal, Enters
  <2> QED BY <1>2, <1>3, <2>1 DEF Holds
<1>4. CASE m > 1
  <2>1. m - 1 \in Nat /\ m - 1 < k /\ m - 1 # 0 /\ Enters(t[m - 1], X)
    BY <1>1, <1>4 DEF Rest
  <2> QED BY <1>2, <2>1 DEF Holds
<1> QED BY <1>3, <1>4

LEMMA SavedRest ==
  ASSUME NEW w, NEW t, NEW n, Rest(w, t, n), NEW g, NEW h, NEW sv, NEW tv, NEW x,
         NEW k \in 1 .. n + 1, SavedAt(w, g, sv, k + 1, x),
         Enters(w[1], {x}) => h = x,
         ~Modal(w[1]) => h = g,
         w[1].op = "save" => tv = g,
         w[1].op # "save" => tv = sv
  PROVE  SavedAt(t, h, tv, k, x)
<1>1. PICK m \in Nat :
        /\ m < k + 1
        /\ m = 0 => sv = x
        /\ m # 0 => w[m].op = "save" /\ Holds(w, g, m, {x})
        /\ \A i \in Nat : m < i /\ i < k + 1 => w[i].op # "save"
  BY DEF SavedAt
<1>2. \A i \in Nat : m - 1 < i /\ 0 < i /\ i < k => t[i].op # "save"
  BY <1>1 DEF Rest
<1>3. CASE m <= 1
  <2>1. tv = x
    BY <1>1, <1>3 DEF Holds
  <2> QED BY <1>2, <1>3, <2>1 DEF SavedAt
<1>4. CASE m > 1
  <2>1. m - 1 \in 1 .. n + 1 /\ m - 1 \in Nat /\ m - 1 < k /\ m - 1 # 0 /\ m = (m - 1) + 1
        /\ t[m - 1] = w[m]
    BY <1>1, <1>4 DEF Rest
  <2>2. Holds(w, g, (m - 1) + 1, {x})
    BY <1>1, <2>1
  <2>3. Holds(t, h, m - 1, {x})
    BY <2>1, <2>2, HoldsRest
  <2> QED BY <1>1, <1>2, <2>1, <2>3 DEF SavedAt
<1> QED BY <1>3, <1>4

LEMMA EndsRest ==
  ASSUME NEW w, NEW t, NEW n, Rest(w, t, n), NEW g, NEW h, NEW sv, NEW tv, NEW x,
         Ends(w, n + 1, g, sv, x),
         Enters(w[1], {x}) => h = x,
         w[1].op = "restore" /\ sv = x => h = x,
         ~Modal(w[1]) => h = g,
         w[1].op = "save" => tv = g,
         w[1].op # "save" => tv = sv
  PROVE  Ends(t, n, h, tv, x)
<1> n \in Nat
  BY DEF Rest
<1>1. CASE Holds(w, g, (n + 1) + 1, {x})
  BY <1>1, HoldsRest DEF Ends
<1>2. ASSUME NEW r \in 1 .. n + 1, w[r].op = "restore", SavedAt(w, g, sv, r, x),
             \A i \in Nat : r < i /\ i <= n + 1 /\ Modal(w[i]) => Enters(w[i], {x})
      PROVE  Ends(t, n, h, tv, x)
  <2>1. \A i \in Nat : r - 1 < i /\ 0 < i /\ i <= n /\ Modal(t[i]) => Enters(t[i], {x})
    BY <1>2 DEF Rest
  <2>2. CASE r = 1
    <3>1. h = x
      BY <1>2, <2>2 DEF SavedAt
    <3>2. Holds(t, h, n + 1, {x})
      BY <2>1, <2>2, <3>1 DEF Holds
    <3> QED BY <3>2 DEF Ends
  <2>3. CASE r > 1
    <3>1. PICK q \in 1 .. n : r = q + 1
      BY <2>3
    <3>2. q \in 1 .. n + 1 /\ t[q] = w[r] /\ t[q].op = "restore"
      BY <1>2, <3>1 DEF Rest
    <3>3. SavedAt(w, g, sv, q + 1, x)
      BY <1>2, <3>1
    <3>4. SavedAt(t, h, tv, q, x)
      BY <3>2, <3>3, SavedRest
    <3>5. \A i \in Nat : q < i /\ i <= n /\ Modal(t[i]) => Enters(t[i], {x})
      BY <2>1, <3>1
    <3> QED BY ONLY <3>2, <3>4, <3>5, q \in 1 .. n DEF Ends
  <2> QED BY <2>2, <2>3
<1> QED BY <1>1, <1>2 DEF Ends

LEMMA ContextHoldsRest ==
  ASSUME NEW w, NEW t, NEW n, Rest(w, t, n), NEW g, NEW h, NEW c,
         NEW k \in 1 .. n + 1, ContextHolds(w, g, k + 1, c),
         PlacesIn(w[1], c) => h = c,
         ~Places(w[1]) /\ g = c => h = c
  PROVE  ContextHolds(t, h, k, c)
<1>1. PICK m \in Nat :
        /\ m < k + 1
        /\ m = 0 => g = c
        /\ m # 0 => PlacesIn(w[m], c)
        /\ \A i \in Nat : m < i /\ i < k + 1 /\ Places(w[i]) => PlacesIn(w[i], c)
  BY DEF ContextHolds
<1>2. \A i \in Nat : m - 1 < i /\ 0 < i /\ i < k /\ Places(t[i]) => PlacesIn(t[i], c)
  BY <1>1 DEF Rest
<1>3. CASE m <= 1
  <2>1. h = c
    BY <1>1, <1>3
  <2> QED BY <1>2, <1>3, <2>1 DEF ContextHolds
<1>4. CASE m > 1
  <2>1. m - 1 \in Nat /\ m - 1 < k /\ m - 1 # 0 /\ PlacesIn(t[m - 1], c)
    BY <1>1, <1>4 DEF Rest
  <2> QED BY <1>2, <2>1 DEF ContextHolds
<1> QED BY <1>3, <1>4

LEMMA ContextSavedRest ==
  ASSUME NEW w, NEW t, NEW n, Rest(w, t, n), NEW g, NEW h, NEW sv, NEW tv, NEW c,
         NEW k \in 1 .. n + 1, ContextSavedAt(w, g, sv, k + 1, c),
         PlacesIn(w[1], c) => h = c,
         ~Places(w[1]) /\ g = c => h = c,
         w[1].op = "saveContext" => tv = g,
         w[1].op # "saveContext" => tv = sv
  PROVE  ContextSavedAt(t, h, tv, k, c)
<1>1. PICK m \in Nat :
        /\ m < k + 1
        /\ m = 0 => sv = c
        /\ m # 0 => w[m].op = "saveContext" /\ ContextHolds(w, g, m, c)
        /\ \A i \in Nat : m < i /\ i < k + 1 => w[i].op # "saveContext"
  BY DEF ContextSavedAt
<1>2. \A i \in Nat : m - 1 < i /\ 0 < i /\ i < k => t[i].op # "saveContext"
  BY <1>1 DEF Rest
<1>3. CASE m <= 1
  <2>1. tv = c
    BY <1>1, <1>3 DEF ContextHolds
  <2> QED BY <1>2, <1>3, <2>1 DEF ContextSavedAt
<1>4. CASE m > 1
  <2>1. m - 1 \in 1 .. n + 1 /\ m - 1 \in Nat /\ m - 1 < k /\ m - 1 # 0 /\ m = (m - 1) + 1
        /\ t[m - 1] = w[m]
    BY <1>1, <1>4 DEF Rest
  <2>2. ContextHolds(w, g, (m - 1) + 1, c)
    BY <1>1, <2>1
  <2>3. ContextHolds(t, h, m - 1, c)
    BY <2>1, <2>2, ContextHoldsRest
  <2> QED BY <1>1, <1>2, <2>1, <2>3 DEF ContextSavedAt
<1> QED BY <1>3, <1>4

LEMMA ContextEndsRest ==
  ASSUME NEW w, NEW t, NEW n, Rest(w, t, n), NEW g, NEW h, NEW sv, NEW tv, NEW c,
         ContextEnds(w, n + 1, g, sv, c),
         PlacesIn(w[1], c) => h = c,
         w[1].op = "restoreContext" => h = sv,
         ~Places(w[1]) /\ g = c => h = c,
         w[1].op = "saveContext" => tv = g,
         w[1].op # "saveContext" => tv = sv
  PROVE  ContextEnds(t, n, h, tv, c)
<1> n \in Nat
  BY DEF Rest
<1>1. CASE ContextHolds(w, g, (n + 1) + 1, c)
  BY <1>1, ContextHoldsRest DEF ContextEnds
<1>2. ASSUME NEW r \in 1 .. n + 1, w[r].op = "restoreContext", ContextSavedAt(w, g, sv, r, c),
             \A i \in Nat : r < i /\ i <= n + 1 /\ Places(w[i]) => PlacesIn(w[i], c)
      PROVE  ContextEnds(t, n, h, tv, c)
  <2>1. \A i \in Nat : r - 1 < i /\ 0 < i /\ i <= n /\ Places(t[i]) => PlacesIn(t[i], c)
    BY <1>2 DEF Rest
  <2>2. CASE r = 1
    <3>1. h = c
      BY <1>2, <2>2 DEF ContextSavedAt
    <3>2. ContextHolds(t, h, n + 1, c)
      BY <2>1, <2>2, <3>1 DEF ContextHolds
    <3> QED BY <3>2 DEF ContextEnds
  <2>3. CASE r > 1
    <3>1. PICK q \in 1 .. n : r = q + 1
      BY <2>3
    <3>2. q \in 1 .. n + 1 /\ t[q] = w[r] /\ t[q].op = "restoreContext"
      BY <1>2, <3>1 DEF Rest
    <3>3. ContextSavedAt(w, g, sv, q + 1, c)
      BY <1>2, <3>1
    <3>4. ContextSavedAt(t, h, tv, q, c)
      BY <3>2, <3>3, ContextSavedRest
    <3>5. \A i \in Nat : q < i /\ i <= n /\ Places(t[i]) => PlacesIn(t[i], c)
      BY <2>1, <3>1
    <3> QED BY ONLY <3>2, <3>4, <3>5, q \in 1 .. n DEF ContextEnds
  <2> QED BY <2>2, <2>3
<1> QED BY <1>1, <1>2 DEF ContextEnds

-----------------------------------------------------------------------------
(* The inductive invariant.  First the machine: what the state says of the *)
(* wires, and that a stopped clock was stopped in a read cycle.            *)
Registers ==
  /\ gSysState \in SysStates
  /\ gClockState \in {"ON", "OFF"}
  /\ gCurrentContext \in Contexts \union {-1}
  /\ gCurrentIndex \in Indexes \union {-1}
  /\ areg \in Indexes
  /\ mmu \in [Contexts -> [Indexes -> Pages]]
  /\ saved \in SysStates
  /\ savedContext \in Contexts
  /\ wanted.state \in SysStates \ {"sSTARTUP"}
  /\ wanted.context \in Contexts
  /\ asked \in [Contexts -> [Indexes -> Pages]]
  /\ edited \subseteq Contexts

Wires ==
  /\ gSysState \in {"sRPI", "sBOOT"} =>
       gControlMode = "RPI" /\ gDir6502RW = "OUT" /\ ~pins.be
  /\ gSysState \in {"sRPI", "sBOOT", "sHALTED"} => gClockState = "OFF"
  /\ gClockState = "ON" => gDir6502RW = "IN"
  /\ gSysState \in {"sRESET", "sRUNNING"} => gClockState = "ON"

StoppedInRead ==
  /\ writes \in 0 .. MaxBurst
  /\ gClockState = "OFF" /\ ~stepped => writes = 0

ResetContext ==
  /\ gSysState = "sRESET" => gCurrentContext = 0
  /\ wanted.state = "sRESET" => wanted.context = 0

(* Then the steps still to be made.                                        *)
Pending == 1 .. Len(work)

(* An access is made in a state in which the RP has the bus.               *)
Covered ==
  \A k \in Pending :
    /\ work[k].op \in {"read", "write", "readPage", "writePage"} =>
         Holds(work, gSysState, k, {"sRPI", "sBOOT"})
    /\ work[k].op \in {"context", "restoreContext"} =>
         Holds(work, gSysState, k, {"sRPI", "sBOOT", "sHALTED"})

(* What restores or starts the machine comes after all changes of context, *)
(* but for the restore in setup, which goes back to sBOOT.                 *)
NoMorePlaces(k) == \A i \in Pending : k < i => ~Places(work[i])

Returning ==
  \A k \in Pending :
    /\ work[k].op = "restore" =>
         \/ SavedAt(work, gSysState, saved, k, "sBOOT")
         \/ SavedAt(work, gSysState, saved, k, wanted.state) /\ NoMorePlaces(k)
    /\ Enters(work[k], {"sRUNNING"}) => NoMorePlaces(k)

StateDue == Ends(work, Len(work), gSysState, saved, wanted.state)

ContextDue == ContextEnds(work, Len(work), gCurrentContext, savedContext, wanted.context)

Listens(s) == s.op \in {"listen", "write"}

ListeningDue ==
  /\ listening \/ \E k \in Pending : Listens(work[k])
  /\ \A k \in Pending : work[k].op = "deaf" => \E j \in Pending : k < j /\ Listens(work[j])

(* An entry has been written as it was asked for, or will be.              *)
WritesEntry(s, c, i) == s.op = "writePage" /\ s.context = c /\ s.index = i

EntryDue(c, i) ==
  \E m \in Nat :
    /\ m <= Len(work)
    /\ m = 0 => mmu[c][i] = asked[c][i]
    /\ m # 0 => WritesEntry(work[m], c, i) /\ work[m].page = asked[c][i]
    /\ \A j \in Pending : m < j /\ WritesEntry(work[j], c, i) => work[j].page = asked[c][i]

EntriesDue == \A c \in Contexts \ edited, i \in Indexes : EntryDue(c, i)

(* It is written where it should be: no memory access comes between, which *)
(* would leave another index in AREG; "page" gives no such guarantee.      *)
Latched ==
  \A k \in Pending : work[k].op = "writePage" =>
    \/ work[k].context \in edited
    \/ /\ gCurrentIndex \in {-1, areg}
       /\ \A j \in Pending : j < k => work[j].op \notin {"read", "write"}

(* The context that is saved is one.                                       *)
ContextKnown == (\E k \in Pending : work[k].op = "saveContext") => gCurrentContext \in Contexts

Machine == Registers /\ Wires /\ StoppedInRead /\ ResetContext

Promises ==
  /\ Covered /\ Returning /\ StateDue /\ ContextDue /\ ListeningDue
  /\ EntriesDue /\ Latched /\ ContextKnown

IInv == Machine /\ work \in Seq(Primitives) /\ Promises

-----------------------------------------------------------------------------
(* What a step changes, by the register.                                   *)
LEMMA StepIsFirst ==
  ASSUME work \in Seq(Primitives), DoStep
  PROVE  /\ Head(work) = work[1] /\ work[1] \in Primitives
         /\ work' \in Seq(Primitives)
         /\ Len(work) = Len(work') + 1
         /\ Rest(work, work', Len(work'))
<1>1. work # <<>> /\ work' = Tail(work)
  BY DEF DoStep
<1>2. /\ Len(work) \in Nat \ {0} /\ work[1] \in Primitives /\ Head(work) = work[1]
      /\ Tail(work) \in Seq(Primitives) /\ Len(Tail(work)) = Len(work) - 1
  BY <1>1, EmptySeq, HeadTailProperties, ElementOfSeq
<1>3. \A i \in 1 .. Len(Tail(work)) : Tail(work)[i] = work[i + 1]
  BY <1>1, HeadTailProperties
<1> QED
  BY <1>1, <1>2, <1>3 DEF Rest

(* The state, what is saved of it, and the wires.                          *)
LEMMA StateEffect ==
  ASSUME work \in Seq(Primitives), DoStep, NEW s, s = work[1]
  PROVE  /\ s.op = "state" => gSysState' = s.state /\ set6502State(s.state)
         /\ s.op = "restore" => /\ saved # "sSTARTUP" => gSysState' = saved
                                /\ set6502State(saved)
         /\ ~Modal(s) => UNCHANGED control
         /\ s.op = "save" => saved' = gSysState
         /\ s.op # "save" => saved' = saved
<1>1. Head(work) = s /\ s \in Primitives
  BY StepIsFirst
<1>2. s.op = "state" => s.state # "sSTARTUP"
  BY <1>1, PrimitiveFields
<1>3. \/ ChangeState(s) \/ Save(s) \/ setMMUContext(s) \/ AccessMemory(s)
      \/ AccessPage(s) \/ enableMMUInterrupt(s) \/ ss6502ClockStep(s)
  BY <1>1 DEF DoStep
<1> QED
  BY <1>2, <1>3
     DEF ChangeState, Save, setMMUContext, AccessMemory, AccessPage, enableMMUInterrupt,
         ss6502ClockStep, set6502State, Modal, control

(* The context, and what is saved of it.                                   *)
LEMMA ContextEffect ==
  ASSUME work \in Seq(Primitives), DoStep, NEW s, s = work[1]
  PROVE  /\ s.op \in {"context", "readPage", "writePage"} => gCurrentContext' = s.context
         /\ s.op = "restoreContext" => gCurrentContext' = savedContext
         /\ Modal(s) => gCurrentContext' = IF gSysState # "sRESET" /\ gSysState' = "sRESET"
                                           THEN 0 ELSE gCurrentContext
         /\ ~Places(s) /\ ~Modal(s) => gCurrentContext' = gCurrentContext
         /\ s.op = "saveContext" => savedContext' = gCurrentContext
         /\ s.op # "saveContext" => savedContext' = savedContext
<1>1. Head(work) = s
  BY StepIsFirst
<1>3. \/ ChangeState(s) \/ Save(s) \/ setMMUContext(s) \/ AccessMemory(s)
      \/ AccessPage(s) \/ enableMMUInterrupt(s) \/ ss6502ClockStep(s)
  BY <1>1 DEF DoStep
<1> QED
  BY <1>3
     DEF ChangeState, Save, setMMUContext, AccessMemory, AccessPage, enableMMUInterrupt,
         ss6502ClockStep, set6502State, ContextIn, Modal, Places, control

(* The entries and AREG.                                                   *)
LEMMA EntryEffect ==
  ASSUME work \in Seq(Primitives), DoStep, NEW s, s = work[1]
  PROVE  /\ s.op = "writePage" => mmu' = [mmu EXCEPT ![s.context][areg'] = s.page]
         /\ s.op # "writePage" => mmu' = mmu
         /\ s.op \in {"readPage", "writePage"} =>
              /\ gCurrentIndex' = s.index
              /\ areg' = IF s.index # gCurrentIndex THEN s.index ELSE areg
         /\ s.op \in {"read", "write"} => areg' = s.address /\ gCurrentIndex' = gCurrentIndex
         /\ s.op \notin {"read", "write", "readPage", "writePage"} =>
              areg' = areg /\ gCurrentIndex' = gCurrentIndex
<1>1. Head(work) = s
  BY StepIsFirst
<1>3. \/ ChangeState(s) \/ Save(s) \/ setMMUContext(s) \/ AccessMemory(s)
      \/ AccessPage(s) \/ enableMMUInterrupt(s) \/ ss6502ClockStep(s)
  BY <1>1 DEF DoStep
<1> QED
  BY <1>3
     DEF ChangeState, Save, setMMUContext, AccessMemory, AccessPage, LatchIndex,
         enableMMUInterrupt, ss6502ClockStep, mapping

(* The doorbell's interrupt.                                               *)
LEMMA ListeningEffect ==
  ASSUME work \in Seq(Primitives), DoStep, NEW s, s = work[1]
  PROVE  /\ Listens(s) => listening'
         /\ s.op # "deaf" /\ listening => listening'
<1>1. Head(work) = s
  BY StepIsFirst
<1>2. \/ ChangeState(s) \/ Save(s) \/ setMMUContext(s) \/ AccessMemory(s)
      \/ AccessPage(s) \/ enableMMUInterrupt(s) \/ ss6502ClockStep(s)
  BY <1>1 DEF DoStep
<1>3. CASE enableMMUInterrupt(s)
  BY <1>3 DEF enableMMUInterrupt, Listens
<1>4. CASE AccessMemory(s)
  BY <1>4 DEF AccessMemory, Listens
<1> QED
  BY <1>2, <1>3, <1>4
     DEF ChangeState, Save, setMMUContext, AccessPage, ss6502ClockStep, Listens

(* The cycle the 6502 is in.                                               *)
LEMMA ClockEffect ==
  ASSUME work \in Seq(Primitives), DoStep, NEW s, s = work[1]
  PROVE  /\ s.op = "cycle" => writes' \in (IF writes > 0 THEN {writes - 1} ELSE 0 .. MaxBurst)
         /\ s.op = "opcode" => writes' = 0
         /\ ~Modal(s) /\ s.op \notin {"cycle", "opcode"} => writes' = writes
         /\ stepped' = (gClockState' = "OFF" /\ (stepped \/ s.op = "cycle"))
         /\ UNCHANGED commands
<1>1. Head(work) = s
  BY StepIsFirst
<1>2. \/ ChangeState(s) \/ Save(s) \/ setMMUContext(s) \/ AccessMemory(s)
      \/ AccessPage(s) \/ enableMMUInterrupt(s) \/ ss6502ClockStep(s)
  BY <1>1 DEF DoStep
<1>3. stepped' = (gClockState' = "OFF" /\ (stepped \/ s.op = "cycle")) /\ UNCHANGED commands
  BY <1>1 DEF DoStep
<1> QED
  BY <1>2, <1>3
     DEF ChangeState, Save, setMMUContext, AccessMemory, AccessPage, enableMMUInterrupt,
         ss6502ClockStep, Modal

-----------------------------------------------------------------------------
(* A step keeps the machine in order.                                      *)
LEMMA CoveredFirst ==
  ASSUME IInv, DoStep, NEW s, s = work[1]
  PROVE  /\ s.op \in {"read", "write", "readPage", "writePage"} =>
              gSysState \in {"sRPI", "sBOOT"}
         /\ s.op \in {"context", "restoreContext"} =>
              gSysState \in {"sRPI", "sBOOT", "sHALTED"}
<1>1. 1 \in Pending
  BY StepIsFirst DEF IInv, Pending, Rest
<1> QED
  BY <1>1 DEF IInv, Promises, Covered, Holds

LEMMA StepRegisters ==
  ASSUME IInv, DoStep
  PROVE  Registers'
<1> DEFINE s == work[1]
<1>1. /\ Registers /\ work \in Seq(Primitives) /\ ContextKnown /\ s \in Primitives
      /\ 1 \in Pending
  BY StepIsFirst DEF IInv, Machine, Promises, Pending, Rest
<1> HIDE DEF s
<1>2. gSysState' \in SysStates /\ gClockState' \in {"ON", "OFF"} /\ saved' \in SysStates
  <2>1. /\ s.op = "state" => set6502State(s.state)
        /\ s.op = "restore" => set6502State(saved)
        /\ ~Modal(s) => UNCHANGED control
        /\ s.op = "save" => saved' = gSysState
        /\ s.op # "save" => saved' = saved
    BY <1>1, StateEffect DEF s
  <2>2. s.op = "state" => s.state \in SysStates
    BY <1>1, PrimitiveFields
  <2> QED
    BY <1>1, <2>1, <2>2 DEF Registers, set6502State, control, Modal
<1>3. gCurrentContext' \in Contexts \union {-1} /\ savedContext' \in Contexts
  <2>1. 0 \in Contexts
    BY BusAssumption DEF Contexts
  <2>2. s.op = "saveContext" => gCurrentContext \in Contexts
    BY <1>1 DEF ContextKnown, s
  <2>3. s.op \in {"context", "readPage", "writePage"} => s.context \in Contexts
    BY <1>1, PrimitiveFields
  <2>4. /\ s.op \in {"context", "readPage", "writePage"} => gCurrentContext' = s.context
        /\ s.op = "restoreContext" => gCurrentContext' = savedContext
        /\ Modal(s) => gCurrentContext' = IF gSysState # "sRESET" /\ gSysState' = "sRESET"
                                          THEN 0 ELSE gCurrentContext
        /\ ~Places(s) /\ ~Modal(s) => gCurrentContext' = gCurrentContext
        /\ s.op = "saveContext" => savedContext' = gCurrentContext
        /\ s.op # "saveContext" => savedContext' = savedContext
    BY <1>1, ContextEffect DEF s
  <2>5. Places(s) /\ ~Modal(s) => s.op \in {"context", "restoreContext", "readPage", "writePage"}
    BY DEF Places, Modal, Enters
  <2> QED
    BY <1>1, <2>1, <2>2, <2>3, <2>4, <2>5 DEF Registers
<1>4. /\ gCurrentIndex' \in Indexes \union {-1} /\ areg' \in Indexes
      /\ mmu' \in [Contexts -> [Indexes -> Pages]]
  <2>1. /\ s.op = "writePage" => s.context \in Contexts /\ s.page \in Pages
        /\ s.op \in {"readPage", "writePage"} => s.index \in Indexes
        /\ s.op \in {"read", "write"} => s.address \in Indexes
    BY <1>1, PrimitiveFields
  <2>2. /\ s.op = "writePage" => mmu' = [mmu EXCEPT ![s.context][areg'] = s.page]
        /\ s.op # "writePage" => mmu' = mmu
        /\ s.op \in {"readPage", "writePage"} =>
             /\ gCurrentIndex' = s.index
             /\ areg' = IF s.index # gCurrentIndex THEN s.index ELSE areg
        /\ s.op \in {"read", "write"} => areg' = s.address /\ gCurrentIndex' = gCurrentIndex
        /\ s.op \notin {"read", "write", "readPage", "writePage"} =>
             areg' = areg /\ gCurrentIndex' = gCurrentIndex
    BY <1>1, EntryEffect DEF s
  <2>3. areg' \in Indexes /\ gCurrentIndex' \in Indexes \union {-1}
    BY <1>1, <2>1, <2>2 DEF Registers
  <2>4. mmu' \in [Contexts -> [Indexes -> Pages]]
    <3>1. CASE s.op = "writePage"
      <4>1. /\ mmu' = [mmu EXCEPT ![s.context][areg'] = s.page]
            /\ s.context \in Contexts /\ areg' \in Indexes /\ s.page \in Pages
            /\ mmu \in [Contexts -> [Indexes -> Pages]]
        BY <1>1, <2>1, <2>2, <2>3, <3>1 DEF Registers
      <4> QED BY ONLY <4>1
    <3>2. CASE s.op # "writePage"
      BY <1>1, <2>2, <3>2 DEF Registers
    <3> QED BY <3>1, <3>2
  <2> QED BY <2>3, <2>4
<1>5. UNCHANGED commands
  BY <1>1, ClockEffect DEF s
<1> QED
  BY <1>1, <1>2, <1>3, <1>4, <1>5 DEF Registers, commands

LEMMA StepMachine ==
  ASSUME IInv, DoStep
  PROVE  Machine'
<1> DEFINE s == work[1]
<1>1. /\ Registers /\ Wires /\ StoppedInRead /\ ResetContext /\ work \in Seq(Primitives)
      /\ s \in Primitives
  BY StepIsFirst DEF IInv, Machine
<1>2. /\ s.op = "state" => set6502State(s.state)
      /\ s.op = "restore" => set6502State(saved)
      /\ ~Modal(s) => UNCHANGED control
  BY <1>1, StateEffect
<1>3. /\ s.op = "cycle" => writes' \in (IF writes > 0 THEN {writes - 1} ELSE 0 .. MaxBurst)
      /\ s.op = "opcode" => writes' = 0
      /\ ~Modal(s) /\ s.op \notin {"cycle", "opcode"} => writes' = writes
      /\ stepped' = (gClockState' = "OFF" /\ (stepped \/ s.op = "cycle"))
      /\ UNCHANGED commands
  BY <1>1, ClockEffect
<1>4. /\ s.op \in {"context", "readPage", "writePage", "restoreContext"} =>
           gSysState \in {"sRPI", "sBOOT", "sHALTED"}
  BY CoveredFirst
<1>5. /\ Modal(s) => gCurrentContext' = IF gSysState # "sRESET" /\ gSysState' = "sRESET"
                                        THEN 0 ELSE gCurrentContext
      /\ ~Places(s) /\ ~Modal(s) => gCurrentContext' = gCurrentContext
  BY <1>1, ContextEffect
<1> HIDE DEF s
<1>6. s.op \in {"state", "restore"} \/ ~Modal(s)
  BY DEF Modal
<1>7. Wires'
  <2>1. CASE Modal(s)
    <3>1. PICK x : set6502State(x)
      BY <1>2, <2>1 DEF Modal
    <3>2. CASE x \in {gSysState, "sSTARTUP"}
      BY <1>1, <3>1, <3>2 DEF Wires, set6502State, control
    <3>3. CASE x \notin {gSysState, "sSTARTUP"}
      <4>1. /\ gSysState' = x
            /\ gDir6502RW' = IF x \in {"sBOOT", "sRPI"} THEN "OUT" ELSE "IN"
            /\ gControlMode' = IF x \in {"sBOOT", "sREAD", "sRPI"} THEN "RPI" ELSE "CPU"
            /\ gClockState' = IF x \in {"sRESET", "sRUNNING"} THEN "ON" ELSE "OFF"
        BY <3>1, <3>3 DEF set6502State
      <4>2. pins'.be = (x \notin {"sBOOT", "sRPI"})
        BY <3>1, <3>3 DEF set6502State
      <4> QED BY <4>1, <4>2 DEF Wires
    <3> QED BY <3>2, <3>3
  <2>2. CASE ~Modal(s)
    BY <1>1, <1>2, <2>2 DEF Wires, control
  <2> QED BY <2>1, <2>2
<1>8. ResetContext'
  <2>1. wanted' = wanted
    BY <1>3 DEF commands
  <2>2. CASE Modal(s)
    BY <1>1, <1>5, <2>1, <2>2 DEF ResetContext
  <2>3. CASE ~Modal(s)
    <3>1. gSysState' = gSysState
      BY <1>2, <2>3 DEF control
    <3>2. Places(s) => s.op \in {"context", "readPage", "writePage", "restoreContext"}
      BY <2>3 DEF Places, Enters, Modal
    <3> QED BY <1>1, <1>4, <1>5, <2>1, <2>3, <3>1, <3>2 DEF ResetContext
  <2> QED BY <2>2, <2>3
<1>9. StoppedInRead'
  <2>1. gClockState' = "OFF" /\ ~stepped' => ~stepped /\ s.op # "cycle"
    BY <1>3
  <2>2. CASE Modal(s)
    <3>1. PICK x : set6502State(x)
      BY <1>2, <2>2 DEF Modal
    <3>2. writes \in 0 .. MaxBurst /\ MaxBurst \in 0 .. 7
      BY <1>1, BusAssumption DEF StoppedInRead
    <3>3. CASE x \in {gSysState, "sSTARTUP"}
      BY <1>1, <2>1, <3>1, <3>3 DEF set6502State, StoppedInRead, control
    <3>4. CASE x \notin {gSysState, "sSTARTUP"}
      <4>1. Halted = IF gClockState = "ON" THEN 0 ELSE writes
        BY <1>1, <3>2 DEF Halted, Advanced, Wires
      <4>2. /\ gClockState' = IF x \in {"sRESET", "sRUNNING"} THEN "ON" ELSE "OFF"
            /\ writes' = CASE x = "sRESET"   -> 0
                           [] x = "sRUNNING" -> writes
                           [] OTHER          -> Halted
        BY <3>1, <3>4 DEF set6502State
      <4> QED BY <1>1, <2>1, <3>2, <4>1, <4>2 DEF StoppedInRead, Registers
    <3> QED BY <3>3, <3>4
  <2>3. CASE ~Modal(s)
    <3>1. gClockState' = gClockState
      BY <1>2, <2>3 DEF control
    <3>2. MaxBurst \in Nat
      BY BusAssumption
    <3> QED BY <1>1, <1>3, <2>1, <2>3, <3>1, <3>2 DEF StoppedInRead
  <2> QED BY <2>2, <2>3
<1> QED
  BY <1>7, <1>8, <1>9, StepRegisters DEF Machine

-----------------------------------------------------------------------------
(* A step keeps the promises of the list.                                  *)
LEMMA StepCovered ==
  ASSUME IInv, DoStep
  PROVE  Covered' /\ Returning' /\ StateDue'
<1> DEFINE n == Len(work')
<1>1. /\ work \in Seq(Primitives) /\ Len(work) = n + 1 /\ Rest(work, work', n) /\ n \in Nat
      /\ Covered /\ Returning /\ StateDue /\ ResetContext /\ Registers
  BY StepIsFirst DEF IInv, Promises, Machine, Rest
<1>2. /\ work[1].op = "state" => gSysState' = work[1].state
      /\ work[1].op = "restore" /\ saved # "sSTARTUP" => gSysState' = saved
      /\ ~Modal(work[1]) => gSysState' = gSysState
      /\ work[1].op = "save" => saved' = gSysState
      /\ work[1].op # "save" => saved' = saved
  BY <1>1, StateEffect DEF control
<1>3. wanted' = wanted
  BY <1>1, ClockEffect DEF commands
<1>4. \A X : Enters(work[1], X) => gSysState' \in X
  BY <1>2 DEF Enters
<1>5. \A k \in Nat : 1 <= k /\ k <= n => work'[k] = work[k + 1]
  BY <1>1 DEF Rest
<1>6. /\ Pending = 1 .. n + 1 /\ Pending' = 1 .. n
      /\ \A k \in 1 .. n : k + 1 \in Pending /\ k \in 1 .. n + 1 /\ work'[k] = work[k + 1]
  BY <1>1, <1>5 DEF Pending
<1> HIDE DEF n
<1>7. Covered'
  <2>1. SUFFICES ASSUME NEW k \in 1 .. n
                 PROVE  /\ work'[k].op \in {"read", "write", "readPage", "writePage"} =>
                             Holds(work', gSysState', k, {"sRPI", "sBOOT"})
                        /\ work'[k].op \in {"context", "restoreContext"} =>
                             Holds(work', gSysState', k, {"sRPI", "sBOOT", "sHALTED"})
    BY <1>6 DEF Covered
  <2>2. \A X : Holds(work, gSysState, k + 1, X) => Holds(work', gSysState', k, X)
    BY <1>1, <1>2, <1>4, <1>6, HoldsRest
  <2> QED BY <1>1, <1>6, <2>2 DEF Covered
<1>8. Returning'
  <2>1. SUFFICES ASSUME NEW k \in 1 .. n
                 PROVE  /\ work'[k].op = "restore" =>
                             \/ SavedAt(work', gSysState', saved', k, "sBOOT")
                             \/ SavedAt(work', gSysState', saved', k, wanted.state)
                                  /\ NoMorePlaces(k)'
                        /\ Enters(work'[k], {"sRUNNING"}) => NoMorePlaces(k)'
    BY <1>3, <1>6 DEF Returning
  <2>2. \A x : SavedAt(work, gSysState, saved, k + 1, x)
                 => SavedAt(work', gSysState', saved', k, x)
    <3> SUFFICES ASSUME NEW x, SavedAt(work, gSysState, saved, k + 1, x)
                 PROVE  SavedAt(work', gSysState', saved', k, x)
      OBVIOUS
    <3>1. Enters(work[1], {x}) => gSysState' = x
      BY <1>4
    <3> QED BY <1>1, <1>2, <1>6, <3>1, SavedRest
  <2>3. NoMorePlaces(k + 1) => NoMorePlaces(k)'
    BY <1>6 DEF NoMorePlaces
  <2> QED BY <1>1, <1>6, <2>2, <2>3 DEF Returning
<1>9. StateDue'
  <2> DEFINE x == wanted.state
  <2>1. Ends(work, n + 1, gSysState, saved, x) /\ x # "sSTARTUP"
    BY <1>1 DEF StateDue, Registers
  <2>2. /\ Enters(work[1], {x}) => gSysState' = x
        /\ work[1].op = "restore" /\ saved = x => gSysState' = x
    BY <1>2, <1>4, <2>1
  <2> HIDE DEF x
  <2>3. Ends(work', n, gSysState', saved', x)
    BY <1>1, <1>2, <2>1, <2>2, EndsRest
  <2> QED BY <1>3, <2>3 DEF StateDue, n, x
<1> QED BY <1>7, <1>8, <1>9

LEMMA StepContextDue ==
  ASSUME IInv, DoStep
  PROVE  ContextDue'
<1> DEFINE n == Len(work')  c == wanted.context
<1>1. /\ work \in Seq(Primitives) /\ Len(work) = n + 1 /\ Rest(work, work', n) /\ n \in Nat
      /\ Returning /\ ContextDue /\ ResetContext /\ 1 \in Pending /\ work[1] \in Primitives
  BY StepIsFirst DEF IInv, Promises, Machine, Rest, Pending
<1>2. /\ work[1].op \in {"context", "readPage", "writePage"} =>
           gCurrentContext' = work[1].context
      /\ work[1].op = "restoreContext" => gCurrentContext' = savedContext
      /\ Modal(work[1]) =>
           gCurrentContext' = IF gSysState # "sRESET" /\ gSysState' = "sRESET"
                              THEN 0 ELSE gCurrentContext
      /\ ~Places(work[1]) /\ ~Modal(work[1]) => gCurrentContext' = gCurrentContext
      /\ work[1].op = "saveContext" => savedContext' = gCurrentContext
      /\ work[1].op # "saveContext" => savedContext' = savedContext
  BY <1>1, ContextEffect
<1>3. /\ work[1].op = "state" => gSysState' = work[1].state
      /\ work[1].op = "restore" /\ saved # "sSTARTUP" => gSysState' = saved
      /\ work[1].op = "restore" => set6502State(saved)
      /\ wanted' = wanted
  BY <1>1, StateEffect, ClockEffect DEF commands
<1>4. work[1].op = "restore" => saved \in {"sBOOT", wanted.state}
  BY <1>1 DEF Returning, SavedAt
<1>5. PlacesIn(work[1], c) => gCurrentContext' = c
  BY <1>1, <1>2, <1>3 DEF PlacesIn, Enters, Modal, ResetContext
<1>6. ~Places(work[1]) /\ gCurrentContext = c => gCurrentContext' = c
  <2>1. CASE work[1].op = "state"
    BY <1>2, <1>3, <2>1 DEF Places, Enters, Modal
  <2>2. CASE work[1].op = "restore"
    <3>1. gSysState' = "sRESET" /\ gSysState # "sRESET" => saved = "sRESET"
      BY <1>3, <2>2 DEF set6502State, control
    <3>2. gSysState' = "sRESET" /\ gSysState # "sRESET" => c = 0
      BY <1>1, <1>4, <2>2, <3>1 DEF ResetContext
    <3> QED BY <1>2, <2>2, <3>2 DEF Modal
  <2>3. CASE ~Modal(work[1])
    BY <1>2, <2>3
  <2> QED BY <2>1, <2>2, <2>3 DEF Modal
<1> HIDE DEF n, c
<1>7. ContextEnds(work, n + 1, gCurrentContext, savedContext, c)
  BY <1>1 DEF ContextDue, c
<1>8. ContextEnds(work', n, gCurrentContext', savedContext', c)
  BY <1>1, <1>2, <1>5, <1>6, <1>7, ContextEndsRest
<1> QED BY <1>3, <1>8 DEF ContextDue, n, c

LEMMA StepListening ==
  ASSUME IInv, DoStep
  PROVE  ListeningDue'
<1> DEFINE n == Len(work')
<1>1. /\ work \in Seq(Primitives) /\ Len(work) = n + 1 /\ Rest(work, work', n) /\ n \in Nat
      /\ ListeningDue
  BY StepIsFirst DEF IInv, Promises, Rest
<1>2. /\ Listens(work[1]) => listening'
      /\ work[1].op # "deaf" /\ listening => listening'
  BY <1>1, ListeningEffect
<1>3. /\ \A k \in 1 .. n : k + 1 \in 1 .. n + 1 /\ work'[k] = work[k + 1]
      /\ \A j \in 1 .. n + 1 : j > 1 => j - 1 \in 1 .. n /\ work'[j - 1] = work[j]
  BY <1>1 DEF Rest
<1>4. Pending = 1 .. n + 1 /\ Pending' = 1 .. n /\ 1 \in 1 .. n + 1
  BY <1>1 DEF Pending
<1> HIDE DEF n
<1>5. \A k \in 1 .. n : work'[k].op = "deaf" => \E j \in 1 .. n : k < j /\ Listens(work'[j])
  <2> SUFFICES ASSUME NEW k \in 1 .. n, work'[k].op = "deaf"
               PROVE  \E j \in 1 .. n : k < j /\ Listens(work'[j])
    OBVIOUS
  <2>1. PICK j \in 1 .. n + 1 : k + 1 < j /\ Listens(work[j])
    BY <1>1, <1>3, <1>4 DEF ListeningDue
  <2>2. j - 1 \in 1 .. n /\ k < j - 1 /\ Listens(work'[j - 1])
    BY <1>1, <1>3, <2>1
  <2> QED BY <2>2
<1>6. listening' \/ \E k \in 1 .. n : Listens(work'[k])
  <2>1. CASE Listens(work[1])
    BY <1>2, <2>1
  <2>2. CASE ~Listens(work[1]) /\ listening /\ work[1].op # "deaf"
    BY <1>2, <2>2
  <2>3. CASE ~Listens(work[1]) /\ (~listening \/ work[1].op = "deaf")
    <3>1. PICK j \in 1 .. n + 1 : Listens(work[j])
      BY <1>1, <1>4, <2>3 DEF ListeningDue
    <3>2. j > 1
      BY <2>3, <3>1
    <3> QED BY <1>3, <3>1, <3>2
  <2> QED BY <2>1, <2>2, <2>3
<1> QED BY <1>4, <1>5, <1>6 DEF ListeningDue

(* AREG points at the entry that is written, unless "page" writes it.      *)
LEMMA StepLatched ==
  ASSUME IInv, DoStep
  PROVE  /\ Latched'
         /\ work[1].op = "writePage" /\ work[1].context \notin edited =>
              areg' = work[1].index
<1> DEFINE n == Len(work')
<1>1. /\ work \in Seq(Primitives) /\ Len(work) = n + 1 /\ Rest(work, work', n) /\ n \in Nat
      /\ Latched /\ work[1] \in Primitives
  BY StepIsFirst DEF IInv, Promises, Rest
<1>2. /\ work[1].op \in {"readPage", "writePage"} =>
           /\ gCurrentIndex' = work[1].index
           /\ areg' = IF work[1].index # gCurrentIndex THEN work[1].index ELSE areg
      /\ work[1].op \notin {"read", "write", "readPage", "writePage"} =>
           areg' = areg /\ gCurrentIndex' = gCurrentIndex
  BY <1>1, EntryEffect
<1>3. work[1].op \in {"readPage", "writePage"} => work[1].index # -1
  BY <1>1, PrimitiveFields DEF Indexes
<1>4. edited' = edited
  BY <1>1, ClockEffect DEF commands
<1>5. /\ Pending = 1 .. n + 1 /\ Pending' = 1 .. n /\ 1 \in 1 .. n + 1
      /\ \A k \in 1 .. n : k + 1 \in 1 .. n + 1 /\ 1 < k + 1 /\ work'[k] = work[k + 1]
  BY <1>1 DEF Pending, Rest
<1>6. gCurrentIndex \in {-1, areg} /\ work[1].op \notin {"read", "write"} =>
        gCurrentIndex' \in {-1, areg'}
  BY <1>2
<1>7. work[1].op = "writePage" /\ work[1].context \notin edited => areg' = work[1].index
  BY <1>1, <1>2, <1>3, <1>5 DEF Latched
<1>8. Latched'
  <2>1. SUFFICES ASSUME NEW k \in 1 .. n, work'[k].op = "writePage", work'[k].context \notin edited
                 PROVE  /\ gCurrentIndex' \in {-1, areg'}
                        /\ \A j \in 1 .. n : j < k => work'[j].op \notin {"read", "write"}
    BY <1>4, <1>5 DEF Latched
  <2>2. /\ gCurrentIndex \in {-1, areg}
        /\ \A j \in 1 .. n + 1 : j < k + 1 => work[j].op \notin {"read", "write"}
    BY <1>1, <1>5, <2>1 DEF Latched
  <2>3. \A j \in 1 .. n : j < k => work'[j].op \notin {"read", "write"}
    BY <1>1, <1>5, <2>2
  <2> QED BY <1>5, <1>6, <2>2, <2>3
<1> QED BY <1>7, <1>8

LEMMA StepEntries ==
  ASSUME IInv, DoStep
  PROVE  EntriesDue'
<1> DEFINE n == Len(work')
<1>1. /\ work \in Seq(Primitives) /\ Len(work) = n + 1 /\ Rest(work, work', n) /\ n \in Nat
      /\ EntriesDue /\ Registers /\ work[1] \in Primitives
  BY StepIsFirst DEF IInv, Promises, Rest, Machine
<1>2. /\ work[1].op = "writePage" => mmu' = [mmu EXCEPT ![work[1].context][areg'] = work[1].page]
      /\ work[1].op # "writePage" => mmu' = mmu
  BY <1>1, EntryEffect
<1>3. edited' = edited /\ asked' = asked
  BY <1>1, ClockEffect DEF commands
<1>4. work[1].op = "writePage" /\ work[1].context \notin edited => areg' = work[1].index
  BY StepLatched
<1>5. work[1].op = "writePage" => work[1].context \in Contexts /\ areg' \in Indexes
  BY <1>1, PrimitiveFields, StepRegisters DEF Registers
<1>6. /\ Pending = 1 .. n + 1 /\ Pending' = 1 .. n /\ 1 \in 1 .. n + 1
      /\ \A k \in 1 .. n : k + 1 \in 1 .. n + 1 /\ 1 < k + 1 /\ work'[k] = work[k + 1]
  BY <1>1 DEF Pending, Rest
<1>7. SUFFICES ASSUME NEW c \in Contexts \ edited, NEW i \in Indexes
               PROVE  EntryDue(c, i)'
  BY <1>3 DEF EntriesDue
<1>8. PICK m \in Nat :
        /\ m <= n + 1
        /\ m = 0 => mmu[c][i] = asked[c][i]
        /\ m # 0 => WritesEntry(work[m], c, i) /\ work[m].page = asked[c][i]
        /\ \A j \in 1 .. n + 1 : m < j /\ WritesEntry(work[j], c, i) => work[j].page = asked[c][i]
  BY <1>1, <1>6 DEF EntriesDue, EntryDue
<1>9. /\ WritesEntry(work[1], c, i) => mmu'[c][i] = work[1].page
      /\ ~WritesEntry(work[1], c, i) => mmu'[c][i] = mmu[c][i]
  <2>1. CASE work[1].op = "writePage"
    <3>1. mmu \in [Contexts -> [Indexes -> Pages]]
      BY <1>1 DEF Registers
    <3>2. /\ mmu' = [mmu EXCEPT ![work[1].context][areg'] = work[1].page]
          /\ work[1].context \in Contexts /\ areg' \in Indexes
      BY <1>2, <1>5, <2>1
    <3>3. mmu'[c][i] = IF work[1].context = c /\ areg' = i THEN work[1].page ELSE mmu[c][i]
      BY ONLY <3>1, <3>2, c \in Contexts, i \in Indexes
    <3>4. work[1].context = c => areg' = work[1].index
      BY <1>4, <1>7, <2>1
    <3> QED BY <2>1, <3>3, <3>4 DEF WritesEntry
  <2>2. CASE work[1].op # "writePage"
    BY <1>2, <2>2 DEF WritesEntry
  <2> QED BY <2>1, <2>2
<1> HIDE DEF n
<1>10. \A j \in 1 .. n : m - 1 < j /\ WritesEntry(work'[j], c, i) => work'[j].page = asked[c][i]
  BY SMTT(30), <1>1, <1>6, <1>8
<1>11. CASE m <= 1
  <2>1. mmu'[c][i] = asked[c][i]
    <3>1. CASE m = 1
      BY <1>8, <1>9, <3>1
    <3>2. CASE m = 0
      BY <1>6, <1>8, <1>9, <3>2
    <3> QED BY <1>11, <3>1, <3>2
  <2>2. \A j \in 1 .. n : WritesEntry(work'[j], c, i) => work'[j].page = asked[c][i]
    BY <1>1, <1>10, <1>11
  <2> QED BY <1>1, <1>3, <1>6, <2>1, <2>2 DEF EntryDue, n
<1>12. CASE m > 1
  <2>1. PICK q \in 1 .. n : m = q + 1
    <3>1. m <= n + 1 /\ n \in Nat /\ m \in Nat
      BY <1>1, <1>8 DEF n
    <3> QED BY ONLY <1>12, <3>1
  <2>2. WritesEntry(work'[q], c, i) /\ work'[q].page = asked[c][i]
    BY <1>6, <1>8, <2>1
  <2>3. \A j \in 1 .. n : q < j /\ WritesEntry(work'[j], c, i) => work'[j].page = asked[c][i]
    BY <1>1, <1>10, <2>1
  <2>4. q \in Nat /\ q <= n /\ q # 0
    BY <1>1, <2>1
  <2> QED BY ONLY <1>3, <1>6, <2>2, <2>3, <2>4 DEF EntryDue, n
<1> QED BY <1>8, <1>11, <1>12

LEMMA StepKnown ==
  ASSUME IInv, DoStep
  PROVE  ContextKnown'
<1>1. /\ work \in Seq(Primitives) /\ Len(work) = Len(work') + 1 /\ Rest(work, work', Len(work'))
      /\ ContextKnown /\ Registers /\ work[1] \in Primitives
  BY StepIsFirst DEF IInv, Promises, Machine
<1>2. \A k \in Pending' : k + 1 \in Pending /\ work'[k] = work[k + 1]
  BY <1>1 DEF Pending, Rest
<1>3. gCurrentContext \in Contexts => gCurrentContext' \in Contexts
  <2>1. 0 \in Contexts
    BY BusAssumption DEF Contexts
  <2>2. work[1].op \in {"context", "readPage", "writePage"} => work[1].context \in Contexts
    BY <1>1, PrimitiveFields
  <2>3. Places(work[1]) /\ ~Modal(work[1]) =>
          work[1].op \in {"context", "restoreContext", "readPage", "writePage"}
    BY DEF Places, Modal, Enters
  <2> QED BY <1>1, <2>1, <2>2, <2>3, ContextEffect DEF Registers
<1> QED BY <1>1, <1>2, <1>3 DEF ContextKnown

LEMMA StepPromises ==
  ASSUME IInv, DoStep
  PROVE  IInv'
BY StepIsFirst, StepMachine, StepCovered, StepContextDue, StepListening, StepLatched,
   StepEntries, StepKnown
   DEF IInv, Promises

-----------------------------------------------------------------------------
(* Between two operations.                                                 *)
LEMMA Idle ==
  ASSUME IInv, work = <<>>
  PROVE  /\ gSysState = wanted.state
         /\ gCurrentContext = wanted.context
         /\ listening
         /\ \A c \in Contexts \ edited, i \in Indexes : mmu[c][i] = asked[c][i]
<1>1. Len(work) = 0
  BY EmptySeq
<1>2. gSysState = wanted.state
  BY <1>1 DEF IInv, Promises, StateDue, Ends, Holds
<1>3. gCurrentContext = wanted.context
  BY <1>1 DEF IInv, Promises, ContextDue, ContextEnds, ContextHolds
<1>4. listening
  BY <1>1 DEF IInv, Promises, ListeningDue, Pending
<1>5. \A c \in Contexts \ edited, i \in Indexes : mmu[c][i] = asked[c][i]
  BY <1>1 DEF IInv, Promises, EntriesDue, EntryDue
<1> QED BY <1>2, <1>3, <1>4, <1>5

(* A call leaves the machine alone and writes no entry, unless it is       *)
(* "page" or setup: what is left to see is what its list does to state,    *)
(* context and doorbell.                                                   *)
Untouched == UNCHANGED <<control, writes, gCurrentContext, mapping, listening, saved,
                         savedContext, stepped>>

LEMMA CallMachine ==
  ASSUME IInv, work = <<>>, Untouched,
         asked' \in [Contexts -> [Indexes -> Pages]], edited' \subseteq Contexts,
         wanted'.state \in SysStates \ {"sSTARTUP"}, wanted'.context \in Contexts,
         wanted'.state = "sRESET" => wanted'.context = 0
  PROVE  Machine'
<1>1. Registers /\ Wires /\ StoppedInRead /\ ResetContext
  BY DEF IInv, Machine
<1>2. Registers'
  BY <1>1 DEF Registers, Untouched, control, mapping
<1>3. Wires'
  BY <1>1 DEF Wires, Untouched, control
<1>4. StoppedInRead'
  BY <1>1 DEF StoppedInRead, Untouched, control
<1>5. ResetContext'
  BY <1>1 DEF ResetContext, Untouched, control
<1> QED BY <1>2, <1>3, <1>4, <1>5 DEF Machine

LEMMA CallEntries ==
  ASSUME IInv, work = <<>>, work' \in Seq(Primitives), Untouched, UNCHANGED <<asked, edited>>,
         \A k \in 1 .. Len(work') : work'[k].op # "writePage"
  PROVE  EntriesDue' /\ Latched'
<1>1. \A c \in Contexts \ edited, i \in Indexes : mmu[c][i] = asked[c][i]
  BY Idle
<1>2. mmu' = mmu /\ asked' = asked /\ edited' = edited /\ Len(work') \in Nat
  BY LenProperties DEF Untouched, mapping
<1>3. EntriesDue'
  <2>1. SUFFICES ASSUME NEW c \in Contexts \ edited, NEW i \in Indexes
                 PROVE  EntryDue(c, i)'
    BY <1>2 DEF EntriesDue
  <2>2. mmu'[c][i] = asked'[c][i]
    BY <1>1, <1>2
  <2>3. \A j \in Pending' : ~WritesEntry(work'[j], c, i)
    BY DEF WritesEntry, Pending
  <2> QED BY <1>2, <2>2, <2>3 DEF EntryDue
<1>4. Latched'
  BY DEF Latched, Pending
<1> QED BY <1>3, <1>4

(* A list without "saveContext" that changes the context to c at most.     *)
LEMMA CallContext ==
  ASSUME IInv, work = <<>>, work' \in Seq(Primitives), Untouched, wanted' = wanted,
         \A k \in 1 .. Len(work') :
           /\ work'[k].op # "saveContext"
           /\ Places(work'[k]) => PlacesIn(work'[k], wanted.context)
  PROVE  ContextDue' /\ ContextKnown'
<1>1. gCurrentContext' = wanted.context
  BY Idle DEF Untouched
<1>2. Len(work') \in Nat
  BY LenProperties
<1>3. ContextHolds(work', wanted.context, Len(work') + 1, wanted.context)
  <2>1. \A i \in Nat : 0 < i /\ i < Len(work') + 1 => i \in 1 .. Len(work')
    BY <1>2
  <2>2. 0 < Len(work') + 1 /\ 0 \in Nat
    BY <1>2
  <2> QED BY <2>1, <2>2 DEF ContextHolds
<1> QED
  BY <1>1, <1>3 DEF ContextDue, ContextEnds, ContextKnown, Pending

-----------------------------------------------------------------------------
(* Accesses between taking the bus and giving it back, as in Snoop.        *)
Around(x, s) == <<Step("save"), State(x)>> \o s \o <<Step("restore")>>

LEMMA AroundItems ==
  ASSUME NEW x \in SysStates \ {"sSTARTUP"}, NEW s \in Seq(Primitives)
  PROVE  /\ Around(x, s) \in Seq(Primitives)
         /\ Len(s) \in Nat
         /\ Len(Around(x, s)) = Len(s) + 3
         /\ Around(x, s)[1] = Step("save")
         /\ Around(x, s)[2] = State(x)
         /\ \A i \in 1 .. Len(s) : Around(x, s)[i + 2] = s[i]
         /\ Around(x, s)[Len(s) + 3] = Step("restore")
<1> DEFINE a == <<Step("save"), State(x)>>  z == <<Step("restore")>>
<1>1. Step("save") \in Primitives /\ State(x) \in Primitives /\ Step("restore") \in Primitives
  BY DEF Primitives, Plain
<1>2. /\ a \in Seq(Primitives) /\ Len(a) = 2 /\ a[1] = Step("save") /\ a[2] = State(x)
      /\ z \in Seq(Primitives) /\ Len(z) = 1 /\ z[1] = Step("restore")
  BY <1>1
<1> HIDE DEF a, z
<1>3. /\ a \o s \in Seq(Primitives) /\ Len(a \o s) = Len(s) + 2
      /\ (a \o s)[1] = Step("save") /\ (a \o s)[2] = State(x)
      /\ \A i \in 1 .. Len(s) : (a \o s)[i + 2] = s[i]
  <2>1. /\ a \o s \in Seq(Primitives) /\ Len(s) \in Nat /\ Len(a \o s) = Len(a) + Len(s)
        /\ \A i \in 1 .. Len(a) : (a \o s)[i] = a[i]
        /\ \A i \in 1 .. Len(s) : (a \o s)[i + Len(a)] = s[i]
    BY SMTT(30), <1>2, Joined
  <2>2. /\ \A i \in 1 .. 2 : (a \o s)[i] = a[i]
        /\ \A i \in 1 .. Len(s) : (a \o s)[i + 2] = s[i]
    BY ONLY <1>2, <2>1
  <2>3. 1 \in 1 .. 2 /\ 2 \in 1 .. 2 /\ Len(a) + Len(s) = Len(s) + 2
    BY <1>2, <2>1
  <2> QED BY ONLY <1>2, <2>1, <2>2, <2>3
<1>4. /\ (a \o s) \o z \in Seq(Primitives) /\ Len((a \o s) \o z) = Len(s) + 3
      /\ \A i \in 1 .. Len(s) + 2 : ((a \o s) \o z)[i] = (a \o s)[i]
      /\ ((a \o s) \o z)[Len(s) + 3] = z[1]
  <2> DEFINE b == a \o s
  <2>1. b \in Seq(Primitives) /\ Len(b) = Len(s) + 2 /\ Len(s) \in Nat
    BY <1>3, LenProperties
  <2> HIDE DEF b
  <2>2. /\ b \o z \in Seq(Primitives) /\ Len(b \o z) = Len(b) + Len(z)
        /\ \A i \in 1 .. Len(b) : (b \o z)[i] = b[i]
        /\ \A i \in 1 .. Len(z) : (b \o z)[i + Len(b)] = z[i]
    <3>1. b \in Seq(Primitives) /\ z \in Seq(Primitives)
      BY <1>2, <2>1
    <3> QED BY ONLY <3>1, Joined
  <2>3. 1 + Len(b) = Len(s) + 3 /\ Len(b) + Len(z) = Len(s) + 3 /\ 1 \in 1 .. Len(z)
    BY <1>2, <2>1
  <2>4. /\ b \o z \in Seq(Primitives) /\ Len(b \o z) = Len(s) + 3
        /\ \A i \in 1 .. Len(s) + 2 : (b \o z)[i] = b[i]
        /\ (b \o z)[Len(s) + 3] = z[1]
    BY ONLY <2>1, <2>2, <2>3
  <2> QED BY <2>4 DEF b
<1>5. Around(x, s) = (a \o s) \o z
  BY DEF Around, a, z
<1>6. Len(s) \in Nat
  BY LenProperties
<1>7. \A i \in 1 .. Len(s) : i + 2 \in 1 .. Len(s) + 2
  BY <1>6
<1> QED BY <1>2, <1>3, <1>4, <1>5, <1>6, <1>7

(* What is done around there: accesses that the state x allows, or changes *)
(* of state without accesses, never a start of the 6502.                   *)
Accesses(e) == e.op \in {"read", "write", "readPage", "writePage"}

Quiet(s, x) ==
  \A i \in 1 .. Len(s) :
    /\ s[i].op \notin {"restore", "save", "deaf"}
    /\ Accesses(s[i]) => x \in {"sRPI", "sBOOT"}
    /\ s[i].op \in {"context", "restoreContext"} => x \in {"sRPI", "sBOOT", "sHALTED"}
    /\ Accesses(s[i]) \/ s[i].op \in {"context", "restoreContext"} =>
         \A j \in 1 .. Len(s) : ~Modal(s[j])
    /\ ~Enters(s[i], {"sRUNNING"})

LEMMA CallAround ==
  ASSUME IInv, work = <<>>, Untouched, wanted' = wanted,
         NEW x \in SysStates \ {"sSTARTUP", "sRUNNING"}, NEW s \in Seq(Primitives),
         work' = Around(x, s), Quiet(s, x)
  PROVE  work' \in Seq(Primitives) /\ Covered' /\ Returning' /\ StateDue' /\ ListeningDue'
<1> DEFINE n == Len(s)
<1>1. /\ work' \in Seq(Primitives) /\ n \in Nat /\ Len(work') = n + 3
      /\ work'[1] = Step("save") /\ work'[2] = State(x) /\ work'[n + 3] = Step("restore")
      /\ \A i \in 1 .. n : work'[i + 2] = s[i]
  BY AroundItems
<1>2. gSysState' = wanted.state /\ listening'
  BY Idle DEF Untouched, control
<1>3. /\ work'[1].op = "save" /\ ~Modal(work'[1]) /\ ~Accesses(work'[1])
      /\ work'[2].op = "state" /\ work'[2].state = x /\ ~Accesses(work'[2])
      /\ work'[n + 3].op = "restore" /\ ~Accesses(work'[n + 3])
  BY <1>1 DEF Step, State, Modal, Accesses
<1> HIDE DEF n
<1>4. Pending' = 1 .. n + 3
  BY <1>1 DEF Pending
<1>5. \A k \in 1 .. n + 3 : \/ k = 1 \/ k = 2 \/ k = n + 3
                            \/ \E i \in 1 .. n : k = i + 2 /\ work'[k] = s[i]
  <2> SUFFICES ASSUME NEW k \in 1 .. n + 3, k # 1, k # 2, k # n + 3
               PROVE  \E i \in 1 .. n : k = i + 2 /\ work'[k] = s[i]
    OBVIOUS
  <2>1. k - 2 \in 1 .. n /\ k = (k - 2) + 2
    BY <1>1
  <2> QED BY <1>1, <2>1
<1>6. \A k \in 1 .. n + 3 : work'[k].op = "save" => k = 1
  BY <1>3, <1>5 DEF Quiet, n
<1>7. Covered'
  <2>1. SUFFICES ASSUME NEW k \in 1 .. n + 3,
                        Accesses(work'[k]) \/ work'[k].op \in {"context", "restoreContext"}
                 PROVE  /\ Accesses(work'[k]) => Holds(work', gSysState', k, {"sRPI", "sBOOT"})
                        /\ work'[k].op \in {"context", "restoreContext"} =>
                             Holds(work', gSysState', k, {"sRPI", "sBOOT", "sHALTED"})
    BY <1>4 DEF Covered, Accesses
  <2>2. PICK i \in 1 .. n : k = i + 2 /\ work'[k] = s[i]
    BY <1>3, <1>5, <2>1
  <2>3. /\ Accesses(work'[k]) => x \in {"sRPI", "sBOOT"}
        /\ work'[k].op \in {"context", "restoreContext"} => x \in {"sRPI", "sBOOT", "sHALTED"}
        /\ \A j \in 1 .. n : ~Modal(s[j])
    BY <2>1, <2>2 DEF Quiet, n
  <2>4. \A j \in Nat : 2 < j /\ j < k => ~Modal(work'[j])
    <3> SUFFICES ASSUME NEW j \in Nat, 2 < j, j < k
                 PROVE  ~Modal(work'[j])
      OBVIOUS
    <3>1. j \in 1 .. n + 3 /\ j # 1 /\ j # 2 /\ j # n + 3
      BY <1>1
    <3> QED BY <1>5, <2>3, <3>1
  <2>5. \A X : x \in X => Holds(work', gSysState', k, X)
    <3>1. 2 \in Nat /\ 2 < k /\ 2 # 0
      BY <1>1, <2>2
    <3> QED BY <1>3, <2>4, <3>1 DEF Holds, Enters
  <2> QED BY <2>3, <2>5
<1>8. SavedAt(work', gSysState', saved', n + 3, wanted.state)
  <2>1. Holds(work', gSysState', 1, {wanted.state})
    <3>1. \A i \in Nat : ~(0 < i /\ i < 1)
      OBVIOUS
    <3> QED BY <1>2, <3>1 DEF Holds
  <2>2. \A i \in Nat : 1 < i /\ i < n + 3 => i \in 1 .. n + 3 /\ i # 1
    BY <1>1
  <2>3. 1 \in Nat /\ 1 < n + 3 /\ 1 # 0
    BY <1>1
  <2> QED BY <1>3, <1>6, <2>1, <2>2, <2>3 DEF SavedAt
<1>9. Returning'
  <2>1. SUFFICES ASSUME NEW k \in 1 .. n + 3
                 PROVE  /\ work'[k].op = "restore" =>
                             /\ SavedAt(work', gSysState', saved', k, wanted.state)
                             /\ NoMorePlaces(k)'
                        /\ ~Enters(work'[k], {"sRUNNING"})
    BY <1>4 DEF Returning
  <2>2. work'[k].op = "restore" => k = n + 3
    BY <1>3, <1>5 DEF Quiet, n
  <2>3. ~Enters(work'[k], {"sRUNNING"})
    BY <1>3, <1>5 DEF Quiet, n, Enters
  <2>4. k = n + 3 => NoMorePlaces(k)'
    BY <1>1, <1>4 DEF NoMorePlaces
  <2> QED BY <1>8, <2>2, <2>3, <2>4
<1>10. StateDue'
  <2>1. \A i \in Nat : ~(n + 3 < i /\ i <= n + 3)
    BY <1>1
  <2>2. n + 3 \in 1 .. n + 3
    BY <1>1
  <2>3. Ends(work', n + 3, gSysState', saved', wanted.state)
    BY ONLY <1>3, <1>8, <2>1, <2>2 DEF Ends
  <2> QED BY <1>1, <2>3 DEF StateDue
<1>11. ListeningDue'
  <2>1. \A k \in 1 .. n + 3 : work'[k].op # "deaf"
    BY <1>3, <1>5 DEF Quiet, n
  <2> QED BY <1>2, <1>4, <2>1 DEF ListeningDue
<1> QED BY <1>1, <1>7, <1>9, <1>10, <1>11

(* An operation of this kind that neither saves the context nor changes it *)
(* or an entry, and is no command.                                         *)
LEMMA AccessKept ==
  ASSUME IInv, work = <<>>, Untouched, Keep,
         NEW x \in SysStates \ {"sSTARTUP", "sRUNNING", "sRESET"}, NEW s \in Seq(Primitives),
         work' = Around(x, s), Quiet(s, x),
         \A i \in 1 .. Len(s) : /\ s[i].op \notin {"saveContext", "writePage"}
                                /\ Places(s[i]) => PlacesIn(s[i], wanted.context)
  PROVE  IInv'
<1> DEFINE n == Len(s)
<1>1. /\ work' \in Seq(Primitives) /\ n \in Nat /\ Len(work') = n + 3
      /\ work'[1] = Step("save") /\ work'[2] = State(x) /\ work'[n + 3] = Step("restore")
      /\ \A i \in 1 .. n : work'[i + 2] = s[i]
  BY AroundItems
<1>2. UNCHANGED <<wanted, asked, edited>>
  BY DEF Keep, commands
<1>3. \A k \in 1 .. n + 3 : \/ k = 1 \/ k = 2 \/ k = n + 3
                            \/ \E i \in 1 .. n : work'[k] = s[i]
  <2> SUFFICES ASSUME NEW k \in 1 .. n + 3, k # 1, k # 2, k # n + 3
               PROVE  \E i \in 1 .. n : work'[k] = s[i]
    OBVIOUS
  <2>1. k - 2 \in 1 .. n /\ k = (k - 2) + 2
    BY <1>1
  <2> QED BY <1>1, <2>1
<1>4. \A k \in 1 .. n + 3 : /\ work'[k].op \notin {"saveContext", "writePage"}
                            /\ Places(work'[k]) => PlacesIn(work'[k], wanted.context)
  <2>1. /\ work'[1].op = "save" /\ ~Places(work'[1])
        /\ work'[2].op = "state" /\ ~Places(work'[2])
        /\ work'[n + 3].op = "restore" /\ ~Places(work'[n + 3])
    BY <1>1 DEF Step, State, Places, Enters
  <2> QED BY <1>3, <2>1
<1>5. Machine'
  <2>1. /\ wanted.state \in SysStates \ {"sSTARTUP"} /\ wanted.context \in Contexts
        /\ wanted.state = "sRESET" => wanted.context = 0
        /\ asked \in [Contexts -> [Indexes -> Pages]] /\ edited \subseteq Contexts
    BY DEF IInv, Machine, Registers, ResetContext
  <2> QED BY <1>2, <2>1, CallMachine
<1>6. Covered' /\ Returning' /\ StateDue' /\ ListeningDue'
  BY <1>2, CallAround
<1> HIDE DEF n
<1>7. ContextDue' /\ ContextKnown'
  BY <1>1, <1>2, <1>4, CallContext
<1>8. EntriesDue' /\ Latched'
  BY <1>1, <1>2, <1>4, CallEntries
<1> QED BY <1>1, <1>5, <1>6, <1>7, <1>8 DEF IInv, Promises

(* Lists of one and two accesses.                                          *)
LEMMA Called ==
  ASSUME NEW op, NEW steps, Call(op, steps)
  PROVE  work = <<>> /\ work' = steps /\ Untouched
BY DEF Call, Untouched, control, mapping

LEMMA OneSnooped ==
  ASSUME NEW e \in Primitives
  PROVE  /\ Snoop(<<e>>) \in Seq(Primitives) /\ Len(Snoop(<<e>>)) = 4
         /\ Snoop(<<e>>)[1] = Step("save") /\ Snoop(<<e>>)[2] = State("sRPI")
         /\ Snoop(<<e>>)[3] = e /\ Snoop(<<e>>)[4] = Step("restore")
<1> DEFINE s == <<e>>
<1>1. s \in Seq(Primitives) /\ Len(s) = 1 /\ s[1] = e
  OBVIOUS
<1>2. Snoop(s) = Around("sRPI", s) /\ "sRPI" \in SysStates \ {"sSTARTUP"}
  BY DEF Snoop, Around, SysStates
<1> HIDE DEF s
<1>3. /\ Snoop(s) \in Seq(Primitives) /\ Len(Snoop(s)) = Len(s) + 3
      /\ Snoop(s)[1] = Step("save") /\ Snoop(s)[2] = State("sRPI")
      /\ \A i \in 1 .. Len(s) : Snoop(s)[i + 2] = s[i]
      /\ Snoop(s)[Len(s) + 3] = Step("restore")
  <2>1. s \in Seq(Primitives) /\ "sRPI" \in SysStates \ {"sSTARTUP"}
    BY <1>1, <1>2
  <2>2. LET w == Around("sRPI", s)
        IN  /\ w \in Seq(Primitives) /\ Len(w) = Len(s) + 3
            /\ w[1] = Step("save") /\ w[2] = State("sRPI")
            /\ \A i \in 1 .. Len(s) : w[i + 2] = s[i]
            /\ w[Len(s) + 3] = Step("restore")
    BY ONLY <2>1, AroundItems
  <2> QED BY ONLY <1>2, <2>2
<1>4. Snoop(s)[1 + 2] = s[1] /\ Snoop(s)[1 + 3] = Step("restore") /\ Len(Snoop(s)) = 4
  BY <1>1, <1>3
<1>5. /\ Snoop(s) \in Seq(Primitives) /\ Len(Snoop(s)) = 4
      /\ Snoop(s)[1] = Step("save") /\ Snoop(s)[2] = State("sRPI")
      /\ Snoop(s)[3] = e /\ Snoop(s)[4] = Step("restore")
  BY <1>1, <1>3, <1>4
<1> QED BY <1>5 DEF s

LEMMA SnoopStep ==
  ASSUME IInv, snoop
  PROVE  IInv'
<1>1. PICK a \in Indexes :
        Call("snoop", Snoop(<<Read(a)>>)) \/ Call("snoop", Snoop(<<Write(a)>>))
  BY DEF snoop
<1>2. Keep
  BY DEF snoop
<1>3. ASSUME NEW e \in {Read(a), Write(a)}, Call("snoop", Snoop(<<e>>))
      PROVE  IInv'
  <2>1. work = <<>> /\ work' = Snoop(<<e>>) /\ Untouched
    BY <1>3, Called
  <2>2. e \in Primitives
    BY DEF Primitives
  <2>3. <<e>> \in Seq(Primitives) /\ Len(<<e>>) = 1 /\ <<e>>[1] = e
    BY <2>2
  <2>4. e.op \in {"read", "write"}
    BY DEF Read, Write
  <2>5. work' = Around("sRPI", <<e>>)
    BY <2>1 DEF Snoop, Around
  <2>6. \A i \in 1 .. Len(<<e>>) : <<e>>[i].op \in {"read", "write"}
    BY <2>3, <2>4
  <2> DEFINE s == <<e>>
  <2>7. s \in Seq(Primitives) /\ work' = Around("sRPI", s)
        /\ \A i \in 1 .. Len(s) : s[i].op \in {"read", "write"}
    BY <2>3, <2>5, <2>6
  <2> HIDE DEF s
  <2>8. Quiet(s, "sRPI")
    BY <2>7 DEF Quiet, Modal, Enters
  <2>9. \A i \in 1 .. Len(s) : /\ s[i].op \notin {"saveContext", "writePage"}
                               /\ Places(s[i]) => PlacesIn(s[i], wanted.context)
    BY <2>7 DEF Places, Enters
  <2>10. "sRPI" \in SysStates \ {"sSTARTUP", "sRUNNING", "sRESET"}
    BY DEF SysStates
  <2> QED BY <1>2, <2>1, <2>7, <2>8, <2>9, <2>10, AccessKept
<1> QED BY <1>1, <1>3

LEMMA MMUStep ==
  ASSUME IInv, cmdMMU
  PROVE  IInv'
<1> DEFINE s == dumpMMUPageMap(gCurrentContext)
<1>1. work = <<>> /\ work' = Around("sRPI", s) /\ Untouched /\ Keep
  BY Called DEF cmdMMU, Snoop, Around
<1>2. gCurrentContext = wanted.context /\ gCurrentContext \in Contexts
  BY <1>1, Idle DEF IInv, Machine, Registers
<1>3. NumPages \in Nat
  BY BusAssumption
<1>4. \A k \in 1 .. NumPages : ReadPage(gCurrentContext, k - 1) \in Primitives
  <2>1. \A k \in 1 .. NumPages : k - 1 \in Indexes
    BY <1>3 DEF Indexes
  <2> QED BY <1>2, <2>1 DEF Primitives
<1>5. s \in [1 .. NumPages -> Primitives]
  BY <1>4 DEF dumpMMUPageMap
<1>6. s \in Seq(Primitives) /\ Len(s) = NumPages
  BY <1>3, <1>5, LenProperties
<1>7. \A i \in 1 .. Len(s) : s[i].op = "readPage" /\ s[i].context = wanted.context
  BY <1>2, <1>6 DEF dumpMMUPageMap, ReadPage
<1> HIDE DEF s
<1>8. Quiet(s, "sRPI")
  BY <1>7 DEF Quiet, Modal, Enters
<1>9. \A i \in 1 .. Len(s) : /\ s[i].op \notin {"saveContext", "writePage"}
                             /\ Places(s[i]) => PlacesIn(s[i], wanted.context)
  BY <1>7 DEF Places, PlacesIn, Enters
<1>10. "sRPI" \in SysStates \ {"sSTARTUP", "sRUNNING", "sRESET"}
  BY DEF SysStates
<1> QED BY <1>1, <1>6, <1>8, <1>9, <1>10, AccessKept

LEMMA ZeroStep ==
  ASSUME IInv, cmdZero
  PROVE  IInv'
<1> DEFINE s == <<Write(0), Write(NumPages - 1)>>
<1>1. work = <<>> /\ Untouched /\ Keep
      /\ work' = <<Step("save"), State("sBOOT"), Write(0), Write(NumPages - 1), Step("restore")>>
  BY Called DEF cmdZero
<1>2. work' = Around("sBOOT", s)
  BY <1>1 DEF Around
<1>3. Write(0) \in Primitives /\ Write(NumPages - 1) \in Primitives
  BY BusAssumption DEF Primitives, Indexes
<1>4. /\ s \in Seq(Primitives) /\ Len(s) = 2
      /\ \A i \in 1 .. Len(s) : s[i].op = "write"
  BY <1>3 DEF Write
<1> HIDE DEF s
<1>5. Quiet(s, "sBOOT")
  BY <1>4 DEF Quiet, Modal, Enters
<1>6. \A i \in 1 .. Len(s) : /\ s[i].op \notin {"saveContext", "writePage"}
                             /\ Places(s[i]) => PlacesIn(s[i], wanted.context)
  BY <1>4 DEF Places, Enters
<1>7. "sBOOT" \in SysStates \ {"sSTARTUP", "sRUNNING", "sRESET"}
  BY DEF SysStates
<1> QED BY <1>1, <1>2, <1>4, <1>5, <1>6, <1>7, AccessKept

LEMMA StepsStep ==
  ASSUME IInv, cmdSS \/ cmdSC
  PROVE  IInv'
<1>1. CASE cmdSS
  <2> DEFINE s == <<State("sREAD"), Step("opcode")>>
  <2>1. work = <<>> /\ Untouched /\ Keep
        /\ work' = <<Step("save"), State("sHALTED"), State("sREAD"), Step("opcode"), Step("restore")>>
    BY <1>1, Called DEF cmdSS
  <2>2. work' = Around("sHALTED", s)
    BY <2>1 DEF Around
  <2>3. State("sREAD") \in Primitives /\ Step("opcode") \in Primitives
    BY DEF Primitives, Plain, SysStates
  <2>4. /\ s \in Seq(Primitives) /\ Len(s) = 2
        /\ \A i \in 1 .. Len(s) : (s[i].op = "state" /\ s[i].state = "sREAD") \/ s[i].op = "opcode"
    BY <2>3 DEF State, Step
  <2> HIDE DEF s
  <2>5. Quiet(s, "sHALTED")
    BY <2>4 DEF Quiet, Accesses, Enters
  <2>6. \A i \in 1 .. Len(s) : /\ s[i].op \notin {"saveContext", "writePage"}
                               /\ Places(s[i]) => PlacesIn(s[i], wanted.context)
    BY <2>4 DEF Places, Enters
  <2>7. "sHALTED" \in SysStates \ {"sSTARTUP", "sRUNNING", "sRESET"}
    BY DEF SysStates
  <2> QED BY <2>1, <2>2, <2>4, <2>5, <2>6, <2>7, AccessKept
<1>2. CASE cmdSC
  <2> DEFINE s == <<Step("cycle")>>
  <2>1. work = <<>> /\ Untouched /\ Keep
        /\ work' = <<Step("save"), State("sREAD"), Step("cycle"), Step("restore")>>
    BY <1>2, Called DEF cmdSC
  <2>2. work' = Around("sREAD", s)
    BY <2>1 DEF Around
  <2>3. Step("cycle") \in Primitives
    BY DEF Primitives, Plain
  <2>4. /\ s \in Seq(Primitives) /\ Len(s) = 1
        /\ \A i \in 1 .. Len(s) : s[i].op = "cycle"
    BY <2>3 DEF Step
  <2> HIDE DEF s
  <2>5. Quiet(s, "sREAD")
    BY <2>4 DEF Quiet, Accesses, Enters
  <2>6. \A i \in 1 .. Len(s) : /\ s[i].op \notin {"saveContext", "writePage"}
                               /\ Places(s[i]) => PlacesIn(s[i], wanted.context)
    BY <2>4 DEF Places, Enters
  <2>7. "sREAD" \in SysStates \ {"sSTARTUP", "sRUNNING", "sRESET"}
    BY DEF SysStates
  <2> QED BY <2>1, <2>2, <2>4, <2>5, <2>6, <2>7, AccessKept
<1> QED BY <1>1, <1>2

(* Accesses in another context, which is put back.                         *)
LEMMA FileAccessStep ==
  ASSUME IInv, FileAccess
  PROVE  IInv'
<1>1. Keep
  BY DEF FileAccess
<1>2. PICK c \in Contexts : \/ Call("fs", ContextAccess(c, <<Read(0)>>))
                            \/ Call("fs", ContextAccess(c, <<Write(0), Write(1)>>))
  BY DEF FileAccess
<1>3. PICK s : /\ s \in Seq(Primitives) /\ Len(s) \in {4, 5}
               /\ work = <<>> /\ Untouched /\ work' = Around("sRPI", s)
               /\ s[1].op = "saveContext" /\ s[2].op = "context"
               /\ \A i \in 3 .. Len(s) - 1 : s[i].op \in {"read", "write"}
               /\ s[Len(s)].op = "restoreContext"
  <2>1. /\ Step("saveContext") \in Primitives /\ Context(c) \in Primitives /\ Read(0) \in Primitives
        /\ Write(0) \in Primitives /\ Write(1) \in Primitives /\ Step("restoreContext") \in Primitives
    BY BusAssumption DEF Primitives, Plain, Indexes
  <2>2. CASE Call("fs", ContextAccess(c, <<Read(0)>>))
    <3> DEFINE s == <<Step("saveContext"), Context(c), Read(0), Step("restoreContext")>>
    <3>1. work = <<>> /\ Untouched /\ work' = ContextAccess(c, <<Read(0)>>)
      BY <2>2, Called
    <3>2. work' = Around("sRPI", s)
      BY <3>1 DEF ContextAccess, Snoop, Around
    <3>3. /\ s \in Seq(Primitives) /\ Len(s) = 4
          /\ s[1].op = "saveContext" /\ s[2].op = "context"
          /\ s[3].op \in {"read", "write"} /\ s[4].op = "restoreContext"
      BY <2>1 DEF Step, Context, Read
    <3> HIDE DEF s
    <3>4. \A i \in 3 .. Len(s) - 1 : i = 3
      BY <3>3
    <3> QED BY <3>1, <3>2, <3>3, <3>4
  <2>3. CASE Call("fs", ContextAccess(c, <<Write(0), Write(1)>>))
    <3> DEFINE s == <<Step("saveContext"), Context(c), Write(0), Write(1), Step("restoreContext")>>
    <3>1. work = <<>> /\ Untouched /\ work' = ContextAccess(c, <<Write(0), Write(1)>>)
      BY <2>3, Called
    <3>2. work' = Around("sRPI", s)
      BY <3>1 DEF ContextAccess, Snoop, Around
    <3>3. /\ s \in Seq(Primitives) /\ Len(s) = 5
          /\ s[1].op = "saveContext" /\ s[2].op = "context"
          /\ s[3].op \in {"read", "write"} /\ s[4].op \in {"read", "write"}
          /\ s[5].op = "restoreContext"
      BY <2>1 DEF Step, Context, Write
    <3> HIDE DEF s
    <3>4. \A i \in 3 .. Len(s) - 1 : i \in {3, 4}
      BY <3>3
    <3> QED BY <3>1, <3>2, <3>3, <3>4
  <2> QED BY <1>2, <2>2, <2>3
<1> DEFINE n == Len(s)
<1>4. n \in Nat /\ n > 3
  <2>1. Len(s) \in {4, 5}
    BY <1>3
  <2>2. \A l \in {4, 5} : l \in Nat /\ l > 3
    OBVIOUS
  <2> QED BY <2>1, <2>2
<1>5. /\ work' \in Seq(Primitives) /\ Len(work') = n + 3
      /\ work'[1] = Step("save") /\ work'[2] = State("sRPI") /\ work'[n + 3] = Step("restore")
      /\ \A i \in 1 .. n : work'[i + 2] = s[i]
  BY <1>3, AroundItems DEF SysStates
<1>6. UNCHANGED <<wanted, asked, edited>> /\ gCurrentContext' = wanted.context
  BY <1>1, <1>3, Idle DEF Keep, commands, Untouched
<1>7. \A i \in 1 .. n : \/ i = 1 /\ s[i].op = "saveContext"
                        \/ i = 2 /\ s[i].op = "context"
                        \/ s[i].op \in {"read", "write"}
                        \/ i = n /\ s[i].op = "restoreContext"
  <2> SUFFICES ASSUME NEW i \in 1 .. n, i # 1, i # 2, i # n
               PROVE  s[i].op \in {"read", "write"}
    BY <1>3
  <2>1. i \in 3 .. Len(s) - 1
    BY <1>4
  <2> QED BY <1>3, <2>1
<1>8. /\ work'[1].op = "save" /\ work'[2].op = "state" /\ work'[2].state = "sRPI"
      /\ work'[3].op = "saveContext" /\ work'[n + 2].op = "restoreContext"
      /\ work'[n + 3].op = "restore"
  <2>1. 1 \in 1 .. n /\ n \in 1 .. n
    BY <1>4
  <2>2. work'[1 + 2] = s[1] /\ work'[n + 2] = s[n]
    BY <1>5, <2>1
  <2> QED BY <1>3, <1>5, <2>2 DEF Step, State
<1> HIDE DEF n
<1>9. \A k \in 1 .. n + 3 : \/ k = 1 \/ k = 2 \/ k = n + 3
                            \/ \E i \in 1 .. n : k = i + 2 /\ work'[k] = s[i]
  <2> SUFFICES ASSUME NEW k \in 1 .. n + 3, k # 1, k # 2, k # n + 3
               PROVE  \E i \in 1 .. n : k = i + 2 /\ work'[k] = s[i]
    OBVIOUS
  <2>1. k - 2 \in 1 .. n /\ k = (k - 2) + 2
    BY <1>4
  <2> QED BY <1>5, <2>1
<1>10. Machine'
  <2>1. /\ wanted.state \in SysStates \ {"sSTARTUP"} /\ wanted.context \in Contexts
        /\ wanted.state = "sRESET" => wanted.context = 0
        /\ asked \in [Contexts -> [Indexes -> Pages]] /\ edited \subseteq Contexts
    BY DEF IInv, Machine, Registers, ResetContext
  <2> QED BY <1>3, <1>6, <2>1, CallMachine
<1>11. Covered' /\ Returning' /\ StateDue' /\ ListeningDue'
  <2>1. Quiet(s, "sRPI")
    BY <1>7 DEF Quiet, Modal, Enters, n
  <2>2. "sRPI" \in SysStates \ {"sSTARTUP", "sRUNNING"}
    BY DEF SysStates
  <2> QED BY <1>3, <1>6, <2>1, <2>2, CallAround
<1>12. ContextDue'
  <2>1. ContextHolds(work', gCurrentContext', 3, wanted.context)
    <3>1. \A i \in Nat : 0 < i /\ i < 3 => ~Places(work'[i])
      <4>1. ~Places(work'[1]) /\ ~Places(work'[2])
        BY <1>8 DEF Places, Enters
      <4> QED BY <4>1
    <3> QED BY <1>6, <3>1 DEF ContextHolds
  <2>2. \A i \in Nat : 3 < i /\ i < n + 2 => work'[i].op # "saveContext"
    <3> SUFFICES ASSUME NEW i \in Nat, 3 < i, i < n + 2
                 PROVE  work'[i].op # "saveContext"
      OBVIOUS
    <3>1. i \in 1 .. n + 3 /\ i # 1 /\ i # 2 /\ i # n + 3
      BY <1>4
    <3>2. PICK j \in 1 .. n : i = j + 2 /\ work'[i] = s[j]
      BY <1>9, <3>1
    <3>3. j # 1
      BY <3>2
    <3> QED BY <1>7, <3>2, <3>3
  <2>3. ContextSavedAt(work', gCurrentContext', savedContext', n + 2, wanted.context)
    <3>1. 3 \in Nat /\ 3 < n + 2 /\ 3 # 0
      BY <1>4
    <3> QED BY <1>8, <2>1, <2>2, <3>1 DEF ContextSavedAt
  <2>4. \A i \in Nat : n + 2 < i /\ i <= n + 3 => ~Places(work'[i])
    <3>1. \A i \in Nat : n + 2 < i /\ i <= n + 3 => i = n + 3
      BY <1>4
    <3>2. ~Places(work'[n + 3])
      BY <1>8 DEF Places, Enters
    <3> QED BY <3>1, <3>2
  <2>5. n + 2 \in 1 .. n + 3
    BY <1>4
  <2>6. ContextEnds(work', n + 3, gCurrentContext', savedContext', wanted.context)
    BY ONLY <1>8, <2>3, <2>4, <2>5 DEF ContextEnds
  <2> QED BY <1>5, <1>6, <2>6 DEF ContextDue
<1>13. ContextKnown'
  BY <1>6 DEF ContextKnown, IInv, Machine, Registers
<1>14. \A k \in 1 .. n + 3 : work'[k].op # "writePage"
  BY <1>7, <1>8, <1>9
<1>15. EntriesDue' /\ Latched'
  BY <1>3, <1>5, <1>6, <1>14, CallEntries
<1> QED BY <1>5, <1>10, <1>11, <1>12, <1>13, <1>15 DEF IInv, Promises

(* "page" is edited where it may write in another entry than the one meant.*)
LEMMA PageStep ==
  ASSUME IInv, cmdPage
  PROVE  IInv'
<1>1. PICK i \in Indexes, p \in Pages :
        /\ Call("page", Snoop(<<ReadPage(gCurrentContext, i), WritePage(gCurrentContext, i, p)>>))
        /\ asked' = [asked EXCEPT ![gCurrentContext][i] = p]
        /\ edited' = edited \union {gCurrentContext}
        /\ wanted' = wanted
  BY DEF cmdPage
<1> DEFINE c == gCurrentContext  s == <<ReadPage(c, i), WritePage(c, i, p)>>
<1>2. work = <<>> /\ Untouched /\ work' = Around("sRPI", s)
  BY <1>1, Called DEF Snoop, Around
<1>3. /\ c = wanted.context /\ c \in Contexts
      /\ \A d \in Contexts \ edited, j \in Indexes : mmu[d][j] = asked[d][j]
  BY <1>2, Idle DEF IInv, Machine, Registers
<1>4. ReadPage(c, i) \in Primitives /\ WritePage(c, i, p) \in Primitives
  BY <1>3 DEF Primitives
<1>5. /\ s \in Seq(Primitives) /\ Len(s) = 2
      /\ s[1].op = "readPage" /\ s[1].context = c /\ s[2].op = "writePage" /\ s[2].context = c
  BY <1>4 DEF ReadPage, WritePage
<1> HIDE DEF s
<1>6. /\ work' \in Seq(Primitives) /\ Len(work') = 5
      /\ work'[1].op = "save" /\ work'[2].op = "state" /\ work'[2].state = "sRPI"
      /\ work'[3] = s[1] /\ work'[4] = s[2] /\ work'[5].op = "restore"
  <2>1. /\ work' \in Seq(Primitives) /\ Len(work') = Len(s) + 3
        /\ work'[1] = Step("save") /\ work'[2] = State("sRPI")
        /\ work'[Len(s) + 3] = Step("restore")
        /\ \A k \in 1 .. Len(s) : work'[k + 2] = s[k]
    BY <1>2, <1>5, AroundItems DEF SysStates
  <2>2. work'[1 + 2] = s[1] /\ work'[2 + 2] = s[2] /\ work'[5] = Step("restore")
    BY <1>5, <2>1
  <2> QED BY <1>5, <2>1, <2>2 DEF Step, State
<1>7. \A k \in 1 .. 5 : \/ work'[k].op \in {"save", "restore"}
                        \/ work'[k].op = "state" /\ work'[k].state = "sRPI"
                        \/ work'[k].op \in {"readPage", "writePage"} /\ work'[k].context = c
  <2>1. \A k \in 1 .. 5 : k \in {1, 2, 3, 4, 5}
    OBVIOUS
  <2> QED BY <1>5, <1>6, <2>1
<1>8. Machine'
  <2>1. /\ wanted.state \in SysStates \ {"sSTARTUP"} /\ wanted.context \in Contexts
        /\ wanted.state = "sRESET" => wanted.context = 0
        /\ asked \in [Contexts -> [Indexes -> Pages]] /\ edited \subseteq Contexts
    BY DEF IInv, Machine, Registers, ResetContext
  <2>2. asked' \in [Contexts -> [Indexes -> Pages]]
    BY ONLY <1>1, <1>3, <2>1, i \in Indexes, p \in Pages
  <2>3. edited' \subseteq Contexts
    BY <1>1, <1>3, <2>1
  <2> QED BY <1>1, <1>2, <2>1, <2>2, <2>3, CallMachine
<1>9. Covered' /\ Returning' /\ StateDue' /\ ListeningDue'
  <2>1. \A k \in 1 .. Len(s) : s[k].op \in {"readPage", "writePage"}
    <3>1. \A k \in 1 .. Len(s) : k \in {1, 2}
      BY <1>5
    <3> QED BY <1>5, <3>1
  <2>2. Quiet(s, "sRPI")
    BY <2>1 DEF Quiet, Modal, Enters
  <2>3. "sRPI" \in SysStates \ {"sSTARTUP", "sRUNNING"}
    BY DEF SysStates
  <2> QED BY <1>1, <1>2, <1>5, <2>2, <2>3, CallAround
<1>10. ContextDue' /\ ContextKnown'
  <2>1. \A k \in 1 .. 5 : /\ work'[k].op # "saveContext"
                          /\ Places(work'[k]) => PlacesIn(work'[k], wanted.context)
    BY <1>3, <1>7 DEF Places, PlacesIn, Enters
  <2> QED BY <1>1, <1>2, <1>6, <2>1, CallContext
<1>11. EntriesDue'
  <2>1. SUFFICES ASSUME NEW d \in Contexts \ edited', NEW j \in Indexes
                 PROVE  EntryDue(d, j)'
    BY DEF EntriesDue
  <2>2. d # c /\ d \in Contexts \ edited
    BY <1>1, <2>1
  <2>3. mmu'[d][j] = asked'[d][j]
    <3>1. asked \in [Contexts -> [Indexes -> Pages]]
      BY DEF IInv, Machine, Registers
    <3>2. asked'[d] = asked[d]
      BY <1>1, <2>2, <3>1
    <3> QED BY <1>2, <1>3, <2>2, <3>2 DEF Untouched, mapping
  <2>4. \A k \in Pending' : ~WritesEntry(work'[k], d, j)
    BY <1>6, <1>7, <2>2 DEF Pending, WritesEntry
  <2> QED BY <1>6, <2>3, <2>4 DEF EntryDue
<1>12. Latched'
  BY <1>1, <1>6, <1>7 DEF Latched, Pending
<1> QED BY <1>6, <1>8, <1>9, <1>10, <1>11, <1>12 DEF IInv, Promises

(* The commands: what they leave is what is wanted from then on.           *)
LEMMA SwitchStep ==
  ASSUME IInv, taskScheduler
  PROVE  IInv'
<1>1. gSysState # "sRESET"
  BY DEF taskScheduler
<1>2. PICK c \in Contexts : Call("switch", schedSwitchcontext(c)) /\ Want(gSysState, c)
  BY DEF taskScheduler
<1>3. /\ work = <<>> /\ Untouched
      /\ work' = <<Step("deaf"), Step("save"), State("sHALTED"), Context(c), Step("restore"),
                   Step("listen")>>
      /\ wanted' = [state |-> gSysState, context |-> c] /\ UNCHANGED <<asked, edited>>
  BY <1>2, Called DEF schedSwitchcontext, Want
<1>4. /\ Step("deaf") \in Primitives /\ Step("save") \in Primitives
      /\ State("sHALTED") \in Primitives /\ Context(c) \in Primitives
      /\ Step("restore") \in Primitives /\ Step("listen") \in Primitives
  BY DEF Primitives, Plain, SysStates
<1>5. /\ work' \in Seq(Primitives) /\ Len(work') = 6
      /\ work'[1].op = "deaf" /\ work'[2].op = "save"
      /\ work'[3].op = "state" /\ work'[3].state = "sHALTED"
      /\ work'[4].op = "context" /\ work'[4].context = c
      /\ work'[5].op = "restore" /\ work'[6].op = "listen"
  BY <1>3, <1>4 DEF Step, State, Context
<1>7. Pending' = 1 .. 6 /\ \A k \in 1 .. 6 : k \in {1, 2, 3, 4, 5, 6}
  BY <1>5 DEF Pending
<1>8. /\ gSysState' = gSysState /\ wanted'.state = gSysState /\ wanted'.context = c
      /\ gSysState \in SysStates \ {"sSTARTUP"}
      /\ gSysState = wanted.state /\ gCurrentContext' \in Contexts
  BY <1>3, Idle DEF Untouched, control, IInv, Machine, Registers
<1>9. Machine'
  <2>1. asked \in [Contexts -> [Indexes -> Pages]] /\ edited \subseteq Contexts
    BY DEF IInv, Machine, Registers
  <2> QED BY <1>1, <1>3, <1>8, <2>1, CallMachine
<1>10. Covered'
  <2>1. \A i \in Nat : ~(3 < i /\ i < 4)
    OBVIOUS
  <2>2. Holds(work', gSysState', 4, {"sRPI", "sBOOT", "sHALTED"})
    BY <1>5, <2>1 DEF Holds, Enters
  <2> QED BY <1>5, <1>7, <2>2 DEF Covered
<1>11. SavedAt(work', gSysState', saved', 5, wanted'.state)
  <2>1. \A i \in Nat : 0 < i /\ i < 2 => i = 1
    OBVIOUS
  <2>2. Holds(work', gSysState', 2, {wanted'.state})
    BY <1>5, <1>8, <2>1 DEF Holds, Modal
  <2>3. \A i \in Nat : 2 < i /\ i < 5 => i \in {3, 4}
    OBVIOUS
  <2> QED BY <1>5, <2>2, <2>3 DEF SavedAt
<1>12. Returning'
  <2>1. NoMorePlaces(5)'
    <3>1. \A i \in 1 .. 6 : 5 < i => i = 6
      OBVIOUS
    <3> QED BY <1>5, <1>7, <3>1 DEF NoMorePlaces, Places, Enters
  <2> QED BY <1>5, <1>7, <1>11, <2>1 DEF Returning, Enters
<1>13. StateDue'
  <2>1. \A i \in Nat : 5 < i /\ i <= 6 => i = 6
    OBVIOUS
  <2>2. Ends(work', 6, gSysState', saved', wanted'.state)
    BY <1>5, <1>11, <2>1 DEF Ends, Modal
  <2> QED BY <1>5, <2>2 DEF StateDue
<1>14. ContextDue'
  <2>1. \A i \in Nat : 4 < i /\ i < 7 => i \in {5, 6}
    OBVIOUS
  <2>2. ContextHolds(work', gCurrentContext', 6 + 1, wanted'.context)
    BY <1>5, <1>8, <2>1 DEF ContextHolds, Places, PlacesIn, Enters
  <2> QED BY <1>5, <2>2 DEF ContextDue, ContextEnds
<1>15. ListeningDue'
  <2>1. Listens(work'[6]) /\ 6 \in 1 .. 6
    BY <1>5 DEF Listens
  <2> QED BY <1>5, <1>7, <2>1 DEF ListeningDue
<1>16. EntriesDue' /\ Latched'
  <2>1. \A k \in 1 .. 6 : work'[k].op # "writePage"
    BY <1>5, <1>7
  <2> QED BY <1>3, <1>5, <2>1, CallEntries
<1>17. ContextKnown'
  BY <1>8 DEF ContextKnown
<1> QED
  BY <1>5, <1>9, <1>10, <1>12, <1>13, <1>14, <1>15, <1>16, <1>17 DEF IInv, Promises

LEMMA GoStopStep ==
  ASSUME IInv, cmdGo \/ cmdStop
  PROVE  IInv'
<1>1. PICK x \in {"sRUNNING", "sHALTED"} :
        /\ work = <<>> /\ Untouched /\ work' = <<State(x)>>
        /\ wanted' = [state |-> x, context |-> gCurrentContext] /\ UNCHANGED <<asked, edited>>
  BY Called DEF cmdGo, cmdStop, Want
<1>2. State(x) \in Primitives
  BY DEF Primitives, SysStates
<1>3. /\ work' \in Seq(Primitives) /\ Len(work') = 1
      /\ work'[1].op = "state" /\ work'[1].state = x
  BY <1>1, <1>2 DEF State
<1>4. Pending' = {1}
  BY <1>3 DEF Pending
<1>5. /\ wanted'.state = x /\ wanted'.context = gCurrentContext
      /\ gCurrentContext' = gCurrentContext /\ gCurrentContext \in Contexts /\ listening'
  BY <1>1, Idle DEF Untouched, IInv, Machine, Registers
<1>6. Machine'
  <2>1. asked \in [Contexts -> [Indexes -> Pages]] /\ edited \subseteq Contexts
    BY DEF IInv, Machine, Registers
  <2>2. x \in SysStates \ {"sSTARTUP"} /\ x # "sRESET"
    BY DEF SysStates
  <2> QED BY <1>1, <1>5, <2>1, <2>2, CallMachine
<1>7. Covered'
  BY <1>3, <1>4 DEF Covered
<1>8. Returning'
  BY <1>3, <1>4 DEF Returning, NoMorePlaces
<1>9. StateDue'
  <2>1. \A i \in Nat : ~(1 < i /\ i < 2)
    OBVIOUS
  <2>2. Holds(work', gSysState', 1 + 1, {wanted'.state})
    BY <1>3, <1>5, <2>1 DEF Holds, Enters
  <2> QED BY <1>3, <2>2 DEF StateDue, Ends
<1>10. ContextDue'
  <2>1. \A i \in Nat : 0 < i /\ i < 2 => i = 1
    OBVIOUS
  <2>2. ContextHolds(work', gCurrentContext', 1 + 1, wanted'.context)
    BY <1>3, <1>5, <2>1 DEF ContextHolds, Places, Enters
  <2> QED BY <1>3, <2>2 DEF ContextDue, ContextEnds
<1>11. ListeningDue'
  BY <1>3, <1>4, <1>5 DEF ListeningDue
<1>12. EntriesDue' /\ Latched'
  <2>1. \A k \in 1 .. 1 : work'[k].op # "writePage"
    BY <1>3
  <2> QED BY <1>1, <1>3, <2>1, CallEntries
<1>13. ContextKnown'
  BY <1>5 DEF ContextKnown
<1> QED
  BY <1>3, <1>6, <1>7, <1>8, <1>9, <1>10, <1>11, <1>12, <1>13 DEF IInv, Promises

LEMMA ResetStep ==
  ASSUME IInv, cmdReset
  PROVE  IInv'
<1>1. /\ work = <<>> /\ Untouched /\ work' = <<State("sRESET")>> \o Snoop(<<Write(MailboxPage)>>)
      /\ wanted' = [state |-> "sRESET", context |-> 0] /\ UNCHANGED <<asked, edited>>
  BY Called DEF cmdReset, Want
<1>2. State("sRESET") \in Primitives /\ Write(MailboxPage) \in Primitives
  BY BusAssumption DEF Primitives, SysStates, Indexes
<1>3. /\ work' \in Seq(Primitives) /\ Len(work') = 5
      /\ work'[1].op = "state" /\ work'[1].state = "sRESET" /\ work'[2].op = "save"
      /\ work'[3].op = "state" /\ work'[3].state = "sRPI"
      /\ work'[4].op = "write" /\ work'[5].op = "restore"
  <2> DEFINE a == <<State("sRESET")>>  b == Snoop(<<Write(MailboxPage)>>)
  <2>1. a \in Seq(Primitives) /\ Len(a) = 1 /\ a[1] = State("sRESET")
    BY <1>2
  <2>2. /\ b \in Seq(Primitives) /\ Len(b) = 4
        /\ b[1] = Step("save") /\ b[2] = State("sRPI") /\ b[3] = Write(MailboxPage)
        /\ b[4] = Step("restore")
    BY <1>2, OneSnooped
  <2>3. work' = a \o b
    BY <1>1
  <2> HIDE DEF a, b
  <2>4. /\ work' \in Seq(Primitives) /\ Len(work') = Len(a) + Len(b)
        /\ \A k \in 1 .. Len(a) : work'[k] = a[k]
        /\ \A k \in 1 .. Len(b) : work'[k + Len(a)] = b[k]
    <3>1. a \in Seq(Primitives) /\ b \in Seq(Primitives)
      BY <2>1, <2>2
    <3> QED BY ONLY <2>3, <3>1, Joined
  <2>5. /\ work'[1] = a[1] /\ work'[1 + 1] = b[1] /\ work'[2 + 1] = b[2]
        /\ work'[3 + 1] = b[3] /\ work'[4 + 1] = b[4] /\ Len(work') = 5
    BY <2>1, <2>2, <2>4
  <2>6. /\ work'[2] = Step("save") /\ work'[3] = State("sRPI")
        /\ work'[4] = Write(MailboxPage) /\ work'[5] = Step("restore")
    BY <2>2, <2>5
  <2>7. work'[1] = State("sRESET") /\ work' \in Seq(Primitives) /\ Len(work') = 5
    BY <2>1, <2>4, <2>5
  <2> QED BY ONLY <2>6, <2>7 DEF Step, State, Write
<1>4. Pending' = 1 .. 5 /\ \A k \in 1 .. 5 : k \in {1, 2, 3, 4, 5}
  BY <1>3 DEF Pending
<1>5. /\ wanted'.state = "sRESET" /\ wanted'.context = 0 /\ 0 \in Contexts
      /\ gCurrentContext' \in Contexts /\ listening'
  BY <1>1, Idle, BusAssumption DEF Untouched, IInv, Machine, Registers, Contexts
<1>6. Machine'
  <2>1. asked \in [Contexts -> [Indexes -> Pages]] /\ edited \subseteq Contexts
    BY DEF IInv, Machine, Registers
  <2>2. "sRESET" \in SysStates \ {"sSTARTUP"}
    BY DEF SysStates
  <2> QED BY <1>1, <1>5, <2>1, <2>2, CallMachine
<1>7. Covered'
  <2>1. \A i \in Nat : ~(3 < i /\ i < 4)
    OBVIOUS
  <2>2. Holds(work', gSysState', 4, {"sRPI", "sBOOT"})
    BY <1>3, <2>1 DEF Holds, Enters
  <2> QED BY <1>3, <1>4, <2>2 DEF Covered
<1>8. SavedAt(work', gSysState', saved', 5, wanted'.state)
  <2>1. \A i \in Nat : ~(1 < i /\ i < 2)
    OBVIOUS
  <2>2. Holds(work', gSysState', 2, {wanted'.state})
    BY <1>3, <1>5, <2>1 DEF Holds, Enters
  <2>3. \A i \in Nat : 2 < i /\ i < 5 => i \in {3, 4}
    OBVIOUS
  <2> QED BY <1>3, <2>2, <2>3 DEF SavedAt
<1>9. Returning'
  <2>1. NoMorePlaces(5)'
    <3>1. \A i \in 1 .. 5 : ~(5 < i)
      OBVIOUS
    <3> QED BY <1>4, <3>1 DEF NoMorePlaces
  <2> QED BY <1>3, <1>4, <1>8, <2>1 DEF Returning, Enters
<1>10. StateDue'
  <2>1. \A i \in Nat : ~(5 < i /\ i <= 5)
    OBVIOUS
  <2>2. Ends(work', 5, gSysState', saved', wanted'.state)
    BY <1>3, <1>8, <2>1 DEF Ends
  <2> QED BY <1>3, <2>2 DEF StateDue
<1>11. ContextDue'
  <2>1. \A i \in Nat : 1 < i /\ i < 6 => i \in {2, 3, 4, 5}
    OBVIOUS
  <2>2. ContextHolds(work', gCurrentContext', 5 + 1, wanted'.context)
    BY <1>3, <1>5, <2>1 DEF ContextHolds, Places, PlacesIn, Enters
  <2> QED BY <1>3, <2>2 DEF ContextDue, ContextEnds
<1>12. ListeningDue'
  BY <1>3, <1>4, <1>5 DEF ListeningDue
<1>13. EntriesDue' /\ Latched'
  <2>1. \A k \in 1 .. 5 : work'[k].op # "writePage"
    BY <1>3, <1>4
  <2> QED BY <1>1, <1>3, <2>1, CallEntries
<1>14. ContextKnown'
  BY <1>5 DEF ContextKnown
<1> QED
  BY <1>3, <1>6, <1>7, <1>9, <1>10, <1>11, <1>12, <1>13, <1>14 DEF IInv, Promises

-----------------------------------------------------------------------------
(* The lists made of loops: setup, and the loading of the cartridges.      *)
LEMMA SeqLarger ==
  ASSUME NEW A, NEW B, A \subseteq B, NEW s \in Seq(A)
  PROVE  s \in Seq(B)
<1>1. Len(s) \in Nat /\ s \in [1 .. Len(s) -> A]
  BY LenProperties
<1>2. s \in [1 .. Len(s) -> B]
  BY <1>1
<1> QED BY <1>1, <1>2

LEMMA Listed ==
  ASSUME NEW A, NEW n \in Nat, NEW f \in [1 .. n -> A]
  PROVE  f \in Seq(A) /\ Len(f) = n
<1>1. f \in Seq(A)
  OBVIOUS
<1> QED BY <1>1, LenProperties

(* The loops over contexts and indexes write every entry.                  *)
Writes(f) == {WritePage(c, i, f[c][i]) : c \in Contexts, i \in Indexes}

LEMMA EveryPageItems ==
  ASSUME NEW f
  PROVE  /\ EveryPage(f) \in Seq(Writes(f))
         /\ \A c \in Contexts, i \in Indexes :
              \E k \in 1 .. Len(EveryPage(f)) : EveryPage(f)[k] = WritePage(c, i, f[c][i])
<1> DEFINE n == NumContexts * NumPages
<1>1. NumContexts \in Nat \ {0} /\ NumPages \in Nat \ {0} /\ n \in Nat
  BY BusAssumption
<1>2. \A k \in 1 .. n : (k - 1) \div NumPages \in Contexts /\ (k - 1) % NumPages \in Indexes
  <2> SUFFICES ASSUME NEW k \in 1 .. n
               PROVE  (k - 1) \div NumPages \in Contexts /\ (k - 1) % NumPages \in Indexes
    OBVIOUS
  <2>1. PICK j \in Nat : j = k - 1 /\ j < NumContexts * NumPages
    BY <1>1
  <2>2. j \div NumPages \in 0 .. NumContexts - 1 /\ j % NumPages \in 0 .. NumPages - 1
    BY ONLY <1>1, <2>1
  <2> QED BY <2>1, <2>2 DEF Contexts, Indexes
<1>3. EveryPage(f) \in [1 .. n -> Writes(f)]
  BY <1>2 DEF EveryPage, Entry, Writes
<1>4. EveryPage(f) \in Seq(Writes(f)) /\ Len(EveryPage(f)) = n
  BY <1>1, <1>3, Listed
<1>5. ASSUME NEW c \in Contexts, NEW i \in Indexes
      PROVE  \E k \in 1 .. n : EveryPage(f)[k] = WritePage(c, i, f[c][i])
  <2>1. c \in Nat /\ c \in 0 .. NumContexts - 1 /\ i \in 0 .. NumPages - 1
    BY <1>1 DEF Contexts, Indexes
  <2>2. c * NumPages + i < NumContexts * NumPages /\ c * NumPages + i \in Nat
    BY ONLY <1>1, <2>1
  <2>3. (c * NumPages + i) \div NumPages = c /\ (c * NumPages + i) % NumPages = i
    BY ONLY <1>1, <2>1
  <2>4. PICK j \in Nat : /\ j < n
                         /\ j \div NumPages = c /\ j % NumPages = i
    BY <2>2, <2>3
  <2>5. PICK k \in 1 .. n : k - 1 = j
    <3>1. j + 1 \in 1 .. n /\ (j + 1) - 1 = j
      BY <1>1, <2>4
    <3> QED BY <3>1
  <2>6. EveryPage(f)[k] = WritePage((k - 1) \div NumPages, (k - 1) % NumPages,
                                    f[(k - 1) \div NumPages][(k - 1) % NumPages])
    BY DEF EveryPage, Entry
  <2> QED BY <2>4, <2>5, <2>6
<1> QED BY <1>4, <1>5

(* Cartridges are loaded in sBOOT.                                         *)
Loads ==
  {State("sBOOT")} \union {Context(c) : c \in Contexts} \union {Write(a) : a \in Indexes}

LEMMA LoadsFields ==
  /\ Loads \subseteq Primitives
  /\ \A s \in Loads : \/ s.op = "state" /\ s.state = "sBOOT"
                      \/ s.op \in {"context", "write"}
BY DEF Loads, Primitives, SysStates, State, Context, Write

LEMMA BootItems ==
  /\ bootSystemWithMenu \in Seq(Loads)
  /\ Len(bootSystemWithMenu) > 1
  /\ bootSystemWithMenu[1] = State("sBOOT")
  /\ bootSystemWithMenu[Len(bootSystemWithMenu)] = Context(BootContext)
<1> DEFINE a == <<State("sBOOT")>>  z == <<Context(BootContext)>>
           b == [k \in 1 .. 2 * NumContexts |->
                   IF k % 2 = 1 THEN Context((k - 1) \div 2) ELSE Write(NumPages - 1)]
<1>1. /\ NumContexts \in Nat \ {0} /\ BootContext \in Contexts /\ NumPages - 1 \in Indexes
      /\ 2 * NumContexts \in Nat
  BY BusAssumption DEF Contexts, Indexes
<1>2. a \in Seq(Loads) /\ Len(a) = 1 /\ a[1] = State("sBOOT")
  BY DEF Loads
<1>3. z \in Seq(Loads) /\ Len(z) = 1 /\ z[1] = Context(BootContext)
  <2>1. Context(BootContext) \in Loads
    BY <1>1 DEF Loads
  <2> QED BY <2>1
<1>4. b \in Seq(Loads) /\ Len(b) = 2 * NumContexts
  <2>1. \A k \in 1 .. 2 * NumContexts : k % 2 = 1 => (k - 1) \div 2 \in Contexts
    BY <1>1 DEF Contexts
  <2>2. b \in [1 .. 2 * NumContexts -> Loads]
    BY <1>1, <2>1 DEF Loads
  <2> QED BY <1>1, <2>2, Listed
<1>5. bootSystemWithMenu = (a \o b) \o z
  BY DEF bootSystemWithMenu, activateConfiguration
<1> HIDE DEF a, b, z
<1>6. /\ a \o b \in Seq(Loads) /\ Len(a \o b) = 1 + Len(b) /\ (a \o b)[1] = State("sBOOT")
      /\ Len(b) \in Nat
  <2>1. a \in Seq(Loads) /\ b \in Seq(Loads)
    BY <1>2, <1>4
  <2>2. /\ a \o b \in Seq(Loads) /\ Len(a \o b) = Len(a) + Len(b) /\ Len(b) \in Nat
        /\ \A i \in 1 .. Len(a) : (a \o b)[i] = a[i]
    BY ONLY <2>1, Joined
  <2> QED BY <1>2, <2>2
<1>7. PICK w : w = a \o b
  OBVIOUS
<1>8. /\ w \o z \in Seq(Loads) /\ Len(w \o z) = Len(w) + 1
      /\ (w \o z)[1] = w[1] /\ (w \o z)[Len(w) + 1] = z[1]
  <2>1. w \in Seq(Loads) /\ z \in Seq(Loads)
    BY <1>3, <1>6, <1>7
  <2>2. /\ w \o z \in Seq(Loads) /\ Len(w \o z) = Len(w) + Len(z) /\ Len(w) \in Nat
        /\ \A i \in 1 .. Len(w) : (w \o z)[i] = w[i]
        /\ \A i \in 1 .. Len(z) : (w \o z)[i + Len(w)] = z[i]
    BY ONLY <2>1, Joined
  <2>3. 1 \in 1 .. Len(w) /\ 1 \in 1 .. Len(z) /\ Len(w) + 1 = 1 + Len(w)
    BY <1>3, <1>6, <1>7, <2>2
  <2> QED BY <1>3, <2>2, <2>3
<1>9. Len(w) \in Nat /\ Len(w) > 0
  BY <1>6, <1>7
<1>10. bootSystemWithMenu = w \o z /\ w[1] = State("sBOOT")
  BY <1>5, <1>6, <1>7
<1> QED BY ONLY <1>3, <1>8, <1>9, <1>10

LEMMA SysConfigStep ==
  ASSUME IInv, cmdSysConfig
  PROVE  IInv'
<1>1. /\ work = <<>> /\ Untouched /\ work' = bootSystemWithMenu
      /\ wanted' = [state |-> "sBOOT", context |-> BootContext] /\ UNCHANGED <<asked, edited>>
  BY Called DEF cmdSysConfig, Want
<1> DEFINE n == Len(work')
<1>2. /\ work' \in Seq(Primitives) /\ n \in Nat /\ n > 1
      /\ work'[1].op = "state" /\ work'[1].state = "sBOOT"
      /\ work'[n].op = "context" /\ work'[n].context = BootContext
      /\ \A k \in 1 .. n : \/ work'[k].op = "state" /\ work'[k].state = "sBOOT"
                           \/ work'[k].op \in {"context", "write"}
  <2>1. work' \in Seq(Loads)
    BY <1>1, BootItems
  <2>2. work' \in Seq(Primitives) /\ n \in Nat
    BY <2>1, LoadsFields, SeqLarger, LenProperties
  <2>3. n > 1 /\ work'[1] = State("sBOOT") /\ work'[n] = Context(BootContext)
    BY <1>1, BootItems
  <2>4. \A k \in 1 .. n : work'[k] \in Loads
    BY <2>1, ElementOfSeq
  <2> QED BY <2>2, <2>3, <2>4, LoadsFields DEF State, Context
<1>3. Pending' = 1 .. n
  BY DEF Pending
<1>4. /\ wanted'.state = "sBOOT" /\ wanted'.context = BootContext /\ BootContext \in Contexts
      /\ gCurrentContext' \in Contexts /\ listening'
  BY <1>1, Idle, BusAssumption DEF Untouched, IInv, Machine, Registers, Contexts
<1> HIDE DEF n
<1>5. Machine'
  <2>1. asked \in [Contexts -> [Indexes -> Pages]] /\ edited \subseteq Contexts
    BY DEF IInv, Machine, Registers
  <2>2. "sBOOT" \in SysStates \ {"sSTARTUP"}
    BY DEF SysStates
  <2> QED BY <1>1, <1>4, <2>1, <2>2, CallMachine
<1>6. \A i \in Nat, k \in Nat :
        k <= n + 1 /\ 1 < i /\ i < k /\ Modal(work'[i]) => Enters(work'[i], {"sBOOT"})
  <2>1. \A i \in Nat, k \in Nat : k <= n + 1 /\ 1 < i /\ i < k => i \in 1 .. n
    BY <1>2
  <2> QED BY <1>2, <2>1 DEF Modal, Enters
<1>7. ASSUME NEW k \in Nat, 1 < k, k <= n + 1, NEW X, "sBOOT" \in X
      PROVE  Holds(work', gSysState', k, X)
  <2>1. \A i \in Nat : 1 < i /\ i < k /\ Modal(work'[i]) => Enters(work'[i], X)
    BY <1>6, <1>7 DEF Enters
  <2> QED BY <1>2, <1>7, <2>1 DEF Holds, Enters
<1>8. Covered'
  <2>1. SUFFICES ASSUME NEW k \in 1 .. n
                 PROVE  /\ Accesses(work'[k]) => Holds(work', gSysState', k, {"sRPI", "sBOOT"})
                        /\ work'[k].op \in {"context", "restoreContext"} =>
                             Holds(work', gSysState', k, {"sRPI", "sBOOT", "sHALTED"})
    BY <1>3 DEF Covered, Accesses
  <2>2. CASE k = 1
    BY <1>2, <2>2 DEF Accesses
  <2>3. CASE k > 1
    <3>1. k \in Nat /\ 1 < k /\ k <= n + 1
      BY <1>2, <2>3
    <3> QED BY <1>7, <3>1
  <2> QED BY <1>2, <2>2, <2>3
<1>9. Returning'
  BY <1>2, <1>3 DEF Returning, Enters
<1>10. StateDue'
  <2>1. n + 1 \in Nat /\ 1 < n + 1 /\ n + 1 <= n + 1
    BY <1>2
  <2>2. Holds(work', gSysState', n + 1, {"sBOOT"})
    BY <1>7, <2>1
  <2> QED BY <1>4, <2>2 DEF StateDue, Ends, n
<1>11. ContextDue'
  <2>1. \A i \in Nat : ~(n < i /\ i < n + 1)
    BY <1>2
  <2>2. n \in Nat /\ n < n + 1 /\ n # 0
    BY <1>2
  <2>3. ContextHolds(work', gCurrentContext', n + 1, BootContext)
    BY <1>2, <2>1, <2>2 DEF ContextHolds, PlacesIn
  <2> QED BY <1>4, <2>3 DEF ContextDue, ContextEnds, n
<1>12. ListeningDue'
  BY <1>2, <1>3, <1>4 DEF ListeningDue
<1>13. EntriesDue' /\ Latched'
  <2>1. \A k \in 1 .. Len(work') : work'[k].op # "writePage"
    BY <1>2 DEF n
  <2> QED BY <1>1, <1>2, <2>1, CallEntries
<1>14. ContextKnown'
  BY <1>4 DEF ContextKnown
<1> QED
  BY <1>2, <1>5, <1>8, <1>9, <1>10, <1>11, <1>12, <1>13, <1>14 DEF IInv, Promises

(* setup: first steps that leave memory alone, then those that write the   *)
(* layout f, then accesses, all in sBOOT; every entry of f is written.     *)
Early ==
  {State("sBOOT"), Step("deaf"), Step("listen")} \union {Context(c) : c \in Contexts}
  \union {WritePage(c, i, p) : c \in Contexts, i \in Indexes, p \in Pages}

Later == Loads \union {ReadPage(c, i) : c \in Contexts, i \in Indexes}

Phases(w, n, m, f) ==
  /\ n \in Nat /\ m \in Nat /\ 1 <= n /\ n <= m /\ m <= Len(w)
  /\ w[1] = State("sBOOT")
  /\ \A k \in Nat : 1 <= k /\ k <= n => w[k] \in Early
  /\ \A k \in Nat : n < k /\ k <= m => w[k] \in Writes(f)
  /\ \A k \in Nat : m < k /\ k <= Len(w) => w[k] \in Later
  /\ \A c \in Contexts, i \in Indexes :
       \E k \in Nat : n < k /\ k <= m /\ w[k] = WritePage(c, i, f[c][i])

LEMMA PhasesAppend ==
  ASSUME NEW w \in Seq(Primitives), NEW n, NEW m, NEW f, Phases(w, n, m, f),
         NEW t \in Seq(Later), t \in Seq(Primitives)
  PROVE  Phases(w \o t, n, m, f) /\ w \o t \in Seq(Primitives)
<1>1. /\ w \o t \in Seq(Primitives) /\ Len(w \o t) = Len(w) + Len(t)
      /\ Len(w) \in Nat /\ Len(t) \in Nat
      /\ \A i \in 1 .. Len(w) : (w \o t)[i] = w[i]
      /\ \A i \in 1 .. Len(t) : (w \o t)[i + Len(w)] = t[i]
  BY Joined
<1>2. n \in Nat /\ m \in Nat /\ 1 <= n /\ n <= m /\ m <= Len(w)
  BY DEF Phases
<1>3. \A k \in Nat : 1 <= k /\ k <= Len(w) => (w \o t)[k] = w[k]
  BY <1>1
<1>4. \A i \in 1 .. Len(t) : t[i] \in Later
  BY ElementOfSeq
<1>5. PICK v : v = w \o t
  OBVIOUS
<1>6. /\ \A k \in Nat : 1 <= k /\ k <= Len(w) => v[k] = w[k]
      /\ Len(v) = Len(w) + Len(t) /\ Len(v) \in Nat
      /\ \A i \in 1 .. Len(t) : v[i + Len(w)] \in Later
  BY <1>1, <1>3, <1>4, <1>5
<1>7. \A k \in Nat : m < k /\ k <= Len(v) => v[k] \in Later
  <2> SUFFICES ASSUME NEW k \in Nat, m < k, k <= Len(v)
               PROVE  v[k] \in Later
    OBVIOUS
  <2>1. CASE k <= Len(w)
    <3>1. w[k] \in Later /\ 1 <= k
      BY <1>2, <2>1 DEF Phases
    <3> QED BY <1>6, <2>1, <3>1
  <2>2. CASE k > Len(w)
    <3>1. PICK i \in 1 .. Len(t) : k = i + Len(w)
      <4>1. k - Len(w) \in 1 .. Len(t) /\ k = (k - Len(w)) + Len(w)
        BY <1>1, <1>6, <2>2
      <4> QED BY <4>1
    <3> QED BY <1>6, <3>1
  <2> QED BY <1>1, <2>1, <2>2
<1>8. /\ \A k \in Nat : 1 <= k /\ k <= n => v[k] \in Early
      /\ \A k \in Nat : n < k /\ k <= m => v[k] \in Writes(f)
  <2>1. /\ \A k \in Nat : 1 <= k /\ k <= n => 1 <= k /\ k <= Len(w)
        /\ \A k \in Nat : n < k /\ k <= m => 1 <= k /\ k <= Len(w)
    BY <1>1, <1>2
  <2> QED BY <1>6, <2>1 DEF Phases
<1>9. \A c \in Contexts, i \in Indexes :
        \E k \in Nat : n < k /\ k <= m /\ v[k] = WritePage(c, i, f[c][i])
  <2> SUFFICES ASSUME NEW c \in Contexts, NEW i \in Indexes
               PROVE  \E k \in Nat : n < k /\ k <= m /\ v[k] = WritePage(c, i, f[c][i])
    OBVIOUS
  <2>1. PICK k \in Nat : n < k /\ k <= m /\ w[k] = WritePage(c, i, f[c][i])
    BY DEF Phases
  <2>2. 1 <= k /\ k <= Len(w)
    BY <1>1, <1>2, <2>1
  <2>3. v[k] = w[k]
    BY <1>6, <2>2
  <2> QED BY <2>1, <2>3
<1>10. m <= Len(v) /\ v[1] = State("sBOOT")
  <2>1. w[1] = State("sBOOT") /\ 1 <= Len(w)
    BY <1>1, <1>2 DEF Phases
  <2>2. v[1] = w[1]
    BY <1>6, <2>1
  <2> QED BY <1>1, <1>2, <1>6, <2>1, <2>2
<1>11. Phases(v, n, m, f)
  BY ONLY <1>2, <1>7, <1>8, <1>9, <1>10 DEF Phases
<1> QED BY <1>1, <1>5, <1>11

(* Up to the loading of the cartridges.                                    *)
Prepared(f) ==
  <<State("sBOOT")>> \o initMMU \o EveryPage(f) \o dumpMMUPageMap(0) \o bootSystemWithMenu

LEMMA PhasesPrepared ==
  ASSUME NEW f \in [Contexts -> [Indexes -> Pages]]
  PROVE  /\ Prepared(f) \in Seq(Primitives)
         /\ \E n, m : Phases(Prepared(f), n, m, f)
<1> DEFINE a == <<State("sBOOT")>>  z == <<Context(0), Step("listen")>>
           g == [c \in Contexts |-> [i \in Indexes |-> CHOOSE p \in Pages : TRUE]]
<1>1. 0 \in Contexts /\ 0 \in Indexes /\ NumPages \in Nat
  BY BusAssumption DEF Contexts, Indexes
<1>2. (CHOOSE p \in Pages : TRUE) \in Pages
  <2>1. f[0][0] \in Pages
    BY <1>1
  <2> QED BY <2>1
<1>3. Early \subseteq Primitives /\ Later \subseteq Primitives
  <2>1. {State("sBOOT"), Step("deaf"), Step("listen")} \subseteq Primitives
    BY DEF Primitives, Plain, SysStates
  <2>2. Loads \subseteq Primitives
    BY LoadsFields
  <2> QED BY <2>1, <2>2 DEF Early, Later, Primitives
<1>4. initMMU \in Seq(Early)
  <2> DEFINE e == EveryPage(g)  d == <<Step("deaf")>>
  <2>1. Writes(g) \subseteq Early
    BY <1>2 DEF Writes, Early
  <2>2. e \in Seq(Early)
    BY <2>1, EveryPageItems, SeqLarger
  <2>3. d \in Seq(Early) /\ z \in Seq(Early)
    BY <1>1 DEF Early
  <2>4. initMMU = (d \o e) \o z
    BY DEF initMMU
  <2> HIDE DEF e, d, z
  <2>5. d \o e \in Seq(Early)
    BY <2>2, <2>3, ConcatProperties
  <2>6. (d \o e) \o z \in Seq(Early)
    BY <2>3, <2>5, ConcatProperties
  <2> QED BY <2>4, <2>6
<1>5. a \in Seq(Early) /\ Len(a) = 1 /\ a[1] = State("sBOOT")
  BY DEF Early
<1> DEFINE b == initMMU  l == EveryPage(f)  d == dumpMMUPageMap(0)  s == bootSystemWithMenu
<1>6. Prepared(f) = (((a \o b) \o l) \o d) \o s
  BY DEF Prepared
<1>7. b \in Seq(Early)
  BY <1>4
<1>8. /\ l \in Seq(Writes(f))
      /\ \A c \in Contexts, i \in Indexes :
           \E k \in 1 .. Len(l) : l[k] = WritePage(c, i, f[c][i])
  BY EveryPageItems
<1>9. d \in Seq(Later) /\ d \in Seq(Primitives)
  <2>1. \A k \in 1 .. NumPages : k - 1 \in Indexes
    BY <1>1 DEF Indexes
  <2>2. d \in [1 .. NumPages -> Later]
    BY <1>1, <2>1 DEF dumpMMUPageMap, Later
  <2>3. d \in Seq(Later)
    BY <1>1, <2>2, Listed
  <2> QED BY <1>3, <2>3, SeqLarger
<1>10. s \in Seq(Later) /\ s \in Seq(Primitives)
  <2>1. Loads \subseteq Later
    BY DEF Later
  <2> QED BY <2>1, BootItems, LoadsFields, SeqLarger
<1> HIDE DEF a, b, l, d, s
<1>11. PICK p : p = a \o b
  OBVIOUS
<1>12. p \in Seq(Early) /\ Len(p) \in Nat /\ 1 <= Len(p) /\ p[1] = State("sBOOT")
  <2>1. /\ a \o b \in Seq(Early) /\ Len(a \o b) = Len(a) + Len(b) /\ Len(b) \in Nat
        /\ \A i \in 1 .. Len(a) : (a \o b)[i] = a[i]
    <3>1. a \in Seq(Early)
      BY <1>5
    <3> QED BY ONLY <1>7, <3>1, Joined
  <2>2. (a \o b)[1] = a[1] /\ Len(a \o b) = 1 + Len(b)
    BY <1>5, <2>1
  <2> QED BY <1>5, <1>11, <2>1, <2>2
<1>13. PICK w : w = p \o l
  OBVIOUS
<1>14. p \in Seq(Primitives) /\ l \in Seq(Primitives)
  <2>1. Writes(f) \subseteq Primitives
    BY DEF Writes, Primitives
  <2> QED BY <1>3, <1>8, <1>12, <2>1, SeqLarger
<1>15. w \in Seq(Primitives) /\ Phases(w, Len(p), Len(w), f)
  <2>1. /\ w \in Seq(Primitives) /\ Len(w) = Len(p) + Len(l) /\ Len(l) \in Nat
        /\ \A i \in 1 .. Len(p) : w[i] = p[i]
        /\ \A i \in 1 .. Len(l) : w[i + Len(p)] = l[i]
    BY <1>13, <1>14, Joined
  <2>2. /\ \A i \in 1 .. Len(p) : p[i] \in Early
        /\ \A i \in 1 .. Len(l) : l[i] \in Writes(f)
    BY <1>8, <1>12, ElementOfSeq
  <2>3. \A k \in Nat : 1 <= k /\ k <= Len(p) => w[k] \in Early
    BY <1>12, <2>1, <2>2
  <2>4. \A k \in Nat : Len(p) < k /\ k <= Len(w) => w[k] \in Writes(f)
    <3> SUFFICES ASSUME NEW k \in Nat, Len(p) < k, k <= Len(w)
                 PROVE  w[k] \in Writes(f)
      OBVIOUS
    <3>1. k - Len(p) \in 1 .. Len(l) /\ k = (k - Len(p)) + Len(p)
      BY <1>12, <2>1
    <3>2. PICK i \in 1 .. Len(l) : k = i + Len(p)
      BY <3>1
    <3> QED BY <2>1, <2>2, <3>2
  <2>5. ASSUME NEW c \in Contexts, NEW i \in Indexes
        PROVE  \E k \in Nat : Len(p) < k /\ k <= Len(w) /\ w[k] = WritePage(c, i, f[c][i])
    <3>1. PICK k \in 1 .. Len(l) : l[k] = WritePage(c, i, f[c][i])
      BY <1>8
    <3>2. k + Len(p) \in Nat /\ Len(p) < k + Len(p) /\ k + Len(p) <= Len(w)
      BY <1>12, <2>1
    <3> QED BY <2>1, <3>1, <3>2
  <2>6. /\ Len(p) \in Nat /\ Len(w) \in Nat /\ 1 <= Len(p) /\ Len(p) <= Len(w)
        /\ Len(w) <= Len(w) /\ \A k \in Nat : ~(Len(w) < k /\ k <= Len(w))
    BY <1>12, <2>1
  <2>7. w[1] = State("sBOOT")
    BY <1>12, <2>1
  <2> QED BY <2>1, <2>3, <2>4, <2>5, <2>6, <2>7 DEF Phases
<1>16. w \o d \in Seq(Primitives) /\ Phases(w \o d, Len(p), Len(w), f)
  BY <1>9, <1>15, PhasesAppend
<1>17. (w \o d) \o s \in Seq(Primitives) /\ Phases((w \o d) \o s, Len(p), Len(w), f)
  BY <1>10, <1>16, PhasesAppend
<1> QED BY <1>6, <1>11, <1>13, <1>17

(* The list of setup, by the position of its steps.                        *)
SetupList(w, N, n, m, f) ==
  /\ w \in Seq(Primitives) /\ N \in Nat /\ Len(w) = N + 5
  /\ n \in Nat /\ m \in Nat /\ 1 <= n /\ n <= m /\ m <= N
  /\ w[1].op = "state" /\ w[1].state = "sBOOT"
  /\ \A k \in Nat : 1 <= k /\ k <= n => w[k] \in Early
  /\ \A k \in Nat : n < k /\ k <= m => w[k] \in Writes(f)
  /\ \A k \in Nat : m < k /\ k <= N => w[k] \in Later
  /\ \A c \in Contexts, i \in Indexes :
       \E k \in Nat : n < k /\ k <= m /\ w[k] = WritePage(c, i, f[c][i])
  /\ w[N + 1].op = "save"
  /\ w[N + 2].op = "state" /\ w[N + 2].state = "sRPI"
  /\ w[N + 3].op = "write" /\ w[N + 4].op = "restore"
  /\ w[N + 5].op = "state" /\ w[N + 5].state = "sRESET"

LEMMA SetupItems ==
  ASSUME NEW f \in [Contexts -> [Indexes -> Pages]], NEW w, w = setup(f)
  PROVE  \E N, n, m : SetupList(w, N, n, m, f)
<1> DEFINE a == Prepared(f)  b == Snoop(<<Write(MailboxPage)>>)  z == <<State("sRESET")>>
<1>1. PICK n, m : Phases(a, n, m, f)
  BY PhasesPrepared
<1>2. Write(MailboxPage) \in Primitives /\ State("sRESET") \in Primitives
  BY BusAssumption DEF Primitives, SysStates, Indexes
<1>3. /\ b \in Seq(Primitives) /\ Len(b) = 4
      /\ b[1] = Step("save") /\ b[2] = State("sRPI") /\ b[3] = Write(MailboxPage)
      /\ b[4] = Step("restore")
  BY <1>2, OneSnooped
<1>4. z \in Seq(Primitives) /\ Len(z) = 1 /\ z[1] = State("sRESET")
  BY <1>2
<1>5. w = (a \o b) \o z
  BY DEF setup, Prepared
<1>6. a \in Seq(Primitives)
  BY PhasesPrepared
<1> HIDE DEF a, b, z
<1> DEFINE N == Len(a)
<1>7. /\ a \o b \in Seq(Primitives) /\ N \in Nat /\ Len(a \o b) = N + 4
      /\ \A i \in 1 .. N : (a \o b)[i] = a[i]
      /\ \A i \in 1 .. 4 : (a \o b)[i + N] = b[i]
  <2>1. /\ a \o b \in Seq(Primitives) /\ Len(a) \in Nat /\ Len(a \o b) = Len(a) + Len(b)
        /\ \A i \in 1 .. Len(a) : (a \o b)[i] = a[i]
        /\ \A i \in 1 .. Len(b) : (a \o b)[i + Len(a)] = b[i]
    <3>1. a \in Seq(Primitives) /\ b \in Seq(Primitives)
      BY <1>3, <1>6
    <3> QED BY ONLY <3>1, Joined
  <2> QED BY <1>3, <2>1
<1>8. PICK v : v = a \o b
  OBVIOUS
<1>9. /\ w \in Seq(Primitives) /\ Len(w) = N + 5
      /\ \A i \in 1 .. N + 4 : w[i] = v[i]
      /\ w[N + 5] = State("sRESET")
  <2>1. /\ v \o z \in Seq(Primitives) /\ Len(v \o z) = Len(v) + Len(z)
        /\ \A i \in 1 .. Len(v) : (v \o z)[i] = v[i]
        /\ \A i \in 1 .. Len(z) : (v \o z)[i + Len(v)] = z[i]
    <3>1. v \in Seq(Primitives) /\ z \in Seq(Primitives)
      BY <1>4, <1>7, <1>8
    <3> QED BY ONLY <3>1, Joined
  <2>2. w = v \o z /\ Len(v) = N + 4 /\ N \in Nat
    BY <1>5, <1>7, <1>8
  <2>3. 1 \in 1 .. Len(z) /\ 1 + Len(v) = N + 5 /\ Len(v) + Len(z) = N + 5
    BY <1>4, <2>2
  <2>4. w[1 + Len(v)] = z[1]
    BY <2>1, <2>2, <2>3
  <2> QED BY <1>4, <2>1, <2>2, <2>3, <2>4
<1>10. \A k \in Nat : 1 <= k /\ k <= N => w[k] = a[k]
  <2>1. \A k \in Nat : 1 <= k /\ k <= N => k \in 1 .. N /\ k \in 1 .. N + 4
    BY <1>7
  <2> QED BY <1>7, <1>8, <1>9, <2>1
<1>11. /\ w[N + 1] = Step("save") /\ w[N + 2] = State("sRPI")
       /\ w[N + 3] = Write(MailboxPage) /\ w[N + 4] = Step("restore")
  <2>1. \A i \in 1 .. 4 : i + N \in 1 .. N + 4 /\ i + N = N + i
    BY <1>7
  <2>2. \A i \in 1 .. 4 : w[N + i] = b[i]
    BY <1>7, <1>8, <1>9, <2>1
  <2>3. 1 \in 1 .. 4 /\ 2 \in 1 .. 4 /\ 3 \in 1 .. 4 /\ 4 \in 1 .. 4
    OBVIOUS
  <2> QED BY <1>3, <2>2, <2>3
<1>12. n \in Nat /\ m \in Nat /\ 1 <= n /\ n <= m /\ m <= N
  BY <1>1 DEF Phases
<1>13. \A k \in Nat : /\ 1 <= k /\ k <= n => 1 <= k /\ k <= N
                      /\ n < k /\ k <= m => 1 <= k /\ k <= N
                      /\ m < k /\ k <= N => 1 <= k /\ k <= N
  BY <1>7, <1>12
<1> HIDE DEF N
<1>14. /\ \A k \in Nat : 1 <= k /\ k <= n => w[k] \in Early
       /\ \A k \in Nat : n < k /\ k <= m => w[k] \in Writes(f)
       /\ \A k \in Nat : m < k /\ k <= N => w[k] \in Later
  BY <1>1, <1>10, <1>13 DEF Phases, N
<1>15. \A c \in Contexts, i \in Indexes :
         \E k \in Nat : n < k /\ k <= m /\ w[k] = WritePage(c, i, f[c][i])
  BY <1>1, <1>10, <1>13 DEF Phases
<1>16. w[1] = State("sBOOT")
  <2>1. a[1] = State("sBOOT")
    BY <1>1 DEF Phases
  <2>2. 1 <= N
    BY <1>7, <1>12 DEF N
  <2> QED BY <1>10, <2>1, <2>2
<1>17. N \in Nat
  BY <1>7 DEF N
<1>18. /\ w[1].op = "state" /\ w[1].state = "sBOOT"
       /\ w[N + 1].op = "save"
       /\ w[N + 2].op = "state" /\ w[N + 2].state = "sRPI"
       /\ w[N + 3].op = "write" /\ w[N + 4].op = "restore"
       /\ w[N + 5].op = "state" /\ w[N + 5].state = "sRESET"
  <2>1. w[N + 5] = State("sRESET")
    BY <1>9
  <2>2. /\ Step("save").op = "save" /\ Step("restore").op = "restore"
        /\ Write(MailboxPage).op = "write"
        /\ \A x : State(x).op = "state" /\ State(x).state = x
    BY DEF Step, Write, State
  <2> QED BY ONLY <1>11, <1>16, <2>1, <2>2
<1>19. SetupList(w, N, n, m, f)
  BY ONLY <1>9, <1>12, <1>14, <1>15, <1>17, <1>18 DEF SetupList
<1> QED BY <1>19

(* Setup begins with a list that keeps every promise.                      *)
LEMMA InitInvariant == Init => IInv
<1> SUFFICES ASSUME Init PROVE IInv
  OBVIOUS
<1>1. /\ gSysState = "sSTARTUP" /\ gDir6502RW = "OUT" /\ gControlMode = "RPI"
      /\ gClockState = "OFF" /\ writes = 0 /\ gCurrentContext = -1 /\ gCurrentIndex = -1
      /\ areg = 0 /\ mmu \in [Contexts -> [Indexes -> Pages]]
      /\ asked \in [Contexts -> [Indexes -> Pages]]
      /\ work = setup(asked) /\ saved = "sSTARTUP" /\ savedContext = 0
      /\ wanted.state = "sRESET" /\ wanted.context = 0 /\ edited = {}
  BY DEF Init
<1>2. PICK N, n, m : SetupList(work, N, n, m, asked)
  BY <1>1, SetupItems
<1>3. /\ work \in Seq(Primitives) /\ N \in Nat /\ Len(work) = N + 5
      /\ n \in Nat /\ m \in Nat /\ 1 <= n /\ n <= m /\ m <= N
      /\ work[1].op = "state" /\ work[1].state = "sBOOT"
  BY <1>2 DEF SetupList
<1>4. /\ work[N + 1].op = "save"
      /\ work[N + 2].op = "state" /\ work[N + 2].state = "sRPI"
      /\ work[N + 3].op = "write" /\ work[N + 4].op = "restore"
      /\ work[N + 5].op = "state" /\ work[N + 5].state = "sRESET"
  BY <1>2 DEF SetupList
<1>5. Pending = 1 .. N + 5
  BY <1>3 DEF Pending
(* The steps before the mailbox is initialised.                            *)
<1>6. /\ \A s \in Early : \/ s.op = "state" /\ s.state = "sBOOT"
                          \/ s.op \in {"deaf", "listen", "context", "writePage"}
      /\ \A s \in Writes(asked) : /\ s.op = "writePage"
                                  /\ \A c, i : WritesEntry(s, c, i) => s.page = asked[c][i]
      /\ \A s \in Later : \/ s.op = "state" /\ s.state = "sBOOT"
                          \/ s.op \in {"context", "write", "readPage"}
  <2>1. \A s \in Loads : \/ s.op = "state" /\ s.state = "sBOOT"
                         \/ s.op \in {"context", "write"}
    BY LoadsFields
  <2> QED BY <2>1 DEF Early, Writes, Later, State, Step, Context, WritePage, ReadPage, WritesEntry
<1>7. ASSUME NEW k \in Nat, 1 <= k, k <= N
      PROVE  /\ \/ work[k].op = "state" /\ work[k].state = "sBOOT"
                \/ work[k].op \in {"deaf", "listen", "context", "writePage", "write", "readPage"}
             /\ k <= m => work[k].op \notin {"read", "write"}
             /\ k > m => work[k].op # "writePage"
             /\ k > n => \A c, i : WritesEntry(work[k], c, i) => work[k].page = asked[c][i]
  <2>1. CASE k <= n
    <3>1. work[k] \in Early /\ k <= m
      BY <1>2, <1>3, <1>7, <2>1 DEF SetupList
    <3> QED BY <1>3, <1>6, <2>1, <3>1
  <2>2. CASE n < k /\ k <= m
    <3>1. work[k] \in Writes(asked)
      BY <1>2, <2>2 DEF SetupList
    <3> QED BY <1>3, <1>6, <2>2, <3>1
  <2>3. CASE m < k
    <3>1. work[k] \in Later
      BY <1>2, <1>7, <2>3 DEF SetupList
    <3>2. ~(k <= m)
      BY <1>3, <2>3
    <3> QED BY <1>6, <3>1, <3>2 DEF WritesEntry
  <2> QED BY <1>3, <2>1, <2>2, <2>3
<1>8. \A k \in 1 .. N + 5 : \/ k \in Nat /\ 1 <= k /\ k <= N
                            \/ k \in {N + 1, N + 2, N + 3, N + 4, N + 5}
  BY <1>3
<1>9. Machine
  <2>1. Registers
    <3>1. 0 \in Contexts /\ 0 \in Indexes
      BY BusAssumption DEF Contexts, Indexes
    <3> QED BY <1>1, <3>1 DEF Registers, SysStates
  <2>2. Wires
    <3>1. gControlMode = "RPI" /\ gDir6502RW = "OUT" /\ ~pins.be
      BY DEF Init
    <3> QED BY <1>1, <3>1 DEF Wires
  <2>3. StoppedInRead
    BY <1>1, BusAssumption DEF StoppedInRead
  <2>4. ResetContext
    BY <1>1 DEF ResetContext
  <2> QED BY <2>1, <2>2, <2>3, <2>4 DEF Machine
(* All is done in sBOOT or sRPI.                                           *)
<1>10. ASSUME NEW k \in Nat, 1 < k, k <= N + 4
       PROVE  Holds(work, gSysState, k, {"sRPI", "sBOOT"})
  <2>1. \A i \in Nat : 1 < i /\ i < k /\ Modal(work[i]) => Enters(work[i], {"sRPI", "sBOOT"})
    <3> SUFFICES ASSUME NEW i \in Nat, 1 < i, i < k, Modal(work[i])
                 PROVE  Enters(work[i], {"sRPI", "sBOOT"})
      OBVIOUS
    <3>1. CASE i <= N
      BY <1>7, <3>1 DEF Modal, Enters
    <3>2. CASE i > N
      <4>1. i \in {N + 1, N + 2, N + 3}
        BY <1>3, <1>10, <3>2
      <4> QED BY <1>4, <4>1 DEF Modal, Enters
    <3> QED BY <1>3, <3>1, <3>2
  <2> QED BY <1>3, <1>10, <2>1 DEF Holds, Enters
<1>11. Covered
  <2>1. SUFFICES ASSUME NEW k \in 1 .. N + 5
                 PROVE  /\ Accesses(work[k]) => Holds(work, gSysState, k, {"sRPI", "sBOOT"})
                        /\ work[k].op \in {"context", "restoreContext"} =>
                             Holds(work, gSysState, k, {"sRPI", "sBOOT"})
    <3>1. \A k \in Nat : Holds(work, gSysState, k, {"sRPI", "sBOOT"}) =>
                           Holds(work, gSysState, k, {"sRPI", "sBOOT", "sHALTED"})
      BY DEF Holds, Enters
    <3> QED BY <1>5, <2>1, <3>1 DEF Covered, Accesses
  <2>2. CASE k = 1
    BY <1>3, <2>2 DEF Accesses
  <2>3. CASE k = N + 5
    BY <1>4, <2>3 DEF Accesses
  <2>4. CASE k # 1 /\ k # N + 5
    <3>1. k \in Nat /\ 1 < k /\ k <= N + 4
      BY <1>3, <2>4
    <3> QED BY <1>10, <3>1
  <2> QED BY <2>2, <2>3, <2>4
<1>12. Returning
  <2>1. Holds(work, gSysState, N + 1, {"sBOOT"})
    <3>1. \A i \in Nat : 1 < i /\ i < N + 1 /\ Modal(work[i]) => Enters(work[i], {"sBOOT"})
      <4>1. \A i \in Nat : 1 < i /\ i < N + 1 => 1 <= i /\ i <= N
        BY <1>3
      <4> QED BY <1>7, <4>1 DEF Modal, Enters
    <3>2. 1 \in Nat /\ 1 < N + 1 /\ 1 # 0
      BY <1>3
    <3> QED BY <1>3, <3>1, <3>2 DEF Holds, Enters
  <2>2. SavedAt(work, gSysState, saved, N + 4, "sBOOT")
    <3>1. \A i \in Nat : N + 1 < i /\ i < N + 4 => i \in {N + 2, N + 3}
      BY <1>3
    <3>2. N + 1 \in Nat /\ N + 1 < N + 4 /\ N + 1 # 0
      BY <1>3
    <3> QED BY <1>4, <2>1, <3>1, <3>2 DEF SavedAt
  <2>3. SUFFICES ASSUME NEW k \in 1 .. N + 5
                 PROVE  /\ work[k].op = "restore" =>
                             SavedAt(work, gSysState, saved, k, "sBOOT")
                        /\ ~Enters(work[k], {"sRUNNING"})
    BY <1>5 DEF Returning
  <2>4. work[k].op = "restore" => k = N + 4
    BY <1>4, <1>7, <1>8
  <2>5. ~Enters(work[k], {"sRUNNING"})
    BY <1>4, <1>7, <1>8 DEF Enters
  <2> QED BY <2>2, <2>4, <2>5
<1>13. StateDue /\ ContextDue
  <2>1. \A i \in Nat : ~(N + 5 < i /\ i < (N + 5) + 1)
    BY <1>3
  <2>2. N + 5 \in Nat /\ N + 5 < (N + 5) + 1 /\ N + 5 # 0
    BY <1>3
  <2>3. Holds(work, gSysState, (N + 5) + 1, {"sRESET"})
    BY <1>4, <2>1, <2>2 DEF Holds, Enters
  <2>4. ContextHolds(work, gCurrentContext, (N + 5) + 1, 0)
    BY <1>4, <2>1, <2>2 DEF ContextHolds, PlacesIn, Enters
  <2> QED BY <1>1, <1>3, <2>3, <2>4 DEF StateDue, Ends, ContextDue, ContextEnds
<1>14. ListeningDue
  <2>1. Listens(work[N + 3]) /\ N + 3 \in 1 .. N + 5
    BY <1>3, <1>4 DEF Listens
  <2>2. \A k \in 1 .. N + 5 : work[k].op = "deaf" => k < N + 3
    <3>1. \A k \in Nat : k <= N => k < N + 3
      BY <1>3
    <3> QED BY <1>4, <1>8, <3>1
  <2> QED BY <1>5, <2>1, <2>2 DEF ListeningDue
<1>15. EntriesDue
  <2>1. SUFFICES ASSUME NEW c \in Contexts, NEW i \in Indexes
                 PROVE  EntryDue(c, i)
    BY DEF EntriesDue
  <2>2. PICK k \in Nat : n < k /\ k <= m /\ work[k] = WritePage(c, i, asked[c][i])
    BY <1>2 DEF SetupList
  <2>3. WritesEntry(work[k], c, i) /\ work[k].page = asked[c][i]
    BY <2>2 DEF WritesEntry, WritePage
  <2>4. k <= N + 5 /\ k # 0
    BY <1>3, <2>2
  <2>5. \A j \in 1 .. N + 5 : k < j /\ WritesEntry(work[j], c, i) => work[j].page = asked[c][i]
    <3> SUFFICES ASSUME NEW j \in 1 .. N + 5, k < j, WritesEntry(work[j], c, i)
                 PROVE  work[j].page = asked[c][i]
      OBVIOUS
    <3>1. j \notin {N + 1, N + 2, N + 3, N + 4, N + 5}
      BY <1>4 DEF WritesEntry
    <3>2. j \in Nat /\ 1 <= j /\ j <= N /\ j > n
      BY <1>3, <1>8, <2>2, <3>1
    <3> QED BY <1>7, <3>2
  <2> QED BY <1>3, <1>5, <2>3, <2>4, <2>5 DEF EntryDue
<1>16. Latched
  <2>1. SUFFICES ASSUME NEW k \in 1 .. N + 5, work[k].op = "writePage",
                        NEW j \in 1 .. N + 5, j < k
                 PROVE  work[j].op \notin {"read", "write"}
    BY <1>1, <1>5 DEF Latched
  <2>2. k \notin {N + 1, N + 2, N + 3, N + 4, N + 5}
    BY <1>4, <2>1
  <2>3. k \in Nat /\ 1 <= k /\ k <= N
    BY <1>8, <2>2
  <2>4. ~(k > m)
    BY <1>7, <2>1, <2>3
  <2>5. j \in Nat /\ 1 <= j /\ j <= N /\ j <= m
    BY <1>3, <2>1, <2>3, <2>4
  <2> QED BY <1>7, <2>5
<1>17. ContextKnown
  <2>1. \A k \in 1 .. N + 5 : work[k].op # "saveContext"
    BY <1>4, <1>7, <1>8
  <2> QED BY <1>5, <2>1 DEF ContextKnown
<1> QED
  BY <1>3, <1>9, <1>11, <1>12, <1>13, <1>14, <1>15, <1>16, <1>17 DEF IInv, Promises

-----------------------------------------------------------------------------
(* The invariant is inductive.                                             *)
LEMMA QuietStep ==
  ASSUME IInv, Execute \/ UNCHANGED vars
  PROVE  IInv'
<1>1. /\ UNCHANGED <<control, gCurrentContext, mapping, listening, work, saved, savedContext,
                     commands, stepped>>
      /\ \/ gSysState = "sRUNNING"
              /\ writes' \in (IF writes > 0 THEN {writes - 1} ELSE 0 .. MaxBurst)
         \/ writes' = writes
  BY DEF Execute, vars
<1>2. Machine'
  <2>1. Registers /\ Wires /\ StoppedInRead /\ ResetContext
    BY DEF IInv, Machine
  <2>2. Registers'
    BY <1>1, <2>1 DEF Registers, control, mapping, commands
  <2>3. Wires'
    BY <1>1, <2>1 DEF Wires, control
  <2>4. StoppedInRead'
    <3>1. gClockState' = gClockState /\ stepped' = stepped
      BY <1>1 DEF control
    <3>2. gSysState = "sRUNNING" => gClockState = "ON"
      BY <2>1 DEF Wires
    <3>3. writes \in 0 .. MaxBurst /\ (gClockState = "OFF" /\ ~stepped => writes = 0)
      BY <2>1 DEF StoppedInRead
    <3>4. writes' \in 0 .. MaxBurst
      BY <1>1, <3>3, BusAssumption
    <3>5. gClockState' = "OFF" => writes' = writes
      BY <1>1, <3>1, <3>2
    <3> QED BY <3>1, <3>3, <3>4, <3>5 DEF StoppedInRead
  <2>5. ResetContext'
    BY <1>1, <2>1 DEF ResetContext, control, commands
  <2> QED BY <2>2, <2>3, <2>4, <2>5 DEF Machine
<1>3. /\ work' = work /\ gSysState' = gSysState /\ saved' = saved
      /\ gCurrentContext' = gCurrentContext /\ savedContext' = savedContext
      /\ gCurrentIndex' = gCurrentIndex /\ areg' = areg /\ mmu' = mmu
      /\ wanted' = wanted /\ asked' = asked /\ edited' = edited
  BY <1>1 DEF control, mapping, commands
<1>4. listening' = listening
  BY <1>1
<1>5. Covered' /\ Returning' /\ StateDue' /\ ContextDue' /\ ContextKnown'
  BY <1>3 DEF IInv, Promises, Covered, Returning, NoMorePlaces, StateDue, ContextDue,
              ContextKnown, Pending
<1>6. EntriesDue' /\ Latched' /\ ListeningDue'
  BY <1>3, <1>4 DEF IInv, Promises, EntriesDue, EntryDue, Latched, ListeningDue, Pending
<1> QED BY <1>2, <1>3, <1>5, <1>6 DEF IInv, Promises

LEMMA NextInvariant == IInv /\ [Next]_vars => IInv'
<1> SUFFICES ASSUME IInv, [Next]_vars PROVE IInv'
  OBVIOUS
<1>1. CASE DoStep
  BY <1>1, StepPromises
<1>2. CASE snoop
  BY <1>2, SnoopStep
<1>3. CASE FileAccess
  BY <1>3, FileAccessStep
<1>4. CASE taskScheduler
  BY <1>4, SwitchStep
<1>5. CASE cmdMMU
  BY <1>5, MMUStep
<1>6. CASE cmdPage
  BY <1>6, PageStep
<1>7. CASE cmdGo \/ cmdStop
  BY <1>7, GoStopStep
<1>8. CASE cmdReset
  BY <1>8, ResetStep
<1>9. CASE cmdZero
  BY <1>9, ZeroStep
<1>10. CASE cmdSysConfig
  BY <1>10, SysConfigStep
<1>11. CASE cmdSS \/ cmdSC
  BY <1>11, StepsStep
<1>12. CASE Execute \/ UNCHANGED vars
  BY <1>12, QuietStep
<1> QED
  BY <1>1, <1>2, <1>3, <1>4, <1>5, <1>6, <1>7, <1>8, <1>9, <1>10, <1>11, <1>12 DEF Next

(* The invariant holds at every moment.                                    *)
THEOREM Invariance == Spec => []IInv
<1>1. Init => IInv
  BY InitInvariant
<1>2. IInv /\ [Next]_vars => IInv'
  BY NextInvariant
<1> QED BY <1>1, <1>2, PTL DEF Spec

-----------------------------------------------------------------------------
(* The RP touches memory, MMU and the context register only in a state in  *)
(* which it has the bus (p6502.cpp, neobus.cpp): no list of steps any      *)
(* operation makes has an access outside of it.                            *)
THEOREM OneMaster == Spec => []OneBusMaster
<1>1. IInv => OneBusMaster
  <2> SUFFICES ASSUME IInv, work # <<>>
               PROVE  /\ Head(work).op \in {"read", "write", "readPage", "writePage"} =>
                           /\ gControlMode = "RPI" /\ gDir6502RW = "OUT"
                           /\ ~pins.be /\ gClockState = "OFF"
                      /\ Head(work).op \in {"context", "restoreContext"} => gClockState = "OFF"
    BY DEF OneBusMaster
  <2>1. Head(work) = work[1] /\ 1 \in Pending
    BY HeadTailProperties, EmptySeq, LenProperties DEF IInv, Pending
  <2>2. /\ work[1].op \in {"read", "write", "readPage", "writePage"} =>
             gSysState \in {"sRPI", "sBOOT"}
        /\ work[1].op \in {"context", "restoreContext"} =>
             gSysState \in {"sRPI", "sBOOT", "sHALTED"}
    BY <2>1 DEF IInv, Promises, Covered, Holds
  <2> QED BY <2>1, <2>2 DEF IInv, Machine, Wires
<1> QED BY <1>1, Invariance, PTL

(* Between two operations state and context are what the last command made *)
(* of them, and the doorbell is heard: set6502State, setMMUContext and     *)
(* enableMMUInterrupt come in pairs in every operation.                    *)
THEOREM Restored == Spec => []StateRestored
<1>1. IInv => StateRestored
  BY Idle DEF StateRestored
<1> QED BY <1>1, Invariance, PTL

(* halt6502clock stops the 6502 in a read cycle (p6502.cpp), and nothing   *)
(* but "sc" moves it on while its clock is stopped.                        *)
THEOREM StoppedReading == Spec => []HaltedInRead
<1>1. IInv => HaltedInRead
  BY DEF IInv, Machine, Wires, StoppedInRead, HaltedInRead
<1> QED BY <1>1, Invariance, PTL

(* setup leaves in the MMU what memory.ini asked for, and nothing but      *)
(* "page" changes an entry afterwards (mmu.cpp, memory_config.cpp).        *)
THEOREM Mapped == Spec => []MapsAsAsked
<1>1. IInv => MapsAsAsked
  <2> SUFFICES ASSUME IInv, work = <<>>, NEW c \in Contexts \ edited
               PROVE  mmu[c] = asked[c]
    BY DEF MapsAsAsked
  <2>1. \A i \in Indexes : mmu[c][i] = asked[c][i]
    BY Idle
  <2>2. mmu[c] \in [Indexes -> Pages] /\ asked[c] \in [Indexes -> Pages]
    BY DEF IInv, Machine, Registers
  <2> QED BY <2>1, <2>2
<1> QED BY <1>1, Invariance, PTL

(* Whoever lets the 6502 run again has put its context back, or was asked  *)
(* for another one (rp_fs.cpp, scheduler.cpp, monitor.cpp).                *)
Resumption ==
  gSysState # "sRUNNING" /\ gSysState' = "sRUNNING" => gCurrentContext' = wanted.context

LEMMA ResumptionStep == IInv /\ [Next]_vars => Resumption
<1> SUFFICES ASSUME IInv, [Next]_vars, gSysState # "sRUNNING", gSysState' = "sRUNNING"
             PROVE  gCurrentContext' = wanted.context
  BY DEF Resumption
<1>1. DoStep
  <2>1. \A op, steps : Call(op, steps) => gSysState' = gSysState
    BY DEF Call, control
  <2>2. Execute \/ UNCHANGED vars => gSysState' = gSysState
    BY DEF Execute, vars, control
  <2> QED
    BY <2>1, <2>2 DEF Next, snoop, FileAccess, taskScheduler, cmdMMU, cmdPage, cmdGo, cmdStop,
                      cmdReset, cmdZero, cmdSysConfig, cmdSS, cmdSC
<1>2. /\ work \in Seq(Primitives) /\ Returning /\ ContextDue /\ 1 \in Pending
      /\ Len(work) \in Nat
  BY <1>1, StepIsFirst DEF IInv, Promises, Pending, Rest
<1>3. /\ work[1].op = "state" => gSysState' = work[1].state
      /\ work[1].op = "restore" /\ saved # "sSTARTUP" => gSysState' = saved
      /\ work[1].op = "restore" => set6502State(saved)
      /\ ~Modal(work[1]) => gSysState' = gSysState
      /\ Modal(work[1]) =>
           gCurrentContext' = IF gSysState # "sRESET" /\ gSysState' = "sRESET"
                              THEN 0 ELSE gCurrentContext
  BY <1>1, <1>2, StateEffect, ContextEffect DEF control
<1>4. Modal(work[1]) /\ gCurrentContext' = gCurrentContext
  BY <1>3
<1>5. NoMorePlaces(1)
  <2>1. CASE work[1].op = "state"
    BY <1>2, <1>3, <2>1 DEF Returning, Enters
  <2>2. CASE work[1].op = "restore"
    <3>1. saved # "sBOOT"
      BY <1>3, <2>2 DEF set6502State
    <3>2. ~SavedAt(work, gSysState, saved, 1, "sBOOT")
      BY <3>1 DEF SavedAt
    <3> QED BY <1>2, <2>2, <3>2 DEF Returning
  <2> QED BY <1>4, <2>1, <2>2 DEF Modal
<1>6. ~Places(work[1])
  BY <1>3, <1>4 DEF Places, Modal, Enters
<1>7. \A k \in Pending : ~Places(work[k])
  BY <1>2, <1>5, <1>6 DEF NoMorePlaces, Pending
<1>8. \A k : \A c : PlacesIn(work[k], c) => Places(work[k])
  BY DEF PlacesIn, Places
<1>9. CASE ContextHolds(work, gCurrentContext, Len(work) + 1, wanted.context)
  <2>1. PICK m \in Nat : /\ m < Len(work) + 1
                         /\ m = 0 => gCurrentContext = wanted.context
                         /\ m # 0 => PlacesIn(work[m], wanted.context)
    BY <1>9 DEF ContextHolds
  <2>2. m # 0 => m \in Pending
    BY <1>2, <2>1 DEF Pending
  <2> QED BY <1>4, <1>7, <1>8, <2>1, <2>2
<1>10. CASE \E r \in 1 .. Len(work) : work[r].op = "restoreContext"
  BY <1>7, <1>10 DEF Pending, Places
<1> QED BY <1>2, <1>9, <1>10 DEF ContextDue, ContextEnds

THEOREM OwnContext == Spec => ResumesInOwnContext
<1>1. IInv /\ [Next]_vars => [Resumption]_vars
  BY ResumptionStep
<1>2. ResumesInOwnContext <=> [][Resumption]_vars
  BY DEF ResumesInOwnContext, Resumption
<1> QED BY <1>1, <1>2, Invariance, PTL DEF Spec

-----------------------------------------------------------------------------
(* What only the types need.                                               *)
Flags ==
  /\ pins \in [reset : BOOLEAN, rdy : BOOLEAN, be : BOOLEAN]
  /\ gDir6502RW \in {"OUT", "IN"}
  /\ gControlMode \in {"RPI", "CPU"}
  /\ listening \in BOOLEAN
  /\ stepped \in BOOLEAN
  /\ wanted \in [state : SysStates, context : Contexts]
  /\ ops \in 0 .. MaxOps

LEMMA PinsKept ==
  ASSUME NEW x, pins \in [reset : BOOLEAN, rdy : BOOLEAN, be : BOOLEAN], set6502State(x)
  PROVE  pins' \in [reset : BOOLEAN, rdy : BOOLEAN, be : BOOLEAN]
<1>1. CASE x \in {gSysState, "sSTARTUP"}
  BY <1>1 DEF set6502State, control
<1>2. CASE x \notin {gSysState, "sSTARTUP"}
  <2> DEFINE r == CASE x \in {"sBOOT", "sRESET"}   -> FALSE
                    [] x \in {"sRUNNING", "sREAD"} -> TRUE
                    [] OTHER                       -> pins.reset
             d == x \in {"sRUNNING", "sREAD"}
             b == x \notin {"sBOOT", "sRPI"}
  <2>1. pins' = [reset |-> r, rdy |-> d, be |-> b]
    BY <1>2 DEF set6502State
  <2>2. r \in BOOLEAN
    <3>1. pins.reset \in BOOLEAN
      OBVIOUS
    <3>2. CASE x \in {"sBOOT", "sRESET"}
      BY <3>2
    <3>3. CASE x \in {"sRUNNING", "sREAD"}
      BY <3>3
    <3>4. CASE x \notin {"sBOOT", "sRESET", "sRUNNING", "sREAD"}
      BY <3>1, <3>4
    <3> QED BY <3>2, <3>3, <3>4
  <2>3. d \in BOOLEAN /\ b \in BOOLEAN
    OBVIOUS
  <2> HIDE DEF r, d, b
  <2> QED BY <2>1, <2>2, <2>3
<1> QED BY <1>1, <1>2

LEMMA FlagsStep == Flags /\ IInv /\ [Next]_vars => Flags'
<1> SUFFICES ASSUME Flags, IInv, [Next]_vars PROVE Flags'
  OBVIOUS
<1>1. ASSUME NEW op, NEW steps, Call(op, steps)
      PROVE  /\ UNCHANGED <<pins, gDir6502RW, gControlMode, listening, stepped, gSysState>>
             /\ gCurrentContext \in Contexts /\ gSysState \in SysStates
  <2>1. IInv /\ work = <<>>
    BY <1>1 DEF Call
  <2>2. gCurrentContext = wanted.context /\ Registers
    BY <2>1, Idle DEF IInv, Machine
  <2> QED BY <1>1, <2>2 DEF Call, control, Registers
<1>2. ASSUME NEW op, NEW steps, Call(op, steps), Keep
      PROVE  Flags'
  BY <1>1, <1>2 DEF Flags, Keep, commands
<1>3. ASSUME NEW op, NEW steps, Call(op, steps),
             NEW x \in SysStates, NEW c \in Contexts, Want(x, c)
      PROVE  Flags'
  <2>1. UNCHANGED <<pins, gDir6502RW, gControlMode, listening, stepped>>
    BY <1>1, <1>3
  <2>2. wanted' \in [state : SysStates, context : Contexts] /\ ops' \in 0 .. MaxOps
    BY <1>3, BusAssumption DEF Want, Flags
  <2> QED BY <2>1, <2>2 DEF Flags
<1>4. CASE DoStep
  <2>1. UNCHANGED commands /\ stepped' \in BOOLEAN
    BY <1>4 DEF DoStep
  <2>2. PICK s : \/ ChangeState(s) \/ Save(s) \/ setMMUContext(s) \/ AccessMemory(s)
                 \/ AccessPage(s) \/ enableMMUInterrupt(s) \/ ss6502ClockStep(s)
    BY <1>4 DEF DoStep
  <2>3. listening' \in BOOLEAN
    <3>1. CASE AccessMemory(s)
      BY <3>1 DEF AccessMemory
    <3>2. CASE enableMMUInterrupt(s)
      BY <3>2 DEF enableMMUInterrupt
    <3> QED
      BY <2>2, <3>1, <3>2
         DEF ChangeState, Save, setMMUContext, AccessPage, ss6502ClockStep, Flags
  <2>4. /\ pins' \in [reset : BOOLEAN, rdy : BOOLEAN, be : BOOLEAN]
        /\ gDir6502RW' \in {"OUT", "IN"} /\ gControlMode' \in {"RPI", "CPU"}
    <3>1. CASE ChangeState(s)
      <4>1. PICK x : set6502State(x)
        BY <3>1 DEF ChangeState
      <4>2. gDir6502RW' \in {"OUT", "IN"} /\ gControlMode' \in {"RPI", "CPU"}
        <5>1. CASE x \in {gSysState, "sSTARTUP"}
          BY <4>1, <5>1 DEF set6502State, control, Flags
        <5>2. CASE x \notin {gSysState, "sSTARTUP"}
          <6>1. /\ gDir6502RW' = IF x \in {"sBOOT", "sRPI"} THEN "OUT" ELSE "IN"
                /\ gControlMode' = IF x \in {"sBOOT", "sREAD", "sRPI"} THEN "RPI" ELSE "CPU"
            BY <4>1, <5>2 DEF set6502State
          <6> QED BY <6>1
        <5> QED BY <5>1, <5>2
      <4> QED BY <4>1, <4>2, PinsKept DEF Flags
    <3>2. CASE ~ChangeState(s)
      BY <2>2, <3>2
         DEF Save, setMMUContext, AccessMemory, AccessPage, enableMMUInterrupt,
             ss6502ClockStep, control, Flags
    <3> QED BY <3>1, <3>2
  <2> QED BY <2>1, <2>3, <2>4 DEF Flags, commands
<1>5. CASE snoop \/ FileAccess \/ cmdMMU \/ cmdZero \/ cmdSS \/ cmdSC
  BY <1>2, <1>5 DEF snoop, FileAccess, cmdMMU, cmdZero, cmdSS, cmdSC
<1>6. CASE taskScheduler \/ cmdGo \/ cmdStop \/ cmdReset \/ cmdSysConfig
  <2>1. /\ {"sRUNNING", "sHALTED", "sRESET", "sBOOT"} \subseteq SysStates
        /\ 0 \in Contexts /\ BootContext \in Contexts
    BY BusAssumption DEF SysStates, Contexts
  <2>2. PICK op, steps, x, c : /\ Call(op, steps) /\ Want(x, c)
                               /\ x \in {gSysState, "sRUNNING", "sHALTED", "sRESET", "sBOOT"}
                               /\ c \in Contexts \union {gCurrentContext, 0, BootContext}
    BY <1>6 DEF taskScheduler, cmdGo, cmdStop, cmdReset, cmdSysConfig
  <2>3. x \in SysStates /\ c \in Contexts
    BY <1>1, <2>1, <2>2
  <2> QED BY <1>3, <2>2, <2>3
<1>7. CASE cmdPage
  <2>1. PICK op, steps : Call(op, steps)
    BY <1>7 DEF cmdPage
  <2>2. wanted' = wanted /\ ops' = ops + 1 /\ ops < MaxOps
    BY <1>7 DEF cmdPage
  <2>3. UNCHANGED <<pins, gDir6502RW, gControlMode, listening, stepped>>
    BY <1>1, <2>1
  <2>4. ops' \in 0 .. MaxOps
    BY <2>2, BusAssumption DEF Flags
  <2> QED BY <2>2, <2>3, <2>4 DEF Flags
<1>8. CASE Execute \/ UNCHANGED vars
  BY <1>8 DEF Execute, vars, control, commands, Flags
<1> QED BY <1>4, <1>5, <1>6, <1>7, <1>8 DEF Next

(* Every variable keeps its type, in any number of contexts, pages and     *)
(* operations: a context or index of -1 is never used as one.              *)
THEOREM TypeCorrect == Spec => []TypeOK
<1>1. Init => Flags
  <2> SUFFICES ASSUME Init PROVE Flags
    OBVIOUS
  <2>1. /\ pins \in [reset : BOOLEAN, rdy : BOOLEAN, be : BOOLEAN]
        /\ listening \in BOOLEAN /\ stepped \in BOOLEAN
        /\ gDir6502RW \in {"OUT", "IN"} /\ gControlMode \in {"RPI", "CPU"}
    BY DEF Init
  <2>2. wanted \in [state : SysStates, context : Contexts] /\ ops \in 0 .. MaxOps
    BY BusAssumption DEF Init, SysStates, Contexts
  <2> QED BY <2>1, <2>2 DEF Flags
<1>2. Flags /\ IInv /\ [Next]_vars => Flags'
  BY FlagsStep
<1>3. Flags /\ IInv => TypeOK
  BY DEF Flags, IInv, Machine, Registers, StoppedInRead, TypeOK
<1> QED BY <1>1, <1>2, <1>3, Invariance, PTL DEF Spec
=============================================================================
