--------------------------- MODULE MailboxProofs ---------------------------
(***************************************************************************)
(* Proofs about the mailbox for every chunk size, queue capacity, poll     *)
(* limit and set of lengths: types, that a request is executed exactly     *)
(* once, and that the shared block implements RequestReply.                *)
(***************************************************************************)
EXTENDS Mailbox, SequenceTheorems, FunctionTheorems, FiniteSetTheorems, WellFoundedInduction, TLAPS

(* The smaller of two numbers, as used for slices and transfer lengths.    *)
LEMMA LesserBounds ==
  ASSUME NEW a \in Nat, NEW b \in Nat
  PROVE  lesser(a, b) \in Nat /\ lesser(a, b) <= a /\ lesser(a, b) <= b
BY DEF lesser

(* A slice of a queue.                                                     *)
LEMMA SliceType ==
  ASSUME NEW S, NEW s \in Seq(S), NEW n \in Nat, n <= Len(s)
  PROVE  /\ SubSeq(s, 1, n) \in Seq(S) /\ Len(SubSeq(s, 1, n)) = n
         /\ SubSeq(s, n + 1, Len(s)) \in Seq(S)
         /\ Len(SubSeq(s, n + 1, Len(s))) = Len(s) - n
OBVIOUS

(* The characters of a list of them, and of its first part.                *)
LEMMA MembersType ==
  ASSUME NEW S, NEW s \in Seq(S), NEW n \in Nat, n <= Len(s)
  PROVE  Members(s) \subseteq S /\ Members(SubSeq(s, 1, n)) \subseteq S
<1>1. SubSeq(s, 1, n) \in Seq(S)
  BY SliceType
<1> QED
  BY <1>1 DEF Members

(* A request is a command and a length.                                    *)
LEMMA RequestType ==
  /\ NoRequest.len \in Nat
  /\ \A r \in Requests : r.len \in Nat /\ r.cmd \in Commands /\ r = [cmd |-> r.cmd, len |-> r.len]
<1>1. NoRequest.len \in Nat
  BY DEF NoRequest
<1>2. ASSUME NEW r \in [cmd : Transfers, len : Lengths]
      PROVE  r.len \in Nat /\ r.cmd \in Commands /\ r = [cmd |-> r.cmd, len |-> r.len]
  BY ConstantsAssumption DEF Commands
<1>3. ASSUME NEW r \in [cmd : Commands \ Transfers, len : {0}]
      PROVE  r.len \in Nat /\ r.cmd \in Commands /\ r = [cmd |-> r.cmd, len |-> r.len]
  OBVIOUS
<1> QED
  BY <1>1, <1>2, <1>3 DEF Requests

LEMMA LengthType ==
  ASSUME [cmd |-> cmd, len |-> len] \in Requests \union {NoRequest}
  PROVE  len \in Nat
<1> DEFINE r == [cmd |-> cmd, len |-> len]
<1>1. r.len = len
  OBVIOUS
<1>2. r \in Requests \union {NoRequest}
  OBVIOUS
<1> HIDE DEF r
<1> QED
  BY <1>1, <1>2, RequestType

(* What holds of 0, and of n + 1 when of n, holds of every natural number. *)
LEMMA SetInduction ==
  ASSUME NEW S, 0 \in S, \A n \in Nat : n \in S => n + 1 \in S
  PROVE  Nat \subseteq S
<1> SUFFICES ASSUME Nat \ S # {} PROVE FALSE
  OBVIOUS
<1> DEFINE T == Nat \ S
           R == OpToRel(<, Nat)
<1>1. IsWellFoundedOn(R, Nat)
  BY NatLessThanWellFounded
<1>2. \A x, y \in Nat : <<x, y>> \in R <=> x < y
  BY DEF OpToRel
<1>3. T \subseteq Nat /\ T # {}
  OBVIOUS
<1> HIDE DEF R, T
<1>4. PICK x \in T : \A y \in T : ~(<<y, x>> \in R)
  BY <1>1, <1>3, WFMin
<1>5. x \in Nat /\ x # 0
  BY <1>3 DEF T
<1>6. x - 1 \in Nat /\ x - 1 < x /\ (x - 1) + 1 = x
  BY <1>5
<1>7. x - 1 \notin T
  BY <1>2, <1>4, <1>5, <1>6
<1>8. x - 1 \in S
  BY <1>6, <1>7 DEF T
<1>9. x \in S
  BY <1>6, <1>8
<1> QED
  BY <1>9 DEF T

(* What reached the display queue, and how many bytes it holds.            *)
Increasing(s) == \A i, j \in DOMAIN s : i < j => s[i] < s[j]

Holds(q) == q.accepted \in Seq(Nat) /\ q.count \in 0 .. QCap

(* Places up to m in their order, none of them of a 0x00.                  *)
Ordered(q, m) ==
  /\ Increasing(q.accepted)
  /\ Members(q.accepted) \intersect nuls = {}
  /\ \A i \in DOMAIN q.accepted : q.accepted[i] <= m

(* All that is to be shown of the first m bytes is there, and those after  *)
(* the first c are what the queue holds.                                   *)
Whole(q, c, m) ==
  /\ Members(q.accepted) = (1 .. m) \ nuls
  /\ q.count = Cardinality((c + 1 .. m) \ nuls)

(* A place after the others of a list.                                     *)
LEMMA Appended ==
  ASSUME NEW s \in Seq(Nat), NEW x \in Nat
  PROVE  LET t == Append(s, x)
         IN /\ t \in Seq(Nat)
            /\ \A i \in DOMAIN t : t[i] = x \/ (i \in DOMAIN s /\ t[i] = s[i])
            /\ Members(t) = Members(s) \union {x}
            /\ (Increasing(s) /\ \A i \in DOMAIN s : s[i] < x) => Increasing(t)
<1> DEFINE t == Append(s, x)
<1>1. /\ t \in Seq(Nat) /\ Len(s) \in Nat
      /\ DOMAIN s = 1 .. Len(s) /\ DOMAIN t = 1 .. (Len(s) + 1)
      /\ t[Len(s) + 1] = x
      /\ \A i \in 1 .. Len(s) : t[i] = s[i]
  BY AppendProperties, LenProperties
<1> HIDE DEF t
<1>2. \A i \in DOMAIN t : (i = Len(s) + 1 /\ t[i] = x) \/ (i \in DOMAIN s /\ t[i] = s[i])
  BY <1>1
<1>3. Len(s) + 1 \in DOMAIN t /\ DOMAIN s \subseteq DOMAIN t
  BY <1>1
<1>4. Members(t) = Members(s) \union {x}
  <2>1. Members(t) \subseteq Members(s) \union {x}
    BY <1>2 DEF Members
  <2>2. \A i \in DOMAIN s : s[i] = t[i] /\ i \in DOMAIN t
    BY <1>1, <1>3
  <2>3. Members(s) \union {x} \subseteq Members(t)
    BY <1>1, <1>3, <2>2 DEF Members
  <2> QED
    BY <2>1, <2>3
<1>5. ASSUME Increasing(s), \A i \in DOMAIN s : s[i] < x PROVE Increasing(t)
  <2> SUFFICES ASSUME NEW i \in DOMAIN t, NEW j \in DOMAIN t, i < j PROVE t[i] < t[j]
    BY DEF Increasing
  <2>1. i \in DOMAIN s /\ t[i] = s[i]
    BY <1>1
  <2>2. CASE j = Len(s) + 1
    BY <1>1, <1>5, <2>1, <2>2
  <2>3. CASE j # Len(s) + 1
    <3>1. j \in DOMAIN s /\ t[j] = s[j]
      BY <1>2, <2>3
    <3> QED
      BY <1>5, <2>1, <3>1 DEF Increasing
  <2> QED
    BY <2>2, <2>3
<1> QED
  BY <1>1, <1>2, <1>4, <1>5 DEF t

(* One byte more.                                                          *)
LEMMA ByteKeeps ==
  ASSUME NEW q, NEW m \in Nat, Holds(q)
  PROVE  LET r == writeVDUQ(q, m + 1)
         IN Holds(r) /\ (Ordered(q, m) => Ordered(r, m + 1))
<1> DEFINE r == writeVDUQ(q, m + 1)
           s == q.accepted
           t == Append(s, m + 1)
<1>0. s \in Seq(Nat) /\ q.count \in 0 .. QCap /\ m + 1 \in Nat /\ QCap \in Nat
  BY ConstantsAssumption DEF Holds
<1>3. Ordered(q, m) => \A i \in DOMAIN s : s[i] \in Nat /\ s[i] <= m
  BY <1>0, ElementOfSeq, LenProperties DEF Ordered
<1>1. CASE m + 1 \in nuls \/ q.count = QCap
  <2>1. r = q
    BY <1>1 DEF writeVDUQ
  <2>2. Ordered(q, m) => \A i \in DOMAIN s : s[i] <= m + 1
    BY <1>3
  <2>3. Holds(r) /\ (Ordered(q, m) => Ordered(r, m + 1))
    <3> HIDE DEF r
    <3> QED
      BY <2>1, <2>2 DEF Ordered
  <2> QED
    BY <2>3
<1>2. CASE ~(m + 1 \in nuls \/ q.count = QCap)
  <2>1. r.accepted = t /\ r.count = q.count + 1
    BY <1>2 DEF writeVDUQ
  <2>3. /\ t \in Seq(Nat)
        /\ \A i \in DOMAIN t : t[i] = m + 1 \/ (i \in DOMAIN s /\ t[i] = s[i])
        /\ Members(t) = Members(s) \union {m + 1}
        /\ (Increasing(s) /\ \A i \in DOMAIN s : s[i] < m + 1) => Increasing(t)
    BY <1>0, Appended
  <2> HIDE DEF r, s, t
  <2>6. Holds(r)
    BY SMTT(30), <1>0, <1>2, <2>1, <2>3 DEF Holds
  <2>7. ASSUME Ordered(q, m) PROVE Ordered(r, m + 1)
    <3>1. \A i \in DOMAIN s : s[i] < m + 1
      BY <1>3, <2>7
    <3>2. \A i \in DOMAIN t : t[i] <= m + 1
      BY <1>3, <2>3, <2>7
    <3> QED
      BY <1>2, <2>1, <2>3, <2>7, <3>1, <3>2 DEF Ordered, s
  <2> QED
    BY <2>6, <2>7 DEF r
<1> QED
  BY <1>1, <1>2

(* It finds room if the bytes to be shown fit the queue.                   *)
LEMMA ByteWhole ==
  ASSUME NEW q, NEW c \in Nat, NEW m \in Nat, c <= m, m + 1 <= len, len \in Nat,
         Holds(q), Whole(q, c, m), Cardinality(Shown) <= QCap
  PROVE  Whole(writeVDUQ(q, m + 1), c, m + 1)
<1> DEFINE r == writeVDUQ(q, m + 1)
           S == (c + 1 .. m) \ nuls
           T == (c + 1 .. m + 1) \ nuls
<1>0. q.accepted \in Seq(Nat) /\ m + 1 \in Nat /\ QCap \in Nat /\ q.count \in 0 .. QCap
  BY ConstantsAssumption DEF Holds
<1>1. CASE m + 1 \in nuls
  <2>1. r = q
    BY <1>1 DEF writeVDUQ
  <2>2. T = S /\ (1 .. m + 1) \ nuls = (1 .. m) \ nuls
    BY <1>1
  <2> QED
    BY <2>1, <2>2 DEF Whole
<1>2. CASE m + 1 \notin nuls
  <2>1. T = S \union {m + 1} /\ m + 1 \notin S
    BY <1>2
  <2>2. (1 .. m + 1) \ nuls = ((1 .. m) \ nuls) \union {m + 1}
    BY <1>2
  <2>3. IsFiniteSet(1 .. len) /\ IsFiniteSet(Shown)
    <3>1. IsFiniteSet(1 .. len) /\ Shown \subseteq 1 .. len
      BY FS_Interval DEF Shown
    <3> QED
      BY <3>1, FS_Subset
  <2>4. T \subseteq Shown /\ S \subseteq Shown
    BY DEF Shown
  <2>5. /\ IsFiniteSet(S) /\ IsFiniteSet(T) /\ Cardinality(T) <= Cardinality(Shown)
        /\ Cardinality(S) \in Nat /\ Cardinality(T) \in Nat /\ Cardinality(Shown) \in Nat
    <3> HIDE DEF S, T
    <3> QED
      BY <2>3, <2>4, FS_Subset, FS_CardinalityType
  <2>6. Cardinality(T) = Cardinality(S) + 1
    <3> HIDE DEF S, T
    <3> QED
      BY <2>1, <2>5, FS_AddElement
  <2>7. q.count = Cardinality(S)
    BY DEF Whole
  <2>8. q.count # QCap
    <3> HIDE DEF S, T
    <3> QED
      BY <1>0, <2>5, <2>6, <2>7
  <2>9. r.accepted = Append(q.accepted, m + 1) /\ r.count = q.count + 1
    BY <1>2, <2>8 DEF writeVDUQ
  <2>10. Members(r.accepted) = Members(q.accepted) \union {m + 1}
    BY <1>0, <2>9, Appended
  <2> HIDE DEF r
  <2>11. r.count = Cardinality(T)
    <3> HIDE DEF S, T
    <3> QED
      BY <2>6, <2>7, <2>9
  <2> QED
    BY <2>2, <2>10, <2>11 DEF Whole, r
<1> QED
  BY <1>1, <1>2

(* A slice of n bytes after the first gConsoleCurrent.                     *)
LEMMA OutputIs ==
  ASSUME NEW n \in Nat, gConsoleCurrent \in Nat, len \in Nat,
         Holds([accepted |-> accepted, count |-> vduCount])
  PROVE  LET q == [accepted |-> accepted, count |-> vduCount]
             r == rp_console_output_bytes(n)
             c == gConsoleCurrent
         IN /\ Holds(r)
            /\ Ordered(q, c) => Ordered(r, c + n)
            /\ (Whole(q, c, c) /\ c + n <= len /\ Cardinality(Shown) <= QCap) => Whole(r, c, c + n)
<1> DEFINE q == [accepted |-> accepted, count |-> vduCount]
           c == gConsoleCurrent
           Rec(p, m) == p = [i \in 0 .. m |-> IF i = 0 THEN q ELSE writeVDUQ(p[i - 1], c + i)]
           S == {m \in Nat : \E p : Rec(p, m)}
<1>1. 0 \in S
  <2>1. Rec([i \in 0 .. 0 |-> q], 0)
    OBVIOUS
  <2> HIDE DEF Rec
  <2> QED
    BY <2>1
<1>2. ASSUME NEW m \in Nat, m \in S
      PROVE  m + 1 \in S
  <2>1. PICK g : Rec(g, m)
    BY <1>2
  <2> DEFINE p == [i \in 0 .. m + 1 |-> IF i = m + 1 THEN writeVDUQ(g[m], c + i) ELSE g[i]]
  <2>2. p[m + 1] = writeVDUQ(g[m], c + (m + 1)) /\ \A i \in 0 .. m : p[i] = g[i]
    OBVIOUS
  <2>3. ASSUME NEW i \in 0 .. m + 1
        PROVE  p[i] = IF i = 0 THEN q ELSE writeVDUQ(p[i - 1], c + i)
    <3> HIDE DEF p, q
    <3>1. CASE i = m + 1
      <4>1. i # 0 /\ i - 1 = m /\ m \in 0 .. m
        BY <3>1
      <4> QED
        BY <2>2, <3>1, <4>1
    <3>2. CASE i \in 0 .. m
      <4>1. i # 0 => i - 1 \in 0 .. m
        BY <3>2
      <4>2. g[i] = IF i = 0 THEN q ELSE writeVDUQ(g[i - 1], c + i)
        BY <2>1, <3>2
      <4> QED
        BY <2>2, <3>2, <4>1, <4>2
    <3> QED
      BY <3>1, <3>2
  <2>4. p = [i \in 0 .. m + 1 |-> p[i]]
    OBVIOUS
  <2>5. Rec(p, m + 1)
    <3> HIDE DEF p
    <3> QED
      BY <2>3, <2>4
  <2> HIDE DEF p, Rec
  <2> QED
    BY <2>5
<1>3. \E p : Rec(p, n)
  <2> HIDE DEF S
  <2>1. n \in S
    BY <1>1, <1>2, SetInduction
  <2> HIDE DEF Rec
  <2> QED
    BY <2>1 DEF S
<1>4. PICK u : Rec(u, n) /\ rp_console_output_bytes(n) = u[n]
  BY <1>3 DEF rp_console_output_bytes
<1> DEFINE Fits == Whole(q, c, c) /\ c + n <= len /\ Cardinality(Shown) <= QCap
           Good(m) == /\ Holds(u[m])
                      /\ Ordered(q, c) => Ordered(u[m], c + m)
                      /\ Fits => Whole(u[m], c, c + m)
           T == {m \in Nat : m <= n => Good(m)}
<1>5. 0 \in T
  <2>1. u[0] = q /\ c + 0 = c
    BY <1>4
  <2> HIDE DEF q
  <2> QED
    BY <2>1 DEF q
<1>6. ASSUME NEW m \in Nat, m \in T
      PROVE  m + 1 \in T
  <2> SUFFICES ASSUME m + 1 <= n PROVE Good(m + 1)
    OBVIOUS
  <2>1. m <= n /\ (m + 1) - 1 = m /\ m + 1 \in 0 .. n /\ m + 1 # 0
    OBVIOUS
  <2>2. u[m + 1] = writeVDUQ(u[m], c + (m + 1))
    BY <1>4, <2>1
  <2>3. Good(m)
    BY <1>6, <2>1
  <2>4. c + (m + 1) = (c + m) + 1 /\ c + m \in Nat /\ c <= c + m
    OBVIOUS
  <2>5. c + n <= len => (c + m) + 1 <= len
    BY <2>1
  <2> HIDE DEF Rec, q
  <2>6. Holds(u[m])
    BY <2>3
  <2>7. /\ Holds(u[m + 1])
        /\ Ordered(u[m], c + m) => Ordered(u[m + 1], c + (m + 1))
    <3> HIDE DEF c
    <3> QED
      BY <2>2, <2>4, <2>6, ByteKeeps
  <2>8. Fits => Whole(u[m + 1], c, c + (m + 1))
    <3> SUFFICES ASSUME Fits PROVE Whole(u[m + 1], c, (c + m) + 1)
      BY <2>4
    <3>1. Whole(u[m], c, c + m) /\ (c + m) + 1 <= len /\ Cardinality(Shown) <= QCap /\ c \in Nat
      BY <2>3, <2>5
    <3> HIDE DEF c
    <3> QED
      BY <2>2, <2>4, <2>6, <3>1, ByteWhole
  <2> QED
    BY <2>3, <2>7, <2>8
<1>7. Good(n)
  <2> HIDE DEF Good
  <2>1. n \in T /\ n <= n
    <3> HIDE DEF T
    <3> QED
      BY <1>5, <1>6, SetInduction
  <2> QED
    BY <2>1
<1> QED
  BY <1>4, <1>7

(* What is left to store after a store.                                    *)
LEMMA TailType ==
  ASSUME NEW S, NEW s \in Seq(S), s # <<>>
  PROVE  /\ Tail(s) \in Seq(S)
         /\ Len(s) # 1 => Tail(s) # <<>>
<1>1. Tail(s) \in Seq(S) /\ Len(Tail(s)) = Len(s) - 1
  BY HeadTailProperties
<1>2. Len(s) # 1 => Len(Tail(s)) # 0
  BY <1>1, LenProperties
<1>3. Len(Tail(s)) # 0 => Tail(s) # <<>>
  BY ONLY <1>1, EmptySeq
<1> QED
  BY <1>1, <1>2, <1>3

-----------------------------------------------------------------------------
(* A read transfer fits gConsoleBuffer, so what it moves does.             *)
ReadFits == mailbox_state = "mbREAD" => gConsoleLen <= Chunk

(* While a reply is being stored there is something left to store.         *)
Storing == pc = "reply" => todo # <<>>

TypeInv == TypeOK /\ ReadFits /\ Storing

LEMMA InitTypeInv == Init => TypeInv
<1> SUFFICES ASSUME Init PROVE TypeInv
  OBVIOUS
<1> USE ConstantsAssumption DEF Init
<1>1. doorbell \in BOOLEAN /\ rdy \in BOOLEAN /\ lastCheck \in BOOLEAN /\ trigger \in BOOLEAN
  OBVIOUS
<1>2. reply \in Replies
  BY DEF Replies, Done
<1>3. [cmd |-> cmd, len |-> len] \in Requests \union {NoRequest}
  BY DEF NoRequest
<1> QED
  BY <1>1, <1>2, <1>3 DEF TypeInv, TypeOK, ReadFits, Storing, Statuses

(* The Boolean variables, kept apart: they need no arithmetic.             *)
Flags ==
  /\ doorbell \in BOOLEAN
  /\ rdy \in BOOLEAN
  /\ lastCheck \in BOOLEAN
  /\ trigger \in BOOLEAN

LEMMA StepFlags == Flags /\ [Next]_vars => Flags'
<1> SUFFICES ASSUME Flags, [Next]_vars
             PROVE  Flags'
  OBVIOUS
<1> USE DEF Flags, answer6502, poll, ready
<1>1. CASE taskMailbox
  BY <1>1
     DEF taskMailbox, UpdateReady, ToIdle, SkipPoll, StartPoll, LookDoorbell, LookStatus,
         StoreReply, rp_handle_unknown_command, HandleEmpty, rp_console_io_handle_write,
         rp_console_io_handle_read, rp_fs_mailbox_handle_exec, WriteSlice, FinishWrite,
         FinishRead, RetryRead, Dispatch, ClearResultFields
<1>2. CASE OtherTasks
  BY <1>2 DEF OtherTasks, monitorConsoleInput, simple_getchar, schedSwitchcontext,
              cmdReset, cmdGo
<1>3. CASE taskInput \/ Program
  BY <1>3 DEF taskInput, Program, Submit, Collect, TakeChar
<1>4. CASE UNCHANGED vars
  BY <1>4 DEF vars
<1> QED
  BY <1>1, <1>2, <1>3, <1>4 DEF Next

LEMMA StepTypeInv == TypeInv /\ [Next]_vars => TypeInv'
<1> SUFFICES ASSUME TypeInv, [Next]_vars
             PROVE  TypeInv'
  OBVIOUS
<1>0. Flags'
  BY StepFlags DEF TypeInv, TypeOK, Flags
<1> USE <1>0, ConstantsAssumption
    DEF Flags, TypeInv, TypeOK, ReadFits, Storing, request6502, console, input, answer6502,
        completion, machine, poll, ready
<1>1. CASE monitorConsoleInput
  BY <1>1 DEF monitorConsoleInput
<1>2. CASE simple_getchar
  BY <1>2 DEF simple_getchar
<1>3. ASSUME NEW c \in {0, 1}, schedSwitchcontext(c)
      PROVE  TypeInv'
  BY <1>3 DEF schedSwitchcontext
<1>4. CASE cmdReset
  <2>1. Members(userBuf) \subseteq 1 .. MaxTyped
    BY MembersType
  <2>2. spent' = spent \union Members(userBuf) \union ({getchar} \ {0})
    BY <1>4 DEF cmdReset
  <2>4. getchar \in 0 .. MaxTyped /\ spent \subseteq 1 .. MaxTyped /\ MaxTyped \in Nat
    OBVIOUS
  <2>5. {getchar} \ {0} \subseteq 1 .. MaxTyped
    BY ONLY <2>4
  <2>6. spent' \subseteq 1 .. MaxTyped
    BY ONLY <2>1, <2>2, <2>4, <2>5
  <2>3. [cmd |-> cmd', len |-> len'] = NoRequest
    BY <1>4 DEF cmdReset, NoRequest
  <2> QED
    BY <1>4, <2>6, <2>3 DEF cmdReset, Statuses
<1>5. CASE cmdGo
  BY <1>5 DEF cmdGo
<1>6. CASE taskInput
  BY <1>6 DEF taskInput
<1>7. CASE UpdateReady
  BY <1>7 DEF UpdateReady
<1>8. CASE ToIdle
  BY <1>8 DEF ToIdle
<1>9. CASE SkipPoll
  BY <1>9 DEF SkipPoll, PollDue
<1>10. CASE StartPoll
  BY <1>10 DEF StartPoll
<1>11. CASE LookDoorbell
  BY <1>11 DEF LookDoorbell
<1>12. CASE LookStatus
  BY <1>12 DEF LookStatus
<1>13. CASE StoreReply
  <2>0. todo # <<>> /\ todo \in Seq(Fields)
    BY <1>13 DEF StoreReply
  <2>1. todo # <<>> /\ Tail(todo) \in Seq(Fields) /\ (Len(todo) # 1 => Tail(todo) # <<>>)
    BY ONLY <2>0, TailType
  <2>2. reply.res \in Nat /\ reply.err \in {"OK", "EIO", "EINVAL"} /\ reply.status \in Statuses
    BY DEF Replies, Statuses
  <2>3. Done(0) \in Replies
    BY DEF Done, Replies
  <2> QED
    BY <1>13, <2>1, <2>2, <2>3 DEF StoreReply
<1>14. CASE rp_handle_unknown_command
  BY <1>14 DEF rp_handle_unknown_command, Dispatch, Complete, Failed, Replies, CompletionOrder, Fields
<1>15. CASE HandleEmpty
  BY <1>15 DEF HandleEmpty, Dispatch, Complete, Done, Replies, CompletionOrder, Fields, ClearResultFields
<1>16. CASE rp_console_io_handle_write
  BY <1>16, LengthType DEF rp_console_io_handle_write, Dispatch, ClearResultFields
<1>17. CASE rp_console_io_handle_read
  <2>1. lesser(len, Chunk) \in Nat /\ lesser(len, Chunk) <= Chunk
    BY LengthType, LesserBounds
  <2> QED
    BY <1>17, <2>1 DEF rp_console_io_handle_read, Dispatch, ClearResultFields
<1>18. CASE rp_fs_mailbox_handle_exec
  BY <1>18 DEF rp_fs_mailbox_handle_exec, Dispatch, Complete, Done, Failed, Replies,
               CompletionOrder, Fields, ClearResultFields
<1>19. CASE WriteSlice
  <2> DEFINE n == Slice(gConsoleRemaining)
             q == [accepted |-> accepted, count |-> vduCount]
             r == rp_console_output_bytes(n)
  <2>1. n \in Nat /\ n <= gConsoleRemaining
    BY LesserBounds DEF Slice
  <2>2. /\ accepted' = r.accepted /\ vduCount' = r.count
        /\ gConsoleCurrent' = gConsoleCurrent + n
        /\ gConsoleRemaining' = gConsoleRemaining - n
    BY <1>19 DEF WriteSlice, NextOffset
  <2>3. Holds(q)
    BY DEF Holds
  <2>4. r.accepted \in Seq(Nat) /\ r.count \in 0 .. QCap
    <3>1. len \in Nat /\ gConsoleCurrent \in Nat
      BY LengthType
    <3> HIDE DEF n, q, r
    <3>2. Holds(r)
      BY <2>1, <2>3, <3>1, OutputIs DEF q, r
    <3> QED
      BY <3>2 DEF Holds
  <2> HIDE DEF n, q, r
  <2>6. gConsoleCurrent \in Nat /\ gConsoleRemaining \in Nat
    OBVIOUS
  <2>7. /\ vduCount' \in 0 .. QCap /\ accepted' \in Seq(Nat)
        /\ gConsoleCurrent' \in Nat /\ gConsoleRemaining' \in Nat
    BY ONLY <2>1, <2>2, <2>4, <2>6
  <2> QED
    BY <1>19, <2>7 DEF WriteSlice
<1>20. CASE FinishWrite
  BY <1>20 DEF FinishWrite, Complete, Done, Replies, CompletionOrder, Fields
<1>21. CASE FinishRead
  <2> DEFINE n == InputBytes(gConsoleLen)
  <2>0. gConsoleLen \in Nat /\ cpuQ \in Seq(1 .. MaxTyped) /\ Len(cpuQ) \in Nat
    OBVIOUS
  <2>1. n \in Nat /\ n <= gConsoleLen /\ n <= Len(cpuQ)
    BY ONLY <2>0, LesserBounds DEF InputBytes
  <2>2. gConsoleLen <= Chunk
    BY <1>21 DEF FinishRead
  <2>3. /\ SubSeq(cpuQ, 1, n) \in Seq(1 .. MaxTyped) /\ Len(SubSeq(cpuQ, 1, n)) = n
        /\ Left(n) \in Seq(1 .. MaxTyped) /\ Len(Left(n)) = Len(cpuQ) - n
    BY ONLY <2>0, <2>1, SliceType DEF Left
  <2>4. Done(n) \in Replies
    BY <2>1 DEF Done, Replies
  <2>5. userBuf' = SubSeq(cpuQ, 1, n) /\ cpuQ' = Left(n) /\ Complete(Done(n))
    BY <1>21 DEF FinishRead
  <2> HIDE DEF n
  <2>6. /\ userBuf' \in Seq(1 .. MaxTyped) /\ Len(userBuf') <= Chunk
        /\ cpuQ' \in Seq(1 .. MaxTyped) /\ Len(cpuQ') <= QCap
    BY <2>1, <2>2, <2>3, <2>5
  <2> QED
    BY <1>21, <2>4, <2>5, <2>6 DEF FinishRead, Complete, CompletionOrder, Fields
<1>22. CASE RetryRead
  BY <1>22 DEF RetryRead
<1>23. ASSUME NEW r \in Requests, Submit(r)
      PROVE  TypeInv'
  <2>1. [cmd |-> cmd', len |-> len'] = r
    BY <1>23, RequestType DEF Submit
  <2> QED
    BY SMTT(30), <1>23, <2>1 DEF Submit, Statuses
<1>24. CASE Collect
  <2> DEFINE n == lesser(res, Len(userBuf))
  <2>0. res \in Nat /\ Len(userBuf) \in Nat
    OBVIOUS
  <2>1. n \in Nat /\ n <= Len(userBuf)
    BY ONLY <2>0, LesserBounds
  <2>2. Members(SubSeq(userBuf, 1, n)) \subseteq 1 .. MaxTyped
    BY <2>1, MembersType
  <2>3. spent' \subseteq 1 .. MaxTyped
    BY <1>24, <2>2 DEF Collect
  <2> QED
    BY <1>24, <2>3 DEF Collect
<1>25. CASE TakeChar
  BY <1>25 DEF TakeChar
<1>26. CASE UNCHANGED vars
  BY <1>26 DEF vars
<1> QED
  BY <1>1, <1>2, <1>3, <1>4, <1>5, <1>6, <1>7, <1>8, <1>9, <1>10, <1>11, <1>12, <1>13,
     <1>14, <1>15, <1>16, <1>17, <1>18, <1>19, <1>20, <1>21, <1>22, <1>23, <1>24, <1>25, <1>26
     DEF Next, taskMailbox, OtherTasks, Program

(* Every variable of the mailbox keeps its type: in particular the console *)
(* queues stay within their capacity, the buffer of a read never holds     *)
(* more than one chunk, and gConsoleRemaining never goes below zero.       *)
THEOREM MailboxTypes == Spec => []TypeOK
<1>1. Init => TypeInv
  BY InitTypeInv
<1>2. TypeInv /\ [Next]_vars => TypeInv'
  BY StepTypeInv
<1>3. TypeInv => TypeOK
  BY DEF TypeInv
<1> QED
  BY <1>1, <1>2, <1>3, PTL DEF Spec

-----------------------------------------------------------------------------
(* Why a request is dispatched once.  The firmware looks at the doorbell   *)
(* and the status only in mbIDLE; by then whatever it dispatched before is *)
(* answered, and a doorbell or a BUSY it sees belongs to a request nobody  *)
(* has looked at.                                                          *)

Asked == client = "waiting" /\ status = "BUSY"

(* The request the 6502 waits for is the one the firmware works on.        *)
Mine == Asked /\ executed = 1

(* The status that ends the current request is still to be stored.         *)
Publishing == todo \notin {<<>>, <<"doorbell">>}

Suffixes == {CompletionOrder, <<"error", "status", "doorbell">>,
             <<"status", "doorbell">>, <<"doorbell">>, <<>>}

(* Where the loop is, against the FSM and the completion.                  *)
PlaceInv ==
  /\ pc \in {"doorbell", "status", "dispatch"} => mailbox_state = "mbIDLE"
  /\ pc = "reply" => mailbox_state = "mbDONE"
  /\ pc = "reply" <=> todo # <<>>
  /\ todo \in Suffixes
  /\ cpu = "resetting" => pc = "tasks"

(* What the shared fields mean.                                            *)
SharedInv ==
  /\ client = "waiting" => cpu = "running"
  /\ status = "BUSY" => client = "waiting"
  /\ (doorbell /\ todo # <<"doorbell">>) => Asked
  /\ pc = "dispatch" => Asked

(* What the firmware is busy with is the current request, or the remains   *)
(* of one a reset has forgotten: then there is nothing left to transfer,   *)
(* and a write ends before the 6502 runs again.                            *)
WorkInv ==
  /\ mailbox_state = "mbWRITE" =>
       \/ Mine
       \/ cpu # "running" /\ gConsoleRemaining = 0 /\ (pc = "tasks" => cpu = "resetting")
  /\ mailbox_state = "mbREAD" => Mine \/ gConsoleLen = 0
  /\ Publishing => Mine \/ cpu # "running"

OnceInv ==
  /\ ExactlyOnce
  /\ Mine => mailbox_state \in {"mbWRITE", "mbREAD"} \/ Publishing

ControlInv == PlaceInv /\ SharedInv /\ WorkInv /\ OnceInv

(* The stages of a completion are told apart by their length.              *)
LEMMA Stages ==
  /\ CompletionOrder # <<>> /\ CompletionOrder # <<"doorbell">> /\ <<"doorbell">> # <<>>
  /\ CompletionOrder \in Suffixes /\ <<>> \in Suffixes
  /\ \A t \in Suffixes : t # <<>> =>
       /\ Tail(t) \in Suffixes
       /\ Len(t) = 1 <=> t = <<"doorbell">>
       /\ Len(t) = 1 <=> Tail(t) = <<>>
       /\ Head(t) = "doorbell" <=> t = <<"doorbell">>
       /\ Head(t) = "status" <=> Tail(t) = <<"doorbell">>
<1>1. /\ Len(CompletionOrder) = 4 /\ Len(<<"doorbell">>) = 1
      /\ Len(<<"status", "doorbell">>) = 2 /\ Len(<<"error", "status", "doorbell">>) = 3
      /\ Len(<<>>) = 0
  BY DEF CompletionOrder
<1>2. /\ Tail(CompletionOrder) = <<"error", "status", "doorbell">>
      /\ Tail(<<"error", "status", "doorbell">>) = <<"status", "doorbell">>
      /\ Tail(<<"status", "doorbell">>) = <<"doorbell">>
      /\ Tail(<<"doorbell">>) = <<>>
  BY DEF CompletionOrder
<1>3. /\ Head(CompletionOrder) = "result" /\ Head(<<"error", "status", "doorbell">>) = "error"
      /\ Head(<<"status", "doorbell">>) = "status" /\ Head(<<"doorbell">>) = "doorbell"
  BY DEF CompletionOrder
<1>4. CompletionOrder # <<>> /\ CompletionOrder # <<"doorbell">> /\ <<"doorbell">> # <<>>
  BY ONLY <1>1
<1>5. ASSUME NEW t \in Suffixes, t # <<>>
      PROVE  /\ Tail(t) \in Suffixes
             /\ Len(t) = 1 <=> t = <<"doorbell">>
             /\ Len(t) = 1 <=> Tail(t) = <<>>
             /\ Head(t) = "doorbell" <=> t = <<"doorbell">>
             /\ Head(t) = "status" <=> Tail(t) = <<"doorbell">>
  <2> DEFINE t4 == CompletionOrder
             t3 == <<"error", "status", "doorbell">>
             t2 == <<"status", "doorbell">>
             t1 == <<"doorbell">>
             t0 == <<>>
  <2>1. Suffixes = {t4, t3, t2, t1, t0}
    BY DEF Suffixes
  <2>2. /\ Len(t4) = 4 /\ Len(t3) = 3 /\ Len(t2) = 2 /\ Len(t1) = 1 /\ Len(t0) = 0
        /\ Tail(t4) = t3 /\ Tail(t3) = t2 /\ Tail(t2) = t1 /\ Tail(t1) = t0
        /\ Head(t4) = "result" /\ Head(t3) = "error" /\ Head(t2) = "status"
        /\ Head(t1) = "doorbell"
    BY <1>1, <1>2, <1>3
  <2>3. t \in Suffixes /\ t # t0
    BY <1>5
  <2> HIDE DEF t4, t3, t2, t1, t0
  <2>4. /\ Tail(t) \in Suffixes
        /\ Len(t) = 1 <=> t = t1
        /\ Len(t) = 1 <=> Tail(t) = t0
        /\ Head(t) = "doorbell" <=> t = t1
        /\ Head(t) = "status" <=> Tail(t) = t1
    BY <2>1, <2>2, <2>3
  <2> QED
    BY <2>4 DEF t1, t0
<1> QED
  BY <1>4, <1>5 DEF Suffixes

LEMMA InitControlInv == Init => ControlInv
<1> SUFFICES ASSUME Init PROVE ControlInv
  OBVIOUS
<1> QED
  BY Stages DEF Init, ControlInv, PlaceInv, SharedInv, WorkInv, OnceInv, ExactlyOnce,
                Answered, Asked, Mine, Publishing

LEMMA StepControlInv == TypeInv /\ ControlInv /\ [Next]_vars => ControlInv'
<1> SUFFICES ASSUME TypeInv, ControlInv, [Next]_vars
             PROVE  ControlInv'
  OBVIOUS
<1> USE DEF ControlInv, PlaceInv, SharedInv, WorkInv, OnceInv, ExactlyOnce,
            Answered, Asked, Mine, Publishing,
            request6502, console, input, answer6502, completion, machine, poll, ready
<1>0. /\ executed \in 0 .. 2 /\ status \in Statuses
      /\ gConsoleLen \in Nat /\ gConsoleRemaining \in Nat
  BY DEF TypeInv, TypeOK
<1>1. CASE monitorConsoleInput
  BY <1>1 DEF monitorConsoleInput
<1>2. CASE simple_getchar
  BY <1>2 DEF simple_getchar
<1>3. ASSUME NEW c \in {0, 1}, schedSwitchcontext(c)
      PROVE  ControlInv'
  BY <1>3 DEF schedSwitchcontext
<1>4. CASE cmdReset
  BY <1>4, Stages DEF cmdReset
<1>5. CASE cmdGo
  BY <1>5 DEF cmdGo
<1>6. CASE taskInput
  BY <1>6, Stages DEF taskInput
<1>7. CASE UpdateReady
  BY <1>7 DEF UpdateReady
<1>8. CASE ToIdle
  BY <1>8, Stages DEF ToIdle
<1>9. CASE SkipPoll
  BY <1>9, Stages DEF SkipPoll
<1>10. CASE StartPoll
  BY <1>10, Stages DEF StartPoll
<1>11. CASE LookDoorbell
  BY <1>11, Stages DEF LookDoorbell
<1>12. CASE LookStatus
  BY <1>12, Stages DEF LookStatus
<1>13. CASE StoreReply
  <2>1. /\ pc = "reply" /\ todo \in Suffixes /\ todo # <<>> /\ todo' = Tail(todo)
        /\ status' = IF Head(todo) = "status" THEN reply.status ELSE status
        /\ doorbell' = (doorbell /\ Head(todo) # "doorbell")
        /\ pc' = IF Len(todo) = 1 THEN "tasks" ELSE pc
        /\ client' = client /\ cpu' = cpu /\ executed' = executed
        /\ mailbox_state' = mailbox_state
    BY <1>13 DEF StoreReply
  <2>2. reply.status \in {"DONE", "ERROR"}
    BY DEF TypeInv, TypeOK, Replies
  <2>3. CASE todo = <<"doorbell">>
    <3>1. todo' = <<>> /\ Head(todo) = "doorbell" /\ pc' = "tasks" /\ ~doorbell'
      BY <2>1, <2>3, Stages
    <3> QED
      BY <2>1, <2>3, <3>1, Stages
  <2>4. CASE Head(todo) = "status"
    <3>1. todo' = <<"doorbell">> /\ todo # <<"doorbell">> /\ pc' = "reply"
      BY <2>1, <2>4, Stages
    <3>2. status' \in {"DONE", "ERROR"}
      BY <2>1, <2>2, <2>4
    <3> QED
      BY <2>1, <3>1, <3>2, Stages
  <2>5. CASE Head(todo) \notin {"doorbell", "status"}
    <3>1. /\ todo' \in Suffixes /\ todo' # <<>> /\ todo' # <<"doorbell">>
          /\ todo # <<"doorbell">> /\ pc' = "reply"
      BY <2>1, <2>5, Stages
    <3> QED
      BY <2>1, <2>5, <3>1, Stages
  <2>6. Head(todo) = "doorbell" => todo = <<"doorbell">>
    BY <2>1, Stages
  <2> QED
    BY <2>3, <2>4, <2>5, <2>6
<1>14. CASE rp_handle_unknown_command
  BY <1>14, <1>0, Stages DEF rp_handle_unknown_command, Dispatch, Complete
<1>15. CASE HandleEmpty
  BY <1>15, <1>0, Stages DEF HandleEmpty, Dispatch, Complete, ClearResultFields
<1>16. CASE rp_console_io_handle_write
  BY <1>16, <1>0, Stages DEF rp_console_io_handle_write, Dispatch, ClearResultFields
<1>17. CASE rp_console_io_handle_read
  BY <1>17, <1>0, Stages DEF rp_console_io_handle_read, Dispatch, ClearResultFields
<1>18. CASE rp_fs_mailbox_handle_exec
  BY <1>18, <1>0, Stages DEF rp_fs_mailbox_handle_exec, Dispatch, Complete, ClearResultFields
<1>19. CASE WriteSlice
  BY <1>19, <1>0 DEF WriteSlice
<1>20. CASE FinishWrite
  BY <1>20, Stages DEF FinishWrite, Complete
<1>21. CASE FinishRead
  <2>1. gConsoleLen = 0 => lesser(gConsoleLen, Len(cpuQ)) = 0
    BY DEF lesser, TypeInv, TypeOK
  <2>2. Mine
    BY <1>21, <2>1 DEF FinishRead, InputBytes
  <2> QED
    BY <1>21, <2>2, Stages DEF FinishRead, Complete
<1>22. CASE RetryRead
  BY <1>22 DEF RetryRead
<1>23. ASSUME NEW r \in Requests, Submit(r)
      PROVE  ControlInv'
  BY <1>23, Stages DEF Submit
<1>24. CASE Collect
  BY <1>24 DEF Collect
<1>25. CASE TakeChar
  BY <1>25 DEF TakeChar
<1>26. CASE UNCHANGED vars
  BY <1>26 DEF vars
<1> QED
  BY <1>1, <1>2, <1>3, <1>4, <1>5, <1>6, <1>7, <1>8, <1>9, <1>10, <1>11, <1>12, <1>13,
     <1>14, <1>15, <1>16, <1>17, <1>18, <1>19, <1>20, <1>21, <1>22, <1>23, <1>24, <1>25, <1>26
     DEF Next, taskMailbox, OtherTasks, Program

(* Whichever of doorbell and status the firmware noticed, and whenever it  *)
(* was reset, taskMailbox dispatches a request at most once and the 6502   *)
(* reads DONE or ERROR only after its own request was dispatched.          *)
THEOREM DispatchedOnce == Spec => []ExactlyOnce
<1>1. Init => TypeInv /\ ControlInv
  BY InitTypeInv, InitControlInv
<1>2. TypeInv /\ ControlInv /\ [Next]_vars => TypeInv' /\ ControlInv'
  BY StepTypeInv, StepControlInv
<1>3. ControlInv => ExactlyOnce
  BY DEF ControlInv, OnceInv
<1> QED
  BY <1>1, <1>2, <1>3, PTL DEF Spec

-----------------------------------------------------------------------------
(* Why the answer the 6502 reads is an answer to what it asked.  A console *)
(* transfer is for the request in the shared block, the reply is chosen    *)
(* for that request, and when the status is about to be stored the result  *)
(* and the error are already in place.                                     *)
AnswerInv ==
  /\ client = "waiting" => [cmd |-> cmd, len |-> len] \in Requests
  /\ Mine /\ mailbox_state = "mbWRITE" => cmd = "console.write" /\ gConsoleLen = len
  /\ Mine /\ mailbox_state = "mbREAD" =>
       cmd = "console.read" /\ len # 0 /\ gConsoleLen = lesser(len, Chunk)
  /\ Mine /\ Publishing =>
       /\ reply \in ValidAnswers([cmd |-> cmd, len |-> len])
       /\ todo # CompletionOrder => res = reply.res
       /\ todo = <<"status", "doorbell">> => err = reply.err

(* The answers that fit a request, one implication for each command.       *)
LEMMA ValidFor ==
  ASSUME NEW c, NEW l
  PROVE  LET answers == ValidAnswers([cmd |-> c, len |-> l])
         IN /\ c = "console.write" => answers = {Done(l)}
            /\ c = "console.read" /\ l = 0 => answers = {Done(0)}
            /\ c = "console.read" /\ l # 0 => answers = {Done(n) : n \in 1 .. lesser(l, Chunk)}
            /\ c = "fs.exec" => answers = {Done(0), Failed("EIO"), Failed("EINVAL")}
            /\ c = "unknown" => answers = {Failed("EINVAL")}
BY DEF ValidAnswers

(* What the 6502 can have asked.                                           *)
LEMMA AskedCommand ==
  ASSUME [cmd |-> cmd, len |-> len] \in Requests
  PROVE  cmd \in Commands /\ len \in Nat
<1> DEFINE r == [cmd |-> cmd, len |-> len]
<1>1. r.cmd = cmd /\ r.len = len /\ r \in Requests
  OBVIOUS
<1> HIDE DEF r
<1> QED
  BY <1>1, RequestType

(* The actions that change nothing AnswerInv speaks of.                    *)
answering == <<client, cmd, len, status, executed, mailbox_state, gConsoleLen, todo, reply, res, err>>

LEMMA SameAnswer == AnswerInv /\ UNCHANGED answering => AnswerInv'
BY DEF AnswerInv, answering, Mine, Asked, Publishing

LEMMA InitAnswerInv == Init => AnswerInv
BY Stages DEF Init, AnswerInv, Mine, Asked

LEMMA StepAnswerInv ==
  TypeInv /\ ControlInv /\ AnswerInv /\ [Next]_vars => AnswerInv'
<1> SUFFICES ASSUME TypeInv, ControlInv, AnswerInv, [Next]_vars
             PROVE  AnswerInv'
  OBVIOUS
<1>0. /\ len \in Nat /\ gConsoleLen \in Nat /\ cpuQ \in Seq(1 .. MaxTyped)
      /\ executed \in 0 .. 2
  BY LengthType DEF TypeInv, TypeOK
<1>1. CASE monitorConsoleInput \/ simple_getchar \/ cmdGo \/ taskInput
  BY <1>1, SameAnswer DEF answering, monitorConsoleInput, simple_getchar, cmdGo, taskInput,
     request6502, console, answer6502, completion
<1>2. ASSUME NEW c \in {0, 1}, schedSwitchcontext(c)
      PROVE  AnswerInv'
  BY <1>2, SameAnswer DEF answering, schedSwitchcontext, request6502, console, answer6502, completion
<1>3. CASE UpdateReady \/ SkipPoll \/ StartPoll \/ LookDoorbell \/ LookStatus \/ RetryRead
  BY <1>3, SameAnswer DEF answering, UpdateReady, SkipPoll, StartPoll, LookDoorbell, LookStatus,
     RetryRead, request6502, console, answer6502, completion
<1>4. CASE TakeChar \/ UNCHANGED vars
  BY <1>4, SameAnswer DEF answering, TakeChar, vars, request6502, console, answer6502, completion
<1>5. CASE WriteSlice
  BY <1>5, SameAnswer DEF answering, WriteSlice, answer6502, completion
<1>6. CASE cmdReset
  BY <1>6 DEF cmdReset, AnswerInv, Mine, Asked
<1>7. CASE ToIdle
  BY <1>7 DEF ToIdle, AnswerInv, Mine, Asked, Publishing, request6502, console, answer6502, completion
<1>8. CASE StoreReply
  <2>1. /\ todo \in Suffixes /\ todo # <<>> /\ todo' = Tail(todo)
        /\ res' = IF Head(todo) = "result" THEN reply.res ELSE res
        /\ err' = IF Head(todo) = "error" THEN reply.err ELSE err
        /\ status' = IF Head(todo) = "status" THEN reply.status ELSE status
        /\ UNCHANGED <<client, cmd, len, executed, mailbox_state, gConsoleLen>>
        /\ Len(todo) # 1 => reply' = reply
    BY <1>8 DEF StoreReply, ControlInv, PlaceInv, request6502, console
  <2>2. reply.status \in {"DONE", "ERROR"}
    BY DEF TypeInv, TypeOK, Replies
  <2>3. Mine' => Mine
    BY <2>1, <2>2 DEF Mine, Asked
  <2>4. mailbox_state = "mbDONE"
    BY <1>8 DEF StoreReply, ControlInv, PlaceInv
  <2>5. ASSUME Mine', Publishing'
        PROVE  /\ reply' \in ValidAnswers([cmd |-> cmd, len |-> len])
               /\ todo' # CompletionOrder => res' = reply'.res
               /\ todo' = <<"status", "doorbell">> => err' = reply'.err
    <3>1. Len(todo) # 1 /\ todo # <<"doorbell">>
      BY <2>1, <2>5, Stages DEF Publishing
    <3>2. Publishing /\ Mine /\ reply' = reply
      BY <2>1, <2>3, <2>5, <3>1 DEF Publishing
    <3>3. /\ reply \in ValidAnswers([cmd |-> cmd, len |-> len])
          /\ todo # CompletionOrder => res = reply.res
          /\ todo = <<"status", "doorbell">> => err = reply.err
      BY <3>2 DEF AnswerInv
    <3>4. Head(CompletionOrder) = "result"
      BY DEF CompletionOrder
    <3>5. res' = reply.res
      BY <2>1, <3>3, <3>4
    <3>6. todo' = <<"status", "doorbell">> => todo = <<"error", "status", "doorbell">>
      <4> DEFINE t4 == CompletionOrder
                 t3 == <<"error", "status", "doorbell">>
                 t2 == <<"status", "doorbell">>
                 t1 == <<"doorbell">>
      <4>1. /\ Tail(t4) = t3 /\ Tail(t2) = t1 /\ t3 # t2 /\ t1 # t2
        BY DEF CompletionOrder
      <4>2. todo \in {t4, t3, t2} /\ todo' = Tail(todo)
        BY <2>1, <3>1 DEF Suffixes
      <4> HIDE DEF t4, t3, t2, t1
      <4>3. todo' = t2 => todo = t3
        BY <4>1, <4>2
      <4> QED
        BY <4>3 DEF t2, t3
    <3>7. todo' = <<"status", "doorbell">> => err' = reply.err
      <4>1. Head(<<"error", "status", "doorbell">>) = "error"
        OBVIOUS
      <4> QED
        BY <2>1, <3>6, <4>1
    <3> QED
      BY <3>2, <3>3, <3>5, <3>7
  <2>6. client' = "waiting" => [cmd |-> cmd', len |-> len'] \in Requests
    BY <2>1 DEF AnswerInv
  <2> QED
    BY <2>1, <2>4, <2>5, <2>6 DEF AnswerInv
<1>9. CASE taskMailbox /\ pc = "dispatch"
  <2>1. Asked /\ mailbox_state = "mbIDLE" /\ todo = <<>>
    BY <1>9 DEF ControlInv, SharedInv, PlaceInv
  <2>2. [cmd |-> cmd, len |-> len] \in Requests /\ cmd \in Commands
    BY <2>1, AskedCommand DEF AnswerInv, Asked
  <2>3. CASE rp_handle_unknown_command
    <3>1. cmd = "unknown" /\ reply' = Failed("EINVAL") /\ todo' = CompletionOrder
      BY <2>2, <2>3 DEF rp_handle_unknown_command, Dispatch, Complete, Commands, Transfers
    <3>2. reply' \in ValidAnswers([cmd |-> cmd, len |-> len])
      BY <3>1, ValidFor
    <3> QED
      BY <2>2, <2>3, <3>1, <3>2, Stages
         DEF rp_handle_unknown_command, Dispatch, Complete, AnswerInv, request6502, CompletionOrder
  <2>4. CASE HandleEmpty
    <3>1. /\ cmd \in {"console.write", "console.read"} /\ len = 0
          /\ reply' = Done(0) /\ todo' = CompletionOrder
      BY <2>4 DEF HandleEmpty, Dispatch, Complete
    <3>2. reply' \in ValidAnswers([cmd |-> cmd, len |-> len])
      BY <3>1, ValidFor
    <3> QED
      BY <2>2, <2>4, <3>1, <3>2, Stages
         DEF HandleEmpty, Dispatch, Complete, AnswerInv, request6502, CompletionOrder
  <2>5. CASE rp_console_io_handle_write
    BY <2>1, <2>2, <2>5, Stages
       DEF rp_console_io_handle_write, Dispatch, AnswerInv, request6502, completion, Publishing
  <2>6. CASE rp_console_io_handle_read
    BY <2>1, <2>2, <2>6, Stages
       DEF rp_console_io_handle_read, Dispatch, AnswerInv, request6502, completion, Publishing
  <2>7. CASE rp_fs_mailbox_handle_exec
    <3>1. /\ cmd = "fs.exec" /\ reply' \in {Done(0), Failed("EIO"), Failed("EINVAL")}
          /\ todo' = CompletionOrder
      BY <2>7 DEF rp_fs_mailbox_handle_exec, Dispatch, Complete
    <3>2. reply' \in ValidAnswers([cmd |-> cmd, len |-> len])
      BY <3>1, ValidFor
    <3> QED
      BY <2>2, <2>7, <3>1, <3>2, Stages
         DEF rp_fs_mailbox_handle_exec, Dispatch, Complete, AnswerInv, request6502, CompletionOrder
  <2> QED
    BY <1>9, <2>3, <2>4, <2>5, <2>6, <2>7
       DEF taskMailbox, UpdateReady, ToIdle, SkipPoll, StartPoll, LookDoorbell, LookStatus,
           StoreReply, WriteSlice, FinishWrite, FinishRead, RetryRead
<1>10. CASE FinishWrite
  <2>1. /\ reply' = Done(gConsoleLen) /\ todo' = CompletionOrder
        /\ mailbox_state = "mbWRITE" /\ mailbox_state' = "mbDONE"
        /\ UNCHANGED <<client, cmd, len, status, executed, res, err>>
    BY <1>10 DEF FinishWrite, Complete, request6502, answer6502
  <2>2. Mine => reply' \in ValidAnswers([cmd |-> cmd, len |-> len])
    BY <2>1, ValidFor DEF AnswerInv
  <2> QED
    BY <2>1, <2>2 DEF AnswerInv, Mine, Asked, CompletionOrder
<1>11. CASE FinishRead
  <2> DEFINE n == InputBytes(gConsoleLen)
  <2>1. /\ reply' = Done(n) /\ todo' = CompletionOrder /\ n > 0
        /\ mailbox_state = "mbREAD" /\ mailbox_state' = "mbDONE"
        /\ UNCHANGED <<client, cmd, len, status, executed, res, err>>
    BY <1>11 DEF FinishRead, Complete, request6502, answer6502
  <2>2. n \in Nat /\ n <= gConsoleLen
    <3>1. Len(cpuQ) \in Nat /\ gConsoleLen \in Nat
      BY <1>0
    <3> QED
      BY ONLY <3>1, LesserBounds DEF InputBytes
  <2>3. ASSUME Mine
        PROVE  reply' \in ValidAnswers([cmd |-> cmd, len |-> len])
    <3>1. cmd = "console.read" /\ len # 0 /\ gConsoleLen = lesser(len, Chunk)
      BY <2>1, <2>3 DEF AnswerInv
    <3>2. n \in 1 .. lesser(len, Chunk)
      BY ONLY <1>0, <2>1, <2>2, <3>1
    <3> HIDE DEF n
    <3> QED
      BY <2>1, <3>1, <3>2, ValidFor
  <2> QED
    BY <2>1, <2>3 DEF AnswerInv, Mine, Asked, CompletionOrder
<1>12. ASSUME NEW r \in Requests, Submit(r)
       PROVE  AnswerInv'
  <2>1. [cmd |-> cmd', len |-> len'] = r
    BY <1>12, RequestType DEF Submit
  <2> QED
    BY <1>12, <2>1 DEF Submit, AnswerInv, Mine, Asked
<1>13. CASE Collect
  BY <1>13 DEF Collect, AnswerInv, Mine, Asked
<1>14. taskMailbox =>
         \/ pc = "dispatch" \/ ToIdle \/ StoreReply \/ WriteSlice \/ FinishWrite \/ FinishRead
         \/ UpdateReady \/ SkipPoll \/ StartPoll \/ LookDoorbell \/ LookStatus \/ RetryRead
  BY DEF taskMailbox, rp_handle_unknown_command, HandleEmpty, rp_console_io_handle_write,
         rp_console_io_handle_read, rp_fs_mailbox_handle_exec, Dispatch
<1> QED
  BY <1>1, <1>2, <1>3, <1>4, <1>5, <1>6, <1>7, <1>8, <1>9, <1>10, <1>11, <1>12, <1>13, <1>14
     DEF Next, OtherTasks, Program

-----------------------------------------------------------------------------
(* The refinement.  Only a request, the store of RP_STATUS for it, the     *)
(* 6502's taking of the answer and a reset show in RequestReply; the       *)
(* firmware's other steps are stutters.                                    *)

(* A step that keeps the client, the request and all of the answer.        *)
LEMMA StutterSame ==
  UNCHANGED <<client, cmd, len, status, res, err>> => UNCHANGED Protocol!vars
BY DEF Protocol!vars, Answered

(* A step that keeps the client and the request while there is no answer.  *)
LEMMA StutterUnanswered ==
  UNCHANGED <<client, cmd, len>> /\ ~Answered /\ ~Answered' => UNCHANGED Protocol!vars
BY DEF Protocol!vars, Answered

LEMMA InitRefines == Init => Protocol!Init
BY DEF Init, Protocol!Init, Answered

LEMMA StepRefines ==
  TypeInv /\ ControlInv /\ AnswerInv /\ [Next]_vars => [Protocol!Next]_(Protocol!vars)
<1> SUFFICES ASSUME TypeInv, ControlInv, AnswerInv, [Next]_vars
             PROVE  Protocol!Next \/ UNCHANGED Protocol!vars
  OBVIOUS
<1>1. CASE monitorConsoleInput \/ simple_getchar \/ cmdGo \/ taskInput
  BY <1>1, StutterSame DEF monitorConsoleInput, simple_getchar, cmdGo, taskInput,
     request6502, answer6502
<1>2. ASSUME NEW c \in {0, 1}, schedSwitchcontext(c)
      PROVE  UNCHANGED Protocol!vars
  BY <1>2, StutterSame DEF schedSwitchcontext, request6502, answer6502
<1>3. CASE UpdateReady \/ ToIdle \/ SkipPoll \/ StartPoll \/ LookDoorbell \/ LookStatus \/ RetryRead
  BY <1>3, StutterSame DEF UpdateReady, ToIdle, SkipPoll, StartPoll, LookDoorbell, LookStatus,
     RetryRead, request6502, answer6502
<1>4. CASE WriteSlice \/ FinishWrite \/ FinishRead \/ TakeChar \/ UNCHANGED vars
  BY <1>4, StutterSame DEF WriteSlice, FinishWrite, FinishRead, TakeChar, vars, request6502, answer6502
<1>5. CASE pc = "dispatch" /\ taskMailbox
  <2>1. Asked
    BY <1>5 DEF ControlInv, SharedInv
  <2>2. UNCHANGED <<client, cmd, len, status>>
    BY <1>5 DEF taskMailbox, UpdateReady, ToIdle, SkipPoll, StartPoll, LookDoorbell, LookStatus,
       StoreReply, WriteSlice, FinishWrite, FinishRead, RetryRead, rp_handle_unknown_command,
       HandleEmpty, rp_console_io_handle_write, rp_console_io_handle_read,
       rp_fs_mailbox_handle_exec, Dispatch, ClearResultFields, request6502, answer6502
  <2> QED
    BY <2>1, <2>2, StutterUnanswered DEF Asked, Answered
<1>6. CASE StoreReply
  <2>1. /\ todo \in Suffixes /\ todo # <<>>
        /\ res' = IF Head(todo) = "result" THEN reply.res ELSE res
        /\ err' = IF Head(todo) = "error" THEN reply.err ELSE err
        /\ status' = IF Head(todo) = "status" THEN reply.status ELSE status
        /\ UNCHANGED <<client, cmd, len>>
    BY <1>6 DEF StoreReply, ControlInv, PlaceInv, request6502
  <2>2. CASE client # "waiting"
    BY <2>1, <2>2, StutterUnanswered DEF Answered
  <2>3. CASE todo = <<"doorbell">>
    <3>1. Head(todo) = "doorbell"
      BY <2>1, <2>3, Stages
    <3> QED
      BY <2>1, <3>1, StutterSame
  <2>4. CASE client = "waiting" /\ todo # <<"doorbell">>
    <3>1. Mine
      BY <2>1, <2>4 DEF ControlInv, SharedInv, WorkInv, Publishing
    <3>2. /\ reply \in ValidAnswers([cmd |-> cmd, len |-> len])
          /\ todo # CompletionOrder => res = reply.res
          /\ todo = <<"status", "doorbell">> => err = reply.err
      BY <2>1, <2>4, <3>1 DEF AnswerInv, Publishing
    <3>3. CASE Head(todo) # "status"
      BY <2>1, <3>1, <3>3, StutterUnanswered DEF Mine, Asked, Answered
    <3>4. CASE Head(todo) = "status"
      <4>1. todo = <<"status", "doorbell">>
        <5>1. Head(CompletionOrder) # "status" /\ Head(<<"error", "status", "doorbell">>) # "status"
          BY DEF CompletionOrder
        <5> QED
          BY ONLY <2>1, <2>4, <3>4, <5>1 DEF Suffixes
      <4>2. todo # CompletionOrder
        BY ONLY <3>4 DEF CompletionOrder
      <4>3. /\ status' = reply.status /\ res' = reply.res /\ err' = reply.err
            /\ UNCHANGED <<client, cmd, len>>
        BY <2>1, <3>2, <3>4, <4>1, <4>2
      <4>4. /\ reply = [status |-> reply.status, res |-> reply.res, err |-> reply.err]
            /\ reply.status \in {"DONE", "ERROR"}
        BY DEF TypeInv, TypeOK, Replies
      <4>5. client = "waiting" /\ ~Answered /\ Answered' /\ client' = "waiting"
        BY <2>4, <3>1, <4>3, <4>4 DEF Mine, Asked, Answered
      <4>6. [status |-> status', res |-> res', err |-> err'] \in ValidAnswers([cmd |-> cmd, len |-> len])
        BY <3>2, <4>3, <4>4
      <4>7. [cmd |-> cmd, len |-> len] \in Requests
        BY <2>4 DEF AnswerInv
      <4>8. Protocol!Serve
        BY <4>3, <4>5, <4>6, <4>7 DEF Protocol!Serve
      <4> QED
        BY <4>8 DEF Protocol!Next
    <3> QED
      BY <3>3, <3>4
  <2> QED
    BY <2>2, <2>3, <2>4
<1>7. ASSUME NEW r \in Requests, Submit(r)
      PROVE  Protocol!Next
  <2>1. [cmd |-> cmd', len |-> len'] = r
    BY <1>7, RequestType DEF Submit
  <2>2. client = "idle" /\ client' = "waiting" /\ ~Answered /\ ~Answered'
    BY <1>7 DEF Submit, Answered
  <2>3. Protocol!Submit(r)
    BY <2>1, <2>2 DEF Protocol!Submit
  <2> QED
    BY <2>3 DEF Protocol!Next
<1>8. CASE Collect
  <2>1. client = "waiting" /\ Answered /\ client' = "idle" /\ ~Answered'
    BY <1>8 DEF Collect, Answered
  <2>2. Protocol!Collect
    BY <2>1 DEF Protocol!Collect
  <2> QED
    BY <2>2 DEF Protocol!Next
<1>9. CASE cmdReset
  <2>1. client' = "idle" /\ ~Answered'
    BY <1>9 DEF cmdReset, Answered
  <2>2. Protocol!Reset
    BY <2>1 DEF Protocol!Reset
  <2> QED
    BY <2>2 DEF Protocol!Next
<1>10. taskMailbox =>
         \/ pc = "dispatch" \/ ToIdle \/ StoreReply \/ WriteSlice \/ FinishWrite \/ FinishRead
         \/ UpdateReady \/ SkipPoll \/ StartPoll \/ LookDoorbell \/ LookStatus \/ RetryRead
  BY DEF taskMailbox, rp_handle_unknown_command, HandleEmpty, rp_console_io_handle_write,
         rp_console_io_handle_read, rp_fs_mailbox_handle_exec, Dispatch
<1> QED
  BY <1>1, <1>2, <1>3, <1>4, <1>5, <1>6, <1>7, <1>8, <1>9, <1>10
     DEF Next, OtherTasks, Program

(* The shared block, whose fields are stored one at a time by two parties, *)
(* implements request/reply: set_done and set_error publish RP_STATUS only *)
(* after a result and an error that answer the request in the block, and   *)
(* nothing of an answer changes until the 6502 has taken it.               *)
THEOREM Refines == Spec => ImplementsProtocol
<1>1. Init => TypeInv /\ ControlInv /\ AnswerInv
  BY InitTypeInv, InitControlInv, InitAnswerInv
<1>2. TypeInv /\ ControlInv /\ AnswerInv /\ [Next]_vars => TypeInv' /\ ControlInv' /\ AnswerInv'
  BY StepTypeInv, StepControlInv, StepAnswerInv
<1> QED
  BY <1>1, <1>2, InitRefines, StepRefines, PTL DEF Spec, ImplementsProtocol, Protocol!Spec

-----------------------------------------------------------------------------
(* Why a write that fits the display queue is shown whole.  taskInput      *)
(* empties the queue in the same turn of loop(), so a slice finds it empty;*)
(* and the offsets accepted so far end where the next slice begins.        *)
Entered(n) ==
  cmd = "console.write" /\ Cardinality(Shown) <= QCap => Members(accepted) = (1 .. n) \ nuls

WriteInv ==
  /\ Increasing(accepted) /\ Members(accepted) \intersect nuls = {}
  /\ pc \in {"ready", "fsm"} => vduCount = 0
  /\ Asked /\ executed = 0 => accepted = <<>>
  /\ Mine /\ mailbox_state = "mbWRITE" =>
       /\ \A i \in DOMAIN accepted : accepted[i] <= gConsoleCurrent
       /\ gConsoleCurrent + gConsoleRemaining = len
       /\ Entered(gConsoleCurrent)
  /\ (Mine /\ Publishing) \/ Answered => Entered(len)

(* The empty sequence.                                                     *)
LEMMA EmptyIncreasing ==
  Increasing(<<>>) /\ Len(<<>>) = 0 /\ DOMAIN <<>> = {} /\ Members(<<>>) = {}
BY DEF Increasing, Members

(* A sequence followed by larger numbers.                                  *)
LEMMA IncreasingJoin ==
  ASSUME NEW s \in Seq(Nat), NEW t \in Seq(Nat), Increasing(s), Increasing(t),
         \A i \in DOMAIN s, j \in DOMAIN t : s[i] < t[j]
  PROVE  Increasing(s \o t)
<1>1. /\ DOMAIN s = 1 .. Len(s) /\ DOMAIN t = 1 .. Len(t)
      /\ DOMAIN (s \o t) = 1 .. (Len(s) + Len(t)) /\ Len(s) \in Nat /\ Len(t) \in Nat
  OBVIOUS
<1>2. \A i \in 1 .. (Len(s) + Len(t)) :
        (s \o t)[i] = IF i <= Len(s) THEN s[i] ELSE t[i - Len(s)]
  OBVIOUS
<1> SUFFICES ASSUME NEW i \in 1 .. (Len(s) + Len(t)), NEW j \in 1 .. (Len(s) + Len(t)), i < j
             PROVE  (s \o t)[i] < (s \o t)[j]
  BY <1>1 DEF Increasing
<1>3. CASE j <= Len(s)
  <2>1. i \in DOMAIN s /\ j \in DOMAIN s /\ (s \o t)[i] = s[i] /\ (s \o t)[j] = s[j]
    BY <1>1, <1>2, <1>3
  <2> QED
    BY ONLY <2>1, Increasing(s), i < j DEF Increasing
<1>4. CASE i <= Len(s) /\ ~(j <= Len(s))
  <2>1. /\ i \in DOMAIN s /\ j - Len(s) \in DOMAIN t
        /\ (s \o t)[i] = s[i] /\ (s \o t)[j] = t[j - Len(s)]
    BY <1>1, <1>2, <1>4
  <2> QED
    BY <2>1
<1>5. CASE ~(i <= Len(s))
  <2>1. /\ i - Len(s) \in DOMAIN t /\ j - Len(s) \in DOMAIN t /\ i - Len(s) < j - Len(s)
        /\ (s \o t)[i] = t[i - Len(s)] /\ (s \o t)[j] = t[j - Len(s)]
    BY <1>1, <1>2, <1>5
  <2> QED
    BY ONLY <2>1, Increasing(t) DEF Increasing
<1> QED
  BY <1>3, <1>4, <1>5

LEMMA InitWriteInv == Init => WriteInv
BY EmptyIncreasing, Stages DEF Init, WriteInv, Mine, Asked, Answered

(* The actions that change nothing WriteInv speaks of but the display      *)
(* queue, which they leave empty where it must be.                         *)
writing == <<client, cmd, len, status, executed, mailbox_state, todo, gConsoleCurrent, gConsoleRemaining,
             nuls, accepted>>

LEMMA SameWrite ==
  WriteInv /\ UNCHANGED writing /\ (pc' \in {"ready", "fsm"} => vduCount' = 0) => WriteInv'
BY DEF WriteInv, writing, Mine, Asked, Publishing, Answered, Entered, Shown, Increasing, Members

LEMMA StepWriteInv ==
  TypeInv /\ ControlInv /\ AnswerInv /\ WriteInv /\ [Next]_vars => WriteInv'
<1> SUFFICES ASSUME TypeInv, ControlInv, AnswerInv, WriteInv, [Next]_vars
             PROVE  WriteInv'
  OBVIOUS
<1>0. /\ len \in Nat /\ gConsoleCurrent \in Nat /\ gConsoleRemaining \in Nat
      /\ executed \in 0 .. 2 /\ accepted \in Seq(Nat)
  BY LengthType DEF TypeInv, TypeOK
<1>1. CASE monitorConsoleInput \/ simple_getchar \/ cmdGo \/ taskInput
  BY <1>1, SameWrite DEF writing, monitorConsoleInput, simple_getchar, cmdGo, taskInput,
     request6502, console, answer6502, completion, WriteInv
<1>2. ASSUME NEW c \in {0, 1}, schedSwitchcontext(c)
      PROVE  WriteInv'
  BY <1>2, SameWrite DEF writing, schedSwitchcontext, request6502, console, answer6502, completion, WriteInv
<1>3. CASE UpdateReady \/ SkipPoll \/ StartPoll \/ LookDoorbell \/ LookStatus \/ RetryRead
  BY <1>3, SameWrite DEF writing, UpdateReady, SkipPoll, StartPoll, LookDoorbell, LookStatus,
     RetryRead, request6502, console, answer6502, completion, WriteInv
<1>4. CASE TakeChar \/ UNCHANGED vars
  BY <1>4, SameWrite DEF writing, TakeChar, vars, request6502, console, answer6502, completion, WriteInv
<1>5. CASE cmdReset
  BY <1>5, EmptyIncreasing DEF cmdReset, WriteInv, Mine, Asked, Answered
<1>6. CASE ToIdle
  BY <1>6 DEF ToIdle, WriteInv, Mine, Asked, Publishing, Answered, Entered, Shown, Increasing, Members,
     request6502, console, answer6502, completion
<1>7. CASE StoreReply
  <2>1. /\ todo \in Suffixes /\ todo # <<>> /\ todo' = Tail(todo)
        /\ status' = IF Head(todo) = "status" THEN reply.status ELSE status
        /\ UNCHANGED <<client, cmd, len, executed, nuls, accepted, mailbox_state, vduCount>>
        /\ pc = "reply" /\ pc' \in {"reply", "tasks"} /\ mailbox_state = "mbDONE"
    BY <1>7 DEF StoreReply, ControlInv, PlaceInv, request6502, console
  <2>2. reply.status \in {"DONE", "ERROR"}
    BY DEF TypeInv, TypeOK, Replies
  <2>3. Mine' => Mine
    BY <2>1, <2>2 DEF Mine, Asked
  <2>4. Publishing' => Publishing
    BY <2>1, Stages DEF Publishing
  <2>5. Answered' => Answered \/ (Mine /\ Publishing)
    <3>1. Head(todo) = "status" => Publishing
      BY <2>1, Stages DEF Publishing
    <3>2. client = "waiting" /\ Publishing => Mine
      BY DEF ControlInv, SharedInv, WorkInv
    <3> QED
      BY <2>1, <3>1, <3>2 DEF Answered
  <2>6. Asked' => Asked
    BY <2>1, <2>2 DEF Asked
  <2> QED
    BY <2>1, <2>3, <2>4, <2>5, <2>6 DEF WriteInv, Entered, Shown, Increasing, Members
<1>8. CASE taskMailbox /\ pc = "dispatch"
  <2>1. Asked /\ mailbox_state = "mbIDLE" /\ todo = <<>>
    BY <1>8 DEF ControlInv, SharedInv, PlaceInv
  <2>2. executed = 0 /\ accepted = <<>>
    BY <1>0, <2>1, Stages DEF ControlInv, OnceInv, ExactlyOnce, Mine, Publishing, WriteInv
  <2>3. /\ UNCHANGED <<client, cmd, len, status, nuls, accepted>> /\ executed' = 1
        /\ pc' \in {"tasks", "reply"}
    BY <1>8, <2>2 DEF taskMailbox, UpdateReady, ToIdle, SkipPoll, StartPoll, LookDoorbell, LookStatus,
       StoreReply, WriteSlice, FinishWrite, FinishRead, RetryRead, rp_handle_unknown_command,
       HandleEmpty, rp_console_io_handle_write, rp_console_io_handle_read, Complete,
       rp_fs_mailbox_handle_exec, Dispatch, ClearResultFields, request6502, answer6502
  <2>4. /\ ~Answered' /\ Increasing(accepted') /\ DOMAIN accepted' = {}
        /\ Members(accepted') = {} /\ (1 .. 0) \ nuls' = {}
    BY <2>1, <2>2, <2>3, EmptyIncreasing DEF Asked, Answered
  <2>5. CASE cmd = "console.write" /\ len # 0
    <3>1. /\ gConsoleCurrent' = 0 /\ gConsoleRemaining' = len /\ todo' = todo
      BY <1>8, <2>5 DEF taskMailbox, UpdateReady, ToIdle, SkipPoll, StartPoll, LookDoorbell, LookStatus,
       StoreReply, WriteSlice, FinishWrite, FinishRead, RetryRead, rp_handle_unknown_command,
       HandleEmpty, rp_console_io_handle_write, rp_console_io_handle_read, completion,
       rp_fs_mailbox_handle_exec, Dispatch
    <3>2. ~Publishing'
      BY <2>1, <3>1 DEF Publishing
    <3> QED
      BY <1>0, <2>3, <2>4, <3>1, <3>2 DEF WriteInv, Entered, Shown
  <2>6. CASE cmd # "console.write" \/ len = 0
    <3>1. mailbox_state' # "mbWRITE"
      BY <1>8, <2>6 DEF taskMailbox, UpdateReady, ToIdle, SkipPoll, StartPoll, LookDoorbell, LookStatus,
       StoreReply, WriteSlice, FinishWrite, FinishRead, RetryRead, rp_handle_unknown_command,
       HandleEmpty, rp_console_io_handle_write, rp_console_io_handle_read, Complete,
       rp_fs_mailbox_handle_exec, Dispatch
    <3> QED
      BY <2>3, <2>4, <2>6, <3>1 DEF WriteInv, Entered, Shown
  <2> QED
    BY <2>5, <2>6
<1>9. CASE WriteSlice
  <2> DEFINE n == Slice(gConsoleRemaining)
             c == gConsoleCurrent
             q == [accepted |-> accepted, count |-> vduCount]
             r == rp_console_output_bytes(n)
  <2>1. pc = "fsm" /\ vduCount = 0 /\ Mine /\ mailbox_state = "mbWRITE"
    BY <1>9 DEF WriteSlice, WriteInv, ControlInv, WorkInv
  <2>2. /\ Increasing(accepted) /\ Members(accepted) \intersect nuls = {}
        /\ \A i \in DOMAIN accepted : accepted[i] <= c
        /\ c + gConsoleRemaining = len
        /\ Entered(c)
    BY <2>1 DEF WriteInv
  <2>3. n \in Nat /\ n <= gConsoleRemaining
    BY <1>0, LesserBounds, ConstantsAssumption DEF Slice
  <2>4. /\ accepted' = r.accepted
        /\ gConsoleCurrent' = c + n
        /\ gConsoleRemaining' = gConsoleRemaining - n
        /\ UNCHANGED <<client, cmd, len, nuls, status, executed, mailbox_state, todo>>
        /\ pc' = "tasks"
    BY <1>9 DEF WriteSlice, NextOffset, answer6502, completion
  <2>5. Holds(q) /\ Ordered(q, c)
    BY <1>0, <2>1, <2>2, ConstantsAssumption DEF Holds, Ordered
  <2>6. Cardinality(Shown) <= QCap /\ cmd = "console.write" => Whole(q, c, c)
    <3>1. (c + 1 .. c) \ nuls = {} /\ Cardinality({}) = 0
      BY <1>0, FS_EmptySet
    <3> QED
      BY <2>1, <2>2, <3>1 DEF Whole, Entered
  <2>7. /\ Ordered(q, c) => Ordered(r, c + n)
        /\ (Whole(q, c, c) /\ c + n <= len /\ Cardinality(Shown) <= QCap) => Whole(r, c, c + n)
    <3> HIDE DEF n
    <3> QED
      BY <1>0, <2>3, <2>5, OutputIs
  <2>8. c + n <= len /\ c \in Nat
    BY <1>0, <2>2, <2>3
  <2> HIDE DEF n, c, q, r
  <2>9. /\ Increasing(accepted') /\ Members(accepted') \intersect nuls' = {}
        /\ \A i \in DOMAIN accepted' : accepted'[i] <= gConsoleCurrent'
    BY <2>4, <2>5, <2>7 DEF Ordered
  <2>10. gConsoleCurrent' + gConsoleRemaining' = len
    BY <1>0, <2>2, <2>3, <2>4, <2>8
  <2>11. Entered(gConsoleCurrent)'
    BY <2>4, <2>6, <2>7, <2>8 DEF Entered, Shown, Whole
  <2>12. ~Answered' /\ ~(Asked /\ executed = 0)' /\ ~(Mine /\ Publishing)'
    BY <2>1, <2>4 DEF Mine, Asked, Answered, Publishing, ControlInv, PlaceInv
  <2> QED
    BY <2>4, <2>9, <2>10, <2>11, <2>12 DEF WriteInv
<1>10. CASE FinishWrite
  <2>1. /\ gConsoleRemaining = 0 /\ mailbox_state = "mbWRITE" /\ mailbox_state' = "mbDONE"
        /\ pc' = "reply"
        /\ UNCHANGED <<client, cmd, len, status, executed, nuls, accepted>>
    BY <1>10 DEF FinishWrite, Complete, request6502, answer6502
  <2>2. Mine => Entered(len)
    BY <1>0, <2>1 DEF WriteInv
  <2> QED
    BY <2>1, <2>2 DEF WriteInv, Mine, Asked, Answered, Entered, Shown, Increasing, Members
<1>11. CASE FinishRead
  <2>1. /\ mailbox_state = "mbREAD" /\ mailbox_state' = "mbDONE" /\ pc' = "reply"
        /\ UNCHANGED <<client, cmd, len, status, executed, nuls, accepted>>
    BY <1>11 DEF FinishRead, Complete, request6502, answer6502
  <2>2. Mine => cmd = "console.read"
    BY <2>1 DEF AnswerInv
  <2> QED
    BY <2>1, <2>2 DEF WriteInv, Mine, Asked, Answered, Entered, Shown, Increasing, Members
<1>12. ASSUME NEW r \in Requests, Submit(r)
       PROVE  WriteInv'
  BY <1>12, EmptyIncreasing DEF Submit, WriteInv, Mine, Asked, Answered
<1>13. CASE Collect
  BY <1>13, EmptyIncreasing DEF Collect, WriteInv, Mine, Asked, Answered
<1>14. taskMailbox =>
         \/ pc = "dispatch" \/ ToIdle \/ StoreReply \/ WriteSlice \/ FinishWrite \/ FinishRead
         \/ UpdateReady \/ SkipPoll \/ StartPoll \/ LookDoorbell \/ LookStatus \/ RetryRead
  BY DEF taskMailbox, rp_handle_unknown_command, HandleEmpty, rp_console_io_handle_write,
         rp_console_io_handle_read, rp_fs_mailbox_handle_exec, Dispatch
<1> QED
  BY <1>1, <1>2, <1>3, <1>4, <1>5, <1>6, <1>7, <1>8, <1>9, <1>10, <1>11, <1>12, <1>13, <1>14
     DEF Next, OtherTasks, Program

(* What writeVDUQ pushes, slice after slice, is the 6502's text in order,  *)
(* no byte twice and no 0x00; and by the time DONE is read it is all of    *)
(* the text but the 0x00, when that fits the display queue.                *)
THEOREM WrittenWhole == Spec => []WriteComplete
<1>1. Init => TypeInv /\ ControlInv /\ AnswerInv /\ WriteInv
  BY InitTypeInv, InitControlInv, InitAnswerInv, InitWriteInv
<1>2. /\ TypeInv /\ ControlInv /\ AnswerInv /\ WriteInv /\ [Next]_vars
      => TypeInv' /\ ControlInv' /\ AnswerInv' /\ WriteInv'
  BY StepTypeInv, StepControlInv, StepAnswerInv, StepWriteInv
<1>3. WriteInv => WriteComplete
  BY DEF WriteInv, WriteComplete, Increasing, Entered, Shown
<1> QED
  BY <1>1, <1>2, <1>3, PTL DEF Spec

-----------------------------------------------------------------------------
(* Where the typed characters are.                                         *)

(* A queue of characters that loses its head, gains one at its end, or is  *)
(* cut in two.                                                             *)
LEMMA CharSeq ==
  ASSUME NEW s \in Seq(1 .. MaxTyped)
  PROVE  /\ s \in Seq(Nat) /\ Len(s) \in Nat /\ DOMAIN s = 1 .. Len(s)
         /\ \A i \in DOMAIN s : s[i] \in Nat /\ s[i] # 0 /\ s[i] \in Members(s)
         /\ Members(s) \subseteq Nat
BY ConstantsAssumption DEF Members

LEMMA MembersHead ==
  ASSUME NEW s \in Seq(Nat), s # <<>>, Increasing(s)
  PROVE  /\ Members(s) = {Head(s)} \union Members(Tail(s))
         /\ Increasing(Tail(s))
         /\ \A i \in DOMAIN Tail(s) : Head(s) < Tail(s)[i]
<1>1. /\ Len(s) \in Nat \ {0} /\ DOMAIN s = 1 .. Len(s) /\ Head(s) = s[1]
      /\ DOMAIN Tail(s) = 1 .. (Len(s) - 1)
      /\ \A i \in 1 .. (Len(s) - 1) : Tail(s)[i] = s[i + 1]
  OBVIOUS
<1>2. \A i \in 1 .. (Len(s) - 1) : i + 1 \in 1 .. Len(s) /\ i + 1 \in DOMAIN s
  BY <1>1
<1>3. \A i \in 1 .. Len(s) : i = 1 \/ \E j \in 1 .. (Len(s) - 1) : i = j + 1
  <2>1. ASSUME NEW i \in 1 .. Len(s), i # 1
        PROVE  i - 1 \in 1 .. (Len(s) - 1) /\ i = (i - 1) + 1
    BY <1>1, <2>1
  <2> QED
    BY <2>1
<1>4. Members(s) = {Head(s)} \union Members(Tail(s))
  <2>1. ASSUME NEW i \in 1 .. Len(s)
        PROVE  s[i] \in {Head(s)} \union Members(Tail(s))
    <3>1. CASE i = 1
      BY <1>1, <3>1
    <3>2. ASSUME NEW j \in 1 .. (Len(s) - 1), i = j + 1
          PROVE  s[i] \in Members(Tail(s))
      BY <1>1, <3>2 DEF Members
    <3> QED
      BY <1>3, <3>1, <3>2
  <2>2. Head(s) \in Members(s)
    BY <1>1 DEF Members
  <2>3. Members(Tail(s)) \subseteq Members(s)
    BY <1>1, <1>2 DEF Members
  <2>4. Members(s) \subseteq {Head(s)} \union Members(Tail(s))
    BY <1>1, <2>1 DEF Members
  <2> QED
    BY <2>2, <2>3, <2>4
<1>5. Increasing(Tail(s))
  BY <1>1, <1>2 DEF Increasing
<1>6. ASSUME NEW i \in DOMAIN Tail(s)
      PROVE  Head(s) < Tail(s)[i]
  <2>1. 1 \in DOMAIN s /\ i + 1 \in DOMAIN s /\ 1 < i + 1 /\ Tail(s)[i] = s[i + 1]
    BY <1>1, <1>2
  <2> QED
    BY <1>1, <2>1 DEF Increasing
<1> QED
  BY <1>4, <1>5, <1>6

LEMMA MembersAppend ==
  ASSUME NEW s \in Seq(Nat), NEW e \in Nat, Increasing(s), \A i \in DOMAIN s : s[i] < e
  PROVE  /\ Members(Append(s, e)) = Members(s) \union {e}
         /\ Increasing(Append(s, e))
<1> DEFINE t == Append(s, e)
           n == Len(s)
<1>1. /\ n \in Nat /\ DOMAIN s = 1 .. n /\ DOMAIN t = 1 .. (n + 1)
      /\ \A i \in 1 .. n : t[i] = s[i]
      /\ t[n + 1] = e
  OBVIOUS
<1> HIDE DEF t, n
<1>2. \A i \in 1 .. (n + 1) : i \in 1 .. n \/ i = n + 1
  BY <1>1
<1>3. \A i \in 1 .. n : i \in 1 .. (n + 1)
  BY <1>1
<1>4. n + 1 \in 1 .. (n + 1)
  BY <1>1
<1>5. Members(t) = Members(s) \union {e}
  <2>1. Members(t) \subseteq Members(s) \union {e}
    BY <1>1, <1>2 DEF Members
  <2>2. Members(s) \subseteq Members(t) /\ e \in Members(t)
    BY <1>1, <1>3, <1>4 DEF Members
  <2> QED
    BY <2>1, <2>2
<1>6. Increasing(t)
  <2> SUFFICES ASSUME NEW i \in 1 .. (n + 1), NEW j \in 1 .. (n + 1), i < j
               PROVE  t[i] < t[j]
    BY <1>1 DEF Increasing
  <2>1. i \in 1 .. n /\ t[i] = s[i] /\ i \in DOMAIN s
    BY <1>1
  <2>2. CASE j = n + 1
    BY <1>1, <2>1, <2>2
  <2>3. CASE j \in 1 .. n
    BY <1>1, <2>1, <2>3 DEF Increasing
  <2> QED
    BY <1>2, <2>2, <2>3
<1> QED
  BY <1>5, <1>6 DEF t

LEMMA MembersCut ==
  ASSUME NEW s \in Seq(Nat), Increasing(s), NEW n \in Nat, n <= Len(s)
  PROVE  LET a == SubSeq(s, 1, n)
             b == SubSeq(s, n + 1, Len(s))
         IN /\ Members(s) = Members(a) \union Members(b)
            /\ Increasing(a) /\ Increasing(b)
            /\ \A i \in DOMAIN a, j \in DOMAIN b : a[i] < b[j]
<1> DEFINE a == SubSeq(s, 1, n)
           b == SubSeq(s, n + 1, Len(s))
           l == Len(s)
<1>1. l \in Nat /\ DOMAIN s = 1 .. l
  OBVIOUS
<1>2. DOMAIN a = 1 .. n /\ \A i \in 1 .. n : a[i] = s[i]
  OBVIOUS
<1>3. DOMAIN b = 1 .. (l - n) /\ \A i \in 1 .. (l - n) : b[i] = s[n + i]
  OBVIOUS
<1>4. n <= l
  OBVIOUS
<1> HIDE DEF a, b, l
<1>5. \A i \in 1 .. n : i \in DOMAIN s
  BY <1>1, <1>4
<1>6. \A i \in 1 .. (l - n) : n + i \in DOMAIN s
  BY <1>1, <1>4
<1>7. \A i \in 1 .. l : i \in 1 .. n \/ \E j \in 1 .. (l - n) : i = n + j
  <2>1. ASSUME NEW i \in 1 .. l, i \notin 1 .. n
        PROVE  i - n \in 1 .. (l - n) /\ i = n + (i - n)
    BY <1>1, <1>4, <2>1
  <2> QED
    BY <2>1
<1>8. Members(s) = Members(a) \union Members(b)
  <2>1. Members(s) \subseteq Members(a) \union Members(b)
    <3>1. ASSUME NEW i \in 1 .. l
          PROVE  (\E k \in DOMAIN a : s[i] = a[k]) \/ (\E k \in DOMAIN b : s[i] = b[k])
      <4>1. CASE i \in 1 .. n
        BY <1>2, <4>1
      <4>2. CASE \E j \in 1 .. (l - n) : i = n + j
        BY <1>3, <4>2
      <4> QED
        BY <1>7, <4>1, <4>2
    <3> QED
      BY <1>1, <3>1 DEF Members
  <2>2. Members(a) \subseteq Members(s) /\ Members(b) \subseteq Members(s)
    BY <1>2, <1>3, <1>5, <1>6 DEF Members
  <2> QED
    BY <2>1, <2>2
<1>9. Increasing(a)
  BY <1>2, <1>5 DEF Increasing
<1>10. Increasing(b)
  <2> SUFFICES ASSUME NEW i \in 1 .. (l - n), NEW j \in 1 .. (l - n), i < j
               PROVE  b[i] < b[j]
    BY <1>3 DEF Increasing
  <2>1. n + i \in DOMAIN s /\ n + j \in DOMAIN s
    BY <1>6
  <2>2. n + i < n + j
    BY <1>1
  <2>3. b[i] = s[n + i] /\ b[j] = s[n + j]
    BY <1>3
  <2> QED
    BY ONLY <2>1, <2>2, <2>3, Increasing(s) DEF Increasing
<1>11. ASSUME NEW i \in DOMAIN a, NEW j \in DOMAIN b
       PROVE  a[i] < b[j]
  <2>1. i \in DOMAIN s /\ n + j \in DOMAIN s /\ i < n + j /\ a[i] = s[i] /\ b[j] = s[n + j]
    BY <1>1, <1>2, <1>3, <1>5, <1>6
  <2> QED
    BY <2>1 DEF Increasing
<1> QED
  BY <1>8, <1>9, <1>10, <1>11 DEF a, b, l

(* Increasing numbers are all different.                                   *)
LEMMA MembersCount ==
  ASSUME NEW s \in Seq(Nat), Increasing(s)
  PROVE  IsFiniteSet(Members(s)) /\ Cardinality(Members(s)) = Len(s)
<1> DEFINE n == Len(s)
           M == Members(s)
<1>1. n \in Nat /\ DOMAIN s = 1 .. n /\ \A i \in 1 .. n : s[i] \in Nat
  OBVIOUS
<1>2. M = {s[i] : i \in 1 .. n}
  BY <1>1 DEF Members
<1>3. s \in [1 .. n -> M]
  BY <1>1, <1>2
<1>4. \A i, j \in 1 .. n : s[i] = s[j] => i = j
  BY <1>1 DEF Increasing
<1>5. \A m \in M : \E i \in 1 .. n : s[i] = m
  BY <1>2
<1> HIDE DEF n, M
<1>6. s \in Bijection(1 .. n, M)
  BY <1>3, <1>4, <1>5, Fun_IsBij
<1>7. ExistsBijection(1 .. n, M)
  BY <1>6 DEF ExistsBijection
<1>8. Cardinality(M) = n
  BY <1>1, <1>7, FS_CountingElements
<1>9. IsFiniteSet(1 .. n)
  BY <1>1, FS_Interval
<1>10. IsFiniteSet(M)
  BY <1>7, <1>9, FS_Bijection
<1> QED
  BY <1>8, <1>10 DEF n, M

Slot == {getchar} \ {0}

(* The characters in their order, each in one place.                       *)
PlacesInv ==
  /\ Increasing(userBuf) /\ Increasing(cpuQ)
  /\ \A i \in DOMAIN userBuf, j \in DOMAIN cpuQ : userBuf[i] < cpuQ[j]
  /\ Members(userBuf) \union Members(cpuQ) \union Slot \union spent = 1 .. typed
  /\ Slot \intersect (Members(userBuf) \union Members(cpuQ) \union spent) = {}
  /\ spent \intersect (Members(userBuf) \union Members(cpuQ)) = {}

(* Characters in the 6502's buffer are those the answer counts, so the     *)
(* 6502 takes them all.                                                    *)
CountedInv ==
  userBuf # <<>> => \/ Mine /\ Publishing /\ reply.res = Len(userBuf)
                    \/ Answered /\ res = Len(userBuf)

InputInv == PlacesInv /\ CountedInv

LEMMA NoMembers == Members(<<>>) = {} /\ Increasing(<<>>) /\ DOMAIN <<>> = {} /\ Len(<<>>) = 0
BY DEF Members, Increasing

LEMMA InitInputInv == Init => InputInv
<1> SUFFICES ASSUME Init PROVE InputInv
  OBVIOUS
<1>1. 1 .. 0 = {}
  OBVIOUS
<1> QED
  BY <1>1, NoMembers DEF Init, InputInv, PlacesInv, CountedInv, Slot

LEMMA SamePlaces == PlacesInv /\ UNCHANGED input => PlacesInv'
BY DEF PlacesInv, input, Slot, Members, Increasing

LEMMA SameCounted ==
  CountedInv /\ UNCHANGED <<userBuf, client, status, executed, todo, reply, res>> => CountedInv'
BY DEF CountedInv, Mine, Asked, Publishing, Answered

(* Only these steps move a character.                                      *)
LEMMA StepPlacesInv ==
  TypeInv /\ ControlInv /\ InputInv /\ [Next]_vars => PlacesInv'
<1> SUFFICES ASSUME TypeInv, ControlInv, InputInv, [Next]_vars
             PROVE  PlacesInv'
  OBVIOUS
<1> DEFINE A == Members(userBuf)
           B == Members(cpuQ)
<1>0. /\ userBuf \in Seq(1 .. MaxTyped) /\ cpuQ \in Seq(1 .. MaxTyped)
      /\ getchar \in 0 .. MaxTyped /\ typed \in Nat /\ spent \subseteq 1 .. MaxTyped
      /\ res \in Nat /\ gConsoleLen \in Nat /\ MaxTyped \in Nat
  BY ConstantsAssumption DEF TypeInv, TypeOK
<1>00. /\ userBuf \in Seq(Nat) /\ cpuQ \in Seq(Nat) /\ Len(userBuf) \in Nat /\ Len(cpuQ) \in Nat
       /\ \A i \in DOMAIN userBuf : userBuf[i] \in A /\ userBuf[i] \in Nat
       /\ \A i \in DOMAIN cpuQ : cpuQ[i] \in B /\ cpuQ[i] \in Nat
  BY <1>0, CharSeq
<1>000. /\ Increasing(userBuf) /\ Increasing(cpuQ)
        /\ \A i \in DOMAIN userBuf, j \in DOMAIN cpuQ : userBuf[i] < cpuQ[j]
        /\ A \union B \union Slot \union spent = 1 .. typed
        /\ Slot \intersect (A \union B \union spent) = {}
        /\ spent \intersect (A \union B) = {}
  BY DEF InputInv, PlacesInv
<1>1. CASE monitorConsoleInput
  <2>1. /\ typed' = typed + 1 /\ cpuQ' = Append(cpuQ, typed + 1)
        /\ UNCHANGED <<getchar, userBuf, spent>>
    BY <1>1 DEF monitorConsoleInput
  <2>2. \A m \in A \union B : m < typed + 1
    <3>1. A \union B \subseteq 1 .. typed
      BY ONLY <1>000
    <3> QED
      BY ONLY <1>0, <3>1
  <2>3. Members(cpuQ') = B \union {typed + 1} /\ Increasing(cpuQ')
    <3>1. \A i \in DOMAIN cpuQ : cpuQ[i] < typed + 1
      BY <1>00, <2>2
    <3> QED
      BY <1>0, <1>00, <1>000, <2>1, <3>1, MembersAppend
  <2>4. ASSUME NEW i \in DOMAIN userBuf, NEW j \in DOMAIN cpuQ'
        PROVE  userBuf[i] < cpuQ'[j]
    <3>1. /\ DOMAIN cpuQ = 1 .. Len(cpuQ) /\ DOMAIN cpuQ' = 1 .. (Len(cpuQ) + 1)
          /\ \A l \in 1 .. Len(cpuQ) : cpuQ'[l] = cpuQ[l]
          /\ cpuQ'[Len(cpuQ) + 1] = typed + 1
      BY <1>00, <2>1, AppendProperties
    <3>2. j \in 1 .. Len(cpuQ) \/ j = Len(cpuQ) + 1
      BY <1>00, <3>1
    <3>3. userBuf[i] < typed + 1
      BY <1>00, <2>2
    <3> QED
      BY <1>000, <3>1, <3>2, <3>3
  <2>5. Slot' = Slot /\ Members(userBuf') = A
    BY <2>1 DEF Slot
  <2>6. 1 .. (typed + 1) = (1 .. typed) \union {typed + 1} /\ typed + 1 \notin 1 .. typed
    BY ONLY <1>0
  <2> HIDE DEF A, B
  <2>7. /\ A \union (B \union {typed + 1}) \union Slot \union spent = 1 .. (typed + 1)
        /\ Slot \intersect (A \union (B \union {typed + 1}) \union spent) = {}
        /\ spent \intersect (A \union (B \union {typed + 1})) = {}
    BY ONLY <1>000, <2>6
  <2> QED
    BY <1>000, <2>1, <2>3, <2>4, <2>5, <2>7 DEF PlacesInv
<1>2. CASE simple_getchar
  <2> DEFINE h == Head(cpuQ)
             C == Members(Tail(cpuQ))
  <2>1. /\ getchar = 0 /\ cpuQ # <<>> /\ getchar' = h /\ cpuQ' = Tail(cpuQ)
        /\ UNCHANGED <<userBuf, typed, spent>>
    BY <1>2 DEF simple_getchar
  <2>2. /\ B = {h} \union C /\ Increasing(Tail(cpuQ))
        /\ \A i \in DOMAIN Tail(cpuQ) : h < Tail(cpuQ)[i]
    BY <1>00, <1>000, <2>1, MembersHead
  <2>3. h \notin C
    <3>1. h \in Nat /\ \A i \in DOMAIN Tail(cpuQ) : Tail(cpuQ)[i] \in Nat
      BY <1>00, <2>1
    <3> QED
      BY <2>2, <3>1 DEF Members
  <2>4. h # 0 /\ 1 \in DOMAIN cpuQ /\ h = cpuQ[1]
    BY <1>0, <2>1
  <2>5. h \notin A
    <3>1. \A i \in DOMAIN userBuf : userBuf[i] < h
      BY <1>000, <2>4
    <3> QED
      BY <1>00, <2>4, <3>1 DEF Members
  <2>6. ASSUME NEW i \in DOMAIN userBuf, NEW j \in DOMAIN Tail(cpuQ)
        PROVE  userBuf[i] < Tail(cpuQ)[j]
    <3>1. j + 1 \in DOMAIN cpuQ /\ Tail(cpuQ)[j] = cpuQ[j + 1]
      BY <1>00, <2>1
    <3> QED
      BY <1>000, <3>1
  <2>7. Slot = {} /\ Slot' = {h}
    BY <2>1, <2>4 DEF Slot
  <2> HIDE DEF A, B, C, h
  <2>8. /\ A \union C \union {h} \union spent = 1 .. typed
        /\ {h} \intersect (A \union C \union spent) = {}
        /\ spent \intersect (A \union C) = {}
    BY ONLY <1>000, <2>2, <2>3, <2>5, <2>7
  <2>9. Members(cpuQ') = C /\ Members(userBuf') = A
    BY <2>1 DEF A, C
  <2> QED
    BY <1>000, <2>1, <2>2, <2>6, <2>7, <2>8, <2>9 DEF PlacesInv
<1>3. CASE cmdReset
  <2>1. /\ getchar' = 0 /\ userBuf' = <<>> /\ spent' = spent \union A \union Slot
        /\ UNCHANGED <<cpuQ, typed>>
    BY <1>3 DEF cmdReset, Slot
  <2>2. Slot' = {} /\ Members(userBuf') = {} /\ Increasing(userBuf') /\ DOMAIN userBuf' = {}
        /\ Members(cpuQ') = B
    BY <2>1, NoMembers DEF Slot
  <2>3. A \intersect B = {}
    <3>1. \A i \in DOMAIN userBuf, j \in DOMAIN cpuQ : userBuf[i] # cpuQ[j]
      BY <1>00, <1>000
    <3> QED
      BY <3>1 DEF Members
  <2> HIDE DEF A, B
  <2>4. /\ B \union (spent \union A \union Slot) = 1 .. typed
        /\ (spent \union A \union Slot) \intersect B = {}
    BY ONLY <1>000, <2>3
  <2> QED
    BY <1>000, <2>1, <2>2, <2>4 DEF PlacesInv
<1>4. CASE FinishRead
  <2> DEFINE n == InputBytes(gConsoleLen)
             a == SubSeq(cpuQ, 1, n)
             b == SubSeq(cpuQ, n + 1, Len(cpuQ))
  <2>1. n \in Nat /\ n <= gConsoleLen /\ n <= Len(cpuQ)
    BY <1>0, <1>00, LesserBounds DEF InputBytes
  <2>2. /\ n > 0 /\ userBuf' = a /\ cpuQ' = b /\ UNCHANGED <<getchar, typed, spent>>
        /\ pc = "fsm" /\ mailbox_state = "mbREAD"
    BY <1>4 DEF FinishRead, Left
  <2>3. Mine /\ todo = <<>>
    <3>1. gConsoleLen # 0
      BY <1>0, <2>1, <2>2
    <3> QED
      BY <2>2, <3>1 DEF ControlInv, WorkInv, PlaceInv
  <2>4. userBuf = <<>>
    BY <2>3 DEF InputInv, CountedInv, Mine, Asked, Answered, Publishing
  <2>5. A = {}
    BY <2>4, NoMembers
  <2>6. /\ B = Members(a) \union Members(b)
        /\ Increasing(a) /\ Increasing(b)
        /\ \A i \in DOMAIN a, j \in DOMAIN b : a[i] < b[j]
    BY <1>00, <1>000, <2>1, MembersCut
  <2>7. Slot' = Slot /\ Members(userBuf') = Members(a) /\ Members(cpuQ') = Members(b)
    BY <2>2 DEF Slot
  <2> HIDE DEF A, B, a, b, n
  <2>8. /\ Members(a) \union Members(b) \union Slot \union spent = 1 .. typed
        /\ Slot \intersect (Members(a) \union Members(b) \union spent) = {}
        /\ spent \intersect (Members(a) \union Members(b)) = {}
    BY ONLY <1>000, <2>5, <2>6
  <2> QED
    BY <2>2, <2>6, <2>7, <2>8 DEF PlacesInv
<1>5. CASE Collect
  <2>1. /\ spent' = spent \union Members(SubSeq(userBuf, 1, lesser(res, Len(userBuf))))
        /\ userBuf' = <<>> /\ Answered /\ UNCHANGED <<cpuQ, getchar, typed>>
    BY <1>5 DEF Collect, Answered
  <2>2. Members(SubSeq(userBuf, 1, lesser(res, Len(userBuf)))) = A
    <3>1. userBuf = <<>> => Len(userBuf) = 0
      BY NoMembers
    <3>2. userBuf # <<>> => res = Len(userBuf)
      BY <2>1 DEF InputInv, CountedInv, Mine, Asked, Answered
    <3>3. lesser(res, Len(userBuf)) = Len(userBuf)
      BY <1>0, <1>00, <3>1, <3>2 DEF lesser
    <3>4. SubSeq(userBuf, 1, Len(userBuf)) = userBuf
      BY <1>00
    <3> QED
      BY <3>3, <3>4
  <2>3. /\ Slot' = Slot /\ Members(userBuf') = {} /\ Increasing(userBuf') /\ DOMAIN userBuf' = {}
        /\ Members(cpuQ') = B
    BY <2>1, NoMembers DEF Slot
  <2>4. A \intersect B = {}
    <3>1. \A i \in DOMAIN userBuf, j \in DOMAIN cpuQ : userBuf[i] # cpuQ[j]
      BY <1>00, <1>000
    <3> QED
      BY <3>1 DEF Members
  <2>5. spent' = spent \union A
    BY <2>1, <2>2
  <2> HIDE DEF A, B
  <2>6. /\ B \union Slot \union (spent \union A) = 1 .. typed
        /\ Slot \intersect (B \union (spent \union A)) = {}
        /\ (spent \union A) \intersect B = {}
    BY ONLY <1>000, <2>4
  <2> QED
    BY <1>000, <2>1, <2>3, <2>5, <2>6 DEF PlacesInv
<1>6. CASE TakeChar
  <2>1. /\ spent' = spent \union Slot /\ getchar' = 0 /\ UNCHANGED <<userBuf, cpuQ, typed>>
    BY <1>6 DEF TakeChar, Slot
  <2>2. Slot' = {} /\ Members(userBuf') = A /\ Members(cpuQ') = B
    BY <2>1 DEF Slot
  <2> HIDE DEF A, B
  <2>3. /\ A \union B \union (spent \union Slot) = 1 .. typed
        /\ (spent \union Slot) \intersect (A \union B) = {}
    BY ONLY <1>000
  <2> QED
    BY <1>000, <2>1, <2>2, <2>3 DEF PlacesInv
<1>7. CASE taskMailbox /\ ~FinishRead
  <2>1. UNCHANGED input
    BY <1>7 DEF taskMailbox, UpdateReady, ToIdle, SkipPoll, StartPoll, LookDoorbell, LookStatus,
       StoreReply, WriteSlice, FinishWrite, RetryRead, rp_handle_unknown_command,
       HandleEmpty, rp_console_io_handle_write, rp_console_io_handle_read,
       rp_fs_mailbox_handle_exec, Dispatch
  <2> QED
    BY <2>1, SamePlaces DEF InputInv
<1>8. CASE taskInput \/ cmdGo \/ UNCHANGED vars
  BY <1>8, SamePlaces DEF taskInput, cmdGo, vars, InputInv
<1>9. ASSUME NEW c \in {0, 1}, schedSwitchcontext(c)
      PROVE  PlacesInv'
  BY <1>9, SamePlaces DEF schedSwitchcontext, InputInv
<1>10. ASSUME NEW r \in Requests, Submit(r)
       PROVE  PlacesInv'
  BY <1>10, SamePlaces DEF Submit, InputInv
<1> QED
  BY <1>1, <1>2, <1>3, <1>4, <1>5, <1>6, <1>7, <1>8, <1>9, <1>10
     DEF Next, OtherTasks, Program

LEMMA StepCountedInv ==
  TypeInv /\ ControlInv /\ AnswerInv /\ InputInv /\ [Next]_vars => CountedInv'
<1> SUFFICES ASSUME TypeInv, ControlInv, AnswerInv, InputInv, [Next]_vars
             PROVE  CountedInv'
  OBVIOUS
<1>0. /\ cpuQ \in Seq(1 .. MaxTyped) /\ Len(cpuQ) \in Nat /\ gConsoleLen \in Nat
      /\ executed \in 0 .. 2
  BY DEF TypeInv, TypeOK
<1>1. CASE monitorConsoleInput \/ simple_getchar \/ cmdGo \/ taskInput \/ TakeChar
  BY <1>1, SameCounted DEF InputInv, monitorConsoleInput, simple_getchar, cmdGo, taskInput, TakeChar,
     request6502, answer6502, completion, input
<1>2. ASSUME NEW c \in {0, 1}, schedSwitchcontext(c)
      PROVE  CountedInv'
  BY <1>2, SameCounted DEF InputInv, schedSwitchcontext, request6502, answer6502, completion, input
<1>3. CASE UpdateReady \/ ToIdle \/ SkipPoll \/ StartPoll \/ LookDoorbell \/ LookStatus \/ RetryRead
  BY <1>3, SameCounted DEF InputInv, UpdateReady, ToIdle, SkipPoll, StartPoll, LookDoorbell, LookStatus,
     RetryRead, request6502, answer6502, completion, input
<1>4. CASE WriteSlice \/ UNCHANGED vars
  BY <1>4, SameCounted DEF InputInv, WriteSlice, vars, request6502, answer6502, completion, input
<1>5. CASE cmdReset
  BY <1>5 DEF cmdReset, CountedInv
<1>6. CASE StoreReply
  <2>1. /\ todo \in Suffixes /\ todo # <<>> /\ todo' = Tail(todo)
        /\ res' = IF Head(todo) = "result" THEN reply.res ELSE res
        /\ status' = IF Head(todo) = "status" THEN reply.status ELSE status
        /\ Len(todo) # 1 => reply' = reply
        /\ UNCHANGED <<client, executed, userBuf>>
    BY <1>6 DEF StoreReply, ControlInv, PlaceInv, request6502, input
  <2>2. reply.status \in {"DONE", "ERROR"}
    BY DEF TypeInv, TypeOK, Replies
  <2>3. CASE userBuf = <<>>
    BY <2>1, <2>3 DEF CountedInv
  <2>4. CASE Mine /\ Publishing /\ reply.res = Len(userBuf)
    <3>1. todo # <<"doorbell">> /\ Len(todo) # 1
      BY <2>1, <2>4, Stages DEF Publishing
    <3>2. Head(todo) = "result" \/ res = reply.res
      <4>1. Head(CompletionOrder) = "result"
        BY DEF CompletionOrder
      <4> QED
        BY <2>4, <4>1 DEF AnswerInv
    <3>3. res' = Len(userBuf) /\ reply' = reply
      BY <2>1, <2>4, <3>1, <3>2
    <3>4. CASE Head(todo) = "status"
      <4>1. Answered'
        BY <2>1, <2>2, <2>4, <3>4 DEF Mine, Asked, Answered
      <4> QED
        BY <2>1, <3>3, <4>1 DEF CountedInv
    <3>5. CASE Head(todo) # "status"
      <4>1. Mine' /\ Publishing'
        BY <2>1, <2>4, <3>1, <3>5, Stages DEF Mine, Asked, Publishing
      <4> QED
        BY <2>1, <2>4, <3>3, <4>1 DEF CountedInv
    <3> QED
      BY <3>4, <3>5
  <2>5. CASE Answered /\ res = Len(userBuf)
    <3>1. todo = <<"doorbell">>
      BY <2>1, <2>5 DEF ControlInv, SharedInv, WorkInv, Publishing, Mine, Asked, Answered
    <3>2. Head(todo) = "doorbell"
      BY <2>1, <3>1, Stages
    <3>3. Answered' /\ res' = Len(userBuf)
      BY <2>1, <2>5, <3>2 DEF Answered
    <3> QED
      BY <2>1, <3>3 DEF CountedInv
  <2> QED
    BY <2>3, <2>4, <2>5 DEF InputInv, CountedInv
<1>7. CASE taskMailbox /\ pc = "dispatch"
  <2>1. Asked /\ todo = <<>>
    BY <1>7 DEF ControlInv, SharedInv, PlaceInv
  <2>2. userBuf = <<>>
    BY <2>1 DEF InputInv, CountedInv, Asked, Answered, Publishing
  <2>3. userBuf' = userBuf
    BY <1>7 DEF taskMailbox, UpdateReady, ToIdle, SkipPoll, StartPoll, LookDoorbell, LookStatus,
       StoreReply, WriteSlice, FinishWrite, FinishRead, RetryRead, rp_handle_unknown_command,
       HandleEmpty, rp_console_io_handle_write, rp_console_io_handle_read,
       rp_fs_mailbox_handle_exec, Dispatch, input
  <2> QED
    BY <2>2, <2>3 DEF CountedInv
<1>8. CASE FinishWrite
  <2>1. /\ pc = "fsm" /\ UNCHANGED <<userBuf, client, status, res>>
    BY <1>8 DEF FinishWrite, request6502, answer6502, input
  <2>2. ~Publishing
    BY <2>1 DEF ControlInv, PlaceInv, Publishing
  <2> QED
    BY <2>1, <2>2 DEF InputInv, CountedInv, Answered
<1>9. CASE FinishRead
  <2> DEFINE n == InputBytes(gConsoleLen)
  <2>1. n \in Nat /\ n <= gConsoleLen /\ n <= Len(cpuQ)
    <3>1. Len(cpuQ) \in Nat /\ gConsoleLen \in Nat
      BY <1>0
    <3> QED
      BY ONLY <3>1, LesserBounds DEF InputBytes
  <2>2. /\ n > 0 /\ userBuf' = SubSeq(cpuQ, 1, n) /\ reply' = Done(n) /\ todo' = CompletionOrder
        /\ UNCHANGED <<client, status, executed>> /\ mailbox_state = "mbREAD"
    BY <1>9 DEF FinishRead, Complete, request6502, answer6502
  <2>3. Len(SubSeq(cpuQ, 1, n)) = n
    BY <1>0, <2>1, SliceType
  <2>4. Mine
    <3>1. gConsoleLen # 0
      BY <1>0, <2>1, <2>2
    <3> QED
      BY <2>2, <3>1 DEF ControlInv, WorkInv
  <2>5. Mine' /\ Publishing'
    BY <2>2, <2>4, Stages DEF Mine, Asked, Publishing
  <2>6. reply'.res = n
    BY <2>2 DEF Done
  <2> QED
    BY <2>2, <2>3, <2>5, <2>6 DEF CountedInv
<1>10. ASSUME NEW r \in Requests, Submit(r)
       PROVE  CountedInv'
  <2>1. client = "idle" /\ userBuf' = userBuf
    BY <1>10 DEF Submit, input
  <2> QED
    BY <2>1 DEF InputInv, CountedInv, Mine, Asked, Answered
<1>11. CASE Collect
  BY <1>11 DEF Collect, CountedInv
<1>12. taskMailbox =>
         \/ pc = "dispatch" \/ ToIdle \/ StoreReply \/ WriteSlice \/ FinishWrite \/ FinishRead
         \/ UpdateReady \/ SkipPoll \/ StartPoll \/ LookDoorbell \/ LookStatus \/ RetryRead
  BY DEF taskMailbox, rp_handle_unknown_command, HandleEmpty, rp_console_io_handle_write,
         rp_console_io_handle_read, rp_fs_mailbox_handle_exec, Dispatch
<1> QED
  BY <1>1, <1>2, <1>3, <1>4, <1>5, <1>6, <1>7, <1>8, <1>9, <1>10, <1>11, <1>12
     DEF Next, OtherTasks, Program

(* The members of two sequences joined.                                    *)
LEMMA MembersJoin ==
  ASSUME NEW s \in Seq(Nat), NEW t \in Seq(Nat)
  PROVE  Members(s \o t) = Members(s) \union Members(t)
<1>1. /\ DOMAIN s = 1 .. Len(s) /\ DOMAIN t = 1 .. Len(t)
      /\ DOMAIN (s \o t) = 1 .. (Len(s) + Len(t)) /\ Len(s) \in Nat /\ Len(t) \in Nat
  OBVIOUS
<1>2. \A i \in 1 .. (Len(s) + Len(t)) :
        (s \o t)[i] = IF i <= Len(s) THEN s[i] ELSE t[i - Len(s)]
  OBVIOUS
<1>3. ASSUME NEW i \in 1 .. (Len(s) + Len(t))
      PROVE  (s \o t)[i] \in Members(s) \union Members(t)
  <2>1. CASE i <= Len(s)
    BY <1>1, <1>2, <2>1 DEF Members
  <2>2. CASE ~(i <= Len(s))
    <3>1. i - Len(s) \in DOMAIN t
      BY <1>1, <2>2
    <3>2. (s \o t)[i] = t[i - Len(s)]
      BY <1>2, <2>2
    <3> QED
      BY <3>1, <3>2 DEF Members
  <2> QED
    BY <2>1, <2>2
<1>4. ASSUME NEW i \in DOMAIN s
      PROVE  s[i] \in Members(s \o t)
  <2>1. i \in DOMAIN (s \o t) /\ (s \o t)[i] = s[i]
    BY <1>1, <1>2
  <2> QED
    BY <2>1 DEF Members
<1>5. ASSUME NEW i \in DOMAIN t
      PROVE  t[i] \in Members(s \o t)
  <2>1. i + Len(s) \in DOMAIN (s \o t) /\ ~(i + Len(s) <= Len(s)) /\ (i + Len(s)) - Len(s) = i
    BY <1>1
  <2>2. (s \o t)[i + Len(s)] = t[i]
    BY <1>1, <1>2, <2>1
  <2> QED
    BY <2>1, <2>2 DEF Members
<1>6. Members(s \o t) \subseteq Members(s) \union Members(t)
  BY <1>1, <1>3 DEF Members
<1>7. Members(s) \subseteq Members(s \o t)
  BY <1>4 DEF Members
<1>8. Members(t) \subseteq Members(s \o t)
  BY <1>5 DEF Members
<1> QED
  BY <1>6, <1>7, <1>8

LEMMA PlacesConserve == TypeInv /\ PlacesInv => InputConserved
<1> SUFFICES ASSUME TypeInv, PlacesInv
             PROVE  InputConserved
  OBVIOUS
<1> DEFINE A == Members(userBuf)
           B == Members(cpuQ)
           queued == userBuf \o cpuQ
<1>1. /\ userBuf \in Seq(1 .. MaxTyped) /\ cpuQ \in Seq(1 .. MaxTyped) /\ typed \in Nat
  BY ConstantsAssumption DEF TypeInv, TypeOK
<1>2. userBuf \in Seq(Nat) /\ cpuQ \in Seq(Nat)
  BY <1>1, CharSeq
<1>3. /\ Increasing(userBuf) /\ Increasing(cpuQ)
      /\ \A i \in DOMAIN userBuf, j \in DOMAIN cpuQ : userBuf[i] < cpuQ[j]
      /\ A \union B \union Slot \union spent = 1 .. typed
      /\ Slot \intersect (A \union B \union spent) = {}
      /\ spent \intersect (A \union B) = {}
  BY DEF PlacesInv
<1>4. queued \in Seq(Nat) /\ Increasing(queued) /\ Members(queued) = A \union B
  BY <1>2, <1>3, IncreasingJoin, MembersJoin
<1> HIDE DEF queued
<1>5. IsFiniteSet(Members(queued)) /\ Cardinality(Members(queued)) = Len(queued)
  BY <1>4, MembersCount
<1> DEFINE Q == Members(queued)
<1>6. IsFiniteSet(1 .. typed) /\ Cardinality(1 .. typed) = typed
  BY <1>1, FS_Interval
<1> HIDE DEF A, B, Q
<1>7. /\ Q \union Slot \union spent = 1 .. typed /\ Q \intersect Slot = {}
      /\ (Q \union Slot) \intersect spent = {}
  BY ONLY <1>3, <1>4 DEF Q
<1>8. Slot \subseteq 1 .. typed /\ spent \subseteq 1 .. typed /\ Q \subseteq 1 .. typed
  BY ONLY <1>7
<1>9. IsFiniteSet(Slot) /\ IsFiniteSet(spent) /\ IsFiniteSet(Q)
  BY <1>6, <1>8, FS_Subset
<1>10. /\ IsFiniteSet(Q \union Slot)
       /\ Cardinality(Q \union Slot) = Cardinality(Q) + Cardinality(Slot) - Cardinality(Q \intersect Slot)
  BY ONLY <1>9, FS_Union
<1>11. Cardinality((Q \union Slot) \union spent)
         = Cardinality(Q \union Slot) + Cardinality(spent) - Cardinality((Q \union Slot) \intersect spent)
  BY ONLY <1>9, <1>10, FS_Union
<1>12. /\ Cardinality(Q) \in Nat /\ Cardinality(Slot) \in Nat /\ Cardinality(spent) \in Nat
  BY <1>9, FS_CardinalityType
<1>13. Cardinality({}) = 0
  BY FS_EmptySet
<1>14. typed = Cardinality(Q) + Cardinality(Slot) + Cardinality(spent)
  <2>1. Cardinality(Q \intersect Slot) = 0 /\ Cardinality((Q \union Slot) \intersect spent) = 0
    BY ONLY <1>7, <1>13
  <2>2. Cardinality((Q \union Slot) \union spent) = typed
    BY ONLY <1>6, <1>7
  <2>3. Cardinality(Q \union Slot) = Cardinality(Q) + Cardinality(Slot)
    BY ONLY <1>10, <1>12, <2>1
  <2> QED
    BY ONLY <1>11, <1>12, <2>1, <2>2, <2>3
<1>15. Len(queued) + Cardinality(Slot) + Cardinality(spent) = typed
  BY <1>5, <1>14 DEF Q
<1>16. Members(queued) \union Slot \union spent = 1 .. typed
  BY <1>7 DEF Q
<1> QED
  BY <1>4, <1>15, <1>16 DEF InputConserved, Increasing, Slot, queued

(* No typed character is lost, repeated or reordered between writeCPUQ and *)
(* the 6502, whichever of RP_GETCHAR and console.read takes it and however *)
(* resets fall, and what waits is in the order it was typed.               *)
THEOREM NoCharacterLost == Spec => []InputConserved
<1>1. Init => TypeInv /\ ControlInv /\ AnswerInv /\ InputInv
  BY InitTypeInv, InitControlInv, InitAnswerInv, InitInputInv
<1>2. /\ TypeInv /\ ControlInv /\ AnswerInv /\ InputInv /\ [Next]_vars
      => TypeInv' /\ ControlInv' /\ AnswerInv' /\ InputInv'
  BY StepTypeInv, StepControlInv, StepAnswerInv, StepPlacesInv, StepCountedInv DEF InputInv
<1>3. TypeInv /\ InputInv => InputConserved
  BY PlacesConserve DEF InputInv
<1> QED
  BY <1>1, <1>2, <1>3, PTL DEF Spec
=============================================================================
