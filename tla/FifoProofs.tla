----------------------------- MODULE FifoProofs -----------------------------
(***************************************************************************)
(* Proofs about Fifo for every SIZE >= 2 and every element type: types,    *)
(* the absence of slot races, and the refinement of BoundedQueue.          *)
(***************************************************************************)
EXTENDS Fifo, SequenceTheorems, TLAPS

(* Stepping an index forward by one stays in the ring and wraps only at    *)
(* the last slot: next = (h + 1) & MASK of push and pop.                   *)
LEMMA WrapUp ==
  ASSUME NEW x \in Slots
  PROVE  Wrap(x + 1) = IF x = SIZE - 1 THEN 0 ELSE x + 1
BY SizeAssumption, Z3 DEF Wrap, Slots

(* Stepping an index back by one: (head - 1) & MASK of unpush and unpop.   *)
LEMMA WrapDown ==
  ASSUME NEW x \in Slots
  PROVE  Wrap(x - 1) = IF x = 0 THEN SIZE - 1 ELSE x - 1
BY SizeAssumption, Z3 DEF Wrap, Slots

(* Any index less than two turns ahead: the slot of the i-th element.      *)
LEMMA WrapAhead ==
  ASSUME NEW x \in 0 .. 2 * SIZE - 1
  PROVE  Wrap(x) = IF x < SIZE THEN x ELSE x - SIZE
BY SizeAssumption, Z3 DEF Wrap

(* count() of fifo.h in terms of the two indices.                          *)
LEMMA WrapDiff ==
  ASSUME NEW x \in Slots, NEW y \in Slots
  PROVE  Wrap(x - y) = IF x >= y THEN x - y ELSE x - y + SIZE
BY SizeAssumption, Z3 DEF Wrap, Slots

-----------------------------------------------------------------------------
(* Types and races together are inductive: the slot just stored or loaded  *)
(* keeps full and empty from changing under the other side's feet.         *)
IInv == TypeOK /\ NoSlotRace

LEMMA InitIInv == Init => IInv
BY SizeAssumption DEF Init, IInv, TypeOK, NoSlotRace, Slots

LEMMA StepIInv == IInv /\ [Next]_vars => IInv'
<1> SUFFICES ASSUME IInv, [Next]_vars
             PROVE  IInv'
  OBVIOUS
<1> USE SizeAssumption, WrapUp, WrapDown
    DEF IInv, TypeOK, NoSlotRace, isFull, isEmpty, Slots
<1>1. ASSUME NEW v \in Data, PushStore(v)
      PROVE  IInv'
  BY <1>1 DEF PushStore
<1>2. CASE PushPublish
  BY <1>2 DEF PushPublish
<1>3. CASE PopLoad
  BY <1>3 DEF PopLoad
<1>4. CASE PopPublish
  BY <1>4 DEF PopPublish
<1>5. CASE unpush
  BY <1>5 DEF unpush, Quiescent
<1>6. ASSUME NEW v \in Data, unpop(v)
      PROVE  IInv'
  BY <1>6 DEF unpop, Quiescent
<1>7. CASE clear
  BY <1>7 DEF clear, Quiescent
<1>8. CASE UNCHANGED vars
  BY <1>8 DEF vars
<1> QED
  BY <1>1, <1>2, <1>3, <1>4, <1>5, <1>6, <1>7, <1>8
     DEF Next, Producer, Consumer

(* An element is never overwritten while it is being copied out, whatever  *)
(* the size of the ring (fifo.h:28, single producer, single consumer).     *)
THEOREM SlotsNeverRace == Spec => [](TypeOK /\ NoSlotRace)
<1>1. IInv => TypeOK /\ NoSlotRace
  BY DEF IInv
<1> QED
  BY InitIInv, StepIInv, <1>1, PTL DEF Spec

-----------------------------------------------------------------------------
(* A function on 1 .. n is a sequence of length n.                         *)
LEMMA FunctionIsSequence ==
  ASSUME NEW S, NEW n \in Nat, NEW f \in [1 .. n -> S]
  PROVE  f \in Seq(S) /\ Len(f) = n
OBVIOUS

(* The mapped queue: its length, and where its i-th element lies.          *)
Numbers ==
  /\ SIZE \in Nat /\ SIZE >= 2
  /\ head \in 0 .. SIZE - 1
  /\ tail \in 0 .. SIZE - 1
  /\ count = IF head >= tail THEN head - tail ELSE head - tail + SIZE
  /\ Taken \in {0, 1}
  /\ Taken = 1 => head # tail
  /\ count \in 0 .. SIZE - 1
  /\ count - Taken \in 0 .. SIZE - 1

Elements ==
  /\ contents \in Seq(Data)
  /\ Len(contents) = count - Taken
  /\ \A i \in 1 .. count - Taken :
       /\ contents[i] = buffer[Wrap(tail + Taken + i - 1)]
       /\ Wrap(tail + Taken + i - 1) \in Slots
       /\ Wrap(tail + Taken + i - 1) =
            IF tail + Taken + i - 1 < SIZE
            THEN tail + Taken + i - 1
            ELSE tail + Taken + i - 1 - SIZE

Shape == Numbers /\ Elements

LEMMA ContentsShape == IInv => Shape
<1> SUFFICES ASSUME IInv PROVE Shape
  OBVIOUS
<1> USE SizeAssumption DEF IInv, TypeOK, Slots
<1>1. count = IF head >= tail THEN head - tail ELSE head - tail + SIZE
  BY WrapDiff DEF count
<1>2. Taken \in {0, 1} /\ (Taken = 1 => head # tail)
  BY DEF Taken, NoSlotRace, isEmpty
<1>3. count \in 0 .. SIZE - 1 /\ count - Taken \in 0 .. SIZE - 1
  BY <1>1, <1>2
<1>4. ASSUME NEW i \in 1 .. count - Taken
      PROVE  /\ Wrap(tail + Taken + i - 1) =
                  IF tail + Taken + i - 1 < SIZE
                  THEN tail + Taken + i - 1
                  ELSE tail + Taken + i - 1 - SIZE
             /\ Wrap(tail + Taken + i - 1) \in Slots
  <2>1. tail + Taken + i - 1 \in 0 .. 2 * SIZE - 1
    BY <1>2, <1>3
  <2>2. tail \in Int /\ Taken \in Int /\ i \in Int
    BY <1>2, <1>3
  <2> QED
    BY <2>1, <2>2, WrapAhead
<1>5. contents \in [1 .. count - Taken -> Data]
  BY <1>4 DEF contents
<1>6. contents \in Seq(Data) /\ Len(contents) = count - Taken
  BY <1>3, <1>5, FunctionIsSequence
<1>7. \A i \in 1 .. count - Taken : contents[i] = buffer[Wrap(tail + Taken + i - 1)]
  BY DEF contents
<1> QED
  BY <1>1, <1>2, <1>3, <1>4, <1>6, <1>7 DEF Shape, Numbers, Elements

(* The same of the state after a step.                                     *)
LEMMA ContentsShapeNext == IInv' => Shape'
BY ContentsShape, PTL

(* A step that leaves every live slot alone leaves the queue alone.        *)
LEMMA SameContents ==
  ASSUME Elements, Elements', count' - Taken' = count - Taken,
         \A i \in 1 .. count - Taken : contents'[i] = contents[i]
  PROVE  contents' = contents
BY SeqEqual DEF Elements

(* The slot being filled is not one of the queue's.                        *)
LEMMA LiveSlotNotHead ==
  ASSUME Shape, NEW i \in 1 .. count - Taken
  PROVE  Wrap(tail + Taken + i - 1) # head
<1> DEFINE w == Wrap(tail + Taken + i - 1)
           t == Taken
           c == count
<1>1. /\ c = IF head >= tail THEN head - tail ELSE head - tail + SIZE
      /\ t \in {0, 1}
      /\ c \in 0 .. SIZE - 1
      /\ w = IF tail + t + i - 1 < SIZE THEN tail + t + i - 1 ELSE tail + t + i - 1 - SIZE
      /\ i \in 1 .. c - t
      /\ head \in 0 .. SIZE - 1 /\ tail \in 0 .. SIZE - 1 /\ SIZE \in Nat
  BY DEF Shape, Numbers, Elements
<1> HIDE DEF w, t, c
<1>2. w # head
  BY <1>1
<1> QED
  BY <1>2 DEF w

-----------------------------------------------------------------------------
(* Each action of the ring is one action of the queue, or none.            *)
LEMMA PushStoreRefines ==
  ASSUME IInv, IInv', NEW v \in Data, PushStore(v)
  PROVE  UNCHANGED Queue!vars
<1>1. Shape /\ Shape'
  BY ContentsShape, ContentsShapeNext
<1>2. count' = count /\ Taken' = Taken
  BY DEF PushStore, count, Taken
<1>3. ASSUME NEW i \in 1 .. count - Taken
      PROVE  contents'[i] = contents[i]
  <2>1. Wrap(tail + Taken + i - 1) # head
    BY <1>1, LiveSlotNotHead
  <2>2. contents'[i] = buffer'[Wrap(tail + Taken + i - 1)]
    BY <1>1, <1>2 DEF Shape, Elements, PushStore
  <2> QED
    BY <1>1, <2>1, <2>2 DEF PushStore, Shape, Elements, IInv, TypeOK
<1> QED
  BY <1>1, <1>2, <1>3, SameContents DEF PushStore, Queue!vars, Shape

LEMMA PushPublishRefines ==
  ASSUME IInv, IInv', PushPublish
  PROVE  Queue!Push(buffer[head])
<1>1. Shape /\ Shape'
  BY ContentsShape, ContentsShapeNext
<1>2. ~isFull /\ buffer[head] \in Data
  BY DEF PushPublish, IInv, TypeOK, NoSlotRace
<1>3. /\ head' = IF head = SIZE - 1 THEN 0 ELSE head + 1
      /\ head' # tail
      /\ UNCHANGED <<tail, buffer, out, Taken>>
  BY <1>2, WrapUp DEF PushPublish, IInv, TypeOK, isFull, Taken
<1>4. count' = count + 1
  BY <1>1, <1>3 DEF Shape, Numbers
<1>5. Len(contents) < capacity
  BY <1>1, <1>3, <1>4 DEF Shape, Numbers, Elements, capacity
<1> DEFINE longer == Append(contents, buffer[head])
           n == count - Taken
<1>6. /\ n \in Nat /\ Len(contents) = n /\ contents \in Seq(Data)
      /\ contents' \in Seq(Data) /\ Len(contents') = n + 1
  BY <1>1, <1>3, <1>4 DEF Shape, Numbers, Elements
<1>7. /\ longer \in Seq(Data)
      /\ Len(longer) = n + 1
      /\ \A i \in 1 .. n : longer[i] = contents[i]
      /\ longer[n + 1] = buffer[head]
  BY <1>2, <1>6, AppendProperties
<1>8. ASSUME NEW i \in 1 .. n
      PROVE  contents'[i] = contents[i]
  <2>1. i \in 1 .. count' - Taken'
    BY <1>1, <1>3, <1>4 DEF Shape, Numbers
  <2> QED
    BY <1>1, <1>3, <2>1 DEF Shape, Elements
<1>9. contents'[n + 1] = buffer[head]
  <2>1. /\ n + 1 \in 1 .. count' - Taken'
        /\ tail' + Taken' + (n + 1) - 1 = tail + count
    BY <1>1, <1>3, <1>4 DEF Shape, Numbers
  <2> DEFINE k == n + 1
             e == tail + count
  <2>2. k \in 1 .. count' - Taken' /\ tail' + Taken' + k - 1 = e
    BY <2>1
  <2>3. e \in 0 .. 2 * SIZE - 1 /\ (head = IF e < SIZE THEN e ELSE e - SIZE)
    BY <1>1, <1>3, <1>4 DEF Shape, Numbers
  <2> HIDE DEF k, e
  <2>4. contents'[k] = buffer'[Wrap(e)]
    BY <1>1, <2>2 DEF Shape, Elements
  <2>5. Wrap(e) = head
    BY <2>3, WrapAhead
  <2>6. contents'[k] = buffer[head]
    BY <1>3, <2>4, <2>5
  <2> QED
    BY <2>6 DEF k
<1> HIDE DEF longer, n
<1>10. contents' = longer
  <2>1. \A i \in 1 .. n + 1 : contents'[i] = longer[i]
    BY <1>6, <1>7, <1>8, <1>9
  <2> QED
    BY <1>6, <1>7, <2>1, SeqEqual
<1> QED
  BY <1>3, <1>5, <1>10 DEF Queue!Push, longer

LEMMA PopLoadRefines ==
  ASSUME IInv, IInv', PopLoad
  PROVE  Queue!Pop
<1>1. Shape /\ Shape'
  BY ContentsShape, ContentsShapeNext
<1>2. /\ Taken = 0 /\ Taken' = 1 /\ head # tail
      /\ UNCHANGED <<head, tail, buffer, count>>
      /\ out' = buffer[tail]
  BY DEF PopLoad, Taken, isEmpty, count
<1> DEFINE n == count
<1>3. n \in Nat /\ n >= 1 /\ count - Taken = n /\ count' - Taken' = n - 1
  BY <1>1, <1>2 DEF Shape, Numbers
<1> HIDE DEF n
<1>4. /\ contents \in Seq(Data) /\ Len(contents) = n
      /\ contents' \in Seq(Data) /\ Len(contents') = n - 1
  BY <1>1, <1>3 DEF Shape, Elements
<1>5. contents # <<>>
  BY <1>3, <1>4
<1>6. Head(contents) = buffer[tail]
  <2>1. 1 \in 1 .. count - Taken /\ tail + Taken + 1 - 1 = tail
    BY <1>1, <1>2, <1>3 DEF Shape, Numbers
  <2>2. contents[1] = buffer[Wrap(tail)]
    BY <1>1, <2>1 DEF Shape, Elements
  <2>3. Wrap(tail) = tail
    BY <1>1, WrapAhead DEF Shape, Numbers
  <2> QED
    BY <1>4, <1>5, <2>2, <2>3
<1>7. ASSUME NEW i \in 1 .. n - 1
      PROVE  contents'[i] = Tail(contents)[i]
  <2>1. /\ i \in 1 .. count' - Taken' /\ i + 1 \in 1 .. count - Taken
        /\ tail' + Taken' + i - 1 = tail + Taken + (i + 1) - 1
    BY <1>1, <1>2, <1>3 DEF Shape, Numbers
  <2> DEFINE k == i + 1
             e == tail + Taken + k - 1
  <2>2. k \in 1 .. count - Taken /\ tail' + Taken' + i - 1 = e
    BY <2>1
  <2>3. contents[k] = buffer[Wrap(e)]
    BY <1>1, <2>2 DEF Shape, Elements
  <2> HIDE DEF e
  <2>4. contents'[i] = buffer'[Wrap(e)]
    BY <1>1, <2>1, <2>2 DEF Shape, Elements
  <2> QED
    BY <1>2, <1>3, <1>4, <1>5, <2>3, <2>4, HeadTailProperties
<1>8. contents' = Tail(contents)
  <2>1. Tail(contents) \in Seq(Data) /\ Len(Tail(contents)) = n - 1
    BY <1>4, <1>5, HeadTailProperties
  <2> QED
    BY <1>4, <1>7, <2>1, SeqEqual
<1> QED
  BY <1>2, <1>5, <1>6, <1>8 DEF Queue!Pop

LEMMA PopPublishRefines ==
  ASSUME IInv, IInv', PopPublish
  PROVE  UNCHANGED Queue!vars
<1>1. Shape /\ Shape'
  BY ContentsShape, ContentsShapeNext
<1>2. /\ Taken = 1 /\ Taken' = 0 /\ head # tail
      /\ tail' = IF tail = SIZE - 1 THEN 0 ELSE tail + 1
      /\ UNCHANGED <<head, buffer, out>>
  BY <1>1, WrapUp DEF PopPublish, Taken, Shape, Numbers, Slots
<1>3. count' = count - 1 /\ count' - Taken' = count - Taken
  BY <1>1, <1>2 DEF Shape, Numbers
<1>4. ASSUME NEW i \in 1 .. count - Taken
      PROVE  contents'[i] = contents[i]
  <2> DEFINE x == Wrap(tail + Taken + i - 1)
             y == Wrap(tail' + Taken' + i - 1)
  <2>1. /\ x = IF tail + Taken + i - 1 < SIZE
               THEN tail + Taken + i - 1 ELSE tail + Taken + i - 1 - SIZE
        /\ contents[i] = buffer[x]
    BY <1>1 DEF Shape, Elements
  <2>2. /\ y = IF tail' + Taken' + i - 1 < SIZE
               THEN tail' + Taken' + i - 1 ELSE tail' + Taken' + i - 1 - SIZE
        /\ contents'[i] = buffer'[y]
    BY <1>1, <1>3 DEF Shape, Elements
  <2> HIDE DEF x, y
  <2>3. x = y
    BY <1>1, <1>2, <1>3, <2>1, <2>2 DEF Shape, Numbers
  <2> QED
    BY <1>2, <2>1, <2>2, <2>3
<1> QED
  BY <1>1, <1>2, <1>3, <1>4, SameContents DEF Queue!vars, Shape

LEMMA unpushRefines ==
  ASSUME IInv, IInv', unpush
  PROVE  Queue!Unpush
<1>1. Shape /\ Shape'
  BY ContentsShape, ContentsShapeNext
<1>2. /\ Taken = 0 /\ Taken' = 0 /\ head # tail
      /\ head' = IF head = 0 THEN SIZE - 1 ELSE head - 1
      /\ UNCHANGED <<tail, buffer, out>>
  BY <1>1, WrapDown DEF unpush, Quiescent, Taken, isEmpty, Shape, Numbers, Slots
<1> DEFINE n == count
<1>3. /\ n \in Nat /\ n >= 1 /\ count - Taken = n /\ count' - Taken' = n - 1
  BY <1>1, <1>2 DEF Shape, Numbers
<1> HIDE DEF n
<1>4. /\ contents \in Seq(Data) /\ Len(contents) = n
      /\ contents' \in Seq(Data) /\ Len(contents') = n - 1
  BY <1>1, <1>3 DEF Shape, Elements
<1>5. ASSUME NEW i \in 1 .. n - 1
      PROVE  contents'[i] = contents[i]
  <2>1. i \in 1 .. count' - Taken' /\ i \in 1 .. count - Taken
    BY <1>3
  <2>2. contents[i] = buffer[Wrap(tail + Taken + i - 1)]
    BY <1>1, <2>1 DEF Shape, Elements
  <2>3. contents'[i] = buffer'[Wrap(tail' + Taken' + i - 1)]
    BY <1>1, <2>1 DEF Shape, Elements
  <2> QED
    BY <1>2, <2>2, <2>3
<1>6. contents' = SubSeq(contents, 1, n - 1)
  <2>1. /\ SubSeq(contents, 1, n - 1) \in Seq(Data)
        /\ Len(SubSeq(contents, 1, n - 1)) = n - 1
        /\ \A i \in 1 .. n - 1 : SubSeq(contents, 1, n - 1)[i] = contents[i]
    BY <1>3, <1>4
  <2> QED
    BY <1>4, <1>5, <2>1, SeqEqual
<1>7. contents # <<>>
  BY <1>3, <1>4
<1> QED
  BY <1>2, <1>4, <1>6, <1>7 DEF Queue!Unpush

LEMMA unpopRefines ==
  ASSUME IInv, IInv', NEW v \in Data, unpop(v)
  PROVE  Queue!Unpop(v)
<1>1. Shape /\ Shape'
  BY ContentsShape, ContentsShapeNext
<1>2. /\ Taken = 0 /\ Taken' = 0 /\ tail' # head
      /\ tail' = IF tail = 0 THEN SIZE - 1 ELSE tail - 1
      /\ buffer' = [buffer EXCEPT ![tail'] = v]
      /\ UNCHANGED <<head, out>>
  BY <1>1, WrapDown DEF unpop, Quiescent, Taken, Shape, Numbers, Slots
<1> DEFINE n == count
<1>3. /\ n \in Nat /\ n < SIZE - 1 /\ count - Taken = n /\ count' - Taken' = n + 1
  BY <1>1, <1>2 DEF Shape, Numbers
<1> HIDE DEF n
<1>4. /\ contents \in Seq(Data) /\ Len(contents) = n
      /\ contents' \in Seq(Data) /\ Len(contents') = n + 1
  BY <1>1, <1>3 DEF Shape, Elements
<1> DEFINE longer == <<v>> \o contents
<1>5. /\ longer \in Seq(Data) /\ Len(longer) = n + 1
      /\ longer[1] = v
      /\ \A i \in 2 .. n + 1 : longer[i] = contents[i - 1]
  BY <1>3, <1>4
<1> HIDE DEF longer
<1>6. contents'[1] = v
  <2>1. 1 \in 1 .. count' - Taken' /\ tail' + Taken' + 1 - 1 = tail' /\ tail' \in 0 .. SIZE - 1
    BY <1>1, <1>2, <1>3 DEF Shape, Numbers
  <2>2. contents'[1] = buffer'[Wrap(tail')]
    BY <1>1, <2>1 DEF Shape, Elements
  <2>3. Wrap(tail') = tail'
    BY <1>1, <2>1, WrapAhead DEF Shape, Numbers
  <2> QED
    BY <1>2, <2>1, <2>2, <2>3 DEF IInv, TypeOK, Slots
<1>7. ASSUME NEW i \in 2 .. n + 1
      PROVE  contents'[i] = contents[i - 1]
  <2> DEFINE j == i - 1
             x == Wrap(tail + Taken + j - 1)
             y == Wrap(tail' + Taken' + i - 1)
  <2>1. j \in 1 .. count - Taken /\ i \in 1 .. count' - Taken'
    BY <1>3
  <2>2. /\ x = IF tail + Taken + j - 1 < SIZE
               THEN tail + Taken + j - 1 ELSE tail + Taken + j - 1 - SIZE
        /\ x # head /\ x \in Slots
        /\ contents[j] = buffer[x]
    BY <1>1, <2>1, LiveSlotNotHead DEF Shape, Elements
  <2>3. /\ y = IF tail' + Taken' + i - 1 < SIZE
               THEN tail' + Taken' + i - 1 ELSE tail' + Taken' + i - 1 - SIZE
        /\ contents'[i] = buffer'[y]
    BY <1>1, <2>1 DEF Shape, Elements
  <2> HIDE DEF x, y
  <2>4. x = y /\ x # tail'
    BY <1>1, <1>2, <1>3, <2>1, <2>2, <2>3 DEF Shape, Numbers
  <2> QED
    BY <1>2, <2>2, <2>3, <2>4 DEF IInv, TypeOK
<1>8. contents' = longer
  <2>1. \A i \in 1 .. n + 1 : contents'[i] = longer[i]
    BY <1>3, <1>5, <1>6, <1>7
  <2> QED
    BY <1>4, <1>5, <2>1, SeqEqual
<1>9. Len(contents) < capacity
  BY <1>3, <1>4 DEF capacity
<1> QED
  BY <1>2, <1>8, <1>9 DEF Queue!Unpop, longer

LEMMA EmptyRing == IInv /\ head = tail => contents = <<>>
<1> SUFFICES ASSUME IInv, head = tail PROVE contents = <<>>
  OBVIOUS
<1> QED
  BY ContentsShape DEF Shape, Numbers, Elements

LEMMA EmptyRingNext == IInv' /\ head' = tail' => contents' = <<>>
<1> SUFFICES ASSUME IInv', head' = tail' PROVE contents' = <<>>
  OBVIOUS
<1> QED
  BY ContentsShapeNext DEF Shape, Numbers, Elements

LEMMA clearRefines ==
  ASSUME IInv', clear
  PROVE  Queue!Clear
BY EmptyRingNext DEF clear, Queue!Clear

LEMMA InitRefines == Init => Queue!Init
BY InitIInv, EmptyRing DEF Init, Queue!Init

LEMMA StepRefines == IInv /\ IInv' /\ [Next]_vars => [Queue!Next]_Queue!vars
<1> SUFFICES ASSUME IInv, IInv', [Next]_vars
             PROVE  [Queue!Next]_Queue!vars
  OBVIOUS
<1>1. ASSUME NEW v \in Data, PushStore(v)
      PROVE  UNCHANGED Queue!vars
  BY <1>1, PushStoreRefines
<1>2. ASSUME PushPublish
      PROVE  Queue!Next
  <2>1. buffer[head] \in Data
    BY DEF IInv, TypeOK
  <2> QED
    BY <1>2, <2>1, PushPublishRefines DEF Queue!Next
<1>3. ASSUME PopLoad
      PROVE  Queue!Next
  BY <1>3, PopLoadRefines DEF Queue!Next
<1>4. ASSUME PopPublish
      PROVE  UNCHANGED Queue!vars
  BY <1>4, PopPublishRefines
<1>5. ASSUME unpush
      PROVE  Queue!Next
  BY <1>5, unpushRefines DEF Queue!Next
<1>6. ASSUME NEW v \in Data, unpop(v)
      PROVE  Queue!Next
  BY <1>6, unpopRefines DEF Queue!Next
<1>7. ASSUME clear
      PROVE  Queue!Next
  BY <1>7, clearRefines DEF Queue!Next
<1>8. ASSUME UNCHANGED vars
      PROVE  UNCHANGED Queue!vars
  <2>1. UNCHANGED <<count, Taken, out>> /\ tail' = tail /\ buffer' = buffer
    BY <1>8 DEF vars, count, Taken
  <2> QED
    BY <2>1 DEF Queue!vars, contents
<1> QED
  BY <1>1, <1>2, <1>3, <1>4, <1>5, <1>6, <1>7, <1>8
     DEF Next, Producer, Consumer

(* For every size and element type the ring buffer of fifo.h is the        *)
(* bounded first-in first-out queue of capacity() = SIZE - 1 elements,     *)
(* whatever the overlap of the producer's push with the consumer's pop.    *)
THEOREM RingImplementsQueue == Spec => ImplementsQueue
BY InitIInv, StepIInv, InitRefines, StepRefines, PTL
   DEF Spec, ImplementsQueue, Queue!Spec
=============================================================================
