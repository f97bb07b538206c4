---------------------------- MODULE BoundedQueue ----------------------------
(***************************************************************************)
(* What FIFO<T, SIZE> of fifo.h promises its users: a first-in first-out   *)
(* queue of at most Capacity elements.  push and unpop refuse when it is   *)
(* full, pop and unpush refuse when it is empty, clear forgets everything. *)
(* A refused call changes nothing, so it is a stuttering step here.        *)
(***************************************************************************)
EXTENDS Naturals, Sequences

CONSTANTS
  Data,      \* the element type T
  Capacity   \* FIFO::capacity

VARIABLES
  q,   \* the elements, oldest first
  out  \* the reference argument that pop last assigned

vars == <<q, out>>

TypeOK ==
  /\ q \in Seq(Data)
  /\ Len(q) <= Capacity
  /\ out \in Data

Init ==
  /\ q = <<>>
  /\ out \in Data

Push(v) ==
  /\ Len(q) < Capacity
  /\ q' = Append(q, v)
  /\ UNCHANGED out

Pop ==
  /\ q # <<>>
  /\ out' = Head(q)
  /\ q' = Tail(q)

Unpush ==
  /\ q # <<>>
  /\ q' = SubSeq(q, 1, Len(q) - 1)
  /\ UNCHANGED out

Unpop(v) ==
  /\ Len(q) < Capacity
  /\ q' = <<v>> \o q
  /\ UNCHANGED out

Clear ==
  /\ q' = <<>>
  /\ UNCHANGED out

Next ==
  \/ \E v \in Data : Push(v) \/ Unpop(v)
  \/ Pop
  \/ Unpush
  \/ Clear

Spec == Init /\ [][Next]_vars
=============================================================================
