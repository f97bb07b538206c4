-------------------------------- MODULE Fifo --------------------------------
(***************************************************************************)
(* The ring buffer FIFO<T, SIZE> of fifo.h, which carries every byte       *)
(* between the keyboard, the 6502 and the display (input.cpp).             *)
(*                                                                         *)
(* fifo.h is written "for single producer/single consumer use": push only  *)
(* moves head and pop only moves tail.  push and pop are therefore two     *)
(* steps each here, the store or load of the slot and the publication of   *)
(* the index, and a push may overlap a pop.  clear, unpush and unpop move  *)
(* the other side's index; they are calls of a FIFO nobody else is using.  *)
(***************************************************************************)
EXTENDS Integers, Sequences

CONSTANTS
  Data,  \* the element type T
  SIZE   \* the number of slots; a power of two in the code

ASSUME SizeAssumption == SIZE \in Nat /\ SIZE >= 2

VARIABLES
  head,    \* the slot the next push fills
  tail,    \* the slot the next pop empties
  buffer,  \* the slots
  out,     \* the reference argument of pop
  prod,    \* the producer's position inside push
  cons     \* the consumer's position inside pop

vars == <<head, tail, buffer, out, prod, cons>>

Slots == 0 .. SIZE - 1

(* A mask that is not SIZE - 1. *)
MutantWrap(x) == x % (SIZE + 1)

(* "& MASK" of a power of two: the remainder, also of head - 1 with head = 0. *)
Wrap(x) == x % SIZE

isEmpty == head = tail

count == Wrap(head - tail)

capacity == SIZE - 1

(* A ring that may fill its last slot makes full look like empty. *)
MutantIsFull == head + 1 = tail

isFull == Wrap(head + 1) = tail

TypeOK ==
  /\ head \in Slots
  /\ tail \in Slots
  /\ buffer \in [Slots -> Data]
  /\ out \in Data
  /\ prod \in {"idle", "stored"}
  /\ cons \in {"idle", "taken"}

(* head = tail = 0; the slots start with whatever memory holds. *)
Init ==
  /\ head = 0
  /\ tail = 0
  /\ buffer \in [Slots -> Data]
  /\ out \in Data
  /\ prod = "idle"
  /\ cons = "idle"

(* push, up to buffer[h] = value; a full FIFO returns false. *)
PushStore(v) ==
  /\ prod = "idle"
  /\ ~isFull
  /\ buffer' = [buffer EXCEPT ![head] = v]
  /\ prod' = "stored"
  /\ UNCHANGED <<head, tail, out, cons>>

(* The rest of push: head = next makes the element visible. *)
PushPublish ==
  /\ prod = "stored"
  /\ head' = Wrap(head + 1)
  /\ prod' = "idle"
  /\ UNCHANGED <<tail, buffer, out, cons>>

(* pop, up to value = buffer[t]; an empty FIFO returns false. *)
MutantPopLoad ==
  /\ cons = "idle"
  /\ ~isFull
  /\ out' = buffer[tail]
  /\ cons' = "taken"
  /\ UNCHANGED <<head, tail, buffer, prod>>

PopLoad ==
  /\ cons = "idle"
  /\ ~isEmpty
  /\ out' = buffer[tail]
  /\ cons' = "taken"
  /\ UNCHANGED <<head, tail, buffer, prod>>

(* The rest of pop: the slot is given back to the producer. *)
PopPublish ==
  /\ cons = "taken"
  /\ tail' = Wrap(tail + 1)
  /\ cons' = "idle"
  /\ UNCHANGED <<head, buffer, out, prod>>

Quiescent == prod = "idle" /\ cons = "idle"

unpush ==
  /\ Quiescent
  /\ ~isEmpty
  /\ head' = Wrap(head - 1)
  /\ UNCHANGED <<tail, buffer, out, prod, cons>>

unpop(v) ==
  /\ Quiescent
  /\ Wrap(tail - 1) # head
  /\ tail' = Wrap(tail - 1)
  /\ buffer' = [buffer EXCEPT ![tail'] = v]
  /\ UNCHANGED <<head, out, prod, cons>>

clear ==
  /\ Quiescent
  /\ head' = 0
  /\ tail' = 0
  /\ UNCHANGED <<buffer, out, prod, cons>>

Producer == PushPublish \/ \E v \in Data : PushStore(v)

Consumer == PopLoad \/ PopPublish

Next ==
  \/ Producer
  \/ Consumer
  \/ unpush
  \/ \E v \in Data : unpop(v)
  \/ clear

Spec == Init /\ [][Next]_vars

-----------------------------------------------------------------------------
(* The elements a user still expects: those published by push and not yet  *)
(* copied out by pop, oldest first.                                        *)
Taken == IF cons = "taken" THEN 1 ELSE 0

contents == [i \in 1 .. count - Taken |-> buffer[Wrap(tail + Taken + i - 1)]]

Queue == INSTANCE BoundedQueue
           WITH Capacity <- capacity, q <- contents

(* The ring buffer is the bounded queue, although pushes overlap pops.     *)
ImplementsQueue == Queue!Spec

(* Single producer, single consumer (fifo.h:28): an element being copied   *)
(* out is never the slot being filled, and neither side's check, made at   *)
(* its first step, is stale when it publishes.                             *)
NoSlotRace ==
  /\ prod = "stored" => ~isFull
  /\ cons = "taken" => ~isEmpty /\ out = buffer[tail]
  /\ prod = "stored" /\ cons = "taken" => head # tail
=============================================================================
