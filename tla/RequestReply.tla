---------------------------- MODULE RequestReply ----------------------------
(***************************************************************************)
(* What the ABI v2 mailbox promises the 6502: a request is answered once,  *)
(* with an answer that is valid for it, and the answer stays as it is      *)
(* until the 6502 has taken it.  A machine reset forgets the request.      *)
(***************************************************************************)
CONSTANTS
  Requests,   \* what the 6502 may ask
  Answers,    \* Answers[r]: the answers that fit request r
  NoRequest,  \* the value of request while there is none
  NoAnswer    \* the value of answer while there is none

VARIABLES
  state,    \* "idle", "asked" or "answered"
  request,
  answer

vars == <<state, request, answer>>

Init ==
  /\ state = "idle"
  /\ request = NoRequest
  /\ answer = NoAnswer

Submit(r) ==
  /\ state = "idle"
  /\ state' = "asked"
  /\ request' = r
  /\ UNCHANGED answer

Serve ==
  /\ state = "asked"
  /\ state' = "answered"
  /\ answer' \in Answers[request]
  /\ UNCHANGED request

Collect ==
  /\ state = "answered"
  /\ state' = "idle"
  /\ request' = NoRequest
  /\ answer' = NoAnswer

Reset ==
  /\ state' = "idle"
  /\ request' = NoRequest
  /\ answer' = NoAnswer

Next ==
  \/ \E r \in Requests : Submit(r)
  \/ Serve
  \/ Collect
  \/ Reset

Spec == Init /\ [][Next]_vars
=============================================================================
