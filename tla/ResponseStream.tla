----------------------------- MODULE ResponseStream -----------------------------
(***************************************************************************)
(* What the tunnel promises its callers, without tunnel, channels or       *)
(* daemon: every call has an answer of its own that an upstream produces   *)
(* frame by frame; the caller receives frames of that answer only, in      *)
(* order, each at most once, starting with the first, and none after it    *)
(* returned.  Frames may be missing: the promise is best effort.           *)
(***************************************************************************)
EXTENDS Integers, Sequences

CONSTANT Requests

VARIABLES
  produced,   \* number of frames the upstream has produced for each call
  delivered,  \* the frames the caller received, as <<call, position>>
  ended       \* the calls that have returned

vars == <<produced, delivered, ended>>

Init ==
  /\ produced = [r \in Requests |-> 0]
  /\ delivered = [r \in Requests |-> <<>>]
  /\ ended = [r \in Requests |-> FALSE]

\* The position of the last frame received, 0 at first.
LastOf(r) == IF delivered[r] = <<>> THEN 0 ELSE delivered[r][Len(delivered[r])][2]

Produce(r) ==
  /\ produced' = [produced EXCEPT ![r] = @ + 1]
  /\ UNCHANGED <<delivered, ended>>

\* A frame not received yet reaches the caller, which may return with it.
Deliver(r) ==
  /\ ~ended[r]
  /\ \E n \in (LastOf(r) + 1)..produced[r] :
       /\ delivered[r] = <<>> => n = 1
       /\ delivered' = [delivered EXCEPT ![r] = Append(@, <<r, n>>)]
  /\ \E e \in BOOLEAN : ended' = [ended EXCEPT ![r] = e]
  /\ UNCHANGED produced

End(r) ==
  /\ ~ended[r]
  /\ ended' = [ended EXCEPT ![r] = TRUE]
  /\ UNCHANGED <<produced, delivered>>

Next == \E r \in Requests : Produce(r) \/ Deliver(r) \/ End(r)

Spec == Init /\ [][Next]_vars
=============================================================================
