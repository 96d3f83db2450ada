---------------------------- MODULE FrameChannel ----------------------------
(***************************************************************************)
(* What the frame parsers promise: a channel that may lose frames, and     *)
(* hands on those it does not lose whole, once each and in the order the   *)
(* device finished them.  FrameAssembly implements it.                     *)
(***************************************************************************)
EXTENDS Naturals, Sequences

VARIABLES
  produced,  \* frames the device has finished
  delivered  \* the frames handed on

vars == <<produced, delivered>>

Newest == IF delivered = <<>> THEN 0 ELSE delivered[Len(delivered)]

Init == produced = 0 /\ delivered = <<>>

Produce ==
  /\ produced' = produced + 1
  /\ UNCHANGED delivered

Deliver ==
  /\ \E f \in (Newest + 1) .. produced : delivered' = Append(delivered, f)
  /\ UNCHANGED produced

Next == Produce \/ Deliver
Spec == Init /\ [][Next]_vars
=============================================================================
