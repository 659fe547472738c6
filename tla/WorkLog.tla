------------------------------ MODULE WorkLog ------------------------------
(***************************************************************************)
(* The work items of one topic, as a materialised view presents them.      *)
(*                                                                         *)
(* The fold lives in soulstream-core, outside this repository; it is       *)
(* modelled from how the code here uses it (fleet.TryPlace, fleet.Sweep,   *)
(* dispatcher.race):  the first claim in stream order on an open item      *)
(* wins, every other claim is void and changes nothing, and an abandon     *)
(* reopens a claimed item WHOEVER publishes it and whichever claim it was  *)
(* meant for.  Ops are applied one at a time: the stream is the arbiter.   *)
(*                                                                         *)
(* aged says that the standing claim is older than the reclaim bound, the  *)
(* only thing the code reads of the claim's timestamp.                     *)
(***************************************************************************)
CONSTANTS
  Node,   \* personas that publish work ops
  None    \* "no owner"

ASSUME NoneIsNoNode == None \notin Node

AbsentItem == [status |-> "absent", owner |-> None, aged |-> FALSE]

OpenItem == [status |-> "open", owner |-> None, aged |-> FALSE]

\* An item has an owner exactly while it is claimed.
Item == {AbsentItem, OpenItem}
        \cup [status : {"claimed"}, owner : Node, aged : BOOLEAN]

ClaimedBy(n) == [status |-> "claimed", owner |-> n, aged |-> FALSE]

\* The item after a claim by n lands: void unless the item is open.
AfterClaim(it, n) == IF it.status = "open" THEN ClaimedBy(n) ELSE it

\* The item after an abandon lands: whoever sent it, a claimed item reopens.
AfterAbandon(it) == IF it.status = "claimed" THEN OpenItem ELSE it

\* The standing claim crosses the reclaim bound.
Older(it) == [it EXCEPT !.aged = TRUE]

=============================================================================
