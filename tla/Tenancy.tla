------------------------------ MODULE Tenancy ------------------------------
(***************************************************************************)
(* What the placement plane promises, with no views, probes or passes: who *)
(* holds a placement on the record and which nodes host an engine for it.  *)
(* A node becomes a host only while it holds the placement or has been     *)
(* deposed from it, and every loss of a claim is a deposition by a peer or *)
(* the holder's own doing.  A node that loses hold of what it hosts leaves *)
(* a stray behind: it runs, and nobody on the plane can stop it or need    *)
(* have a title to it.  The holder gives back a claim only when it hosts   *)
(* nothing on it, but its stray may well run on.                           *)
(***************************************************************************)
CONSTANTS Node, Placement, None

VARIABLES
  offered,   \* placements submitted so far
  holder,    \* the node whose claim stands, or None
  deposed,   \* nodes whose claim a peer took away and that may not know yet
  hosts,     \* nodes with an engine for the placement, and a hold on it
  strays     \* nodes with an engine for it that nobody has a hold on

tenancyVars == <<offered, holder, deposed, hosts, strays>>

Init ==
  /\ offered = {}
  /\ holder = [p \in Placement |-> None]
  /\ deposed = [p \in Placement |-> {}]
  /\ hosts = [p \in Placement |-> {}]
  /\ strays = [p \in Placement |-> {}]

Offer(p) ==
  /\ p \notin offered
  /\ offered' = offered \cup {p}
  /\ UNCHANGED <<holder, deposed, hosts, strays>>

Win(n, p) ==
  /\ p \in offered
  /\ holder[p] = None
  /\ holder' = [holder EXCEPT ![p] = n]
  /\ deposed' = [deposed EXCEPT ![p] = @ \ {n}]
  /\ UNCHANGED <<offered, hosts, strays>>

\* The holder gives the claim back, hosting nothing on it (a stray it cannot
\* stop is no obstacle).
Yield(n, p) ==
  /\ holder[p] = n
  /\ n \notin hosts[p]
  /\ holder' = [holder EXCEPT ![p] = None]
  /\ UNCHANGED <<offered, deposed, hosts, strays>>

Depose(n, p) ==
  /\ holder[p] = n
  /\ holder' = [holder EXCEPT ![p] = None]
  /\ deposed' = [deposed EXCEPT ![p] = @ \cup {n}]
  /\ UNCHANGED <<offered, hosts, strays>>

Host(n, p) ==
  /\ holder[p] = n \/ n \in deposed[p]
  /\ hosts' = [hosts EXCEPT ![p] = @ \cup {n}]
  /\ UNCHANGED <<offered, holder, deposed, strays>>

Leave(n, p) ==
  /\ n \in hosts[p]
  /\ hosts' = [hosts EXCEPT ![p] = @ \ {n}]
  /\ UNCHANGED <<offered, holder, deposed, strays>>

\* The node loses its hold on what it hosts.
Strand(n, p) ==
  /\ n \in hosts[p]
  /\ hosts' = [hosts EXCEPT ![p] = @ \ {n}]
  /\ strays' = [strays EXCEPT ![p] = @ \cup {n}]
  /\ UNCHANGED <<offered, holder, deposed>>

\* A stray ends by itself.
Perish(n, p) ==
  /\ n \in strays[p]
  /\ strays' = [strays EXCEPT ![p] = @ \ {n}]
  /\ UNCHANGED <<offered, holder, deposed, hosts>>

\* A process ends and acts on nothing any more.  What it hosted ends with it or
\* is left behind.  The claim it holds stands, for its restart or for a peer's
\* reclaim.
Vanish(n) ==
  /\ hosts' = [p \in Placement |-> hosts[p] \ {n}]
  /\ deposed' = [p \in Placement |-> deposed[p] \ {n}]
  /\ \/ UNCHANGED strays
     \/ strays' = [p \in Placement |-> strays[p] \cup (hosts[p] \cap {n})]
  /\ UNCHANGED <<offered, holder>>

Next ==
  \/ \E p \in Placement : Offer(p)
  \/ \E n \in Node : Vanish(n)
  \/ \E n \in Node, p \in Placement :
       \/ Win(n, p) \/ Yield(n, p) \/ Depose(n, p)
       \/ Host(n, p) \/ Leave(n, p) \/ Strand(n, p) \/ Perish(n, p)

TenancySpec == Init /\ [][Next]_tenancyVars

-----------------------------------------------------------------------------

HostsAreEntitled ==
  \A p \in Placement, n \in Node :
    n \in hosts[p] => holder[p] = n \/ n \in deposed[p]

\* Two nodes run one placement only if one of the two was deposed or what it
\* runs is a stray.
SoleHost ==
  \A p \in Placement : \A n, m \in hosts[p] \cup strays[p] :
    n = m \/ {n, m} \cap (deposed[p] \cup strays[p]) # {}

=============================================================================
