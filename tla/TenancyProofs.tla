--------------------------- MODULE TenancyProofs ---------------------------
(***************************************************************************)
(* What the abstract placement plane promises, proved from Tenancy alone:  *)
(* whatever implements it, as Dispatcher and Fleet do, keeps these two.    *)
(***************************************************************************)
EXTENDS Tenancy, TLAPS

\* The shape of the state, as far as the steps' EXCEPTs read it.
Shape ==
  /\ holder \in [Placement -> Node \cup {None}]
  /\ deposed \in [Placement -> SUBSET Node]
  /\ hosts \in [Placement -> SUBSET Node]
  /\ strays \in [Placement -> SUBSET Node]

PlaneInv == Shape /\ HostsAreEntitled

LEMMA PlaneInit == Init => PlaneInv
  BY DEF Init, PlaneInv, Shape, HostsAreEntitled

\* Who leaves the holder's place was deposed, or hosts nothing.
LEMMA RecordKeeps ==
  ASSUME None \notin Node, PlaneInv, NEW n \in Node, NEW p \in Placement,
         Win(n, p) \/ Yield(n, p) \/ Depose(n, p)
  PROVE  PlaneInv'
<1> USE DEF PlaneInv, Shape, HostsAreEntitled
<1>1. CASE Win(n, p)
  BY <1>1 DEF Win
<1>2. CASE Yield(n, p)
  BY <1>2 DEF Yield
<1>3. CASE Depose(n, p)
  BY <1>3 DEF Depose
<1> QED
  BY <1>1, <1>2, <1>3

\* Who becomes a host is entitled to it, and who stops being one, or dies, no
\* longer needs to be.
LEMMA HostingKeeps ==
  ASSUME PlaneInv, NEW n \in Node, NEW p \in Placement,
         Host(n, p) \/ Leave(n, p) \/ Strand(n, p) \/ Perish(n, p) \/ Vanish(n)
  PROVE  PlaneInv'
<1> USE DEF PlaneInv, Shape, HostsAreEntitled
<1>1. CASE Host(n, p)
  BY <1>1 DEF Host
<1>2. CASE Leave(n, p)
  BY <1>2 DEF Leave
<1>3. CASE Strand(n, p)
  BY <1>3 DEF Strand
<1>4. CASE Perish(n, p)
  BY <1>4 DEF Perish
<1>5. CASE Vanish(n)
  BY <1>5 DEF Vanish
<1> QED
  BY <1>1, <1>2, <1>3, <1>4, <1>5

LEMMA PlaneNext ==
  ASSUME None \notin Node, PlaneInv, [Next]_tenancyVars
  PROVE  PlaneInv'
<1>1. ASSUME NEW p \in Placement, Offer(p)
      PROVE  PlaneInv'
  BY <1>1 DEF Offer, PlaneInv, Shape, HostsAreEntitled
<1>2. ASSUME NEW n \in Node, Vanish(n)
      PROVE  PlaneInv'
  BY <1>2 DEF Vanish, PlaneInv, Shape, HostsAreEntitled
<1>3. ASSUME NEW n \in Node, NEW p \in Placement,
             \/ Win(n, p) \/ Yield(n, p) \/ Depose(n, p)
             \/ Host(n, p) \/ Leave(n, p) \/ Strand(n, p) \/ Perish(n, p)
      PROVE  PlaneInv'
  BY <1>3, RecordKeeps, HostingKeeps
<1>4. CASE UNCHANGED tenancyVars
  BY <1>4 DEF tenancyVars, PlaneInv, Shape, HostsAreEntitled
<1> QED
  BY <1>1, <1>2, <1>3, <1>4 DEF Next

\* On the placement plane a node hosts, with a hold on it, only what it holds on
\* the record or held until a peer's reclaim took it: neither a claim race, nor
\* a hand-back, nor a crash leaves such a host without a title.  Dispatcher (engines) and Fleet
\* (workloads) both implement this plane.
THEOREM PlaneHostsAreEntitled ==
  ASSUME None \notin Node
  PROVE  TenancySpec => []HostsAreEntitled
<1>1. PlaneInv /\ [Next]_tenancyVars => PlaneInv'
  BY PlaneNext
<1>2. PlaneInv => HostsAreEntitled
  BY DEF PlaneInv
<1> QED
  BY PlaneInit, <1>1, <1>2, PTL DEF TenancySpec

\* Two nodes run one placement only if one of the two acts on a claim that a
\* peer's reclaim took away (fleet.Sweep), or what it runs is a stray, left
\* behind by a launch, a release or a process that failed: the claim race alone
\* never does it.
THEOREM PlaneSoleHost ==
  ASSUME None \notin Node
  PROVE  TenancySpec => []SoleHost
<1>1. PlaneInv /\ [Next]_tenancyVars => PlaneInv'
  BY PlaneNext
<1>2. PlaneInv => SoleHost
  <2> SUFFICES ASSUME PlaneInv, NEW p \in Placement,
                      NEW n \in hosts[p] \cup strays[p], NEW m \in hosts[p] \cup strays[p],
                      n # m, n \notin strays[p], m \notin strays[p]
               PROVE  {n, m} \cap (deposed[p] \cup strays[p]) # {}
    BY DEF SoleHost
  <2>1. n \in Node /\ m \in Node
    BY DEF PlaneInv, Shape
  <2> QED
    BY <2>1 DEF PlaneInv, HostsAreEntitled
<1> QED
  BY PlaneInit, <1>1, <1>2, PTL DEF TenancySpec

=============================================================================
