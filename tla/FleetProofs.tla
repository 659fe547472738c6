---------------------------- MODULE FleetProofs ----------------------------
(* Proofs about Fleet, for every set of nodes and placements, with or       *)
(* without lost probes and whichever nodes may die.                         *)
EXTENDS Fleet, TLAPS

-----------------------------------------------------------------------------
(* The record.                                                             *)

ItemOrDone == Item \cup {DoneItem}

\* Only a claimed item has an owner, and no op takes an item out of its type.
LEMMA ItemOps ==
  ASSUME NEW it \in ItemOrDone
  PROVE  /\ it.owner \in Node \cup {None}
         /\ it.owner \in Node <=> it.status = "claimed"
         /\ it.owner \in Node => it.owner # None
         /\ AfterAbandon(it) \in ItemOrDone /\ AfterAbandon(it).owner = None
         /\ it.status = "claimed" \/ AfterAbandon(it) = it
         /\ it.status = "claimed" => /\ Older(it) \in ItemOrDone
                                     /\ Older(it).owner = it.owner
                                     /\ Older(it).status = it.status
         /\ AfterAbandon(it).status = "absent" <=> it.status = "absent"
         /\ \A n \in Node : AfterClaim(it, n) \in ItemOrDone
  <1>1. CASE it \in {AbsentItem, OpenItem, DoneItem}
    BY <1>1, NoneIsNoNode DEF ItemOrDone, Item, DoneItem, AbsentItem, OpenItem,
                              AfterAbandon, AfterClaim, ClaimedBy
  <1>2. CASE it \in [status : {"claimed"}, owner : Node, aged : BOOLEAN]
    <2>1. Older(it) \in [status : {"claimed"}, owner : Node, aged : BOOLEAN]
      BY <1>2 DEF Older
    <2> QED
      BY <1>2, <2>1, NoneIsNoNode DEF ItemOrDone, Item, OpenItem, AfterAbandon, AfterClaim, Older
  <1> QED
    BY <1>1, <1>2 DEF ItemOrDone, Item

Titled(n, p) == Entitled(n, p) \/ item[p].status = "done"

\* What lands on an item takes nobody's title but that of a node that yields, and
\* what is done stays done.
LEMMA LandsKeeps ==
  ASSUME TypeOK, NEW p \in Placement, NEW it \in ItemOrDone, it.owner = None,
         item[p].status = "done" => it.status = "done",
         NEW yielding \in SUBSET Node, Lands(p, it, yielding)
  PROVE  /\ item' \in [Placement -> ItemOrDone]
         /\ deposed' \in [Placement -> SUBSET Node]
         /\ \A q \in Placement : item[q].status = "done" => item'[q].status = "done"
         /\ \A n \in Node, q \in Placement :
              Entitled(n, q) /\ (q # p \/ n \notin yielding) => Entitled(n, q)'
  <1>1. item[p].owner \in Node \cup {None}
    BY ItemOps DEF TypeOK, ItemOrDone
  <1>2. /\ item' = [item EXCEPT ![p] = it]
        /\ item' \in [Placement -> ItemOrDone]
        /\ deposed' \in [Placement -> SUBSET Node]
    BY DEF Lands, TypeOK, ItemOrDone
  <1>3. \A q \in Placement : deposed[q] \subseteq deposed'[q]
    BY DEF Lands, TypeOK
  <1>7. \A q \in Placement : item[q].status = "done" => item'[q].status = "done"
    BY <1>2 DEF TypeOK
  <1> SUFFICES ASSUME NEW n \in Node, NEW q \in Placement, Entitled(n, q),
                      q # p \/ n \notin yielding
               PROVE  Entitled(n, q)'
    BY <1>2, <1>7
  <1>4. CASE n \in deposed[q]
    BY <1>3, <1>4 DEF Entitled
  <1>5. CASE item[q].owner = n /\ q # p
    BY <1>2, <1>5 DEF Entitled, TypeOK
  <1>6. CASE item[q].owner = n /\ q = p
    <2>1. n \notin yielding /\ it.owner # n
      BY <1>6, NoneIsNoNode
    <2>2. deposed' = [deposed EXCEPT ![p] = @ \cup {n}]
      BY <1>6, <2>1 DEF Lands
    <2> QED
      BY <1>6, <2>2 DEF Entitled, TypeOK
  <1> QED
    BY <1>4, <1>5, <1>6 DEF Entitled

-----------------------------------------------------------------------------
(* The inductive invariant.                                                *)

\* What a node is about with a placement: it acts on a title, and its handle has
\* a workload under it only between launch and stop.
Grounded(n, p) ==
  /\ Running(n, p) => Entitled(n, p)
  /\ Closing(n, p) => Titled(n, p)
  /\ n \in held[p] => at[n][p] \in {"launched", "placed", "stopping", "unreleased"}

Inv == TypeOK /\ \A n \in Node, p \in Placement : Grounded(n, p)

\* A node that begins with nothing is grounded.
LEMMA InitInv == Init => Inv
  <1> SUFFICES ASSUME Init PROVE Inv
    OBVIOUS
  <1>1. TypeOK
    <2>1. AbsentItem \in Item
      BY DEF Item
    <2>2. \A n \in Node, p \in Placement : sweep[n][p] = None
      BY DEF Init
    <2> QED
      BY <2>1, <2>2, NoneIsNoNode DEF Init, TypeOK, Places
  <1>2. ASSUME NEW n \in Node, NEW p \in Placement
        PROVE  Grounded(n, p)
    BY DEF Init, Grounded, Running, Closing
  <1> QED
    BY <1>1, <1>2 DEF Inv

\* A step of one node on one placement that spoils nobody else's title.
LEMMA StepAt ==
  ASSUME Inv, NEW n \in Node, NEW p \in Placement, NEW place \in Places,
         Goto(n, p, place), TypeOK', Grounded(n, p)',
         \A m \in Node, q \in Placement : (m # n \/ q # p) =>
           /\ m \in held'[q] => m \in held[q]
           /\ Entitled(m, q) => Entitled(m, q)'
           /\ item[q].status = "done" => item'[q].status = "done"
  PROVE  Inv'
  <1> SUFFICES ASSUME NEW m \in Node, NEW q \in Placement, m # n \/ q # p
               PROVE  Grounded(m, q)'
    BY DEF Inv
  <1>1. at'[m][q] = at[m][q]
    BY DEF Goto, Inv, TypeOK
  <1> QED
    BY <1>1 DEF Inv, Grounded, Running, Closing, Titled

\* What a move does to the places, and to the types of what it leaves alone.
LEMMA Moves ==
  ASSUME Inv, NEW n \in Node, NEW p \in Placement, NEW place \in Places,
         Goto(n, p, place)
  PROVE  at' \in [Node -> [Placement -> Places]] /\ at'[n][p] = place
  BY DEF Goto, Inv, TypeOK

-----------------------------------------------------------------------------
(* TryPlace.                                                               *)

\* A void claim changes nothing; a claim that wins makes its node the owner.
LEMMA ClaimStep ==
  ASSUME Inv, NEW n \in Node, NEW p \in Placement, ClaimWork(n, p)
  PROVE  Inv'
  <1>1. /\ Goto(n, p, "claimed")
        /\ at[n][p] = "idle"
        /\ item' = [item EXCEPT ![p] = AfterClaim(@, n)]
        /\ UNCHANGED <<sweep, silent, owned, listening, held, strays>>
    BY DEF ClaimWork, sweepVars, probeVars, bodyVars
  <1>2. item[p] \in ItemOrDone /\ item' \in [Placement -> ItemOrDone]
    BY <1>1, ItemOps DEF Inv, TypeOK, ItemOrDone
  <1>3. deposed' \in [Placement -> SUBSET Node]
    BY DEF ClaimWork, Inv, TypeOK
  <1>4. TypeOK'
    BY <1>1, <1>2, <1>3, Moves DEF Inv, TypeOK, ItemOrDone, Places
  <1>5. Grounded(n, p)'
    BY <1>1, Moves DEF Inv, Grounded, Running, Closing, Places
  <1>7. \A q \in Placement : item[q].status = "done" => item'[q].status = "done"
    BY <1>1, <1>2 DEF AfterClaim, Inv, TypeOK
  <1>6. \A m \in Node, q \in Placement :
          (m # n \/ q # p) /\ Entitled(m, q) => Entitled(m, q)'
    <2> SUFFICES ASSUME NEW m \in Node, NEW q \in Placement, m # n \/ q # p, Entitled(m, q)
                 PROVE  Entitled(m, q)'
      OBVIOUS
    <2>1. m \in deposed[q] => m \in deposed'[q]
      BY DEF ClaimWork, Inv, TypeOK
    <2>2. item[q].owner = m => item'[q].owner = m
      BY <1>1, <1>2, ItemOps DEF Inv, TypeOK, AfterClaim
    <2> QED
      BY <2>1, <2>2 DEF Entitled
  <1> QED
    BY <1>1, <1>4, <1>5, <1>6, <1>7, StepAt DEF Places

\* The other steps of a launch leave the record alone.
LEMMA LaunchStep ==
  ASSUME Inv, NEW n \in Node, NEW p \in Placement,
         \/ ClaimedError(n, p) \/ ReadBack(n, p)
         \/ LaunchStarts(n, p) \/ LaunchReturns(n, p)
         \/ LaunchFails(n, p) \/ LaunchStrands(n, p)
         \/ HandBackError(n, p)
         \/ Release(n, p) \/ StopReturns(n, p) \/ StopFails(n, p) \/ LetGo(n, p)
  PROVE  Inv'
  <1>1. UNCHANGED <<item, deposed, sweep, silent, listening>>
    BY DEF ClaimedError, ReadBack, LaunchStarts, LaunchReturns, LaunchFails, LaunchStrands,
           HandBackError, Release, StopReturns, StopFails, LetGo, logVars, sweepVars, probeVars
  <1>2. /\ held' \in [Placement -> SUBSET Node]
        /\ \A m \in Node, q \in Placement : (m # n \/ q # p) =>
             (m \in held'[q] => m \in held[q])
    <2>1. \/ held' = held
          \/ held' = [held EXCEPT ![p] = @ \cup {n}]
          \/ held' = [held EXCEPT ![p] = @ \ {n}]
      BY DEF ClaimedError, ReadBack, LaunchStarts, LaunchReturns, LaunchFails, LaunchStrands,
             HandBackError, Release, StopReturns, StopFails, LetGo, Strand, bodyVars
    <2> QED
      BY <2>1 DEF Inv, TypeOK
  <1>3. owned' \in [Node -> SUBSET Placement] /\ strays' \in [Placement -> SUBSET Node]
    <2>1. \/ owned' = owned
          \/ owned' = [owned EXCEPT ![n] = @ \cup {p}]
          \/ owned' = [owned EXCEPT ![n] = @ \ {p}]
      BY DEF ClaimedError, ReadBack, LaunchStarts, LaunchReturns, LaunchFails, LaunchStrands,
             HandBackError, Release, StopReturns, StopFails, LetGo, probeVars
    <2>2. \/ strays' = strays
          \/ strays' = [strays EXCEPT ![p] = @ \cup (held[p] \cap {n})]
      BY DEF ClaimedError, ReadBack, LaunchStarts, LaunchReturns, LaunchFails, LaunchStrands,
             HandBackError, Release, StopReturns, StopFails, LetGo, Strand, bodyVars
    <2>3. owned' \in [Node -> SUBSET Placement]
      <3>1. owned \in [Node -> SUBSET Placement]
        BY DEF Inv, TypeOK
      <3> QED
        BY <2>1, <3>1
    <2>4. strays' \in [Placement -> SUBSET Node]
      <3>1. strays \in [Placement -> SUBSET Node]
        BY DEF Inv, TypeOK
      <3> QED
        BY <2>2, <3>1
    <2> QED
      BY <2>3, <2>4
  <1>4. PICK place \in Places :
          /\ Goto(n, p, place)
          /\ place \in {"won", "launched", "placed"} \/ n \in held'[p] => Entitled(n, p)
          /\ place \in {"stopping", "stopped", "unreleased"} => Titled(n, p)
          /\ n \in held'[p] => place \in {"launched", "placed", "stopping", "unreleased"}
    <2>1. held[p] \subseteq Node
      BY DEF Inv, TypeOK
    <2>2. CASE \/ ClaimedError(n, p) \/ ReadBack(n, p)
               \/ LaunchStarts(n, p) \/ LaunchReturns(n, p) \/ LaunchFails(n, p)
               \/ HandBackError(n, p)
      BY <2>2 DEF ClaimedError, ReadBack, LaunchStarts, LaunchReturns, LaunchFails,
                  HandBackError, bodyVars, Inv, TypeOK, Grounded, Running, Entitled, Places
    <2>3. CASE LaunchStrands(n, p) \/ LetGo(n, p)
      BY <2>3 DEF LaunchStrands, LetGo, Strand, Inv, TypeOK, Places
    <2>4. CASE Release(n, p)
      BY <2>4 DEF Release, bodyVars, Inv, Grounded, Running, Closing, Titled, Places
    <2>5. CASE StopReturns(n, p) \/ StopFails(n, p)
      BY <2>5 DEF StopReturns, StopFails, Inv, TypeOK, Grounded, Running, Closing, Titled, Places
    <2> QED
      BY <2>2, <2>3, <2>4, <2>5
  <1>5. TypeOK'
    BY <1>1, <1>2, <1>3, <1>4, Moves DEF Inv, TypeOK
  <1>6. Grounded(n, p)'
    BY <1>1, <1>4, Moves DEF Grounded, Running, Closing, Titled, Entitled
  <1> QED
    BY <1>1, <1>2, <1>4, <1>5, <1>6, StepAt DEF Entitled

\* The caller gives back or closes the placement: it has no handle on a workload
\* then, and whoever else loses the claim by it is deposed.
LEMMA GivesUpStep ==
  ASSUME Inv, NEW n \in Node, NEW p \in Placement,
         HandBack(n, p) \/ Complete(n, p) \/ CompleteError(n, p)
  PROVE  Inv'
  <1>1. /\ \/ Goto(n, p, "idle")
           \/ Goto(n, p, "unreleased")
        /\ at[n][p] \in {"handback", "stopped"}
        /\ UNCHANGED <<sweep, silent, owned, listening, held, strays>>
        /\ \/ AbandonWork(p, {n})
           \/ Lands(p, DoneItem, {n})
           \/ UNCHANGED <<item, deposed>>
    BY DEF HandBack, Complete, CompleteError, CompleteWork, logVars, sweepVars, probeVars, bodyVars
  <1>2. /\ item[p] \in ItemOrDone
        /\ DoneItem \in ItemOrDone /\ DoneItem.owner = None /\ DoneItem.status = "done"
    BY DEF Inv, TypeOK, ItemOrDone, DoneItem
  <1>3. /\ item' \in [Placement -> ItemOrDone] /\ deposed' \in [Placement -> SUBSET Node]
        /\ \A q \in Placement : item[q].status = "done" => item'[q].status = "done"
        /\ \A m \in Node, q \in Placement :
             Entitled(m, q) /\ (q # p \/ m # n) => Entitled(m, q)'
    <2>1. CASE AbandonWork(p, {n})
      BY <1>2, <2>1, ItemOps, LandsKeeps DEF AbandonWork, Inv
    <2>2. CASE Lands(p, DoneItem, {n})
      BY <1>2, <2>2, LandsKeeps DEF Inv
    <2>3. CASE UNCHANGED <<item, deposed>>
      BY <2>3 DEF Inv, TypeOK, ItemOrDone, Entitled
    <2> QED
      BY <1>1, <2>1, <2>2, <2>3
  <1>4. TypeOK'
    BY <1>1, <1>3, Moves DEF Inv, TypeOK, ItemOrDone, Places
  <1>6. n \notin held[p]
    BY <1>1 DEF Inv, Grounded
  <1>7. Titled(n, p)' \/ at'[n][p] = "idle"
    <2>1. CASE CompleteError(n, p)
      <3>1. Titled(n, p)
        BY <2>1 DEF CompleteError, Inv, Grounded, Closing
      <3>2. \/ item' = [item EXCEPT ![p] = DoneItem]
            \/ UNCHANGED <<item, deposed>>
        BY <2>1 DEF CompleteError, CompleteWork, Lands, logVars
      <3> QED
        BY <1>2, <3>1, <3>2 DEF Titled, Entitled, Inv, TypeOK
    <2>2. CASE HandBack(n, p) \/ Complete(n, p)
      BY <2>2, Moves DEF HandBack, Complete, Places
    <2> QED
      BY <2>1, <2>2
  <1>5. Grounded(n, p)'
    BY <1>1, <1>6, <1>7, Moves DEF Grounded, Running, Closing, Places
  <1> QED
    BY <1>1, <1>3, <1>4, <1>5, StepAt DEF Places

-----------------------------------------------------------------------------
(* The sweep, the record and the faults.                                   *)

\* A step that moves no caller, starts no workload, spoils no title and reopens
\* nothing that is done.
LEMMA QuietStep ==
  ASSUME Inv, TypeOK', at' = at,
         \A m \in Node, q \in Placement :
           /\ m \in held'[q] => m \in held[q]
           /\ Entitled(m, q) => Entitled(m, q)'
           /\ item[q].status = "done" => item'[q].status = "done"
  PROVE  Inv'
  BY DEF Inv, Grounded, Running, Closing, Titled

LEMMA RecordStep ==
  ASSUME Inv, NEW p \in Placement, Log(p)
  PROVE  Inv'
  <1>1. UNCHANGED <<at, sweep, silent, owned, listening, held, strays, deposed>>
    BY DEF Log, Submit, Age, sweepVars, probeVars, bodyVars
  <1>2. item[p] \in ItemOrDone
    BY DEF Inv, TypeOK, ItemOrDone
  <1>3. PICK it \in ItemOrDone :
          /\ item' = [item EXCEPT ![p] = it] /\ it.owner = item[p].owner
          /\ item[p].status # "done"
    <2>1. CASE Submit(p)
      <3>1. item[p].owner = None /\ OpenItem.owner = None /\ OpenItem \in ItemOrDone
        BY <1>2, <2>1, ItemOps DEF Submit, OpenItem, ItemOrDone, Item
      <3> QED
        BY <2>1, <3>1 DEF Submit
    <2>2. CASE Age(p)
      BY <1>2, <2>2, ItemOps DEF Age
    <2> QED
      BY <2>1, <2>2 DEF Log
  <1>4. TypeOK'
    BY <1>1, <1>3 DEF Inv, TypeOK, ItemOrDone
  <1>5. \A m \in Node, q \in Placement :
          /\ Entitled(m, q) => Entitled(m, q)'
          /\ item[q].status = "done" => item'[q].status = "done"
    BY <1>1, <1>3 DEF Entitled, Inv, TypeOK
  <1> QED
    BY <1>1, <1>4, <1>5, QuietStep

\* A pass nominates the claims of peers.
LEMMA NominateStep ==
  ASSUME Inv, NEW n \in Node, Nominate(n)
  PROVE  Inv'
  <1>1. UNCHANGED <<item, deposed, at, silent, owned, listening, held, strays>>
    BY DEF Nominate, logVars, probeVars, bodyVars
  <1>2. /\ sweep' \in [Node -> [Placement -> Node \cup {None}]]
        /\ \A m \in Node, p \in Placement : sweep'[m][p] # m
    <2> DEFINE row == [p \in Placement |-> IF p \in Nominees(n) THEN item[p].owner ELSE None]
    <2>1. row \in [Placement -> Node \cup {None}] /\ \A p \in Placement : row[p] # n
      BY NoneIsNoNode DEF Nominees
    <2>2. sweep' = [sweep EXCEPT ![n] = row]
      BY DEF Nominate
    <2> HIDE DEF row
    <2> QED
      BY <2>1, <2>2 DEF Inv, TypeOK
  <1>3. TypeOK'
    BY <1>1, <1>2 DEF Inv, TypeOK
  <1> QED
    BY <1>1, <1>3, QuietStep DEF Entitled

LEMMA ProbeStep ==
  ASSUME Inv, NEW n \in Node, NEW p \in Placement, Probe(n, p)
  PROVE  Inv'
  <1>1. UNCHANGED <<item, deposed, at, owned, listening, held, strays>>
    BY DEF Probe, logVars, probeVars, bodyVars
  <1>2. /\ sweep' \in [Node -> [Placement -> Node \cup {None}]]
        /\ \A m \in Node, q \in Placement : sweep'[m][q] # m
    BY NoneIsNoNode DEF Probe, Inv, TypeOK
  <1>3. silent' \in [Node -> SUBSET Placement]
    <2>1. silent' = silent \/ silent' = [silent EXCEPT ![n] = @ \cup {p}]
      BY DEF Probe
    <2>2. silent \in [Node -> SUBSET Placement]
      BY DEF Inv, TypeOK
    <2> QED
      BY <2>1, <2>2
  <1>4. TypeOK'
    BY <1>1, <1>2, <1>3 DEF Inv, TypeOK
  <1> QED
    BY <1>1, <1>4, QuietStep DEF Entitled

\* Whoever loses the claim to a sweep is deposed.
LEMMA ReclaimStep ==
  ASSUME Inv, NEW n \in Node, NEW p \in Placement, Reclaim(n, p) \/ ReclaimError(n, p)
  PROVE  Inv'
  <1>1. /\ UNCHANGED <<at, owned, listening, held, strays>>
        /\ AbandonWork(p, {}) \/ UNCHANGED <<item, deposed>>
    BY DEF Reclaim, ReclaimError, logVars, probeVars, bodyVars
  <1>2. item[p] \in ItemOrDone
    BY DEF Inv, TypeOK, ItemOrDone
  <1>3. /\ item' \in [Placement -> ItemOrDone] /\ deposed' \in [Placement -> SUBSET Node]
        /\ \A m \in Node, q \in Placement :
             /\ Entitled(m, q) => Entitled(m, q)'
             /\ item[q].status = "done" => item'[q].status = "done"
    <2>1. CASE AbandonWork(p, {})
      BY <1>2, <2>1, ItemOps, LandsKeeps DEF AbandonWork, Inv
    <2>2. CASE UNCHANGED <<item, deposed>>
      BY <2>2 DEF Inv, TypeOK, ItemOrDone, Entitled
    <2> QED
      BY <1>1, <2>1, <2>2
  <1>4. /\ sweep' \in [Node -> [Placement -> Node \cup {None}]]
        /\ silent' \in [Node -> SUBSET Placement]
        /\ \A m \in Node, q \in Placement : sweep'[m][q] # m
    <2>1. CASE Reclaim(n, p)
      BY <2>1 DEF Reclaim, Inv, TypeOK
    <2>2. CASE ReclaimError(n, p)
      <3>1. /\ silent' = [silent EXCEPT ![n] = {}]
            /\ sweep' = [sweep EXCEPT ![n] = [q \in Placement |-> None]]
        BY <2>2 DEF ReclaimError
      <3>2. silent' \in [Node -> SUBSET Placement]
        BY <3>1 DEF Inv, TypeOK
      <3>3. sweep' \in [Node -> [Placement -> Node \cup {None}]]
        BY <3>1 DEF Inv, TypeOK
      <3>4. \A m \in Node, q \in Placement : sweep'[m][q] # m
        BY <3>1, NoneIsNoNode DEF Inv, TypeOK
      <3> QED
        BY <3>2, <3>3, <3>4
    <2> QED
      BY <2>1, <2>2
  <1>5. TypeOK'
    BY <1>1, <1>3, <1>4 DEF Inv, TypeOK, ItemOrDone
  <1> QED
    BY <1>1, <1>3, <1>5, QuietStep

LEMMA ServiceStep ==
  ASSUME Inv, NEW n \in Node, Start(n) \/ Stop(n)
  PROVE  Inv'
  <1>1. UNCHANGED <<item, deposed, at, sweep, silent, held, strays>>
    BY DEF Start, Stop, logVars, sweepVars, bodyVars
  <1>2. /\ listening' \in [Node -> BOOLEAN]
        /\ owned' \in [Node -> SUBSET Placement]
    BY DEF Start, Stop, Inv, TypeOK
  <1>3. TypeOK'
    BY <1>1, <1>2 DEF Inv, TypeOK
  <1> QED
    BY <1>1, <1>2, <1>3, QuietStep DEF Entitled

LEMMA WorkloadStep ==
  ASSUME Inv, NEW n \in Node, NEW p \in Placement, WorkloadEnds(n, p)
  PROVE  Inv'
  <1>1. UNCHANGED <<item, deposed, at, sweep, silent, owned, listening>>
    BY DEF WorkloadEnds, logVars, sweepVars, probeVars
  <1>2. /\ held' = held \/ held' = [held EXCEPT ![p] = @ \ {n}]
        /\ strays' = strays \/ strays' = [strays EXCEPT ![p] = @ \ {n}]
    BY DEF WorkloadEnds
  <1>4. /\ held' \in [Placement -> SUBSET Node]
        /\ \A m \in Node, q \in Placement : m \in held'[q] => m \in held[q]
    <2>1. held \in [Placement -> SUBSET Node]
      BY DEF Inv, TypeOK
    <2> QED
      BY <1>2, <2>1
  <1>5. strays' \in [Placement -> SUBSET Node]
    <2>1. strays \in [Placement -> SUBSET Node]
      BY DEF Inv, TypeOK
    <2> QED
      BY <1>2, <2>1
  <1>3. TypeOK'
    BY <1>1, <1>4, <1>5 DEF Inv, TypeOK
  <1> QED
    BY <1>1, <1>3, <1>4, QuietStep DEF Entitled

\* A dead node has no handles and owns nothing; its workloads are strays and its
\* claims stand.
LEMMA DieStep ==
  ASSUME Inv, NEW n \in Node, Die(n)
  PROVE  Inv'
  <1>1. /\ at' \in [Node -> [Placement -> Places]]
        /\ \A p \in Placement : at'[n][p] = "idle"
        /\ \A m \in Node \ {n} : at'[m] = at[m]
    BY DEF Die, Inv, TypeOK, Places
  <1>2. /\ sweep' \in [Node -> [Placement -> Node \cup {None}]]
        /\ \A m \in Node, p \in Placement : sweep'[m][p] # m
    BY NoneIsNoNode DEF Die, Inv, TypeOK
  <1>3. /\ silent' \in [Node -> SUBSET Placement]
        /\ listening' \in [Node -> BOOLEAN]
        /\ owned' \in [Node -> SUBSET Placement]
    BY DEF Die, Inv, TypeOK
  <1>4. /\ item' = item
        /\ held' \in [Placement -> SUBSET Node] /\ deposed' \in [Placement -> SUBSET Node]
        /\ strays' \in [Placement -> SUBSET Node]
        /\ \A p \in Placement : held'[p] = held[p] \ {n} /\ deposed'[p] = deposed[p] \ {n}
    BY DEF Die, Inv, TypeOK
  <1>5. TypeOK'
    BY <1>1, <1>2, <1>3, <1>4 DEF Inv, TypeOK
  <1>6. ASSUME NEW m \in Node, NEW p \in Placement
        PROVE  Grounded(m, p)'
    <2>1. CASE m = n
      BY <1>1, <1>4, <2>1 DEF Grounded, Running, Closing
    <2>2. CASE m # n
      BY <1>1, <1>4, <2>2 DEF Inv, Grounded, Running, Closing, Titled, Entitled
    <2> QED
      BY <2>1, <2>2
  <1> QED
    BY <1>5, <1>6 DEF Inv

LEMMA NextInv == Inv /\ [Next]_vars => Inv'
  <1> SUFFICES ASSUME Inv, [Next]_vars PROVE Inv'
    OBVIOUS
  <1>1. CASE \E p \in Placement : Log(p)
    BY <1>1, RecordStep
  <1>2. CASE \E n \in Node : Nominate(n) \/ Start(n) \/ Stop(n) \/ Die(n)
    BY <1>2, NominateStep, ServiceStep, DieStep
  <1>3. CASE \E n \in Node, p \in Placement :
               TryPlace(n, p) \/ Releasing(n, p) \/ Sweep(n, p) \/ WorkloadEnds(n, p)
    <2> PICK n \in Node, p \in Placement :
               TryPlace(n, p) \/ Releasing(n, p) \/ Sweep(n, p) \/ WorkloadEnds(n, p)
      BY <1>3
    <2>1. CASE TryPlace(n, p)
      BY <2>1, ClaimStep, LaunchStep, GivesUpStep DEF TryPlace
    <2>2. CASE Releasing(n, p)
      BY <2>2, LaunchStep, GivesUpStep DEF Releasing
    <2>3. CASE Sweep(n, p)
      BY <2>3, ProbeStep, ReclaimStep DEF Sweep
    <2>4. CASE WorkloadEnds(n, p)
      BY <2>4, WorkloadStep
    <2> QED
      BY <2>1, <2>2, <2>3, <2>4
  <1>4. CASE UNCHANGED vars
    BY <1>4 DEF vars, Inv, TypeOK, Grounded, Running, Closing, Titled, Entitled
  <1> QED
    BY <1>1, <1>2, <1>3, <1>4 DEF Next

LEMMA InvHolds == Spec => []Inv
  BY InitInv, NextInv, PTL DEF Spec

-----------------------------------------------------------------------------
(* Safety.                                                                 *)

\* Every variable keeps its type, and no sweep nominates its own node's claim.
THEOREM FleetTypeOK == Spec => []TypeOK
  <1>1. Inv => TypeOK
    BY DEF Inv
  <1> QED
    BY <1>1, InvHolds, PTL

\* Whoever is about to run a placement or runs it with a handle holds its claim or
\* was deposed since it won it, and so does whoever stops and closes it, be it by
\* a Release called again, unless it is done already (fleet.TryPlace, Release).
THEOREM OnlyTheEntitledRun == Spec => []RunnersAreEntitled
  <1>1. Inv => RunnersAreEntitled
    BY DEF Inv, Grounded, Titled, RunnersAreEntitled
  <1> QED
    BY <1>1, InvHolds, PTL

\* Wherever workloads of one placement run, handle or none, they run on two nodes
\* only if one of the two was deposed or runs a stray (fleet.TryPlace, Release).
THEOREM RunOnce == Spec => []SoleRunner
  <1>1. Inv => SoleRunner
    <2> SUFFICES ASSUME Inv, NEW p \in Placement, NEW n \in Runs(p), NEW m \in Runs(p),
                        n # m, n \notin strays[p], m \notin strays[p]
                 PROVE  {n, m} \cap (deposed[p] \cup strays[p]) # {}
      BY DEF SoleRunner
    <2>1. n \in held[p] /\ m \in held[p] /\ n \in Node /\ m \in Node
      BY DEF Runs, Inv, TypeOK
    <2>2. Entitled(n, p) /\ Entitled(m, p)
      BY <2>1 DEF Inv, Grounded, Running
    <2> QED
      BY <2>2 DEF Entitled
  <1> QED
    BY <1>1, InvHolds, PTL

-----------------------------------------------------------------------------
(* Refinement.                                                             *)

\* What the plane sees of a step.
LEMMA SameItems ==
  ASSUME UNCHANGED <<item, deposed, held, strays>>
  PROVE  UNCHANGED Plane!tenancyVars
  BY DEF Plane!tenancyVars

\* Nobody is deposed from what was never submitted.
Known == \A p \in Placement : item[p].status = "absent" => deposed[p] = {}

LEMMA LandsKnown ==
  ASSUME Inv, Known, NEW p \in Placement, NEW it \in ItemOrDone,
         it.status = "absent" => item[p].status = "absent",
         NEW yielding \in SUBSET Node, Lands(p, it, yielding)
  PROVE  Known'
  <1>1. /\ item' = [item EXCEPT ![p] = it]
        /\ \A q \in Placement : q # p => deposed'[q] = deposed[q]
    BY DEF Lands, Inv, TypeOK
  <1>2. ASSUME it.status = "absent"
        PROVE  deposed' = deposed
    BY <1>2, ItemOps DEF Lands, Inv, TypeOK, ItemOrDone
  <1> QED
    BY <1>1, <1>2 DEF Known, Inv, TypeOK

LEMMA KnownStep ==
  ASSUME Inv, Known, [Next]_vars
  PROVE  Known'
  <1>1. CASE \E p \in Placement : Log(p)
    <2> PICK p \in Placement : Log(p)
      BY <1>1
    <2>1. deposed' = deposed /\ item[p] \in ItemOrDone
      BY DEF Log, Submit, Age, Inv, TypeOK, ItemOrDone
    <2>2. CASE Submit(p)
      BY <2>1, <2>2 DEF Submit, OpenItem, Known, Inv, TypeOK
    <2>3. CASE Age(p)
      BY <2>1, <2>3, ItemOps DEF Age, Known, Inv, TypeOK
    <2> QED
      BY <2>2, <2>3 DEF Log
  <1>2. CASE \E n \in Node, p \in Placement : ClaimWork(n, p)
    <2> PICK n \in Node, p \in Placement : ClaimWork(n, p)
      BY <1>2
    <2>1. /\ item' = [item EXCEPT ![p] = AfterClaim(@, n)]
          /\ item[p].status # "absent"
          /\ \A q \in Placement : deposed'[q] \subseteq deposed[q]
      BY DEF ClaimWork, Inv, TypeOK
    <2>2. AfterClaim(item[p], n).status # "absent"
      BY <2>1 DEF AfterClaim, ClaimedBy
    <2> QED
      BY <2>1, <2>2 DEF Known, Inv, TypeOK
  <1>3. CASE \E n \in Node, p \in Placement :
               \/ HandBack(n, p) \/ Complete(n, p) \/ CompleteError(n, p)
               \/ Reclaim(n, p) \/ ReclaimError(n, p)
    <2> PICK n \in Node, p \in Placement :
               \/ HandBack(n, p) \/ Complete(n, p) \/ CompleteError(n, p)
               \/ Reclaim(n, p) \/ ReclaimError(n, p)
      BY <1>3
    <2>1. item[p] \in ItemOrDone /\ DoneItem \in ItemOrDone /\ DoneItem.status # "absent"
      BY DEF Inv, TypeOK, ItemOrDone, DoneItem
    <2>2. \/ AbandonWork(p, {n}) \/ AbandonWork(p, {})
          \/ Lands(p, DoneItem, {n})
          \/ UNCHANGED <<item, deposed>>
      BY DEF HandBack, Complete, CompleteError, CompleteWork, Reclaim, ReclaimError, logVars
    <2>3. CASE AbandonWork(p, {n}) \/ AbandonWork(p, {})
      BY <2>1, <2>3, ItemOps, LandsKnown DEF AbandonWork
    <2>4. CASE Lands(p, DoneItem, {n})
      BY <2>1, <2>4, LandsKnown
    <2>5. CASE UNCHANGED <<item, deposed>>
      BY <2>5 DEF Known
    <2> QED
      BY <2>2, <2>3, <2>4, <2>5
  <1>4. CASE \E n \in Node : Die(n)
    BY <1>4 DEF Die, Known, Inv, TypeOK
  <1>5. CASE UNCHANGED <<item, deposed>>
    BY <1>5 DEF Known
  <1>6. CASE UNCHANGED vars
    BY <1>6 DEF vars, Known
  <1>7. \/ \E p \in Placement : Log(p)
        \/ \E n \in Node : Die(n)
        \/ \E n \in Node, p \in Placement :
             \/ ClaimWork(n, p) \/ HandBack(n, p) \/ Complete(n, p) \/ CompleteError(n, p)
             \/ Reclaim(n, p) \/ ReclaimError(n, p)
        \/ UNCHANGED <<item, deposed>> \/ UNCHANGED vars
    BY DEF Next, TryPlace, Releasing, Sweep, ClaimedError, ReadBack, LaunchStarts,
           LaunchReturns, LaunchFails, LaunchStrands, HandBackError, Release, StopReturns,
           StopFails, LetGo, Probe, WorkloadEnds, Nominate, Start, Stop, logVars
  <1> QED
    BY <1>1, <1>2, <1>3, <1>4, <1>5, <1>6, <1>7

LEMMA KnownHolds == Spec => []Known
  <1>1. Init => Known
    BY DEF Init, Known
  <1> QED
    BY <1>1, KnownStep, InvHolds, PTL DEF Spec

\* An op that leaves nobody the owner is a yield, a deposition or nothing.
LEMMA LandsOnPlane ==
  ASSUME Inv, NEW p \in Placement, NEW it \in ItemOrDone, it.owner = None,
         it.status = "absent" <=> item[p].status = "absent",
         NEW yielding \in SUBSET Node, Lands(p, it, yielding), UNCHANGED bodyVars,
         \A n \in yielding : n \notin held[p]
  PROVE  [Plane!Next]_(Plane!tenancyVars)
  <1>1. /\ item' = [item EXCEPT ![p] = it] /\ item[p] \in ItemOrDone
        /\ held' = held /\ strays' = strays
    BY DEF Lands, bodyVars, Inv, TypeOK, ItemOrDone
  <1>2. {q \in Placement : item'[q].status # "absent"} = {q \in Placement : item[q].status # "absent"}
    BY <1>1 DEF Inv, TypeOK
  <1>3. [q \in Placement |-> item'[q].owner]
          = [[q \in Placement |-> item[q].owner] EXCEPT ![p] = None]
    BY <1>1 DEF Inv, TypeOK
  <1>4. CASE item[p].owner = None
    <2>1. [q \in Placement |-> item'[q].owner] = [q \in Placement |-> item[q].owner]
      BY <1>3, <1>4
    <2>2. deposed' = deposed
      BY <1>4 DEF Lands
    <2> QED
      BY <1>1, <1>2, <2>1, <2>2 DEF Plane!tenancyVars
  <1>5. CASE item[p].owner \in Node
    <2> DEFINE o == item[p].owner
    <2>1. it.owner # o
      BY <1>5, NoneIsNoNode
    <2>2. CASE o \in yielding
      <3>1. deposed' = deposed
        BY <2>2 DEF Lands
      <3>2. Plane!Yield(o, p)
        BY <1>1, <1>2, <1>3, <2>2, <3>1 DEF Plane!Yield
      <3> QED
        BY <1>5, <3>2 DEF Plane!Next
    <2>3. CASE o \notin yielding
      <3>1. deposed' = [deposed EXCEPT ![p] = @ \cup {o}]
        BY <1>5, <2>1, <2>3 DEF Lands
      <3>2. Plane!Depose(o, p)
        BY <1>1, <1>2, <1>3, <3>1 DEF Plane!Depose
      <3> QED
        BY <1>5, <3>2 DEF Plane!Next
    <2> QED
      BY <2>2, <2>3
  <1> QED
    BY <1>1, <1>4, <1>5, ItemOps

\* A claim wins an open item or is void.
LEMMA ClaimOnPlane ==
  ASSUME Inv, NEW n \in Node, NEW p \in Placement, ClaimWork(n, p)
  PROVE  [Plane!Next]_(Plane!tenancyVars)
  <1>1. /\ item' = [item EXCEPT ![p] = AfterClaim(@, n)] /\ item[p] \in ItemOrDone
        /\ held' = held /\ strays' = strays
    BY DEF ClaimWork, bodyVars, Inv, TypeOK, ItemOrDone
  <1>2. CASE item[p].status = "open"
    <2>1. item' = [item EXCEPT ![p] = ClaimedBy(n)]
      BY <1>1, <1>2 DEF AfterClaim, Inv, TypeOK
    <2>2. {q \in Placement : item'[q].status # "absent"} = {q \in Placement : item[q].status # "absent"}
      BY <1>2, <2>1 DEF ClaimedBy, Inv, TypeOK
    <2>3. [q \in Placement |-> item'[q].owner]
            = [[q \in Placement |-> item[q].owner] EXCEPT ![p] = n]
      BY <2>1 DEF ClaimedBy, Inv, TypeOK
    <2>4. item[p].owner = None
      BY <1>1, <1>2, ItemOps
    <2>5. deposed' = [deposed EXCEPT ![p] = @ \ {n}]
      BY <1>2 DEF ClaimWork
    <2>6. Plane!Win(n, p)
      BY <1>1, <1>2, <2>2, <2>3, <2>4, <2>5 DEF Plane!Win
    <2> QED
      BY <2>6 DEF Plane!Next
  <1>3. CASE item[p].status # "open"
    <2>1. item' = item /\ deposed' = deposed
      BY <1>1, <1>3 DEF ClaimWork, AfterClaim, Inv, TypeOK
    <2> QED
      BY <1>1, <2>1, SameItems
  <1> QED
    BY <1>2, <1>3

\* A launch hosts, and a workload that ends or is let go leaves.
LEMMA HeldOnPlane ==
  ASSUME Inv, NEW n \in Node, NEW p \in Placement, UNCHANGED <<item, deposed, strays>>,
         \/ held' = held
         \/ Entitled(n, p) /\ held' = [held EXCEPT ![p] = @ \cup {n}]
         \/ held' = [held EXCEPT ![p] = @ \ {n}]
  PROVE  [Plane!Next]_(Plane!tenancyVars)
  <1>1. CASE held' = held
    BY <1>1, SameItems
  <1>2. CASE Entitled(n, p) /\ held' = [held EXCEPT ![p] = @ \cup {n}]
    <2>1. Plane!Host(n, p)
      BY <1>2 DEF Plane!Host, Entitled
    <2> QED
      BY <2>1 DEF Plane!Next
  <1>3. CASE held' = [held EXCEPT ![p] = @ \ {n}] /\ n \in held[p]
    <2>1. Plane!Leave(n, p)
      BY <1>3 DEF Plane!Leave
    <2> QED
      BY <2>1 DEF Plane!Next
  <1>4. CASE held' = [held EXCEPT ![p] = @ \ {n}] /\ n \notin held[p]
    <2>1. held' = held
      BY <1>4 DEF Inv, TypeOK
    <2> QED
      BY <2>1, SameItems
  <1> QED
    BY <1>1, <1>2, <1>3, <1>4

\* A handle is lost: what runs under it is a stray, and a stray ends by itself.
LEMMA StraysOnPlane ==
  ASSUME Inv, NEW n \in Node, NEW p \in Placement, UNCHANGED <<item, deposed>>,
         \/ Strand(n, p)
         \/ /\ n \in strays[p] /\ held' = held
            /\ strays' = [strays EXCEPT ![p] = @ \ {n}]
  PROVE  [Plane!Next]_(Plane!tenancyVars)
  <1>1. CASE Strand(n, p) /\ n \in held[p]
    <2>1. held[p] \cap {n} = {n}
      BY <1>1
    <2>2. Plane!Strand(n, p)
      BY <1>1, <2>1 DEF Strand, Plane!Strand
    <2> QED
      BY <2>2 DEF Plane!Next
  <1>2. CASE Strand(n, p) /\ n \notin held[p]
    <2>1. held' = held /\ strays' = strays
      BY <1>2 DEF Strand, Inv, TypeOK
    <2> QED
      BY <2>1, SameItems
  <1>3. CASE /\ n \in strays[p] /\ held' = held
             /\ strays' = [strays EXCEPT ![p] = @ \ {n}]
    <2>1. Plane!Perish(n, p)
      BY <1>3 DEF Plane!Perish
    <2> QED
      BY <2>1 DEF Plane!Next
  <1> QED
    BY <1>1, <1>2, <1>3

LEMMA CallerOnPlane ==
  ASSUME Inv, Known, NEW n \in Node, NEW p \in Placement,
         TryPlace(n, p) \/ Releasing(n, p) \/ Sweep(n, p) \/ WorkloadEnds(n, p)
  PROVE  [Plane!Next]_(Plane!tenancyVars)
  <1>1. CASE ClaimWork(n, p)
    BY <1>1, ClaimOnPlane
  <1>2. CASE HandBack(n, p) \/ Complete(n, p) \/ CompleteError(n, p)
             \/ Reclaim(n, p) \/ ReclaimError(n, p)
    <2>1. item[p] \in ItemOrDone /\ DoneItem \in ItemOrDone /\ DoneItem.owner = None
      BY DEF Inv, TypeOK, ItemOrDone, DoneItem
    <2>2. UNCHANGED bodyVars
      BY <1>2 DEF HandBack, Complete, CompleteError, Reclaim, ReclaimError
    <2>3. \/ AbandonWork(p, {n}) /\ n \notin held[p]
          \/ AbandonWork(p, {})
          \/ Lands(p, DoneItem, {n}) /\ n \notin held[p] /\ item[p].status # "absent"
          \/ UNCHANGED <<item, deposed>>
      <3>1. CASE HandBack(n, p)
        BY <3>1 DEF HandBack, Inv, Grounded
      <3>2. CASE Complete(n, p) \/ CompleteError(n, p)
        <4>1. at[n][p] = "stopped"
          BY <3>2 DEF Complete, CompleteError
        <4>2. n \notin held[p] /\ Titled(n, p)
          BY <4>1 DEF Inv, Grounded, Closing
        <4>3. item[p].status # "absent"
          BY <2>1, <4>2, ItemOps DEF Titled, Entitled, Known
        <4> QED
          BY <3>2, <4>2, <4>3 DEF Complete, CompleteError, CompleteWork, logVars
      <3>3. CASE Reclaim(n, p) \/ ReclaimError(n, p)
        BY <3>3 DEF Reclaim, ReclaimError, logVars
      <3> QED
        BY <1>2, <3>1, <3>2, <3>3
    <2>4. CASE \/ AbandonWork(p, {n}) /\ n \notin held[p]
               \/ AbandonWork(p, {})
      BY <2>1, <2>2, <2>4, ItemOps, LandsOnPlane DEF AbandonWork
    <2>5. CASE Lands(p, DoneItem, {n}) /\ n \notin held[p] /\ item[p].status # "absent"
      BY <2>1, <2>2, <2>5, LandsOnPlane DEF DoneItem
    <2>6. CASE UNCHANGED <<item, deposed>>
      BY <2>2, <2>6, SameItems DEF bodyVars
    <2> QED
      BY <2>3, <2>4, <2>5, <2>6
  <1>3. CASE \/ ClaimedError(n, p) \/ ReadBack(n, p)
             \/ LaunchStarts(n, p) \/ LaunchReturns(n, p)
             \/ LaunchFails(n, p) \/ HandBackError(n, p)
             \/ Release(n, p) \/ StopReturns(n, p) \/ StopFails(n, p)
             \/ Probe(n, p)
    <2>1. UNCHANGED <<item, deposed, strays>>
      BY <1>3 DEF ClaimedError, ReadBack, LaunchStarts, LaunchReturns, LaunchFails,
                  HandBackError, Release, StopReturns, StopFails, Probe, logVars, bodyVars
    <2>2. \/ held' = held
          \/ Entitled(n, p) /\ held' = [held EXCEPT ![p] = @ \cup {n}]
          \/ held' = [held EXCEPT ![p] = @ \ {n}]
      BY <1>3 DEF ClaimedError, ReadBack, LaunchStarts, LaunchReturns, LaunchFails,
                  HandBackError, Release, StopReturns, StopFails, Probe, bodyVars,
                  Inv, Grounded, Running
    <2> QED
      BY <2>1, <2>2, HeldOnPlane
  <1>4. CASE LaunchStrands(n, p) \/ LetGo(n, p)
    BY <1>4, StraysOnPlane DEF LaunchStrands, LetGo, logVars
  <1>5. CASE WorkloadEnds(n, p)
    <2>1. UNCHANGED <<item, deposed>>
      BY <1>5 DEF WorkloadEnds, logVars
    <2>2. \/ strays' = strays /\ held' = [held EXCEPT ![p] = @ \ {n}]
          \/ /\ n \in strays[p] /\ held' = held
             /\ strays' = [strays EXCEPT ![p] = @ \ {n}]
      BY <1>5 DEF WorkloadEnds
    <2> QED
      BY <2>1, <2>2, HeldOnPlane, StraysOnPlane
  <1> QED
    BY <1>1, <1>2, <1>3, <1>4, <1>5 DEF TryPlace, Releasing, Sweep

LEMMA RecordOnPlane ==
  ASSUME Inv, NEW p \in Placement, Log(p)
  PROVE  [Plane!Next]_(Plane!tenancyVars)
  <1>1. /\ deposed' = deposed /\ held' = held /\ strays' = strays
        /\ item[p] \in ItemOrDone
    BY DEF Log, Submit, Age, bodyVars, Inv, TypeOK, ItemOrDone
  <1>2. CASE Submit(p)
    <2>1. item' = [item EXCEPT ![p] = OpenItem] /\ item[p].status = "absent"
      BY <1>2 DEF Submit
    <2>2. item[p].owner = None
      BY <1>1, <2>1, ItemOps
    <2>3. [q \in Placement |-> item'[q].owner] = [q \in Placement |-> item[q].owner]
      BY <2>1, <2>2 DEF OpenItem, Inv, TypeOK
    <2>4. {q \in Placement : item'[q].status # "absent"}
            = {q \in Placement : item[q].status # "absent"} \cup {p}
      BY <2>1 DEF OpenItem, Inv, TypeOK
    <2>5. Plane!Offer(p)
      BY <1>1, <2>1, <2>3, <2>4 DEF Plane!Offer
    <2> QED
      BY <2>5 DEF Plane!Next
  <1>3. CASE Age(p)
    <2>1. item' = [item EXCEPT ![p] = Older(item[p])] /\ item[p].status = "claimed"
      BY <1>3 DEF Age, Inv, TypeOK
    <2>2. Older(item[p]).owner = item[p].owner /\ Older(item[p]).status = item[p].status
      BY <1>1, <2>1, ItemOps DEF Older, ItemOrDone, Item, AbsentItem, OpenItem, DoneItem
    <2>3. [q \in Placement |-> item'[q].owner] = [q \in Placement |-> item[q].owner]
      BY <2>1, <2>2 DEF Inv, TypeOK
    <2>4. {q \in Placement : item'[q].status # "absent"}
            = {q \in Placement : item[q].status # "absent"}
      BY <2>1, <2>2 DEF Inv, TypeOK
    <2> QED
      BY <1>1, <2>3, <2>4 DEF Plane!tenancyVars
  <1> QED
    BY <1>2, <1>3 DEF Log

\* Every behaviour of the fleet is a behaviour of the placement plane the
\* dispatchers keep too: whatever launches, releases, sweeps and deaths do, a node
\* has a handle only on what it holds or was deposed from, gives up a claim only
\* with no handle under it, and what then still runs is counted as a stray.
THEOREM FleetRefinement == Spec => ImplementsTenancy
  <1>1. Init => Plane!Init
    BY DEF Init, Plane!Init, AbsentItem
  <1>2. Inv /\ Known /\ [Next]_vars => [Plane!Next]_(Plane!tenancyVars)
    <2> SUFFICES ASSUME Inv, Known, [Next]_vars
                 PROVE  [Plane!Next]_(Plane!tenancyVars)
      OBVIOUS
    <2>1. CASE \E p \in Placement : Log(p)
      BY <2>1, RecordOnPlane
    <2>2. CASE \E n \in Node : Nominate(n) \/ Start(n) \/ Stop(n)
      BY <2>2, SameItems DEF Nominate, Start, Stop, logVars, bodyVars
    <2>3. CASE \E n \in Node : Die(n)
      <3> PICK n \in Node : Die(n)
        BY <2>3
      <3>1. Plane!Vanish(n)
        BY DEF Die, Plane!Vanish
      <3> QED
        BY <3>1 DEF Plane!Next
    <2>4. CASE \E n \in Node, p \in Placement :
                 TryPlace(n, p) \/ Releasing(n, p) \/ Sweep(n, p) \/ WorkloadEnds(n, p)
      BY <2>4, CallerOnPlane
    <2>5. CASE UNCHANGED vars
      BY <2>5, SameItems DEF vars
    <2> QED
      BY <2>1, <2>2, <2>3, <2>4, <2>5 DEF Next
  <1> QED
    BY <1>1, <1>2, InvHolds, KnownHolds, PTL DEF Spec, ImplementsTenancy, Plane!TenancySpec

=============================================================================
