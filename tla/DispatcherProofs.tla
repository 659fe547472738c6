-------------------------- MODULE DispatcherProofs --------------------------
(* Proofs about Dispatcher, for every set of nodes, placements and personas *)
(* and whether or not probes may be lost.                                   *)
EXTENDS Dispatcher, TLAPS

-----------------------------------------------------------------------------
(* The record.                                                             *)

\* An item has an owner exactly while it is claimed, and what an abandon or
\* the passing of time leaves is an item again.
LEMMA ItemOps ==
  ASSUME NEW it \in Item
  PROVE  /\ it.status = "claimed" <=> it.owner \in Node
         /\ it.status # "claimed" <=> it.owner = None
         /\ AfterAbandon(it) \in Item
         /\ AfterAbandon(it).owner = None
         /\ it.status = "claimed" =>
              Older(it) \in Item /\ Older(it).owner = it.owner
  <1> USE NoneIsNoNode DEF AbsentItem, OpenItem
  <1>1. OpenItem \in Item /\ OpenItem.owner = None
    BY DEF Item
  <1>2. CASE it \in {AbsentItem, OpenItem}
    <2>1. it.status # "claimed" /\ it.owner = None
      BY <1>2
    <2> QED
      BY <1>1, <1>2, <2>1 DEF AfterAbandon
  <1>3. CASE it \in [status : {"claimed"}, owner : Node, aged : BOOLEAN]
    <2>1. it.status = "claimed" /\ it.owner \in Node
      BY <1>3
    <2>2. AfterAbandon(it) = OpenItem
      BY <2>1 DEF AfterAbandon
    <2>3. Older(it) \in Item /\ Older(it).owner = it.owner
      BY <1>3 DEF Older, Item
    <2> QED
      BY <1>1, <2>1, <2>2, <2>3
  <1> QED
    BY <1>2, <1>3 DEF Item

\* A claim wins an open item and leaves every other as it is.
LEMMA ClaimedItem ==
  ASSUME NEW it \in Item, NEW n \in Node
  PROVE  /\ AfterClaim(it, n) \in Item
         /\ AfterClaim(it, n).owner = IF it.status = "open" THEN n ELSE it.owner
  <1>1. ClaimedBy(n) \in Item /\ ClaimedBy(n).owner = n
    BY DEF Item, ClaimedBy
  <1> QED
    BY <1>1 DEF AfterClaim

\* A claim takes no entitlement away, and changes the owner of its own item
\* alone, from nobody to the claimant.
LEMMA ClaimKeeps ==
  ASSUME TypeOK, NEW n \in Node, NEW q \in Placement, Claim(n, q)
  PROVE  /\ item' \in [Placement -> Item]
         /\ deposed' \in [Placement -> SUBSET Node]
         /\ \A m \in Node, p \in Placement : Entitled(m, p) => Entitled(m, p)'
         /\ \A p \in Placement :
              \/ item'[p].owner = item[p].owner
              \/ p = q /\ item'[p].owner = n
  <1>1. item' \in [Placement -> Item]
    BY ClaimedItem DEF TypeOK, Claim
  <1>2. deposed' \in [Placement -> SUBSET Node]
    BY DEF TypeOK, Claim
  <1>3. \A p \in Placement : item[p] \in Item /\ item'[p] \in Item
    BY <1>1 DEF TypeOK
  <1>4. \A p \in Placement :
          item'[p] = IF p = q THEN AfterClaim(item[q], n) ELSE item[p]
    BY DEF TypeOK, Claim
  <1>5. \A p \in Placement :
              \/ item'[p].owner = item[p].owner
              \/ p = q /\ item'[p].owner = n
    BY <1>3, <1>4, ClaimedItem
  <1>6. \A m \in Node, p \in Placement : Entitled(m, p) => Entitled(m, p)'
    <2> SUFFICES ASSUME NEW m \in Node, NEW p \in Placement, Entitled(m, p)
                 PROVE  Entitled(m, p)'
      OBVIOUS
    <2>1. CASE p = q /\ item[q].status = "open"
      <3>1. item'[p].owner = n
        BY <2>1, <1>3, <1>4, ClaimedItem
      <3>2. m \in deposed[p]
        <4>1. item[q].owner \notin Node
          BY <2>1, <1>3, ItemOps
        <4> QED
          BY <4>1, <2>1 DEF Entitled
      <3>3. m = n \/ m \in deposed'[p]
        BY <3>2, <2>1 DEF TypeOK, Claim
      <3> QED
        BY <3>1, <3>3 DEF Entitled
    <2>2. CASE ~(p = q /\ item[q].status = "open")
      <3>1. item'[p].owner = item[p].owner
        BY <2>2, <1>3, <1>4, ClaimedItem
      <3>2. deposed[p] \subseteq deposed'[p]
        BY <2>2 DEF TypeOK, Claim
      <3> QED
        BY <3>1, <3>2 DEF Entitled
    <2> QED
      BY <2>1, <2>2
  <1> QED
    BY <1>1, <1>2, <1>5, <1>6

\* An abandon takes nobody's entitlement but the sender's own claim, and no
\* item gains an owner by it.
LEMMA AbandonKeeps ==
  ASSUME TypeOK, NEW n \in Node, NEW q \in Placement, Abandon(n, q)
  PROVE  /\ item' \in [Placement -> Item]
         /\ deposed' \in [Placement -> SUBSET Node]
         /\ \A m \in Node, p \in Placement :
              Entitled(m, p) => Entitled(m, p)' \/ (m = n /\ p = q /\ item[q].owner = n)
         /\ \A p \in Placement :
              item'[p].owner = item[p].owner \/ item'[p].owner = None
  <1>1. item' \in [Placement -> Item]
    BY ItemOps DEF TypeOK, Abandon
  <1>2. deposed' \in [Placement -> SUBSET Node]
    BY DEF TypeOK, Abandon
  <1>3. \A p \in Placement : item[p] \in Item /\ item'[p] \in Item
    BY <1>1 DEF TypeOK
  <1>4. \A p \in Placement :
          item'[p] = IF p = q THEN AfterAbandon(item[q]) ELSE item[p]
    BY DEF TypeOK, Abandon
  <1>5. \A p \in Placement :
              item'[p].owner = item[p].owner \/ item'[p].owner = None
    <2>1. AfterAbandon(item[q]).owner = None
      BY <1>3, ItemOps
    <2> QED
      BY <2>1, <1>4
  <1>6. \A m \in Node, p \in Placement :
          Entitled(m, p) => Entitled(m, p)' \/ (m = n /\ p = q /\ item[q].owner = n)
    <2> SUFFICES ASSUME NEW m \in Node, NEW p \in Placement, Entitled(m, p),
                        ~(m = n /\ p = q /\ item[q].owner = n)
                 PROVE  Entitled(m, p)'
      OBVIOUS
    <2>1. deposed[p] \subseteq deposed'[p]
      BY DEF TypeOK, Abandon
    <2>2. CASE p # q
      <3>1. item'[p].owner = item[p].owner
        BY <2>2, <1>4
      <3> QED
        BY <3>1, <2>1 DEF Entitled
    <2>3. CASE p = q /\ item[q].owner = m
      <3>1. m \in deposed'[p]
        BY <2>3 DEF TypeOK, Abandon
      <3> QED
        BY <3>1 DEF Entitled
    <2>4. CASE p = q /\ item[q].owner # m
      BY <2>4, <2>1 DEF Entitled
    <2> QED
      BY <2>2, <2>3, <2>4
  <1> QED
    BY <1>1, <1>2, <1>5, <1>6

-----------------------------------------------------------------------------
(* Types.                                                                  *)

\* What a pass begins with is a set of jobs.
LEMMA JobTypes ==
  ASSUME TypeOK, NEW n \in Node
  PROVE  ScanJobs(n) \subseteq Job /\ SweepJobs(n) \subseteq Job
  <1>1. \A p \in Placement : item[p].status = "claimed" => item[p].owner \in Node
    BY ItemOps DEF TypeOK
  <1>2. ScanJobs(n) \subseteq Job
    BY DEF ScanJobs, Job
  <1>3. SweepJobs(n) \subseteq Job
    BY <1>1 DEF SweepJobs, Job
  <1> QED
    BY <1>2, <1>3

-----------------------------------------------------------------------------
(* The record alone.                                                       *)

\* Inv survives a change of the record by which every entitlement stays and
\* no item passes to a node that may be sweeping.
LEMMA RecordStep ==
  ASSUME Inv,
         item' \in [Placement -> Item],
         deposed' \in [Placement -> SUBSET Node],
         \A m \in Node, p \in Placement : Entitled(m, p) => Entitled(m, p)',
         \A p \in Placement : item'[p].owner \in {item[p].owner, None},
         UNCHANGED <<loopVars, nodeVars>>
  PROVE  Inv'
  <1> USE DEF loopVars, nodeVars
  <1>1. TypeOK' /\ IdleHoldsNothing' /\ ServedIsRunning' /\ OneJobEach'
        /\ OnePersonaPerNode'
    BY DEF Inv, TypeOK, IdleHoldsNothing, ServedIsRunning, OneJobEach,
           OnePersonaPerNode
  <1>2. EnginesAreEntitled'
    BY DEF Inv, EnginesAreEntitled
  <1>3. ASSUME NEW n \in Node, NEW j \in todo[n]
        PROVE  j.item \in Placement
    BY DEF Inv, TypeOK, Job
  <1>4. PassIsGrounded'
    <2> SUFFICES ASSUME NEW n \in Node
                 PROVE  Grounded(n)'
      BY DEF PassIsGrounded
    <2>1. at[n] \in {"abandon", "connect"} => cur[n] \in Placement
      BY DEF Inv, TypeOK, IdleHoldsNothing
    <2> QED
      BY <1>3, <2>1, NoneIsNoNode DEF Inv, PassIsGrounded, Grounded
  <1> QED
    BY <1>1, <1>2, <1>4 DEF Inv

\* A submission (fleet.Submit) touches no claim and no node.
LEMMA SubmitStep ==
  ASSUME Inv, NEW p \in Placement, Submit(p)
  PROVE  Inv'
  <1>1. item[p].owner = None
    BY ItemOps DEF Inv, TypeOK, Submit
  <1>2. OpenItem \in Item /\ OpenItem.owner = None
    BY DEF Item, OpenItem
  <1>3. /\ item' \in [Placement -> Item]
        /\ \A q \in Placement : item'[q].owner = item[q].owner
        /\ UNCHANGED <<deposed, loopVars, nodeVars>>
    BY <1>1, <1>2 DEF Inv, TypeOK, Submit
  <1> QED
    BY <1>3, RecordStep DEF Inv, TypeOK, Entitled

\* A claim coming of age changes neither its owner nor what any node holds.
LEMMA AgeStep ==
  ASSUME Inv, NEW p \in Placement, Age(p)
  PROVE  Inv'
  <1>1. Older(item[p]) \in Item /\ Older(item[p]).owner = item[p].owner
    BY ItemOps DEF Inv, TypeOK, Age
  <1>3. /\ item' \in [Placement -> Item]
        /\ \A q \in Placement : item'[q].owner = item[q].owner
        /\ UNCHANGED <<deposed, loopVars, nodeVars>>
    BY <1>1 DEF Inv, TypeOK, Age
  <1> QED
    BY <1>3, RecordStep DEF Inv, TypeOK, Entitled

-----------------------------------------------------------------------------
(* The engines and the process.                                            *)

\* A pass of n that has a job or a placement in hand is where that job
\* belongs; the placement in hand is a placement.
LEMMA InHand ==
  ASSUME Inv, NEW n \in Node
  PROVE  /\ at[n] \in {"readback", "connect", "abandon"} => cur[n] \in Placement
         /\ at[n] \notin {"readback", "connect", "abandon"} => cur[n] = None
         /\ \A j \in todo[n] : j.item \in Placement /\ j.owner \in Node
  BY DEF Inv, TypeOK, IdleHoldsNothing, Job

\* The end of an engine goroutine and of a backoff: served and the running
\* engines shrink together.
LEMMA EnginesStep ==
  ASSUME Inv, NEW n \in Node, Engines(n)
  PROVE  Inv'
  <1> PICK p \in Placement : EngineStops(n, p) \/ EngineDrained(n, p) \/ BackoffEnds(n, p)
    BY DEF Engines
  <1>1. /\ UNCHANGED <<logVars, loopVars, taking>>
        /\ served' \in [Node -> SUBSET Placement]
        /\ backoff' \in [Node -> SUBSET Placement]
        /\ engine' \in [Node -> [Placement -> {"none", "running", "cancelled"}]]
        /\ \A m \in Node, q \in Placement :
             \/ /\ engine'[m][q] = engine[m][q]
                /\ q \in served'[m] <=> q \in served[m]
             \/ engine'[m][q] = "none" /\ q \notin served'[m]
    <2>1. CASE EngineStops(n, p)
      BY <2>1 DEF EngineStops, Inv, TypeOK
    <2>2. CASE EngineDrained(n, p)
      BY <2>2 DEF EngineDrained, Inv, TypeOK, ServedIsRunning
    <2>3. CASE BackoffEnds(n, p)
      BY <2>3 DEF BackoffEnds, Inv, TypeOK
    <2> QED
      BY <2>1, <2>2, <2>3
  <1> USE <1>1 DEF logVars, loopVars
  <1>2. TypeOK'
    BY DEF Inv, TypeOK
  <1>3. IdleHoldsNothing'
    BY DEF Inv, IdleHoldsNothing, TypeOK
  <1>4. ServedIsRunning'
    BY DEF Inv, ServedIsRunning
  <1>5. OneJobEach'
    BY DEF Inv, OneJobEach
  <1>6. PassIsGrounded'
    BY DEF Inv, PassIsGrounded, Grounded, Entitled
  <1>7. EnginesAreEntitled'
    BY DEF Inv, EnginesAreEntitled, Entitled
  <1>8. OnePersonaPerNode'
    <2>1. \A m \in Node, q \in Placement :
            engine'[m][q] # "none" => engine[m][q] # "none"
      OBVIOUS
    <2> QED
      BY ONLY <2>1, Inv DEF Inv, OnePersonaPerNode
  <1> QED
    BY <1>2, <1>3, <1>4, <1>5, <1>6, <1>7, <1>8 DEF Inv

\* Start, Drain, the stop ceremony and the end of a process: a node that ends
\* holds nothing, and a drained one has no engine that is not cancelled.
LEMMA ProcessStep ==
  ASSUME Inv, NEW n \in Node, Process(n)
  PROVE  Inv'
  <1> USE DEF logVars, loopVars, nodeVars
  <1>1. CASE Start(n)
    <2> USE <1>1 DEF Start
    <2>1. TypeOK'
      BY DEF Inv, TypeOK, Places
    <2>2. IdleHoldsNothing' /\ OneJobEach'
      BY DEF Inv, IdleHoldsNothing, OneJobEach, TypeOK
    <2>3. ServedIsRunning'
      BY DEF Inv, IdleHoldsNothing, ServedIsRunning, TypeOK
    <2>4. PassIsGrounded'
      BY DEF Inv, PassIsGrounded, Grounded, Entitled, TypeOK
    <2>5. EnginesAreEntitled' /\ OnePersonaPerNode'
      BY DEF Inv, EnginesAreEntitled, OnePersonaPerNode, Entitled
    <2> QED
      BY <2>1, <2>2, <2>3, <2>4, <2>5 DEF Inv
  <1>2. CASE Drain(n) \/ DrainOnStop(n)
    <2>1. /\ UNCHANGED <<logVars, todo, cur, backoff>>
          /\ at' = at \/ (at[n] = "select" /\ at' = [at EXCEPT ![n] = "drain"])
          /\ at[n] # "down"
          /\ taking' = [taking EXCEPT ![n] = FALSE]
          /\ served' = [served EXCEPT ![n] = {}]
          /\ engine' = [engine EXCEPT ![n] =
                          [p \in Placement |-> IF p \in served[n] THEN "cancelled"
                                                                  ELSE engine[n][p]]]
      BY <1>2 DEF Drain, DrainOnStop, StopTaking
    <2>2. \A m \in Node, p \in Placement :
            \/ engine'[m][p] = engine[m][p]
            \/ m = n /\ p \in served[n] /\ engine'[m][p] = "cancelled"
      BY <2>1 DEF Inv, TypeOK
    <2>3. \A m \in Node, p \in Placement :
            engine'[m][p] # "none" <=> engine[m][p] # "none"
      BY <2>2 DEF Inv, ServedIsRunning
    <2>4. TypeOK'
      BY <2>1 DEF Inv, TypeOK, Places
    <2>5. IdleHoldsNothing'
      BY <2>1 DEF Inv, IdleHoldsNothing, TypeOK
    <2>6. ServedIsRunning'
      BY <2>1 DEF Inv, ServedIsRunning, TypeOK
    <2>7. OneJobEach'
      BY <2>1 DEF Inv, OneJobEach
    <2>8. PassIsGrounded'
      BY <2>1, <2>3 DEF Inv, PassIsGrounded, Grounded, Entitled, TypeOK, IdleHoldsNothing
    <2>9. EnginesAreEntitled'
      BY <2>1, <2>3 DEF Inv, EnginesAreEntitled, Entitled
    <2>10. OnePersonaPerNode'
      BY <2>3 DEF Inv, OnePersonaPerNode
    <2> QED
      BY <2>4, <2>5, <2>6, <2>7, <2>8, <2>9, <2>10 DEF Inv
  <1>3. CASE RunReturns(n) \/ Crash(n)
    <2>1. ProcessEnds(n)
      BY <1>3 DEF RunReturns, Crash
    <2> USE <2>1 DEF ProcessEnds
    <2>2. TypeOK'
      BY DEF Inv, TypeOK, Places
    <2>3. IdleHoldsNothing' /\ OneJobEach'
      BY DEF Inv, IdleHoldsNothing, OneJobEach, TypeOK
    <2>4. ServedIsRunning'
      BY DEF Inv, ServedIsRunning, TypeOK
    <2>5. \A m \in Node \ {n}, p \in Placement : Entitled(m, p) => Entitled(m, p)'
      BY DEF Inv, Entitled, TypeOK
    <2>6. PassIsGrounded'
      <3>1. Grounded(n)'
        BY DEF Grounded, Inv, TypeOK
      <3>2. ASSUME NEW m \in Node \ {n}
            PROVE  Grounded(m)'
        <4>1. /\ UNCHANGED item
              /\ at'[m] = at[m] /\ todo'[m] = todo[m] /\ cur'[m] = cur[m]
              /\ engine'[m] = engine[m]
          BY DEF Inv, TypeOK
        <4> QED
          BY <4>1, <2>5, InHand DEF Inv, PassIsGrounded, Grounded
      <3> QED
        BY <3>1, <3>2 DEF PassIsGrounded
    <2>7. \A m \in Node, p \in Placement :
            engine'[m][p] # "none" => m # n /\ engine[m][p] # "none"
      BY DEF Inv, TypeOK
    <2>8. EnginesAreEntitled'
      BY <2>5, <2>7 DEF Inv, EnginesAreEntitled
    <2>9. OnePersonaPerNode'
      BY <2>7 DEF Inv, OnePersonaPerNode
    <2> QED
      BY <2>2, <2>3, <2>4, <2>6, <2>8, <2>9 DEF Inv
  <1> QED
    BY <1>1, <1>2, <1>3 DEF Process

-----------------------------------------------------------------------------
(* The loop.                                                               *)

\* A step of n's loop leaves every other node's pass grounded, if what it
\* does to the record takes entitlement from nobody else and gives items to
\* n alone.
LEMMA OtherPasses ==
  ASSUME Inv, NEW n \in Node, NEW m \in Node \ {n},
         \A p \in Placement : Entitled(m, p) => Entitled(m, p)',
         \A p \in Placement : item'[p].owner \in {item[p].owner, None, n},
         at'[m] = at[m], todo'[m] = todo[m], cur'[m] = cur[m],
         engine'[m] = engine[m]
  PROVE  Grounded(m)'
  BY InHand, NoneIsNoNode DEF Inv, PassIsGrounded, Grounded

\* Only n's place, jobs and placement in hand change, and each to a value of
\* its type.
LoopOnly(n) ==
  /\ at' \in [Node -> Places]
  /\ todo' \in [Node -> SUBSET Job]
  /\ cur' \in [Node -> Placement \cup {None}]
  /\ \A m \in Node \ {n} : at'[m] = at[m] /\ todo'[m] = todo[m] /\ cur'[m] = cur[m]

\* What n does to the record: it gives items to n alone, and takes from n
\* alone the title to something it has no engine for.
FairToOthers(n) ==
  /\ item' \in [Placement -> Item]
  /\ deposed' \in [Placement -> SUBSET Node]
  /\ \A p \in Placement : item'[p].owner \in {item[p].owner, None, n}
  /\ \A m \in Node, p \in Placement :
       Entitled(m, p) => Entitled(m, p)' \/ (m = n /\ engine[n][p] = "none")

\* n's own pass after the step.
PassInOrder(n) ==
  /\ at'[n] \notin {"down", "drain"}
  /\ at'[n] = "select" => todo'[n] = {}
  /\ at'[n] \in {"readback", "connect", "abandon"} <=> cur'[n] # None
  /\ \A j, k \in todo'[n] : j.item = k.item => j = k
  /\ \A j \in todo'[n] : j.item # cur'[n]

\* What a step of the loop must establish when it starts no engine.
LEMMA LoopStep ==
  ASSUME Inv, NEW n \in Node,
         at[n] # "down", LoopOnly(n), FairToOthers(n), PassInOrder(n),
         Grounded(n)',
         UNCHANGED <<taking, served, engine>>,
         backoff' \in [Node -> SUBSET Placement]
  PROVE  Inv'
  <1> USE DEF LoopOnly, FairToOthers, PassInOrder
  <1>1. TypeOK'
    BY DEF Inv, TypeOK
  <1>2. IdleHoldsNothing'
    BY DEF Inv, IdleHoldsNothing
  <1>3. ServedIsRunning' /\ OnePersonaPerNode'
    BY DEF Inv, ServedIsRunning, OnePersonaPerNode
  <1>4. OneJobEach'
    BY DEF Inv, OneJobEach
  <1>5. PassIsGrounded'
    <2>1. ASSUME NEW m \in Node \ {n}
          PROVE  Grounded(m)'
      <3>1. \A p \in Placement : Entitled(m, p) => Entitled(m, p)'
        OBVIOUS
      <3>2. engine'[m] = engine[m]
        OBVIOUS
      <3> QED
        BY <3>1, <3>2, OtherPasses
    <2> QED
      BY <2>1 DEF PassIsGrounded
  <1>6. EnginesAreEntitled'
    BY DEF Inv, EnginesAreEntitled
  <1> QED
    BY <1>1, <1>2, <1>3, <1>4, <1>5, <1>6 DEF Inv

\* The case of a step that leaves the record alone.
LEMMA QuietStep ==
  ASSUME Inv, NEW n \in Node, UNCHANGED logVars
  PROVE  FairToOthers(n)
  BY DEF Inv, TypeOK, logVars, Entitled, FairToOthers

\* Both kinds of pass begin grounded in the view they begin with.
LEMMA PassBegins ==
  ASSUME Inv, NEW n \in Node, ScanBegin(n) \/ SweepBegin(n)
  PROVE  Inv'
  <1>1. PICK place \in {"scan", "sweep"}, jobs \in SUBSET Job :
          /\ at' = [at EXCEPT ![n] = place]
          /\ todo' = [todo EXCEPT ![n] = jobs]
          /\ \/ place = "scan" /\ jobs = ScanJobs(n)
             \/ place = "sweep" /\ jobs = SweepJobs(n)
    BY JobTypes DEF ScanBegin, SweepBegin, Inv
  <1>2. /\ UNCHANGED <<logVars, cur, nodeVars>>
        /\ at[n] = "select"
        /\ cur[n] = None
    BY InHand DEF ScanBegin, SweepBegin
  <1>3. cur' = [cur EXCEPT ![n] = None]
    BY <1>2 DEF Inv, TypeOK
  <1>4. /\ \A j, k \in jobs : j.item = k.item => j = k
        /\ \A j \in jobs : j.item \in Placement
    BY <1>1 DEF ScanJobs, SweepJobs
  <1>5. Grounded(n)'
    <2>1. at'[n] = place /\ todo'[n] = jobs
      BY <1>1 DEF Inv, TypeOK
    <2>2. \A j \in jobs :
            \/ j.kind = "probe" /\ place = "sweep" /\ item[j.item].owner # n
            \/ /\ j.kind \in {"resume", "race"} /\ place = "scan"
               /\ j.kind = "resume" => Entitled(n, j.item)
      BY <1>1 DEF ScanJobs, SweepJobs, Entitled
    <2> QED
      BY <2>1, <2>2, <1>1, <1>2 DEF Grounded, Entitled, logVars
  <1>6. LoopOnly(n) /\ PassInOrder(n)
    BY <1>1, <1>2, <1>3, <1>4, NoneIsNoPlacement
       DEF LoopOnly, PassInOrder, Places, Inv, TypeOK
  <1>7. /\ UNCHANGED <<taking, served, engine>>
        /\ backoff' \in [Node -> SUBSET Placement]
    BY <1>2 DEF nodeVars, Inv, TypeOK
  <1> QED
    BY <1>2, <1>5, <1>6, <1>7, QuietStep, LoopStep

\* Moving on from job j keeps a pass in order.
LEMMA AdvanceStep ==
  ASSUME Inv, NEW n \in Node, NEW j \in todo[n], NEW place, NEW p,
         Advance(n, j, place, p),
         \/ place \in {"scan", "sweep"} /\ p = None
         \/ place \in {"readback", "connect", "abandon"} /\ p = j.item
  PROVE  /\ LoopOnly(n)
         /\ PassInOrder(n)
         /\ at'[n] = place /\ todo'[n] = todo[n] \ {j} /\ cur'[n] = p
  <1>1. j.item \in Placement
    BY InHand
  <1>2. place \in Places /\ p \in Placement \cup {None}
    BY <1>1 DEF Places
  <1>3. at'[n] = place /\ todo'[n] = todo[n] \ {j} /\ cur'[n] = p
    BY DEF Advance, Inv, TypeOK
  <1>4. LoopOnly(n)
    BY <1>2 DEF LoopOnly, Advance, Inv, TypeOK
  <1>5. /\ \A k, l \in todo[n] : k.item = l.item => k = l
        /\ \A k \in todo[n] : k.item \in Placement
    BY InHand DEF Inv, OneJobEach
  <1>6. PassInOrder(n)
    BY <1>1, <1>3, <1>5, NoneIsNoPlacement DEF PassInOrder
  <1> QED
    BY <1>3, <1>4, <1>6

\* startServe for a placement the view said n owns: what slotFree tells it is
\* what Connect will rely on.
LEMMA ResumeStep ==
  ASSUME Inv, NEW n \in Node, NEW j \in todo[n], Resume(n, j)
  PROVE  Inv'
  <1>1. /\ at[n] = "scan" /\ j.kind = "resume"
        /\ UNCHANGED <<logVars, nodeVars>>
        /\ j.item \in Placement
    BY InHand DEF Resume
  <1>2. Entitled(n, j.item)
    BY <1>1 DEF Inv, PassIsGrounded, Grounded
  <1>3. /\ Grounded(n)
        /\ FairToOthers(n)
        /\ UNCHANGED <<item, deposed, taking, served, engine>>
        /\ backoff' \in [Node -> SUBSET Placement]
    BY <1>1, QuietStep DEF Inv, PassIsGrounded, logVars, nodeVars, TypeOK
  <1>4. CASE SlotFree(n, j.item)
    <2>1. Advance(n, j, "connect", j.item)
      BY <1>4 DEF Resume
    <2>2. \A q \in Placement :
            PersonaOf[q] = PersonaOf[j.item] => engine[n][q] = "none"
      BY <1>4 DEF SlotFree, PersonaBusy, Inv, ServedIsRunning, TypeOK
    <2>3. Grounded(n)'
      BY <2>1, <2>2, <1>1, <1>2, <1>3, AdvanceStep DEF Grounded, Entitled
    <2> QED
      BY <2>1, <2>3, <1>1, <1>3, AdvanceStep, LoopStep
  <1>5. CASE ~SlotFree(n, j.item)
    <2>1. Advance(n, j, "scan", None)
      BY <1>5 DEF Resume
    <2>2. Grounded(n)'
      BY <2>1, <1>1, <1>3, AdvanceStep DEF Grounded, Entitled
    <2> QED
      BY <2>1, <2>2, <1>1, <1>3, AdvanceStep, LoopStep
  <1> QED
    BY <1>4, <1>5

\* A published claim, won or void, and one that returned an error.
LEMMA RaceStep ==
  ASSUME Inv, NEW n \in Node, NEW j \in todo[n], Race(n, j) \/ RaceClaimError(n, j)
  PROVE  Inv'
  <1>1. /\ at[n] = "scan"
        /\ UNCHANGED nodeVars
        /\ j.item \in Placement
        /\ UNCHANGED logVars \/ Claim(n, j.item)
        /\ Advance(n, j, "scan", None) \/ Advance(n, j, "readback", j.item)
    BY InHand DEF Race, RaceClaimError
  <1>2. /\ FairToOthers(n)
        /\ \A p \in Placement : Entitled(n, p) => Entitled(n, p)'
    <2>1. CASE UNCHANGED logVars
      BY <2>1, QuietStep DEF logVars, Entitled
    <2>2. CASE Claim(n, j.item)
      BY <2>2, <1>1, ClaimKeeps DEF Inv, FairToOthers
    <2> QED
      BY <1>1, <2>1, <2>2
  <1>3. /\ UNCHANGED <<taking, served, engine>>
        /\ backoff' \in [Node -> SUBSET Placement]
    BY <1>1 DEF Inv, nodeVars, TypeOK
  <1>4. /\ LoopOnly(n) /\ PassInOrder(n)
        /\ at'[n] \in {"scan", "readback"} /\ todo'[n] = todo[n] \ {j}
    BY <1>1, AdvanceStep
  <1>5. Grounded(n)'
    <2>1. \A k \in todo[n] : /\ k.item \in Placement
                             /\ k.kind \in {"resume", "race"}
                             /\ k.kind = "resume" => Entitled(n, k.item)
      BY <1>1, InHand DEF Inv, PassIsGrounded, Grounded
    <2> QED
      BY <2>1, <1>2, <1>4 DEF Grounded
  <1> QED
    BY <1>1, <1>2, <1>3, <1>4, <1>5, LoopStep

\* The read-back goes on to connect only for a claim that stands.
LEMMA ReadBackStep ==
  ASSUME Inv, NEW n \in Node, ReadBack(n) \/ ReadBackError(n)
  PROVE  Inv'
  <1>1. /\ at[n] = "readback"
        /\ cur[n] \in Placement
        /\ UNCHANGED <<logVars, nodeVars, todo>>
    BY InHand DEF ReadBack, ReadBackError, BackToScan
  <1>2. /\ Grounded(n)
        /\ FairToOthers(n)
        /\ UNCHANGED <<item, deposed, taking, served, engine>>
        /\ backoff' \in [Node -> SUBSET Placement]
        /\ \A j \in todo[n] : j.item # None
    BY <1>1, QuietStep, InHand, NoneIsNoPlacement
       DEF Inv, PassIsGrounded, logVars, nodeVars, TypeOK
  <1>3. CASE BackToScan(n)
    <2>1. at'[n] = "scan" /\ cur'[n] = None /\ todo' = todo
      BY <1>3 DEF BackToScan, Inv, TypeOK
    <2>2. LoopOnly(n)
      BY <1>3 DEF BackToScan, LoopOnly, Inv, TypeOK, Places
    <2>3. PassInOrder(n)
      BY <2>1, <1>2 DEF PassInOrder, Inv, OneJobEach
    <2>4. Grounded(n)'
      BY <2>1, <1>1, <1>2 DEF Grounded, Entitled
    <2> QED
      BY <2>2, <2>3, <2>4, <1>1, <1>2, LoopStep
  <1>4. CASE ~BackToScan(n)
    <2>1. /\ item[cur[n]].owner = n
          /\ SlotFree(n, cur[n])
          /\ at' = [at EXCEPT ![n] = "connect"]
          /\ UNCHANGED <<todo, cur>>
      BY <1>4 DEF ReadBack, ReadBackError
    <2>2. at'[n] = "connect"
      BY <2>1 DEF Inv, TypeOK
    <2>3. LoopOnly(n)
      BY <2>1 DEF LoopOnly, Inv, TypeOK, Places
    <2>4. PassInOrder(n)
      BY <2>1, <2>2, <1>1, NoneIsNoPlacement DEF PassInOrder, Inv, OneJobEach
    <2>5. \A q \in Placement :
            PersonaOf[q] = PersonaOf[cur[n]] => engine[n][q] = "none"
      BY <2>1 DEF SlotFree, PersonaBusy, Inv, ServedIsRunning, TypeOK
    <2>6. Grounded(n)'
      BY <2>1, <2>2, <2>5, <1>1, <1>2 DEF Grounded, Entitled
    <2> QED
      BY <2>3, <2>4, <2>6, <1>1, <1>2, LoopStep
  <1> QED
    BY <1>3, <1>4

\* A failed start backs off and abandons: the placement is not among those n
\* serves.
LEMMA HandBackStep ==
  ASSUME Inv, NEW n \in Node, HandBack(n)
  PROVE  Inv'
  <1>1. /\ at[n] = "connect"
        /\ cur[n] \in Placement
        /\ UNCHANGED logVars \/ Abandon(n, cur[n])
        /\ BackToScan(n)
        /\ UNCHANGED <<taking, served, engine>>
    BY InHand DEF HandBack
  <1>2. backoff' \in [Node -> SUBSET Placement]
    BY <1>1 DEF HandBack, Inv, TypeOK
  <1>3. engine[n][cur[n]] = "none"
    BY <1>1 DEF Inv, PassIsGrounded, Grounded
  <1>4. /\ FairToOthers(n)
        /\ \A p \in Placement \ {cur[n]} : Entitled(n, p) => Entitled(n, p)'
    <2>1. CASE UNCHANGED logVars
      BY <2>1, QuietStep DEF logVars, Entitled
    <2>2. CASE Abandon(n, cur[n])
      BY <2>2, <1>1, <1>3, AbandonKeeps DEF Inv, FairToOthers
    <2> QED
      BY <1>1, <2>1, <2>2
  <1>5. at'[n] = "scan" /\ cur'[n] = None /\ todo' = todo
    BY <1>1 DEF BackToScan, Inv, TypeOK
  <1>6. LoopOnly(n)
    BY <1>1 DEF BackToScan, LoopOnly, Inv, TypeOK, Places
  <1>7. \A j \in todo[n] : /\ j.item \in Placement \ {cur[n]}
                           /\ j.kind \in {"resume", "race"}
                           /\ j.kind = "resume" => Entitled(n, j.item)
    BY <1>1, InHand DEF Inv, OneJobEach, PassIsGrounded, Grounded
  <1>8. PassInOrder(n)
    BY <1>5, <1>7, NoneIsNoPlacement DEF PassInOrder, Inv, OneJobEach
  <1>9. Grounded(n)'
    BY <1>4, <1>5, <1>7 DEF Grounded
  <1> QED
    BY <1>1, <1>2, <1>4, <1>6, <1>8, <1>9, LoopStep

\* A pass with nothing left to do.
LEMMA PassEndStep ==
  ASSUME Inv, NEW n \in Node, PassEnd(n)
  PROVE  Inv'
  <1>1. /\ at[n] \in {"scan", "sweep"} /\ todo[n] = {} /\ cur[n] = None
        /\ at' = [at EXCEPT ![n] = "select"]
        /\ UNCHANGED <<logVars, todo, cur, taking, served, engine>>
        /\ backoff' \in [Node -> SUBSET Placement]
    BY InHand DEF PassEnd, nodeVars, Inv, TypeOK
  <1>2. at'[n] = "select"
    BY <1>1 DEF Inv, TypeOK
  <1>3. LoopOnly(n)
    BY <1>1 DEF LoopOnly, Inv, TypeOK, Places
  <1>4. PassInOrder(n) /\ Grounded(n)'
    BY <1>1, <1>2 DEF PassInOrder, Grounded
  <1> QED
    BY <1>1, <1>3, <1>4, QuietStep, LoopStep

\* A probe, answered or lost: what goes on to the abandon is not n's own claim.
LEMMA SweepProbeStep ==
  ASSUME Inv, NEW n \in Node, NEW j \in todo[n],
         SweepProbe(n, j) \/ SweepProbeLost(n, j)
  PROVE  Inv'
  <1>1. /\ at[n] = "sweep"
        /\ UNCHANGED <<logVars, nodeVars>>
        /\ Advance(n, j, "sweep", None) \/ Advance(n, j, "abandon", j.item)
    BY DEF SweepProbe, SweepProbeLost
  <1>2. /\ Grounded(n)
        /\ FairToOthers(n)
        /\ UNCHANGED <<item, deposed, taking, served, engine>>
        /\ backoff' \in [Node -> SUBSET Placement]
    BY <1>1, QuietStep DEF Inv, PassIsGrounded, logVars, nodeVars, TypeOK
  <1>3. /\ LoopOnly(n) /\ PassInOrder(n)
        /\ todo'[n] = todo[n] \ {j}
        /\ \/ at'[n] = "sweep"
           \/ at'[n] = "abandon" /\ cur'[n] = j.item
    BY <1>1, AdvanceStep
  <1>4. Grounded(n)'
    BY <1>1, <1>2, <1>3 DEF Grounded
  <1> QED
    BY <1>1, <1>2, <1>3, <1>4, LoopStep

\* A sweep never abandons its own node's claim, so it deposes and does not
\* give back.
LEMMA SweepAbandonStep ==
  ASSUME Inv, NEW n \in Node, SweepAbandon(n) \/ SweepAbandonError(n)
  PROVE  Inv'
  <1>1. /\ at[n] = "abandon"
        /\ cur[n] \in Placement
        /\ item[cur[n]].owner # n
        /\ UNCHANGED logVars \/ Abandon(n, cur[n])
        /\ UNCHANGED nodeVars
    BY InHand DEF SweepAbandon, SweepAbandonError, Inv, PassIsGrounded, Grounded
  <1>2. FairToOthers(n)
    <2>1. CASE UNCHANGED logVars
      BY <2>1, QuietStep
    <2>2. CASE Abandon(n, cur[n])
      BY <2>2, <1>1, AbandonKeeps DEF Inv, FairToOthers
    <2> QED
      BY <1>1, <2>1, <2>2
  <1>3. \A p \in Placement : item'[p].owner \in {item[p].owner, None}
    <2>1. CASE UNCHANGED logVars
      BY <2>1 DEF logVars
    <2>2. CASE Abandon(n, cur[n])
      BY <2>2, <1>1, AbandonKeeps DEF Inv
    <2> QED
      BY <1>1, <2>1, <2>2
  <1>4. /\ UNCHANGED <<taking, served, engine>>
        /\ backoff' \in [Node -> SUBSET Placement]
    BY <1>1 DEF nodeVars, Inv, TypeOK
  <1>5. /\ LoopOnly(n)
        /\ cur'[n] = None
        /\ \/ at'[n] = "sweep" /\ todo'[n] = todo[n]
           \/ at'[n] = "select" /\ todo'[n] = {}
    <2>1. /\ at \in [Node -> Places] /\ cur \in [Node -> Placement \cup {None}]
          /\ todo \in [Node -> SUBSET Job]
      BY DEF Inv, TypeOK
    <2>2. CASE SweepAbandon(n)
      BY <2>1, <2>2 DEF SweepAbandon, LoopOnly, Places
    <2>3. CASE SweepAbandonError(n)
      BY <2>1, <2>3 DEF SweepAbandonError, LoopOnly, Places
    <2> QED
      BY <2>2, <2>3
  <1>6. \A j \in todo[n] : /\ j.item \in Placement
                           /\ j.kind = "probe"
                           /\ item[j.item].owner # n
    BY <1>1, InHand DEF Inv, PassIsGrounded, Grounded
  <1>7. PassInOrder(n)
    BY <1>5, <1>6, NoneIsNoPlacement DEF PassInOrder, Inv, OneJobEach
  <1>8. Grounded(n)'
    BY <1>3, <1>5, <1>6, NoneIsNoNode DEF Grounded
  <1> QED
    BY <1>1, <1>2, <1>4, <1>5, <1>7, <1>8, LoopStep

\* The one step that starts an engine: n won the placement, and nothing of its
\* persona runs.
LEMMA ConnectStep ==
  ASSUME Inv, NEW n \in Node, Connect(n)
  PROVE  Inv'
  <1>1. /\ at[n] = "connect"
        /\ cur[n] \in Placement
        /\ Grounded(n)
        /\ BackToScan(n)
        /\ UNCHANGED <<logVars, taking, backoff>>
    BY InHand DEF Connect, Inv, PassIsGrounded
  <1>2. CASE ~Take(n, cur[n])
    <2>1. /\ UNCHANGED <<taking, served, engine>>
          /\ backoff' \in [Node -> SUBSET Placement]
      BY <1>1, <1>2 DEF Connect, Inv, TypeOK
    <2>2. at'[n] = "scan" /\ cur'[n] = None /\ todo' = todo
      BY <1>1 DEF BackToScan, Inv, TypeOK
    <2>3. LoopOnly(n)
      BY <1>1 DEF BackToScan, LoopOnly, Inv, TypeOK, Places
    <2>4. PassInOrder(n)
      BY <2>2, InHand, NoneIsNoPlacement DEF PassInOrder, Inv, OneJobEach
    <2>5. Grounded(n)'
      BY <1>1, <2>2 DEF Grounded, Entitled, logVars
    <2> QED
      BY <1>1, <2>1, <2>3, <2>4, <2>5, QuietStep, LoopStep
  <1>3. CASE Take(n, cur[n])
    <2>1. /\ served' = [served EXCEPT ![n] = @ \cup {cur[n]}]
          /\ engine' = [engine EXCEPT ![n][cur[n]] = "running"]
          /\ taking[n]
      BY <1>3 DEF Connect, Take
    <2>2. \A m \in Node, p \in Placement :
            engine'[m][p] = IF m = n /\ p = cur[n] THEN "running" ELSE engine[m][p]
      BY <2>1, <1>1 DEF Inv, TypeOK
    <2>3. \A p \in Placement :
            PersonaOf[p] = PersonaOf[cur[n]] => engine[n][p] = "none"
      BY <1>1 DEF Grounded
    <2>4. TypeOK'
      BY <2>1, <1>1 DEF BackToScan, logVars, Inv, TypeOK, Places
    <2>5. IdleHoldsNothing'
      BY <2>1, <1>1 DEF BackToScan, Inv, IdleHoldsNothing, TypeOK
    <2>6. ServedIsRunning'
      BY <2>1, <2>2, <1>1 DEF Inv, ServedIsRunning, TypeOK
    <2>7. OneJobEach'
      BY <1>1, InHand, NoneIsNoPlacement DEF BackToScan, Inv, OneJobEach, TypeOK
    <2>8. PassIsGrounded'
      <3>1. Grounded(n)'
        BY <1>1 DEF BackToScan, Grounded, Entitled, logVars, Inv, TypeOK
      <3>2. ASSUME NEW m \in Node \ {n}
            PROVE  Grounded(m)'
        <4>1. at'[m] = at[m] /\ todo'[m] = todo[m] /\ cur'[m] = cur[m]
          BY <1>1 DEF BackToScan, Inv, TypeOK
        <4>2. engine'[m] = engine[m]
          BY <2>1 DEF Inv, TypeOK
        <4>3. \A p \in Placement : /\ Entitled(m, p) => Entitled(m, p)'
                                   /\ item'[p].owner \in {item[p].owner, None, n}
          BY <1>1 DEF Entitled, logVars
        <4> QED
          BY <4>1, <4>2, <4>3, OtherPasses
      <3> QED
        BY <3>1, <3>2 DEF PassIsGrounded
    <2>9. EnginesAreEntitled'
      BY <2>2, <1>1 DEF Inv, EnginesAreEntitled, Grounded, Entitled, logVars
    <2>10. OnePersonaPerNode'
      BY <2>2, <2>3, <1>1 DEF Inv, OnePersonaPerNode
    <2> QED
      BY <2>4, <2>5, <2>6, <2>7, <2>8, <2>9, <2>10 DEF Inv
  <1> QED
    BY <1>2, <1>3

-----------------------------------------------------------------------------
(* The invariant of the specification.                                     *)

\* The inductive invariant holds before any process starts.
LEMMA InitInv == Init => Inv
  <1> SUFFICES ASSUME Init PROVE Inv
    OBVIOUS
  <1> USE DEF Init
  <1>1. TypeOK
    BY DEF TypeOK, Item, Places
  <1>2. IdleHoldsNothing /\ ServedIsRunning /\ OneJobEach
    BY DEF IdleHoldsNothing, ServedIsRunning, OneJobEach
  <1>3. PassIsGrounded
    BY DEF PassIsGrounded, Grounded
  <1>4. EnginesAreEntitled /\ OnePersonaPerNode
    BY DEF EnginesAreEntitled, OnePersonaPerNode
  <1> QED
    BY <1>1, <1>2, <1>3, <1>4 DEF Inv

\* Every step of Next keeps the inductive invariant.
LEMMA NextInv == Inv /\ [Next]_vars => Inv'
  <1> SUFFICES ASSUME Inv, [Next]_vars PROVE Inv'
    OBVIOUS
  <1>1. ASSUME NEW p \in Placement, Submit(p) \/ Age(p)
        PROVE  Inv'
    BY <1>1, SubmitStep, AgeStep
  <1>2. ASSUME NEW n \in Node, Loop(n)
        PROVE  Inv'
    <2>1. CASE ScanBegin(n) \/ SweepBegin(n)
      BY <2>1, PassBegins
    <2>2. CASE \E j \in todo[n] : Resume(n, j)
      BY <2>2, ResumeStep
    <2>3. CASE \E j \in todo[n] : Race(n, j) \/ RaceClaimError(n, j)
      BY <2>3, RaceStep
    <2>4. CASE ReadBack(n) \/ ReadBackError(n)
      BY <2>4, ReadBackStep
    <2>5. CASE Connect(n)
      BY <2>5, ConnectStep
    <2>6. CASE HandBack(n)
      BY <2>6, HandBackStep
    <2>7. CASE PassEnd(n)
      BY <2>7, PassEndStep
    <2>8. CASE \E j \in todo[n] : SweepProbe(n, j) \/ SweepProbeLost(n, j)
      BY <2>8, SweepProbeStep
    <2>9. CASE SweepAbandon(n) \/ SweepAbandonError(n)
      BY <2>9, SweepAbandonStep
    <2> QED
      BY <1>2, <2>1, <2>2, <2>3, <2>4, <2>5, <2>6, <2>7, <2>8, <2>9 DEF Loop
  <1>3. ASSUME NEW n \in Node, Process(n) \/ Engines(n)
        PROVE  Inv'
    BY <1>3, ProcessStep, EnginesStep
  <1>4. CASE UNCHANGED vars
    <2>1. /\ UNCHANGED <<item, deposed, loopVars, nodeVars>>
          /\ item' \in [Placement -> Item]
          /\ deposed' \in [Placement -> SUBSET Node]
      BY <1>4 DEF vars, loopVars, nodeVars, Inv, TypeOK
    <2>2. /\ \A m \in Node, p \in Placement : Entitled(m, p) => Entitled(m, p)'
          /\ \A p \in Placement : item'[p].owner \in {item[p].owner, None}
      BY <2>1 DEF Entitled
    <2> QED
      BY <2>1, <2>2, RecordStep
  <1> QED
    BY <1>1, <1>2, <1>3, <1>4 DEF Next

\* What every goroutine decided from an old view still holds when it acts on
\* it: the inductive invariant holds in every reachable state.
THEOREM InvHolds == Spec => []Inv
  BY InitInv, NextInv, PTL DEF Spec

-----------------------------------------------------------------------------
(* The properties.                                                         *)

\* Every variable has its type: in particular no pass works on an item that is
\* no placement, and no job names an owner that is no node.
THEOREM TypeCorrect == Spec => []TypeOK
  <1>1. Inv => TypeOK
    BY DEF Inv
  <1> QED
    BY <1>1, InvHolds, PTL

\* No node serves what it did not win, or what it gave back itself.
THEOREM OnlyTheEntitledServe == Spec => []EnginesAreEntitled
  <1>1. Inv => EnginesAreEntitled
    BY DEF Inv
  <1> QED
    BY <1>1, InvHolds, PTL

\* One engine per persona per node, although take does not look at personas.
THEOREM PersonasAreNotShared == Spec => []OnePersonaPerNode
  <1>1. Inv => OnePersonaPerNode
    BY DEF Inv
  <1> QED
    BY <1>1, InvHolds, PTL

\* A placement is served twice only if a peer reclaimed it from a node that
\* still acts on it.
THEOREM ServedOnce == Spec => []SoleHost
  <1>1. Inv => SoleHost
    <2> SUFFICES ASSUME Inv,
                        NEW p \in Placement, deposed[p] = {},
                        NEW n \in Node, NEW m \in Node,
                        engine[n][p] # "none", engine[m][p] # "none"
                 PROVE  n = m
      BY DEF SoleHost
    <2>1. item[p].owner = n /\ item[p].owner = m
      BY DEF Inv, EnginesAreEntitled, Entitled
    <2> QED
      BY <2>1
  <1> QED
    BY <1>1, InvHolds, PTL

\* A node vetoes the reclaim of what it serves and of nothing else.
THEOREM VetoesAreTrue == Spec => []ProbesTellTheTruth
  <1>1. Inv => ProbesTellTheTruth
    BY DEF Inv, ServedIsRunning, IdleHoldsNothing, ProbesTellTheTruth, Alive
  <1> QED
    BY <1>1, InvHolds, PTL

\* After Drain no engine starts: only Connect starts one, and it asks taking
\* under the lock.
THEOREM NothingStartsAfterDrain == Spec => DrainIsFinal
  <1> DEFINE Quiet == \A n \in Node, p \in Placement :
                        ~taking[n] /\ engine[n][p] = "none" => engine'[n][p] = "none"
  <1>1. ASSUME Inv, [Next]_vars
        PROVE  [Quiet]_vars
    <2> SUFFICES ASSUME NEW n \in Node, NEW p \in Placement,
                        ~taking[n], engine[n][p] = "none"
                 PROVE  engine'[n][p] = "none"
      OBVIOUS
    <2> USE DEF nodeVars
    <2>1. CASE UNCHANGED engine
      BY <2>1
    <2>2. ASSUME NEW m \in Node, Connect(m)
          PROVE  engine'[n][p] = "none"
      BY <1>1, <2>2 DEF Connect, Take, Inv, TypeOK
    <2>3. ASSUME NEW m \in Node, Engines(m)
          PROVE  engine'[n][p] = "none"
      BY <1>1, <2>3 DEF Engines, EngineStops, EngineDrained, BackoffEnds, Inv, TypeOK
    <2>4. ASSUME NEW m \in Node, Process(m)
          PROVE  engine'[n][p] = "none"
      <3>1. CASE Start(m)
        BY <3>1 DEF Start
      <3>2. CASE StopTaking(m)
        <4>1. p \notin served[n]
          BY <1>1 DEF Inv, ServedIsRunning
        <4> QED
          BY <3>2, <4>1, <1>1 DEF StopTaking, Inv, TypeOK
      <3>3. CASE ProcessEnds(m)
        BY <3>3, <1>1 DEF ProcessEnds, Inv, TypeOK
      <3> QED
        BY <2>4, <3>1, <3>2, <3>3 DEF Process, Drain, DrainOnStop, RunReturns, Crash
    <2>5. ASSUME NEW m \in Node, Loop(m), ~Connect(m)
          PROVE  UNCHANGED engine
      BY <2>5 DEF Loop, ScanBegin, Resume, Race, RaceClaimError, ReadBack,
                  ReadBackError, HandBack, PassEnd, SweepBegin, SweepProbe,
                  SweepProbeLost, SweepAbandon, SweepAbandonError
    <2>6. ASSUME NEW q \in Placement, Submit(q) \/ Age(q)
          PROVE  UNCHANGED engine
      BY <2>6 DEF Submit, Age
    <2>7. CASE UNCHANGED vars
      BY <2>7, <2>1 DEF vars
    <2> QED
      BY <1>1, <2>1, <2>2, <2>3, <2>4, <2>5, <2>6, <2>7 DEF Next
  <1> QED
    BY <1>1, InvHolds, PTL DEF Spec, DrainIsFinal

-----------------------------------------------------------------------------
(* The dispatchers implement the abstract placement plane.                 *)

\* hosts, as the refinement maps it, for the steps that leave engines alone.
LEMMA SameHosts ==
  ASSUME UNCHANGED engine
  PROVE  UNCHANGED [p \in Placement |-> {n \in Node : engine[n][p] # "none"}]
  OBVIOUS

\* A claim is a win of the abstract plane, or changes nothing of it.
LEMMA ClaimIsWin ==
  ASSUME Inv, NEW n \in Node, NEW q \in Placement, Claim(n, q), UNCHANGED engine
  PROVE  Plane!Win(n, q) \/ UNCHANGED Plane!tenancyVars
  <1>1. \A p \in Placement : /\ item[p] \in Item
                             /\ item'[p] = IF p = q THEN AfterClaim(item[q], n) ELSE item[p]
    BY DEF Claim, Inv, TypeOK
  <1>2. CASE item[q].status = "open"
    <2>1. item'[q] = ClaimedBy(n)
      BY <1>1, <1>2 DEF AfterClaim
    <2>2. item[q].owner = None
      BY <1>1, <1>2, ItemOps
    <2>3. [p \in Placement |-> item'[p].owner]
            = [[p \in Placement |-> item[p].owner] EXCEPT ![q] = n]
      <3>1. \A p \in Placement :
              item'[p].owner = IF p = q THEN n ELSE item[p].owner
        BY <1>1, <2>1 DEF ClaimedBy
      <3> QED
        BY <3>1
    <2>4. {p \in Placement : item'[p].status # "absent"}
            = {p \in Placement : item[p].status # "absent"}
      BY <1>1, <1>2, <2>1 DEF ClaimedBy
    <2>5. deposed' = [deposed EXCEPT ![q] = @ \ {n}]
      BY <1>2 DEF Claim
    <2> QED
      BY <1>2, <2>2, <2>3, <2>4, <2>5, SameHosts DEF Plane!Win
  <1>3. CASE item[q].status # "open"
    <2>1. item' = item /\ deposed' = deposed
      BY <1>3, <1>1 DEF Claim, AfterClaim, Inv, TypeOK
    <2> QED
      BY <2>1, SameHosts DEF Plane!tenancyVars
  <1> QED
    BY <1>2, <1>3

\* An abandon yields what the sender holds and does not host, deposes the peer
\* who holds it, or changes nothing.
LEMMA AbandonIsYieldOrDepose ==
  ASSUME Inv, NEW n \in Node, NEW q \in Placement, Abandon(n, q), UNCHANGED engine,
         item[q].owner = n => engine[n][q] = "none"
  PROVE  \/ Plane!Yield(n, q)
         \/ \E m \in Node : Plane!Depose(m, q)
         \/ UNCHANGED Plane!tenancyVars
  <1>1. \A p \in Placement : /\ item[p] \in Item
                             /\ item'[p] = IF p = q THEN AfterAbandon(item[q]) ELSE item[p]
    BY DEF Abandon, Inv, TypeOK
  <1>2. CASE item[q].status = "claimed"
    <2>1. item'[q] = OpenItem /\ item[q].owner \in Node
      BY <1>1, <1>2, ItemOps DEF AfterAbandon
    <2>2. [p \in Placement |-> item'[p].owner]
            = [[p \in Placement |-> item[p].owner] EXCEPT ![q] = None]
      <3>1. \A p \in Placement :
              item'[p].owner = IF p = q THEN None ELSE item[p].owner
        BY <1>1, <2>1 DEF OpenItem
      <3> QED
        BY <3>1
    <2>3. {p \in Placement : item'[p].status # "absent"}
            = {p \in Placement : item[p].status # "absent"}
      BY <1>1, <1>2, <2>1 DEF OpenItem
    <2>4. CASE item[q].owner = n
      <3>1. deposed' = deposed
        BY <2>4 DEF Abandon
      <3> QED
        BY <2>2, <2>3, <2>4, <3>1, SameHosts DEF Plane!Yield
    <2>5. CASE item[q].owner # n
      <3>1. deposed' = [deposed EXCEPT ![q] = @ \cup {item[q].owner}]
        BY <2>1, <2>5 DEF Abandon
      <3>2. Plane!Depose(item[q].owner, q)
        BY <2>2, <2>3, <3>1, SameHosts DEF Plane!Depose
      <3> QED
        BY <2>1, <3>2
    <2> QED
      BY <2>4, <2>5
  <1>3. CASE item[q].status # "claimed"
    <2>1. item' = item
      BY <1>3, <1>1 DEF Abandon, AfterAbandon, Inv, TypeOK
    <2>2. item[q].owner \notin Node
      BY <1>3, <1>1, ItemOps
    <2>3. deposed' = deposed
      BY <2>2 DEF Abandon
    <2> QED
      BY <2>1, <2>3, SameHosts DEF Plane!tenancyVars
  <1> QED
    BY <1>2, <1>3

\* A step that touches neither the record nor an engine is a stutter.
LEMMA StutterStep ==
  ASSUME UNCHANGED logVars, UNCHANGED engine
  PROVE  UNCHANGED Plane!tenancyVars
  BY SameHosts DEF logVars, Plane!tenancyVars

\* The process of n ends: on the plane, n vanishes.
LEMMA EndIsVanish ==
  ASSUME Inv, NEW n \in Node, ProcessEnds(n)
  PROVE  Plane!Vanish(n)
  <1>1. \A p \in Placement, m \in Node :
          engine'[m][p] = IF m = n THEN "none" ELSE engine[m][p]
    BY DEF ProcessEnds, Inv, TypeOK
  <1>2. \A p \in Placement :
          {m \in Node : engine'[m][p] # "none"}
            = {m \in Node : engine[m][p] # "none"} \ {n}
    BY <1>1
  <1>3. /\ item' = item
        /\ deposed' = [p \in Placement |-> deposed[p] \ {n}]
    BY DEF ProcessEnds
  <1> QED
    BY <1>2, <1>3 DEF Plane!Vanish

\* One engine of n ends: on the plane, n leaves.
LEMMA EngineEndIsLeave ==
  ASSUME Inv, NEW n \in Node, NEW p \in Placement,
         engine[n][p] # "none", engine' = [engine EXCEPT ![n][p] = "none"],
         UNCHANGED logVars
  PROVE  Plane!Leave(n, p)
  <1>1. \A q \in Placement, m \in Node :
          engine'[m][q] = IF m = n /\ q = p THEN "none" ELSE engine[m][q]
    BY DEF Inv, TypeOK
  <1>2. \A q \in Placement :
          {m \in Node : engine'[m][q] # "none"}
            = IF q = p THEN {m \in Node : engine[m][p] # "none"} \ {n}
                       ELSE {m \in Node : engine[m][q] # "none"}
    BY <1>1
  <1>3. [q \in Placement |-> {m \in Node : engine'[m][q] # "none"}]
          = [[q \in Placement |-> {m \in Node : engine[m][q] # "none"}]
               EXCEPT ![p] = {m \in Node : engine[m][p] # "none"} \ {n}]
    BY <1>2
  <1> QED
    BY <1>3 DEF Plane!Leave, logVars

\* One engine of n starts: on the plane, n hosts what it is entitled to.
LEMMA ConnectIsHost ==
  ASSUME Inv, NEW n \in Node, Connect(n)
  PROVE  (\E p \in Placement : Plane!Host(n, p)) \/ UNCHANGED Plane!tenancyVars
  <1>1. /\ cur[n] \in Placement
        /\ Entitled(n, cur[n])
        /\ UNCHANGED logVars
    BY InHand DEF Connect, Inv, PassIsGrounded, Grounded
  <1>2. CASE ~Take(n, cur[n])
    BY <1>1, <1>2, StutterStep DEF Connect
  <1>3. CASE Take(n, cur[n])
    <2> PICK p \in Placement : p = cur[n]
      BY <1>1
    <2>1. \A q \in Placement, m \in Node :
            engine'[m][q] = IF m = n /\ q = p THEN "running" ELSE engine[m][q]
      BY <1>1, <1>3 DEF Connect, Inv, TypeOK
    <2>2. \A q \in Placement :
            {m \in Node : engine'[m][q] # "none"}
              = IF q = p THEN {m \in Node : engine[m][q] # "none"} \cup {n}
                         ELSE {m \in Node : engine[m][q] # "none"}
      BY <2>1
    <2>3. [q \in Placement |-> {m \in Node : engine'[m][q] # "none"}]
            = [[q \in Placement |-> {m \in Node : engine[m][q] # "none"}]
                 EXCEPT ![p] = {m \in Node : engine[m][p] # "none"} \cup {n}]
      BY <2>2
    <2>4. Plane!Host(n, p)
      BY <1>1, <2>3 DEF Plane!Host, Entitled, logVars
    <2> QED
      BY <2>4
  <1> QED
    BY <1>2, <1>3

\* A submission offers; ageing is invisible on the plane.
LEMMA RecordOnPlane ==
  ASSUME Inv, NEW p \in Placement, Submit(p) \/ Age(p)
  PROVE  Plane!Offer(p) \/ UNCHANGED Plane!tenancyVars
  <1> USE DEF nodeVars
  <1>1. \A q \in Placement : item[q] \in Item
    BY DEF Inv, TypeOK
  <1>2. CASE Submit(p)
    <2>1. \A q \in Placement : item'[q] = IF q = p THEN OpenItem ELSE item[q]
      BY <1>2 DEF Submit, Inv, TypeOK
    <2>2. item[p].owner = None
      BY <1>1, <1>2, ItemOps DEF Submit
    <2>3. \A q \in Placement : item'[q].owner = item[q].owner
      BY <2>1, <2>2 DEF OpenItem
    <2>4. {q \in Placement : item'[q].status # "absent"}
            = {q \in Placement : item[q].status # "absent"} \cup {p}
      BY <2>1 DEF OpenItem
    <2> QED
      BY <1>2, <2>3, <2>4, SameHosts DEF Submit, Plane!Offer
  <1>3. CASE Age(p)
    <2>1. \A q \in Placement : item'[q] = IF q = p THEN Older(item[q]) ELSE item[q]
      BY <1>3 DEF Age, Inv, TypeOK
    <2>2. \A q \in Placement : item'[q].owner = item[q].owner
      BY <2>1, <1>1, <1>3, ItemOps DEF Age
    <2>3. \A q \in Placement : item'[q].status # "absent" <=> item[q].status # "absent"
      <3>1. Older(item[p]).status = item[p].status
        BY <1>1, <1>3 DEF Age, Older, Item, AbsentItem, OpenItem
      <3> QED
        BY <2>1, <3>1
    <2> QED
      BY <1>3, <2>2, <2>3, SameHosts DEF Age, Plane!tenancyVars
  <1> QED
    BY <1>2, <1>3

\* A loop step wins, yields, deposes, hosts or stutters.
LEMMA LoopOnPlane ==
  ASSUME Inv, NEW n \in Node, Loop(n)
  PROVE  [Plane!Next]_(Plane!tenancyVars)
  <1> USE DEF nodeVars
  <1>1. CASE Connect(n)
    BY <1>1, ConnectIsHost DEF Plane!Next
  <1>2. ASSUME NEW j \in todo[n], Race(n, j) \/ RaceClaimError(n, j)
        PROVE  [Plane!Next]_(Plane!tenancyVars)
    <2>1. /\ j.item \in Placement
          /\ UNCHANGED engine
          /\ UNCHANGED logVars \/ Claim(n, j.item)
      BY <1>2, InHand DEF Race, RaceClaimError
    <2> QED
      BY <2>1, ClaimIsWin, StutterStep DEF Plane!Next
  <1>3. CASE HandBack(n) \/ SweepAbandon(n) \/ SweepAbandonError(n)
    <2>1. /\ cur[n] \in Placement
          /\ UNCHANGED engine
          /\ UNCHANGED logVars \/ Abandon(n, cur[n])
          /\ item[cur[n]].owner = n => engine[n][cur[n]] = "none"
      BY <1>3, InHand DEF HandBack, SweepAbandon, SweepAbandonError, Inv,
                          PassIsGrounded, Grounded
    <2> QED
      BY <2>1, AbandonIsYieldOrDepose, StutterStep DEF Plane!Next
  <1>4. ASSUME ~Connect(n),
               ~\E j \in todo[n] : Race(n, j) \/ RaceClaimError(n, j),
               ~(HandBack(n) \/ SweepAbandon(n) \/ SweepAbandonError(n))
        PROVE  UNCHANGED logVars /\ UNCHANGED engine
    BY <1>4 DEF Loop, ScanBegin, Resume, ReadBack, ReadBackError, PassEnd,
                SweepBegin, SweepProbe, SweepProbeLost
  <1> QED
    BY <1>1, <1>2, <1>3, <1>4, StutterStep

\* A process or an engine ends, or nothing the plane sees happens: a cancelled
\* engine still hosts.
LEMMA ProcessOnPlane ==
  ASSUME Inv, NEW n \in Node, Process(n) \/ Engines(n)
  PROVE  [Plane!Next]_(Plane!tenancyVars)
  <1>1. CASE Start(n)
    BY <1>1, StutterStep DEF Start
  <1>2. CASE Drain(n) \/ DrainOnStop(n)
    <2>1. StopTaking(n) /\ UNCHANGED logVars
      BY <1>2 DEF Drain, DrainOnStop
    <2>2. \A m \in Node, p \in Placement :
            engine'[m][p] # "none" <=> engine[m][p] # "none"
      BY <2>1 DEF StopTaking, Inv, TypeOK, ServedIsRunning
    <2> QED
      BY <2>1, <2>2 DEF logVars, Plane!tenancyVars
  <1>3. CASE RunReturns(n) \/ Crash(n)
    BY <1>3, EndIsVanish DEF RunReturns, Crash, Plane!Next
  <1>4. CASE Engines(n)
    <2> PICK p \in Placement : EngineStops(n, p) \/ EngineDrained(n, p) \/ BackoffEnds(n, p)
      BY <1>4 DEF Engines
    <2>1. CASE EngineStops(n, p) \/ EngineDrained(n, p)
      <3>1. /\ engine[n][p] # "none"
            /\ engine' = [engine EXCEPT ![n][p] = "none"]
            /\ UNCHANGED logVars
        BY <2>1 DEF EngineStops, EngineDrained
      <3> QED
        BY <3>1, EngineEndIsLeave DEF Plane!Next
    <2>2. CASE BackoffEnds(n, p)
      BY <2>2, StutterStep DEF BackoffEnds
    <2> QED
      BY <2>1, <2>2
  <1> QED
    BY <1>1, <1>2, <1>3, <1>4 DEF Process

\* Every behaviour of the dispatchers is a behaviour of the placement plane:
\* whatever races, sweeps, drains and crashes do, a node hosts only what it
\* holds or was deposed from, and gives back only what it does not host.
THEOREM Refinement == Spec => ImplementsTenancy
  <1>1. Init => Plane!Init
    BY DEF Init, Plane!Init, AbsentItem
  <1>2. Inv /\ [Next]_vars => [Plane!Next]_(Plane!tenancyVars)
    <2> SUFFICES ASSUME Inv, [Next]_vars
                 PROVE  [Plane!Next]_(Plane!tenancyVars)
      OBVIOUS
    <2>1. ASSUME NEW p \in Placement, Submit(p) \/ Age(p)
          PROVE  [Plane!Next]_(Plane!tenancyVars)
      BY <2>1, RecordOnPlane DEF Plane!Next
    <2>2. ASSUME NEW n \in Node, Loop(n) \/ Process(n) \/ Engines(n)
          PROVE  [Plane!Next]_(Plane!tenancyVars)
      BY <2>2, LoopOnPlane, ProcessOnPlane
    <2>3. CASE UNCHANGED vars
      BY <2>3, StutterStep DEF vars, logVars
    <2> QED
      BY <2>1, <2>2, <2>3 DEF Next
  <1> QED
    BY <1>1, <1>2, InvHolds, PTL DEF Spec, ImplementsTenancy, Plane!TenancySpec

=============================================================================
