----------------------------- MODULE Dispatcher -----------------------------
(***************************************************************************)
(* The standing serve loop of dispatcher/dispatcher.go, one per node, over *)
(* one placement topic, with the reclaim pass it borrows from              *)
(* fleet/fleet.go.                                                         *)
(*                                                                         *)
(* Every node runs three kinds of goroutine.  The loop goroutine (Run)     *)
(* takes one pass at a time: a scan (resume what a view says we own, race  *)
(* what it says is open) or a sweep (reclaim a silent peer's placement).   *)
(* at[n] is the place in the pass where it may be overtaken by other       *)
(* nodes, todo[n] what the pass has still to look at - decided from ONE    *)
(* view taken when the pass began - and cur[n] the placement it is         *)
(* working on.  An engine goroutine serves each taken placement.  The      *)
(* probe subscription answers peers, from served[n].                       *)
(***************************************************************************)
EXTENDS WorkLog

CONSTANTS
  Placement,        \* placement items, all engine-servable
  PersonaOf,        \* the persona each placement's declaration names
  ProbeMayBeLost    \* may a probe of a live owner go unanswered?

ASSUME NoneIsNoPlacement == None \notin Placement

ASSUME ProbesAreLossyOrNot == ProbeMayBeLost \in BOOLEAN

VARIABLES
  item,      \* the placement topic: the work item of each placement
  deposed,   \* history: nodes that may still act on a claim a peer took away
  at,        \* where node n's loop goroutine is ("down": no process)
  todo,      \* what is left of its pass
  cur,       \* the placement it is claiming, connecting for or abandoning
  taking,    \* Dispatcher.taking
  served,    \* keys of Dispatcher.served
  backoff,   \* keys of Dispatcher.backoff whose time is not up
  engine     \* the engine goroutine of each placement

loopVars == <<at, todo, cur>>
nodeVars == <<taking, served, backoff, engine>>
logVars  == <<item, deposed>>
vars     == <<item, deposed, at, todo, cur, taking, served, backoff, engine>>

Places == {"down", "select", "scan", "readback", "connect",
           "sweep", "abandon", "drain"}

Job == [kind : {"resume", "race", "probe"}, item : Placement,
        owner : Node]

(***************************************************************************)
(* The type of every variable.                                             *)
(***************************************************************************)
TypeOK ==
  /\ item \in [Placement -> Item]
  /\ deposed \in [Placement -> SUBSET Node]
  /\ at \in [Node -> Places]
  /\ todo \in [Node -> SUBSET Job]
  /\ cur \in [Node -> Placement \cup {None}]
  /\ taking \in [Node -> BOOLEAN]
  /\ served \in [Node -> SUBSET Placement]
  /\ backoff \in [Node -> SUBSET Placement]
  /\ engine \in [Node -> [Placement -> {"none", "running", "cancelled"}]]

Init ==
  /\ item = [p \in Placement |-> AbsentItem]
  /\ deposed = [p \in Placement |-> {}]
  /\ at = [n \in Node |-> "down"]
  /\ todo = [n \in Node |-> {}]
  /\ cur = [n \in Node |-> None]
  /\ taking = [n \in Node |-> FALSE]
  /\ served = [n \in Node |-> {}]
  /\ backoff = [n \in Node |-> {}]
  /\ engine = [n \in Node |-> [p \in Placement |-> "none"]]

-----------------------------------------------------------------------------
(* What a node reads of its own state, under d.mu.                         *)

PersonaBusy(n, p) == \E q \in served[n] : PersonaOf[q] = PersonaOf[p]

\* skipRace: self-selection before a claim is published.
SkipRace(n, p) == p \in served[n] \/ p \in backoff[n] \/ PersonaBusy(n, p)

\* Mutation of SlotFree: the duplicate persona is not refused.
SlotFreeAnyPersona(n, p) == taking[n] /\ p \notin served[n] \cup backoff[n]

\* slotFree: may this placement start an engine now?
SlotFree(n, p) ==
  /\ taking[n]
  /\ p \notin served[n]
  /\ p \notin backoff[n]
  /\ ~PersonaBusy(n, p)

\* Mutation of Take: no second look at taking.
TakeUnchecked(n, p) == p \notin served[n]

\* take: the last look, under the lock that Drain also takes.
Take(n, p) == taking[n] /\ p \notin served[n]

\* Mutation of Alive: the process vouches for everything it was ever given.
AliveWhileUp(n, p) == at[n] # "down"

\* answerProbe: alive for exactly the placements being served right now.
Alive(n, p) == at[n] # "down" /\ p \in served[n]

-----------------------------------------------------------------------------
(* The record.                                                             *)

Submit(p) ==
  /\ item[p].status = "absent"
  /\ item' = [item EXCEPT ![p] = OpenItem]
  /\ UNCHANGED <<deposed, loopVars, nodeVars>>

\* Time passes: the standing claim on p becomes older than the bound.
Age(p) ==
  /\ item[p].status = "claimed"
  /\ ~item[p].aged
  /\ item' = [item EXCEPT ![p] = Older(@)]
  /\ UNCHANGED <<deposed, loopVars, nodeVars>>

\* n publishes a claim on p.  Winning wipes what n lost before.
Claim(n, p) ==
  /\ item' = [item EXCEPT ![p] = AfterClaim(@, n)]
  /\ deposed' = IF item[p].status = "open"
                THEN [deposed EXCEPT ![p] = @ \ {n}]
                ELSE deposed

\* n publishes an abandon on p; the standing claim may not be n's own.
Abandon(n, p) ==
  /\ item' = [item EXCEPT ![p] = AfterAbandon(@)]
  /\ deposed' = IF item[p].owner \in Node \ {n}
                THEN [deposed EXCEPT ![p] = @ \cup {item[p].owner}]
                ELSE deposed

-----------------------------------------------------------------------------
(* Scan: resume, race, read back, serve.                                   *)

\* Mutation of ScanJobs: resume whatever is claimed.
ScanJobsAnyOwner(n) ==
  { [kind |-> "resume", item |-> p, owner |-> n] :
      p \in {q \in Placement : item[q].status = "claimed"} }
  \cup
  { [kind |-> "race", item |-> p, owner |-> n] :
      p \in {q \in Placement : item[q].status = "open"} }

ScanJobs(n) ==
  { [kind |-> "resume", item |-> p, owner |-> n] :
      p \in {q \in Placement : item[q].status = "claimed" /\ item[q].owner = n} }
  \cup
  { [kind |-> "race", item |-> p, owner |-> n] :
      p \in {q \in Placement : item[q].status = "open"} }

\* scan: nothing unless accepting work, otherwise one materialise.
ScanBegin(n) ==
  /\ at[n] = "select"
  /\ taking[n]
  /\ at' = [at EXCEPT ![n] = "scan"]
  /\ todo' = [todo EXCEPT ![n] = ScanJobs(n)]
  /\ UNCHANGED <<logVars, cur, nodeVars>>

\* The pass moves to its next job j, which leaves the loop at `place` on p.
Advance(n, j, place, p) ==
  /\ at' = [at EXCEPT ![n] = place]
  /\ todo' = [todo EXCEPT ![n] = @ \ {j}]
  /\ cur' = [cur EXCEPT ![n] = p]

\* startServe(..., "resume"): the first thing it asks is slotFree.
Resume(n, j) ==
  /\ at[n] = "scan"
  /\ j \in todo[n]
  /\ j.kind = "resume"
  /\ IF SlotFree(n, j.item)
     THEN Advance(n, j, "connect", j.item)
     ELSE Advance(n, j, "scan", None)
  /\ UNCHANGED <<logVars, nodeVars>>

\* race, up to the published claim.
Race(n, j) ==
  /\ at[n] = "scan"
  /\ j \in todo[n]
  /\ j.kind = "race"
  /\ IF SkipRace(n, j.item)
     THEN Advance(n, j, "scan", None) /\ UNCHANGED logVars
     ELSE Advance(n, j, "readback", j.item) /\ Claim(n, j.item)
  /\ UNCHANGED nodeVars

\* ClaimWork returned an error: the claim may have landed all the same.
RaceClaimError(n, j) ==
  /\ at[n] = "scan"
  /\ j \in todo[n]
  /\ j.kind = "race"
  /\ ~SkipRace(n, j.item)
  /\ Advance(n, j, "scan", None)
  /\ Claim(n, j.item) \/ UNCHANGED logVars
  /\ UNCHANGED nodeVars

BackToScan(n) ==
  /\ at' = [at EXCEPT ![n] = "scan"]
  /\ cur' = [cur EXCEPT ![n] = None]
  /\ UNCHANGED todo

\* Mutation of ReadBack: publishing the claim is taken for winning it.
ReadBackUnchecked(n) ==
  /\ at[n] = "readback"
  /\ IF SlotFree(n, cur[n])
     THEN at' = [at EXCEPT ![n] = "connect"] /\ UNCHANGED <<todo, cur>>
     ELSE BackToScan(n)
  /\ UNCHANGED <<logVars, nodeVars>>

\* The read-back: claiming is never winning.  Won, startServe asks slotFree.
ReadBack(n) ==
  /\ at[n] = "readback"
  /\ IF /\ item[cur[n]].status = "claimed"
        /\ item[cur[n]].owner = n
        /\ SlotFree(n, cur[n])
     THEN at' = [at EXCEPT ![n] = "connect"] /\ UNCHANGED <<todo, cur>>
     ELSE BackToScan(n)
  /\ UNCHANGED <<logVars, nodeVars>>

\* The read-back failed: the claim stands, unserved until the next scan.
ReadBackError(n) ==
  /\ at[n] = "readback"
  /\ BackToScan(n)
  /\ UNCHANGED <<logVars, nodeVars>>

\* ConnectAgent, EngineFor and DeclaredConfig succeeded; take, or find that
\* a drain landed meanwhile.  The record is not looked at again.
Connect(n) ==
  /\ at[n] = "connect"
  /\ IF Take(n, cur[n])
     THEN /\ served' = [served EXCEPT ![n] = @ \cup {cur[n]}]
          /\ engine' = [engine EXCEPT ![n][cur[n]] = "running"]
     ELSE UNCHANGED <<served, engine>>
  /\ BackToScan(n)
  /\ UNCHANGED <<logVars, taking, backoff>>

\* One of the three failed: handBack backs off and abandons.  The abandon
\* itself may fail, landed or not.
HandBack(n) ==
  /\ at[n] = "connect"
  /\ backoff' = [backoff EXCEPT ![n] = @ \cup {cur[n]}]
  /\ Abandon(n, cur[n]) \/ UNCHANGED logVars
  /\ BackToScan(n)
  /\ UNCHANGED <<taking, served, engine>>

\* A pass with nothing left returns to the select.
PassEnd(n) ==
  /\ at[n] \in {"scan", "sweep"}
  /\ todo[n] = {}
  /\ at' = [at EXCEPT ![n] = "select"]
  /\ UNCHANGED <<logVars, todo, cur, nodeVars>>

-----------------------------------------------------------------------------
(* Sweep (fleet.Node.Sweep): projection nominates, a probe vetoes, an      *)
(* abandon reopens.                                                        *)

\* Mutation of SweepJobs: the status of an item is not looked at.
SweepJobsAnyStatus(n) ==
  { [kind |-> "probe", item |-> p, owner |-> item[p].owner] :
      p \in {q \in Placement : item[q].owner # n} }

\* Mutation of SweepJobs: a node nominates its own claims too.
SweepJobsOwnToo(n) ==
  { [kind |-> "probe", item |-> p, owner |-> item[p].owner] :
      p \in {q \in Placement : item[q].status = "claimed" /\ item[q].aged} }

SweepJobs(n) ==
  { [kind |-> "probe", item |-> p, owner |-> item[p].owner] :
      p \in {q \in Placement : /\ item[q].status = "claimed"
                               /\ item[q].owner # n
                               /\ item[q].aged} }

SweepBegin(n) ==
  /\ at[n] = "select"
  /\ at' = [at EXCEPT ![n] = "sweep"]
  /\ todo' = [todo EXCEPT ![n] = SweepJobs(n)]
  /\ UNCHANGED <<logVars, cur, nodeVars>>

\* alive: the owner the VIEW named is asked.
SweepProbe(n, j) ==
  /\ at[n] = "sweep"
  /\ j \in todo[n]
  /\ IF Alive(j.owner, j.item)
     THEN Advance(n, j, "sweep", None)
     ELSE Advance(n, j, "abandon", j.item)
  /\ UNCHANGED <<logVars, nodeVars>>

\* No answer inside the probe timeout reads as not-alive, whoever is alive.
SweepProbeLost(n, j) ==
  /\ ProbeMayBeLost
  /\ at[n] = "sweep"
  /\ j \in todo[n]
  /\ Alive(j.owner, j.item)
  /\ Advance(n, j, "abandon", j.item)
  /\ UNCHANGED <<logVars, nodeVars>>

\* The abandon names the item, not the claim that was nominated.
SweepAbandon(n) ==
  /\ at[n] = "abandon"
  /\ Abandon(n, cur[n])
  /\ at' = [at EXCEPT ![n] = "sweep"]
  /\ cur' = [cur EXCEPT ![n] = None]
  /\ UNCHANGED <<todo, nodeVars>>

\* An error publishing it ends the pass, landed or not.
SweepAbandonError(n) ==
  /\ at[n] = "abandon"
  /\ Abandon(n, cur[n]) \/ UNCHANGED logVars
  /\ at' = [at EXCEPT ![n] = "select"]
  /\ todo' = [todo EXCEPT ![n] = {}]
  /\ cur' = [cur EXCEPT ![n] = None]
  /\ UNCHANGED nodeVars

-----------------------------------------------------------------------------
(* Engines, backoff.                                                       *)

\* Mutation of EngineStops: the placement is backed off and not released.
EngineStopsStillServed(n, p) ==
  /\ engine[n][p] = "running"
  /\ engine' = [engine EXCEPT ![n][p] = "none"]
  /\ backoff' = [backoff EXCEPT ![n] = @ \cup {p}]
  /\ UNCHANGED <<logVars, loopVars, taking, served>>

\* The engine returned on its own: release.
EngineStops(n, p) ==
  /\ engine[n][p] = "running"
  /\ engine' = [engine EXCEPT ![n][p] = "none"]
  /\ served' = [served EXCEPT ![n] = @ \ {p}]
  /\ backoff' = [backoff EXCEPT ![n] = @ \cup {p}]
  /\ UNCHANGED <<logVars, loopVars, taking>>

\* The engine returned because the stop ceremony cancelled it.
EngineDrained(n, p) ==
  /\ engine[n][p] = "cancelled"
  /\ engine' = [engine EXCEPT ![n][p] = "none"]
  /\ UNCHANGED <<logVars, loopVars, taking, served, backoff>>

BackoffEnds(n, p) ==
  /\ p \in backoff[n]
  /\ backoff' = [backoff EXCEPT ![n] = @ \ {p}]
  /\ UNCHANGED <<logVars, loopVars, taking, served, engine>>

-----------------------------------------------------------------------------
(* The process.                                                            *)

\* Run: start() makes fresh maps; the record is the only position.
Start(n) ==
  /\ at[n] = "down"
  /\ at' = [at EXCEPT ![n] = "select"]
  /\ taking' = [taking EXCEPT ![n] = TRUE]
  /\ UNCHANGED <<logVars, todo, cur, served, backoff, engine>>

\* Drain's critical section: stop taking, forget the served, cancel each.
StopTaking(n) ==
  /\ taking' = [taking EXCEPT ![n] = FALSE]
  /\ engine' = [engine EXCEPT ![n] =
                  [p \in Placement |-> IF p \in served[n] THEN "cancelled"
                                                          ELSE engine[n][p]]]
  /\ served' = [served EXCEPT ![n] = {}]
  /\ UNCHANGED backoff

\* Drain called by another goroutine, at any point of the loop's pass.
Drain(n) ==
  /\ at[n] \notin {"down", "drain"}
  /\ taking[n]
  /\ StopTaking(n)
  /\ UNCHANGED <<logVars, loopVars>>

\* ctx ended: the loop sees it in the select and drains.
DrainOnStop(n) ==
  /\ at[n] = "select"
  /\ at' = [at EXCEPT ![n] = "drain"]
  /\ StopTaking(n)
  /\ UNCHANGED <<logVars, todo, cur>>

\* The process is gone and everything it held with it: what the log says is
\* all that is left, so n no longer acts on a claim it lost.
ProcessEnds(n) ==
  /\ at' = [at EXCEPT ![n] = "down"]
  /\ todo' = [todo EXCEPT ![n] = {}]
  /\ cur' = [cur EXCEPT ![n] = None]
  /\ taking' = [taking EXCEPT ![n] = FALSE]
  /\ served' = [served EXCEPT ![n] = {}]
  /\ backoff' = [backoff EXCEPT ![n] = {}]
  /\ engine' = [engine EXCEPT ![n] = [p \in Placement |-> "none"]]
  /\ deposed' = [p \in Placement |-> deposed[p] \ {n}]
  /\ UNCHANGED item

\* Drain waited for every engine, Run returns nil and the process ends.
RunReturns(n) ==
  /\ at[n] = "drain"
  /\ \A p \in Placement : engine[n][p] = "none"
  /\ ProcessEnds(n)

\* DrainTimeout passed, or the process died: engines die where they are.
Crash(n) ==
  /\ at[n] # "down"
  /\ ProcessEnds(n)

-----------------------------------------------------------------------------
Loop(n) ==
  \/ ScanBegin(n)
  \/ \E j \in todo[n] : Resume(n, j)
  \/ \E j \in todo[n] : Race(n, j)
  \/ \E j \in todo[n] : RaceClaimError(n, j)
  \/ ReadBack(n)
  \/ ReadBackError(n)
  \/ Connect(n)
  \/ HandBack(n)
  \/ PassEnd(n)
  \/ SweepBegin(n)
  \/ \E j \in todo[n] : SweepProbe(n, j)
  \/ \E j \in todo[n] : SweepProbeLost(n, j)
  \/ SweepAbandon(n)
  \/ SweepAbandonError(n)

Process(n) ==
  \/ Start(n)
  \/ Drain(n)
  \/ DrainOnStop(n)
  \/ RunReturns(n)
  \/ Crash(n)

Engines(n) ==
  \E p \in Placement : EngineStops(n, p) \/ EngineDrained(n, p) \/ BackoffEnds(n, p)

Next ==
  \/ \E p \in Placement : Submit(p) \/ Age(p)
  \/ \E n \in Node : Loop(n) \/ Process(n) \/ Engines(n)

Spec == Init /\ [][Next]_vars

-----------------------------------------------------------------------------
(* Safety.                                                                 *)

\* n holds the standing claim, or a peer took it away and n has not yet
\* had the occasion to find out.
Entitled(n, p) == item[p].owner = n \/ n \in deposed[p]

\* An engine runs only on a placement its node won, and the claim it won by
\* ends under a running engine only because a PEER abandoned it: no race, no
\* resume from an old view, no hand-back and no drain makes a node serve what
\* the record never gave it or what it gave back itself.
EnginesAreEntitled ==
  \A n \in Node, p \in Placement : engine[n][p] # "none" => Entitled(n, p)

\* Two engines of one node never share a persona, the cancelled ones included
\* ("two engines on one credential would race the same outcome ids"): take
\* does not look at personas, so this rests on slotFree and on who calls it.
OnePersonaPerNode ==
  \A n \in Node, p, q \in Placement :
    /\ engine[n][p] # "none"
    /\ engine[n][q] # "none"
    /\ PersonaOf[p] = PersonaOf[q]
    => p = q

\* While no node acts on a claim a peer took away, a placement has one engine
\* at most, on one node: two engines need a reclaim of a live owner.
SoleHost ==
  \A p \in Placement :
    deposed[p] = {} =>
      \A n, m \in Node : engine[n][p] # "none" /\ engine[m][p] # "none" => n = m

\* A probe is answered "alive" exactly while an uncancelled engine runs: a
\* node vetoes the reclaim of what it serves and of nothing else.
ProbesTellTheTruth ==
  \A n \in Node, p \in Placement : Alive(n, p) <=> engine[n][p] = "running"

\* Once Drain has begun no engine starts, also when it lands between
\* startServe's checks and its end.
DrainIsFinal ==
  [][\A n \in Node, p \in Placement :
       ~taking[n] /\ engine[n][p] = "none" => engine'[n][p] = "none"]_vars

\* The log decides, and exactly one node serves a placement (fleet.go:5).
AtMostOneServer ==
  \A n, m \in Node, p \in Placement : p \in served[n] \cap served[m] => n = m

-----------------------------------------------------------------------------
(* Why it is safe: what a pass decided from its view still holds when the  *)
(* pass acts on it, whatever the other goroutines and nodes did meanwhile. *)

\* A node without a process holds nothing, and outside a pass nothing is left
\* to do.
IdleHoldsNothing ==
  \A n \in Node :
    /\ at[n] = "down" => /\ ~taking[n]
                         /\ served[n] = {}
                         /\ \A p \in Placement : engine[n][p] = "none"
    /\ at[n] \in {"down", "select", "drain"} => todo[n] = {}
    /\ at[n] = "drain" => ~taking[n]
    /\ at[n] \in {"readback", "connect", "abandon"} <=> cur[n] # None

\* served is the set of running engines, and none is cancelled while the
\* node takes work: so the personas of served are all the personas in use.
ServedIsRunning ==
  \A n \in Node, p \in Placement :
    /\ p \in served[n] <=> engine[n][p] = "running"
    /\ taking[n] => engine[n][p] # "cancelled"

\* A pass looks at each placement once.
OneJobEach ==
  \A n \in Node :
    /\ \A j, k \in todo[n] : j.item = k.item => j = k
    /\ \A j \in todo[n] : j.item # cur[n]

\* The pass of n is one it may act on: nothing left to resume was given back
\* by n itself, nothing left to sweep is n's own claim, and what n is about to
\* start it won and finds no engine for.
Grounded(n) ==
  /\ \A j \in todo[n] :
       \/ /\ j.kind = "probe"
          /\ at[n] \in {"sweep", "abandon"}
          /\ item[j.item].owner # n
       \/ /\ j.kind \in {"resume", "race"}
          /\ at[n] \in {"scan", "readback", "connect"}
          /\ j.kind = "resume" => Entitled(n, j.item)
  /\ at[n] = "abandon" => item[cur[n]].owner # n
  /\ at[n] = "connect" =>
       /\ Entitled(n, cur[n])
       /\ \A p \in Placement :
            PersonaOf[p] = PersonaOf[cur[n]] => engine[n][p] = "none"

PassIsGrounded == \A n \in Node : Grounded(n)

\* The inductive invariant.
Inv ==
  /\ TypeOK
  /\ IdleHoldsNothing
  /\ ServedIsRunning
  /\ OneJobEach
  /\ PassIsGrounded
  /\ EnginesAreEntitled
  /\ OnePersonaPerNode

-----------------------------------------------------------------------------
(* Refinement.                                                             *)

Plane == INSTANCE Tenancy WITH
  offered <- {p \in Placement : item[p].status # "absent"},
  holder  <- [p \in Placement |-> item[p].owner],
  hosts   <- [p \in Placement |-> {n \in Node : engine[n][p] # "none"}],
  strays  <- [p \in Placement |-> {}]

\* Every behaviour of the dispatchers is one of the abstract placement plane:
\* each step is a win, a yield of something not hosted, a deposition, the
\* start or end of one engine by an entitled node, or the end of a process.  An
\* engine is a goroutine and ends with its process: it leaves no stray.
ImplementsTenancy == Plane!TenancySpec

-----------------------------------------------------------------------------
(* Liveness.                                                               *)

\* The tickers keep asking for both kinds of pass, a pass that began goes on,
\* a backoff runs out and a claim grows old.
Fairness(n) ==
  /\ SF_vars(ScanBegin(n))
  /\ SF_vars(SweepBegin(n))
  /\ WF_vars(\E j \in todo[n] : Resume(n, j) \/ Race(n, j) \/ SweepProbe(n, j))
  /\ WF_vars(ReadBack(n))
  /\ WF_vars(Connect(n))
  /\ WF_vars(SweepAbandon(n))
  /\ WF_vars(PassEnd(n))
  /\ \A p \in Placement : WF_vars(BackoffEnds(n, p))

\* A start slower than the reclaim bound: the claim comes of age while its
\* node is still reading back or connecting.
SlowStart(p) ==
  /\ Age(p)
  /\ \E n \in Node : at[n] \in {"readback", "connect"} /\ cur[n] = p

\* What can go wrong around the code.
Fault ==
  \/ \E p \in Placement : SlowStart(p)
  \/ \E n \in Node :
       \/ ReadBackError(n) /\ item[cur[n]].owner = n
       \/ HandBack(n) \/ SweepAbandonError(n)
       \/ Drain(n) \/ DrainOnStop(n) \/ Crash(n)
       \/ \E j \in todo[n] : RaceClaimError(n, j) \/ SweepProbeLost(n, j)

\* The nodes of Steady are eventually up and taking work, and are scheduled;
\* faults eventually stop.  Of the other nodes nothing is assumed: one may
\* stay down, or hang for ever at any point of a pass while its process lives.
SteadyNodes(Steady) ==
  /\ \A p \in Placement : WF_vars(Age(p))
  /\ \A n \in Steady : Fairness(n) /\ <>[]taking[n]
  /\ <>[][~Fault]_vars

\* Submit and forget: whenever a submitted placement is not served, some node
\* eventually serves it, also when its owner died, hung before serving it,
\* or handed it back.
SubmittedIsServed ==
  \A p \in Placement :
    item[p].status # "absent" ~> \E n \in Node : p \in served[n]

=============================================================================
