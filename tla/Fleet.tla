------------------------------- MODULE Fleet -------------------------------
(***************************************************************************)
(* The Runner path of the placement plane: fleet.Node with Submit,         *)
(* TryPlace, Release, Sweep and the probe answers, on several nodes over   *)
(* one placement topic.                                                    *)
(*                                                                         *)
(* A node has one caller per placement, in TryPlace or in Release, and one *)
(* Sweep at the same time; at[n][p] and sweep[n] say where.  The workload  *)
(* of a launch is a process, a microVM or a pod: it ends when it likes.    *)
(* It also outlives its node, a launch that failed half-way and a handle   *)
(* that was let go after a failed Stop (Runner models that); it is then a  *)
(* stray: it runs, and no handle on it is left.                            *)
(***************************************************************************)
EXTENDS WorkLog

CONSTANTS
  Placement,        \* submitted placements
  ProbeMayBeLost,   \* may a probe of a live owner go unanswered?
  Mortal            \* nodes that may die or go silent

ASSUME FaultsAreChosen ==
  ProbeMayBeLost \in BOOLEAN /\ Mortal \subseteq Node

VARIABLES
  item,       \* the placement topic
  at,         \* where node n's caller for p is
  sweep,      \* what n's Sweep has nominated: the owner it will probe
  silent,     \* the nomination whose probe found nobody
  owned,      \* Node.owned
  listening,  \* is the probe subscription there?
  held,       \* nodes with a handle, and a running workload under it
  strays,     \* nodes with a running workload no handle is left of
  deposed     \* history: nodes whose claim somebody else took away

logVars   == <<item, deposed>>
sweepVars == <<sweep, silent>>
probeVars == <<owned, listening>>
bodyVars  == <<held, strays>>
vars == <<item, at, sweep, silent, owned, listening, held, strays, deposed>>

DoneItem == [status |-> "done", owner |-> None, aged |-> FALSE]

Places == {"idle", "claimed", "won", "launched", "handback",
           "placed", "stopping", "stopped", "unreleased"}

TypeOK ==
  /\ item \in [Placement -> Item \cup {DoneItem}]
  /\ at \in [Node -> [Placement -> Places]]
  /\ sweep \in [Node -> [Placement -> Node \cup {None}]]
  /\ \A n \in Node, p \in Placement : sweep[n][p] # n
  /\ silent \in [Node -> SUBSET Placement]
  /\ owned \in [Node -> SUBSET Placement]
  /\ listening \in [Node -> BOOLEAN]
  /\ held \in [Placement -> SUBSET Node]
  /\ strays \in [Placement -> SUBSET Node]
  /\ deposed \in [Placement -> SUBSET Node]

Init ==
  /\ item = [p \in Placement |-> AbsentItem]
  /\ at = [n \in Node |-> [p \in Placement |-> "idle"]]
  /\ sweep = [n \in Node |-> [p \in Placement |-> None]]
  /\ silent = [n \in Node |-> {}]
  /\ owned = [n \in Node |-> {}]
  /\ listening = [n \in Node |-> FALSE]
  /\ held = [p \in Placement |-> {}]
  /\ strays = [p \in Placement |-> {}]
  /\ deposed = [p \in Placement |-> {}]

-----------------------------------------------------------------------------
(* The record.                                                             *)

Submit(p) ==
  /\ item[p].status = "absent"
  /\ item' = [item EXCEPT ![p] = OpenItem]
  /\ UNCHANGED <<at, sweepVars, probeVars, bodyVars, deposed>>

\* The standing claim on p crosses the reclaim bound.
Age(p) ==
  /\ item[p].status = "claimed"
  /\ ~item[p].aged
  /\ item' = [item EXCEPT ![p] = Older(@)]
  /\ UNCHANGED <<at, sweepVars, probeVars, bodyVars, deposed>>

\* An op lands and makes the item what it is now.  Whoever loses a claim by it
\* and does not mean to is deposed.
Lands(p, it, yielding) ==
  /\ item' = [item EXCEPT ![p] = it]
  /\ deposed' = IF it.owner # item[p].owner /\ item[p].owner \in Node \ yielding
                THEN [deposed EXCEPT ![p] = @ \cup {item[p].owner}]
                ELSE deposed

AbandonWork(p, yielding) == Lands(p, AfterAbandon(item[p]), yielding)

\* The fold of a done by somebody who does not hold the claim is not this
\* repository's: it may close the item or be void.
CompleteWork(n, p) ==
  \/ Lands(p, DoneItem, {n})
  \/ item[p].owner # n /\ UNCHANGED logVars

Goto(n, p, place) == at' = [at EXCEPT ![n][p] = place]

-----------------------------------------------------------------------------
(* TryPlace.                                                               *)

\* The claim is published on a view that may be old when it lands, but not
\* older than the caller's own ops.
ClaimWork(n, p) ==
  /\ at[n][p] = "idle"
  /\ item[p].status # "absent" /\ item[p].owner # n
  /\ Goto(n, p, "claimed")
  /\ item' = [item EXCEPT ![p] = AfterClaim(@, n)]
  /\ deposed' = IF item[p].status = "open"
                THEN [deposed EXCEPT ![p] = @ \ {n}] ELSE deposed
  /\ UNCHANGED <<sweepVars, probeVars, bodyVars>>

\* The claim or the read-back fails: TryPlace returns, a claim that landed
\* stands, and nothing of this node gives it back.
ClaimedError(n, p) ==
  /\ at[n][p] = "claimed"
  /\ Goto(n, p, "idle")
  /\ UNCHANGED <<logVars, sweepVars, probeVars, bodyVars>>

\* Mutation of ReadBack: a published claim is taken for a won one.
ReadBackUnchecked(n, p) ==
  /\ at[n][p] = "claimed"
  /\ Goto(n, p, "won")
  /\ UNCHANGED <<logVars, sweepVars, probeVars, bodyVars>>

\* The log is the arbiter.
ReadBack(n, p) ==
  /\ at[n][p] = "claimed"
  /\ Goto(n, p, IF item[p].owner = n THEN "won" ELSE "idle")
  /\ UNCHANGED <<logVars, sweepVars, probeVars, bodyVars>>

\* Runner.Launch starts the workload; the node answers "no" for it until the
\* launch has returned.
LaunchStarts(n, p) ==
  /\ at[n][p] = "won"
  /\ Goto(n, p, "launched")
  /\ held' = [held EXCEPT ![p] = @ \cup {n}]
  /\ UNCHANGED <<logVars, sweepVars, probeVars, strays>>

LaunchReturns(n, p) ==
  /\ at[n][p] = "launched"
  /\ Goto(n, p, "placed")
  /\ owned' = [owned EXCEPT ![n] = @ \cup {p}]
  /\ UNCHANGED <<logVars, sweepVars, listening, bodyVars>>

LaunchFails(n, p) ==
  /\ at[n][p] = "won"
  /\ Goto(n, p, "handback")
  /\ UNCHANGED <<logVars, sweepVars, probeVars, bodyVars>>

\* What n still runs of p runs on without a handle.
Strand(n, p) ==
  /\ strays' = [strays EXCEPT ![p] = @ \cup (held[p] \cap {n})]
  /\ held' = [held EXCEPT ![p] = @ \ {n}]

\* The workload started and the launch failed after it: Launch returns an error
\* and no handle, and the workload runs on (Runner.ClaimWorkError).
LaunchStrands(n, p) ==
  /\ at[n][p] = "launched"
  /\ Goto(n, p, "handback")
  /\ Strand(n, p)
  /\ UNCHANGED <<logVars, sweepVars, probeVars>>

\* Won it and could not run it, as far as TryPlace knows: whoever's claim stands
\* by now goes, also when the workload of this launch is running.
HandBack(n, p) ==
  /\ at[n][p] = "handback"
  /\ Goto(n, p, "idle")
  /\ AbandonWork(p, {n})
  /\ UNCHANGED <<sweepVars, probeVars, bodyVars>>

HandBackError(n, p) ==
  /\ at[n][p] = "handback"
  /\ Goto(n, p, "idle")
  /\ UNCHANGED <<logVars, sweepVars, probeVars, bodyVars>>

-----------------------------------------------------------------------------
(* Release.                                                                *)

\* The node forgets the placement, then stops the workload and awaits it.  A
\* caller whose Release failed still has its Placement and may call it again.
Release(n, p) ==
  /\ at[n][p] \in {"placed", "unreleased"}
  /\ Goto(n, p, "stopping")
  /\ owned' = [owned EXCEPT ![n] = @ \ {p}]
  /\ UNCHANGED <<logVars, sweepVars, listening, bodyVars>>

\* Mutation of StopReturns: the exit of the workload is not awaited.
StopReturnsUnawaited(n, p) ==
  /\ at[n][p] = "stopping"
  /\ Goto(n, p, "stopped")
  /\ UNCHANGED <<logVars, sweepVars, probeVars, bodyVars>>

StopReturns(n, p) ==
  /\ at[n][p] = "stopping"
  /\ Goto(n, p, "stopped")
  /\ held' = [held EXCEPT ![p] = @ \ {n}]
  /\ UNCHANGED <<logVars, sweepVars, probeVars, strays>>

\* Release returns Stop's error and the claim stands.  The workload may run on
\* (the signal or the delete failed) or be gone (its terminal op failed).
StopFails(n, p) ==
  /\ at[n][p] = "stopping"
  /\ Goto(n, p, "unreleased")
  /\ held' \in {held, [held EXCEPT ![p] = @ \ {n}]}
  /\ UNCHANGED <<logVars, sweepVars, probeVars, strays>>

Complete(n, p) ==
  /\ at[n][p] = "stopped"
  /\ Goto(n, p, "idle")
  /\ CompleteWork(n, p)
  /\ UNCHANGED <<sweepVars, probeVars, bodyVars>>

\* The done fails, landed or not: Release may be called again, however long
\* after, and whoever holds the placement by then.
CompleteError(n, p) ==
  /\ at[n][p] = "stopped"
  /\ Goto(n, p, "unreleased")
  /\ CompleteWork(n, p) \/ UNCHANGED logVars
  /\ UNCHANGED <<sweepVars, probeVars, bodyVars>>

\* The caller drops the Placement its Release failed on (fleet_test.go:139).
LetGo(n, p) ==
  /\ at[n][p] = "unreleased"
  /\ Goto(n, p, "idle")
  /\ Strand(n, p)
  /\ UNCHANGED <<logVars, sweepVars, probeVars>>

-----------------------------------------------------------------------------
(* Sweep and the probes.                                                   *)

\* The probe subscription answers alive for exactly what is owned.
Alive(o, p) == listening[o] /\ p \in owned[o]

\* Mutation of Nominees: a node's own claims are not skipped.
NomineesOwnToo(n) ==
  {p \in Placement : item[p].owner \in Node /\ item[p].aged}

\* Claimed by a peer, and the claim is older than the bound.
Nominees(n) ==
  {p \in Placement : item[p].owner \in Node \ {n} /\ item[p].aged}

\* The pass begins with the one view it has.
Nominate(n) ==
  /\ listening[n]
  /\ sweep[n] = [p \in Placement |-> None] /\ silent[n] = {}
  /\ Nominees(n) # {}
  /\ sweep' = [sweep EXCEPT ![n] = [p \in Placement |->
                 IF p \in Nominees(n) THEN item[p].owner ELSE None]]
  /\ UNCHANGED <<logVars, at, silent, probeVars, bodyVars>>

\* alive: no answer, a refusal or an error is no veto.
Probe(n, p) ==
  /\ sweep[n][p] \in Node /\ silent[n] = {}
  /\ sweep' = [sweep EXCEPT ![n][p] = None]
  /\ \/ Alive(sweep[n][p], p) /\ UNCHANGED silent
     \/ /\ ~Alive(sweep[n][p], p) \/ ProbeMayBeLost
        /\ silent' = [silent EXCEPT ![n] = @ \cup {p}]
  /\ UNCHANGED <<logVars, at, probeVars, bodyVars>>

\* The placement goes back into the race, whoever holds it by now: this node
\* itself, perhaps, through a TryPlace of its own.
Reclaim(n, p) ==
  /\ p \in silent[n]
  /\ silent' = [silent EXCEPT ![n] = @ \ {p}]
  /\ AbandonWork(p, {})
  /\ UNCHANGED <<at, sweep, probeVars, bodyVars>>

\* It fails, landed or not, and with it the rest of the pass.
ReclaimError(n, p) ==
  /\ p \in silent[n]
  /\ silent' = [silent EXCEPT ![n] = {}]
  /\ sweep' = [sweep EXCEPT ![n] = [q \in Placement |-> None]]
  /\ AbandonWork(p, {}) \/ UNCHANGED logVars
  /\ UNCHANGED <<at, probeVars, bodyVars>>

\* Start makes a new, empty owned: a node that goes silent and comes back
\* vouches for nothing it still runs.
Start(n) ==
  /\ ~listening[n]
  /\ listening' = [listening EXCEPT ![n] = TRUE]
  /\ owned' = [owned EXCEPT ![n] = {}]
  /\ UNCHANGED <<logVars, at, sweepVars, bodyVars>>

\* Stop: the probe answers end, and nothing else does.
Stop(n) ==
  /\ n \in Mortal
  /\ listening[n]
  /\ listening' = [listening EXCEPT ![n] = FALSE]
  /\ UNCHANGED <<logVars, at, sweepVars, owned, bodyVars>>

\* The node's process dies.  Its workloads do not, and its claims stand.
Die(n) ==
  /\ n \in Mortal
  /\ at' = [at EXCEPT ![n] = [p \in Placement |-> "idle"]]
  /\ sweep' = [sweep EXCEPT ![n] = [p \in Placement |-> None]]
  /\ silent' = [silent EXCEPT ![n] = {}]
  /\ owned' = [owned EXCEPT ![n] = {}]
  /\ listening' = [listening EXCEPT ![n] = FALSE]
  /\ held' = [p \in Placement |-> held[p] \ {n}]
  /\ strays' = [p \in Placement |-> strays[p] \cup (held[p] \cap {n})]
  /\ deposed' = [p \in Placement |-> deposed[p] \ {n}]
  /\ UNCHANGED <<item>>

\* A workload ends by itself: nothing of the fleet looks at it, and the node
\* goes on answering alive for it until it is released.
WorkloadEnds(n, p) ==
  /\ \/ /\ n \in held[p]
        /\ held' = [held EXCEPT ![p] = @ \ {n}]
        /\ UNCHANGED strays
     \/ /\ n \in strays[p]
        /\ strays' = [strays EXCEPT ![p] = @ \ {n}]
        /\ UNCHANGED held
  /\ UNCHANGED <<logVars, at, sweepVars, probeVars>>

-----------------------------------------------------------------------------
Log(p) == Submit(p) \/ Age(p)

TryPlace(n, p) ==
  \/ ClaimWork(n, p) \/ ClaimedError(n, p) \/ ReadBack(n, p)
  \/ LaunchStarts(n, p) \/ LaunchReturns(n, p)
  \/ LaunchFails(n, p) \/ LaunchStrands(n, p)
  \/ HandBack(n, p) \/ HandBackError(n, p)

Releasing(n, p) ==
  \/ Release(n, p) \/ StopReturns(n, p) \/ StopFails(n, p)
  \/ Complete(n, p) \/ CompleteError(n, p) \/ LetGo(n, p)

Sweep(n, p) == Probe(n, p) \/ Reclaim(n, p) \/ ReclaimError(n, p)

Next ==
  \/ \E p \in Placement : Log(p)
  \/ \E n \in Node : Nominate(n) \/ Start(n) \/ Stop(n) \/ Die(n)
  \/ \E n \in Node, p \in Placement :
       TryPlace(n, p) \/ Releasing(n, p) \/ Sweep(n, p) \/ WorkloadEnds(n, p)

Spec == Init /\ [][Next]_vars

-----------------------------------------------------------------------------
(* Safety.                                                                 *)

Entitled(n, p) == item[p].owner = n \/ n \in deposed[p]

\* n is about to run p, or runs it with a handle.
Running(n, p) == at[n][p] \in {"won", "launched", "placed"} \/ n \in held[p]

\* n stops p and closes it, or may do so again.
Closing(n, p) == at[n][p] \in {"stopping", "stopped", "unreleased"}

\* A node that is about to run a placement, or runs it with a handle, won the
\* claim and either still holds it or has been deposed since.  So did one that
\* releases it, the first time or again after an error (TryPlace, Release): what
\* its done closes is its own claim, or was done before, or is a claim won after
\* a peer took its own away, and never that of a peer who took nothing.
RunnersAreEntitled ==
  \A n \in Node, p \in Placement :
    /\ Running(n, p) => Entitled(n, p)
    /\ Closing(n, p) => Entitled(n, p) \/ item[p].status = "done"

\* Where a workload of p runs, handle or none.
Runs(p) == held[p] \cup strays[p]

\* "The log decides, and exactly one node launches" (fleet.go:5-6), as far as it
\* goes: two nodes run one placement only if one of the two was deposed while it
\* had it, or on its way to it, or what runs there is a stray, left behind by a
\* launch, a release or a process that failed.
SoleRunner ==
  \A p \in Placement : \A n, m \in Runs(p) :
    n = m \/ {n, m} \cap (deposed[p] \cup strays[p]) # {}

\* "The log decides, and exactly one node launches" (fleet.go:5-6), as it is
\* written and with nobody's claim taken away: a launch that failed after its
\* start is handed back by TryPlace while the workload runs, and the next winner
\* launches it again.
ExactlyOneLaunches ==
  \A p \in Placement : \A n, m \in Runs(p) :
    n = m \/ {n, m} \cap deposed[p] # {}

-----------------------------------------------------------------------------
(* Refinement.                                                             *)

Plane == INSTANCE Tenancy WITH
  offered <- {p \in Placement : item[p].status # "absent"},
  holder  <- [p \in Placement |-> item[p].owner],
  hosts   <- held

\* The Runner path keeps the promises of the abstract placement plane, as the
\* dispatcher does: a workload is launched only by a node that holds the claim
\* or was deposed from it, a node has no handle on what it gives back or closes
\* (a stray of its own may run on), and every other loss of a claim is a
\* deposition.
ImplementsTenancy == Plane!TenancySpec

=============================================================================
