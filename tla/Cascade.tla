------------------------------ MODULE Cascade ------------------------------
(***************************************************************************)
(* Declared agents that wake each other in one topic: from the submitted   *)
(* declaration to the config, the wake, its budget and the outcomes that   *)
(* are triggers again.  The engines' queues, retries and redeliveries are  *)
(* WakeEngine's; here any trigger may be delivered to an agent at any time *)
(* and any number of times, and an agent works one wake at a time.         *)
(*                                                                         *)
(* An op's id is the sequence <<k>> when nothing binds it (a human's post  *)
(* or one a harness made with a tool of its own: the k-th op of the topic) *)
(* and Append(trigger's id, persona) when it is the outcome of a wake: a   *)
(* UUIDv5 that only its inputs yield.                                      *)
(***************************************************************************)
EXTENDS Declared, FiniteSets

CONSTANTS
  Persona,       \* agents
  Human,         \* who asks
  Offered,       \* declarations somebody submits
  PerRun,        \* bound: turns a harness posts by itself in one run
  MaxAsks,       \* bound: posts by the human
  MaxTurns       \* bound: turns in the topic

ASSUME CascadeAssumption ==
  /\ Human \notin Persona
  /\ {PerRun, MaxAsks, MaxTurns} \subseteq Nat

ASSUME PersonasAreFinite == IsFiniteSet(Persona)

ASSUME BudgetsAreNumbers ==
  \A d \in Offered : d.budget # Unset => d.budget.hops \in Int /\ d.budget.max \in Int

VARIABLES
  decl,     \* the declaration submitted for a persona, or Unset
  stage,    \* where its placement is
  stream,   \* the topic's turns: id, author, and the personas they tap
  gone,     \* how many of them a rollup took out of the view
  cut,      \* how many of them are older than the window
  at,       \* what p's engine is doing
  wake,     \* the op it works on
  posted    \* turns of this run's harness

placementVars == <<decl, stage>>
topicVars     == <<stream, gone>>
engineVars    == <<at, wake, posted>>
vars == <<decl, stage, stream, gone, cut, at, wake, posted>>

Op == 1..Len(stream)

Turn == [id     : Seq(Nat \cup Persona),
         author : Persona \cup {Human},
         taps   : SUBSET Persona]

TypeOK ==
  /\ decl \in [Persona -> Offered \cup {Unset}]
  /\ stage \in [Persona -> {"draft", "rejected", "open", "claimed", "served"}]
  /\ stream \in Seq(Turn)
  /\ gone \in 0..Len(stream)
  /\ cut \in 0..Len(stream)
  /\ at \in [Persona -> {"idle", "refused", "run"}]
  /\ wake \in [Persona -> Nat]
  /\ \A p \in Persona : at[p] # "idle" => stage[p] = "served" /\ wake[p] \in Op
  /\ posted \in [Persona -> 0..PerRun]
  /\ \A p \in Persona : stage[p] = "served" =>
       Enforced(decl[p]) \in [hops : Nat, max : Nat]

Init ==
  /\ decl = [p \in Persona |-> Unset]
  /\ stage = [p \in Persona |-> "draft"]
  /\ stream = <<>>
  /\ gone = 0
  /\ cut = 0
  /\ at = [p \in Persona |-> "idle"]
  /\ wake = [p \in Persona |-> 0]
  /\ posted = [p \in Persona |-> 0]

-----------------------------------------------------------------------------
(* Submission and serve.                                                   *)

Submit(p, d) ==
  /\ stage[p] = "draft"
  /\ decl' = [decl EXCEPT ![p] = d]
  /\ stage' = [stage EXCEPT ![p] = IF Validate(d) THEN "open" ELSE "rejected"]
  /\ UNCHANGED <<topicVars, cut, engineVars>>

\* The race: a dispatcher leaves alone what the wake engine cannot serve.
Claim(p) ==
  /\ stage[p] = "open"
  /\ Servable(decl[p])
  /\ stage' = [stage EXCEPT ![p] = "claimed"]
  /\ UNCHANGED <<decl, topicVars, cut, engineVars>>

Serve(p) ==
  /\ stage[p] = "claimed"
  /\ Runnable(decl[p])
  /\ stage' = [stage EXCEPT ![p] = "served"]
  /\ UNCHANGED <<decl, topicVars, cut, engineVars>>

\* Never half-served: back into the race, where the next node does the same.
HandBack(p) ==
  /\ stage[p] = "claimed"
  /\ ~Runnable(decl[p])
  /\ stage' = [stage EXCEPT ![p] = "open"]
  /\ UNCHANGED <<decl, topicVars, cut, engineVars>>

-----------------------------------------------------------------------------
(* The walker and the budget.                                              *)

View == gone + 1 .. Len(stream)

WakeOpID(trigger, persona) == Append(stream[trigger].id, persona)

\* The op in the view whose outcome k is.
ParentsOf(k) == {c \in View \ {k} : WakeOpID(c, stream[k].author) = stream[k].id}

\* The length of ChainToRoot, less one.  A trigger that has left the view still
\* walks from its id.
ProvableHops(op) ==
  LET hops[k \in Op] ==
        IF ParentsOf(k) = {} THEN 0
        ELSE 1 + hops[CHOOSE c \in ParentsOf(k) : TRUE]
  IN  hops[op]

OwnTurns(p) == {k \in View : stream[k].author = p /\ k > cut}

\* Mutation of BudgetDecision: the depth bound counts the trigger.
TriggerDepth(b, trigger, p) ==
  \/ b.hops > 0 /\ ProvableHops(trigger) > b.hops
  \/ b.max > 0 /\ Cardinality(OwnTurns(p)) >= b.max

\* Mutation of BudgetDecision: one turn more.
WindowTooLate(b, trigger, p) ==
  \/ b.hops > 0 /\ ProvableHops(trigger) + 1 > b.hops
  \/ b.max > 0 /\ Cardinality(OwnTurns(p)) > b.max

\* TRUE refuses.
BudgetDecision(b, trigger, p) ==
  \/ b.hops > 0 /\ ProvableHops(trigger) + 1 > b.hops
  \/ b.max > 0 /\ Cardinality(OwnTurns(p)) >= b.max

-----------------------------------------------------------------------------
(* The topic.                                                              *)

Post(id, author, taps) ==
  /\ Len(stream) < MaxTurns
  /\ stream' = Append(stream, [id |-> id, author |-> author, taps |-> taps])

FreshId == <<Len(stream) + 1>>

\* Bound: the human waits until every agent is served.
Ask(taps) ==
  /\ \A p \in Persona : stage[p] = "served"
  /\ Cardinality({k \in Op : stream[k].author = Human}) < MaxAsks
  /\ Post(FreshId, Human, taps)
  /\ UNCHANGED <<placementVars, gone, cut, engineVars>>

\* The ops so far fold into a summary.  Bound: once.
RollUp ==
  /\ gone = 0 /\ stream # <<>>
  /\ gone' = Len(stream)
  /\ UNCHANGED <<placementVars, stream, cut, engineVars>>

\* Time passes: the window, one length for all, has moved past every turn.
\* Bound: once.
Slide ==
  /\ cut = 0 /\ stream # <<>>
  /\ cut' = Len(stream)
  /\ UNCHANGED <<placementVars, topicVars, engineVars>>

-----------------------------------------------------------------------------
(* One wake.                                                               *)

Declares(p, kind) == \E i \in DOMAIN decl[p].wake : decl[p].wake[i].kind = kind

\* What p declared wakes it: a mention, or any turn of a topic it watches.
Listens(p, k) ==
  \/ Declares(p, "mention") /\ p \in stream[k].taps
  \/ Declares(p, "topic")

\* Mutation of Due: the agent's own ops wake it.
DueToItself(p, k) == Listens(p, k)

\* The normative self-skip.
Due(p, k) == Listens(p, k) /\ stream[k].author # p

Answered(p, k) == \E c \in View : stream[c].id = WakeOpID(k, p)

Goto(p, place, op) ==
  /\ at' = [at EXCEPT ![p] = place]
  /\ wake' = [wake EXCEPT ![p] = op]
  /\ posted' = [posted EXCEPT ![p] = 0]

\* The wake of p by op k passes the budget or is refused, on one view.
Wake(p, k) ==
  /\ stage[p] = "served" /\ at[p] = "idle"
  /\ Due(p, k) /\ ~Answered(p, k)
  /\ Goto(p, IF BudgetDecision(Enforced(decl[p]), k, p) THEN "refused" ELSE "run", k)
  /\ UNCHANGED <<placementVars, topicVars, cut>>

\* A harness posts with a tool: a turn no wake's id binds.
SelfPost(p, taps) ==
  /\ at[p] = "run" /\ posted[p] < PerRun
  /\ Post(FreshId, p, taps)
  /\ posted' = [posted EXCEPT ![p] = @ + 1]
  /\ UNCHANGED <<placementVars, gone, cut, at, wake>>

\* The harness posted nothing itself: its text is the reply and taps whom it
\* mentions.
Reply(p, taps) ==
  /\ at[p] = "run" /\ posted[p] = 0
  /\ Post(WakeOpID(wake[p], p), p, taps)
  /\ Goto(p, "idle", 0)
  /\ UNCHANGED <<placementVars, gone, cut>>

\* Every attempt failed: the self-report taps the asker alone.
Report(p) ==
  /\ at[p] = "run"
  /\ Reply(p, {stream[wake[p]].author} \cap Persona)

\* The wake ends with no op under its own id: refused, correlated with a
\* self-post, or parked on an error.
Rest(p) ==
  /\ at[p] # "idle"
  /\ Goto(p, "idle", 0)
  /\ UNCHANGED <<placementVars, topicVars, cut>>

-----------------------------------------------------------------------------
Engine(p) ==
  \/ \E k \in Op : Wake(p, k)
  \/ \E taps \in SUBSET (Persona \ {p}) : SelfPost(p, taps) \/ Reply(p, taps)
  \/ Report(p)
  \/ Rest(p)

Next ==
  \/ \E p \in Persona :
       \/ \E d \in Offered : Submit(p, d)
       \/ Claim(p) \/ Serve(p) \/ HandBack(p)
       \/ Engine(p)
  \/ \E taps \in SUBSET Persona : Ask(taps)
  \/ RollUp \/ Slide

Spec == Init /\ [][Next]_vars

-----------------------------------------------------------------------------
(* Properties.                                                             *)

\* The bounds a person runs under as a surface shows them (declaration.go:84-93,
\* 173-175): the declared block, 0 for no bound, or the defaults.
Shown(d) == IF d.budget = Unset THEN DefaultBudget
            ELSE [hops |-> d.budget.hops, max |-> d.budget.max]

\* What is claimed can be served: a declaration that passed the desk is handed
\* back by every node for ever only when a topic wake names a type that cannot
\* be caught up (config.go:73-76).
ClaimedIsRunnable ==
  \A p \in Persona : stage[p] = "claimed" =>
    \/ Runnable(decl[p])
    \/ \E e \in {decl[p].wake[i] : i \in DOMAIN decl[p].wake} :
         e.kind = "topic" /\ EffectiveTypes(e) \ Replayable # {}

\* "The depth bound MUST refuse a wake when the outcome would sit more than
\* MaxHops provable hops from a chain root" (specs/008 FR-003): until a
\* rollup cuts the chain, no outcome sits deeper than its author's declaration
\* shows, whatever landed between its admission and its post.
DepthHolds ==
  gone = 0 => \A k \in Op :
    LET bound == Shown(decl[stream[k].author]).hops
    IN  Len(stream[k].id) > 1 /\ bound > 0 => ProvableHops(k) <= bound

\* What answers root at the given depth.
Outcomes(root, depth) ==
  {k \in Op : Len(stream[k].id) = depth + 1 /\ stream[k].id[1] = root}

\* "An uncooperative two-agent mention cycle halts at exactly MaxHops agent
\* outcomes from one human root" (specs/008 SC-001), for any number of agents:
\* until a rollup takes outcomes out of the view, what answers one root is a tree
\* that starts with those it wakes, widens by the others at every hop and ends at
\* the largest bound.
CycleHalts ==
  \A root \in Op, depth \in 1..MaxTurns :
    gone = 0 /\ Len(stream[root].id) = 1 =>
      LET first  == {p \in Persona \ {stream[root].author} : Listens(p, root)}
          bounds == {Shown(decl[p]).hops : p \in Persona}
      IN  /\ Cardinality(Outcomes(root, 1)) <= Cardinality(first)
          /\ Cardinality(Outcomes(root, depth + 1))
               <= Cardinality(Outcomes(root, depth)) * (Cardinality(Persona) - 1)
          /\ (\A b \in bounds : 0 < b /\ b < depth) => Outcomes(root, depth) = {}

\* "The same cycle with id-evading (self-posted) outcomes halts within
\* 2xWindowMax outcomes" (specs/008 SC-002): an agent's turns inside its window
\* exceed the bound its declaration shows by what one last run posts at most,
\* however its harness evades the ids and however often a wake is delivered.
\* The turns are those the view has: what a rollup took away counts no more.
WindowHolds ==
  \A p \in Persona :
    stage[p] = "served" /\ Shown(decl[p]).max > 0 =>
      Cardinality(OwnTurns(p)) <= Shown(decl[p]).max - 1 + (IF PerRun > 1 THEN PerRun ELSE 1)

\* "Every refusal is explainable" (specs/008 SC-006), and "a declared budget of
\* all zeros is the operator saying unbudgeted" (declared.go:22-24): a wake is
\* refused only when its declaration shows a bound that is reached.
RefusedOnlyAsDeclared ==
  [][\A p \in Persona :
       at[p] = "idle" /\ at'[p] = "refused" =>
         LET b == Shown(decl[p])
         IN  \/ b.hops > 0 /\ Len(stream[wake'[p]].id) > b.hops
             \/ b.max > 0 /\ Cardinality(OwnTurns(p)) >= b.max]_vars

=============================================================================
