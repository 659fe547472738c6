--------------------------- MODULE CascadeProofs ---------------------------
(* Proofs about Cascade, for every set of agents, every set of offered      *)
(* declarations, every default budget and every bound of the model.         *)
EXTENDS Cascade, FiniteSetTheorems, TLAPS

-----------------------------------------------------------------------------
(* Declarations.                                                           *)

\* What the engine enforces is what the declaration shows: defaults for an
\* absent block, the block as written otherwise, all zeros included.
LEMMA EnforcedIsShown ==
  ASSUME NEW d
  PROVE  Enforced(d) = Shown(d)
  <1>1. CASE d.budget = Unset
    BY <1>1 DEF Enforced, ApplyDefaults, MappedBudget, Unbudgeted, Shown
  <1>2. CASE d.budget # Unset
    BY <1>2 DEF Enforced, ApplyDefaults, MappedBudget, Unbudgeted, Shown
  <1> QED
    BY <1>1, <1>2

\* The bounds of a declaration that passed the desk are numbers.
LEMMA ShownIsABudget ==
  ASSUME NEW d \in Offered, Validate(d)
  PROVE  Shown(d) \in [hops : Nat, max : Nat]
  <1>1. CASE d.budget = Unset
    BY <1>1, DefaultIsABudget DEF Shown, DefaultBudget
  <1>2. CASE d.budget # Unset
    <2>1. ValidBudget(d.budget)
      BY <1>2 DEF Validate
    <2>2. d.budget.hops \in Nat /\ d.budget.max \in Nat
      BY <1>2, <2>1, BudgetsAreNumbers DEF ValidBudget
    <2> QED
      BY <1>2, <2>2 DEF Shown
  <1> QED
    BY <1>1, <1>2

\* A declaration the desk accepted and the race takes is served, but for a
\* topic wake on a type that cannot be caught up.
LEMMA ServableIsRunnable ==
  ASSUME NEW d, Validate(d), Servable(d),
         ~ \E e \in {d.wake[i] : i \in DOMAIN d.wake} :
             e.kind = "topic" /\ EffectiveTypes(e) \ Replayable # {}
  PROVE  Runnable(d)
  <1>1. d.budget # Unset /\ d.budget.max > 0 => d.budget.per # Bad
    BY BadIsNoValue DEF Validate, ValidBudget, Servable
  <1>2. d.topic # Unset
    BY DEF Validate
  <1>3. ValidWakeSet(d)
    BY <1>2 DEF ValidWakeSet, Servable
  <1> QED
    BY <1>1, <1>3 DEF Runnable, Servable

-----------------------------------------------------------------------------
(* The topic.                                                              *)

\* The turns of an author in the window are finitely many.
LEMMA OwnTurnsAreFinite ==
  ASSUME TypeOK, NEW p
  PROVE  IsFiniteSet(OwnTurns(p)) /\ Cardinality(OwnTurns(p)) \in Nat
  <1>1. IsFiniteSet(View)
    BY FS_Interval DEF TypeOK, View
  <1>2. OwnTurns(p) \subseteq View
    BY DEF OwnTurns
  <1> QED
    BY <1>1, <1>2, FS_Subset, FS_CardinalityType

\* A post is one turn more, of its author.
LEMMA PostAppends ==
  ASSUME TypeOK, NEW id \in Seq(Nat \cup Persona), NEW who \in Persona \cup {Human},
         NEW taps \in SUBSET Persona, Post(id, who, taps)
  PROVE  /\ stream' \in Seq(Turn)
         /\ Len(stream') = Len(stream) + 1
         /\ \A k \in Op : stream'[k] = stream[k]
         /\ stream'[Len(stream) + 1].author = who
  <1>1. [id |-> id, author |-> who, taps |-> taps] \in Turn
    BY DEF Turn
  <1> QED
    BY <1>1 DEF TypeOK, Post, Op

\* It adds one to the author's turns in the window and nothing to another's.
LEMMA PostCounts ==
  ASSUME TypeOK, NEW id \in Seq(Nat \cup Persona), NEW who \in Persona \cup {Human},
         NEW taps \in SUBSET Persona, Post(id, who, taps),
         gone' = gone, cut' = cut, NEW p \in Persona
  PROVE  /\ Cardinality(OwnTurns(p)') \in Nat
         /\ Cardinality(OwnTurns(p)') <= Cardinality(OwnTurns(p)) + (IF p = who THEN 1 ELSE 0)
  <1> DEFINE last == Len(stream) + 1
  <1>1. Len(stream) \in Nat /\ gone \in 0..Len(stream) /\ cut \in Nat
    BY DEF TypeOK
  <1>2. /\ Len(stream') = last
        /\ \A k \in Op : stream'[k] = stream[k]
        /\ stream'[last].author = who
    BY PostAppends
  <1>3. View' = View \cup {last}
    BY <1>1, <1>2 DEF View
  <1>4. \A k \in View : k \in Op
    BY <1>1 DEF View, Op
  <1>5. \A k \in OwnTurns(p)' : k \in OwnTurns(p) \/ (k = last /\ p = who)
    BY <1>2, <1>3, <1>4 DEF OwnTurns
  <1>6. IsFiniteSet(OwnTurns(p)) /\ Cardinality(OwnTurns(p)) \in Nat
    BY OwnTurnsAreFinite
  <1>7. CASE p = who
    <2>1. OwnTurns(p)' \subseteq OwnTurns(p) \cup {last}
      BY <1>5
    <2>2. /\ IsFiniteSet(OwnTurns(p) \cup {last})
          /\ Cardinality(OwnTurns(p) \cup {last}) \in Nat
          /\ Cardinality(OwnTurns(p) \cup {last}) <= Cardinality(OwnTurns(p)) + 1
      <3> DEFINE T == OwnTurns(p)
      <3>1. IsFiniteSet(T) /\ Cardinality(T) \in Nat
        BY <1>6
      <3> HIDE DEF T
      <3>2. /\ IsFiniteSet(T \cup {last})
            /\ last \in T => Cardinality(T \cup {last}) = Cardinality(T)
            /\ last \notin T => Cardinality(T \cup {last}) = Cardinality(T) + 1
        BY <3>1, FS_AddElement
      <3>3. Cardinality(T \cup {last}) \in Nat /\ Cardinality(T \cup {last}) <= Cardinality(T) + 1
        BY <3>1, <3>2
      <3> QED
        BY <3>2, <3>3 DEF T
    <2>3. /\ IsFiniteSet(OwnTurns(p)')
          /\ Cardinality(OwnTurns(p)') <= Cardinality(OwnTurns(p) \cup {last})
      BY <2>1, <2>2, FS_Subset
    <2>4. Cardinality(OwnTurns(p)') \in Nat
      BY <2>3, FS_CardinalityType
    <2> QED
      BY <1>6, <1>7, <2>2, <2>3, <2>4
  <1>8. CASE p # who
    <2>1. OwnTurns(p)' \subseteq OwnTurns(p)
      BY <1>5, <1>8
    <2>2. /\ IsFiniteSet(OwnTurns(p)')
          /\ Cardinality(OwnTurns(p)') <= Cardinality(OwnTurns(p))
      BY <1>6, <2>1, FS_Subset
    <2>3. Cardinality(OwnTurns(p)') \in Nat
      BY <2>2, FS_CardinalityType
    <2> QED
      BY <1>6, <1>8, <2>2, <2>3
  <1> QED
    BY <1>7, <1>8

\* What cuts the view or moves the window takes turns away.
LEMMA LaterCounts ==
  ASSUME TypeOK, stream' = stream, gone' \in Nat, gone <= gone', cut' \in Nat,
         cut <= cut', NEW p \in Persona
  PROVE  /\ Cardinality(OwnTurns(p)') \in Nat
         /\ Cardinality(OwnTurns(p)') <= Cardinality(OwnTurns(p))
  <1>1. Len(stream) \in Nat /\ gone \in Nat /\ cut \in Nat
    BY DEF TypeOK
  <1>2. OwnTurns(p)' \subseteq OwnTurns(p)
    BY <1>1 DEF OwnTurns, View
  <1>3. IsFiniteSet(OwnTurns(p))
    BY OwnTurnsAreFinite
  <1> QED
    BY <1>2, <1>3, FS_Subset, FS_CardinalityType

-----------------------------------------------------------------------------
(* The inductive invariant.                                                *)

\* What is past the desk was accepted, and what was claimed is servable.
Accepted ==
  \A p \in Persona :
    /\ stage[p] \in {"open", "claimed", "served"} => decl[p] \in Offered /\ Validate(decl[p])
    /\ stage[p] \in {"claimed", "served"} => Servable(decl[p])

\* Nobody posts before it is served.
Quiet == \A p \in Persona, k \in Op : stage[p] # "served" => stream[k].author # p

\* The turns one run adds at most.
Most == IF PerRun > 1 THEN PerRun ELSE 1

\* A run starts below the bound and adds what it posted.
Windowed ==
  \A p \in Persona :
    stage[p] = "served" /\ Shown(decl[p]).max > 0 =>
      Cardinality(OwnTurns(p)) <=
        Shown(decl[p]).max - 1 + (IF at[p] = "run" THEN posted[p] ELSE Most)

IInv == TypeOK /\ Accepted /\ Quiet /\ Windowed

LEMMA MostIsNat ==
  PerRun \in Nat /\ Most \in Nat \ {0} /\ PerRun <= Most
  BY CascadeAssumption DEF Most

LEMMA InitIInv == Init => IInv
  <1> SUFFICES ASSUME Init PROVE IInv
    OBVIOUS
  <1>1. TypeOK
    BY MostIsNat DEF Init, TypeOK, Op
  <1>2. Accepted /\ Windowed
    BY DEF Init, Accepted, Windowed
  <1>3. Quiet
    BY DEF Init, Quiet, Op
  <1> QED
    BY <1>1, <1>2, <1>3 DEF IInv

-----------------------------------------------------------------------------
(* Steps of a placement.                                                   *)

\* An agent that has posted nothing has no turns.
LEMMA QuietCounts ==
  ASSUME TypeOK, Quiet, NEW p \in Persona, stage[p] # "served"
  PROVE  Cardinality(OwnTurns(p)) = 0
  <1>1. \A k \in View : k \in Op
    BY DEF View, Op, TypeOK
  <1>2. OwnTurns(p) = {}
    BY <1>1 DEF OwnTurns, Quiet
  <1> QED
    BY <1>2, FS_EmptySet

LEMMA PlacementStep ==
  ASSUME IInv, NEW p \in Persona,
         (\E d \in Offered : Submit(p, d)) \/ Claim(p) \/ Serve(p) \/ HandBack(p)
  PROVE  IInv'
  <1> USE DEF IInv
  <1>1. /\ stream' = stream /\ gone' = gone /\ cut' = cut
        /\ at' = at /\ wake' = wake /\ posted' = posted
    BY DEF Submit, Claim, Serve, HandBack, topicVars, engineVars
  <1>2. \A q \in Persona : q # p => stage'[q] = stage[q] /\ decl'[q] = decl[q]
    BY DEF Submit, Claim, Serve, HandBack, TypeOK
  <1>3. stage[p] # "served"
    BY DEF Submit, Claim, Serve, HandBack
  <1>4. /\ stage'[p] \in {"draft", "rejected", "open", "claimed", "served"}
        /\ decl'[p] \in Offered \cup {Unset}
        /\ stage'[p] \in {"open", "claimed", "served"} => decl'[p] \in Offered /\ Validate(decl'[p])
        /\ stage'[p] \in {"claimed", "served"} => Servable(decl'[p])
    BY DEF Submit, Claim, Serve, HandBack, TypeOK, Accepted
  <1>5. /\ stage' \in [Persona -> {"draft", "rejected", "open", "claimed", "served"}]
        /\ decl' \in [Persona -> Offered \cup {Unset}]
    <2>1. decl \in [Persona -> Offered \cup {Unset}]
          /\ stage \in [Persona -> {"draft", "rejected", "open", "claimed", "served"}]
      BY DEF TypeOK
    <2>2. CASE \E d \in Offered : Submit(p, d)
      BY <2>1, <2>2 DEF Submit
    <2>3. CASE Claim(p) \/ Serve(p) \/ HandBack(p)
      BY <2>1, <2>3 DEF Claim, Serve, HandBack
    <2> QED
      BY <2>2, <2>3
  <1>6. Accepted'
    BY <1>2, <1>4 DEF Accepted
  <1>7. \A q \in Persona : stage'[q] = "served" => Enforced(decl'[q]) \in [hops : Nat, max : Nat]
    BY <1>6, ShownIsABudget, EnforcedIsShown DEF Accepted
  <1>8. TypeOK'
    BY <1>1, <1>2, <1>3, <1>5, <1>7 DEF TypeOK, Op
  <1>9. Quiet'
    BY <1>1, <1>2, <1>3 DEF Quiet, Op
  <1>10. Windowed'
    <2> SUFFICES ASSUME NEW q \in Persona, stage'[q] = "served", Shown(decl'[q]).max > 0
                 PROVE  Cardinality(OwnTurns(q)') <=
                          Shown(decl'[q]).max - 1 + (IF at'[q] = "run" THEN posted'[q] ELSE Most)
      BY DEF Windowed
    <2>1. OwnTurns(q)' = OwnTurns(q)
      BY <1>1 DEF OwnTurns, View
    <2>2. CASE q # p
      BY <1>1, <1>2, <2>1, <2>2 DEF Windowed
    <2>3. CASE q = p
      <3>1. Cardinality(OwnTurns(q)') = 0
        BY <1>3, <2>1, <2>3, QuietCounts
      <3>2. Shown(decl'[q]).max \in Nat
        BY <1>6, ShownIsABudget DEF Accepted
      <3>3. at'[q] # "run"
        BY <1>1, <1>3, <2>3 DEF TypeOK
      <3> QED
        BY <3>1, <3>2, <3>3, MostIsNat
    <2> QED
      BY <2>2, <2>3
  <1> QED
    BY <1>6, <1>8, <1>9, <1>10

-----------------------------------------------------------------------------
(* Steps of the topic.                                                     *)

\* A post and what it leaves of the invariant, whoever it is by.
LEMMA PostKeeps ==
  ASSUME IInv, NEW id \in Seq(Nat \cup Persona), NEW who \in Persona \cup {Human},
         NEW taps \in SUBSET Persona, Post(id, who, taps),
         gone' = gone, cut' = cut, decl' = decl, stage' = stage,
         who \in Persona => stage[who] = "served"
  PROVE  /\ stream' \in Seq(Turn) /\ Op \subseteq Op'
         /\ gone' \in 0..Len(stream') /\ cut' \in 0..Len(stream')
         /\ Accepted' /\ Quiet'
  <1> USE DEF IInv
  <1>1. Len(stream) \in Nat /\ gone \in 0..Len(stream) /\ cut \in 0..Len(stream)
    BY DEF TypeOK
  <1>2. /\ stream' \in Seq(Turn)
        /\ Len(stream') = Len(stream) + 1
        /\ \A k \in Op : stream'[k] = stream[k]
        /\ stream'[Len(stream) + 1].author = who
    BY PostAppends
  <1>3. Op' = Op \cup {Len(stream) + 1}
    BY <1>1, <1>2 DEF Op
  <1>4. Quiet'
    <2> SUFFICES ASSUME NEW p \in Persona, NEW k \in Op', stage'[p] # "served"
                 PROVE  stream'[k].author # p
      BY DEF Quiet
    <2>1. CASE k \in Op
      BY <1>2, <2>1 DEF Quiet
    <2>2. CASE k = Len(stream) + 1
      BY <1>2, <2>2
    <2> QED
      BY <1>3, <2>1, <2>2
  <1>5. Accepted'
    BY DEF Accepted
  <1> QED
    BY <1>1, <1>2, <1>3, <1>4, <1>5

LEMMA AskStep ==
  ASSUME IInv, NEW taps \in SUBSET Persona, Ask(taps)
  PROVE  IInv'
  <1> USE DEF IInv
  <1>1. FreshId \in Seq(Nat \cup Persona)
    BY DEF TypeOK, FreshId
  <1>2. /\ Post(FreshId, Human, taps)
        /\ decl' = decl /\ stage' = stage /\ gone' = gone /\ cut' = cut
        /\ at' = at /\ wake' = wake /\ posted' = posted
    BY DEF Ask, placementVars, engineVars
  <1>3. /\ stream' \in Seq(Turn) /\ Op \subseteq Op'
        /\ gone' \in 0..Len(stream') /\ cut' \in 0..Len(stream')
        /\ Accepted' /\ Quiet'
    BY <1>1, <1>2, CascadeAssumption, PostKeeps
  <1>4. TypeOK'
    BY <1>2, <1>3 DEF TypeOK
  <1>5. Windowed'
    <2> SUFFICES ASSUME NEW p \in Persona, stage[p] = "served", Shown(decl[p]).max > 0
                 PROVE  Cardinality(OwnTurns(p)') <=
                          Shown(decl[p]).max - 1 + (IF at[p] = "run" THEN posted[p] ELSE Most)
      BY <1>2 DEF Windowed
    <2>1. /\ Cardinality(OwnTurns(p)') \in Nat
          /\ Cardinality(OwnTurns(p)') <= Cardinality(OwnTurns(p)) + 0
      BY <1>1, <1>2, CascadeAssumption, PostCounts
    <2>2. Cardinality(OwnTurns(p)) \in Nat
      BY OwnTurnsAreFinite
    <2>3. Shown(decl[p]).max \in Nat
      BY ShownIsABudget DEF Accepted
    <2> QED
      BY <2>1, <2>2, <2>3, MostIsNat DEF Windowed, TypeOK
  <1> QED
    BY <1>3, <1>4, <1>5

LEMMA LaterStep ==
  ASSUME IInv, RollUp \/ Slide
  PROVE  IInv'
  <1> USE DEF IInv
  <1>1. /\ decl' = decl /\ stage' = stage /\ stream' = stream
        /\ at' = at /\ wake' = wake /\ posted' = posted
    BY DEF RollUp, Slide, placementVars, topicVars, engineVars
  <1>2. /\ Len(stream) \in Nat
        /\ gone \in 0..Len(stream) /\ gone' \in 0..Len(stream) /\ gone <= gone'
        /\ cut \in 0..Len(stream) /\ cut' \in 0..Len(stream) /\ cut <= cut'
    BY DEF RollUp, Slide, TypeOK, topicVars
  <1>3. TypeOK'
    BY <1>1, <1>2 DEF TypeOK, Op
  <1>4. Accepted' /\ Quiet'
    BY <1>1 DEF Accepted, Quiet, Op
  <1>5. Windowed'
    <2> SUFFICES ASSUME NEW p \in Persona, stage[p] = "served", Shown(decl[p]).max > 0
                 PROVE  Cardinality(OwnTurns(p)') <=
                          Shown(decl[p]).max - 1 + (IF at[p] = "run" THEN posted[p] ELSE Most)
      BY <1>1 DEF Windowed
    <2>1. /\ Cardinality(OwnTurns(p)') \in Nat /\ Cardinality(OwnTurns(p)) \in Nat
          /\ Cardinality(OwnTurns(p)') <= Cardinality(OwnTurns(p))
      BY <1>1, <1>2, LaterCounts, OwnTurnsAreFinite
    <2>2. Shown(decl[p]).max \in Nat
      BY ShownIsABudget DEF Accepted
    <2> QED
      BY <2>1, <2>2, MostIsNat DEF Windowed, TypeOK
  <1> QED
    BY <1>3, <1>4, <1>5

-----------------------------------------------------------------------------
(* Steps of an engine.                                                     *)

\* What a move of p's engine changes.
LEMMA GotoMoves ==
  ASSUME TypeOK, NEW p \in Persona, NEW place \in {"idle", "refused", "run"},
         NEW op \in Nat, Goto(p, place, op)
  PROVE  /\ at' \in [Persona -> {"idle", "refused", "run"}]
         /\ wake' \in [Persona -> Nat]
         /\ posted' \in [Persona -> 0..PerRun]
         /\ at'[p] = place /\ wake'[p] = op /\ posted'[p] = 0
         /\ \A q \in Persona : q # p =>
              at'[q] = at[q] /\ wake'[q] = wake[q] /\ posted'[q] = posted[q]
  BY MostIsNat DEF Goto, TypeOK

\* A move that posts nothing: to rest, or to a wake that the budget passed.
LEMMA MoveStep ==
  ASSUME IInv, NEW p \in Persona, NEW place \in {"idle", "refused", "run"},
         NEW op \in Nat, Goto(p, place, op), UNCHANGED <<placementVars, topicVars, cut>>,
         place # "idle" => stage[p] = "served" /\ op \in Op,
         place = "idle" => at[p] # "idle",
         place = "run" /\ Shown(decl[p]).max > 0 =>
           Cardinality(OwnTurns(p)) < Shown(decl[p]).max
  PROVE  IInv'
  <1> USE DEF IInv
  <1>1. decl' = decl /\ stage' = stage /\ stream' = stream /\ gone' = gone /\ cut' = cut
    BY DEF placementVars, topicVars
  <1>2. /\ at' \in [Persona -> {"idle", "refused", "run"}]
        /\ wake' \in [Persona -> Nat]
        /\ posted' \in [Persona -> 0..PerRun]
        /\ at'[p] = place /\ wake'[p] = op /\ posted'[p] = 0
        /\ \A q \in Persona : q # p =>
             at'[q] = at[q] /\ wake'[q] = wake[q] /\ posted'[q] = posted[q]
    BY GotoMoves
  <1>3. TypeOK'
    BY <1>1, <1>2 DEF TypeOK, Op
  <1>4. Accepted' /\ Quiet'
    BY <1>1 DEF Accepted, Quiet, Op
  <1>5. Windowed'
    <2> SUFFICES ASSUME NEW q \in Persona, stage[q] = "served", Shown(decl[q]).max > 0
                 PROVE  Cardinality(OwnTurns(q)') <=
                          Shown(decl[q]).max - 1 + (IF at'[q] = "run" THEN posted'[q] ELSE Most)
      BY <1>1 DEF Windowed
    <2>1. OwnTurns(q)' = OwnTurns(q) /\ Cardinality(OwnTurns(q)) \in Nat
      BY <1>1, OwnTurnsAreFinite DEF OwnTurns, View
    <2>2. Shown(decl[q]).max \in Nat
      BY ShownIsABudget DEF Accepted
    <2>3. Cardinality(OwnTurns(q)) <=
            Shown(decl[q]).max - 1 + (IF at[q] = "run" THEN posted[q] ELSE Most)
      BY DEF Windowed
    <2>4. posted[q] \in Nat /\ posted[q] <= Most /\ Most \in Nat
      BY MostIsNat DEF TypeOK
    <2>5. CASE q # p
      BY <1>2, <2>1, <2>3, <2>5
    <2>6. CASE q = p
      BY <1>2, <2>1, <2>2, <2>3, <2>4, <2>6
    <2> QED
      BY <2>5, <2>6
  <1> QED
    BY <1>3, <1>4, <1>5

\* A wake that passes the budget starts below the window's bound.
LEMMA WakeStep ==
  ASSUME IInv, NEW p \in Persona, NEW k \in Op, Wake(p, k)
  PROVE  IInv'
  <1> DEFINE refused == BudgetDecision(Enforced(decl[p]), k, p)
             place   == IF refused THEN "refused" ELSE "run"
  <1> USE DEF IInv
  <1>1. k \in Nat /\ place \in {"idle", "refused", "run"}
    BY DEF Op, TypeOK
  <1>2. stage[p] = "served" /\ Goto(p, place, k) /\ UNCHANGED <<placementVars, topicVars, cut>>
    BY DEF Wake
  <1>3. Shown(decl[p]).max \in Nat /\ Cardinality(OwnTurns(p)) \in Nat
    BY <1>2, ShownIsABudget, OwnTurnsAreFinite DEF Accepted
  <1>4. ~refused /\ Shown(decl[p]).max > 0 =>
          Cardinality(OwnTurns(p)) < Shown(decl[p]).max
    BY <1>3, EnforcedIsShown DEF BudgetDecision
  <1> HIDE DEF refused
  <1>5. (place = "run" => ~refused) /\ place # "idle"
    OBVIOUS
  <1> HIDE DEF place
  <1> QED
    BY <1>1, <1>2, <1>4, <1>5, MoveStep

LEMMA RestStep ==
  ASSUME IInv, NEW p \in Persona, Rest(p)
  PROVE  IInv'
  BY MoveStep DEF Rest

\* A run's own posts are counted against what one run adds.
LEMMA EnginePostStep ==
  ASSUME IInv, NEW p \in Persona, NEW taps \in SUBSET Persona, NEW id \in Seq(Nat \cup Persona),
         at[p] = "run", Post(id, p, taps),
         UNCHANGED <<placementVars, gone, cut>>,
         at' \in [Persona -> {"idle", "refused", "run"}],
         wake' \in [Persona -> Nat],
         posted' \in [Persona -> 0..PerRun],
         \/ at'[p] = "run" /\ wake'[p] = wake[p] /\ posted'[p] = posted[p] + 1
         \/ at'[p] = "idle" /\ posted[p] = 0,
         \A q \in Persona : q # p =>
           at'[q] = at[q] /\ wake'[q] = wake[q] /\ posted'[q] = posted[q]
  PROVE  IInv'
  <1> USE DEF IInv
  <1>1. decl' = decl /\ stage' = stage /\ gone' = gone /\ cut' = cut
    BY DEF placementVars
  <1>2. stage[p] = "served"
    BY DEF TypeOK
  <1>3. /\ stream' \in Seq(Turn) /\ Op \subseteq Op'
        /\ gone' \in 0..Len(stream') /\ cut' \in 0..Len(stream')
        /\ Accepted' /\ Quiet'
    BY <1>1, <1>2, PostKeeps
  <1>4. TypeOK'
    BY <1>1, <1>2, <1>3 DEF TypeOK
  <1>5. Windowed'
    <2> SUFFICES ASSUME NEW q \in Persona, stage[q] = "served", Shown(decl[q]).max > 0
                 PROVE  Cardinality(OwnTurns(q)') <=
                          Shown(decl[q]).max - 1 + (IF at'[q] = "run" THEN posted'[q] ELSE Most)
      BY <1>1 DEF Windowed
    <2>1. /\ Cardinality(OwnTurns(q)') \in Nat
          /\ Cardinality(OwnTurns(q)') <= Cardinality(OwnTurns(q)) + (IF q = p THEN 1 ELSE 0)
      BY <1>1, PostCounts
    <2>2. Shown(decl[q]).max \in Nat /\ Cardinality(OwnTurns(q)) \in Nat
      BY ShownIsABudget, OwnTurnsAreFinite DEF Accepted
    <2>3. Cardinality(OwnTurns(q)) <=
            Shown(decl[q]).max - 1 + (IF at[q] = "run" THEN posted[q] ELSE Most)
      BY DEF Windowed
    <2>4. posted[q] \in Nat /\ Most \in Nat \ {0}
      BY MostIsNat DEF TypeOK
    <2>5. CASE q # p
      <3>1. Cardinality(OwnTurns(q)') <= Cardinality(OwnTurns(q))
        BY <2>1, <2>2, <2>5
      <3>2. at'[q] = at[q] /\ posted'[q] = posted[q]
        BY <2>5
      <3> QED
        BY <2>1, <2>2, <2>3, <2>4, <3>1, <3>2
    <2>6. CASE q = p
      <3>1. Cardinality(OwnTurns(p)) <= Shown(decl[p]).max - 1 + posted[p]
        BY <2>3, <2>6
      <3>2. Cardinality(OwnTurns(p)') <= Shown(decl[p]).max + posted[p]
        BY <2>1, <2>2, <2>4, <2>6, <3>1
      <3>3. CASE at'[p] = "run" /\ posted'[p] = posted[p] + 1
        BY <2>1, <2>2, <2>4, <2>6, <3>2, <3>3
      <3>4. CASE at'[p] = "idle" /\ posted[p] = 0
        BY <2>1, <2>2, <2>4, <2>6, <3>2, <3>4
      <3> QED
        BY <3>3, <3>4
    <2> QED
      BY <2>5, <2>6
  <1> QED
    BY <1>3, <1>4, <1>5

LEMMA SelfPostStep ==
  ASSUME IInv, NEW p \in Persona, NEW taps \in SUBSET Persona, SelfPost(p, taps)
  PROVE  IInv'
  <1>1. FreshId \in Seq(Nat \cup Persona)
    BY DEF IInv, TypeOK, FreshId
  <1>2. /\ at' = at /\ wake' = wake /\ posted' = [posted EXCEPT ![p] = @ + 1]
        /\ posted[p] \in 0..PerRun /\ posted[p] < PerRun /\ PerRun \in Nat
    BY MostIsNat DEF SelfPost, IInv, TypeOK
  <1>3. /\ posted' \in [Persona -> 0..PerRun] /\ posted'[p] = posted[p] + 1
        /\ \A q \in Persona : q # p => posted'[q] = posted[q]
    BY <1>2 DEF IInv, TypeOK
  <1>4. at' \in [Persona -> {"idle", "refused", "run"}] /\ wake' \in [Persona -> Nat]
    BY <1>2 DEF IInv, TypeOK
  <1>5. /\ at[p] = "run" /\ Post(FreshId, p, taps)
        /\ UNCHANGED <<placementVars, gone, cut>>
    BY DEF SelfPost
  <1> QED
    BY <1>1, <1>2, <1>3, <1>4, <1>5, EnginePostStep

LEMMA ReplyStep ==
  ASSUME IInv, NEW p \in Persona, NEW taps \in SUBSET Persona, Reply(p, taps)
  PROVE  IInv'
  <1>1. wake[p] \in Op
    BY DEF IInv, TypeOK, Reply
  <1>2. WakeOpID(wake[p], p) \in Seq(Nat \cup Persona)
    <2>1. stream[wake[p]] \in Turn
      BY <1>1 DEF IInv, TypeOK, Op
    <2>2. stream[wake[p]].id \in Seq(Nat \cup Persona)
      BY <2>1 DEF Turn
    <2> QED
      BY <2>2 DEF WakeOpID
  <1>3. /\ at' \in [Persona -> {"idle", "refused", "run"}]
        /\ wake' \in [Persona -> Nat]
        /\ posted' \in [Persona -> 0..PerRun]
        /\ at'[p] = "idle"
        /\ \A q \in Persona : q # p =>
             at'[q] = at[q] /\ wake'[q] = wake[q] /\ posted'[q] = posted[q]
    BY GotoMoves DEF IInv, Reply
  <1>4. /\ at[p] = "run" /\ posted[p] = 0 /\ Post(WakeOpID(wake[p], p), p, taps)
        /\ UNCHANGED <<placementVars, gone, cut>>
    BY DEF Reply
  <1> QED
    BY <1>2, <1>3, <1>4, EnginePostStep

-----------------------------------------------------------------------------
(* The theorems.                                                           *)

LEMMA StepIInv == IInv /\ [Next]_vars => IInv'
  <1> SUFFICES ASSUME IInv, [Next]_vars PROVE IInv'
    OBVIOUS
  <1>1. CASE \E p \in Persona :
               (\E d \in Offered : Submit(p, d)) \/ Claim(p) \/ Serve(p) \/ HandBack(p)
    BY <1>1, PlacementStep
  <1>2. CASE \E p \in Persona : Engine(p)
    <2> PICK p \in Persona : Engine(p)
      BY <1>2
    <2>1. CASE \E k \in Op : Wake(p, k)
      BY <2>1, WakeStep
    <2>2. CASE \E taps \in SUBSET (Persona \ {p}) : SelfPost(p, taps) \/ Reply(p, taps)
      BY <2>2, SelfPostStep, ReplyStep
    <2>3. CASE Report(p)
      BY <2>3, ReplyStep DEF Report
    <2>4. CASE Rest(p)
      BY <2>4, RestStep
    <2> QED
      BY <2>1, <2>2, <2>3, <2>4 DEF Engine
  <1>3. CASE \E taps \in SUBSET Persona : Ask(taps)
    BY <1>3, AskStep
  <1>4. CASE RollUp \/ Slide
    BY <1>4, LaterStep
  <1>5. CASE UNCHANGED vars
    BY <1>5 DEF vars, IInv, TypeOK, Accepted, Quiet, Windowed, Op, OwnTurns, View
  <1> QED
    BY <1>1, <1>2, <1>3, <1>4, <1>5 DEF Next

LEMMA IInvIsInvariant == Spec => []IInv
  BY InitIInv, StepIInv, PTL DEF Spec

\* Every variable keeps its type; a served declaration's bounds are numbers and
\* an engine works on an op of its topic (Cascade.tla).
THEOREM CascadeTypeOK == Spec => []TypeOK
  <1>1. IInv => TypeOK
    BY DEF IInv
  <1> QED
    BY <1>1, IInvIsInvariant, PTL

\* Whatever is declared, the desk accepts and the race takes is served, but for a
\* topic wake on a type that cannot be caught up.
THEOREM ClaimedDeclarationsRun == Spec => []ClaimedIsRunnable
  <1>1. IInv => ClaimedIsRunnable
    BY ServableIsRunnable DEF IInv, Accepted, ClaimedIsRunnable
  <1> QED
    BY <1>1, IInvIsInvariant, PTL

\* Whatever the harnesses post and whatever is delivered again, an agent's turns
\* in its window exceed the declared bound by what one last run adds at most.
THEOREM WindowBoundHolds == Spec => []WindowHolds
  <1>1. IInv => WindowHolds
    <2> SUFFICES ASSUME IInv, NEW p \in Persona, stage[p] = "served", Shown(decl[p]).max > 0
                 PROVE  Cardinality(OwnTurns(p)) <= Shown(decl[p]).max - 1 + Most
      BY DEF WindowHolds, Most
    <2>1. Cardinality(OwnTurns(p)) <=
            Shown(decl[p]).max - 1 + (IF at[p] = "run" THEN posted[p] ELSE Most)
      BY DEF IInv, Windowed
    <2>2. posted[p] \in Nat /\ posted[p] <= Most /\ Most \in Nat
      BY MostIsNat DEF IInv, TypeOK
    <2>3. Shown(decl[p]).max \in Nat /\ Cardinality(OwnTurns(p)) \in Nat
      BY ShownIsABudget, OwnTurnsAreFinite DEF IInv, Accepted
    <2> QED
      BY <2>1, <2>2, <2>3
  <1> QED
    BY <1>1, IInvIsInvariant, PTL

=============================================================================
