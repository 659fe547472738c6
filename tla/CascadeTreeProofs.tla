------------------------- MODULE CascadeTreeProofs -------------------------
(* Proofs about the tree of answers in Cascade: what the walk to the root   *)
(* computes, and how deep and how wide the answers to one post can grow.    *)
EXTENDS CascadeProofs, SequenceTheorems, WellFoundedInduction

-----------------------------------------------------------------------------
(* Numbers and sequences.                                                  *)

\* A set of natural numbers that is not empty has a least member.
LEMMA Least ==
  ASSUME NEW T \in SUBSET Nat, T # {}
  PROVE  \E m \in T : \A n \in T : m <= n
  <1> DEFINE R == {ss \in Nat \X Nat : ss[1] < ss[2]}
  <1>1. IsWellFoundedOn(R, Nat)
    BY NatLessThanWellFounded DEF OpToRel
  <1> HIDE DEF R
  <1>2. PICK m \in T : \A n \in T : ~ (<<n, m>> \in R)
    BY <1>1, WFMin
  <1>3. \A n \in T : ~ (n < m)
    BY <1>2 DEF R
  <1> QED
    BY <1>3

Name == Nat \cup Persona

\* The id of an outcome gives away the trigger's id and the persona.
LEMMA AppendIsOneToOne ==
  ASSUME NEW s \in Seq(Name), NEW t \in Seq(Name), NEW x \in Name, NEW y \in Name,
         Append(s, x) = Append(t, y)
  PROVE  s = t /\ x = y
  BY AppendInjective

\* What precedes an appended name is what it was.
LEMMA PrefixOfAppend ==
  ASSUME NEW s \in Seq(Name), NEW x \in Name, NEW m \in 0..Len(s)
  PROVE  SubSeq(Append(s, x), 1, m) = SubSeq(s, 1, m)
  OBVIOUS

-----------------------------------------------------------------------------
(* The inductive invariant.                                                *)

\* An op's id is its place in the topic, or binds it to an op its author was due
\* to answer.
Rooted ==
  \A k \in Op :
    \/ stream[k].id = <<k>>
    \/ \E c \in Op, p \in Persona :
         stream[k].author = p /\ stream[k].id = WakeOpID(c, p) /\ Due(p, c)

\* No id is twice in the view.
Distinct == \A j, k \in View : stream[j].id = stream[k].id => j = k

\* What is run for was due, and nothing in the view answers it yet.
Pending ==
  \A p \in Persona, k \in Op :
    at[p] = "run" /\ wake[p] = k => Due(p, k) /\ ~Answered(p, k)

\* Before a rollup, an outcome sits within its author's depth bound, the one of
\* the run in progress included.
WithinDepth ==
  gone = 0 =>
    /\ \A k \in Op :
         Len(stream[k].id) > 1 /\ Shown(decl[stream[k].author]).hops > 0 =>
           Len(stream[k].id) - 1 <= Shown(decl[stream[k].author]).hops
    /\ \A p \in Persona :
         at[p] = "run" /\ Shown(decl[p]).hops > 0 =>
           Len(stream[wake[p]].id) <= Shown(decl[p]).hops

TreeInv == Rooted /\ Distinct /\ Pending /\ WithinDepth

-----------------------------------------------------------------------------
(* The walk to the root.                                                   *)

\* What an op is made of.
LEMMA OpTypes ==
  ASSUME IInv, NEW k \in Op
  PROVE  /\ k \in Nat \ {0} /\ k <= Len(stream) /\ Len(stream) \in Nat
         /\ stream[k].id \in Seq(Name)
         /\ stream[k].author \in Persona \cup {Human}
         /\ stream[k].taps \in SUBSET Persona
  <1>1. stream \in Seq(Turn) /\ k \in 1..Len(stream)
    BY DEF IInv, TypeOK, Op
  <1>2. stream[k] \in Turn
    BY <1>1
  <1> QED
    BY <1>1, <1>2 DEF Turn, Name

LEMMA ViewIsOfOps ==
  ASSUME IInv
  PROVE  /\ \A k \in View : k \in Op
         /\ gone = 0 => View = Op
  BY DEF IInv, TypeOK, View, Op

\* The id of an op's outcome is longer by one.
LEMMA OutcomeIds ==
  ASSUME IInv, NEW k \in Op, NEW p \in Persona
  PROVE  /\ WakeOpID(k, p) \in Seq(Name)
         /\ Len(WakeOpID(k, p)) = Len(stream[k].id) + 1
         /\ WakeOpID(k, p)[Len(stream[k].id) + 1] = p
         /\ \A i \in 1..Len(stream[k].id) : WakeOpID(k, p)[i] = stream[k].id[i]
  <1>1. stream[k].id \in Seq(Name) /\ p \in Name
    BY OpTypes DEF Name
  <1> QED
    BY <1>1, AppendProperties DEF WakeOpID

\* No id is empty, and those of length one are of roots.
LEMMA Lengths ==
  ASSUME IInv, Rooted, NEW k \in Op
  PROVE  /\ Len(stream[k].id) \in Nat \ {0}
         /\ Len(stream[k].id) = 1 => stream[k].id = <<k>>
         /\ Len(stream[k].id) > 1 =>
              \E c \in Op, p \in Persona :
                stream[k].author = p /\ stream[k].id = WakeOpID(c, p) /\ Due(p, c)
  <1>1. \A j \in Op : Len(stream[j].id) \in Nat \ {0}
    <2> SUFFICES ASSUME NEW j \in Op PROVE Len(stream[j].id) \in Nat \ {0}
      OBVIOUS
    <2>1. stream[j].id \in Seq(Name)
      BY OpTypes
    <2>2. CASE stream[j].id = <<j>>
      BY <2>2
    <2>3. CASE \E c \in Op, p \in Persona : stream[j].id = WakeOpID(c, p)
      <3> PICK c \in Op, p \in Persona : stream[j].id = WakeOpID(c, p)
        BY <2>3
      <3>1. Len(stream[j].id) = Len(stream[c].id) + 1 /\ Len(stream[c].id) \in Nat
        BY OutcomeIds, OpTypes
      <3> QED
        BY <3>1
    <2> QED
      BY <2>2, <2>3 DEF Rooted
  <1>2. CASE stream[k].id = <<k>>
    BY <1>1, <1>2
  <1>3. CASE \E c \in Op, p \in Persona :
               stream[k].author = p /\ stream[k].id = WakeOpID(c, p) /\ Due(p, c)
    <2> PICK c \in Op, p \in Persona :
          stream[k].author = p /\ stream[k].id = WakeOpID(c, p) /\ Due(p, c)
      BY <1>3
    <2>1. Len(stream[k].id) = Len(stream[c].id) + 1
      BY OutcomeIds
    <2>2. Len(stream[k].id) # 1
      BY <1>1, <2>1
    <2> QED
      BY <1>1, <1>3, <2>2
  <1> QED
    BY <1>2, <1>3 DEF Rooted

\* A parent's id is the op's without the author.
LEMMA Parents ==
  ASSUME IInv, NEW k \in Op, NEW c \in ParentsOf(k)
  PROVE  /\ c \in Op /\ c \in View
         /\ stream[k].id = Append(stream[c].id, stream[k].author)
         /\ Len(stream[k].id) = Len(stream[c].id) + 1
  <1>1. c \in View /\ c \in Op /\ stream[k].id = Append(stream[c].id, stream[k].author)
    BY ViewIsOfOps DEF ParentsOf, WakeOpID
  <1>2. stream[c].id \in Seq(Name)
    BY <1>1, OpTypes
  <1> QED
    BY <1>1, <1>2

Parent(k) == CHOOSE c \in ParentsOf(k) : TRUE

\* What ChainToRoot's table has to satisfy.
Walk(h) ==
  h = [k \in Op |-> IF ParentsOf(k) = {} THEN 0 ELSE 1 + h[Parent(k)]]

\* There is one such table: parents have shorter ids.
LEMMA WalkIsUnique ==
  ASSUME IInv, NEW g, NEW h, Walk(g), Walk(h), NEW op \in Op
  PROVE  g[op] = h[op]
  <1> DEFINE Apart == {k \in Op : g[k] # h[k]}
             Sizes == {Len(stream[k].id) : k \in Apart}
  <1> SUFFICES ASSUME op \in Apart PROVE FALSE
    OBVIOUS
  <1>1. \A k \in Op : Len(stream[k].id) \in Nat
    BY OpTypes
  <1>2. Sizes \in SUBSET Nat /\ Sizes # {}
    BY <1>1
  <1>3. PICK m \in Sizes : \A n \in Sizes : m <= n
    <2> HIDE DEF Sizes
    <2> QED
      BY <1>2, Least
  <1>4. PICK k \in Apart : m = Len(stream[k].id)
    BY <1>3
  <1>5. /\ g[k] = IF ParentsOf(k) = {} THEN 0 ELSE 1 + g[Parent(k)]
        /\ h[k] = IF ParentsOf(k) = {} THEN 0 ELSE 1 + h[Parent(k)]
    BY <1>4 DEF Walk
  <1>6. ParentsOf(k) # {} /\ g[Parent(k)] # h[Parent(k)]
    BY <1>4, <1>5
  <1>7. Parent(k) \in ParentsOf(k)
    BY <1>6 DEF Parent
  <1>8. Parent(k) \in Op /\ m = Len(stream[Parent(k)].id) + 1
    BY <1>4, <1>7, Parents
  <1>9. Len(stream[Parent(k)].id) \in Sizes
    BY <1>6, <1>8
  <1> QED
    BY <1>1, <1>3, <1>8, <1>9

\* So whatever satisfies it is what the walk returns.
LEMMA HopsAre ==
  ASSUME IInv, NEW f, Walk(f), NEW op \in Op
  PROVE  ProvableHops(op) = f[op]
  <1> DEFINE h == CHOOSE g : Walk(g)
  <1>1. ProvableHops(op) = h[op]
    BY DEF ProvableHops, Walk, Parent
  <1>2. Walk(h)
    OBVIOUS
  <1> HIDE DEF h
  <1> QED
    BY <1>1, <1>2, WalkIsUnique

\* Before a rollup every outcome has its parent in the view, so the walk counts
\* every hop of the id.
LEMMA HopsAreExact ==
  ASSUME IInv, Rooted, gone = 0, NEW op \in Op
  PROVE  ProvableHops(op) = Len(stream[op].id) - 1
  <1> DEFINE f == [k \in Op |-> Len(stream[k].id) - 1]
  <1>1. ASSUME NEW k \in Op
        PROVE  f[k] = IF ParentsOf(k) = {} THEN 0 ELSE 1 + f[Parent(k)]
    <2>1. CASE ParentsOf(k) = {}
      <3>1. \A c \in Op : c # k => WakeOpID(c, stream[k].author) # stream[k].id
        BY <2>1, ViewIsOfOps DEF ParentsOf
      <3>2. \A c \in Op : stream[c].id \in Seq(Name) /\ Len(stream[c].id) \in Nat
        BY OpTypes
      <3>3. WakeOpID(k, stream[k].author) # stream[k].id
        <4>1. Len(Append(stream[k].id, stream[k].author)) = Len(stream[k].id) + 1
          BY <3>2
        <4> QED
          BY <3>2, <4>1 DEF WakeOpID
      <3>4. Len(stream[k].id) = 1
        <4> SUFFICES ASSUME Len(stream[k].id) # 1 PROVE FALSE
          OBVIOUS
        <4>1. Len(stream[k].id) > 1
          <5>1. Len(stream[k].id) \in Nat \ {0}
            BY Lengths
          <5>2. \A n \in Nat \ {0} : n # 1 => n > 1
            OBVIOUS
          <5> QED
            BY <5>1, <5>2
        <4>2. PICK c \in Op : stream[k].id = WakeOpID(c, stream[k].author)
          BY <4>1, Lengths
        <4> QED
          BY <3>1, <3>3, <4>2
      <3> QED
        BY <2>1, <3>4
    <2>2. CASE ParentsOf(k) # {}
      <3>1. Parent(k) \in ParentsOf(k)
        BY <2>2 DEF Parent
      <3>2. Parent(k) \in Op /\ Len(stream[k].id) = Len(stream[Parent(k)].id) + 1
        BY <3>1, Parents
      <3>3. Len(stream[Parent(k)].id) \in Nat
        BY <3>2, OpTypes
      <3> QED
        BY <2>2, <3>2, <3>3
    <2> QED
      BY <2>1, <2>2
  <1>2. Walk(f)
    BY <1>1 DEF Walk
  <1>3. f[op] = Len(stream[op].id) - 1
    OBVIOUS
  <1> HIDE DEF f
  <1> QED
    BY <1>2, <1>3, HopsAre

InView(id) == \E c \in View : stream[c].id = id

\* How many names one has to drop behind the last before the id is of no op in
\* the view.
Gaps(k) ==
  {d \in 0..(Len(stream[k].id) - 1) :
     ~InView(SubSeq(stream[k].id, 1, Len(stream[k].id) - 1 - d))}

\* A walk ends at the first gap.
LEMMA HopsEndAtTheGap ==
  ASSUME IInv, Rooted, NEW op \in Op
  PROVE  ProvableHops(op) \in Gaps(op)
  <1> DEFINE IsLeast(m, T) == m \in T /\ \A n \in T : m <= n
             f == [k \in Op |-> CHOOSE m : IsLeast(m, Gaps(k))]
  <1>1. \A k \in Op : stream[k].id \in Seq(Name) /\ Len(stream[k].id) \in Nat \ {0}
    BY OpTypes, Lengths
  <1>2. ASSUME NEW k \in Op
        PROVE  Gaps(k) \in SUBSET Nat /\ IsLeast(f[k], Gaps(k))
    <2>1. Gaps(k) \in SUBSET Nat
      BY <1>1 DEF Gaps
    <2>2. Len(stream[k].id) - 1 \in Gaps(k)
      <3>1. SubSeq(stream[k].id, 1, 0) = <<>>
        BY SubSeqEmpty
      <3>2. ~InView(<<>>)
        <4> SUFFICES ASSUME NEW c \in View, stream[c].id = <<>> PROVE FALSE
          BY DEF InView
        <4>1. Len(stream[c].id) # 0
          BY <1>1, ViewIsOfOps
        <4> QED
          BY <4>1
      <3>3. /\ Len(stream[k].id) - 1 \in 0..(Len(stream[k].id) - 1)
            /\ Len(stream[k].id) - 1 - (Len(stream[k].id) - 1) = 0
        BY <1>1
      <3> QED
        BY <3>1, <3>2, <3>3 DEF Gaps
    <2>3. \E m : IsLeast(m, Gaps(k))
      BY <2>1, <2>2, Least
    <2> QED
      BY <2>1, <2>3
  <1>3. ASSUME NEW k \in Op
        PROVE  f[k] = IF ParentsOf(k) = {} THEN 0 ELSE 1 + f[Parent(k)]
    <2>1. CASE ParentsOf(k) = {}
      <3>1. 0 \in Gaps(k)
        <4> SUFFICES ASSUME InView(SubSeq(stream[k].id, 1, Len(stream[k].id) - 1)) PROVE FALSE
          BY <1>1 DEF Gaps
        <4>1. PICK c \in View : stream[c].id = SubSeq(stream[k].id, 1, Len(stream[k].id) - 1)
          BY DEF InView
        <4>2. c \in Op
          BY ViewIsOfOps
        <4>3. Len(stream[c].id) = Len(stream[k].id) - 1
          BY <1>1, <4>1
        <4>4. Len(stream[k].id) > 1
          BY <1>1, <4>2, <4>3
        <4>5. PICK a \in Op : /\ stream[k].author \in Persona
                              /\ stream[k].id = WakeOpID(a, stream[k].author)
          BY <4>4, Lengths
        <4>6. stream[c].id = stream[a].id
          <5>1. stream[k].id = Append(stream[a].id, stream[k].author)
            BY <4>5 DEF WakeOpID
          <5>2. Len(stream[k].id) = Len(stream[a].id) + 1
            BY <1>1, <5>1
          <5>3. SubSeq(stream[k].id, 1, Len(stream[a].id)) = SubSeq(stream[a].id, 1, Len(stream[a].id))
            BY <1>1, <4>5, <5>1, PrefixOfAppend DEF Name
          <5>4. SubSeq(stream[a].id, 1, Len(stream[a].id)) = stream[a].id
            BY <1>1, SubSeqFull
          <5> QED
            BY <1>1, <4>1, <5>2, <5>3, <5>4
        <4>7. c # k
          BY <1>1, <4>3
        <4>8. c \in ParentsOf(k)
          BY <4>5, <4>6, <4>7 DEF ParentsOf, WakeOpID
        <4> QED
          BY <2>1, <4>8
      <3>2. f[k] = 0
        BY <1>2, <3>1
      <3> QED
        BY <2>1, <3>2
    <2>2. CASE ParentsOf(k) # {}
      <3> DEFINE c == Parent(k)
      <3>1. c \in ParentsOf(k)
        BY <2>2 DEF Parent
      <3>2. /\ c \in Op /\ c \in View
            /\ stream[k].id = Append(stream[c].id, stream[k].author)
            /\ Len(stream[k].id) = Len(stream[c].id) + 1
        BY <3>1, Parents
      <3>3. stream[k].author \in Name
        BY <1>1, <3>2, Lengths DEF Name
      <3> HIDE DEF c
      <3>4. \A m \in 0..Len(stream[c].id) :
              SubSeq(stream[k].id, 1, m) = SubSeq(stream[c].id, 1, m)
        BY <1>1, <3>2, <3>3, PrefixOfAppend
      <3>5. 0 \notin Gaps(k)
        <4>1. SubSeq(stream[k].id, 1, Len(stream[k].id) - 1) = stream[c].id
          BY <1>1, <3>2, <3>4, SubSeqFull
        <4> QED
          BY <1>1, <3>2, <4>1 DEF Gaps, InView
      <3>6. \A d \in Nat : d + 1 \in Gaps(k) <=> d \in Gaps(c)
        <4> SUFFICES ASSUME NEW d \in Nat PROVE d + 1 \in Gaps(k) <=> d \in Gaps(c)
          OBVIOUS
        <4>1. d + 1 \in 0..(Len(stream[k].id) - 1) <=> d \in 0..(Len(stream[c].id) - 1)
          BY <1>1, <3>2
        <4>2. Len(stream[k].id) - 1 - (d + 1) = Len(stream[c].id) - 1 - d
          BY <1>1, <3>2
        <4>3. d \in 0..(Len(stream[c].id) - 1) =>
                Len(stream[c].id) - 1 - d \in 0..Len(stream[c].id)
          BY <1>1, <3>2
        <4>4. d \in 0..(Len(stream[c].id) - 1) =>
                SubSeq(stream[k].id, 1, Len(stream[k].id) - 1 - (d + 1))
                  = SubSeq(stream[c].id, 1, Len(stream[c].id) - 1 - d)
          BY <3>4, <4>2, <4>3
        <4> QED
          BY <4>1, <4>4 DEF Gaps
      <3>7. /\ Gaps(k) \in SUBSET Nat /\ IsLeast(f[k], Gaps(k))
            /\ Gaps(c) \in SUBSET Nat /\ IsLeast(f[c], Gaps(c))
        BY <1>2, <3>2
      <3> HIDE DEF f
      <3>8. f[k] = 1 + f[c]
        <4>1. f[k] \in Nat \ {0} /\ f[c] \in Nat
          BY <3>5, <3>7
        <4>2. f[k] <= f[c] + 1
          BY <3>6, <3>7, <4>1
        <4>3. f[c] <= f[k] - 1
          <5>1. f[k] - 1 \in Nat /\ (f[k] - 1) + 1 = f[k]
            BY <4>1
          <5> QED
            BY <3>6, <3>7, <5>1
        <4> QED
          BY <4>1, <4>2, <4>3
      <3> QED
        BY <2>2, <3>8 DEF c
    <2> QED
      BY <2>1, <2>2
  <1>4. Walk(f)
    <2>1. f = [k \in Op |-> f[k]]
      OBVIOUS
    <2> HIDE DEF f
    <2> QED
      BY <1>3, <2>1 DEF Walk
  <1>5. f[op] \in Gaps(op)
    BY <1>2
  <1> HIDE DEF f
  <1> QED
    BY <1>4, <1>5, HopsAre

\* With the record cut anywhere, the walk never counts more than the id holds.
LEMMA HopsAreProvable ==
  ASSUME IInv, Rooted, NEW op \in Op
  PROVE  ProvableHops(op) \in Nat /\ ProvableHops(op) <= Len(stream[op].id) - 1
  BY HopsEndAtTheGap, Lengths DEF Gaps

-----------------------------------------------------------------------------
(* Steps.                                                                  *)

LEMMA InitTreeInv == Init => TreeInv
  <1> SUFFICES ASSUME Init PROVE TreeInv
    OBVIOUS
  <1>1. Op = {} /\ View = {}
    BY DEF Init, Op, View
  <1>2. \A p \in Persona : at[p] # "run"
    BY DEF Init
  <1> QED
    BY <1>1, <1>2 DEF TreeInv, Rooted, Distinct, Pending, WithinDepth

\* Who works on a wake is served, and so is every author.
LEMMA PostersAreServed ==
  ASSUME IInv
  PROVE  /\ \A p \in Persona : at[p] = "run" => stage[p] = "served" /\ wake[p] \in Op
         /\ \A k \in Op : stream[k].author \in Persona => stage[stream[k].author] = "served"
  BY DEF IInv, TypeOK, Quiet

\* What was due stays due: declarations are fixed and ops do not change.
LEMMA DueStays ==
  ASSUME NEW p \in Persona, NEW c, decl'[p] = decl[p], stream'[c] = stream[c], Due(p, c)
  PROVE  Due(p, c)'
  BY DEF Due, Listens, Declares

\* What a post adds.
LEMMA NewOp ==
  ASSUME IInv, NEW id \in Seq(Name), NEW who \in Persona \cup {Human},
         NEW taps \in SUBSET Persona, Post(id, who, taps), gone' = gone
  PROVE  /\ Len(stream) + 1 \notin Op /\ Op' = Op \cup {Len(stream) + 1}
         /\ View' = View \cup {Len(stream) + 1}
         /\ \A k \in Op : stream'[k] = stream[k]
         /\ stream'[Len(stream) + 1].id = id
         /\ stream'[Len(stream) + 1].author = who
  <1>1. stream \in Seq(Turn) /\ gone \in 0..Len(stream)
    BY DEF IInv, TypeOK
  <1>2. [id |-> id, author |-> who, taps |-> taps] \in Turn
    BY DEF Turn, Name
  <1>3. /\ Len(stream') = Len(stream) + 1
        /\ \A k \in Op : stream'[k] = stream[k]
        /\ stream'[Len(stream) + 1] = [id |-> id, author |-> who, taps |-> taps]
    BY <1>1, <1>2 DEF Post, Op
  <1> QED
    BY <1>1, <1>3 DEF Op, View

\* A post under a fresh id, or the outcome of the wake its author works on.
LEMMA PostKeepsTree ==
  ASSUME IInv, TreeInv, NEW id \in Seq(Name), NEW who \in Persona \cup {Human},
         NEW taps \in SUBSET Persona, Post(id, who, taps), gone' = gone, decl' = decl,
         \/ id = FreshId
         \/ who \in Persona /\ at[who] = "run" /\ id = WakeOpID(wake[who], who),
         \A q \in Persona : at'[q] = "run" =>
           at[q] = "run" /\ wake'[q] = wake[q] /\ (q = who => id = FreshId)
  PROVE  TreeInv'
  <1> DEFINE last == Len(stream) + 1
             answer == who \in Persona /\ at[who] = "run" /\ id = WakeOpID(wake[who], who)
  <1> USE DEF TreeInv
  <1>1. /\ last \notin Op /\ Op' = Op \cup {last} /\ View' = View \cup {last}
        /\ \A k \in Op : stream'[k] = stream[k]
        /\ stream'[last].id = id /\ stream'[last].author = who
    BY NewOp
  <1>2. Len(stream) \in Nat /\ (\A k \in View : k \in Op)
    BY ViewIsOfOps DEF IInv, TypeOK
  <1>3. id = FreshId => id = <<last>> /\ Len(id) = 1
    BY DEF FreshId
  <1>4. answer => wake[who] \in Op /\ Due(who, wake[who]) /\ ~Answered(who, wake[who])
    BY PostersAreServed DEF Pending
  <1>5. \A k \in Op, p \in Persona : WakeOpID(k, p)' = WakeOpID(k, p)
    BY <1>1 DEF WakeOpID
  <1>6. \A k \in Op, p \in Persona : Due(p, k) => Due(p, k)'
    BY <1>1, DueStays
  <1> HIDE DEF last
  <1>7. Rooted'
    <2> SUFFICES ASSUME NEW k \in Op', stream'[k].id # <<k>>
                 PROVE  \E c \in Op', p \in Persona :
                          stream'[k].author = p /\ stream'[k].id = WakeOpID(c, p)' /\ Due(p, c)'
      BY DEF Rooted
    <2>1. CASE k \in Op
      <3>1. PICK c \in Op, p \in Persona :
              stream[k].author = p /\ stream[k].id = WakeOpID(c, p) /\ Due(p, c)
        BY <1>1, <2>1 DEF Rooted
      <3> QED
        BY <1>1, <1>5, <1>6, <2>1, <3>1
    <2>2. CASE k = last /\ id = FreshId
      BY <1>1, <1>3, <2>2
    <2>3. CASE k = last /\ answer
      <3>1. PICK c \in Op : c = wake[who]
        BY <1>4, <2>3
      <3>2. who \in Persona /\ id = WakeOpID(c, who) /\ Due(who, c)
        BY <1>4, <2>3, <3>1
      <3>3. WakeOpID(c, who)' = WakeOpID(c, who) /\ Due(who, c)' /\ c \in Op'
        BY <1>1, <1>5, <1>6, <3>2
      <3>4. stream'[k].author = who /\ stream'[k].id = id
        BY <1>1, <2>3
      <3> QED
        BY <3>2, <3>3, <3>4
    <2> QED
      BY <1>1, <2>1, <2>2, <2>3
  <1>8. ASSUME NEW k \in View PROVE stream[k].id # id
    <2>1. CASE id = FreshId
      <3>1. k \in Op /\ k # last
        BY <1>1, <1>2
      <3>2. Len(stream[k].id) = 1 => stream[k].id = <<k>>
        BY <3>1, Lengths
      <3>3. <<k>> # <<last>>
        BY <3>1
      <3> QED
        BY <1>3, <2>1, <3>2, <3>3
    <2>2. CASE answer
      BY <1>4, <2>2 DEF Answered
    <2> QED
      BY <2>1, <2>2
  <1>9. Distinct'
    BY <1>1, <1>2, <1>8 DEF Distinct
  <1>10. Pending'
    <2> SUFFICES ASSUME NEW q \in Persona, NEW k \in Op', at'[q] = "run", wake'[q] = k
                 PROVE  Due(q, k)' /\ ~Answered(q, k)'
      BY DEF Pending
    <2>1. at[q] = "run" /\ wake[q] = k /\ (q = who => id = FreshId) /\ k \in Op
      BY PostersAreServed
    <2>2. Due(q, k) /\ ~Answered(q, k)
      BY <2>1 DEF Pending
    <2>3. id # WakeOpID(k, q)
      <3>1. Len(WakeOpID(k, q)) # 1
        <4>1. Len(WakeOpID(k, q)) = Len(stream[k].id) + 1
          BY <2>1, OutcomeIds
        <4>2. Len(stream[k].id) \in Nat \ {0}
          BY <2>1, Lengths
        <4> QED
          BY <4>1, <4>2
      <3>2. CASE id = FreshId
        BY <1>3, <3>1, <3>2
      <3>3. CASE answer /\ q # who
        <4>1. stream[k].id \in Seq(Name) /\ stream[wake[who]].id \in Seq(Name)
          BY <1>4, <2>1, <3>3, OpTypes
        <4>2. q \in Name /\ who \in Name
          BY <3>3 DEF Name
        <4>3. Append(stream[k].id, q) # Append(stream[wake[who]].id, who)
          BY <3>3, <4>1, <4>2, AppendIsOneToOne
        <4> QED
          BY <3>3, <4>3 DEF WakeOpID
      <3> QED
        BY <2>1, <3>2, <3>3
    <2>4. ~Answered(q, k)'
      <3>1. \A c \in View' : stream'[c].id # WakeOpID(k, q)
        BY <1>1, <1>2, <2>2, <2>3 DEF Answered
      <3> QED
        BY <1>5, <2>1, <3>1 DEF Answered
    <2> QED
      BY <1>6, <2>1, <2>2, <2>4
  <1>11. WithinDepth'
    <2> SUFFICES ASSUME gone = 0
                 PROVE  /\ \A k \in Op' :
                             Len(stream'[k].id) > 1 /\ Shown(decl[stream'[k].author]).hops > 0 =>
                               Len(stream'[k].id) - 1 <= Shown(decl[stream'[k].author]).hops
                        /\ \A p \in Persona :
                             at'[p] = "run" /\ Shown(decl[p]).hops > 0 =>
                               Len(stream'[wake'[p]].id) <= Shown(decl[p]).hops
      BY DEF WithinDepth, Shown
    <2>1. ASSUME NEW p \in Persona, at'[p] = "run", Shown(decl[p]).hops > 0
          PROVE  Len(stream'[wake'[p]].id) <= Shown(decl[p]).hops
      <3>1. at[p] = "run" /\ wake'[p] = wake[p] /\ wake[p] \in Op
        BY <2>1, PostersAreServed
      <3> QED
        BY <1>1, <2>1, <3>1 DEF WithinDepth
    <2>2. ASSUME NEW k \in Op', Len(stream'[k].id) > 1, Shown(decl[stream'[k].author]).hops > 0
          PROVE  Len(stream'[k].id) - 1 <= Shown(decl[stream'[k].author]).hops
      <3>1. CASE k \in Op
        BY <1>1, <2>2, <3>1 DEF WithinDepth
      <3>2. CASE k = last /\ id = FreshId
        <4>1. Len(stream'[k].id) = 1
          BY <1>1, <1>3, <3>2
        <4> QED
          BY <2>2, <4>1
      <3>3. CASE k = last /\ answer
        <4>1. Len(id) = Len(stream[wake[who]].id) + 1 /\ Len(stream[wake[who]].id) \in Nat
          BY <1>4, <3>3, OutcomeIds, OpTypes
        <4>2. Len(stream[wake[who]].id) <= Shown(decl[who]).hops
          BY <1>1, <2>2, <3>3 DEF WithinDepth
        <4>3. stream'[k].id = id /\ stream'[k].author = who
          BY <1>1, <3>3
        <4>4. Len(id) - 1 = Len(stream[wake[who]].id)
          BY <4>1
        <4> QED
          BY <4>2, <4>3, <4>4
      <3> QED
        BY <1>1, <3>1, <3>2, <3>3
    <2> QED
      BY <2>1, <2>2
  <1> QED
    BY <1>7, <1>9, <1>10, <1>11

\* A step that posts nothing: a placement's, a rollup, time, or a wake that
\* passed the budget.
LEMMA QuietStepKeepsTree ==
  ASSUME IInv, TreeInv, stream' = stream, gone' \in Nat, gone <= gone',
         \A q \in Persona : stage[q] = "served" => decl'[q] = decl[q],
         \A q \in Persona : at'[q] = "run" =>
           \/ at[q] = "run" /\ wake'[q] = wake[q]
           \/ /\ stage[q] = "served" /\ gone' = gone /\ wake'[q] \in Op
              /\ Due(q, wake'[q]) /\ ~Answered(q, wake'[q])
              /\ gone = 0 /\ Shown(decl[q]).hops > 0 =>
                   Len(stream[wake'[q]].id) <= Shown(decl[q]).hops
  PROVE  TreeInv'
  <1> USE DEF TreeInv
  <1>1. Op' = Op /\ (\A k \in View : k \in Op) /\ (\A k \in View' : k \in View)
    <2>1. gone \in Nat /\ Len(stream) \in Nat
      BY DEF IInv, TypeOK
    <2>2. \A k \in View' : k \in View
      BY <2>1 DEF View
    <2> QED
      BY <2>2, ViewIsOfOps DEF Op
  <1>2. \A k \in Op, p \in Persona : WakeOpID(k, p)' = WakeOpID(k, p)
    BY DEF WakeOpID
  <1>3. \A k \in Op, p \in Persona : stage[p] = "served" /\ Due(p, k) => Due(p, k)'
    BY DueStays
  <1>4. Rooted'
    BY <1>1, <1>2, <1>3, PostersAreServed DEF Rooted
  <1>5. Distinct'
    BY <1>1 DEF Distinct
  <1>6. ASSUME NEW q \in Persona, at'[q] = "run"
        PROVE  /\ stage[q] = "served" /\ wake'[q] \in Op
               /\ Due(q, wake'[q]) /\ ~Answered(q, wake'[q])
               /\ gone' = 0 /\ Shown(decl[q]).hops > 0 =>
                    Len(stream[wake'[q]].id) <= Shown(decl[q]).hops
    <2>1. gone' = 0 => gone = 0
      BY DEF IInv, TypeOK
    <2>2. CASE at[q] = "run" /\ wake'[q] = wake[q]
      <3>1. stage[q] = "served" /\ wake[q] \in Op
        BY <2>2, PostersAreServed
      <3> QED
        BY <2>1, <2>2, <3>1 DEF Pending, WithinDepth
    <2> QED
      BY <1>6, <2>2
  <1>7. Pending'
    <2> SUFFICES ASSUME NEW q \in Persona, NEW k \in Op', at'[q] = "run", wake'[q] = k
                 PROVE  Due(q, k)' /\ ~Answered(q, k)'
      BY DEF Pending
    <2>1. k \in Op /\ stage[q] = "served" /\ Due(q, k) /\ ~Answered(q, k)
      BY <1>6
    <2>2. ~Answered(q, k)'
      BY <1>1, <1>2, <2>1 DEF Answered
    <2> QED
      BY <1>3, <2>1, <2>2
  <1>8. WithinDepth'
    <2> SUFFICES ASSUME gone' = 0
                 PROVE  /\ \A k \in Op :
                             Len(stream[k].id) > 1 /\ Shown(decl'[stream[k].author]).hops > 0 =>
                               Len(stream[k].id) - 1 <= Shown(decl'[stream[k].author]).hops
                        /\ \A p \in Persona :
                             at'[p] = "run" /\ Shown(decl'[p]).hops > 0 =>
                               Len(stream[wake'[p]].id) <= Shown(decl'[p]).hops
      BY <1>1 DEF WithinDepth, Shown
    <2>1. gone = 0
      BY DEF IInv, TypeOK
    <2>2. \A k \in Op : Len(stream[k].id) > 1 => decl'[stream[k].author] = decl[stream[k].author]
      BY Lengths, PostersAreServed
    <2> QED
      BY <1>6, <2>1, <2>2 DEF WithinDepth
  <1> QED
    BY <1>4, <1>5, <1>7, <1>8

LEMMA FreshIdIsAnId ==
  ASSUME IInv
  PROVE  FreshId \in Seq(Name)
  BY DEF IInv, TypeOK, FreshId, Name

\* A wake that passes the budget leaves room for its outcome within the depth.
LEMMA WakeKeepsTree ==
  ASSUME IInv, TreeInv, NEW p \in Persona, NEW k \in Op, Wake(p, k)
  PROVE  TreeInv'
  <1> DEFINE refused == BudgetDecision(Enforced(decl[p]), k, p)
             place   == IF refused THEN "refused" ELSE "run"
  <1>1. /\ stage[p] = "served" /\ Due(p, k) /\ ~Answered(p, k) /\ Goto(p, place, k)
        /\ decl' = decl /\ stream' = stream /\ gone' = gone
    BY DEF Wake, placementVars, topicVars
  <1>2. k \in Nat /\ place \in {"idle", "refused", "run"} /\ gone \in Nat
    BY DEF IInv, TypeOK, Op
  <1>3. ~refused /\ gone = 0 /\ Shown(decl[p]).hops > 0 =>
          Len(stream[k].id) <= Shown(decl[p]).hops
    <2> SUFFICES ASSUME ~refused, gone = 0, Shown(decl[p]).hops > 0
                 PROVE  Len(stream[k].id) <= Shown(decl[p]).hops
      OBVIOUS
    <2>1. ProvableHops(k) = Len(stream[k].id) - 1 /\ Len(stream[k].id) \in Nat
      BY HopsAreExact, OpTypes DEF TreeInv
    <2>2. Shown(decl[p]).hops \in Nat
      BY <1>1, ShownIsABudget DEF IInv, Accepted
    <2>3. ~ (ProvableHops(k) + 1 > Shown(decl[p]).hops)
      BY EnforcedIsShown DEF BudgetDecision
    <2> QED
      BY <2>1, <2>2, <2>3
  <1> HIDE DEF refused
  <1>4. place = "run" => ~refused
    OBVIOUS
  <1> HIDE DEF place
  <1>5. /\ at'[p] = place /\ wake'[p] = k
        /\ \A q \in Persona : q # p => at'[q] = at[q] /\ wake'[q] = wake[q]
    BY <1>1, <1>2, GotoMoves DEF IInv
  <1>6. ASSUME NEW q \in Persona, at'[q] = "run"
        PROVE  \/ at[q] = "run" /\ wake'[q] = wake[q]
               \/ /\ stage[q] = "served" /\ gone' = gone /\ wake'[q] \in Op
                  /\ Due(q, wake'[q]) /\ ~Answered(q, wake'[q])
                  /\ gone = 0 /\ Shown(decl[q]).hops > 0 =>
                       Len(stream[wake'[q]].id) <= Shown(decl[q]).hops
    <2>1. CASE q # p
      BY <1>5, <1>6, <2>1
    <2>2. CASE q = p
      BY <1>1, <1>3, <1>4, <1>5, <1>6, <2>2
    <2> QED
      BY <2>1, <2>2
  <1> QED
    BY <1>1, <1>2, <1>6, QuietStepKeepsTree

LEMMA SelfPostKeepsTree ==
  ASSUME IInv, TreeInv, NEW p \in Persona, NEW taps \in SUBSET Persona, SelfPost(p, taps)
  PROVE  TreeInv'
  <1>1. /\ Post(FreshId, p, taps) /\ gone' = gone /\ decl' = decl
        /\ at' = at /\ wake' = wake
    BY DEF SelfPost, placementVars
  <1> QED
    BY <1>1, FreshIdIsAnId, PostKeepsTree

LEMMA AskKeepsTree ==
  ASSUME IInv, TreeInv, NEW taps \in SUBSET Persona, Ask(taps)
  PROVE  TreeInv'
  <1>1. /\ Post(FreshId, Human, taps) /\ gone' = gone /\ decl' = decl
        /\ at' = at /\ wake' = wake
    BY DEF Ask, placementVars, engineVars
  <1> QED
    BY <1>1, FreshIdIsAnId, PostKeepsTree

LEMMA ReplyKeepsTree ==
  ASSUME IInv, TreeInv, NEW p \in Persona, NEW taps \in SUBSET Persona, Reply(p, taps)
  PROVE  TreeInv'
  <1>1. /\ at[p] = "run" /\ Post(WakeOpID(wake[p], p), p, taps) /\ Goto(p, "idle", 0)
        /\ gone' = gone /\ decl' = decl
    BY DEF Reply, placementVars
  <1>2. WakeOpID(wake[p], p) \in Seq(Name)
    BY <1>1, PostersAreServed, OutcomeIds
  <1>3. /\ at'[p] = "idle"
        /\ \A q \in Persona : q # p => at'[q] = at[q] /\ wake'[q] = wake[q]
    BY <1>1, GotoMoves DEF IInv
  <1> QED
    BY <1>1, <1>2, <1>3, PostKeepsTree

LEMMA RestKeepsTree ==
  ASSUME IInv, TreeInv, NEW p \in Persona, Rest(p)
  PROVE  TreeInv'
  <1>1. Goto(p, "idle", 0) /\ decl' = decl /\ stream' = stream /\ gone' = gone /\ gone \in Nat
    BY DEF Rest, placementVars, topicVars, IInv, TypeOK
  <1>2. /\ at'[p] = "idle"
        /\ \A q \in Persona : q # p => at'[q] = at[q] /\ wake'[q] = wake[q]
    BY <1>1, GotoMoves DEF IInv
  <1> QED
    BY <1>1, <1>2, QuietStepKeepsTree

LEMMA PlacementKeepsTree ==
  ASSUME IInv, TreeInv, NEW p \in Persona,
         (\E d \in Offered : Submit(p, d)) \/ Claim(p) \/ Serve(p) \/ HandBack(p)
  PROVE  TreeInv'
  <1>1. /\ stream' = stream /\ gone' = gone /\ at' = at /\ wake' = wake
    BY DEF Submit, Claim, Serve, HandBack, topicVars, engineVars
  <1>2. \A q \in Persona : stage[q] = "served" => decl'[q] = decl[q]
    BY DEF Submit, Claim, Serve, HandBack, IInv, TypeOK
  <1>3. gone \in Nat
    BY DEF IInv, TypeOK
  <1> QED
    BY <1>1, <1>2, <1>3, QuietStepKeepsTree

LEMMA LaterKeepsTree ==
  ASSUME IInv, TreeInv, RollUp \/ Slide
  PROVE  TreeInv'
  <1>1. /\ stream' = stream /\ at' = at /\ wake' = wake /\ decl' = decl
    BY DEF RollUp, Slide, topicVars, placementVars, engineVars
  <1>2. gone' \in Nat /\ gone <= gone'
    BY DEF RollUp, Slide, topicVars, IInv, TypeOK
  <1> QED
    BY <1>1, <1>2, QuietStepKeepsTree

LEMMA StepTreeInv == IInv /\ TreeInv /\ [Next]_vars => TreeInv'
  <1> SUFFICES ASSUME IInv, TreeInv, [Next]_vars PROVE TreeInv'
    OBVIOUS
  <1>1. CASE \E p \in Persona :
               (\E d \in Offered : Submit(p, d)) \/ Claim(p) \/ Serve(p) \/ HandBack(p)
    BY <1>1, PlacementKeepsTree
  <1>2. CASE \E p \in Persona : Engine(p)
    <2> PICK p \in Persona : Engine(p)
      BY <1>2
    <2>1. CASE \E k \in Op : Wake(p, k)
      BY <2>1, WakeKeepsTree
    <2>2. CASE \E taps \in SUBSET (Persona \ {p}) : SelfPost(p, taps) \/ Reply(p, taps)
      BY <2>2, SelfPostKeepsTree, ReplyKeepsTree
    <2>3. CASE Report(p)
      BY <2>3, ReplyKeepsTree DEF Report
    <2>4. CASE Rest(p)
      BY <2>4, RestKeepsTree
    <2> QED
      BY <2>1, <2>2, <2>3, <2>4 DEF Engine
  <1>3. CASE \E taps \in SUBSET Persona : Ask(taps)
    BY <1>3, AskKeepsTree
  <1>4. CASE RollUp \/ Slide
    BY <1>4, LaterKeepsTree
  <1>5. CASE UNCHANGED vars
    <2>1. gone \in Nat
      BY DEF IInv, TypeOK
    <2> QED
      BY <1>5, <2>1, QuietStepKeepsTree DEF vars
  <1> QED
    BY <1>1, <1>2, <1>3, <1>4, <1>5 DEF Next

\* Every record the agents can make is a forest of answers, each within its
\* author's depth bound.
THEOREM TheRecordIsAForest == Spec => []TreeInv
  BY InitTreeInv, StepTreeInv, IInvIsInvariant, PTL DEF Spec

-----------------------------------------------------------------------------
(* Depth.                                                                  *)

\* No outcome sits deeper than its author's declaration shows, whatever landed
\* between its admission and its post (BudgetDecision, correlate.go).
THEOREM DepthBoundHolds == Spec => []DepthHolds
  <1>1. IInv /\ TreeInv => DepthHolds
    <2> SUFFICES ASSUME IInv, TreeInv, gone = 0, NEW k \in Op, Len(stream[k].id) > 1,
                        Shown(decl[stream[k].author]).hops > 0
                 PROVE  ProvableHops(k) <= Shown(decl[stream[k].author]).hops
      BY DEF DepthHolds
    <2>1. ProvableHops(k) = Len(stream[k].id) - 1
      BY HopsAreExact DEF TreeInv
    <2> QED
      BY <2>1 DEF TreeInv, WithinDepth
  <1> QED
    BY <1>1, IInvIsInvariant, TheRecordIsAForest, PTL

\* A wake is refused only under a bound its declaration shows, and one that is
\* reached; a rolled-up record makes a walk shorter and never longer.
THEOREM RefusalsAreDeclared == Spec => RefusedOnlyAsDeclared
  <1> DEFINE Explained(p) ==
        at[p] = "idle" /\ at'[p] = "refused" =>
          LET b == Shown(decl[p])
          IN  \/ b.hops > 0 /\ Len(stream[wake'[p]].id) > b.hops
              \/ b.max > 0 /\ Cardinality(OwnTurns(p)) >= b.max
  <1>1. IInv /\ TreeInv /\ [Next]_vars => [\A p \in Persona : Explained(p)]_vars
    <2> SUFFICES ASSUME IInv, TreeInv, Next, NEW p \in Persona, at[p] = "idle", at'[p] = "refused"
                 PROVE  \/ Shown(decl[p]).hops > 0
                           /\ Len(stream[wake'[p]].id) > Shown(decl[p]).hops
                        \/ Shown(decl[p]).max > 0
                           /\ Cardinality(OwnTurns(p)) >= Shown(decl[p]).max
      OBVIOUS
    <2>1. PICK k \in Op : Wake(p, k)
      <3>1. PICK q \in Persona : Engine(q)
        BY DEF Next, Submit, Claim, Serve, HandBack, Ask, RollUp, Slide, engineVars
      <3>2. q = p
        <4> SUFFICES ASSUME q # p PROVE FALSE
          OBVIOUS
        <4>1. at'[p] = at[p]
          BY <3>1 DEF Engine, Wake, SelfPost, Reply, Report, Rest, Goto, IInv, TypeOK
        <4> QED
          BY <4>1
      <3>3. at'[p] = "refused" => \E k \in Op : Wake(p, k)
        BY <3>1, <3>2 DEF Engine, SelfPost, Reply, Report, Rest, Goto, IInv, TypeOK
      <3> QED
        BY <3>3
    <2>2. /\ stage[p] = "served" /\ wake'[p] = k
          /\ BudgetDecision(Enforced(decl[p]), k, p)
      BY <2>1 DEF Wake, Goto, IInv, TypeOK
    <2>3. ProvableHops(k) \in Nat /\ ProvableHops(k) <= Len(stream[k].id) - 1
      BY HopsAreProvable DEF TreeInv
    <2>4. Len(stream[k].id) \in Nat /\ Shown(decl[p]).hops \in Nat
      BY <2>2, OpTypes, ShownIsABudget DEF IInv, Accepted
    <2>5. \/ Shown(decl[p]).hops > 0 /\ ProvableHops(k) + 1 > Shown(decl[p]).hops
          \/ Shown(decl[p]).max > 0 /\ Cardinality(OwnTurns(p)) >= Shown(decl[p]).max
      BY <2>2, EnforcedIsShown DEF BudgetDecision
    <2> QED
      BY <2>2, <2>3, <2>4, <2>5
  <1> QED
    BY <1>1, IInvIsInvariant, TheRecordIsAForest, PTL DEF Spec, RefusedOnlyAsDeclared

-----------------------------------------------------------------------------
(* Width.                                                                  *)

LEMMA OutcomesAreFinite ==
  ASSUME IInv, NEW root, NEW depth
  PROVE  IsFiniteSet(Outcomes(root, depth)) /\ Cardinality(Outcomes(root, depth)) \in Nat
  <1>1. IsFiniteSet(Op)
    BY FS_Interval DEF Op, IInv, TypeOK
  <1> QED
    BY <1>1, FS_Subset, FS_CardinalityType DEF Outcomes

\* What answers at one depth answers an op of the depth before, of another
\* author, who was due to it.
LEMMA OutcomesAnswer ==
  ASSUME IInv, TreeInv, gone = 0, NEW root \in Op, NEW depth \in Nat,
         NEW k \in Outcomes(root, depth + 1)
  PROVE  \E c \in Outcomes(root, depth), p \in Persona :
           /\ stream[k].author = p /\ stream[k].id = WakeOpID(c, p)
           /\ Due(p, c)
  <1>1. k \in Op /\ Len(stream[k].id) = depth + 2 /\ stream[k].id[1] = root
    BY DEF Outcomes
  <1>2. PICK c \in Op, p \in Persona :
          stream[k].author = p /\ stream[k].id = WakeOpID(c, p) /\ Due(p, c)
    <2>1. Len(stream[k].id) > 1
      BY <1>1
    <2> QED
      BY <1>1, <2>1, Lengths DEF TreeInv
  <1>3. Len(stream[k].id) = Len(stream[c].id) + 1 /\ Len(stream[c].id) \in Nat
    BY <1>2, OutcomeIds, OpTypes
  <1>4. Len(stream[c].id) = depth + 1
    BY <1>1, <1>3
  <1>5. stream[c].id[1] = root
    <2>1. 1 \in 1..Len(stream[c].id)
      BY <1>4
    <2>2. WakeOpID(c, p)[1] = stream[c].id[1]
      BY <2>1, OutcomeIds
    <2> QED
      BY <1>1, <1>2, <2>2
  <1> QED
    BY <1>2, <1>4, <1>5 DEF Outcomes

\* Before a rollup, an op has one outcome of each persona.
LEMMA OneOutcomeEach ==
  ASSUME IInv, TreeInv, gone = 0, NEW j \in Op, NEW k \in Op, stream[j].id = stream[k].id
  PROVE  j = k
  BY ViewIsOfOps DEF TreeInv, Distinct

\* The first answers are of those the root wakes, one each.
LEMMA FirstAnswers ==
  ASSUME IInv, TreeInv, gone = 0, NEW root \in Op, Len(stream[root].id) = 1
  PROVE  Cardinality(Outcomes(root, 1))
           <= Cardinality({p \in Persona \ {stream[root].author} : Listens(p, root)})
  <1> DEFINE first == {p \in Persona \ {stream[root].author} : Listens(p, root)}
             S     == Outcomes(root, 1)
             f     == [k \in S |-> stream[k].author]
  <1>1. Outcomes(root, 0) = {root}
    <2>1. stream[root].id = <<root>>
      BY Lengths DEF TreeInv
    <2>2. root \in Outcomes(root, 0)
      BY <2>1 DEF Outcomes
    <2>3. \A c \in Outcomes(root, 0) : c = root
      <3> SUFFICES ASSUME NEW c \in Outcomes(root, 0) PROVE c = root
        OBVIOUS
      <3>1. c \in Op /\ Len(stream[c].id) = 1 /\ stream[c].id[1] = root
        BY DEF Outcomes
      <3>2. stream[c].id = <<c>>
        BY <3>1, Lengths DEF TreeInv
      <3> QED
        BY <3>1, <3>2
    <2> QED
      BY <2>2, <2>3
  <1>2. ASSUME NEW k \in S
        PROVE  \E p \in first : stream[k].author = p /\ stream[k].id = WakeOpID(root, p)
    <2>1. PICK c \in Outcomes(root, 0), p \in Persona :
            stream[k].author = p /\ stream[k].id = WakeOpID(c, p) /\ Due(p, c)
      <3>1. k \in Outcomes(root, 0 + 1) /\ 0 \in Nat
        BY <1>2
      <3> QED
        BY <3>1, OutcomesAnswer
    <2> QED
      BY <1>1, <2>1 DEF Due
  <1>3. f \in Injection(S, first)
    <2>1. f \in [S -> first]
      BY <1>2
    <2>2. ASSUME NEW j \in S, NEW k \in S, f[j] = f[k] PROVE j = k
      <3>1. stream[j].id = stream[k].id
        BY <1>2, <2>2
      <3>2. j \in Op /\ k \in Op
        BY DEF Outcomes
      <3> QED
        BY <3>1, <3>2, OneOutcomeEach
    <2> QED
      BY <2>1, <2>2 DEF Injection, IsInjective
  <1>4. IsFiniteSet(first)
    BY PersonasAreFinite, FS_Subset
  <1> HIDE DEF f, first, S
  <1>5. Cardinality(S) <= Cardinality(first)
    BY <1>3, <1>4, FS_Injection
  <1> QED
    BY <1>5 DEF S, first

\* Every answer has at most one answer of each other persona.
LEMMA NextAnswers ==
  ASSUME IInv, TreeInv, gone = 0, NEW root \in Op, NEW depth \in Nat \ {0}
  PROVE  Cardinality(Outcomes(root, depth + 1))
           <= Cardinality(Outcomes(root, depth)) * (Cardinality(Persona) - 1)
  <1> DEFINE S == Outcomes(root, depth + 1)
             T == Outcomes(root, depth)
  <1>1. \A k \in S : \E c \in T, p \in Persona :
          /\ stream[k].author = p /\ stream[k].id = WakeOpID(c, p)
          /\ p # stream[c].author
    BY OutcomesAnswer DEF Due
  <1>2. \A c \in T : c \in Op /\ stream[c].author \in Persona
    <2> SUFFICES ASSUME NEW c \in T PROVE c \in Op /\ stream[c].author \in Persona
      OBVIOUS
    <2>1. c \in Op /\ Len(stream[c].id) > 1
      BY DEF Outcomes
    <2> QED
      BY <2>1, Lengths DEF TreeInv
  <1>3. IsFiniteSet(T) /\ Cardinality(T) \in Nat /\ Cardinality(Persona) \in Nat
    BY OutcomesAreFinite, PersonasAreFinite, FS_CardinalityType
  <1>4. \A j, k \in S : stream[j].id = stream[k].id => j = k
    BY OneOutcomeEach DEF Outcomes
  <1> HIDE DEF S, T
  <1>5. CASE S = {}
    <2>1. Cardinality(S) = 0
      BY <1>5, FS_EmptySet
    <2>2. CASE T = {}
      <3>1. Cardinality(T) = 0
        BY <2>2, FS_EmptySet
      <3> QED
        BY <1>3, <2>1, <3>1 DEF S, T
    <2>3. CASE T # {}
      <3>1. Persona # {}
        BY <1>2, <2>3
      <3>2. Cardinality(Persona) # 0
        BY <3>1, PersonasAreFinite, FS_EmptySet
      <3>3. Cardinality(Persona) - 1 \in Nat
        BY <1>3, <3>2
      <3>4. \A m, n \in Nat : 0 <= m * n
        OBVIOUS
      <3> QED
        BY <1>3, <2>1, <3>3, <3>4 DEF S, T
    <2> QED
      BY <2>2, <2>3
  <1>6. CASE S # {}
    <2>1. PICK x \in Persona : TRUE
      BY <1>1, <1>6
    <2> DEFINE up(k)   == CHOOSE c \in T : \E p \in Persona :
                            /\ stream[k].author = p /\ stream[k].id = WakeOpID(c, p)
                            /\ p # stream[c].author
               other(k) == IF stream[k].author = x THEN stream[up(k)].author
                           ELSE stream[k].author
               f        == [k \in S |-> <<up(k), other(k)>>]
    <2>2. ASSUME NEW k \in S
          PROVE  /\ up(k) \in T /\ stream[k].author \in Persona
                 /\ stream[k].id = WakeOpID(up(k), stream[k].author)
                 /\ stream[k].author # stream[up(k)].author
      BY <1>1, <2>2
    <2> HIDE DEF up
    <2>3. ASSUME NEW k \in S PROVE other(k) \in Persona \ {x}
      BY <1>2, <2>2, <2>3
    <2>4. ASSUME NEW j \in S, NEW k \in S, up(j) = up(k), other(j) = other(k)
          PROVE  j = k
      <3>1. stream[j].author = stream[k].author
        BY <2>2, <2>4
      <3>2. stream[j].id = stream[k].id
        BY <2>2, <2>4, <3>1
      <3> QED
        BY <1>4, <3>2
    <2> HIDE DEF other
    <2>5. f \in Injection(S, T \X (Persona \ {x}))
      <3>1. f \in [S -> T \X (Persona \ {x})]
        BY <2>2, <2>3
      <3>2. \A j, k \in S : f[j] = f[k] => j = k
        BY <2>4
      <3> QED
        BY <3>1, <3>2 DEF Injection, IsInjective
    <2> HIDE DEF f
    <2>6. /\ IsFiniteSet(Persona \ {x})
          /\ Cardinality(Persona \ {x}) = Cardinality(Persona) - 1
      BY PersonasAreFinite, FS_RemoveElement
    <2>7. /\ IsFiniteSet(T \X (Persona \ {x}))
          /\ Cardinality(T \X (Persona \ {x})) = Cardinality(T) * Cardinality(Persona \ {x})
      BY <1>3, <2>6, FS_Product
    <2>8. Cardinality(S) <= Cardinality(T \X (Persona \ {x}))
      BY <2>5, <2>7, FS_Injection
    <2> QED
      BY <2>6, <2>7, <2>8 DEF S, T
  <1> QED
    BY <1>5, <1>6

\* The tree of answers to one root starts with those it wakes, widens at every
\* hop by the other personas at most and ends at the largest bound, for any
\* number of agents, however they tap each other (specs/008 SC-001).
THEOREM CyclesHalt == Spec => []CycleHalts
  <1>1. IInv /\ TreeInv => CycleHalts
    <2> SUFFICES ASSUME IInv, TreeInv, NEW root \in Op, NEW depth \in 1..MaxTurns,
                        gone = 0, Len(stream[root].id) = 1
                 PROVE  /\ Cardinality(Outcomes(root, 1)) <= Cardinality(
                             {p \in Persona \ {stream[root].author} : Listens(p, root)})
                        /\ Cardinality(Outcomes(root, depth + 1))
                             <= Cardinality(Outcomes(root, depth)) * (Cardinality(Persona) - 1)
                        /\ (\A b \in {Shown(decl[p]).hops : p \in Persona} : 0 < b /\ b < depth)
                             => Outcomes(root, depth) = {}
      BY DEF CycleHalts
    <2>1. depth \in Nat \ {0}
      BY CascadeAssumption
    <2>2. ASSUME \A b \in {Shown(decl[p]).hops : p \in Persona} : 0 < b /\ b < depth,
                 NEW k \in Outcomes(root, depth)
          PROVE  FALSE
      <3>1. k \in Op /\ Len(stream[k].id) = depth + 1
        BY DEF Outcomes
      <3>2. stream[k].author \in Persona
        <4>1. Len(stream[k].id) > 1
          BY <2>1, <3>1
        <4> QED
          BY <3>1, <4>1, Lengths DEF TreeInv
      <3> DEFINE bound == Shown(decl[stream[k].author]).hops
      <3>3. bound \in Nat
        BY <3>1, <3>2, PostersAreServed, ShownIsABudget DEF IInv, Accepted
      <3>4. 0 < bound /\ bound < depth
        BY <2>2, <3>2
      <3>5. bound > 0 /\ Len(stream[k].id) > 1 => Len(stream[k].id) - 1 <= bound
        BY <3>1 DEF TreeInv, WithinDepth
      <3> HIDE DEF bound
      <3> QED
        BY <2>1, <3>1, <3>3, <3>4, <3>5
    <2> QED
      BY <2>1, <2>2, FirstAnswers, NextAnswers
  <1> QED
    BY <1>1, IInvIsInvariant, TheRecordIsAForest, PTL

=============================================================================
