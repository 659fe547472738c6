----------------------------- MODULE Declared -----------------------------
(***************************************************************************)
(* What an agent's declaration must look like to be accepted, and what the *)
(* node makes of it: declaration.Validate at submission, Servable at the   *)
(* race, wrap.DeclaredConfig and Config.ApplyDefaults at the serve.        *)
(*                                                                         *)
(* A field holds Unset, Bad (present, outside its grammar) or a value the  *)
(* code tells apart from others.  A wake entry is its kind and a function  *)
(* from the fields that are set to their values.                           *)
(***************************************************************************)
EXTENDS Integers, Sequences

CONSTANTS
  Unset, Bad,
  DefaultHops,   \* declaration.DefaultBudget.MaxHops
  DefaultMax     \* declaration.DefaultBudget.Window.Max

ASSUME DefaultIsABudget ==
  DefaultHops \in Nat \ {0} /\ DefaultMax \in Nat \ {0}

ASSUME BadIsNoValue == Bad \notin {Unset, "positive"}

DefaultBudget == [hops |-> DefaultHops, max |-> DefaultMax]
NoBudget      == [hops |-> 0, max |-> 0]

-----------------------------------------------------------------------------
(* declaration.Validate.                                                   *)

\* The fields a wake kind takes, and those it cannot do without.
Takes == [mention  |-> {},
          topic    |-> {"path", "types"},
          schedule |-> {"name", "pattern", "ttl"},
          subject  |-> {"subject"}]

Needs == [mention  |-> {},
          topic    |-> {"path"},
          schedule |-> {"name", "pattern"},
          subject  |-> {"subject"}]

WellFormed(field, value) ==
  IF field = "types" THEN Bad \notin value ELSE value # Bad

ValidEntry(e) ==
  /\ e.kind \in DOMAIN Takes
  /\ Needs[e.kind] \subseteq DOMAIN e.set /\ DOMAIN e.set \subseteq Takes[e.kind]
  /\ \A f \in DOMAIN e.set : WellFormed(f, e.set[f])

\* What may be declared once: the mention, a topic path, a schedule name, a
\* subject.
Key(e) == CASE e.kind = "mention"  -> "mention"
            [] e.kind = "topic"    -> e.set["path"]
            [] e.kind = "schedule" -> e.set["name"]
            [] e.kind = "subject"  -> e.set["subject"]

ValidWake(wake) ==
  /\ \A i \in DOMAIN wake : ValidEntry(wake[i])
  /\ \A i, j \in DOMAIN wake :
       wake[i].kind = wake[j].kind /\ Key(wake[i]) = Key(wake[j]) => i = j

\* Mutation of ValidBudget: the window's duration is not looked at.
AnyPeriod(b) == b.hops >= 0 /\ b.max >= 0

\* Mutation of ValidBudget: a negative depth is let through.
AnyDepth(b) == b.max >= 0 /\ (b.max > 0 => b.per = "positive")

\* A period counts only under a window that counts.
ValidBudget(b) ==
  /\ b.hops >= 0 /\ b.max >= 0
  /\ b.max > 0 => b.per = "positive"

EngineServed(d) == d.role = "agent" /\ d.wake # <<>>

\* What only an agent may declare, and each has a grammar of its own.
AgentBlocks == {"instructions", "capabilities", "inference"}

ValidBlocks(d) == \A b \in AgentBlocks : d[b] # Bad

\* An engine-served agent may omit the artifact, nobody may spoil it.
ValidArtifact(d) == d.artifact # Bad /\ (d.artifact = Unset => EngineServed(d))

Validate(d) ==
  /\ d.role \in {"agent", "tool"} /\ d.lifecycle = "service"
  /\ {d.persona, d.topic} \cap {Unset, Bad} = {}
  /\ ValidArtifact(d)
  /\ \/ /\ d.role = "agent"
        /\ ValidBlocks(d)
        /\ ValidWake(d.wake)
        /\ d.budget # Unset => ValidBudget(d.budget)
     \/ /\ d.role # "agent" /\ d.wake = <<>> /\ d.budget = Unset
        /\ \A b \in AgentBlocks : d[b] = Unset

-----------------------------------------------------------------------------
(* The node's side.                                                        *)

\* The dispatcher claims what the wake engine serves; the rest is the Runner
\* path's.
Servable(d) == d.role = "agent" /\ d.wake # <<>>

\* The op types a topic wake can catch up from the view.
Replayable == {"turn.post", "comment.add", "comment.reply", "attachment.add"}

EffectiveTypes(e) ==
  IF "types" \in DOMAIN e.set /\ e.set["types"] # {}
  THEN e.set["types"] ELSE {"turn.post"}

\* WakeSet.Validate: something wakes the agent, what no record wakes has a home
\* for its outcomes, and every topic wake is replay-exact.
ValidWakeSet(d) ==
  /\ d.wake # <<>>
  /\ (\E i \in DOMAIN d.wake : d.wake[i].kind \in {"schedule", "subject"})
       => d.topic # Unset
  /\ \A i \in DOMAIN d.wake :
       d.wake[i].kind = "topic" => EffectiveTypes(d.wake[i]) \subseteq Replayable

\* DeclaredConfig returns a config rather than an error: it validates again and
\* parses what it maps.
Runnable(d) ==
  /\ Validate(d) /\ d.role = "agent" /\ ValidWakeSet(d)
  /\ d.budget # Unset /\ d.budget.max > 0 => d.budget.per # Bad

\* The declared block as the engine's knobs; without one the base's, which no
\* caller sets.
MappedBudget(d) ==
  IF d.budget = Unset THEN NoBudget
  ELSE [hops |-> d.budget.hops, max |-> d.budget.max]

\* An explicit all-zero block is the opt-out.
Unbudgeted(d) == d.budget # Unset /\ MappedBudget(d) = NoBudget

\* Mutation of ApplyDefaults: whatever reads as zero is filled.
FillAnyZero(budget, unbudgeted) ==
  IF budget = NoBudget THEN DefaultBudget ELSE budget

\* An untouched budget gets the defaults unless the declaration opted out; a
\* partly set one is taken as written.
ApplyDefaults(budget, unbudgeted) ==
  IF ~unbudgeted /\ budget = NoBudget THEN DefaultBudget ELSE budget

\* What the engine of this declaration enforces.  0 is no bound.
Enforced(d) == ApplyDefaults(MappedBudget(d), Unbudgeted(d))

=============================================================================
