----------------------------- MODULE MCCascade -----------------------------
(* A small instance of Cascade for TLC.                                    *)
EXTENDS Cascade, TLC

CONSTANTS ann, bob, hal

Entry(kind, set) == [kind |-> kind, set |-> set]

NoField == [x \in {} |-> x]
Mention == Entry("mention", NoField)

\* An agent woken by mentions, with nothing optional.
Plain ==
  [role |-> "agent", lifecycle |-> "service", persona |-> "p", topic |-> "t",
   artifact |-> Unset, instructions |-> Unset, capabilities |-> Unset,
   inference |-> Unset, wake |-> <<Mention>>, budget |-> Unset]

Budgets == {[hops |-> 0, max |-> 0, per |-> "positive"],
            [hops |-> 1, max |-> 0, per |-> Bad],
            [hops |-> -1, max |-> 0, per |-> "positive"],
            [hops |-> 1, max |-> 1, per |-> Bad],
            [hops |-> 1, max |-> -1, per |-> "positive"]}

Topic(path, types) == Entry("topic", [path |-> path, types |-> types])
Tick(name) == Entry("schedule", [name |-> name, pattern |-> "@every 1h"])

\* Wake sets: right, twice the same, foreign to the kind, short of a field.
Wakes == {<<>>, <<Mention, Mention>>, <<Entry("mood", NoField)>>,
          <<Topic("t", {"turn.post"}), Topic("t", {"comment.add"})>>,
          <<Topic("t", {"presence.set"})>>, <<Topic("t", {Bad})>>,
          <<Topic(Bad, {})>>, <<Tick("n"), Tick("n")>>,
          <<Entry("schedule", [name |-> "n"])>>,
          <<Entry("subject", [subject |-> "s", path |-> "t"])>>}

\* Everything at once, under a window alone.
Full == [Plain EXCEPT
  !.wake = <<Topic("t", {}), Tick("n"), Mention, Entry("subject", [subject |-> "s"])>>,
  !.budget = [hops |-> 0, max |-> 1, per |-> "positive"]]

MCOffered ==
  {Plain, Full}
  \cup {[Plain EXCEPT !.budget = x] : x \in Budgets}
  \cup {[Plain EXCEPT !.wake = x] : x \in Wakes}
  \cup {[Plain EXCEPT ![f] = Bad] : f \in DOMAIN Plain \ {"wake", "budget"}}
  \cup {[Plain EXCEPT !.role = "tool"],
        [Plain EXCEPT !.role = "tool", !.wake = <<>>, !.artifact = "file"],
        [Plain EXCEPT !.wake = <<>>, !.artifact = "file"],
        [Plain EXCEPT !.lifecycle = "job"]}

Symmetry == Permutations(Persona)

=============================================================================
