---------------------------- MODULE MCWakeEngine ----------------------------
(* Small instances of WakeEngine for TLC.                                  *)
EXTENDS WakeEngine, TLC

CONSTANTS e1, e2, w1, w2, w3

\* One of each replayed source and a tick.
MentionTickAndTopic ==
  [w \in Wake |-> CASE w = w1 -> "mention" [] w = w2 -> "schedule" [] OTHER -> "topic"]

\* One op of a watched topic; everything else is a mention.
MentionsAndTopic == [w \in Wake |-> IF w = w3 THEN "topic" ELSE "mention"]

\* Topic ops alone.
Topics == [w \in Wake |-> "topic"]

\* Ticks alone.
Ticks == [w \in Wake |-> "schedule"]

\* Where nothing fails: what is lost is lost to a refusal.
FaultlessSpec == Init /\ [][Next /\ ~Fault]_vars /\ Fairness(e1) /\ TimePasses

=============================================================================
