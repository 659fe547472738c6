----------------------------- MODULE Lifecycle -----------------------------
(***************************************************************************)
(* What the ops of one workload promise to whoever reads them on the       *)
(* topic, on every backend alike: an item is opened, claimed once there is *)
(* a workload, and closed once, when the workload is over; a start that    *)
(* failed is given up.  No goroutine, pod or publish appears here.         *)
(***************************************************************************)
VARIABLES
  life,    \* the last op on the item, or "none"
  body,    \* the workload: none, running, succeeded, failed
  asked,   \* has somebody asked for its end?
  blind    \* did the platform fail to answer what became of it?

lifecycleVars == <<life, body, asked, blind>>

Init == life = "none" /\ body = "none" /\ ~asked /\ ~blind

Open ==
  /\ life = "none"
  /\ life' = "open"
  /\ UNCHANGED <<body, asked, blind>>

Begin ==
  /\ life = "open" /\ body = "none"
  /\ body' = "running"
  /\ UNCHANGED <<life, asked, blind>>

\* The start failed, and may have left something running.
GiveUp ==
  /\ life = "open" /\ body = "none"
  /\ life' = "abandon"
  /\ body' \in {"none", "running"}
  /\ UNCHANGED <<asked, blind>>

\* A claim means: started.
Claim ==
  /\ life = "open" /\ body # "none"
  /\ life' = "claim"
  /\ UNCHANGED <<body, asked, blind>>

End ==
  /\ body = "running"
  /\ body' \in {"succeeded", "failed"}
  /\ UNCHANGED <<life, asked, blind>>

Over == body \in {"succeeded", "failed"} \/ blind

\* done is earned or asked for.
Done ==
  /\ life = "claim" /\ Over
  /\ body = "succeeded" \/ asked
  /\ life' = "done"
  /\ UNCHANGED <<body, asked, blind>>

Abandon ==
  /\ life = "claim" /\ Over
  /\ life' = "abandon"
  /\ UNCHANGED <<body, asked, blind>>

Ask == asked' = TRUE /\ UNCHANGED <<life, body, blind>>

GoBlind == blind' = TRUE /\ UNCHANGED <<life, body, asked>>

Next ==
  \/ Open \/ Begin \/ GiveUp \/ Claim \/ End \/ Done \/ Abandon
  \/ Ask \/ GoBlind

LifecycleSpec == Init /\ [][Next]_lifecycleVars

=============================================================================
