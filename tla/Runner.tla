------------------------------- MODULE Runner -------------------------------
(***************************************************************************)
(* One workload of the Runner path: runner.Launch, the Running handle it   *)
(* returns (Wait, Stop, Serve), the backend under it, and the ops that     *)
(* record its life on the topic.                                           *)
(*                                                                         *)
(* The goroutine that called Launch is at[]; Serve adds one that waits for *)
(* the handle, the k8s backend one that supervises.  The workload exits    *)
(* when it likes, the signal arrives when it likes, every publish and      *)
(* every request may fail, landed or not, and the runner may die at any    *)
(* point.                                                                  *)
(***************************************************************************)
EXTENDS Naturals, Sequences, Backends

VARIABLES
  at,         \* where the caller's goroutine is
  record,     \* the lifecycle ops on the topic, in stream order
  ending,     \* has an end been asked for: Serve's ctx over, or Stop called?
  waiter      \* Serve's own goroutine, and the exited channel it fills

vars == <<at, record, ending, waiter, backendVars>>

Places == {"launch", "opened", "resolved", "started", "held", "wait", "serve",
           "grace", "await", "complete", "abandon",
           "returned", "failed", "dead"}

TypeOK ==
  /\ at \in Places
  /\ record \in Seq({"open", "claim", "done", "abandon"}) /\ Len(record) <= 3
  /\ BackendTypeOK
  /\ ending \in BOOLEAN
  /\ waiter \in {"none", "waiting", "delivered"}

Init ==
  /\ at = "launch"
  /\ record = <<>>
  /\ BackendInit
  /\ ending = FALSE
  /\ waiter = "none"

\* A publish: it lands.
Publish(op) == record' = Append(record, op)

\* A publish whose success is not known, or makes no difference.
PublishError(op) == Publish(op) \/ UNCHANGED record

-----------------------------------------------------------------------------
(* Launch.                                                                 *)

\* Validation, the artifact reference or the minter refuses: nothing is
\* published.
Refuse ==
  /\ at = "launch"
  /\ at' = "failed"
  /\ UNCHANGED <<record, backendVars, ending, waiter>>

OpenWork ==
  /\ at = "launch"
  /\ at' = "opened"
  /\ Publish("open")
  /\ UNCHANGED <<backendVars, ending, waiter>>

OpenWorkError ==
  /\ at = "launch"
  /\ at' = "failed"
  /\ PublishError("open")
  /\ UNCHANGED <<backendVars, ending, waiter>>

\* A file:// artifact is where it is; a record-form one is written to scratch.
Resolve ==
  /\ at = "opened"
  /\ at' = "resolved"
  /\ scratch' \in BOOLEAN
  /\ UNCHANGED <<record, backend, proc, status, podVars, ending, waiter>>

\* Mutation of ResolveError: the early return is missing.
ResolveErrorGoesOn ==
  /\ at = "opened"
  /\ at' = "resolved"
  /\ scratch' \in BOOLEAN
  /\ PublishError("abandon")
  /\ UNCHANGED <<backend, proc, status, podVars, ending, waiter>>

\* It could not be: the item is abandoned, or not even that, and what Resolve
\* wrote stays.
ResolveError ==
  /\ at = "opened"
  /\ at' = "failed"
  /\ scratch' \in BOOLEAN
  /\ PublishError("abandon")
  /\ UNCHANGED <<backend, proc, status, podVars, ending, waiter>>

Start ==
  /\ at = "resolved"
  /\ at' = "started"
  /\ ProcessStart \/ PodStart
  /\ UNCHANGED <<record, ending, waiter>>

\* The runner abandons the item.
StartError ==
  /\ at = "resolved"
  /\ at' = "failed"
  /\ ProcessStartError \/ PodStartError
  /\ PublishError("abandon")
  /\ UNCHANGED <<ending, waiter>>

ClaimWork ==
  /\ at = "started"
  /\ at' = "held"
  /\ Publish("claim")
  /\ UNCHANGED <<backendVars, ending, waiter>>

\* Launch returns the error and no handle.
ClaimWorkError ==
  /\ at = "started"
  /\ at' = "failed"
  /\ PublishError("claim")
  /\ UNCHANGED <<backendVars, ending, waiter>>

-----------------------------------------------------------------------------
(* The handle.                                                             *)

\* Mutation of Outcome: only the code is looked at, and a signalled process
\* has code zero.
OutcomeOfCode(st) == IF st = "nonzero" THEN "abandon" ELSE "complete"

\* Outcome: the terminal op the exit status calls for.
Outcome(st) == IF st = "ok" THEN "complete" ELSE "abandon"

CallWait ==
  /\ at = "held"
  /\ at' = "wait"
  /\ UNCHANGED <<record, backendVars, ending, waiter>>

WaitReturns ==
  /\ at = "wait"
  /\ HandleWaits
  /\ at' = Outcome(Result)
  /\ UNCHANGED <<record, ending, waiter>>

CallServe ==
  /\ at = "held"
  /\ at' = "serve"
  /\ waiter' = "waiting"
  /\ UNCHANGED <<record, backendVars, ending>>

WaiterReaps ==
  /\ waiter = "waiting"
  /\ HandleWaits
  /\ waiter' = "delivered"
  /\ UNCHANGED <<at, record, ending>>

\* The select took the exit.
ServeExited ==
  /\ at = "serve"
  /\ waiter = "delivered"
  /\ at' = Outcome(Result)
  /\ UNCHANGED <<record, backendVars, ending, waiter>>

\* handle.Stop is called on a running handle: where the caller waits next, and
\* where it ends when the cluster refuses.  A process is signalled and given
\* its grace; one already reaped is an error.
HandleStops(refused) ==
  \/ /\ ~OnCluster
     /\ at' = IF proc = "reaped" THEN refused ELSE "grace"
     /\ UNCHANGED backendVars
  \/ /\ PodStop
     /\ at' = "await"
  \/ /\ PodStopError
     /\ at' = refused

\* The select took the end of ctx: Serve drops Stop's error and waits.
ServeCancelled ==
  /\ at = "serve"
  /\ ending
  /\ HandleStops("await")
  /\ UNCHANGED <<record, ending, waiter>>

\* Running.Stop, on a handle nobody waits for; it returns Stop's error.
CallStop ==
  /\ at = "held"
  /\ ending' = TRUE
  /\ HandleStops("held")
  /\ UNCHANGED <<record, waiter>>

\* Mutation of GraceOver: SIGTERM is all there is.
GraceOverUnkilled ==
  /\ at = "grace"
  /\ at' = "await"
  /\ UNCHANGED <<record, backendVars, ending, waiter>>

\* The grace elapsed, or Stop's ctx ended: what still runs is killed.
GraceOver ==
  /\ at = "grace"
  /\ at' = "await"
  /\ Kill
  /\ UNCHANGED <<record, ending, waiter>>

\* Mutation of StopAwaits: the kill is taken for the end.
StopAwaitsNothing ==
  /\ at = "await"
  /\ at' = "complete"
  /\ UNCHANGED <<record, backendVars, ending, waiter>>

\* The end is awaited: Serve reads exited, Stop waits for the handle itself.
StopAwaits ==
  /\ at = "await"
  /\ \/ waiter = "delivered" /\ UNCHANGED backendVars
     \/ waiter = "none" /\ HandleWaits
  /\ at' = "complete"
  /\ UNCHANGED <<record, ending, waiter>>

TerminalOp == IF at = "complete" THEN "done" ELSE "abandon"

\* terminal: one op, whatever the caller asked for; nothing repeats it.
Terminal ==
  /\ at \in {"complete", "abandon"}
  /\ at' = "returned"
  /\ Publish(TerminalOp)
  /\ UNCHANGED <<backendVars, ending, waiter>>

\* Mutation of TerminalError: a failed publish is tried again, although it
\* may have landed.
TerminalErrorRetried ==
  /\ at \in {"complete", "abandon"}
  /\ PublishError(TerminalOp)
  /\ UNCHANGED <<at, backendVars, ending, waiter>>

TerminalError ==
  /\ at \in {"complete", "abandon"}
  /\ at' = "returned"
  /\ PublishError(TerminalOp)
  /\ UNCHANGED <<backendVars, ending, waiter>>

-----------------------------------------------------------------------------
(* The workload, the operator and the machine.                             *)

WorkloadMoves ==
  /\ Workload
  /\ UNCHANGED <<at, record, ending, waiter>>

SupervisorMoves ==
  /\ Supervise
  /\ UNCHANGED <<at, record, ending, waiter>>

Cancel ==
  /\ ~ending
  /\ ending' = TRUE
  /\ UNCHANGED <<at, record, backendVars, waiter>>

Crash ==
  /\ at \notin {"returned", "failed", "dead"}
  /\ at' = "dead"
  /\ waiter' = "none"
  /\ SupervisionEnds
  /\ UNCHANGED <<record, ending>>

-----------------------------------------------------------------------------
Launch ==
  \/ Refuse
  \/ OpenWork \/ OpenWorkError
  \/ Resolve \/ ResolveError
  \/ Start \/ StartError
  \/ ClaimWork \/ ClaimWorkError

Running ==
  \/ CallWait \/ WaitReturns
  \/ CallServe \/ WaiterReaps \/ ServeExited \/ ServeCancelled
  \/ CallStop \/ GraceOver \/ StopAwaits
  \/ Terminal \/ TerminalError

Environment == WorkloadMoves \/ SupervisorMoves \/ Cancel \/ Crash

Next == Launch \/ Running \/ Environment

\* The goroutines run and the grace periods elapse, the kubelet's as well; the
\* workload, which may ignore SIGTERM, is under no obligation.
Fairness ==
  /\ WF_vars(WaitReturns) /\ WF_vars(WaiterReaps) /\ WF_vars(ServeExited)
  /\ WF_vars(ServeCancelled) /\ WF_vars(GraceOver) /\ WF_vars(StopAwaits)
  /\ WF_vars(Terminal)
  /\ WF_vars(KubeletKills /\ WorkloadMoves)
  /\ WF_vars((SeesEnd \/ LooksAgain \/ WatchesAgain \/ PodReap) /\ SupervisorMoves)

Spec == Init /\ [][Next]_vars /\ Fairness

-----------------------------------------------------------------------------
(* Safety.                                                                 *)

Finished == Len(record) = 3

\* A life is closed on the record only when the workload is reaped and its
\* credential gone, with the process its scratch and with the pod its Secret:
\* through grace, kill, a watch that closes, and up to three goroutines of
\* which two may be the one that waits.  Only a removal that failed, whose
\* error the code drops, breaks it: of the scratch, or of the pod or Secret.
ClosedMeansReaped ==
  Finished =>
    IF OnCluster
    THEN (proc = "reaped" /\ ~secret) \/ "reap" \in dropped
    ELSE proc = "reaped" /\ (~scratch \/ "rm" \in dropped)

\* Nobody is told a success that was none: done after a failure means that
\* somebody asked for the end; and abandon that the workload failed, or that
\* its pod ended with nobody looking or could not be looked at.
OutcomeIsTrue ==
  Finished =>
    /\ record[3] = "done" => status = "ok" \/ ending
    /\ record[3] = "abandon" => status # "ok" \/ (OnCluster /\ last = "none")

\* A running workload keeps its credential and somebody who will record its
\* end, while the runner lives: no end is made up for it, no Secret is pulled
\* from under it, and the watch that is open will show its end, unless the
\* cluster did not answer.
RunningIsSupervised ==
  proc = "running" /\ at \notin {"failed", "dead"} /\ "look" \notin dropped =>
    /\ ~Finished
    /\ OnCluster => secret /\ sup \in {"watching", "looking", "rewatching"} /\ ~missed

-----------------------------------------------------------------------------
(* Refinement.                                                             *)

\* The last op on the item, and what became of the process or the pod.
LastOp == IF Len(record) = 0 THEN "none" ELSE record[Len(record)]

Body ==
  IF proc \in {"none", "running"} THEN proc
  ELSE IF status = "ok" THEN "succeeded" ELSE "failed"

Topic == INSTANCE Lifecycle WITH
  life <- LastOp, body <- Body, asked <- ending, blind <- "look" \in dropped

\* "Lifecycle publication MUST be identical across backends" (specs/004-
\* kubernetes-backend/spec.md:194): on each of them, whatever fails and in
\* whatever order things end, the ops are one life as a reader may take it:
\* claimed means started, closed means over, and nothing follows the close.
ImplementsLifecycle == Topic!LifecycleSpec

-----------------------------------------------------------------------------
(* Liveness.                                                               *)

\* Who waits for an end, or asks for one, gets it on the record, from a
\* workload that ignores SIGTERM as well; unless the runner dies, the caller
\* is told that the last op failed (it returned and nothing landed), or the
\* cluster refused the delete, which Serve does not say and does not repeat.
\* A pod that ends between the read and the new watch is found when that
\* watch closes, whenever that is: only an end missed for good is not.
EndIsDue ==
  \/ at \in {"serve", "wait"} /\ proc \in {"exited", "reaped"}
  \/ at = "serve" /\ ending
  \/ at \in {"grace", "await"}

EndIsClosed == Finished \/ at \in {"returned", "dead"} \/ "stop" \in dropped

EndIsRecorded == []<>~missed => (EndIsDue ~> EndIsClosed)

=============================================================================
