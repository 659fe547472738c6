------------------------------ MODULE Backends ------------------------------
(***************************************************************************)
(* The isolation seam (backend.Backend and backend.Handle) and the three   *)
(* backends behind it, for one workload.                                   *)
(*                                                                         *)
(* native and msb hold a child process: the workload itself, or the msb    *)
(* process that stands for its sandbox.  k8s holds a pod and a Secret on   *)
(* a cluster and learns of the pod through a watch, which the server may   *)
(* close; every request to the cluster may fail, and dropped remembers     *)
(* which failures the code took for something else.                        *)
(***************************************************************************)
CONSTANT Backend    \* what SOULSTREAM_BACKEND may name on the nodes considered

ASSUME BackendsAreKnown == Backend \subseteq {"native", "msb", "k8s"}

VARIABLES
  backend,    \* the node's choice
  proc,       \* the process or the pod; reaped: nothing of it is left
  status,     \* how it ended
  scratch,    \* does the run's scratch exist on the node?
  secret,     \* does the credential Secret exist on the cluster?
  sup,        \* k8s: the goroutine of supervise
  last,       \* k8s: the termination state it captured
  missed,     \* k8s: did the pod end before the watch that is open began?
  deleting,   \* k8s: has a graceful delete been accepted?
  dropped     \* history: the failures whose error went nowhere

processVars == <<proc, status, scratch>>
podVars == <<secret, sup, last, missed, deleting, dropped>>
backendVars == <<backend, processVars, podVars>>

Status == {"ok", "nonzero", "signalled"}

OnCluster == backend = "k8s"

BackendTypeOK ==
  /\ backend \in Backend
  /\ proc \in {"none", "running", "exited", "reaped"}
  /\ status \in Status \cup {"none"} /\ last \in Status \cup {"none"}
  /\ scratch \in BOOLEAN /\ secret \in BOOLEAN
  /\ missed \in BOOLEAN /\ deleting \in BOOLEAN
  /\ sup \in {"none", "watching", "looking", "rewatching", "reaping", "delivered"}
  /\ dropped \in SUBSET {"start", "look", "reap", "stop", "rm"}

\* selectBackend: the node's environment decides, never the declaration.
BackendInit ==
  /\ backend \in Backend
  /\ proc = "none" /\ status = "none" /\ scratch = FALSE
  /\ secret = FALSE /\ sup = "none" /\ last = "none"
  /\ missed = FALSE /\ deleting = FALSE /\ dropped = {}

Drops(request) == dropped' = dropped \cup {request}

-----------------------------------------------------------------------------
(* Start.                                                                  *)

\* native, msb: the credential into scratch, then the process.
ProcessStart ==
  /\ ~OnCluster
  /\ proc' = "running"
  /\ scratch' = TRUE
  /\ UNCHANGED <<backend, status, podVars>>

\* Whatever failed, the scratch it could make is removed again.
ProcessStartError ==
  /\ ~OnCluster
  /\ scratch' \in {scratch, FALSE}
  /\ UNCHANGED <<backend, proc, status, podVars>>

\* k8s: image, Secret, watch, then the pod, so that no end is missed.
PodStart ==
  /\ OnCluster
  /\ proc' = "running"
  /\ secret' = TRUE
  /\ sup' = "watching"
  /\ UNCHANGED <<backend, status, scratch, last, missed, deleting, dropped>>

\* A request failed, landed or not.  A Secret whose create failed is not
\* unwound, the unwinding of the others is one try on a ctx that may have
\* ended, and a pod whose create failed is never deleted.
PodStartError ==
  /\ OnCluster
  /\ secret' \in BOOLEAN
  /\ proc' \in {"none", "running"}
  /\ IF secret' \/ proc' = "running" THEN Drops("start") ELSE UNCHANGED dropped
  /\ UNCHANGED <<backend, status, scratch, sup, last, missed, deleting>>

-----------------------------------------------------------------------------
(* k8s: supervise.                                                         *)

\* The watch shows a terminal phase or the deletion, with what the pod's
\* container left as its termination state, if it left one.
SeesEnd ==
  /\ sup = "watching"
  /\ proc \in {"exited", "reaped"} /\ ~missed
  /\ last' = status
  /\ sup' = "reaping"
  /\ UNCHANGED <<backend, processVars, secret, missed, deleting, dropped>>

WatchCloses ==
  /\ sup = "watching"
  /\ sup' = "looking"
  /\ missed' = FALSE
  /\ UNCHANGED <<backend, processVars, secret, last, deleting, dropped>>

\* Mutation of LooksAgain: a watch that closes is the end of the pod.
LooksOnce ==
  /\ sup = "looking"
  /\ sup' = "reaping"
  /\ last' = IF proc = "exited" THEN status ELSE last
  /\ UNCHANGED <<backend, processVars, secret, missed, deleting, dropped>>

\* Mutation of LooksAgain: the pod is not read, only watched again.
LooksNever ==
  /\ sup = "looking"
  /\ sup' = "rewatching"
  /\ UNCHANGED <<backend, processVars, secret, last, missed, deleting, dropped>>

\* The pod is read, and is to be watched again if it still runs.
LooksAgain ==
  /\ sup = "looking"
  /\ sup' = IF proc = "running" THEN "rewatching" ELSE "reaping"
  /\ last' = IF proc = "exited" THEN status ELSE last
  /\ UNCHANGED <<backend, processVars, secret, missed, deleting, dropped>>

\* A new watch.  It has no event for a pod that went since the read; one that
\* ended and is still there it may or may not begin with (k8s.go:165-167
\* takes it that it does not).
WatchesAgain ==
  /\ sup = "rewatching"
  /\ sup' = "watching"
  /\ missed' \in CASE proc = "reaped" -> {TRUE}
                  [] proc = "exited" -> BOOLEAN
                  [] OTHER -> {FALSE}
  /\ UNCHANGED <<backend, processVars, secret, last, deleting, dropped>>

\* The read, or the watch after it, failed: the pod counts as gone.
LooksError ==
  /\ sup \in {"looking", "rewatching"}
  /\ sup' = "reaping"
  /\ Drops("look")
  /\ UNCHANGED <<backend, processVars, secret, last, missed, deleting>>

\* The pod is deleted without grace, then the Secret; the status is delivered.
PodReap ==
  /\ sup = "reaping"
  /\ sup' = "delivered"
  /\ proc' = "reaped"
  /\ secret' = FALSE
  /\ UNCHANGED <<backend, status, scratch, last, missed, deleting, dropped>>

\* Either delete failed, landed or not; the status is delivered all the same.
PodReapError ==
  /\ sup = "reaping"
  /\ sup' = "delivered"
  /\ proc' \in {proc, "reaped"}
  /\ secret' \in {secret, FALSE}
  /\ Drops("reap")
  /\ UNCHANGED <<backend, status, scratch, last, missed, deleting>>

-----------------------------------------------------------------------------
(* Wait and Stop.                                                          *)

\* statusOf, and mapExit: an end nobody captured is a failure.
Result ==
  IF OnCluster THEN IF last = "none" THEN "nonzero" ELSE last
  ELSE status

\* handle.Wait returns.  A process is reaped here, and its scratch and sandbox
\* are removed, or the removal failed and nobody hears of it; a pod was reaped
\* before, and its scratch on the node stays.
HandleWaits ==
  \/ /\ ~OnCluster
     /\ proc = "exited"
     /\ proc' = "reaped"
     /\ \/ scratch' = FALSE /\ UNCHANGED dropped
        \/ scratch' \in {scratch, FALSE} /\ Drops("rm")
     /\ UNCHANGED <<backend, status, secret, sup, last, missed, deleting>>
  \/ /\ OnCluster
     /\ sup = "delivered"
     /\ UNCHANGED backendVars

\* The second half of a process's Stop: the grace elapsed, or Stop's ctx
\* ended, and what still runs is killed.
Kill ==
  /\ IF proc = "running"
     THEN proc' = "exited" /\ status' = "signalled"
     ELSE UNCHANGED <<proc, status>>
  /\ UNCHANGED <<backend, scratch, podVars>>

\* A pod's Stop: one delete, and the kubelet does the rest.
PodStop ==
  /\ OnCluster
  /\ deleting' = TRUE
  /\ UNCHANGED <<backend, processVars, secret, sup, last, missed, dropped>>

PodStopError ==
  /\ OnCluster
  /\ Drops("stop")
  /\ UNCHANGED <<backend, processVars, secret, sup, last, missed, deleting>>

-----------------------------------------------------------------------------
(* The workload and the cluster.                                           *)

\* It ends by itself, on SIGTERM, or by somebody else's signal.
Exits(st) ==
  /\ proc = "running"
  /\ proc' = "exited"
  /\ status' = st
  /\ UNCHANGED <<backend, scratch, podVars>>

\* The termination grace of a deleted pod elapsed.
KubeletKills ==
  /\ deleting
  /\ Exits("signalled")

\* The pod object goes: the kubelet is done with a delete, or an operator or
\* the cluster removed it, ended or not.  An open watch gets the event.
PodRemoved ==
  /\ OnCluster
  /\ proc \in {"running", "exited"}
  /\ proc' = "reaped"
  /\ missed' = FALSE
  /\ UNCHANGED <<backend, status, scratch, secret, sup, last, deleting, dropped>>

\* The runner dies; the workload, wherever it runs, does not die with it.
SupervisionEnds ==
  /\ sup' = "none"
  /\ UNCHANGED <<backend, processVars, secret, last, missed, deleting, dropped>>

Supervise ==
  \/ SeesEnd \/ WatchCloses
  \/ LooksAgain \/ WatchesAgain \/ LooksError
  \/ PodReap \/ PodReapError

Workload == (\E st \in Status : Exits(st)) \/ KubeletKills \/ PodRemoved

=============================================================================
