---------------------------- MODULE RunnerProofs ----------------------------
(***************************************************************************)
(* Proofs about Runner and the Backends under it, for every choice of      *)
(* backends: types, that a closed life is a reaped one, that the outcome   *)
(* on the record is true, that what runs is supervised, and that the ops   *)
(* are one life as Lifecycle describes it.                                 *)
(***************************************************************************)
EXTENDS Runner, SequenceTheorems, TLAPS

Ops == {"open", "claim", "done", "abandon"}

\* Where the caller's goroutine has not yet called Start, and where it has a
\* handle and has not yet chosen the terminal op.
Unstarted == {"launch", "opened", "resolved"}
Handled == {"held", "wait", "serve", "grace", "await"}
Closing == {"complete", "abandon"}

-----------------------------------------------------------------------------
(* The inductive invariant.                                                *)

\* The record is as long as the caller has got far: only Terminal writes a
\* third op, and Launch at most two.
Recorded ==
  /\ at = "launch" => Len(record) = 0
  /\ at \in {"opened", "resolved", "started"} => Len(record) = 1 /\ record[1] = "open"
  /\ at \in Handled \cup Closing => Len(record) = 2 /\ record[2] = "claim"
  /\ at \in {"failed", "dead"} => Len(record) \in {0, 1, 2}
  /\ Finished => record[3] \in {"done", "abandon"}

\* Nothing runs, and nobody supervises, before Start.
Unborn == at \in Unstarted => proc = "none" /\ last = "none" /\ sup = "none"

\* From Start on there is a workload, or there was one; so while one is
\* supervised.
Started ==
  /\ at \in {"started", "returned"} \cup Handled \cup Closing => proc # "none"
  /\ sup # "none" => proc # "none"

\* Serve's goroutine lives as long as Serve waits for it.
Waiting ==
  /\ waiter # "none" => at \in {"serve", "grace", "await", "returned"} \cup Closing
  /\ waiter = "waiting" => at \in {"serve", "grace", "await"}

\* Who has waited has seen the end: the child reaped, or the supervisor's
\* answer.
Ended == IF OnCluster THEN sup = "delivered" ELSE proc = "reaped"
Awaited == waiter = "delivered" \/ at \in {"returned"} \cup Closing => Ended

\* A child process has no pod, and leaves no scratch behind when reaped, but
\* for a removal that failed and of which Wait says nothing.
OffCluster ==
  ~OnCluster => /\ sup = "none" /\ last = "none" /\ ~secret
                /\ proc = "reaped" => ~scratch \/ "rm" \in dropped

\* The supervisor answers after its deletes, and says nothing of one that
\* failed.
Deleted ==
  OnCluster /\ sup = "delivered" => (proc = "reaped" /\ ~secret) \/ "reap" \in dropped

\* A captured termination state is the one the container ended with.
Captured == last # "none" => last = status /\ proc # "running"

\* A watch misses the end of what has ended.
Unseen == missed => proc \in {"exited", "reaped"}

\* Who waits to kill, or for the end of what was stopped, was asked to.
Asked == at \in {"grace", "await"} => ending

\* What done and abandon say, from the moment the op is chosen.
Success == ending \/ (status = "ok" /\ proc # "running")
Failure == (status # "ok" /\ proc # "running") \/ (OnCluster /\ last = "none")
Told ==
  /\ at = "complete" => Success
  /\ at = "abandon" => Failure
  /\ Finished /\ record[3] = "done" => Success
  /\ Finished /\ record[3] = "abandon" => Failure

\* A started pod has a supervisor, which keeps the Secret while it watches and
\* stops watching only at the end, or at what a failed read made it take for
\* one.
Supervised ==
  OnCluster /\ at \in {"started", "returned"} \cup Handled \cup Closing =>
    /\ sup # "none"
    /\ sup \in {"watching", "looking", "rewatching"} => secret
    /\ sup \in {"reaping", "delivered"} => proc # "running" \/ "look" \in dropped

\* What a step keeps besides the types.
LifeInv ==
  /\ Recorded /\ Unborn /\ Started /\ Waiting /\ Awaited
  /\ OffCluster /\ Deleted /\ Captured /\ Unseen
  /\ Asked /\ Told /\ Supervised

IInv == TypeOK /\ LifeInv

-----------------------------------------------------------------------------
(* Types.                                                                  *)

USE DEF backendVars, processVars, podVars, OnCluster, Drops, Ops

\* A record that has room for one more op.
Room == record \in Seq(Ops) /\ Len(record) \in {0, 1, 2}

\* What a publish does to the record: one op longer, the last op the one
\* published.
LEMMA Published ==
  ASSUME Room, NEW op \in Ops, Publish(op)
  PROVE  /\ record' \in Seq(Ops)
         /\ Len(record) = 0 => Len(record') = 1 /\ record'[1] = op
         /\ Len(record) = 1 => Len(record') = 2 /\ record'[2] = op
         /\ Len(record) = 2 => Len(record') = 3 /\ record'[3] = op
<1>1. record' = Append(record, op)
  BY DEF Publish
<1>2. record' \in Seq(Ops) /\ Len(record') = Len(record) + 1
  BY <1>1, AppendProperties DEF Room
<1>3. record'[Len(record) + 1] = op
  BY <1>1, AppendProperties DEF Room
<1>4. CASE Len(record) = 0
  <2>1. Len(record') = 0 + 1 /\ record'[0 + 1] = op
    BY <1>2, <1>3, <1>4
  <2> QED
    BY <1>2, <1>4, <2>1
<1>5. CASE Len(record) = 1
  <2>1. Len(record') = 1 + 1 /\ record'[1 + 1] = op
    BY <1>2, <1>3, <1>5
  <2> QED
    BY <1>2, <1>5, <2>1
<1>6. CASE Len(record) = 2
  <2>1. Len(record') = 2 + 1 /\ record'[2 + 1] = op
    BY <1>2, <1>3, <1>6
  <2> QED
    BY <1>2, <1>6, <2>1
<1> QED
  BY <1>4, <1>5, <1>6 DEF Room

\* A publish that failed did that, or nothing.
LEMMA PublishFailed ==
  ASSUME Room, NEW op \in Ops, PublishError(op)
  PROVE  \/ Publish(op)
         \/ record' = record
  BY DEF PublishError

\* The invariant leaves room for every op the code publishes.
LEMMA ThereIsRoom ==
  ASSUME TypeOK, Recorded, at # "returned"
  PROVE  Room
<1>1. record \in Seq(Ops) /\ Len(record) \in Nat
  BY LenProperties DEF TypeOK
<1>2. at \in {"launch", "opened", "resolved", "started", "failed", "dead"} \cup Handled \cup Closing
  BY DEF TypeOK, Places, Handled, Closing
<1>3. Len(record) \in {0, 1, 2}
  BY <1>2 DEF Recorded
<1> QED
  BY <1>1, <1>3 DEF Room

\* TypeOK bounds the record by three; this is the bound as a set.
LEMMA ShortLengths == \A n \in {0, 1, 2, 3} : n \in Nat /\ n <= 3
  OBVIOUS

LEMMA TypeInit == Init => TypeOK
<1> SUFFICES ASSUME Init PROVE TypeOK
  OBVIOUS
<1>1. BackendTypeOK
  BY DEF Init, BackendInit, BackendTypeOK, Status
<1>2. record \in Seq(Ops) /\ Len(record) = 0
  BY EmptySeq DEF Init
<1> QED
  BY <1>1, <1>2, ShortLengths DEF Init, TypeOK, Places

\* What handle.Wait does: nothing to a pod, which its supervisor has seen to;
\* a process is reaped, with its scratch or with an error nobody hears of.
LEMMA WhatWaitDoes ==
  ASSUME HandleWaits
  PROVE  /\ UNCHANGED <<backend, status, secret, sup, last, missed, deleting>>
         /\ "look" \in dropped' <=> "look" \in dropped
         /\ "reap" \in dropped' <=> "reap" \in dropped
         /\ dropped' \in {dropped, dropped \cup {"rm"}}
         /\ \/ OnCluster /\ sup = "delivered" /\ UNCHANGED <<proc, scratch>>
            \/ /\ ~OnCluster /\ proc = "exited" /\ proc' = "reaped"
               /\ scratch' \in {scratch, FALSE}
               /\ ~scratch' \/ "rm" \in dropped'
<1>1. CASE OnCluster
  BY <1>1 DEF HandleWaits
<1>2. CASE ~OnCluster
  <2>1. (dropped' = dropped /\ ~scratch') \/ dropped' = dropped \cup {"rm"}
    BY <1>2 DEF HandleWaits
  <2>2. scratch' \in {scratch, FALSE} /\ proc = "exited" /\ proc' = "reaped"
    BY <1>2 DEF HandleWaits
  <2>3. UNCHANGED <<backend, status, secret, sup, last, missed, deleting>>
    BY <1>2 DEF HandleWaits
  <2> QED
    BY <1>2, <2>1, <2>2, <2>3
<1> QED
  BY <1>1, <1>2

LEMMA BackendTypes ==
  ASSUME BackendTypeOK,
         \/ UNCHANGED backendVars
         \/ ProcessStart \/ ProcessStartError \/ PodStart \/ PodStartError
         \/ Supervise \/ HandleWaits \/ Kill \/ PodStop \/ PodStopError
         \/ Workload \/ SupervisionEnds
         \/ scratch' \in BOOLEAN /\ UNCHANGED <<backend, proc, status, podVars>>
  PROVE  BackendTypeOK'
<1> USE DEF BackendTypeOK, Status
<1>1. CASE UNCHANGED backendVars
  BY <1>1
<1>2. CASE ProcessStart \/ ProcessStartError
  <2>1. CASE ProcessStart
    BY <2>1 DEF ProcessStart
  <2>2. CASE ProcessStartError
    <3>1. scratch' \in BOOLEAN
      BY <2>2 DEF ProcessStartError
    <3>2. UNCHANGED <<backend, proc, status, podVars>>
      BY <2>2 DEF ProcessStartError
    <3> QED
      BY <3>1, <3>2
  <2> QED
    BY <1>2, <2>1, <2>2
<1>3. CASE PodStart
  BY <1>3 DEF PodStart
<1>4. CASE PodStartError
  <2>1. dropped' \in {dropped, dropped \cup {"start"}}
    BY <1>4 DEF PodStartError
  <2>2. dropped' \in SUBSET {"start", "look", "reap", "stop", "rm"}
    BY <2>1
  <2>3. secret' \in BOOLEAN /\ proc' \in {"none", "running"}
    BY <1>4 DEF PodStartError
  <2>4. UNCHANGED <<backend, status, scratch, sup, last, missed, deleting>>
    BY <1>4 DEF PodStartError
  <2> QED
    BY <2>2, <2>3, <2>4
<1>5. CASE Supervise
  <2>1. CASE SeesEnd
    BY <2>1 DEF SeesEnd
  <2>2. CASE WatchCloses
    BY <2>2 DEF WatchCloses
  <2>3. CASE LooksAgain
    BY <2>3 DEF LooksAgain
  <2>4. CASE WatchesAgain
    BY <2>4 DEF WatchesAgain
  <2>5. CASE LooksError
    BY <2>5 DEF LooksError
  <2>6. CASE PodReap
    BY <2>6 DEF PodReap
  <2>7. CASE PodReapError
    BY <2>7 DEF PodReapError
  <2> QED
    BY <1>5, <2>1, <2>2, <2>3, <2>4, <2>5, <2>6, <2>7 DEF Supervise
<1>6. CASE HandleWaits
  <2>1. dropped' \in SUBSET {"start", "look", "reap", "stop", "rm"}
    BY <1>6, WhatWaitDoes
  <2> QED
    <3>1. /\ UNCHANGED <<backend, status, secret, sup, last, missed, deleting>>
          /\ proc' \in {proc, "reaped"} /\ scratch' \in {scratch, FALSE}
      BY <1>6, WhatWaitDoes
    <3>2. scratch' \in BOOLEAN
      BY <3>1
    <3>3. proc' \in {"none", "running", "exited", "reaped"}
      BY <3>1
    <3> QED
      BY <2>1, <3>1, <3>2, <3>3
<1>7. CASE Kill
  BY <1>7 DEF Kill
<1>8. CASE PodStop \/ PodStopError
  <2>1. CASE PodStop
    BY <2>1 DEF PodStop
  <2>2. CASE PodStopError
    BY <2>2 DEF PodStopError
  <2> QED
    BY <1>8, <2>1, <2>2
<1>9. CASE Workload
  <2>1. ASSUME NEW st \in Status, Exits(st) PROVE BackendTypeOK'
    BY <2>1 DEF Exits
  <2>2. CASE PodRemoved
    BY <2>2 DEF PodRemoved
  <2> QED
    BY <1>9, <2>1, <2>2 DEF Workload, KubeletKills
<1>10. CASE SupervisionEnds
  BY <1>10 DEF SupervisionEnds
<1>11. CASE scratch' \in BOOLEAN /\ UNCHANGED <<backend, proc, status, podVars>>
  BY <1>11
<1> QED
  BY <1>1, <1>2, <1>3, <1>4, <1>5, <1>6, <1>7, <1>8, <1>9, <1>10, <1>11

\* The record's type, for a step that publishes and for one that does not.
RecordOK == record \in Seq(Ops) /\ Len(record) <= 3

LEMMA PublishTypes ==
  ASSUME Room, NEW op \in Ops, PublishError(op)
  PROVE  RecordOK'
<1>1. CASE Publish(op)
  <2>1. record' \in Seq(Ops) /\ Len(record') \in {0, 1, 2, 3}
    BY <1>1, Published DEF Room
  <2> QED
    BY <2>1, ShortLengths DEF RecordOK
<1>2. CASE record' = record
  BY <1>2, ShortLengths DEF RecordOK, Room
<1> QED
  BY <1>1, <1>2, PublishFailed

LEMMA PublishIsATry == \A op : Publish(op) => PublishError(op)
  BY DEF PublishError

LEMMA TypesKept ==
  ASSUME TypeOK, Recorded, [Next]_vars
  PROVE  TypeOK'
<1>1. BackendTypeOK'
  <2>1. BackendTypeOK
    BY DEF TypeOK
  <2>2. \/ UNCHANGED backendVars
        \/ ProcessStart \/ ProcessStartError \/ PodStart \/ PodStartError
        \/ Supervise \/ HandleWaits \/ Kill \/ PodStop \/ PodStopError
        \/ Workload \/ SupervisionEnds
        \/ scratch' \in BOOLEAN /\ UNCHANGED <<backend, proc, status, podVars>>
    BY DEF Next, Launch, Running, Environment, vars,
           Refuse, OpenWork, OpenWorkError, Resolve, ResolveError, Start, StartError,
           ClaimWork, ClaimWorkError, CallWait, WaitReturns, CallServe, WaiterReaps,
           ServeExited, ServeCancelled, CallStop, HandleStops, GraceOver, StopAwaits,
           Terminal, TerminalError, WorkloadMoves, SupervisorMoves, Cancel, Crash
  <2> QED
    BY <2>1, <2>2, BackendTypes
<1>2. RecordOK'
  <2>1. CASE UNCHANGED record
    BY <2>1 DEF RecordOK, TypeOK
  <2>2. CASE at # "returned" /\ \E op \in Ops : PublishError(op)
    BY <2>2, ThereIsRoom, PublishTypes
  <2>3. at \in Closing => TerminalOp \in Ops
    BY DEF TerminalOp
  <2>4. UNCHANGED record \/ (at # "returned" /\ \E op \in Ops : PublishError(op))
    BY <2>3, PublishIsATry
       DEF Next, Launch, Running, Environment, vars, Closing,
           Refuse, OpenWork, OpenWorkError, Resolve, ResolveError, Start, StartError,
           ClaimWork, ClaimWorkError, CallWait, WaitReturns, CallServe, WaiterReaps,
           ServeExited, ServeCancelled, CallStop, GraceOver, StopAwaits,
           Terminal, TerminalError, WorkloadMoves, SupervisorMoves, Cancel, Crash
  <2> QED
    BY <2>1, <2>2, <2>4
<1>3. at' \in Places /\ ending' \in BOOLEAN /\ waiter' \in {"none", "waiting", "delivered"}
  BY DEF TypeOK, Places, Outcome, HandleStops,
         Next, Launch, Running, Environment, vars,
         Refuse, OpenWork, OpenWorkError, Resolve, ResolveError, Start, StartError,
         ClaimWork, ClaimWorkError, CallWait, WaitReturns, CallServe, WaiterReaps,
         ServeExited, ServeCancelled, CallStop, GraceOver, StopAwaits,
         Terminal, TerminalError, WorkloadMoves, SupervisorMoves, Cancel, Crash
<1> QED
  BY <1>1, <1>2, <1>3 DEF TypeOK, RecordOK

-----------------------------------------------------------------------------
(* The other parts of the invariant, action by action.                     *)

\* A third op means that the handle's method has returned.
LEMMA FinishedIsReturned == TypeOK /\ LifeInv /\ Finished => at = "returned"
  BY DEF TypeOK, Places, LifeInv, Recorded, Finished, Handled, Closing

\* The record is what the types say and no longer than the place allows.
LEMMA RoomNow == TypeOK /\ LifeInv /\ at # "returned" => Room
  BY ThereIsRoom DEF LifeInv

\* A launch that fails leaves two ops at most, whatever landed last.
LEMMA FailedRecord ==
  ASSUME TypeOK, LifeInv, NEW op \in Ops, PublishError(op),
         at \in {"launch", "opened", "resolved", "started"}, at' = "failed"
  PROVE  Recorded'
<1>1. Room /\ (Len(record) = 0 \/ Len(record) = 1)
  BY RoomNow DEF LifeInv, Recorded
<1>2. Len(record') \in {0, 1, 2}
  <2>1. CASE Publish(op)
    BY <1>1, <2>1, Published
  <2>2. CASE UNCHANGED record
    BY <1>1, <2>2
  <2> QED
    BY <1>1, <2>1, <2>2, PublishFailed
<1> QED
  BY <1>2 DEF Recorded, Handled, Closing, Finished

\* Launch: validation, the open op, the artifact, the start, the claim.
LEMMA LaunchKeeps ==
  ASSUME TypeOK, LifeInv, TypeOK', Launch
  PROVE  LifeInv'
<1> USE DEF LifeInv, Recorded, Unborn, Started, Waiting, Awaited, Ended, OffCluster, Deleted, Captured, Unseen,
           Asked, Told, Success, Failure, Supervised, Unstarted, Handled, Closing, Finished
<1>1. CASE Refuse
  BY <1>1 DEF Refuse
<1>2. CASE OpenWork
  <2>1. Recorded'
    BY <1>2, RoomNow, Published, PublishFailed DEF OpenWork
  <2>2. Unborn' /\ Started' /\ Waiting' /\ Awaited' /\ Asked' /\ Supervised'
    BY <1>2 DEF OpenWork
  <2>3. OffCluster' /\ Deleted' /\ Captured' /\ Unseen'
    BY <1>2 DEF OpenWork
  <2>4. Told'
    BY <1>2, <2>1 DEF OpenWork
  <2> QED
    BY <2>1, <2>2, <2>3, <2>4
<1>3. CASE OpenWorkError
  <2>1. Recorded'
    BY <1>3, FailedRecord DEF OpenWorkError
  <2>2. Unborn' /\ Started' /\ Waiting' /\ Awaited' /\ Asked' /\ Supervised'
    BY <1>3 DEF OpenWorkError
  <2>3. OffCluster' /\ Deleted' /\ Captured' /\ Unseen'
    BY <1>3 DEF OpenWorkError
  <2>4. Told'
    BY <1>3, <2>1 DEF OpenWorkError
  <2> QED
    BY <2>1, <2>2, <2>3, <2>4
<1>4. CASE Resolve
  BY <1>4 DEF Resolve
<1>5. CASE ResolveError
  <2>1. Recorded'
    BY <1>5, FailedRecord DEF ResolveError
  <2>2. Unborn' /\ Started' /\ Waiting' /\ Awaited' /\ Asked' /\ Supervised'
    BY <1>5 DEF ResolveError
  <2>3. OffCluster' /\ Deleted' /\ Captured' /\ Unseen'
    BY <1>5 DEF ResolveError
  <2>4. Told'
    BY <1>5, <2>1 DEF ResolveError
  <2> QED
    BY <2>1, <2>2, <2>3, <2>4
<1>6. CASE Start
  BY <1>6 DEF Start, ProcessStart, PodStart
<1>7. CASE StartError
  <2>1. Recorded'
    BY <1>7, FailedRecord DEF StartError
  <2>2. at' = "failed" /\ waiter' = "none"
    BY <1>7 DEF StartError
  <2>3. backend' = backend /\ last' = "none" /\ sup' = "none"
    BY <1>7 DEF StartError, ProcessStartError, PodStartError
  <2>4. ~OnCluster => proc' = "none" /\ (~secret => ~secret')
    BY <1>7 DEF StartError, ProcessStartError, PodStartError
  <2>5. missed' = missed /\ ~missed
    BY <1>7 DEF StartError, ProcessStartError, PodStartError
  <2>6. OffCluster' /\ Deleted' /\ Captured' /\ Unseen'
    BY <2>3, <2>4, <2>5
  <2>7. Unborn' /\ Started' /\ Waiting' /\ Awaited' /\ Asked' /\ Supervised'
    BY <2>2, <2>3
  <2>8. Told'
    <3>1. ~Finished'
      BY <2>1, <2>2
    <3> QED
      BY <2>2, <3>1
  <2> QED
    BY <2>1, <2>6, <2>7, <2>8
<1>8. CASE ClaimWork
  <2>1. at = "started" /\ Len(record) = 1 /\ Room
    BY <1>8, RoomNow DEF ClaimWork
  <2>2. Recorded'
    <3>1. Len(record') = 2 /\ record'[2] = "claim"
      BY <1>8, <2>1, Published DEF ClaimWork
    <3> QED
      BY <1>8, <3>1 DEF ClaimWork
  <2>3. Unborn' /\ Started' /\ Waiting' /\ Awaited' /\ Asked' /\ Told' /\ Supervised'
    BY <1>8, <2>2 DEF ClaimWork
  <2>4. OffCluster' /\ Deleted' /\ Captured' /\ Unseen'
    BY <1>8 DEF ClaimWork
  <2> QED
    BY <2>2, <2>3, <2>4
<1>9. CASE ClaimWorkError
  <2>1. Recorded'
    BY <1>9, FailedRecord DEF ClaimWorkError
  <2>2. Unborn' /\ Started' /\ Waiting' /\ Awaited' /\ Asked' /\ Supervised'
    BY <1>9 DEF ClaimWorkError
  <2>3. OffCluster' /\ Deleted' /\ Captured' /\ Unseen'
    BY <1>9 DEF ClaimWorkError
  <2>4. Told'
    BY <1>9, <2>1 DEF ClaimWorkError
  <2> QED
    BY <2>1, <2>2, <2>3, <2>4
<1> QED
  BY <1>1, <1>2, <1>3, <1>4, <1>5, <1>6, <1>7, <1>8, <1>9 DEF Launch

\* The handle: Wait, Serve, Stop, and the terminal op.
LEMMA RunningKeeps ==
  ASSUME TypeOK, LifeInv, TypeOK', Running
  PROVE  LifeInv'
<1> USE DEF LifeInv, Recorded, Unborn, Started, Waiting, Awaited, Ended, OffCluster, Deleted, Captured, Unseen,
           Asked, Told, Success, Failure, Supervised, Unstarted, Handled, Closing, Finished
<1>1. CASE CallWait
  BY <1>1 DEF CallWait
<1>2. CASE WaitReturns
  <2>1. /\ UNCHANGED <<record, ending, waiter>> /\ at = "wait"
        /\ at' = Outcome(Result) /\ at' \in Closing
    BY <1>2 DEF WaitReturns, Outcome
  <2>2. HandleWaits /\ status \in Status \cup {"none"} /\ last \in Status \cup {"none"}
    BY <1>2 DEF WaitReturns, TypeOK, BackendTypeOK
  <2>3. Recorded' /\ Unborn' /\ Waiting' /\ Asked'
    BY <2>1
  <2>4. CASE OnCluster
    BY <2>1, <2>2, <2>3, <2>4, WhatWaitDoes DEF Outcome, Result, Status
  <2>5. CASE ~OnCluster
    BY <2>1, <2>2, <2>3, <2>5, WhatWaitDoes DEF Outcome, Result, Status
  <2> QED
    BY <2>4, <2>5
<1>3. CASE CallServe
  BY <1>3 DEF CallServe
<1>4. CASE WaiterReaps
  <2>1. /\ UNCHANGED <<at, record, ending>>
        /\ waiter = "waiting" /\ waiter' = "delivered" /\ at \in {"serve", "grace", "await"}
    BY <1>4 DEF WaiterReaps
  <2>2. Recorded' /\ Unborn' /\ Waiting' /\ Asked'
    BY <2>1
  <2>3. CASE OnCluster
    BY <1>4, <2>1, <2>2, <2>3, WhatWaitDoes DEF WaiterReaps
  <2>4. CASE ~OnCluster
    BY <1>4, <2>1, <2>2, <2>4, WhatWaitDoes DEF WaiterReaps
  <2> QED
    BY <2>3, <2>4
<1>5. CASE ServeExited
  BY <1>5 DEF ServeExited, Outcome, Result, TypeOK, BackendTypeOK, Status
<1>6. CASE ServeCancelled
  BY <1>6 DEF ServeCancelled, HandleStops, PodStop, PodStopError
<1>7. CASE CallStop
  BY <1>7 DEF CallStop, HandleStops, PodStop, PodStopError
<1>8. CASE GraceOver
  BY <1>8 DEF GraceOver, Kill
<1>9. CASE StopAwaits
  <2>1. CASE waiter = "delivered" /\ UNCHANGED backendVars
    BY <1>9, <2>1 DEF StopAwaits
  <2>2. CASE waiter = "none" /\ HandleWaits
    <3>1. /\ UNCHANGED <<record, ending, waiter>> /\ at = "await" /\ at' = "complete"
          /\ waiter = "none" /\ ending
      BY <1>9, <2>2 DEF StopAwaits
    <3>2. Recorded' /\ Unborn' /\ Waiting' /\ Asked'
      BY <3>1
    <3>3. CASE OnCluster
      BY <2>2, <3>1, <3>2, <3>3, WhatWaitDoes
    <3>4. CASE ~OnCluster
      BY <2>2, <3>1, <3>2, <3>4, WhatWaitDoes
    <3> QED
      BY <3>3, <3>4
  <2> QED
    BY <1>9, <2>1, <2>2 DEF StopAwaits
<1>10. CASE Terminal
  <2>1. Recorded'
    BY <1>10, RoomNow, Published, PublishFailed DEF Terminal, TerminalOp
  <2>2. Unborn' /\ Started' /\ Waiting' /\ Awaited' /\ Asked' /\ Supervised'
    BY <1>10 DEF Terminal
  <2>3. OffCluster' /\ Deleted' /\ Captured' /\ Unseen'
    BY <1>10 DEF Terminal
  <2>4. Told'
    BY <1>10, RoomNow, Published, PublishFailed, <2>1 DEF Terminal, TerminalOp
  <2> QED
    BY <2>1, <2>2, <2>3, <2>4
<1>11. CASE TerminalError
  <2>1. Recorded'
    BY <1>11, RoomNow, Published, PublishFailed DEF TerminalError, TerminalOp
  <2>2. Unborn' /\ Started' /\ Waiting' /\ Awaited' /\ Asked' /\ Supervised'
    BY <1>11 DEF TerminalError
  <2>3. OffCluster' /\ Deleted' /\ Captured' /\ Unseen'
    BY <1>11 DEF TerminalError
  <2>4. Told'
    BY <1>11, RoomNow, Published, PublishFailed, <2>1 DEF TerminalError, TerminalOp
  <2> QED
    BY <2>1, <2>2, <2>3, <2>4
<1> QED
  BY <1>1, <1>2, <1>3, <1>4, <1>5, <1>6, <1>7, <1>8, <1>9, <1>10, <1>11 DEF Running

\* The workload, the supervisor, the end of ctx and the death of the runner.
LEMMA EnvironmentKeeps ==
  ASSUME TypeOK, LifeInv, TypeOK', Environment
  PROVE  LifeInv'
<1> USE DEF LifeInv, Recorded, Unborn, Started, Waiting, Awaited, Ended, OffCluster, Deleted, Captured, Unseen,
           Asked, Told, Success, Failure, Supervised, Unstarted, Handled, Closing, Finished
<1>1. CASE WorkloadMoves
  BY <1>1 DEF WorkloadMoves, Workload, Exits, KubeletKills, PodRemoved
<1>2. CASE SupervisorMoves
  <2>1. CASE SeesEnd
    BY <1>2, <2>1, FinishedIsReturned DEF SupervisorMoves, SeesEnd, TypeOK, BackendTypeOK, Status
  <2>2. CASE WatchCloses
    BY <1>2, <2>2 DEF SupervisorMoves, WatchCloses, TypeOK, BackendTypeOK, Status
  <2>3. CASE LooksAgain
    BY <1>2, <2>3, FinishedIsReturned DEF SupervisorMoves, LooksAgain, TypeOK, BackendTypeOK, Status
  <2>4. CASE WatchesAgain
    <3>1. missed' => proc \in {"exited", "reaped"}
      BY <2>4 DEF WatchesAgain
    <3>2. sup = "rewatching" /\ sup' = "watching"
      BY <2>4 DEF WatchesAgain
    <3>3. UNCHANGED <<backend, proc, status, scratch, secret, last, dropped>>
      BY <2>4 DEF WatchesAgain
    <3>4. UNCHANGED <<at, record, ending, waiter>>
      BY <1>2 DEF SupervisorMoves
    <3> QED
      BY <3>1, <3>2, <3>3, <3>4
  <2>5. CASE LooksError
    BY <1>2, <2>5 DEF SupervisorMoves, LooksError, TypeOK, BackendTypeOK, Status
  <2>6. CASE PodReap
    BY <1>2, <2>6 DEF SupervisorMoves, PodReap, TypeOK, BackendTypeOK, Status
  <2>7. CASE PodReapError
    BY <1>2, <2>7 DEF SupervisorMoves, PodReapError, TypeOK, BackendTypeOK, Status
  <2> QED
    BY <1>2, <2>1, <2>2, <2>3, <2>4, <2>5, <2>6, <2>7 DEF SupervisorMoves, Supervise
<1>3. CASE Cancel
  BY <1>3 DEF Cancel
<1>4. CASE Crash
  BY <1>4 DEF Crash, SupervisionEnds, TypeOK, Places
<1> QED
  BY <1>1, <1>2, <1>3, <1>4 DEF Environment

-----------------------------------------------------------------------------
(* The invariant holds, and with it what the record promises.              *)

LEMMA InvInit == Init => IInv
<1> SUFFICES ASSUME Init PROVE IInv
  OBVIOUS
<1>1. TypeOK
  BY TypeInit
<1>2. Len(record) = 0
  BY EmptySeq DEF Init
<1>3. Recorded
  BY <1>2 DEF Init, Recorded, Handled, Closing, Finished
<1>4. Unborn /\ Started /\ Waiting /\ Awaited /\ Asked
  BY DEF Init, BackendInit, Unborn, Started, Waiting, Awaited, Asked, Handled, Closing
<1>5. OffCluster /\ Deleted /\ Captured /\ Unseen
  BY DEF Init, BackendInit, OffCluster, Deleted, Captured, Unseen
<1>6. Told /\ Supervised
  BY <1>2 DEF Init, Told, Supervised, Handled, Closing, Finished
<1> QED
  BY <1>1, <1>3, <1>4, <1>5, <1>6 DEF IInv, LifeInv

LEMMA InvNext == IInv /\ [Next]_vars => IInv'
<1> SUFFICES ASSUME IInv, [Next]_vars PROVE IInv'
  OBVIOUS
<1>1. TypeOK'
  BY TypesKept DEF IInv, LifeInv
<1>2. CASE UNCHANGED vars
  <2>1. LifeInv'
    BY <1>2 DEF vars, IInv, LifeInv, Recorded, Unborn, Started, Waiting, Awaited, Ended, OffCluster,
                Deleted, Captured, Unseen, Asked, Told, Success, Failure, Supervised, Finished
  <2> QED
    BY <1>1, <2>1 DEF IInv
<1>3. CASE Launch
  BY <1>1, <1>3, LaunchKeeps DEF IInv
<1>4. CASE Running
  BY <1>1, <1>4, RunningKeeps DEF IInv
<1>5. CASE Environment
  BY <1>1, <1>5, EnvironmentKeeps DEF IInv
<1> QED
  BY <1>2, <1>3, <1>4, <1>5 DEF Next

LEMMA InvAlways == Spec => []IInv
  BY InvInit, InvNext, PTL DEF Spec

\* Every variable of the Runner and of its backend keeps its type, and a
\* workload's life never takes more than three ops, whichever publishes fail
\* after they landed (runner.Launch, and the one terminal op of Running).
THEOREM RunnerTypeOK == Spec => []TypeOK
<1>1. IInv => TypeOK
  BY DEF IInv
<1> QED
  BY InvAlways, <1>1, PTL

\* Wait, Serve and Stop write done or abandon only after the child was reaped
\* and its scratch removed, or the supervisor's deletes took pod and Secret; a
\* removal or a delete that failed is the one exception, because Wait and reap
\* drop its error, and the child is reaped even then.
THEOREM ClosedLivesAreReaped == Spec => []ClosedMeansReaped
<1>1. IInv => ClosedMeansReaped
  <2> SUFFICES ASSUME IInv, Finished
               PROVE  IF OnCluster
                      THEN (proc = "reaped" /\ ~secret) \/ "reap" \in dropped
                      ELSE proc = "reaped" /\ (~scratch \/ "rm" \in dropped)
    BY DEF ClosedMeansReaped
  <2>1. Ended
    BY FinishedIsReturned DEF IInv, LifeInv, Awaited
  <2>2. CASE OnCluster
    BY <2>1, <2>2 DEF Ended, IInv, LifeInv, Deleted
  <2>3. CASE ~OnCluster
    BY <2>1, <2>3 DEF Ended, IInv, LifeInv, OffCluster
  <2> QED
    BY <2>2, <2>3
<1> QED
  BY InvAlways, <1>1, PTL

\* done on the record means exit 0 or an end that was asked for; abandon means
\* that the workload failed, or that its pod ended with nobody to see how
\* (statusOf, mapExit and the callers' choice of the terminal op).
THEOREM RecordedOutcomesAreTrue == Spec => []OutcomeIsTrue
<1>1. IInv => OutcomeIsTrue
  BY DEF IInv, LifeInv, Told, Success, Failure, OutcomeIsTrue
<1> QED
  BY InvAlways, <1>1, PTL

\* What still runs under a live runner has an open life, and on a cluster its
\* Secret and a supervisor whose watch will show its end, or that is about to
\* watch: supervise makes up no end while its requests are answered.
THEOREM TheRunningAreSupervised == Spec => []RunningIsSupervised
<1>1. IInv => RunningIsSupervised
  <2> DEFINE Watched == secret /\ sup \in {"watching", "looking", "rewatching"} /\ ~missed
  <2> SUFFICES ASSUME IInv, proc = "running", at \notin {"failed", "dead"}, "look" \notin dropped
               PROVE  ~Finished /\ (OnCluster => Watched)
    BY DEF RunningIsSupervised
  <2>1. OnCluster => Watched
    <3> SUFFICES ASSUME OnCluster PROVE Watched
      OBVIOUS
    <3>1. at \in {"started", "returned"} \cup Handled \cup Closing
      BY DEF IInv, TypeOK, Places, LifeInv, Unborn, Unstarted, Handled, Closing
    <3>2. sup \in {"watching", "looking", "rewatching"}
      BY <3>1 DEF IInv, TypeOK, BackendTypeOK, LifeInv, Supervised
    <3>3. ~missed
      BY DEF IInv, LifeInv, Unseen
    <3> QED
      BY <3>1, <3>2, <3>3 DEF IInv, LifeInv, Supervised
  <2>2. ~Finished
    <3> SUFFICES ASSUME Finished PROVE FALSE
      OBVIOUS
    <3>1. Ended
      BY FinishedIsReturned DEF IInv, LifeInv, Awaited
    <3> QED
      BY <2>1, <3>1 DEF Ended
  <2> QED
    BY <2>1, <2>2
<1> QED
  BY InvAlways, <1>1, PTL

-----------------------------------------------------------------------------
(* The ops are one life: Runner implements Lifecycle.                      *)

TopicStep == [Topic!Next]_(Topic!lifecycleVars)

Blind == "look" \in dropped

\* What the topic and its reader can tell of a state.
View == <<LastOp, Body, ending, Blind>>

LEMMA SameRecord == UNCHANGED record => UNCHANGED LastOp
  BY DEF LastOp

LEMMA SameBody == UNCHANGED <<proc, status>> => UNCHANGED Body
  BY DEF Body

\* Reaping what has exited changes nothing of how it ended.
LEMMA ReapedBody ==
  ASSUME proc \in {"exited", "reaped"}, proc' \in {"exited", "reaped"}, UNCHANGED status
  PROVE  UNCHANGED Body
  BY DEF Body

LEMMA EndedBody ==
  ASSUME proc = "running", proc' \in {"exited", "reaped"}
  PROVE  Body = "running" /\ Body' \in {"succeeded", "failed"}
  BY DEF Body

LEMMA PublishedOp ==
  ASSUME Room, NEW op \in Ops, Publish(op)
  PROVE  LastOp' = op
<1>1. CASE Len(record) = 0
  BY <1>1, Published DEF LastOp
<1>2. CASE Len(record) = 1
  BY <1>2, Published DEF LastOp
<1>3. CASE Len(record) = 2
  BY <1>3, Published DEF LastOp
<1> QED
  BY <1>1, <1>2, <1>3 DEF Room

LEMMA StutterOnTopic == UNCHANGED View => TopicStep
  BY DEF View, Blind, TopicStep, Topic!lifecycleVars

\* The workload ends, or ended before: either way a step of the topic's reader.
LEMMA EndOnTopic ==
  ASSUME UNCHANGED <<record, ending>>, UNCHANGED Blind,
         \/ UNCHANGED <<proc, status>>
         \/ proc = "running" /\ proc' \in {"exited", "reaped"}
         \/ proc \in {"exited", "reaped"} /\ proc' \in {"exited", "reaped"} /\ UNCHANGED status
  PROVE  TopicStep
<1>1. UNCHANGED LastOp
  BY SameRecord
<1>2. CASE UNCHANGED Body
  BY <1>1, <1>2, StutterOnTopic DEF View
<1>3. CASE proc = "running" /\ proc' \in {"exited", "reaped"}
  <2>1. Topic!End
    BY <1>1, <1>3, EndedBody DEF Topic!End, Blind
  <2> QED
    BY <2>1 DEF TopicStep, Topic!Next
<1> QED
  BY <1>2, <1>3, SameBody, ReapedBody

\* Launch: an op that lands is Open, Claim or the item given up.
LEMMA LaunchOnTopic ==
  ASSUME IInv, Launch
  PROVE  TopicStep
<1> USE DEF Blind
<1>1. /\ at = "launch" => LastOp = "none"
      /\ at \in {"opened", "resolved", "started"} => LastOp = "open"
  BY DEF IInv, LifeInv, Recorded, LastOp
<1>2. /\ at \in {"opened", "resolved"} => proc = "none" /\ Body = "none"
      /\ at = "started" => Body # "none"
  BY DEF IInv, LifeInv, Unborn, Unstarted, Started, Body
<1>3. at # "returned" => Room
  BY RoomNow DEF IInv
<1>4. CASE UNCHANGED <<record, proc, status, ending>> /\ UNCHANGED Blind
  BY <1>4, SameRecord, SameBody, StutterOnTopic DEF View
<1>5. CASE OpenWork \/ OpenWorkError
  <2>1. UNCHANGED <<Body, ending>> /\ UNCHANGED Blind
    BY <1>5, SameBody DEF OpenWork, OpenWorkError
  <2>2. CASE UNCHANGED record
    BY <2>1, <2>2, SameRecord, StutterOnTopic DEF View
  <2>3. CASE Publish("open")
    <3>1. Topic!Open
      BY <1>1, <1>3, <1>5, <2>1, <2>3, PublishedOp DEF OpenWork, OpenWorkError, Topic!Open
    <3> QED
      BY <3>1 DEF TopicStep, Topic!Next
  <2> QED
    BY <1>5, <2>2, <2>3 DEF OpenWork, OpenWorkError, PublishError
<1>6. CASE ResolveError
  <2>1. UNCHANGED <<Body, ending>> /\ UNCHANGED Blind
    BY <1>6, SameBody DEF ResolveError
  <2>2. CASE UNCHANGED record
    BY <2>1, <2>2, SameRecord, StutterOnTopic DEF View
  <2>3. CASE Publish("abandon")
    <3>1. Topic!GiveUp
      BY <1>1, <1>2, <1>3, <1>6, <2>1, <2>3, PublishedOp DEF ResolveError, Topic!GiveUp
    <3> QED
      BY <3>1 DEF TopicStep, Topic!Next
  <2> QED
    BY <1>6, <2>2, <2>3 DEF ResolveError, PublishError
<1>7. CASE Start
  <2>1. Topic!Begin
    BY <1>1, <1>2, <1>7, SameRecord DEF Start, ProcessStart, PodStart, Body, Topic!Begin
  <2> QED
    BY <2>1 DEF TopicStep, Topic!Next
<1>8. CASE StartError
  <2>1. UNCHANGED ending /\ UNCHANGED Blind
    <3>1. dropped' = dropped \/ dropped' = dropped \cup {"start"}
      BY <1>8 DEF StartError, ProcessStartError, PodStartError
    <3> QED
      BY <1>8, <3>1 DEF StartError
  <2>2. proc' \in {"none", "running"} /\ Body' = proc'
    BY <1>2, <1>8 DEF StartError, ProcessStartError, PodStartError, Body
  <2>3. CASE Publish("abandon")
    <3>1. Topic!GiveUp
      BY <1>1, <1>2, <1>3, <1>8, <2>1, <2>2, <2>3, PublishedOp DEF StartError, Topic!GiveUp
    <3> QED
      BY <3>1 DEF TopicStep, Topic!Next
  <2>4. CASE UNCHANGED record
    <3>1. LastOp = "open" /\ UNCHANGED LastOp /\ Body = "none"
      BY <1>1, <1>2, <1>8, <2>4, SameRecord DEF StartError
    <3>2. CASE proc' = "none"
      BY <2>1, <2>2, <3>1, <3>2, StutterOnTopic DEF View
    <3>3. CASE proc' = "running"
      <4>1. Topic!Begin
        BY <2>1, <2>2, <3>1, <3>3 DEF Topic!Begin
      <4> QED
        BY <4>1 DEF TopicStep, Topic!Next
    <3> QED
      BY <2>2, <3>2, <3>3
  <2> QED
    BY <1>8, <2>3, <2>4 DEF StartError, PublishError
<1>9. CASE ClaimWork \/ ClaimWorkError
  <2>1. UNCHANGED <<Body, ending>> /\ UNCHANGED Blind
    BY <1>9, SameBody DEF ClaimWork, ClaimWorkError
  <2>2. CASE UNCHANGED record
    BY <2>1, <2>2, SameRecord, StutterOnTopic DEF View
  <2>3. CASE Publish("claim")
    <3>1. Topic!Claim
      BY <1>1, <1>2, <1>3, <1>9, <2>1, <2>3, PublishedOp DEF ClaimWork, ClaimWorkError, Topic!Claim
    <3> QED
      BY <3>1 DEF TopicStep, Topic!Next
  <2> QED
    BY <1>9, <2>2, <2>3 DEF ClaimWork, ClaimWorkError, PublishError
<1>10. CASE Refuse \/ Resolve
  BY <1>4, <1>10 DEF Refuse, Resolve
<1> QED
  BY <1>5, <1>6, <1>7, <1>8, <1>9, <1>10 DEF Launch

\* The terminal op closes a claimed life whose workload is over; done is earned
\* or asked for.
LEMMA TerminalOnTopic ==
  ASSUME IInv, Terminal \/ TerminalError
  PROVE  TopicStep
<1>1. at \in Closing
  BY DEF Terminal, TerminalError, Closing
<1>2. UNCHANGED <<Body, ending>> /\ UNCHANGED Blind
  BY SameBody DEF Terminal, TerminalError, Blind
<1>3. LastOp = "claim" /\ Room
  BY <1>1, RoomNow DEF IInv, LifeInv, Recorded, LastOp, Closing
<1>4. proc # "none" /\ (proc # "running" \/ Blind)
  BY <1>1 DEF IInv, LifeInv, Started, Awaited, Ended, Supervised, Blind
<1>5. Body \in {"succeeded", "failed"} \/ Blind
  BY <1>4 DEF Body, IInv, TypeOK, BackendTypeOK
<1>6. at = "complete" => Body = "succeeded" \/ ending
  BY <1>4 DEF IInv, LifeInv, Told, Success, Body, TypeOK, BackendTypeOK
<1>7. CASE UNCHANGED record
  BY <1>2, <1>7, SameRecord, StutterOnTopic DEF View
<1>8. CASE Publish(TerminalOp) /\ at = "complete"
  <2>1. LastOp' = "done"
    BY <1>3, <1>8, PublishedOp DEF TerminalOp
  <2>2. Topic!Done
    BY <1>2, <1>3, <1>5, <1>6, <1>8, <2>1 DEF Topic!Done, Topic!Over, Blind
  <2> QED
    BY <2>2 DEF TopicStep, Topic!Next
<1>9. CASE Publish(TerminalOp) /\ at = "abandon"
  <2>1. LastOp' = "abandon"
    BY <1>3, <1>9, PublishedOp DEF TerminalOp
  <2>2. Topic!Abandon
    BY <1>2, <1>3, <1>5, <1>9, <2>1 DEF Topic!Abandon, Topic!Over, Blind
  <2> QED
    BY <2>2 DEF TopicStep, Topic!Next
<1> QED
  BY <1>1, <1>7, <1>8, <1>9 DEF Terminal, TerminalError, PublishError, Closing

\* The handle: what it does to the workload is an end, what it is asked is Ask.
LEMMA RunningOnTopic ==
  ASSUME IInv, Running
  PROVE  TopicStep
<1> USE DEF Blind
<1>1. CASE CallWait \/ CallServe \/ ServeExited
  BY <1>1, EndOnTopic DEF CallWait, CallServe, ServeExited
<1>2. CASE WaitReturns \/ WaiterReaps \/ StopAwaits
  <2>1. UNCHANGED backendVars \/ HandleWaits
    BY <1>2 DEF WaitReturns, WaiterReaps, StopAwaits
  <2>2. UNCHANGED <<record, ending>>
    BY <1>2 DEF WaitReturns, WaiterReaps, StopAwaits
  <2>3. CASE UNCHANGED backendVars
    BY <2>2, <2>3, EndOnTopic
  <2>4. CASE HandleWaits
    <3>1. UNCHANGED status /\ UNCHANGED Blind
      BY <2>4, WhatWaitDoes
    <3>2. UNCHANGED proc \/ (proc = "exited" /\ proc' = "reaped")
      BY <2>4, WhatWaitDoes
    <3> QED
      BY <2>2, <3>1, <3>2, EndOnTopic
  <2> QED
    BY <2>1, <2>3, <2>4
<1>3. CASE ServeCancelled
  BY <1>3, EndOnTopic DEF ServeCancelled, HandleStops, PodStop, PodStopError
<1>4. CASE CallStop
  <2>1. UNCHANGED <<LastOp, Body>> /\ UNCHANGED Blind /\ ending' = TRUE
    BY <1>4, SameRecord, SameBody DEF CallStop, HandleStops, PodStop, PodStopError
  <2>2. Topic!Ask
    BY <2>1 DEF Topic!Ask
  <2> QED
    BY <2>2 DEF TopicStep, Topic!Next
<1>5. CASE GraceOver
  BY <1>5, EndOnTopic DEF GraceOver, Kill
<1>6. CASE Terminal \/ TerminalError
  BY <1>6, TerminalOnTopic
<1> QED
  BY <1>1, <1>2, <1>3, <1>4, <1>5, <1>6 DEF Running

\* The workload, the supervisor, the end of ctx and the runner's death.
LEMMA EnvironmentOnTopic ==
  ASSUME IInv, Environment
  PROVE  TopicStep
<1> USE DEF Blind
<1>1. CASE WorkloadMoves
  BY <1>1, EndOnTopic DEF WorkloadMoves, Workload, Exits, KubeletKills, PodRemoved
<1>2. CASE SupervisorMoves
  <2>1. CASE SeesEnd \/ WatchCloses \/ LooksAgain \/ WatchesAgain
    BY <1>2, <2>1, EndOnTopic
       DEF SupervisorMoves, SeesEnd, WatchCloses, LooksAgain, WatchesAgain
  <2>2. CASE LooksError
    <3>1. UNCHANGED <<LastOp, Body, ending>> /\ Blind'
      BY <1>2, <2>2, SameRecord, SameBody DEF SupervisorMoves, LooksError
    <3>2. CASE Blind
      BY <3>1, <3>2, StutterOnTopic DEF View
    <3>3. CASE ~Blind
      <4>1. Topic!GoBlind
        BY <3>1 DEF Topic!GoBlind
      <4> QED
        BY <4>1 DEF TopicStep, Topic!Next
    <3> QED
      BY <3>2, <3>3
  <2>3. CASE PodReap \/ PodReapError
    <3>1. proc \in {"running", "exited", "reaped"}
      BY <1>2, <2>3 DEF PodReap, PodReapError, IInv, TypeOK, BackendTypeOK, LifeInv, Started
    <3>2. /\ proc' \in {proc, "reaped"}
          /\ UNCHANGED <<record, ending, status>>
          /\ dropped' = dropped \/ dropped' = dropped \cup {"reap"}
      BY <1>2, <2>3 DEF SupervisorMoves, PodReap, PodReapError
    <3>3. UNCHANGED Blind
      BY <3>2
    <3> QED
      BY <3>1, <3>2, <3>3, EndOnTopic
  <2> QED
    BY <1>2, <2>1, <2>2, <2>3 DEF SupervisorMoves, Supervise
<1>3. CASE Cancel
  <2>1. UNCHANGED <<LastOp, Body>> /\ UNCHANGED Blind /\ ending' = TRUE
    BY <1>3, SameRecord, SameBody DEF Cancel
  <2>2. Topic!Ask
    BY <2>1 DEF Topic!Ask
  <2> QED
    BY <2>2 DEF TopicStep, Topic!Next
<1>4. CASE Crash
  BY <1>4, EndOnTopic DEF Crash, SupervisionEnds
<1> QED
  BY <1>1, <1>2, <1>3, <1>4 DEF Environment

\* Launch, Wait, Stop and Serve publish one life on every backend: opened,
\* claimed only after Start has returned a workload, closed once and for good
\* when it is over, with done only for a success or an end that was asked for;
\* through failed publishes, kills, closing watches and the runner's death.
THEOREM OneLifeOnEveryBackend == Spec => ImplementsLifecycle
<1>1. Init => Topic!Init
  <2> SUFFICES ASSUME Init PROVE Topic!Init
    OBVIOUS
  <2>1. LastOp = "none"
    BY EmptySeq DEF Init, LastOp
  <2> QED
    BY <2>1 DEF Init, BackendInit, Body, Topic!Init
<1>2. IInv /\ [Next]_vars => TopicStep
  <2> SUFFICES ASSUME IInv, [Next]_vars PROVE TopicStep
    OBVIOUS
  <2>1. CASE UNCHANGED vars
    BY <2>1, SameRecord, SameBody, StutterOnTopic DEF vars, View, Blind
  <2> QED
    BY <2>1, LaunchOnTopic, RunningOnTopic, EnvironmentOnTopic DEF Next
<1>3. TopicStep => [Topic!Next]_(Topic!lifecycleVars)
  BY DEF TopicStep
<1> QED
  BY <1>1, <1>2, <1>3, InvAlways, PTL DEF Spec, ImplementsLifecycle, Topic!LifecycleSpec

=============================================================================
