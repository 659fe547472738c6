-------------------------- MODULE WakeEngineProofs --------------------------
(* Proofs about WakeEngine, for every set of wakes and sources, every       *)
(* budget, queue and number of attempts, and any number of engines of one   *)
(* persona.                                                                 *)
EXTENDS WakeEngine, FiniteSetTheorems, SequenceTheorems, TLAPS

-----------------------------------------------------------------------------
(* The inductive invariant.                                                *)

Flight == {"run", "retry", "post"}

SourceOK ==
  /\ posted \in SUBSET Wake /\ gone \in SUBSET posted
  /\ live \in [Engine -> SUBSET posted]
  /\ link \in [Engine -> BOOLEAN] /\ signal \in [Engine -> BOOLEAN]
  /\ stopping \in [Engine -> BOOLEAN]
  /\ queue \in [Engine -> Seq(posted)]
  /\ \A e \in Engine : Len(queue[e]) <= Cap
  /\ todo \in [Engine -> SUBSET posted]
  /\ ticked \in [Engine -> SUBSET posted] /\ ticking \in [Engine -> BOOLEAN]
  /\ orphans \in SUBSET posted

RecordOK ==
  /\ turns \in SUBSET Turn /\ recent \in SUBSET turns /\ IsFiniteSet(turns)
  /\ copies \in [Wake -> 0..2] /\ fresh \in SUBSET Wake
  /\ strays \in SUBSET turns

RunOK ==
  /\ at \in [Engine -> Places]
  /\ cur \in [Engine -> Wake \cup {"none"}]
  /\ before \in [Engine -> SUBSET turns]
  /\ attempt \in [Engine -> 0..Retries]
  /\ \A e \in Engine : at[e] \in Flight => cur[e] \in posted
  /\ \A e \in Engine : at[e] = "retry" => attempt[e] < Retries

\* A second message under an outcome id needs a post of a wake whose first one
\* the post's own read did not show and the stream has forgotten.
Slots ==
  /\ \A w \in Wake : copies[w] <= 1 /\ (copies[w] = 1 => Outcome(w) \in turns)
  /\ \A e \in Engine : at[e] \in {"run", "retry"} => Outcome(cur[e]) \notin before[e]
  /\ \A e \in Engine : at[e] = "post" => copies[cur[e]] = 0 \/ cur[e] \in fresh

\* The wakes spoken for inside the window, and those somebody is about to speak
\* for.
Speakers == {t[1] : t \in recent \ strays}
Busy == {cur[e] : e \in {f \in Engine : at[f] \in Flight}}

Floor ==
  WindowMax > 0 =>
    Cardinality(Speakers \cup Busy) <= WindowMax + Cardinality(Engine) - 1

IInv == SourceOK /\ RecordOK /\ RunOK /\ Slots /\ Floor

\* The notify stream is of mentions that happened; IInv's steps rest on it
\* where a catch-up reads its window.
InboxOK == inbox \in Seq(posted)

LEMMA IInvType == IInv /\ InboxOK => TypeOK
  BY DEF IInv, InboxOK, SourceOK, RecordOK, RunOK, TypeOK

\* Only a trigger writes to the stream.
LEMMA InboxStep == InboxOK /\ [Next]_vars => InboxOK'
  <1> SUFFICES ASSUME InboxOK, [Next]_vars PROVE InboxOK'
    OBVIOUS
  <1>1. ASSUME NEW w \in Wake, Trigger(w) PROVE InboxOK'
    <2>1. posted' = posted \cup {w} /\ inbox' \in {inbox, Append(inbox, w)}
      BY <1>1 DEF Trigger
    <2>2. inbox \in Seq(posted')
      BY <2>1, SeqMonotonic DEF InboxOK
    <2>3. Append(inbox, w) \in Seq(posted')
      BY <2>1, <2>2, AppendProperties
    <2> QED
      BY <2>1, <2>2, <2>3 DEF InboxOK
  <1>2. CASE UNCHANGED <<posted, inbox>>
    BY <1>2 DEF InboxOK
  <1>3. Environment => UNCHANGED <<posted, inbox>> \/ \E w \in Wake : Trigger(w)
    BY DEF Environment, TickExpires, DuplicateWindowPasses, OrphanPosts, OrphanEnds,
           WindowSlides, sourceVars
  <1>4. ASSUME NEW e \in Engine, Sources(e) \/ CatchUp(e)
        PROVE  UNCHANGED <<posted, inbox>>
    BY <1>4 DEF Sources, CatchUp, Deliver, TickArrives, TicksStop, FetchInbox,
           FetchInboxError, CatchUpEnqueues, FetchTopics, FetchTopicsError, CatchUpEnds,
           CatchUpCancelled, CatchUpAgain, sourceVars
  <1>5. ASSUME NEW e \in Engine, HandleWake(e)
        PROVE  UNCHANGED <<posted, inbox>>
    BY <1>5 DEF HandleWake, Admit, ParkUnread, HarnessPosts, Correlated, Conclude,
           ParkUnconcluded, Retry, Post, PostError, sourceVars
  <1>6. ASSUME NEW e \in Engine, Process(e)
        PROVE  UNCHANGED <<posted, inbox>>
    BY <1>6 DEF Process, Start, Cancel, Exit, Crash, ProcessEnds, Disconnect, Reconnect,
           sourceVars
  <1> QED
    BY <1>1, <1>2, <1>3, <1>4, <1>5, <1>6 DEF Next, vars

LEMMA InboxHolds == Spec => []InboxOK
  <1>1. Init => InboxOK
    BY DEF Init, InboxOK
  <1> QED
    BY <1>1, InboxStep, PTL DEF Spec

LEMMA EngineCount == IsFiniteSet(Engine) /\ Cardinality(Engine) \in Nat
  BY EnginesAreFinite, FS_CardinalityType

\* The wakes of finitely many turns, and those of the engines.
LEMMA FiniteSpeakers ==
  ASSUME IsFiniteSet(turns), recent \subseteq turns
  PROVE  /\ IsFiniteSet(recent) /\ Cardinality(recent) \in Nat
         /\ IsFiniteSet(Speakers) /\ Cardinality(Speakers) <= Cardinality(recent)
         /\ Cardinality(Speakers) \in Nat
  <1> DEFINE R == recent \ strays
             f == [t \in R |-> t[1]]
  <1>1. IsFiniteSet(recent) /\ Cardinality(recent) \in Nat
    BY FS_Subset, FS_CardinalityType
  <1>2. IsFiniteSet(R) /\ Cardinality(R) <= Cardinality(recent) /\ Cardinality(R) \in Nat
    <2>1. R \in SUBSET recent
      OBVIOUS
    <2> QED
      BY <1>1, <2>1, FS_Subset, FS_CardinalityType
  <1>3. f \in Surjection(R, Speakers)
    BY DEF Surjection, Speakers
  <1>4. IsFiniteSet(Speakers) /\ Cardinality(Speakers) <= Cardinality(R)
    <2> HIDE DEF R, f
    <2> QED
      BY <1>2, <1>3, FS_Surjection
  <1>5. Cardinality(Speakers) \in Nat
    BY <1>4, FS_CardinalityType
  <1> QED
    BY <1>1, <1>2, <1>4, <1>5

\* However the engines are engaged, they engage one wake each.
LEMMA OneWakeEach ==
  ASSUME NEW F \in SUBSET Engine, NEW c
  PROVE  /\ IsFiniteSet({c[e] : e \in F})
         /\ Cardinality({c[e] : e \in F}) \in Nat
         /\ Cardinality({c[e] : e \in F}) <= Cardinality(Engine)
  <1> DEFINE f == [e \in F |-> c[e]]
             T == {c[e] : e \in F}
  <1>1. IsFiniteSet(F) /\ Cardinality(F) <= Cardinality(Engine) /\ Cardinality(F) \in Nat
    BY EngineCount, FS_Subset, FS_CardinalityType
  <1>2. f \in Surjection(F, T)
    BY DEF Surjection
  <1>3. IsFiniteSet(T) /\ Cardinality(T) <= Cardinality(F)
    <2> HIDE DEF f, T
    <2> QED
      BY <1>1, <1>2, FS_Surjection
  <1>4. Cardinality(T) \in Nat
    BY <1>3, FS_CardinalityType
  <1> QED
    BY <1>1, <1>3, <1>4, EngineCount

LEMMA FiniteBusy ==
  IsFiniteSet(Busy)
  <1>1. {f \in Engine : at[f] \in Flight} \in SUBSET Engine
    OBVIOUS
  <1> QED
    BY <1>1, OneWakeEach DEF Busy

\* The floor holds of fewer wakes.
LEMMA FewerSpeak ==
  ASSUME IInv, (Speakers \cup Busy)' \subseteq Speakers \cup Busy
  PROVE  Floor'
  <1>1. IsFiniteSet(Speakers) /\ IsFiniteSet(Busy)
    BY FiniteSpeakers, FiniteBusy DEF IInv, RecordOK
  <1>2. IsFiniteSet(Speakers \cup Busy)
    BY <1>1, FS_Union
  <1>3. /\ IsFiniteSet((Speakers \cup Busy)')
        /\ Cardinality((Speakers \cup Busy)') <= Cardinality(Speakers \cup Busy)
    BY <1>2, FS_Subset
  <1>4. /\ Cardinality((Speakers \cup Busy)') \in Nat
        /\ Cardinality(Speakers \cup Busy) \in Nat
    BY <1>2, <1>3, FS_CardinalityType
  <1> QED
    BY <1>3, <1>4, EngineCount, BoundsAreNumbers DEF IInv, Floor

LEMMA InitIInv == Init => IInv
  <1> SUFFICES ASSUME Init PROVE IInv
    OBVIOUS
  <1>1. SourceOK
    BY BoundsAreNumbers DEF Init, SourceOK
  <1>2. RecordOK
    BY FS_EmptySet DEF Init, RecordOK
  <1>3. RunOK /\ Slots
    BY BoundsAreNumbers DEF Init, RunOK, Slots, Places, Flight
  <1>4. Floor
    <2>1. Speakers \cup Busy = {}
      BY DEF Init, Speakers, Busy, Flight
    <2>2. Cardinality(Speakers \cup Busy) = 0
      BY <2>1, FS_EmptySet
    <2> QED
      BY <2>2, EngineCount, BoundsAreNumbers DEF Floor
  <1> QED
    BY <1>1, <1>2, <1>3, <1>4 DEF IInv

-----------------------------------------------------------------------------
(* Steps of the sources, the queue and the catch-up.                       *)

\* Nothing happens to the record or to a wake in hand.
LEMMA IdleStep ==
  ASSUME IInv, SourceOK', posted \subseteq posted',
         UNCHANGED <<recordVars, strays, runVars>>,
         at' \in [Engine -> Places],
         \A e \in Engine : at'[e] = at[e] \/ (at[e] \notin Flight /\ at'[e] \notin Flight)
  PROVE  IInv'
  <1>1. UNCHANGED <<turns, recent, copies, fresh, strays, cur, before, attempt>>
    BY DEF recordVars, runVars
  <1>2. \A e \in Engine : at'[e] \in Flight => at[e] = at'[e]
    OBVIOUS
  <1>3. RecordOK' /\ RunOK'
    BY <1>1, <1>2 DEF IInv, RecordOK, RunOK, Flight
  <1>4. Slots'
    BY <1>1, <1>2 DEF IInv, Slots, Flight
  <1>5. Floor'
    BY <1>1, <1>2, FewerSpeak DEF Speakers, Busy
  <1> QED
    BY <1>3, <1>4, <1>5 DEF IInv

\* A wake put into a queue that is not full.
LEMMA EnqueueKeeps ==
  ASSUME SourceOK, NEW e \in Engine, NEW w \in posted, ~Full(e), Enqueue(e, w)
  PROVE  /\ queue' \in [Engine -> Seq(posted)]
         /\ \A f \in Engine : Len(queue'[f]) <= Cap
  <1>1. queue[e] \in Seq(posted) /\ Len(queue[e]) \in Nat /\ Len(queue[e]) < Cap
    BY BoundsAreNumbers DEF SourceOK, Full
  <1>2. Append(queue[e], w) \in Seq(posted) /\ Len(Append(queue[e], w)) <= Cap
    BY <1>1, BoundsAreNumbers
  <1>3. queue' = [queue EXCEPT ![e] = Append(queue[e], w)]
    BY DEF Enqueue
  <1> HIDE DEF Enqueue
  <1> QED
    BY <1>2, <1>3 DEF SourceOK

\* A wake taken out of one.
LEMMA TailKeeps ==
  ASSUME SourceOK, NEW e \in Engine, queue[e] # <<>>, queue' = [queue EXCEPT ![e] = Tail(@)]
  PROVE  /\ queue' \in [Engine -> Seq(posted)]
         /\ \A f \in Engine : Len(queue'[f]) <= Cap
         /\ Head(queue[e]) \in posted
  <1>1. queue[e] \in Seq(posted) /\ Len(queue[e]) <= Cap
    BY DEF SourceOK
  <1>2. /\ Tail(queue[e]) \in Seq(posted) /\ Head(queue[e]) \in posted
        /\ Len(Tail(queue[e])) = Len(queue[e]) - 1
    BY <1>1, HeadTailProperties
  <1>3. Len(queue[e]) \in Nat
    BY <1>1
  <1>4. Len(Tail(queue[e])) <= Cap
    BY <1>1, <1>2, <1>3, BoundsAreNumbers
  <1> QED
    BY <1>2, <1>4 DEF SourceOK

LEMMA TriggerStep ==
  ASSUME IInv, NEW w \in Wake, Trigger(w)
  PROVE  IInv'
  <1>1. /\ posted' = posted \cup {w}
        /\ UNCHANGED <<gone, link, signal, stopping, queue, todo, ticked, ticking, orphans, at>>
        /\ UNCHANGED <<recordVars, strays, runVars>>
    BY DEF Trigger, queueVars, tickVars, orphanVars, recordVars, runVars
  <1>2. live' \in [Engine -> SUBSET posted']
    BY <1>1 DEF Trigger, IInv, SourceOK
  <1>3. queue' \in [Engine -> Seq(posted')]
    BY <1>1, SeqMonotonic DEF IInv, SourceOK
  <1>4. SourceOK'
    BY <1>1, <1>2, <1>3 DEF IInv, SourceOK
  <1> QED
    BY <1>1, <1>4, IdleStep DEF IInv, RunOK

LEMMA QueueStep ==
  ASSUME IInv, NEW e \in Engine, NEW w \in Wake,
         Deliver(e, w) \/ TickArrives(e, w) \/ CatchUpEnqueues(e, w)
  PROVE  IInv'
  <1>1. /\ UNCHANGED <<posted, gone, link, signal, stopping, orphans, at, ticking>>
        /\ UNCHANGED <<recordVars, strays, runVars>>
    BY DEF Deliver, TickArrives, CatchUpEnqueues, sourceVars, recordVars, linkVars,
           tickVars, runVars, orphanVars
  <1>2. /\ live' \in [Engine -> SUBSET posted]
        /\ todo' \in [Engine -> SUBSET posted]
        /\ ticked' \in [Engine -> SUBSET posted]
    <2>1. CASE Deliver(e, w)
      BY <2>1 DEF Deliver, tickVars, IInv, SourceOK
    <2>2. CASE TickArrives(e, w)
      BY <2>2 DEF TickArrives, linkVars, IInv, SourceOK
    <2>3. CASE CatchUpEnqueues(e, w)
      BY <2>3 DEF CatchUpEnqueues, linkVars, tickVars, IInv, SourceOK
    <2> QED
      BY <2>1, <2>2, <2>3
  <1>3. /\ queue' \in [Engine -> Seq(posted)]
        /\ \A f \in Engine : Len(queue'[f]) <= Cap
    <2>1. \/ UNCHANGED queue
          \/ w \in posted /\ ~Full(e) /\ Enqueue(e, w)
      BY DEF Deliver, TickArrives, CatchUpEnqueues, IInv, SourceOK
    <2> QED
      BY <2>1, EnqueueKeeps DEF IInv, SourceOK
  <1>4. SourceOK'
    BY <1>1, <1>2, <1>3 DEF IInv, SourceOK
  <1> QED
    BY <1>1, <1>4, IdleStep DEF IInv, RunOK

\* The rest of the sources and of the catch-up.
LEMMA CatchUpStep ==
  ASSUME IInv, InboxOK, NEW e \in Engine,
         \/ FetchInbox(e) \/ FetchInboxError(e)
         \/ FetchTopics(e) \/ FetchTopicsError(e)
         \/ CatchUpEnds(e) \/ CatchUpCancelled(e) \/ CatchUpAgain(e)
  PROVE  IInv'
  <1>1. /\ UNCHANGED <<posted, gone, live, link, stopping, queue, ticked, ticking, orphans>>
        /\ UNCHANGED <<recordVars, strays, runVars>>
    BY DEF FetchInbox, FetchInboxError, FetchTopics, FetchTopicsError, CatchUpEnds,
           CatchUpCancelled, CatchUpAgain, sourceVars, recordVars, linkVars, queueVars,
           tickVars, runVars, orphanVars
  <1>2. PICK place \in {"inbox", "mentions", "topics", "idle"} :
          Goto(e, place) /\ at[e] \notin Flight
    BY DEF FetchInbox, FetchInboxError, FetchTopics, FetchTopicsError, CatchUpEnds,
           CatchUpCancelled, CatchUpAgain, Flight
  <1>3. todo' \in [Engine -> SUBSET posted]
    <2>1. Inbox \in SUBSET posted /\ TopicBacklog \in SUBSET posted
      <3>1. \A i \in 1..Len(inbox) : inbox[i] \in posted
        BY ElementOfSeq DEF InboxOK
      <3> QED
        BY <3>1 DEF Inbox, TopicBacklog
    <2>2. PICK T \in SUBSET posted : todo' = [todo EXCEPT ![e] = T]
      <3>1. CASE FetchInbox(e)
        BY <2>1, <3>1 DEF FetchInbox
      <3>2. CASE FetchTopics(e)
        BY <2>1, <3>2 DEF FetchTopics
      <3>3. CASE CatchUpCancelled(e)
        BY <3>3 DEF CatchUpCancelled
      <3>4. CASE FetchInboxError(e) \/ FetchTopicsError(e) \/ CatchUpEnds(e) \/ CatchUpAgain(e)
        <4>1. todo' = todo /\ todo[e] \in SUBSET posted /\ todo = [todo EXCEPT ![e] = todo[e]]
          BY <3>4 DEF FetchInboxError, FetchTopicsError, CatchUpEnds, CatchUpAgain,
                      queueVars, IInv, SourceOK
        <4> QED
          BY <4>1
      <3> QED
        BY <3>1, <3>2, <3>3, <3>4
    <2> QED
      BY <2>2 DEF IInv, SourceOK
  <1>4. signal' \in [Engine -> BOOLEAN]
    BY DEF FetchInbox, FetchInboxError, FetchTopics, FetchTopicsError, CatchUpEnds,
           CatchUpCancelled, CatchUpAgain, linkVars, IInv, SourceOK
  <1>5. SourceOK'
    BY <1>1, <1>3, <1>4 DEF IInv, SourceOK
  <1>6. /\ at' \in [Engine -> Places]
        /\ \A f \in Engine : at'[f] = at[f] \/ (at[f] \notin Flight /\ at'[f] \notin Flight)
    BY <1>2 DEF Goto, Places, Flight, IInv, RunOK
  <1> QED
    BY <1>1, <1>5, <1>6, IdleStep

\* The world around the engine, its link, and the wakes it cannot read.
LEMMA WorldStep ==
  ASSUME IInv,
         \/ \E w \in Wake : TickExpires(w) \/ OrphanEnds(w)
         \/ \E e \in Engine : \/ TicksStop(e) \/ Cancel(e) \/ Disconnect(e) \/ Reconnect(e)
                              \/ ParkUnread(e)
  PROVE  IInv'
  <1>1. UNCHANGED <<posted, todo, at>> /\ UNCHANGED <<recordVars, strays, runVars>>
    BY DEF TickExpires, OrphanEnds, TicksStop, Cancel, Disconnect, Reconnect, ParkUnread,
           sourceVars, queueVars, orphanVars
  <1>2. SourceOK'
    <2>1. CASE \E w \in Wake : TickExpires(w) \/ OrphanEnds(w)
      BY <2>1 DEF TickExpires, OrphanEnds, sourceVars, linkVars, queueVars, tickVars,
                  orphanVars, IInv, SourceOK
    <2>2. CASE \E e \in Engine : TicksStop(e) \/ Cancel(e)
      BY <2>2 DEF TicksStop, Cancel, sourceVars, linkVars, queueVars, tickVars,
                  orphanVars, IInv, SourceOK
    <2>3. CASE \E e \in Engine : Disconnect(e) \/ Reconnect(e)
      BY <2>3 DEF Disconnect, Reconnect, sourceVars, queueVars, tickVars,
                  orphanVars, IInv, SourceOK
    <2>4. CASE \E e \in Engine : ParkUnread(e)
      <3> PICK e \in Engine : ParkUnread(e)
        BY <2>4
      <3>1. /\ queue' \in [Engine -> Seq(posted)]
            /\ \A f \in Engine : Len(queue'[f]) <= Cap
        BY TailKeeps DEF ParkUnread, IInv
      <3> QED
        BY <3>1 DEF ParkUnread, sourceVars, linkVars, tickVars, orphanVars, IInv, SourceOK
    <2> QED
      BY <2>1, <2>2, <2>3, <2>4
  <1> QED
    BY <1>1, <1>2, IdleStep DEF IInv, RunOK

LEMMA StartStep ==
  ASSUME IInv, NEW e \in Engine, Start(e)
  PROVE  IInv'
  <1>1. UNCHANGED <<posted, recordVars, strays, runVars>>
    BY DEF Start, sourceVars, orphanVars
  <1>2. SourceOK'
    BY DEF Start, sourceVars, orphanVars, IInv, SourceOK
  <1>3. /\ at' \in [Engine -> Places]
        /\ \A f \in Engine : at'[f] = at[f] \/ (at[f] \notin Flight /\ at'[f] \notin Flight)
    BY DEF Start, Goto, Places, Flight, IInv, RunOK
  <1> QED
    BY <1>1, <1>2, <1>3, IdleStep

-----------------------------------------------------------------------------
(* Steps of a wake in hand that leave the record alone.                    *)

\* A wake in hand moves on, is dropped, or a new one is taken.
LEMMA HandStep ==
  ASSUME IInv, NEW e \in Engine, SourceOK', posted' = posted,
         UNCHANGED <<recordVars, strays>>,
         NEW place \in Places, NEW w \in Wake \cup {"none"},
         NEW seen \in SUBSET turns, NEW n \in 0..Retries,
         at' = [at EXCEPT ![e] = place], cur' = [cur EXCEPT ![e] = w],
         before' = [before EXCEPT ![e] = seen], attempt' = [attempt EXCEPT ![e] = n],
         place \in Flight => w \in posted,
         place = "retry" => n < Retries,
         place \in {"run", "retry"} => Outcome(w) \notin seen,
         place = "post" => copies[w] = 0 \/ w \in fresh
  PROVE  SourceOK' /\ RecordOK' /\ RunOK' /\ Slots'
  <1>1. UNCHANGED <<turns, recent, copies, fresh, strays>>
    BY DEF recordVars
  <1>2. /\ at'[e] = place /\ cur'[e] = w /\ before'[e] = seen /\ attempt'[e] = n
        /\ \A f \in Engine : f # e => /\ at'[f] = at[f] /\ cur'[f] = cur[f]
                                      /\ before'[f] = before[f] /\ attempt'[f] = attempt[f]
    BY DEF IInv, RunOK
  <1>3. RecordOK'
    BY <1>1 DEF IInv, RecordOK
  <1>4. /\ at' \in [Engine -> Places] /\ cur' \in [Engine -> Wake \cup {"none"}]
        /\ before' \in [Engine -> SUBSET turns] /\ attempt' \in [Engine -> 0..Retries]
    BY DEF IInv, RunOK
  <1>5. RunOK'
    BY <1>1, <1>2, <1>4 DEF IInv, RunOK, Flight
  <1>6. Slots'
    BY <1>1, <1>2 DEF IInv, Slots, Flight
  <1> QED
    BY <1>3, <1>5, <1>6

\* The engine is through with its wake, or its process is over.
LEMMA EndStep ==
  ASSUME IInv, NEW e \in Engine, SourceOK', posted' = posted,
         UNCHANGED <<recordVars, strays>>, NEW place \in {"idle", "down"}, Finish(e, place)
  PROVE  IInv'
  <1>1. /\ at' = [at EXCEPT ![e] = place] /\ cur' = [cur EXCEPT ![e] = "none"]
        /\ before' = [before EXCEPT ![e] = {}] /\ attempt' = [attempt EXCEPT ![e] = 0]
    BY DEF Finish, Goto
  <1>2. SourceOK' /\ RecordOK' /\ RunOK' /\ Slots'
    <2>1. /\ "none" \in Wake \cup {"none"} /\ {} \in SUBSET turns
          /\ place \in Places /\ place \notin Flight /\ place \notin {"run", "retry", "post"}
      BY DEF Places, Flight
    <2>2. 0 \in 0..Retries
      BY BoundsAreNumbers
    <2> QED
      BY <1>1, <2>1, <2>2, HandStep
  <1>3. \A f \in Engine : at'[f] \in Flight => at[f] \in Flight /\ cur'[f] = cur[f]
    BY <1>1 DEF Flight, IInv, RunOK
  <1>4. Floor'
    <2>1. Speakers' = Speakers
      BY DEF recordVars, Speakers
    <2>2. Busy' \subseteq Busy
      BY <1>3 DEF Busy
    <2> QED
      BY <2>1, <2>2, FewerSpeak
  <1> QED
    BY <1>2, <1>4 DEF IInv

LEMMA DropStep ==
  ASSUME IInv, NEW e \in Engine, Correlated(e) \/ ParkUnconcluded(e)
  PROVE  IInv'
  <1>1. UNCHANGED <<sourceVars, recordVars, linkVars, stopping, queueVars, orphanVars>>
    BY DEF Correlated, ParkUnconcluded
  <1>2. Finish(e, "idle")
    BY DEF Correlated, ParkUnconcluded
  <1>3. SourceOK'
    BY <1>1 DEF sourceVars, linkVars, queueVars, tickVars, orphanVars, IInv, SourceOK
  <1> QED
    BY <1>1, <1>2, <1>3, EndStep DEF sourceVars, orphanVars

LEMMA ProcessEndStep ==
  ASSUME IInv, NEW e \in Engine, Exit(e) \/ Crash(e)
  PROVE  IInv'
  <1>1. /\ ProcessEnds(e) /\ UNCHANGED strays
        /\ orphans' = orphans \/ (at[e] = "run" /\ orphans' = orphans \cup {cur[e]})
    BY DEF Exit, Crash, orphanVars
  <1>2. orphans' \in SUBSET posted
    BY <1>1 DEF IInv, SourceOK, RunOK, Flight
  <1>3. SourceOK'
    <2>1. <<>> \in Seq(posted) /\ Len(<<>>) = 0
      OBVIOUS
    <2>2. /\ posted' = posted /\ gone' = gone
          /\ stopping' \in [Engine -> BOOLEAN] /\ live' \in [Engine -> SUBSET posted]
          /\ link' \in [Engine -> BOOLEAN] /\ signal' \in [Engine -> BOOLEAN]
          /\ todo' \in [Engine -> SUBSET posted] /\ ticked' \in [Engine -> SUBSET posted]
          /\ ticking' \in [Engine -> BOOLEAN]
      BY <1>1 DEF ProcessEnds, sourceVars, IInv, SourceOK
    <2>3. queue' = [queue EXCEPT ![e] = <<>>]
      BY <1>1 DEF ProcessEnds
    <2>4. queue' \in [Engine -> Seq(posted)] /\ \A f \in Engine : Len(queue'[f]) <= Cap
      BY <2>1, <2>3, BoundsAreNumbers DEF IInv, SourceOK
    <2> QED
      BY <1>2, <2>2, <2>4 DEF IInv, SourceOK
  <1> QED
    BY <1>1, <1>3, EndStep DEF ProcessEnds, sourceVars

\* The same wake goes on, so nobody new is about to speak.
LEMMA SameBusy ==
  ASSUME IInv, UNCHANGED <<turns, recent, strays, cur>>,
         \A f \in Engine : at'[f] \in Flight => at[f] \in Flight
  PROVE  Floor'
  <1>1. Speakers' = Speakers /\ Busy' \subseteq Busy
    BY DEF Speakers, Busy
  <1> QED
    BY <1>1, FewerSpeak

\* What a read without news says: the outcome is not there.
LEMMA NoNews ==
  ASSUME IInv, NEW e \in Engine, at[e] = "run", ~PostedDuringRun(e)
  PROVE  /\ cur[e] \in posted /\ cur[e] \in Wake
         /\ Outcome(cur[e]) \notin turns /\ copies[cur[e]] = 0
  <1>1. cur[e] \in posted /\ cur[e] \in Wake
    BY DEF IInv, RunOK, SourceOK, Flight
  <1>2. Outcome(cur[e]) \notin turns
    BY DEF PostedDuringRun, IInv, Slots
  <1> QED
    BY <1>1, <1>2 DEF IInv, Slots, RecordOK

LEMMA ConcludeStep ==
  ASSUME IInv, NEW e \in Engine, NEW ok \in BOOLEAN, Conclude(e, ok)
  PROVE  IInv'
  <1>1. UNCHANGED <<sourceVars, recordVars, linkVars, stopping, queueVars, orphanVars>>
    BY DEF Conclude
  <1>2. SourceOK' /\ posted' = posted /\ UNCHANGED <<recordVars, strays>>
    BY <1>1 DEF sourceVars, linkVars, queueVars, tickVars, orphanVars, IInv, SourceOK
  <1>3. /\ at[e] = "run" /\ cur[e] \in posted /\ cur[e] \in Wake
        /\ Outcome(cur[e]) \notin turns /\ copies[cur[e]] = 0
    BY NoNews DEF Conclude
  <1>4. cur = [cur EXCEPT ![e] = cur[e]] /\ attempt = [attempt EXCEPT ![e] = attempt[e]]
        /\ before = [before EXCEPT ![e] = before[e]]
        /\ attempt[e] \in 0..Retries /\ before[e] \in SUBSET turns
    BY DEF IInv, RunOK
  <1>5. CASE Goto(e, "post") /\ UNCHANGED runVars
    <2>1. SourceOK' /\ RecordOK' /\ RunOK' /\ Slots'
      BY <1>2, <1>3, <1>4, <1>5, HandStep DEF Goto, runVars, Places, Flight
    <2>2. Floor'
      <3>1. \A f \in Engine : at'[f] \in Flight => at[f] \in Flight
        BY <1>3, <1>5 DEF Goto, Flight, IInv, RunOK
      <3> QED
        BY <1>2, <1>5, <3>1, SameBusy DEF recordVars, runVars
    <2> QED
      BY <2>1, <2>2 DEF IInv
  <1>6. CASE /\ Goto(e, "retry") /\ attempt[e] < Retries
             /\ before' = [before EXCEPT ![e] = turns]
             /\ UNCHANGED <<cur, attempt>>
    <2>1. SourceOK' /\ RecordOK' /\ RunOK' /\ Slots'
      BY <1>2, <1>3, <1>4, <1>6, HandStep DEF Goto, Places, Flight
    <2>2. Floor'
      <3>1. \A f \in Engine : at'[f] \in Flight => at[f] \in Flight
        BY <1>3, <1>6 DEF Goto, Flight, IInv, RunOK
      <3> QED
        BY <1>2, <1>6, <3>1, SameBusy DEF recordVars
    <2> QED
      BY <2>1, <2>2 DEF IInv
  <1>7. CASE Finish(e, "idle")
    BY <1>2, <1>7, EndStep
  <1> QED
    BY <1>5, <1>6, <1>7 DEF Conclude

LEMMA RetryStep ==
  ASSUME IInv, NEW e \in Engine, Retry(e)
  PROVE  IInv'
  <1>1. UNCHANGED <<sourceVars, recordVars, linkVars, stopping, queueVars, orphanVars>>
    BY DEF Retry
  <1>2. SourceOK' /\ posted' = posted /\ UNCHANGED <<recordVars, strays>>
    BY <1>1 DEF sourceVars, linkVars, queueVars, tickVars, orphanVars, IInv, SourceOK
  <1>3. CASE Finish(e, "idle")
    BY <1>2, <1>3, EndStep
  <1>4. CASE /\ Goto(e, "run") /\ attempt' = [attempt EXCEPT ![e] = @ + 1]
             /\ UNCHANGED <<cur, before>>
    <2>1. /\ at[e] = "retry" /\ cur[e] \in posted /\ cur[e] \in Wake
          /\ attempt[e] \in 0..Retries /\ attempt[e] < Retries
          /\ before[e] \in SUBSET turns /\ Outcome(cur[e]) \notin before[e]
      BY DEF Retry, IInv, SourceOK, RunOK, Slots, Flight
    <2>2. attempt[e] + 1 \in 0..Retries /\ attempt' = [attempt EXCEPT ![e] = attempt[e] + 1]
      BY <1>4, <2>1, BoundsAreNumbers
    <2>3. cur = [cur EXCEPT ![e] = cur[e]] /\ before = [before EXCEPT ![e] = before[e]]
      BY DEF IInv, RunOK
    <2>4. SourceOK' /\ RecordOK' /\ RunOK' /\ Slots'
      <3>1. at' = [at EXCEPT ![e] = "run"] /\ cur' = cur /\ before' = before
        BY <1>4 DEF Goto
      <3>2. "run" \in Places /\ "run" \in Flight
        BY DEF Places, Flight
      <3> QED
        BY <1>2, <2>1, <2>2, <2>3, <3>1, <3>2, HandStep
    <2>5. Floor'
      <3>1. \A f \in Engine : at'[f] \in Flight => at[f] \in Flight
        BY <1>4, <2>1 DEF Goto, Flight, IInv, RunOK
      <3> QED
        BY <1>2, <1>4, <3>1, SameBusy DEF recordVars
    <2> QED
      BY <2>4, <2>5 DEF IInv
  <1> QED
    BY <1>3, <1>4 DEF Retry

-----------------------------------------------------------------------------
(* A wake is taken in hand.                                                *)

\* Whatever the others have in hand, one admission reads a window with room.
LEMMA AdmitFloor ==
  ASSUME IInv, UNCHANGED <<recent, strays>>, Cardinality(recent) < WindowMax
  PROVE  Floor'
  <1> DEFINE B == Busy'
  <1>1. /\ IsFiniteSet(Speakers) /\ Cardinality(Speakers) \in Nat
        /\ Cardinality(Speakers) <= Cardinality(recent) /\ Cardinality(recent) \in Nat
    BY FiniteSpeakers DEF IInv, RecordOK
  <1>2. IsFiniteSet(B) /\ Cardinality(B) \in Nat /\ Cardinality(B) <= Cardinality(Engine)
    <2>1. {f \in Engine : at'[f] \in Flight} \in SUBSET Engine
      OBVIOUS
    <2> QED
      BY <2>1, OneWakeEach DEF Busy
  <1>3. Speakers' = Speakers
    BY DEF Speakers
  <1> HIDE DEF B
  <1>4. /\ IsFiniteSet(Speakers \cup B)
        /\ Cardinality(Speakers \cup B)
             = Cardinality(Speakers) + Cardinality(B) - Cardinality(Speakers \cap B)
    BY <1>1, <1>2, FS_Union
  <1>5. IsFiniteSet(Speakers \cap B)
    BY <1>1, FS_Intersection
  <1>6. Cardinality(Speakers \cap B) \in Nat
    BY <1>5, FS_CardinalityType
  <1>7. Cardinality(Speakers \cup B) <= WindowMax + Cardinality(Engine) - 1
    BY <1>1, <1>2, <1>4, <1>6, EngineCount, BoundsAreNumbers
  <1> QED
    BY <1>3, <1>7 DEF Floor, B

LEMMA AdmitStep ==
  ASSUME IInv, NEW e \in Engine, Admit(e)
  PROVE  IInv'
  <1> DEFINE w == Head(queue[e])
  <1>1. /\ queue[e] # <<>> /\ queue' = [queue EXCEPT ![e] = Tail(@)]
        /\ UNCHANGED <<sourceVars, recordVars, linkVars, stopping, todo, tickVars, orphanVars>>
    BY DEF Admit
  <1>2. /\ queue' \in [Engine -> Seq(posted)] /\ w \in posted /\ w \in Wake
        /\ \A f \in Engine : Len(queue'[f]) <= Cap
    BY <1>1, TailKeeps DEF IInv, SourceOK
  <1>3. SourceOK' /\ posted' = posted /\ UNCHANGED <<recordVars, strays>>
    BY <1>1, <1>2 DEF sourceVars, linkVars, tickVars, orphanVars, IInv, SourceOK
  <1>4. CASE Discarded(w)
    <2>1. UNCHANGED <<at, runVars>>
      BY <1>4 DEF Admit
    <2> QED
      BY <1>3, <2>1, IdleStep DEF IInv, RunOK
  <1>5. CASE ~Discarded(w)
    <2>1. /\ at' = [at EXCEPT ![e] = "run"] /\ cur' = [cur EXCEPT ![e] = w]
          /\ before' = [before EXCEPT ![e] = turns] /\ attempt' = [attempt EXCEPT ![e] = 1]
      BY <1>5 DEF Admit, Goto
    <2>2. Outcome(w) \notin turns /\ (WindowMax > 0 => ~(Cardinality(recent) >= WindowMax))
      BY <1>5 DEF Discarded, AlreadyAnswered, Refused
    <2>3. 1 \in 0..Retries /\ "run" \in Places
      BY BoundsAreNumbers DEF Places
    <2> HIDE DEF w
    <2>4. SourceOK' /\ RecordOK' /\ RunOK' /\ Slots'
      BY <1>2, <1>3, <2>1, <2>2, <2>3, HandStep
    <2>5. Floor'
      <3>1. CASE WindowMax > 0
        <4>1. Cardinality(recent) \in Nat
          BY FiniteSpeakers DEF IInv, RecordOK
        <4>2. Cardinality(recent) < WindowMax
          BY <2>2, <3>1, <4>1, BoundsAreNumbers
        <4> QED
          BY <1>3, <4>2, AdmitFloor DEF recordVars
      <3>2. CASE ~(WindowMax > 0)
        BY <3>2 DEF Floor
      <3> QED
        BY <3>1, <3>2
    <2> QED
      BY <2>4, <2>5 DEF IInv
  <1> QED
    BY <1>4, <1>5

-----------------------------------------------------------------------------
(* Steps of the record.                                                    *)

\* A turn lands.
LEMMA LandKeeps ==
  ASSUME RecordOK, NEW t \in Turn, Land(t)
  PROVE  /\ turns' = turns \cup {t} /\ turns' \in SUBSET Turn
         /\ recent' \in SUBSET turns' /\ recent' \subseteq recent \cup {t}
         /\ IsFiniteSet(turns')
  <1>1. /\ turns' = turns \cup {t}
        /\ recent' = recent \cup {t} \/ recent' = recent
    BY DEF Land
  <1>2. IsFiniteSet(turns')
    BY <1>1, FS_AddElement DEF RecordOK
  <1> QED
    BY <1>1, <1>2 DEF RecordOK

\* A turn of a harness has an id of its own.
LEMMA SelfPostIsATurn ==
  ASSUME RecordOK, NEW w \in Wake, SelfPost(w)
  PROVE  /\ NextSelfPost(w) \in Turn /\ NextSelfPost(w)[1] = w
         /\ Land(NextSelfPost(w)) /\ UNCHANGED <<copies, fresh>>
  <1>1. SelfPosts(w) \in SUBSET turns
    BY DEF SelfPosts
  <1>2. IsFiniteSet(SelfPosts(w))
    BY <1>1, FS_Subset DEF RecordOK
  <1>3. Cardinality(SelfPosts(w)) \in Nat /\ Cardinality(SelfPosts(w)) < MaxSelf
    BY <1>2, FS_CardinalityType DEF SelfPost
  <1>4. Cardinality(SelfPosts(w)) + 1 \in 0..MaxSelf
    BY <1>3, BoundsAreNumbers
  <1> QED
    BY <1>4 DEF NextSelfPost, Turn, SelfPost

\* A turn that is nobody's outcome lands on a record under the same engines.
LEMMA ForeignTurn ==
  ASSUME IInv, NEW t \in Turn, Land(t), UNCHANGED <<copies, fresh, at, runVars>>,
         posted' = posted, SourceOK', strays' \in SUBSET turns'
  PROVE  SourceOK' /\ RecordOK' /\ RunOK' /\ Slots'
  <1>1. /\ turns' = turns \cup {t} /\ turns' \in SUBSET Turn
        /\ recent' \in SUBSET turns' /\ IsFiniteSet(turns')
    BY LandKeeps DEF IInv
  <1>2. RecordOK'
    BY <1>1 DEF IInv, RecordOK
  <1>3. RunOK'
    BY <1>1 DEF IInv, RunOK, runVars
  <1>4. Slots'
    BY <1>1 DEF IInv, Slots, runVars
  <1> QED
    BY <1>2, <1>3, <1>4

LEMMA HarnessStep ==
  ASSUME IInv, NEW e \in Engine, HarnessPosts(e)
  PROVE  IInv'
  <1> DEFINE w == cur[e]
             t == NextSelfPost(w)
  <1>1. /\ at[e] = "run" /\ SelfPost(w)
        /\ UNCHANGED <<sourceVars, linkVars, at, stopping, queueVars, runVars, orphanVars>>
    BY DEF HarnessPosts
  <1>2. w \in Wake /\ w \in Busy
    BY <1>1 DEF IInv, SourceOK, RunOK, Flight, Busy
  <1>3. SourceOK' /\ posted' = posted /\ strays' = strays
    BY <1>1 DEF sourceVars, linkVars, queueVars, tickVars, orphanVars, IInv, SourceOK
  <1>4. t \in Turn /\ t[1] = w /\ Land(t) /\ UNCHANGED <<copies, fresh>>
    BY <1>1, <1>2, SelfPostIsATurn DEF IInv
  <1> HIDE DEF w, t
  <1>5. recent' \subseteq recent \cup {t} /\ turns' = turns \cup {t}
    BY <1>4, LandKeeps DEF IInv
  <1>6. SourceOK' /\ RecordOK' /\ RunOK' /\ Slots'
    BY <1>1, <1>3, <1>4, <1>5, ForeignTurn DEF IInv, RecordOK
  <1>7. Floor'
    <2>1. Busy' = Busy
      BY <1>1 DEF Busy, runVars
    <2>2. Speakers' \subseteq Speakers \cup {w}
      BY <1>3, <1>4, <1>5 DEF Speakers
    <2> QED
      BY <1>2, <2>1, <2>2, FewerSpeak
  <1> QED
    BY <1>6, <1>7 DEF IInv

LEMMA OrphanStep ==
  ASSUME IInv, NEW w \in Wake, OrphanPosts(w)
  PROVE  IInv'
  <1> DEFINE t == NextSelfPost(w)
  <1>1. /\ SelfPost(w) /\ strays' = strays \cup {t}
        /\ UNCHANGED <<sourceVars, linkVars, at, stopping, queueVars, runVars, orphans>>
    BY DEF OrphanPosts
  <1>2. SourceOK' /\ posted' = posted
    BY <1>1 DEF sourceVars, linkVars, queueVars, tickVars, IInv, SourceOK
  <1>3. t \in Turn /\ Land(t) /\ UNCHANGED <<copies, fresh>>
    BY <1>1, SelfPostIsATurn DEF IInv
  <1> HIDE DEF t
  <1>4. recent' \subseteq recent \cup {t} /\ turns' = turns \cup {t}
    BY <1>3, LandKeeps DEF IInv
  <1>5. SourceOK' /\ RecordOK' /\ RunOK' /\ Slots'
    BY <1>1, <1>2, <1>3, <1>4, ForeignTurn DEF IInv, RecordOK
  <1>6. Floor'
    <2>1. Busy' = Busy
      BY <1>1 DEF Busy, runVars
    <2>2. Speakers' \subseteq Speakers
      BY <1>1, <1>4 DEF Speakers
    <2> QED
      BY <2>1, <2>2, FewerSpeak
  <1> QED
    BY <1>5, <1>6 DEF IInv

\* Turns and outcome ids grow old.
LEMMA PassingStep ==
  ASSUME IInv, (\E t \in recent : WindowSlides(t)) \/ (\E w \in Wake : DuplicateWindowPasses(w))
  PROVE  IInv'
  <1>1. /\ UNCHANGED <<turns, copies, posted, strays, at, runVars>>
        /\ recent' \subseteq recent /\ fresh' \subseteq fresh
        /\ \A e \in Engine : at[e] = "post" /\ cur[e] \in fresh => cur[e] \in fresh'
    BY DEF WindowSlides, DuplicateWindowPasses, sourceVars, orphanVars
  <1>2. SourceOK'
    BY DEF WindowSlides, DuplicateWindowPasses, sourceVars, linkVars, queueVars, tickVars,
           orphanVars, IInv, SourceOK
  <1>3. RecordOK' /\ RunOK'
    BY <1>1 DEF IInv, RecordOK, RunOK, runVars
  <1>4. Slots'
    BY <1>1 DEF IInv, Slots, runVars
  <1>5. Floor'
    <2>1. Busy' = Busy /\ Speakers' \subseteq Speakers
      BY <1>1 DEF Busy, Speakers, runVars
    <2> QED
      BY <2>1, FewerSpeak
  <1> QED
    BY <1>2, <1>3, <1>4, <1>5 DEF IInv

\* The outcome lands, once: its slot was empty, or the stream absorbs it.
LEMMA PostStep ==
  ASSUME IInv, NEW e \in Engine, Post(e) \/ PostError(e)
  PROVE  IInv'
  <1> DEFINE w == cur[e]
  <1>1. /\ at[e] = "post" /\ Finish(e, "idle")
        /\ PostUnderOutcomeId(w) \/ UNCHANGED recordVars
        /\ UNCHANGED <<sourceVars, linkVars, stopping, queueVars, orphanVars>>
    BY DEF Post, PostError
  <1>2. SourceOK' /\ posted' = posted /\ strays' = strays
    BY <1>1 DEF sourceVars, linkVars, queueVars, tickVars, orphanVars, IInv, SourceOK
  <1>3. CASE UNCHANGED recordVars
    BY <1>1, <1>2, <1>3, EndStep
  <1>4. CASE PostUnderOutcomeId(w) /\ w \notin fresh
    <2>1. w \in Wake /\ w \in Busy /\ copies[w] = 0
      BY <1>1, <1>4 DEF IInv, SourceOK, RunOK, Slots, Flight, Busy
    <2>2. /\ Land(Outcome(w)) /\ fresh' = fresh \cup {w}
          /\ copies' = [copies EXCEPT ![w] = IF @ = 2 THEN 2 ELSE @ + 1]
      BY <1>4 DEF PostUnderOutcomeId
    <2>3. Outcome(w) \in Turn /\ Outcome(w)[1] = w
      BY <2>1, BoundsAreNumbers DEF Outcome, Turn
    <2> HIDE DEF w
    <2>4. /\ turns' = turns \cup {Outcome(w)} /\ turns' \in SUBSET Turn
          /\ recent' \in SUBSET turns' /\ recent' \subseteq recent \cup {Outcome(w)}
          /\ IsFiniteSet(turns')
      BY <2>2, <2>3, LandKeeps DEF IInv
    <2>5. /\ copies' \in [Wake -> 0..2] /\ copies'[w] = 1
          /\ \A v \in Wake : v # w => copies'[v] = copies[v]
      BY <2>1, <2>2 DEF IInv, RecordOK
    <2>6. RecordOK'
      BY <1>2, <2>1, <2>2, <2>4, <2>5 DEF IInv, RecordOK
    <2>7. /\ at' \in [Engine -> Places] /\ cur' \in [Engine -> Wake \cup {"none"}]
          /\ before' \in [Engine -> SUBSET turns'] /\ attempt' \in [Engine -> 0..Retries]
          /\ at'[e] = "idle"
          /\ \A f \in Engine : f # e => /\ at'[f] = at[f] /\ cur'[f] = cur[f]
                                        /\ before'[f] = before[f] /\ attempt'[f] = attempt[f]
      BY <1>1, <2>4, BoundsAreNumbers DEF Finish, Goto, Places, IInv, RunOK
    <2>8. RunOK'
      BY <1>2, <2>7 DEF IInv, RunOK, Flight
    <2>9. Slots'
      <3>1. \A v \in Wake : copies'[v] <= 1 /\ (copies'[v] = 1 => Outcome(v) \in turns')
        BY <2>4, <2>5 DEF IInv, Slots
      <3>2. \A f \in Engine : at'[f] \in {"run", "retry"} => Outcome(cur'[f]) \notin before'[f]
        BY <2>7 DEF IInv, Slots
      <3>3. \A f \in Engine : at'[f] = "post" => copies'[cur'[f]] = 0 \/ cur'[f] \in fresh'
        <4> SUFFICES ASSUME NEW f \in Engine, at'[f] = "post"
                     PROVE  copies'[cur'[f]] = 0 \/ cur'[f] \in fresh'
          OBVIOUS
        <4>1. f # e /\ at[f] = "post" /\ cur'[f] = cur[f]
          BY <2>7
        <4>2. cur[f] \in Wake /\ (copies[cur[f]] = 0 \/ cur[f] \in fresh)
          BY <4>1 DEF IInv, SourceOK, RunOK, Slots, Flight
        <4> QED
          BY <2>2, <2>5, <4>1, <4>2
      <3> QED
        BY <3>1, <3>2, <3>3 DEF Slots
    <2>10. Floor'
      <3>1. Busy' \subseteq Busy
        BY <2>7 DEF Busy, Flight
      <3>2. Speakers' \subseteq Speakers \cup {w}
        BY <1>2, <2>3, <2>4 DEF Speakers
      <3> QED
        BY <2>1, <3>1, <3>2, FewerSpeak
    <2> QED
      BY <1>2, <2>6, <2>8, <2>9, <2>10 DEF IInv
  <1> QED
    BY <1>1, <1>3, <1>4 DEF PostUnderOutcomeId

-----------------------------------------------------------------------------
(* Every reachable state.                                                  *)

LEMMA StepIInv == IInv /\ InboxOK /\ [Next]_vars => IInv'
  <1> SUFFICES ASSUME IInv, InboxOK, [Next]_vars PROVE IInv'
    OBVIOUS
  <1>1. CASE Environment
    BY <1>1, TriggerStep, WorldStep, PassingStep, OrphanStep DEF Environment
  <1>2. ASSUME NEW e \in Engine, Sources(e) \/ CatchUp(e)
        PROVE  IInv'
    BY <1>2, QueueStep, WorldStep, CatchUpStep DEF Sources, CatchUp
  <1>3. ASSUME NEW e \in Engine, HandleWake(e)
        PROVE  IInv'
    BY <1>3, AdmitStep, WorldStep, HarnessStep, DropStep, ConcludeStep, RetryStep, PostStep
       DEF HandleWake
  <1>4. ASSUME NEW e \in Engine, Process(e)
        PROVE  IInv'
    BY <1>4, StartStep, WorldStep, ProcessEndStep DEF Process
  <1>5. CASE UNCHANGED vars
    <2>1. SourceOK' /\ RecordOK' /\ RunOK' /\ Slots'
      BY <1>5 DEF vars, IInv, SourceOK, RecordOK, RunOK, Slots
    <2>2. Speakers' = Speakers /\ Busy' = Busy
      BY <1>5 DEF vars, Speakers, Busy
    <2>3. Floor'
      BY <2>2, FewerSpeak
    <2> QED
      BY <2>1, <2>3 DEF IInv
  <1> QED
    BY <1>1, <1>2, <1>3, <1>4, <1>5 DEF Next

LEMMA IInvHolds == Spec => []IInv
  BY InitIInv, StepIInv, InboxHolds, PTL DEF Spec

\* Every variable keeps its type: the queue stays within its capacity, and what
\* an engine holds happened.
THEOREM WakeEngineTypeOK == Spec => []TypeOK
  BY IInvType, IInvHolds, InboxHolds, PTL

\* One outcome slot per wake (correlate.go, PostTurnIdempotent), for any number
\* of engines of one persona and however old the first outcome is.
THEOREM OneOutcomePerWake == Spec => []OneOutcome
  <1>1. IInv => OneOutcome
    BY DEF IInv, Slots, OneOutcome
  <1> QED
    BY <1>1, IInvHolds, PTL

\* The window budget (correlate.go, BudgetDecision) bounds the wakes a persona
\* speaks for, with one more for each further engine.
THEOREM WindowFloorHolds == Spec => []WindowFloor
  <1>1. IInv => WindowFloor
    <2> SUFFICES ASSUME IInv, WindowMax > 0
                 PROVE  Cardinality(Speakers) <= WindowMax + Cardinality(Engine) - 1
      BY DEF WindowFloor, Speakers
    <2>1. IsFiniteSet(Speakers) /\ IsFiniteSet(Busy) /\ Cardinality(Speakers) \in Nat
      BY FiniteSpeakers, FiniteBusy DEF IInv, RecordOK
    <2>2. IsFiniteSet(Speakers \cup Busy)
      BY <2>1, FS_Union
    <2>3. /\ Cardinality(Speakers) <= Cardinality(Speakers \cup Busy)
          /\ Cardinality(Speakers \cup Busy) \in Nat
      BY <2>2, FS_Subset, FS_CardinalityType
    <2> QED
      BY <2>1, <2>3, EngineCount, BoundsAreNumbers DEF IInv, Floor
  <1> QED
    BY <1>1, IInvHolds, PTL

-----------------------------------------------------------------------------
(* One engine of the persona.                                              *)

OneEngine == \A e, f \in Engine : e = f

\* Nobody else answers what is in hand, so that what a snapshot lacks is of the
\* run or of one that outlived its engine.
Alone ==
  \A e \in Engine :
    /\ at[e] \in Flight => Outcome(cur[e]) \notin turns
    /\ at[e] \in {"run", "retry"} =>
         \A t \in turns \ before[e] : t[1] = cur[e] \/ t \in strays

\* A step that lands no turn: a wake stays in hand or is taken on a fresh view.
LEMMA NoTurnStep ==
  ASSUME IInv, Alone, UNCHANGED <<turns, strays>>,
         \A e \in Engine : at'[e] \in Flight =>
           \/ /\ at[e] \in Flight /\ cur'[e] = cur[e]
              /\ at'[e] \in {"run", "retry"} =>
                   \/ at[e] \in {"run", "retry"} /\ before'[e] = before[e]
                   \/ before'[e] = turns
           \/ Outcome(cur'[e]) \notin turns /\ before'[e] = turns
  PROVE  Alone'
  BY DEF Alone, Flight

LEMMA HandleAlone ==
  ASSUME IInv, Alone, NEW e \in Engine,
         \/ Admit(e) \/ Correlated(e) \/ ParkUnconcluded(e) \/ Retry(e)
         \/ \E ok \in BOOLEAN : Conclude(e, ok)
         \/ Exit(e) \/ Crash(e)
  PROVE  Alone'
  <1>1. UNCHANGED <<turns, strays>>
    BY DEF Admit, Correlated, ParkUnconcluded, Retry, Conclude, Exit, Crash, ProcessEnds,
           recordVars, orphanVars
  <1>2. \A f \in Engine : f # e =>
          at'[f] = at[f] /\ cur'[f] = cur[f] /\ before'[f] = before[f]
    BY DEF Admit, Correlated, ParkUnconcluded, Retry, Conclude, Exit, Crash, ProcessEnds,
           Finish, Goto, runVars, IInv, RunOK
  <1>3. CASE Admit(e)
    <2>1. CASE Discarded(Head(queue[e]))
      BY <1>1, <1>3, <2>1, NoTurnStep DEF Admit, runVars, Flight
    <2>2. CASE ~Discarded(Head(queue[e]))
      <3>1. /\ cur'[e] = Head(queue[e]) /\ before'[e] = turns
            /\ Outcome(Head(queue[e])) \notin turns
        BY <1>3, <2>2 DEF Admit, Discarded, AlreadyAnswered, IInv, RunOK
      <3> QED
        BY <1>1, <1>2, <3>1, NoTurnStep DEF Flight
    <2> QED
      BY <2>1, <2>2
  <1>4. CASE \E ok \in BOOLEAN : Conclude(e, ok)
    <2>1. at[e] = "run"
      BY <1>4 DEF Conclude
    <2>2. \/ at'[e] = "post" /\ cur'[e] = cur[e]
          \/ at'[e] = "retry" /\ cur'[e] = cur[e] /\ before'[e] = turns
          \/ at'[e] = "idle"
      BY <1>4 DEF Conclude, Finish, Goto, runVars, IInv, RunOK
    <2> QED
      BY <1>1, <1>2, <2>1, <2>2, NoTurnStep DEF Flight
  <1>5. CASE Retry(e)
    <2>1. at[e] = "retry"
      BY <1>5 DEF Retry
    <2>2. \/ at'[e] = "run" /\ cur'[e] = cur[e] /\ before'[e] = before[e]
          \/ at'[e] = "idle"
      BY <1>5 DEF Retry, Finish, Goto, IInv, RunOK
    <2> QED
      BY <1>1, <1>2, <2>1, <2>2, NoTurnStep DEF Flight
  <1>6. CASE Correlated(e) \/ ParkUnconcluded(e) \/ Exit(e) \/ Crash(e)
    <2>1. at'[e] \in {"idle", "down"}
      BY <1>6 DEF Correlated, ParkUnconcluded, Exit, Crash, ProcessEnds, Finish, Goto,
                  IInv, RunOK
    <2> QED
      BY <1>1, <1>2, <2>1, NoTurnStep DEF Flight
  <1> QED
    BY <1>3, <1>4, <1>5, <1>6

\* Where the turns come from.
LEMMA TurnStep ==
  ASSUME IInv, [Next]_vars
  PROVE  \/ \E e \in Engine : HarnessPosts(e)
         \/ \E w \in Wake : OrphanPosts(w)
         \/ \E e \in Engine : Post(e) \/ PostError(e)
         \/ \E e \in Engine :
              \/ Admit(e) \/ Correlated(e) \/ ParkUnconcluded(e) \/ Retry(e)
              \/ \E ok \in BOOLEAN : Conclude(e, ok)
              \/ Exit(e) \/ Crash(e)
         \/ /\ UNCHANGED <<turns, strays, cur, before>>
            /\ \A e \in Engine : at'[e] \in Flight => at'[e] = at[e]
  <1>1. CASE \E e \in Engine :
               \/ FetchInbox(e) \/ FetchInboxError(e)
               \/ FetchTopics(e) \/ FetchTopicsError(e)
               \/ CatchUpEnds(e) \/ CatchUpCancelled(e) \/ CatchUpAgain(e)
               \/ Start(e)
    BY <1>1 DEF FetchInbox, FetchInboxError, FetchTopics, FetchTopicsError, CatchUpEnds,
                CatchUpCancelled, CatchUpAgain, Start, Goto, Flight, recordVars, orphanVars,
                runVars, IInv, RunOK
  <1>2. CASE \/ \E w \in Wake :
                  \/ Trigger(w) \/ TickExpires(w) \/ DuplicateWindowPasses(w) \/ OrphanEnds(w)
             \/ \E t \in recent : WindowSlides(t)
    BY <1>2 DEF Trigger, TickExpires, DuplicateWindowPasses, OrphanEnds, WindowSlides,
                recordVars, orphanVars, runVars
  <1>3. CASE \E e \in Engine :
               \/ \E w \in Wake : Deliver(e, w) \/ TickArrives(e, w) \/ CatchUpEnqueues(e, w)
               \/ TicksStop(e) \/ ParkUnread(e) \/ Cancel(e) \/ Disconnect(e) \/ Reconnect(e)
    BY <1>3 DEF Deliver, TickArrives, CatchUpEnqueues, TicksStop, ParkUnread, Cancel,
                Disconnect, Reconnect, recordVars, orphanVars, runVars
  <1>4. CASE UNCHANGED vars
    BY <1>4 DEF vars
  <1> QED
    BY <1>1, <1>2, <1>3, <1>4 DEF Next, Environment, Sources, CatchUp, HandleWake, Process

LEMMA SelfPostAlone ==
  ASSUME IInv, Alone, NEW w \in Wake, SelfPost(w), UNCHANGED <<at, runVars>>,
         strays \subseteq strays',
         NextSelfPost(w) \in strays' \/ (\A e \in Engine : at[e] \in Flight => cur[e] = w)
  PROVE  Alone'
  <1> DEFINE t == NextSelfPost(w)
  <1>1. t \in Turn /\ t[1] = w /\ Land(t)
    BY SelfPostIsATurn DEF IInv
  <1>2. \A v \in Wake : t # Outcome(v)
    <2>1. SelfPosts(w) \in SUBSET turns
      BY DEF SelfPosts
    <2>2. Cardinality(SelfPosts(w)) \in Nat
      BY <2>1, FS_Subset, FS_CardinalityType DEF IInv, RecordOK
    <2> QED
      BY <2>2 DEF NextSelfPost, Outcome
  <1> HIDE DEF t
  <1>3. turns' = turns \cup {t}
    BY <1>1 DEF Land
  <1>4. \A e \in Engine : at[e] \in Flight => cur[e] \in Wake
    BY DEF IInv, SourceOK, RunOK
  <1>5. t \in strays' \/ (\A e \in Engine : at[e] \in Flight => cur[e] = w)
    BY DEF t
  <1>6. UNCHANGED <<at, cur, before>>
    BY DEF runVars
  <1> SUFFICES ASSUME NEW e \in Engine
               PROVE  /\ at[e] \in Flight => Outcome(cur[e]) \notin turns'
                      /\ at[e] \in {"run", "retry"} =>
                           \A u \in turns' \ before[e] : u[1] = cur[e] \/ u \in strays'
    BY <1>6 DEF Alone
  <1>7. at[e] \in Flight => Outcome(cur[e]) \notin turns'
    BY <1>2, <1>3, <1>4 DEF Alone
  <1>8. ASSUME at[e] \in {"run", "retry"}, NEW u \in turns' \ before[e]
        PROVE  u[1] = cur[e] \/ u \in strays'
    <2>1. CASE u = t
      BY <1>1, <1>5, <1>8, <2>1 DEF Flight
    <2>2. CASE u \in turns
      BY <1>8, <2>2 DEF Alone
    <2> QED
      BY <1>3, <1>8, <2>1, <2>2
  <1> QED
    BY <1>7, <1>8

LEMMA AloneStep ==
  ASSUME OneEngine, IInv, Alone, [Next]_vars
  PROVE  Alone'
  <1>1. CASE \E e \in Engine : HarnessPosts(e)
    <2> PICK e \in Engine : HarnessPosts(e)
      BY <1>1
    <2>1. cur[e] \in Wake /\ UNCHANGED strays
      BY DEF HarnessPosts, orphanVars, IInv, SourceOK, RunOK, Flight
    <2> QED
      BY <2>1, SelfPostAlone DEF HarnessPosts, OneEngine
  <1>2. CASE \E w \in Wake : OrphanPosts(w)
    BY <1>2, SelfPostAlone DEF OrphanPosts
  <1>3. CASE \E e \in Engine : Post(e) \/ PostError(e)
    <2>1. \A f \in Engine : at'[f] = "idle"
      BY <1>3 DEF Post, PostError, Finish, Goto, OneEngine, IInv, RunOK
    <2> QED
      BY <2>1 DEF Alone, Flight
  <1>4. CASE \E e \in Engine :
               \/ Admit(e) \/ Correlated(e) \/ ParkUnconcluded(e) \/ Retry(e)
               \/ \E ok \in BOOLEAN : Conclude(e, ok)
               \/ Exit(e) \/ Crash(e)
    BY <1>4, HandleAlone
  <1>5. CASE /\ UNCHANGED <<turns, strays, cur, before>>
             /\ \A e \in Engine : at'[e] \in Flight => at'[e] = at[e]
    BY <1>5, NoTurnStep
  <1> QED
    BY <1>1, <1>2, <1>3, <1>4, <1>5, TurnStep

LEMMA AloneHolds ==
  ASSUME OneEngine
  PROVE  Spec => [](IInv /\ Alone)
  <1>1. Init => Alone
    BY DEF Init, Alone, Flight
  <1>2. IInv /\ Alone /\ [Next]_vars => Alone'
    BY AloneStep
  <1> QED
    BY <1>1, <1>2, IInvHolds, PTL DEF Spec

\* With one engine, PostedDuringRun (correlate.go) takes no earlier wake's turn
\* for the answer of the wake in hand.
THEOREM CorrelationIsExact ==
  ASSUME OneEngine
  PROVE  Spec => CorrelatedWithItsOwnRun
  <1>1. IInv /\ Alone /\ [Next]_vars =>
          [\A e \in Engine :
             Correlated(e) => \E t \in turns \ before[e] : t[1] = cur[e] \/ t \in strays]_vars
    BY DEF Alone, Correlated, PostedDuringRun
  <1> QED
    BY <1>1, AloneHolds, PTL DEF Spec, CorrelatedWithItsOwnRun

\* With one engine, no run speaks for a wake that has its outcome (handleWake's
\* existence check), whatever was parked, replayed or restarted.
THEOREM OutcomesAreFinal ==
  ASSUME OneEngine
  PROVE  Spec => OutcomeIsFinal
  <1>1. IInv /\ Alone /\ [Next]_vars =>
          [\A w \in Wake :
             Outcome(w) \in turns => SelfPosts(w)' \ strays' \subseteq SelfPosts(w)]_vars
    <2> SUFFICES ASSUME IInv, Alone, [Next]_vars, NEW w \in Wake, Outcome(w) \in turns,
                        NEW t \in turns', t[1] = w, t[2] > 0, t \notin strays'
                 PROVE  t \in turns
      BY DEF SelfPosts
    <2>1. CASE \E e \in Engine : HarnessPosts(e)
      <3> PICK e \in Engine : HarnessPosts(e)
        BY <2>1
      <3>1. cur[e] # w
        BY DEF HarnessPosts, Alone, Flight
      <3>2. turns' = turns \cup {NextSelfPost(cur[e])} /\ NextSelfPost(cur[e])[1] = cur[e]
        BY DEF HarnessPosts, SelfPost, Land, NextSelfPost
      <3> QED
        BY <3>1, <3>2
    <2>2. CASE \E v \in Wake : OrphanPosts(v)
      BY <2>2 DEF OrphanPosts, SelfPost, Land
    <2>3. CASE \E e \in Engine : Post(e) \/ PostError(e)
      <3>1. PICK e \in Engine : turns' = turns \/ turns' = turns \cup {Outcome(cur[e])}
        BY <2>3 DEF Post, PostError, PostUnderOutcomeId, Land, recordVars
      <3>2. t # Outcome(cur[e])
        BY DEF Outcome
      <3> QED
        BY <3>1, <3>2
    <2>4. CASE \E e \in Engine :
                 \/ Admit(e) \/ Correlated(e) \/ ParkUnconcluded(e) \/ Retry(e)
                 \/ \E ok \in BOOLEAN : Conclude(e, ok)
                 \/ Exit(e) \/ Crash(e)
      BY <2>4 DEF Admit, Correlated, ParkUnconcluded, Retry, Conclude, Exit, Crash,
                  ProcessEnds, recordVars
    <2>5. CASE UNCHANGED turns
      BY <2>5
    <2> QED
      BY <2>1, <2>2, <2>3, <2>4, <2>5, TurnStep
  <1> QED
    BY <1>1, AloneHolds, PTL DEF Spec, OutcomeIsFinal

=============================================================================
