----------------------------- MODULE WakeEngine -----------------------------
(***************************************************************************)
(* The wake engine of wrap/: it turns the triggers of one topic into       *)
(* harness runs, and each run into one outcome turn of the persona.        *)
(*                                                                         *)
(* The loop goroutine (Wrapper.Run) is both the producer of the catch-up   *)
(* and the only consumer of the bounded queue; the subscription callbacks  *)
(* and the tick goroutine produce into the same queue.  handleWake is cut  *)
(* where the record may change under it: the read before the run, the run, *)
(* the read after it, the post.  Engine has more than one member when two  *)
(* nodes serve one persona, which the placement plane does not exclude.    *)
(*                                                                         *)
(* A turn of the persona is <<w, k>>: k = 0 is the turn under w's one      *)
(* outcome id (WakeOpID), k > 0 a turn the harness itself posted, under an *)
(* id of its own, in a run for w.                                          *)
(***************************************************************************)
EXTENDS Naturals, Sequences, FiniteSets

CONSTANTS
  Engine,           \* engine processes of the persona
  Wake,             \* trigger identities
  KindOf,           \* Wake -> the source that produces it
  Own,              \* triggers the persona authored itself
  TooDeep,          \* wakes beyond the depth budget
  WindowMax,        \* the window budget, 0 = unbudgeted
  Retries,          \* harness attempts per wake
  InboxLimit,       \* how many mentions a catch-up reads (50 unless configured)
  Cap,              \* the queue's capacity (64 in the code)
  MaxSelf,          \* bound: turns the harness posts itself, per wake
  HarnessOutlives   \* wakes whose run may survive the crash of its engine

Kind == {"mention", "topic", "schedule", "subject"}

\* Ticks and subject messages have no author and no ancestors on the record.
ASSUME KindsAreKinds ==
  /\ KindOf \in [Wake -> Kind]
  /\ Own \subseteq Wake
  /\ TooDeep \subseteq Wake
  /\ \A w \in Own \cup TooDeep : KindOf[w] \in {"mention", "topic"}

ASSUME EnginesAreFinite == IsFiniteSet(Engine)

ASSUME BoundsAreNumbers ==
  /\ WindowMax \in Nat
  /\ Retries \in Nat \ {0}
  /\ InboxLimit \in Nat \ {0}
  /\ Cap \in Nat \ {0}
  /\ MaxSelf \in Nat

ASSUME OutlivesOrNot == HarnessOutlives \subseteq Wake

VARIABLES
  posted,    \* triggers that happened
  inbox,     \* the mentions among them, in the order of the notify stream
  gone,      \* ticks past their TTL
  turns,     \* the persona's turns in the topic
  recent,    \* those inside the budget window
  copies,    \* messages on the stream under each wake's outcome id
  fresh,     \* outcome ids inside the stream's duplicate window
  live,      \* live deliveries on their way to each engine
  link,      \* is the engine's connection up?
  signal,    \* the buffered reconnect signal
  at,        \* where the loop goroutine is
  stopping,  \* its ctx has ended
  queue,     \* the wakes channel
  todo,      \* what catch-up has still to enqueue
  ticked,    \* ticks the ordered consumer has passed
  ticking,   \* does its goroutine run?
  cur,       \* the wake in handleWake
  before,    \* its snapshot of the persona's turns
  attempt,   \* its attempt
  orphans,   \* wakes of runs whose engine crashed
  strays     \* history: turns such runs posted

recordVars == <<turns, recent, copies, fresh>>
sourceVars == <<posted, inbox, gone>>
linkVars   == <<live, link, signal>>
tickVars   == <<ticked, ticking>>
queueVars  == <<queue, todo, tickVars>>
runVars    == <<cur, before, attempt>>
orphanVars == <<orphans, strays>>
vars == <<posted, inbox, gone, turns, recent, copies, fresh, live, link, signal, at,
          stopping, queue, todo, ticked, ticking, cur, before, attempt,
          orphans, strays>>

Turn == Wake \X (0..MaxSelf)

Outcome(w) == <<w, 0>>

Places == {"down", "inbox", "mentions", "topics", "idle",
           "run", "retry", "post"}

(***************************************************************************)
(* The type of every variable; the queue is a buffered channel.            *)
(***************************************************************************)
TypeOK ==
  /\ posted \in SUBSET Wake /\ gone \in SUBSET posted /\ inbox \in Seq(posted)
  /\ turns \in SUBSET Turn /\ recent \in SUBSET turns
  /\ copies \in [Wake -> 0..2] /\ fresh \in SUBSET Wake
  /\ live \in [Engine -> SUBSET posted]
  /\ link \in [Engine -> BOOLEAN] /\ signal \in [Engine -> BOOLEAN]
  /\ at \in [Engine -> Places] /\ stopping \in [Engine -> BOOLEAN]
  /\ queue \in [Engine -> Seq(posted)]
  /\ \A e \in Engine : Len(queue[e]) <= Cap
  /\ todo \in [Engine -> SUBSET posted]
  /\ ticked \in [Engine -> SUBSET posted] /\ ticking \in [Engine -> BOOLEAN]
  /\ cur \in [Engine -> Wake \cup {"none"}]
  /\ before \in [Engine -> SUBSET turns]
  /\ attempt \in [Engine -> 0..Retries]
  /\ orphans \in SUBSET posted
  /\ strays \in SUBSET turns

Init ==
  /\ posted = {} /\ inbox = <<>> /\ gone = {}
  /\ turns = {} /\ recent = {} /\ copies = [w \in Wake |-> 0] /\ fresh = {}
  /\ live = [e \in Engine |-> {}]
  /\ link = [e \in Engine |-> FALSE] /\ signal = [e \in Engine |-> FALSE]
  /\ at = [e \in Engine |-> "down"] /\ stopping = [e \in Engine |-> FALSE]
  /\ queue = [e \in Engine |-> <<>>]
  /\ todo = [e \in Engine |-> {}] /\ ticked = [e \in Engine |-> {}]
  /\ ticking = [e \in Engine |-> FALSE]
  /\ cur = [e \in Engine |-> "none"] /\ before = [e \in Engine |-> {}]
  /\ attempt = [e \in Engine |-> 0]
  /\ orphans = {} /\ strays = {}

-----------------------------------------------------------------------------
(* The record and the sources, outside the engine.                         *)

\* A trigger happens.  Subscriptions carry it to the engines that are up and
\* connected; ticks go to the stream alone.
Trigger(w) ==
  /\ w \notin posted
  /\ posted' = posted \cup {w}
  /\ inbox' = IF KindOf[w] = "mention" THEN Append(inbox, w) ELSE inbox
  /\ live' = [e \in Engine |->
                IF at[e] # "down" /\ link[e] /\ KindOf[w] # "schedule"
                THEN live[e] \cup {w} ELSE live[e]]
  /\ UNCHANGED <<gone, recordVars, link, signal, at, stopping, queueVars,
                 runVars, orphanVars>>

TickExpires(w) ==
  /\ w \in posted \ gone
  /\ KindOf[w] = "schedule"
  /\ gone' = gone \cup {w}
  /\ UNCHANGED <<posted, inbox, recordVars, linkVars, at, stopping, queueVars,
                 runVars, orphanVars>>

\* A turn leaves the budget window.
WindowSlides(t) ==
  /\ t \in recent
  /\ recent' = recent \ {t}
  /\ UNCHANGED <<sourceVars, turns, copies, fresh, linkVars, at, stopping,
                 queueVars, runVars, orphanVars>>

\* An outcome id leaves the stream's duplicate window: not between an engine's
\* last read and its post, a matter of one request against minutes.
DuplicateWindowPasses(w) ==
  /\ w \in fresh
  /\ \A e \in Engine : at[e] = "post" => cur[e] # w
  /\ fresh' = fresh \ {w}
  /\ UNCHANGED <<sourceVars, turns, recent, copies, linkVars, at, stopping,
                 queueVars, runVars, orphanVars>>

\* A turn lands.  The window budget's clock is the server's stamp on it.
Land(t) ==
  /\ turns' = turns \cup {t}
  /\ recent' = IF WindowMax > 0 THEN recent \cup {t} ELSE recent

\* PostTurnIdempotent: the stream absorbs an id it has seen in its window.
PostUnderOutcomeId(w) ==
  IF w \in fresh
  THEN UNCHANGED recordVars
  ELSE /\ Land(Outcome(w))
       /\ copies' = [copies EXCEPT ![w] = IF @ = 2 THEN 2 ELSE @ + 1]
       /\ fresh' = fresh \cup {w}

-----------------------------------------------------------------------------
(* The queue.                                                              *)

\* Mutation of Full: one wake beyond the capacity.
FullLate(e) == Len(queue[e]) > Cap

Full(e) == Len(queue[e]) >= Cap

Enqueue(e, w) == queue' = [queue EXCEPT ![e] = Append(@, w)]

\* The topic subscription drops the persona's own ops at the source.
Filtered(w) == KindOf[w] = "topic" /\ w \in Own

\* A subscription callback: tryEnqueue never waits.
Deliver(e, w) ==
  /\ at[e] # "down"
  /\ w \in live[e]
  /\ live' = [live EXCEPT ![e] = @ \ {w}]
  /\ IF Full(e) \/ Filtered(w) THEN UNCHANGED queue ELSE Enqueue(e, w)
  /\ UNCHANGED <<sourceVars, recordVars, link, signal, at, stopping, todo,
                 tickVars, runVars, orphanVars>>

\* The tick goroutine: an ordered consumer over what the stream retains, each
\* tick once per process, waiting for room.
TickArrives(e, w) ==
  /\ ticking[e]
  /\ KindOf[w] = "schedule"
  /\ w \in posted \ (gone \cup ticked[e])
  /\ ~Full(e)
  /\ Enqueue(e, w)
  /\ ticked' = [ticked EXCEPT ![e] = @ \cup {w}]
  /\ UNCHANGED <<sourceVars, recordVars, linkVars, at, stopping, todo,
                 ticking, runVars, orphanVars>>

\* The consumer's iterator fails: no tick until the next start.
TicksStop(e) ==
  /\ ticking[e]
  /\ ticking' = [ticking EXCEPT ![e] = FALSE]
  /\ UNCHANGED <<sourceVars, recordVars, linkVars, at, stopping, queue, todo,
                 ticked, runVars, orphanVars>>

-----------------------------------------------------------------------------
(* Catch-up, on the loop goroutine.                                        *)

Goto(e, place) == at' = [at EXCEPT ![e] = place]

\* The inbox window: the newest mentions, answered or not.
Inbox == {inbox[i] : i \in {j \in 1..Len(inbox) : j + InboxLimit > Len(inbox)}}

\* FetchInbox; a failure skips the source.
FetchInbox(e) ==
  /\ at[e] = "inbox"
  /\ Goto(e, "mentions")
  /\ todo' = [todo EXCEPT ![e] = Inbox]
  /\ UNCHANGED <<sourceVars, recordVars, linkVars, stopping, queue, tickVars,
                 runVars, orphanVars>>

FetchInboxError(e) ==
  /\ at[e] = "inbox"
  /\ Goto(e, "mentions")
  /\ UNCHANGED <<sourceVars, recordVars, linkVars, stopping, queueVars,
                 runVars, orphanVars>>

\* blockEnqueue, from the goroutine that empties the queue.
CatchUpEnqueues(e, w) ==
  /\ at[e] \in {"mentions", "topics"}
  /\ w \in todo[e]
  /\ ~Full(e)
  /\ Enqueue(e, w)
  /\ todo' = [todo EXCEPT ![e] = @ \ {w}]
  /\ UNCHANGED <<sourceVars, recordVars, linkVars, at, stopping, tickVars,
                 runVars, orphanVars>>


\* The ops of others whose outcome does not exist: the whole history.
TopicBacklog ==
  {w \in posted \ Own : KindOf[w] = "topic" /\ Outcome(w) \notin turns}

\* catchUpTopicWake.
FetchTopics(e) ==
  /\ at[e] = "mentions"
  /\ todo[e] = {}
  /\ Goto(e, "topics")
  /\ todo' = [todo EXCEPT ![e] = TopicBacklog]
  /\ UNCHANGED <<sourceVars, recordVars, linkVars, stopping, queue, tickVars,
                 runVars, orphanVars>>

FetchTopicsError(e) ==
  /\ at[e] = "mentions"
  /\ todo[e] = {}
  /\ Goto(e, "topics")
  /\ UNCHANGED <<sourceVars, recordVars, linkVars, stopping, queueVars,
                 runVars, orphanVars>>

CatchUpEnds(e) ==
  /\ at[e] = "topics"
  /\ todo[e] = {}
  /\ Goto(e, "idle")
  /\ UNCHANGED <<sourceVars, recordVars, linkVars, stopping, queueVars,
                 runVars, orphanVars>>

\* ctx ended: blockEnqueue gives up and the catch-up returns.
CatchUpCancelled(e) ==
  /\ at[e] \in {"inbox", "mentions", "topics"}
  /\ stopping[e]
  /\ Goto(e, "idle")
  /\ todo' = [todo EXCEPT ![e] = {}]
  /\ UNCHANGED <<sourceVars, recordVars, linkVars, stopping, queue, tickVars,
                 runVars, orphanVars>>

\* The select took the reconnect signal.
CatchUpAgain(e) ==
  /\ at[e] = "idle"
  /\ signal[e]
  /\ signal' = [signal EXCEPT ![e] = FALSE]
  /\ Goto(e, "inbox")
  /\ UNCHANGED <<sourceVars, recordVars, live, link, stopping, queueVars,
                 runVars, orphanVars>>

-----------------------------------------------------------------------------
(* handleWake.                                                             *)

\* Mutation of AlreadyAnswered: no pre-check of the outcome's existence.
NeverAnswered(w) == FALSE

\* ContainsOp on the view read before the run.
AlreadyAnswered(w) == Outcome(w) \in turns

\* Mutation of Refused: one more than the bound is let through.
RefusedLate(w) ==
  \/ w \in TooDeep
  \/ WindowMax > 0 /\ Cardinality(recent) > WindowMax

\* BudgetDecision, on the same view: own turns of every kind count.
Refused(w) ==
  \/ w \in TooDeep
  \/ WindowMax > 0 /\ Cardinality(recent) >= WindowMax

\* What handleWake returns from before the run: self-skipped, already answered
\* or refused.
Discarded(w) == w \in Own \/ AlreadyAnswered(w) \/ Refused(w)

\* The select took a wake: self-skip, existence, budget, then the run.
Admit(e) ==
  /\ at[e] = "idle"
  /\ queue[e] # <<>>
  /\ ~stopping[e]
  /\ queue' = [queue EXCEPT ![e] = Tail(@)]
  /\ LET w == Head(queue[e]) IN
       IF Discarded(w)
       THEN UNCHANGED <<at, runVars>>
       ELSE /\ Goto(e, "run")
            /\ cur' = [cur EXCEPT ![e] = w]
            /\ before' = [before EXCEPT ![e] = turns]
            /\ attempt' = [attempt EXCEPT ![e] = 1]
  /\ UNCHANGED <<sourceVars, recordVars, linkVars, stopping, todo, tickVars,
                 orphanVars>>

\* The view or the instructions could not be read (always so once ctx ended):
\* the wake is parked, which means dropped from the queue.
ParkUnread(e) ==
  /\ at[e] = "idle"
  /\ queue[e] # <<>>
  /\ queue' = [queue EXCEPT ![e] = Tail(@)]
  /\ UNCHANGED <<sourceVars, recordVars, linkVars, at, stopping, todo, tickVars,
                 runVars, orphanVars>>

SelfPosts(w) == {t \in turns : t[1] = w /\ t[2] > 0}

NextSelfPost(w) == <<w, Cardinality(SelfPosts(w)) + 1>>

\* A harness posts a turn itself, under an id nobody derived.
SelfPost(w) ==
  /\ Cardinality(SelfPosts(w)) < MaxSelf
  /\ Land(NextSelfPost(w))
  /\ UNCHANGED <<copies, fresh>>

HarnessPosts(e) ==
  /\ at[e] = "run"
  /\ SelfPost(cur[e])
  /\ UNCHANGED <<sourceVars, linkVars, at, stopping, queueVars, runVars,
                 orphanVars>>

Finish(e, place) ==
  /\ Goto(e, place)
  /\ cur' = [cur EXCEPT ![e] = "none"]
  /\ before' = [before EXCEPT ![e] = {}]
  /\ attempt' = [attempt EXCEPT ![e] = 0]

\* Mutation of PostedDuringRun: any turn of the persona will do.
PostedEver(e) == turns # {}

\* PostedDuringRun: a turn of the persona that the snapshot did not have.
PostedDuringRun(e) == turns \ before[e] # {}

\* The run is over and the view read again: answered by a turn of the run.
Correlated(e) ==
  /\ at[e] = "run"
  /\ PostedDuringRun(e)
  /\ Finish(e, "idle")
  /\ UNCHANGED <<sourceVars, recordVars, linkVars, stopping, queueVars, orphanVars>>

\* Nothing was posted: reply, try again, or report the last failure.
Conclude(e, ok) ==
  /\ at[e] = "run"
  /\ ~PostedDuringRun(e)
  /\ \/ /\ ok \/ attempt[e] = Retries
        /\ Goto(e, "post")
        /\ UNCHANGED runVars
     \/ /\ ~ok /\ attempt[e] < Retries /\ ~stopping[e]
        /\ Goto(e, "retry")
        /\ before' = [before EXCEPT ![e] = turns]
        /\ UNCHANGED <<cur, attempt>>
     \/ /\ ~ok /\ attempt[e] < Retries /\ stopping[e]
        /\ Finish(e, "idle")
  /\ UNCHANGED <<sourceVars, recordVars, linkVars, stopping, queueVars, orphanVars>>

\* The view could not be read after the run: parked, whatever the run did.
ParkUnconcluded(e) ==
  /\ at[e] = "run"
  /\ Finish(e, "idle")
  /\ UNCHANGED <<sourceVars, recordVars, linkVars, stopping, queueVars, orphanVars>>

\* The retry delay is over, or ctx ended first.
Retry(e) ==
  /\ at[e] = "retry"
  /\ IF stopping[e]
     THEN Finish(e, "idle")
     ELSE /\ Goto(e, "run")
          /\ attempt' = [attempt EXCEPT ![e] = @ + 1]
          /\ UNCHANGED <<cur, before>>
  /\ UNCHANGED <<sourceVars, recordVars, linkVars, stopping, queueVars, orphanVars>>

\* The reply or the self-report, under the one outcome id.
Post(e) ==
  /\ at[e] = "post"
  /\ PostUnderOutcomeId(cur[e])
  /\ Finish(e, "idle")
  /\ UNCHANGED <<sourceVars, linkVars, stopping, queueVars, orphanVars>>

\* The post failed, landed or not: parked.
PostError(e) ==
  /\ at[e] = "post"
  /\ PostUnderOutcomeId(cur[e]) \/ UNCHANGED recordVars
  /\ Finish(e, "idle")
  /\ UNCHANGED <<sourceVars, linkVars, stopping, queueVars, orphanVars>>

-----------------------------------------------------------------------------
(* The process and its connection.                                         *)

\* Run: subscribe, register, then the first catch-up.
Start(e) ==
  /\ at[e] = "down"
  /\ Goto(e, "inbox")
  /\ link' = [link EXCEPT ![e] = TRUE]
  /\ ticking' = [ticking EXCEPT ![e] = \E w \in Wake : KindOf[w] = "schedule"]
  /\ UNCHANGED <<sourceVars, recordVars, live, signal, stopping, queue, todo,
                 ticked, runVars, orphanVars>>

Cancel(e) ==
  /\ at[e] # "down"
  /\ ~stopping[e]
  /\ stopping' = [stopping EXCEPT ![e] = TRUE]
  /\ UNCHANGED <<sourceVars, recordVars, linkVars, at, queueVars, runVars,
                 orphanVars>>

\* Everything in memory goes; the record is the position.
ProcessEnds(e) ==
  /\ Finish(e, "down")
  /\ stopping' = [stopping EXCEPT ![e] = FALSE]
  /\ live' = [live EXCEPT ![e] = {}]
  /\ link' = [link EXCEPT ![e] = FALSE]
  /\ signal' = [signal EXCEPT ![e] = FALSE]
  /\ queue' = [queue EXCEPT ![e] = <<>>]
  /\ todo' = [todo EXCEPT ![e] = {}]
  /\ ticked' = [ticked EXCEPT ![e] = {}]
  /\ ticking' = [ticking EXCEPT ![e] = FALSE]
  /\ UNCHANGED <<sourceVars, recordVars>>

Exit(e) ==
  /\ at[e] = "idle"
  /\ stopping[e]
  /\ ProcessEnds(e)
  /\ UNCHANGED orphanVars

Crash(e) ==
  /\ at[e] # "down"
  /\ ProcessEnds(e)
  /\ orphans' = IF at[e] = "run" /\ cur[e] \in HarnessOutlives
                THEN orphans \cup {cur[e]} ELSE orphans
  /\ UNCHANGED strays

\* A run that outlived its engine posts, until it ends.
OrphanPosts(w) ==
  /\ w \in orphans
  /\ SelfPost(w)
  /\ strays' = strays \cup {NextSelfPost(w)}
  /\ UNCHANGED <<sourceVars, linkVars, at, stopping, queueVars, runVars,
                 orphans>>

OrphanEnds(w) ==
  /\ w \in orphans
  /\ orphans' = orphans \ {w}
  /\ UNCHANGED <<sourceVars, recordVars, linkVars, at, stopping, queueVars,
                 runVars, strays>>

\* The connection drops; what was on its way is lost to the subscriptions.
Disconnect(e) ==
  /\ at[e] # "down"
  /\ link[e]
  /\ link' = [link EXCEPT ![e] = FALSE]
  /\ live' = [live EXCEPT ![e] = {}]
  /\ UNCHANGED <<sourceVars, recordVars, signal, at, stopping, queueVars,
                 runVars, orphanVars>>

\* The reconnect handler leaves its signal in a channel of one.
Reconnect(e) ==
  /\ at[e] # "down"
  /\ ~link[e]
  /\ link' = [link EXCEPT ![e] = TRUE]
  /\ signal' = [signal EXCEPT ![e] = TRUE]
  /\ UNCHANGED <<sourceVars, recordVars, live, at, stopping, queueVars,
                 runVars, orphanVars>>

-----------------------------------------------------------------------------
Environment ==
  \/ \E w \in Wake :
       \/ Trigger(w) \/ TickExpires(w) \/ DuplicateWindowPasses(w)
       \/ OrphanPosts(w) \/ OrphanEnds(w)
  \/ \E t \in recent : WindowSlides(t)

Sources(e) ==
  \/ \E w \in Wake : Deliver(e, w) \/ TickArrives(e, w)
  \/ TicksStop(e)

CatchUp(e) ==
  \/ FetchInbox(e) \/ FetchInboxError(e)
  \/ \E w \in Wake : CatchUpEnqueues(e, w)
  \/ FetchTopics(e) \/ FetchTopicsError(e)
  \/ CatchUpEnds(e) \/ CatchUpCancelled(e) \/ CatchUpAgain(e)

HandleWake(e) ==
  \/ Admit(e) \/ ParkUnread(e)
  \/ HarnessPosts(e)
  \/ Correlated(e) \/ \E ok \in BOOLEAN : Conclude(e, ok)
  \/ ParkUnconcluded(e)
  \/ Retry(e)
  \/ Post(e) \/ PostError(e)

Process(e) ==
  \/ Start(e) \/ Cancel(e) \/ Exit(e) \/ Crash(e)
  \/ Disconnect(e) \/ Reconnect(e)

Next ==
  \/ Environment
  \/ \E e \in Engine : Sources(e) \/ CatchUp(e) \/ HandleWake(e) \/ Process(e)

Spec == Init /\ [][Next]_vars

-----------------------------------------------------------------------------
(* Safety.                                                                 *)

\* One outcome slot per wake: the stream never holds two messages under one
\* outcome id, with several engines of one persona and at any distance beyond
\* the stream's duplicate window.
OneOutcome == \A w \in Wake : copies[w] <= 1

\* The window floor: the wakes a persona spoke for inside the window stay within
\* the bound, plus one for each further engine that serves it (two admissions
\* may read one view), whatever the runs of each post themselves (however
\* many turns); only what a run posts that outlived its engine escapes.
WindowFloor ==
  WindowMax > 0 =>
    Cardinality({t[1] : t \in recent \ strays}) <= WindowMax + Cardinality(Engine) - 1

\* With one engine, a wake is closed by correlation only with a turn of its own
\* run - an earlier wake's turn never masquerades as its answer - or with a
\* stray, which no snapshot can tell apart.  Only a harness that outlived its
\* engine posts strays here, not what one that ended has left behind.
CorrelatedWithItsOwnRun ==
  [][\A e \in Engine :
       Correlated(e) => \E t \in turns \ before[e] : t[1] = cur[e] \/ t \in strays]_vars

\* With one engine, a wake that has its outcome is over: no run speaks for it
\* again, whatever was parked, replayed or restarted.
OutcomeIsFinal ==
  [][\A w \in Wake :
       Outcome(w) \in turns => SelfPosts(w)' \ strays' \subseteq SelfPosts(w)]_vars

\* "No consumer state ... restarts answer nothing twice" (README.md:54): no run
\* begins for a wake that the persona has already spoken for.
RestartsAnswerNothingTwice ==
  [][\A e \in Engine, w \in Wake :
       cur[e] = "none" /\ cur'[e] = w => \A t \in turns : t[1] # w]_vars

-----------------------------------------------------------------------------
(* Liveness.                                                               *)

\* The goroutines run; a select whose cases stay ready takes each of them.
Fairness(e) ==
  /\ WF_vars(FetchInbox(e)) /\ WF_vars(FetchTopics(e)) /\ WF_vars(CatchUpEnds(e))
  /\ WF_vars(\E w \in Wake : CatchUpEnqueues(e, w))
  /\ SF_vars(CatchUpAgain(e)) /\ SF_vars(Admit(e))
  /\ \A w \in Wake : SF_vars(TickArrives(e, w))
  /\ WF_vars(Correlated(e) \/ \E ok \in BOOLEAN : Conclude(e, ok))
  /\ WF_vars(Retry(e)) /\ WF_vars(Post(e))

\* Time passes: the budget window slides.
TimePasses == \A t \in Turn : WF_vars(WindowSlides(t))

LiveSpec == Spec /\ (\A e \in Engine : Fairness(e)) /\ TimePasses

\* What can go wrong around the engine, where it makes a difference, and ticks
\* running out of their TTL.
Fault ==
  \/ \E w \in Wake : TickExpires(w) \/ OrphanPosts(w)
  \/ \E e \in Engine :
       \/ FetchInboxError(e) /\ Inbox # {}
       \/ FetchTopicsError(e) /\ TopicBacklog # {}
       \/ ParkUnread(e) /\ ~Discarded(Head(queue[e]))
       \/ ParkUnconcluded(e) /\ ~PostedDuringRun(e)
       \/ PostError(e) /\ cur[e] \notin fresh'

\* One engine that is eventually up for good, in a world whose faults
\* eventually stop and that replaces its connection again and again: nothing
\* else makes a running engine look again at what it parked, refused or
\* dropped, and nothing in the code does that by itself.
Steady(e) ==
  /\ <>[](at[e] # "down" /\ ~stopping[e])
  /\ <>[][~Fault]_vars
  /\ []<><<Reconnect(e)>>_vars

Answered(w) == \E t \in turns : t[1] = w

\* A mention that newer ones have pushed out of the window is let go.
FellAway(w) == KindOf[w] = "mention" /\ w \notin Inbox

\* "Reconnects re-run catch-up, so a network blip cannot lose a stream-backed
\* wake" (wrap.go:58-60): a mention inside the window and a topic op are
\* eventually answered.
NoBlipLosesAWake ==
  (\A e \in Engine : Steady(e)) =>
    \A w \in Wake \ (Own \cup TooDeep) :
      KindOf[w] \in {"mention", "topic"} =>
        (w \in posted ~> Answered(w) \/ FellAway(w))

\* The loop goroutine waits for room that only it can make.
Blocked(e) == at[e] \in {"mentions", "topics"} /\ todo[e] # {} /\ Full(e)


\* "For every kind ... exhaustion is a delay, never a loss" (wake.go:103): also
\* a tick that the budget refused is answered once the window has slid, while
\* its consumer runs.
RefusalIsADelay ==
  (\A e \in Engine : Steady(e) /\ <>[]ticking[e]) =>
    \A w \in Wake \ (Own \cup TooDeep) :
      KindOf[w] = "schedule" => (w \in posted ~> Answered(w) \/ w \in gone)

=============================================================================
