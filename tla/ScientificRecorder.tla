------------------------- MODULE ScientificRecorder -------------------------
(***************************************************************************)
(* The scientific recorder of src/sensorarray_app/services/                *)
(* recording_service.py: the parser thread hands it frames and lifecycle   *)
(* events, a writer thread started for each recording drains a bounded     *)
(* queue into the recording's directory, and API threads start and stop    *)
(* recordings.                                                             *)
(*                                                                         *)
(* A frame is its position in the receive order of its recording.  A queue *)
(* item stands for the interval lo .. hi of positions it accounts for: one *)
(* frame, the frames a RECORDING_GAP announces as lost, or none (an event, *)
(* the stop marker: lo = hi + 1, which keeps where in the timeline the     *)
(* item was accepted).                                                     *)
(***************************************************************************)
EXTENDS Integers, Sequences, FiniteSets

CONSTANTS Api,          \* the API threads that may start and stop recordings
          Capacity,     \* queueSize
          MaxSessions,  \* bound: recordings started
          MaxFrames,    \* bound: frames received in one recording
          MaxItems      \* bound: no further event is recorded beyond this many items

ASSUME CapacityAssumption == Capacity \in Nat /\ Capacity >= 2
ASSUME BoundsAssumption ==
  MaxSessions \in Nat /\ MaxFrames \in Nat /\ MaxItems \in Nat

Sessions == 1 .. MaxSessions
Positions == 0 .. MaxFrames + 1

Item == [kind: {"frame", "gap", "event", "stop"}, lo: Positions, hi: Positions]
Gap  == [n: 0 .. MaxFrames, first: Positions, last: Positions]
Writer  == [pc: {"none", "bind", "get", "hold", "dead"}, q: Sessions, hand: Seq(Item)]
Stopper == [pc: {"idle", "gap", "clear", "sentinel", "join"}, gap: Seq(Item), q: 0 .. MaxSessions]
NoGap  == [n |-> 0, first |-> 0, last |-> 0]

VARIABLES
  state,      \* "NOT_RECORDING", "RECORDING", "FINALIZING" or "ERROR"
  error,      \* self.error is not empty
  session,    \* the current recording (0 before the first start)
  received,   \* receivedFrames
  written,    \* writtenFrames
  dropped,    \* droppedFrames
  gap,        \* _pendingGapCount, _pendingGapFirstSeq, _pendingGapLastSeq
  queue,      \* the queue object of every recording
  unfinished, \* queue.Queue.unfinished_tasks of every recording's queue
  writer,     \* the writer thread of every recording
  log,        \* what is in the frame and event files of every recording
  clean,      \* the "clean" flag of every metadata.json
  final,      \* the receivedFrames of every finalized metadata.json
  stopper,    \* every API thread's progress inside stop()
  crossed,    \* history: an earlier writer or stop() was live when the recording was
              \* started, or two stop() calls of the recording overlapped
  eventLost   \* history: an event of the recording was refused

counters == <<received, written, dropped>>
disk == <<log, clean, final>>
history == <<crossed, eventLost>>
vars == <<state, error, session, counters, gap, queue, unfinished, writer, disk, stopper, history>>

Alive(s) == writer[s].pc \in {"bind", "get", "hold"}
Idle(a) == stopper[a].pc = "idle"
Full(q) == Len(q) = Capacity

Init ==
  /\ state = "NOT_RECORDING" /\ error = FALSE /\ session = 0
  /\ received = 0 /\ written = 0 /\ dropped = 0 /\ gap = NoGap
  /\ queue = [s \in Sessions |-> <<>>]
  /\ unfinished = [s \in Sessions |-> 0]
  /\ writer = [s \in Sessions |-> [pc |-> "none", q |-> s, hand |-> <<>>]]
  /\ log = [s \in Sessions |-> <<>>]
  /\ clean = [s \in Sessions |-> FALSE]
  /\ final = [s \in Sessions |-> 0]
  /\ stopper = [a \in Api |-> [pc |-> "idle", gap |-> <<>>, q |-> 0]]
  /\ crossed = [s \in Sessions |-> FALSE]
  /\ eventLost = [s \in Sessions |-> FALSE]

WriterAt(s, pc, q, hand) ==
  writer' = [writer EXCEPT ![s] = [pc |-> pc, q |-> q, hand |-> hand]]

EnqueueAt(s, items) ==
  /\ queue' = [queue EXCEPT ![s] = @ \o items]
  /\ unfinished' = [unfinished EXCEPT ![s] = @ + Len(items)]
Enqueue(items) == EnqueueAt(session, items)

\* Seeded faults for the checks: an off-by-one in the queue bound, a gap that is
\* dropped instead of flushed, a count of gaps instead of frames, an error
\* forgotten by stop(), a stop marker that waits for room for ever.
RoomOffByOne == Capacity - Len(queue[session]) + 1
FlushNothing == <<>>
NoteFirstDropOnly(pending, p) ==
  /\ dropped' = IF pending.n = 0 THEN dropped + 1 ELSE dropped
  /\ gap' = IF pending.n = 0 THEN [n |-> 1, first |-> p, last |-> p]
                             ELSE [n |-> pending.n + 1, first |-> pending.first, last |-> p]
FailedIfAlive(a) == Alive(stopper[a].q)
GapPutTimesOut(a) == stopper[a].pc = "gap" /\ Full(queue[stopper[a].q])

GapItem  == [kind |-> "gap", lo |-> gap.first, hi |-> gap.last]
\* An item that accounts for no frame, placed after position p of the timeline.
Marker(kind, p) == [kind |-> kind, lo |-> p + 1, hi |-> p]
FlushItems == IF gap.n > 0 THEN <<GapItem>> ELSE <<>>
Room == Capacity - Len(queue[session])

-----------------------------------------------------------------------------
(* start(): a new queue, reset counters, a new writer thread.  Only         *)
(* RECORDING and FINALIZING refuse it, so it may follow an ERROR whose      *)
(* writer still runs.                                                       *)
Start(a) ==
  /\ Idle(a)
  /\ state \notin {"RECORDING", "FINALIZING"}
  /\ session < MaxSessions
  /\ session' = session + 1
  /\ state' = "RECORDING" /\ error' = FALSE
  /\ received' = 0 /\ written' = 0 /\ dropped' = 0 /\ gap' = NoGap
  /\ WriterAt(session + 1, "bind", session + 1, <<>>)
  /\ crossed' = [crossed EXCEPT ![session + 1] =
                   \/ \E s \in 1 .. session : Alive(s)
                   \/ \E b \in Api : ~Idle(b)]
  /\ UNCHANGED <<queue, unfinished, disk, stopper, eventLost>>

(* record_frame(): the pending gap goes first; a frame that finds no room   *)
(* after it, or whose gap finds none, joins the pending gap.                *)
NoteDrop(pending, p) ==
  /\ dropped' = dropped + 1
  /\ gap' = IF pending.n = 0 THEN [n |-> 1, first |-> p, last |-> p]
                             ELSE [n |-> pending.n + 1, first |-> pending.first, last |-> p]

RecordFrame ==
  /\ state = "RECORDING"
  /\ received < MaxFrames
  /\ received' = received + 1
  /\ LET p == received + 1
         frame == [kind |-> "frame", lo |-> p, hi |-> p]
         need == Len(FlushItems)
     IN \/ /\ Room < need
           /\ NoteDrop(gap, p)
           /\ UNCHANGED <<queue, unfinished>>
        \/ /\ Room = need
           /\ NoteDrop(NoGap, p)
           /\ Enqueue(FlushItems)
        \/ /\ Room >= need + 1
           /\ Enqueue(Append(FlushItems, frame))
           /\ gap' = NoGap
           /\ UNCHANGED dropped
  /\ UNCHANGED <<state, error, session, written, writer, disk, stopper, history>>

(* record_event(): an event that finds no room is a recorder ERROR.         *)
RecordEvent ==
  /\ state = "RECORDING"
  /\ \A s \in Sessions : Len(log[s]) + Len(queue[s]) < MaxItems
  /\ LET need == Len(FlushItems)
     IN \/ /\ Room >= need + 1
           /\ Enqueue(Append(FlushItems, Marker("event", received)))
           /\ gap' = NoGap
           /\ UNCHANGED <<state, error, eventLost>>
        \/ /\ Room < need + 1
           /\ state' = "ERROR" /\ error' = TRUE
           /\ eventLost' = [eventLost EXCEPT ![session] = TRUE]
           /\ IF Room >= need THEN Enqueue(FlushItems) /\ gap' = NoGap
                              ELSE UNCHANGED <<queue, unfinished, gap>>
  /\ UNCHANGED <<session, counters, writer, disk, stopper, crossed>>

-----------------------------------------------------------------------------
(* stop() releases the lock between its steps; stopper[a].q is the queue a   *)
(* put() was called on, then the recording whose writer is joined.          *)
StopperAt(a, pc, items, q) ==
  stopper' = [stopper EXCEPT ![a] = [pc |-> pc, gap |-> items, q |-> q]]
Return(a) == StopperAt(a, "idle", <<>>, 0)

StopBegin(a) ==
  /\ Idle(a)
  /\ state \in {"RECORDING", "ERROR"}
  /\ state' = "FINALIZING"
  /\ StopperAt(a, IF gap.n > 0 THEN "gap" ELSE "sentinel", FlushItems, session)
  /\ crossed' = [crossed EXCEPT ![session] = @ \/ \E b \in Api : ~Idle(b)]
  /\ UNCHANGED <<error, session, counters, gap, queue, unfinished, writer, disk, eventLost>>

StopPutGap(a) ==
  /\ stopper[a].pc = "gap"
  /\ ~Full(queue[stopper[a].q])
  /\ EnqueueAt(stopper[a].q, stopper[a].gap)
  /\ StopperAt(a, "clear", <<>>, stopper[a].q)
  /\ UNCHANGED <<state, error, session, counters, gap, writer, disk, history>>

StopClearGap(a) ==
  /\ stopper[a].pc = "clear"
  /\ gap' = NoGap
  /\ StopperAt(a, "sentinel", <<>>, session)
  /\ UNCHANGED <<state, error, session, counters, queue, unfinished, writer, disk, history>>

StopPutSentinel(a) ==
  /\ stopper[a].pc = "sentinel"
  /\ ~Full(queue[stopper[a].q])
  /\ EnqueueAt(stopper[a].q, <<Marker("stop", received)>>)
  /\ StopperAt(a, "join", <<>>, session)
  /\ UNCHANGED <<state, error, session, counters, gap, writer, disk, history>>

\* Either put() may time out, and only on a full queue.
PutTimesOut(a) == stopper[a].pc \in {"gap", "sentinel"} /\ Full(queue[stopper[a].q])

StopPutTimesOut(a) ==
  /\ PutTimesOut(a)
  /\ state' = "ERROR" /\ error' = TRUE
  /\ Return(a)
  /\ UNCHANGED <<session, counters, gap, queue, unfinished, writer, disk, history>>

\* join() returned, by itself or by its timeout; is_alive() is asked again.
Failed(a) == Alive(stopper[a].q) \/ error

StopFinish(a) ==
  /\ stopper[a].pc = "join"
  /\ state' = IF Failed(a) THEN "ERROR" ELSE "NOT_RECORDING"
  /\ error' = (error \/ Alive(stopper[a].q))
  /\ clean' = [clean EXCEPT ![session] = ~Failed(a)]
  /\ final' = [final EXCEPT ![session] = received]
  /\ Return(a)
  /\ UNCHANGED <<session, counters, gap, queue, unfinished, writer, log, history>>

-----------------------------------------------------------------------------
(* _run(): the writer of recording s.  self._queue is read anew for every   *)
(* get() and every task_done(), so after another start() it is the queue of *)
(* the new recording, while the open files stay those of s.                 *)
WriterBind(s) ==
  /\ writer[s].pc = "bind"
  /\ WriterAt(s, "get", session, <<>>)
  /\ UNCHANGED <<state, error, session, counters, gap, queue, unfinished, disk, stopper, history>>

WriterGet(s) ==
  /\ writer[s].pc = "get"
  /\ LET q == writer[s].q
     IN /\ queue[q] # <<>>
        /\ WriterAt(s, "hold", q, <<Head(queue[q])>>)
        /\ queue' = [queue EXCEPT ![q] = Tail(@)]
  /\ UNCHANGED <<state, error, session, counters, gap, unfinished, disk, stopper, history>>

WriterDies(s, hand) ==
  /\ WriterAt(s, "dead", writer[s].q, hand)
  /\ state' = "ERROR" /\ error' = TRUE

\* Handle the item, then task_done(), which raises when nothing is unfinished.
WriterWrite(s) ==
  /\ writer[s].pc = "hold"
  /\ LET item == writer[s].hand[1]
         next == IF item.kind = "stop" THEN "dead" ELSE "bind"
     IN /\ log' = IF item.kind = "stop" THEN log
                  ELSE [log EXCEPT ![s] = Append(@, item)]
        /\ written' = IF item.kind = "frame" THEN written + 1 ELSE written
        /\ IF unfinished[session] > 0
             THEN /\ unfinished' = [unfinished EXCEPT ![session] = @ - 1]
                  /\ WriterAt(s, next, writer[s].q, <<>>)
                  /\ UNCHANGED <<state, error>>
             ELSE WriterDies(s, <<>>) /\ UNCHANGED unfinished
  /\ UNCHANGED <<session, received, dropped, gap, queue, clean, final, stopper, history>>

\* The encoder or the file system raises: at an item, which is not written (the
\* stop marker flushes the files), or when the files are opened.
WriterFails(s) ==
  /\ \/ /\ writer[s].pc = "hold"
        /\ unfinished' = [unfinished EXCEPT ![session] = IF @ > 0 THEN @ - 1 ELSE 0]
     \/ /\ writer[s].pc = "bind" /\ log[s] = <<>>
        /\ UNCHANGED unfinished
  /\ WriterDies(s, writer[s].hand)
  /\ UNCHANGED <<session, counters, gap, queue, disk, stopper, history>>

-----------------------------------------------------------------------------
StopStep(a) ==
  \/ StopPutGap(a) \/ StopClearGap(a) \/ StopPutSentinel(a)
  \/ StopPutTimesOut(a) \/ StopFinish(a)

WriterStep(s) == WriterBind(s) \/ WriterGet(s) \/ WriterWrite(s) \/ WriterFails(s)

Next ==
  \/ \E a \in Api : Start(a) \/ StopBegin(a) \/ StopStep(a)
  \/ RecordFrame
  \/ RecordEvent
  \/ \E s \in Sessions : WriterStep(s)

Spec == Init /\ [][Next]_vars

\* Threads are scheduled: a call of stop() that can go on does, and so does a writer.
FairSpec ==
  /\ Spec
  /\ \A a \in Api : WF_vars(StopStep(a))
  /\ \A s \in Sessions : WF_vars(WriterStep(s))
-----------------------------------------------------------------------------
CounterType ==
  /\ state \in {"NOT_RECORDING", "RECORDING", "FINALIZING", "ERROR"}
  /\ session \in 0 .. MaxSessions
  /\ received \in 0 .. MaxFrames /\ written \in Nat /\ dropped \in Nat
  /\ gap \in Gap
QueueType ==
  /\ queue \in [Sessions -> Seq(Item)] /\ unfinished \in [Sessions -> Nat]
  /\ \A s \in Sessions : Len(queue[s]) <= Capacity
ThreadType == writer \in [Sessions -> Writer] /\ stopper \in [Api -> Stopper]
FileType ==
  /\ log \in [Sessions -> Seq(Item)]
  /\ clean \in [Sessions -> BOOLEAN] /\ final \in [Sessions -> 0 .. MaxFrames]
  /\ crossed \in [Sessions -> BOOLEAN] /\ eventLost \in [Sessions -> BOOLEAN]

TypeOK == error \in BOOLEAN /\ CounterType /\ QueueType /\ ThreadType /\ FileType

\* q accounts, in order and without a hole, for the positions after p ...
Chain(q, p) ==
  /\ q # <<>> => q[1].lo = p + 1
  /\ \A k \in 1 .. Len(q) - 1 : q[k + 1].lo = q[k].hi + 1
\* ... up to this one.
End(q, p) == IF q = <<>> THEN p ELSE q[Len(q)].hi

Hand(s) == writer[s].hand
\* stop() has queued the pending gap and not yet cleared it.
GapQueued == \E a \in Api : stopper[a].pc = "clear"
Pending == IF GapQueued THEN <<>> ELSE FlushItems

\* What became of every frame of the current recording, oldest first.
Timeline == log[session] \o Hand(session) \o queue[session] \o Pending
InOrder ==
  /\ Chain(Timeline, 0) /\ End(Timeline, 0) = received
  /\ gap.n > 0 => gap.n = gap.last - gap.first + 1

\* "Loss-accounted" (class docstring): the files, the item in the writer's hand,
\* the queue and the pending gap cover every received frame exactly once and in
\* receive order, each as a frame or inside an announced gap; a gap's frame
\* count is that of its first and last frame.
AccountedInOrder == session > 0 /\ ~crossed[session] => InOrder

Complete(s) == Chain(log[s], 0) /\ End(log[s], 0) = final[s] /\ ~eventLost[s]

\* metadata.json says "clean" only of a recording whose files account for every
\* frame it received and that refused no event; nothing later, a crash included,
\* makes it false.
CleanIsComplete == \A s \in Sessions : clean[s] /\ ~crossed[s] => Complete(s)

\* The same of every recording, also one started after an ERROR while the writer
\* of the recording before still runs.  Known not to hold (ScientificRecorder_overlap.cfg).
CleanIsAlwaysComplete == \A s \in Sessions : clean[s] => Complete(s)

\* The counters of snapshot() and metadata.json agree with each other and with
\* the queue: received = written + dropped + on the way to the file.
CountersConserved ==
  session > 0 /\ ~crossed[session] =>
    received = written + dropped
      + Cardinality({k \in DOMAIN queue[session] : queue[session][k].kind = "frame"})
      + Cardinality({k \in DOMAIN Hand(session) : Hand(session)[k].kind = "frame"})

\* stop() returns, also with the queue full and the writer dead.
StopReturns == \A a \in Api : ~Idle(a) ~> Idle(a)
=============================================================================
