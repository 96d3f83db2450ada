----------------------- MODULE ScientificRecorderProofs -----------------------
(***************************************************************************)
(* Theorems about ScientificRecorder, for every number of API threads,     *)
(* queue capacity and bound, in four parts that each have an inductive     *)
(* invariant: the types of its state (TypeOK); every received frame is     *)
(* accounted for, in order (AccountedInOrder); "clean" is only said of a   *)
(* complete recording (CleanIsComplete); the counters on display agree     *)
(* with each other and with what is on the way to the files                *)
(* (CountersConserved).                                                    *)
(***************************************************************************)
EXTENDS ScientificRecorder, SequenceTheorems, FiniteSetTheorems, FunctionTheorems, TLAPS

(* Part 1: TypeOK *)

-----------------------------------------------------------------------------
(* Type correctness.                                                        *)

\* What TypeOK needs to be inductive: a gap counts frames that were received, a
\* put() is on a queue that exists and adds one item, a writer was started by
\* Start, and it handles exactly one item at a time.
Support ==
  /\ gap.n <= received
  /\ state # "NOT_RECORDING" => session > 0
  /\ \A a \in Api : /\ ~Idle(a) => stopper[a].q > 0 /\ session > 0
                    /\ Len(stopper[a].gap) <= 1
  /\ \A s \in Sessions : /\ writer[s].pc # "none" => session > 0
                         /\ writer[s].pc = "hold" => Len(writer[s].hand) = 1

TypeInv == TypeOK /\ Support

LEMMA NoGapType == NoGap \in Gap
<1>1. 0 \in 0 .. MaxFrames /\ 0 \in Positions
  BY BoundsAssumption DEF Positions
<1> QED
  BY <1>1 DEF NoGap, Gap

\* A thread that moves changes nothing of the others.
LEMMA WriterMoves ==
  ASSUME ThreadType, NEW s \in Sessions, NEW q \in Sessions, NEW hand \in Seq(Item),
         NEW pc \in {"none", "bind", "get", "hold", "dead"}, WriterAt(s, pc, q, hand)
  PROVE  /\ writer' \in [Sessions -> Writer]
         /\ writer'[s].pc = pc /\ writer'[s].q = q /\ writer'[s].hand = hand
         /\ \A t \in Sessions \ {s} : writer'[t] = writer[t]
<1>1. [pc |-> pc, q |-> q, hand |-> hand] \in Writer
  BY DEF Writer
<1> QED
  BY <1>1 DEF WriterAt, ThreadType

LEMMA StopperMoves ==
  ASSUME ThreadType, NEW a \in Api, NEW items \in Seq(Item), NEW q \in 0 .. MaxSessions,
         NEW pc \in {"idle", "gap", "clear", "sentinel", "join"}, StopperAt(a, pc, items, q)
  PROVE  /\ stopper' \in [Api -> Stopper]
         /\ stopper'[a].pc = pc /\ stopper'[a].gap = items /\ stopper'[a].q = q
         /\ \A b \in Api \ {a} : stopper'[b] = stopper[b]
<1>1. [pc |-> pc, gap |-> items, q |-> q] \in Stopper
  BY DEF Stopper
<1> QED
  BY <1>1 DEF StopperAt, ThreadType

\* A put() that fits adds its items at the end of one queue.
LEMMA EnqueueFits ==
  ASSUME QueueType, NEW s \in Sessions, NEW items \in Seq(Item), EnqueueAt(s, items),
         Len(queue[s]) + Len(items) <= Capacity
  PROVE  /\ QueueType'
         /\ queue'[s] = queue[s] \o items
         /\ \A t \in Sessions \ {s} : queue'[t] = queue[t]
<1>1. queue[s] \o items \in Seq(Item) /\ Len(queue[s] \o items) <= Capacity
  BY CapacityAssumption DEF QueueType
<1>2. queue' \in [Sessions -> Seq(Item)] /\ \A t \in Sessions : Len(queue'[t]) <= Capacity
  BY <1>1 DEF EnqueueAt, QueueType
<1>3. unfinished' \in [Sessions -> Nat]
  BY DEF EnqueueAt, QueueType
<1> QED
  BY <1>2, <1>3 DEF EnqueueAt, QueueType

\* The items of the code are items, and the pending gap is flushed as at most one.
LEMMA ItemTypes ==
  ASSUME CounterType
  PROVE  /\ FlushItems \in Seq(Item)
         /\ Len(FlushItems) = IF gap.n > 0 THEN 1 ELSE 0
         /\ Len(FlushItems) <= 1
         /\ \A kind \in {"event", "stop"} : Marker(kind, received) \in Item
         /\ received < MaxFrames => [kind |-> "frame", lo |-> received + 1, hi |-> received + 1] \in Item
<1>1. received \in Positions /\ received + 1 \in Positions
  BY BoundsAssumption DEF CounterType, Positions
<1>2. GapItem \in Item
  BY DEF GapItem, Item, CounterType, Gap
<1>3. /\ FlushItems \in Seq(Item) /\ Len(FlushItems) <= 1
      /\ Len(FlushItems) = IF gap.n > 0 THEN 1 ELSE 0
  BY <1>2 DEF FlushItems
<1> QED
  BY <1>1, <1>3 DEF Marker, Item

LEMMA InitTypeInv == Init => TypeInv
<1> SUFFICES ASSUME Init PROVE TypeInv
  OBVIOUS
<1>0. error \in BOOLEAN
  BY Zenon DEF Init
<1>1. CounterType
  BY NoGapType, BoundsAssumption DEF Init, CounterType
<1>2. QueueType
  BY CapacityAssumption DEF Init, QueueType
<1>3. ThreadType
  BY BoundsAssumption DEF Init, ThreadType, Writer, Stopper
<1>4. FileType
  BY BoundsAssumption DEF Init, FileType
<1>5. Support
  BY DEF Init, Support, NoGap, Idle
<1> QED
  BY <1>0, <1>1, <1>2, <1>3, <1>4, <1>5 DEF TypeInv, TypeOK

LEMMA StartTypeInv ==
  ASSUME TypeInv, NEW a \in Api, Start(a)
  PROVE  TypeInv'
<1> USE DEF TypeInv, TypeOK
<1>0. error' \in BOOLEAN
  BY Zenon DEF Start
<1>1. CounterType' /\ session + 1 \in Sessions
  BY NoGapType, BoundsAssumption DEF Start, CounterType, Sessions
<1>2. QueueType'
  BY DEF QueueType, Start
<1>3. ThreadType'
  <2>1. WriterAt(session + 1, "bind", session + 1, <<>>) /\ stopper' = stopper
    BY DEF Start
  <2>2. <<>> \in Seq(Item)
    OBVIOUS
  <2> QED
    BY <1>1, <2>1, <2>2, WriterMoves DEF ThreadType
<1>4. FileType'
  BY DEF FileType, Start, disk
<1>5. Support'
  BY DEF Support, NoGap, Idle, CounterType, ThreadType, WriterAt, Writer, Start
<1> QED
  BY <1>0, <1>1, <1>2, <1>3, <1>4, <1>5

\* A dropped frame joins the pending gap.
LEMMA NoteDropType ==
  ASSUME NEW pending \in Gap, pending.n <= received, received < MaxFrames,
         received \in 0 .. MaxFrames, dropped \in Nat, NoteDrop(pending, received + 1)
  PROVE  gap' \in Gap /\ gap'.n <= received + 1 /\ dropped' \in Nat
<1>1. received + 1 \in Positions /\ 1 \in 0 .. MaxFrames /\ pending.n + 1 \in 0 .. MaxFrames
  BY BoundsAssumption DEF Positions, Gap
<1>2. CASE pending.n = 0
  BY <1>1, <1>2 DEF NoteDrop, Gap
<1>3. CASE pending.n # 0
  BY <1>1, <1>3 DEF NoteDrop, Gap
<1> QED
  BY <1>2, <1>3

LEMMA RecordFrameTypeInv ==
  ASSUME TypeInv, RecordFrame
  PROVE  TypeInv'
<1> USE DEF TypeInv, TypeOK
<1> DEFINE frame == [kind |-> "frame", lo |-> received + 1, hi |-> received + 1]
<1>0. error' \in BOOLEAN
  BY Zenon DEF RecordFrame
<1>1. received' = received + 1 /\ received < MaxFrames /\ session \in Sessions
  BY DEF RecordFrame, Support, CounterType, Sessions
<1>2. QueueType' /\ gap' \in Gap /\ gap'.n <= received' /\ dropped' \in Nat
  <2>1. CASE Room < Len(FlushItems) /\ NoteDrop(gap, received + 1) /\ UNCHANGED <<queue, unfinished>>
    BY <1>1, <2>1, NoteDropType DEF CounterType, Support, QueueType
  <2>2. CASE /\ Room = Len(FlushItems) /\ NoteDrop(NoGap, received + 1)
             /\ Enqueue(FlushItems)
    <3>1. QueueType'
      BY <1>1, <2>2, ItemTypes, EnqueueFits, CapacityAssumption DEF Room, Enqueue, QueueType
    <3>2. NoGap.n <= received
      BY DEF NoGap, CounterType
    <3> QED
      BY <1>1, <2>2, <3>1, <3>2, NoteDropType, NoGapType DEF CounterType
  <2>3. CASE /\ Room >= Len(FlushItems) + 1 /\ Enqueue(Append(FlushItems, frame))
             /\ gap' = NoGap /\ UNCHANGED dropped
    <3>1. Append(FlushItems, frame) \in Seq(Item) /\ Len(Append(FlushItems, frame)) = Len(FlushItems) + 1
      BY <1>1, ItemTypes
    <3>2. QueueType'
      <4>1. /\ EnqueueAt(session, Append(FlushItems, frame))
            /\ Len(queue[session]) + Len(Append(FlushItems, frame)) <= Capacity
        BY <1>1, <2>3, <3>1, ItemTypes, CapacityAssumption DEF Room, Enqueue, QueueType
      <4> QED
        BY <1>1, <3>1, <4>1, EnqueueFits
    <3> QED
      BY <1>1, <2>3, <3>2, NoGapType DEF CounterType, NoGap
  <2> QED
    BY <2>1, <2>2, <2>3 DEF RecordFrame
<1>3. CounterType'
  BY <1>1, <1>2, BoundsAssumption DEF RecordFrame, CounterType
<1>4. ThreadType' /\ FileType'
  BY DEF RecordFrame, ThreadType, FileType, disk, history
<1>5. Support'
  BY <1>2 DEF RecordFrame, Support, Idle
<1> QED
  BY <1>0, <1>2, <1>3, <1>4, <1>5

LEMMA RecordEventTypeInv ==
  ASSUME TypeInv, RecordEvent
  PROVE  TypeInv'
<1> USE DEF TypeInv, TypeOK
<1> DEFINE items == Append(FlushItems, Marker("event", received))
<1>1. session \in Sessions /\ UNCHANGED <<session, received, written, dropped, writer, stopper>>
  BY DEF RecordEvent, Support, CounterType, Sessions, counters
<1>2. items \in Seq(Item) /\ Len(items) = Len(FlushItems) + 1
  BY ItemTypes
<1>3. QueueType' /\ gap' \in Gap /\ gap'.n <= received
      /\ error' \in BOOLEAN /\ state' \in {"RECORDING", "ERROR"}
      /\ eventLost' \in [Sessions -> BOOLEAN]
  <2>1. CASE /\ Room >= Len(FlushItems) + 1 /\ Enqueue(items) /\ gap' = NoGap
             /\ UNCHANGED <<state, error, eventLost>>
    <3>1. EnqueueAt(session, items) /\ Len(queue[session]) + Len(items) <= Capacity
      BY <1>1, <1>2, <2>1, ItemTypes, CapacityAssumption DEF Room, Enqueue, QueueType
    <3>2. QueueType'
      BY <1>1, <1>2, <3>1, EnqueueFits
    <3>3. gap' \in Gap /\ gap'.n <= received
      BY <2>1, NoGapType DEF NoGap, CounterType
    <3>4. error' \in BOOLEAN /\ eventLost' \in [Sessions -> BOOLEAN]
      BY Zenon, <2>1 DEF FileType
    <3> QED
      BY <2>1, <3>2, <3>3, <3>4 DEF RecordEvent
  <2>2. CASE /\ state' = "ERROR" /\ error' = TRUE
             /\ eventLost' = [eventLost EXCEPT ![session] = TRUE]
             /\ IF Room >= Len(FlushItems) THEN Enqueue(FlushItems) /\ gap' = NoGap
                                           ELSE UNCHANGED <<queue, unfinished, gap>>
    <3>1. QueueType' /\ gap' \in Gap /\ gap'.n <= received
      <4>1. CASE Room >= Len(FlushItems)
        <5>1. EnqueueAt(session, FlushItems) /\ Len(queue[session]) + Len(FlushItems) <= Capacity
          BY <1>1, <2>2, <4>1, ItemTypes, CapacityAssumption DEF Room, Enqueue, QueueType
        <5> QED
          BY <1>1, <2>2, <4>1, <5>1, ItemTypes, EnqueueFits, NoGapType DEF NoGap, CounterType
      <4>2. CASE ~(Room >= Len(FlushItems))
        BY <2>2, <4>2 DEF QueueType, CounterType, Support
      <4> QED
        BY <4>1, <4>2
    <3>2. error' \in BOOLEAN
      BY Zenon, <2>2
    <3> QED
      BY <2>2, <3>1, <3>2 DEF FileType
  <2> QED
    BY Zenon, <2>1, <2>2 DEF RecordEvent
<1>4. CounterType'
  BY <1>1, <1>3 DEF CounterType
<1>5. ThreadType' /\ FileType'
  BY <1>1, <1>3 DEF RecordEvent, ThreadType, FileType, disk
<1>6. Support'
  BY <1>1, <1>3 DEF Support, Idle, Sessions
<1> QED
  BY <1>3, <1>4, <1>5, <1>6

LEMMA StopBeginTypeInv ==
  ASSUME TypeInv, NEW a \in Api, StopBegin(a)
  PROVE  TypeInv'
<1> USE DEF TypeInv, TypeOK
<1> DEFINE pc == IF gap.n > 0 THEN "gap" ELSE "sentinel"
<1>1. session > 0 /\ session \in 0 .. MaxSessions
  BY DEF StopBegin, Support, CounterType
<1>2. StopperAt(a, pc, FlushItems, session) /\ pc \in {"gap", "sentinel"}
  BY DEF StopBegin
<1>3. /\ stopper' \in [Api -> Stopper]
      /\ stopper'[a].pc = pc /\ stopper'[a].gap = FlushItems /\ stopper'[a].q = session
      /\ \A b \in Api \ {a} : stopper'[b] = stopper[b]
  BY <1>1, <1>2, ItemTypes, StopperMoves
<1>4. error' \in BOOLEAN /\ crossed' \in [Sessions -> BOOLEAN]
  BY Zenon DEF StopBegin, FileType
<1>5. CounterType' /\ QueueType' /\ ThreadType' /\ FileType'
  BY <1>3, <1>4 DEF StopBegin, CounterType, QueueType, ThreadType, FileType, counters, disk
<1>6. Support'
  <2>1. Len(FlushItems) <= 1
    BY ItemTypes
  <2>2. UNCHANGED <<gap, received, session, writer>>
    BY DEF StopBegin, counters
  <2> QED
    BY <1>1, <1>3, <2>1, <2>2 DEF Support, Idle
<1> QED
  BY <1>4, <1>5, <1>6

LEMMA StopPutGapTypeInv ==
  ASSUME TypeInv, NEW a \in Api, StopPutGap(a)
  PROVE  TypeInv'
<1> USE DEF TypeInv, TypeOK
<1>1. stopper[a].q \in Sessions /\ stopper[a].gap \in Seq(Item) /\ Len(stopper[a].gap) <= 1
  BY DEF StopPutGap, Support, Idle, ThreadType, Stopper, Sessions
<1>2. QueueType'
  <2>1. Len(queue[stopper[a].q]) + Len(stopper[a].gap) <= Capacity
    <3>1. Len(queue[stopper[a].q]) \in Nat /\ Len(stopper[a].gap) \in Nat
      BY <1>1 DEF QueueType
    <3>2. Len(queue[stopper[a].q]) < Capacity
      BY <1>1, <3>1, CapacityAssumption DEF StopPutGap, Full, QueueType
    <3>3. \A m, n \in Nat : m < Capacity /\ n <= 1 => m + n <= Capacity
      BY CapacityAssumption
    <3> QED
      BY <1>1, <3>1, <3>2, <3>3
  <2> QED
    BY <1>1, <2>1, EnqueueFits DEF StopPutGap
<1>3. /\ stopper' \in [Api -> Stopper]
      /\ stopper'[a].gap = <<>> /\ stopper'[a].q = stopper[a].q
      /\ \A b \in Api \ {a} : stopper'[b] = stopper[b]
  <2>1. <<>> \in Seq(Item) /\ stopper[a].q \in 0 .. MaxSessions
    BY <1>1 DEF Sessions
  <2> QED
    BY <2>1, StopperMoves DEF StopPutGap
<1>4. error' \in BOOLEAN
  BY Zenon DEF StopPutGap
<1>5. CounterType' /\ ThreadType' /\ FileType'
  BY <1>3 DEF StopPutGap, CounterType, ThreadType, FileType, counters, disk, history
<1>6. Support'
  BY <1>1, <1>3 DEF StopPutGap, Support, Idle, Sessions, counters
<1> QED
  BY <1>2, <1>4, <1>5, <1>6

LEMMA StopClearGapTypeInv ==
  ASSUME TypeInv, NEW a \in Api, StopClearGap(a)
  PROVE  TypeInv'
<1> USE DEF TypeInv, TypeOK
<1>1. session > 0 /\ session \in 0 .. MaxSessions
  BY DEF StopClearGap, Support, CounterType, Idle
<1>2. /\ stopper' \in [Api -> Stopper]
      /\ stopper'[a].gap = <<>> /\ stopper'[a].q = session
      /\ \A b \in Api \ {a} : stopper'[b] = stopper[b]
  <2>1. <<>> \in Seq(Item)
    OBVIOUS
  <2> QED
    BY <1>1, <2>1, StopperMoves DEF StopClearGap
<1>3. error' \in BOOLEAN
  BY Zenon DEF StopClearGap
<1>4. CounterType' /\ QueueType' /\ ThreadType' /\ FileType'
  BY <1>2, NoGapType DEF StopClearGap, CounterType, QueueType, ThreadType, FileType, counters, disk, history
<1>5. Support'
  BY <1>1, <1>2 DEF StopClearGap, Support, Idle, counters, NoGap, CounterType
<1> QED
  BY <1>3, <1>4, <1>5

LEMMA StopPutSentinelTypeInv ==
  ASSUME TypeInv, NEW a \in Api, StopPutSentinel(a)
  PROVE  TypeInv'
<1> USE DEF TypeInv, TypeOK
<1> DEFINE items == <<Marker("stop", received)>>
<1>1. stopper[a].q \in Sessions /\ session > 0 /\ session \in 0 .. MaxSessions
  BY DEF StopPutSentinel, Support, Idle, ThreadType, Stopper, Sessions, CounterType
<1>2. items \in Seq(Item) /\ Len(items) = 1
  BY ItemTypes
<1>3. QueueType'
  <2>1. Len(queue[stopper[a].q]) \in Nat /\ Len(queue[stopper[a].q]) < Capacity
    BY <1>1, CapacityAssumption DEF StopPutSentinel, Full, QueueType
  <2>2. \A n \in Nat : n < Capacity => n + 1 <= Capacity
    BY CapacityAssumption
  <2>3. EnqueueAt(stopper[a].q, items)
    BY DEF StopPutSentinel
  <2> QED
    BY <1>1, <1>2, <2>1, <2>2, <2>3, EnqueueFits
<1>4. /\ stopper' \in [Api -> Stopper]
      /\ stopper'[a].gap = <<>> /\ stopper'[a].q = session
      /\ \A b \in Api \ {a} : stopper'[b] = stopper[b]
  <2>1. <<>> \in Seq(Item)
    OBVIOUS
  <2> QED
    BY <1>1, <2>1, StopperMoves DEF StopPutSentinel
<1>5. error' \in BOOLEAN
  BY Zenon DEF StopPutSentinel
<1>6. CounterType' /\ ThreadType' /\ FileType'
  BY <1>4 DEF StopPutSentinel, CounterType, ThreadType, FileType, counters, disk, history
<1>7. Support'
  BY <1>1, <1>4 DEF StopPutSentinel, Support, Idle, counters
<1> QED
  BY <1>3, <1>5, <1>6, <1>7

\* stop() that returns leaves a type-correct thread behind.
LEMMA ReturnMoves ==
  ASSUME ThreadType, NEW a \in Api, Return(a)
  PROVE  /\ stopper' \in [Api -> Stopper]
         /\ stopper'[a].pc = "idle" /\ stopper'[a].gap = <<>>
         /\ \A b \in Api \ {a} : stopper'[b] = stopper[b]
<1>1. <<>> \in Seq(Item) /\ 0 \in 0 .. MaxSessions
  BY BoundsAssumption
<1> QED
  BY <1>1, StopperMoves DEF Return

LEMMA StopPutTimesOutTypeInv ==
  ASSUME TypeInv, NEW a \in Api, StopPutTimesOut(a)
  PROVE  TypeInv'
<1> USE DEF TypeInv, TypeOK
<1>1. session > 0
  BY DEF StopPutTimesOut, PutTimesOut, Support, Idle
<1>2. /\ stopper' \in [Api -> Stopper]
      /\ stopper'[a].pc = "idle" /\ stopper'[a].gap = <<>>
      /\ \A b \in Api \ {a} : stopper'[b] = stopper[b]
  BY ReturnMoves DEF StopPutTimesOut
<1>3. error' \in BOOLEAN
  BY Zenon DEF StopPutTimesOut
<1>4. CounterType' /\ QueueType' /\ ThreadType' /\ FileType'
  BY <1>2 DEF StopPutTimesOut, CounterType, QueueType, ThreadType, FileType, counters, disk, history
<1>5. Support'
  BY <1>1, <1>2 DEF StopPutTimesOut, Support, Idle, counters
<1> QED
  BY <1>3, <1>4, <1>5

LEMMA StopFinishTypeInv ==
  ASSUME TypeInv, NEW a \in Api, StopFinish(a)
  PROVE  TypeInv'
<1> USE DEF TypeInv, TypeOK
<1>1. session > 0
  BY DEF StopFinish, Support, Idle
<1>2. /\ stopper' \in [Api -> Stopper]
      /\ stopper'[a].pc = "idle" /\ stopper'[a].gap = <<>>
      /\ \A b \in Api \ {a} : stopper'[b] = stopper[b]
  BY ReturnMoves DEF StopFinish
<1>3. error' \in BOOLEAN /\ state' \in {"ERROR", "NOT_RECORDING"}
      /\ clean' \in [Sessions -> BOOLEAN]
  BY Zenon DEF StopFinish, FileType
<1>4. CounterType' /\ QueueType' /\ ThreadType' /\ FileType'
  BY <1>2, <1>3 DEF StopFinish, CounterType, QueueType, ThreadType, FileType, counters, history
<1>5. Support'
  BY <1>1, <1>2 DEF StopFinish, Support, Idle, counters
<1> QED
  BY <1>3, <1>4, <1>5

LEMMA WriterBindTypeInv ==
  ASSUME TypeInv, NEW s \in Sessions, WriterBind(s)
  PROVE  TypeInv'
<1> USE DEF TypeInv, TypeOK
<1>1. session \in Sessions /\ <<>> \in Seq(Item)
  BY DEF WriterBind, Support, CounterType, Sessions
<1>2. /\ writer' \in [Sessions -> Writer]
      /\ writer'[s].pc = "get"
      /\ \A t \in Sessions \ {s} : writer'[t] = writer[t]
  BY <1>1, WriterMoves DEF WriterBind
<1>3. error' \in BOOLEAN
  BY Zenon DEF WriterBind
<1>4. CounterType' /\ QueueType' /\ ThreadType' /\ FileType'
  BY <1>2 DEF WriterBind, CounterType, QueueType, ThreadType, FileType, counters, disk, history
<1>5. Support'
  BY <1>1, <1>2 DEF WriterBind, Support, Idle, counters, Sessions
<1> QED
  BY <1>3, <1>4, <1>5

LEMMA WriterGetTypeInv ==
  ASSUME TypeInv, NEW s \in Sessions, WriterGet(s)
  PROVE  TypeInv'
<1> USE DEF TypeInv, TypeOK
<1> DEFINE q == writer[s].q
<1>1. q \in Sessions /\ queue[q] \in Seq(Item) /\ queue[q] # <<>> /\ Len(queue[q]) <= Capacity
  BY DEF WriterGet, ThreadType, Writer, QueueType
<1>2. <<Head(queue[q])>> \in Seq(Item) /\ Tail(queue[q]) \in Seq(Item)
      /\ Len(Tail(queue[q])) <= Capacity
  BY <1>1, CapacityAssumption
<1>3. QueueType'
  BY <1>1, <1>2 DEF WriterGet, QueueType
<1>4. /\ writer' \in [Sessions -> Writer]
      /\ writer'[s].pc = "hold" /\ writer'[s].hand = <<Head(queue[q])>>
      /\ \A t \in Sessions \ {s} : writer'[t] = writer[t]
  <2>1. WriterAt(s, "hold", q, <<Head(queue[q])>>)
    BY DEF WriterGet
  <2> QED
    BY <1>1, <1>2, <2>1, WriterMoves
<1>5. error' \in BOOLEAN
  BY Zenon DEF WriterGet
<1>6. CounterType' /\ ThreadType' /\ FileType'
  BY <1>4 DEF WriterGet, CounterType, ThreadType, FileType, counters, disk, history
<1>7. Support'
  BY <1>4 DEF WriterGet, Support, Idle, counters
<1> QED
  BY <1>3, <1>5, <1>6, <1>7

\* The writer that goes on and the writer that dies.
LEMMA WriterWriteTypeInv ==
  ASSUME TypeInv, NEW s \in Sessions, WriterWrite(s)
  PROVE  TypeInv'
<1> USE DEF TypeInv, TypeOK
<1> DEFINE item == writer[s].hand[1]
           next == IF item.kind = "stop" THEN "dead" ELSE "bind"
<1>1. session \in Sessions /\ writer[s].q \in Sessions /\ <<>> \in Seq(Item) /\ item \in Item
  BY DEF WriterWrite, Support, CounterType, Sessions, ThreadType, Writer
<1>2. /\ \/ UNCHANGED <<state, error>>
         \/ state' = "ERROR" /\ error' = TRUE
      /\ WriterAt(s, "dead", writer[s].q, <<>>) \/ WriterAt(s, "bind", writer[s].q, <<>>)
      /\ unfinished' \in [Sessions -> Nat]
  <2>1. CASE unfinished[session] > 0
    <3>1. WriterAt(s, next, writer[s].q, <<>>) /\ UNCHANGED <<state, error>>
      BY <2>1 DEF WriterWrite
    <3>2. next = "dead" \/ next = "bind"
      OBVIOUS
    <3>3. unfinished' \in [Sessions -> Nat]
      <4>1. unfinished[session] - 1 \in Nat
        BY <1>1, <2>1 DEF QueueType
      <4>2. unfinished' = [unfinished EXCEPT ![session] = unfinished[session] - 1]
        BY <2>1 DEF WriterWrite
      <4> QED
        BY <4>1, <4>2 DEF QueueType
    <3> HIDE DEF next
    <3> QED
      BY <3>1, <3>2, <3>3
  <2>2. CASE ~(unfinished[session] > 0)
    BY <1>1, <2>2 DEF WriterWrite, WriterDies, QueueType
  <2> QED
    BY <2>1, <2>2
<1>3. /\ writer' \in [Sessions -> Writer]
      /\ writer'[s].pc # "hold"
      /\ \A t \in Sessions \ {s} : writer'[t] = writer[t]
  <2>1. CASE WriterAt(s, "dead", writer[s].q, <<>>)
    BY <1>1, <2>1, WriterMoves
  <2>2. CASE WriterAt(s, "bind", writer[s].q, <<>>)
    BY <1>1, <2>2, WriterMoves
  <2> QED
    BY <1>2, <2>1, <2>2
<1>4. error' \in BOOLEAN
  BY Zenon, <1>2
<1>5. log' \in [Sessions -> Seq(Item)] /\ written' \in Nat
  BY <1>1 DEF WriterWrite, FileType, CounterType
<1>6. CounterType' /\ QueueType' /\ ThreadType' /\ FileType'
  BY <1>2, <1>3, <1>5 DEF WriterWrite, CounterType, QueueType, ThreadType, FileType, history
<1>7. Support'
  BY <1>1, <1>3 DEF WriterWrite, Support, Idle, Sessions
<1> QED
  BY <1>4, <1>6, <1>7

LEMMA WriterFailsTypeInv ==
  ASSUME TypeInv, NEW s \in Sessions, WriterFails(s)
  PROVE  TypeInv'
<1> USE DEF TypeInv, TypeOK
<1>1. session > 0 /\ session \in Sessions /\ writer[s].q \in Sessions /\ writer[s].hand \in Seq(Item)
  BY DEF WriterFails, Support, CounterType, Sessions, ThreadType, Writer
<1>2. /\ writer' \in [Sessions -> Writer]
      /\ writer'[s].pc = "dead"
      /\ \A t \in Sessions \ {s} : writer'[t] = writer[t]
  BY <1>1, WriterMoves DEF WriterFails, WriterDies
<1>3. error' \in BOOLEAN
  BY Zenon DEF WriterFails, WriterDies
<1>4. QueueType'
  BY <1>1 DEF WriterFails, QueueType
<1>5. CounterType' /\ ThreadType' /\ FileType'
  BY <1>2 DEF WriterFails, WriterDies, CounterType, ThreadType, FileType, counters, disk, history
<1>6. Support'
  BY <1>1, <1>2 DEF WriterFails, Support, Idle, counters
<1> QED
  BY <1>3, <1>4, <1>5, <1>6

LEMMA StutterTypeInv == TypeInv /\ UNCHANGED vars => TypeInv'
  BY Zenon DEF vars, counters, disk, history, TypeInv, TypeOK, CounterType, QueueType, ThreadType,
     FileType, Support, Idle

\* Every state of the recorder is type-correct, whatever the capacity, the number
\* of API threads and the bounds.
THEOREM TypeCorrect == Spec => []TypeOK
<1>1. TypeInv /\ [Next]_vars => TypeInv'
  BY StartTypeInv, RecordFrameTypeInv, RecordEventTypeInv, StopBeginTypeInv, StopPutGapTypeInv,
     StopClearGapTypeInv, StopPutSentinelTypeInv, StopPutTimesOutTypeInv, StopFinishTypeInv,
     WriterBindTypeInv, WriterGetTypeInv, WriterWriteTypeInv, WriterFailsTypeInv, StutterTypeInv
  DEF Next, StopStep, WriterStep
<1>2. TypeInv => TypeOK
  BY DEF TypeInv
<1> QED
  BY <1>1, <1>2, InitTypeInv, PTL DEF Spec

(* Part 2: AccountedInOrder *)

-----------------------------------------------------------------------------
(* Chains of items.                                                         *)

LEMMA ItemFields == \A item \in Item : item.lo \in Int /\ item.hi \in Int
  BY BoundsAssumption DEF Item, Positions

LEMMA EmptyLen ==
  ASSUME NEW q \in Seq(Item)
  PROVE  q = <<>> <=> Len(q) = 0
<1>1. q = <<>> => Len(q) = 0
  BY EmptySeq
<1>2. q # <<>> => Len(q) \in Nat \ {0}
  BY EmptySeq
<1> QED
  BY <1>1, <1>2

LEMMA EndType ==
  ASSUME NEW q \in Seq(Item), NEW p \in Int
  PROVE  End(q, p) \in Int
<1>1. CASE q = <<>>
  BY <1>1 DEF End
<1>2. CASE q # <<>>
  <2>1. q[Len(q)] \in Item
    BY <1>2, EmptySeq, ElementOfSeq
  <2> QED
    BY <1>2, <2>1, ItemFields DEF End
<1> QED
  BY <1>1, <1>2

\* Appending what continues a chain continues it.
LEMMA ConcatChain ==
  ASSUME NEW q \in Seq(Item), NEW r \in Seq(Item), NEW p \in Int,
         Chain(q, p), Chain(r, End(q, p))
  PROVE  Chain(q \o r, p) /\ End(q \o r, p) = End(r, End(q, p))
<1>1. CASE q = <<>>
  <2>1. q \o r = r
    BY <1>1, ConcatEmptySeq
  <2> QED
    BY <1>1, <2>1 DEF End
<1>2. CASE r = <<>>
  <2>1. q \o r = q
    BY <1>2, ConcatEmptySeq
  <2> QED
    BY <1>2, <2>1 DEF End
<1>3. CASE q # <<>> /\ r # <<>>
  <2> DEFINE m == Len(q)
             n == Len(r)
  <2>1. m \in Nat \ {0} /\ n \in Nat \ {0}
    BY <1>3, EmptySeq
  <2>2. /\ Len(q \o r) = m + n
        /\ \A i \in 1 .. m + n : (q \o r)[i] = IF i <= m THEN q[i] ELSE r[i - m]
    BY ConcatProperties
  <2>3. q \o r # <<>>
    BY <1>3, ConcatEqualIffEmpty
  <2>4. (q \o r)[1].lo = p + 1
    BY <1>3, <2>1, <2>2 DEF Chain
  <2>5. ASSUME NEW k \in 1 .. Len(q \o r) - 1
        PROVE  (q \o r)[k + 1].lo = (q \o r)[k].hi + 1
    <3>1. k \in 1 .. m + n - 1 /\ k \in 1 .. m + n /\ k + 1 \in 1 .. m + n
      BY <2>1, <2>2
    <3>2. CASE k < m
      <4>1. (q \o r)[k] = q[k] /\ (q \o r)[k + 1] = q[k + 1] /\ k \in 1 .. m - 1
        BY <2>1, <2>2, <3>1, <3>2
      <4> QED
        BY <4>1 DEF Chain
    <3>3. CASE k = m
      <4>1. (q \o r)[k] = q[m] /\ (q \o r)[k + 1] = r[1]
        BY <2>1, <2>2, <3>1, <3>3
      <4> QED
        BY <1>3, <4>1 DEF Chain, End
    <3>4. CASE k > m
      <4>1. (q \o r)[k] = r[k - m] /\ (q \o r)[k + 1] = r[(k + 1) - m]
        BY <2>1, <2>2, <3>1, <3>4
      <4>2. k - m \in 1 .. n - 1 /\ (k + 1) - m = (k - m) + 1
        BY <2>1, <3>1, <3>4
      <4> QED
        BY <4>1, <4>2 DEF Chain
    <3> QED
      BY <2>1, <3>1, <3>2, <3>3, <3>4
  <2>6. End(q \o r, p) = r[n].hi
    <3>1. (q \o r)[m + n] = r[n]
      BY <2>1, <2>2
    <3> QED
      BY <2>2, <2>3, <3>1 DEF End
  <2>7. End(r, End(q, p)) = r[n].hi
    BY <1>3 DEF End
  <2> QED
    BY <2>3, <2>4, <2>5, <2>6, <2>7 DEF Chain
<1> QED
  BY <1>1, <1>2, <1>3

\* A single item.
LEMMA OneChain ==
  ASSUME NEW item \in Item, NEW p \in Int, item.lo = p + 1
  PROVE  Chain(<<item>>, p) /\ End(<<item>>, p) = item.hi
  BY DEF Chain, End

LEMMA AppendChain ==
  ASSUME NEW q \in Seq(Item), NEW p \in Int, NEW item \in Item,
         Chain(q, p), item.lo = End(q, p) + 1
  PROVE  Chain(Append(q, item), p) /\ End(Append(q, item), p) = item.hi
<1>1. Append(q, item) = q \o <<item>>
  OBVIOUS
<1>2. Chain(<<item>>, End(q, p)) /\ End(<<item>>, End(q, p)) = item.hi
  BY EndType, OneChain
<1>3. <<item>> \in Seq(Item)
  OBVIOUS
<1> QED
  BY <1>1, <1>2, <1>3, ConcatChain

\* Taking the head off a chain leaves a chain.
LEMMA TailChain ==
  ASSUME NEW q \in Seq(Item), NEW p \in Int, q # <<>>, Chain(q, p)
  PROVE  /\ Chain(<<Head(q)>>, p) /\ End(<<Head(q)>>, p) = Head(q).hi
         /\ Chain(Tail(q), Head(q).hi) /\ End(Tail(q), Head(q).hi) = End(q, p)
<1> DEFINE n == Len(q)
<1>1. n \in Nat \ {0}
  BY EmptySeq
<1>2. /\ Head(q) = q[1] /\ Head(q) \in Item /\ Tail(q) \in Seq(Item) /\ Len(Tail(q)) = n - 1
      /\ \A i \in 1 .. n - 1 : Tail(q)[i] = q[i + 1]
  BY HeadTailProperties
<1>3. Chain(<<Head(q)>>, p) /\ End(<<Head(q)>>, p) = Head(q).hi
  BY <1>2, OneChain DEF Chain
<1>4. CASE n = 1
  <2>1. Tail(q) = <<>>
    <3>1. Len(Tail(q)) = 0
      BY <1>2, <1>4
    <3> QED
      BY <1>2, <3>1, EmptyLen
  <2>2. Chain(Tail(q), Head(q).hi) /\ End(Tail(q), Head(q).hi) = Head(q).hi
    BY <2>1 DEF Chain, End
  <2>3. End(q, p) = Head(q).hi
    BY <1>2, <1>4 DEF End
  <2> QED
    BY <1>3, <2>2, <2>3
<1>5. CASE n # 1
  <2>1. Tail(q) # <<>> /\ 1 \in 1 .. n - 1 /\ n - 1 \in 1 .. n - 1
    <3>1. n - 1 \in Nat \ {0}
      BY <1>1, <1>5
    <3>2. Len(Tail(q)) # 0
      BY <1>2, <3>1
    <3>3. Tail(q) # <<>>
      BY <1>2, <3>2, EmptyLen
    <3>4. \A k \in Nat \ {0} : 1 \in 1 .. k /\ k \in 1 .. k
      OBVIOUS
    <3> HIDE DEF n
    <3> QED
      BY <3>1, <3>3, <3>4
  <2>2. Tail(q)[1] = q[2] /\ q[2].lo = q[1].hi + 1
    BY <1>2, <2>1 DEF Chain
  <2>3. ASSUME NEW k \in 1 .. Len(Tail(q)) - 1
        PROVE  Tail(q)[k + 1].lo = Tail(q)[k].hi + 1
    <3>1. k \in 1 .. n - 1 /\ k + 1 \in 1 .. n - 1
      BY <1>1, <1>2
    <3>2. Tail(q)[k] = q[k + 1] /\ Tail(q)[k + 1] = q[(k + 1) + 1]
      BY <1>2, <3>1
    <3> QED
      BY <3>1, <3>2 DEF Chain
  <2>4. Tail(q)[Len(Tail(q))] = q[n]
    BY <1>1, <1>2, <2>1
  <2> QED
    BY <1>2, <1>3, <2>1, <2>2, <2>3, <2>4 DEF Chain, End
<1> QED
  BY <1>4, <1>5

\* The parts of a chain are chains.
LEMMA SplitChain ==
  ASSUME NEW q \in Seq(Item), NEW r \in Seq(Item), NEW p \in Int, Chain(q \o r, p)
  PROVE  Chain(q, p) /\ Chain(r, End(q, p))
<1>1. CASE q = <<>>
  <2>1. q \o r = r
    BY <1>1, ConcatEmptySeq
  <2>2. Chain(q, p)
    BY <1>1, EmptyLen DEF Chain
  <2> QED
    BY <1>1, <2>1, <2>2 DEF End
<1>2. CASE q # <<>>
  <2> DEFINE m == Len(q)
             n == Len(r)
  <2>1. m \in Nat \ {0} /\ n \in Nat
    BY <1>2, EmptySeq, LenProperties
  <2>2. /\ Len(q \o r) = m + n
        /\ \A i \in 1 .. m + n : (q \o r)[i] = IF i <= m THEN q[i] ELSE r[i - m]
    BY ConcatProperties
  <2>3. q \o r # <<>>
    BY <1>2, ConcatEqualIffEmpty
  <2>4. q[1].lo = p + 1
    BY <2>1, <2>2, <2>3 DEF Chain
  <2>5. ASSUME NEW k \in 1 .. m - 1
        PROVE  q[k + 1].lo = q[k].hi + 1
    <3>1. k \in 1 .. (m + n) - 1 /\ (q \o r)[k] = q[k] /\ (q \o r)[k + 1] = q[k + 1]
      BY <2>1, <2>2
    <3> QED
      BY <2>2, <3>1 DEF Chain
  <2>6. ASSUME r # <<>> PROVE r[1].lo = End(q, p) + 1
    <3>1. n \in Nat \ {0}
      BY <2>6, EmptySeq
    <3>2. m \in 1 .. (m + n) - 1 /\ (q \o r)[m] = q[m] /\ (q \o r)[m + 1] = r[1]
      BY <2>1, <2>2, <3>1
    <3> QED
      BY <1>2, <2>2, <3>2 DEF Chain, End
  <2>7. ASSUME NEW k \in 1 .. n - 1
        PROVE  r[k + 1].lo = r[k].hi + 1
    <3>1. /\ m + k \in 1 .. (m + n) - 1
          /\ (q \o r)[m + k] = r[k] /\ (q \o r)[(m + k) + 1] = r[k + 1]
      BY <2>1, <2>2
    <3> QED
      BY <2>2, <3>1 DEF Chain
  <2> QED
    BY <2>4, <2>5, <2>6, <2>7 DEF Chain
<1> QED
  BY <1>1, <1>2

-----------------------------------------------------------------------------
(* The timeline, part by part, and what the operations do to it.            *)

Ordered(files, hand, q, rest, n) ==
  LET e1 == End(files, 0)
      e2 == End(hand, e1)
      e3 == End(q, e2)
  IN /\ Chain(files, 0) /\ Chain(hand, e1) /\ Chain(q, e2) /\ Chain(rest, e3)
     /\ End(rest, e3) = n

LEMMA OrderedTimeline ==
  ASSUME NEW l \in Seq(Item), NEW h \in Seq(Item), NEW q \in Seq(Item), NEW g \in Seq(Item)
  PROVE  \A n : Chain(l \o h \o q \o g, 0) /\ End(l \o h \o q \o g, 0) = n <=> Ordered(l, h, q, g, n)
<1>1. l \o h \in Seq(Item) /\ (l \o h) \o q \in Seq(Item)
  BY ConcatProperties
<1>2. ASSUME NEW a \in Seq(Item), NEW b \in Seq(Item)
      PROVE  /\ Chain(a \o b, 0) <=> Chain(a, 0) /\ Chain(b, End(a, 0))
             /\ Chain(a, 0) /\ Chain(b, End(a, 0)) => End(a \o b, 0) = End(b, End(a, 0))
  <2>1. 0 \in Int
    OBVIOUS
  <2> QED
    BY <2>1, SplitChain, ConcatChain
<1>3. /\ Chain(l \o h, 0) <=> Chain(l, 0) /\ Chain(h, End(l, 0))
      /\ Chain(l, 0) /\ Chain(h, End(l, 0)) => End(l \o h, 0) = End(h, End(l, 0))
  BY <1>2
<1>4. /\ Chain((l \o h) \o q, 0) <=> Chain(l \o h, 0) /\ Chain(q, End(l \o h, 0))
      /\ Chain(l \o h, 0) /\ Chain(q, End(l \o h, 0))
           => End((l \o h) \o q, 0) = End(q, End(l \o h, 0))
  BY <1>1, <1>2
<1>5. /\ Chain(((l \o h) \o q) \o g, 0) <=> Chain((l \o h) \o q, 0) /\ Chain(g, End((l \o h) \o q, 0))
      /\ Chain((l \o h) \o q, 0) /\ Chain(g, End((l \o h) \o q, 0))
           => End(((l \o h) \o q) \o g, 0) = End(g, End((l \o h) \o q, 0))
  BY <1>1, <1>2
<1> QED
  BY Zenon, <1>3, <1>4, <1>5 DEF Ordered

\* The ends of the parts are integers.
LEMMA OrderedEnds ==
  ASSUME NEW l \in Seq(Item), NEW h \in Seq(Item), NEW q \in Seq(Item)
  PROVE  /\ End(l, 0) \in Int /\ End(h, End(l, 0)) \in Int
         /\ End(q, End(h, End(l, 0))) \in Int
<1>1. End(l, 0) \in Int
  <2>1. 0 \in Int
    OBVIOUS
  <2> QED
    BY <2>1, EndType
<1>2. End(h, End(l, 0)) \in Int
  BY <1>1, EndType
<1> QED
  BY <1>1, <1>2, EndType

LEMMA EmptyChain == \A p : Chain(<<>>, p) /\ End(<<>>, p) = p
  BY EmptyLen DEF Chain, End

LEMMA OrderedFlush ==
  ASSUME NEW l \in Seq(Item), NEW h \in Seq(Item), NEW q \in Seq(Item), NEW g \in Seq(Item),
         NEW n, Ordered(l, h, q, g, n)
  PROVE  Ordered(l, h, q \o g, <<>>, n)
<1> DEFINE e2 == End(h, End(l, 0))
<1>1. e2 \in Int
  BY OrderedEnds
<1>2. Chain(q, e2) /\ Chain(g, End(q, e2)) /\ End(g, End(q, e2)) = n
  BY DEF Ordered
<1>3. Chain(q \o g, e2) /\ End(q \o g, e2) = n
  BY <1>1, <1>2, ConcatChain
<1> QED
  BY <1>3, EmptyChain DEF Ordered

LEMMA OrderedAccept ==
  ASSUME NEW l \in Seq(Item), NEW h \in Seq(Item), NEW q \in Seq(Item), NEW n,
         Ordered(l, h, q, <<>>, n), NEW item \in Item, item.lo = n + 1
  PROVE  Ordered(l, h, Append(q, item), <<>>, item.hi)
<1> DEFINE e2 == End(h, End(l, 0))
<1>1. e2 \in Int
  BY OrderedEnds
<1>2. Chain(q, e2) /\ End(q, e2) = n
  BY EmptyChain DEF Ordered
<1>3. Chain(Append(q, item), e2) /\ End(Append(q, item), e2) = item.hi
  BY <1>1, <1>2, AppendChain
<1> QED
  BY <1>3, EmptyChain DEF Ordered

LEMMA OrderedGet ==
  ASSUME NEW l \in Seq(Item), NEW q \in Seq(Item), NEW g \in Seq(Item),
         NEW n, Ordered(l, <<>>, q, g, n), q # <<>>
  PROVE  Ordered(l, <<Head(q)>>, Tail(q), g, n)
<1> DEFINE e1 == End(l, 0)
<1>1. e1 \in Int
  <2>1. 0 \in Int
    OBVIOUS
  <2> QED
    BY <2>1, EndType
<1>2. Chain(l, 0) /\ Chain(q, e1) /\ Chain(g, End(q, e1)) /\ End(g, End(q, e1)) = n
  BY EmptyChain DEF Ordered
<1>3. /\ Chain(<<Head(q)>>, e1) /\ End(<<Head(q)>>, e1) = Head(q).hi
      /\ Chain(Tail(q), Head(q).hi) /\ End(Tail(q), Head(q).hi) = End(q, e1)
  BY <1>1, <1>2, TailChain
<1> QED
  BY <1>2, <1>3 DEF Ordered

LEMMA OrderedWrite ==
  ASSUME NEW l \in Seq(Item), NEW item \in Item, NEW q \in Seq(Item), NEW g \in Seq(Item),
         NEW n, Ordered(l, <<item>>, q, g, n)
  PROVE  Ordered(Append(l, item), <<>>, q, g, n)
<1>1. 0 \in Int
  OBVIOUS
<1>2. item.lo = End(l, 0) + 1 /\ End(<<item>>, End(l, 0)) = item.hi
  BY DEF Ordered, Chain, End
<1>3. Chain(Append(l, item), 0) /\ End(Append(l, item), 0) = item.hi
  BY <1>1, <1>2, AppendChain DEF Ordered
<1> QED
  BY <1>2, <1>3, EmptyChain DEF Ordered

\* An item that accounts for no frame leaves no hole.
LEMMA OrderedSkip ==
  ASSUME NEW l \in Seq(Item), NEW item \in Item, NEW q \in Seq(Item), NEW g \in Seq(Item),
         NEW n, Ordered(l, <<item>>, q, g, n), item.lo = item.hi + 1
  PROVE  Ordered(l, <<>>, q, g, n)
<1>1. 0 \in Int
  OBVIOUS
<1>2. item.lo = End(l, 0) + 1 /\ End(<<item>>, End(l, 0)) = item.hi
  BY DEF Ordered, Chain, End
<1>3. item.hi = End(l, 0)
  <2>1. End(l, 0) \in Int /\ item.lo \in Int /\ item.hi \in Int
    BY <1>1, EndType, ItemFields
  <2> QED
    BY <1>2, <2>1
<1> QED
  BY <1>2, <1>3, EmptyChain DEF Ordered

\* A frame that is lost opens a gap or extends the pending one.
LEMMA OrderedDrop ==
  ASSUME NEW l \in Seq(Item), NEW h \in Seq(Item), NEW q \in Seq(Item), NEW n \in Int,
         NEW first \in Int
  PROVE  /\ Ordered(l, h, q, <<>>, n) =>
              Ordered(l, h, q, <<[kind |-> "gap", lo |-> n + 1, hi |-> n + 1]>>, n + 1)
         /\ Ordered(l, h, q, <<[kind |-> "gap", lo |-> first, hi |-> n]>>, n) =>
              Ordered(l, h, q, <<[kind |-> "gap", lo |-> first, hi |-> n + 1]>>, n + 1)
<1> DEFINE e == End(q, End(h, End(l, 0)))
           one(lo, hi) == <<[kind |-> "gap", lo |-> lo, hi |-> hi]>>
<1>1. \A lo, hi, p : /\ Chain(one(lo, hi), p) <=> lo = p + 1
                     /\ End(one(lo, hi), p) = hi
  BY DEF Chain, End
<1> HIDE DEF one
<1>2. Ordered(l, h, q, <<>>, n) => e = n
  BY EmptyChain DEF Ordered
<1>3. Ordered(l, h, q, <<>>, n) => Ordered(l, h, q, one(n + 1, n + 1), n + 1)
  BY <1>1, <1>2 DEF Ordered
<1>4. Ordered(l, h, q, one(first, n), n) => Ordered(l, h, q, one(first, n + 1), n + 1)
  BY <1>1 DEF Ordered
<1> QED
  BY <1>3, <1>4 DEF one

-----------------------------------------------------------------------------
(* The inductive invariant.                                                 *)

\* Nothing exists yet of a recording that was not started.
Fresh ==
  /\ \A s \in Sessions : s > session => writer[s].pc = "none" /\ log[s] = <<>> /\ queue[s] = <<>>
  /\ \A a \in Api : stopper[a].q <= session

\* In a recording that no other thread crosses, its own writer is the only one
\* and serves its queue, ...
WriterAlone ==
  /\ \A s \in 1 .. session - 1 : ~Alive(s)
  /\ writer[session].q = session
  /\ writer[session].pc \in {"bind", "get"} => Hand(session) = <<>>
\* ... and at most one thread is in stop(), where the pending gap is flushed once.
StopperAlone ==
  \A a \in Api : ~Idle(a) =>
    /\ stopper[a].q = session /\ state \in {"FINALIZING", "ERROR"}
    /\ \A b \in Api : ~Idle(b) => b = a
    /\ stopper[a].pc = "gap" => stopper[a].gap = FlushItems
    /\ stopper[a].pc \in {"sentinel", "join"} => gap.n = 0

MarkersOnly(q) == \A k \in 1 .. Len(q) : q[k].kind = "stop" => q[k].lo = q[k].hi + 1

OrderedNow ==
  /\ Ordered(log[session], Hand(session), queue[session], Pending, received)
  /\ MarkersOnly(queue[session]) /\ MarkersOnly(Hand(session))
  /\ gap.n > 0 => gap.n = gap.last - gap.first + 1

Tracked == session > 0 /\ ~crossed[session]
OrderInv == TypeInv /\ Fresh /\ (Tracked => WriterAlone /\ StopperAlone /\ OrderedNow)

\* The types a recording's parts have.
LEMMA Parts ==
  ASSUME TypeInv, session > 0
  PROVE  /\ session \in Sessions /\ received \in Nat /\ gap \in Gap
         /\ log[session] \in Seq(Item) /\ Hand(session) \in Seq(Item)
         /\ queue[session] \in Seq(Item) /\ Pending \in Seq(Item) /\ FlushItems \in Seq(Item)
<1>1. session \in Sessions /\ received \in Nat /\ gap \in Gap /\ CounterType
  BY DEF TypeInv, TypeOK, CounterType, Sessions
<1>2. FlushItems \in Seq(Item)
  BY <1>1, ItemTypes
<1>3. Pending \in Seq(Item)
  BY <1>2 DEF Pending
<1>4. log[session] \in Seq(Item) /\ Hand(session) \in Seq(Item) /\ queue[session] \in Seq(Item)
  BY <1>1 DEF TypeInv, TypeOK, FileType, QueueType, ThreadType, Writer, Hand
<1> QED
  BY <1>1, <1>2, <1>3, <1>4

LEMMA OrderInvImplies == OrderInv => AccountedInOrder
<1> SUFFICES ASSUME OrderInv, Tracked
             PROVE  InOrder
  BY DEF AccountedInOrder, Tracked
<1>1. TypeInv /\ session > 0 /\ OrderedNow
  BY DEF OrderInv, Tracked
<1>2. Chain(Timeline, 0) /\ End(Timeline, 0) = received
  BY <1>1, Parts, OrderedTimeline DEF Timeline, OrderedNow
<1> QED
  BY <1>1, <1>2 DEF InOrder, OrderedNow

LEMMA InitOrder == Init => OrderInv
<1> SUFFICES ASSUME Init PROVE OrderInv
  OBVIOUS
<1>1. Fresh
  BY DEF Init, Fresh
<1>2. ~Tracked
  BY DEF Init, Tracked
<1> QED
  BY <1>1, <1>2, InitTypeInv DEF OrderInv

LEMMA StartOrder ==
  ASSUME OrderInv, NEW a \in Api, Start(a)
  PROVE  OrderInv'
<1> DEFINE t == session + 1
<1>1. TypeInv /\ Fresh /\ TypeInv'
  BY StartTypeInv DEF OrderInv
<1>2. t \in Sessions /\ session' = t /\ t > session /\ session \in Nat
  BY <1>1, BoundsAssumption DEF Start, TypeInv, TypeOK, CounterType, Sessions
<1>3. log'[t] = <<>> /\ queue'[t] = <<>> /\ UNCHANGED <<log, queue, stopper>>
  BY <1>1, <1>2 DEF Start, Fresh, disk
<1>4. /\ writer'[t] = [pc |-> "bind", q |-> t, hand |-> <<>>]
      /\ \A s \in Sessions \ {t} : writer'[s] = writer[s]
  BY <1>1, <1>2 DEF Start, WriterAt, TypeInv, TypeOK, ThreadType
<1>5. Fresh'
  <2>1. \A b \in Api : stopper[b].q \in Nat
    BY <1>1 DEF TypeInv, TypeOK, ThreadType, Stopper
  <2> QED
    BY <1>1, <1>2, <1>3, <1>4, <2>1 DEF Fresh, Sessions
<1>6. ASSUME Tracked' PROVE (WriterAlone /\ StopperAlone /\ OrderedNow)'
  <2>1. (\A s \in 1 .. session : ~Alive(s)) /\ \A b \in Api : Idle(b)
    BY <1>1, <1>2, <1>6 DEF Start, Tracked, TypeInv, TypeOK, FileType
  <2>2. WriterAlone'
    <3>1. \A s \in 1 .. t - 1 : s \in 1 .. session /\ s \in Sessions \ {t}
      BY <1>2, BoundsAssumption DEF Sessions
    <3> QED
      BY <1>2, <1>4, <2>1, <3>1 DEF WriterAlone, Alive, Hand
  <2>3. StopperAlone' /\ Pending' = <<>>
    BY <1>3, <2>1 DEF StopperAlone, Idle, Pending, GapQueued, FlushItems, Start, NoGap
  <2>4. Ordered(<<>>, <<>>, <<>>, <<>>, 0)
    BY EmptyChain DEF Ordered
  <2>5. MarkersOnly(<<>>)
    BY DEF MarkersOnly
  <2>6. received' = 0 /\ gap'.n = 0
    BY DEF Start, NoGap
  <2>7. Hand(session)' = <<>>
    BY <1>2, <1>4 DEF Hand
  <2> QED
    BY <1>2, <1>3, <2>2, <2>3, <2>4, <2>5, <2>6, <2>7 DEF OrderedNow
<1> QED
  BY <1>1, <1>5, <1>6 DEF OrderInv

LEMMA MarkersConcat ==
  ASSUME NEW q \in Seq(Item), NEW r \in Seq(Item), MarkersOnly(q), MarkersOnly(r)
  PROVE  MarkersOnly(q \o r)
<1>1. Len(q) \in Nat /\ Len(r) \in Nat
  BY LenProperties
<1>2. /\ Len(q \o r) = Len(q) + Len(r)
      /\ \A i \in 1 .. Len(q) + Len(r) : (q \o r)[i] = IF i <= Len(q) THEN q[i] ELSE r[i - Len(q)]
  BY ConcatProperties
<1>3. \A i \in 1 .. Len(q) + Len(r) : i <= Len(q) => i \in 1 .. Len(q)
  BY <1>1
<1>4. \A i \in 1 .. Len(q) + Len(r) : ~(i <= Len(q)) => i - Len(q) \in 1 .. Len(r)
  BY <1>1
<1> QED
  BY <1>2, <1>3, <1>4 DEF MarkersOnly

LEMMA MarkersOne ==
  ASSUME NEW item \in Item, item.kind = "stop" => item.lo = item.hi + 1
  PROVE  MarkersOnly(<<item>>)
  BY DEF MarkersOnly

LEMMA FlushMarkers ==
  MarkersOnly(<<>>) /\ MarkersOnly(FlushItems)
  BY DEF MarkersOnly, FlushItems, GapItem

\* An operation of the parser thread runs outside stop().
LEMMA RecordingPending ==
  ASSUME StopperAlone, state = "RECORDING"
  PROVE  (\A a \in Api : Idle(a)) /\ Pending = FlushItems
<1>1. \A a \in Api : Idle(a)
  BY DEF StopperAlone
<1> QED
  BY <1>1 DEF Pending, GapQueued, Idle

\* What a step that touches no writer and no file leaves as it is.
LEMMA WritersKept ==
  ASSUME Fresh, TypeInv, UNCHANGED <<session, writer, log>>,
         \A s \in Sessions : s > session => queue'[s] = queue[s],
         \A a \in Api : stopper'[a].q <= session
  PROVE  Fresh' /\ (WriterAlone => WriterAlone') /\ Hand(session)' = Hand(session)
  BY DEF Fresh, WriterAlone, Alive, Hand

\* A frame that finds no room, in terms of the timeline.
LEMMA DropOrdered ==
  ASSUME NEW l \in Seq(Item), NEW h \in Seq(Item), NEW q \in Seq(Item),
         received \in Nat, NEW pending \in Gap,
         NEW items, items = IF pending.n > 0
                              THEN <<[kind |-> "gap", lo |-> pending.first, hi |-> pending.last]>> ELSE <<>>,
         Ordered(l, h, q, items, received),
         pending.n > 0 => pending.n = pending.last - pending.first + 1,
         NoteDrop(pending, received + 1)
  PROVE  /\ Ordered(l, h, q, FlushItems', received + 1)
         /\ gap'.n > 0 => gap'.n = gap'.last - gap'.first + 1
<1>1. received \in Int /\ pending.first \in Int /\ pending.last \in Int /\ pending.n \in Nat
  BY BoundsAssumption DEF Gap, Positions
<1>2. CASE pending.n = 0
  <2>1. items = <<>>
    BY <1>2
  <2>2. gap' = [n |-> 1, first |-> received + 1, last |-> received + 1]
    BY <1>2 DEF NoteDrop
  <2>3. FlushItems' = <<[kind |-> "gap", lo |-> received + 1, hi |-> received + 1]>>
    BY <2>2 DEF FlushItems, GapItem
  <2>4. Ordered(l, h, q, FlushItems', received + 1)
    BY <1>1, <2>1, <2>3, OrderedDrop
  <2> QED
    BY <1>1, <2>2, <2>4
<1>3. CASE pending.n > 0
  <2>1. items = <<[kind |-> "gap", lo |-> pending.first, hi |-> pending.last]>>
    BY <1>3
  <2>2. gap' = [n |-> pending.n + 1, first |-> pending.first, last |-> received + 1]
    BY <1>1, <1>3 DEF NoteDrop
  <2>3. FlushItems' = <<[kind |-> "gap", lo |-> pending.first, hi |-> received + 1]>>
    BY <1>1, <1>3, <2>2 DEF FlushItems, GapItem
  <2>4. pending.last = received
    <3>1. \A item, p : End(<<item>>, p) = item.hi
      BY DEF End
    <3> QED
      BY <2>1, <3>1 DEF Ordered
  <2>5. Ordered(l, h, q, FlushItems', received + 1)
    BY <1>1, <2>1, <2>3, <2>4, OrderedDrop
  <2>6. gap'.n = gap'.last - gap'.first + 1
    BY <1>1, <1>3, <2>2, <2>4
  <2> QED
    BY <2>5, <2>6
<1> QED
  BY <1>1, <1>2, <1>3

LEMMA AppendAsConcat ==
  ASSUME NEW q \in Seq(Item), NEW item \in Item
  PROVE  Append(q, item) = q \o <<item>>
  OBVIOUS

LEMMA EnqueueEffect ==
  ASSUME QueueType, NEW s \in Sessions, NEW items, EnqueueAt(s, items)
  PROVE  queue'[s] = queue[s] \o items /\ \A t \in Sessions \ {s} : queue'[t] = queue[t]
  BY DEF QueueType, EnqueueAt

\* The pending gap and an accepted item enter the queue together.
LEMMA AcceptOrdered ==
  ASSUME NEW l \in Seq(Item), NEW h \in Seq(Item), NEW q \in Seq(Item), NEW g \in Seq(Item),
         received \in Nat, NEW item \in Item, item.lo = received + 1,
         item.kind = "stop" => item.lo = item.hi + 1,
         Ordered(l, h, q, g, received), MarkersOnly(q), MarkersOnly(g)
  PROVE  /\ Ordered(l, h, q \o Append(g, item), <<>>, item.hi)
         /\ MarkersOnly(q \o Append(g, item))
<1>1. q \o g \in Seq(Item) /\ <<item>> \in Seq(Item)
  BY ConcatProperties
<1>2. Append(g, item) = g \o <<item>> /\ Append(q \o g, item) = (q \o g) \o <<item>>
  BY <1>1, AppendAsConcat
<1>3. q \o Append(g, item) = Append(q \o g, item)
  BY <1>1, <1>2, ConcatAssociative
<1>4. Ordered(l, h, Append(q \o g, item), <<>>, item.hi)
  BY <1>1, OrderedFlush, OrderedAccept
<1>5. MarkersOnly((q \o g) \o <<item>>)
  BY <1>1, MarkersOne, MarkersConcat
<1> QED
  BY <1>2, <1>3, <1>4, <1>5

LEMMA RecordFrameOrder ==
  ASSUME OrderInv, RecordFrame
  PROVE  OrderInv'
<1> DEFINE p == received + 1
           frame == [kind |-> "frame", lo |-> p, hi |-> p]
           l == log[session]
           h == Hand(session)
           q == queue[session]
<1>1. TypeInv /\ Fresh /\ TypeInv'
  BY RecordFrameTypeInv DEF OrderInv
<1>2. /\ UNCHANGED <<state, session, writer, log, stopper, crossed>>
      /\ received' = p /\ state = "RECORDING" /\ session > 0
  BY <1>1 DEF RecordFrame, disk, history, TypeInv, Support
<1>3. /\ session \in Sessions /\ received \in Nat /\ gap \in Gap
      /\ l \in Seq(Item) /\ h \in Seq(Item) /\ q \in Seq(Item) /\ FlushItems \in Seq(Item)
  BY <1>1, <1>2, Parts
<1>4. \A s \in Sessions : s > session => queue'[s] = queue[s]
  <2>1. UNCHANGED queue \/ EnqueueAt(session, FlushItems) \/ EnqueueAt(session, Append(FlushItems, frame))
    BY DEF RecordFrame, Enqueue
  <2>2. \A s \in Sessions : s > session => s \in Sessions \ {session}
    BY <1>3 DEF Sessions
  <2> QED
    BY <1>1, <1>3, <2>1, <2>2, EnqueueEffect DEF TypeInv, TypeOK
<1>5. Fresh' /\ (WriterAlone => WriterAlone') /\ Hand(session)' = h
  BY <1>1, <1>2, <1>4, WritersKept DEF Fresh
<1>6. ASSUME Tracked' PROVE (WriterAlone /\ StopperAlone /\ OrderedNow)'
  <2>1. WriterAlone /\ StopperAlone /\ OrderedNow
    BY <1>2, <1>6 DEF Tracked, OrderInv
  <2>2. (\A a \in Api : Idle(a)) /\ Pending = FlushItems
    BY <1>2, <2>1, RecordingPending
  <2>3. StopperAlone' /\ Pending' = FlushItems'
    BY <1>2, <2>2 DEF StopperAlone, Pending, GapQueued, Idle
  <2>4. /\ Ordered(l, h, q, FlushItems, received) /\ MarkersOnly(q) /\ MarkersOnly(h)
        /\ gap.n > 0 => gap.n = gap.last - gap.first + 1
    BY <2>1, <2>2 DEF OrderedNow
  <2>5. /\ Ordered(l, h, queue'[session], FlushItems', p) /\ MarkersOnly(queue'[session])
        /\ gap'.n > 0 => gap'.n = gap'.last - gap'.first + 1
    <3>1. CASE Room < Len(FlushItems) /\ NoteDrop(gap, p) /\ UNCHANGED <<queue, unfinished>>
      <4>1. FlushItems = IF gap.n > 0 THEN <<[kind |-> "gap", lo |-> gap.first, hi |-> gap.last]>>
                                      ELSE <<>>
        BY DEF FlushItems, GapItem
      <4> QED
        BY <1>3, <2>4, <3>1, <4>1, DropOrdered
    <3>2. CASE Room = Len(FlushItems) /\ NoteDrop(NoGap, p) /\ Enqueue(FlushItems)
      <4>1. queue'[session] = q \o FlushItems
        BY <1>1, <1>3, <3>2, EnqueueEffect DEF Enqueue, TypeInv, TypeOK
      <4>2. /\ q \o FlushItems \in Seq(Item) /\ MarkersOnly(q \o FlushItems)
            /\ Ordered(l, h, q \o FlushItems, <<>>, received)
        BY <1>3, <2>4, OrderedFlush, ConcatProperties, FlushMarkers, MarkersConcat
      <4>3. NoGap.n = 0 /\ NoGap \in Gap
        BY NoGapType DEF NoGap
      <4>4. /\ <<>> = IF NoGap.n > 0 THEN <<[kind |-> "gap", lo |-> NoGap.first, hi |-> NoGap.last]>>
                                     ELSE <<>>
            /\ NoGap.n > 0 => NoGap.n = NoGap.last - NoGap.first + 1
        BY <4>3
      <4>5. NoteDrop(NoGap, p)
        BY <3>2
      <4>6. /\ Ordered(l, h, q \o FlushItems, FlushItems', p)
            /\ gap'.n > 0 => gap'.n = gap'.last - gap'.first + 1
        BY <1>3, <4>2, <4>3, <4>4, <4>5, DropOrdered
      <4> QED
        BY <4>1, <4>2, <4>6
    <3>3. CASE /\ Room >= Len(FlushItems) + 1 /\ Enqueue(Append(FlushItems, frame))
               /\ gap' = NoGap /\ UNCHANGED dropped
      <4>1. frame \in Item
        BY <1>1, ItemTypes DEF RecordFrame, TypeInv, TypeOK
      <4>2. queue'[session] = q \o Append(FlushItems, frame)
        BY <1>1, <1>3, <3>3, EnqueueEffect DEF Enqueue, TypeInv, TypeOK
      <4>3. frame.lo = p /\ frame.hi = p /\ frame.kind # "stop"
        OBVIOUS
      <4>4. /\ Ordered(l, h, q \o Append(FlushItems, frame), <<>>, p)
            /\ MarkersOnly(q \o Append(FlushItems, frame))
        BY <1>3, <2>4, <4>1, <4>3, AcceptOrdered, FlushMarkers
      <4>5. FlushItems' = <<>> /\ gap'.n = 0
        BY <3>3 DEF FlushItems, NoGap
      <4> QED
        BY <4>2, <4>4, <4>5
    <3> QED
      BY <3>1, <3>2, <3>3 DEF RecordFrame
  <2> QED
    BY <1>2, <1>5, <2>1, <2>3, <2>4, <2>5 DEF OrderedNow
<1> QED
  BY <1>1, <1>5, <1>6 DEF OrderInv

LEMMA RecordEventOrder ==
  ASSUME OrderInv, RecordEvent
  PROVE  OrderInv'
<1> DEFINE event == Marker("event", received)
           items == Append(FlushItems, event)
           l == log[session]
           h == Hand(session)
           q == queue[session]
<1>1. TypeInv /\ Fresh /\ TypeInv'
  BY RecordEventTypeInv DEF OrderInv
<1>2. /\ UNCHANGED <<session, received, writer, log, stopper, crossed>>
      /\ state = "RECORDING" /\ session > 0
  BY <1>1 DEF RecordEvent, disk, counters, TypeInv, Support
<1>3. /\ session \in Sessions /\ received \in Nat /\ gap \in Gap
      /\ l \in Seq(Item) /\ h \in Seq(Item) /\ q \in Seq(Item) /\ FlushItems \in Seq(Item)
  BY <1>1, <1>2, Parts
<1>4. \/ EnqueueAt(session, items) /\ gap' = NoGap
      \/ EnqueueAt(session, FlushItems) /\ gap' = NoGap
      \/ UNCHANGED <<queue, gap>>
  BY DEF RecordEvent, Enqueue
<1>5. \A s \in Sessions : s > session => queue'[s] = queue[s]
  <2>1. \A s \in Sessions : s > session => s \in Sessions \ {session}
    BY <1>3 DEF Sessions
  <2> QED
    BY <1>1, <1>3, <1>4, <2>1, EnqueueEffect DEF TypeInv, TypeOK
<1>6. Fresh' /\ (WriterAlone => WriterAlone') /\ Hand(session)' = h
  BY <1>1, <1>2, <1>5, WritersKept DEF Fresh
<1>7. ASSUME Tracked' PROVE (WriterAlone /\ StopperAlone /\ OrderedNow)'
  <2>1. WriterAlone /\ StopperAlone /\ OrderedNow
    BY <1>2, <1>7 DEF Tracked, OrderInv
  <2>2. (\A a \in Api : Idle(a)) /\ Pending = FlushItems
    BY <1>2, <2>1, RecordingPending
  <2>3. StopperAlone' /\ Pending' = FlushItems'
    BY <1>2, <2>2 DEF StopperAlone, Pending, GapQueued, Idle
  <2>4. /\ Ordered(l, h, q, FlushItems, received) /\ MarkersOnly(q) /\ MarkersOnly(h)
        /\ gap.n > 0 => gap.n = gap.last - gap.first + 1
    BY <2>1, <2>2 DEF OrderedNow
  <2>5. gap' = NoGap => FlushItems' = <<>> /\ gap'.n = 0
    BY DEF FlushItems, NoGap
  <2>6. /\ Ordered(l, h, queue'[session], FlushItems', received) /\ MarkersOnly(queue'[session])
        /\ gap'.n > 0 => gap'.n = gap'.last - gap'.first + 1
    <3>1. CASE EnqueueAt(session, items) /\ gap' = NoGap
      <4>1. event \in Item /\ event.lo = received + 1 /\ event.hi = received
        BY <1>1, ItemTypes DEF TypeInv, TypeOK, Marker
      <4>2. queue'[session] = q \o items
        BY <1>1, <1>3, <3>1, EnqueueEffect DEF TypeInv, TypeOK
      <4>3. event.kind = "stop" => event.lo = event.hi + 1
        BY <4>1
      <4>4. Ordered(l, h, q \o items, <<>>, received) /\ MarkersOnly(q \o items)
        BY <1>3, <2>4, <4>1, <4>3, AcceptOrdered, FlushMarkers
      <4> QED
        BY <2>5, <3>1, <4>2, <4>4
    <3>2. CASE EnqueueAt(session, FlushItems) /\ gap' = NoGap
      <4>1. queue'[session] = q \o FlushItems
        BY <1>1, <1>3, <3>2, EnqueueEffect DEF TypeInv, TypeOK
      <4>2. Ordered(l, h, q \o FlushItems, <<>>, received) /\ MarkersOnly(q \o FlushItems)
        BY <1>3, <2>4, OrderedFlush, FlushMarkers, MarkersConcat
      <4> QED
        BY <2>5, <3>2, <4>1, <4>2
    <3>3. CASE UNCHANGED <<queue, gap>>
      BY <2>4, <3>3 DEF FlushItems, GapItem
    <3> QED
      BY <1>4, <3>1, <3>2, <3>3
  <2> QED
    BY <1>2, <1>6, <2>1, <2>3, <2>4, <2>6 DEF OrderedNow
<1> QED
  BY <1>1, <1>6, <1>7 DEF OrderInv

\* A step of a thread in stop() that adds nothing to a queue keeps the timeline if
\* it keeps what is pending.
LEMMA TimelineKept ==
  ASSUME UNCHANGED <<session, received, writer, log, queue>>, OrderedNow,
         Pending' = Pending, gap'.n > 0 => gap' = gap
  PROVE  OrderedNow'
  BY DEF OrderedNow, Hand

LEMMA StopBeginOrder ==
  ASSUME OrderInv, NEW a \in Api, StopBegin(a)
  PROVE  OrderInv'
<1>1. TypeInv /\ Fresh /\ TypeInv'
  BY StopBeginTypeInv DEF OrderInv
<1>2. /\ UNCHANGED <<session, received, gap, queue, writer, log>> /\ state' = "FINALIZING"
      /\ session > 0
  BY <1>1 DEF StopBegin, disk, counters, TypeInv, Support
<1>3. /\ stopper'[a].pc \in {"gap", "sentinel"}
      /\ stopper'[a].pc = "sentinel" => ~(gap.n > 0)
      /\ stopper'[a].gap = FlushItems /\ stopper'[a].q = session
      /\ \A b \in Api \ {a} : stopper'[b] = stopper[b]
  BY <1>1 DEF StopBegin, StopperAt, TypeInv, TypeOK, ThreadType
<1>4. session \in Sessions /\ gap \in Gap
  BY <1>1, <1>2, Parts
<1>5. \A b \in Api : stopper'[b].q <= session
  <2>1. session <= session
    BY <1>4 DEF Sessions
  <2> QED
    BY <1>1, <1>3, <2>1 DEF Fresh
<1>6. Fresh' /\ (WriterAlone => WriterAlone')
  BY <1>1, <1>2, <1>5, WritersKept
<1>7. ASSUME Tracked' PROVE (WriterAlone /\ StopperAlone /\ OrderedNow)'
  <2>1. ~crossed[session] /\ \A b \in Api : Idle(b)
    BY <1>1, <1>2, <1>4, <1>7 DEF StopBegin, Tracked, TypeInv, TypeOK, FileType
  <2>2. WriterAlone /\ OrderedNow
    BY <1>2, <2>1 DEF OrderInv, Tracked
  <2>3. FlushItems' = FlushItems /\ gap.n \in Nat
    BY <1>2, <1>4 DEF FlushItems, GapItem, Gap
  <2>4. \A b \in Api : ~Idle(b)' => b = a
    BY <1>3, <2>1 DEF Idle
  <2>5. StopperAlone'
    BY <1>2, <1>3, <2>3, <2>4 DEF StopperAlone
  <2>6. ~GapQueued /\ ~GapQueued'
    BY <1>3, <2>1 DEF GapQueued, Idle
  <2>7. Pending' = Pending
    BY <2>3, <2>6 DEF Pending
  <2> QED
    BY <1>2, <1>6, <2>2, <2>5, <2>7, TimelineKept
<1> QED
  BY <1>1, <1>6, <1>7 DEF OrderInv

LEMMA StopPutGapOrder ==
  ASSUME OrderInv, NEW a \in Api, StopPutGap(a)
  PROVE  OrderInv'
<1>1. TypeInv /\ Fresh /\ TypeInv'
  BY StopPutGapTypeInv DEF OrderInv
<1>2. /\ UNCHANGED <<state, session, received, gap, writer, log, crossed>>
      /\ session > 0 /\ stopper[a].q \in Sessions /\ ~Idle(a)
  BY <1>1 DEF StopPutGap, disk, counters, history, TypeInv, Support, TypeOK, ThreadType, Stopper, Idle, Sessions
<1>3. /\ stopper'[a].pc = "clear" /\ stopper'[a].q = stopper[a].q
      /\ \A b \in Api \ {a} : stopper'[b] = stopper[b]
  BY <1>1 DEF StopPutGap, StopperAt, TypeInv, TypeOK, ThreadType
<1>4. /\ session \in Sessions /\ log[session] \in Seq(Item) /\ Hand(session) \in Seq(Item)
      /\ queue[session] \in Seq(Item) /\ FlushItems \in Seq(Item)
  BY <1>1, <1>2, Parts
<1>5. /\ queue'[stopper[a].q] = queue[stopper[a].q] \o stopper[a].gap
      /\ \A t \in Sessions \ {stopper[a].q} : queue'[t] = queue[t]
  BY <1>1, <1>2, EnqueueEffect DEF StopPutGap, TypeInv, TypeOK
<1>6. Fresh' /\ (WriterAlone => WriterAlone') /\ Hand(session)' = Hand(session)
  <2>1. \A s \in Sessions : s > session => s \in Sessions \ {stopper[a].q}
    BY <1>1, <1>2, <1>4 DEF Fresh, Sessions
  <2> QED
    BY <1>1, <1>2, <1>3, <1>5, <2>1, WritersKept DEF Fresh
<1>7. ASSUME Tracked' PROVE (WriterAlone /\ StopperAlone /\ OrderedNow)'
  <2>1. WriterAlone /\ StopperAlone /\ OrderedNow
    BY <1>2, <1>7 DEF Tracked, OrderInv
  <2>2. /\ stopper[a].q = session /\ stopper[a].gap = FlushItems
        /\ state \in {"FINALIZING", "ERROR"} /\ \A b \in Api : ~Idle(b) => b = a
    BY <1>2, <2>1 DEF StopperAlone, StopPutGap
  <2>3. \A b \in Api : ~Idle(b)' => b = a
    BY <1>3, <2>2 DEF Idle
  <2>4. StopperAlone'
    BY <1>2, <1>3, <2>2, <2>3 DEF StopperAlone
  <2>5. ~GapQueued /\ GapQueued'
    BY <1>3, <2>2 DEF GapQueued, Idle, StopPutGap
  <2>6. Pending = FlushItems /\ Pending' = <<>>
    BY <2>5 DEF Pending
  <2>7. Ordered(log[session], Hand(session), queue'[session], <<>>, received)
    <3>1. queue'[session] = queue[session] \o FlushItems
      BY <1>5, <2>2
    <3>2. Ordered(log[session], Hand(session), queue[session], FlushItems, received)
      BY <2>1, <2>6 DEF OrderedNow
    <3> QED
      BY <1>4, <3>1, <3>2, OrderedFlush
  <2>8. MarkersOnly(queue'[session])
    BY <1>4, <1>5, <2>1, <2>2, FlushMarkers, MarkersConcat DEF OrderedNow
  <2> QED
    BY <1>2, <1>6, <2>1, <2>4, <2>6, <2>7, <2>8 DEF OrderedNow
<1> QED
  BY <1>1, <1>6, <1>7 DEF OrderInv

LEMMA StopClearGapOrder ==
  ASSUME OrderInv, NEW a \in Api, StopClearGap(a)
  PROVE  OrderInv'
<1>1. TypeInv /\ Fresh /\ TypeInv'
  BY StopClearGapTypeInv DEF OrderInv
<1>2. /\ UNCHANGED <<state, session, received, queue, writer, log, crossed>>
      /\ gap' = NoGap /\ session > 0 /\ ~Idle(a)
  BY <1>1 DEF StopClearGap, disk, counters, history, TypeInv, Support, Idle
<1>3. /\ stopper'[a].pc = "sentinel" /\ stopper'[a].q = session
      /\ \A b \in Api \ {a} : stopper'[b] = stopper[b]
  BY <1>1 DEF StopClearGap, StopperAt, TypeInv, TypeOK, ThreadType
<1>4. Fresh' /\ (WriterAlone => WriterAlone')
  <2>1. session \in Sessions /\ session <= session
    BY <1>1, <1>2, Parts DEF Sessions
  <2> QED
    BY <1>1, <1>2, <1>3, <2>1, WritersKept DEF Fresh
<1>5. ASSUME Tracked' PROVE (WriterAlone /\ StopperAlone /\ OrderedNow)'
  <2>1. WriterAlone /\ StopperAlone /\ OrderedNow
    BY <1>2, <1>5 DEF Tracked, OrderInv
  <2>2. state \in {"FINALIZING", "ERROR"} /\ \A b \in Api : ~Idle(b) => b = a
    BY <1>2, <2>1 DEF StopperAlone
  <2>3. \A b \in Api : ~Idle(b)' => b = a
    BY <1>3, <2>2 DEF Idle
  <2>4. gap'.n = 0 /\ FlushItems' = <<>>
    BY <1>2 DEF FlushItems, NoGap
  <2>5. StopperAlone'
    BY <1>2, <1>3, <2>2, <2>3, <2>4 DEF StopperAlone
  <2>6. Pending = <<>> /\ Pending' = <<>>
    BY <2>4 DEF Pending, GapQueued, StopClearGap
  <2> QED
    BY <1>2, <1>4, <2>1, <2>4, <2>5, <2>6, TimelineKept
<1> QED
  BY <1>1, <1>4, <1>5 DEF OrderInv

LEMMA StopPutSentinelOrder ==
  ASSUME OrderInv, NEW a \in Api, StopPutSentinel(a)
  PROVE  OrderInv'
<1> DEFINE marker == Marker("stop", received)
<1>1. TypeInv /\ Fresh /\ TypeInv'
  BY StopPutSentinelTypeInv DEF OrderInv
<1>2. /\ UNCHANGED <<state, session, received, gap, writer, log, crossed>>
      /\ session > 0 /\ stopper[a].q \in Sessions /\ ~Idle(a)
  <2>1. ~Idle(a) /\ stopper[a].q \in 0 .. MaxSessions
    BY <1>1 DEF StopPutSentinel, TypeInv, TypeOK, ThreadType, Stopper, Idle
  <2>2. session > 0 /\ stopper[a].q > 0
    BY <1>1, <2>1 DEF TypeInv, Support
  <2>3. stopper[a].q \in Sessions
    BY <2>1, <2>2 DEF Sessions
  <2> QED
    BY <2>1, <2>2, <2>3 DEF StopPutSentinel, disk, counters, history
<1>3. /\ stopper'[a].pc = "join" /\ stopper'[a].q = session
      /\ \A b \in Api \ {a} : stopper'[b] = stopper[b]
  BY <1>1 DEF StopPutSentinel, StopperAt, TypeInv, TypeOK, ThreadType
<1>4. /\ session \in Sessions /\ log[session] \in Seq(Item) /\ Hand(session) \in Seq(Item)
      /\ queue[session] \in Seq(Item) /\ received \in Nat /\ gap \in Gap
  BY <1>1, <1>2, Parts
<1>5. /\ queue'[stopper[a].q] = queue[stopper[a].q] \o <<marker>>
      /\ \A t \in Sessions \ {stopper[a].q} : queue'[t] = queue[t]
  BY <1>1, <1>2, EnqueueEffect DEF StopPutSentinel, TypeInv, TypeOK
<1>6. Fresh' /\ (WriterAlone => WriterAlone') /\ Hand(session)' = Hand(session)
  <2>1. \A s \in Sessions : s > session => s \in Sessions \ {stopper[a].q}
    BY <1>1, <1>2, <1>4 DEF Fresh, Sessions
  <2>2. session <= session
    BY <1>4 DEF Sessions
  <2> QED
    BY <1>1, <1>2, <1>3, <1>5, <2>1, <2>2, WritersKept DEF Fresh
<1>7. ASSUME Tracked' PROVE (WriterAlone /\ StopperAlone /\ OrderedNow)'
  <2>1. WriterAlone /\ StopperAlone /\ OrderedNow
    BY <1>2, <1>7 DEF Tracked, OrderInv
  <2>2. /\ stopper[a].q = session /\ gap.n = 0
        /\ state \in {"FINALIZING", "ERROR"} /\ \A b \in Api : ~Idle(b) => b = a
    BY <1>2, <2>1 DEF StopperAlone, StopPutSentinel
  <2>3. \A b \in Api : ~Idle(b)' => b = a
    BY <1>3, <2>2 DEF Idle
  <2>4. StopperAlone'
    BY <1>2, <1>3, <2>2, <2>3 DEF StopperAlone
  <2>5. Pending = <<>> /\ Pending' = <<>>
    BY <1>2, <2>2 DEF Pending, FlushItems
  <2>6. marker \in Item /\ marker.lo = received + 1 /\ marker.hi = received
    BY <1>1, ItemTypes DEF TypeInv, TypeOK, Marker
  <2>7. queue'[session] = queue[session] \o Append(<<>>, marker)
    BY <1>5, <2>2, <2>6
  <2>8. Ordered(log[session], Hand(session), queue[session], <<>>, received)
        /\ MarkersOnly(queue[session]) /\ <<>> \in Seq(Item)
    BY <2>1, <2>5 DEF OrderedNow
  <2>9. Ordered(log[session], Hand(session), queue'[session], <<>>, received)
        /\ MarkersOnly(queue'[session])
    BY <1>4, <2>6, <2>7, <2>8, AcceptOrdered, FlushMarkers
  <2> QED
    BY <1>2, <1>6, <2>1, <2>2, <2>4, <2>5, <2>9 DEF OrderedNow
<1> QED
  BY <1>1, <1>6, <1>7 DEF OrderInv

\* A thread that leaves stop() after the pending gap was dealt with.
LEMMA ReturnOrder ==
  ASSUME OrderInv, TypeInv', NEW a \in Api, Return(a), stopper[a].pc \in {"gap", "sentinel", "join"},
         UNCHANGED <<session, received, gap, queue, writer, log, crossed>>
  PROVE  OrderInv'
<1>1. TypeInv /\ Fresh /\ session \in Sessions
  BY Parts DEF OrderInv, TypeInv, Support, Idle
<1>2. /\ stopper'[a].pc = "idle" /\ stopper'[a].q = 0
      /\ \A b \in Api \ {a} : stopper'[b] = stopper[b]
  BY <1>1 DEF Return, StopperAt, TypeInv, TypeOK, ThreadType
<1>3. Fresh' /\ (WriterAlone => WriterAlone')
  <2>1. 0 <= session
    BY <1>1 DEF Sessions
  <2> QED
    BY <1>1, <1>2, <2>1, WritersKept DEF Fresh
<1>4. ASSUME Tracked' PROVE (WriterAlone /\ StopperAlone /\ OrderedNow)'
  <2>1. WriterAlone /\ StopperAlone /\ OrderedNow
    BY <1>4 DEF Tracked, OrderInv
  <2>2. \A b \in Api : Idle(b)'
    BY <1>2, <2>1 DEF StopperAlone, Idle
  <2>3. StopperAlone'
    BY <2>2 DEF StopperAlone
  <2>4. ~GapQueued /\ ~GapQueued'
    BY <2>1, <2>2 DEF StopperAlone, GapQueued, Idle
  <2>5. Pending' = Pending
    BY <2>4 DEF Pending, FlushItems, GapItem
  <2> QED
    BY <1>3, <2>1, <2>3, <2>5, TimelineKept
<1> QED
  BY <1>1, <1>3, <1>4 DEF OrderInv

LEMMA StopReturnsOrder ==
  ASSUME OrderInv, NEW a \in Api, StopPutTimesOut(a) \/ StopFinish(a)
  PROVE  OrderInv'
<1>1. TypeInv'
  BY StopPutTimesOutTypeInv, StopFinishTypeInv DEF OrderInv
<1> QED
  BY <1>1, ReturnOrder DEF StopPutTimesOut, PutTimesOut, StopFinish, counters, disk, history

\* A writer that runs was started; in a recording nobody crosses it is the
\* recording's own.
LEMMA RunningWriter ==
  ASSUME TypeInv, Fresh, NEW s \in Sessions, Alive(s)
  PROVE  /\ session > 0 /\ session \in Sessions /\ ~(s > session)
         /\ WriterAlone => s = session
<1>1. session > 0 /\ writer[s].pc # "none"
  BY DEF Alive, TypeInv, Support
<1>2. session \in Sessions
  BY <1>1, Parts
<1>3. ~(s > session)
  BY <1>1 DEF Fresh
<1>4. WriterAlone => ~(s \in 1 .. session - 1)
  BY DEF WriterAlone
<1> QED
  BY <1>1, <1>2, <1>3, <1>4 DEF Sessions

\* What a step of writer s does to the other threads and recordings.
LEMMA WriterFresh ==
  ASSUME TypeInv, Fresh, NEW s \in Sessions, Alive(s), UNCHANGED <<session, stopper>>,
         \A t \in Sessions \ {s} : writer'[t] = writer[t] /\ log'[t] = log[t],
         \A t \in Sessions : queue[t] = <<>> => queue'[t] = <<>>
  PROVE  /\ Fresh'
         /\ WriterAlone => /\ \A t \in 1 .. session - 1 : ~Alive(t)'
                           /\ s = session
<1>1. session \in Sessions /\ ~(s > session) /\ (WriterAlone => s = session)
  BY RunningWriter
<1>2. Fresh'
  BY <1>1, RunningWriter DEF Fresh
<1>3. ASSUME WriterAlone, NEW t \in 1 .. session - 1
      PROVE  ~Alive(t)'
  <2>1. s = session /\ s \in 1 .. MaxSessions
    BY <1>1, <1>3 DEF Sessions
  <2>2. t \in 1 .. MaxSessions /\ t # s
    BY <1>3, <2>1, BoundsAssumption
  <2>3. t \in Sessions \ {s}
    BY <2>2 DEF Sessions
  <2> QED
    BY <1>3, <2>3 DEF WriterAlone, Alive
<1> QED
  BY <1>1, <1>2, <1>3, RunningWriter

LEMMA WriterBindOrder ==
  ASSUME OrderInv, NEW s \in Sessions, WriterBind(s)
  PROVE  OrderInv'
<1>1. TypeInv /\ Fresh /\ TypeInv' /\ Alive(s)
  BY WriterBindTypeInv DEF OrderInv, WriterBind, Alive
<1>2. UNCHANGED <<state, session, received, gap, queue, log, stopper, crossed>>
  BY DEF WriterBind, disk, counters, history
<1>3. /\ writer'[s] = [pc |-> "get", q |-> session, hand |-> <<>>]
      /\ \A t \in Sessions \ {s} : writer'[t] = writer[t]
  BY <1>1 DEF WriterBind, WriterAt, TypeInv, TypeOK, ThreadType
<1>4. Fresh' /\ (WriterAlone => s = session /\ \A t \in 1 .. session - 1 : ~Alive(t)')
  BY <1>1, <1>2, <1>3, WriterFresh
<1>5. ASSUME Tracked' PROVE (WriterAlone /\ StopperAlone /\ OrderedNow)'
  <2>1. WriterAlone /\ StopperAlone /\ OrderedNow /\ s = session
    BY <1>2, <1>4, <1>5 DEF Tracked, OrderInv
  <2>2. WriterAlone'
    BY <1>2, <1>3, <1>4, <2>1 DEF WriterAlone, Hand
  <2>3. StopperAlone'
    BY <1>2, <2>1 DEF StopperAlone, Idle, FlushItems, GapItem
  <2>4. Hand(session)' = Hand(session) /\ Pending' = Pending
    BY <1>2, <1>3, <2>1 DEF Hand, WriterBind, WriterAlone, Pending, GapQueued, FlushItems, GapItem
  <2> QED
    BY <1>2, <2>1, <2>2, <2>3, <2>4 DEF OrderedNow
<1> QED
  BY <1>1, <1>4, <1>5 DEF OrderInv

LEMMA TailMarkers ==
  ASSUME NEW q \in Seq(Item), q # <<>>, MarkersOnly(q)
  PROVE  MarkersOnly(<<Head(q)>>) /\ MarkersOnly(Tail(q))
<1>1. /\ Len(q) \in Nat \ {0} /\ Head(q) = q[1] /\ Len(Tail(q)) = Len(q) - 1
      /\ \A i \in 1 .. Len(Tail(q)) : Tail(q)[i] = q[i + 1]
  BY EmptySeq, HeadTailProperties
<1>2. \A i \in 1 .. Len(Tail(q)) : i + 1 \in 1 .. Len(q)
  BY <1>1
<1>3. 1 \in 1 .. Len(q)
  BY <1>1
<1> QED
  BY <1>1, <1>2, <1>3 DEF MarkersOnly

LEMMA WriterGetOrder ==
  ASSUME OrderInv, NEW s \in Sessions, WriterGet(s)
  PROVE  OrderInv'
<1> DEFINE q == writer[s].q
<1>1. TypeInv /\ Fresh /\ TypeInv' /\ Alive(s)
  BY WriterGetTypeInv DEF OrderInv, WriterGet, Alive
<1>2. UNCHANGED <<state, session, received, gap, log, stopper, crossed>>
  BY DEF WriterGet, disk, counters, history
<1>3. /\ q \in Sessions /\ queue[q] # <<>> /\ queue'[q] = Tail(queue[q])
      /\ \A t \in Sessions \ {q} : queue'[t] = queue[t]
  BY <1>1 DEF WriterGet, TypeInv, TypeOK, ThreadType, QueueType, Writer
<1>4. /\ writer'[s] = [pc |-> "hold", q |-> q, hand |-> <<Head(queue[q])>>]
      /\ \A t \in Sessions \ {s} : writer'[t] = writer[t]
  BY <1>1 DEF WriterGet, WriterAt, TypeInv, TypeOK, ThreadType
<1>5. Fresh' /\ (WriterAlone => s = session /\ \A t \in 1 .. session - 1 : ~Alive(t)')
  <2>1. \A t \in Sessions : queue[t] = <<>> => queue'[t] = <<>>
    BY <1>3
  <2> QED
    BY <1>1, <1>2, <1>4, <2>1, WriterFresh
<1>6. ASSUME Tracked' PROVE (WriterAlone /\ StopperAlone /\ OrderedNow)'
  <2>1. WriterAlone /\ StopperAlone /\ OrderedNow /\ s = session
    BY <1>2, <1>5, <1>6 DEF Tracked, OrderInv
  <2>2. q = session /\ Hand(session) = <<>>
    BY <2>1 DEF WriterAlone, WriterGet
  <2>3. /\ log[session] \in Seq(Item) /\ queue[session] \in Seq(Item) /\ Pending \in Seq(Item)
    BY <1>1, RunningWriter, Parts
  <2>4. WriterAlone'
    BY <1>2, <1>4, <1>5, <2>1, <2>2 DEF WriterAlone, Hand
  <2>5. StopperAlone' /\ Pending' = Pending
    BY <1>2, <2>1 DEF StopperAlone, Idle, FlushItems, GapItem, Pending, GapQueued
  <2>6. Hand(session)' = <<Head(queue[session])>> /\ queue'[session] = Tail(queue[session])
    BY <1>2, <1>3, <1>4, <2>1, <2>2 DEF Hand
  <2>7. Ordered(log[session], <<Head(queue[session])>>, Tail(queue[session]), Pending, received)
    BY <1>3, <2>1, <2>2, <2>3, OrderedGet DEF OrderedNow
  <2>8. MarkersOnly(<<Head(queue[session])>>) /\ MarkersOnly(Tail(queue[session]))
    BY <1>3, <2>1, <2>2, <2>3, TailMarkers DEF OrderedNow
  <2> QED
    BY <1>2, <2>1, <2>4, <2>5, <2>6, <2>7, <2>8 DEF OrderedNow
<1> QED
  BY <1>1, <1>5, <1>6 DEF OrderInv

LEMMA WriterWriteOrder ==
  ASSUME OrderInv, NEW s \in Sessions, WriterWrite(s)
  PROVE  OrderInv'
<1> DEFINE item == writer[s].hand[1]
<1>1. TypeInv /\ Fresh /\ TypeInv' /\ Alive(s)
  BY WriterWriteTypeInv DEF OrderInv, WriterWrite, Alive
<1>2. UNCHANGED <<session, received, gap, queue, stopper, crossed>>
      /\ (state' = state \/ state' = "ERROR")
  BY DEF WriterWrite, WriterDies, history
<1>3. /\ writer'[s].hand = <<>> /\ writer'[s].q = writer[s].q
      /\ \A t \in Sessions \ {s} : writer'[t] = writer[t]
  BY <1>1 DEF WriterWrite, WriterDies, WriterAt, TypeInv, TypeOK, ThreadType
<1>4. /\ log' = IF item.kind = "stop" THEN log ELSE [log EXCEPT ![s] = Append(@, item)]
      /\ \A t \in Sessions \ {s} : log'[t] = log[t]
  BY <1>1 DEF WriterWrite, TypeInv, TypeOK, FileType
<1>5. Fresh' /\ (WriterAlone => s = session /\ \A t \in 1 .. session - 1 : ~Alive(t)')
  BY <1>1, <1>2, <1>3, <1>4, WriterFresh
<1>6. ASSUME Tracked' PROVE (WriterAlone /\ StopperAlone /\ OrderedNow)'
  <2>1. WriterAlone /\ StopperAlone /\ OrderedNow /\ s = session
    BY <1>2, <1>5, <1>6 DEF Tracked, OrderInv
  <2>2. /\ log[session] \in Seq(Item) /\ queue[session] \in Seq(Item) /\ Pending \in Seq(Item)
        /\ Hand(session) \in Seq(Item) /\ session \in Sessions
    BY <1>1, RunningWriter, Parts
  <2>3. Hand(session) = <<item>> /\ item \in Item
    <3>1. Len(Hand(session)) = 1
      BY <1>1, <2>1 DEF WriterWrite, TypeInv, Support, Hand
    <3> QED
      BY <2>1, <2>2, <3>1 DEF Hand
  <2>4. WriterAlone'
    BY <1>2, <1>3, <1>5, <2>1 DEF WriterAlone, Hand
  <2>5. StopperAlone'
    BY <1>2, <2>1 DEF StopperAlone, Idle, FlushItems, GapItem
  <2>6. Pending' = Pending /\ Hand(session)' = <<>>
    BY <1>2, <1>3, <2>1 DEF FlushItems, GapItem, Pending, GapQueued, Hand
  <2>7. Ordered(log[session], <<item>>, queue[session], Pending, received)
    BY <2>1, <2>3 DEF OrderedNow
  <2>8. Ordered(log'[session], <<>>, queue[session], Pending, received)
    <3>1. CASE item.kind = "stop"
      <4>1. MarkersOnly(<<item>>)
        BY <2>1, <2>3 DEF OrderedNow
      <4>2. item.lo = item.hi + 1
        BY <3>1, <4>1 DEF MarkersOnly
      <4> QED
        BY <1>4, <2>2, <2>3, <2>7, <3>1, <4>2, OrderedSkip
    <3>2. CASE item.kind # "stop"
      <4>1. log'[session] = Append(log[session], item)
        BY <1>1, <1>4, <2>1, <2>2, <3>2 DEF TypeInv, TypeOK, FileType
      <4> QED
        BY <2>2, <2>3, <2>7, <4>1, OrderedWrite
    <3> QED
      BY <3>1, <3>2
  <2> QED
    BY <1>2, <2>1, <2>4, <2>5, <2>6, <2>8, FlushMarkers DEF OrderedNow
<1> QED
  BY <1>1, <1>5, <1>6 DEF OrderInv

LEMMA WriterFailsOrder ==
  ASSUME OrderInv, NEW s \in Sessions, WriterFails(s)
  PROVE  OrderInv'
<1>1. TypeInv /\ Fresh /\ TypeInv' /\ Alive(s)
  BY WriterFailsTypeInv DEF OrderInv, WriterFails, Alive
<1>2. UNCHANGED <<session, received, gap, queue, log, stopper, crossed>> /\ state' = "ERROR"
  BY DEF WriterFails, WriterDies, disk, counters, history
<1>3. /\ writer'[s] = [pc |-> "dead", q |-> writer[s].q, hand |-> writer[s].hand]
      /\ \A t \in Sessions \ {s} : writer'[t] = writer[t]
  BY <1>1 DEF WriterFails, WriterDies, WriterAt, TypeInv, TypeOK, ThreadType
<1>4. Fresh' /\ (WriterAlone => s = session /\ \A t \in 1 .. session - 1 : ~Alive(t)')
  BY <1>1, <1>2, <1>3, WriterFresh
<1>5. ASSUME Tracked' PROVE (WriterAlone /\ StopperAlone /\ OrderedNow)'
  <2>1. WriterAlone /\ StopperAlone /\ OrderedNow /\ s = session
    BY <1>2, <1>4, <1>5 DEF Tracked, OrderInv
  <2>2. WriterAlone'
    BY <1>2, <1>3, <1>4, <2>1 DEF WriterAlone
  <2>3. StopperAlone'
    BY <1>2, <2>1 DEF StopperAlone, Idle, FlushItems, GapItem
  <2>4. Hand(session)' = Hand(session) /\ Pending' = Pending
    BY <1>2, <1>3, <2>1 DEF Hand, Pending, GapQueued, FlushItems, GapItem
  <2> QED
    BY <1>2, <2>1, <2>2, <2>3, <2>4 DEF OrderedNow
<1> QED
  BY <1>1, <1>4, <1>5 DEF OrderInv

LEMMA StutterOrder == OrderInv /\ UNCHANGED vars => OrderInv'
<1> SUFFICES ASSUME OrderInv, UNCHANGED vars PROVE OrderInv'
  OBVIOUS
<1>1. UNCHANGED <<state, session, received, gap, queue, writer, log, stopper, crossed>>
  BY DEF vars, counters, disk, history
<1>2. TypeInv'
  BY StutterTypeInv DEF OrderInv
<1>3. Fresh' /\ (Tracked' => Tracked) /\ (WriterAlone => WriterAlone')
  BY <1>1 DEF OrderInv, Fresh, Tracked, WriterAlone, Alive, Hand
<1>4. (StopperAlone => StopperAlone') /\ (OrderedNow => OrderedNow')
  BY <1>1 DEF StopperAlone, Idle, FlushItems, GapItem, OrderedNow, Hand, Pending, GapQueued
<1> QED
  BY <1>2, <1>3, <1>4 DEF OrderInv

\* The recorder is loss-accounted: until a recording is crossed by a writer or a
\* stop() of another call, its files, the item in hand, the queue and the pending
\* gap name every frame it received once and in order, whatever the queue size.
THEOREM Accounted == Spec => []AccountedInOrder
<1>1. OrderInv /\ [Next]_vars => OrderInv'
  BY StartOrder, RecordFrameOrder, RecordEventOrder, StopBeginOrder, StopPutGapOrder,
     StopClearGapOrder, StopPutSentinelOrder, StopReturnsOrder, WriterBindOrder, WriterGetOrder,
     WriterWriteOrder, WriterFailsOrder, StutterOrder
  DEF Next, StopStep, WriterStep
<1> QED
  BY <1>1, InitOrder, OrderInvImplies, PTL DEF Spec

-----------------------------------------------------------------------------
(* Part 3: CleanIsComplete *)

-----------------------------------------------------------------------------
(* Stop markers in a queue.                                                 *)

NoStop(q) == \A k \in 1 .. Len(q) : q[k].kind # "stop"
StopsLast(q) == \A k \in 1 .. Len(q) : q[k].kind = "stop" => k = Len(q)

LEMMA NoStopEmpty == NoStop(<<>>) /\ StopsLast(<<>>)
  BY DEF NoStop, StopsLast

LEMMA NoStopOne ==
  ASSUME NEW item, item.kind # "stop"
  PROVE  NoStop(<<item>>)
  BY DEF NoStop

LEMMA NoStopConcat ==
  ASSUME NEW q \in Seq(Item), NEW r \in Seq(Item), NoStop(q), NoStop(r)
  PROVE  NoStop(q \o r)
<1>1. Len(q) \in Nat /\ Len(r) \in Nat
  BY LenProperties
<1>2. /\ Len(q \o r) = Len(q) + Len(r)
      /\ \A i \in 1 .. Len(q) + Len(r) : (q \o r)[i] = IF i <= Len(q) THEN q[i] ELSE r[i - Len(q)]
  BY ConcatProperties
<1>3. \A i \in 1 .. Len(q) + Len(r) : i <= Len(q) => i \in 1 .. Len(q)
  BY <1>1
<1>4. \A i \in 1 .. Len(q) + Len(r) : ~(i <= Len(q)) => i - Len(q) \in 1 .. Len(r)
  BY <1>1
<1> QED
  BY <1>2, <1>3, <1>4 DEF NoStop

LEMMA NoStopLast == \A q : NoStop(q) => StopsLast(q)
  BY DEF NoStop, StopsLast

\* A marker put behind items that are none is the last.
LEMMA StopsLastConcat ==
  ASSUME NEW q \in Seq(Item), NEW item \in Item, NoStop(q)
  PROVE  StopsLast(q \o <<item>>)
<1>1. Len(q) \in Nat /\ <<item>> \in Seq(Item) /\ Len(<<item>>) = 1
  BY LenProperties
<1>2. /\ Len(q \o <<item>>) = Len(q) + 1
      /\ \A i \in 1 .. Len(q) + 1 : i <= Len(q) => (q \o <<item>>)[i] = q[i]
  BY <1>1, ConcatProperties
<1>3. \A i \in 1 .. Len(q) + 1 : i = Len(q) + 1 \/ i \in 1 .. Len(q)
  BY <1>1
<1>4. \A i \in 1 .. Len(q) : i <= Len(q) /\ i \in 1 .. Len(q) + 1
  BY <1>1
<1> QED
  BY <1>2, <1>3, <1>4 DEF NoStop, StopsLast

\* Taking the head off.
LEMMA StopsTail ==
  ASSUME NEW q \in Seq(Item), q # <<>>, StopsLast(q)
  PROVE  /\ StopsLast(Tail(q)) /\ (NoStop(q) => NoStop(Tail(q)) /\ NoStop(<<Head(q)>>))
         /\ NoStop(<<Head(q)>>) \/ Tail(q) = <<>>
<1>1. /\ Len(q) \in Nat \ {0} /\ Head(q) = q[1] /\ Len(Tail(q)) = Len(q) - 1
      /\ Tail(q) \in Seq(Item) /\ \A i \in 1 .. Len(Tail(q)) : Tail(q)[i] = q[i + 1]
  BY EmptySeq, HeadTailProperties
<1>2. \A n \in Nat \ {0} : /\ \A i \in 1 .. n - 1 : i + 1 \in 1 .. n /\ (i + 1 = n => i = n - 1)
                           /\ 1 \in 1 .. n /\ (1 = n => n - 1 = 0)
  OBVIOUS
<1>3. /\ \A i \in 1 .. Len(Tail(q)) : i + 1 \in 1 .. Len(q) /\ (i + 1 = Len(q) => i = Len(Tail(q)))
      /\ 1 \in 1 .. Len(q) /\ (1 = Len(q) => Len(Tail(q)) = 0)
  BY <1>1, <1>2
<1>4. CASE Head(q).kind = "stop"
  <2>1. Len(Tail(q)) = 0
    BY <1>1, <1>3, <1>4 DEF StopsLast
  <2>2. Tail(q) = <<>>
    BY <1>1, <2>1, EmptyLen
  <2> QED
    BY <1>1, <1>3, <1>4, <2>2, NoStopEmpty DEF NoStop
<1>5. CASE Head(q).kind # "stop"
  <2>1. NoStop(<<Head(q)>>)
    BY <1>5, NoStopOne
  <2> QED
    BY <1>1, <1>3, <2>1 DEF NoStop, StopsLast
<1> QED
  BY <1>4, <1>5

-----------------------------------------------------------------------------
(* The inductive invariant.                                                 *)

Joining == \E a \in Api : stopper[a].pc = "join"

\* In a recording that nobody crosses and that is not in error, the stop marker is
\* the last item there will be: nothing follows it in the queue, only a thread that
\* joins has put it, and a writer that is gone has left nothing behind it.
Drained ==
  /\ StopsLast(queue[session])
  /\ Joining \/ (NoStop(queue[session]) /\ NoStop(Hand(session)))
  /\ NoStop(Hand(session)) \/ queue[session] = <<>>
  /\ Alive(session) \/ /\ queue[session] = <<>> /\ Hand(session) = <<>>
                       /\ Joining \/ state = "NOT_RECORDING"
Drains == /\ writer[session].pc # "none"
          /\ eventLost[session] => error
          /\ error \/ Drained

\* A clean recording is complete and nothing touches it any more.
Settled(s) ==
  /\ Complete(s) /\ ~Alive(s)
  /\ s = session => state = "NOT_RECORDING" /\ \A a \in Api : Idle(a)
Verdicts ==
  /\ \A s \in Sessions : s > session => ~clean[s] /\ ~eventLost[s]
  /\ \A s \in Sessions : clean[s] /\ ~crossed[s] => Settled(s)

CleanInv == OrderInv /\ (Tracked => Drains) /\ Verdicts

LEMMA CleanInvImplies == CleanInv => CleanIsComplete
  BY DEF CleanInv, Verdicts, Settled, CleanIsComplete

LEMMA InitClean == Init => CleanInv
<1> SUFFICES ASSUME Init PROVE CleanInv
  OBVIOUS
<1>1. OrderInv /\ ~Tracked
  BY InitOrder DEF Init, Tracked
<1>2. Verdicts
  BY DEF Init, Verdicts
<1> QED
  BY <1>1, <1>2 DEF CleanInv

-----------------------------------------------------------------------------
(* Steps that leave the verdicts alone.                                     *)

\* A recording that is settled stays so under a step that writes no verdict and
\* does not touch the files of a writer that is gone.
LEMMA VerdictsKept ==
  ASSUME TypeInv, Verdicts, UNCHANGED <<session, clean, final>>,
         \A s \in Sessions : crossed[s] => crossed'[s] \/ ~clean[s],
         \A s \in Sessions : ~Alive(s) => ~Alive(s)' /\ log'[s] = log[s],
         \A s \in Sessions : s # session => eventLost'[s] = eventLost[s],
         clean[session] /\ ~crossed[session] => FALSE
  PROVE  Verdicts'
<1>1. \A s \in Sessions : s > session => s # session
  BY DEF TypeInv, TypeOK, CounterType
<1>2. \A s \in Sessions : s > session => ~clean'[s] /\ ~eventLost'[s]
  BY <1>1 DEF Verdicts
<1>3. ASSUME NEW s \in Sessions, clean'[s], ~crossed'[s]
      PROVE  Settled(s)'
  <2>1. s # session /\ Complete(s) /\ ~Alive(s)
    BY <1>3 DEF Verdicts, Settled
  <2> QED
    BY <2>1 DEF Settled, Complete
<1> QED
  BY <1>2, <1>3 DEF Verdicts

\* While something goes on in the current recording, its verdict is not given.
LEMMA NotSettled ==
  ASSUME Verdicts, session \in Sessions,
         state # "NOT_RECORDING" \/ Alive(session) \/ \E a \in Api : ~Idle(a)
  PROVE  ~(clean[session] /\ ~crossed[session])
  BY DEF Verdicts, Settled

\* A step of the parser thread or of a thread in stop() that writes no verdict.
LEMMA HostVerdicts ==
  ASSUME TypeInv, Verdicts, session \in Sessions,
         state # "NOT_RECORDING" \/ \E a \in Api : ~Idle(a),
         UNCHANGED <<session, clean, final, log, writer, crossed>>,
         \A s \in Sessions : s # session => eventLost'[s] = eventLost[s]
  PROVE  Verdicts'
<1>1. clean[session] /\ ~crossed[session] => FALSE
  BY NotSettled
<1>2. \A s \in Sessions : ~Alive(s) => ~Alive(s)' /\ log'[s] = log[s]
  BY DEF Alive
<1>3. \A s \in Sessions : crossed[s] => crossed'[s] \/ ~clean[s]
  BY Zenon
<1> QED
  BY <1>1, <1>2, <1>3, VerdictsKept

\* A step of writer s.
LEMMA WriterVerdicts ==
  ASSUME CleanInv, NEW s \in Sessions, Alive(s),
         UNCHANGED <<session, clean, final, crossed, eventLost>>,
         \A t \in Sessions \ {s} : writer'[t] = writer[t] /\ log'[t] = log[t]
  PROVE  Verdicts'
<1>1. TypeInv /\ Fresh /\ Verdicts /\ session > 0 /\ session \in Sessions
  BY RunningWriter DEF CleanInv, OrderInv
<1>2. ASSUME clean[session], ~crossed[session]
      PROVE  FALSE
  <2>1. s = session
    BY <1>1, <1>2, RunningWriter DEF CleanInv, OrderInv, Tracked
  <2> QED
    BY <1>1, <1>2, <2>1, NotSettled
<1>3. \A t \in Sessions : ~Alive(t) => ~Alive(t)' /\ log'[t] = log[t]
  BY DEF Alive
<1>4. \A t \in Sessions : crossed[t] => crossed'[t] \/ ~clean[t]
  BY Zenon
<1>5. \A t \in Sessions : t # session => eventLost'[t] = eventLost[t]
  BY Zenon
<1> QED
  BY <1>1, <1>2, <1>3, <1>4, <1>5, VerdictsKept

-----------------------------------------------------------------------------
(* Steps that keep or end the drain.                                        *)

\* Items other than a stop marker join the queue before stop() joins.
LEMMA QueueGrows ==
  ASSUME Drained, ~Joining, state # "NOT_RECORDING", UNCHANGED <<session, writer>>,
         queue[session] \in Seq(Item), NEW r \in Seq(Item), NoStop(r),
         queue'[session] = queue[session] \o r
  PROVE  Drained'
<1>1. NoStop(queue[session]) /\ NoStop(Hand(session)) /\ Alive(session)
  BY DEF Drained
<1>2. NoStop(queue'[session])
  BY <1>1, NoStopConcat
<1> QED
  BY <1>1, <1>2, NoStopLast DEF Drained, Alive, Hand

LEMMA FlushNoStop == NoStop(FlushItems)
  BY DEF NoStop, FlushItems, GapItem

LEMMA AcceptNoStop ==
  ASSUME FlushItems \in Seq(Item), NEW item \in Item, item.kind # "stop"
  PROVE  Append(FlushItems, item) \in Seq(Item) /\ NoStop(Append(FlushItems, item))
<1>1. NoStop(<<item>>) /\ <<item>> \in Seq(Item)
  BY NoStopOne
<1>2. Append(FlushItems, item) = FlushItems \o <<item>> /\ Append(FlushItems, item) \in Seq(Item)
  BY AppendAsConcat
<1>3. NoStop(FlushItems \o <<item>>)
  BY <1>1, FlushNoStop, NoStopConcat
<1> QED
  BY <1>2, <1>3

LEMMA StartClean ==
  ASSUME CleanInv, NEW a \in Api, Start(a)
  PROVE  CleanInv'
<1> DEFINE t == session + 1
<1>1. TypeInv /\ Fresh /\ Verdicts /\ OrderInv'
  BY StartOrder DEF CleanInv, OrderInv
<1>2. t \in Sessions /\ session' = t /\ t > session /\ session \in Nat
  BY <1>1, BoundsAssumption DEF Start, TypeInv, TypeOK, CounterType, Sessions
<1>3. UNCHANGED <<log, queue, clean, final, eventLost>> /\ queue[t] = <<>>
  BY <1>1, <1>2 DEF Start, Fresh, disk
<1>4. /\ writer'[t] = [pc |-> "bind", q |-> t, hand |-> <<>>]
      /\ \A s \in Sessions \ {t} : writer'[s] = writer[s] /\ (crossed'[s] = crossed[s])
  BY <1>1, <1>2 DEF Start, WriterAt, TypeInv, TypeOK, ThreadType, FileType
<1>5. ~clean[t] /\ ~eventLost[t]
  BY <1>1, <1>2 DEF Verdicts
<1>6. Drains'
  BY <1>2, <1>3, <1>4, <1>5, NoStopEmpty DEF Drains, Drained, Alive, Hand
<1>7. Verdicts'
  <2>1. \A s \in Sessions : s > t => s > session
    BY <1>2 DEF Sessions
  <2>2. ASSUME NEW s \in Sessions, clean'[s], ~crossed'[s]
        PROVE  Settled(s)'
    <3>1. s # t
      BY <1>3, <1>5, <2>2
    <3>2. Settled(s) /\ writer'[s] = writer[s]
      BY <1>1, <1>3, <1>4, <2>2, <3>1 DEF Verdicts
    <3> QED
      BY <1>2, <1>3, <3>1, <3>2 DEF Settled, Complete, Alive
  <2> QED
    BY <1>1, <1>2, <1>3, <2>1, <2>2 DEF Verdicts
<1> QED
  BY <1>1, <1>6, <1>7 DEF CleanInv

LEMMA RecordFrameClean ==
  ASSUME CleanInv, RecordFrame
  PROVE  CleanInv'
<1> DEFINE frame == [kind |-> "frame", lo |-> received + 1, hi |-> received + 1]
<1>1. TypeInv /\ Verdicts /\ OrderInv'
  BY RecordFrameOrder DEF CleanInv, OrderInv
<1>2. /\ UNCHANGED <<state, error, session, writer, log, clean, final, stopper, crossed, eventLost>>
      /\ state = "RECORDING" /\ session > 0
  BY <1>1 DEF RecordFrame, disk, history, TypeInv, Support
<1>3. session \in Sessions /\ queue[session] \in Seq(Item) /\ FlushItems \in Seq(Item)
  BY <1>1, <1>2, Parts
<1>4. Verdicts'
  BY <1>1, <1>2, <1>3, HostVerdicts
<1>5. ASSUME Tracked' PROVE Drains'
  <2>1. Drains /\ StopperAlone
    BY <1>2, <1>5 DEF CleanInv, OrderInv, Tracked
  <2>2. ~Joining /\ ~Joining'
    BY <1>2, <2>1, RecordingPending DEF Joining, Idle
  <2>3. ASSUME Drained PROVE Drained'
    <3>1. CASE queue' = queue
      BY <1>2, <2>2, <2>3, <3>1 DEF Drained, Alive, Hand
    <3>2. CASE Enqueue(FlushItems)
      BY <1>1, <1>2, <1>3, <2>2, <2>3, <3>2, EnqueueEffect, FlushNoStop, QueueGrows
      DEF Enqueue, TypeInv, TypeOK
    <3>3. CASE Enqueue(Append(FlushItems, frame))
      <4>1. frame \in Item /\ frame.kind # "stop"
        BY <1>1, ItemTypes DEF RecordFrame, TypeInv, TypeOK
      <4>2. Append(FlushItems, frame) \in Seq(Item) /\ NoStop(Append(FlushItems, frame))
        BY <1>3, <4>1, AcceptNoStop
      <4> QED
        BY <1>1, <1>2, <1>3, <2>2, <2>3, <3>3, <4>2, EnqueueEffect, QueueGrows
        DEF Enqueue, TypeInv, TypeOK
    <3> QED
      BY <3>1, <3>2, <3>3 DEF RecordFrame
  <2> QED
    BY <1>2, <2>1, <2>3 DEF Drains
<1> QED
  BY <1>1, <1>4, <1>5 DEF CleanInv

LEMMA RecordEventClean ==
  ASSUME CleanInv, RecordEvent
  PROVE  CleanInv'
<1> DEFINE event == Marker("event", received)
<1>1. TypeInv /\ Verdicts /\ OrderInv'
  BY RecordEventOrder DEF CleanInv, OrderInv
<1>2. /\ UNCHANGED <<session, writer, log, clean, final, stopper, crossed>>
      /\ state = "RECORDING" /\ session > 0
  BY <1>1 DEF RecordEvent, disk, TypeInv, Support
<1>3. session \in Sessions /\ queue[session] \in Seq(Item) /\ FlushItems \in Seq(Item)
  BY <1>1, <1>2, Parts
<1>4. Verdicts'
  <2>1. \A s \in Sessions : s # session => eventLost'[s] = eventLost[s]
    BY <1>1 DEF RecordEvent, TypeInv, TypeOK, FileType
  <2> QED
    BY <1>1, <1>2, <1>3, <2>1, HostVerdicts
<1>5. ASSUME Tracked' PROVE Drains'
  <2>1. Drains /\ StopperAlone
    BY <1>2, <1>5 DEF CleanInv, OrderInv, Tracked
  <2>2. ~Joining
    BY <1>2, <2>1, RecordingPending DEF Joining, Idle
  <2>3. CASE error' = TRUE
    BY <1>2, <2>1, <2>3 DEF Drains
  <2>4. CASE Enqueue(Append(FlushItems, event)) /\ UNCHANGED <<error, eventLost>>
    <3>1. event \in Item /\ event.kind # "stop"
      BY <1>1, ItemTypes DEF Marker, TypeInv, TypeOK
    <3>2. Append(FlushItems, event) \in Seq(Item) /\ NoStop(Append(FlushItems, event))
      BY <1>3, <3>1, AcceptNoStop
    <3>3. Drained => Drained'
      BY <1>1, <1>2, <1>3, <2>2, <2>4, <3>2, EnqueueEffect, QueueGrows
      DEF Enqueue, TypeInv, TypeOK
    <3> QED
      BY <1>2, <2>1, <2>4, <3>3 DEF Drains
  <2> QED
    BY <2>3, <2>4 DEF RecordEvent
<1> QED
  BY <1>1, <1>4, <1>5 DEF CleanInv

-----------------------------------------------------------------------------
(* stop()                                                                   *)

LEMMA StopBeginClean ==
  ASSUME CleanInv, NEW a \in Api, StopBegin(a)
  PROVE  CleanInv'
<1>1. TypeInv /\ Verdicts /\ OrderInv'
  BY StopBeginOrder DEF CleanInv, OrderInv
<1>2. /\ UNCHANGED <<error, session, queue, writer, log, clean, final, eventLost>>
      /\ state # "NOT_RECORDING" /\ session > 0
  BY <1>1 DEF StopBegin, disk, TypeInv, Support
<1>3. session \in Sessions
  BY <1>1, <1>2, Parts
<1>4. \A s \in Sessions : s # session => crossed'[s] = crossed[s]
  BY <1>1 DEF StopBegin, TypeInv, TypeOK, FileType
<1>5. crossed[session] => crossed'[session]
  BY <1>1, <1>3 DEF StopBegin, TypeInv, TypeOK, FileType
<1>6. Verdicts'
  <2>1. clean[session] /\ ~crossed[session] => FALSE
    BY <1>1, <1>2, <1>3, NotSettled
  <2>2. \A s \in Sessions : ~Alive(s) => ~Alive(s)' /\ log'[s] = log[s]
    BY <1>2 DEF Alive
  <2>3. \A s \in Sessions : crossed[s] => crossed'[s] \/ ~clean[s]
    BY <1>4, <1>5
  <2>4. \A s \in Sessions : s # session => eventLost'[s] = eventLost[s]
    BY <1>2
  <2> QED
    BY <1>1, <1>2, <2>1, <2>2, <2>3, <2>4, VerdictsKept
<1>7. ASSUME Tracked' PROVE Drains'
  <2>1. ~crossed[session] /\ \A b \in Api : Idle(b)
    BY <1>1, <1>2, <1>3, <1>7 DEF StopBegin, Tracked, TypeInv, TypeOK, FileType
  <2>2. Drains /\ ~Joining
    BY <1>2, <2>1 DEF CleanInv, Tracked, Joining, Idle
  <2>3. Drained => Drained'
    BY <1>2, <2>2 DEF Drained, Alive, Hand
  <2> QED
    BY <1>2, <2>2, <2>3 DEF Drains
<1> QED
  BY <1>1, <1>6, <1>7 DEF CleanInv

LEMMA StopPutGapClean ==
  ASSUME CleanInv, NEW a \in Api, StopPutGap(a)
  PROVE  CleanInv'
<1>1. TypeInv /\ Verdicts /\ OrderInv'
  BY StopPutGapOrder DEF CleanInv, OrderInv
<1>2. /\ UNCHANGED <<state, error, session, writer, log, clean, final, crossed, eventLost>>
      /\ session > 0 /\ ~Idle(a)
  BY <1>1 DEF StopPutGap, disk, history, TypeInv, Support, Idle
<1>3. session \in Sessions /\ queue[session] \in Seq(Item) /\ FlushItems \in Seq(Item)
  BY <1>1, <1>2, Parts
<1>4. Verdicts'
  BY <1>1, <1>2, <1>3, HostVerdicts
<1>5. ASSUME Tracked' PROVE Drains'
  <2>1. Drains /\ StopperAlone
    BY <1>2, <1>5 DEF CleanInv, OrderInv, Tracked
  <2>2. ~Joining /\ state # "NOT_RECORDING" /\ stopper[a].q = session /\ stopper[a].gap = FlushItems
    BY <1>2, <2>1 DEF StopperAlone, StopPutGap, Joining, Idle
  <2>3. queue'[session] = queue[session] \o FlushItems
    BY <1>1, <1>3, <2>2, EnqueueEffect DEF StopPutGap, TypeInv, TypeOK
  <2>4. Drained => Drained'
    BY <1>2, <1>3, <2>2, <2>3, FlushNoStop, QueueGrows
  <2> QED
    BY <1>2, <2>1, <2>4 DEF Drains
<1> QED
  BY <1>1, <1>4, <1>5 DEF CleanInv

LEMMA StopClearGapClean ==
  ASSUME CleanInv, NEW a \in Api, StopClearGap(a)
  PROVE  CleanInv'
<1>1. TypeInv /\ Verdicts /\ OrderInv'
  BY StopClearGapOrder DEF CleanInv, OrderInv
<1>2. /\ UNCHANGED <<state, error, session, queue, writer, log, clean, final, crossed, eventLost>>
      /\ session > 0 /\ ~Idle(a)
  BY <1>1 DEF StopClearGap, disk, history, TypeInv, Support, Idle
<1>3. session \in Sessions
  BY <1>1, <1>2, Parts
<1>4. Verdicts'
  BY <1>1, <1>2, <1>3, HostVerdicts
<1>5. ASSUME Tracked' PROVE Drains'
  <2>1. Drains /\ StopperAlone
    BY <1>2, <1>5 DEF CleanInv, OrderInv, Tracked
  <2>2. ~Joining
    BY <1>2, <2>1 DEF StopperAlone, StopClearGap, Joining, Idle
  <2>3. Drained => Drained'
    BY <1>2, <2>2 DEF Drained, Alive, Hand
  <2> QED
    BY <1>2, <2>1, <2>3 DEF Drains
<1> QED
  BY <1>1, <1>4, <1>5 DEF CleanInv

LEMMA StopPutSentinelClean ==
  ASSUME CleanInv, NEW a \in Api, StopPutSentinel(a)
  PROVE  CleanInv'
<1> DEFINE marker == Marker("stop", received)
<1>1. TypeInv /\ Verdicts /\ OrderInv'
  BY StopPutSentinelOrder DEF CleanInv, OrderInv
<1>2. /\ UNCHANGED <<state, error, session, writer, log, clean, final, crossed, eventLost>>
      /\ session > 0 /\ ~Idle(a)
  BY <1>1 DEF StopPutSentinel, disk, history, TypeInv, Support, Idle
<1>3. session \in Sessions /\ queue[session] \in Seq(Item)
  BY <1>1, <1>2, Parts
<1>4. Verdicts'
  BY <1>1, <1>2, <1>3, HostVerdicts
<1>5. ASSUME Tracked' PROVE Drains'
  <2>1. Drains /\ StopperAlone
    BY <1>2, <1>5 DEF CleanInv, OrderInv, Tracked
  <2>2. ~Joining /\ state # "NOT_RECORDING" /\ stopper[a].q = session
    BY <1>2, <2>1 DEF StopperAlone, StopPutSentinel, Joining, Idle
  <2>3. Joining'
    BY <1>1 DEF Joining, StopPutSentinel, StopperAt, TypeInv, TypeOK, ThreadType
  <2>4. queue'[session] = queue[session] \o <<marker>> /\ marker \in Item
    BY <1>1, <1>3, <2>2, EnqueueEffect, ItemTypes DEF StopPutSentinel, Marker, TypeInv, TypeOK
  <2>5. ASSUME Drained PROVE Drained'
    <3>1. NoStop(queue[session]) /\ NoStop(Hand(session)) /\ Alive(session)
      BY <2>2, <2>5 DEF Drained
    <3>2. StopsLast(queue'[session])
      BY <1>3, <2>4, <3>1, StopsLastConcat
    <3> QED
      BY <1>2, <2>3, <3>1, <3>2 DEF Drained, Alive, Hand
  <2> QED
    BY <1>2, <2>1, <2>5 DEF Drains
<1> QED
  BY <1>1, <1>4, <1>5 DEF CleanInv

LEMMA StopPutTimesOutClean ==
  ASSUME CleanInv, NEW a \in Api, StopPutTimesOut(a)
  PROVE  CleanInv'
<1>1. TypeInv /\ Verdicts /\ OrderInv'
  BY StopReturnsOrder DEF CleanInv, OrderInv
<1>2. /\ UNCHANGED <<session, writer, log, clean, final, crossed, eventLost>>
      /\ session > 0 /\ ~Idle(a) /\ error' = TRUE
  BY <1>1 DEF StopPutTimesOut, PutTimesOut, disk, history, TypeInv, Support, Idle
<1>3. session \in Sessions
  BY <1>1, <1>2, Parts
<1>4. Verdicts'
  BY <1>1, <1>2, <1>3, HostVerdicts
<1>5. Tracked' => Drains'
  BY <1>2 DEF CleanInv, Tracked, Drains
<1> QED
  BY <1>1, <1>4, <1>5 DEF CleanInv

\* The verdict: without an error the writer is gone, and has left nothing behind.
LEMMA StopFinishClean ==
  ASSUME CleanInv, NEW a \in Api, StopFinish(a)
  PROVE  CleanInv'
<1>1. TypeInv /\ Verdicts /\ OrderInv'
  BY StopReturnsOrder DEF CleanInv, OrderInv
<1>2. /\ UNCHANGED <<session, received, queue, writer, log, crossed, eventLost>>
      /\ session > 0 /\ ~Idle(a)
  BY <1>1 DEF StopFinish, counters, history, TypeInv, Support, Idle
<1>3. session \in Sessions /\ \A s \in Sessions : s > session => s # session
  BY <1>1, <1>2, Parts DEF Sessions
<1>4. /\ clean'[session] <=> ~Failed(a)
      /\ final'[session] = received
      /\ \A s \in Sessions : s # session => clean'[s] = clean[s] /\ final'[s] = final[s]
  BY <1>1, <1>3 DEF StopFinish, TypeInv, TypeOK, FileType
<1>5. /\ Failed(a) => error' = TRUE
      /\ ~Failed(a) => ~error /\ state' = "NOT_RECORDING"
  BY Zenon DEF StopFinish, Failed
<1>6. ASSUME Tracked, ~Failed(a)
      PROVE  Drained /\ ~Alive(session) /\ queue[session] = <<>> /\ Hand(session) = <<>> /\ ~eventLost[session]
  <2>1. Drains /\ stopper[a].q = session
    BY <1>2, <1>6 DEF CleanInv, OrderInv, StopperAlone
  <2>2. ~Alive(session) /\ ~error
    BY <1>6, <2>1 DEF Failed
  <2> QED
    BY <2>1, <2>2 DEF Drains, Drained
<1>7. ASSUME Tracked' PROVE Drains'
  <2>1. Drains
    BY <1>2, <1>7 DEF CleanInv, Tracked
  <2>2. CASE Failed(a)
    BY <1>2, <1>5, <2>1, <2>2 DEF Drains
  <2>3. CASE ~Failed(a)
    <3>1. Drained'
      BY <1>2, <1>5, <1>6, <1>7, <2>3, NoStopEmpty DEF Drained, Tracked, Alive, Hand
    <3> QED
      BY <1>2, <1>6, <1>7, <2>1, <2>3, <3>1 DEF Drains, Tracked
  <2> QED
    BY <2>2, <2>3
<1>8. ASSUME Tracked', clean'[session]
      PROVE  Settled(session)'
  <2>1. Tracked /\ ~Failed(a) /\ StopperAlone' /\ OrderedNow
    BY <1>1, <1>2, <1>4, <1>8 DEF Tracked, CleanInv, OrderInv
  <2>2. \A b \in Api : Idle(b)'
    BY <1>5, <2>1 DEF StopperAlone
  <2>3. Pending = <<>>
    BY <1>2, <2>1 DEF StopFinish, CleanInv, OrderInv, StopperAlone, Pending, FlushItems
  <2>4. Ordered(log[session], <<>>, <<>>, <<>>, received)
    BY <1>6, <2>1, <2>3 DEF OrderedNow
  <2>5. Chain(log[session], 0) /\ End(log[session], 0) = received
    BY <2>4, EmptyChain DEF Ordered
  <2> QED
    BY <1>2, <1>4, <1>5, <1>6, <2>1, <2>2, <2>5 DEF Settled, Complete, Alive
<1>9. ASSUME NEW s \in Sessions, s # session, clean'[s], ~crossed'[s]
      PROVE  Settled(s)'
  <2>1. Settled(s)
    BY <1>1, <1>2, <1>4, <1>9 DEF Verdicts
  <2> QED
    BY <1>2, <1>4, <1>9, <2>1 DEF Settled, Complete, Alive
<1>10. Verdicts'
  <2>1. \A s \in Sessions : s > session => ~clean'[s] /\ ~eventLost'[s]
    BY <1>1, <1>2, <1>3, <1>4 DEF Verdicts
  <2> QED
    BY <1>2, <1>8, <1>9, <2>1 DEF Verdicts, Tracked
<1> QED
  BY <1>1, <1>7, <1>10 DEF CleanInv

-----------------------------------------------------------------------------
(* The writer.                                                              *)

LEMMA WriterBindClean ==
  ASSUME CleanInv, NEW s \in Sessions, WriterBind(s)
  PROVE  CleanInv'
<1>1. TypeInv /\ OrderInv' /\ Alive(s)
  BY WriterBindOrder DEF CleanInv, OrderInv, WriterBind, Alive
<1>2. UNCHANGED <<state, error, session, queue, log, clean, final, stopper, crossed, eventLost>>
  BY DEF WriterBind, disk, history
<1>3. /\ writer'[s] = [pc |-> "get", q |-> session, hand |-> <<>>]
      /\ \A t \in Sessions \ {s} : writer'[t] = writer[t]
  BY <1>1 DEF WriterBind, WriterAt, TypeInv, TypeOK, ThreadType
<1>4. Verdicts'
  BY <1>1, <1>2, <1>3, WriterVerdicts
<1>5. ASSUME Tracked' PROVE Drains'
  <2>1. Drains /\ WriterAlone /\ s = session
    BY <1>1, <1>2, <1>5, RunningWriter DEF CleanInv, OrderInv, Tracked
  <2>2. Drained => Drained'
    BY <1>2, <1>3, <2>1, NoStopEmpty DEF Drained, Joining, Alive, Hand
  <2> QED
    BY <1>2, <1>3, <2>1, <2>2 DEF Drains
<1> QED
  BY <1>1, <1>4, <1>5 DEF CleanInv

LEMMA WriterGetClean ==
  ASSUME CleanInv, NEW s \in Sessions, WriterGet(s)
  PROVE  CleanInv'
<1> DEFINE q == writer[s].q
<1>1. TypeInv /\ OrderInv' /\ Alive(s)
  BY WriterGetOrder DEF CleanInv, OrderInv, WriterGet, Alive
<1>2. UNCHANGED <<state, error, session, log, clean, final, stopper, crossed, eventLost>>
  BY DEF WriterGet, disk, history
<1>3. q \in Sessions /\ queue[q] # <<>> /\ queue'[q] = Tail(queue[q]) /\ queue[q] \in Seq(Item)
  BY <1>1 DEF WriterGet, TypeInv, TypeOK, ThreadType, QueueType, Writer
<1>4. /\ writer'[s] = [pc |-> "hold", q |-> q, hand |-> <<Head(queue[q])>>]
      /\ \A t \in Sessions \ {s} : writer'[t] = writer[t]
  BY <1>1 DEF WriterGet, WriterAt, TypeInv, TypeOK, ThreadType
<1>5. Verdicts'
  BY <1>1, <1>2, <1>4, WriterVerdicts
<1>6. ASSUME Tracked' PROVE Drains'
  <2>1. Drains /\ WriterAlone /\ s = session
    BY <1>1, <1>2, <1>6, RunningWriter DEF CleanInv, OrderInv, Tracked
  <2>2. q = session
    BY <2>1 DEF WriterAlone
  <2>3. ASSUME Drained PROVE Drained'
    <3>1. Hand(session)' = <<Head(queue[session])>> /\ queue'[session] = Tail(queue[session])
      BY <1>2, <1>3, <1>4, <2>1, <2>2 DEF Hand
    <3>2. /\ StopsLast(Tail(queue[session]))
          /\ NoStop(<<Head(queue[session])>>) \/ Tail(queue[session]) = <<>>
          /\ NoStop(queue[session]) =>
               NoStop(Tail(queue[session])) /\ NoStop(<<Head(queue[session])>>)
      BY <1>3, <2>2, <2>3, StopsTail DEF Drained
    <3>3. Alive(session)'
      BY <1>2, <1>4, <2>1 DEF Alive
    <3> QED
      BY <1>2, <2>3, <3>1, <3>2, <3>3 DEF Drained, Joining
  <2> QED
    BY <1>2, <1>4, <2>1, <2>3 DEF Drains
<1> QED
  BY <1>1, <1>5, <1>6 DEF CleanInv

LEMMA WriterWriteClean ==
  ASSUME CleanInv, NEW s \in Sessions, WriterWrite(s)
  PROVE  CleanInv'
<1> DEFINE item == writer[s].hand[1]
           next == IF item.kind = "stop" THEN "dead" ELSE "bind"
<1>1. TypeInv /\ OrderInv' /\ Alive(s)
  BY WriterWriteOrder DEF CleanInv, OrderInv, WriterWrite, Alive
<1>2. UNCHANGED <<session, queue, clean, final, stopper, crossed, eventLost>>
  BY DEF WriterWrite, history
<1>3. /\ \A t \in Sessions \ {s} : writer'[t] = writer[t]
      /\ writer'[s].hand = <<>>
      /\ \/ writer'[s].pc = next /\ UNCHANGED <<state, error>>
         \/ writer'[s].pc = "dead" /\ error' = TRUE
  BY <1>1 DEF WriterWrite, WriterDies, WriterAt, TypeInv, TypeOK, ThreadType
<1>4. \A t \in Sessions \ {s} : log'[t] = log[t]
  BY <1>1 DEF WriterWrite, TypeInv, TypeOK, FileType
<1>5. Verdicts'
  BY <1>1, <1>2, <1>3, <1>4, WriterVerdicts
<1>6. ASSUME Tracked' PROVE Drains'
  <2>1. Drains /\ WriterAlone /\ s = session
    BY <1>1, <1>2, <1>6, RunningWriter DEF CleanInv, OrderInv, Tracked
  <2>2. CASE error' = TRUE /\ writer'[s].pc = "dead"
    BY <1>2, <2>1, <2>2 DEF Drains
  <2>3. CASE writer'[s].pc = next /\ UNCHANGED <<state, error>>
    <3>1. ASSUME Drained, item.kind = "stop" PROVE Drained'
      <4>1. Hand(session) # <<>> /\ ~NoStop(Hand(session))
        BY <1>1, <2>1, <3>1 DEF WriterWrite, TypeInv, Support, Hand, NoStop
      <4>2. queue[session] = <<>> /\ Joining
        BY <3>1, <4>1 DEF Drained
      <4> QED
        BY <1>2, <1>3, <2>1, <2>3, <4>2, NoStopEmpty DEF Drained, Joining, Hand
    <3>2. ASSUME Drained, item.kind # "stop" PROVE Drained'
      BY <1>2, <1>3, <2>1, <2>3, <3>2, NoStopEmpty DEF Drained, Joining, Alive, Hand
    <3>3. Drained => Drained'
      BY <3>1, <3>2
    <3> QED
      BY <1>2, <2>1, <2>3, <3>3 DEF Drains
  <2> QED
    BY <1>3, <2>2, <2>3
<1> QED
  BY <1>1, <1>5, <1>6 DEF CleanInv

LEMMA WriterFailsClean ==
  ASSUME CleanInv, NEW s \in Sessions, WriterFails(s)
  PROVE  CleanInv'
<1>1. TypeInv /\ OrderInv' /\ Alive(s)
  BY WriterFailsOrder DEF CleanInv, OrderInv, WriterFails, Alive
<1>2. UNCHANGED <<session, log, clean, final, crossed, eventLost>> /\ error' = TRUE
  BY DEF WriterFails, WriterDies, disk, history
<1>3. /\ writer'[s].pc = "dead"
      /\ \A t \in Sessions \ {s} : writer'[t] = writer[t]
  BY <1>1 DEF WriterFails, WriterDies, WriterAt, TypeInv, TypeOK, ThreadType
<1>4. Verdicts'
  BY <1>1, <1>2, <1>3, WriterVerdicts
<1>5. ASSUME Tracked' PROVE Drains'
  <2>1. WriterAlone /\ s = session
    BY <1>1, <1>2, <1>5, RunningWriter DEF CleanInv, OrderInv, Tracked
  <2> QED
    BY <1>2, <1>3, <2>1 DEF Drains
<1> QED
  BY <1>1, <1>4, <1>5 DEF CleanInv

LEMMA StutterClean == CleanInv /\ UNCHANGED vars => CleanInv'
<1> SUFFICES ASSUME CleanInv, UNCHANGED vars PROVE CleanInv'
  OBVIOUS
<1>1. UNCHANGED <<state, error, session, queue, writer, log, clean, final, stopper, crossed, eventLost>>
  BY DEF vars, disk, history
<1>2. OrderInv'
  BY StutterOrder DEF CleanInv
<1>3. (Tracked' => Tracked) /\ (Drains => Drains')
  BY <1>1 DEF Tracked, Drains, Drained, Joining, Alive, Hand
<1>4. Verdicts => Verdicts'
  BY <1>1 DEF Verdicts, Settled, Complete, Alive, Idle
<1> QED
  BY <1>2, <1>3, <1>4 DEF CleanInv

\* metadata.json calls a recording clean only when its files account for every
\* frame it received and no event was refused, and nothing later makes that false,
\* for every number of threads, queue size and recordings.
THEOREM CleanMeansComplete == Spec => []CleanIsComplete
<1>1. CleanInv /\ [Next]_vars => CleanInv'
  BY StartClean, RecordFrameClean, RecordEventClean, StopBeginClean, StopPutGapClean,
     StopClearGapClean, StopPutSentinelClean, StopPutTimesOutClean, StopFinishClean,
     WriterBindClean, WriterGetClean, WriterWriteClean, WriterFailsClean, StutterClean
  DEF Next, StopStep, WriterStep
<1> QED
  BY <1>1, InitClean, CleanInvImplies, PTL DEF Spec

-----------------------------------------------------------------------------
(* Part 4: CountersConserved *)

-----------------------------------------------------------------------------
(* The frames of a queue *)

FramesOf(q) == {k \in DOMAIN q : q[k].kind = "frame"}
Count(q) == Cardinality(FramesOf(q))
NoFrame(q) == \A k \in 1 .. Len(q) : q[k].kind # "frame"

LEMMA CountType ==
  ASSUME NEW q \in Seq(Item)
  PROVE  /\ FramesOf(q) = {k \in 1 .. Len(q) : q[k].kind = "frame"}
         /\ IsFiniteSet(FramesOf(q)) /\ Count(q) \in Nat
<1>1. DOMAIN q = 1 .. Len(q) /\ Len(q) \in Nat
  BY LenProperties
<1>2. FramesOf(q) = {k \in 1 .. Len(q) : q[k].kind = "frame"}
  BY <1>1 DEF FramesOf
<1>3. IsFiniteSet(1 .. Len(q)) /\ FramesOf(q) \in SUBSET (1 .. Len(q))
  BY <1>1, <1>2, FS_Interval
<1>4. IsFiniteSet(FramesOf(q))
  BY <1>3, FS_Subset
<1> QED BY <1>2, <1>4, FS_CardinalityType DEF Count

LEMMA CountNone ==
  ASSUME NEW q \in Seq(Item), NoFrame(q)
  PROVE  Count(q) = 0
<1>1. FramesOf(q) = {}
  BY CountType DEF NoFrame
<1> QED BY <1>1, FS_EmptySet DEF Count

\* What accounts for no frame changes no count.
LEMMA CountConcat ==
  ASSUME NEW q \in Seq(Item), NEW r \in Seq(Item), NoFrame(r)
  PROVE  q \o r \in Seq(Item) /\ Count(q \o r) = Count(q)
<1>1. Len(q) \in Nat /\ Len(r) \in Nat
  BY LenProperties
<1>2. /\ q \o r \in Seq(Item) /\ Len(q \o r) = Len(q) + Len(r)
      /\ \A i \in 1 .. Len(q) + Len(r) : (q \o r)[i] = IF i <= Len(q) THEN q[i] ELSE r[i - Len(q)]
  BY ConcatProperties
<1>3. \A i \in 1 .. Len(q) + Len(r) : ~(i <= Len(q)) => (q \o r)[i].kind # "frame"
  <2>1. \A i \in 1 .. Len(q) + Len(r) : ~(i <= Len(q)) => i - Len(q) \in 1 .. Len(r)
    BY <1>1
  <2> QED BY <1>2, <2>1 DEF NoFrame
<1>4. \A i : i \in FramesOf(q \o r) <=> i \in FramesOf(q)
  <2>1. FramesOf(q \o r) = {i \in 1 .. Len(q) + Len(r) : (q \o r)[i].kind = "frame"}
    BY <1>2, CountType
  <2>2. FramesOf(q) = {i \in 1 .. Len(q) : q[i].kind = "frame"}
    BY CountType
  <2>3. \A i \in 1 .. Len(q) : i \in 1 .. Len(q) + Len(r) /\ i <= Len(q)
    BY <1>1
  <2>4. \A i \in 1 .. Len(q) + Len(r) : i <= Len(q) => i \in 1 .. Len(q)
    BY <1>1
  <2> QED BY <1>2, <1>3, <2>1, <2>2, <2>3, <2>4
<1>5. FramesOf(q \o r) = FramesOf(q)
  BY <1>4
<1> QED BY <1>2, <1>5 DEF Count

LEMMA CountAppend ==
  ASSUME NEW q \in Seq(Item), NEW item \in Item, item.kind = "frame"
  PROVE  Count(Append(q, item)) = Count(q) + 1
<1> DEFINE r == Append(q, item)
           n == Len(q) + 1
<1>1. Len(q) \in Nat
  BY LenProperties
<1>2. /\ r \in Seq(Item) /\ Len(r) = n /\ r[n] = item
      /\ \A i \in 1 .. Len(q) : r[i] = q[i]
  BY AppendProperties
<1>3. \A i \in 1 .. n : i \in 1 .. Len(q) \/ i = n
  BY <1>1
<1>4. n \in 1 .. n /\ \A i \in 1 .. Len(q) : i \in 1 .. n /\ i # n
  BY <1>1
<1>5. FramesOf(r) = {i \in 1 .. n : r[i].kind = "frame"}
      /\ FramesOf(q) = {i \in 1 .. Len(q) : q[i].kind = "frame"}
      /\ IsFiniteSet(FramesOf(q))
  BY <1>2, CountType
<1> HIDE DEF r, n
<1>6. FramesOf(r) = FramesOf(q) \cup {n} /\ n \notin FramesOf(q)
  BY <1>2, <1>3, <1>4, <1>5
<1>7. Cardinality(FramesOf(q) \cup {n}) = Cardinality(FramesOf(q)) + 1
  BY <1>5, <1>6, FS_AddElement
<1> QED BY <1>6, <1>7 DEF Count, r

\* The writer takes the oldest item.
LEMMA CountHead ==
  ASSUME NEW q \in Seq(Item), q # <<>>
  PROVE  Count(q) = Count(<<Head(q)>>) + Count(Tail(q))
<1> DEFINE t == Tail(q)
           behind == {k \in 2 .. Len(q) : q[k].kind = "frame"}
           shift == [k \in FramesOf(t) |-> k + 1]
<1>1. Len(q) \in Nat \ {0} /\ Head(q) = q[1] /\ t \in Seq(Item) /\ Len(t) = Len(q) - 1
      /\ Head(q) \in Item /\ \A i \in 1 .. Len(t) : t[i] = q[i + 1]
  BY EmptySeq, LenProperties, HeadTailProperties
<1>2. FramesOf(t) = {k \in 1 .. Len(t) : t[k].kind = "frame"} /\ IsFiniteSet(FramesOf(t))
      /\ FramesOf(q) = {k \in 1 .. Len(q) : q[k].kind = "frame"} /\ Count(t) \in Nat
  BY <1>1, CountType
<1>3. \A k \in 1 .. Len(t) : k + 1 \in 2 .. Len(q)
  BY <1>1
<1>4. \A k \in 2 .. Len(q) : k - 1 \in 1 .. Len(t) /\ (k - 1) + 1 = k
  BY <1>1
<1>5. Cardinality(behind) = Count(t) /\ IsFiniteSet(behind)
  <2>1. shift \in [FramesOf(t) -> behind]
    BY <1>1, <1>2, <1>3
  <2>2. \A a, b \in FramesOf(t) : shift[a] = shift[b] => a = b
    BY <1>1, <1>2
  <2>3. \A k \in behind : k - 1 \in FramesOf(t) /\ shift[k - 1] = k
    BY <1>1, <1>2, <1>4
  <2>4. \A k \in behind : \E a \in FramesOf(t) : shift[a] = k
    BY <2>3
  <2> HIDE DEF shift, behind
  <2>5. shift \in Bijection(FramesOf(t), behind)
    BY <2>1, <2>2, <2>4, Fun_IsBij
  <2>6. ExistsBijection(FramesOf(t), behind)
    BY <2>5, Fun_ExistsBij
  <2> QED BY <1>2, <2>6, FS_Bijection DEF Count
<1>6. <<Head(q)>> \in Seq(Item) /\ Len(<<Head(q)>>) = 1 /\ <<Head(q)>>[1] = q[1]
  BY <1>1
<1>7. 1 \in 1 .. Len(q) /\ \A k \in 1 .. Len(q) : k = 1 \/ k \in 2 .. Len(q)
  BY <1>1
<1>8. 1 \notin behind /\ \A k \in 2 .. Len(q) : k \in 1 .. Len(q) /\ k # 1
  BY <1>1
<1>9. FramesOf(<<Head(q)>>) = {k \in {1} : q[1].kind = "frame"}
  <2>1. FramesOf(<<Head(q)>>) = {k \in 1 .. 1 : <<Head(q)>>[k].kind = "frame"}
    BY <1>6, CountType
  <2>2. 1 .. 1 = {1}
    OBVIOUS
  <2> QED BY <1>6, <2>1, <2>2
<1>10. CASE q[1].kind = "frame"
  <2>1. FramesOf(q) = behind \cup {1}
    BY <1>2, <1>7, <1>8, <1>10
  <2>2. FramesOf(<<Head(q)>>) = {1}
    BY <1>9, <1>10
  <2>3. Count(<<Head(q)>>) = 1
    BY <2>2, FS_Singleton DEF Count
  <2>4. Cardinality(behind \cup {1}) = Cardinality(behind) + 1
    BY <1>5, <1>8, FS_AddElement
  <2>5. Count(q) = Cardinality(behind) + 1
    BY <2>1, <2>4 DEF Count
  <2> HIDE DEF behind, t
  <2>6. Count(q) = Count(t) + 1
    BY <1>5, <2>5
  <2>7. Count(q) = 1 + Count(t)
    BY <1>2, <2>6
  <2> QED BY <2>3, <2>7 DEF t
<1>11. CASE q[1].kind # "frame"
  <2>1. FramesOf(q) = behind
    BY <1>2, <1>7, <1>8, <1>11
  <2>2. FramesOf(<<Head(q)>>) = {}
    BY <1>9, <1>11
  <2>3. Count(<<Head(q)>>) = 0
    BY <2>2, FS_EmptySet DEF Count
  <2>4. Count(q) = Cardinality(behind)
    BY <2>1 DEF Count
  <2> HIDE DEF behind, t
  <2>5. Count(q) = 0 + Count(t)
    BY <1>2, <1>5, <2>4
  <2> QED BY <2>3, <2>5 DEF t
<1> QED BY <1>10, <1>11

-----------------------------------------------------------------------------
(* The inductive invariant.                                                *)

Balanced == received = written + dropped + Count(queue[session]) + Count(Hand(session))
CountInv == OrderInv /\ (Tracked => Balanced)

LEMMA CountInvImplies == CountInv => CountersConserved
<1>1. CountersConserved <=> (Tracked => Balanced)
  BY DEF CountersConserved, Tracked, Balanced, Count, FramesOf
<1> QED
  BY <1>1 DEF CountInv

LEMMA InitCount == Init => CountInv
<1> SUFFICES ASSUME Init PROVE CountInv
  OBVIOUS
<1>1. ~Tracked
  BY DEF Init, Tracked
<1> QED
  BY <1>1, InitOrder DEF CountInv

\* The counts of a recording are numbers.
LEMMA CountParts ==
  ASSUME TypeInv, session > 0
  PROVE  /\ received \in Nat /\ written \in Nat /\ dropped \in Nat
         /\ Count(queue[session]) \in Nat /\ Count(Hand(session)) \in Nat
         /\ queue[session] \in Seq(Item) /\ Hand(session) \in Seq(Item) /\ session \in Sessions
<1>1. queue[session] \in Seq(Item) /\ Hand(session) \in Seq(Item) /\ session \in Sessions
      /\ received \in Nat
  BY Parts
<1>2. written \in Nat /\ dropped \in Nat
  BY DEF TypeInv, TypeOK, CounterType
<1>3. Count(queue[session]) \in Nat /\ Count(Hand(session)) \in Nat
  BY <1>1, CountType
<1> QED
  BY <1>1, <1>2, <1>3

\* Steps that move no frame.
LEMMA BalanceKept ==
  ASSUME CountInv, UNCHANGED <<session, received, written, dropped>>,
         Tracked' => Tracked,
         Tracked' => Count(queue'[session]) = Count(queue[session])
                     /\ Count(Hand(session)') = Count(Hand(session))
  PROVE  Tracked' => Balanced'
<1> SUFFICES ASSUME Tracked' PROVE Balanced'
  OBVIOUS
<1>1. Balanced
  BY DEF CountInv
<1>2. queue[session]' = queue'[session] /\ Hand(session)' = writer'[session].hand
  BY DEF Hand
<1> QED
  BY <1>1, <1>2 DEF Balanced, Hand

LEMMA HandKept ==
  UNCHANGED <<session, writer>> => Hand(session)' = Hand(session)
  BY DEF Hand

LEMMA FlushNoFrame == NoFrame(<<>>) /\ NoFrame(FlushItems)
  BY DEF NoFrame, FlushItems, GapItem

LEMMA EmptyCount == <<>> \in Seq(Item) /\ Count(<<>>) = 0
<1>1. <<>> \in Seq(Item)
  OBVIOUS
<1> QED
  BY <1>1, CountNone, FlushNoFrame

\* The pending gap and an item that is no frame change no count.
LEMMA MarkerCount ==
  ASSUME NEW q \in Seq(Item), NEW g \in Seq(Item), NoFrame(g), NEW item \in Item,
         item.kind # "frame"
  PROVE  Count(q \o Append(g, item)) = Count(q)
<1>1. g \o <<item>> \in Seq(Item) /\ <<item>> \in Seq(Item) /\ NoFrame(<<item>>)
  BY DEF NoFrame
<1>2. q \o g \in Seq(Item) /\ Count(q \o g) = Count(q)
  BY CountConcat
<1>3. Count((q \o g) \o <<item>>) = Count(q \o g)
  BY <1>1, <1>2, CountConcat
<1>4. q \o Append(g, item) = (q \o g) \o <<item>>
  BY <1>1, AppendAsConcat, ConcatAssociative
<1> QED
  BY <1>2, <1>3, <1>4

LEMMA FrameCount ==
  ASSUME NEW q \in Seq(Item), NEW g \in Seq(Item), NoFrame(g), NEW item \in Item,
         item.kind = "frame"
  PROVE  Count(q \o Append(g, item)) = Count(q) + 1
<1>1. <<item>> \in Seq(Item)
  OBVIOUS
<1>2. q \o g \in Seq(Item) /\ Count(q \o g) = Count(q)
  BY CountConcat
<1>3. Count(Append(q \o g, item)) = Count(q \o g) + 1
  BY <1>2, CountAppend
<1>4. q \o Append(g, item) = Append(q \o g, item)
  BY <1>1, <1>2, AppendAsConcat, ConcatAssociative
<1> QED
  BY <1>2, <1>3, <1>4

-----------------------------------------------------------------------------
(* The steps.                                                              *)

LEMMA StartCount ==
  ASSUME CountInv, NEW a \in Api, Start(a)
  PROVE  CountInv'
<1> DEFINE t == session + 1
<1>1. OrderInv' /\ TypeInv /\ Fresh
  BY StartOrder DEF CountInv, OrderInv
<1>2. t \in Sessions /\ session' = t /\ t > session
  BY <1>1, BoundsAssumption DEF Start, TypeInv, TypeOK, CounterType, Sessions
<1>3. queue'[t] = <<>> /\ writer'[t].hand = <<>>
  BY <1>1, <1>2 DEF Start, Fresh, WriterAt, TypeInv, TypeOK, ThreadType
<1>4. queue[session]' = <<>> /\ Hand(session)' = <<>>
  BY <1>2, <1>3 DEF Hand
<1>5. received' = 0 /\ written' = 0 /\ dropped' = 0
  BY DEF Start
<1>6. Count(<<>>) = 0
  BY EmptyCount
<1>7. Balanced'
  BY <1>4, <1>5, <1>6 DEF Balanced
<1> QED
  BY <1>1, <1>7 DEF CountInv

LEMMA RecordFrameCount ==
  ASSUME CountInv, RecordFrame
  PROVE  CountInv'
<1> DEFINE p == received + 1
           frame == [kind |-> "frame", lo |-> p, hi |-> p]
           q == queue[session]
<1>1. OrderInv' /\ TypeInv /\ CounterType
  BY RecordFrameOrder DEF CountInv, OrderInv, TypeInv, TypeOK
<1>2. /\ UNCHANGED <<session, writer, written, crossed>>
      /\ received' = p /\ session > 0
  BY <1>1 DEF RecordFrame, history, TypeInv, Support
<1>3. /\ q \in Seq(Item) /\ FlushItems \in Seq(Item) /\ NoFrame(FlushItems) /\ session \in Sessions
      /\ received \in Nat /\ written \in Nat /\ dropped \in Nat
      /\ Count(q) \in Nat /\ Count(Hand(session)) \in Nat
  BY <1>1, <1>2, Parts, CountParts, FlushNoFrame
<1>4. dropped' + Count(queue'[session]) = dropped + Count(q) + 1
  <2>1. CASE Room < Len(FlushItems) /\ NoteDrop(gap, p) /\ UNCHANGED <<queue, unfinished>>
    <3>1. dropped' = dropped + 1 /\ Count(queue'[session]) = Count(q)
      BY <2>1 DEF NoteDrop
    <3> QED
      BY <1>3, <3>1
  <2>2. CASE Room = Len(FlushItems) /\ NoteDrop(NoGap, p) /\ Enqueue(FlushItems)
    <3>1. queue'[session] = q \o FlushItems
      BY <1>1, <1>3, <2>2, EnqueueEffect DEF Enqueue, TypeInv, TypeOK
    <3>2. dropped' = dropped + 1 /\ Count(queue'[session]) = Count(q)
      BY <1>3, <2>2, <3>1, CountConcat DEF NoteDrop
    <3> QED
      BY <1>3, <3>2
  <2>3. CASE /\ Room >= Len(FlushItems) + 1 /\ Enqueue(Append(FlushItems, frame))
             /\ gap' = NoGap /\ UNCHANGED dropped
    <3>1. frame \in Item
      BY <1>1, ItemTypes DEF RecordFrame
    <3>2. queue'[session] = q \o Append(FlushItems, frame)
      BY <1>1, <1>3, <2>3, EnqueueEffect DEF Enqueue, TypeInv, TypeOK
    <3>3. Count(queue'[session]) = Count(q) + 1
      BY <1>3, <3>1, <3>2, FrameCount
    <3> QED
      BY <1>3, <2>3, <3>3
  <2> QED
    BY <2>1, <2>2, <2>3 DEF RecordFrame
<1>5. ASSUME Tracked' PROVE Balanced'
  <2>1. Balanced
    BY <1>2, <1>5 DEF CountInv, Tracked
  <2>2. queue[session]' = queue'[session] /\ Hand(session)' = Hand(session)
    BY <1>2, HandKept
  <2>3. dropped' \in Int /\ Count(queue'[session]) \in Int
    <3>1. dropped' \in Nat /\ TypeInv' /\ session' = session /\ session' > 0
      BY <1>1, <1>2 DEF OrderInv, TypeInv, TypeOK, CounterType
    <3>2. queue'[session] \in Seq(Item)
      BY <1>3, <3>1 DEF TypeInv, TypeOK, QueueType
    <3> QED
      BY <3>1, <3>2, CountType
  <2>4. received = written + dropped + Count(q) + Count(Hand(session))
    BY <2>1 DEF Balanced
  <2>5. p = written + dropped' + Count(queue'[session]) + Count(Hand(session))
    <3>1. \A r, w, d, c, h, e, b \in Int :
            r = w + d + c + h /\ e + b = d + c + 1 => r + 1 = w + e + b + h
      OBVIOUS
    <3>2. /\ received \in Int /\ written \in Int /\ dropped \in Int /\ Count(q) \in Int
          /\ Count(Hand(session)) \in Int
      BY <1>3
    <3> QED
      BY <1>4, <2>3, <2>4, <3>1, <3>2
  <2> QED
    BY <1>2, <2>2, <2>5 DEF Balanced
<1> QED
  BY <1>1, <1>5 DEF CountInv

LEMMA RecordEventCount ==
  ASSUME CountInv, RecordEvent
  PROVE  CountInv'
<1> DEFINE event == Marker("event", received)
           q == queue[session]
<1>1. OrderInv' /\ TypeInv
  BY RecordEventOrder DEF CountInv, OrderInv
<1>2. /\ UNCHANGED <<session, received, written, dropped, writer, crossed>> /\ session > 0
  BY <1>1 DEF RecordEvent, counters, TypeInv, Support
<1>3. q \in Seq(Item) /\ FlushItems \in Seq(Item) /\ NoFrame(FlushItems) /\ session \in Sessions
  BY <1>1, <1>2, Parts, FlushNoFrame
<1>4. event \in Item /\ event.kind # "frame"
  BY <1>1, ItemTypes DEF TypeInv, TypeOK, Marker
<1>5. \/ EnqueueAt(session, Append(FlushItems, event)) \/ EnqueueAt(session, FlushItems)
      \/ UNCHANGED queue
  BY DEF RecordEvent, Enqueue
<1>6. \/ queue'[session] = q \o Append(FlushItems, event)
      \/ queue'[session] = q \o FlushItems
      \/ queue'[session] = q
  BY <1>1, <1>3, <1>5, EnqueueEffect DEF TypeInv, TypeOK
<1>7. Count(queue'[session]) = Count(q)
  <2>1. Count(q \o Append(FlushItems, event)) = Count(q) /\ Count(q \o FlushItems) = Count(q)
    <3> HIDE DEF event, q
    <3> QED
      BY <1>3, <1>4, MarkerCount, CountConcat
  <2> QED
    BY <1>6, <2>1
<1>8. Tracked' => Tracked
  BY <1>2 DEF Tracked
<1> QED
  BY <1>1, <1>2, <1>7, <1>8, HandKept, BalanceKept DEF CountInv

LEMMA StopPutGapCount ==
  ASSUME CountInv, NEW a \in Api, StopPutGap(a)
  PROVE  CountInv'
<1>1. OrderInv' /\ TypeInv
  BY StopPutGapOrder DEF CountInv, OrderInv
<1>2. /\ UNCHANGED <<session, received, written, dropped, writer, crossed>>
      /\ session > 0 /\ ~Idle(a)
  BY <1>1 DEF StopPutGap, counters, history, TypeInv, Support, Idle
<1>3. Tracked' => Tracked
  BY <1>2 DEF Tracked
<1>4. ASSUME Tracked PROVE Count(queue'[session]) = Count(queue[session])
  <2>1. stopper[a].q = session /\ stopper[a].gap = FlushItems
    BY <1>2, <1>4 DEF CountInv, OrderInv, StopperAlone, StopPutGap
  <2>2. queue[session] \in Seq(Item) /\ FlushItems \in Seq(Item) /\ session \in Sessions
    BY <1>1, <1>2, Parts
  <2>3. queue'[session] = queue[session] \o FlushItems
    BY <1>1, <2>1, <2>2, EnqueueEffect DEF StopPutGap, TypeInv, TypeOK
  <2> QED
    BY <2>2, <2>3, CountConcat, FlushNoFrame
<1> QED
  BY <1>1, <1>2, <1>3, <1>4, HandKept, BalanceKept DEF CountInv

LEMMA StopPutSentinelCount ==
  ASSUME CountInv, NEW a \in Api, StopPutSentinel(a)
  PROVE  CountInv'
<1> DEFINE marker == Marker("stop", received)
<1>1. OrderInv' /\ TypeInv
  BY StopPutSentinelOrder DEF CountInv, OrderInv
<1>2. /\ UNCHANGED <<session, received, written, dropped, writer, crossed>>
      /\ session > 0 /\ ~Idle(a)
  BY <1>1 DEF StopPutSentinel, counters, history, TypeInv, Support, Idle
<1>3. Tracked' => Tracked
  BY <1>2 DEF Tracked
<1>4. ASSUME Tracked PROVE Count(queue'[session]) = Count(queue[session])
  <2>1. stopper[a].q = session
    BY <1>2, <1>4 DEF CountInv, OrderInv, StopperAlone
  <2>2. queue[session] \in Seq(Item) /\ session \in Sessions
    BY <1>1, <1>2, Parts
  <2>3. marker \in Item /\ marker.kind # "frame"
    BY <1>1, ItemTypes DEF TypeInv, TypeOK, Marker
  <2>4. queue'[session] = queue[session] \o <<marker>>
    BY <1>1, <2>1, <2>2, EnqueueEffect DEF StopPutSentinel, TypeInv, TypeOK
  <2>5. <<marker>> \in Seq(Item) /\ NoFrame(<<marker>>)
    BY <2>3 DEF NoFrame
  <2> QED
    BY <2>2, <2>4, <2>5, CountConcat
<1> QED
  BY <1>1, <1>2, <1>3, <1>4, HandKept, BalanceKept DEF CountInv

LEMMA StopMovesCount ==
  ASSUME CountInv, NEW a \in Api,
         StopBegin(a) \/ StopClearGap(a) \/ StopPutTimesOut(a) \/ StopFinish(a)
  PROVE  CountInv'
<1>1. OrderInv' /\ TypeInv
  BY StopBeginOrder, StopClearGapOrder, StopReturnsOrder DEF CountInv, OrderInv
<1>2. UNCHANGED <<session, received, written, dropped, queue, writer>>
  BY DEF StopBegin, StopClearGap, StopPutTimesOut, StopFinish, counters
<1>3. Tracked' => Tracked
  <2>1. CASE StopBegin(a)
    <3>1. crossed' = [crossed EXCEPT ![session] = @ \/ \E b \in Api : ~Idle(b)]
      BY <2>1 DEF StopBegin
    <3>2. session > 0 => (crossed[session] => crossed'[session])
      BY <1>1, <3>1, Parts DEF TypeInv, TypeOK, FileType
    <3> QED
      BY <1>2, <3>2 DEF Tracked
  <2>2. CASE UNCHANGED crossed
    BY <1>2, <2>2 DEF Tracked
  <2> QED
    BY <2>1, <2>2 DEF StopClearGap, StopPutTimesOut, StopFinish, history
<1> QED
  BY <1>1, <1>2, <1>3, HandKept, BalanceKept DEF CountInv

\* The writer holds no item when it turns to the queue and the same item when it
\* fails.
LEMMA WriterIdleCount ==
  ASSUME CountInv, NEW s \in Sessions, WriterBind(s) \/ WriterFails(s)
  PROVE  CountInv'
<1>1. OrderInv' /\ TypeInv /\ Fresh /\ Alive(s)
  BY WriterBindOrder, WriterFailsOrder DEF CountInv, OrderInv, WriterBind, WriterFails, Alive
<1>2. UNCHANGED <<session, received, written, dropped, queue, crossed>>
  BY DEF WriterBind, WriterFails, counters, history
<1>3. Tracked' => Tracked
  BY <1>2 DEF Tracked
<1>4. ASSUME Tracked PROVE Hand(session)' = Hand(session)
  <2>1. WriterAlone /\ s = session
    BY <1>1, <1>4, RunningWriter DEF CountInv, OrderInv
  <2>2. CASE WriterBind(s)
    <3>1. writer'[s].hand = <<>> /\ Hand(session) = <<>>
      BY <1>1, <2>1, <2>2 DEF WriterBind, WriterAt, WriterAlone, TypeInv, TypeOK, ThreadType
    <3> QED
      BY <1>2, <2>1, <3>1 DEF Hand
  <2>3. CASE WriterFails(s)
    <3>1. writer'[s].hand = writer[s].hand
      BY <1>1, <2>3 DEF WriterFails, WriterDies, WriterAt, TypeInv, TypeOK, ThreadType
    <3> QED
      BY <1>2, <2>1, <3>1 DEF Hand
  <2> QED
    BY <2>2, <2>3
<1> QED
  BY <1>1, <1>2, <1>3, <1>4, BalanceKept DEF CountInv

LEMMA WriterGetCount ==
  ASSUME CountInv, NEW s \in Sessions, WriterGet(s)
  PROVE  CountInv'
<1>1. OrderInv' /\ TypeInv /\ Fresh /\ Alive(s)
  BY WriterGetOrder DEF CountInv, OrderInv, WriterGet, Alive
<1>2. UNCHANGED <<session, received, written, dropped, crossed>>
  BY DEF WriterGet, counters, history
<1>3. ASSUME Tracked' PROVE Balanced'
  <2>1. WriterAlone /\ s = session /\ Balanced /\ session > 0
    BY <1>1, <1>2, <1>3, RunningWriter DEF Tracked, CountInv, OrderInv
  <2>2. writer[s].q = session /\ Hand(session) = <<>>
    BY <2>1 DEF WriterAlone, WriterGet
  <2>3. /\ queue[session] # <<>> /\ queue'[session] = Tail(queue[session])
        /\ writer'[session].hand = <<Head(queue[session])>>
    BY <1>1, <2>1, <2>2 DEF WriterGet, WriterAt, TypeInv, TypeOK, ThreadType, QueueType
  <2>4. Count(queue[session]) = Count(<<Head(queue[session])>>) + Count(Tail(queue[session]))
        /\ <<Head(queue[session])>> \in Seq(Item) /\ Tail(queue[session]) \in Seq(Item)
    BY <1>1, <2>1, <2>3, CountParts, CountHead, HeadTailProperties
  <2>5. Count(Hand(session)) = 0
    BY <2>2, EmptyCount
  <2>6. queue[session]' = Tail(queue[session]) /\ Hand(session)' = <<Head(queue[session])>>
    BY <1>2, <2>3 DEF Hand
  <2>7. Count(<<Head(queue[session])>>) \in Nat /\ Count(Tail(queue[session])) \in Nat
    BY <2>4, CountType
  <2>8. received = written + dropped + Count(Tail(queue[session])) + Count(<<Head(queue[session])>>)
    <3>1. received = written + dropped + Count(queue[session]) + 0
      BY <2>1, <2>5 DEF Balanced
    <3>2. written \in Nat /\ dropped \in Nat
      BY <1>1, <2>1, CountParts
    <3> QED
      BY <2>4, <2>7, <3>1, <3>2
  <2> QED
    BY <1>2, <2>6, <2>8 DEF Balanced
<1> QED
  BY <1>1, <1>3 DEF CountInv

LEMMA WriterWriteCount ==
  ASSUME CountInv, NEW s \in Sessions, WriterWrite(s)
  PROVE  CountInv'
<1> DEFINE item == writer[s].hand[1]
<1>1. OrderInv' /\ TypeInv /\ Fresh /\ Alive(s)
  BY WriterWriteOrder DEF CountInv, OrderInv, WriterWrite, Alive
<1>2. /\ UNCHANGED <<session, received, dropped, queue, crossed>>
      /\ written' = IF item.kind = "frame" THEN written + 1 ELSE written
  BY DEF WriterWrite, history
<1>3. writer'[s].hand = <<>>
  BY <1>1 DEF WriterWrite, WriterDies, WriterAt, TypeInv, TypeOK, ThreadType
<1>4. ASSUME Tracked' PROVE Balanced'
  <2>1. s = session /\ Balanced /\ session > 0
    BY <1>1, <1>2, <1>4, RunningWriter DEF Tracked, CountInv, OrderInv
  <2>2. Hand(session) = <<item>> /\ item \in Item
    <3>1. Len(Hand(session)) = 1 /\ Hand(session) \in Seq(Item)
      BY <1>1, <2>1, Parts DEF WriterWrite, TypeInv, Support, Hand
    <3> QED
      BY <2>1, <3>1 DEF Hand
  <2>3. Hand(session)' = <<>> /\ queue[session]' = queue[session] /\ Count(<<>>) = 0
    BY <1>2, <1>3, <2>1, EmptyCount DEF Hand
  <2>4. Count(Hand(session)) = IF item.kind = "frame" THEN 1 ELSE 0
    <3>1. CASE item.kind = "frame"
      <4>1. Count(Append(<<>>, item)) = Count(<<>>) + 1
        BY <2>2, <3>1, EmptyCount, CountAppend
      <4>2. Append(<<>>, item) = <<item>>
        OBVIOUS
      <4> QED
        BY <2>2, <2>3, <3>1, <4>1, <4>2
    <3>2. CASE item.kind # "frame"
      <4>1. <<item>> \in Seq(Item) /\ NoFrame(<<item>>)
        BY <2>2, <3>2 DEF NoFrame
      <4> QED
        BY <2>2, <3>2, <4>1, CountNone
    <3> QED
      BY <3>1, <3>2
  <2>5. received = written' + dropped + Count(queue[session]) + 0
    <3>1. received = written + dropped + Count(queue[session]) + Count(Hand(session))
      BY <2>1 DEF Balanced
    <3>2. written \in Nat /\ dropped \in Nat /\ Count(queue[session]) \in Nat
      BY <1>1, <2>1, CountParts
    <3> QED
      BY <1>2, <2>4, <3>1, <3>2
  <2> QED
    BY <1>2, <2>3, <2>5 DEF Balanced
<1> QED
  BY <1>1, <1>4 DEF CountInv

LEMMA StutterCount == CountInv /\ UNCHANGED vars => CountInv'
<1> SUFFICES ASSUME CountInv, UNCHANGED vars PROVE CountInv'
  OBVIOUS
<1>1. OrderInv'
  BY StutterOrder DEF CountInv
<1>2. UNCHANGED <<session, received, written, dropped, queue, writer, crossed>>
  BY DEF vars, counters, history
<1>3. Tracked' => Tracked
  BY <1>2 DEF Tracked
<1> QED
  BY <1>1, <1>2, <1>3, HandKept, BalanceKept DEF CountInv

\* The counters on display are conserved: until a recording is crossed by a writer
\* or a stop() of another call, every frame it received is counted as written or
\* as dropped, or is in the queue or the writer's hand, whatever the queue size.
THEOREM Conserved == Spec => []CountersConserved
<1>1. CountInv /\ [Next]_vars => CountInv'
  BY StartCount, RecordFrameCount, RecordEventCount, StopMovesCount, StopPutGapCount,
     StopPutSentinelCount, WriterIdleCount, WriterGetCount, WriterWriteCount, StutterCount
  DEF Next, StopStep, WriterStep
<1> QED
  BY <1>1, InitCount, CountInvImplies, PTL DEF Spec
===============================================================================
