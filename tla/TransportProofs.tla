---------------------------- MODULE TransportProofs ----------------------------
(***************************************************************************)
(* Theorems about Transports: the types of its state, with the limits of   *)
(* both queues, the order of sessions, the order of the attempts of a BLE  *)
(* transport, and the text of a serial port, for every number of sessions, *)
(* links, inputs and faults.                                               *)
(*                                                                         *)
(* What a worker thread does to what other threads read is the same in all *)
(* of its steps: it queues items of its own session, or moves one from the *)
(* backlog to the queue.  One lemma per step shows that (WorkerStep); what *)
(* follows for the invariants is shown once.  The text of a serial port    *)
(* needs each step of its worker, and where in the queue a chunk is.       *)
(***************************************************************************)
EXTENDS Transports, TLAPS

WorkerType ==
  [kind : Kinds \cup {None}, session : Sessions, pc : Pcs, stop : BOOLEAN,
   conn : Conns, attempt : Nat, linked : SUBSET Nat, overflow : BOOLEAN,
   announced : BOOLEAN]

\* An item that the worker hands over bears its session and its attempt.
Stamped(item) ==
  /\ item \in Items /\ item.session = worker.session
  /\ item.type = "data" => item.state = worker.kind
  /\ item.type = "ctrl" => item.state = "ble"
  /\ item.type = "state" /\ worker.kind = "ble" => item.n <= worker'.attempt
  /\ item.type = "data" /\ item.state = "ble" => worker.kind = "ble" /\ item.n = worker'.attempt

Queues(item) == Room /\ queue' = Append(queue, item) /\ UNCHANGED backlog
Saves(item) ==
  /\ item.type # "data" /\ Len(backlog) < BacklogSize
  /\ backlog' = Append(backlog, item) /\ UNCHANGED queue
Drains ==
  /\ Room /\ backlog # <<>>
  /\ queue' = Append(queue, Head(backlog)) /\ backlog' = Tail(backlog)

Hands ==
  \/ UNCHANGED <<queue, backlog>>
  \/ \E item \in Items : Stamped(item) /\ (Queues(item) \/ Saves(item))
  \/ Drains

Runs ==
  /\ worker.pc # "dead" /\ worker' \in WorkerType
  /\ worker'.session = worker.session /\ worker'.kind = worker.kind
  /\ worker'.attempt >= worker.attempt
  /\ UNCHANGED <<api, status, parser, epoch>>

Counts ==
  /\ reconnect' \in BOOLEAN /\ inputs' \in 0..MaxInputs /\ faults' \in 0..MaxFaults
  /\ silent' \subseteq Sessions \X Conns /\ replies' \subseteq Items

WorkerStep == Runs /\ Hands /\ Counts

-----------------------------------------------------------------------------
(* Items and puts *)

LEMMA EventIsItem ==
  ASSUME TypeOK, NEW state \in States
  PROVE  Event(state) \in Items /\ Event(state).session = worker.session
         /\ Event(state).type = "state" /\ Event(state).n = 0
BY DEF TypeOK, Event, Item, Items

LEMMA BleEventIsItem ==
  ASSUME TypeOK, NEW state \in States
  PROVE  BleEvent(state) \in Items /\ BleEvent(state).session = worker.session
         /\ BleEvent(state).type = "state" /\ BleEvent(state).n = worker.attempt
BY DEF TypeOK, Event, BleEvent, Item, Items

LEMMA PutStateHands ==
  ASSUME TypeOK, NEW state \in States, PutState(state), worker.kind = "serial",
         worker'.attempt = worker.attempt, UNCHANGED backlog
  PROVE  Hands
<1>1. CASE Room
  <2>1. queue' = Append(queue, Event(state))
    BY <1>1 DEF PutState
  <2>2. Stamped(Event(state)) /\ Event(state) \in Items
    BY EventIsItem DEF Stamped
  <2> QED BY <1>1, <2>1, <2>2 DEF Hands, Queues
<1>2. CASE ~Room
  BY <1>2 DEF PutState, Hands
<1> QED BY <1>1, <1>2

LEMMA EnqueueHands ==
  ASSUME NEW item \in Items, Stamped(item), Enqueue(item)
  PROVE  Hands
<1>1. CASE Room
  <2>1. Queues(item)
    BY <1>1 DEF Enqueue, Queues
  <2> QED BY <2>1 DEF Hands
<1>2. CASE ~Room /\ item.type # "data" /\ Len(backlog) < BacklogSize
  <2>1. Saves(item)
    BY <1>2 DEF Enqueue, Saves
  <2> QED BY <2>1 DEF Hands
<1>3. CASE ~Room /\ ~(item.type # "data" /\ Len(backlog) < BacklogSize)
  BY <1>3 DEF Enqueue, Hands
<1> QED BY <1>1, <1>2, <1>3

LEMMA WorkerTyped == TypeOK => worker \in WorkerType
BY DEF TypeOK, WorkerType

\* Steps that keep the attempt.
LEMMA ChangeRuns ==
  ASSUME TypeOK, worker.pc # "dead", UNCHANGED <<api, status, parser, epoch>>,
         NEW pc \in Pcs, NEW conn \in Conns, NEW overflow \in BOOLEAN, NEW announced \in BOOLEAN,
         worker' = [worker EXCEPT !.pc = pc, !.conn = conn, !.overflow = overflow,
                                  !.announced = announced]
  PROVE  Runs /\ worker'.attempt = worker.attempt
<1>1. worker \in WorkerType
  BY WorkerTyped
<1>2. worker' \in WorkerType /\ worker'.attempt = worker.attempt
      /\ worker'.session = worker.session /\ worker'.kind = worker.kind
  BY <1>1 DEF WorkerType
<1>3. worker'.attempt >= worker.attempt
  BY <1>1, <1>2 DEF WorkerType
<1> QED BY <1>2, <1>3 DEF Runs

\* Steps of the worker's program counter alone.
LEMMA GoRuns ==
  ASSUME TypeOK, worker.pc # "dead", NEW pc \in Pcs, Go(pc),
         UNCHANGED <<api, status, parser, epoch>>
  PROVE  Runs /\ worker'.attempt = worker.attempt
<1>1. worker \in WorkerType
  BY WorkerTyped
<1>2. worker' \in WorkerType /\ worker'.attempt = worker.attempt
      /\ worker'.session = worker.session /\ worker'.kind = worker.kind
  BY <1>1 DEF Go, WorkerType
<1>3. worker'.attempt >= worker.attempt
  BY <1>1, <1>2 DEF WorkerType
<1> QED BY <1>2, <1>3 DEF Runs

\* Counters and histories that stay as they are.
LEMMA CountsKept ==
  ASSUME TypeOK, UNCHANGED <<silent, replies>>, reconnect' \in BOOLEAN,
         inputs' = inputs \/ (inputs' \in Nat /\ inputs' <= MaxInputs),
         UNCHANGED faults \/ Fails
  PROVE  Counts
BY BoundsAssumption DEF Counts, TypeOK, Fails

-----------------------------------------------------------------------------
(* The steps of the serial worker *)

LEMMA SerialSteps ==
  ASSUME TypeOK, SerialNext
  PROVE  WorkerStep
<1> USE DEF Pcs, States, Announces
<1>1. CASE SerialBegin
  <2>1. Runs /\ worker'.attempt = worker.attempt
    BY <1>1, GoRuns DEF SerialBegin, Serial, histories
  <2>2. Hands
    BY <1>1, <2>1, PutStateHands DEF SerialBegin, Serial
  <2> QED BY <1>1, <2>1, <2>2 DEF SerialBegin, WorkerStep, Counts, TypeOK, histories
<1>2. CASE SerialOpen
  <2>1. Runs
    <3>1. CASE Go("end") \/ Go("error")
      BY <1>2, <3>1, GoRuns DEF SerialOpen, Serial, histories
    <3>2. CASE /\ worker.conn < MaxConns
               /\ worker' = [worker EXCEPT !.pc = "opened", !.conn = @ + 1, !.announced = FALSE]
      <4>1. worker \in WorkerType /\ worker.conn + 1 \in Conns
        BY <3>2, WorkerTyped, BoundsAssumption DEF WorkerType, Conns
      <4>2. worker' \in WorkerType /\ worker'.attempt = worker.attempt
            /\ worker'.session = worker.session /\ worker'.kind = worker.kind
        BY <3>2, <4>1 DEF WorkerType
      <4>3. worker'.attempt >= worker.attempt
        BY <4>1, <4>2 DEF WorkerType
      <4> QED BY <1>2, <4>2, <4>3 DEF SerialOpen, Serial, Runs, histories
    <3> QED BY <1>2, <3>1, <3>2 DEF SerialOpen
  <2>2. Hands
    BY <1>2 DEF SerialOpen, Hands
  <2>3. Counts
    BY <1>2, CountsKept DEF SerialOpen, histories, TypeOK
  <2> QED BY <2>1, <2>2, <2>3 DEF WorkerStep
<1>3. CASE SerialAnnounce
  <2>1. Runs /\ worker'.attempt = worker.attempt
    <3>1. CASE Go("read")
      BY <1>3, <3>1, GoRuns DEF SerialAnnounce, Serial
    <3>2. CASE worker' = [worker EXCEPT !.pc = "ready", !.announced = Room]
      <4>1. worker \in WorkerType /\ Room \in BOOLEAN
        BY WorkerTyped DEF Room
      <4>2. worker' = [worker EXCEPT !.pc = "ready", !.conn = worker.conn,
                                     !.overflow = worker.overflow, !.announced = Room]
        BY <3>2, <4>1 DEF WorkerType
      <4> QED BY <1>3, <4>1, <4>2, ChangeRuns DEF SerialAnnounce, Serial, WorkerType
    <3> QED BY <1>3, <3>1, <3>2 DEF SerialAnnounce
  <2>2. Hands
    BY <1>3, <2>1, PutStateHands DEF SerialAnnounce, Serial
  <2>3. Link \in Sessions \X Conns
    BY DEF Link, TypeOK
  <2>4. Counts
    BY <1>3, <2>3 DEF SerialAnnounce, Counts, TypeOK
  <2> QED BY <2>1, <2>2, <2>4 DEF WorkerStep
<1>4. CASE SerialRead
  <2>1. \E pc \in {"end", "again", "notice", "chunk", "error"} : Go(pc)
    BY <1>4 DEF SerialRead
  <2>2. Runs
    BY <1>4, <2>1, GoRuns DEF SerialRead, Serial, histories
  <2>3. Hands
    BY <1>4 DEF SerialRead, Hands
  <2>4. inputs' = inputs \/ (inputs' \in Nat /\ inputs' <= MaxInputs)
    BY <1>4, BoundsAssumption DEF SerialRead, TypeOK
  <2>5. Counts
    BY <1>4, <2>4, CountsKept DEF SerialRead, histories, TypeOK
  <2> QED BY <2>2, <2>3, <2>5 DEF WorkerStep
<1>5. CASE SerialNotice
  <2>1. Runs /\ worker'.attempt = worker.attempt
    <3>1. PICK pc \in {"chunk", "read"}, overflow \in BOOLEAN :
            worker' = [worker EXCEPT !.pc = pc, !.overflow = overflow]
      <4>1. CASE Room
        BY <1>5, <4>1 DEF SerialNotice
      <4>2. CASE ~Room
        BY <1>5, <4>2 DEF SerialNotice
      <4> QED BY <4>1, <4>2
    <3>2. worker' = [worker EXCEPT !.pc = pc, !.conn = worker.conn,
                                   !.overflow = overflow, !.announced = worker.announced]
          /\ worker.conn \in Conns /\ worker.announced \in BOOLEAN
      BY <3>1, WorkerTyped DEF WorkerType
    <3>3. worker.pc # "dead" /\ UNCHANGED <<api, status, parser, epoch>>
      BY <1>5 DEF SerialNotice, Serial, histories
    <3> QED BY <3>1, <3>2, <3>3, ChangeRuns
  <2>2. Hands
    BY <1>5, <2>1, PutStateHands DEF SerialNotice, Serial
  <2> QED BY <1>5, <2>1, <2>2 DEF SerialNotice, WorkerStep, Counts, TypeOK, histories
<1>6. CASE SerialChunk
  <2> DEFINE chunk == Item("data", worker.session, worker.conn, "serial", inputs)
  <2>1. Runs
    <3>1. PICK overflow \in BOOLEAN :
            worker' = [worker EXCEPT !.pc = "read", !.overflow = overflow]
      <4>1. CASE Room
        BY <1>6, <4>1 DEF SerialChunk
      <4>2. CASE ~Room
        BY <1>6, <4>2 DEF SerialChunk
      <4> QED BY <4>1, <4>2
    <3>2. worker' = [worker EXCEPT !.pc = "read", !.conn = worker.conn,
                                   !.overflow = overflow, !.announced = worker.announced]
          /\ worker.conn \in Conns /\ worker.announced \in BOOLEAN
      BY <3>1, WorkerTyped DEF WorkerType
    <3>3. worker.pc # "dead" /\ UNCHANGED <<api, status, parser, epoch>>
      BY <1>6 DEF SerialChunk, Serial, histories
    <3> QED BY <3>1, <3>2, <3>3, ChangeRuns
  <2>2. chunk \in Items /\ Stamped(chunk)
    BY <1>6, BoundsAssumption DEF SerialChunk, Serial, Item, Items, Stamped, TypeOK
  <2>3. Queues(chunk) \/ UNCHANGED <<queue, backlog>>
    BY <1>6 DEF SerialChunk, Queues
  <2>4. Hands
    BY <2>2, <2>3 DEF Hands
  <2> QED BY <1>6, <2>1, <2>4 DEF SerialChunk, WorkerStep, Counts, TypeOK, histories
<1>7. CASE SerialError
  <2>1. Runs /\ worker'.attempt = worker.attempt
    BY <1>7, GoRuns DEF SerialError, Serial, histories
  <2>2. PutState("ERROR") \/ UNCHANGED queue
    BY <1>7 DEF SerialError
  <2>3. Hands
    BY <1>7, <2>1, <2>2, PutStateHands DEF SerialError, Serial, Hands
  <2> QED BY <1>7, <2>1, <2>3 DEF SerialError, WorkerStep, Counts, TypeOK, histories
<1>8. CASE SerialAgain
  <2>1. Runs /\ worker'.attempt = worker.attempt
    BY <1>8, GoRuns DEF SerialAgain, Serial, histories
  <2>2. Hands
    BY <1>8, <2>1, PutStateHands DEF SerialAgain, Serial
  <2> QED BY <1>8, <2>1, <2>2 DEF SerialAgain, WorkerStep, Counts, TypeOK, histories
<1>9. CASE SerialEnd
  <2>1. Runs /\ worker'.attempt = worker.attempt
    BY <1>9, GoRuns DEF SerialEnd, Serial, histories
  <2>2. Hands
    BY <1>9, <2>1, PutStateHands DEF SerialEnd, Serial
  <2> QED BY <1>9, <2>1, <2>2 DEF SerialEnd, WorkerStep, Counts, TypeOK, histories
<1> QED BY <1>1, <1>2, <1>3, <1>4, <1>5, <1>6, <1>7, <1>8, <1>9 DEF SerialNext

-----------------------------------------------------------------------------
(* The steps of the BLE worker *)

\* A state event that is put on the way to another attempt, or in this one.
LEMMA BleEventHands ==
  ASSUME TypeOK, NEW state \in States, Enqueue(BleEvent(state)), worker'.attempt >= worker.attempt
  PROVE  Hands
BY BleEventIsItem, EnqueueHands DEF Stamped

LEMMA BleSteps ==
  ASSUME TypeOK, BleNext
  PROVE  WorkerStep
<1> USE DEF Pcs, States, Announces
<1>1. CASE BleBegin
  <2>1. CASE worker.stop
    <3>1. Runs
      BY <1>1, <2>1, GoRuns DEF BleBegin, Ble, histories
    <3> QED BY <1>1, <2>1, <3>1, CountsKept DEF BleBegin, WorkerStep, Hands, histories, TypeOK
  <2>2. CASE ~worker.stop
    <3> DEFINE item == [BleEvent("CONNECTING") EXCEPT !.n = worker.attempt + 1]
    <3>1. worker \in WorkerType
      BY WorkerTyped
    <3>2. /\ worker' = [worker EXCEPT !.pc = "link", !.attempt = @ + 1]
          /\ Enqueue(item)
      BY <1>1, <2>2 DEF BleBegin
    <3> HIDE DEF item
    <3>3. worker' \in WorkerType /\ worker'.attempt = worker.attempt + 1
          /\ worker'.session = worker.session /\ worker'.kind = worker.kind
          /\ worker.attempt \in Nat
      <4>1. worker.attempt \in Nat /\ worker.attempt + 1 \in Nat
        BY <3>1 DEF WorkerType
      <4> QED BY <3>1, <3>2, <4>1 DEF WorkerType
    <3>4. Runs
      BY <1>1, <3>3 DEF BleBegin, Ble, Runs, histories
    <3>5. item \in Items /\ item.session = worker.session /\ item.type = "state"
          /\ item.n = worker.attempt + 1
      BY <3>3, BleEventIsItem DEF Items, item
    <3>6. Hands
      <4>1. Stamped(item)
        BY <3>3, <3>5 DEF Stamped
      <4> QED BY <3>2, <3>5, <4>1, EnqueueHands
    <3> QED BY <1>1, <3>4, <3>6, CountsKept DEF BleBegin, WorkerStep, histories, TypeOK
  <2> QED BY <2>1, <2>2
<1>2. CASE BleLink
  <2>1. CASE Go("down") /\ (UNCHANGED <<queue, backlog>> \/ Enqueue(BleEvent("ERROR")))
    <3>1. Runs /\ worker'.attempt = worker.attempt /\ worker.attempt \in Nat
      BY <1>2, <2>1, GoRuns, WorkerTyped DEF BleLink, Ble, histories, WorkerType
    <3>2. Hands
      BY <2>1, <3>1, BleEventHands DEF Hands
    <3>3. Counts
      BY <1>2, CountsKept DEF BleLink, histories, TypeOK
    <3> QED BY <3>1, <3>2, <3>3 DEF WorkerStep
  <2>2. CASE /\ worker.conn < MaxConns
             /\ worker' = [worker EXCEPT !.pc = "subscribe", !.conn = @ + 1,
                                         !.linked = @ \cup {worker.attempt}]
             /\ Enqueue([BleEvent("CONNECTED") EXCEPT !.conn = worker.conn + 1])
    <3> DEFINE item == [BleEvent("CONNECTED") EXCEPT !.conn = worker.conn + 1]
    <3>1. worker \in WorkerType /\ worker.conn + 1 \in Conns
      BY <2>2, WorkerTyped, BoundsAssumption DEF WorkerType, Conns
    <3>2. worker' \in WorkerType /\ worker'.attempt = worker.attempt
          /\ worker'.session = worker.session /\ worker'.kind = worker.kind
          /\ worker.attempt \in Nat
      BY <2>2, <3>1 DEF WorkerType
    <3> HIDE DEF item
    <3>3. Runs
      BY <1>2, <3>2 DEF BleLink, Ble, Runs, histories
    <3>4. item \in Items /\ item.session = worker.session /\ item.type = "state"
          /\ item.n = worker.attempt
      BY <3>1, BleEventIsItem DEF Items, item
    <3>5. Hands
      <4>1. Enqueue(item) /\ Stamped(item)
        BY <2>2, <3>2, <3>4 DEF Stamped, item
      <4> QED BY <3>4, <4>1, EnqueueHands
    <3>6. Counts
      BY <1>2, CountsKept DEF BleLink, histories, TypeOK
    <3> QED BY <3>3, <3>5, <3>6 DEF WorkerStep
  <2> QED BY <1>2, <2>1, <2>2 DEF BleLink
<1>3. CASE BleSubscribe
  <2>1. \E pc \in {"stream", "down"} : Go(pc)
    BY <1>3 DEF BleSubscribe
  <2>2. Runs /\ worker'.attempt = worker.attempt /\ worker.attempt \in Nat
    BY <1>3, <2>1, GoRuns, WorkerTyped DEF BleSubscribe, Ble, histories, WorkerType
  <2>3. Enqueue(BleEvent("STREAMING")) \/ Enqueue(BleEvent("ERROR"))
    BY <1>3 DEF BleSubscribe
  <2>4. Hands
    BY <2>2, <2>3, BleEventHands
  <2>5. Counts
    BY <1>3, CountsKept DEF BleSubscribe, histories, TypeOK
  <2> QED BY <2>2, <2>4, <2>5 DEF WorkerStep
<1>4. CASE BleNotify
  <2>1. worker \in WorkerType /\ worker.attempt \in Nat
    BY WorkerTyped DEF WorkerType
  <2>2. Runs
    BY <1>4, <2>1 DEF BleNotify, Runs
  <2>3. PICK attempt \in worker.linked, type \in {"data", "ctrl"} :
          LET item == Item(type, worker.session, worker.conn, "ble", attempt) IN
            /\ Accepted(attempt) /\ Enqueue(item)
            /\ replies' = IF type = "ctrl" /\ Kept(item) THEN replies \cup {item} ELSE replies
    BY <1>4 DEF BleNotify
  <2> DEFINE item == Item(type, worker.session, worker.conn, "ble", attempt)
  <2>4. item \in Items /\ Stamped(item)
    BY <1>4, <2>1, <2>3 DEF BleNotify, Accepted, Item, Items, Stamped, TypeOK
  <2>5. Hands
    BY <2>3, <2>4, EnqueueHands
  <2>6. replies' \subseteq Items
    BY <2>3, <2>4 DEF TypeOK
  <2>7. inputs' \in 0..MaxInputs
    BY <1>4, BoundsAssumption DEF BleNotify, TypeOK
  <2>8. Counts
    BY <1>4, <2>6, <2>7 DEF BleNotify, Counts, TypeOK
  <2> QED BY <2>2, <2>5, <2>8 DEF WorkerStep
<1>5. CASE BleDrain
  <2>1. worker \in WorkerType /\ worker.attempt \in Nat
    BY WorkerTyped DEF WorkerType
  <2>2. Runs
    BY <1>5, <2>1 DEF BleDrain, Ble, Runs, histories
  <2>3. Hands
    BY <1>5 DEF BleDrain, Hands, Drains
  <2>4. Counts
    BY <1>5, CountsKept DEF BleDrain, histories, TypeOK
  <2> QED BY <2>2, <2>3, <2>4 DEF WorkerStep
<1>6. CASE BleDown
  <2>1. \E pc \in {"down", "dead", "wait"} : Go(pc)
    BY <1>6 DEF BleDown
  <2>2. Runs /\ worker'.attempt = worker.attempt /\ worker.attempt \in Nat
    BY <1>6, <2>1, GoRuns, WorkerTyped DEF BleDown, Ble, histories, WorkerType
  <2>3. UNCHANGED <<queue, backlog>> \/ Enqueue(BleEvent("DISCONNECTED"))
    BY <1>6 DEF BleDown
  <2>4. Hands
    BY <2>2, <2>3, BleEventHands DEF Hands
  <2>5. Counts
    BY <1>6, CountsKept DEF BleDown, histories, TypeOK
  <2> QED BY <2>2, <2>4, <2>5 DEF WorkerStep
<1>7. CASE BleRetry
  <2>1. \E pc \in {"dead", "begin"} : Go(pc)
    BY <1>7 DEF BleRetry
  <2>2. Runs
    BY <1>7, <2>1, GoRuns DEF BleRetry, Ble, histories
  <2>3. Hands
    BY <1>7 DEF BleRetry, Hands
  <2>4. Counts
    BY <1>7, CountsKept DEF BleRetry, histories, TypeOK
  <2> QED BY <2>2, <2>3, <2>4 DEF WorkerStep
<1> QED BY <1>1, <1>2, <1>3, <1>4, <1>5, <1>6, <1>7 DEF BleNext

-----------------------------------------------------------------------------
(* The types *)

TypeInv ==
  /\ TypeOK
  /\ api = "joining" => status.session < MaxSessions

LEMMA InitTypes == Init => TypeInv
<1> SUFFICES ASSUME Init PROVE TypeInv
  OBVIOUS
<1>1. 0 \in Sessions /\ 0 \in Conns /\ 0 \in 0..MaxInputs /\ 0 \in 0..MaxFaults
  BY BoundsAssumption DEF Sessions, Conns
<1>2. "DISCONNECTED" \in States /\ "dead" \in Pcs
  BY DEF States, Pcs
<1>3. queue = <<>> /\ queue \in Seq(Items) /\ backlog = <<>> /\ backlog \in Seq(Items)
      /\ Len(queue) = 0 /\ Len(backlog) = 0
  BY DEF Init
<1>4. worker \in WorkerType
  BY <1>1, <1>2 DEF Init, NoWorker, WorkerType
<1>5. /\ status \in [session : Sessions, conn : Conns, state : States]
      /\ epoch \in [session : Sessions, conn : Conns, attempt : Nat]
  BY <1>1, <1>2 DEF Init
<1>6. /\ parser.item = NoItem /\ parser.session \in Sessions /\ parser.conn \in Conns
      /\ parser.text \in [session : Sessions, conn : Conns, n : Nat]
  BY <1>1 DEF Init, EmptyText
<1>7. /\ api = "idle" /\ reconnect \in BOOLEAN /\ silent = {} /\ replies = {}
      /\ inputs \in 0..MaxInputs /\ faults \in 0..MaxFaults
  BY <1>1 DEF Init
<1> QED BY <1>3, <1>4, <1>5, <1>6, <1>7, BoundsAssumption DEF TypeInv, TypeOK, WorkerType

LEMMA WorkerKeepsTypes ==
  ASSUME TypeInv, WorkerStep
  PROVE  TypeInv'
<1> DEFINE Fit == /\ queue \in Seq(Items) /\ Len(queue) <= QueueSize
                  /\ backlog \in Seq(Items) /\ Len(backlog) <= BacklogSize
<1>1. Fit'
  <2>1. CASE UNCHANGED <<queue, backlog>>
    BY <2>1 DEF TypeInv, TypeOK
  <2>2. ASSUME NEW item \in Items, Queues(item)
        PROVE  Fit'
    BY <2>2, BoundsAssumption DEF Queues, Room, TypeInv, TypeOK
  <2>3. ASSUME NEW item \in Items, Saves(item)
        PROVE  Fit'
    BY <2>3, BoundsAssumption DEF Saves, TypeInv, TypeOK
  <2>4. CASE Drains
    BY <2>4, BoundsAssumption DEF Drains, Room, TypeInv, TypeOK
  <2> QED BY <2>1, <2>2, <2>3, <2>4 DEF WorkerStep, Hands
<1>2. worker' \in WorkerType /\ UNCHANGED <<api, status, parser, epoch>> /\ Counts
  BY DEF WorkerStep, Runs
<1> QED BY <1>1, <1>2 DEF TypeInv, TypeOK, WorkerType, Counts

LEMMA StepKeepsTypes ==
  ASSUME TypeInv, [Next]_vars
  PROVE  TypeInv'
<1>0. TypeOK /\ worker \in WorkerType
  BY WorkerTyped DEF TypeInv
<1>1. CASE SerialNext \/ BleNext
  BY <1>0, <1>1, SerialSteps, BleSteps, WorkerKeepsTypes
<1>2. CASE Disconnect
  <2>1. worker' \in WorkerType
    BY <1>0, <1>2 DEF Disconnect, WorkerType
  <2> QED BY <1>0, <1>2, <2>1 DEF Disconnect, TypeInv, TypeOK, WorkerType, histories
<1>3. CASE JoinTimeout
  BY <1>0, <1>3 DEF JoinTimeout, TypeInv, TypeOK, histories
<1>4. CASE NextSession
  <2>1. status.session + 1 \in Sessions /\ 0 \in Sessions /\ 0 \in Conns
    <3>1. status.session \in Sessions
      BY <1>0 DEF TypeOK
    <3>2. status.session < MaxSessions
      BY <1>4 DEF NextSession, TypeInv
    <3> QED BY <3>1, <3>2, BoundsAssumption DEF Sessions, Conns
  <2>2. status' \in [session : Sessions, conn : Conns, state : States]
    BY <1>4, <2>1 DEF NextSession, States
  <2>3. worker' \in WorkerType
    <3>1. NoWorker \in WorkerType
      BY <2>1 DEF NoWorker, WorkerType, Pcs
    <3>2. ASSUME NEW kind \in Kinds
          PROVE  Started(kind, status.session + 1) \in WorkerType
      BY <2>1, <3>1 DEF Started, WorkerType, Pcs
    <3> QED BY <1>4, <3>1, <3>2 DEF NextSession
  <2>4. backlog' \in Seq(Items) /\ Len(backlog') <= BacklogSize
    BY <1>4, BoundsAssumption DEF NextSession
  <2>5. api' \in {"idle", "starting"} /\ reconnect' \in BOOLEAN /\ replies' \subseteq Items
    BY <1>4 DEF NextSession
  <2> QED BY <1>0, <1>4, <2>2, <2>3, <2>4, <2>5 DEF NextSession, TypeInv, TypeOK, WorkerType
<1>5. CASE DescribeSession
  <2>1. status' \in [session : Sessions, conn : Conns, state : States]
    <3>1. 0 \in Conns /\ "CONNECTING" \in States
      BY BoundsAssumption DEF Conns, States
    <3>2. status \in [session : Sessions, conn : Conns, state : States]
      BY <1>0 DEF TypeOK
    <3> QED BY <1>5, <3>1, <3>2 DEF DescribeSession
  <2> QED BY <1>0, <1>5, <2>1 DEF DescribeSession, TypeInv, TypeOK, histories
<1>6. CASE RequestReconnect
  BY <1>0, <1>6, BoundsAssumption DEF RequestReconnect, TypeInv, TypeOK, histories, Fails
<1>7. CASE ParseState
  <2> DEFINE item == Head(queue)
  <2>1. item \in Items /\ queue' \in Seq(Items) /\ Len(queue') <= QueueSize
    BY <1>0, <1>7, BoundsAssumption DEF ParseState, TypeOK
  <2> HIDE DEF item
  <2>2. parser'.item = parser.item /\ parser'.session \in Sessions /\ parser'.conn \in Conns
        /\ parser'.text \in [session : Sessions, conn : Conns, n : Nat]
    <3> 0 \in Sessions /\ 0 \in Conns
      BY BoundsAssumption DEF Sessions, Conns
    <3> QED BY <1>0, <1>7, <2>1 DEF ParseState, TypeOK, Items, EmptyText, item
  <2>3. epoch' \in [session : Sessions, conn : Conns, attempt : Nat]
    BY <1>0, <1>7, <2>1 DEF ParseState, TypeOK, Items, item
  <2>4. status' \in [session : Sessions, conn : Conns, state : States]
        /\ status'.session = status.session
    BY <1>0, <1>7, <2>1 DEF ParseState, TypeOK, Items, item
  <2> QED BY <1>0, <1>7, <2>1, <2>2, <2>3, <2>4 DEF ParseState, TypeInv, TypeOK
<1>8. CASE Take
  <2>1. Head(queue) \in Items /\ queue' \in Seq(Items) /\ Len(queue') <= QueueSize
    BY <1>0, <1>8, BoundsAssumption DEF Take, TypeOK
  <2>2. parser'.item \in Items \cup {NoItem} /\ parser'.session \in Sessions
        /\ parser'.conn \in Conns /\ parser'.text = parser.text
    BY <1>0, <1>8, <2>1 DEF Take, TypeOK
  <2>3. replies' \subseteq Items
    BY <1>0, <1>8 DEF Take, TypeOK
  <2> QED BY <1>0, <1>8, <2>1, <2>2, <2>3 DEF Take, TypeInv, TypeOK
<1>9. CASE Feed
  <2>1. parser.item \in Items
    BY <1>0, <1>9 DEF Feed, TypeOK
  <2>2. parser'.item \in Items \cup {NoItem} /\ parser'.session \in Sessions
        /\ parser'.conn \in Conns /\ parser'.text \in [session : Sessions, conn : Conns, n : Nat]
    BY <1>0, <1>9, <2>1 DEF Feed, TypeOK, Items
  <2>3. replies' \subseteq Items
    BY <1>0, <1>9 DEF Feed, TypeOK
  <2> QED BY <1>0, <1>9, <2>2, <2>3 DEF Feed, TypeInv, TypeOK
<1>10. CASE UNCHANGED vars
  BY <1>10 DEF vars, histories, TypeInv, TypeOK
<1> QED BY <1>1, <1>2, <1>3, <1>4, <1>5, <1>6, <1>7, <1>8, <1>9, <1>10
        DEF Next, ManagerNext, ParserNext

\* Type correctness for every instance: in particular the input queue holds at most
\* RAW_INPUT_QUEUE_SIZE items and the priority backlog at most its maxlen.
THEOREM TypeCorrect == Spec => []TypeOK
<1>1. TypeInv => TypeOK
  BY DEF TypeInv
<1> QED BY <1>1, InitTypes, StepKeepsTypes, PTL DEF Spec

-----------------------------------------------------------------------------
(* What the items of a queue have in common *)

Measured(item) == item.type = "data" /\ item.state = "ble"

\* Every item is of a session from lo to hi, and no session follows a later one.
Between(q, lo, hi) == \A i \in 1..Len(q) : lo <= q[i].session /\ q[i].session <= hi
Ascending(q) == \A i, j \in 1..Len(q) : i < j => q[i].session <= q[j].session

\* State events name attempts up to a.
UpTo(q, session, a) ==
  \A i \in 1..Len(q) : q[i].type = "state" /\ q[i].session = session => q[i].n <= a

\* A measurement is no older than an announcement before it, or than attempt a.
Behind(q) ==
  \A i, j \in 1..Len(q) :
    i < j /\ q[i].type = "state" /\ Measured(q[j]) /\ q[i].session = q[j].session
    => q[i].n <= q[j].n
NotBefore(q, session, a) ==
  \A i \in 1..Len(q) : Measured(q[i]) /\ q[i].session = session => a <= q[i].n

LEMMA AppendOrder ==
  ASSUME NEW q \in Seq(Items), NEW x \in Items, NEW lo \in Nat, lo <= x.session,
         Between(q, lo, x.session), Ascending(q)
  PROVE  Between(Append(q, x), lo, x.session) /\ Ascending(Append(q, x))
<1> DEFINE r == Append(q, x)
<1>1. Len(r) = Len(q) + 1 /\ r[Len(q) + 1] = x /\ \A i \in 1..Len(q) : r[i] = q[i]
  OBVIOUS
<1>2. \A i \in 1..Len(r) : i \in 1..Len(q) \/ i = Len(q) + 1
  BY <1>1
<1>3. x.session \in Nat /\ \A i \in 1..Len(q) : q[i].session \in Nat
  <2>1. \A i \in 1..Len(q) : q[i] \in Items
    OBVIOUS
  <2>2. \A y \in Items : y.session \in Nat
    BY BoundsAssumption DEF Items, Sessions
  <2> QED BY <2>1, <2>2
<1> HIDE DEF r
<1>4. Between(r, lo, x.session)
  BY <1>1, <1>2, <1>3 DEF Between
<1>5. Ascending(r)
  <2> SUFFICES ASSUME NEW i \in 1..Len(r), NEW j \in 1..Len(r), i < j
               PROVE  r[i].session <= r[j].session
    BY DEF Ascending
  <2>1. i \in 1..Len(q)
    BY <1>1
  <2>2. CASE j \in 1..Len(q)
    BY <1>1, <2>1, <2>2 DEF Ascending
  <2>3. CASE j = Len(q) + 1
    BY <1>1, <2>1, <2>3 DEF Between
  <2> QED BY <1>2, <2>2, <2>3
<1> QED BY <1>4, <1>5 DEF r

LEMMA AppendAttempts ==
  ASSUME NEW q \in Seq(Items), NEW x \in Items, NEW e, NEW a, Behind(q), NotBefore(q, e, a),
         Measured(x) => UpTo(q, x.session, x.n) /\ (x.session = e => a <= x.n)
  PROVE  Behind(Append(q, x)) /\ NotBefore(Append(q, x), e, a)
<1> DEFINE r == Append(q, x)
<1>1. Len(r) = Len(q) + 1 /\ r[Len(q) + 1] = x /\ \A i \in 1..Len(q) : r[i] = q[i]
  OBVIOUS
<1>2. \A i \in 1..Len(r) : i \in 1..Len(q) \/ i = Len(q) + 1
  BY <1>1
<1> HIDE DEF r
<1>3. NotBefore(r, e, a)
  BY <1>1, <1>2 DEF NotBefore
<1>4. Behind(r)
  <2> SUFFICES ASSUME NEW i \in 1..Len(r), NEW j \in 1..Len(r), i < j, r[i].type = "state",
                      Measured(r[j]), r[i].session = r[j].session
               PROVE  r[i].n <= r[j].n
    BY DEF Behind
  <2>1. i \in 1..Len(q)
    BY <1>1
  <2>2. CASE j \in 1..Len(q)
    BY <1>1, <2>1, <2>2 DEF Behind
  <2>3. CASE j = Len(q) + 1
    BY <1>1, <2>1, <2>3 DEF UpTo
  <2> QED BY <1>2, <2>2, <2>3
<1> QED BY <1>3, <1>4 DEF r

LEMMA AppendUpTo ==
  ASSUME NEW q \in Seq(Items), NEW x \in Items, NEW session, NEW a, UpTo(q, session, a),
         x.type = "state" /\ x.session = session => x.n <= a
  PROVE  UpTo(Append(q, x), session, a)
<1> DEFINE r == Append(q, x)
<1>1. Len(r) = Len(q) + 1 /\ r[Len(q) + 1] = x /\ \A i \in 1..Len(q) : r[i] = q[i]
  OBVIOUS
<1>2. \A i \in 1..Len(r) : i \in 1..Len(q) \/ i = Len(q) + 1
  BY <1>1
<1> HIDE DEF r
<1>3. UpTo(r, session, a)
  BY <1>1, <1>2 DEF UpTo
<1> QED BY <1>3 DEF r

\* Later attempts do not matter to what was announced.
LEMMA RaiseUpTo ==
  ASSUME NEW q \in Seq(Items), NEW session, NEW a \in Nat, NEW b \in Nat, a <= b,
         UpTo(q, session, a)
  PROVE  UpTo(q, session, b)
<1>1. \A i \in 1..Len(q) : q[i].n \in Nat
  <2>1. \A i \in 1..Len(q) : q[i] \in Items
    OBVIOUS
  <2>2. \A y \in Items : y.n \in Nat
    BY DEF Items
  <2> QED BY <2>1, <2>2
<1> QED BY <1>1 DEF UpTo

LEMMA TailKeeps ==
  ASSUME NEW q \in Seq(Items), q # <<>>, NEW lo, NEW hi, Between(q, lo, hi), Ascending(q), Behind(q)
  PROVE  /\ Head(q) \in Items /\ lo <= Head(q).session /\ Head(q).session <= hi
         /\ Tail(q) \in Seq(Items)
         /\ Between(Tail(q), lo, hi) /\ Between(Tail(q), Head(q).session, hi)
         /\ Ascending(Tail(q)) /\ Behind(Tail(q))
         /\ Head(q).type = "state" => NotBefore(Tail(q), Head(q).session, Head(q).n)
         /\ \A session, a : UpTo(q, session, a) =>
              /\ UpTo(Tail(q), session, a)
              /\ Head(q).type = "state" /\ Head(q).session = session => Head(q).n <= a
         /\ \A session, a : NotBefore(q, session, a) =>
              /\ NotBefore(Tail(q), session, a)
              /\ Measured(Head(q)) /\ Head(q).session = session => a <= Head(q).n
<1> DEFINE t == Tail(q)
<1>1. Head(q) = q[1] /\ 1 \in 1..Len(q) /\ t \in Seq(Items) /\ Head(q) \in Items
  OBVIOUS
<1>2. /\ \A i \in 1..Len(t) : i + 1 \in 1..Len(q) /\ t[i] = q[i + 1] /\ 1 < i + 1
      /\ \A i, j \in 1..Len(t) : i < j => i + 1 < j + 1
  OBVIOUS
<1> HIDE DEF t
<1>3. Between(t, lo, hi) /\ lo <= Head(q).session /\ Head(q).session <= hi
  BY <1>1, <1>2 DEF Between
<1>4. Between(t, Head(q).session, hi)
  BY <1>1, <1>2 DEF Between, Ascending
<1>5. Ascending(t)
  BY <1>2 DEF Ascending
<1>6. Behind(t)
  BY <1>2 DEF Behind
<1>7. Head(q).type = "state" => NotBefore(t, Head(q).session, Head(q).n)
  BY <1>1, <1>2 DEF Behind, NotBefore
<1>8. ASSUME NEW session, NEW a, UpTo(q, session, a)
      PROVE  UpTo(t, session, a) /\ (Head(q).type = "state" /\ Head(q).session = session => Head(q).n <= a)
  BY <1>1, <1>2, <1>8 DEF UpTo
<1>9. ASSUME NEW session, NEW a, NotBefore(q, session, a)
      PROVE  NotBefore(t, session, a) /\ (Measured(Head(q)) /\ Head(q).session = session => a <= Head(q).n)
  BY <1>1, <1>2, <1>9 DEF NotBefore
<1> HIDE DEF Between, Ascending, Behind, NotBefore, UpTo, Measured
<1> QED BY <1>1, <1>3, <1>4, <1>5, <1>6, <1>7, <1>8, <1>9 DEF t

-----------------------------------------------------------------------------
(* The order of sessions and attempts *)

\* Sessions: a worker that runs is of the session on display, and what it left in
\* the queue is no older than what the parser has adopted.
SessionInv ==
  /\ worker.pc # "dead" => worker.session = status.session
  /\ parser.session <= status.session
  /\ Between(queue, parser.session, status.session) /\ Ascending(queue)
  /\ \A i \in 1..Len(backlog) : backlog[i].session = status.session /\ backlog[i].type # "data"
  /\ parser.item # NoItem => parser.session <= parser.item.session

\* Attempts: what is announced, or waits in the backlog to be, is no later than the
\* attempt under way, which every new measurement bears.
AttemptInv ==
  /\ epoch.session <= status.session
  /\ worker.kind = "ble" /\ worker.session = status.session =>
       /\ UpTo(queue, status.session, worker.attempt)
       /\ UpTo(backlog, status.session, worker.attempt)
       /\ epoch.session = status.session => epoch.attempt <= worker.attempt
  /\ Behind(queue) /\ NotBefore(queue, epoch.session, epoch.attempt)
  /\ Measured(parser.item) /\ parser.item.session = epoch.session => epoch.attempt <= parser.item.n

LinkInv == TypeInv /\ SessionInv /\ AttemptInv

LEMMA Numbers ==
  ASSUME TypeOK
  PROVE  /\ status.session \in Nat /\ parser.session \in Nat /\ worker.session \in Nat
         /\ worker.attempt \in Nat /\ epoch.session \in Nat /\ epoch.attempt \in Nat
         /\ queue \in Seq(Items) /\ backlog \in Seq(Items)
         /\ \A x \in Items : x.session \in Nat /\ x.n \in Nat
<1>1. Sessions \subseteq Nat
  BY BoundsAssumption DEF Sessions
<1>2. \A x \in Items : x.session \in Nat /\ x.n \in Nat
  BY <1>1 DEF Items
<1>3. worker.session \in Nat /\ worker.attempt \in Nat
  BY <1>1, WorkerTyped DEF WorkerType
<1>4. status.session \in Nat /\ epoch.session \in Nat /\ epoch.attempt \in Nat
  BY <1>1 DEF TypeOK
<1>5. parser.session \in Nat /\ queue \in Seq(Items) /\ backlog \in Seq(Items)
  BY <1>1 DEF TypeOK
<1> QED BY <1>2, <1>3, <1>4, <1>5

LEMMA NoOrder ==
  ASSUME NEW q, q = <<>>
  PROVE  \A a, b : Between(q, a, b) /\ UpTo(q, a, b) /\ NotBefore(q, a, b)
                 /\ Ascending(q) /\ Behind(q)
BY DEF Between, UpTo, NotBefore, Ascending, Behind

LEMMA InitOrder == Init => LinkInv
<1> SUFFICES ASSUME Init PROVE LinkInv
  OBVIOUS
<1>1. queue = <<>> /\ backlog = <<>> /\ worker.pc = "dead" /\ worker.kind = None
      /\ parser.item = NoItem /\ parser.session = 0 /\ status.session = 0
      /\ epoch.session = 0 /\ ~Measured(NoItem)
  BY DEF Init, NoWorker, NoItem, Item, Measured
<1>2. None # "ble"
  BY NoneAssumption
<1> QED BY <1>1, <1>2, NoOrder, InitTypes DEF LinkInv, SessionInv, AttemptInv

\* Whatever a worker does.
LEMMA WorkerKeepsOrder ==
  ASSUME LinkInv, WorkerStep
  PROVE  SessionInv' /\ AttemptInv'
<1>1. TypeOK /\ SessionInv /\ AttemptInv /\ Runs /\ worker.session = status.session
  BY DEF LinkInv, TypeInv, SessionInv, WorkerStep, Runs
<1>2. /\ status' = status /\ parser' = parser /\ epoch' = epoch
      /\ worker'.session = worker.session /\ worker'.kind = worker.kind
      /\ worker.attempt <= worker'.attempt /\ worker'.attempt \in Nat
  BY <1>1, Numbers DEF Runs, WorkerType
<1>3. /\ status.session \in Nat /\ parser.session \in Nat /\ worker.attempt \in Nat
      /\ epoch.attempt \in Nat /\ queue \in Seq(Items) /\ backlog \in Seq(Items)
      /\ \A x \in Items : x.session \in Nat /\ x.n \in Nat
  BY <1>1, Numbers
<1> DEFINE Raised(q) == worker.kind = "ble" => UpTo(q, status.session, worker'.attempt)
<1>4. Raised(queue) /\ Raised(backlog)
  BY <1>1, <1>2, <1>3, RaiseUpTo DEF AttemptInv
<1> DEFINE
      Queue == Between(queue, parser.session, status.session) /\ Ascending(queue)
               /\ Behind(queue) /\ NotBefore(queue, epoch.session, epoch.attempt)
      Own == \A i \in 1..Len(backlog) : backlog[i].session = status.session /\ backlog[i].type # "data"
<1>5. Queue /\ Own
  BY <1>1 DEF SessionInv, AttemptInv
<1>6. ASSUME NEW x \in Items, x.session = status.session, queue' = Append(queue, x),
             Measured(x) => worker.kind = "ble" /\ x.n = worker'.attempt,
             worker.kind = "ble" /\ x.type = "state" => x.n <= worker'.attempt
      PROVE  Queue' /\ Raised(queue')
  <2>1. Between(queue', parser.session, status.session) /\ Ascending(queue')
    BY <1>1, <1>3, <1>5, <1>6, AppendOrder DEF SessionInv
  <2>2. Measured(x) => /\ UpTo(queue, x.session, x.n)
                       /\ x.session = epoch.session => epoch.attempt <= x.n
    BY <1>1, <1>2, <1>3, <1>4, <1>6 DEF AttemptInv
  <2>3. Behind(queue') /\ NotBefore(queue', epoch.session, epoch.attempt)
    BY <1>3, <1>5, <1>6, <2>2, AppendAttempts
  <2>4. Raised(queue')
    BY <1>3, <1>4, <1>6, AppendUpTo
  <2> QED BY <1>2, <2>1, <2>3, <2>4
<1>7. Queue' /\ Raised(queue') /\ Raised(backlog') /\ Own'
  <2>1. CASE UNCHANGED <<queue, backlog>>
    BY <1>2, <1>4, <1>5, <2>1
  <2>2. ASSUME NEW x \in Items, Stamped(x), Queues(x)
        PROVE  Queue' /\ Raised(queue') /\ Raised(backlog') /\ Own'
    <3>1. queue' = Append(queue, x) /\ backlog' = backlog
      BY <2>2 DEF Queues
    <3>2. Queue' /\ Raised(queue')
      BY <1>1, <1>6, <2>2, <3>1 DEF Stamped, Measured
    <3> QED BY <1>2, <1>4, <1>5, <3>1, <3>2
  <2>3. ASSUME NEW x \in Items, Stamped(x), Saves(x)
        PROVE  Queue' /\ Raised(queue') /\ Raised(backlog') /\ Own'
    <3>1. backlog' = Append(backlog, x) /\ queue' = queue
      BY <2>3 DEF Saves
    <3>2. Raised(backlog')
      BY <1>3, <1>4, <2>3, <3>1, AppendUpTo DEF Stamped
    <3>3. Own'
      BY <1>1, <1>2, <1>3, <1>5, <2>3, <3>1 DEF Stamped, Saves
    <3> QED BY <1>2, <1>4, <1>5, <3>1, <3>2, <3>3
  <2>4. CASE Drains
    <3> DEFINE x == Head(backlog)
    <3>1. queue' = Append(queue, x) /\ backlog' = Tail(backlog) /\ backlog # <<>>
      BY <2>4 DEF Drains
    <3>2. x \in Items /\ x = backlog[1] /\ 1 \in 1..Len(backlog) /\ Len(Tail(backlog)) = Len(backlog) - 1
          /\ \A i \in 1..Len(Tail(backlog)) : i + 1 \in 1..Len(backlog)
                                             /\ Tail(backlog)[i] = backlog[i + 1]
      BY <1>3, <3>1
    <3> HIDE DEF x
    <3>3. x.session = status.session /\ ~Measured(x)
      BY <1>5, <3>2 DEF Measured
    <3>4. worker.kind = "ble" /\ x.type = "state" => x.n <= worker'.attempt
      BY <1>4, <3>2, <3>3 DEF UpTo
    <3>5. Queue' /\ Raised(queue')
      BY <1>6, <3>1, <3>2, <3>3, <3>4 DEF x
    <3>6. Raised(backlog')
      BY <1>4, <3>1, <3>2 DEF UpTo
    <3>7. Own'
      BY <1>2, <1>5, <3>1, <3>2
    <3> QED BY <3>5, <3>6, <3>7
  <2> QED BY <2>1, <2>2, <2>3, <2>4 DEF WorkerStep, Hands
<1>8. SessionInv'
  BY <1>1, <1>2, <1>7 DEF SessionInv
<1>9. AttemptInv'
  BY <1>1, <1>2, <1>3, <1>7 DEF AttemptInv
<1> QED BY <1>8, <1>9

\* Whatever the API thread does.
LEMMA ManagerKeepsOrder ==
  ASSUME LinkInv, ManagerNext
  PROVE  SessionInv' /\ AttemptInv'
<1>1. TypeOK /\ SessionInv /\ AttemptInv
  BY DEF LinkInv, TypeInv
<1>2. worker \in WorkerType
  BY <1>1, WorkerTyped
<1>3. CASE Disconnect \/ JoinTimeout \/ DescribeSession \/ RequestReconnect
  <2>1. UNCHANGED <<backlog, queue, parser, epoch>>
    BY <1>3 DEF Disconnect, JoinTimeout, DescribeSession, RequestReconnect, histories
  <2>2. status'.session = status.session
    BY <1>1, <1>3 DEF Disconnect, JoinTimeout, DescribeSession, RequestReconnect, TypeOK
  <2>3. /\ worker'.pc = worker.pc /\ worker'.session = worker.session
        /\ worker'.kind = worker.kind /\ worker'.attempt = worker.attempt
    BY <1>2, <1>3 DEF Disconnect, JoinTimeout, DescribeSession, RequestReconnect, WorkerType
  <2> QED BY <1>1, <2>1, <2>2, <2>3 DEF SessionInv, AttemptInv
<1>4. CASE NextSession
  <2>1. /\ UNCHANGED <<queue, parser, epoch>> /\ backlog' = <<>>
        /\ status'.session = status.session + 1
    BY <1>4 DEF NextSession
  <2>2. /\ status.session \in Nat /\ parser.session \in Nat /\ epoch.session \in Nat
        /\ \A x \in Items : x.session \in Nat
    BY <1>1, Numbers
  <2>3. \A i \in 1..Len(queue) : queue[i] \in Items
    BY <1>1, Numbers
  <2>4. \/ worker' = NoWorker
        \/ \E kind \in Kinds : worker' = Started(kind, status.session + 1)
    BY <1>4 DEF NextSession
  <2>5. worker'.pc # "dead" => worker'.session = status'.session
    <3>1. NoWorker.pc = "dead"
      BY DEF NoWorker
    <3>2. \A kind \in Kinds : Started(kind, status.session + 1).session = status.session + 1
      BY DEF Started, NoWorker
    <3> QED BY <2>1, <2>4, <3>1, <3>2
  <2>6. Between(queue, parser.session, status.session + 1)
    BY <1>1, <2>2, <2>3 DEF SessionInv, Between
  <2>7. SessionInv'
    BY <1>1, <2>1, <2>2, <2>5, <2>6 DEF SessionInv
  <2>8. UpTo(queue, status.session + 1, worker'.attempt)
    BY <1>1, <2>2, <2>3 DEF SessionInv, Between, UpTo
  <2>9. UpTo(backlog', status.session + 1, worker'.attempt)
    BY <2>1, NoOrder
  <2>10. epoch.session <= status.session + 1 /\ epoch.session # status.session + 1
    BY <1>1, <2>2 DEF AttemptInv
  <2>11. AttemptInv'
    BY <1>1, <2>1, <2>8, <2>9, <2>10 DEF AttemptInv
  <2> QED BY <2>7, <2>11
<1> QED BY <1>3, <1>4 DEF ManagerNext

\* Whatever the parser does, and what it does it in order.
LEMMA ParserKeepsOrder ==
  ASSUME LinkInv, ParserNext
  PROVE  SessionInv' /\ AttemptInv' /\ parser'.session >= parser.session
<1>1. TypeOK /\ SessionInv /\ AttemptInv
  BY DEF LinkInv, TypeInv
<1>2. /\ status.session \in Nat /\ parser.session \in Nat /\ worker.attempt \in Nat
      /\ epoch.session \in Nat /\ epoch.attempt \in Nat /\ queue \in Seq(Items)
      /\ \A x \in Items : x.session \in Nat /\ x.n \in Nat
  BY <1>1, Numbers
<1>3. Between(queue, parser.session, status.session) /\ Ascending(queue) /\ Behind(queue)
      /\ NotBefore(queue, epoch.session, epoch.attempt)
  BY <1>1 DEF SessionInv, AttemptInv
<1>4. UNCHANGED <<worker, backlog>> /\ status'.session = status.session
  BY <1>1 DEF ParserNext, ParseState, Take, Feed, TypeOK
<1>5. CASE ParseState
  <2> DEFINE item == Head(queue)
  <2>1. /\ parser.item = NoItem /\ queue # <<>> /\ item.type = "state" /\ queue' = Tail(queue)
        /\ parser'.item = parser.item /\ parser'.session = item.session
    BY <1>1, <1>5 DEF ParseState, TypeOK
  <2>2. \/ epoch' = epoch
        \/ epoch'.session = item.session /\ epoch'.attempt = item.n
    BY <1>5 DEF ParseState
  <2>3. /\ item \in Items /\ parser.session <= item.session /\ item.session <= status.session
        /\ Between(queue', item.session, status.session)
        /\ Ascending(queue') /\ Behind(queue') /\ NotBefore(queue', item.session, item.n)
        /\ NotBefore(queue', epoch.session, epoch.attempt)
        /\ UpTo(queue, status.session, worker.attempt) =>
             /\ UpTo(queue', status.session, worker.attempt)
             /\ item.session = status.session => item.n <= worker.attempt
    BY <1>2, <1>3, <2>1, TailKeeps
  <2>4. ~Measured(NoItem)
    BY DEF Measured, NoItem, Item
  <2> HIDE DEF item
  <2>5. SessionInv'
    BY <1>1, <1>2, <1>4, <2>1, <2>3 DEF SessionInv
  <2>6. AttemptInv'
    BY <1>1, <1>2, <1>4, <2>1, <2>2, <2>3, <2>4 DEF AttemptInv
  <2> QED BY <2>1, <2>3, <2>5, <2>6
<1>6. CASE Take
  <2> DEFINE item == Head(queue)
  <2>1. /\ queue # <<>> /\ queue' = Tail(queue) /\ epoch' = epoch
        /\ parser'.session = parser.session
        /\ parser'.item = parser.item \/ parser'.item = item
    BY <1>1, <1>6 DEF Take, TypeOK
  <2>2. /\ item \in Items /\ parser.session <= item.session
        /\ Between(queue', parser.session, status.session)
        /\ Ascending(queue') /\ Behind(queue')
        /\ NotBefore(queue', epoch.session, epoch.attempt)
        /\ Measured(item) /\ item.session = epoch.session => epoch.attempt <= item.n
        /\ UpTo(queue, status.session, worker.attempt)
             => UpTo(queue', status.session, worker.attempt)
    BY <1>2, <1>3, <2>1, TailKeeps
  <2> HIDE DEF item
  <2>3. SessionInv'
    BY <1>1, <1>2, <1>4, <2>1, <2>2 DEF SessionInv
  <2>4. AttemptInv'
    BY <1>1, <1>2, <1>4, <2>1, <2>2 DEF AttemptInv
  <2> QED BY <1>2, <2>1, <2>3, <2>4
<1>7. CASE Feed
  <2>1. parser'.item = NoItem /\ parser'.session = parser.session /\ queue' = queue /\ epoch' = epoch
    BY <1>1, <1>7 DEF Feed, TypeOK
  <2>2. ~Measured(NoItem)
    BY DEF Measured, NoItem, Item
  <2> QED BY <1>1, <1>2, <1>4, <2>1, <2>2 DEF SessionInv, AttemptInv
<1> QED BY <1>5, <1>6, <1>7 DEF ParserNext

LEMMA StepKeepsOrder ==
  ASSUME LinkInv, [Next]_vars
  PROVE  LinkInv'
<1>1. TypeInv'
  BY StepKeepsTypes DEF LinkInv
<1>2. CASE SerialNext \/ BleNext
  BY <1>1, <1>2, SerialSteps, BleSteps, WorkerKeepsOrder DEF LinkInv, TypeInv
<1>3. CASE ManagerNext
  BY <1>1, <1>3, ManagerKeepsOrder DEF LinkInv
<1>4. CASE ParserNext
  BY <1>1, <1>4, ParserKeepsOrder DEF LinkInv
<1>5. CASE UNCHANGED vars
  BY <1>1, <1>5 DEF vars, histories, LinkInv, SessionInv, AttemptInv
<1> QED BY <1>2, <1>3, <1>4, <1>5 DEF Next

-----------------------------------------------------------------------------
(* The theorems *)

\* A step changes the parser's state only if it is the parser's.
LEMMA ParserAlone ==
  ASSUME LinkInv, [Next]_vars
  PROVE  ParserNext \/ UNCHANGED parser
<1>1. SerialNext \/ BleNext => UNCHANGED parser
  BY SerialSteps, BleSteps DEF LinkInv, TypeInv, WorkerStep, Runs
<1>2. ManagerNext => UNCHANGED parser
  BY DEF ManagerNext, Disconnect, JoinTimeout, NextSession, DescribeSession, RequestReconnect
<1>3. UNCHANGED vars => UNCHANGED parser
  BY DEF vars
<1> QED BY <1>1, <1>2, <1>3 DEF Next

\* Whatever an old transport left in the queue, and however requests to connect fall
\* between the steps of the parser: it never goes back to an older session, nor feeds
\* bytes of one (runtime.py:398-400).
THEOREM SessionsInOrder == Spec => SessionOrder
<1>1. ASSUME LinkInv, [Next]_vars
      PROVE  [/\ parser'.session >= parser.session
              /\ Feeds => parser.item.session >= parser.session]_vars
  <2>1. parser.session \in Nat /\ \A x \in Items : x.session \in Nat
    BY <1>1, Numbers DEF LinkInv, TypeInv
  <2>2. parser'.session >= parser.session
    BY <1>1, <2>1, ParserAlone, ParserKeepsOrder
  <2>3. Feeds => parser.item.session >= parser.session
    BY <1>1, <2>1 DEF Feeds, LinkInv, SessionInv, TypeInv, TypeOK
  <2> QED BY <2>2, <2>3
<1> QED BY <1>1, InitOrder, StepKeepsOrder, PTL DEF Spec, SessionOrder

\* A late callback of bleak, the backlog and the queue together never bring a
\* measurement of an attempt behind the announcement of a later one.
THEOREM AttemptsInOrder == Spec => MeasurementsInOrder
<1>1. ASSUME LinkInv, [Next]_vars
      PROVE  [(Feeds /\ parser.item.type = "data" /\ parser.item.state = "ble"
               /\ parser.item.session = epoch.session)
              => parser.item.n >= epoch.attempt]_vars
  <2>1. epoch.attempt \in Nat /\ \A x \in Items : x.n \in Nat
    BY <1>1, Numbers DEF LinkInv, TypeInv
  <2> QED BY <1>1, <2>1 DEF Feeds, LinkInv, AttemptInv, Measured, TypeInv, TypeOK
<1> QED BY <1>1, InitOrder, StepKeepsOrder, PTL DEF Spec, MeasurementsInOrder

-----------------------------------------------------------------------------
(* The text of a serial port: what comes before a chunk in the queue *)

Named(x) == <<x.session, x.conn>>
Bytes(x) == x.type # "state"
Chunk(x) == x.type = "data" /\ x.state = "serial"

\* An announcement of the link; CONNECTION_RESET bears the number of the link that ended.
Opening(x, link) == x.type = "state" /\ x.state \in {"CONNECTED", "STREAMING"} /\ Named(x) = link
Overflow(x) == x.type = "state" /\ x.state = "SERIAL_RX_OVERFLOW"
Precedes(x, link, n) == x.type = "data" /\ Named(x) = link /\ x.n = n - 1

\* The parser p, with q before it, has adopted the link when it comes to position i.
AtLink(p, link) == <<p.session, p.conn>> = link
Adopted(p, q, i, link) ==
  \/ \E k \in 1..(i - 1) : Opening(q[k], link) /\ \A m \in k..(i - 1) : Named(q[m]) = link
  \/ AtLink(p, link) /\ \A m \in 1..(i - 1) : Named(q[m]) = link

\* Chunk n of the link may be joined to the text t, if the links of mute were not announced.
Joins(t, mute, link, n) ==
  \/ t = EmptyText
  \/ t.session = link[1] /\ Named(t) \in mute
  \/ t = [session |-> link[1], conn |-> link[2], n |-> n - 1]

\* It may when the parser comes to position i: the text was cleared, or the chunk
\* before is the newest, and no bytes are between.
Joined(p, mute, q, i, link, n) ==
  \/ \E k \in 1..(i - 1) :
       /\ Opening(q[k], link) \/ Overflow(q[k]) \/ Precedes(q[k], link, n)
       /\ \A m \in (k + 1)..(i - 1) : ~Bytes(q[m])
  \/ /\ \A m \in 1..(i - 1) : ~Bytes(q[m])
     /\ IF p.item # NoItem THEN Precedes(p.item, link, n) ELSE Joins(p.text, mute, link, n)

\* No bytes of the link come before position i.
Unused(p, q, i, link) ==
  /\ \A m \in 1..(i - 1) : Bytes(q[m]) => Named(q[m]) # link
  /\ p.item # NoItem => Named(p.item) # link
  /\ p.text # EmptyText => Named(p.text) # link

\* All three depend on what is before the position only.
LEMMA PrefixDecides ==
  ASSUME NEW p, NEW q, NEW r, NEW i \in Nat, \A k \in 1..(i - 1) : r[k] = q[k],
         NEW mute, NEW mute2, mute \subseteq mute2, NEW link, NEW n
  PROVE  /\ Adopted(p, q, i, link) => Adopted(p, r, i, link)
         /\ Joined(p, mute, q, i, link, n) => Joined(p, mute2, r, i, link, n)
         /\ Unused(p, q, i, link) => Unused(p, r, i, link)
<1>1. ASSUME Adopted(p, q, i, link)
      PROVE  Adopted(p, r, i, link)
  <2>1. CASE AtLink(p, link) /\ \A m \in 1..(i - 1) : Named(q[m]) = link
    BY <2>1 DEF Adopted
  <2>2. ASSUME NEW k \in 1..(i - 1), Opening(q[k], link), \A m \in k..(i - 1) : Named(q[m]) = link
        PROVE  Adopted(p, r, i, link)
    <3>1. \A m \in k..(i - 1) : m \in 1..(i - 1)
      OBVIOUS
    <3>2. Opening(r[k], link) /\ \A m \in k..(i - 1) : Named(r[m]) = link
      BY <2>2, <3>1
    <3> QED BY <3>2 DEF Adopted
  <2> QED BY <1>1, <2>1, <2>2 DEF Adopted
<1>2. ASSUME Joined(p, mute, q, i, link, n)
      PROVE  Joined(p, mute2, r, i, link, n)
  <2>1. CASE /\ \A m \in 1..(i - 1) : ~Bytes(q[m])
             /\ IF p.item # NoItem THEN Precedes(p.item, link, n) ELSE Joins(p.text, mute, link, n)
    <3>1. Joins(p.text, mute, link, n) => Joins(p.text, mute2, link, n)
      BY DEF Joins
    <3>2. \A m \in 1..(i - 1) : ~Bytes(r[m])
      BY <2>1
    <3> QED BY <2>1, <3>1, <3>2 DEF Joined
  <2>2. ASSUME NEW k \in 1..(i - 1),
               Opening(q[k], link) \/ Overflow(q[k]) \/ Precedes(q[k], link, n),
               \A m \in (k + 1)..(i - 1) : ~Bytes(q[m])
        PROVE  Joined(p, mute2, r, i, link, n)
    <3>1. \A m \in (k + 1)..(i - 1) : m \in 1..(i - 1)
      OBVIOUS
    <3>2. /\ Opening(r[k], link) \/ Overflow(r[k]) \/ Precedes(r[k], link, n)
          /\ \A m \in (k + 1)..(i - 1) : ~Bytes(r[m])
      BY <2>2, <3>1
    <3> QED BY <3>2 DEF Joined
  <2> QED BY <1>2, <2>1, <2>2 DEF Joined
<1>3. Unused(p, q, i, link) => Unused(p, r, i, link)
  BY DEF Unused
<1> QED BY <1>1, <1>2, <1>3

\* What one more item before the position does.
LEMMA OneMore ==
  ASSUME NEW p, NEW q, NEW i \in Nat \ {0}, NEW mute, NEW link, NEW n
  PROVE  /\ Adopted(p, q, i, link) /\ Named(q[i]) = link => Adopted(p, q, i + 1, link)
         /\ Joined(p, mute, q, i, link, n) /\ ~Bytes(q[i]) => Joined(p, mute, q, i + 1, link, n)
         /\ Opening(q[i], link) =>
              Adopted(p, q, i + 1, link) /\ Joined(p, mute, q, i + 1, link, n)
         /\ Overflow(q[i]) \/ Precedes(q[i], link, n) => Joined(p, mute, q, i + 1, link, n)
         /\ Unused(p, q, i, link) /\ (Bytes(q[i]) => Named(q[i]) # link) => Unused(p, q, i + 1, link)
<1>0. i + 1 - 1 = i /\ i \in 1..i /\ \A m \in 1..i : m \in 1..(i - 1) \/ m = i
  OBVIOUS
<1>1. ASSUME Adopted(p, q, i, link), Named(q[i]) = link
      PROVE  Adopted(p, q, i + 1, link)
  <2>1. CASE AtLink(p, link) /\ \A m \in 1..(i - 1) : Named(q[m]) = link
    BY <1>0, <1>1, <2>1 DEF Adopted
  <2>2. ASSUME NEW k \in 1..(i - 1), Opening(q[k], link), \A m \in k..(i - 1) : Named(q[m]) = link
        PROVE  Adopted(p, q, i + 1, link)
    <3>1. k \in 1..(i + 1 - 1) /\ \A m \in k..(i + 1 - 1) : m \in k..(i - 1) \/ m = i
      OBVIOUS
    <3>2. \A m \in k..(i + 1 - 1) : Named(q[m]) = link
      BY <1>1, <2>2, <3>1
    <3> QED BY <2>2, <3>1, <3>2 DEF Adopted
  <2> QED BY <1>1, <2>1, <2>2 DEF Adopted
<1>2. ASSUME Joined(p, mute, q, i, link, n), ~Bytes(q[i])
      PROVE  Joined(p, mute, q, i + 1, link, n)
  <2>1. CASE /\ \A m \in 1..(i - 1) : ~Bytes(q[m])
             /\ IF p.item # NoItem THEN Precedes(p.item, link, n) ELSE Joins(p.text, mute, link, n)
    <3>1. \A m \in 1..(i + 1 - 1) : ~Bytes(q[m])
      BY <1>0, <1>2, <2>1
    <3> QED BY <2>1, <3>1 DEF Joined
  <2>2. ASSUME NEW k \in 1..(i - 1),
               Opening(q[k], link) \/ Overflow(q[k]) \/ Precedes(q[k], link, n),
               \A m \in (k + 1)..(i - 1) : ~Bytes(q[m])
        PROVE  Joined(p, mute, q, i + 1, link, n)
    <3>1. k \in 1..(i + 1 - 1) /\ \A m \in (k + 1)..(i + 1 - 1) : m \in (k + 1)..(i - 1) \/ m = i
      OBVIOUS
    <3>2. \A m \in (k + 1)..(i + 1 - 1) : ~Bytes(q[m])
      BY <1>2, <2>2, <3>1
    <3> QED BY <2>2, <3>1, <3>2 DEF Joined
  <2> QED BY <1>2, <2>1, <2>2 DEF Joined
<1>3. ASSUME Opening(q[i], link)
      PROVE  Adopted(p, q, i + 1, link)
  <2>1. \A m \in i..(i + 1 - 1) : Named(q[m]) = link
    BY <1>3 DEF Opening
  <2> QED BY <1>0, <1>3, <2>1 DEF Adopted
<1>4. ASSUME Opening(q[i], link) \/ Overflow(q[i]) \/ Precedes(q[i], link, n)
      PROVE  Joined(p, mute, q, i + 1, link, n)
  <2>1. \A m \in (i + 1)..(i + 1 - 1) : FALSE
    OBVIOUS
  <2> QED BY <1>0, <1>4, <2>1 DEF Joined
<1>5. Unused(p, q, i, link) /\ (Bytes(q[i]) => Named(q[i]) # link) => Unused(p, q, i + 1, link)
  BY <1>0 DEF Unused
<1> QED BY <1>1, <1>2, <1>3, <1>4, <1>5


\* The parser takes a state event; t is what is left of q.
LEMMA EventTaken ==
  ASSUME NEW p, NEW r, NEW q, NEW t, NEW i \in Nat \ {0}, \A m \in 1..(i - 1) : t[m] = q[m + 1],
         q[1].type = "state", p.item = NoItem, r.item = NoItem, r.session = q[1].session,
         r.conn = IF q[1].state \in Announces THEN q[1].conn ELSE p.conn,
         r.text = p.text \/ r.text = EmptyText,
         NEW mute, NEW link, NEW n, Opening(q[1], link) => Joins(r.text, mute, link, n),
         Overflow(q[1]) => r.text = EmptyText
  PROVE  /\ Adopted(p, q, i + 1, link) => Adopted(r, t, i, link)
         /\ Joined(p, mute, q, i + 1, link, n) => Joined(r, mute, t, i, link, n)
         /\ Unused(p, q, i + 1, link) => Unused(r, t, i, link)
<1>0. i + 1 - 1 = i /\ 1 \in 1..i /\ \A m \in 1..(i - 1) : m + 1 \in 1..i
  OBVIOUS
<1>1. ASSUME Adopted(p, q, i + 1, link)
      PROVE  Adopted(r, t, i, link)
  <2>1. ASSUME Named(q[1]) = link, \A m \in 1..i : Named(q[m]) = link,
               AtLink(p, link) \/ q[1].state \in Announces
        PROVE  Adopted(r, t, i, link)
    <3>1. AtLink(r, link)
      BY <2>1 DEF AtLink, Named
    <3>2. \A m \in 1..(i - 1) : Named(t[m]) = link
      BY <1>0, <2>1
    <3> QED BY <3>1, <3>2 DEF Adopted
  <2>2. CASE AtLink(p, link) /\ \A m \in 1..i : Named(q[m]) = link
    BY <1>0, <2>1, <2>2
  <2>3. ASSUME NEW k \in 1..i, Opening(q[k], link), \A m \in k..i : Named(q[m]) = link
        PROVE  Adopted(r, t, i, link)
    <3>1. CASE k = 1
      BY <1>0, <2>1, <2>3, <3>1 DEF Opening, Announces
    <3>2. CASE k # 1
      <4>1. k - 1 \in 1..(i - 1) /\ t[k - 1] = q[k]
        BY <3>2
      <4>2. \A m \in (k - 1)..(i - 1) : m + 1 \in k..i /\ t[m] = q[m + 1]
        BY <3>2
      <4> QED BY <2>3, <4>1, <4>2 DEF Adopted
    <3> QED BY <3>1, <3>2
  <2> QED BY <1>0, <1>1, <2>2, <2>3 DEF Adopted
<1>2. ASSUME Joined(p, mute, q, i + 1, link, n)
      PROVE  Joined(r, mute, t, i, link, n)
  <2>1. ASSUME \A m \in 2..i : ~Bytes(q[m]), Joins(r.text, mute, link, n)
        PROVE  Joined(r, mute, t, i, link, n)
    <3>1. \A m \in 1..(i - 1) : m + 1 \in 2..i /\ t[m] = q[m + 1]
      OBVIOUS
    <3> QED BY <2>1, <3>1 DEF Joined
  <2>2. CASE /\ \A m \in 1..i : ~Bytes(q[m])
             /\ IF p.item # NoItem THEN Precedes(p.item, link, n) ELSE Joins(p.text, mute, link, n)
    <3>1. Joins(r.text, mute, link, n)
      BY <2>2 DEF Joins
    <3> QED BY <2>1, <2>2, <3>1
  <2>3. ASSUME NEW k \in 1..i,
               Opening(q[k], link) \/ Overflow(q[k]) \/ Precedes(q[k], link, n),
               \A m \in (k + 1)..i : ~Bytes(q[m])
        PROVE  Joined(r, mute, t, i, link, n)
    <3>1. CASE k = 1
      <4>1. Joins(r.text, mute, link, n)
        BY <2>3, <3>1 DEF Precedes, Joins
      <4> QED BY <2>1, <2>3, <3>1, <4>1
    <3>2. CASE k # 1
      <4>1. k - 1 \in 1..(i - 1) /\ t[k - 1] = q[k]
        BY <3>2
      <4>2. \A m \in ((k - 1) + 1)..(i - 1) : m + 1 \in (k + 1)..i /\ t[m] = q[m + 1]
        BY <3>2
      <4> QED BY <2>3, <4>1, <4>2 DEF Joined
    <3> QED BY <3>1, <3>2
  <2> QED BY <1>0, <1>2, <2>2, <2>3 DEF Joined
<1>3. Unused(p, q, i + 1, link) => Unused(r, t, i, link)
  BY <1>0 DEF Unused
<1> QED BY <1>1, <1>2, <1>3

\* The parser takes bytes in its hand, or rejects those of another link.
LEMMA BytesTaken ==
  ASSUME NEW p, NEW r, NEW q, NEW t, NEW i \in Nat \ {0}, \A m \in 1..(i - 1) : t[m] = q[m + 1],
         Bytes(q[1]), p.item = NoItem, q[1] # NoItem, NEW mute, NEW link, NEW n,
         r.session = p.session, r.conn = p.conn, r.text = p.text,
         r.item = q[1] \/ (r.item = NoItem /\ Named(q[1]) # link)
  PROVE  /\ Adopted(p, q, i + 1, link) => Adopted(r, t, i, link)
         /\ Joined(p, mute, q, i + 1, link, n) => Joined(r, mute, t, i, link, n)
         /\ Unused(p, q, i + 1, link) => Unused(r, t, i, link)
<1>0. i + 1 - 1 = i /\ 1 \in 1..i /\ \A m \in 1..(i - 1) : m + 1 \in 1..i
  OBVIOUS
<1>1. ASSUME Adopted(p, q, i + 1, link)
      PROVE  Adopted(r, t, i, link)
  <2>1. CASE AtLink(p, link) /\ \A m \in 1..i : Named(q[m]) = link
    BY <1>0, <2>1 DEF AtLink, Adopted
  <2>2. ASSUME NEW k \in 1..i, Opening(q[k], link), \A m \in k..i : Named(q[m]) = link
        PROVE  Adopted(r, t, i, link)
    <3>1. k # 1
      BY <2>2 DEF Opening, Bytes
    <3>2. k - 1 \in 1..(i - 1) /\ t[k - 1] = q[k]
      BY <3>1
    <3>3. \A m \in (k - 1)..(i - 1) : m + 1 \in k..i /\ t[m] = q[m + 1]
      BY <3>1
    <3> QED BY <2>2, <3>2, <3>3 DEF Adopted
  <2> QED BY <1>0, <1>1, <2>1, <2>2 DEF Adopted
<1>2. ASSUME Joined(p, mute, q, i + 1, link, n)
      PROVE  Joined(r, mute, t, i, link, n)
  <2>1. PICK k \in 1..i :
          /\ Opening(q[k], link) \/ Overflow(q[k]) \/ Precedes(q[k], link, n)
          /\ \A m \in (k + 1)..i : ~Bytes(q[m])
    BY <1>0, <1>2 DEF Joined
  <2>2. CASE k = 1
    <3>1. Precedes(r.item, link, n) /\ r.item # NoItem
      BY <2>1, <2>2 DEF Opening, Overflow, Precedes, Bytes
    <3>2. \A m \in 1..(i - 1) : m + 1 \in (k + 1)..i /\ t[m] = q[m + 1]
      BY <2>2
    <3> QED BY <2>1, <3>1, <3>2 DEF Joined
  <2>3. CASE k # 1
    <3>1. k - 1 \in 1..(i - 1) /\ t[k - 1] = q[k]
      BY <2>3
    <3>2. \A m \in ((k - 1) + 1)..(i - 1) : m + 1 \in (k + 1)..i /\ t[m] = q[m + 1]
      BY <2>3
    <3> QED BY <2>1, <3>1, <3>2 DEF Joined
  <2> QED BY <2>2, <2>3
<1>3. Unused(p, q, i + 1, link) => Unused(r, t, i, link)
  BY <1>0 DEF Unused
<1> QED BY <1>1, <1>2, <1>3

\* What the parser has in its hand becomes the newest text.
LEMMA BytesFed ==
  ASSUME NEW p, NEW r, NEW q, NEW i \in Nat \ {0}, NEW mute, NEW link, NEW n,
         p.item # NoItem, r.item = NoItem, r.session = p.session, r.conn = p.conn,
         r.text = [session |-> p.item.session, conn |-> p.item.conn, n |-> p.item.n]
  PROVE  /\ Adopted(p, q, i, link) => Adopted(r, q, i, link)
         /\ Joined(p, mute, q, i, link, n) => Joined(r, mute, q, i, link, n)
         /\ Unused(p, q, i, link) => Unused(r, q, i, link)
<1>1. Adopted(p, q, i, link) => Adopted(r, q, i, link)
  BY DEF Adopted, AtLink
<1>2. Precedes(p.item, link, n) => Joins(r.text, mute, link, n)
  BY DEF Precedes, Joins, Named
<1>3. Joined(p, mute, q, i, link, n) => Joined(r, mute, q, i, link, n)
  BY <1>2 DEF Joined
<1>4. Unused(p, q, i, link) => Unused(r, q, i, link)
  BY DEF Unused, Named
<1> QED BY <1>1, <1>3, <1>4


-----------------------------------------------------------------------------
(* The text of a serial port: the invariant *)

Serials == worker.kind = "serial"
Current(x) == x.session = status.session
Heard(x) == Named(x) \notin silent
Place == Len(queue) + 1

\* The bytes of the session on display are chunks when its worker is serial, and the
\* text is no older than the session that the parser has adopted.
PortInv ==
  /\ worker.kind # None => worker.session = status.session
  /\ \A i \in 1..Len(queue) : Current(queue[i]) /\ Bytes(queue[i]) => (Chunk(queue[i]) <=> Serials)
  /\ parser.item # NoItem =>
       /\ parser.item.session <= status.session /\ Bytes(parser.item)
       /\ Current(parser.item) => (Chunk(parser.item) <=> Serials)
  /\ parser.text # EmptyText =>
       parser.session <= parser.text.session /\ parser.text.session <= status.session

\* No bytes name a link that is still to come, or come before its announcement.
ConnInv ==
  Serials =>
    /\ \A i \in 1..Len(queue) : Current(queue[i]) /\ Bytes(queue[i]) => queue[i].conn <= worker.conn
    /\ parser.item # NoItem /\ Current(parser.item) => parser.item.conn <= worker.conn
    /\ parser.text # EmptyText /\ Current(parser.text) => parser.text.conn <= worker.conn
    /\ \A i \in 1..Len(queue) : Current(queue[i]) /\ Opening(queue[i], Named(queue[i])) =>
         Unused(parser, queue, i, Named(queue[i]))

\* Each chunk of a link that was announced finds the parser in that link, and the
\* text such that it may be joined to it.
ChunkInv ==
  /\ Serials =>
       /\ \A i \in 1..Len(queue) : Current(queue[i]) /\ Bytes(queue[i]) /\ Heard(queue[i]) =>
            /\ Adopted(parser, queue, i, Named(queue[i]))
            /\ Joined(parser, silent, queue, i, Named(queue[i]), queue[i].n)
       /\ parser.item # NoItem /\ Current(parser.item) /\ Heard(parser.item) =>
            AtLink(parser, Named(parser.item))
       /\ parser.text # EmptyText /\ Current(parser.text) /\ Heard(parser.text) =>
            AtLink(parser, Named(parser.text))
  /\ parser.item # NoItem /\ Chunk(parser.item) /\ Heard(parser.item) =>
       Joins(parser.text, silent, Named(parser.item), parser.item.n)

\* So will the next chunk of the worker, unless one was lost.
WorkerInv ==
  Serials =>
    /\ worker.pc \in {"opened", "ready"} => Unused(parser, queue, Place, Link)
    /\ worker.pc = "ready" /\ worker.announced =>
         Adopted(parser, queue, Place, Link) /\ Joined(parser, silent, queue, Place, Link, inputs + 1)
    /\ Link \notin silent =>
         /\ worker.pc \in {"read", "notice", "chunk"} => Adopted(parser, queue, Place, Link)
         /\ worker.pc = "read" /\ ~worker.overflow =>
              Joined(parser, silent, queue, Place, Link, inputs + 1)
         /\ worker.pc = "chunk" => Joined(parser, silent, queue, Place, Link, inputs)

\* Replies come on a control characteristic only.
Replies(x) == x.type = "ctrl" => x.state = "ble"
ReplyInv ==
  /\ \A i \in 1..Len(queue) : Replies(queue[i])
  /\ \A i \in 1..Len(backlog) : Replies(backlog[i])
  /\ parser.item # NoItem => Replies(parser.item)

TextInv == LinkInv /\ ReplyInv /\ PortInv /\ ConnInv /\ ChunkInv /\ WorkerInv

LEMMA InitText == Init => TextInv
<1> SUFFICES ASSUME Init PROVE TextInv
  OBVIOUS
<1>1. queue = <<>> /\ backlog = <<>> /\ worker.kind = None /\ parser.item = NoItem /\ parser.text = EmptyText
      /\ None # "serial" /\ Len(queue) = 0 /\ Len(backlog) = 0
  BY NoneAssumption DEF Init, NoWorker
<1>2. (\A i \in 1..Len(queue) : FALSE) /\ (\A i \in 1..Len(backlog) : FALSE)
  BY <1>1
<1>3. LinkInv /\ ReplyInv
  BY <1>1, <1>2, InitOrder DEF ReplyInv
<1>4. PortInv
  BY <1>1, <1>2 DEF PortInv
<1>5. ConnInv /\ WorkerInv
  BY <1>1 DEF ConnInv, WorkerInv, Serials
<1>6. ChunkInv
  BY <1>1 DEF ChunkInv, Serials
<1> QED BY <1>3, <1>4, <1>5, <1>6 DEF TextInv

\* What is typed.
LEMMA TextNumbers ==
  ASSUME TypeOK
  PROVE  /\ status.session \in Nat /\ parser.session \in Nat /\ worker.session \in Nat
         /\ worker.conn \in Nat /\ parser.conn \in Nat /\ inputs \in Nat /\ Place \in Nat \ {0}
         /\ parser.text.session \in Nat /\ parser.text.conn \in Nat /\ parser.text.n \in Nat
         /\ queue \in Seq(Items) /\ parser.item \in Items \cup {NoItem}
         /\ \A x \in Items : /\ x.session \in Nat /\ x.conn \in Nat /\ x.n \in Nat /\ x # NoItem
                             /\ x.type \in {"state", "data", "ctrl"}
<1>1. Sessions \subseteq Nat /\ Conns \subseteq Nat
  BY BoundsAssumption DEF Sessions, Conns
<1>2. \A x \in Items : /\ x.session \in Nat /\ x.conn \in Nat /\ x.n \in Nat
                       /\ x.type \in {"state", "data", "ctrl"}
  BY <1>1 DEF Items
<1>3. \A x \in Items : x # NoItem
  <2>1. NoItem.type = "none"
    BY DEF NoItem, Item
  <2> QED BY <1>2, <2>1
<1>4. worker.conn \in Nat /\ worker.session \in Nat
  BY <1>1, WorkerTyped DEF WorkerType
<1>5. queue \in Seq(Items) /\ parser.item \in Items \cup {NoItem} /\ inputs \in Nat
  BY BoundsAssumption DEF TypeOK
<1>6. /\ status.session \in Nat /\ parser.session \in Nat /\ parser.conn \in Nat
      /\ parser.text.session \in Nat /\ parser.text.conn \in Nat /\ parser.text.n \in Nat
  BY <1>1 DEF TypeOK
<1>7. Place \in Nat \ {0}
  BY <1>5 DEF Place
<1> QED BY <1>2, <1>3, <1>4, <1>5, <1>6, <1>7

-----------------------------------------------------------------------------
(* What the serial worker puts *)

\* An item that a serial worker may append.
Fits(x) ==
  /\ x \in Items /\ Named(x) = Link
  /\ Bytes(x) =>
       /\ Chunk(x)
       /\ Link \notin silent => Adopted(parser, queue, Place, Link)
                                /\ Joined(parser, silent, queue, Place, Link, x.n)
  /\ Opening(x, Link) => Unused(parser, queue, Place, Link)

LEMMA PutKeepsText ==
  ASSUME TextInv, Serials, UNCHANGED <<parser, status>>, silent \subseteq silent',
         worker'.kind = worker.kind, worker'.session = worker.session,
         worker'.conn \in Nat, worker.conn <= worker'.conn,
         queue' = queue \/ \E x \in Items : Fits(x) /\ queue' = Append(queue, x)
  PROVE  PortInv' /\ ConnInv' /\ ChunkInv'
<1>1. TypeOK /\ PortInv /\ ConnInv /\ ChunkInv /\ worker.session = status.session
  BY NoneAssumption DEF TextInv, LinkInv, TypeInv, PortInv, Serials
<1>2. /\ queue \in Seq(Items) /\ worker.conn \in Nat /\ Place \in Nat /\ parser.item \in Items \cup {NoItem}
      /\ parser.text.conn \in Nat /\ \A x \in Items : x.conn \in Nat
  BY <1>1, TextNumbers
<1>3. \A i \in 1..Len(queue) : i \in Nat /\ queue[i] \in Items
  BY <1>2
<1>4. /\ queue' \in Seq(Items) /\ \A i \in 1..Len(queue) : queue'[i] = queue[i]
      /\ \A i \in 1..Len(queue') : \/ i \in 1..Len(queue)
                                   \/ i = Place /\ Fits(queue'[i])
  <2>1. CASE queue' = queue
    BY <1>2, <2>1
  <2>2. ASSUME NEW x \in Items, Fits(x), queue' = Append(queue, x)
        PROVE  <1>4!:
    BY <1>2, <2>2 DEF Place
  <2> QED BY <2>1, <2>2
<1>5. \A i \in 1..Len(queue) : \A k \in 1..(i - 1) : queue'[k] = queue[k]
  BY <1>2, <1>4
<1>6. \A k \in 1..(Place - 1) : queue'[k] = queue[k]
  BY <1>2, <1>4 DEF Place
<1>7. \A x : Current(x)' <=> Current(x)
  BY DEF Current
<1>8. PortInv'
  <2>1. \A i \in 1..Len(queue') : Current(queue'[i]) /\ Bytes(queue'[i]) => Chunk(queue'[i])
    BY <1>1, <1>4 DEF PortInv, Fits
  <2>2. Serials' <=> Serials
    BY DEF Serials
  <2> QED BY <1>1, <2>1, <2>2 DEF PortInv, Current
<1>9. ConnInv'
  <2>1. \A i \in 1..Len(queue') :
          Current(queue'[i]) /\ Bytes(queue'[i]) => queue'[i].conn <= worker'.conn
    BY <1>1, <1>2, <1>3, <1>4 DEF ConnInv, Fits, Named, Link
  <2>2. /\ parser.item # NoItem /\ Current(parser.item) => parser.item.conn <= worker'.conn
        /\ parser.text # EmptyText /\ Current(parser.text) => parser.text.conn <= worker'.conn
    BY <1>1, <1>2 DEF ConnInv
  <2>3. ASSUME NEW i \in 1..Len(queue'), Current(queue'[i]), Opening(queue'[i], Named(queue'[i]))
        PROVE  Unused(parser, queue', i, Named(queue'[i]))
    <3>1. CASE i \in 1..Len(queue)
      <4>1. Unused(parser, queue, i, Named(queue'[i]))
        BY <1>1, <1>4, <2>3, <3>1 DEF ConnInv
      <4> QED BY <1>3, <1>5, <3>1, <4>1, PrefixDecides
    <3>2. CASE i = Place /\ Fits(queue'[i])
      <4>1. Unused(parser, queue, Place, Named(queue'[i]))
        BY <2>3, <3>2 DEF Fits
      <4> QED BY <1>2, <1>6, <3>2, <4>1, PrefixDecides
    <3> QED BY <1>4, <3>1, <3>2
  <2> QED BY <2>1, <2>2, <2>3 DEF ConnInv, Current
<1>10. ASSUME NEW i \in 1..Len(queue'), Current(queue'[i]), Bytes(queue'[i]),
              Named(queue'[i]) \notin silent'
       PROVE  /\ Adopted(parser, queue', i, Named(queue'[i]))
              /\ Joined(parser, silent', queue', i, Named(queue'[i]), queue'[i].n)
  <2>1. Named(queue'[i]) \notin silent
    BY <1>10
  <2>2. CASE i \in 1..Len(queue)
    <3> DEFINE x == queue'[i]
               link == Named(x)
               n == x.n
    <3>1. queue[i] = x /\ Current(x) /\ Bytes(x) /\ Heard(x)
      BY <1>4, <1>10, <2>1, <2>2 DEF Heard
    <3> HIDE DEF x
    <3>2. Adopted(parser, queue, i, link) /\ Joined(parser, silent, queue, i, link, n)
      BY <1>1, <2>2, <3>1 DEF ChunkInv
    <3>3. i \in Nat /\ \A k \in 1..(i - 1) : queue'[k] = queue[k]
      BY <1>3, <1>5, <2>2
    <3> HIDE DEF link, n
    <3>4. Adopted(parser, queue', i, link) /\ Joined(parser, silent', queue', i, link, n)
      BY <3>2, <3>3, PrefixDecides
    <3> QED BY <3>4 DEF link, n, x
  <2>3. CASE i = Place /\ Fits(queue'[i])
    <3> DEFINE link == Named(queue'[i])
               n == queue'[i].n
    <3>1. Adopted(parser, queue, Place, link) /\ Joined(parser, silent, queue, Place, link, n)
      BY <1>10, <2>1, <2>3 DEF Fits
    <3> HIDE DEF link, n
    <3>2. Adopted(parser, queue', Place, link) /\ Joined(parser, silent', queue', Place, link, n)
      BY <1>2, <1>6, <3>1, PrefixDecides
    <3> QED BY <2>3, <3>2 DEF link, n
  <2> QED BY <1>4, <2>2, <2>3
<1>11. \A t, link, n : Joins(t, silent, link, n) => Joins(t, silent', link, n)
  BY DEF Joins
<1>12. ChunkInv'
  BY <1>1, <1>10, <1>11 DEF ChunkInv, Heard, Current
<1> QED BY <1>8, <1>9, <1>12


\* The place of the next chunk moves behind what the worker appends.
LEMMA PlaceMoves ==
  ASSUME TypeOK, NEW x \in Items, Named(x) = Link, queue' = Append(queue, x),
         UNCHANGED parser, silent \subseteq silent', NEW n
  PROVE  /\ Adopted(parser, queue, Place, Link) => Adopted(parser, queue', Place', Link)
         /\ Joined(parser, silent, queue, Place, Link, n) /\ ~Bytes(x)
              => Joined(parser, silent', queue', Place', Link, n)
         /\ Opening(x, Link) => /\ Adopted(parser, queue', Place', Link)
                                /\ Joined(parser, silent', queue', Place', Link, n)
         /\ Overflow(x) \/ Precedes(x, Link, n)
              => Joined(parser, silent', queue', Place', Link, n)
         /\ Unused(parser, queue, Place, Link) /\ ~Bytes(x)
              => Unused(parser, queue', Place', Link)
<1>1. queue \in Seq(Items) /\ Place \in Nat \ {0}
  BY TextNumbers
<1>2. queue'[Place] = x /\ Place' = Place + 1 /\ \A k \in 1..(Place - 1) : queue'[k] = queue[k]
  BY <1>1 DEF Place
<1> DEFINE i == Place
           r == queue'
           link == Link
<1>3. i \in Nat \ {0} /\ r[i] = x /\ Named(x) = link /\ \A k \in 1..(i - 1) : r[k] = queue[k]
  BY <1>1, <1>2
<1> HIDE DEF i, r, link
<1>4. /\ Adopted(parser, queue, i, link) => Adopted(parser, r, i, link)
      /\ Joined(parser, silent, queue, i, link, n) => Joined(parser, silent', r, i, link, n)
      /\ Unused(parser, queue, i, link) => Unused(parser, r, i, link)
  BY <1>3, PrefixDecides
<1>5. /\ Adopted(parser, r, i, link) => Adopted(parser, r, i + 1, link)
      /\ Joined(parser, silent', r, i, link, n) /\ ~Bytes(x) => Joined(parser, silent', r, i + 1, link, n)
      /\ Opening(x, link) => Adopted(parser, r, i + 1, link) /\ Joined(parser, silent', r, i + 1, link, n)
      /\ Overflow(x) \/ Precedes(x, link, n) => Joined(parser, silent', r, i + 1, link, n)
      /\ Unused(parser, r, i, link) /\ ~Bytes(x) => Unused(parser, r, i + 1, link)
  BY <1>3, OneMore
<1> QED BY <1>2, <1>4, <1>5 DEF i, r, link

LEMMA EventNamed ==
  ASSUME TypeOK, NEW state \in States
  PROVE  /\ Event(state) \in Items /\ Named(Event(state)) = Link /\ ~Bytes(Event(state))
         /\ Opening(Event(state), Link) <=> state \in {"CONNECTED", "STREAMING"}
         /\ Overflow(Event(state)) <=> state = "SERIAL_RX_OVERFLOW"
BY EventIsItem DEF Event, Item, Named, Bytes, Link, Opening, Overflow

LEMMA SerialKeepsText ==
  ASSUME TextInv, SerialNext
  PROVE  PortInv' /\ ConnInv' /\ ChunkInv' /\ WorkerInv'
<1> USE DEF States, Announces
<1>1. TypeOK /\ WorkerInv /\ Serials /\ WorkerStep
  BY SerialSteps DEF TextInv, LinkInv, TypeInv, Serials, Serial, SerialNext, SerialBegin, SerialOpen,
     SerialAnnounce, SerialRead, SerialNotice, SerialChunk, SerialError, SerialAgain, SerialEnd
<1>2. /\ UNCHANGED <<parser, status>> /\ worker'.kind = worker.kind
      /\ worker'.session = worker.session /\ (Serials' <=> Serials)
  BY <1>1 DEF WorkerStep, Runs, Serials
<1>3. /\ worker \in WorkerType /\ worker.conn \in Nat /\ inputs \in Nat /\ Place \in Nat
      /\ worker.conn <= worker.conn
  BY <1>1, WorkerTyped, TextNumbers
<1>4. silent \subseteq silent'
  BY DEF SerialNext, SerialBegin, SerialOpen, SerialAnnounce, SerialRead, SerialNotice,
     SerialChunk, SerialError, SerialAgain, SerialEnd, histories
\* Nothing more to show where the worker keeps its link and puts what fits.
<1>5. ASSUME worker'.conn = worker.conn,
             queue' = queue \/ \E x \in Items : Fits(x) /\ queue' = Append(queue, x)
      PROVE  PortInv' /\ ConnInv' /\ ChunkInv' /\ Link' = Link
  BY <1>1, <1>2, <1>3, <1>4, <1>5, PutKeepsText DEF Link
<1>6. ASSUME NEW state \in States \ {"CONNECTED", "STREAMING"}, PutState(state)
      PROVE  queue' = queue \/ \E x \in Items : Fits(x) /\ queue' = Append(queue, x)
  BY <1>1, <1>6, EventNamed DEF PutState, Fits
<1>7. CASE SerialBegin \/ SerialError \/ SerialAgain \/ SerialEnd
  <2>1. worker'.conn = worker.conn /\ worker'.pc \in {"open", "again", "end", "dead"}
    BY <1>3, <1>7 DEF SerialBegin, SerialError, SerialAgain, SerialEnd, Go, WorkerType
  <2>2. \/ queue' = queue
        \/ \E state \in States \ {"CONNECTED", "STREAMING"} : PutState(state)
    BY <1>7 DEF SerialBegin, SerialError, SerialAgain, SerialEnd
  <2>3. WorkerInv'
    BY <2>1 DEF WorkerInv
  <2> QED BY <1>5, <1>6, <2>1, <2>2, <2>3
<1>8. CASE SerialOpen
  <2>1. queue' = queue /\ silent' = silent
    BY <1>8 DEF SerialOpen, histories
  <2>2. CASE Go("end") \/ Go("error")
    <3>1. worker'.conn = worker.conn /\ worker'.pc \in {"end", "error"}
      BY <1>3, <2>2 DEF Go, WorkerType
    <3>2. WorkerInv'
      BY <3>1 DEF WorkerInv
    <3> QED BY <1>5, <2>1, <3>1, <3>2
  <2>3. CASE worker' = [worker EXCEPT !.pc = "opened", !.conn = @ + 1, !.announced = FALSE]
    <3>1. worker'.pc = "opened" /\ worker'.conn = worker.conn + 1
      BY <1>3, <2>3 DEF WorkerType
    <3>2. PortInv' /\ ConnInv' /\ ChunkInv'
      BY <1>1, <1>2, <1>3, <1>4, <2>1, <3>1, PutKeepsText
    <3>3. Unused(parser, queue, Place, Link')
      <4>1. Link' = <<worker.session, worker.conn + 1>>
        BY <1>2, <3>1 DEF Link
      <4>2. ConnInv /\ PortInv /\ worker.session = status.session
        BY <1>1, NoneAssumption DEF TextInv, PortInv, Serials
      <4>3. /\ queue \in Seq(Items) /\ parser.item \in Items \cup {NoItem} /\ parser.text.conn \in Nat
            /\ \A x \in Items : x.conn \in Nat
        BY <1>1, TextNumbers
      <4>4. ASSUME NEW m \in 1..(Place - 1), Bytes(queue[m])
            PROVE  Named(queue[m]) # Link'
        <5>1. m \in 1..Len(queue) /\ queue[m] \in Items
          BY <4>3 DEF Place
        <5>2. Current(queue[m]) => queue[m].conn <= worker.conn
          BY <1>1, <4>2, <4>4, <5>1 DEF ConnInv
        <5> QED BY <1>3, <4>1, <4>2, <4>3, <5>1, <5>2 DEF Named, Current
      <4>5. parser.item # NoItem => Named(parser.item) # Link'
        BY <1>1, <1>3, <4>1, <4>2, <4>3 DEF ConnInv, Named, Current
      <4>6. parser.text # EmptyText => Named(parser.text) # Link'
        BY <1>1, <1>3, <4>1, <4>2, <4>3 DEF ConnInv, Named, Current
      <4> QED BY <4>4, <4>5, <4>6 DEF Unused
    <3>4. WorkerInv'
      BY <1>2, <2>1, <3>1, <3>3 DEF WorkerInv, Place
    <3> QED BY <3>2, <3>4
  <2> QED BY <1>8, <2>2, <2>3 DEF SerialOpen
<1>9. CASE SerialAnnounce
  <2>1. inputs' = inputs
    BY <1>9 DEF SerialAnnounce
  <2>2. ASSUME NEW state \in {"CONNECTED", "STREAMING"}, PutState(state), worker.pc \in {"opened", "ready"}
        PROVE  /\ queue' = queue \/ \E x \in Items : Fits(x) /\ queue' = Append(queue, x)
               /\ Unused(parser, queue', Place', Link)
               /\ Room => /\ Adopted(parser, queue', Place', Link)
                          /\ Joined(parser, silent', queue', Place', Link, inputs + 1)
               /\ ~Room => queue' = queue
    <3>1. Unused(parser, queue, Place, Link)
      BY <1>1, <2>2 DEF WorkerInv
    <3>2. CASE Room
      <4> DEFINE x == Event(state)
      <4>1. queue' = Append(queue, x)
        BY <2>2, <3>2 DEF PutState
      <4>2. x \in Items /\ Named(x) = Link /\ ~Bytes(x) /\ Opening(x, Link)
        BY <1>1, EventNamed
      <4> HIDE DEF x
      <4>3. Fits(x)
        BY <3>1, <4>2 DEF Fits
      <4>4. /\ Unused(parser, queue', Place', Link) /\ Adopted(parser, queue', Place', Link)
            /\ Joined(parser, silent', queue', Place', Link, inputs + 1)
        BY <1>1, <1>2, <1>4, <3>1, <4>1, <4>2, PlaceMoves
      <4> QED BY <3>2, <4>1, <4>2, <4>3, <4>4
    <3>3. CASE ~Room
      <4>1. queue' = queue /\ Place' = Place
        BY <2>2, <3>3 DEF PutState, Place
      <4> QED BY <3>1, <3>3, <4>1
    <3> QED BY <3>2, <3>3
  <2>3. CASE /\ Serial("opened") /\ PutState("CONNECTED")
             /\ worker' = [worker EXCEPT !.pc = "ready", !.announced = Room]
    <3>1. worker'.conn = worker.conn /\ worker'.pc = "ready" /\ (worker'.announced <=> Room)
      BY <1>3, <2>3 DEF WorkerType
    <3>2. PortInv' /\ ConnInv' /\ ChunkInv' /\ Link' = Link
      BY <1>5, <2>2, <2>3, <3>1 DEF Serial
    <3>3. WorkerInv'
      BY <1>2, <2>1, <2>2, <2>3, <3>1, <3>2 DEF WorkerInv, Serial
    <3> QED BY <3>2, <3>3
  <2>4. CASE /\ Serial("ready") /\ PutState("STREAMING") /\ Go("read")
             /\ silent' = IF Room \/ worker.announced THEN silent ELSE silent \cup {Link}
    <3>1. worker'.conn = worker.conn /\ worker'.pc = "read"
      BY <1>3, <2>4 DEF Go, WorkerType
    <3>2. PortInv' /\ ConnInv' /\ ChunkInv' /\ Link' = Link
      BY <1>5, <2>2, <2>4, <3>1 DEF Serial
    <3>3. Link \notin silent' => /\ Adopted(parser, queue', Place', Link)
                                 /\ Joined(parser, silent', queue', Place', Link, inputs + 1)
      <4>1. CASE Room
        BY <2>2, <2>4, <4>1 DEF Serial
      <4>2. CASE ~Room /\ worker.announced
        <5>1. queue' = queue /\ silent' = silent /\ Place' = Place
          BY <2>4, <4>2 DEF PutState, Place
        <5> QED BY <1>1, <2>4, <4>2, <5>1 DEF WorkerInv, Serial
      <4>3. CASE ~Room /\ ~worker.announced
        BY <2>4, <4>3
      <4> QED BY <4>1, <4>2, <4>3
    <3>4. WorkerInv'
      BY <1>2, <2>1, <3>1, <3>2, <3>3 DEF WorkerInv
    <3> QED BY <3>2, <3>4
  <2> QED BY <1>9, <2>3, <2>4 DEF SerialAnnounce
<1>10. CASE SerialRead
  <2>1. queue' = queue /\ silent' = silent /\ Place' = Place /\ worker.pc = "read"
    BY <1>10 DEF SerialRead, Serial, histories, Place
  <2>2. \/ Go("end") \/ Go("again") \/ Go("error")
        \/ inputs' = inputs + 1 /\ Go(IF worker.overflow THEN "notice" ELSE "chunk")
    BY <1>10 DEF SerialRead
  <2>3. worker'.conn = worker.conn
    BY <1>3, <2>2 DEF Go, WorkerType
  <2>4. PortInv' /\ ConnInv' /\ ChunkInv' /\ Link' = Link
    BY <1>5, <2>1, <2>3
  <2>5. CASE Go("end") \/ Go("again") \/ Go("error")
    <3>1. worker'.pc \in {"end", "again", "error"}
      BY <1>3, <2>5 DEF Go, WorkerType
    <3> QED BY <2>4, <3>1 DEF WorkerInv
  <2>6. CASE inputs' = inputs + 1 /\ Go(IF worker.overflow THEN "notice" ELSE "chunk")
    <3>1. worker'.pc = "notice" \/ (worker'.pc = "chunk" /\ ~worker.overflow)
      BY <1>3, <2>6 DEF Go, WorkerType
    <3>2. WorkerInv'
      BY <1>1, <1>2, <2>1, <2>4, <2>6, <3>1 DEF WorkerInv
    <3> QED BY <2>4, <3>2
  <2> QED BY <2>2, <2>5, <2>6
<1>11. CASE SerialNotice
  <2>1. silent' = silent /\ inputs' = inputs /\ worker.pc = "notice" /\ PutState("SERIAL_RX_OVERFLOW")
    BY <1>11 DEF SerialNotice, Serial, histories
  <2>2. worker' = [worker EXCEPT !.pc = IF Room THEN "chunk" ELSE "read", !.overflow = ~Room]
    BY <1>11 DEF SerialNotice
  <2>3. /\ worker'.conn = worker.conn
        /\ worker'.pc = (IF Room THEN "chunk" ELSE "read") /\ (worker'.overflow <=> ~Room)
    BY <1>3, <2>2 DEF WorkerType
  <2>4. PortInv' /\ ConnInv' /\ ChunkInv' /\ Link' = Link
    BY <1>5, <1>6, <2>1, <2>3
  <2>5. CASE Room
    <3> DEFINE x == Event("SERIAL_RX_OVERFLOW")
    <3>1. queue' = Append(queue, x)
      BY <2>1, <2>5 DEF PutState
    <3>2. x \in Items /\ Named(x) = Link /\ Overflow(x)
      BY <1>1, EventNamed
    <3> HIDE DEF x
    <3>3. /\ Adopted(parser, queue, Place, Link) => Adopted(parser, queue', Place', Link)
          /\ Joined(parser, silent', queue', Place', Link, inputs)
      BY <1>1, <1>2, <1>4, <3>1, <3>2, PlaceMoves
    <3>4. WorkerInv'
      BY <1>1, <1>2, <2>1, <2>3, <2>4, <2>5, <3>3 DEF WorkerInv
    <3> QED BY <2>4, <3>4
  <2>6. CASE ~Room
    <3>1. queue' = queue /\ Place' = Place
      BY <2>1, <2>6 DEF PutState, Place
    <3>2. WorkerInv'
      BY <1>1, <1>2, <2>1, <2>3, <2>4, <2>6, <3>1 DEF WorkerInv
    <3> QED BY <2>4, <3>2
  <2> QED BY <2>5, <2>6
<1>12. CASE SerialChunk
  <2> DEFINE x == Item("data", worker.session, worker.conn, "serial", inputs)
  <2>1. /\ silent' = silent /\ inputs' = inputs /\ worker.pc = "chunk"
        /\ queue' = IF Room THEN Append(queue, x) ELSE queue
    BY <1>12 DEF SerialChunk, Serial, histories
  <2>2. worker' = [worker EXCEPT !.pc = "read", !.overflow = ~Room]
    BY <1>12 DEF SerialChunk
  <2>3. worker'.conn = worker.conn /\ worker'.pc = "read" /\ (worker'.overflow <=> ~Room)
    BY <1>3, <2>2 DEF WorkerType
  <2>4. x \in Items /\ Named(x) = Link /\ Chunk(x) /\ x.n = inputs /\ ~Opening(x, Link)
    BY <1>1, TextNumbers DEF Item, Items, Named, Link, Chunk, Opening, TypeOK
  <2>5. Precedes(x, Link, inputs + 1)
    BY <1>3, <2>4 DEF Precedes, Chunk
  <2> HIDE DEF x
  <2>6. Fits(x)
    BY <1>1, <2>1, <2>4 DEF Fits, WorkerInv
  <2>7. PortInv' /\ ConnInv' /\ ChunkInv' /\ Link' = Link
    BY <1>5, <2>1, <2>3, <2>4, <2>6
  <2>8. CASE Room
    <3>1. /\ Adopted(parser, queue, Place, Link) => Adopted(parser, queue', Place', Link)
          /\ Joined(parser, silent', queue', Place', Link, inputs + 1)
      BY <1>1, <1>2, <1>4, <2>1, <2>4, <2>5, <2>8, PlaceMoves
    <3>2. WorkerInv'
      BY <1>1, <1>2, <2>1, <2>3, <2>7, <2>8, <3>1 DEF WorkerInv
    <3> QED BY <2>7, <3>2
  <2>9. CASE ~Room
    <3>1. queue' = queue /\ Place' = Place
      BY <2>1, <2>9 DEF Place
    <3>2. WorkerInv'
      BY <1>1, <1>2, <2>1, <2>3, <2>7, <2>9, <3>1 DEF WorkerInv
    <3> QED BY <2>7, <3>2
  <2> QED BY <2>8, <2>9
<1> QED BY <1>7, <1>8, <1>9, <1>10, <1>11, <1>12 DEF SerialNext


-----------------------------------------------------------------------------
(* The other workers, and the API thread *)

LEMMA BleKeepsText ==
  ASSUME TextInv, BleNext
  PROVE  PortInv' /\ ConnInv' /\ ChunkInv' /\ WorkerInv'
<1>1. /\ TypeOK /\ SessionInv /\ PortInv /\ ChunkInv /\ WorkerStep
      /\ worker.kind = "ble" /\ worker.kind # None /\ silent' = silent
  BY BleSteps, NoneAssumption DEF TextInv, LinkInv, TypeInv, Ble, BleNext, BleBegin, BleLink,
     BleSubscribe, BleNotify, BleDrain, BleDown, BleRetry, histories
<1>2. /\ UNCHANGED <<parser, status>> /\ worker'.kind = worker.kind
      /\ worker'.session = worker.session /\ ~Serials /\ ~Serials'
  BY <1>1 DEF WorkerStep, Runs, Serials
<1>3. queue \in Seq(Items) /\ backlog \in Seq(Items)
  BY <1>1 DEF TypeOK
<1>4. \A i \in 1..Len(queue) : Current(queue[i]) /\ Bytes(queue[i]) => ~Chunk(queue[i])
  BY <1>1, <1>2 DEF PortInv
<1>5. ASSUME NEW x \in Items, ~Chunk(x), queue' = Append(queue, x)
      PROVE  \A i \in 1..Len(queue') : Current(queue'[i]) /\ Bytes(queue'[i]) => ~Chunk(queue'[i])
  <2>1. \A i \in 1..Len(queue') : \/ i \in 1..Len(queue) /\ queue'[i] = queue[i]
                                  \/ queue'[i] = x
    BY <1>3, <1>5
  <2> QED BY <1>4, <1>5, <2>1
<1>6. \A i \in 1..Len(queue') : Current(queue'[i]) /\ Bytes(queue'[i]) => ~Chunk(queue'[i])
  <2>1. CASE queue' = queue
    BY <1>4, <2>1
  <2>2. ASSUME NEW x \in Items, Stamped(x), queue' = Append(queue, x)
        PROVE  <1>6
    BY <1>1, <1>5, <2>2 DEF Stamped, Chunk
  <2>3. CASE backlog # <<>> /\ queue' = Append(queue, Head(backlog))
    <3>1. Head(backlog) \in Items /\ 1 \in 1..Len(backlog) /\ Head(backlog) = backlog[1]
      BY <1>3, <2>3
    <3>2. ~Chunk(Head(backlog))
      BY <1>1, <3>1 DEF SessionInv, Chunk
    <3> QED BY <1>5, <2>3, <3>1, <3>2
  <2> QED BY <1>1, <2>1, <2>2, <2>3 DEF WorkerStep, Hands, Queues, Saves, Drains
<1>7. PortInv'
  BY <1>1, <1>2, <1>6 DEF PortInv, Current
<1>8. ChunkInv'
  BY <1>1, <1>2 DEF ChunkInv, Heard
<1> QED BY <1>2, <1>7, <1>8 DEF ConnInv, WorkerInv

LEMMA ManagerKeepsText ==
  ASSUME TextInv, ManagerNext
  PROVE  PortInv' /\ ConnInv' /\ ChunkInv' /\ WorkerInv'
<1>1. TypeOK /\ SessionInv /\ PortInv /\ ConnInv /\ ChunkInv /\ WorkerInv
  BY DEF TextInv, LinkInv, TypeInv
<1>2. worker \in WorkerType /\ \A x \in Items : x.session \in Nat
  BY <1>1, WorkerTyped, TextNumbers
<1>3. CASE Disconnect \/ JoinTimeout \/ DescribeSession \/ RequestReconnect
  <2>1. UNCHANGED <<queue, parser, silent, inputs>>
    BY <1>3 DEF Disconnect, JoinTimeout, DescribeSession, RequestReconnect, histories
  <2>2. status'.session = status.session
    BY <1>1, <1>3 DEF Disconnect, JoinTimeout, DescribeSession, RequestReconnect, TypeOK
  <2>3. /\ worker'.pc = worker.pc /\ worker'.session = worker.session /\ worker'.conn = worker.conn
        /\ worker'.kind = worker.kind /\ worker'.overflow = worker.overflow
        /\ worker'.announced = worker.announced
    BY <1>2, <1>3 DEF Disconnect, JoinTimeout, DescribeSession, RequestReconnect, WorkerType
  <2>4. (Serials' <=> Serials) /\ Link' = Link /\ Place' = Place
    BY <2>1, <2>3 DEF Serials, Link, Place
  <2>5. PortInv' /\ ConnInv'
    BY <1>1, <2>1, <2>2, <2>3, <2>4 DEF PortInv, ConnInv, Current
  <2>6. ChunkInv'
    BY <1>1, <2>1, <2>2, <2>4 DEF ChunkInv, Current, Heard
  <2>7. WorkerInv'
    BY <1>1, <2>1, <2>3, <2>4 DEF WorkerInv
  <2> QED BY <2>5, <2>6, <2>7
<1>4. CASE NextSession
  <2>1. UNCHANGED <<queue, parser, silent>> /\ status'.session = status.session + 1
    BY <1>4 DEF NextSession
  <2>2. \/ worker' = NoWorker
        \/ \E kind \in Kinds : worker' = Started(kind, status.session + 1)
    BY <1>4 DEF NextSession
  <2>3. worker'.pc \in {"begin", "dead"}
        /\ (worker'.kind = None \/ worker'.session = status.session + 1)
    <3>1. NoWorker.pc = "dead" /\ NoWorker.kind = None
      BY DEF NoWorker
    <3>2. \A kind \in Kinds : /\ Started(kind, status.session + 1).pc = "begin"
                             /\ Started(kind, status.session + 1).session = status.session + 1
      BY DEF Started, NoWorker
    <3> QED BY <2>2, <3>1, <3>2
  <2>4. /\ status.session \in Nat /\ parser.text.session \in Nat /\ queue \in Seq(Items)
        /\ parser.item \in Items \cup {NoItem}
    BY <1>1, TextNumbers
  <2>5. \A i \in 1..Len(queue) : queue[i].session # status'.session
    <3>1. ASSUME NEW i \in 1..Len(queue)
          PROVE  queue[i].session # status'.session
      <4>1. queue[i] \in Items /\ queue[i].session <= status.session
        BY <1>1, <2>4 DEF SessionInv, Between
      <4> QED BY <1>2, <2>1, <2>4, <4>1
    <3> QED BY <3>1
  <2>6. parser.item # NoItem => parser.item.session <= status'.session
                               /\ parser.item.session # status'.session
    BY <1>1, <1>2, <2>1, <2>4 DEF PortInv
  <2>7. parser.text # EmptyText => /\ parser.session <= parser.text.session
                                   /\ parser.text.session <= status'.session
                                   /\ parser.text.session # status'.session
    BY <1>1, <2>1, <2>4 DEF PortInv
  <2>8. PortInv'
    BY <1>1, <2>1, <2>3, <2>5, <2>6, <2>7 DEF PortInv, Current
  <2>9. ConnInv'
    BY <2>1, <2>5, <2>6, <2>7 DEF ConnInv, Current
  <2>10. ChunkInv'
    BY <1>1, <2>1, <2>5, <2>6, <2>7 DEF ChunkInv, Current, Heard
  <2>11. WorkerInv'
    BY <2>3 DEF WorkerInv
  <2> QED BY <2>8, <2>9, <2>10, <2>11
<1> QED BY <1>3, <1>4 DEF ManagerNext


-----------------------------------------------------------------------------
(* The parser *)

\* What moves up by one place, or stays, with the parser at r.
Moves(p, r, q, t, i, mute, link, n) ==
  /\ Adopted(p, q, i + 1, link) => Adopted(r, t, i, link)
  /\ Joined(p, mute, q, i + 1, link, n) => Joined(r, mute, t, i, link, n)
  /\ Unused(p, q, i + 1, link) => Unused(r, t, i, link)

\* The invariant about the queue, and about the worker's next chunk, when the parser
\* takes an item from the queue.
LEMMA TakenKeepsText ==
  ASSUME TextInv, queue # <<>>, queue' = Tail(queue), UNCHANGED <<worker, inputs, silent>>,
         status'.session = status.session,
         \A i \in Nat \ {0} : \A link, n :
           Serials /\ i <= Len(queue) /\ link[1] = status.session
           => Moves(parser, parser', queue, queue', i, silent, link, n)
  PROVE  /\ \A i \in 1..Len(queue') :
              Current(queue'[i]) /\ Bytes(queue'[i]) => (Chunk(queue'[i]) <=> Serials)
         /\ Serials => \A i \in 1..Len(queue') :
              /\ Current(queue'[i]) /\ Bytes(queue'[i]) => queue'[i].conn <= worker.conn
              /\ Current(queue'[i]) /\ Opening(queue'[i], Named(queue'[i])) =>
                   Unused(parser', queue', i, Named(queue'[i]))
              /\ Current(queue'[i]) /\ Bytes(queue'[i]) /\ Heard(queue'[i]) =>
                   /\ Adopted(parser', queue', i, Named(queue'[i]))
                   /\ Joined(parser', silent, queue', i, Named(queue'[i]), queue'[i].n)
         /\ WorkerInv'
<1>1. TypeOK /\ PortInv /\ ConnInv /\ ChunkInv /\ WorkerInv
  BY DEF TextInv, LinkInv, TypeInv
<1>2. queue \in Seq(Items)
  BY <1>1, TextNumbers
<1>3. \A i \in 1..Len(queue') : /\ i + 1 \in 1..Len(queue) /\ queue'[i] = queue[i + 1]
                                /\ i \in Nat \ {0} /\ i <= Len(queue)
  BY <1>2
<1>4. \A i \in 1..Len(queue') :
        Current(queue'[i]) /\ Bytes(queue'[i]) => (Chunk(queue'[i]) <=> Serials)
  BY <1>1, <1>3 DEF PortInv
<1>5. ASSUME Serials, NEW i \in 1..Len(queue')
      PROVE  /\ Current(queue'[i]) /\ Bytes(queue'[i]) => queue'[i].conn <= worker.conn
             /\ Current(queue'[i]) /\ Opening(queue'[i], Named(queue'[i])) =>
                  Unused(parser', queue', i, Named(queue'[i]))
             /\ Current(queue'[i]) /\ Bytes(queue'[i]) /\ Heard(queue'[i]) =>
                  /\ Adopted(parser', queue', i, Named(queue'[i]))
                  /\ Joined(parser', silent, queue', i, Named(queue'[i]), queue'[i].n)
  <2> DEFINE x == queue'[i]
             link == Named(x)
             n == x.n
  <2>1. queue[i + 1] = x /\ i + 1 \in 1..Len(queue) /\ i \in Nat \ {0} /\ i <= Len(queue)
    BY <1>3
  <2>2. Current(x) => link[1] = status.session
    BY DEF Current, Named
  <2> HIDE DEF x
  <2>3. /\ Current(x) /\ Bytes(x) => x.conn <= worker.conn
        /\ Current(x) /\ Opening(x, link) => Unused(parser, queue, i + 1, link)
    BY <1>1, <1>5, <2>1 DEF ConnInv
  <2>4. Current(x) /\ Bytes(x) /\ Heard(x) =>
          Adopted(parser, queue, i + 1, link) /\ Joined(parser, silent, queue, i + 1, link, n)
    BY <1>1, <1>5, <2>1 DEF ChunkInv
  <2> HIDE DEF link, n
  <2>5. Current(x) => Moves(parser, parser', queue, queue', i, silent, link, n)
    BY <1>5, <2>1, <2>2
  <2>6. /\ Current(x) /\ Opening(x, link) => Unused(parser', queue', i, link)
        /\ Current(x) /\ Bytes(x) /\ Heard(x) =>
             Adopted(parser', queue', i, link) /\ Joined(parser', silent, queue', i, link, n)
    BY <2>3, <2>4, <2>5 DEF Moves
  <2> QED BY <2>3, <2>6 DEF x, link, n
<1>6. WorkerInv'
  <2>1. /\ Place' \in Nat \ {0} /\ Place' <= Len(queue) /\ Place = Place' + 1
        /\ Link' = Link /\ (Serials' <=> Serials)
    BY <1>2 DEF Place, Link, Serials
  <2>2. Serials => Link[1] = status.session
    BY <1>1, NoneAssumption DEF PortInv, Serials, Link
  <2> DEFINE i == Place'
             link == Link
  <2>3. i \in Nat \ {0} /\ i <= Len(queue) /\ Place = i + 1 /\ (Serials => link[1] = status.session)
    BY <2>1, <2>2
  <2> HIDE DEF i, link
  <2>4. \A n : Serials => Moves(parser, parser', queue, queue', i, silent, link, n)
    BY <2>3
  <2>5. \A n : Serials =>
          /\ Adopted(parser, queue, Place, link) => Adopted(parser', queue', i, link)
          /\ Joined(parser, silent, queue, Place, link, n) => Joined(parser', silent, queue', i, link, n)
          /\ Unused(parser, queue, Place, link) => Unused(parser', queue', i, link)
    BY <2>3, <2>4 DEF Moves
  <2>6. \A n : Serials =>
          /\ Adopted(parser, queue, Place, Link) => Adopted(parser', queue', Place', Link)
          /\ Joined(parser, silent, queue, Place, Link, n)
               => Joined(parser', silent, queue', Place', Link, n)
          /\ Unused(parser, queue, Place, Link) => Unused(parser', queue', Place', Link)
    BY <2>5 DEF i, link
  <2> QED BY <1>1, <2>1, <2>6 DEF WorkerInv
<1> QED BY <1>4, <1>5, <1>6

LEMMA ParseKeepsText ==
  ASSUME TextInv, ParseState
  PROVE  PortInv' /\ ConnInv' /\ ChunkInv' /\ WorkerInv'
<1> DEFINE item == queue[1]
<1>1. TypeOK /\ PortInv /\ ConnInv /\ ChunkInv
  BY DEF TextInv, LinkInv, TypeInv
<1>2. /\ queue \in Seq(Items) /\ queue # <<>> /\ queue' = Tail(queue) /\ item.type = "state"
      /\ Head(queue) = item /\ 1 \in 1..Len(queue) /\ item \in Items
      /\ parser.item = NoItem /\ UNCHANGED <<worker, inputs, silent>>
  BY <1>1, TextNumbers DEF ParseState
<1>3. status'.session = status.session
  BY <1>1, ParseState DEF ParseState, TypeOK
<1> HIDE DEF item
<1> DEFINE opens == item.state \in Announces /\ item.conn # parser.conn
           clears == item.session # parser.session \/ opens \/ item.state = "SERIAL_RX_OVERFLOW"
<1>4. /\ parser'.item = NoItem /\ parser'.session = item.session
      /\ parser'.conn = (IF opens THEN item.conn ELSE parser.conn)
      /\ parser'.text = (IF clears THEN EmptyText ELSE parser.text)
  BY <1>1, <1>2, ParseState DEF ParseState, TypeOK
<1>5. /\ parser.text.session \in Nat /\ parser.session \in Nat /\ status.session \in Nat
  BY <1>1, TextNumbers
<1>6. ASSUME Serials, NEW link, NEW n, link[1] = status.session, Opening(item, link)
      PROVE  Joins(parser'.text, silent, link, n)
  <2> SUFFICES ASSUME parser'.text # EmptyText
               PROVE  Joins(parser'.text, silent, link, n)
    BY DEF Joins
  <2>1. parser'.text = parser.text /\ item.session = parser.session /\ item.conn = parser.conn
    BY <1>4, <1>6 DEF Opening, Announces
  <2>2. link = <<parser.session, parser.conn>> /\ parser.session = status.session
    BY <1>6, <2>1 DEF Opening, Named
  <2>3. parser.text.session = status.session
    BY <1>1, <1>5, <2>1, <2>2 DEF PortInv
  <2>4. Named(parser.text) # link
    <3>1. Unused(parser, queue, 1, Named(item))
      BY <1>1, <1>2, <1>6, <2>1, <2>2 DEF ConnInv, Current, Opening, item
    <3> QED BY <1>6, <2>1, <3>1 DEF Unused, Opening
  <2>5. Named(parser.text) \in silent
    BY <1>1, <1>6, <2>1, <2>2, <2>3, <2>4 DEF ChunkInv, Current, Heard, AtLink
  <2> QED BY <1>6, <2>1, <2>3, <2>5 DEF Joins
<1>7. ASSUME NEW i \in Nat \ {0}, NEW link, NEW n, Serials, i <= Len(queue), link[1] = status.session
      PROVE  Moves(parser, parser', queue, queue', i, silent, link, n)
  <2>1. \A m \in 1..(i - 1) : queue'[m] = queue[m + 1]
    BY <1>2, <1>7
  <2>2. /\ parser'.conn = (IF item.state \in Announces THEN item.conn ELSE parser.conn)
        /\ parser'.text = parser.text \/ parser'.text = EmptyText
        /\ Overflow(item) => parser'.text = EmptyText
    BY <1>4 DEF Overflow
  <2>3. Opening(item, link) => Joins(parser'.text, silent, link, n)
    BY <1>6, <1>7
  <2> DEFINE r == parser'
             t == queue'
  <2>4. r.item = NoItem /\ r.session = item.session
    BY <1>4
  <2> HIDE DEF r, t
  <2>5. /\ Adopted(parser, queue, i + 1, link) => Adopted(r, t, i, link)
        /\ Joined(parser, silent, queue, i + 1, link, n) => Joined(r, silent, t, i, link, n)
        /\ Unused(parser, queue, i + 1, link) => Unused(r, t, i, link)
    BY <1>2, <2>1, <2>2, <2>3, <2>4, EventTaken DEF item, r, t
  <2> QED BY <2>5 DEF Moves, r, t
<1> HIDE DEF opens, clears
<1>8. /\ \A i \in 1..Len(queue') :
           Current(queue'[i]) /\ Bytes(queue'[i]) => (Chunk(queue'[i]) <=> Serials)
      /\ Serials => \A i \in 1..Len(queue') :
           /\ Current(queue'[i]) /\ Bytes(queue'[i]) => queue'[i].conn <= worker.conn
           /\ Current(queue'[i]) /\ Opening(queue'[i], Named(queue'[i])) =>
                Unused(parser', queue', i, Named(queue'[i]))
           /\ Current(queue'[i]) /\ Bytes(queue'[i]) /\ Heard(queue'[i]) =>
                /\ Adopted(parser', queue', i, Named(queue'[i]))
                /\ Joined(parser', silent, queue', i, Named(queue'[i]), queue'[i].n)
      /\ WorkerInv'
  BY <1>2, <1>3, <1>7, TakenKeepsText
<1>9. parser'.text # EmptyText =>
        /\ parser'.text = parser.text /\ parser'.session = parser.session
        /\ parser'.conn = parser.conn
  BY <1>4 DEF opens, clears
<1>10. PortInv'
  BY <1>1, <1>2, <1>3, <1>4, <1>8, <1>9 DEF PortInv, Current, Serials
<1>11. ConnInv'
  BY <1>1, <1>2, <1>3, <1>4, <1>8, <1>9 DEF ConnInv, Current, Serials
<1>12. ChunkInv'
  BY <1>1, <1>2, <1>3, <1>4, <1>8, <1>9 DEF ChunkInv, Current, Serials, Heard, AtLink
<1> QED BY <1>8, <1>10, <1>11, <1>12


LEMMA TakeKeepsText ==
  ASSUME TextInv, Take
  PROVE  PortInv' /\ ConnInv' /\ ChunkInv' /\ WorkerInv'
<1> DEFINE item == queue[1]
<1>1. TypeOK /\ SessionInv /\ PortInv /\ ConnInv /\ ChunkInv
  BY DEF TextInv, LinkInv, TypeInv
<1>2. /\ queue \in Seq(Items) /\ queue # <<>> /\ queue' = Tail(queue) /\ Bytes(item)
      /\ Head(queue) = item /\ 1 \in 1..Len(queue) /\ item \in Items /\ item # NoItem
      /\ parser.item = NoItem /\ UNCHANGED <<worker, inputs, silent, status>>
  BY <1>1, TextNumbers DEF Take, Bytes
<1> HIDE DEF item
<1>3. parser' = IF Current(item) THEN [parser EXCEPT !.item = item] ELSE parser
  BY <1>2 DEF Take, Current
<1>4. /\ parser'.session = parser.session /\ parser'.conn = parser.conn /\ parser'.text = parser.text
      /\ parser'.item = IF Current(item) THEN item ELSE NoItem
  BY <1>1, <1>2, <1>3 DEF TypeOK
<1>5. ASSUME NEW i \in Nat \ {0}, NEW link, NEW n, i <= Len(queue), link[1] = status.session
      PROVE  Moves(parser, parser', queue, queue', i, silent, link, n)
  <2>1. \A m \in 1..(i - 1) : queue'[m] = queue[m + 1]
    BY <1>2, <1>5
  <2> DEFINE r == parser'
             t == queue'
  <2>2. /\ r.session = parser.session /\ r.conn = parser.conn /\ r.text = parser.text
        /\ r.item = item \/ (r.item = NoItem /\ Named(item) # link)
    BY <1>4, <1>5 DEF Current, Named
  <2> HIDE DEF r, t
  <2>3. /\ Adopted(parser, queue, i + 1, link) => Adopted(r, t, i, link)
        /\ Joined(parser, silent, queue, i + 1, link, n) => Joined(r, silent, t, i, link, n)
        /\ Unused(parser, queue, i + 1, link) => Unused(r, t, i, link)
    BY <1>2, <2>1, <2>2, BytesTaken DEF item, r, t
  <2> QED BY <2>3 DEF Moves, r, t
<1>6. /\ \A i \in 1..Len(queue') :
           Current(queue'[i]) /\ Bytes(queue'[i]) => (Chunk(queue'[i]) <=> Serials)
      /\ Serials => \A i \in 1..Len(queue') :
           /\ Current(queue'[i]) /\ Bytes(queue'[i]) => queue'[i].conn <= worker.conn
           /\ Current(queue'[i]) /\ Opening(queue'[i], Named(queue'[i])) =>
                Unused(parser', queue', i, Named(queue'[i]))
           /\ Current(queue'[i]) /\ Bytes(queue'[i]) /\ Heard(queue'[i]) =>
                /\ Adopted(parser', queue', i, Named(queue'[i]))
                /\ Joined(parser', silent, queue', i, Named(queue'[i]), queue'[i].n)
      /\ WorkerInv'
  BY <1>2, <1>5, TakenKeepsText
<1>7. /\ item.session <= status.session
      /\ Current(item) => (Chunk(item) <=> Serials) /\ (Serials => item.conn <= worker.conn)
  <2>1. item.session <= status.session
    BY <1>1, <1>2 DEF SessionInv, Between, item
  <2>2. Current(item) => (Chunk(item) <=> Serials)
    BY <1>1, <1>2 DEF PortInv, item
  <2>3. Current(item) => (Serials => item.conn <= worker.conn)
    BY <1>1, <1>2 DEF ConnInv, item
  <2> QED BY <2>1, <2>2, <2>3
<1>8. ASSUME Current(item), Heard(item), Serials
      PROVE  AtLink(parser, Named(item)) /\ Joins(parser.text, silent, Named(item), item.n)
  <2>1. Adopted(parser, queue, 1, Named(item)) /\ Joined(parser, silent, queue, 1, Named(item), item.n)
    BY <1>1, <1>2, <1>8 DEF ChunkInv, item
  <2>2. \A k \in 1..(1 - 1) : FALSE
    OBVIOUS
  <2> QED BY <1>2, <2>1, <2>2 DEF Adopted, Joined
<1>9. PortInv'
  BY <1>1, <1>2, <1>4, <1>6, <1>7 DEF PortInv, Current, Serials
<1>10. ConnInv'
  BY <1>1, <1>2, <1>4, <1>6, <1>7 DEF ConnInv, Current, Serials
<1>11. ChunkInv'
  BY <1>1, <1>2, <1>4, <1>6, <1>7, <1>8 DEF ChunkInv, Current, Serials, Heard, AtLink
<1> QED BY <1>6, <1>9, <1>10, <1>11

LEMMA FeedKeepsText ==
  ASSUME TextInv, Feed
  PROVE  PortInv' /\ ConnInv' /\ ChunkInv' /\ WorkerInv'
<1> DEFINE item == parser.item
<1>1. TypeOK /\ SessionInv /\ PortInv /\ ConnInv /\ ChunkInv /\ WorkerInv
  BY DEF TextInv, LinkInv, TypeInv
<1>2. /\ item # NoItem /\ item \in Items /\ UNCHANGED <<queue, worker, inputs, silent, status>>
      /\ parser'.item = NoItem /\ parser'.session = parser.session /\ parser'.conn = parser.conn
      /\ parser'.text = [session |-> item.session, conn |-> item.conn, n |-> item.n]
  BY <1>1 DEF Feed, TypeOK
<1>3. UNCHANGED <<Serials, Link, Place>> /\ Place \in Nat \ {0}
  BY <1>1, <1>2, TextNumbers DEF Serials, Link, Place
<1>4. ASSUME NEW i \in Nat \ {0}, NEW link, NEW n
      PROVE  /\ Adopted(parser, queue, i, link) => Adopted(parser', queue, i, link)
             /\ Joined(parser, silent, queue, i, link, n) => Joined(parser', silent, queue, i, link, n)
             /\ Unused(parser, queue, i, link) => Unused(parser', queue, i, link)
  <2> DEFINE r == parser'
  <2>1. /\ r.item = NoItem /\ r.session = parser.session /\ r.conn = parser.conn
        /\ r.text = [session |-> parser.item.session, conn |-> parser.item.conn, n |-> parser.item.n]
        /\ parser.item # NoItem
    BY <1>2
  <2> HIDE DEF r
  <2>2. /\ Adopted(parser, queue, i, link) => Adopted(r, queue, i, link)
        /\ Joined(parser, silent, queue, i, link, n) => Joined(r, silent, queue, i, link, n)
        /\ Unused(parser, queue, i, link) => Unused(r, queue, i, link)
    BY <2>1, BytesFed
  <2> QED BY <2>2 DEF r
<1>5. \A i \in 1..Len(queue) : i \in Nat \ {0}
  OBVIOUS
<1>6. parser.session <= item.session /\ item.session <= status.session
  BY <1>1, <1>2 DEF SessionInv, PortInv
<1>7. PortInv'
  BY <1>1, <1>2, <1>6 DEF PortInv, Current, Serials
<1>8. ConnInv'
  <2>1. parser'.text.conn = item.conn /\ parser'.text.session = item.session
    BY <1>2
  <2> QED BY <1>1, <1>2, <1>4, <1>5, <2>1 DEF ConnInv, Current, Serials
<1>9. ChunkInv'
  <2>1. Named(parser'.text) = Named(item) /\ (Current(parser'.text) <=> Current(item))
    BY <1>2 DEF Named, Current
  <2>2. Serials => \A i \in 1..Len(queue) : Current(queue[i]) /\ Bytes(queue[i]) /\ Heard(queue[i]) =>
          /\ Adopted(parser', queue, i, Named(queue[i]))
          /\ Joined(parser', silent, queue, i, Named(queue[i]), queue[i].n)
    BY <1>1, <1>4, <1>5 DEF ChunkInv
  <2>3. Serials /\ Current(item) /\ Named(item) \notin silent => AtLink(parser', Named(item))
    BY <1>1, <1>2 DEF ChunkInv, AtLink, Heard
  <2> QED BY <1>2, <2>1, <2>2, <2>3 DEF ChunkInv, Current, Serials, Heard
<1>10. WorkerInv'
  BY <1>1, <1>2, <1>3, <1>4 DEF WorkerInv
<1> QED BY <1>7, <1>8, <1>9, <1>10

\* Whatever step is taken.
LEMMA StepKeepsReplies ==
  ASSUME TypeOK, ReplyInv, [Next]_vars
  PROVE  ReplyInv'
<1>1. queue \in Seq(Items) /\ backlog \in Seq(Items)
  BY DEF TypeOK
<1>2. ASSUME WorkerStep
      PROVE  ReplyInv'
  <2>1. parser' = parser
    BY <1>2 DEF WorkerStep, Runs
  <2>2. CASE UNCHANGED <<queue, backlog>>
    BY <2>1, <2>2 DEF ReplyInv
  <2>3. ASSUME NEW x \in Items, Replies(x), queue' = Append(queue, x),
               backlog' = backlog \/ backlog' = Tail(backlog)
        PROVE  ReplyInv'
    <3>1. \A i \in 1..Len(queue') : Replies(queue'[i])
      <4>1. \A i \in 1..Len(queue') : \/ i \in 1..Len(queue) /\ queue'[i] = queue[i]
                                      \/ queue'[i] = x
        BY <1>1, <2>3
      <4> QED BY <2>3, <4>1 DEF ReplyInv
    <3>2. \A i \in 1..Len(backlog') : Replies(backlog'[i])
      <4>1. CASE backlog' = backlog
        BY <4>1 DEF ReplyInv
      <4>2. CASE backlog' = Tail(backlog) /\ backlog # <<>>
        <5>1. \A i \in 1..Len(backlog') : i + 1 \in 1..Len(backlog) /\ backlog'[i] = backlog[i + 1]
          BY <1>1, <4>2
        <5> QED BY <5>1 DEF ReplyInv
      <4>3. CASE backlog = <<>> /\ backlog' = Tail(backlog)
        <5>1. \A i \in 1..Len(backlog') : FALSE
          BY <4>3
        <5> QED BY <5>1
      <4> QED BY <2>3, <4>1, <4>2, <4>3
    <3> QED BY <2>1, <3>1, <3>2 DEF ReplyInv
  <2>4. ASSUME NEW x \in Items, Stamped(x), Queues(x) \/ Saves(x)
        PROVE  ReplyInv'
    <3>1. Replies(x)
      BY <2>4 DEF Stamped, Replies
    <3>2. CASE Queues(x)
      BY <2>3, <3>1, <3>2 DEF Queues
    <3>3. CASE Saves(x)
      <4>1. queue' = queue /\ backlog' = Append(backlog, x)
        BY <3>3 DEF Saves
      <4>2. \A i \in 1..Len(backlog') : \/ i \in 1..Len(backlog) /\ backlog'[i] = backlog[i]
                                        \/ backlog'[i] = x
        BY <1>1, <4>1
      <4> QED BY <2>1, <3>1, <4>1, <4>2 DEF ReplyInv
    <3> QED BY <2>4, <3>2, <3>3
  <2>5. CASE Drains
    <3>1. Head(backlog) = backlog[1] /\ 1 \in 1..Len(backlog) /\ Head(backlog) \in Items
      BY <1>1, <2>5 DEF Drains
    <3> QED BY <2>3, <2>5, <3>1 DEF Drains, ReplyInv
  <2> QED BY <1>2, <2>2, <2>4, <2>5 DEF WorkerStep, Hands
<1>3. CASE SerialNext \/ BleNext
  BY <1>2, <1>3, SerialSteps, BleSteps
<1>4. CASE ManagerNext \/ UNCHANGED vars
  <2>1. UNCHANGED <<queue, parser>> /\ (backlog' = backlog \/ backlog' = <<>>)
    BY <1>4 DEF ManagerNext, Disconnect, JoinTimeout, NextSession, DescribeSession, RequestReconnect, vars
  <2>2. \A i \in 1..Len(<<>>) : FALSE
    OBVIOUS
  <2> QED BY <2>1, <2>2 DEF ReplyInv
<1>5. CASE ParserNext
  <2>1. backlog' = backlog
    BY <1>5 DEF ParserNext, ParseState, Take, Feed
  <2>2. CASE Feed
    <3>1. queue' = queue /\ parser'.item = NoItem
      BY <2>2 DEF Feed, TypeOK
    <3> QED BY <2>1, <3>1 DEF ReplyInv
  <2>3. CASE ParseState \/ Take
    <3>1. queue # <<>> /\ queue' = Tail(queue)
      BY <2>3 DEF ParseState, Take
    <3>2. /\ \A i \in 1..Len(queue') : i + 1 \in 1..Len(queue) /\ queue'[i] = queue[i + 1]
          /\ Head(queue) = queue[1] /\ 1 \in 1..Len(queue)
      BY <1>1, <3>1
    <3>3. parser'.item = parser.item \/ parser'.item = Head(queue)
      <4>1. ParseState => parser'.item = parser.item
        BY DEF ParseState, TypeOK
      <4>2. Take => \/ parser' = parser
                    \/ parser' = [parser EXCEPT !.item = Head(queue)]
        BY DEF Take
      <4>3. parser' = [parser EXCEPT !.item = Head(queue)] => parser'.item = Head(queue)
        BY DEF TypeOK
      <4> QED BY <2>3, <4>1, <4>2, <4>3
    <3> QED BY <2>1, <3>2, <3>3 DEF ReplyInv
  <2> QED BY <1>5, <2>2, <2>3 DEF ParserNext
<1> QED BY <1>3, <1>4, <1>5 DEF Next

LEMMA StepKeepsText ==
  ASSUME TextInv, [Next]_vars
  PROVE  TextInv'
<1>1. LinkInv'
  BY StepKeepsOrder DEF TextInv
<1>0. ReplyInv'
  BY StepKeepsReplies DEF TextInv, LinkInv, TypeInv
<1>2. CASE UNCHANGED vars
  <2>1. UNCHANGED <<Serials, Link, Place>>
    BY <1>2 DEF vars, histories, Serials, Link, Place
  <2> QED BY <1>0, <1>1, <1>2, <2>1 DEF vars, histories, TextInv, PortInv, ConnInv, ChunkInv, WorkerInv,
          Current, Heard
<1>3. CASE Next
  BY <1>0, <1>1, <1>3, SerialKeepsText, BleKeepsText, ManagerKeepsText, ParseKeepsText, TakeKeepsText,
     FeedKeepsText DEF Next, ParserNext, TextInv
<1> QED BY <1>2, <1>3

\* Wherever the queue was full, a link was lost or a session given up: two chunks that
\* the parser joins to one text follow each other on one link.
THEOREM TextContiguous == Spec => SerialTextContiguous
<1>1. ASSUME TextInv, [Next]_vars
      PROVE  [(Feeds /\ parser.item.state = "serial" /\ parser.text # EmptyText
               /\ <<parser.item.session, parser.item.conn>> \notin silent
               /\ (parser.text.session = parser.item.session
                   => <<parser.text.session, parser.text.conn>> \notin silent))
              => parser.text = [session |-> parser.item.session, conn |-> parser.item.conn,
                                n |-> parser.item.n - 1]]_vars
  <2> SUFFICES ASSUME Feeds, parser.item.state = "serial", parser.text # EmptyText,
                      Named(parser.item) \notin silent,
                      parser.text.session = parser.item.session => Named(parser.text) \notin silent
               PROVE  parser.text = [session |-> parser.item.session, conn |-> parser.item.conn,
                                     n |-> parser.item.n - 1]
    BY DEF Named
  <2>1. Chunk(parser.item)
    <3>1. parser.item \in Items /\ Bytes(parser.item) /\ Replies(parser.item)
      BY <1>1 DEF Feeds, TextInv, LinkInv, TypeInv, TypeOK, PortInv, ReplyInv
    <3>2. parser.item.type \in {"data", "ctrl"}
      BY <3>1 DEF Items, Bytes
    <3> QED BY <3>1, <3>2 DEF Chunk, Replies
  <2>2. Joins(parser.text, silent, Named(parser.item), parser.item.n)
    BY <1>1, <2>1 DEF TextInv, ChunkInv, Feeds, Heard
  <2> QED BY <2>2 DEF Joins, Named
<1> QED BY <1>1, InitText, StepKeepsText, PTL DEF Spec, SerialTextContiguous

=============================================================================
