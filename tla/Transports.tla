------------------------------ MODULE Transports ------------------------------
(***************************************************************************)
(* The links to the device: src/sensorarray_app/transport/manager.py       *)
(* (TransportManager and SessionManager), the worker threads of            *)
(* serial_transport.py and ble_transport.py, the bounded input queue that  *)
(* they share, and the part of _run_parser() in app/runtime.py that turns  *)
(* its items into sessions and connection epochs.                          *)
(*                                                                         *)
(* Three threads run: the API (connect and disconnect, one request at a    *)
(* time), the worker of the current transport, and the parser.  The link   *)
(* fails when it likes.  A put that finds the queue full for its time-out  *)
(* is a drop; a queue that drains in time is the same step taken later.    *)
(* Choice of the port, UUIDs, fragments and the states that only inform    *)
(* (SCANNING, SUBSCRIBING, RECONNECTING, RECONNECT_WAIT, ...) are left out.*)
(***************************************************************************)
EXTENDS Integers, Sequences, FiniteSets

CONSTANTS
  Kinds,        \* transports in use, of {"serial", "ble"}
  AutoReconnect,\* the worker connects again after a failure
  QueueSize,    \* RAW_INPUT_QUEUE_SIZE
  BacklogSize,  \* maxlen of _priority_backlog
  MaxSessions,  \* bound: requests of the API that change the session
  MaxConns,     \* bound: connections of one session
  MaxInputs,    \* bound: chunks read and notifications received
  MaxFaults,    \* bound: failures of the link and requested reconnects
  None          \* Python's None

ASSUME KindsAssumption == Kinds \subseteq {"serial", "ble"}
ASSUME AutoReconnectAssumption == AutoReconnect \in BOOLEAN
ASSUME BoundsAssumption ==
  /\ QueueSize \in Nat \ {0}
  /\ {BacklogSize, MaxSessions, MaxConns, MaxInputs, MaxFaults} \subseteq Nat
ASSUME NoneAssumption == None \notin {"serial", "ble"} \cup Int

\* What goes through the input queue: state events, raw data, and replies on
\* the control characteristic.  Bytes name their source where an event has its
\* state; n numbers the chunks of a serial port and the attempts of BLE.
Item(type, session, conn, state, n) ==
  [type |-> type, session |-> session, conn |-> conn, state |-> state, n |-> n]
NoItem == Item("none", 0, 0, "", 0)

VARIABLES
  \* TransportManager, as the API thread runs it
  api,       \* "idle", "joining" in disconnect(), or "starting" behind start()
  status,    \* status: session, connection and state on display
  worker,    \* current: the transport, its thread and its attributes
  reconnect, \* _reconnect_requested
  backlog,   \* _priority_backlog
  queue,     \* outputQueue / inputQueue
  parser,    \* item in hand, commands.sessionGeneration, _lastConnectionGeneration,
             \* and the last input in the text buffers
  inputs,    \* inputs so far: they are numbered as they come
  faults,    \* budget used
  epoch,     \* history: link and attempt of the last begin_connection_epoch()
  silent,    \* history: links none of whose announcements found room
  replies    \* history: control replies of the session, accepted and not yet with the parser

histories == <<epoch, silent, replies>>
vars == <<api, status, worker, reconnect, backlog, queue, parser, inputs, faults,
          epoch, silent, replies>>

NoWorker == [kind |-> None, session |-> 0, pc |-> "dead", stop |-> FALSE, conn |-> 0,
             attempt |-> 0, linked |-> {}, overflow |-> FALSE, announced |-> FALSE]
Started(kind, session) == [NoWorker EXCEPT !.kind = kind, !.session = session, !.pc = "begin"]

\* Inputs in the text buffers of the registry: the newest one, 0 after a reset.
EmptyText == [session |-> 0, conn |-> 0, n |-> 0]

Init ==
  /\ api = "idle"
  /\ status = [session |-> 0, conn |-> 0, state |-> "DISCONNECTED"]
  /\ worker = NoWorker /\ reconnect = FALSE /\ backlog = <<>> /\ queue = <<>>
  /\ parser = [item |-> NoItem, session |-> 0, conn |-> 0, text |-> EmptyText]
  /\ inputs = 0 /\ faults = 0
  /\ epoch = [session |-> 0, conn |-> 0, attempt |-> 0] /\ silent = {} /\ replies = {}

Room == Len(queue) < QueueSize
Link == <<worker.session, worker.conn>>
Event(state) == Item("state", worker.session, worker.conn, state, 0)
Fails == faults < MaxFaults /\ faults' = faults + 1

-----------------------------------------------------------------------------
(* TransportManager *)

\* connect_*() and disconnect(): the old transport is told to stop and joined,
Disconnect ==
  /\ api = "idle" /\ status.session < MaxSessions
  /\ api' = "joining"
  /\ worker' = [worker EXCEPT !.stop = TRUE]
  /\ UNCHANGED <<status, reconnect, backlog, queue, parser, inputs, faults, histories>>

\* a worker that does not end in time is an error, and nothing replaces it;
JoinTimeout ==
  /\ api = "joining" /\ worker.pc # "dead"
  /\ api' = "idle"
  /\ UNCHANGED <<status, worker, reconnect, backlog, queue, parser, inputs, faults, histories>>

\* Seeded fault for the checks: the backlog of the previous session stays.
NextSessionKeepingBacklog ==
  /\ api = "joining" /\ worker.pc = "dead"
  /\ status' = [session |-> status.session + 1, conn |-> 0, state |-> "DISCONNECTED"]
  /\ \/ worker' = NoWorker /\ api' = "idle"
     \/ \E kind \in Kinds : worker' = Started(kind, status.session + 1) /\ api' = "starting"
  /\ reconnect' = FALSE /\ replies' = {}
  /\ UNCHANGED <<backlog, queue, parser, inputs, faults, epoch, silent>>

\* then the next session begins, with the transport that connect_*() starts.
NextSession ==
  /\ api = "joining" /\ worker.pc = "dead"
  /\ status' = [session |-> status.session + 1, conn |-> 0, state |-> "DISCONNECTED"]
  /\ \/ worker' = NoWorker /\ api' = "idle"
     \/ \E kind \in Kinds : worker' = Started(kind, status.session + 1) /\ api' = "starting"
  /\ reconnect' = FALSE /\ backlog' = <<>> /\ replies' = {}
  /\ UNCHANGED <<queue, parser, inputs, faults, epoch, silent>>

\* The end of connect_*() describes the session that already runs.
DescribeSession ==
  /\ api = "starting"
  /\ api' = "idle"
  /\ status' = [status EXCEPT !.conn = 0, !.state = "CONNECTING"]
  /\ UNCHANGED <<worker, reconnect, backlog, queue, parser, inputs, faults, histories>>

\* request_expected_restart_reconnect(), of the serial transport alone.
RequestReconnect ==
  /\ worker.kind = "serial" /\ worker.pc # "dead" /\ ~reconnect
  /\ Fails
  /\ reconnect' = TRUE
  /\ UNCHANGED <<api, status, worker, backlog, queue, parser, inputs, histories>>

-----------------------------------------------------------------------------
(* SerialTransport: _run().  Every put waits for room, and may not get it. *)

Serial(pc) == worker.kind = "serial" /\ worker.pc = pc
Go(pc) == worker' = [worker EXCEPT !.pc = pc]

\* _put_state
PutState(state) == queue' = IF Room THEN Append(queue, Event(state)) ELSE queue

SerialBegin ==
  /\ Serial("begin") /\ PutState("CONNECTING") /\ Go("open")
  /\ UNCHANGED <<api, status, reconnect, backlog, parser, inputs, faults, histories>>

SerialOpen ==
  /\ Serial("open")
  /\ \/ worker.stop /\ Go("end") /\ UNCHANGED faults
     \/ /\ ~worker.stop /\ worker.conn < MaxConns
        /\ worker' = [worker EXCEPT !.pc = "opened", !.conn = @ + 1, !.announced = FALSE]
        /\ UNCHANGED faults
     \/ ~worker.stop /\ Fails /\ Go("error")
  /\ UNCHANGED <<api, status, reconnect, backlog, queue, parser, inputs, histories>>

SerialAnnounce ==
  /\ \/ /\ Serial("opened") /\ PutState("CONNECTED")
        /\ worker' = [worker EXCEPT !.pc = "ready", !.announced = Room]
        /\ UNCHANGED silent
     \/ /\ Serial("ready") /\ PutState("STREAMING") /\ Go("read")
        /\ silent' = IF Room \/ worker.announced THEN silent ELSE silent \cup {Link}
  /\ UNCHANGED <<api, status, reconnect, backlog, parser, inputs, faults, epoch, replies>>

\* Seeded fault for the checks: the read loop does not look at the stop flag.
SerialReadWithoutStop ==
  /\ Serial("read") /\ inputs < MaxInputs
  /\ inputs' = inputs + 1
  /\ Go(IF worker.overflow THEN "notice" ELSE "chunk")
  /\ UNCHANGED <<api, status, reconnect, backlog, queue, parser, faults, histories>>

\* A chunk that meets a requested reconnect is discarded with the handle.
SerialRead ==
  /\ Serial("read")
  /\ \/ worker.stop /\ Go("end") /\ UNCHANGED <<reconnect, inputs, faults>>
     \/ /\ ~worker.stop /\ reconnect /\ reconnect' = FALSE /\ Go("again")
        /\ inputs' \in {inputs, inputs + 1} /\ inputs' <= MaxInputs
        /\ UNCHANGED faults
     \/ /\ ~worker.stop /\ ~reconnect /\ inputs < MaxInputs
        /\ inputs' = inputs + 1
        /\ Go(IF worker.overflow THEN "notice" ELSE "chunk")
        /\ UNCHANGED <<reconnect, faults>>
     \/ ~worker.stop /\ ~reconnect /\ Fails /\ Go("error") /\ UNCHANGED <<reconnect, inputs>>
  /\ UNCHANGED <<api, status, backlog, queue, parser, histories>>

\* _put_envelope: after a drop the notice goes first, or this chunk is dropped too.
SerialNotice ==
  /\ Serial("notice") /\ PutState("SERIAL_RX_OVERFLOW")
  /\ worker' = [worker EXCEPT !.pc = IF Room THEN "chunk" ELSE "read", !.overflow = ~Room]
  /\ UNCHANGED <<api, status, reconnect, backlog, parser, inputs, faults, histories>>

\* Seeded fault for the checks: a lost chunk is not announced in the text.
SerialChunkUnmarked ==
  /\ Serial("chunk")
  /\ queue' = IF Room THEN Append(queue, Item("data", worker.session, worker.conn, "serial", inputs))
              ELSE queue
  /\ worker' = [worker EXCEPT !.pc = "read"]
  /\ UNCHANGED <<api, status, reconnect, backlog, parser, inputs, faults, histories>>

SerialChunk ==
  /\ Serial("chunk")
  /\ queue' = IF Room THEN Append(queue, Item("data", worker.session, worker.conn, "serial", inputs))
              ELSE queue
  /\ worker' = [worker EXCEPT !.pc = "read", !.overflow = ~Room]
  /\ UNCHANGED <<api, status, reconnect, backlog, parser, inputs, faults, histories>>

\* A failure, and the common way back to open().
SerialError ==
  /\ Serial("error")
  /\ IF worker.stop THEN Go("end") /\ UNCHANGED queue
     ELSE PutState("ERROR") /\ Go(IF AutoReconnect THEN "again" ELSE "end")
  /\ UNCHANGED <<api, status, reconnect, backlog, parser, inputs, faults, histories>>

SerialAgain ==
  /\ Serial("again") /\ PutState("CONNECTION_RESET") /\ Go("open")
  /\ UNCHANGED <<api, status, reconnect, backlog, parser, inputs, faults, histories>>

SerialEnd ==
  /\ Serial("end") /\ PutState("DISCONNECTED") /\ Go("dead")
  /\ UNCHANGED <<api, status, reconnect, backlog, parser, inputs, faults, histories>>

SerialNext ==
  \/ SerialBegin \/ SerialOpen \/ SerialAnnounce \/ SerialRead \/ SerialNotice \/ SerialChunk
  \/ SerialError \/ SerialAgain \/ SerialEnd

-----------------------------------------------------------------------------
(* BleTransport: one event loop, so the callbacks of bleak are its steps.  *)

Ble(pc) == worker.kind = "ble" /\ worker.pc = pc

\* Seeded fault for the checks: the backlog has no limit.
EnqueueUnbounded(item) ==
  IF Room THEN queue' = Append(queue, item) /\ UNCHANGED backlog
  ELSE backlog' = Append(backlog, item) /\ UNCHANGED queue

\* _enqueue: without room, what may not be lost goes to the priority backlog;
\* measurements, and whatever meets a full backlog, are dropped.
Enqueue(item) ==
  CASE Room -> queue' = Append(queue, item) /\ UNCHANGED backlog
    [] ~Room /\ item.type # "data" /\ Len(backlog) < BacklogSize ->
         backlog' = Append(backlog, item) /\ UNCHANGED queue
    [] OTHER -> UNCHANGED <<queue, backlog>>
Kept(item) == Room \/ (item.type # "data" /\ Len(backlog) < BacklogSize)

\* State events of this transport name the attempt too.
BleEvent(state) == [Event(state) EXCEPT !.n = worker.attempt]

BleBegin ==
  /\ Ble("begin")
  /\ IF worker.stop
     THEN Go("dead") /\ UNCHANGED <<queue, backlog>>
     ELSE /\ worker' = [worker EXCEPT !.pc = "link", !.attempt = @ + 1]
          /\ Enqueue([BleEvent("CONNECTING") EXCEPT !.n = worker.attempt + 1])
  /\ UNCHANGED <<api, status, reconnect, parser, inputs, faults, histories>>

\* connect(): a stop that came meanwhile wins.
BleLink ==
  /\ Ble("link")
  /\ \/ worker.stop /\ Go("down") /\ UNCHANGED <<queue, backlog, faults>>
     \/ /\ ~worker.stop /\ worker.conn < MaxConns
        /\ worker' = [worker EXCEPT !.pc = "subscribe", !.conn = @ + 1,
                                      !.linked = @ \cup {worker.attempt}]
        /\ Enqueue([BleEvent("CONNECTED") EXCEPT !.conn = worker.conn + 1])
        /\ UNCHANGED faults
     \/ Fails /\ Go("down") /\ Enqueue(BleEvent("ERROR"))
  /\ UNCHANGED <<api, status, reconnect, parser, inputs, histories>>

BleSubscribe ==
  /\ Ble("subscribe")
  /\ \/ Go("stream") /\ Enqueue(BleEvent("STREAMING")) /\ UNCHANGED faults
     \/ Fails /\ Go("down") /\ Enqueue(BleEvent("ERROR"))
  /\ UNCHANGED <<api, status, reconnect, parser, inputs, histories>>

\* Seeded fault for the checks: a late callback is judged by the stop flag alone.
AcceptedWhileRunning(attempt) == ~worker.stop

\* _notify_for_attempt: bleak may call back for an attempt that is over.
Accepted(attempt) == attempt = worker.attempt /\ ~worker.stop

BleNotify ==
  /\ worker.kind = "ble" /\ worker.pc # "dead"
  /\ inputs < MaxInputs
  /\ \E attempt \in worker.linked, type \in {"data", "ctrl"} :
       LET item == Item(type, worker.session, worker.conn, "ble", attempt) IN
       /\ Accepted(attempt)
       /\ Enqueue(item)
       /\ replies' = IF type = "ctrl" /\ Kept(item) THEN replies \cup {item} ELSE replies
  /\ inputs' = inputs + 1
  /\ UNCHANGED <<api, status, worker, reconnect, parser, faults, epoch, silent>>

\* Seeded fault for the checks: the backlog is drained only while the queue has room.
BleDrainWhileWaiting ==
  /\ Ble("wait")
  /\ ~worker.stop /\ backlog # <<>> /\ Room
  /\ queue' = Append(queue, Head(backlog))
  /\ backlog' = Tail(backlog)
  /\ UNCHANGED <<api, status, worker, reconnect, parser, inputs, faults, histories>>

\* _drain_priority_backlog, in the streaming loop and while waiting to retry.
BleDrain ==
  /\ Ble("stream") \/ Ble("wait")
  /\ ~worker.stop /\ backlog # <<>> /\ Room
  /\ queue' = Append(queue, Head(backlog))
  /\ backlog' = Tail(backlog)
  /\ UNCHANGED <<api, status, worker, reconnect, parser, inputs, faults, histories>>

\* The end of the streaming loop and the finally clause of _connect_once().
BleDown ==
  /\ \/ /\ Ble("stream") /\ Go("down")
        /\ IF worker.stop THEN UNCHANGED faults ELSE Fails
        /\ UNCHANGED <<queue, backlog>>
     \/ /\ Ble("down") /\ Enqueue(BleEvent("DISCONNECTED"))
        /\ Go(IF worker.stop \/ ~AutoReconnect THEN "dead" ELSE "wait")
        /\ UNCHANGED faults
  /\ UNCHANGED <<api, status, reconnect, parser, inputs, histories>>

\* _connection_loop: back-off, then the next attempt.
BleRetry ==
  /\ Ble("wait")
  /\ \/ worker.stop /\ Go("dead")
     \/ ~worker.stop /\ worker.conn < MaxConns /\ Go("begin")
  /\ UNCHANGED <<api, status, reconnect, backlog, queue, parser, inputs, faults, histories>>

BleNext ==
  \/ BleBegin \/ BleLink \/ BleSubscribe \/ BleNotify \/ BleDrain \/ BleDown \/ BleRetry

-----------------------------------------------------------------------------
(* _run_parser *)

Announces == {"CONNECTED", "CONNECTION_RESET", "STREAMING"}

\* A state event: the session, the connection epoch, the text buffers and the
\* display, in that order.
ParseState ==
  /\ parser.item = NoItem /\ queue # <<>> /\ Head(queue).type = "state"
  /\ LET item == Head(queue)
         opens == item.state \in Announces /\ item.conn # parser.conn
         clears == \/ item.session # parser.session \/ opens
                   \/ item.state = "SERIAL_RX_OVERFLOW"
     IN /\ parser' = [parser EXCEPT
             !.session = item.session,
             !.conn = IF opens THEN item.conn ELSE @,
             !.text = IF clears THEN EmptyText ELSE @]
        /\ epoch' = IF opens THEN [session |-> item.session, conn |-> item.conn, attempt |-> item.n]
                     ELSE epoch
        /\ status' = IF item.session = status.session
                     THEN [status EXCEPT !.conn = item.conn, !.state = item.state] ELSE status
  /\ queue' = Tail(queue)
  /\ UNCHANGED <<api, worker, reconnect, backlog, inputs, faults, silent, replies>>

\* Bytes of another session than the one on display are rejected;
Take ==
  /\ parser.item = NoItem /\ queue # <<>> /\ Head(queue).type # "state"
  /\ LET item == Head(queue) IN
       /\ parser' = IF item.session = status.session THEN [parser EXCEPT !.item = item] ELSE parser
       /\ replies' = IF item.session = status.session THEN replies ELSE replies \ {item}
  /\ queue' = Tail(queue)
  /\ UNCHANGED <<api, status, worker, reconnect, backlog, inputs, faults, epoch, silent>>

\* the others are fed to the registry, once the lock is held.
Feed ==
  /\ parser.item # NoItem
  /\ LET item == parser.item IN
       /\ parser' = [parser EXCEPT
            !.item = NoItem,
            !.text = [session |-> item.session, conn |-> item.conn, n |-> item.n]]
       /\ replies' = replies \ {item}
  /\ UNCHANGED <<api, status, worker, reconnect, backlog, queue, inputs, faults, epoch, silent>>

ParserNext == ParseState \/ Take \/ Feed
ManagerNext == Disconnect \/ JoinTimeout \/ NextSession \/ DescribeSession \/ RequestReconnect

Next == ManagerNext \/ SerialNext \/ BleNext \/ ParserNext

\* The parser and the workers are threads that run on; the API's requests, a
\* failing link and arriving data are not promised.
Fairness ==
  /\ WF_vars(ParserNext)
  /\ WF_vars(SerialBegin \/ SerialAnnounce \/ SerialNotice \/ SerialChunk \/ SerialError
             \/ SerialAgain \/ SerialEnd)
  /\ WF_vars(worker.stop /\ (SerialOpen \/ SerialRead))
  /\ WF_vars(BleBegin \/ BleLink \/ BleSubscribe \/ BleRetry)
  /\ WF_vars((worker.stop \/ worker.pc = "down") /\ BleDown)
  /\ WF_vars(BleDrain)

Spec == Init /\ [][Next]_vars /\ Fairness

-----------------------------------------------------------------------------
(* Properties *)

Sessions == 0..MaxSessions
Conns == 0..MaxConns
States == Announces \cup {"CONNECTING", "DISCONNECTED", "ERROR", "SERIAL_RX_OVERFLOW"}
          \cup {"serial", "ble"}
Items == [type : {"state", "data", "ctrl"}, session : Sessions, conn : Conns, state : States,
          n : Nat]
Pcs == {"begin", "open", "opened", "ready", "read", "notice", "chunk", "error", "again", "wait",
        "end", "link", "subscribe", "stream", "down", "dead"}

\* Type correctness: in particular neither queue outgrows its size.
TypeOK ==
  /\ api \in {"idle", "joining", "starting"}
  /\ status \in [session : Sessions, conn : Conns, state : States]
  /\ worker \in [kind : Kinds \cup {None}, session : Sessions, pc : Pcs, stop : BOOLEAN,
                 conn : Conns, attempt : Nat, linked : SUBSET Nat, overflow : BOOLEAN,
                 announced : BOOLEAN]
  /\ reconnect \in BOOLEAN
  /\ queue \in Seq(Items) /\ Len(queue) <= QueueSize
  /\ backlog \in Seq(Items) /\ Len(backlog) <= BacklogSize
  /\ parser.item \in Items \cup {NoItem} /\ parser.session \in Sessions
  /\ parser.conn \in Conns
  /\ parser.text \in [session : Sessions, conn : Conns, n : Nat]
  /\ inputs \in 0..MaxInputs /\ faults \in 0..MaxFaults
  /\ epoch \in [session : Sessions, conn : Conns, attempt : Nat]
  /\ silent \subseteq Sessions \X Conns /\ replies \subseteq Items

\* The parser feeds the item in its hand.
Feeds == parser.item # NoItem /\ parser' # parser

\* The text buffers never join two chunks of a serial port between which one was
\* lost, or a link or a session ended: serial_transport.py:242-244 ("make the
\* parser reset before accepting the next bytes") and registry.py:65 ("can never
\* cross a physical link epoch").  A link whose two announcements both found the
\* queue full is the exception: its own text, and the text that it leaves to the
\* next link of its session.
SerialTextContiguous ==
  [][(Feeds /\ parser.item.state = "serial" /\ parser.text # EmptyText
      /\ <<parser.item.session, parser.item.conn>> \notin silent
      /\ (parser.text.session = parser.item.session
          => <<parser.text.session, parser.text.conn>> \notin silent))
     => parser.text = [session |-> parser.item.session, conn |-> parser.item.conn,
                       n |-> parser.item.n - 1]]_vars

\* The parser never goes back: once it has adopted a session, neither an event nor
\* the bytes of an older one reach its state, whatever the old transport left in
\* the queue (runtime.py:398-400).
SessionOrder ==
  [][/\ parser'.session >= parser.session
     /\ Feeds => parser.item.session >= parser.session]_vars

\* A measurement that bleak delivers for an attempt that is over never reaches the
\* parser behind the announcement of a later one (_notify_for_attempt).
MeasurementsInOrder ==
  [][(Feeds /\ parser.item.type = "data" /\ parser.item.state = "ble"
      /\ parser.item.session = epoch.session)
     => parser.item.n >= epoch.attempt]_vars

\* A control reply that was not counted as dropped reaches the parser, through the
\* priority backlog if need be, unless its session is given up first.
ControlArrives == replies # {} ~> (replies = {} \/ worker.stop)

\* A transport that is told to stop ends: disconnect() need not time out for ever.
WorkerStops == worker.stop ~> worker.pc = "dead"

\* Every chunk that is fed belongs to the link for which begin_connection_epoch()
\* ran last, as its documentation says (statistics_store.py:329-334: "The first
\* frame after reconnect therefore starts a new receive baseline").  Known not to
\* hold (Transports_epoch.cfg).
EpochBegun ==
  [][(Feeds /\ parser.item.state = "serial"
      /\ <<parser.item.session, parser.item.conn>> \notin silent)
     => epoch.session = parser.item.session /\ epoch.conn = parser.item.conn]_vars

\* A link that is announced begins its own text, whatever the one before it left
\* behind: what registry.py:65 says of every link.  Known not to hold
\* (Transports_stale.cfg), for a link with the number of the last link of the
\* session before, behind one that was not announced.
AnnouncedBeginsText ==
  [][(Feeds /\ parser.item.state = "serial" /\ parser.text # EmptyText
      /\ <<parser.item.session, parser.item.conn>> \notin silent)
     => <<parser.text.session, parser.text.conn>>
          = <<parser.item.session, parser.item.conn>>]_vars

=============================================================================
