------------------------------ MODULE LiveValues ------------------------------
(***************************************************************************)
(* What is shown besides the matrix: the battery and rail telemetry of     *)
(* src/sensorarray_app/store/telemetry_store.py and the capacitance        *)
(* baseline of domain/baseline.py, as the two threads of                   *)
(* src/sensorarray_app/app/runtime.py share them.                          *)
(*                                                                         *)
(* The parser thread handles lines under the lock of the runtime, looks    *)
(* for a finished capture behind them, and does so without the lock when   *)
(* no input comes.  The API thread connects, captures and cancels: only    *)
(* invalidate_baseline() and reset_baseline() take the lock.               *)
(*                                                                         *)
(* The devices and the link (external): lines arrive in order, each link   *)
(* announces itself and its end (Transports drops and reorders them).      *)
(* A configuration is whether rows measure CAP and the identity that CAP   *)
(* frames carry; a measured value is where and when it was measured.       *)
(***************************************************************************)
EXTENDS Integers, Sequences, FiniteSets

CONSTANTS
  Devices,     \* boards, each behind a port or an address of its own
  Mixes,       \* bound: sets of the boards and activities that one behaviour combines
  MaxSessions, \* bound: requests to connect and disconnect
  MaxConns,    \* bound: connections of one session
  MaxRequests, \* bound: requests about the baseline
  MaxLines,    \* bound: telemetry lines and frames
  MaxEvents,   \* bound: ends of a link and reboots
  MaxChanges,  \* bound: changes of a configuration
  MaxQueue,    \* bound: lines in the input queue
  None         \* Python's None

ASSUME DevicesAssumption == IsFiniteSet(Devices) /\ None \notin Devices \cup Int
ASSUME MixesAssumption ==
  Mixes \subseteq SUBSET (Devices \cup {"battery", "rail", "frame", "change", "request"})
ASSUME BoundsAssumption ==
  {MaxSessions, MaxConns, MaxRequests, MaxLines, MaxEvents, MaxChanges, MaxQueue} \subseteq Nat

VARIABLES
  \* the devices and the transport
  dev,      \* per device: its boot and its configuration
  link,     \* current transport: session, device, connection, and whether it is up
  queue,    \* inputQueue
  mix,      \* of Mixes
  used,     \* budgets used: requests, lines, events, changes
  \* SensorArrayRuntime
  api,      \* the request under way, its step, and what it has read
  parser,   \* where _run_parser() is, the line and the capture in its hands, its lock
  commands, \* CommandService: session, connection and boot
  store,    \* MatrixStore: resync required, configuration applied, frame on display
  tele,     \* TelemetryStore
  capture,  \* _baseline_session
  baseline  \* ui.baseline

device == <<dev, link, queue, mix, used>>
vars == <<dev, link, queue, mix, used, api, parser, commands, store, tele, capture, baseline>>

FirstConfig == [cap |-> TRUE, id |-> 0]
NoLine == [kind |-> "none"]
NoStatus == [session |-> 0, dev |-> None, conn |-> 0, up |-> FALSE]
Idle == [op |-> "idle", step |-> "", dev |-> None, snap |-> None]
AtLoop == [at |-> "loop", line |-> NoLine, done |-> None, locked |-> FALSE]
NoTelemetry ==
  [identity |-> None, boot |-> None, latest |-> None, good |-> None, previous |-> None,
   stale |-> FALSE, rail |-> None, railStale |-> FALSE]

Init ==
  /\ dev = [d \in Devices |-> [boot |-> 1, config |-> FirstConfig]]
  /\ link = NoStatus /\ queue = <<>> /\ mix \in Mixes
  /\ used = [requests |-> 0, lines |-> 0, events |-> 0, changes |-> 0]
  /\ api = Idle /\ parser = AtLoop
  /\ commands = [session |-> 0, conn |-> 0, boot |-> None]
  /\ store = [resync |-> FALSE, applied |-> FirstConfig, latest |-> None]
  /\ tele = NoTelemetry /\ capture = None /\ baseline = None

-----------------------------------------------------------------------------
(* The devices and the link (external) *)

\* A line with its origin, which only the properties read.
Origin == [dev |-> link.dev, boot |-> dev[link.dev].boot, session |-> link.session, conn |-> link.conn]
LineOf(kind, what) ==
  [kind |-> kind, what |-> what, from |-> Origin, config |-> dev[link.dev].config]
StateOf(kind, l) == [kind |-> kind, session |-> l.session, conn |-> l.conn]
IsState(line) == line.kind \in {"up", "down"}
Put(line) == Len(queue) < MaxQueue /\ queue' = Append(queue, line)
Happens == used.events < MaxEvents /\ used' = [used EXCEPT !.events = @ + 1]

LinkUp ==
  /\ link.dev # None /\ ~link.up /\ link.conn < MaxConns
  /\ link' = [link EXCEPT !.up = TRUE, !.conn = @ + 1]
  /\ Put(StateOf("up", link'))
  /\ UNCHANGED <<dev, mix, used, api, parser, commands, store, tele, capture, baseline>>

LinkDown ==
  /\ link.up /\ Happens
  /\ link' = [link EXCEPT !.up = FALSE]
  /\ Put(StateOf("down", link))
  /\ UNCHANGED <<dev, mix, api, parser, commands, store, tele, capture, baseline>>

\* A battery line is a fresh measurement ("good"), a cached one ("aged"), or a
\* failed one without last-good fields, with a valid and with an invalid last good.
BatteryLines == {"good", "aged", "failed", "known", "unknown"}
RailLines == {"fresh", "old"}

Send ==
  /\ link.up /\ used.lines < MaxLines
  /\ \/ "battery" \in mix /\ \E what \in BatteryLines : Put(LineOf("battery", what))
     \/ "rail" \in mix /\ \E what \in RailLines : Put(LineOf("rail", what))
     \/ "frame" \in mix /\ dev[link.dev].config.cap /\ Put(LineOf("frame", ""))
  /\ used' = [used EXCEPT !.lines = @ + 1]
  /\ UNCHANGED <<dev, link, mix, api, parser, commands, store, tele, capture, baseline>>

\* The answers of the bootstrap: BOOT, and the read-back of the configuration.
Answer ==
  /\ link.up
  /\ \/ commands.boot # dev[link.dev].boot /\ Put(LineOf("boot", ""))
     \/ store.resync /\ Put(LineOf("state", ""))
  /\ UNCHANGED <<dev, link, mix, used, api, parser, commands, store, tele, capture, baseline>>

\* ROWS (or ROWMODES) renews the identity, MODE keeps it; the report may be lost.
Changed(config, what) ==
  IF what = "rows" THEN [config EXCEPT !.id = @ + 1] ELSE [config EXCEPT !.cap = ~@]
Change ==
  /\ "change" \in mix /\ link.up
  /\ used.changes < MaxChanges /\ used' = [used EXCEPT !.changes = @ + 1]
  /\ \E what \in {"rows", "mode"}, reported \in BOOLEAN :
       /\ dev' = [dev EXCEPT ![link.dev].config = Changed(@, what)]
       /\ IF reported THEN Put([LineOf(what, "") EXCEPT !.config = dev'[link.dev].config])
                      ELSE UNCHANGED queue
  /\ UNCHANGED <<link, mix, api, parser, commands, store, tele, capture, baseline>>

Reboot ==
  /\ link.dev # None /\ Happens
  /\ dev' = [dev EXCEPT ![link.dev] = [boot |-> @.boot + 1, config |-> FirstConfig]]
  /\ UNCHANGED <<link, queue, mix, api, parser, commands, store, tele, capture, baseline>>

DeviceNext == LinkUp \/ LinkDown \/ Send \/ Answer \/ Change \/ Reboot

-----------------------------------------------------------------------------
(* TelemetryStore *)

MarkStale(t) == [t EXCEPT !.stale = TRUE, !.railStale = TRUE]

BeginDevice(t, identity) ==
  MarkStale(IF t.identity \in {None, identity}
            THEN [t EXCEPT !.identity = identity]
            ELSE [NoTelemetry EXCEPT !.identity = identity])

\* observe_boot(): what another boot measured is history.
ObserveBoot(t, boot) ==
  IF t.boot \in {None, boot} THEN [t EXCEPT !.boot = boot]
  ELSE MarkStale([t EXCEPT
         !.boot = boot, !.latest = None, !.good = None, !.rail = None,
         !.previous = IF t.good = None THEN @ ELSE [value |-> t.good, boot |-> t.boot]])

\* Lines are stamped with the boot that CommandService knows.
OtherBoot(t) == t.boot # None /\ commands.boot \notin {None, t.boot}

Reading(line) == [what |-> line.what, from |-> line.from]

\* The last good value follows the firmware, where it names one, or the attempt.
LastGood(t, line) ==
  CASE line.what \in {"good", "aged", "known"} -> Reading(line)
    [] line.what = "unknown" -> None
    [] OTHER -> t.good

UpdateBattery(t, line) ==
  IF OtherBoot(t) THEN t
  ELSE [t EXCEPT !.latest = Reading(line), !.good = LastGood(t, line),
                 !.stale = @ /\ line.what # "good"]

UpdateRail(t, line) ==
  IF OtherBoot(t) THEN t
  ELSE [t EXCEPT !.rail = Reading(line), !.railStale = @ /\ line.what # "fresh"]

\* battery_snapshot() and rail_snapshot()
BatteryFresh(t) == t.good # None /\ t.latest # None /\ t.latest.what = "good" /\ ~t.stale
RailFresh(t) == t.rail # None /\ t.rail.what = "fresh" /\ ~t.railStale

-----------------------------------------------------------------------------
(* The API thread.  Its requests run one at a time, in these steps.         *)

At(op, step) == api.op = op /\ api.step = step
Step(step) == api' = [api EXCEPT !.step = step]
Unlocked == ~parser.locked
Requests == "request" \in mix /\ used.requests < MaxRequests /\ used' = [used EXCEPT !.requests = @ + 1]

\* connect_*() of a device and disconnect() (None).
RequestLink ==
  /\ api = Idle /\ link.session < MaxSessions
  /\ \E d \in (Devices \cap mix) \cup {None} :
       api' = [Idle EXCEPT !.op = "link", !.step = "invalidate", !.dev = d]
  /\ UNCHANGED <<device, parser, commands, store, tele, capture, baseline>>

Invalidate ==
  /\ api.step = "invalidate" /\ Unlocked
  /\ capture' = None /\ baseline' = None
  /\ IF api.op = "link" THEN Step("begin") ELSE api' = Idle
  /\ UNCHANGED <<device, parser, commands, store, tele>>

Begin ==
  /\ At("link", "begin")
  /\ tele' = IF api.dev = None THEN MarkStale(tele) ELSE BeginDevice(tele, api.dev)
  /\ Step("switch")
  /\ UNCHANGED <<device, parser, commands, store, capture, baseline>>

\* TransportManager: the old worker has ended, and the next session begins.
Switch ==
  /\ At("link", "switch")
  /\ link' = [NoStatus EXCEPT !.session = link.session + 1, !.dev = api.dev]
  /\ api' = Idle
  /\ UNCHANGED <<dev, queue, mix, used, parser, commands, store, tele, capture, baseline>>

\* capture_baseline(): the snapshot first, and the session made from it later.
RequestCapture ==
  /\ api = Idle /\ Requests
  /\ api' = [Idle EXCEPT !.op = "capture", !.step = "make",
       !.snap = IF store.applied.cap THEN store.latest ELSE None]
  /\ UNCHANGED <<dev, link, queue, mix, parser, commands, store, tele, capture, baseline>>

MakeCapture ==
  /\ At("capture", "make")
  /\ capture' = IF api.snap = None THEN None
                ELSE [session |-> api.snap.session, dev |-> link.dev, id |-> api.snap.id,
                      cancelled |-> FALSE, due |-> FALSE, samples |-> {}]
  /\ baseline' = None
  /\ api' = Idle
  /\ UNCHANGED <<device, parser, commands, store, tele>>

\* cancel_baseline(); without a capture there is nothing to cancel.
RequestCancel ==
  /\ api = Idle /\ capture # None
  /\ capture' = [capture EXCEPT !.cancelled = TRUE]
  /\ api' = [Idle EXCEPT !.op = "cancel", !.step = "drop"]
  /\ UNCHANGED <<device, parser, commands, store, tele, baseline>>

DropCapture ==
  /\ At("cancel", "drop")
  /\ capture' = None
  /\ api' = Idle
  /\ UNCHANGED <<device, parser, commands, store, tele, baseline>>

\* reset_baseline(), new offsets, and clear_all(), which empties the matrix first.
RequestReset ==
  /\ api = Idle /\ Requests
  /\ \E cleared \in BOOLEAN : store' = IF cleared THEN [store EXCEPT !.latest = None] ELSE store
  /\ api' = [Idle EXCEPT !.op = "reset", !.step = "invalidate"]
  /\ UNCHANGED <<dev, link, queue, mix, parser, commands, tele, capture, baseline>>

ApiNext ==
  \/ RequestLink \/ Invalidate \/ Begin \/ Switch \/ RequestCapture \/ MakeCapture
  \/ RequestCancel \/ DropCapture \/ RequestReset

-----------------------------------------------------------------------------
(* The parser thread *)

\* Seeded faults for the checks: a session adopted without making values stale, a
\* MODE or ROWS that leaves the capture running, an idle parser that does not look
\* at it, and a look that does not wait.
ParseStateKeepingFresh ==
  /\ parser.at = "loop" /\ queue # <<>> /\ IsState(Head(queue))
  /\ LET event == Head(queue)
         opens == event.kind = "up" /\ event.conn # commands.conn
     IN /\ commands' = [commands EXCEPT !.session = event.session,
                                        !.conn = IF opens THEN event.conn ELSE @]
        /\ store' = [store EXCEPT !.resync = @ \/ event.session # commands.session \/ opens]
        /\ tele' = IF event.kind = "down" THEN MarkStale(tele) ELSE tele
  /\ queue' = Tail(queue)
  /\ UNCHANGED <<dev, link, mix, used, api, parser, capture, baseline>>

AppliedToBaselineOnly(line) ==
  LET config == IF line.kind = "rows" THEN [store.applied EXCEPT !.id = line.config.id]
                                      ELSE [store.applied EXCEPT !.cap = line.config.cap]
  IN /\ store' = [store EXCEPT !.applied = config]
     /\ baseline' = None /\ UNCHANGED capture

LookOnlyBehindLines == FALSE /\ UNCHANGED vars

LookEarly ==
  /\ parser.at = "look"
  /\ parser' = IF capture # None THEN [parser EXCEPT !.at = "finish", !.done = capture] ELSE AtLoop
  /\ UNCHANGED <<device, api, commands, store, tele, capture, baseline>>

\* A state event: the session is adopted, a new connection asks for a resync,
\* and the end of a link makes the telemetry stale.
ParseState ==
  /\ parser.at = "loop" /\ queue # <<>> /\ IsState(Head(queue))
  /\ LET event == Head(queue)
         adopts == event.session # commands.session
         opens == event.kind = "up" /\ event.conn # commands.conn
     IN /\ commands' = [commands EXCEPT !.session = event.session,
                                        !.conn = IF opens THEN event.conn ELSE @]
        /\ store' = [store EXCEPT !.resync = @ \/ adopts \/ opens]
        /\ tele' = CASE adopts /\ tele.identity = None -> NoTelemetry
                     [] adopts /\ tele.identity # None -> MarkStale(tele)
                     [] ~adopts /\ event.kind = "down" -> MarkStale(tele)
                     [] OTHER -> tele
  /\ queue' = Tail(queue)
  /\ UNCHANGED <<dev, link, mix, used, api, parser, capture, baseline>>

\* A line of the session on display is taken, any other one is rejected.
TakeLine ==
  /\ parser.at = "loop" /\ queue # <<>> /\ ~IsState(Head(queue))
  /\ parser' = IF Head(queue).from.session = link.session
               THEN [parser EXCEPT !.at = "taken", !.line = Head(queue)] ELSE parser
  /\ queue' = Tail(queue)
  /\ UNCHANGED <<dev, link, mix, used, api, commands, store, tele, capture, baseline>>

\* add_frame(): the frame has the identity of the capture.  (known, the boot that the
\* host knows of, is read by the properties only.)  The frame may lie outside
\* the window, or have no valid and fresh cell.
Matches(c, line) ==
  c.session = line.from.session /\ c.dev = line.from.dev /\ c.id = line.config.id
Sampled(c, line) ==
  [c EXCEPT !.samples = @ \cup {[from |-> line.from, known |-> commands.boot]}]

HandleFrame(line) ==
  IF store.resync \/ line.config # store.applied
  THEN UNCHANGED <<store, capture>>
  ELSE /\ store' = [store EXCEPT !.latest = [session |-> line.from.session, id |-> line.config.id]]
       /\ \/ UNCHANGED capture
          \/ /\ capture # None /\ ~capture.cancelled /\ Matches(capture, line)
             /\ capture' = Sampled(capture, line)

\* ROWS applied: the store, then the baseline.  MODE applied does the same if
\* the mode changed.
HandleApplied(line) ==
  LET config == IF line.kind = "rows" THEN [store.applied EXCEPT !.id = line.config.id]
                                      ELSE [store.applied EXCEPT !.cap = line.config.cap]
      changed == config # store.applied
  IN /\ store' = [store EXCEPT !.applied = config, !.latest = IF changed THEN None ELSE @]
     /\ IF changed \/ line.kind = "rows"
        THEN capture' = None /\ baseline' = None ELSE UNCHANGED <<capture, baseline>>

\* The read-back of the configuration completes a resync.
HandleReadback(line) ==
  store' = IF store.resync
           THEN [resync |-> FALSE, applied |-> line.config,
                 latest |-> IF line.config = store.applied THEN store.latest ELSE None]
           ELSE store

HandleBoot(line) ==
  /\ commands' = [commands EXCEPT !.boot = line.from.boot]
  /\ store' = [store EXCEPT !.resync = @ \/ commands.boot \notin {None, line.from.boot}]
  /\ tele' = ObserveBoot(tele, line.from.boot)

\* _handle_event(), under the lock, which is kept for the look at the capture.
Handle ==
  /\ parser.at = "taken"
  /\ LET line == parser.line
     IN \/ /\ line.kind = "battery" /\ tele' = UpdateBattery(tele, line)
           /\ UNCHANGED <<commands, store, capture, baseline>>
        \/ /\ line.kind = "rail" /\ tele' = UpdateRail(tele, line)
           /\ UNCHANGED <<commands, store, capture, baseline>>
        \/ line.kind = "frame" /\ HandleFrame(line) /\ UNCHANGED <<commands, tele, baseline>>
        \/ line.kind \in {"rows", "mode"} /\ HandleApplied(line) /\ UNCHANGED <<commands, tele>>
        \/ line.kind = "state" /\ HandleReadback(line)
           /\ UNCHANGED <<commands, tele, capture, baseline>>
        \/ line.kind = "boot" /\ HandleBoot(line) /\ UNCHANGED <<capture, baseline>>
  /\ parser' = [AtLoop EXCEPT !.at = "look", !.locked = TRUE]
  /\ UNCHANGED <<device, api>>

\* Without input the parser looks at the capture too, without the lock.
NoInput ==
  /\ parser.at = "loop" /\ queue = <<>> /\ capture # None
  /\ parser' = [parser EXCEPT !.at = "look"]
  /\ UNCHANGED <<device, api, commands, store, tele, capture, baseline>>

\* _complete_baseline_if_due(): the result is computed from the capture read,
Look ==
  /\ parser.at = "look"
  /\ parser' = IF capture # None /\ (capture.due \/ capture.cancelled)
               THEN [parser EXCEPT !.at = "finish", !.done = capture] ELSE AtLoop
  /\ UNCHANGED <<device, api, commands, store, tele, capture, baseline>>

\* and shown; without enough samples the capture was in vain.
Finish ==
  /\ parser.at = "finish"
  /\ baseline' \in {None} \cup (IF parser.done.samples = {} THEN {} ELSE {parser.done})
  /\ capture' = None
  /\ parser' = AtLoop
  /\ UNCHANGED <<device, api, commands, store, tele>>

ParserNext == ParseState \/ TakeLine \/ Handle \/ NoInput \/ Look \/ Finish

\* The two seconds of a capture pass.
Elapse ==
  /\ capture # None /\ ~capture.due
  /\ capture' = [capture EXCEPT !.due = TRUE]
  /\ UNCHANGED <<device, api, parser, commands, store, tele, baseline>>

Next == DeviceNext \/ ApiNext \/ ParserNext \/ Elapse

\* The parser runs on, and time passes.
Spec == Init /\ [][Next]_vars /\ WF_vars(ParserNext) /\ WF_vars(Elapse)

-----------------------------------------------------------------------------
(* Properties *)

Epochs == [dev : Devices, boot : 1 .. MaxEvents + 1, session : 1 .. MaxSessions, conn : 1 .. MaxConns]
Configs == [cap : BOOLEAN, id : 0 .. MaxChanges]
Lines == [kind : {"battery", "rail", "frame", "boot", "state", "rows", "mode"},
          what : BatteryLines \cup RailLines \cup {""}, from : Epochs, config : Configs]
States == [kind : {"up", "down"}, session : 1 .. MaxSessions, conn : 1 .. MaxConns]
Readings == [what : BatteryLines \cup RailLines, from : Epochs]
Samples == [from : Epochs, known : (1 .. MaxEvents + 1) \cup {None}]
Captures == [session : 1 .. MaxSessions, dev : Devices \cup {None}, id : 0 .. MaxChanges,
             cancelled : BOOLEAN, due : BOOLEAN, samples : SUBSET Samples]

\* The types of the variables; only a finished capture with samples is a baseline.
TypeOK ==
  /\ \A d \in Devices : dev[d].boot \in 1 .. MaxEvents + 1 /\ dev[d].config \in Configs
  /\ mix \in Mixes /\ link.session \in 0 .. MaxSessions /\ link.dev \in Devices \cup {None}
  /\ \A i \in DOMAIN queue : queue[i] \in Lines \cup States
  /\ parser.line \in Lines \cup {NoLine} /\ parser.done \in Captures \cup {None}
  /\ store.applied \in Configs
  /\ {tele.latest, tele.good, tele.rail} \subseteq Readings \cup {None}
  /\ tele.identity \in Devices \cup {None}
  /\ {capture, baseline} \subseteq Captures \cup {None}
  /\ baseline # None => baseline.samples # {} /\ (baseline.due \/ baseline.cancelled)

\* The link that the parser knows of, once it has adopted the session on display.
OfKnownLink(r) == r.from.session = commands.session /\ r.from.conn = commands.conn

\* A battery or rail value shown as fresh was measured on the link that is up for
\* the parser, by the board on display, never on a link or by a board before it:
\* whatever a request to connect overlaps with, the adoption of the session makes
\* older values stale.
FreshIsLive ==
  commands.session = link.session =>
    /\ BatteryFresh(tele) => OfKnownLink(tele.latest) /\ tele.latest.from.dev = link.dev
    /\ RailFresh(tele) => OfKnownLink(tele.rail) /\ tele.rail.from.dev = link.dev

\* A baseline that was sampled on this link and boot, when the host knew of the boot,
\* belongs to the configuration applied: a capture whose snapshot was overtaken by a
\* change collects no samples.  (Samples of a boot that was not reported yet outlive
\* the read-back that follows the report: nothing there invalidates the baseline.)
Here == [from |-> [dev |-> link.dev, boot |-> dev[link.dev].boot, session |-> commands.session,
                   conn |-> commands.conn],
         known |-> dev[link.dev].boot]
BaselineOfConfiguration ==
  baseline # None /\ link.dev # None /\ baseline.samples = {Here}
    => store.applied = [cap |-> TRUE, id |-> baseline.id]

\* Every capture ends, with or without input: "Capturing baseline..." is not for ever.
CaptureEnds == capture # None ~> capture = None

\* "Changing device identity clears battery and rail telemetry so one board's value
\* cannot appear for another" (docs/architecture.md:284-285).  Known not to hold
\* (LiveValues_board.cfg).
OneBoard ==
  /\ tele.good # None => tele.good.from.dev = tele.identity
  /\ tele.rail # None => tele.rail.from.dev = tele.identity
===============================================================================
