------------------------------ MODULE Bootstrap ------------------------------
(***************************************************************************)
(* What happens on a live link between "connected" and "configured":       *)
(* DeviceSynchronizer asks the firmware one question after the other, the  *)
(* answers also reach the command service, and when the last one is in,    *)
(* BackendRuntime restores the measurement preferences one transaction at  *)
(* a time.  Around them: the link, which is lost and re-established, the   *)
(* device, which answers late and restarts, another controller, and the    *)
(* API thread that applies a setup profile without taking any lock.        *)
(*                                                                         *)
(* The parser thread handles one input in one step; its timers may have    *)
(* expired at any moment.  Of the command service only what the restore    *)
(* reads is kept (CommandService has the rest): ROWS and ROWMODES, what is *)
(* applied, pending, and under which firmware request ID.                  *)
(***************************************************************************)
EXTENDS Integers, Sequences

CONSTANTS
  Source,          \* the transport: serial, ble or wifi
  Skipped,         \* questions an instance leaves out; they are only displayed
  Default,         \* the device's settings after a restart: [rows, modes, usb]
  Wants,           \* measurement preferences: [rows, modes, usb]
  Others,          \* settings another controller may leave behind
  MaxRetries,      \* maximumQueryRetries
  MaxPolls,        \* maximumReadyPolls
  MaxConnections, MaxBoots, MaxRequests, MaxTakeovers,   \* bounds
  None             \* Python's None; as want.usb it is DEVICE_DEFAULT

ASSUME SourceAssumption == Source \in {"serial", "ble", "wifi"}
ASSUME SkippedAssumption ==
  Skipped \subseteq {"BUILD?", "FDCISO?", "BAT?", "RAIL?", "CAL?", "ST=AUTO"}
ASSUME NoneAssumption == None \notin Int
ASSUME SettingsAssumption ==
  \A s \in Wants \cup Others \cup {Default} : DOMAIN s = {"rows", "modes", "usb"}
ASSUME RetryAssumption == MaxRetries \in Nat /\ MaxPolls \in Nat \ {0}
ASSUME BoundAssumption ==
  MaxConnections \in Nat /\ MaxBoots \in Nat \ {0} /\ MaxRequests \in Nat /\ MaxTakeovers \in Nat

Kinds == {"rows", "modes"}           \* the transactions of a restore
Readable == {"mode", "rows", "modes"}
Settled == {"IDLE", "DISABLED", "COMPLETE", "ERROR"}
Waiting == [rows |-> "WAITING_ROWS", modes |-> "WAITING_ROW_MODES", usb |-> "WAITING_USB_STREAM"]

\* handle(), _handle_log(): the question each answer leads to.
Unless(q) == IF q \in Skipped THEN <<>> ELSE <<q>>
AskedOf(profile) ==
  <<"PROTO?">> \o Unless("BUILD?") \o <<"BOOT?", "READY?", "STATE?", "ROWS?">> \o profile
  \o Unless("FDCISO?") \o Unless("BAT?") \o Unless("RAIL?") \o Unless("CAL?") \o Unless("ST=AUTO")
  \o (CASE Source = "serial" -> <<"USBSTREAM?">> [] Source = "ble" -> <<"BTX?">> [] OTHER -> <<>>)

\* A seeded fault: the profile is not read back.
ChainWithoutProfile == AskedOf(<<>>)

Chain == AskedOf(<<"ROWMODES?">>)
Last == Chain[Len(Chain)]
Follows(q) == Chain[1 + CHOOSE i \in DOMAIN Chain : Chain[i] = q]

VARIABLES
  host,       \* the state shared by the parser thread and the API threads
  api,        \* progress of the API thread that applies a setup profile
  toDevice,   \* commands on their way to the device
  toHost,     \* inputQueue and what the link still carries
  link,       \* [up, count, intact]; intact: no restart under this link
  dev,        \* the device: its boot, readiness and settings; healthy: it measures
  used,       \* history: API requests, takeovers
  firstBoot   \* history: the first boot the host saw

vars == <<host, api, toDevice, toHost, link, dev, used, firstBoot>>
environment == <<link, dev, used, firstBoot>>

Command(k, v) == [kind |-> k, value |-> v]
Report(k, v, id, old) == [kind |-> k, value |-> v, id |-> id, old |-> old]
Said(k, v) == Report(k, v, 0, None)
IsState(m) == m.kind \in {"STREAMING", "LOST"}

Init ==
  /\ \E w \in Wants, r \in BOOLEAN :
       host = [state |-> "IDLE", ask |-> None, retries |-> 0, waiting |-> FALSE, polls |-> 0,
               usbRead |-> None, bootId |-> None, bootChanged |-> FALSE, seen |-> {},
               known |-> FALSE, active |-> [rows |-> Default.rows, modes |-> Default.modes],
               pending |-> [k \in Kinds |-> None], req |-> [k \in Kinds |-> None],
               usb |-> None, want |-> w, resume |-> r,
               pref |-> "IDLE", target |-> None, restore |-> FALSE, sent |-> <<>>]
  /\ api = "idle" /\ toDevice = <<>> /\ toHost = <<>>
  /\ link = [up |-> FALSE, count |-> 0, intact |-> TRUE]
  /\ \E s \in Others \cup {Default}, c, h, r \in BOOLEAN :
       dev = [boot |-> 1, ready |-> r, compatible |-> c, healthy |-> h, txn |-> 0, set |-> s]
  /\ used = [requests |-> 0, takeovers |-> 0] /\ firstBoot = None

-----------------------------------------------------------------------------
(* Writing to the transport: h.sent collects what a step really wrote.      *)

Written(h, c) == IF link.up THEN {[h EXCEPT !.sent = Append(@, c)]} ELSE {}

\* _fail()
Failed(h, s) == [h EXCEPT !.state = s, !.ask = None]

\* _send(): written, written ambiguously (and perhaps lost), or refused.
SendQuery(h, q, n) ==
  LET asked == [h EXCEPT !.ask = q, !.waiting = FALSE, !.retries = n]
  IN {Failed(h, "FAILED"), asked} \cup Written(asked, Command(q, None))

-----------------------------------------------------------------------------
(* The ordered restore.                                                     *)

\* deviceInfo["usbStream"], else the synchronizer's answer.
CurrentUsb(h) == IF h.usb # None THEN h.usb ELSE h.usbRead

\* A seeded fault: the restore is over once the rows are right.
DecisionRowsOnly(h) ==
  IF h.state # "SYNCED" \/ ~h.known THEN "WAITING_BOOTSTRAP"
  ELSE IF \E k \in Kinds : h.pending[k] # None THEN "WAITING_TRANSACTION"
  ELSE IF h.restore /\ h.active.rows # h.want.rows THEN "rows"
  ELSE "COMPLETE"

\* _advance_preference_apply(): what is to be done next.
Decision(h) ==
  IF h.state # "SYNCED" \/ ~h.known THEN "WAITING_BOOTSTRAP"
  ELSE IF \E k \in Kinds : h.pending[k] # None THEN "WAITING_TRANSACTION"
  ELSE IF h.restore /\ h.active.rows # h.want.rows THEN "rows"
  ELSE IF h.restore /\ h.active.modes # h.want.modes THEN "modes"
  ELSE IF Source = "serial" /\ h.want.usb # None /\ CurrentUsb(h) # h.want.usb THEN "usb"
  ELSE "COMPLETE"

\* request_rows(), request_row_modes(), request_usb_stream() of one preference:
\* an ambiguous write keeps the transaction pending, a refused one does not.
Ask(h, k) ==
  LET c == Command(k, h.want[k])
      begun == IF k = "usb" THEN h
               ELSE [h EXCEPT !.pending[k] = h.want[k], !.req[k] = None]
      failed == [begun EXCEPT !.pref = "ERROR"]
      refused == IF k = "usb" THEN failed ELSE [failed EXCEPT !.pending[k] = None]
  IN IF k = "modes" /\ h.pending.modes # None THEN {[h EXCEPT !.pref = "ERROR"]}
     ELSE Written([begun EXCEPT !.pref = Waiting[k]], c)
          \cup Written(failed, c) \cup {failed, refused}

Carry(h, d) == IF d \in DOMAIN Waiting THEN Ask(h, d) ELSE {[h EXCEPT !.pref = d]}
Advance(h) == IF h.pref \in Settled THEN {h} ELSE Carry(h, Decision(h))

\* _start_preference_apply()
Started(h, restore) ==
  [h EXCEPT !.pref = "READY", !.target = h.bootId, !.restore = restore]

\* _on_bootstrap_complete()
Interrupted(h) ==
  h.target # None /\ h.target = h.bootId /\ h.pref \notin {"COMPLETE", "DISABLED", "IDLE"}

\* A seeded fault: every bootstrap restores.
RestoreAlways(h) == Advance(Started(h, TRUE))

OnBootstrapComplete(h) ==
  IF h.bootChanged /\ h.resume THEN Advance(Started(h, TRUE))
  ELSE IF Interrupted(h) THEN Advance([h EXCEPT !.pref = "READY"])
  ELSE LET d == IF h.bootChanged
                  THEN [h EXCEPT !.pref = "DISABLED", !.target = h.bootId, !.restore = FALSE]
                  ELSE h
       IN IF h.want.usb # None /\ Source = "serial" THEN Advance(Started(d, FALSE)) ELSE {d}

\* _after_configuration_event() for a terminal of ROWS or ROWMODES.
Dormant(h) == h.pref \in Settled \cup {"WAITING_BOOTSTRAP"}
AfterApplied(h) == IF Dormant(h) THEN {h} ELSE Advance(h)
\* A seeded fault: a rejection is not taken for an answer.
RejectionIgnored(h) == h
AfterRejected(h) == IF Dormant(h) THEN h ELSE [h EXCEPT !.pref = "ERROR"]

-----------------------------------------------------------------------------
(* DeviceSynchronizer.                                                      *)

\* begin_connection() and start()
StartBootstrap(h) ==
  SendQuery([h EXCEPT !.known = FALSE, !.seen = {}, !.state = "BOOTSTRAPPING", !.ask = None,
                      !.polls = 0, !.usbRead = None], "PROTO?", 0)

\* stop()
StopBootstrap(h) ==
  [h EXCEPT !.ask = None, !.state = IF @ = "BOOTSTRAPPING" THEN "INTERRUPTED" ELSE @]

\* _complete()
Completed(h) == OnBootstrapComplete([h EXCEPT !.ask = None, !.state = "SYNCED"])

\* READY=0: another poll, later.  (A seeded fault: polls are not counted.)
PollUncounted(h) == [h EXCEPT !.waiting = TRUE, !.ask = None]
PollLater(h) == [h EXCEPT !.waiting = TRUE, !.polls = @ + 1, !.ask = None]

\* handle(), _handle_log(): only the answer to the outstanding question counts.
Synchronize(h, m) ==
  LET read == IF m.kind = "USBSTREAM?" THEN [h EXCEPT !.usbRead = m.value] ELSE h
  IN IF h.state # "BOOTSTRAPPING" \/ h.ask = None \/ m.kind # h.ask THEN {h}
     ELSE IF m.kind = "PROTO?" /\ ~m.value THEN {Failed(h, "INCOMPATIBLE_FIRMWARE")}
     ELSE IF m.kind = "READY?" /\ ~m.value THEN {PollLater(h)}
     ELSE IF m.kind = Last THEN Completed(read)
     ELSE SendQuery(read, Follows(m.kind), 0)

\* A seeded fault: one retry too many.
ExpiredLate(h) ==
  IF h.ask # None /\ h.retries > MaxRetries THEN {Failed(h, "FAILED")}
  ELSE SendQuery([h EXCEPT !.ask = None], IF h.ask = None THEN "READY?" ELSE h.ask, h.retries + 1)

\* tick(), once the deadline of the question or of the next poll has passed.
Expired(h) ==
  IF h.ask # None
    THEN IF h.retries >= MaxRetries THEN {Failed(h, "FAILED")}
         ELSE SendQuery([h EXCEPT !.ask = None], h.ask, h.retries + 1)
    ELSE IF h.polls >= MaxPolls THEN {Failed(h, "FAILED")} ELSE SendQuery(h, "READY?", 0)

-----------------------------------------------------------------------------
(* The command service's part in _handle_event().                           *)

\* observe_boot()
ObserveBoot(h, b) ==
  LET changed == h.bootId # None /\ h.bootId # b
  IN [h EXCEPT !.bootId = b, !.bootChanged = changed, !.known = FALSE,
               !.pending = IF changed THEN [k \in Kinds |-> None] ELSE @,
               !.req = IF changed THEN [k \in Kinds |-> None] ELSE @,
               !.usb = IF changed THEN None ELSE @]

\* _handle_state_snapshot(), active=NONE: the device is SAFE or DEGRADED.
Degraded(h) == [h EXCEPT !.known = FALSE]

\* resync_authoritative()
SyncWith(h, k) == [h EXCEPT !.seen = @ \cup {k}, !.known = (h.seen \cup {k} = Readable)]
ReadBack(h, k, v) ==
  SyncWith([h EXCEPT !.active[k] = v, !.pending[k] = None,
                     !.req[k] = IF k = "modes" THEN None ELSE @], k)

\* _handle_rows(), _handle_row_modes(): accepted
Opens(h, k, m) ==
  IF k = "rows" THEN h.req[k] \in {None, m.id}
  ELSE \/ h.pending[k] = m.value /\ h.req[k] \in {None, m.id}
       \/ h.pending[k] = None /\ (h.req[k] = None \/ (m.id # h.req[k] /\ m.old = h.active[k]))
Accepted(h, k, m) ==
  IF Opens(h, k, m) THEN [h EXCEPT !.pending[k] = m.value, !.req[k] = m.id] ELSE h

\* _handle_rows(), _handle_row_modes(): applied
Closes(h, k, m) == h.req[k] = m.id /\ (k = "modes" => h.pending[k] = m.value)
Applied(h, k, m) ==
  IF Closes(h, k, m)
    THEN [h EXCEPT !.active[k] = m.value, !.pending[k] = None,
                   !.req[k] = IF k = "rows" THEN None ELSE @]
    ELSE h

\* _handle_row_modes(): failed.  _handle_rows() has no such branch.
Rejected(h, k) ==
  IF k = "modes" /\ h.req[k] = None THEN [h EXCEPT !.pending[k] = None] ELSE h

UsbReported(h, v) ==
  LET g == [h EXCEPT !.usb = v]
  IN IF g.pref = "WAITING_USB_STREAM" /\ v = g.want.usb THEN Advance(g) ELSE {g}

Serve(h, m) ==
  CASE m.kind = "BOOT?" -> {ObserveBoot(h, m.value)}
    [] m.kind = "STATE?" -> {IF m.value THEN SyncWith(h, "mode") ELSE Degraded(h)}
    [] m.kind = "ROWS?" -> {ReadBack(h, "rows", m.value)}
    [] m.kind = "ROWMODES?" -> {ReadBack(h, "modes", m.value)}
    [] m.kind = "USBSTREAM?" -> UsbReported(h, m.value)
    [] m.kind \in {"RCMD", "RMACK"} -> {Accepted(h, IF m.kind = "RCMD" THEN "rows" ELSE "modes", m)}
    [] m.kind \in {"RAPP", "RMAPP"} -> AfterApplied(Applied(h, IF m.kind = "RAPP" THEN "rows" ELSE "modes", m))
    [] m.kind \in {"ERR", "RMERR"} -> {AfterRejected(Rejected(h, IF m.kind = "ERR" THEN "rows" ELSE "modes"))}
    [] OTHER -> {h}

-----------------------------------------------------------------------------
(* Actions.                                                                 *)
Becomes(h) == host' = [h EXCEPT !.sent = <<>>] /\ toDevice' = toDevice \o h.sent

\* The parser thread: a state event of the transport, or a report.
Parse ==
  /\ toHost # <<>>
  /\ LET m == Head(toHost)
     IN /\ CASE m.kind = "STREAMING" -> \E h \in StartBootstrap(host) : Becomes(h)
             [] m.kind = "LOST" -> Becomes(StopBootstrap(host))
             [] OTHER -> \E g \in Synchronize(host, m) : \E h \in Serve(g, m) : Becomes(h)
        /\ firstBoot' = IF m.kind = "BOOT?" /\ firstBoot = None THEN m.value ELSE firstBoot
  /\ toHost' = Tail(toHost)
  /\ UNCHANGED <<api, link, dev, used>>

Tick ==
  /\ host.state = "BOOTSTRAPPING" /\ (host.ask # None \/ host.waiting)
  /\ \E h \in Expired(host) : Becomes(h)
  /\ UNCHANGED <<api, toHost, environment>>

\* apply_setup_profile() on an API thread: it starts the restore, reads what is
\* to be done, and does it; the parser thread may run in between.
Requesting == used.requests < MaxRequests /\ used' = [used EXCEPT !.requests = @ + 1]

ApplyProfile ==
  /\ api = "idle" /\ Requesting
  /\ \E w \in Wants, r \in BOOLEAN :
       host' = Started([host EXCEPT !.want = w, !.resume = r], TRUE)
  /\ api' = "started"
  /\ UNCHANGED <<toDevice, toHost, link, dev, firstBoot>>

ApiDecide ==
  /\ api = "started"
  /\ api' = IF host.pref \in Settled THEN "idle" ELSE Decision(host)
  /\ UNCHANGED <<host, toDevice, toHost, environment>>

ApiCarry ==
  /\ api \notin {"idle", "started"}
  /\ \E h \in Carry(host, api) : Becomes(h)
  /\ api' = "idle"
  /\ UNCHANGED <<toHost, environment>>

\* request_rows() for the user; its guard is the range of the value.
RequestRows ==
  /\ api = "idle" /\ Requesting
  /\ \E w \in Wants :
       LET g == [host EXCEPT !.want.rows = w.rows]
           asked == [g EXCEPT !.pending.rows = w.rows, !.req.rows = None]
       IN \E h \in Written(asked, Command("rows", w.rows))
                   \cup {asked, [asked EXCEPT !.pending.rows = None]} : Becomes(h)
  /\ UNCHANGED <<api, toHost, link, dev, firstBoot>>

-----------------------------------------------------------------------------
(* The device and the link.                                                 *)

Answer(q) ==
  CASE q = "PROTO?" -> dev.compatible [] q = "BOOT?" -> dev.boot [] q = "READY?" -> dev.ready
    [] q = "STATE?" -> dev.healthy
    [] q = "ROWS?" -> dev.set.rows [] q = "ROWMODES?" -> dev.set.modes
    [] q = "USBSTREAM?" -> dev.set.usb [] OTHER -> None

Transaction(k, v) ==
  LET id == dev.txn + 1
      old == dev.set[k]
  IN CASE k = "rows" -> <<Report("RCMD", v, id, old), Report("RAPP", v, id, old)>>
       [] k = "modes" -> <<Report("RMACK", v, id, old), Report("RMAPP", v, id, old)>>
       [] OTHER -> <<Said("USBSTREAM?", v)>>

DeviceAnswers ==
  /\ toDevice # <<>> /\ Head(toDevice).kind \notin DOMAIN Waiting
  /\ toHost' = Append(toHost, Said(Head(toDevice).kind, Answer(Head(toDevice).kind)))
  /\ toDevice' = Tail(toDevice)
  /\ UNCHANGED <<host, api, environment>>

DeviceApplies ==
  /\ toDevice # <<>> /\ Head(toDevice).kind \in DOMAIN Waiting
  /\ LET c == Head(toDevice)
     IN /\ toHost' = toHost \o Transaction(c.kind, c.value)
        /\ dev' = [dev EXCEPT !.set[c.kind] = c.value, !.txn = IF c.kind = "usb" THEN @ ELSE @ + 1]
  /\ toDevice' = Tail(toDevice)
  /\ UNCHANGED <<host, api, link, used, firstBoot>>

DeviceRejects ==
  /\ toDevice # <<>> /\ Head(toDevice).kind \in Kinds
  /\ toHost' = Append(toHost, Said(IF Head(toDevice).kind = "rows" THEN "ERR" ELSE "RMERR", None))
  /\ toDevice' = Tail(toDevice)
  /\ UNCHANGED <<host, api, environment>>

DeviceReady ==
  /\ ~dev.ready /\ dev' = [dev EXCEPT !.ready = TRUE]
  /\ UNCHANGED <<host, api, toDevice, toHost, link, used, firstBoot>>

\* Losing the link also loses the end of what it carries, but not what the
\* transport worker itself has queued.
Cut ==
  /\ link' = [link EXCEPT !.up = FALSE]
  /\ toDevice' = <<>>
  /\ \E n \in 0 .. Len(toHost) :
       /\ \A i \in n + 1 .. Len(toHost) : ~IsState(toHost[i])
       /\ toHost' = Append(SubSeq(toHost, 1, n), Said("LOST", None))

LinkLost == link.up /\ Cut /\ UNCHANGED <<host, api, dev, used, firstBoot>>

LinkUp ==
  /\ ~link.up /\ link.count < MaxConnections
  /\ link' = [up |-> TRUE, count |-> link.count + 1, intact |-> TRUE]
  /\ toHost' = Append(toHost, Said("STREAMING", None))
  /\ UNCHANGED <<host, api, toDevice, dev, used, firstBoot>>

\* A restart takes the link down, or (a UART bridge) is only reported on it.
DeviceRestarts ==
  /\ dev.boot < MaxBoots
  /\ dev' = [dev EXCEPT !.boot = @ + 1, !.ready = FALSE, !.txn = 0, !.set = Default]
  /\ \/ link.up /\ Cut
     \/ /\ link.up /\ link' = [link EXCEPT !.intact = FALSE]
        /\ toDevice' = <<>>
        /\ toHost' = Append(toHost, Said("BOOT?", dev.boot + 1))
     \/ ~link.up /\ UNCHANGED <<link, toDevice, toHost>>
  /\ UNCHANGED <<host, api, used, firstBoot>>

\* Another controller uses the device while this host is away.
Takeover ==
  /\ ~link.up /\ used.takeovers < MaxTakeovers
  /\ used' = [used EXCEPT !.takeovers = @ + 1]
  /\ \E s \in Others : dev' = [dev EXCEPT !.set = s]
  /\ UNCHANGED <<host, api, toDevice, toHost, link, firstBoot>>

Api == ApplyProfile \/ ApiDecide \/ ApiCarry \/ RequestRows
Device == DeviceAnswers \/ DeviceApplies \/ DeviceRejects
Next ==
  \/ Parse \/ Tick \/ Api \/ Device
  \/ DeviceReady \/ DeviceRestarts \/ LinkLost \/ LinkUp \/ Takeover

\* The parser thread loops for ever and calls tick() at least every 50 ms; an
\* API call returns.  Nothing is assumed of the device or of the link.
Fairness == WF_vars(Parse) /\ WF_vars(Tick) /\ WF_vars(ApiDecide \/ ApiCarry)
Spec == Init /\ [][Next]_vars /\ Fairness

-----------------------------------------------------------------------------
(* Properties.                                                              *)

States == {"IDLE", "BOOTSTRAPPING", "SYNCED", "INTERRUPTED", "FAILED", "INCOMPATIBLE_FIRMWARE"}
PrefStates == Settled \cup {"READY", "WAITING_BOOTSTRAP", "WAITING_TRANSACTION"}
                \cup {Waiting[k] : k \in DOMAIN Waiting}
Questions == {Chain[i] : i \in DOMAIN Chain}

\* The state stays within its domain: a question is outstanding only while
\* bootstrapping, and retries and polls stay within their limits.
TypeOK ==
  /\ host.state \in States /\ host.pref \in PrefStates
  /\ host.ask \in Questions \cup {None}
  /\ host.ask # None \/ host.waiting => host.state # "IDLE"
  /\ host.retries \in 0 .. MaxRetries /\ host.polls \in 0 .. MaxPolls
  /\ host.seen \subseteq Readable /\ host.known \in BOOLEAN
  /\ host.sent = <<>>
  /\ \A i \in DOMAIN toDevice : toDevice[i].kind \in Questions \cup DOMAIN Waiting

\* Whatever the device answers, late, never or READY=0 for ever, a bootstrap
\* ends: it completes, fails, or is interrupted by the loss of the link.
BootstrapEnds == host.state = "BOOTSTRAPPING" ~> host.state # "BOOTSTRAPPING"

Unasked == used.requests = 0
Quiet == link.up /\ link.intact /\ toDevice = <<>> /\ toHost = <<>>

\* When the link has fallen silent after a bootstrap, the host knows the device:
\* the boot, the rows and the profile it shows are the device's, although answers
\* to repeated questions came late, transactions crossed the read-back, links
\* were lost, and others have changed the device in between.
KnowsTheDevice ==
  Quiet /\ Unasked /\ host.state = "SYNCED" =>
    /\ host.known = dev.healthy /\ host.bootId = dev.boot
    /\ host.active = [k \in Kinds |-> dev.set[k]]

\* A link comes up only when what is left of the one before has been handled.  The
\* transports wait for half a second and more before they try again
\* (serial_transport.py:172-173,192-193, ble_transport.py:138-143), but nothing in the
\* code ties the wait to the parser's queue, and the specification does not assume it.
\* It is the premise under which KnowsTheDevice is proved: without it the property fails
\* when links are lost faster than the queue empties (Bootstrap_backlog.cfg).
Drained == [][LinkUp => toHost = <<>>]_vars

\* The link is up, has seen no restart, and its start has been handled.
UpToDate == link.up /\ link.intact /\ \A i \in DOMAIN toHost : ~IsState(toHost[i])

\* The part of it that needs no silence and allows requests of the user: a completed
\* bootstrap shows the boot of the device, by which a restart is told.
KnowsTheBoot == UpToDate /\ host.state = "SYNCED" => host.bootId = dev.boot

\* When the parser thread reports the preferences as COMPLETE while it is serving
\* the present link, the device has them.
ReallyComplete ==
  (Parse /\ UpToDate /\ host.pref # "COMPLETE" /\ host'.pref = "COMPLETE" /\ host'.restore)
    => \A k \in Kinds : dev.set[k] = host.want[k]
CompleteMeansApplied == [][Unasked => ReallyComplete]_vars

\* The same beside requests of the user: a refused ROWS= of the user forgets the
\* request ID of the restore's (command_service.py:154-162), and the confirmation that
\* follows closes nothing.  Known not to hold (Bootstrap_requests.cfg).
CompleteBesideRequests == [][ReallyComplete]_vars

\* A transaction of the restore ends the wait for it, if the device answers at
\* all: the restore moves on, unless the link is lost or the device restarts.
RestoreMovesOn ==
  WF_vars(Device) =>
    \A k \in DOMAIN Waiting :
      host.pref = Waiting[k] ~> (host.pref # Waiting[k] \/ ~link.up \/ ~link.intact)

Measured(c) == c.kind \in Kinds

\* test_resume_defaults_off_and_first_attach_never_overwrites_running_device_state:
\* without a request of the user, ROWS= and ROWMODES= are sent only to a device
\* that has restarted since the host first saw it, and only if resuming is on.
NeverOverwrites ==
  Unasked /\ (~host.resume \/ firstBoot \in {None, dev.boot}) =>
    \A i \in DOMAIN toDevice : ~Measured(toDevice[i])

\* SetupPanel.tsx:460, "Resume measurement configuration after device restart":
\* once a bootstrap with a restarted device has completed, its restore has begun.
\* Known not to hold (Bootstrap_resume.cfg).
ResumesAfterRestart ==
  (Quiet /\ Unasked /\ host.resume /\ host.state = "SYNCED" /\ host.bootId # firstBoot)
    => host.target = host.bootId
=============================================================================
