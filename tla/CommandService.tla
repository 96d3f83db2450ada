--------------------------- MODULE CommandService ---------------------------
(***************************************************************************)
(* The transaction service of src/sensorarray_app/services/                *)
(* command_service.py.  API threads request a measurement mode, a row-mode *)
(* profile, a row count or a restart; the parser thread hands over what    *)
(* the firmware reports.  Two views are kept of every transaction: the     *)
(* audit record of the command, and the state machine of its kind (what is *)
(* applied, what is pending, under which firmware request ID).             *)
(*                                                                         *)
(* The firmware and the link are not modelled here: any report may arrive  *)
(* at any time (lost, late, repeated, reordered, or caused by another      *)
(* controller), so what holds here holds whatever the device sends.        *)
(* Reports of another session generation are ignored by handle() and are   *)
(* left out.  A profile with one mode in all rows is identified with that  *)
(* mode.                                                                   *)
(***************************************************************************)
EXTENDS Integers, Sequences, FiniteSets

CONSTANTS
  Kinds,       \* the kinds of transaction in use
  Modes,       \* measurement modes; also the homogeneous profiles
  Mixed,       \* the heterogeneous profiles
  RowCounts,   \* values of ROWS
  Ids,         \* firmware request IDs
  Boots,       \* firmware boot IDs
  Api,         \* API threads
  DefaultMode, DefaultRows,   \* what is shown as applied before anything is known
  MaxRecords,  \* bound: commands requested
  None         \* Python's None

ASSUME KindsAssumption == Kinds \subseteq {"mode", "row_modes", "rows", "restart"}
ASSUME DefaultAssumption == DefaultMode \in Modes /\ DefaultRows \in RowCounts
ASSUME MaxRecordsAssumption == MaxRecords \in Nat
ASSUME NoneAssumption ==
  None \notin Modes \cup Mixed \cup RowCounts \cup Ids \cup Boots

\* The two kinds whose events must name the request they answer.
Machines == {"mode", "row_modes"} \cap Kinds
\* The kinds the bootstrap queries STATE?, ROWS? and ROWMODES? read back.
Readable == {"mode", "row_modes", "rows"}

Profiles == Modes \cup Mixed
Value(k) == CASE k = "mode" -> Modes [] k = "row_modes" -> Profiles
              [] k = "rows" -> RowCounts [] OTHER -> {None}
Values == Profiles \cup RowCounts \cup {None}

Open   == {"REQUESTED", "ACCEPTED", "OUTCOME_UNKNOWN"}
Closed == {"APPLIED", "ERROR", "NOT_SENT", "RESYNC_CONFIRMED_APPLIED",
           "RESYNC_CONFIRMED_NOT_APPLIED", "COMPLETED_AFTER_REBOOT", "ABORTED_BY_REBOOT"}
RecordStates == Open \cup Closed \cup {"EXPECTED_RESTART"}
\* "running" is requested or accepted, "read" is resync_confirmed or synced,
\* "ended" is error, not_sent, aborted_by_reboot or applied_by_row_profile.
Transitions == {"applied", "running", "outcome_unknown", "read", "ended"}

VARIABLES
  records,   \* _commands, in the order of their local IDs
  applied,   \* appliedMode, appliedRowModes, activeRows
  pending,   \* pendingMode, pendingRowModes, pendingRows
  reqId,     \* modeRequestId, rowModeRequestId, rowsRequestId
  trans,     \* transitionState, rowModeTransitionState
  genKnown,  \* modeGeneration, rowModeGeneration are not None
  bootId,    \* bootId
  restart,   \* expectedRestart and expectedRestartRequestId
  syncSeen,  \* _syncSeen: the kinds read back
  known,     \* authoritativeStateKnown
  api,       \* progress of each API thread through a request method
  readBoot   \* history: the kinds read back since the last boot report or connection

machine == <<applied, pending, reqId, trans, genKnown>>
sync == <<syncSeen, known, readBoot>>
vars == <<records, machine, bootId, restart, sync, api>>

NotExpected == [on |-> FALSE, id |-> None]
IdleApi == [pc |-> "idle", kind |-> "restart", value |-> None, record |-> 0]

Init ==
  /\ records = <<>>
  /\ applied = [k \in Readable |-> IF k = "rows" THEN DefaultRows ELSE DefaultMode]
  /\ pending = [k \in Readable |-> None]
  /\ reqId = [k \in Readable |-> None]
  /\ trans = [k \in {"mode", "row_modes"} |-> "applied"]
  /\ genKnown = [k \in {"mode", "row_modes"} |-> FALSE]
  /\ bootId = None
  /\ restart = NotExpected
  /\ syncSeen = {} /\ known = FALSE /\ readBoot = {}
  /\ api = [a \in Api |-> IdleApi]

-----------------------------------------------------------------------------
(* Records.                                                                 *)

\* reversed(list(...)): the newest record of a set of local IDs, 0 for none.
IsNewest(i, S) == i \in S /\ \A j \in S : j <= i
Newest(S) == IF \E i \in S : IsNewest(i, S) THEN CHOOSE i \in S : IsNewest(i, S) ELSE 0

SetState(recs, i, s) == IF i = 0 THEN recs ELSE [recs EXCEPT ![i].state = s]

\* Seeded faults for the checks: a terminal that falls back to the record of the
\* same value, an acceptance that prefers the value to the identity, a fallback
\* that ignores another identity, a commit by identity alone, a MODE commit that
\* takes over a pending profile, a profile commit with its arguments swapped.
ByValueAnyId(recs, k, id, req) ==
  {i \in DOMAIN recs : /\ recs[i].kind = k /\ recs[i].state \in Open
                       /\ req = None \/ recs[i].value = req}
CommitsById(k, id, v) == reqId[k] = id
CommitModeAlways(id, v) ==
  /\ applied' = [applied EXCEPT !["mode"] = v, !["row_modes"] = v]
  /\ pending' = [pending EXCEPT !["mode"] = None]
  /\ reqId' = [reqId EXCEPT !["row_modes"] = id]
  /\ trans' = [m \in DOMAIN trans |-> "applied"]
  /\ genKnown' = [genKnown EXCEPT !["mode"] = TRUE, !["row_modes"] = FALSE]

CommitRowModesSwapped(id, v) ==
  /\ applied' = [applied EXCEPT !["row_modes"] = id]
  /\ pending' = [pending EXCEPT !["row_modes"] = None]
  /\ UNCHANGED <<reqId, trans, genKnown>>

\* _match_record(): the records of an identity, and those an acceptance may claim.
ById(recs, k, id) == {i \in DOMAIN recs : id # None /\ recs[i].kind = k /\ recs[i].id = id}
ByValue(recs, k, id, req) ==
  {i \in DOMAIN recs : /\ recs[i].kind = k /\ recs[i].state \in Open
                       /\ id = None \/ recs[i].id = None \/ recs[i].id = id
                       /\ req = None \/ recs[i].value = req}

MatchTerminalByValue(recs, k, phase, id, req) ==
  IF ById(recs, k, id) # {} THEN Newest(ById(recs, k, id)) ELSE Newest(ByValue(recs, k, id, req))
MatchByValueFirst(recs, k, phase, id, req) ==
  IF phase = "accepted" THEN Newest(ByValue(recs, k, id, req)) ELSE Newest(ById(recs, k, id))

MatchRecord(recs, k, phase, id, req) ==
  IF ById(recs, k, id) # {} THEN Newest(ById(recs, k, id))
  ELSE IF id # None /\ phase # "accepted" THEN 0
  ELSE Newest(ByValue(recs, k, id, req))

\* The part of handle() that updates the matching audit record.
Audit(k, phase, id, req, s) ==
  LET i == MatchRecord(records, k, phase, id, req)
  IN records' = IF i = 0 THEN records
                ELSE [records EXCEPT ![i].state = s,
                                     ![i].id = IF id = None THEN @ ELSE id]

\* _resolve_unknown_records()
Resolve(recs, k, matching) ==
  SetState(recs, Newest({i \in DOMAIN recs : recs[i].kind = k /\ recs[i].state \in Open}),
           IF matching THEN "RESYNC_CONFIRMED_APPLIED" ELSE "RESYNC_CONFIRMED_NOT_APPLIED")

-----------------------------------------------------------------------------
(* Requests.  request_mode() and request_row_modes() check that neither     *)
(* kind is pending, then create the record and the pending value, then call *)
(* the sender; no lock is held, so other API threads and the parser thread  *)
(* run in between.                                                          *)

NothingPending == pending["mode"] = None /\ pending["row_modes"] = None

RequestCheck(a) ==
  /\ api[a].pc = "idle"
  /\ Len(records) < MaxRecords
  /\ \E k \in Kinds : \E v \in Value(k) :
       /\ k \in Machines => NothingPending
       /\ api' = [api EXCEPT ![a] = [pc |-> "checked", kind |-> k, value |-> v, record |-> 0]]
  /\ UNCHANGED <<records, machine, bootId, restart, sync>>

RequestBegin(a) ==
  LET k == api[a].kind
      v == api[a].value
  IN /\ api[a].pc = "checked"
     /\ Len(records) < MaxRecords
     /\ records' = Append(records, [kind |-> k, value |-> v, state |-> "REQUESTED", id |-> None])
     /\ api' = [api EXCEPT ![a].pc = "sending", ![a].record = Len(records) + 1]
     /\ pending' = IF k \in Readable THEN [pending EXCEPT ![k] = v] ELSE pending
     /\ reqId' = IF k \in Readable THEN [reqId EXCEPT ![k] = None] ELSE reqId
     /\ trans' = IF k \in Machines THEN [trans EXCEPT ![k] = "running"] ELSE trans
     /\ UNCHANGED <<applied, genKnown, bootId, restart, sync>>

\* _send() returned: written, written ambiguously, or certainly not written.
Sent(a) ==
  /\ api[a].pc = "sending"
  /\ api' = [api EXCEPT ![a] = IdleApi]
  /\ UNCHANGED <<records, machine, bootId, restart, sync>>

SendAmbiguous(a) ==
  LET k == api[a].kind
  IN /\ api[a].pc = "sending"
     /\ records' = SetState(records, api[a].record, "OUTCOME_UNKNOWN")
     /\ trans' = IF k \in Machines THEN [trans EXCEPT ![k] = "outcome_unknown"] ELSE trans
     /\ api' = [api EXCEPT ![a] = IdleApi]
     /\ UNCHANGED <<applied, pending, reqId, genKnown, bootId, restart, sync>>

NotSent(a) ==
  LET k == api[a].kind
  IN /\ api[a].pc = "sending"
     /\ records' = SetState(records, api[a].record, "NOT_SENT")
     /\ trans' = IF k \in Machines THEN [trans EXCEPT ![k] = "ended"] ELSE trans
     /\ pending' = IF k \in Readable THEN [pending EXCEPT ![k] = None] ELSE pending
     /\ reqId' = IF k = "rows" THEN [reqId EXCEPT ![k] = None] ELSE reqId
     /\ api' = [api EXCEPT ![a] = IdleApi]
     /\ UNCHANGED <<applied, genKnown, bootId, restart, sync>>

-----------------------------------------------------------------------------
(* handle(): the checks that precede the audit record for MODE and ROWMODES. *)

SameValue(k, v) == v = None \/ pending[k] = None \/ v = pending[k]
SameId(k, id) == reqId[k] = None \/ pending[k] = None \/ id = reqId[k]
Admissible(k, id, v) == SameValue(k, v) /\ SameId(k, id)

\* MACK, RMACK.  With nothing pending and an identity already seen, only a new
\* identity that starts from what is applied opens a transaction (another
\* controller's); a late or repeated acceptance does not reopen the old one.
Opens(k, id, old) ==
  pending[k] # None \/ reqId[k] = None \/ (id # reqId[k] /\ old = applied[k])

Accept(k, id, old, req) ==
  /\ k \in Machines /\ id # None /\ Admissible(k, id, req)
  /\ Audit(k, "accepted", id, req, "ACCEPTED")
  /\ IF Opens(k, id, old)
       THEN /\ pending' = [pending EXCEPT ![k] = req]
            /\ reqId' = [reqId EXCEPT ![k] = id]
            /\ trans' = [trans EXCEPT ![k] = "running"]
            /\ UNCHANGED <<applied, genKnown>>
       ELSE UNCHANGED machine
  /\ UNCHANGED <<bootId, restart, sync, api>>

\* MAPP, RMAPP with a generation and a frame boundary.
Commits(k, id, v) == pending[k] = v /\ reqId[k] = id

\* _handle_mode(), applied: MODE sets all rows, so the profile follows; its
\* identity only while no profile is pending.
CommitMode(id, v) ==
  LET free == pending["row_modes"] = None
  IN /\ applied' = [applied EXCEPT !["mode"] = v, !["row_modes"] = v]
     /\ pending' = [pending EXCEPT !["mode"] = None]
     /\ reqId' = [reqId EXCEPT !["row_modes"] = IF free THEN id ELSE @]
     /\ trans' = [trans EXCEPT !["mode"] = "applied",
                               !["row_modes"] = IF free THEN "applied" ELSE @]
     /\ genKnown' = [genKnown EXCEPT !["mode"] = TRUE,
                                     !["row_modes"] = IF free THEN FALSE ELSE @]

\* _handle_row_modes(), applied: a homogeneous profile also sets the mode.
CommitRowModes(id, v) ==
  LET all == v \in Modes
  IN /\ applied' = [applied EXCEPT !["row_modes"] = v, !["mode"] = IF all THEN v ELSE @]
     /\ pending' = [pending EXCEPT !["row_modes"] = None]
     /\ reqId' = [reqId EXCEPT !["mode"] = IF all THEN id ELSE @]
     /\ trans' = [trans EXCEPT !["row_modes"] = "applied",
                               !["mode"] = IF all THEN "ended" ELSE @]
     /\ genKnown' = [genKnown EXCEPT !["row_modes"] = TRUE, !["mode"] = @ /\ ~all]

Apply(k, id, v) ==
  /\ k \in Machines /\ id # None /\ Admissible(k, id, v)
  /\ Audit(k, "applied", id, v, "APPLIED")
  /\ IF Commits(k, id, v)
       THEN (IF k = "mode" THEN CommitMode(id, v) ELSE CommitRowModes(id, v))
       ELSE UNCHANGED machine
  /\ UNCHANGED <<bootId, restart, sync, api>>

\* MERR, RMERR, ERR: the identity and the value may be missing.
Fail(k, id, v) ==
  /\ k \in Machines /\ Admissible(k, id, v)
  /\ Audit(k, "failed", id, v, "ERROR")
  /\ IF id = reqId[k]
       THEN /\ pending' = [pending EXCEPT ![k] = None]
            /\ trans' = [trans EXCEPT ![k] = "ended"]
       ELSE UNCHANGED <<pending, trans>>
  /\ UNCHANGED <<applied, reqId, genKnown, bootId, restart, sync, api>>

-----------------------------------------------------------------------------
(* RCMD, RAPP, ERR of ROWS (_handle_rows()): an error reaches the audit      *)
(* record only.                                                             *)
AcceptRows(id, req) ==
  /\ "rows" \in Kinds /\ id # None
  /\ Audit("rows", "accepted", id, req, "ACCEPTED")
  /\ IF reqId["rows"] \in {None, id}
       THEN /\ pending' = [pending EXCEPT !["rows"] = req]
            /\ reqId' = [reqId EXCEPT !["rows"] = id]
       ELSE UNCHANGED <<pending, reqId>>
  /\ UNCHANGED <<applied, trans, genKnown, bootId, restart, sync, api>>

ApplyRows(id, v) ==
  /\ "rows" \in Kinds /\ id # None
  /\ Audit("rows", "applied", id, v, "APPLIED")
  /\ IF reqId["rows"] = id
       THEN /\ applied' = [applied EXCEPT !["rows"] = v]
            /\ pending' = [pending EXCEPT !["rows"] = None]
            /\ reqId' = [reqId EXCEPT !["rows"] = None]
       ELSE UNCHANGED <<applied, pending, reqId>>
  /\ UNCHANGED <<trans, genKnown, bootId, restart, sync, api>>

FailRows(id) ==
  /\ "rows" \in Kinds
  /\ Audit("rows", "rejected", id, None, "ERROR")
  /\ UNCHANGED <<machine, bootId, restart, sync, api>>

-----------------------------------------------------------------------------
(* Restart: RACK, RAPP state=restarting, RERR; mark_expected_restart().     *)
RestartAccepted(id) ==
  /\ "restart" \in Kinds
  /\ Audit("restart", "accepted", id, None, "ACCEPTED")
  /\ UNCHANGED <<machine, bootId, restart, sync, api>>

Restarting(id) ==
  LET i == MatchRecord(records, "restart", "restarting", id, None)
      one == [SetState(records, i, "EXPECTED_RESTART") EXCEPT ![i].id = IF id = None THEN @ ELSE id]
  IN /\ "restart" \in Kinds /\ i # 0
     /\ records' = SetState(one, MatchRecord(one, "restart", "accepted", id, None), "EXPECTED_RESTART")
     /\ restart' = [on |-> TRUE, id |-> id]
     /\ UNCHANGED <<machine, bootId, sync, api>>

RestartRejected(id) ==
  /\ "restart" \in Kinds
  /\ Audit("restart", "rejected", id, None, "ERROR")
  /\ UNCHANGED <<machine, bootId, restart, sync, api>>

-----------------------------------------------------------------------------
(* Read-back: resync_authoritative(), reached from the MODE, ROWS and       *)
(* ROWMODES snapshot records.                                               *)
SyncWith(k) ==
  /\ syncSeen' = syncSeen \cup {k}
  /\ readBoot' = readBoot \cup {k}
  /\ known' = (syncSeen \cup {k} = Readable)

ReadBack(k, v, id, gen) ==
  /\ k \in Kinds \cap Readable
  /\ records' = IF pending[k] = None THEN records ELSE Resolve(records, k, v = pending[k])
  /\ pending' = [pending EXCEPT ![k] = None]
  /\ applied' = [applied EXCEPT ![k] = v]
  /\ reqId' = IF k \in Machines THEN [reqId EXCEPT ![k] = id] ELSE reqId
  /\ trans' = IF k \in Machines THEN [trans EXCEPT ![k] = "read"] ELSE trans
  /\ genKnown' = IF k \in Machines THEN [genKnown EXCEPT ![k] = gen] ELSE genKnown
  /\ SyncWith(k)
  /\ UNCHANGED <<bootId, restart, api>>

\* MODE with active=NONE: the matrix engine is SAFE or DEGRADED.
ReadDegraded ==
  /\ "mode" \in Kinds
  /\ records' = IF pending["mode"] = None THEN records ELSE Resolve(records, "mode", FALSE)
  /\ pending' = [pending EXCEPT !["mode"] = None]
  /\ trans' = [trans EXCEPT !["mode"] = "ended"]
  /\ known' = FALSE
  /\ UNCHANGED <<applied, reqId, genKnown, bootId, restart, syncSeen, readBoot, api>>

\* observe_mode_frame(), observe_row_modes_frame() behind the guard of
\* SensorArrayRuntime._handle_event(): nothing but a first attachment.
FrameEstablishes(k, v) ==
  /\ k \in Machines
  /\ k = "mode" => v # applied[k]
  /\ \A m \in {"mode", "row_modes"} :
       pending[m] = None /\ trans[m] = "applied" /\ reqId[m] = None /\ ~genKnown[m]
  /\ \E id \in Ids \cup {None}, gen \in BOOLEAN :
       /\ reqId' = [reqId EXCEPT ![k] = id]
       /\ genKnown' = [genKnown EXCEPT ![k] = gen]
  /\ applied' = [applied EXCEPT ![k] = v]
  /\ trans' = [trans EXCEPT ![k] = IF v = applied[k] THEN "applied" ELSE "read"]
  /\ UNCHANGED <<records, pending, bootId, restart, sync, api>>

-----------------------------------------------------------------------------
(* Lifecycle.                                                               *)

\* A seeded fault: a new connection forgets the restart it comes after.
NewConnectionForgets ==
  /\ known' = FALSE /\ syncSeen' = {} /\ readBoot' = {} /\ restart' = NotExpected
  /\ UNCHANGED <<records, machine, bootId, api>>

\* reset_session(), begin_connection(): in-flight writes are ambiguous.
NewConnection ==
  /\ records' = [i \in DOMAIN records |->
       IF records[i].state \in {"REQUESTED", "ACCEPTED"}
         THEN [records[i] EXCEPT !.state = "OUTCOME_UNKNOWN"] ELSE records[i]]
  /\ trans' = [m \in DOMAIN trans |-> IF pending[m] # None THEN "outcome_unknown" ELSE trans[m]]
  /\ known' = FALSE /\ syncSeen' = {} /\ readBoot' = {}
  /\ UNCHANGED <<applied, pending, reqId, genKnown, bootId, restart, api>>

\* observe_boot()
SurvivesAs(r) ==
  IF r.state \notin Open \cup {"EXPECTED_RESTART"} THEN r.state
  ELSE IF restart.on /\ (restart.id = None \/ r.id = restart.id) THEN "COMPLETED_AFTER_REBOOT"
  ELSE "ABORTED_BY_REBOOT"

ObserveBoot(b) ==
  /\ bootId' = b
  /\ IF bootId # None /\ bootId # b
       THEN /\ records' = [i \in DOMAIN records |->
                             [records[i] EXCEPT !.state = SurvivesAs(records[i])]]
            /\ pending' = [k \in Readable |-> None]
            /\ reqId' = [k \in Readable |-> None]
            /\ trans' = [m \in DOMAIN trans |-> "ended"]
            /\ genKnown' = [m \in DOMAIN genKnown |-> FALSE]
            /\ restart' = NotExpected
            /\ readBoot' = {}
       ELSE UNCHANGED <<records, pending, reqId, trans, genKnown, restart, readBoot>>
  /\ known' = FALSE
  /\ UNCHANGED <<applied, syncSeen, api>>

\* timeout_old(): the commands sent more than five seconds ago are the n oldest;
\* late are the state machines that have been pending as long.
TimeoutOld(n, late) ==
  LET old == {i \in 1 .. n : records[i].state \in {"REQUESTED", "ACCEPTED"}}
      expired == {m \in {"mode", "row_modes"} : \/ /\ m \in late /\ pending[m] # None
                                                   /\ trans[m] = "running"
                                                \/ \E i \in old : /\ records[i].kind = m
                                                                  /\ records[i].value = pending[m]}
  IN /\ old # {} \/ expired # {}
     /\ records' = [i \in DOMAIN records |->
          IF i \in old THEN [records[i] EXCEPT !.state = "OUTCOME_UNKNOWN"] ELSE records[i]]
     /\ trans' = [m \in DOMAIN trans |-> IF m \in expired THEN "outcome_unknown" ELSE trans[m]]
     /\ UNCHANGED <<applied, pending, reqId, genKnown, bootId, restart, sync, api>>

-----------------------------------------------------------------------------
MaybeId == Ids \cup {None}
Maybe(k) == Value(k) \cup {None}

Request == \E a \in Api : RequestCheck(a) \/ RequestBegin(a) \/ Sent(a) \/ SendAmbiguous(a) \/ NotSent(a)

Report ==
  \/ \E k \in Machines, id \in MaybeId :
       \/ \E old \in Maybe(k), req \in Value(k) : Accept(k, id, old, req)
       \/ \E v \in Value(k) : Apply(k, id, v)
       \/ \E v \in Maybe(k) : Fail(k, id, v)
  \/ \E id \in MaybeId :
       \/ \E v \in RowCounts : AcceptRows(id, v) \/ ApplyRows(id, v)
       \/ FailRows(id) \/ RestartAccepted(id) \/ Restarting(id) \/ RestartRejected(id)
  \/ \E k \in Kinds \cap Readable : \E v \in Value(k), id \in MaybeId, gen \in BOOLEAN :
       ReadBack(k, v, id, gen)
  \/ ReadDegraded
  \/ \E k \in Machines : \E v \in Value(k) : FrameEstablishes(k, v)

Lifecycle ==
  \/ NewConnection
  \/ \E b \in Boots : ObserveBoot(b)
  \/ \E n \in 0 .. Len(records), late \in SUBSET Machines : TimeoutOld(n, late)

Next == Request \/ Report \/ Lifecycle

Spec == Init /\ [][Next]_vars

-----------------------------------------------------------------------------
Record == [kind: Kinds, value: Values, state: RecordStates, id: MaybeId]

TypeOK ==
  /\ records \in Seq(Record)
  /\ applied \in [Readable -> Values] /\ pending \in [Readable -> Values]
  /\ reqId \in [Readable -> MaybeId]
  /\ trans \in [{"mode", "row_modes"} -> Transitions]
  /\ genKnown \in [{"mode", "row_modes"} -> BOOLEAN]
  /\ bootId \in Boots \cup {None}
  /\ restart \in [on: BOOLEAN, id: MaybeId]
  /\ syncSeen \subseteq Readable /\ readBoot \subseteq Readable
  /\ known \in BOOLEAN
  /\ api \in [Api -> [pc: {"idle", "checked", "sending"}, kind: Kinds \cup {"restart"},
                      value: Values, record: Nat]]

\* One firmware request ID names at most one record of a kind, however reports
\* are repeated, delayed or reordered, so a terminal has one record to close.
RecordIdsUnique ==
  \A i, j \in DOMAIN records :
    records[i].kind = records[j].kind /\ records[i].id = records[j].id /\ records[i].id # None
      => i = j

\* "A later event carrying a different ID must never be allowed to mutate that
\* record" (_match_record()): an identity, once assigned, stays.
RecordIdentityKept ==
  [][\A i \in DOMAIN records : records[i].id # None => records'[i].id = records[i].id]_vars

\* "an accepted MACK never changes appliedMode" (class docstring): what is shown
\* as applied changes to what was pending under the same kind, to what completes
\* the other kind, to a value read back, or to the first frame's.
AppliedFor(k, m) == pending[m] = applied'[k] /\ pending'[m] = None /\ reqId[m] # None
AppliedNeedsAuthority ==
  [][\A k \in {"mode", "row_modes"} :
       applied'[k] # applied[k] =>
         \/ \E m \in {"mode", "row_modes"} : AppliedFor(k, m)
         \/ trans'[k] = "read"]_vars

\* A row profile that is pending is under the five-second watch of timeout_old()
\* or already shown as unknown, whatever MODE transactions complete meanwhile
\* ("never let its MAPP steal the identity of a pending ROWMODES").
Watched == {"running", "outcome_unknown"}
ProfileWatched == pending["row_modes"] # None => trans["row_modes"] \in Watched

\* While a request waits for its first answer, its record is still open, so the
\* acceptance finds a record to name and the timeout one to close.
WaitingHasOpenRecord ==
  \A k \in Machines :
    pending[k] # None /\ reqId[k] = None =>
      \E i \in DOMAIN records : /\ records[i].kind = k /\ records[i].value = pending[k]
                                 /\ records[i].state \in Open

\* An announced restart stays announced until the device comes back under a new
\* boot ID, through the loss of the link in between: its record is then completed
\* and not aborted.
ExpectedRestartIsArmed ==
  \A i \in DOMAIN records : records[i].state = "EXPECTED_RESTART" => restart.on

\* A command record never says APPLIED of a value its state machine rejected.
\* Known not to hold (CommandService_audit.cfg).
AuditFollowsMachine ==
  [][\A i \in DOMAIN records :
       records[i].kind \in Machines /\ records[i].state # "APPLIED" /\ records'[i].state = "APPLIED"
         => applied'[records[i].kind] = records[i].value]_vars

\* The authoritative state is known only when STATE?, ROWS? and ROWMODES? have
\* all been read since the device's last boot and the link's last connection.
\* Known not to hold (CommandService_reboot.cfg).
KnownIsCurrent == known => readBoot = Readable
=============================================================================
