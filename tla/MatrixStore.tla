----------------------------- MODULE MatrixStore -----------------------------
(***************************************************************************)
(* The matrix on display: src/sensorarray_app/store/matrix_store.py, as    *)
(* the parser thread of src/sensorarray_app/app/runtime.py feeds it.  A    *)
(* frame is admitted only behind the gates that the applied transactions   *)
(* (MAPP, RMAPP, RAPP) or the read-back of the device's state have armed.  *)
(*                                                                         *)
(* The device (external) changes its measurement profile and its rows,     *)
(* reports each change once, and sends frames that carry the identities of *)
(* the configuration they were measured under.  Reports and frames travel  *)
(* on two channels whose relative order is not kept (BLE characteristics). *)
(* A frame or a report may be lost, and CommandService may reject a report *)
(* (another controller's), which is the same to the store.                 *)
(***************************************************************************)
EXTENDS Integers, Sequences, FiniteSets

CONSTANTS
  Modes,        \* measurement modes
  CAP,          \* the mode whose frames carry the identity of ROWS
  MIXED,        \* the kind of a frame of a heterogeneous profile
  NRows,        \* rows of the matrix (8)
  SeqRestarts,  \* the device restarts its frame sequence at a MODE transition
  MaxChanges,   \* bound: configuration changes of the device
  MaxSeq,       \* bound: frames the device sends
  MaxInFlight,  \* bound: frames under way
  MaxConnections, \* bound: link epochs
  None          \* Python's None

ASSUME ModesAssumption == CAP \in Modes /\ MIXED \notin Modes
ASSUME NRowsAssumption == NRows \in Nat \ {0}
ASSUME BoundsAssumption ==
  /\ SeqRestarts \in BOOLEAN
  /\ {MaxChanges, MaxSeq, MaxInFlight, MaxConnections} \subseteq Nat
ASSUME NoneAssumption == None \notin Int \cup Modes

Rows == 1 .. NRows
Profiles == [Rows -> Modes]
All(m) == [r \in Rows |-> m]
Homogeneous(p) == \A r \in Rows : p[r] = p[1]
Kind(p) == IF Homogeneous(p) THEN p[1] ELSE MIXED

Ident(gen, id) == [gen |-> gen, id |-> id]
Gate(gen, id, seq) == [gen |-> gen, id |-> id, seq |-> seq]
OpenGate == Gate(None, None, None)
NoId == Ident(None, None)

VARIABLES
  \* the device and the wire
  dev,         \* configuration, identities and frame sequence of the device
  data,        \* frames under way
  reports,     \* reports and answers under way
  asked,       \* queries of the bootstrap answered on this connection (0 .. 3)
  lost,        \* history: a report was lost on this connection
  connections, \* link epochs so far
  link,        \* "up", or "offline" once a session file is imported
  \* CommandService, as far as the store is given it
  cmd,         \* applied mode, rows and profile with their identities
  seen,        \* answers read back on this connection
  \* MatrixStore
  resync,      \* _resync_required
  rowModes,    \* _row_modes
  appliedMode, \* _applied_mode
  activeRows,  \* _active_rows
  geometry,    \* _geometry_known
  rowsGate,    \* _rows_generation, _rows_request_id, _rows_frame_seq
  modeGate,    \* _gate_generation, _gate_request_id, _gate_frame_seq
  profGate,    \* _profile_generation, _profile_request_id, _profile_frame_seq
  latest,      \* _latest: the snapshot on display, or None
  told,        \* history: the last change reported to the store since it was resynced
  parser       \* the frame the parser thread has accepted and not yet committed

device == <<dev, asked, connections, link>>
wire == <<data, reports, lost>>
host == <<cmd, seen>>
gates == <<rowModes, appliedMode, activeRows, geometry, rowsGate, modeGate, profGate>>
store == <<resync, gates, latest, told, parser>>
vars == <<device, wire, host, store>>

\* CommandService.appliedMode, activeRows, appliedRowModes and their identities.
InitialCmd ==
  [mode |-> CAP, modeId |-> NoId,
   rows |-> NRows, rowsId |-> NoId, rowsSeq |-> None,
   profile |-> All(CAP), profId |-> NoId]

Init ==
  /\ \E p \in Profiles :
       dev = [profile |-> p, mode |-> p[1], rows |-> NRows, modeId |-> Ident(0, 0),
              profId |-> Ident(0, 0), rowsId |-> Ident(0, 0), rowsSeq |-> 0, seq |-> 0, changes |-> 0]
  /\ data = <<>> /\ reports = <<>> /\ asked = 0 /\ lost = FALSE
  /\ connections = 1 /\ link = "up"
  /\ cmd = InitialCmd /\ seen = {}
  /\ resync = TRUE   \* the first state event of a session resets it
  /\ rowModes = All(CAP) /\ appliedMode = CAP /\ activeRows = NRows /\ geometry = FALSE
  /\ rowsGate = OpenGate /\ modeGate = OpenGate /\ profGate = OpenGate
  /\ latest = None /\ told = 0 /\ parser = None

-----------------------------------------------------------------------------
(* The device (external).                                                   *)

\* The frame the device would send now.  change is not on the wire: it tells
\* the properties under which configuration the frame was measured.
Frame ==
  [kind |-> Kind(dev.profile), profile |-> dev.profile, rows |-> dev.rows, seq |-> dev.seq,
   rowsId |-> dev.rowsId, modeId |-> dev.modeId, profId |-> dev.profId, change |-> dev.changes]

SendFrame ==
  /\ link = "up"
  /\ dev.seq < MaxSeq /\ Len(data) < MaxInFlight
  /\ data' = Append(data, Frame)
  /\ dev' = [dev EXCEPT !.seq = @ + 1]
  /\ UNCHANGED <<reports, lost, asked, connections, link, host, store>>

Change(new, kind) ==
  /\ link = "up"
  /\ dev.changes < MaxChanges
  /\ dev' = [new EXCEPT !.changes = @ + 1]
  /\ reports' = Append(reports, [kind |-> kind, dev |-> dev'])
  /\ UNCHANGED <<data, lost, asked, connections, link, host, store>>

NewId == dev.changes + 1
Bump(ident) == Ident(ident.gen + 1, NewId)

\* MODE sets all rows; the profile's own generation advances too and is not
\* published.
ChangeMode == \E m \in Modes :
  Change([dev EXCEPT !.profile = All(m), !.mode = m, !.modeId = Bump(@), !.profId = Bump(@),
                     !.seq = IF SeqRestarts THEN 0 ELSE @], "MAPP")
ChangeProfile == \E p \in Profiles :
  Change([dev EXCEPT !.profile = p, !.profId = Bump(@),
                     !.mode = IF Homogeneous(p) THEN p[1] ELSE @,
                     !.modeId = IF Homogeneous(p) THEN Bump(@) ELSE @], "RMAPP")
ChangeRows == \E n \in Rows :
  Change([dev EXCEPT !.rows = n, !.rowsId = Bump(@), !.rowsSeq = dev.seq], "RAPP")

\* DeviceSynchronizer asks STATE?, ROWS? and ROWMODES? in turn.
Queries == <<"STATE", "ROWS", "ROWMODES">>
Answer ==
  /\ link = "up" /\ asked < 3
  /\ asked' = asked + 1
  /\ reports' = Append(reports, [kind |-> Queries[asked + 1], dev |-> dev])
  /\ UNCHANGED <<dev, connections, link, data, lost, host, store>>

LoseFrame ==
  /\ data # <<>>
  /\ data' = Tail(data)
  /\ UNCHANGED <<device, reports, lost, host, store>>

LoseReport ==
  /\ reports # <<>> /\ Head(reports).kind \in {"MAPP", "RMAPP", "RAPP"}
  /\ reports' = Tail(reports) /\ lost' = TRUE
  /\ UNCHANGED <<device, data, host, store>>

-----------------------------------------------------------------------------
(* The gate operations of the store, on a record of its state.              *)
S == [resync |-> resync, rowModes |-> rowModes, appliedMode |-> appliedMode,
      activeRows |-> activeRows, geometry |-> geometry, rowsGate |-> rowsGate,
      modeGate |-> modeGate, profGate |-> profGate, latest |-> latest]

Becomes(s) ==
  /\ resync' = s.resync /\ rowModes' = s.rowModes /\ appliedMode' = s.appliedMode
  /\ activeRows' = s.activeRows /\ geometry' = s.geometry
  /\ rowsGate' = s.rowsGate /\ modeGate' = s.modeGate /\ profGate' = s.profGate
  /\ latest' = s.latest

\* Seeded faults for the checks: a report whose generation is taken for the mode's,
\* a profile change that keeps the old matrix, a boundary off by one, rows counted
\* from zero.
RowProfileGateForges(s, ident, seq) ==
  Gate(ident.gen, IF ident.id = None THEN s.modeGate.id ELSE ident.id,
       IF seq = None THEN s.modeGate.seq ELSE seq)
ApplyRowModesKeepsLatest(s, p, ident, seq) ==
  [s EXCEPT !.rowModes = p, !.profGate = Gate(ident.gen, ident.id, seq),
            !.appliedMode = IF Homogeneous(p) THEN p[1] ELSE @,
            !.modeGate = IF Homogeneous(p) THEN Gate(None, ident.id, seq) ELSE @]
BehindLoosely(seq, gate) == gate.seq = None \/ seq + 1 >= gate.seq
ApplyRowsFromZero(s, n, ident, seq) ==
  [s EXCEPT !.activeRows = n - 1, !.geometry = TRUE,
            !.rowsGate = Gate(ident.gen, ident.id, seq), !.latest = None]

Quarantined(snap) == IF snap = None THEN None ELSE [snap EXCEPT !.live = FALSE]
Quarantine(s) == [s EXCEPT !.latest = Quarantined(@)]

\* apply_measurement_mode()
ApplyMode(s, m, ident, seq) ==
  [s EXCEPT !.appliedMode = m, !.modeGate = Gate(ident.gen, ident.id, seq),
            !.rowModes = All(m), !.profGate = Gate(None, ident.id, seq),
            !.latest = IF m = s.appliedMode THEN @ ELSE None]

\* The V/R gate after a homogeneous profile: another request's generation is
\* unknown, and an identity or boundary the report lacks erases nothing.
RowProfileGate(s, ident, seq) ==
  LET old == s.modeGate
  IN Gate(IF ident.id = None \/ ident.id = old.id THEN old.gen ELSE None,
          IF ident.id = None THEN old.id ELSE ident.id,
          IF seq = None THEN old.seq ELSE seq)

\* apply_row_modes()
ApplyRowModes(s, p, ident, seq) ==
  LET hom == Homogeneous(p)
      changed == p # s.rowModes \/ (hom /\ p[1] # s.appliedMode)
  IN [s EXCEPT !.rowModes = p, !.profGate = Gate(ident.gen, ident.id, seq),
               !.appliedMode = IF hom THEN p[1] ELSE @,
               !.modeGate = IF hom THEN RowProfileGate(s, ident, seq) ELSE @,
               !.latest = IF changed THEN None ELSE @]

\* apply_rows()
ApplyRows(s, n, ident, seq) ==
  LET hom == Homogeneous(s.rowModes)
      changed == n # s.activeRows \/ (hom /\ s.rowModes[1] # s.appliedMode)
  IN [s EXCEPT !.activeRows = n, !.geometry = TRUE,
               !.rowsGate = Gate(ident.gen, ident.id, seq),
               !.appliedMode = IF hom THEN s.rowModes[1] ELSE @,
               !.latest = IF changed THEN None ELSE @]

\* complete_resync()
CompleteResync(s, c) ==
  LET m == ApplyMode(s, c.mode, c.modeId, None)
      n == ApplyRows(m, c.rows, c.rowsId, c.rowsSeq)
      p == ApplyRowModes(n, c.profile, c.profId, None)
  IN [p EXCEPT !.resync = FALSE]

\* reset_session()
ResetSession(s) ==
  [s EXCEPT !.resync = TRUE, !.geometry = FALSE,
            !.rowsGate = OpenGate, !.modeGate = OpenGate, !.profGate = OpenGate,
            !.latest = Quarantined(@)]

-----------------------------------------------------------------------------
(* Frames: _accept(), _accept_mixed(), _commit().                           *)
Behind(seq, gate) == gate.seq = None \/ seq >= gate.seq
Same(ident, gate) ==
  (gate.gen = None \/ ident.gen = gate.gen) /\ (gate.id = None \/ ident.id = gate.id)

AcceptMixed(s, f) ==
  /\ s.geometry => f.rows = s.activeRows
  /\ Behind(f.seq, s.rowsGate) /\ Same(f.rowsId, s.rowsGate)
  /\ \A r \in 1 .. f.rows : f.profile[r] = s.rowModes[r]
  /\ Behind(f.seq, s.profGate) /\ Same(f.profId, s.profGate)

AcceptHomogeneous(s, f) ==
  /\ s.rowModes = All(f.kind) /\ s.appliedMode = f.kind
  /\ s.geometry => f.rows = s.activeRows
  /\ Behind(f.seq, s.rowsGate) /\ Behind(f.seq, s.modeGate)
  /\ IF f.kind = CAP THEN Same(f.rowsId, s.rowsGate) ELSE Same(f.modeId, s.modeGate)

Accepts(s, f) ==
  ~s.resync /\ (IF f.kind = MIXED THEN AcceptMixed(s, f) ELSE AcceptHomogeneous(s, f))

\* The row modes of a frame; rows it does not measure keep those of p.
Overlay(f, p) == [r \in Rows |-> IF f.kind # MIXED \/ r > f.rows THEN p[r] ELSE f.profile[r]]

\* Before anything is known of the mode and the profile, a frame of another mode
\* or a mixed frame tells CommandService and the store (_handle_event()).
FirstAttach == cmd.modeId = NoId /\ cmd.profId = NoId /\ latest = None
Observes(f) == FirstAttach /\ f.kind \notin {CAP, cmd.mode}

CmdObserving(f) ==
  IF f.kind = MIXED THEN [cmd EXCEPT !.profile = Overlay(f, @), !.profId = f.profId]
                    ELSE [cmd EXCEPT !.mode = f.kind, !.modeId = f.modeId]
StoreObserving(f) ==
  IF f.kind # MIXED THEN ApplyMode(S, f.kind, f.modeId, f.seq)
  ELSE IF Overlay(f, cmd.profile) = cmd.profile THEN S
  ELSE ApplyRowModes(S, Overlay(f, cmd.profile), f.profId, f.seq)

HandleFrame ==
  /\ parser = None /\ data # <<>>
  /\ LET f == Head(data)
         s == IF Observes(f) THEN StoreObserving(f) ELSE S
     IN /\ cmd' = IF Observes(f) THEN CmdObserving(f) ELSE cmd
        /\ IF Accepts(s, f)
             THEN /\ parser' = [frame |-> f, label |-> Overlay(f, s.rowModes),
                                profId |-> IF f.kind = MIXED THEN f.profId
                                           ELSE Ident(s.profGate.gen, s.profGate.id)]
                  /\ Becomes(s)
             ELSE parser' = None /\ Becomes(Quarantine(s))
  /\ data' = Tail(data)
  /\ UNCHANGED <<device, reports, lost, seen, told>>

\* _commit() takes the lock anew: other threads ran since the frame was accepted.
Commit ==
  /\ parser # None
  /\ LET f == parser.frame
     IN /\ activeRows' = f.rows /\ geometry' = TRUE
        /\ rowsGate' = IF f.kind \in {MIXED, CAP} THEN Gate(f.rowsId.gen, f.rowsId.id, rowsGate.seq)
                                                  ELSE rowsGate
        /\ rowModes' = parser.label
        /\ profGate' = Gate(parser.profId.gen, parser.profId.id, profGate.seq)
        /\ latest' = [kind |-> f.kind, profile |-> parser.label, rows |-> f.rows,
                      change |-> f.change, live |-> TRUE]
  /\ parser' = None
  /\ UNCHANGED <<device, wire, host, resync, appliedMode, modeGate, told>>

-----------------------------------------------------------------------------
(* Reports: SensorArrayRuntime._handle_event().                             *)

\* What CommandService holds after a report or an answer.
CmdAfter(r) ==
  LET d == r.dev
      hom == Homogeneous(d.profile)
  IN CASE r.kind = "MAPP" ->
            [cmd EXCEPT !.mode = d.mode, !.modeId = d.modeId,
                        !.profile = d.profile, !.profId = Ident(None, d.profId.id)]
       [] r.kind = "RMAPP" ->
            [cmd EXCEPT !.profile = d.profile, !.profId = d.profId,
                        !.mode = d.mode,
                        !.modeId = IF hom THEN Ident(None, d.profId.id) ELSE @]
       [] r.kind \in {"RAPP", "ROWS"} ->
            [cmd EXCEPT !.rows = d.rows, !.rowsId = d.rowsId, !.rowsSeq = d.rowsSeq]
       [] r.kind = "STATE" ->
            [cmd EXCEPT !.mode = d.mode, !.modeId = d.modeId]
       [] r.kind = "ROWMODES" -> [cmd EXCEPT !.profile = d.profile, !.profId = d.profId]

\* The store is told of what was applied, and of what was read back only while
\* it waits for a resync.
StoreAfter(r, c, known) ==
  LET s == IF known /\ resync THEN CompleteResync(S, c) ELSE S
      d == r.dev
  IN CASE r.kind = "MAPP" -> ApplyMode(s, d.mode, d.modeId, d.seq)
       [] r.kind = "RMAPP" -> ApplyRowModes(s, d.profile, d.profId, d.seq)
       [] r.kind = "RAPP" -> ApplyRows(s, d.rows, d.rowsId, d.rowsSeq)
       [] OTHER -> s

HandleReport ==
  /\ parser = None /\ reports # <<>>
  /\ LET r == Head(reports)
     IN /\ cmd' = CmdAfter(r)
        /\ seen' = IF r.kind \in {"STATE", "ROWS", "ROWMODES"} THEN seen \cup {r.kind} ELSE seen
        /\ told' = IF seen' # seen THEN 0
                   ELSE IF r.kind \in {"MAPP", "RMAPP", "RAPP"} /\ ~resync THEN r.dev.changes ELSE told
        /\ Becomes(StoreAfter(r, cmd', seen' = {"STATE", "ROWS", "ROWMODES"}))
  /\ reports' = Tail(reports)
  /\ UNCHANGED <<device, data, lost, parser>>

\* The link was lost and is back: begin_connection() of both.
Reconnect ==
  /\ link = "up" /\ parser = None
  /\ connections < MaxConnections
  /\ connections' = connections + 1
  /\ data' = <<>> /\ reports' = <<>> /\ lost' = FALSE /\ asked' = 0
  /\ seen' = {}
  /\ Becomes([Quarantine(S) EXCEPT !.resync = TRUE])
  /\ told' = 0
  /\ UNCHANGED <<dev, link, cmd, parser>>

-----------------------------------------------------------------------------
(* API threads.                                                             *)
Clear ==
  /\ latest # None
  /\ latest' = None
  /\ UNCHANGED <<device, wire, host, resync, gates, told, parser>>

\* import_session_file() disconnects and resets the store; what it then replays
\* from the file is not modelled.
ImportReset ==
  /\ link = "up"
  /\ link' = "offline"
  /\ data' = <<>> /\ reports' = <<>>
  /\ Becomes(ResetSession(S))
  /\ UNCHANGED <<dev, asked, connections, lost, host, told, parser>>

Next ==
  \/ SendFrame \/ ChangeMode \/ ChangeProfile \/ ChangeRows \/ Answer \/ LoseFrame \/ LoseReport
  \/ HandleFrame \/ Commit \/ HandleReport \/ Reconnect
  \/ Clear \/ ImportReset

Spec == Init /\ [][Next]_vars
-----------------------------------------------------------------------------
Identities == [gen: Nat \cup {None}, id: Nat \cup {None}]
Gates == [gen: Nat \cup {None}, id: Nat \cup {None}, seq: Nat \cup {None}]
Device == [profile: Profiles, mode: Modes, rows: Rows, modeId: Identities, profId: Identities,
           rowsId: Identities, rowsSeq: Nat, seq: Nat, changes: Nat]
FrameType == [kind: Modes \cup {MIXED}, profile: Profiles, rows: Rows, seq: Nat,
              rowsId: Identities, modeId: Identities, profId: Identities, change: Nat]
Snapshot == [kind: Modes \cup {MIXED}, profile: Profiles, rows: Rows, change: Nat, live: BOOLEAN]

TypeOK ==
  /\ dev \in Device /\ data \in Seq(FrameType)
  /\ reports \in Seq([kind: {"MAPP", "RMAPP", "RAPP", "STATE", "ROWS", "ROWMODES"}, dev: Device])
  /\ asked \in 0 .. 3 /\ lost \in BOOLEAN
  /\ connections \in Nat /\ link \in {"up", "offline"}
  /\ cmd \in [mode: Modes, modeId: Identities, rows: Rows, rowsId: Identities,
              rowsSeq: Nat \cup {None}, profile: Profiles, profId: Identities]
  /\ seen \subseteq {"STATE", "ROWS", "ROWMODES"}
  /\ resync \in BOOLEAN /\ rowModes \in Profiles /\ appliedMode \in Modes
  /\ activeRows \in Rows /\ geometry \in BOOLEAN
  /\ {rowsGate, modeGate, profGate} \subseteq Gates
  /\ latest \in Snapshot \cup {None} /\ told \in Nat
  /\ parser = None \/ parser \in [frame: FrameType, label: Profiles, profId: Identities]

Live == latest # None /\ latest.live

\* What is live is known: nothing is while the store waits for STATE?, ROWS? and
\* ROWMODES?, and a homogeneous matrix is of the applied mode and profile.
LiveIsKnown ==
  /\ link = "up" /\ resync => ~Live
  /\ Live /\ latest.kind # MIXED => rowModes = All(latest.kind) /\ appliedMode = latest.kind

\* The same also across the import of a session file, whose reset may fall
\* between a live frame's acceptance and its commit.  Known not to hold
\* (MatrixStore_import.cfg).
QuarantineSurvivesImport == resync => ~Live

\* "Reject old/mismatched frames after that boundary" (docs/measurement-protocol.md):
\* after a change is reported as applied, no frame measured before it goes live.
NoOldFrameAdmitted ==
  [][latest' # latest /\ latest' # None /\ latest'.live => latest'.change >= told]_vars

\* The gates fit the device: once every report has arrived, the frame the device
\* sends next is admitted, so no combination of MODE, ROWMODES, ROWS and resync
\* leaves the display in quarantine for ever.
GateAdmitsCurrent ==
  link = "up" /\ ~resync /\ ~lost /\ reports = <<>> /\ parser = None => Accepts(S, Frame)

\* "Never expose values or a colour domain from the previous physical quantity
\* while waiting for the first target-mode frame": what is live has the row modes
\* that were applied.  Known not to hold: the run MatrixStore_setall.
LiveIsApplied == Live => latest.profile = rowModes
=============================================================================
