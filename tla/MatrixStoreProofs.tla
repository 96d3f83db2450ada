-------------------------- MODULE MatrixStoreProofs --------------------------
(***************************************************************************)
(* What the matrix on display promises, for every number of rows, modes,   *)
(* frames, reports, configuration changes and link epochs: it is type      *)
(* correct, what is live is known (whatever the device does), and, for a   *)
(* device whose frame sequence a MODE transition does not restart, no      *)
(* frame older than a reported change goes live and the gates admit the    *)
(* device's frames once it is quiet.                                       *)
(*                                                                         *)
(* Three invariants are proved one on the other.                           *)
(*  - Known: the store's own state, without a premise.                     *)
(*  - Barred: each frame under way that is older than the last change told *)
(*    to the store is behind one of the gates that its kind must pass.     *)
(*  - Tracked: there is a view, the device as the last processed report    *)
(*    showed it, which the reports still under way lead to the device and  *)
(*    with which the gates agree.                                          *)
(***************************************************************************)
EXTENDS MatrixStore, SequenceTheorems, TLAPS

MaybeNat == Nat \cup {None}

\* The state of the store as a record, of what type it is.
StoreType == [resync: BOOLEAN, rowModes: Profiles, appliedMode: Modes, activeRows: Rows,
              geometry: BOOLEAN, rowsGate: Gates, modeGate: Gates, profGate: Gates,
              latest: Snapshot \cup {None}]
CmdType == [mode: Modes, modeId: Identities, rows: Rows, rowsId: Identities,
            rowsSeq: MaybeNat, profile: Profiles, profId: Identities]
ReportKinds == {"MAPP", "RMAPP", "RAPP", "STATE", "ROWS", "ROWMODES"}
ReportType == [kind: ReportKinds, dev: Device]
ParserType == [frame: FrameType, label: Profiles, profId: Identities]
Known3 == {"STATE", "ROWS", "ROWMODES"}

\* The identities a device publishes are numbers.
Numbered == [gen: Nat, id: Nat]
DevIds(d) == d.modeId \in Numbered /\ d.profId \in Numbered /\ d.rowsId \in Numbered

LiveIn(s) == s.latest # None /\ s.latest.live
LiveFits(s) ==
  LiveIn(s) /\ s.latest.kind # MIXED =>
    s.rowModes = All(s.latest.kind) /\ s.appliedMode = s.latest.kind

\* What the parser has accepted and not yet committed fits the gates it passed.
\* The import of a file may reset the gates in between, but not the row modes.
ParserLabels ==
  parser # None =>
    /\ parser.label = rowModes
    /\ parser.frame.kind # MIXED => rowModes = All(parser.frame.kind)
                                    /\ appliedMode = parser.frame.kind
ParserPassed ==
  parser # None =>
    LET f == parser.frame
    IN /\ geometry => f.rows = activeRows
       /\ f.kind \in {MIXED, CAP} => Same(f.rowsId, rowsGate)
       /\ IF f.kind = MIXED THEN parser.profId = f.profId /\ Same(f.profId, profGate)
                            ELSE parser.profId = Ident(profGate.gen, profGate.id)

\* The first invariant: no premise on the device.
Known ==
  /\ TypeOK
  /\ DevIds(dev)
  /\ \A i \in DOMAIN reports : DevIds(reports[i].dev)
  /\ link = "up" /\ resync => ~Live /\ parser = None
  /\ link = "up" => (resync <=> seen # Known3)
  /\ link = "offline" => data = <<>> /\ reports = <<>>
  /\ "STATE" \in seen => cmd.modeId # NoId
  /\ LiveFits(S)
  /\ ParserLabels
  /\ link = "up" => ParserPassed

-----------------------------------------------------------------------------
(* Frames and reports under way, of a device whose sequence only grows.     *)
Applied == {"MAPP", "RMAPP", "RAPP"}
WireOrder ==
  /\ told <= dev.changes
  /\ \A i \in DOMAIN data : data[i].seq < dev.seq /\ data[i].change <= dev.changes
  /\ \A i \in DOMAIN reports : /\ reports[i].dev.changes <= dev.changes
                               /\ reports[i].kind = "RAPP" =>
                                    reports[i].dev.rowsSeq = reports[i].dev.seq
  /\ \A i \in DOMAIN reports, j \in DOMAIN data :
       /\ reports[i].kind \in Applied
       /\ data[j].change < reports[i].dev.changes
       => data[j].seq < reports[i].dev.seq

Beyond(seq, gate) == gate.seq # None /\ seq < gate.seq
BarredBy(s, f) ==
  \/ Beyond(f.seq, s.rowsGate)
  \/ f.kind = MIXED /\ Beyond(f.seq, s.profGate)
  \/ f.kind # MIXED /\ (Beyond(f.seq, s.modeGate) \/ ~Homogeneous(s.rowModes))

\* The second invariant.
Barred ==
  /\ WireOrder
  /\ link = "up" /\ resync => told = 0
  /\ \A i \in DOMAIN data : data[i].change < told => BarredBy(S, data[i])
  /\ parser # None => parser.frame.change >= told

-----------------------------------------------------------------------------
(* The device as a report shows it, and what may have happened before.      *)

\* Nothing but frames.
Drift(d, e) ==
  /\ e.profile = d.profile /\ e.mode = d.mode /\ e.modeId = d.modeId /\ e.profId = d.profId
  /\ e.rows = d.rows /\ e.rowsId = d.rowsId /\ e.rowsSeq = d.rowsSeq
  /\ e.changes = d.changes /\ e.seq >= d.seq

SameRows(d, e) == e.rows = d.rows /\ e.rowsId = d.rowsId /\ e.rowsSeq = d.rowsSeq
SameModes(d, e) ==
  e.profile = d.profile /\ e.mode = d.mode /\ e.modeId = d.modeId /\ e.profId = d.profId

\* The report r is the next one of a device that was d.
Follows(d, r) ==
  LET e == r.dev
  IN /\ e.seq >= d.seq
     /\ r.kind \in Known3 => Drift(d, e)
     /\ r.kind \in Applied => e.changes > d.changes
     /\ r.kind = "MAPP" => SameRows(d, e) /\ e.profile = All(e.mode)
     /\ r.kind = "RMAPP" => /\ SameRows(d, e) /\ e.profId.id = e.changes
                            /\ ~Homogeneous(e.profile) => e.mode = d.mode /\ e.modeId = d.modeId
     /\ r.kind = "RAPP" => SameModes(d, e)

Before(v, q, i) == IF i = 1 THEN v ELSE q[i-1].dev
Leads(v, q, d) ==
  /\ \A i \in DOMAIN q : Follows(Before(v, q, i), q[i])
  /\ Drift(Before(v, q, Len(q) + 1), d)

\* A homogeneous profile is a mode: it was set by the transaction the mode was.
DeviceFits(d) ==
  /\ DevIds(d)
  /\ d.modeId.id <= d.changes /\ d.profId.id <= d.changes
  /\ d.rowsSeq <= d.seq
  /\ Homogeneous(d.profile) => d.modeId.id = d.profId.id /\ d.mode = d.profile[1]

\* A profile identity is given once.
Agree(x, y) == x.profId.id = y.profId.id => x.profId = y.profId
Frames == {data[i] : i \in DOMAIN data} \cup (IF parser = None THEN {} ELSE {parser.frame})
\* d is a state the device e was in, and fs are frames of that device.
PlacedAt(d, e, fs) ==
  /\ DeviceFits(d) /\ d.changes <= e.changes /\ Agree(d, e)
  /\ \A f \in fs : Agree(f, d)
Placed(d) == PlacedAt(d, dev, Frames)
FramesNumbered == \A f \in Frames : f.profId.id \in Nat /\ f.profId.id <= dev.changes

Names(ident, x) == ident.id = x.id /\ (ident.gen = None \/ ident.gen = x.gen)
NotAfter(gate, n) == gate.seq = None \/ gate.seq <= n

\* The gates of a store that is not waiting for a resync fit the view.
Fits(s, v) ==
  /\ s.geometry /\ s.activeRows = v.rows /\ s.rowModes = v.profile
  /\ s.rowsGate.gen = v.rowsId.gen /\ s.rowsGate.id = v.rowsId.id
  /\ NotAfter(s.rowsGate, v.seq) /\ NotAfter(s.modeGate, v.seq) /\ NotAfter(s.profGate, v.seq)
  /\ Names(s.profGate, v.profId)
  /\ s.modeGate.id \in Nat /\ s.modeGate.id <= v.changes
  /\ Homogeneous(v.profile) => s.appliedMode = v.profile[1] /\ Names(s.modeGate, v.modeId)

\* What CommandService has read back on this connection fits the view.
ReadBack(c, k, v) ==
  /\ "ROWS" \in k => c.rows = v.rows /\ c.rowsId = v.rowsId /\ c.rowsSeq = v.rowsSeq
  /\ "ROWMODES" \in k => c.profile = v.profile /\ Names(c.profId, v.profId)
  /\ "STATE" \in k => Names(c.modeId, v.modeId)

ViewFits(v) ==
  /\ Placed(v)
  /\ \A i \in DOMAIN reports : Placed(reports[i].dev)
  /\ Leads(v, reports, dev)
  /\ ReadBack(cmd, seen, v)
  /\ ~resync => Fits(S, v)

\* The third invariant.
Tracked ==
  /\ Placed(dev) /\ FramesNumbered
  /\ link = "up" /\ ~lost => \E v \in Device : ViewFits(v)

-----------------------------------------------------------------------------
(* Profiles, gates and frames                                               *)

LEMMA RowFacts == 1 \in Rows /\ Rows \subseteq Nat /\ NRows \in Rows
  BY NRowsAssumption DEF Rows

LEMMA AllFacts ==
  ASSUME NEW m \in Modes
  PROVE  All(m) \in Profiles /\ Homogeneous(All(m)) /\ All(m)[1] = m
  BY RowFacts DEF All, Profiles, Homogeneous

LEMMA KindFacts ==
  \A p \in Profiles :
         /\ Kind(p) \in Modes \cup {MIXED}
         /\ Homogeneous(p) <=> Kind(p) # MIXED
         /\ Homogeneous(p) => Kind(p) = p[1] /\ p = All(p[1]) /\ p[1] \in Modes
<1> TAKE p \in Profiles
<1>1. p[1] \in Modes /\ p[1] # MIXED
  BY RowFacts, ModesAssumption DEF Profiles
<1>2. Homogeneous(p) => p = All(p[1])
  BY DEF Homogeneous, All, Profiles
<1> QED
  BY <1>1, <1>2 DEF Kind

LEMMA NoneFacts == None \notin Nat /\ None \notin Modes /\ None \in MaybeNat
  BY NoneAssumption DEF MaybeNat

LEMMA IdentType ==
  ASSUME NEW g \in MaybeNat, NEW i \in MaybeNat
  PROVE  Ident(g, i) \in Identities
  BY DEF MaybeNat, Ident, Identities

LEMMA GateType ==
  ASSUME NEW g \in MaybeNat, NEW i \in MaybeNat, NEW q \in MaybeNat
  PROVE  Gate(g, i, q) \in Gates
  BY DEF MaybeNat, Gate, Gates

LEMMA NoIdType == NoId \in Identities /\ OpenGate \in Gates
  BY IdentType, GateType DEF MaybeNat, NoId, OpenGate

LEMMA IdentFields ==
  ASSUME NEW x \in Identities
  PROVE  x.gen \in MaybeNat /\ x.id \in MaybeNat
  BY DEF MaybeNat, Identities

LEMMA GateFields ==
  ASSUME NEW x \in Gates
  PROVE  x.gen \in MaybeNat /\ x.id \in MaybeNat /\ x.seq \in MaybeNat
  BY DEF MaybeNat, Gates

LEMMA QuarantinedType ==
  ASSUME NEW snap \in Snapshot \cup {None}
  PROVE  /\ Quarantined(snap) \in Snapshot \cup {None}
         /\ ~(Quarantined(snap) # None /\ Quarantined(snap).live)
<1>1. CASE snap = None
  BY <1>1 DEF Quarantined
<1>2. CASE snap # None
  <2>1. snap \in Snapshot
    BY <1>2
  <2>2. Quarantined(snap) = [snap EXCEPT !.live = FALSE]
    BY <1>2 DEF Quarantined
  <2>3. Quarantined(snap) \in Snapshot /\ Quarantined(snap).live = FALSE
    BY <2>1, <2>2 DEF Snapshot
  <2> QED BY <2>3
<1> QED
  BY <1>1, <1>2

-----------------------------------------------------------------------------
(* The gate operations on the state of the store, field by field            *)

LEMMA StoreFields ==
  ASSUME NEW s \in StoreType
  PROVE  /\ s.resync \in BOOLEAN /\ s.rowModes \in Profiles /\ s.appliedMode \in Modes
         /\ s.activeRows \in Rows /\ s.geometry \in BOOLEAN
         /\ s.rowsGate \in Gates /\ s.modeGate \in Gates /\ s.profGate \in Gates
         /\ s.latest \in Snapshot \cup {None}
  BY DEF StoreType

LEMMA ApplyModeIs ==
  ASSUME NEW s \in StoreType, NEW m \in Modes, NEW ident \in Identities,
         NEW seq \in MaybeNat
  PROVE  LET t == ApplyMode(s, m, ident, seq)
         IN  /\ t \in StoreType
             /\ t.resync = s.resync /\ t.activeRows = s.activeRows /\ t.geometry = s.geometry
             /\ t.rowsGate = s.rowsGate
             /\ t.appliedMode = m /\ t.rowModes = All(m)
             /\ t.modeGate = Gate(ident.gen, ident.id, seq)
             /\ t.profGate = Gate(None, ident.id, seq)
             /\ t.latest = IF m = s.appliedMode THEN s.latest ELSE None
<1>1. Gate(ident.gen, ident.id, seq) \in Gates /\ Gate(None, ident.id, seq) \in Gates
  BY GateType, IdentFields, NoneFacts
<1>2. All(m) \in Profiles
  BY AllFacts
<1> QED
  BY <1>1, <1>2 DEF ApplyMode, StoreType

LEMMA ApplyRowModesIs ==
  \A s \in StoreType, p \in Profiles, ident \in Identities, seq \in MaybeNat :
         LET t == ApplyRowModes(s, p, ident, seq)
         IN  /\ t \in StoreType
             /\ t.resync = s.resync /\ t.activeRows = s.activeRows /\ t.geometry = s.geometry
             /\ t.rowsGate = s.rowsGate
             /\ t.rowModes = p /\ t.profGate = Gate(ident.gen, ident.id, seq)
             /\ Homogeneous(p) => /\ t.appliedMode = p[1]
                                  /\ t.modeGate = RowProfileGate(s, ident, seq)
             /\ ~Homogeneous(p) => /\ t.appliedMode = s.appliedMode
                                   /\ t.modeGate = s.modeGate
             /\ t.latest # None => /\ t.latest = s.latest /\ t.rowModes = s.rowModes
                                   /\ t.appliedMode = s.appliedMode
<1> TAKE s \in StoreType, p \in Profiles, ident \in Identities, seq \in MaybeNat
<1>1. Gate(ident.gen, ident.id, seq) \in Gates
  BY GateType, IdentFields
<1>2. RowProfileGate(s, ident, seq) \in Gates
  BY GateType, IdentFields, GateFields, StoreFields, NoneFacts DEF RowProfileGate
<1>3. p[1] \in Modes
  BY RowFacts DEF Profiles
<1> QED
  BY <1>1, <1>2, <1>3 DEF ApplyRowModes, StoreType

LEMMA ApplyRowsIs ==
  \A s \in StoreType, n \in Rows, ident \in Identities, seq \in MaybeNat :
         LET t == ApplyRows(s, n, ident, seq)
         IN  /\ t \in StoreType
             /\ t.resync = s.resync /\ t.activeRows = n /\ t.geometry = TRUE
             /\ t.rowsGate = Gate(ident.gen, ident.id, seq)
             /\ t.rowModes = s.rowModes /\ t.modeGate = s.modeGate /\ t.profGate = s.profGate
             /\ Homogeneous(s.rowModes) => t.appliedMode = s.rowModes[1]
             /\ ~Homogeneous(s.rowModes) => t.appliedMode = s.appliedMode
             /\ t.latest # None => /\ t.latest = s.latest
                                   /\ t.appliedMode = s.appliedMode
<1> TAKE s \in StoreType, n \in Rows, ident \in Identities, seq \in MaybeNat
<1>1. Gate(ident.gen, ident.id, seq) \in Gates
  BY GateType, IdentFields
<1>2. s.rowModes[1] \in Modes
  BY RowFacts, StoreFields DEF Profiles
<1> QED
  BY <1>1, <1>2 DEF ApplyRows, StoreType

LEMMA QuarantineIs ==
  ASSUME NEW s \in StoreType
  PROVE  LET t == Quarantine(s)
         IN  /\ t \in StoreType /\ ~LiveIn(t)
             /\ t.resync = s.resync /\ t.activeRows = s.activeRows /\ t.geometry = s.geometry
             /\ t.rowsGate = s.rowsGate /\ t.modeGate = s.modeGate /\ t.profGate = s.profGate
             /\ t.rowModes = s.rowModes /\ t.appliedMode = s.appliedMode
<1>1. /\ Quarantined(s.latest) \in Snapshot \cup {None}
      /\ ~(Quarantined(s.latest) # None /\ Quarantined(s.latest).live)
  BY QuarantinedType, StoreFields
<1> QED
  BY <1>1 DEF Quarantine, StoreType, LiveIn

LEMMA ResetSessionIs ==
  ASSUME NEW s \in StoreType
  PROVE  LET t == ResetSession(s)
         IN  /\ t \in StoreType /\ ~LiveIn(t)
             /\ t.resync = TRUE /\ t.activeRows = s.activeRows /\ t.geometry = FALSE
             /\ t.rowModes = s.rowModes /\ t.appliedMode = s.appliedMode
<1>1. /\ Quarantined(s.latest) \in Snapshot \cup {None}
      /\ ~(Quarantined(s.latest) # None /\ Quarantined(s.latest).live)
  BY QuarantinedType, StoreFields
<1> QED
  BY <1>1, NoIdType DEF ResetSession, StoreType, LiveIn

\* An operation shows nothing new, and keeps a homogeneous matrix in its mode.
Gently(s, t) ==
  /\ t \in StoreType
  /\ LiveIn(t) => LiveIn(s) /\ t.latest = s.latest
  /\ LiveFits(s) => LiveFits(t)

LEMMA GentlyTwice ==
  ASSUME NEW s, NEW t, NEW u, Gently(s, t), Gently(t, u)
  PROVE  Gently(s, u)
  BY DEF Gently

LEMMA ModeGently ==
  ASSUME NEW s \in StoreType, NEW m \in Modes, NEW ident \in Identities,
         NEW seq \in MaybeNat
  PROVE  Gently(s, ApplyMode(s, m, ident, seq))
<1> DEFINE t == ApplyMode(s, m, ident, seq)
<1>1. /\ t \in StoreType /\ t.appliedMode = m /\ t.rowModes = All(m)
      /\ t.latest = IF m = s.appliedMode THEN s.latest ELSE None
  BY ApplyModeIs
<1> HIDE DEF t
<1>2. Gently(s, t)
  BY <1>1 DEF Gently, LiveIn, LiveFits
<1> QED
  BY <1>2 DEF t

LEMMA RowModesGently ==
  ASSUME NEW s \in StoreType, NEW p \in Profiles, NEW ident \in Identities,
         NEW seq \in MaybeNat
  PROVE  Gently(s, ApplyRowModes(s, p, ident, seq))
<1> DEFINE t == ApplyRowModes(s, p, ident, seq)
<1>1. /\ t \in StoreType /\ t.rowModes = p
      /\ t.latest # None => /\ t.latest = s.latest /\ t.rowModes = s.rowModes
                            /\ t.appliedMode = s.appliedMode
  BY ApplyRowModesIs
<1> HIDE DEF t
<1>2. Gently(s, t)
  BY <1>1 DEF Gently, LiveIn, LiveFits
<1> QED
  BY <1>2 DEF t

LEMMA RowsGently ==
  ASSUME NEW s \in StoreType, NEW n \in Rows, NEW ident \in Identities,
         NEW seq \in MaybeNat
  PROVE  Gently(s, ApplyRows(s, n, ident, seq))
<1> DEFINE t == ApplyRows(s, n, ident, seq)
<1>1. /\ t \in StoreType /\ t.rowModes = s.rowModes
      /\ Homogeneous(s.rowModes) => t.appliedMode = s.rowModes[1]
      /\ ~Homogeneous(s.rowModes) => t.appliedMode = s.appliedMode
      /\ t.latest # None => /\ t.latest = s.latest
                            /\ t.appliedMode = s.appliedMode
  BY ApplyRowsIs
<1> HIDE DEF t
<1>2. Gently(s, t)
  BY <1>1 DEF Gently, LiveIn, LiveFits
<1> QED
  BY <1>2 DEF t

LEMMA QuarantineGently ==
  ASSUME NEW s \in StoreType
  PROVE  Gently(s, Quarantine(s))
<1>1. Quarantine(s) \in StoreType /\ ~LiveIn(Quarantine(s))
  BY QuarantineIs
<1> QED
  BY <1>1 DEF Gently, LiveFits

LEMMA CmdFields ==
  ASSUME NEW c \in CmdType
  PROVE  /\ c.mode \in Modes /\ c.rows \in Rows /\ c.profile \in Profiles
         /\ c.modeId \in Identities /\ c.rowsId \in Identities /\ c.profId \in Identities
         /\ c.rowsSeq \in MaybeNat /\ None \in MaybeNat
  BY DEF CmdType, MaybeNat

\* The gate that complete_resync() leaves for V and R frames.
ResyncedGate(c) ==
  IF Homogeneous(c.profile)
    THEN Gate(IF c.profId.id = None \/ c.profId.id = c.modeId.id THEN c.modeId.gen ELSE None,
              IF c.profId.id = None THEN c.modeId.id ELSE c.profId.id, None)
    ELSE Gate(c.modeId.gen, c.modeId.id, None)

\* After complete_resync() the store holds what CommandService does, whatever it
\* held before.
LEMMA CompleteResyncIs ==
  ASSUME NEW s \in StoreType, NEW c \in CmdType
  PROVE  LET t == CompleteResync(s, c)
         IN  /\ Gently(s, t)
             /\ t.resync = FALSE /\ t.activeRows = c.rows /\ t.geometry = TRUE
             /\ t.rowsGate = Gate(c.rowsId.gen, c.rowsId.id, c.rowsSeq)
             /\ t.rowModes = c.profile
             /\ t.profGate = Gate(c.profId.gen, c.profId.id, None)
             /\ t.modeGate = ResyncedGate(c)
             /\ Homogeneous(c.profile) => t.appliedMode = c.profile[1]
<1> DEFINE m == ApplyMode(s, c.mode, c.modeId, None)
           n == ApplyRows(m, c.rows, c.rowsId, c.rowsSeq)
           p == ApplyRowModes(n, c.profile, c.profId, None)
<1>0. /\ c.mode \in Modes /\ c.rows \in Rows /\ c.profile \in Profiles
      /\ c.modeId \in Identities /\ c.rowsId \in Identities /\ c.profId \in Identities
      /\ c.rowsSeq \in MaybeNat /\ None \in MaybeNat
  BY CmdFields
<1>1. /\ Gently(s, m) /\ m \in StoreType
      /\ m.modeGate = Gate(c.modeId.gen, c.modeId.id, None)
  <2>1. Gently(s, m)
    BY <1>0, ModeGently
  <2>2. m \in StoreType /\ m.modeGate = Gate(c.modeId.gen, c.modeId.id, None)
    BY <1>0, ApplyModeIs
  <2> QED BY <2>1, <2>2
<1> HIDE DEF m
<1>2. /\ Gently(m, n) /\ n \in StoreType
      /\ n.activeRows = c.rows /\ n.geometry = TRUE /\ n.modeGate = m.modeGate
      /\ n.rowsGate = Gate(c.rowsId.gen, c.rowsId.id, c.rowsSeq)
  <2>1. Gently(m, n)
    BY <1>0, <1>1, RowsGently
  <2>2. /\ n \in StoreType
        /\ n.activeRows = c.rows /\ n.geometry = TRUE /\ n.modeGate = m.modeGate
        /\ n.rowsGate = Gate(c.rowsId.gen, c.rowsId.id, c.rowsSeq)
    BY <1>0, <1>1, ApplyRowsIs
  <2> QED BY <2>1, <2>2
<1> HIDE DEF n
<1>3. /\ Gently(n, p) /\ p \in StoreType
      /\ p.activeRows = n.activeRows /\ p.geometry = n.geometry
      /\ p.rowsGate = n.rowsGate /\ p.rowModes = c.profile
      /\ p.profGate = Gate(c.profId.gen, c.profId.id, None)
      /\ Homogeneous(c.profile) => p.appliedMode = c.profile[1]
      /\ Homogeneous(c.profile) => p.modeGate = RowProfileGate(n, c.profId, None)
      /\ ~Homogeneous(c.profile) => p.modeGate = n.modeGate
  <2>1. Gently(n, p)
    BY <1>0, <1>2, RowModesGently
  <2>2. /\ p \in StoreType
        /\ p.activeRows = n.activeRows /\ p.geometry = n.geometry
        /\ p.rowsGate = n.rowsGate /\ p.rowModes = c.profile
        /\ p.profGate = Gate(c.profId.gen, c.profId.id, None)
        /\ Homogeneous(c.profile) => p.appliedMode = c.profile[1]
        /\ Homogeneous(c.profile) => p.modeGate = RowProfileGate(n, c.profId, None)
        /\ ~Homogeneous(c.profile) => p.modeGate = n.modeGate
    BY <1>0, <1>2, ApplyRowModesIs
  <2> QED BY <2>1, <2>2
<1>4. p.modeGate = ResyncedGate(c)
  BY <1>1, <1>2, <1>3 DEF RowProfileGate, ResyncedGate, Gate
<1> DEFINE t == CompleteResync(s, c)
<1>5. t = [p EXCEPT !.resync = FALSE]
  BY DEF CompleteResync, p, n, m
<1> HIDE DEF p, t
<1>6. /\ t \in StoreType /\ t.resync = FALSE /\ t.latest = p.latest
      /\ t.activeRows = p.activeRows /\ t.geometry = p.geometry
      /\ t.rowsGate = p.rowsGate /\ t.rowModes = p.rowModes
      /\ t.profGate = p.profGate /\ t.modeGate = p.modeGate
      /\ t.appliedMode = p.appliedMode
  BY <1>3, <1>5 DEF StoreType
<1>7. Gently(p, t)
  BY <1>6 DEF Gently, LiveIn, LiveFits
<1>8. Gently(s, t)
  BY <1>1, <1>2, <1>3, <1>7, GentlyTwice
<1> QED
  BY <1>2, <1>3, <1>4, <1>6, <1>8 DEF t

-----------------------------------------------------------------------------
(* Types                                                                    *)

\* What TypeOK says besides the store.
RestOK ==
  /\ dev \in Device /\ data \in Seq(FrameType) /\ reports \in Seq(ReportType)
  /\ asked \in 0 .. 3 /\ lost \in BOOLEAN
  /\ connections \in Nat /\ link \in {"up", "offline"}
  /\ cmd \in CmdType /\ seen \subseteq Known3
  /\ told \in Nat
  /\ parser = None \/ parser \in ParserType

LEMMA Types == TypeOK <=> S \in StoreType /\ RestOK
<1>1. S \in StoreType <=>
        /\ resync \in BOOLEAN /\ rowModes \in Profiles /\ appliedMode \in Modes
        /\ activeRows \in Rows /\ geometry \in BOOLEAN
        /\ {rowsGate, modeGate, profGate} \subseteq Gates
        /\ latest \in Snapshot \cup {None}
  BY DEF S, StoreType
<1> QED
  BY <1>1 DEF TypeOK, RestOK, MaybeNat, CmdType, ReportType, ReportKinds, ParserType, Known3

LEMMA TypesNext == TypeOK' <=> S' \in StoreType /\ RestOK'
<1>1. S' \in StoreType <=>
        /\ resync' \in BOOLEAN /\ rowModes' \in Profiles /\ appliedMode' \in Modes
        /\ activeRows' \in Rows /\ geometry' \in BOOLEAN
        /\ {rowsGate', modeGate', profGate'} \subseteq Gates
        /\ latest' \in Snapshot \cup {None}
  BY DEF S, StoreType
<1> QED
  BY <1>1 DEF TypeOK, RestOK, MaybeNat, CmdType, ReportType, ReportKinds, ParserType, Known3

LEMMA LiveOfStore == Live <=> LiveIn(S)
  BY DEF Live, LiveIn, S

LEMMA BecomesIs ==
  ASSUME NEW t \in StoreType, Becomes(t)
  PROVE  S' = t
  BY DEF Becomes, S, StoreType

LEMMA StoreStays ==
  ASSUME UNCHANGED <<resync, gates, latest>>
  PROVE  S' = S
  BY DEF S, gates

LEMMA DeviceFields ==
  ASSUME NEW d \in Device
  PROVE  /\ d.profile \in Profiles /\ d.mode \in Modes /\ d.rows \in Rows
         /\ d.modeId \in Identities /\ d.profId \in Identities /\ d.rowsId \in Identities
         /\ d.rowsSeq \in Nat /\ d.seq \in Nat /\ d.changes \in Nat
         /\ d.rowsSeq \in MaybeNat /\ d.seq \in MaybeNat
  BY DEF Device, MaybeNat

LEMMA StoreAfterIs ==
  ASSUME S \in StoreType, NEW r \in ReportType, NEW c \in CmdType, NEW known \in BOOLEAN
  PROVE  /\ Gently(S, StoreAfter(r, c, known))
         /\ StoreAfter(r, c, known).resync = (resync /\ ~known)
<1> DEFINE s == IF known /\ resync THEN CompleteResync(S, c) ELSE S
           t == StoreAfter(r, c, known)
<1>1. Gently(S, s) /\ s \in StoreType /\ s.resync = (resync /\ ~known)
  <2>1. CASE known /\ resync
    <3>1. Gently(S, s) /\ s.resync = FALSE
      BY <2>1, CompleteResyncIs
    <3> QED
      BY <2>1, <3>1 DEF Gently
  <2>2. CASE ~(known /\ resync)
    <3>1. s = S /\ S.resync = resync /\ resync \in BOOLEAN
      BY <2>2 DEF S, StoreType
    <3>2. resync = (resync /\ ~known)
      BY <2>2, <3>1
    <3> QED
      BY <3>1, <3>2 DEF Gently
  <2> QED BY <2>1, <2>2
<1>2. r.dev \in Device /\ r.kind \in ReportKinds
  BY DEF ReportType
<1>3. t = CASE r.kind = "MAPP" -> ApplyMode(s, r.dev.mode, r.dev.modeId, r.dev.seq)
            [] r.kind = "RMAPP" -> ApplyRowModes(s, r.dev.profile, r.dev.profId, r.dev.seq)
            [] r.kind = "RAPP" -> ApplyRows(s, r.dev.rows, r.dev.rowsId, r.dev.rowsSeq)
            [] OTHER -> s
  BY DEF StoreAfter
<1> HIDE DEF s, t
<1>4. CASE r.kind = "MAPP"
  <2>1. t = ApplyMode(s, r.dev.mode, r.dev.modeId, r.dev.seq)
    BY <1>3, <1>4
  <2>2. Gently(s, t) /\ t.resync = s.resync
    BY <2>1, <1>1, <1>2, DeviceFields, ModeGently, ApplyModeIs
  <2> QED BY <2>2, <1>1, GentlyTwice DEF t
<1>5. CASE r.kind = "RMAPP"
  <2>1. t = ApplyRowModes(s, r.dev.profile, r.dev.profId, r.dev.seq)
    BY <1>3, <1>5
  <2>2. Gently(s, t) /\ t.resync = s.resync
    BY <2>1, <1>1, <1>2, DeviceFields, RowModesGently, ApplyRowModesIs
  <2> QED BY <2>2, <1>1, GentlyTwice DEF t
<1>6. CASE r.kind = "RAPP"
  <2>1. t = ApplyRows(s, r.dev.rows, r.dev.rowsId, r.dev.rowsSeq)
    BY <1>3, <1>6
  <2>2. Gently(s, t) /\ t.resync = s.resync
    BY <2>1, <1>1, <1>2, DeviceFields, RowsGently, ApplyRowsIs
  <2> QED BY <2>2, <1>1, GentlyTwice DEF t
<1>7. CASE r.kind \notin {"MAPP", "RMAPP", "RAPP"}
  BY <1>1, <1>3, <1>7 DEF t
<1> QED
  BY <1>4, <1>5, <1>6, <1>7

-----------------------------------------------------------------------------
(* Sequences                                                                *)

LEMMA AppendOne ==
  ASSUME NEW T, NEW q \in Seq(T), NEW x \in T
  PROVE  /\ Append(q, x) \in Seq(T)
         /\ \A i \in DOMAIN Append(q, x) :
              \/ i \in DOMAIN q /\ Append(q, x)[i] = q[i]
              \/ i = Len(q) + 1 /\ Append(q, x)[i] = x
<1>1. /\ Append(q, x) \in Seq(T) /\ Len(Append(q, x)) = Len(q) + 1
      /\ \A i \in 1 .. Len(q) : Append(q, x)[i] = q[i]
      /\ Append(q, x)[Len(q) + 1] = x
  BY AppendProperties
<1>2. DOMAIN q = 1 .. Len(q) /\ Len(q) \in Nat /\ DOMAIN Append(q, x) = 1 .. (Len(q) + 1)
  BY <1>1, LenProperties
<1> QED
  BY <1>1, <1>2

LEMMA TailOne ==
  ASSUME NEW T, NEW q \in Seq(T), q # <<>>
  PROVE  /\ Tail(q) \in Seq(T) /\ Head(q) \in T /\ Head(q) = q[1] /\ 1 \in DOMAIN q
         /\ \A i \in DOMAIN Tail(q) : i + 1 \in DOMAIN q /\ Tail(q)[i] = q[i+1]
<1>1. /\ Tail(q) \in Seq(T) /\ Len(Tail(q)) = Len(q) - 1
      /\ \A i \in 1 .. Len(Tail(q)) : Tail(q)[i] = q[i+1]
      /\ Head(q) \in T /\ Head(q) = q[1]
  BY HeadTailProperties
<1>2. /\ DOMAIN q = 1 .. Len(q) /\ Len(q) \in Nat \ {0}
      /\ DOMAIN Tail(q) = 1 .. (Len(q) - 1)
  BY <1>1, LenProperties, EmptySeq
<1> QED
  BY <1>1, <1>2

LEMMA ElementType ==
  ASSUME NEW T, NEW q \in Seq(T), NEW i \in DOMAIN q
  PROVE  q[i] \in T
  BY LenProperties, ElementOfSeq

-----------------------------------------------------------------------------
(* What the device does                                                     *)

\* A change of its configuration and the report of it.
Changed(k) ==
  /\ k \in Applied /\ link = "up"
  /\ dev' \in Device /\ DevIds(dev') /\ dev'.changes = dev.changes + 1
  /\ reports' = Append(reports, [kind |-> k, dev |-> dev'])
  /\ UNCHANGED <<data, lost, asked, connections, link, host, store>>
  /\ ~SeqRestarts => dev'.seq = dev.seq
  /\ k = "MAPP" => /\ SameRows(dev, dev') /\ dev'.profile = All(dev'.mode)
                   /\ dev'.modeId.id = dev'.changes /\ dev'.profId.id = dev'.changes
  /\ k = "RMAPP" => /\ SameRows(dev, dev') /\ dev'.profId.id = dev'.changes
                    /\ Homogeneous(dev'.profile) => dev'.mode = dev'.profile[1]
                                                    /\ dev'.modeId.id = dev'.changes
                    /\ ~Homogeneous(dev'.profile) => dev'.mode = dev.mode
                                                     /\ dev'.modeId = dev.modeId
  /\ k = "RAPP" => SameModes(dev, dev') /\ dev'.rowsSeq = dev.seq

LEMMA BumpFacts ==
  ASSUME NEW x \in Numbered, dev.changes \in Nat
  PROVE  Bump(x) \in Numbered /\ Bump(x) \in Identities /\ Bump(x).id = dev.changes + 1
  BY DEF Bump, Ident, NewId, Numbered, Identities

LEMMA CountChange ==
  ASSUME NEW d \in Device, NEW e, e = [d EXCEPT !.changes = @ + 1]
  PROVE  /\ e \in Device /\ e.changes = d.changes + 1 /\ e.profile = d.profile
         /\ e.mode = d.mode /\ e.modeId = d.modeId /\ e.profId = d.profId
         /\ e.rowsId = d.rowsId /\ e.rows = d.rows /\ e.rowsSeq = d.rowsSeq
         /\ e.seq = d.seq
  BY DEF Device

LEMMA ChangeModeIs ==
  ASSUME dev \in Device, DevIds(dev), ChangeMode
  PROVE  Changed("MAPP")
<1> PICK m \in Modes :
      Change([dev EXCEPT !.profile = All(m), !.mode = m, !.modeId = Bump(@), !.profId = Bump(@),
                         !.seq = IF SeqRestarts THEN 0 ELSE @], "MAPP")
  BY DEF ChangeMode
<1> DEFINE new == [dev EXCEPT !.profile = All(m), !.mode = m, !.modeId = Bump(@),
                              !.profId = Bump(@), !.seq = IF SeqRestarts THEN 0 ELSE @]
<1>1. All(m) \in Profiles
  BY AllFacts
<1>2. /\ Bump(dev.modeId) \in Numbered /\ Bump(dev.modeId) \in Identities
      /\ Bump(dev.modeId).id = dev.changes + 1
      /\ Bump(dev.profId) \in Numbered /\ Bump(dev.profId) \in Identities
      /\ Bump(dev.profId).id = dev.changes + 1
  BY BumpFacts, DeviceFields DEF DevIds
<1>3. /\ new \in Device /\ new.profile = All(m) /\ new.mode = m
      /\ new.modeId = Bump(dev.modeId) /\ new.profId = Bump(dev.profId)
      /\ new.changes = dev.changes /\ SameRows(dev, new)
      /\ ~SeqRestarts => new.seq = dev.seq
  BY <1>1, <1>2 DEF Device, SameRows
<1>4. Change(new, "MAPP")
  OBVIOUS
<1> HIDE DEF new
<1>5. /\ link = "up" /\ dev' = [new EXCEPT !.changes = @ + 1]
      /\ reports' = Append(reports, [kind |-> "MAPP", dev |-> dev'])
      /\ UNCHANGED <<data, lost, asked, connections, link, host, store>>
  BY <1>4 DEF Change
<1>6. /\ dev' \in Device /\ dev'.changes = dev.changes + 1 /\ dev'.profile = All(m)
      /\ dev'.mode = m /\ dev'.modeId = Bump(dev.modeId) /\ dev'.profId = Bump(dev.profId)
      /\ dev'.rowsId = new.rowsId /\ SameRows(dev, dev')
      /\ ~SeqRestarts => dev'.seq = dev.seq
  <2>1. new \in Device
    BY <1>3
  <2>2. /\ dev' \in Device /\ dev'.changes = new.changes + 1 /\ dev'.profile = new.profile
        /\ dev'.mode = new.mode /\ dev'.modeId = new.modeId /\ dev'.profId = new.profId
        /\ dev'.rowsId = new.rowsId /\ dev'.rows = new.rows /\ dev'.rowsSeq = new.rowsSeq
        /\ dev'.seq = new.seq
    BY <2>1, <1>5, CountChange
  <2> QED
    BY <1>3, <2>2 DEF SameRows
<1>7. DevIds(dev')
  BY <1>2, <1>6 DEF DevIds, SameRows
<1> QED
  BY <1>2, <1>5, <1>6, <1>7 DEF Changed, Applied

LEMMA ChangeProfileIs ==
  ASSUME dev \in Device, DevIds(dev), ChangeProfile
  PROVE  Changed("RMAPP")
<1> PICK p \in Profiles :
      Change([dev EXCEPT !.profile = p, !.profId = Bump(@),
                         !.mode = IF Homogeneous(p) THEN p[1] ELSE @,
                         !.modeId = IF Homogeneous(p) THEN Bump(@) ELSE @], "RMAPP")
  BY DEF ChangeProfile
<1> DEFINE new == [dev EXCEPT !.profile = p, !.profId = Bump(@),
                              !.mode = IF Homogeneous(p) THEN p[1] ELSE @,
                              !.modeId = IF Homogeneous(p) THEN Bump(@) ELSE @]
<1>1. p[1] \in Modes
  BY RowFacts DEF Profiles
<1>2. /\ Bump(dev.modeId) \in Numbered /\ Bump(dev.modeId) \in Identities
      /\ Bump(dev.modeId).id = dev.changes + 1
      /\ Bump(dev.profId) \in Numbered /\ Bump(dev.profId) \in Identities
      /\ Bump(dev.profId).id = dev.changes + 1
  BY BumpFacts, DeviceFields DEF DevIds
<1>3. /\ new \in Device /\ new.profile = p /\ new.profId = Bump(dev.profId)
      /\ Homogeneous(p) => new.mode = p[1] /\ new.modeId = Bump(dev.modeId)
      /\ ~Homogeneous(p) => new.mode = dev.mode /\ new.modeId = dev.modeId
      /\ new.changes = dev.changes /\ SameRows(dev, new) /\ new.seq = dev.seq
  BY <1>1, <1>2 DEF Device, SameRows
<1>4. Change(new, "RMAPP")
  OBVIOUS
<1> HIDE DEF new
<1>5. /\ link = "up" /\ dev' = [new EXCEPT !.changes = @ + 1]
      /\ reports' = Append(reports, [kind |-> "RMAPP", dev |-> dev'])
      /\ UNCHANGED <<data, lost, asked, connections, link, host, store>>
  BY <1>4 DEF Change
<1>6. /\ dev' \in Device /\ dev'.changes = dev.changes + 1 /\ dev'.profile = p
      /\ dev'.mode = new.mode /\ dev'.modeId = new.modeId /\ dev'.profId = Bump(dev.profId)
      /\ dev'.rowsId = new.rowsId /\ SameRows(dev, dev') /\ dev'.seq = dev.seq
  BY <1>3, <1>5 DEF Device, SameRows
<1>7. dev'.modeId \in Numbered
  BY <1>2, <1>3, <1>6 DEF DevIds
<1>8. DevIds(dev')
  BY <1>2, <1>6, <1>7 DEF DevIds, SameRows
<1>9. /\ Homogeneous(dev'.profile) => dev'.mode = dev'.profile[1]
                                     /\ dev'.modeId.id = dev'.changes
      /\ ~Homogeneous(dev'.profile) => dev'.mode = dev.mode /\ dev'.modeId = dev.modeId
  BY <1>2, <1>3, <1>6
<1> QED
  BY <1>2, <1>5, <1>6, <1>8, <1>9 DEF Changed, Applied

LEMMA ChangeRowsIs ==
  ASSUME dev \in Device, DevIds(dev), ChangeRows
  PROVE  Changed("RAPP")
<1> PICK n \in Rows :
      Change([dev EXCEPT !.rows = n, !.rowsId = Bump(@), !.rowsSeq = dev.seq], "RAPP")
  BY DEF ChangeRows
<1> DEFINE new == [dev EXCEPT !.rows = n, !.rowsId = Bump(@), !.rowsSeq = dev.seq]
<1>1. Bump(dev.rowsId) \in Numbered /\ Bump(dev.rowsId) \in Identities
  BY BumpFacts, DeviceFields DEF DevIds
<1>2. /\ new \in Device /\ new.rowsId = Bump(dev.rowsId) /\ new.rowsSeq = dev.seq
      /\ new.changes = dev.changes /\ new.seq = dev.seq /\ SameModes(dev, new)
  BY <1>1 DEF Device, SameModes
<1>3. Change(new, "RAPP")
  OBVIOUS
<1> HIDE DEF new
<1>4. /\ link = "up" /\ dev' = [new EXCEPT !.changes = @ + 1]
      /\ reports' = Append(reports, [kind |-> "RAPP", dev |-> dev'])
      /\ UNCHANGED <<data, lost, asked, connections, link, host, store>>
  BY <1>3 DEF Change
<1>5. /\ dev' \in Device /\ dev'.changes = dev.changes + 1 /\ dev'.seq = dev.seq
      /\ dev'.rowsId = Bump(dev.rowsId) /\ dev'.rowsSeq = dev.seq /\ SameModes(dev, dev')
  BY <1>2, <1>4 DEF Device, SameModes
<1>6. DevIds(dev')
  BY <1>1, <1>5 DEF DevIds, SameModes
<1> QED
  BY <1>4, <1>5, <1>6 DEF Changed, Applied

\* The frame it would send.
LEMMA FrameFacts ==
  ASSUME dev \in Device
  PROVE  /\ Frame \in FrameType
         /\ Frame.kind = Kind(dev.profile) /\ Frame.profile = dev.profile
         /\ Frame.rows = dev.rows /\ Frame.seq = dev.seq /\ Frame.rowsId = dev.rowsId
         /\ Frame.modeId = dev.modeId /\ Frame.profId = dev.profId
         /\ Frame.change = dev.changes
<1>1. Kind(dev.profile) \in Modes \cup {MIXED}
  BY KindFacts, DeviceFields
<1> QED
  BY <1>1 DEF Frame, FrameType, Device

LEMMA SendFrameIs ==
  ASSUME dev \in Device, DevIds(dev), SendFrame
  PROVE  /\ link = "up" /\ dev' \in Device /\ DevIds(dev')
         /\ dev'.seq = dev.seq + 1 /\ dev'.changes = dev.changes
         /\ SameRows(dev, dev') /\ SameModes(dev, dev')
         /\ Frame \in FrameType /\ data' = Append(data, Frame)
         /\ UNCHANGED <<reports, lost, asked, connections, link, host, store>>
<1>1. dev' = [dev EXCEPT !.seq = @ + 1]
  BY DEF SendFrame
<1>2. /\ dev' \in Device /\ dev'.seq = dev.seq + 1 /\ dev'.changes = dev.changes
      /\ SameRows(dev, dev') /\ SameModes(dev, dev')
  BY <1>1 DEF Device, SameRows, SameModes
<1>3. DevIds(dev')
  BY <1>2 DEF DevIds, SameRows, SameModes
<1> QED
  BY <1>2, <1>3, FrameFacts DEF SendFrame

LEMMA AnswerIs ==
  ASSUME dev \in Device, asked \in 0 .. 3, Answer
  PROVE  \E k \in Known3 :
           /\ reports' = Append(reports, [kind |-> k, dev |-> dev])
           /\ [kind |-> k, dev |-> dev] \in ReportType
           /\ asked' \in 0 .. 3 /\ link = "up"
           /\ UNCHANGED <<dev, connections, link, data, lost, host, store>>
<1>1. asked + 1 \in 1 .. 3 /\ asked' = asked + 1
  BY DEF Answer
<1>2. Queries[asked + 1] \in Known3
  BY <1>1 DEF Queries, Known3
<1>3. [kind |-> Queries[asked + 1], dev |-> dev] \in ReportType
  BY <1>2 DEF ReportType, ReportKinds, Known3
<1> QED
  BY <1>1, <1>2, <1>3 DEF Answer

-----------------------------------------------------------------------------
(* Known is an invariant                                                    *)

LEMMA KnownTypes ==
  ASSUME Known
  PROVE  S \in StoreType /\ RestOK
  BY Types DEF Known

\* Steps of the device and the wire.
LEMMA WireKnown ==
  ASSUME Known, dev' \in Device, DevIds(dev'),
         data' \in Seq(FrameType), reports' \in Seq(ReportType), asked' \in 0 .. 3,
         lost' \in BOOLEAN,
         \A i \in DOMAIN reports' : DevIds(reports'[i].dev),
         link = "offline" => data' = <<>> /\ reports' = <<>>,
         UNCHANGED <<connections, link, host, store>>
  PROVE  Known'
<1>1. S' = S
  BY StoreStays DEF store
<1>2. UNCHANGED <<cmd, seen, rowModes, appliedMode, activeRows, geometry, rowsGate, modeGate,
                  profGate, resync, latest, told, parser>>
  BY DEF host, store, gates
<1>3. TypeOK'
  <2>1. RestOK'
    BY <1>2, KnownTypes DEF RestOK
  <2> QED
    BY <1>1, <2>1, KnownTypes, TypesNext
<1>4. /\ link' = "up" /\ resync' => ~Live' /\ parser' = None
      /\ link' = "up" => (resync' <=> seen' # Known3)
      /\ "STATE" \in seen' => cmd'.modeId # NoId
  BY <1>2 DEF Known, Live, Known3
<1>5. LiveFits(S)'
  BY <1>1 DEF Known
<1>6. ParserLabels' /\ (link' = "up" => ParserPassed')
  BY <1>2 DEF Known, ParserLabels, ParserPassed
<1> QED
  BY <1>3, <1>4, <1>5, <1>6 DEF Known

LEMMA ReportKnown ==
  ASSUME Known, link = "up", NEW r \in ReportType, DevIds(r.dev), dev' \in Device, DevIds(dev'),
         reports' = Append(reports, r), asked' \in 0 .. 3,
         UNCHANGED <<data, lost, connections, link, host, store>>
  PROVE  Known'
<1>1. /\ reports' \in Seq(ReportType)
      /\ \A i \in DOMAIN reports' : \/ i \in DOMAIN reports /\ reports'[i] = reports[i]
                                    \/ reports'[i] = r
  BY KnownTypes, AppendOne DEF RestOK
<1>2. \A i \in DOMAIN reports' : DevIds(reports'[i].dev)
  BY <1>1 DEF Known
<1> QED
  BY <1>1, <1>2, KnownTypes, WireKnown DEF RestOK

LEMMA ChangedKnown ==
  ASSUME Known, NEW k, Changed(k)
  PROVE  Known'
<1>1. [kind |-> k, dev |-> dev'] \in ReportType
  BY DEF Changed, ReportType, ReportKinds, Applied
<1>2. asked' \in 0 .. 3
  BY KnownTypes DEF Changed, RestOK
<1> QED
  BY <1>1, <1>2, ReportKnown DEF Changed

LEMMA DeviceKnown ==
  ASSUME Known, SendFrame \/ ChangeMode \/ ChangeProfile \/ ChangeRows \/ Answer
                \/ LoseFrame \/ LoseReport
  PROVE  Known'
<1>0. dev \in Device /\ DevIds(dev) /\ asked \in 0 .. 3
  BY KnownTypes DEF RestOK, Known
<1>1. CASE SendFrame
  <2>1. data' \in Seq(FrameType)
    BY <1>0, <1>1, SendFrameIs, AppendOne, KnownTypes DEF RestOK
  <2>2. /\ link = "up" /\ dev' \in Device /\ DevIds(dev')
        /\ UNCHANGED <<reports, lost, asked, connections, link, host, store>>
    BY <1>0, <1>1, SendFrameIs
  <2> QED
    BY <2>1, <2>2, KnownTypes, WireKnown DEF RestOK, Known
<1>2. CASE ChangeMode \/ ChangeProfile \/ ChangeRows
  BY <1>0, <1>2, ChangeModeIs, ChangeProfileIs, ChangeRowsIs, ChangedKnown
<1>3. CASE Answer
  <2>1. PICK k \in Known3 :
           /\ reports' = Append(reports, [kind |-> k, dev |-> dev])
           /\ [kind |-> k, dev |-> dev] \in ReportType
           /\ asked' \in 0 .. 3 /\ link = "up"
           /\ UNCHANGED <<dev, connections, link, data, lost, host, store>>
    BY <1>0, <1>3, AnswerIs
  <2> QED
    BY <1>0, <2>1, ReportKnown
<1>4. CASE LoseFrame
  <2>1. /\ data # <<>> /\ data' = Tail(data) /\ link' = link
        /\ UNCHANGED <<dev, asked, connections, link, reports, lost, host, store>>
    BY <1>4 DEF LoseFrame, device
  <2>2. data' \in Seq(FrameType)
    BY <2>1, TailOne, KnownTypes DEF RestOK
  <2> QED
    BY <1>0, <2>1, <2>2, KnownTypes, WireKnown DEF RestOK, Known
<1>5. CASE LoseReport
  <2>1. /\ reports # <<>> /\ reports' = Tail(reports) /\ lost' = TRUE
        /\ UNCHANGED <<dev, asked, connections, link, data, host, store>>
    BY <1>5 DEF LoseReport, device
  <2>2. /\ reports' \in Seq(ReportType)
        /\ \A i \in DOMAIN reports' : i + 1 \in DOMAIN reports /\ reports'[i] = reports[i+1]
    BY <2>1, TailOne, KnownTypes DEF RestOK
  <2>3. \A i \in DOMAIN reports' : DevIds(reports'[i].dev)
    BY <2>2 DEF Known
  <2> QED
    BY <1>0, <2>1, <2>2, <2>3, KnownTypes, WireKnown DEF RestOK, Known
<1> QED
  BY <1>1, <1>2, <1>3, <1>4, <1>5

\* A report or an answer reaches the command service and the store.
LEMMA CmdAfterFacts ==
  ASSUME cmd \in CmdType, NEW r \in ReportType, DevIds(r.dev)
  PROVE  /\ CmdAfter(r) \in CmdType
         /\ cmd.modeId # NoId => CmdAfter(r).modeId # NoId
         /\ r.kind = "STATE" => CmdAfter(r).modeId # NoId
<1>1. /\ r.dev \in Device /\ r.kind \in ReportKinds
      /\ r.dev.profile \in Profiles /\ r.dev.mode \in Modes /\ r.dev.rows \in Rows
      /\ r.dev.modeId \in Identities /\ r.dev.profId \in Identities /\ r.dev.rowsId \in Identities
      /\ r.dev.rowsSeq \in MaybeNat
  BY DeviceFields DEF ReportType
<1>2. /\ Ident(None, r.dev.profId.id) \in Identities
      /\ Ident(None, r.dev.profId.id) # NoId /\ r.dev.modeId # NoId
  <2>1. r.dev.profId.id \in Nat /\ r.dev.modeId.id \in Nat
    BY DEF DevIds, Numbered
  <2>2. Ident(None, r.dev.profId.id).id = r.dev.profId.id /\ NoId.id = None
    BY DEF Ident, NoId
  <2>3. Ident(None, r.dev.profId.id) \in Identities
    BY <1>1, IdentType, IdentFields, NoneFacts
  <2> QED
    BY <2>1, <2>2, <2>3, NoneFacts
<1>3. CASE r.kind = "MAPP"
  <2>1. CmdAfter(r) = [cmd EXCEPT !.mode = r.dev.mode, !.modeId = r.dev.modeId,
                          !.profile = r.dev.profile, !.profId = Ident(None, r.dev.profId.id)]
    BY <1>3 DEF CmdAfter
  <2> QED BY <1>1, <1>2, <1>3, <2>1 DEF CmdType
<1>4. CASE r.kind = "RMAPP"
  <2>1. CmdAfter(r) = [cmd EXCEPT !.profile = r.dev.profile, !.profId = r.dev.profId,
                          !.mode = r.dev.mode,
                          !.modeId = IF Homogeneous(r.dev.profile)
                                       THEN Ident(None, r.dev.profId.id) ELSE @]
    BY <1>4 DEF CmdAfter
  <2>2. CASE Homogeneous(r.dev.profile)
    <3>1. CmdAfter(r) = [cmd EXCEPT !.profile = r.dev.profile, !.profId = r.dev.profId,
                            !.mode = r.dev.mode, !.modeId = Ident(None, r.dev.profId.id)]
      BY <2>1, <2>2
    <3> QED BY <1>1, <1>2, <1>4, <3>1 DEF CmdType
  <2>3. CASE ~Homogeneous(r.dev.profile)
    <3>1. CmdAfter(r) = [cmd EXCEPT !.profile = r.dev.profile, !.profId = r.dev.profId,
                            !.mode = r.dev.mode, !.modeId = @]
      BY <2>1, <2>3
    <3> QED BY <1>1, <1>2, <1>4, <3>1 DEF CmdType
  <2> QED BY <2>2, <2>3
<1>5. CASE r.kind \in {"RAPP", "ROWS"}
  <2>1. CmdAfter(r) = [cmd EXCEPT !.rows = r.dev.rows, !.rowsId = r.dev.rowsId,
                                  !.rowsSeq = r.dev.rowsSeq]
    BY <1>5 DEF CmdAfter
  <2> QED BY <1>1, <1>5, <2>1 DEF CmdType
<1>6. CASE r.kind = "STATE"
  <2>1. CmdAfter(r) = [cmd EXCEPT !.mode = r.dev.mode, !.modeId = r.dev.modeId]
    BY <1>6 DEF CmdAfter
  <2> QED BY <1>1, <1>2, <2>1 DEF CmdType
<1>7. CASE r.kind = "ROWMODES"
  <2>1. CmdAfter(r) = [cmd EXCEPT !.profile = r.dev.profile, !.profId = r.dev.profId]
    BY <1>7 DEF CmdAfter
  <2> QED BY <1>1, <1>7, <2>1 DEF CmdType
<1> QED
  BY <1>1, <1>3, <1>4, <1>5, <1>6, <1>7 DEF ReportKinds

\* What the action does, in one place for the three invariants.
LEMMA HandleReportIs ==
  ASSUME Known, HandleReport
  PROVE  LET r == reports[1]
         IN  /\ reports # <<>> /\ 1 \in DOMAIN reports /\ link = "up" /\ parser = None
             /\ r \in ReportType /\ DevIds(r.dev)
             /\ cmd' = CmdAfter(r) /\ cmd' \in CmdType
             /\ seen' = (IF r.kind \in Known3 THEN seen \cup {r.kind} ELSE seen)
             /\ seen' \subseteq Known3
             /\ told' = (IF seen' # seen THEN 0
                         ELSE IF r.kind \in Applied /\ ~resync THEN r.dev.changes ELSE told)
             /\ S' = StoreAfter(r, cmd', seen' = Known3)
             /\ S' \in StoreType /\ Gently(S, S')
             /\ resync' = (resync /\ ~(seen' = Known3))
             /\ reports' = Tail(reports) /\ reports' \in Seq(ReportType)
             /\ \A i \in DOMAIN reports' : i + 1 \in DOMAIN reports /\ reports'[i] = reports[i+1]
             /\ UNCHANGED <<dev, asked, connections, link, data, lost, parser>>
<1> DEFINE r == Head(reports)
<1>1. /\ parser = None /\ reports # <<>> /\ cmd' = CmdAfter(r)
      /\ seen' = IF r.kind \in Known3 THEN seen \cup {r.kind} ELSE seen
      /\ told' = IF seen' # seen THEN 0
                 ELSE IF r.kind \in Applied /\ ~resync THEN r.dev.changes ELSE told
      /\ Becomes(StoreAfter(r, cmd', seen' = Known3))
      /\ reports' = Tail(reports)
      /\ UNCHANGED <<dev, asked, connections, link, data, lost, parser>>
  BY DEF HandleReport, Known3, Applied, device
<1>2. /\ reports' \in Seq(ReportType) /\ r \in ReportType /\ r = reports[1]
      /\ 1 \in DOMAIN reports
      /\ \A i \in DOMAIN reports' : i + 1 \in DOMAIN reports /\ reports'[i] = reports[i+1]
  BY <1>1, TailOne, KnownTypes DEF RestOK
<1> HIDE DEF r
<1>3. DevIds(r.dev) /\ link = "up"
  BY <1>1, <1>2, KnownTypes DEF Known, RestOK
<1>4. cmd' \in CmdType
  BY <1>1, <1>2, <1>3, CmdAfterFacts, KnownTypes DEF RestOK
<1>5. seen' \subseteq Known3
  BY <1>1, KnownTypes DEF RestOK, Known3
<1>6. /\ Gently(S, StoreAfter(r, cmd', seen' = Known3))
      /\ StoreAfter(r, cmd', seen' = Known3).resync = (resync /\ ~(seen' = Known3))
  <2> DEFINE known == (seen' = Known3)
  <2>1. known \in BOOLEAN
    OBVIOUS
  <2> HIDE DEF known
  <2>2. /\ Gently(S, StoreAfter(r, cmd', known))
        /\ StoreAfter(r, cmd', known).resync = (resync /\ ~known)
    BY <1>2, <1>4, <2>1, KnownTypes, StoreAfterIs
  <2> QED
    BY <2>2 DEF known
<1>7. S' = StoreAfter(r, cmd', seen' = Known3) /\ S' \in StoreType
  BY <1>1, <1>6, BecomesIs DEF Gently
<1>8. resync' = S'.resync
  BY DEF S
<1> QED
  BY <1>1, <1>2, <1>3, <1>4, <1>5, <1>6, <1>7, <1>8

LEMMA HandleReportKnown ==
  ASSUME Known, HandleReport
  PROVE  Known'
<1> DEFINE r == reports[1]
<1>1. /\ link = "up" /\ parser = None /\ r \in ReportType /\ DevIds(r.dev)
      /\ cmd' = CmdAfter(r) /\ cmd' \in CmdType
      /\ seen' = (IF r.kind \in Known3 THEN seen \cup {r.kind} ELSE seen)
      /\ seen' \subseteq Known3
      /\ told' = (IF seen' # seen THEN 0
                  ELSE IF r.kind \in Applied /\ ~resync THEN r.dev.changes ELSE told)
      /\ S' \in StoreType /\ Gently(S, S')
      /\ resync' = (resync /\ ~(seen' = Known3))
      /\ reports' \in Seq(ReportType)
      /\ \A i \in DOMAIN reports' : i + 1 \in DOMAIN reports /\ reports'[i] = reports[i+1]
      /\ UNCHANGED <<dev, asked, connections, link, data, lost, parser>>
  BY HandleReportIs
<1> HIDE DEF r
<1>2. TypeOK'
  <2>1. r.dev.changes \in Nat
    BY <1>1, DeviceFields DEF ReportType
  <2>2. told' \in Nat
    BY <1>1, <2>1, KnownTypes DEF RestOK
  <2>3. RestOK'
    BY <1>1, <2>2, KnownTypes DEF RestOK
  <2> QED
    BY <1>1, <2>3, TypesNext
<1>3. DevIds(dev') /\ \A i \in DOMAIN reports' : DevIds(reports'[i].dev)
  BY <1>1 DEF Known
<1>4. (resync' => ~Live' /\ parser' = None) /\ (resync' <=> seen' # Known3)
  <2>1. (resync => ~Live) /\ (resync <=> seen # Known3)
    BY <1>1 DEF Known
  <2>2. resync' => resync /\ seen' # Known3
    BY <1>1
  <2>3. seen' # Known3 => seen # Known3
    BY <1>1
  <2>4. seen' # Known3 => resync'
    BY <1>1, <2>1, <2>3
  <2>5. Live => LiveIn(S)
    BY DEF Live, LiveIn, S
  <2>6. Live' => LiveIn(S')
    BY DEF Live, LiveIn, S
  <2>7. LiveIn(S) => Live
    BY DEF Live, LiveIn, S
  <2> QED
    BY <1>1, <2>1, <2>2, <2>4, <2>6, <2>7 DEF Gently
<1>5. "STATE" \in seen' => cmd'.modeId # NoId
  BY <1>1, CmdAfterFacts, KnownTypes DEF Known, RestOK
<1>6. LiveFits(S')
  BY <1>1 DEF Known, Gently
<1>7. ParserLabels' /\ ParserPassed'
  BY <1>1 DEF ParserLabels, ParserPassed
<1> QED
  BY <1>1, <1>2, <1>3, <1>4, <1>5, <1>6, <1>7 DEF Known

-----------------------------------------------------------------------------
(* Frames                                                                   *)

LEMMA FrameFields ==
  ASSUME NEW f \in FrameType
  PROVE  /\ f.kind \in Modes \cup {MIXED} /\ f.profile \in Profiles /\ f.rows \in Rows
         /\ f.seq \in Nat /\ f.seq \in MaybeNat /\ f.change \in Nat
         /\ f.rowsId \in Identities /\ f.modeId \in Identities /\ f.profId \in Identities
  BY DEF FrameType, MaybeNat

LEMMA OverlayType ==
  ASSUME NEW f \in FrameType, NEW p \in Profiles
  PROVE  Overlay(f, p) \in Profiles
<1>1. \A r \in Rows : p[r] \in Modes /\ f.profile[r] \in Modes
  BY FrameFields DEF Profiles
<1> QED
  BY <1>1 DEF Overlay, Profiles

\* What a frame shows of the rows it measures is what the store had applied.
LEMMA OverlayAccepted ==
  ASSUME NEW s \in StoreType, NEW f \in FrameType, Accepts(s, f)
  PROVE  Overlay(f, s.rowModes) = s.rowModes
<1>1. s.rowModes \in Profiles /\ f.rows \in Rows
  BY StoreFields, FrameFields
<1>2. \A r \in Rows : f.kind = MIXED /\ ~(r > f.rows) => f.profile[r] = s.rowModes[r]
  BY <1>1, RowFacts DEF Accepts, AcceptMixed, Rows
<1>3. \A r \in Rows : (IF f.kind # MIXED \/ r > f.rows THEN s.rowModes[r] ELSE f.profile[r])
                        = s.rowModes[r]
  BY <1>2
<1>4. Overlay(f, s.rowModes) = [r \in Rows |-> s.rowModes[r]]
  BY <1>3 DEF Overlay
<1> QED
  BY <1>1, <1>4 DEF Profiles

\* The first frame's effect, when nothing was known.
LEMMA ObservingIs ==
  ASSUME S \in StoreType, cmd \in CmdType, NEW f \in FrameType, f.kind # CAP
  PROVE  /\ StoreObserving(f) \in StoreType /\ StoreObserving(f).resync = resync
         /\ CmdObserving(f) \in CmdType
         /\ CmdObserving(f).rows = cmd.rows /\ CmdObserving(f).rowsId = cmd.rowsId
         /\ CmdObserving(f).rowsSeq = cmd.rowsSeq
<1>1. cmd.profile \in Profiles
  BY CmdFields
<1>2. Overlay(f, cmd.profile) \in Profiles
  BY <1>1, OverlayType
<1>3. S.resync = resync
  BY DEF S
<1>4. CASE f.kind = MIXED
  <2>1. CmdObserving(f) = [cmd EXCEPT !.profile = Overlay(f, @), !.profId = f.profId]
    BY <1>4 DEF CmdObserving
  <2>2. CASE Overlay(f, cmd.profile) = cmd.profile
    BY <1>2, <1>3, <1>4, <2>1, <2>2, FrameFields DEF StoreObserving, CmdType
  <2>3. CASE Overlay(f, cmd.profile) # cmd.profile
    <3>1. StoreObserving(f) = ApplyRowModes(S, Overlay(f, cmd.profile), f.profId, f.seq)
      BY <1>4, <2>3 DEF StoreObserving
    <3>2. StoreObserving(f) \in StoreType /\ StoreObserving(f).resync = S.resync
      BY <1>2, <3>1, FrameFields, ApplyRowModesIs
    <3> QED
      BY <1>2, <1>3, <2>1, <3>2, FrameFields DEF CmdType
  <2> QED BY <2>2, <2>3
<1>5. CASE f.kind # MIXED
  <2>1. /\ CmdObserving(f) = [cmd EXCEPT !.mode = f.kind, !.modeId = f.modeId]
        /\ StoreObserving(f) = ApplyMode(S, f.kind, f.modeId, f.seq)
    BY <1>5 DEF CmdObserving, StoreObserving
  <2>2. f.kind \in Modes
    BY <1>5, FrameFields
  <2>3. StoreObserving(f) \in StoreType /\ StoreObserving(f).resync = S.resync
    BY <2>1, <2>2, FrameFields, ApplyModeIs
  <2> QED
    BY <1>3, <2>1, <2>2, <2>3, FrameFields DEF CmdType
<1> QED
  BY <1>4, <1>5

FrameTaken(f) ==
  /\ f \in FrameType /\ link = "up" /\ parser = None
  /\ data # <<>> /\ data' = Tail(data) /\ data' \in Seq(FrameType)
  /\ \A i \in DOMAIN data' : i + 1 \in DOMAIN data /\ data'[i] = data[i+1]
  /\ UNCHANGED <<dev, asked, connections, link, reports, lost, seen, told>>

\* A frame that is accepted is not the one that tells the first mode.
FrameAccepted(f) ==
  /\ Accepts(S, f) /\ ~resync
  /\ parser' = [frame |-> f, label |-> rowModes,
                profId |-> IF f.kind = MIXED THEN f.profId ELSE Ident(profGate.gen, profGate.id)]
  /\ parser' \in ParserType
  /\ S' = S /\ cmd' = cmd

FrameRejected ==
  /\ parser' = None /\ S' \in StoreType /\ ~LiveIn(S') /\ resync' = resync
  /\ cmd' \in CmdType
  /\ \/ S' = Quarantine(S) /\ cmd' = cmd
     \/ /\ resync /\ cmd.modeId = NoId /\ cmd.profId = NoId
        /\ cmd'.rows = cmd.rows /\ cmd'.rowsId = cmd.rowsId /\ cmd'.rowsSeq = cmd.rowsSeq

LEMMA HandleFrameIs ==
  ASSUME Known, HandleFrame
  PROVE  FrameTaken(data[1]) /\ (FrameAccepted(data[1]) \/ FrameRejected)
<1> DEFINE f == Head(data)
           s == IF Observes(f) THEN StoreObserving(f) ELSE S
<1>1. /\ parser = None /\ data # <<>>
      /\ cmd' = (IF Observes(f) THEN CmdObserving(f) ELSE cmd)
      /\ IF Accepts(s, f)
           THEN /\ parser' = [frame |-> f, label |-> Overlay(f, s.rowModes),
                              profId |-> IF f.kind = MIXED THEN f.profId
                                         ELSE Ident(s.profGate.gen, s.profGate.id)]
                /\ Becomes(s)
           ELSE parser' = None /\ Becomes(Quarantine(s))
      /\ data' = Tail(data)
      /\ UNCHANGED <<dev, asked, connections, link, reports, lost, seen, told>>
  BY DEF HandleFrame, device
<1>2. f = data[1] /\ FrameTaken(f)
  <2>1. /\ f \in FrameType /\ f = data[1] /\ data' \in Seq(FrameType)
        /\ \A i \in DOMAIN data' : i + 1 \in DOMAIN data /\ data'[i] = data[i+1]
    BY <1>1, TailOne, KnownTypes DEF RestOK
  <2>2. link = "up"
    BY <1>1, KnownTypes DEF Known, RestOK
  <2> QED
    BY <1>1, <2>1, <2>2 DEF FrameTaken
<1> HIDE DEF f
<1>3. S \in StoreType /\ cmd \in CmdType /\ f \in FrameType /\ S.resync = resync
  BY <1>2, KnownTypes DEF RestOK, FrameTaken, S
<1>4. Observes(f) => resync /\ cmd.modeId = NoId /\ cmd.profId = NoId /\ f.kind # CAP
  <2>1. Observes(f) => cmd.modeId = NoId /\ cmd.profId = NoId /\ f.kind # CAP
    BY DEF Observes, FirstAttach
  <2>2. cmd.modeId = NoId => resync
    BY <1>2 DEF Known, Known3, FrameTaken
  <2> QED BY <2>1, <2>2
<1>5. CASE Observes(f)
  <2>1. /\ s = StoreObserving(f) /\ cmd' = CmdObserving(f)
        /\ s \in StoreType /\ s.resync = resync /\ cmd' \in CmdType
        /\ cmd'.rows = cmd.rows /\ cmd'.rowsId = cmd.rowsId /\ cmd'.rowsSeq = cmd.rowsSeq
    BY <1>1, <1>3, <1>4, <1>5, ObservingIs
  <2> HIDE DEF s
  <2>2. ~Accepts(s, f)
    BY <1>4, <1>5, <2>1 DEF Accepts
  <2>3. Quarantine(s) \in StoreType /\ ~LiveIn(Quarantine(s)) /\ Quarantine(s).resync = s.resync
    BY <2>1, QuarantineIs
  <2>4. S' = Quarantine(s) /\ parser' = None
    BY <1>1, <2>2, <2>3, BecomesIs
  <2>5. resync' = S'.resync
    BY DEF S
  <2>6. FrameRejected
    BY <1>4, <1>5, <2>1, <2>3, <2>4, <2>5 DEF FrameRejected
  <2> QED BY <1>2, <2>6
<1>6. CASE ~Observes(f)
  <2>1. s = S /\ cmd' = cmd
    BY <1>1, <1>6
  <2> HIDE DEF s
  <2>2. CASE Accepts(S, f)
    <3>1. /\ parser' = [frame |-> f, label |-> Overlay(f, S.rowModes),
                        profId |-> IF f.kind = MIXED THEN f.profId
                                   ELSE Ident(S.profGate.gen, S.profGate.id)]
          /\ S' = S
      BY <1>1, <1>3, <2>1, <2>2, BecomesIs
    <3>2. Overlay(f, S.rowModes) = rowModes /\ S.profGate = profGate /\ rowModes \in Profiles
      BY <1>3, <2>2, OverlayAccepted, StoreFields DEF S
    <3>3. f.profId \in Identities /\ Ident(profGate.gen, profGate.id) \in Identities
      BY <1>3, <3>2, FrameFields, IdentType, GateFields, StoreFields
    <3>4. ~resync
      BY <1>3, <2>2 DEF Accepts
    <3>5. FrameAccepted(f)
      BY <1>3, <2>1, <2>2, <3>1, <3>2, <3>3, <3>4 DEF FrameAccepted, ParserType
    <3> QED BY <1>2, <3>5
  <2>3. CASE ~Accepts(S, f)
    <3>1. /\ Quarantine(S) \in StoreType /\ ~LiveIn(Quarantine(S))
          /\ Quarantine(S).resync = S.resync
      BY <1>3, QuarantineIs
    <3>2. S' = Quarantine(S) /\ parser' = None
      BY <1>1, <2>1, <2>3, <3>1, BecomesIs
    <3>3. resync' = S'.resync
      BY DEF S
    <3>4. FrameRejected
      BY <1>3, <2>1, <3>1, <3>2, <3>3 DEF FrameRejected
    <3> QED BY <1>2, <3>4
  <2> QED BY <2>2, <2>3
<1> QED
  BY <1>5, <1>6

\* The store after a commit.
LEMMA CommitIs ==
  ASSUME Known, Commit
  PROVE  LET f == parser.frame
         IN  /\ parser \in ParserType /\ f \in FrameType /\ parser' = None
             /\ S' \in StoreType
             /\ UNCHANGED <<resync, appliedMode, rowModes, modeGate, dev, asked, connections, link,
                            data, reports, lost, cmd, seen, told>>
             /\ activeRows' = f.rows /\ geometry' = TRUE
             /\ rowsGate' = (IF f.kind \in {MIXED, CAP}
                               THEN Gate(f.rowsId.gen, f.rowsId.id, rowsGate.seq) ELSE rowsGate)
             /\ profGate' = Gate(parser.profId.gen, parser.profId.id, profGate.seq)
             /\ latest' = [kind |-> f.kind, profile |-> rowModes, rows |-> f.rows,
                           change |-> f.change, live |-> TRUE]
<1> DEFINE f == parser.frame
<1>1. parser \in ParserType /\ parser.label = rowModes
  BY KnownTypes DEF Commit, Known, ParserLabels, RestOK
<1>2. f \in FrameType /\ parser.profId \in Identities
  BY <1>1 DEF ParserType
<1>3. /\ UNCHANGED <<resync, appliedMode, rowModes, modeGate, dev, asked, connections, link,
                     data, reports, lost, cmd, seen, told>>
      /\ activeRows' = f.rows /\ geometry' = TRUE /\ parser' = None
      /\ rowsGate' = (IF f.kind \in {MIXED, CAP}
                        THEN Gate(f.rowsId.gen, f.rowsId.id, rowsGate.seq) ELSE rowsGate)
      /\ profGate' = Gate(parser.profId.gen, parser.profId.id, profGate.seq)
      /\ latest' = [kind |-> f.kind, profile |-> rowModes, rows |-> f.rows,
                    change |-> f.change, live |-> TRUE]
  BY <1>1 DEF Commit, device, wire, host
<1> HIDE DEF f
<1>4. /\ resync \in BOOLEAN /\ rowModes \in Profiles /\ appliedMode \in Modes
      /\ rowsGate \in Gates /\ modeGate \in Gates /\ profGate \in Gates
  BY KnownTypes DEF StoreType, S
<1>5. /\ Gate(f.rowsId.gen, f.rowsId.id, rowsGate.seq) \in Gates
      /\ Gate(parser.profId.gen, parser.profId.id, profGate.seq) \in Gates
  BY <1>2, <1>4, FrameFields, IdentFields, GateFields, GateType
<1>6. rowsGate' \in Gates /\ profGate' \in Gates
  BY <1>3, <1>4, <1>5
<1>7. latest' \in Snapshot
  BY <1>2, <1>3, <1>4, FrameFields DEF Snapshot
<1>8. f.rows \in Rows
  BY <1>2, FrameFields
<1>9. S' \in StoreType
  BY <1>3, <1>4, <1>6, <1>7, <1>8 DEF S, StoreType
<1> QED
  BY <1>1, <1>2, <1>3, <1>9 DEF f

LEMMA HandleFrameKnown ==
  ASSUME Known, HandleFrame
  PROVE  Known'
<1> DEFINE f == data[1]
<1>1. FrameTaken(f) /\ (FrameAccepted(f) \/ FrameRejected)
  BY HandleFrameIs
<1> HIDE DEF f
<1>2. link = "up" /\ (resync => ~Live /\ parser = None) /\ (resync <=> seen # Known3)
  BY <1>1 DEF Known, FrameTaken
<1>3. S'.rowModes = rowModes' /\ resync' = S'.resync /\ (LiveIn(S') <=> Live')
  BY DEF S, LiveIn, Live
<1>4. CASE FrameAccepted(f)
  <2>1. UNCHANGED <<resync, rowModes, appliedMode, activeRows, geometry, rowsGate, modeGate,
                    profGate, latest>>
    BY <1>4 DEF FrameAccepted, S
  <2>2. TypeOK'
    <3>1. RestOK'
      BY <1>1, <1>4, KnownTypes DEF RestOK, FrameTaken, FrameAccepted
    <3> QED
      BY <1>4, <3>1, KnownTypes, TypesNext DEF FrameAccepted
  <2>3. ParserLabels' /\ ParserPassed'
    <3>1. parser'.frame = f /\ parser'.label = rowModes
          /\ parser'.profId = (IF f.kind = MIXED THEN f.profId
                               ELSE Ident(profGate.gen, profGate.id))
      BY <1>4 DEF FrameAccepted
    <3>2. f.kind # MIXED => AcceptHomogeneous(S, f)
      BY <1>4 DEF FrameAccepted, Accepts
    <3>3. f.kind = MIXED => AcceptMixed(S, f)
      BY <1>4 DEF FrameAccepted, Accepts
    <3>4. ParserLabels'
      BY <2>1, <3>1, <3>2 DEF ParserLabels, AcceptHomogeneous, S
    <3>5. (geometry => f.rows = activeRows) /\ (f.kind \in {MIXED, CAP} => Same(f.rowsId, rowsGate))
      BY <3>2, <3>3 DEF AcceptHomogeneous, AcceptMixed, S
    <3>6. f.kind = MIXED => Same(f.profId, profGate)
      BY <3>3 DEF AcceptMixed, S
    <3>7. ParserPassed'
      BY <2>1, <3>1, <3>5, <3>6 DEF ParserPassed, Same
    <3> QED BY <3>4, <3>7
  <2>4. LiveFits(S)'
    BY <1>4 DEF Known, FrameAccepted
  <2>5. ~resync' /\ seen' = Known3 /\ (\A i \in DOMAIN reports' : DevIds(reports'[i].dev))
        /\ link' = "up" /\ DevIds(dev')
    BY <1>1, <1>2, <1>4, <2>1 DEF FrameAccepted, FrameTaken, Known
  <2>6. "STATE" \in seen' => cmd'.modeId # NoId
    BY <1>1, <1>4 DEF Known, FrameAccepted, FrameTaken
  <2> QED
    BY <2>2, <2>3, <2>4, <2>5, <2>6 DEF Known
<1>5. CASE FrameRejected
  <2>1. TypeOK'
    <3>1. RestOK'
      BY <1>1, <1>5, KnownTypes DEF RestOK, FrameTaken, FrameRejected
    <3> QED
      BY <1>5, <3>1, TypesNext DEF FrameRejected
  <2>2. /\ link' = "up" /\ parser' = None /\ ~Live' /\ (resync' <=> seen' # Known3)
        /\ DevIds(dev') /\ \A i \in DOMAIN reports' : DevIds(reports'[i].dev)
    BY <1>1, <1>2, <1>3, <1>5 DEF FrameRejected, FrameTaken, Known
  <2>3. "STATE" \in seen' => cmd'.modeId # NoId
    <3>1. "STATE" \in seen' => cmd.modeId # NoId /\ "STATE" \in seen
      BY <1>1 DEF Known, FrameTaken
    <3> QED
      BY <1>5, <3>1 DEF FrameRejected
  <2>4. LiveFits(S)' /\ ParserLabels' /\ ParserPassed'
    BY <1>5 DEF FrameRejected, LiveFits, ParserLabels, ParserPassed
  <2> QED
    BY <2>1, <2>2, <2>3, <2>4 DEF Known
<1> QED
  BY <1>1, <1>4, <1>5

LEMMA CommitKnown ==
  ASSUME Known, Commit
  PROVE  Known'
<1> DEFINE f == parser.frame
<1>1. /\ parser' = None /\ S' \in StoreType /\ parser # None
      /\ UNCHANGED <<resync, appliedMode, rowModes, modeGate, dev, asked, connections, link,
                     data, reports, lost, cmd, seen, told>>
      /\ latest' = [kind |-> f.kind, profile |-> rowModes, rows |-> f.rows,
                    change |-> f.change, live |-> TRUE]
  BY CommitIs DEF Commit
<1>2. f.kind # MIXED => rowModes = All(f.kind) /\ appliedMode = f.kind
  BY <1>1 DEF Known, ParserLabels
<1> HIDE DEF f
<1>3. TypeOK'
  <2>1. RestOK'
    BY <1>1, KnownTypes DEF RestOK
  <2> QED
    BY <1>1, <2>1, TypesNext
<1>4. LiveFits(S)'
  BY <1>1, <1>2 DEF LiveFits, S
<1>5. link' = "up" => ~resync'
  BY <1>1 DEF Known
<1> QED
  BY <1>1, <1>3, <1>4, <1>5 DEF Known, ParserLabels, ParserPassed

LEMMA ReconnectIs ==
  ASSUME Known, Reconnect
  PROVE  /\ S' \in StoreType /\ ~LiveIn(S') /\ resync' = TRUE
         /\ parser = None /\ parser' = None /\ link = "up" /\ connections' \in Nat
         /\ data' = <<>> /\ reports' = <<>> /\ lost' = FALSE /\ asked' = 0 /\ seen' = {}
         /\ told' = 0 /\ UNCHANGED <<dev, link, cmd>>
<1> DEFINE q == Quarantine(S)
           t == [q EXCEPT !.resync = TRUE]
<1>1. q \in StoreType /\ ~LiveIn(q)
  BY KnownTypes, QuarantineIs
<1>2. Becomes(t)
  BY DEF Reconnect
<1> HIDE DEF q
<1>3. t \in StoreType /\ t.resync = TRUE /\ ~LiveIn(t)
  BY <1>1 DEF StoreType, LiveIn
<1> HIDE DEF t
<1>4. S' = t
  BY <1>2, <1>3, BecomesIs
<1>5. resync' = S'.resync
  BY DEF S
<1> QED
  BY <1>3, <1>4, <1>5, KnownTypes DEF Reconnect, RestOK

LEMMA ReconnectKnown ==
  ASSUME Known, Reconnect
  PROVE  Known'
<1>1. /\ S' \in StoreType /\ ~LiveIn(S') /\ resync' = TRUE
      /\ parser' = None /\ link = "up" /\ connections' \in Nat
      /\ data' = <<>> /\ reports' = <<>> /\ lost' = FALSE /\ asked' = 0 /\ seen' = {}
      /\ told' = 0 /\ UNCHANGED <<dev, link, cmd>>
  BY ReconnectIs
<1>2. TypeOK'
  <2>1. data' \in Seq(FrameType) /\ reports' \in Seq(ReportType) /\ asked' \in 0 .. 3
    BY <1>1
  <2>2. seen' \subseteq Known3 /\ told' \in Nat /\ lost' \in BOOLEAN
    BY <1>1
  <2>3. RestOK'
    BY <1>1, <2>1, <2>2, KnownTypes DEF RestOK
  <2> QED
    BY <1>1, <2>3, TypesNext
<1>3. ~Live'
  BY <1>1 DEF Live, LiveIn, S
<1> QED
  BY <1>1, <1>2, <1>3 DEF Known, LiveFits, ParserLabels, ParserPassed, Known3

LEMMA ClearKnown ==
  ASSUME Known, Clear
  PROVE  Known'
<1>1. /\ latest' = None
      /\ UNCHANGED <<dev, asked, connections, link, data, reports, lost, cmd, seen, resync, rowModes,
                     appliedMode, activeRows, geometry, rowsGate, modeGate, profGate, told, parser>>
  BY DEF Clear, device, wire, host, gates
<1>2. S' \in StoreType
  BY <1>1, KnownTypes DEF S, StoreType
<1>3. TypeOK'
  <2>1. RestOK'
    BY <1>1, KnownTypes DEF RestOK
  <2> QED
    BY <1>2, <2>1, TypesNext
<1>4. ~Live' /\ LiveFits(S)'
  BY <1>1 DEF Live, LiveIn, LiveFits, S
<1> QED
  BY <1>1, <1>3, <1>4 DEF Known, ParserLabels, ParserPassed

LEMMA ImportIs ==
  ASSUME Known, ImportReset
  PROVE  /\ S' \in StoreType /\ ~LiveIn(S')
         /\ rowModes' = rowModes /\ appliedMode' = appliedMode
         /\ link' = "offline" /\ data' = <<>> /\ reports' = <<>>
         /\ UNCHANGED <<dev, asked, connections, lost, cmd, seen, told, parser>>
<1> DEFINE t == ResetSession(S)
<1>1. /\ t \in StoreType /\ ~LiveIn(t)
      /\ t.rowModes = S.rowModes /\ t.appliedMode = S.appliedMode
  BY KnownTypes, ResetSessionIs
<1>2. Becomes(t)
  BY DEF ImportReset
<1> HIDE DEF t
<1>3. S' = t
  BY <1>1, <1>2, BecomesIs
<1>4. rowModes' = S'.rowModes /\ appliedMode' = S'.appliedMode
      /\ rowModes = S.rowModes /\ appliedMode = S.appliedMode
  BY DEF S
<1> QED
  BY <1>1, <1>3, <1>4 DEF ImportReset, host

LEMMA ImportKnown ==
  ASSUME Known, ImportReset
  PROVE  Known'
<1>1. /\ S' \in StoreType /\ ~LiveIn(S')
      /\ rowModes' = rowModes /\ appliedMode' = appliedMode
      /\ link' = "offline" /\ data' = <<>> /\ reports' = <<>>
      /\ UNCHANGED <<dev, asked, connections, lost, cmd, seen, told, parser>>
  BY ImportIs
<1>2. TypeOK'
  <2>1. RestOK'
    BY <1>1, KnownTypes DEF RestOK
  <2> QED
    BY <1>1, <2>1, TypesNext
<1> QED
  BY <1>1, <1>2 DEF Known, LiveFits, ParserLabels

LEMMA InitKnown == Init => Known
<1> SUFFICES ASSUME Init PROVE Known
  OBVIOUS
<1>1. PICK p \in Profiles :
        dev = [profile |-> p, mode |-> p[1], rows |-> NRows, modeId |-> Ident(0, 0),
               profId |-> Ident(0, 0), rowsId |-> Ident(0, 0), rowsSeq |-> 0, seq |-> 0,
               changes |-> 0]
  BY DEF Init
<1>2. p[1] \in Modes /\ CAP \in Modes /\ All(CAP) \in Profiles /\ NRows \in Rows
  BY RowFacts, ModesAssumption, AllFacts DEF Profiles
<1>3. Ident(0, 0) \in Numbered /\ Ident(0, 0) \in Identities
  BY DEF Ident, Numbered, Identities
<1>4. dev \in Device /\ DevIds(dev)
  BY <1>1, <1>2, <1>3 DEF Device, DevIds
<1>5. InitialCmd \in CmdType
  BY <1>2, NoIdType, NoneFacts DEF InitialCmd, CmdType
<1>6. S \in StoreType
  BY <1>2, NoIdType DEF Init, S, StoreType
<1>7. RestOK
  <2>1. data \in Seq(FrameType) /\ reports \in Seq(ReportType) /\ asked \in 0 .. 3
    BY DEF Init
  <2>2. seen \subseteq Known3 /\ told \in Nat /\ lost \in BOOLEAN /\ connections \in Nat
        /\ link \in {"up", "offline"} /\ parser = None /\ cmd = InitialCmd
    BY DEF Init
  <2> QED
    BY <1>4, <1>5, <2>1, <2>2 DEF RestOK
<1> QED
  BY <1>4, <1>6, <1>7, Types DEF Init, Known, Live, LiveFits, LiveIn, S, ParserLabels, ParserPassed,
                                 Known3

LEMMA StepKnown == Known /\ [Next]_vars => Known'
<1> SUFFICES ASSUME Known, [Next]_vars PROVE Known'
  OBVIOUS
<1>1. CASE UNCHANGED vars
  <2>1. UNCHANGED <<dev, asked, connections, link, data, reports, lost, cmd, seen, resync, rowModes,
                    appliedMode, activeRows, geometry, rowsGate, modeGate, profGate, latest, told,
                    parser>>
    BY <1>1 DEF vars, device, wire, host, store, gates
  <2>2. TypeOK'
    BY <2>1 DEF Known, TypeOK
  <2>3. S' = S
    BY <2>1 DEF S
  <2> QED
    BY <2>1, <2>2, <2>3 DEF Known, Live, LiveFits, ParserLabels, ParserPassed
<1> QED
  BY <1>1, DeviceKnown, HandleFrameKnown, CommitKnown, HandleReportKnown, ReconnectKnown, ClearKnown,
     ImportKnown DEF Next

LEMMA KnownHolds == Spec => []Known
  BY InitKnown, StepKnown, PTL DEF Spec

\* The store, the command service as it sees it and the wire are type correct.
THEOREM TypeCorrect == Spec => []TypeOK
<1>1. Known => TypeOK
  BY DEF Known
<1> QED
  BY <1>1, KnownHolds, PTL

\* Nothing is live while the store waits for the read-back of the device's state,
\* and a homogeneous matrix on display is of the applied mode and profile: through
\* every report, reconnection and the gap between acceptance and commit.
THEOREM LiveMatrixIsKnown == Spec => []LiveIsKnown
<1>1. Known => LiveIsKnown
  BY DEF Known, LiveIsKnown, LiveFits, LiveIn, Live, S
<1> QED
  BY <1>1, KnownHolds, PTL

-----------------------------------------------------------------------------
(* No frame older than a reported change goes live: Barred is an invariant, *)
(* for a device whose sequence a MODE transition does not restart.          *)

\* What a step may show that was not on display.
Forward == latest' # latest /\ latest' # None /\ latest'.live => latest'.change >= told

FromOld(new, old) == \A i \in DOMAIN new : \E j \in DOMAIN old : new[i] = old[j]

LEMMA TailFromOld ==
  ASSUME NEW T, NEW q \in Seq(T), q # <<>>
  PROVE  FromOld(Tail(q), q)
  BY TailOne DEF FromOld

LEMMA EmptyFromOld == ASSUME NEW q PROVE FromOld(<<>>, q)
  BY DEF FromOld

LEMMA SameFromOld == ASSUME NEW q PROVE FromOld(q, q)
  BY DEF FromOld

LEMMA WireTypes ==
  ASSUME Known
  PROVE  /\ dev.seq \in Nat /\ dev.changes \in Nat /\ told \in Nat
         /\ \A i \in DOMAIN data : data[i] \in FrameType /\ data[i].seq \in Nat
                                   /\ data[i].change \in Nat
         /\ \A i \in DOMAIN reports : /\ reports[i] \in ReportType /\ reports[i].dev \in Device
                                      /\ reports[i].dev.seq \in Nat
                                      /\ reports[i].dev.changes \in Nat
<1>1. /\ dev \in Device /\ told \in Nat /\ data \in Seq(FrameType)
      /\ reports \in Seq(ReportType)
  BY KnownTypes DEF RestOK
<1>2. \A i \in DOMAIN data : data[i] \in FrameType
  BY <1>1, ElementType
<1>3. \A i \in DOMAIN reports : reports[i] \in ReportType
  BY <1>1, ElementType
<1>4. \A i \in DOMAIN reports : reports[i].dev \in Device
  BY <1>3 DEF ReportType
<1> QED
  BY <1>1, <1>2, <1>3, <1>4, FrameFields, DeviceFields

\* The wire only gets shorter.
LEMMA ShorterWire ==
  ASSUME WireOrder, FromOld(data', data), FromOld(reports', reports), dev' = dev,
         told' <= dev.changes
  PROVE  WireOrder'
<1>1. \A i \in DOMAIN data' : data'[i].seq < dev.seq /\ data'[i].change <= dev.changes
  BY DEF WireOrder, FromOld
<1>2. \A i \in DOMAIN reports' : /\ reports'[i].dev.changes <= dev.changes
                                 /\ reports'[i].kind = "RAPP" =>
                                      reports'[i].dev.rowsSeq = reports'[i].dev.seq
  BY DEF WireOrder, FromOld
<1>3. \A i \in DOMAIN reports', j \in DOMAIN data' :
        /\ reports'[i].kind \in Applied
        /\ data'[j].change < reports'[i].dev.changes
        => data'[j].seq < reports'[i].dev.seq
  BY DEF WireOrder, FromOld
<1> QED
  BY <1>1, <1>2, <1>3 DEF WireOrder

\* The gates bar what they barred: what BarredBy() reads stays.
SameBars(s, t) ==
  /\ t.rowsGate.seq = s.rowsGate.seq /\ t.profGate.seq = s.profGate.seq
  /\ t.modeGate.seq = s.modeGate.seq /\ t.rowModes = s.rowModes

LEMMA StillBarred ==
  ASSUME Barred, FromOld(data', data), told' = told, SameBars(S, S')
  PROVE  \A i \in DOMAIN data' : data'[i].change < told' => BarredBy(S', data'[i])
<1> SUFFICES ASSUME NEW i \in DOMAIN data', data'[i].change < told
             PROVE  BarredBy(S', data'[i])
  OBVIOUS
<1>1. PICK j \in DOMAIN data : data'[i] = data[j]
  BY DEF FromOld
<1>2. BarredBy(S, data[j])
  BY <1>1 DEF Barred
<1> QED
  BY <1>1, <1>2 DEF BarredBy, Beyond, SameBars

LEMMA ReportBarred ==
  ASSUME Known, Barred, NEW r \in ReportType, dev' \in Device, link = "up",
         dev'.seq = dev.seq, dev.changes <= dev'.changes, r.dev.changes <= dev'.changes,
         r.kind = "RAPP" => r.dev.rowsSeq = r.dev.seq,
         r.kind \in Applied => r.dev.seq = dev.seq,
         reports' = Append(reports, r), UNCHANGED <<data, lost, connections, link, host, store>>
  PROVE  Barred' /\ Forward
<1>1. UNCHANGED <<resync, latest, told, parser>> /\ S' = S /\ data' = data
  BY StoreStays DEF store
<1>2. \A i \in DOMAIN reports' : \/ i \in DOMAIN reports /\ reports'[i] = reports[i]
                                 \/ reports'[i] = r
  BY KnownTypes, AppendOne DEF RestOK
<1>3. dev'.changes \in Nat
  BY DeviceFields
<1>4. \A i \in DOMAIN data' : data'[i].seq < dev'.seq /\ data'[i].change <= dev'.changes
  BY <1>1, <1>3, WireTypes DEF Barred, WireOrder
<1>5. \A i \in DOMAIN reports' : /\ reports'[i].dev.changes <= dev'.changes
                                 /\ reports'[i].kind = "RAPP" =>
                                      reports'[i].dev.rowsSeq = reports'[i].dev.seq
  BY <1>2, <1>3, WireTypes DEF Barred, WireOrder
<1>6. \A i \in DOMAIN reports', j \in DOMAIN data' :
        /\ reports'[i].kind \in Applied
        /\ data'[j].change < reports'[i].dev.changes
        => data'[j].seq < reports'[i].dev.seq
  BY <1>1, <1>2 DEF Barred, WireOrder
<1>7. told' <= dev'.changes
  BY <1>1, <1>3, WireTypes DEF Barred, WireOrder
<1>8. WireOrder'
  BY <1>4, <1>5, <1>6, <1>7 DEF WireOrder
<1> QED
  BY <1>1, <1>8 DEF Barred, Forward

LEMMA DeviceBarred ==
  ASSUME ~SeqRestarts, Known, Barred, SendFrame \/ ChangeMode \/ ChangeProfile \/ ChangeRows \/ Answer
                                      \/ LoseFrame \/ LoseReport
  PROVE  Barred' /\ Forward
<1>0. dev \in Device /\ DevIds(dev) /\ asked \in 0 .. 3
  BY KnownTypes DEF RestOK, Known
<1>1. CASE SendFrame
  <2>1. /\ link = "up" /\ dev' \in Device /\ dev'.seq = dev.seq + 1 /\ dev'.changes = dev.changes
        /\ Frame \in FrameType /\ data' = Append(data, Frame)
        /\ UNCHANGED <<reports, lost, asked, connections, link, host, store>>
    BY <1>0, <1>1, SendFrameIs
  <2>2. Frame.seq = dev.seq /\ Frame.change = dev.changes
    BY <1>0, FrameFacts
  <2>3. \A i \in DOMAIN data' : \/ i \in DOMAIN data /\ data'[i] = data[i]
                                \/ data'[i] = Frame
    BY <2>1, KnownTypes, AppendOne DEF RestOK
  <2>4. UNCHANGED <<resync, latest, told, parser>> /\ S' = S /\ reports' = reports
    BY <2>1, StoreStays DEF store
  <2>5. \A i \in DOMAIN data' : data'[i].seq < dev'.seq /\ data'[i].change <= dev'.changes
    BY <2>1, <2>2, <2>3, WireTypes DEF Barred, WireOrder
  <2>6. \A i \in DOMAIN reports', j \in DOMAIN data' :
          /\ reports'[i].kind \in Applied
          /\ data'[j].change < reports'[i].dev.changes
          => data'[j].seq < reports'[i].dev.seq
    BY <2>2, <2>3, <2>4, WireTypes DEF Barred, WireOrder
  <2>7. WireOrder'
    BY <2>1, <2>4, <2>5, <2>6 DEF Barred, WireOrder
  <2>8. \A i \in DOMAIN data' : data'[i].change < told' => BarredBy(S', data'[i])
    BY <2>2, <2>3, <2>4, WireTypes DEF Barred, WireOrder
  <2> QED
    BY <2>1, <2>4, <2>7, <2>8 DEF Barred, Forward
<1>2. ASSUME NEW k, Changed(k)
      PROVE  Barred' /\ Forward
  <2> DEFINE r == [kind |-> k, dev |-> dev']
  <2>1. /\ r \in ReportType /\ r.kind = k /\ r.dev = dev'
    BY <1>2 DEF Changed, ReportType, ReportKinds, Applied
  <2>2. /\ reports' = Append(reports, r) /\ link = "up" /\ dev' \in Device
        /\ UNCHANGED <<data, lost, connections, link, host, store>>
    BY <1>2 DEF Changed
  <2> HIDE DEF r
  <2>3. /\ dev'.seq = dev.seq /\ dev'.changes = dev.changes + 1
        /\ k = "RAPP" => dev'.rowsSeq = dev.seq
    BY <1>2 DEF Changed
  <2>4. dev.changes <= dev'.changes /\ dev'.changes <= dev'.changes
    BY <2>3, WireTypes
  <2> QED
    BY <2>1, <2>2, <2>3, <2>4, ReportBarred
<1>3. CASE ChangeMode \/ ChangeProfile \/ ChangeRows
  BY <1>0, <1>2, <1>3, ChangeModeIs, ChangeProfileIs, ChangeRowsIs
<1>4. CASE Answer
  <2>1. PICK k \in Known3 :
           /\ reports' = Append(reports, [kind |-> k, dev |-> dev])
           /\ [kind |-> k, dev |-> dev] \in ReportType
           /\ asked' \in 0 .. 3 /\ link = "up"
           /\ UNCHANGED <<dev, connections, link, data, lost, host, store>>
    BY <1>0, <1>4, AnswerIs
  <2> DEFINE r == [kind |-> k, dev |-> dev]
  <2>2. r.kind = k /\ r.dev = dev /\ r \in ReportType /\ reports' = Append(reports, r)
    BY <2>1
  <2> HIDE DEF r
  <2>3. k \notin Applied
    BY DEF Known3, Applied
  <2> QED
    BY <1>0, <2>1, <2>2, <2>3, WireTypes, ReportBarred DEF Applied
<1>5. CASE LoseFrame \/ LoseReport
  <2>1. /\ FromOld(data', data) /\ FromOld(reports', reports)
        /\ UNCHANGED <<dev, asked, connections, link, host, store>>
    BY <1>5, TailFromOld, SameFromOld, KnownTypes DEF LoseFrame, LoseReport, device, RestOK
  <2>2. UNCHANGED <<resync, latest, told, parser>> /\ S' = S
    BY <2>1, StoreStays DEF store
  <2>3. WireOrder'
    BY <2>1, <2>2, ShorterWire DEF Barred, WireOrder
  <2>4. \A i \in DOMAIN data' : data'[i].change < told' => BarredBy(S', data'[i])
    BY <2>1, <2>2, StillBarred DEF SameBars
  <2> QED
    BY <2>1, <2>2, <2>3, <2>4 DEF Barred, Forward
<1> QED
  BY <1>1, <1>3, <1>4, <1>5

LEMMA GateSeq ==
  ASSUME NEW g, NEW i, NEW q
  PROVE  Gate(g, i, q).gen = g /\ Gate(g, i, q).id = i /\ Gate(g, i, q).seq = q
  BY DEF Gate

\* What the store is told while it waits for nothing.
LEMMA StoreTold ==
  ASSUME S \in StoreType, NEW r \in ReportType, NEW c, NEW known \in BOOLEAN, ~resync
  PROVE  LET t == StoreAfter(r, c, known)
         IN  /\ r.kind = "MAPP" => t = ApplyMode(S, r.dev.mode, r.dev.modeId, r.dev.seq)
             /\ r.kind = "RMAPP" =>
                  t = ApplyRowModes(S, r.dev.profile, r.dev.profId, r.dev.seq)
             /\ r.kind = "RAPP" => t = ApplyRows(S, r.dev.rows, r.dev.rowsId, r.dev.rowsSeq)
             /\ r.kind \notin Applied => t = S
  BY DEF StoreAfter, Applied

\* A reported change bars every frame numbered before it.
LEMMA ChangeBars ==
  ASSUME S \in StoreType, NEW r \in ReportType, r.kind \in Applied, NEW c, NEW known \in BOOLEAN,
         ~resync, r.kind = "RAPP" => r.dev.rowsSeq = r.dev.seq,
         NEW f \in FrameType, f.seq < r.dev.seq
  PROVE  BarredBy(StoreAfter(r, c, known), f)
<1> DEFINE t == StoreAfter(r, c, known)
<1>1. /\ r.dev \in Device /\ r.dev.seq \in Nat /\ r.dev.seq # None
      /\ r.dev.mode \in Modes /\ r.dev.profile \in Profiles /\ r.dev.rows \in Rows
      /\ r.dev.modeId \in Identities /\ r.dev.profId \in Identities /\ r.dev.rowsId \in Identities
      /\ r.dev.seq \in MaybeNat /\ r.dev.rowsSeq \in MaybeNat
  BY DeviceFields, NoneFacts DEF ReportType
<1>2. CASE r.kind = "MAPP"
  <2>1. t = ApplyMode(S, r.dev.mode, r.dev.modeId, r.dev.seq)
    BY <1>2, StoreTold
  <2>2. t.modeGate.seq = r.dev.seq /\ t.profGate.seq = r.dev.seq
    BY <1>1, <2>1, ApplyModeIs, GateSeq
  <2> QED
    BY <1>1, <2>2 DEF BarredBy, Beyond
<1>3. CASE r.kind = "RMAPP"
  <2>1. t = ApplyRowModes(S, r.dev.profile, r.dev.profId, r.dev.seq)
    BY <1>3, StoreTold
  <2>2. /\ t.profGate = Gate(r.dev.profId.gen, r.dev.profId.id, r.dev.seq)
        /\ t.rowModes = r.dev.profile
        /\ Homogeneous(r.dev.profile) => t.modeGate = RowProfileGate(S, r.dev.profId, r.dev.seq)
    BY <1>1, <2>1, ApplyRowModesIs
  <2>3. t.profGate.seq = r.dev.seq
    BY <2>2, GateSeq
  <2>4. RowProfileGate(S, r.dev.profId, r.dev.seq).seq = r.dev.seq
    BY <1>1, GateSeq DEF RowProfileGate
  <2> HIDE DEF t
  <2>5. BarredBy(t, f)
    BY <1>1, <2>2, <2>3, <2>4 DEF BarredBy, Beyond
  <2> QED
    BY <2>5 DEF t
<1>4. CASE r.kind = "RAPP"
  <2>1. t = ApplyRows(S, r.dev.rows, r.dev.rowsId, r.dev.rowsSeq)
    BY <1>4, StoreTold
  <2>2. t.rowsGate = Gate(r.dev.rowsId.gen, r.dev.rowsId.id, r.dev.rowsSeq)
    BY <1>1, <2>1, ApplyRowsIs
  <2>3. t.rowsGate.seq = r.dev.seq
    BY <1>4, <2>2, GateSeq
  <2> QED
    BY <1>1, <2>3 DEF BarredBy, Beyond
<1> QED
  BY <1>2, <1>3, <1>4 DEF Applied

LEMMA AcceptedNotBarred ==
  ASSUME NEW s \in StoreType, NEW f \in FrameType, Accepts(s, f)
  PROVE  ~BarredBy(s, f)
<1>1. /\ f.seq \in Nat /\ f.kind \in Modes \cup {MIXED}
      /\ s.rowsGate.seq \in MaybeNat /\ s.modeGate.seq \in MaybeNat /\ s.profGate.seq \in MaybeNat
  BY FrameFields, StoreFields, GateFields
<1>2. \A g : g.seq \in MaybeNat /\ Behind(f.seq, g) => ~Beyond(f.seq, g)
  BY <1>1, NoneFacts DEF Behind, Beyond, MaybeNat
<1>3. CASE f.kind = MIXED
  BY <1>1, <1>2, <1>3 DEF Accepts, AcceptMixed, BarredBy
<1>4. CASE f.kind # MIXED
  <2>1. AcceptHomogeneous(s, f)
    BY <1>4 DEF Accepts
  <2>2. Homogeneous(s.rowModes)
    BY <1>1, <1>4, <2>1, AllFacts DEF AcceptHomogeneous
  <2> QED
    BY <1>1, <1>2, <1>4, <2>1, <2>2 DEF AcceptHomogeneous, BarredBy
<1> QED
  BY <1>3, <1>4

LEMMA HandleReportBarred ==
  ASSUME Known, Barred, HandleReport
  PROVE  Barred' /\ Forward
<1> DEFINE r == reports[1]
           known == (seen' = Known3)
<1>1. /\ reports # <<>> /\ 1 \in DOMAIN reports /\ link = "up" /\ parser' = None
      /\ r \in ReportType
      /\ told' = (IF seen' # seen THEN 0
                  ELSE IF r.kind \in Applied /\ ~resync THEN r.dev.changes ELSE told)
      /\ S' = StoreAfter(r, cmd', known)
      /\ Gently(S, S') /\ resync' = (resync /\ ~known)
      /\ reports' = Tail(reports) /\ link' = link /\ data' = data /\ dev' = dev
  BY HandleReportIs
<1>2. /\ r.dev.changes \in Nat /\ r.dev.seq \in Nat /\ r.dev.changes <= dev.changes
      /\ r.kind = "RAPP" => r.dev.rowsSeq = r.dev.seq
      /\ \A j \in DOMAIN data : r.kind \in Applied /\ data[j].change < r.dev.changes =>
           data[j].seq < r.dev.seq
  BY <1>1, WireTypes DEF Barred, WireOrder
<1>3. known \in BOOLEAN /\ (resync => told = 0) /\ S \in StoreType
  BY <1>1, KnownTypes DEF Barred
<1> HIDE DEF r, known
<1>4. told' <= dev.changes /\ (resync' => told' = 0)
  <2>1. resync' => resync
    BY <1>1
  <2>2. told <= dev.changes /\ told \in Nat /\ dev.changes \in Nat
    BY WireTypes DEF Barred, WireOrder
  <2>3. told' = 0 \/ told' = told \/ (told' = r.dev.changes /\ ~resync)
    BY <1>1
  <2> QED
    BY <1>2, <1>3, <2>1, <2>2, <2>3
<1>5. FromOld(data', data) /\ FromOld(reports', reports)
  BY <1>1, TailFromOld, SameFromOld, KnownTypes DEF RestOK
<1>6. WireOrder'
  BY <1>1, <1>4, <1>5, ShorterWire DEF Barred
<1>7. \A i \in DOMAIN data' : data'[i].change < told' => BarredBy(S', data'[i])
  <2>1. CASE told' = 0
    BY <1>1, <2>1, WireTypes
  <2>2. CASE told' # 0 /\ r.kind \in Applied /\ ~resync
    <3> SUFFICES ASSUME NEW i \in DOMAIN data, data[i].change < told'
                 PROVE  BarredBy(S', data[i])
      BY <1>1
    <3>1. told' = r.dev.changes
      BY <1>1, <2>2
    <3>2. data[i].seq < r.dev.seq /\ data[i] \in FrameType
      BY <1>2, <2>2, <3>1, WireTypes
    <3> QED
      BY <1>1, <1>2, <1>3, <2>2, <3>2, ChangeBars
  <2>3. CASE told' # 0 /\ ~(r.kind \in Applied /\ ~resync)
    <3>1. told' = told /\ ~resync /\ r.kind \notin Applied
      BY <1>1, <1>3, <2>3
    <3>2. S' = S
      BY <1>1, <1>3, <3>1, StoreTold
    <3> QED
      BY <1>5, <3>1, <3>2, StillBarred DEF SameBars
  <2> QED BY <2>1, <2>2, <2>3
<1>8. Forward
  <2>1. LiveIn(S') => S'.latest = S.latest
    BY <1>1 DEF Gently
  <2> QED
    BY <2>1 DEF Forward, LiveIn, S
<1> QED
  BY <1>1, <1>4, <1>6, <1>7, <1>8 DEF Barred

LEMMA HandleFrameBarred ==
  ASSUME Known, Barred, HandleFrame
  PROVE  Barred' /\ Forward
<1> DEFINE f == data[1]
<1>1. FrameTaken(f) /\ (FrameAccepted(f) \/ FrameRejected)
  BY HandleFrameIs
<1>2. 1 \in DOMAIN data
  BY <1>1, KnownTypes, TailOne DEF RestOK, FrameTaken
<1>3. f.change < told => BarredBy(S, f)
  BY <1>2 DEF Barred
<1> HIDE DEF f
<1>4. /\ FromOld(data', data) /\ FromOld(reports', reports)
      /\ told' = told /\ dev' = dev /\ link' = link /\ link = "up" /\ f \in FrameType
  BY <1>1, TailFromOld, SameFromOld, KnownTypes DEF RestOK, FrameTaken
<1>5. WireOrder'
  BY <1>4, ShorterWire DEF Barred, WireOrder
<1>6. resync => told = 0
  BY <1>4 DEF Barred
<1>7. CASE FrameAccepted(f)
  <2>1. S' = S /\ Accepts(S, f) /\ parser'.frame = f
    BY <1>7 DEF FrameAccepted
  <2>2. resync' = resync /\ latest' = latest
    BY <2>1 DEF S
  <2>3. \A i \in DOMAIN data' : data'[i].change < told' => BarredBy(S', data'[i])
    BY <1>4, <2>1, StillBarred DEF SameBars
  <2>4. ~BarredBy(S, f)
    BY <1>4, <2>1, KnownTypes, AcceptedNotBarred
  <2>5. f.change >= told
    BY <1>3, <1>4, <2>4, FrameFields, WireTypes
  <2> QED
    BY <1>4, <1>5, <1>6, <2>1, <2>2, <2>3, <2>5 DEF Barred, Forward
<1>8. CASE FrameRejected
  <2>1. parser' = None /\ ~LiveIn(S') /\ resync' = resync
    BY <1>8 DEF FrameRejected
  <2>2. \A i \in DOMAIN data' : data'[i].change < told' => BarredBy(S', data'[i])
    <3>1. CASE told = 0
      <4>1. data' \in Seq(FrameType)
        BY <1>1 DEF FrameTaken
      <4>2. \A i \in DOMAIN data' : data'[i].change \in Nat
        BY <4>1, ElementType, FrameFields
      <4> QED
        BY <1>4, <3>1, <4>2
    <3>2. CASE told # 0
      <4>1. S' = Quarantine(S)
        BY <1>6, <1>8, <3>2 DEF FrameRejected
      <4>2. SameBars(S, S')
        BY <4>1, KnownTypes, QuarantineIs DEF SameBars
      <4> QED
        BY <1>4, <4>2, StillBarred
    <3> QED BY <3>1, <3>2
  <2>3. Forward
    BY <2>1 DEF Forward, LiveIn, S
  <2> QED
    BY <1>4, <1>5, <1>6, <2>1, <2>2, <2>3 DEF Barred
<1> QED
  BY <1>1, <1>7, <1>8

LEMMA CommitBarred ==
  ASSUME Known, Barred, Commit
  PROVE  Barred' /\ Forward
<1> DEFINE f == parser.frame
<1>1. /\ parser' = None /\ S' \in StoreType /\ parser # None
      /\ UNCHANGED <<resync, appliedMode, rowModes, modeGate, dev, asked, connections, link,
                     data, reports, lost, cmd, seen, told>>
      /\ rowsGate' = (IF f.kind \in {MIXED, CAP}
                        THEN Gate(f.rowsId.gen, f.rowsId.id, rowsGate.seq) ELSE rowsGate)
      /\ profGate' = Gate(parser.profId.gen, parser.profId.id, profGate.seq)
      /\ latest' = [kind |-> f.kind, profile |-> rowModes, rows |-> f.rows,
                    change |-> f.change, live |-> TRUE]
  BY CommitIs DEF Commit
<1>2. f.change >= told
  BY <1>1 DEF Barred
<1> HIDE DEF f
<1>3. FromOld(data', data) /\ FromOld(reports', reports)
  BY <1>1, SameFromOld
<1>4. rowsGate'.seq = rowsGate.seq /\ profGate'.seq = profGate.seq
  BY <1>1, GateSeq
<1>5. SameBars(S, S')
  BY <1>1, <1>4 DEF SameBars, S
<1>6. \A i \in DOMAIN data' : data'[i].change < told' => BarredBy(S', data'[i])
  BY <1>1, <1>3, <1>5, StillBarred
<1>7. WireOrder'
  BY <1>1, <1>3, ShorterWire DEF Barred, WireOrder
<1> QED
  BY <1>1, <1>2, <1>6, <1>7 DEF Barred, Forward

LEMMA LifecycleBarred ==
  ASSUME Known, Barred, Reconnect \/ Clear \/ ImportReset
  PROVE  Barred' /\ Forward
<1>1. CASE Reconnect
  <2>1. /\ ~LiveIn(S') /\ parser' = None /\ data' = <<>> /\ reports' = <<>>
        /\ told' = 0 /\ dev' = dev
    BY <1>1, ReconnectIs
  <2>2. WireOrder'
    BY <2>1, EmptyFromOld, ShorterWire, WireTypes DEF Barred
  <2>3. Forward
    BY <2>1 DEF Forward, LiveIn, S
  <2> QED
    BY <2>1, <2>2, <2>3 DEF Barred
<1>2. CASE Clear
  <2>1. /\ latest' = None
        /\ UNCHANGED <<dev, link, data, reports, told, parser, resync, rowModes, rowsGate, modeGate,
                       profGate>>
    BY <1>2 DEF Clear, device, wire, gates
  <2>2. SameBars(S, S')
    BY <2>1 DEF SameBars, S
  <2>3. FromOld(data', data) /\ FromOld(reports', reports)
    BY <2>1, SameFromOld
  <2>4. \A i \in DOMAIN data' : data'[i].change < told' => BarredBy(S', data'[i])
    BY <2>1, <2>2, <2>3, StillBarred
  <2>5. WireOrder'
    BY <2>1, <2>3, ShorterWire DEF Barred, WireOrder
  <2> QED
    BY <2>1, <2>4, <2>5 DEF Barred, Forward
<1>3. CASE ImportReset
  <2>1. /\ ~LiveIn(S') /\ link' = "offline" /\ data' = <<>> /\ reports' = <<>>
        /\ UNCHANGED <<dev, told, parser>>
    BY <1>3, ImportIs
  <2>2. WireOrder'
    BY <2>1, EmptyFromOld, ShorterWire DEF Barred, WireOrder
  <2>3. Forward
    BY <2>1 DEF Forward, LiveIn, S
  <2> QED
    BY <2>1, <2>2, <2>3 DEF Barred
<1> QED
  BY <1>1, <1>2, <1>3

LEMMA InitBarred == Init => Barred
<1> SUFFICES ASSUME Init PROVE Barred
  OBVIOUS
<1>1. data = <<>> /\ reports = <<>> /\ told = 0 /\ parser = None /\ dev.changes = 0
  BY DEF Init
<1> QED
  BY <1>1 DEF Barred, WireOrder

LEMMA StepBarred ==
  ASSUME ~SeqRestarts, Known, Barred, [Next]_vars
  PROVE  Barred' /\ [Forward]_vars
<1>1. CASE UNCHANGED vars
  <2>1. UNCHANGED <<dev, link, data, reports, told, parser, resync, rowModes, appliedMode, activeRows,
                    geometry, rowsGate, modeGate, profGate, latest>>
    BY <1>1 DEF vars, device, wire, store, gates
  <2>2. S' = S
    BY <2>1 DEF S
  <2> QED
    BY <1>1, <2>1, <2>2 DEF Barred, WireOrder
<1> QED
  BY <1>1, DeviceBarred, HandleFrameBarred, CommitBarred, HandleReportBarred, LifecycleBarred DEF Next

LEMMA BarredHolds ==
  ASSUME ~SeqRestarts
  PROVE  Spec => [](Known /\ Barred)
<1>1. Known /\ Barred /\ [Next]_vars => Known' /\ Barred'
  BY StepKnown, StepBarred
<1> QED
  BY <1>1, InitKnown, InitBarred, PTL DEF Spec

\* "Reject old/mismatched frames after that boundary" (docs/measurement-protocol.md),
\* for a device whose frame sequence a MODE transition does not restart: however
\* reports and frames interleave, are lost, or cross a reconnection, a matrix that
\* goes live was measured under the last change told to the store or a later one.
THEOREM NoOldFrames ==
  ASSUME ~SeqRestarts
  PROVE  Spec => NoOldFrameAdmitted
<1>1. Known /\ Barred /\ [Next]_vars => [Forward]_vars
  BY StepBarred
<1>2. [Forward]_vars =>
        [latest' # latest /\ latest' # None /\ latest'.live => latest'.change >= told]_vars
  BY DEF Forward
<1> QED
  BY <1>1, <1>2, BarredHolds, PTL DEF Spec, NoOldFrameAdmitted

-----------------------------------------------------------------------------
(* The gates fit the device: Tracked is an invariant, for such a device.    *)

LEMMA DeviceFitsNumbers ==
  ASSUME NEW d \in Device, DeviceFits(d)
  PROVE  /\ d.modeId.id \in Nat /\ d.modeId.gen \in Nat
         /\ d.profId.id \in Nat /\ d.profId.gen \in Nat
         /\ d.rowsId.id \in Nat /\ d.rowsId.gen \in Nat
         /\ d.modeId.id # None /\ d.profId.id # None
         /\ d.rowsId.id # None /\ d.rowsId.gen # None
         /\ d.changes \in Nat /\ d.seq \in Nat /\ d.rowsSeq \in Nat
  BY NoneFacts, DeviceFields DEF DeviceFits, DevIds, Numbered

LEMMA PlacedStays ==
  ASSUME NEW d \in Device, NEW e \in Device, NEW fs, PlacedAt(d, e, fs),
         NEW e2 \in Device, e.changes <= e2.changes,
         e2.profId = e.profId \/ (e2.profId.id \in Nat /\ e.changes < e2.profId.id),
         NEW fs2, fs2 \subseteq fs
  PROVE  PlacedAt(d, e2, fs2)
<1>1. /\ DeviceFits(d) /\ d.changes <= e.changes /\ Agree(d, e)
      /\ \A f \in fs : Agree(f, d)
  BY DEF PlacedAt
<1>2. d.changes \in Nat /\ e.changes \in Nat /\ e2.changes \in Nat /\ d.profId.id \in Nat
  BY <1>1, DeviceFitsNumbers, DeviceFields
<1>3. d.profId.id <= d.changes
  BY <1>1 DEF DeviceFits
<1>4. Agree(d, e2)
  <2>1. CASE e2.profId = e.profId
    BY <1>1, <2>1 DEF Agree
  <2>2. CASE e2.profId.id \in Nat /\ e.changes < e2.profId.id
    BY <1>1, <1>2, <1>3, <2>2 DEF Agree
  <2> QED BY <2>1, <2>2
<1>5. d.changes <= e2.changes
  BY <1>1, <1>2
<1> QED
  BY <1>1, <1>4, <1>5 DEF PlacedAt

LEMMA ItselfPlaced ==
  ASSUME NEW e \in Device, NEW fs, PlacedAt(e, e, fs),
         \A f \in fs : f.profId.id \in Nat /\ f.profId.id <= e.changes,
         NEW e2 \in Device, DeviceFits(e2), e.changes <= e2.changes,
         e2.profId = e.profId \/ (e2.profId.id \in Nat /\ e.changes < e2.profId.id),
         NEW fs2, fs2 \subseteq fs
  PROVE  /\ PlacedAt(e2, e2, fs2)
         /\ \A f \in fs2 : f.profId.id \in Nat /\ f.profId.id <= e2.changes
<1>1. e.changes \in Nat /\ e2.changes \in Nat
  BY DeviceFields
<1>2. \A f \in fs2 : f.profId.id \in Nat /\ f.profId.id <= e2.changes
  BY <1>1
<1>3. ASSUME NEW f \in fs2
      PROVE  Agree(f, e2)
  <2>1. f \in fs /\ Agree(f, e) /\ f.profId.id \in Nat /\ f.profId.id <= e.changes
    BY DEF PlacedAt
  <2>2. CASE e2.profId = e.profId
    BY <2>1, <2>2 DEF Agree
  <2>3. CASE e2.profId.id \in Nat /\ e.changes < e2.profId.id
    BY <1>1, <2>1, <2>3 DEF Agree
  <2> QED BY <2>2, <2>3
<1>4. Agree(e2, e2)
  BY DEF Agree
<1> QED
  BY <1>1, <1>2, <1>3, <1>4 DEF PlacedAt

LEMMA DriftTwice ==
  ASSUME NEW a \in Device, NEW b \in Device, NEW c \in Device, Drift(a, b), Drift(b, c)
  PROVE  Drift(a, c)
  BY DeviceFields DEF Drift

LEMMA DriftSame ==
  ASSUME NEW a \in Device
  PROVE  Drift(a, a)
  BY DeviceFields DEF Drift

\* The reports under way lead from the view to the device.
LEMMA BeforeType ==
  ASSUME NEW v \in Device, NEW q \in Seq(ReportType), NEW i \in 1 .. (Len(q) + 1)
  PROVE  Before(v, q, i) \in Device
<1>1. DOMAIN q = 1 .. Len(q) /\ Len(q) \in Nat
  BY LenProperties
<1>2. CASE i = 1
  BY <1>2 DEF Before
<1>3. CASE i # 1
  <2>1. i - 1 \in DOMAIN q
    BY <1>1, <1>3
  <2>2. q[i-1] \in ReportType
    BY <2>1, ElementType
  <2> QED
    BY <1>3, <2>2 DEF Before, ReportType
<1> QED
  BY <1>2, <1>3

LEMMA LeadsEmpty ==
  ASSUME NEW v, NEW d
  PROVE  Leads(v, <<>>, d) <=> Drift(v, d)
<1>1. DOMAIN <<>> = {} /\ Len(<<>>) + 1 = 1
  OBVIOUS
<1> QED
  BY <1>1 DEF Leads, Before

LEMMA LeadsFurther ==
  ASSUME NEW v \in Device, NEW q \in Seq(ReportType), NEW d \in Device, NEW e \in Device,
         Leads(v, q, d), Drift(d, e)
  PROVE  Leads(v, q, e)
<1>1. Len(q) + 1 \in 1 .. (Len(q) + 1)
  BY LenProperties
<1>2. Before(v, q, Len(q) + 1) \in Device
  BY <1>1, BeforeType
<1> QED
  BY <1>2, DriftTwice DEF Leads

LEMMA LeadsAppend ==
  ASSUME NEW v \in Device, NEW q \in Seq(ReportType), NEW d \in Device, Leads(v, q, d),
         NEW r \in ReportType, Follows(Before(v, q, Len(q) + 1), r),
         NEW e \in Device, Drift(r.dev, e)
  PROVE  Leads(v, Append(q, r), e)
<1> DEFINE p == Append(q, r)
<1>1. /\ Len(p) = Len(q) + 1 /\ Len(q) \in Nat
      /\ DOMAIN q = 1 .. Len(q) /\ DOMAIN p = 1 .. (Len(q) + 1)
      /\ \A i \in 1 .. Len(q) : p[i] = q[i]
      /\ p[Len(q) + 1] = r
  <2>1. Len(q) \in Nat /\ DOMAIN q = 1 .. Len(q)
    BY LenProperties
  <2>2. /\ p \in Seq(ReportType) /\ Len(p) = Len(q) + 1
        /\ \A i \in 1 .. Len(q) : p[i] = q[i]
        /\ p[Len(q) + 1] = r
    BY AppendProperties
  <2>3. DOMAIN p = 1 .. Len(p)
    BY <2>2, LenProperties
  <2> QED BY <2>1, <2>2, <2>3
<1> HIDE DEF p
<1>2. \A i \in 1 .. (Len(q) + 1) : Before(v, p, i) = Before(v, q, i)
  <2> SUFFICES ASSUME NEW i \in 1 .. (Len(q) + 1)
               PROVE  Before(v, p, i) = Before(v, q, i)
    OBVIOUS
  <2>1. CASE i = 1
    BY <2>1 DEF Before
  <2>2. CASE i # 1
    <3>1. i - 1 \in 1 .. Len(q)
      BY <1>1, <2>2
    <3> QED
      BY <1>1, <2>2, <3>1 DEF Before
  <2> QED BY <2>1, <2>2
<1>3. Before(v, p, Len(p) + 1) = r.dev
  <2>1. Len(p) + 1 # 1 /\ (Len(p) + 1) - 1 = Len(q) + 1
    BY <1>1
  <2> QED
    BY <1>1, <2>1 DEF Before
<1>4. \A i \in DOMAIN p : Follows(Before(v, p, i), p[i])
  <2> SUFFICES ASSUME NEW i \in DOMAIN p
               PROVE  Follows(Before(v, p, i), p[i])
    OBVIOUS
  <2>1. CASE i = Len(q) + 1
    BY <1>1, <1>2, <2>1
  <2>2. CASE i # Len(q) + 1
    <3>1. i \in 1 .. Len(q) /\ i \in 1 .. (Len(q) + 1)
      BY <1>1, <2>2
    <3> QED
      BY <1>1, <1>2, <3>1 DEF Leads
  <2> QED BY <2>1, <2>2
<1>5. Leads(v, p, e)
  BY <1>3, <1>4 DEF Leads
<1> QED
  BY <1>5 DEF p

LEMMA LeadsTail ==
  ASSUME NEW v \in Device, NEW q \in Seq(ReportType), q # <<>>, NEW d, Leads(v, q, d)
  PROVE  Follows(v, q[1]) /\ Leads(q[1].dev, Tail(q), d)
<1> DEFINE p == Tail(q)
<1>1. /\ Len(p) = Len(q) - 1 /\ Len(q) \in Nat \ {0}
      /\ DOMAIN q = 1 .. Len(q) /\ DOMAIN p = 1 .. (Len(q) - 1)
      /\ \A i \in 1 .. (Len(q) - 1) : p[i] = q[i+1]
  <2>1. Len(q) \in Nat \ {0} /\ DOMAIN q = 1 .. Len(q)
    BY LenProperties, EmptySeq
  <2>2. /\ p \in Seq(ReportType) /\ Len(p) = Len(q) - 1
        /\ \A i \in 1 .. Len(p) : p[i] = q[i+1]
    BY HeadTailProperties
  <2>3. DOMAIN p = 1 .. Len(p)
    BY <2>2, LenProperties
  <2> QED BY <2>1, <2>2, <2>3
<1> HIDE DEF p
<1>2. Follows(v, q[1])
  <2>1. 1 \in DOMAIN q /\ Before(v, q, 1) = v
    BY <1>1 DEF Before
  <2> QED
    BY <2>1 DEF Leads
<1>3. \A i \in 1 .. Len(q) : Before(q[1].dev, p, i) = Before(v, q, i + 1)
  <2> SUFFICES ASSUME NEW i \in 1 .. Len(q)
               PROVE  Before(q[1].dev, p, i) = Before(v, q, i + 1)
    OBVIOUS
  <2>1. i + 1 # 1 /\ (i + 1) - 1 = i
    BY <1>1
  <2>2. Before(v, q, i + 1) = q[i].dev
    BY <2>1 DEF Before
  <2>3. CASE i = 1
    BY <2>2, <2>3 DEF Before
  <2>4. CASE i # 1
    <3>1. i - 1 \in 1 .. (Len(q) - 1) /\ (i - 1) + 1 = i
      BY <1>1, <2>4
    <3>2. p[i-1] = q[i]
      BY <1>1, <3>1
    <3> QED
      BY <2>2, <2>4, <3>2 DEF Before
  <2> QED BY <2>3, <2>4
<1>4. \A i \in DOMAIN p : Follows(Before(q[1].dev, p, i), p[i])
  <2> SUFFICES ASSUME NEW i \in DOMAIN p
               PROVE  Follows(Before(q[1].dev, p, i), p[i])
    OBVIOUS
  <2>1. i \in 1 .. Len(q) /\ i + 1 \in DOMAIN q /\ p[i] = q[i+1]
    BY <1>1
  <2> QED
    BY <1>3, <2>1 DEF Leads
<1>5. Before(q[1].dev, p, Len(p) + 1) = Before(v, q, Len(q) + 1)
  <2>1. Len(p) + 1 = Len(q) /\ Len(q) \in 1 .. Len(q)
    BY <1>1
  <2> QED
    BY <1>3, <2>1
<1>6. Leads(q[1].dev, p, d)
  BY <1>4, <1>5 DEF Leads
<1> QED
  BY <1>2, <1>6 DEF p

\* The frames there are, after a step that sends none, and after one is sent.
LEMMA FramesShrink ==
  ASSUME FromOld(data', data),
         \/ parser' = parser
         \/ parser' = None
         \/ 1 \in DOMAIN data /\ parser'.frame = data[1]
  PROVE  Frames' \subseteq Frames
<1>1. ASSUME NEW i \in DOMAIN data'
      PROVE  data'[i] \in Frames
  BY DEF FromOld, Frames
<1>2. ASSUME parser' # None
      PROVE  parser'.frame \in Frames
  <2>1. CASE parser' = parser
    BY <1>2, <2>1 DEF Frames
  <2>2. CASE 1 \in DOMAIN data /\ parser'.frame = data[1]
    BY <2>2 DEF Frames
  <2> QED BY <1>2, <2>1, <2>2
<1>3. Frames' = {data'[i] : i \in DOMAIN data'} \cup
                (IF parser' = None THEN {} ELSE {parser'.frame})
  BY DEF Frames
<1> QED
  BY <1>1, <1>2, <1>3

LEMMA FramesGrow ==
  ASSUME Known, NEW f \in FrameType, data' = Append(data, f), parser' = parser
  PROVE  \A g \in Frames' : g \in Frames \/ g = f
<1>1. \A i \in DOMAIN data' : data'[i] = f \/ (i \in DOMAIN data /\ data'[i] = data[i])
  BY KnownTypes, AppendOne DEF RestOK
<1>2. Frames' = {data'[i] : i \in DOMAIN data'} \cup
                (IF parser' = None THEN {} ELSE {parser'.frame})
  BY DEF Frames
<1> QED
  BY <1>1, <1>2 DEF Frames

\* What Fits() reads of the store.
SameGates(s, t) ==
  /\ t.geometry = s.geometry /\ t.activeRows = s.activeRows /\ t.rowModes = s.rowModes
  /\ t.rowsGate = s.rowsGate /\ t.modeGate = s.modeGate /\ t.profGate = s.profGate
  /\ t.appliedMode = s.appliedMode

LEMMA FitsStays ==
  ASSUME NEW s, NEW t, SameGates(s, t), NEW v, Fits(s, v)
  PROVE  Fits(t, v)
  BY DEF Fits, SameGates

\* A step that neither the device nor the reports take part in.
LEMMA HostTracked ==
  ASSUME Known, Tracked, Frames' \subseteq Frames, dev' = dev,
         link' = "up" /\ ~lost' =>
           /\ link = "up" /\ ~lost /\ reports' = reports
           /\ \A v \in Device : ViewFits(v) => ReadBack(cmd', seen', v)
           /\ \A v \in Device : ViewFits(v) /\ ~resync' => Fits(S', v)
  PROVE  Tracked'
<1>1. dev \in Device /\ dev.changes <= dev.changes
  BY KnownTypes, WireTypes DEF RestOK
<1>2. Placed(dev)' /\ FramesNumbered'
  BY <1>1, PlacedStays DEF Tracked, Placed, FramesNumbered
<1>3. ASSUME link' = "up", ~lost'
      PROVE  \E v \in Device : ViewFits(v)'
  <2>1. PICK v \in Device : ViewFits(v)
    BY <1>3 DEF Tracked
  <2>2. reports' = reports /\ ReadBack(cmd', seen', v) /\ (~resync' => Fits(S', v))
    BY <1>3, <2>1
  <2>3. Placed(v)'
    BY <1>1, <2>1, PlacedStays DEF ViewFits, Placed
  <2>4. \A i \in DOMAIN reports' : PlacedAt(reports'[i].dev, dev', Frames')
    <3> SUFFICES ASSUME NEW i \in DOMAIN reports
                 PROVE  PlacedAt(reports[i].dev, dev', Frames')
      BY <2>2
    <3>1. reports[i].dev \in Device /\ PlacedAt(reports[i].dev, dev, Frames)
      BY <2>1, WireTypes DEF ViewFits, Placed
    <3> QED BY <1>1, <3>1, PlacedStays
  <2>5. Leads(v, reports', dev')
    BY <2>1, <2>2 DEF ViewFits
  <2>6. ViewFits(v)'
    BY <2>2, <2>3, <2>4, <2>5 DEF ViewFits, Placed
  <2> QED BY <2>6
<1> QED
  BY <1>2, <1>3 DEF Tracked

\* A change or an answer is reported.
LEMMA ReportTracked ==
  ASSUME Known, Tracked, link = "up", NEW r \in ReportType, dev' \in Device, r.dev = dev',
         DeviceFits(dev'), dev.changes <= dev'.changes,
         dev'.profId = dev.profId \/ (dev'.profId.id \in Nat /\ dev.changes < dev'.profId.id),
         \A d \in Device : Drift(d, dev) => Follows(d, r),
         reports' = Append(reports, r), UNCHANGED <<data, lost, connections, link, host, store>>
  PROVE  Tracked'
<1>1. /\ dev \in Device /\ reports \in Seq(ReportType)
      /\ UNCHANGED <<cmd, seen, resync, parser>> /\ S' = S
  BY KnownTypes, StoreStays DEF RestOK, host, store
<1>2. Frames' \subseteq Frames
  BY <1>1, SameFromOld, FramesShrink
<1>3. Placed(dev)' /\ FramesNumbered'
  BY <1>1, <1>2, ItselfPlaced DEF Tracked, Placed, FramesNumbered
<1>4. ASSUME ~lost'
      PROVE  \E v \in Device : ViewFits(v)'
  <2>1. PICK v \in Device : ViewFits(v)
    BY <1>4 DEF Tracked
  <2>2. Placed(v)'
    BY <1>1, <1>2, <2>1, PlacedStays DEF ViewFits, Placed
  <2>3. \A i \in DOMAIN reports' : PlacedAt(reports'[i].dev, dev', Frames')
    <3> SUFFICES ASSUME NEW i \in DOMAIN reports'
                 PROVE  PlacedAt(reports'[i].dev, dev', Frames')
      OBVIOUS
    <3>1. CASE reports'[i] = r
      BY <1>3, <3>1 DEF Placed
    <3>2. CASE i \in DOMAIN reports /\ reports'[i] = reports[i]
      <4>1. reports[i].dev \in Device /\ PlacedAt(reports[i].dev, dev, Frames)
        BY <2>1, <3>2, WireTypes DEF ViewFits, Placed
      <4> QED BY <1>1, <1>2, <3>2, <4>1, PlacedStays
    <3> QED
      BY <1>1, <3>1, <3>2, AppendOne
  <2>4. Leads(v, reports', dev')
    <3> DEFINE last == Before(v, reports, Len(reports) + 1)
    <3>1. last \in Device
      <4>1. Len(reports) + 1 \in 1 .. (Len(reports) + 1)
        BY <1>1, LenProperties
      <4> QED
        BY <1>1, <4>1, BeforeType
    <3>2. Leads(v, reports, dev) /\ Drift(last, dev)
      BY <2>1 DEF ViewFits, Leads
    <3>3. Follows(last, r)
      BY <3>1, <3>2
    <3>4. Drift(r.dev, dev')
      BY DriftSame
    <3> HIDE DEF last
    <3>5. Leads(v, Append(reports, r), dev')
      BY <1>1, <3>2, <3>3, <3>4, LeadsAppend DEF last
    <3> QED BY <3>5
  <2>5. ReadBack(cmd', seen', v) /\ (~resync' => Fits(S', v))
    BY <1>1, <2>1 DEF ViewFits
  <2> QED
    BY <2>2, <2>3, <2>4, <2>5 DEF ViewFits, Placed
<1> QED
  BY <1>3, <1>4 DEF Tracked

LEMMA ChangedTracked ==
  ASSUME ~SeqRestarts, Known, Tracked, NEW k, Changed(k)
  PROVE  Tracked'
<1> DEFINE r == [kind |-> k, dev |-> dev']
<1>1. /\ k \in Applied /\ link = "up" /\ dev' \in Device /\ DevIds(dev')
      /\ dev'.changes = dev.changes + 1 /\ dev'.seq = dev.seq
      /\ reports' = Append(reports, r)
      /\ UNCHANGED <<data, lost, connections, link, host, store>>
  BY DEF Changed
<1>2. r \in ReportType /\ r.kind = k /\ r.dev = dev'
  BY <1>1 DEF ReportType, ReportKinds, Applied
<1> HIDE DEF r
<1>3. dev \in Device /\ DeviceFits(dev)
  BY KnownTypes DEF RestOK, Tracked, Placed, PlacedAt
<1>4. /\ dev.changes \in Nat /\ dev.seq \in Nat /\ dev.rowsSeq \in Nat
      /\ dev.modeId.id \in Nat /\ dev.profId.id \in Nat
      /\ dev'.modeId.id \in Nat /\ dev'.profId.id \in Nat /\ dev'.rowsSeq \in Nat
  BY <1>1, <1>3, DeviceFields, DeviceFitsNumbers DEF DevIds, Numbered
<1>5. /\ dev.modeId.id <= dev.changes /\ dev.profId.id <= dev.changes /\ dev.rowsSeq <= dev.seq
      /\ Homogeneous(dev.profile) => dev.modeId.id = dev.profId.id /\ dev.mode = dev.profile[1]
  BY <1>3 DEF DeviceFits
<1>6. CASE k = "MAPP"
  <2>1. /\ SameRows(dev, dev') /\ dev'.profile = All(dev'.mode)
        /\ dev'.modeId.id = dev'.changes /\ dev'.profId.id = dev'.changes
    BY <1>6 DEF Changed
  <2>2. dev'.mode = dev'.profile[1]
    BY <1>1, <2>1, AllFacts, DeviceFields
  <2>3. DeviceFits(dev')
    BY <1>1, <1>4, <1>5, <2>1, <2>2 DEF DeviceFits, SameRows
  <2>4. \A d \in Device : Drift(d, dev) => Follows(d, r)
    BY <1>1, <1>2, <1>4, <1>6, <2>1, DeviceFields DEF Drift, Follows, SameRows, Known3, Applied
  <2> QED
    BY <1>1, <1>2, <1>4, <2>1, <2>3, <2>4, ReportTracked
<1>7. CASE k = "RMAPP"
  <2>1. /\ SameRows(dev, dev') /\ dev'.profId.id = dev'.changes
        /\ Homogeneous(dev'.profile) => dev'.mode = dev'.profile[1]
                                        /\ dev'.modeId.id = dev'.changes
        /\ ~Homogeneous(dev'.profile) => dev'.mode = dev.mode /\ dev'.modeId = dev.modeId
    BY <1>7 DEF Changed
  <2>2. dev'.modeId.id <= dev'.changes
    BY <1>1, <1>4, <1>5, <2>1
  <2>3. DeviceFits(dev')
    BY <1>1, <1>4, <1>5, <2>1, <2>2 DEF DeviceFits, SameRows
  <2>4. \A d \in Device : Drift(d, dev) => Follows(d, r)
    BY <1>1, <1>2, <1>4, <1>7, <2>1, DeviceFields DEF Drift, Follows, SameRows, Known3, Applied
  <2> QED
    BY <1>1, <1>2, <1>4, <2>1, <2>3, <2>4, ReportTracked
<1>8. CASE k = "RAPP"
  <2>1. SameModes(dev, dev') /\ dev'.rowsSeq = dev.seq
    BY <1>8 DEF Changed
  <2>2. DeviceFits(dev')
    BY <1>1, <1>4, <1>5, <2>1 DEF DeviceFits, SameModes
  <2>3. \A d \in Device : Drift(d, dev) => Follows(d, r)
    BY <1>1, <1>2, <1>4, <1>8, <2>1, DeviceFields DEF Drift, Follows, SameModes, Known3, Applied
  <2> QED
    BY <1>1, <1>2, <1>4, <2>1, <2>2, <2>3, ReportTracked DEF SameModes
<1> QED
  BY <1>1, <1>6, <1>7, <1>8 DEF Applied

LEMMA SendFrameTracked ==
  ASSUME Known, Tracked, SendFrame
  PROVE  Tracked'
<1>1. /\ dev \in Device /\ DevIds(dev) /\ reports \in Seq(ReportType)
      /\ DeviceFits(dev) /\ Agree(dev, dev)
  BY KnownTypes DEF RestOK, Known, Tracked, Placed, PlacedAt
<1>2. /\ link = "up" /\ dev' \in Device /\ DevIds(dev')
      /\ dev'.seq = dev.seq + 1 /\ dev'.changes = dev.changes
      /\ SameRows(dev, dev') /\ SameModes(dev, dev')
      /\ Frame \in FrameType /\ data' = Append(data, Frame)
      /\ UNCHANGED <<reports, lost, asked, connections, link, host, store>>
  BY <1>1, SendFrameIs
<1>3. UNCHANGED <<cmd, seen, resync, parser>> /\ S' = S
  BY <1>2, StoreStays DEF host, store
<1>4. \A g \in Frames' : g \in Frames \/ g = Frame
  BY <1>2, <1>3, FramesGrow
<1>5. Frame.profId = dev.profId /\ dev'.profId = dev.profId
  BY <1>1, <1>2, FrameFacts DEF SameModes
<1>6. dev.changes \in Nat /\ dev.seq \in Nat /\ dev.rowsSeq \in Nat /\ Drift(dev, dev')
  BY <1>1, <1>2, DeviceFields DEF Drift, SameModes, SameRows
<1>7. DeviceFits(dev')
  BY <1>1, <1>2, <1>6 DEF DeviceFits, SameModes, SameRows
<1>8. ASSUME NEW d \in Device, Placed(d)
      PROVE  PlacedAt(d, dev', Frames')
  <2>1. \A g \in Frames' : Agree(g, d)
    BY <1>4, <1>5, <1>8 DEF Placed, PlacedAt, Agree
  <2> QED
    BY <1>2, <1>5, <1>8, <2>1 DEF Placed, PlacedAt, Agree
<1>9. Placed(dev)'
  <2>1. \A g \in Frames' : Agree(g, dev')
    BY <1>4, <1>5 DEF Tracked, Placed, PlacedAt, Agree
  <2> QED
    BY <1>2, <1>6, <1>7, <2>1 DEF Placed, PlacedAt, Agree
<1>10. FramesNumbered'
  BY <1>1, <1>2, <1>4, <1>5, DeviceFitsNumbers DEF Tracked, FramesNumbered, DeviceFits
<1>11. ASSUME ~lost'
       PROVE  \E v \in Device : ViewFits(v)'
  <2>1. PICK v \in Device : ViewFits(v)
    BY <1>2, <1>11 DEF Tracked
  <2>2. PlacedAt(v, dev', Frames')
    BY <1>8, <2>1 DEF ViewFits
  <2>3. \A i \in DOMAIN reports' : PlacedAt(reports'[i].dev, dev', Frames')
    BY <1>2, <1>8, <2>1, WireTypes DEF ViewFits
  <2>4. Leads(v, reports', dev')
    BY <1>1, <1>2, <1>6, <2>1, LeadsFurther DEF ViewFits
  <2> QED
    BY <1>3, <2>1, <2>2, <2>3, <2>4 DEF ViewFits, Placed
<1> QED
  BY <1>9, <1>10, <1>11 DEF Tracked

LEMMA DeviceTracked ==
  ASSUME ~SeqRestarts, Known, Tracked,
         SendFrame \/ ChangeMode \/ ChangeProfile \/ ChangeRows \/ Answer \/ LoseFrame \/ LoseReport
  PROVE  Tracked'
<1>0. dev \in Device /\ DevIds(dev) /\ asked \in 0 .. 3
  BY KnownTypes DEF RestOK, Known
<1>1. CASE ChangeMode \/ ChangeProfile \/ ChangeRows
  BY <1>0, <1>1, ChangeModeIs, ChangeProfileIs, ChangeRowsIs, ChangedTracked
<1>2. CASE Answer
  <2>1. PICK k \in Known3 :
           /\ reports' = Append(reports, [kind |-> k, dev |-> dev])
           /\ [kind |-> k, dev |-> dev] \in ReportType
           /\ asked' \in 0 .. 3 /\ link = "up"
           /\ UNCHANGED <<dev, connections, link, data, lost, host, store>>
    BY <1>0, <1>2, AnswerIs
  <2> DEFINE r == [kind |-> k, dev |-> dev]
  <2>2. r.kind = k /\ r.dev = dev /\ r \in ReportType /\ reports' = Append(reports, r)
    BY <2>1
  <2> HIDE DEF r
  <2>3. k \notin Applied /\ k # "MAPP" /\ k # "RMAPP" /\ k # "RAPP"
    BY DEF Known3, Applied
  <2>4. \A d \in Device : Drift(d, dev) => Follows(d, r)
    BY <2>2, <2>3 DEF Drift, Follows
  <2>5. DeviceFits(dev) /\ dev.changes <= dev.changes
    BY WireTypes DEF Tracked, Placed, PlacedAt
  <2> QED
    BY <1>0, <2>1, <2>2, <2>4, <2>5, ReportTracked
<1>3. CASE LoseFrame
  <2>1. /\ FromOld(data', data)
        /\ UNCHANGED <<dev, link, reports, lost, cmd, seen, resync, parser, host, store>>
    BY <1>3, TailFromOld, KnownTypes DEF LoseFrame, device, RestOK, host, store
  <2>2. Frames' \subseteq Frames /\ S' = S
    BY <2>1, FramesShrink, StoreStays DEF store
  <2> QED
    BY <2>1, <2>2, HostTracked DEF ViewFits
<1>4. CASE LoseReport
  <2>1. data' = data /\ dev' = dev /\ lost' = TRUE /\ parser' = parser
    BY <1>4 DEF LoseReport, device, store
  <2>2. Frames' \subseteq Frames
    BY <2>1, SameFromOld, FramesShrink
  <2> QED
    BY <2>1, <2>2, HostTracked
<1> QED
  BY <1>1, <1>2, <1>3, <1>4, SendFrameTracked

\* A report leaves the command service with what the device had when it made it.
LEMMA ReportReadBack ==
  ASSUME cmd \in CmdType, NEW r \in ReportType, NEW v \in Device, NEW k,
         Follows(v, r), DeviceFits(r.dev), ReadBack(cmd, k, v)
  PROVE  ReadBack(CmdAfter(r), IF r.kind \in Known3 THEN k \cup {r.kind} ELSE k, r.dev)
<1> DEFINE d == r.dev
           c == CmdAfter(r)
           k2 == IF r.kind \in Known3 THEN k \cup {r.kind} ELSE k
<1>1. r.kind \in ReportKinds
  BY DEF ReportType
<1>2. /\ "ROWS" \in k => cmd.rows = v.rows /\ cmd.rowsId = v.rowsId /\ cmd.rowsSeq = v.rowsSeq
      /\ "ROWMODES" \in k => cmd.profile = v.profile /\ Names(cmd.profId, v.profId)
      /\ "STATE" \in k => Names(cmd.modeId, v.modeId)
  BY DEF ReadBack
<1>3. Names(d.modeId, d.modeId) /\ Names(d.profId, d.profId)
  BY DEF Names
<1>4. Names(Ident(None, d.profId.id), d.profId)
  BY IdentFields DEF Names, Ident
<1> SUFFICES ReadBack(c, k2, d)
  OBVIOUS
<1>5. CASE r.kind = "MAPP"
  <2>1. c = [cmd EXCEPT !.mode = d.mode, !.modeId = d.modeId,
                        !.profile = d.profile, !.profId = Ident(None, d.profId.id)]
    BY <1>5 DEF CmdAfter
  <2>2. /\ c.profile = d.profile /\ c.profId = Ident(None, d.profId.id) /\ c.modeId = d.modeId
        /\ c.rows = cmd.rows /\ c.rowsId = cmd.rowsId /\ c.rowsSeq = cmd.rowsSeq
    BY <2>1 DEF CmdType
  <2>3. SameRows(v, d) /\ k2 = k
    BY <1>5 DEF Follows, Known3
  <2> HIDE DEF d, c, k2
  <2> QED
    BY <1>2, <1>3, <1>4, <2>2, <2>3 DEF ReadBack, SameRows
<1>6. CASE r.kind = "RMAPP"
  <2>1. c = [cmd EXCEPT !.profile = d.profile, !.profId = d.profId, !.mode = d.mode,
                        !.modeId = IF Homogeneous(d.profile) THEN Ident(None, d.profId.id) ELSE @]
    BY <1>6 DEF CmdAfter
  <2>2. /\ c.profile = d.profile /\ c.profId = d.profId
        /\ c.rows = cmd.rows /\ c.rowsId = cmd.rowsId /\ c.rowsSeq = cmd.rowsSeq
        /\ Homogeneous(d.profile) => c.modeId = Ident(None, d.profId.id)
        /\ ~Homogeneous(d.profile) => c.modeId = cmd.modeId
    BY <2>1 DEF CmdType
  <2>3. /\ SameRows(v, d) /\ k2 = k
        /\ ~Homogeneous(d.profile) => d.modeId = v.modeId
    BY <1>6 DEF Follows, Known3
  <2>4. Homogeneous(d.profile) => d.modeId.id = d.profId.id
    BY DEF DeviceFits
  <2>5. Homogeneous(d.profile) => Names(c.modeId, d.modeId)
    BY <2>2, <2>4 DEF Names, Ident
  <2> HIDE DEF d, c, k2
  <2> QED
    BY <1>2, <1>3, <2>2, <2>3, <2>5 DEF ReadBack, SameRows
<1>7. CASE r.kind = "RAPP"
  <2>1. c = [cmd EXCEPT !.rows = d.rows, !.rowsId = d.rowsId, !.rowsSeq = d.rowsSeq]
    BY <1>7 DEF CmdAfter
  <2>2. /\ c.rows = d.rows /\ c.rowsId = d.rowsId /\ c.rowsSeq = d.rowsSeq
        /\ c.profile = cmd.profile /\ c.profId = cmd.profId /\ c.modeId = cmd.modeId
    BY <2>1 DEF CmdType
  <2>3. SameModes(v, d) /\ k2 = k
    BY <1>7 DEF Follows, Known3
  <2> HIDE DEF d, c, k2
  <2> QED
    BY <1>2, <2>2, <2>3 DEF ReadBack, SameModes
<1>8. CASE r.kind \in Known3
  <2>1. /\ d.profile = v.profile /\ d.profId = v.profId /\ d.modeId = v.modeId
        /\ d.rows = v.rows /\ d.rowsId = v.rowsId /\ d.rowsSeq = v.rowsSeq
        /\ k2 = k \cup {r.kind}
    BY <1>8 DEF Follows, Drift
  <2>2. CASE r.kind = "STATE"
    <3>1. c = [cmd EXCEPT !.mode = d.mode, !.modeId = d.modeId]
      BY <2>2 DEF CmdAfter
    <3>2. /\ c.modeId = d.modeId /\ c.profile = cmd.profile /\ c.profId = cmd.profId
          /\ c.rows = cmd.rows /\ c.rowsId = cmd.rowsId /\ c.rowsSeq = cmd.rowsSeq
      BY <3>1 DEF CmdType
    <3> HIDE DEF d, c, k2
    <3> QED
      BY <1>2, <1>3, <2>1, <2>2, <3>2 DEF ReadBack
  <2>3. CASE r.kind = "ROWS"
    <3>1. c = [cmd EXCEPT !.rows = d.rows, !.rowsId = d.rowsId, !.rowsSeq = d.rowsSeq]
      BY <2>3 DEF CmdAfter
    <3>2. /\ c.rows = d.rows /\ c.rowsId = d.rowsId /\ c.rowsSeq = d.rowsSeq
          /\ c.profile = cmd.profile /\ c.profId = cmd.profId /\ c.modeId = cmd.modeId
      BY <3>1 DEF CmdType
    <3> HIDE DEF d, c, k2
    <3> QED
      BY <1>2, <2>1, <2>3, <3>2 DEF ReadBack
  <2>4. CASE r.kind = "ROWMODES"
    <3>1. c = [cmd EXCEPT !.profile = d.profile, !.profId = d.profId]
      BY <2>4 DEF CmdAfter
    <3>2. /\ c.profile = d.profile /\ c.profId = d.profId /\ c.modeId = cmd.modeId
          /\ c.rows = cmd.rows /\ c.rowsId = cmd.rowsId /\ c.rowsSeq = cmd.rowsSeq
      BY <3>1 DEF CmdType
    <3> HIDE DEF d, c, k2
    <3> QED
      BY <1>2, <1>3, <2>1, <2>4, <3>2 DEF ReadBack
  <2> QED
    BY <1>8, <2>2, <2>3, <2>4 DEF Known3
<1> QED
  BY <1>1, <1>5, <1>6, <1>7, <1>8 DEF ReportKinds, Known3

LEMMA NotAfterLater ==
  ASSUME NEW g \in Gates, NEW m \in Nat, NEW n \in Nat, NotAfter(g, m), m <= n
  PROVE  NotAfter(g, n)
  BY GateFields DEF NotAfter, MaybeNat

\* What a report changes while the store waits for nothing leaves it fitting the device.
LEMMA ReportFits ==
  ASSUME S \in StoreType, NEW r \in ReportType, NEW v \in Device, NEW c, NEW known \in BOOLEAN,
         ~resync, Fits(S, v), Follows(v, r), DeviceFits(r.dev), DeviceFits(v)
  PROVE  Fits(StoreAfter(r, c, known), r.dev)
<1> DEFINE d == r.dev
           t == StoreAfter(r, c, known)
<1>1. d \in Device /\ r.kind \in ReportKinds
  BY DEF ReportType
<1>2. /\ d.mode \in Modes /\ d.profile \in Profiles /\ d.rows \in Rows
      /\ d.modeId \in Identities /\ d.profId \in Identities /\ d.rowsId \in Identities
      /\ d.seq \in MaybeNat /\ d.rowsSeq \in MaybeNat
      /\ d.seq \in Nat /\ d.rowsSeq \in Nat /\ d.changes \in Nat
      /\ v.seq \in Nat /\ v.changes \in Nat
  BY <1>1, DeviceFields
<1>3. /\ d.modeId.id \in Nat /\ d.profId.id \in Nat /\ d.profId.id # None
      /\ d.modeId.id <= d.changes /\ d.profId.id <= d.changes /\ d.rowsSeq <= d.seq
      /\ Homogeneous(d.profile) => d.modeId.id = d.profId.id /\ d.mode = d.profile[1]
  BY <1>1, DeviceFitsNumbers DEF DeviceFits
<1>4. /\ S.geometry /\ S.activeRows = v.rows /\ S.rowModes = v.profile
      /\ S.rowsGate.gen = v.rowsId.gen /\ S.rowsGate.id = v.rowsId.id
      /\ Names(S.profGate, v.profId)
      /\ S.modeGate.id \in Nat /\ S.modeGate.id <= v.changes
      /\ Homogeneous(v.profile) => S.appliedMode = v.profile[1] /\ Names(S.modeGate, v.modeId)
  BY DEF Fits
<1>5. v.seq <= d.seq
  BY <1>2 DEF Follows
<1>6. NotAfter(S.rowsGate, d.seq) /\ NotAfter(S.modeGate, d.seq) /\ NotAfter(S.profGate, d.seq)
  BY <1>2, <1>5, NotAfterLater, StoreFields DEF Fits
<1>7. \A g, i : NotAfter(Gate(g, i, d.seq), d.seq) /\ NotAfter(Gate(g, i, d.rowsSeq), d.seq)
  BY <1>2, <1>3 DEF NotAfter, Gate
<1> SUFFICES Fits(t, d)
  OBVIOUS
<1>8. CASE r.kind = "MAPP"
  <2>1. t = ApplyMode(S, d.mode, d.modeId, d.seq)
    BY <1>8, StoreTold
  <2>2. /\ t.activeRows = S.activeRows /\ t.geometry = S.geometry /\ t.rowsGate = S.rowsGate
        /\ t.appliedMode = d.mode /\ t.rowModes = All(d.mode)
        /\ t.modeGate = Gate(d.modeId.gen, d.modeId.id, d.seq)
        /\ t.profGate = Gate(None, d.modeId.id, d.seq)
    BY <1>2, <2>1, ApplyModeIs
  <2>3. SameRows(v, d) /\ d.profile = All(d.mode) /\ d.changes > v.changes
    BY <1>8 DEF Follows, Applied
  <2>4. Homogeneous(d.profile)
    BY <1>2, <2>3, AllFacts
  <2>5. Names(t.profGate, d.profId) /\ Names(t.modeGate, d.modeId) /\ t.modeGate.id = d.modeId.id
    BY <1>3, <2>2, <2>4 DEF Names, Gate
  <2>6. NotAfter(t.modeGate, d.seq) /\ NotAfter(t.profGate, d.seq)
    BY <1>7, <2>2
  <2> HIDE DEF d, t
  <2> QED
    BY <1>3, <1>4, <1>6, <2>2, <2>3, <2>4, <2>5, <2>6 DEF Fits, SameRows
<1>9. CASE r.kind = "RMAPP"
  <2>1. t = ApplyRowModes(S, d.profile, d.profId, d.seq)
    BY <1>9, StoreTold
  <2>2. /\ t.activeRows = S.activeRows /\ t.geometry = S.geometry /\ t.rowsGate = S.rowsGate
        /\ t.rowModes = d.profile /\ t.profGate = Gate(d.profId.gen, d.profId.id, d.seq)
        /\ Homogeneous(d.profile) => /\ t.appliedMode = d.profile[1]
                                     /\ t.modeGate = RowProfileGate(S, d.profId, d.seq)
        /\ ~Homogeneous(d.profile) => t.modeGate = S.modeGate
    BY <1>2, <2>1, ApplyRowModesIs
  <2>3. SameRows(v, d) /\ d.profId.id = d.changes /\ d.changes > v.changes
    BY <1>9 DEF Follows, Applied
  <2>4. RowProfileGate(S, d.profId, d.seq) = Gate(None, d.profId.id, d.seq)
    <3>1. d.profId.id # S.modeGate.id /\ d.seq # None
      BY <1>2, <1>4, <2>3, NoneFacts
    <3> QED
      BY <1>3, <3>1 DEF RowProfileGate
  <2>5. Homogeneous(d.profile) => /\ Names(t.modeGate, d.modeId) /\ NotAfter(t.modeGate, d.seq)
                                  /\ t.modeGate.id = d.modeId.id
    <3> SUFFICES ASSUME Homogeneous(d.profile)
                 PROVE  /\ Names(t.modeGate, d.modeId) /\ NotAfter(t.modeGate, d.seq)
                        /\ t.modeGate.id = d.modeId.id
      OBVIOUS
    <3>1. t.modeGate = Gate(None, d.profId.id, d.seq)
      BY <2>2, <2>4
    <3>2. t.modeGate.gen = None /\ t.modeGate.id = d.modeId.id
      BY <1>3, <3>1, GateSeq
    <3>3. NotAfter(t.modeGate, d.seq)
      BY <1>7, <3>1
    <3> QED BY <3>2, <3>3 DEF Names
  <2>6. t.modeGate.id \in Nat /\ t.modeGate.id <= d.changes /\ NotAfter(t.modeGate, d.seq)
    BY <1>2, <1>3, <1>4, <1>6, <2>2, <2>3, <2>5
  <2>7. Names(t.profGate, d.profId) /\ NotAfter(t.profGate, d.seq)
    <3>1. t.profGate.gen = d.profId.gen /\ t.profGate.id = d.profId.id
      BY <2>2, GateSeq
    <3>2. NotAfter(t.profGate, d.seq)
      BY <1>7, <2>2
    <3> QED BY <3>1, <3>2 DEF Names
  <2> HIDE DEF d, t
  <2> QED
    BY <1>4, <1>6, <2>2, <2>3, <2>5, <2>6, <2>7 DEF Fits, SameRows
<1>10. CASE r.kind = "RAPP"
  <2>1. t = ApplyRows(S, d.rows, d.rowsId, d.rowsSeq)
    BY <1>10, StoreTold
  <2>2. /\ t.activeRows = d.rows /\ t.geometry = TRUE
        /\ t.rowsGate = Gate(d.rowsId.gen, d.rowsId.id, d.rowsSeq)
        /\ t.rowModes = S.rowModes /\ t.modeGate = S.modeGate /\ t.profGate = S.profGate
        /\ Homogeneous(S.rowModes) => t.appliedMode = S.rowModes[1]
    BY <1>2, <2>1, ApplyRowsIs
  <2>3. SameModes(v, d) /\ d.changes > v.changes
    BY <1>10 DEF Follows, Applied
  <2>4. t.rowsGate.gen = d.rowsId.gen /\ t.rowsGate.id = d.rowsId.id /\ NotAfter(t.rowsGate, d.seq)
    BY <1>7, <2>2, GateSeq
  <2>5. S.modeGate.id <= d.changes
    BY <1>2, <1>4, <2>3
  <2> HIDE DEF d, t
  <2> QED
    BY <1>4, <1>6, <2>2, <2>3, <2>4, <2>5 DEF Fits, SameModes
<1>11. CASE r.kind \in Known3
  <2>1. t = S
    BY <1>11, StoreTold DEF Known3, Applied
  <2>2. Drift(v, d)
    BY <1>11 DEF Follows
  <2> HIDE DEF d, t
  <2> QED
    BY <1>4, <1>6, <2>1, <2>2 DEF Fits, Drift
<1> QED
  BY <1>1, <1>8, <1>9, <1>10, <1>11 DEF ReportKinds, Known3

\* The resync leaves the store fitting what was read back.
LEMMA ResyncFits ==
  ASSUME NEW s \in StoreType, NEW c \in CmdType, NEW d \in Device, DeviceFits(d),
         ReadBack(c, Known3, d)
  PROVE  Fits(CompleteResync(s, c), d)
<1> DEFINE t == CompleteResync(s, c)
<1>1. /\ t.activeRows = c.rows /\ t.geometry = TRUE
      /\ t.rowsGate = Gate(c.rowsId.gen, c.rowsId.id, c.rowsSeq)
      /\ t.rowModes = c.profile
      /\ t.profGate = Gate(c.profId.gen, c.profId.id, None)
      /\ t.modeGate = ResyncedGate(c)
      /\ Homogeneous(c.profile) => t.appliedMode = c.profile[1]
  BY CompleteResyncIs
<1> HIDE DEF t
<1>2. /\ c.rows = d.rows /\ c.rowsId = d.rowsId /\ c.rowsSeq = d.rowsSeq
      /\ c.profile = d.profile /\ Names(c.profId, d.profId) /\ Names(c.modeId, d.modeId)
  BY DEF ReadBack, Known3
<1>3. /\ d.modeId.id \in Nat /\ d.profId.id \in Nat /\ d.profId.id # None
      /\ d.modeId.id <= d.changes /\ d.rowsSeq <= d.seq
      /\ Homogeneous(d.profile) => d.modeId.id = d.profId.id
  BY DeviceFitsNumbers DEF DeviceFits
<1>4. /\ t.rowsGate.gen = d.rowsId.gen /\ t.rowsGate.id = d.rowsId.id /\ NotAfter(t.rowsGate, d.seq)
      /\ NotAfter(t.profGate, d.seq) /\ Names(t.profGate, d.profId)
  BY <1>1, <1>2, <1>3, GateSeq DEF NotAfter, Names
<1>5. /\ c.modeId.id = d.modeId.id /\ c.profId.id = d.profId.id
      /\ c.modeId.gen = None \/ c.modeId.gen = d.modeId.gen
  BY <1>2 DEF Names
<1>6. /\ t.modeGate.seq = None /\ t.modeGate.id = d.modeId.id
      /\ t.modeGate.gen = None \/ t.modeGate.gen = d.modeId.gen
  BY <1>1, <1>2, <1>3, <1>5, GateSeq DEF ResyncedGate
<1>7. NotAfter(t.modeGate, d.seq) /\ Names(t.modeGate, d.modeId)
  BY <1>6 DEF NotAfter, Names
<1>8. Fits(t, d)
  BY <1>1, <1>2, <1>3, <1>4, <1>6, <1>7 DEF Fits
<1> QED
  BY <1>8 DEF t

LEMMA HandleReportTracked ==
  ASSUME Known, Tracked, HandleReport
  PROVE  Tracked'
<1> DEFINE r == reports[1]
           known == (seen' = Known3)
<1>1. /\ reports # <<>> /\ 1 \in DOMAIN reports /\ link = "up" /\ parser = None
      /\ r \in ReportType
      /\ cmd' = CmdAfter(r) /\ cmd' \in CmdType
      /\ seen' = (IF r.kind \in Known3 THEN seen \cup {r.kind} ELSE seen)
      /\ S' = StoreAfter(r, cmd', known)
      /\ resync' = (resync /\ ~known)
      /\ reports' = Tail(reports)
      /\ \A i \in DOMAIN reports' : i + 1 \in DOMAIN reports /\ reports'[i] = reports[i+1]
      /\ UNCHANGED <<dev, asked, connections, link, data, lost, parser>>
  BY HandleReportIs
<1>2. /\ dev \in Device /\ reports \in Seq(ReportType) /\ S \in StoreType /\ cmd \in CmdType
      /\ known \in BOOLEAN /\ (resync <=> seen # Known3)
  BY <1>1, KnownTypes DEF RestOK, Known
<1> HIDE DEF known
<1>3. Frames' \subseteq Frames
  BY <1>1, SameFromOld, FramesShrink
<1>4. dev.changes <= dev.changes
  BY WireTypes
<1>5. Placed(dev)' /\ FramesNumbered'
  BY <1>1, <1>2, <1>3, <1>4, PlacedStays DEF Tracked, Placed, FramesNumbered
<1>6. ASSUME ~lost'
      PROVE  \E v \in Device : ViewFits(v)'
  <2>1. PICK v \in Device : ViewFits(v)
    BY <1>1, <1>6 DEF Tracked
  <2>2. PICK d \in Device : d = r.dev
    BY <1>1 DEF ReportType
  <2>3. Follows(v, r) /\ Leads(d, reports', dev')
    BY <1>1, <1>2, <2>1, <2>2, LeadsTail DEF ViewFits
  <2>4. \A i \in DOMAIN reports : reports[i].dev \in Device /\ PlacedAt(reports[i].dev, dev, Frames)
    BY <2>1, WireTypes DEF ViewFits, Placed
  <2>5. PlacedAt(d, dev, Frames) /\ PlacedAt(v, dev, Frames)
    BY <1>1, <2>1, <2>2, <2>4 DEF ViewFits, Placed
  <2>6. PlacedAt(d, dev', Frames')
    BY <1>1, <1>2, <1>3, <1>4, <2>5, PlacedStays
  <2>7. \A i \in DOMAIN reports' : PlacedAt(reports'[i].dev, dev', Frames')
    <3> SUFFICES ASSUME NEW i \in DOMAIN reports'
                 PROVE  PlacedAt(reports'[i].dev, dev', Frames')
      OBVIOUS
    <3>1. reports'[i].dev \in Device /\ PlacedAt(reports'[i].dev, dev, Frames)
      BY <1>1, <2>4
    <3> QED
      BY <1>1, <1>2, <1>3, <1>4, <3>1, PlacedStays
  <2>8. DeviceFits(d) /\ DeviceFits(v)
    BY <2>5 DEF PlacedAt
  <2>9. ReadBack(cmd', seen', d)
    <3>1. ReadBack(cmd, seen, v)
      BY <2>1 DEF ViewFits
    <3> HIDE DEF r
    <3> QED
      BY <1>1, <1>2, <2>2, <2>3, <2>8, <3>1, ReportReadBack
  <2>10. ASSUME ~resync'
         PROVE  Fits(S', d)
    <3>1. CASE resync
      <4>1. known /\ seen' = Known3 /\ seen # Known3
        BY <1>1, <1>2, <2>10, <3>1 DEF known
      <4>2. r.kind \in Known3
        BY <1>1, <4>1
      <4>3. S' = CompleteResync(S, cmd')
        BY <1>1, <3>1, <4>1, <4>2 DEF StoreAfter, Known3
      <4> QED
        BY <1>1, <1>2, <2>8, <2>9, <4>1, <4>3, ResyncFits
    <3>2. CASE ~resync
      <4>1. Fits(S, v)
        BY <2>1, <3>2 DEF ViewFits
      <4> HIDE DEF r
      <4> QED
        BY <1>1, <1>2, <2>2, <2>3, <2>8, <3>2, <4>1, ReportFits
    <3> QED BY <3>1, <3>2
  <2> QED
    BY <2>3, <2>6, <2>7, <2>9, <2>10 DEF ViewFits, Placed
<1> QED
  BY <1>5, <1>6 DEF Tracked

\* A frame that is not accepted may tell the command service a mode or a profile, but
\* neither was read back then.
LEMMA RejectedReadBack ==
  ASSUME Known, link = "up", NEW v \in Device, ViewFits(v), seen' = seen, FrameRejected
  PROVE  ReadBack(cmd', seen', v)
<1>1. ReadBack(cmd, seen, v) /\ DeviceFits(v)
  BY DEF ViewFits, Placed, PlacedAt
<1>2. CASE cmd' = cmd
  BY <1>1, <1>2
<1>3. CASE /\ cmd.modeId = NoId /\ cmd.profId = NoId
           /\ cmd'.rows = cmd.rows /\ cmd'.rowsId = cmd.rowsId /\ cmd'.rowsSeq = cmd.rowsSeq
  <2>1. "STATE" \notin seen
    BY <1>3 DEF Known
  <2>2. "ROWMODES" \notin seen
    <3>1. NoId.id = None /\ v.profId.id # None
      BY <1>1, DeviceFitsNumbers DEF NoId, Ident
    <3> QED
      BY <1>1, <1>3, <3>1 DEF ReadBack, Names
  <2> QED
    BY <1>1, <1>3, <2>1, <2>2 DEF ReadBack
<1> QED
  BY <1>2, <1>3 DEF FrameRejected

LEMMA HandleFrameTracked ==
  ASSUME Known, Tracked, HandleFrame
  PROVE  Tracked'
<1> DEFINE f == data[1]
<1>1. FrameTaken(f) /\ (FrameAccepted(f) \/ FrameRejected)
  BY HandleFrameIs
<1>2. 1 \in DOMAIN data /\ FromOld(data', data)
  BY <1>1, KnownTypes, TailOne, TailFromOld DEF RestOK, FrameTaken
<1>3. /\ dev' = dev /\ link' = link /\ link = "up" /\ lost' = lost /\ reports' = reports
      /\ seen' = seen /\ S \in StoreType
  BY <1>1, KnownTypes DEF FrameTaken
<1>4. CASE FrameAccepted(f)
  <2>1. parser'.frame = f /\ S' = S /\ cmd' = cmd /\ ~resync
    BY <1>4 DEF FrameAccepted
  <2>2. Frames' \subseteq Frames
    BY <1>2, <2>1, FramesShrink
  <2>3. \A v \in Device : ViewFits(v) => ReadBack(cmd', seen', v) /\ Fits(S', v)
    BY <1>3, <2>1 DEF ViewFits
  <2> QED
    BY <1>3, <2>2, <2>3, HostTracked
<1>5. CASE FrameRejected
  <2>1. Frames' \subseteq Frames
    BY <1>2, <1>5, FramesShrink DEF FrameRejected
  <2>2. \A v \in Device : ViewFits(v) => ReadBack(cmd', seen', v)
    BY <1>3, <1>5, RejectedReadBack
  <2>3. ASSUME NEW v \in Device, ViewFits(v), ~resync'
        PROVE  Fits(S', v)
    <3>1. S' = Quarantine(S) /\ Fits(S, v)
      BY <1>5, <2>3 DEF FrameRejected, ViewFits
    <3>2. SameGates(S, Quarantine(S))
      BY <1>3, QuarantineIs DEF SameGates
    <3> QED
      BY <3>1, <3>2, FitsStays
  <2> QED
    BY <1>3, <2>1, <2>2, <2>3, HostTracked
<1> QED
  BY <1>1, <1>4, <1>5

\* A commit gives the gates the identities that they had.
LEMMA CommitTracked ==
  ASSUME Known, Tracked, Commit
  PROVE  Tracked'
<1> DEFINE f == parser.frame
<1>1. /\ f \in FrameType /\ parser # None /\ parser' = None
      /\ UNCHANGED <<resync, appliedMode, rowModes, modeGate, dev, asked, connections, link,
                     data, reports, lost, cmd, seen, told>>
      /\ activeRows' = f.rows /\ geometry' = TRUE
      /\ rowsGate' = (IF f.kind \in {MIXED, CAP}
                        THEN Gate(f.rowsId.gen, f.rowsId.id, rowsGate.seq) ELSE rowsGate)
      /\ profGate' = Gate(parser.profId.gen, parser.profId.id, profGate.seq)
  BY CommitIs DEF Commit
<1>2. f \in Frames
  BY <1>1 DEF Frames
<1>3. Frames' \subseteq Frames
  BY <1>1, SameFromOld, FramesShrink
<1>4. link = "up" =>
        /\ ~resync
        /\ geometry => f.rows = activeRows
        /\ f.kind \in {MIXED, CAP} => Same(f.rowsId, rowsGate)
        /\ f.kind = MIXED => parser.profId = f.profId /\ Same(f.profId, profGate)
        /\ f.kind # MIXED => parser.profId = Ident(profGate.gen, profGate.id)
  BY <1>1 DEF Known, ParserPassed
<1> HIDE DEF f
<1>5. ASSUME link = "up", NEW v \in Device, ViewFits(v)
      PROVE  Fits(S', v)
  <2>1. Fits(S, v) /\ DeviceFits(v) /\ Agree(f, v)
    BY <1>2, <1>4, <1>5 DEF ViewFits, Placed, PlacedAt
  <2>2. v.rowsId.id # None /\ v.rowsId.gen # None /\ v.profId.id # None
    BY <2>1, DeviceFitsNumbers
  <2>3. /\ geometry /\ activeRows = v.rows
        /\ rowsGate.gen = v.rowsId.gen /\ rowsGate.id = v.rowsId.id
        /\ NotAfter(rowsGate, v.seq) /\ NotAfter(profGate, v.seq)
        /\ Names(profGate, v.profId)
    BY <2>1 DEF Fits, S
  <2>4. /\ rowsGate'.gen = v.rowsId.gen /\ rowsGate'.id = v.rowsId.id
        /\ rowsGate'.seq = rowsGate.seq
    <3>1. CASE f.kind \in {MIXED, CAP}
      <4>1. f.rowsId.gen = rowsGate.gen /\ f.rowsId.id = rowsGate.id
        BY <1>4, <1>5, <2>2, <2>3, <3>1 DEF Same
      <4> QED
        BY <1>1, <2>3, <3>1, <4>1, GateSeq
    <3>2. CASE f.kind \notin {MIXED, CAP}
      BY <1>1, <2>3, <3>2
    <3> QED BY <3>1, <3>2
  <2>5. Names(profGate', v.profId) /\ profGate'.seq = profGate.seq
    <3>1. profGate'.gen = parser.profId.gen /\ profGate'.id = parser.profId.id
          /\ profGate'.seq = profGate.seq
      BY <1>1, GateSeq
    <3>2. CASE f.kind = MIXED
      <4>1. parser.profId = f.profId /\ f.profId.id = v.profId.id
        BY <1>4, <1>5, <2>2, <2>3, <3>2 DEF Same, Names
      <4>2. f.profId = v.profId
        BY <2>1, <4>1 DEF Agree
      <4> QED
        BY <3>1, <4>1, <4>2 DEF Names
    <3>3. CASE f.kind # MIXED
      BY <1>4, <1>5, <2>3, <3>1, <3>3 DEF Names, Ident
    <3> QED BY <3>2, <3>3
  <2>6. NotAfter(rowsGate', v.seq) /\ NotAfter(profGate', v.seq)
    BY <2>3, <2>4, <2>5 DEF NotAfter
  <2>7. activeRows' = v.rows
    BY <1>1, <1>4, <1>5, <2>3
  <2> QED
    BY <1>1, <2>1, <2>4, <2>5, <2>6, <2>7 DEF Fits, S
<1>6. \A v \in Device : ViewFits(v) => ReadBack(cmd', seen', v)
  BY <1>1 DEF ViewFits
<1> QED
  BY <1>1, <1>3, <1>5, <1>6, HostTracked

LEMMA LifecycleTracked ==
  ASSUME Known, Tracked, Reconnect \/ Clear \/ ImportReset
  PROVE  Tracked'
<1>0. dev \in Device /\ dev.changes <= dev.changes
  BY KnownTypes, WireTypes DEF RestOK
<1>1. CASE Reconnect
  <2>1. /\ resync' = TRUE /\ parser' = None /\ data' = <<>> /\ reports' = <<>> /\ seen' = {}
        /\ dev' = dev
    BY <1>1, ReconnectIs
  <2>2. Frames' \subseteq Frames
    BY <2>1, EmptyFromOld, FramesShrink
  <2>3. Placed(dev)' /\ FramesNumbered'
    BY <1>0, <2>1, <2>2, PlacedStays DEF Tracked, Placed, FramesNumbered
  <2>4. PICK v \in Device : v = dev
    BY <1>0
  <2>5. Leads(v, reports', dev')
    BY <2>1, <2>4, LeadsEmpty, DriftSame
  <2>6. ReadBack(cmd', seen', v)
    BY <2>1 DEF ReadBack
  <2>7. PlacedAt(v, dev', Frames') /\ DOMAIN reports' = {}
    BY <2>1, <2>3, <2>4 DEF Placed
  <2>8. ViewFits(v)'
    BY <2>1, <2>5, <2>6, <2>7 DEF ViewFits, Placed
  <2> QED
    BY <2>3, <2>8 DEF Tracked
<1>2. CASE Clear
  <2>1. UNCHANGED <<dev, link, data, reports, lost, cmd, seen, resync, rowModes, appliedMode,
                    activeRows, geometry, rowsGate, modeGate, profGate, parser>>
    BY <1>2 DEF Clear, device, wire, host, gates
  <2>2. Frames' \subseteq Frames /\ SameGates(S, S')
    BY <2>1, SameFromOld, FramesShrink DEF SameGates, S
  <2>3. \A v \in Device : ViewFits(v) /\ ~resync' => Fits(S', v)
    BY <2>1, <2>2, FitsStays DEF ViewFits
  <2> QED
    BY <2>1, <2>2, <2>3, HostTracked DEF ViewFits
<1>3. CASE ImportReset
  <2>1. link' = "offline" /\ data' = <<>> /\ dev' = dev /\ parser' = parser
    BY <1>3, ImportIs
  <2>2. Frames' \subseteq Frames
    BY <2>1, EmptyFromOld, FramesShrink
  <2> QED
    BY <2>1, <2>2, HostTracked
<1> QED
  BY <1>1, <1>2, <1>3

LEMMA InitTracked == Init => Tracked
<1> SUFFICES ASSUME Init PROVE Tracked
  OBVIOUS
<1>1. PICK p \in Profiles :
        dev = [profile |-> p, mode |-> p[1], rows |-> NRows, modeId |-> Ident(0, 0),
               profId |-> Ident(0, 0), rowsId |-> Ident(0, 0), rowsSeq |-> 0, seq |-> 0,
               changes |-> 0]
  BY DEF Init
<1>2. dev \in Device /\ DevIds(dev)
  BY InitKnown, KnownTypes DEF Known, RestOK
<1>3. Frames = {}
  BY DEF Init, Frames
<1>4. DeviceFits(dev)
  BY <1>1, <1>2 DEF DeviceFits, Ident
<1>5. PlacedAt(dev, dev, Frames)
  BY <1>1, <1>3, <1>4 DEF PlacedAt, Agree
<1>6. PICK v \in Device : v = dev
  BY <1>2
<1>7. reports = <<>> /\ seen = {} /\ resync = TRUE /\ DOMAIN reports = {}
  BY DEF Init
<1>8. Leads(v, reports, dev)
  BY <1>6, <1>7, LeadsEmpty, DriftSame
<1>9. ViewFits(v)
  BY <1>5, <1>6, <1>7, <1>8 DEF ViewFits, ReadBack, Placed
<1> QED
  BY <1>3, <1>5, <1>9 DEF Tracked, FramesNumbered, Placed

LEMMA StepTracked ==
  ASSUME ~SeqRestarts, Known, Tracked, [Next]_vars
  PROVE  Tracked'
<1>1. CASE UNCHANGED vars
  <2>1. UNCHANGED <<dev, link, data, reports, lost, cmd, seen, parser, resync, rowModes, appliedMode,
                    activeRows, geometry, rowsGate, modeGate, profGate, latest>>
    BY <1>1 DEF vars, device, wire, host, store, gates
  <2>2. S' = S /\ Frames' \subseteq Frames
    BY <2>1, SameFromOld, FramesShrink DEF S
  <2> QED
    BY <2>1, <2>2, HostTracked DEF ViewFits
<1> QED
  BY <1>1, DeviceTracked, HandleFrameTracked, CommitTracked, HandleReportTracked, LifecycleTracked
     DEF Next

LEMMA TrackedHolds ==
  ASSUME ~SeqRestarts
  PROVE  Spec => [](Known /\ Tracked)
<1>1. Known /\ Tracked /\ [Next]_vars => Known' /\ Tracked'
  BY StepKnown, StepTracked
<1> QED
  BY <1>1, InitKnown, InitTracked, PTL DEF Spec

\* Gates that fit the device admit the frame it sends next.
LEMMA FittingAdmits ==
  ASSUME Known, NEW v \in Device, Fits(S, v), DeviceFits(v), Drift(v, dev), ~resync
  PROVE  Accepts(S, Frame)
<1>1. /\ dev \in Device /\ dev.profile \in Profiles /\ dev.seq \in Nat /\ v.seq \in Nat
      /\ S \in StoreType /\ dev.rows \in Rows
  BY KnownTypes, DeviceFields DEF RestOK
<1>2. /\ Frame.kind = Kind(dev.profile) /\ Frame.profile = dev.profile
      /\ Frame.rows = dev.rows /\ Frame.seq = dev.seq /\ Frame.rowsId = dev.rowsId
      /\ Frame.modeId = dev.modeId /\ Frame.profId = dev.profId
  BY <1>1, FrameFacts
<1>3. /\ dev.profile = v.profile /\ dev.modeId = v.modeId /\ dev.profId = v.profId
      /\ dev.rows = v.rows /\ dev.rowsId = v.rowsId /\ v.seq <= dev.seq
  BY <1>1 DEF Drift
<1>4. \A g \in Gates : NotAfter(g, v.seq) => Behind(Frame.seq, g)
  BY <1>1, <1>2, <1>3, GateFields DEF NotAfter, Behind, MaybeNat
<1>5. Behind(Frame.seq, S.rowsGate) /\ Behind(Frame.seq, S.modeGate) /\ Behind(Frame.seq, S.profGate)
  BY <1>1, <1>4, StoreFields DEF Fits
<1>6. Same(Frame.rowsId, S.rowsGate) /\ Same(Frame.profId, S.profGate)
  BY <1>2, <1>3 DEF Fits, Same, Names
<1>7. S.activeRows = Frame.rows /\ S.rowModes = Frame.profile /\ ~S.resync
  BY <1>2, <1>3 DEF Fits, S
<1>8. CASE Homogeneous(dev.profile)
  <2>1. Frame.kind # MIXED /\ Frame.kind = dev.profile[1] /\ dev.profile = All(dev.profile[1])
    BY <1>1, <1>2, <1>8, KindFacts
  <2>2. S.appliedMode = Frame.kind /\ Names(S.modeGate, Frame.modeId)
    BY <1>2, <1>3, <1>8, <2>1 DEF Fits
  <2>3. Same(Frame.modeId, S.modeGate)
    BY <2>2 DEF Same, Names
  <2> QED
    BY <1>2, <1>5, <1>6, <1>7, <2>1, <2>2, <2>3 DEF Accepts, AcceptHomogeneous
<1>9. CASE ~Homogeneous(dev.profile)
  <2>1. Frame.kind = MIXED
    BY <1>1, <1>2, <1>9, KindFacts
  <2> QED
    BY <1>5, <1>6, <1>7, <2>1 DEF Accepts, AcceptMixed
<1> QED
  BY <1>8, <1>9

\* The gates fit the device, for one whose frame sequence a MODE transition does not
\* restart: whatever MODE, ROWMODES and ROWS changes, resyncs, reconnections, commits
\* and observed frames there were, once every report of the connection has arrived the
\* frame the device sends next is admitted, so the display does not stay in quarantine.
THEOREM GatesAdmit ==
  ASSUME ~SeqRestarts
  PROVE  Spec => []GateAdmitsCurrent
<1>1. Known /\ Tracked => GateAdmitsCurrent
  <2> SUFFICES ASSUME Known, Tracked, link = "up", ~resync, ~lost, reports = <<>>
               PROVE  Accepts(S, Frame)
    BY DEF GateAdmitsCurrent
  <2>1. PICK v \in Device : ViewFits(v)
    BY DEF Tracked
  <2>2. Fits(S, v) /\ DeviceFits(v) /\ Leads(v, <<>>, dev)
    BY <2>1 DEF ViewFits, Placed, PlacedAt
  <2>3. Drift(v, dev)
    BY <2>2, LeadsEmpty
  <2> QED
    BY <2>2, <2>3, FittingAdmits
<1> QED
  BY <1>1, TrackedHolds, PTL
=============================================================================
