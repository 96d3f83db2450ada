------------------------- MODULE CommandServiceProofs -------------------------
(***************************************************************************)
(* CommandService is type correct, and its audit records and state         *)
(* machines fit together, for every set of kinds, modes, firmware request  *)
(* IDs, boots and API threads and every number of records.                 *)
(*                                                                         *)
(* The records change in few ways: one is matched and closed, named or     *)
(* both (Audit), all are restated without a new identity, or one is added. *)
(* What holds of all of them (Evolves) is proved once per way, and each    *)
(* action is shown to be one of these.                                     *)
(***************************************************************************)
EXTENDS CommandService, SequenceTheorems, TLAPS

Recs == Seq(Record)

Unique(recs) ==
  \A i, j \in DOMAIN recs :
    recs[i].kind = recs[j].kind /\ recs[i].id = recs[j].id /\ recs[i].id # None => i = j

\* What a step may do to the records: it drops none, keeps kind, value and any
\* identity, and makes no two records of a kind claim one identity.
Evolves(recs, new) ==
  /\ new \in Recs
  /\ DOMAIN recs \subseteq DOMAIN new
  /\ \A i \in DOMAIN recs : /\ new[i].kind = recs[i].kind
                            /\ new[i].value = recs[i].value
                            /\ recs[i].id # None => new[i].id = recs[i].id
  /\ Unique(recs) => Unique(new)

\* A step that gives no record an identity, and adds none.
Restates(recs, new) ==
  /\ new \in Recs
  /\ DOMAIN new = DOMAIN recs
  /\ \A i \in DOMAIN recs : /\ new[i].kind = recs[i].kind
                            /\ new[i].value = recs[i].value
                            /\ new[i].id = recs[i].id

\* A step that announces no restart.
NoneExpected(recs, new) ==
  \A i \in DOMAIN new : new[i].state = "EXPECTED_RESTART" =>
    i \in DOMAIN recs /\ recs[i].state = "EXPECTED_RESTART"

-----------------------------------------------------------------------------
(* Values and kinds                                                         *)

LEMMA ValueType == \A k \in Kinds : Value(k) \subseteq Values
  BY KindsAssumption DEF Value, Values, Profiles

LEMMA MachineKinds ==
  /\ Machines \subseteq Kinds /\ Machines \subseteq {"mode", "row_modes"}
  /\ Machines \subseteq Readable
  /\ \A k \in Kinds : k \in {"mode", "row_modes"} => k \in Machines
  BY DEF Machines, Readable

LEMMA NewestIn ==
  ASSUME NEW S
  PROVE  Newest(S) \in S \cup {0}
  BY DEF Newest, IsNewest

-----------------------------------------------------------------------------
(* Operators on records                                                     *)

LEMMA RecordAt ==
  ASSUME NEW recs \in Recs, NEW i \in DOMAIN recs
  PROVE  /\ recs[i] \in Record /\ i \in Nat \ {0} /\ i \in 1 .. Len(recs)
         /\ DOMAIN recs = 1 .. Len(recs) /\ Len(recs) \in Nat
<1>1. DOMAIN recs = 1 .. Len(recs) /\ Len(recs) \in Nat
  BY LenProperties DEF Recs
<1> QED
  BY <1>1, ElementOfSeq DEF Recs

\* Records given one by one, as many as before.
LEMMA PointwiseRecs ==
  ASSUME NEW recs \in Recs, NEW new \in [DOMAIN recs -> Record]
  PROVE  new \in Recs /\ DOMAIN new = DOMAIN recs
<1>1. DOMAIN recs = 1 .. Len(recs) /\ Len(recs) \in Nat
  BY LenProperties DEF Recs
<1>2. new \in [1 .. Len(recs) -> Record]
  BY <1>1
<1> QED
  BY <1>1, <1>2 DEF Recs

LEMMA ReplaceOne ==
  ASSUME NEW recs \in Recs, NEW i \in DOMAIN recs, NEW r \in Record,
         NEW new, new = [recs EXCEPT ![i] = r]
  PROVE  /\ new \in Recs /\ DOMAIN new = DOMAIN recs /\ new[i] = r
         /\ \A j \in DOMAIN recs : j # i => new[j] = recs[j]
<1>1. i \in 1 .. Len(recs) /\ DOMAIN recs = 1 .. Len(recs)
  BY RecordAt
<1> QED
  BY <1>1, ExceptSeq DEF Recs

LEMMA SetStateStep ==
  ASSUME NEW recs \in Recs, NEW i \in DOMAIN recs \cup {0}, NEW s \in RecordStates
  PROVE  /\ Restates(recs, SetState(recs, i, s))
         /\ \A j \in DOMAIN recs : j # i => SetState(recs, i, s)[j] = recs[j]
         /\ i # 0 => SetState(recs, i, s)[i].state = s
<1>1. CASE i = 0
  BY <1>1, RecordAt DEF SetState, Restates
<1>2. CASE i # 0
  <2>1. recs[i] \in Record /\ i \in DOMAIN recs
    BY <1>2, RecordAt
  <2> DEFINE r == [recs[i] EXCEPT !.state = s]
             new == SetState(recs, i, s)
  <2>2. /\ r \in Record /\ r.kind = recs[i].kind /\ r.value = recs[i].value
        /\ r.id = recs[i].id /\ r.state = s
    BY <2>1 DEF Record
  <2>3. new = [recs EXCEPT ![i] = r]
    BY <1>2 DEF SetState
  <2> HIDE DEF r, new
  <2>4. /\ new \in Recs /\ DOMAIN new = DOMAIN recs /\ new[i] = r
        /\ \A j \in DOMAIN recs : j # i => new[j] = recs[j]
    BY <2>1, <2>2, <2>3, ReplaceOne
  <2>5. Restates(recs, new)
    BY <2>2, <2>4 DEF Restates
  <2> QED
    BY <2>2, <2>4, <2>5 DEF new
<1> QED
  BY <1>1, <1>2

LEMMA RestatesEvolves ==
  ASSUME NEW recs \in Recs, NEW new, Restates(recs, new)
  PROVE  Evolves(recs, new)
  BY DEF Restates, Evolves, Unique

\* The record of an identity is of its kind; a record is claimed for a new
\* identity only when no other of the kind has it.
LEMMA Matched ==
  ASSUME NEW recs \in Recs, NEW k, NEW phase, NEW id, NEW req,
         NEW i, i = MatchRecord(recs, k, phase, id, req)
  PROVE  /\ i \in DOMAIN recs \cup {0}
         /\ i # 0 => /\ recs[i].kind = k
                     /\ id # None => recs[i].id \in {None, id}
                     /\ id # None /\ phase # "accepted" => recs[i].id = id
         /\ i # 0 /\ id # None => \/ recs[i].id = id
                                  \/ \A j \in DOMAIN recs : ~(recs[j].kind = k /\ recs[j].id = id)
<1>1. ById(recs, k, id) \subseteq DOMAIN recs
  BY DEF ById
<1>2. ByValue(recs, k, id, req) \subseteq DOMAIN recs
  BY DEF ByValue
<1>3. 0 \notin DOMAIN recs
  BY RecordAt
<1>4. CASE ById(recs, k, id) # {}
  <2>1. i \in ById(recs, k, id) \cup {0}
    BY <1>4, NewestIn DEF MatchRecord
  <2> QED
    BY <2>1, <1>1, <1>3 DEF ById
<1>5. CASE ById(recs, k, id) = {} /\ id # None /\ phase # "accepted"
  BY <1>5 DEF MatchRecord
<1>6. CASE ById(recs, k, id) = {} /\ ~(id # None /\ phase # "accepted")
  <2>1. i \in ByValue(recs, k, id, req) \cup {0}
    BY <1>6, NewestIn DEF MatchRecord
  <2>2. id # None => \A j \in DOMAIN recs : ~(recs[j].kind = k /\ recs[j].id = id)
    BY <1>6 DEF ById
  <2> QED
    BY <2>1, <2>2, <1>2, <1>3, <1>6 DEF ByValue
<1> QED
  BY <1>4, <1>5, <1>6

\* A record is matched, closed or accepted, and named.
Names(recs, k, phase, id, req, s, new) ==
  LET i == MatchRecord(recs, k, phase, id, req)
  IN new = IF i = 0 THEN recs
           ELSE [recs EXCEPT ![i].state = s, ![i].id = IF id = None THEN @ ELSE id]

LEMMA NamesStep ==
  ASSUME NEW recs \in Recs, NEW k, NEW phase, NEW id \in MaybeId, NEW req, NEW s \in RecordStates,
         NEW new, Names(recs, k, phase, id, req, s, new),
         NEW i, i = MatchRecord(recs, k, phase, id, req)
  PROVE  /\ Evolves(recs, new) /\ DOMAIN new = DOMAIN recs
         /\ \A j \in DOMAIN recs : j # i => new[j] = recs[j]
         /\ i # 0 => new[i].state = s
<1>1. i \in DOMAIN recs \cup {0}
  BY Matched
<1>2. CASE i = 0
  <2>1. new = recs
    BY <1>2 DEF Names
  <2>2. Restates(recs, recs)
    BY DEF Restates
  <2> QED
    BY <2>1, <2>2, <1>2, RestatesEvolves
<1>3. CASE i # 0
  <2>1. i \in DOMAIN recs /\ recs[i] \in Record
    BY <1>1, <1>3, RecordAt
  <2> DEFINE x == IF id = None THEN recs[i].id ELSE id
             r == [recs[i] EXCEPT !.state = s, !.id = x]
  <2>2. x \in MaybeId
    BY <2>1 DEF Record
  <2>3. /\ r \in Record /\ r.kind = recs[i].kind /\ r.value = recs[i].value
        /\ r.id = x /\ r.state = s
    <3> HIDE DEF x
    <3> QED BY <2>1, <2>2 DEF Record
  <2>4. new = [recs EXCEPT ![i] = r]
    <3>1. new = [recs EXCEPT ![i].state = s, ![i].id = IF id = None THEN @ ELSE id]
      BY <1>3 DEF Names
    <3> QED BY <3>1, <2>1 DEF Record, Recs
  <2>5. /\ recs[i].kind = k
        /\ id # None => recs[i].id \in {None, id}
        /\ id # None => \/ recs[i].id = id
                        \/ \A j \in DOMAIN recs : ~(recs[j].kind = k /\ recs[j].id = id)
    BY <1>3, Matched
  <2>6. recs[i].id # None => x = recs[i].id
    BY <2>5
  <2>7. x # None => \/ x = recs[i].id
                    \/ \A j \in DOMAIN recs : ~(recs[j].kind = recs[i].kind /\ recs[j].id = x)
    BY <2>5
  <2> HIDE DEF x, r
  <2>8. /\ new \in Recs /\ DOMAIN new = DOMAIN recs /\ new[i] = r
        /\ \A j \in DOMAIN recs : j # i => new[j] = recs[j]
    BY <2>1, <2>3, <2>4, ReplaceOne
  <2>9. ASSUME Unique(recs) PROVE Unique(new)
    <3> SUFFICES ASSUME NEW a \in DOMAIN recs, NEW b \in DOMAIN recs, new[a].kind = new[b].kind,
                        new[a].id = new[b].id, new[a].id # None
                 PROVE  a = b
      BY <2>8 DEF Unique
    <3>1. CASE a # i /\ b # i
      BY <3>1, <2>8, <2>9 DEF Unique
    <3>2. CASE a = i /\ b # i
      <4>1. recs[b].kind = recs[i].kind /\ recs[b].id = x /\ x # None
        BY <3>2, <2>8, <2>3
      <4> QED BY <4>1, <2>7, <2>1, <2>9, <3>2 DEF Unique
    <3>3. CASE a # i /\ b = i
      <4>1. recs[a].kind = recs[i].kind /\ recs[a].id = x /\ x # None
        BY <3>3, <2>8, <2>3
      <4> QED BY <4>1, <2>7, <2>1, <2>9, <3>3 DEF Unique
    <3> QED BY <3>1, <3>2, <3>3
  <2>10. Evolves(recs, new)
    BY <2>3, <2>6, <2>8, <2>9 DEF Evolves
  <2> QED
    BY <2>3, <2>8, <2>10
<1> QED
  BY <1>2, <1>3

-----------------------------------------------------------------------------
(* The inductive invariant                                                  *)

\* A request in progress is of a kind in use, and sends for a record of its kind.
RequestsFit ==
  \A a \in Api :
    /\ api[a].pc # "idle" => api[a].kind \in Kinds
    /\ api[a].pc = "sending" => /\ api[a].record \in DOMAIN records
                                /\ records[api[a].record].kind = api[a].kind

\* A record that is open and has no identity yet.
Unnamed(recs, i, k) ==
  i \in DOMAIN recs /\ recs[i].kind = k /\ recs[i].state \in Open /\ recs[i].id = None
HasUnnamed(recs, k, v) == \E i \in DOMAIN recs : Unnamed(recs, i, k) /\ recs[i].value = v

\* WaitingHasOpenRecord is not inductive: a terminal under an identity could close the
\* record, were it not that the record has no identity yet.
WaitingHasUnnamed ==
  \A k \in Machines : pending[k] # None /\ reqId[k] = None => HasUnnamed(records, k, pending[k])

IInv ==
  /\ TypeOK /\ RequestsFit /\ Unique(records) /\ ExpectedRestartIsArmed
  /\ ProfileWatched /\ WaitingHasUnnamed

\* What the action properties ask of a step.
IdentityKept == \A i \in DOMAIN records : records[i].id # None => records'[i].id = records[i].id
Authorized ==
  \A k \in {"mode", "row_modes"} :
    applied'[k] # applied[k] => \/ \E m \in {"mode", "row_modes"} : AppliedFor(k, m)
                               \/ trans'[k] = "read"

\* Every open record without identity stays so, if it is of kind k.
KeepsUnnamed(recs, new, k) ==
  \A i \in DOMAIN recs : Unnamed(recs, i, k) => Unnamed(new, i, k) /\ new[i].value = recs[i].value

LEMMA KeptUnnamed ==
  ASSUME NEW recs, NEW new, NEW k, NEW v, KeepsUnnamed(recs, new, k), HasUnnamed(recs, k, v)
  PROVE  HasUnnamed(new, k, v)
<1>1. PICK i \in DOMAIN recs : Unnamed(recs, i, k) /\ recs[i].value = v
  BY DEF HasUnnamed
<1>2. Unnamed(new, i, k) /\ new[i].value = v
  BY <1>1 DEF KeepsUnnamed
<1> QED
  BY <1>2 DEF HasUnnamed, Unnamed

\* The parts of the invariant that follow from the evolution of the records.
LEMMA EvolvedParts ==
  ASSUME IInv, Evolves(records, records')
  PROVE  /\ records' \in Seq(Record) /\ Unique(records') /\ IdentityKept
         /\ api' = api => RequestsFit'
  BY DEF Evolves, IInv, TypeOK, Recs, RequestsFit, IdentityKept

LEMMA ArmedKept ==
  ASSUME IInv, NoneExpected(records, records'), restart' = restart
  PROVE  ExpectedRestartIsArmed'
  BY DEF IInv, ExpectedRestartIsArmed, NoneExpected

LEMMA SetStateNone ==
  ASSUME NEW recs \in Recs, NEW i \in DOMAIN recs \cup {0}, NEW s \in RecordStates,
         s # "EXPECTED_RESTART"
  PROVE  NoneExpected(recs, SetState(recs, i, s))
<1> DEFINE new == SetState(recs, i, s)
<1>1. /\ DOMAIN new = DOMAIN recs
      /\ \A j \in DOMAIN recs : j # i => new[j] = recs[j]
      /\ i # 0 => new[i].state = s
  BY SetStateStep DEF Restates
<1>2. 0 \notin DOMAIN recs
  BY RecordAt
<1> QED
  BY <1>1, <1>2 DEF NoneExpected

LEMMA NamesNone ==
  ASSUME NEW recs \in Recs, NEW k, NEW phase, NEW id \in MaybeId, NEW req, NEW s \in RecordStates,
         s # "EXPECTED_RESTART", NEW new, Names(recs, k, phase, id, req, s, new)
  PROVE  NoneExpected(recs, new)
<1> DEFINE i == MatchRecord(recs, k, phase, id, req)
<1>1. /\ DOMAIN new = DOMAIN recs
      /\ \A j \in DOMAIN recs : j # i => new[j] = recs[j]
      /\ i # 0 => new[i].state = s
  BY NamesStep
<1>2. 0 \notin DOMAIN recs
  BY RecordAt
<1> QED
  BY <1>1, <1>2 DEF NoneExpected

\* A terminal under an identity, or about another kind, touches no unnamed record.
LEMMA NamesOthers ==
  ASSUME NEW recs \in Recs, NEW k, NEW phase, NEW id \in MaybeId, NEW req, NEW s \in RecordStates,
         NEW new, Names(recs, k, phase, id, req, s, new), NEW m,
         m # k \/ (id # None /\ phase # "accepted")
  PROVE  KeepsUnnamed(recs, new, m)
<1> DEFINE i == MatchRecord(recs, k, phase, id, req)
<1>1. /\ DOMAIN new = DOMAIN recs
      /\ \A j \in DOMAIN recs : j # i => new[j] = recs[j]
  BY NamesStep
<1>2. i # 0 => recs[i].kind = k /\ (id # None /\ phase # "accepted" => recs[i].id = id)
  BY Matched
<1>3. 0 \notin DOMAIN recs
  BY RecordAt
<1> HIDE DEF i
<1>4. \A j \in DOMAIN recs : Unnamed(recs, j, m) => j # i
  BY <1>2, <1>3 DEF Unnamed
<1> QED
  BY <1>1, <1>4 DEF KeepsUnnamed, Unnamed

LEMMA AuditNames ==
  ASSUME NEW k, NEW phase, NEW id, NEW req, NEW s, Audit(k, phase, id, req, s)
  PROVE  Names(records, k, phase, id, req, s, records')
  BY DEF Audit, Names

LEMMA StatesOfRecords ==
  /\ \A s \in Open \cup Closed : s \in RecordStates /\ s # "EXPECTED_RESTART"
  /\ "EXPECTED_RESTART" \in RecordStates
  BY DEF RecordStates, Open, Closed

-----------------------------------------------------------------------------
(* Reports: one lemma per action                                            *)

Machine ==
  /\ applied \in [Readable -> Values] /\ pending \in [Readable -> Values]
  /\ reqId \in [Readable -> MaybeId]
  /\ trans \in [{"mode", "row_modes"} -> Transitions]
  /\ genKnown \in [{"mode", "row_modes"} -> BOOLEAN]

LEMMA ReadableKinds == Readable = {"mode", "row_modes", "rows"}
  BY DEF Readable

\* What a report leaves alone.
LEMMA ReportParts ==
  ASSUME IInv, Evolves(records, records'), Machine', NoneExpected(records, records'),
         UNCHANGED <<bootId, restart, api>>, syncSeen' \subseteq Readable,
         readBoot' \subseteq Readable, known' \in BOOLEAN, ProfileWatched', WaitingHasUnnamed'
  PROVE  IInv' /\ IdentityKept
<1>1. /\ records' \in Seq(Record) /\ Unique(records') /\ IdentityKept /\ RequestsFit'
  BY EvolvedParts
<1>2. ExpectedRestartIsArmed'
  BY ArmedKept
<1>3. TypeOK'
  BY <1>1 DEF IInv, TypeOK, Machine
<1> QED
  BY <1>1, <1>2, <1>3 DEF IInv

LEMMA AcceptStep ==
  ASSUME IInv, NEW k \in Machines, NEW id \in MaybeId, NEW old \in Maybe(k), NEW req \in Value(k),
         Accept(k, id, old, req)
  PROVE  IInv' /\ IdentityKept /\ Authorized
<1>1. /\ Names(records, k, "accepted", id, req, "ACCEPTED", records') /\ records \in Recs
      /\ "ACCEPTED" \in RecordStates /\ id # None
  BY AuditNames, StatesOfRecords DEF Accept, IInv, TypeOK, Recs, Open
<1>2. Evolves(records, records') /\ NoneExpected(records, records')
  BY <1>1, NamesStep, NamesNone
<1>3. k \in {"mode", "row_modes"} /\ k \in Readable /\ req \in Values
  BY MachineKinds, ValueType
<1>4. /\ applied \in [Readable -> Values] /\ pending \in [Readable -> Values]
      /\ reqId \in [Readable -> MaybeId]
      /\ trans \in [{"mode", "row_modes"} -> Transitions]
      /\ genKnown \in [{"mode", "row_modes"} -> BOOLEAN]
      /\ "row_modes" \in Readable /\ "running" \in Transitions
  BY DEF IInv, TypeOK, Readable, Transitions
<1>5. Machine' /\ ProfileWatched' /\ Authorized
  <2>1. CASE Opens(k, id, old)
    <3>1. /\ pending' = [pending EXCEPT ![k] = req] /\ reqId' = [reqId EXCEPT ![k] = id]
          /\ trans' = [trans EXCEPT ![k] = "running"] /\ UNCHANGED <<applied, genKnown>>
      BY <2>1 DEF Accept
    <3> QED
      BY <3>1, <1>3, <1>4 DEF IInv, Machine, ProfileWatched, Authorized, Watched
  <2>2. CASE ~Opens(k, id, old)
    <3>1. UNCHANGED machine
      BY <2>2 DEF Accept
    <3> QED
      BY <3>1, <1>4 DEF IInv, Machine, ProfileWatched, Authorized, machine
  <2> QED BY <2>1, <2>2
<1>6. ASSUME NEW m \in Machines, pending'[m] # None, reqId'[m] = None
      PROVE  HasUnnamed(records', m, pending'[m])
  <2>1. m \in Readable /\ pending \in [Readable -> Values] /\ reqId \in [Readable -> MaybeId]
    BY MachineKinds DEF IInv, TypeOK
  <2>2. CASE m = k
    <3>1. UNCHANGED machine /\ pending[k] = None
      BY <1>1, <1>6, <2>1, <2>2 DEF Accept, Opens
    <3> QED
      BY <3>1, <1>6, <2>2 DEF machine
  <2>3. CASE m # k
    <3>1. pending'[m] = pending[m] /\ reqId'[m] = reqId[m]
      BY <2>1, <2>3, <1>3 DEF Accept, machine
    <3>2. KeepsUnnamed(records, records', m)
      BY <1>1, <2>3, NamesOthers
    <3> QED
      BY <1>6, <3>1, <3>2, KeptUnnamed DEF IInv, WaitingHasUnnamed
  <2> QED BY <2>2, <2>3
<1>7. WaitingHasUnnamed'
  BY <1>6 DEF WaitingHasUnnamed
<1> QED
  BY <1>2, <1>5, <1>7, ReportParts DEF Accept, sync, IInv, TypeOK

LEMMA ApplyStep ==
  ASSUME IInv, NEW k \in Machines, NEW id \in MaybeId, NEW v \in Value(k), Apply(k, id, v)
  PROVE  IInv' /\ IdentityKept /\ Authorized
<1>1. /\ Names(records, k, "applied", id, v, "APPLIED", records') /\ records \in Recs
      /\ "APPLIED" \in RecordStates /\ id # None
  BY AuditNames, StatesOfRecords DEF Apply, IInv, TypeOK, Recs, Closed
<1>2. Evolves(records, records') /\ NoneExpected(records, records')
  BY <1>1, NamesStep, NamesNone
<1>3. k \in {"mode", "row_modes"} /\ k \in Readable /\ v \in Values
  BY MachineKinds, ValueType
<1>4. \A m \in Machines : KeepsUnnamed(records, records', m)
  BY <1>1, NamesOthers
<1>5. /\ applied \in [Readable -> Values] /\ pending \in [Readable -> Values]
      /\ reqId \in [Readable -> MaybeId]
      /\ trans \in [{"mode", "row_modes"} -> Transitions]
      /\ genKnown \in [{"mode", "row_modes"} -> BOOLEAN]
      /\ "mode" \in Readable /\ "row_modes" \in Readable
      /\ {"applied", "ended"} \subseteq Transitions /\ None \in Values
  BY DEF IInv, TypeOK, Readable, Transitions, Values
<1>6. CASE ~Commits(k, id, v)
  <2>1. UNCHANGED machine
    BY <1>6 DEF Apply
  <2>2. Machine' /\ ProfileWatched' /\ Authorized
    BY <2>1, <1>5 DEF machine, Machine, IInv, ProfileWatched, Authorized
  <2>3. WaitingHasUnnamed'
    BY <2>1, <1>4, KeptUnnamed DEF machine, IInv, WaitingHasUnnamed
  <2> QED
    BY <1>2, <2>2, <2>3, ReportParts DEF Apply, sync, IInv, TypeOK
<1>7. CASE Commits(k, id, v) /\ k = "mode"
  <2>1. CommitMode(id, v) /\ pending["mode"] = v /\ reqId["mode"] = id
    BY <1>7 DEF Apply, Commits
  <2>2. Machine'
    BY <2>1, <1>3, <1>5 DEF CommitMode, Machine
  <2>3. ProfileWatched'
    BY <2>1, <1>5 DEF CommitMode, ProfileWatched, IInv
  <2>4. Authorized
    BY <2>1, <1>1, <1>5 DEF CommitMode, Authorized, AppliedFor
  <2>5. ASSUME NEW m \in Machines, pending'[m] # None, reqId'[m] = None
        PROVE  HasUnnamed(records', m, pending'[m])
    <3>1. m = "row_modes"
      BY <2>1, <2>5, <1>5, MachineKinds DEF CommitMode
    <3>2. pending'[m] = pending[m] /\ reqId'[m] = reqId[m]
      BY <3>1, <2>1, <2>5, <1>5 DEF CommitMode
    <3> QED
      BY <3>2, <2>5, <1>4, KeptUnnamed DEF IInv, WaitingHasUnnamed
  <2>6. WaitingHasUnnamed'
    BY <2>5 DEF WaitingHasUnnamed
  <2> QED
    BY <1>2, <2>2, <2>3, <2>4, <2>6, ReportParts DEF Apply, sync, IInv, TypeOK
<1>8. CASE Commits(k, id, v) /\ k = "row_modes"
  <2>1. CommitRowModes(id, v) /\ pending["row_modes"] = v /\ reqId["row_modes"] = id
    BY <1>8 DEF Apply, Commits
  <2>2. Machine'
    <3>1. genKnown' \in [{"mode", "row_modes"} -> BOOLEAN]
      <4>1. (genKnown["mode"] /\ ~(v \in Modes)) \in BOOLEAN
        OBVIOUS
      <4> QED BY <4>1, <2>1, <1>5 DEF CommitRowModes
    <3> QED BY <3>1, <2>1, <1>3, <1>5 DEF CommitRowModes, Machine
  <2>3. ProfileWatched'
    BY <2>1, <1>5 DEF CommitRowModes, ProfileWatched, IInv
  <2>4. Authorized
    BY <2>1, <1>1, <1>5 DEF CommitRowModes, Authorized, AppliedFor
  <2>5. ASSUME NEW m \in Machines, pending'[m] # None, reqId'[m] = None
        PROVE  HasUnnamed(records', m, pending'[m])
    <3>1. m = "mode"
      BY <2>1, <2>5, <1>5, MachineKinds DEF CommitRowModes
    <3>2. pending'[m] = pending[m] /\ reqId'[m] = reqId[m]
      BY <3>1, <2>1, <2>5, <1>1, <1>5 DEF CommitRowModes
    <3> QED
      BY <3>2, <2>5, <1>4, KeptUnnamed DEF IInv, WaitingHasUnnamed
  <2>6. WaitingHasUnnamed'
    BY <2>5 DEF WaitingHasUnnamed
  <2> QED
    BY <1>2, <2>2, <2>3, <2>4, <2>6, ReportParts DEF Apply, sync, IInv, TypeOK
<1> QED
  BY <1>3, <1>6, <1>7, <1>8

LEMMA MachineTypes ==
  ASSUME IInv
  PROVE  /\ Machine /\ records \in Recs
         /\ "mode" \in Readable /\ "row_modes" \in Readable /\ "rows" \in Readable
         /\ {"applied", "running", "outcome_unknown", "read", "ended"} = Transitions
         /\ None \in Values /\ None \in MaybeId
  BY DEF IInv, TypeOK, Machine, Recs, Readable, Transitions, Values, MaybeId

LEMMA FailStep ==
  ASSUME IInv, NEW k \in Machines, NEW id \in MaybeId, NEW v \in Maybe(k), Fail(k, id, v)
  PROVE  IInv' /\ IdentityKept /\ Authorized
<1>1. /\ Names(records, k, "failed", id, v, "ERROR", records') /\ records \in Recs
      /\ "ERROR" \in RecordStates
  BY AuditNames, StatesOfRecords DEF Fail, IInv, TypeOK, Recs, Closed
<1>2. Evolves(records, records') /\ NoneExpected(records, records')
  BY <1>1, NamesStep, NamesNone
<1>3. k \in {"mode", "row_modes"} /\ k \in Readable
  BY MachineKinds
<1>4. /\ pending' = IF id = reqId[k] THEN [pending EXCEPT ![k] = None] ELSE pending
      /\ trans' = IF id = reqId[k] THEN [trans EXCEPT ![k] = "ended"] ELSE trans
      /\ UNCHANGED <<applied, reqId, genKnown, bootId, restart, sync, api>>
  BY DEF Fail
<1>5. Machine' /\ ProfileWatched' /\ Authorized
  BY <1>3, <1>4, MachineTypes DEF Machine, ProfileWatched, IInv, Authorized
<1>6. ASSUME NEW m \in Machines, pending'[m] # None, reqId'[m] = None
      PROVE  HasUnnamed(records', m, pending'[m])
  <2>1. m \in Readable
    BY MachineKinds
  <2>2. pending'[m] = pending[m] /\ reqId'[m] = reqId[m] /\ (m # k \/ id # None)
    BY <2>1, <1>3, <1>4, <1>6, MachineTypes DEF Machine
  <2>3. KeepsUnnamed(records, records', m)
    BY <1>1, <2>2, NamesOthers
  <2> QED
    BY <2>2, <2>3, <1>6, KeptUnnamed DEF IInv, WaitingHasUnnamed
<1>7. WaitingHasUnnamed'
  BY <1>6 DEF WaitingHasUnnamed
<1> QED
  BY <1>2, <1>4, <1>5, <1>7, ReportParts DEF sync, IInv, TypeOK

\* Reports about ROWS and restarts leave MODE and ROWMODES alone.
LEMMA OtherKind ==
  ASSUME IInv, Evolves(records, records'), NoneExpected(records, records'),
         \A m \in Machines : KeepsUnnamed(records, records', m),
         Machine', UNCHANGED <<trans, genKnown, bootId, restart, sync, api>>,
         \A m \in {"mode", "row_modes"} : /\ pending'[m] = pending[m] /\ reqId'[m] = reqId[m]
                                         /\ applied'[m] = applied[m]
  PROVE  IInv' /\ IdentityKept /\ Authorized
<1>1. ProfileWatched' /\ Authorized
  BY DEF IInv, ProfileWatched, Authorized
<1>2. WaitingHasUnnamed'
  BY MachineKinds, KeptUnnamed DEF IInv, WaitingHasUnnamed
<1> QED
  BY <1>1, <1>2, ReportParts DEF sync, IInv, TypeOK

LEMMA OtherNames ==
  ASSUME IInv, NEW k \in {"rows", "restart"}, NEW phase, NEW id \in MaybeId, NEW req,
         NEW s \in Open \cup Closed, Audit(k, phase, id, req, s)
  PROVE  /\ Evolves(records, records') /\ NoneExpected(records, records')
         /\ \A m \in Machines : KeepsUnnamed(records, records', m)
<1>1. Names(records, k, phase, id, req, s, records') /\ records \in Recs
  BY AuditNames, MachineTypes
<1>2. s \in RecordStates /\ s # "EXPECTED_RESTART"
  BY StatesOfRecords
<1> QED
  BY <1>1, <1>2, NamesStep, NamesNone, NamesOthers, MachineKinds

LEMMA RowsStep ==
  ASSUME IInv, NEW id \in MaybeId, NEW v \in RowCounts,
         AcceptRows(id, v) \/ ApplyRows(id, v) \/ FailRows(id)
  PROVE  IInv' /\ IdentityKept /\ Authorized
<1>1. /\ Evolves(records, records') /\ NoneExpected(records, records')
      /\ \A m \in Machines : KeepsUnnamed(records, records', m)
  BY OtherNames DEF AcceptRows, ApplyRows, FailRows, Open, Closed
<1>2. v \in Values
  BY DEF Values
<1>3. CASE AcceptRows(id, v)
  BY <1>1, <1>2, <1>3, MachineTypes, OtherKind DEF AcceptRows, Machine
<1>4. CASE ApplyRows(id, v)
  BY <1>1, <1>2, <1>4, MachineTypes, OtherKind DEF ApplyRows, Machine
<1>5. CASE FailRows(id)
  BY <1>1, <1>5, MachineTypes, OtherKind DEF FailRows, Machine, machine
<1> QED
  BY <1>3, <1>4, <1>5

LEMMA RestartReportStep ==
  ASSUME IInv, NEW id \in MaybeId, RestartAccepted(id) \/ RestartRejected(id)
  PROVE  IInv' /\ IdentityKept /\ Authorized
<1>1. /\ Evolves(records, records') /\ NoneExpected(records, records')
      /\ \A m \in Machines : KeepsUnnamed(records, records', m)
  BY OtherNames DEF RestartAccepted, RestartRejected, Open, Closed
<1>2. UNCHANGED <<machine, bootId, restart, sync, api>>
  BY DEF RestartAccepted, RestartRejected
<1> QED
  BY <1>1, <1>2, MachineTypes, OtherKind DEF machine, Machine

LEMMA EvolvesTwice ==
  ASSUME NEW recs, NEW one, NEW new, Evolves(recs, one), Evolves(one, new)
  PROVE  Evolves(recs, new)
  BY DEF Evolves

LEMMA KeepsTwice ==
  ASSUME NEW recs, NEW one, NEW new, NEW k, KeepsUnnamed(recs, one, k), KeepsUnnamed(one, new, k)
  PROVE  KeepsUnnamed(recs, new, k)
  BY DEF KeepsUnnamed, Unnamed

LEMMA SetStateKeeps ==
  ASSUME NEW recs \in Recs, NEW i \in DOMAIN recs \cup {0}, NEW s \in RecordStates, NEW m,
         i = 0 \/ recs[i].kind # m \/ s \in Open
  PROVE  KeepsUnnamed(recs, SetState(recs, i, s), m)
<1> DEFINE new == SetState(recs, i, s)
<1>1. /\ DOMAIN new = DOMAIN recs
      /\ \A j \in DOMAIN recs : /\ new[j].kind = recs[j].kind /\ new[j].value = recs[j].value
                                /\ new[j].id = recs[j].id
      /\ \A j \in DOMAIN recs : j # i => new[j] = recs[j]
      /\ i # 0 => new[i].state = s
  BY SetStateStep DEF Restates
<1>2. 0 \notin DOMAIN recs
  BY RecordAt
<1> HIDE DEF new
<1>3. KeepsUnnamed(recs, new, m)
  BY <1>1, <1>2 DEF KeepsUnnamed, Unnamed
<1> QED
  BY <1>3 DEF new

\* mark_expected_restart() behind the audit record: two records at most.
LEMMA RestartingStep ==
  ASSUME IInv, NEW id \in MaybeId, Restarting(id)
  PROVE  IInv' /\ IdentityKept /\ Authorized
<1> DEFINE i == MatchRecord(records, "restart", "restarting", id, None)
           one == [SetState(records, i, "EXPECTED_RESTART")
                     EXCEPT ![i].id = IF id = None THEN @ ELSE id]
           j == MatchRecord(one, "restart", "accepted", id, None)
<1>1. /\ records' = SetState(one, j, "EXPECTED_RESTART") /\ i # 0
      /\ restart' = [on |-> TRUE, id |-> id]
      /\ UNCHANGED <<machine, bootId, sync, api>>
  BY DEF Restarting
<1>2. /\ records \in Recs /\ "EXPECTED_RESTART" \in RecordStates
      /\ "restart" \notin Machines
  BY MachineTypes, StatesOfRecords, MachineKinds
<1>3. Names(records, "restart", "restarting", id, None, "EXPECTED_RESTART", one)
  BY <1>1 DEF Names, SetState
<1> HIDE DEF one
<1>4. Evolves(records, one)
  BY <1>2, <1>3, NamesStep
<1>5. \A m \in Machines : KeepsUnnamed(records, one, m)
  BY <1>2, <1>3, NamesOthers
<1>6. one \in Recs
  BY <1>4 DEF Evolves
<1>7. j \in DOMAIN one \cup {0} /\ (j # 0 => one[j].kind = "restart")
  BY <1>6, Matched
<1> HIDE DEF j
<1>8. Evolves(one, records')
  BY <1>1, <1>2, <1>6, <1>7, SetStateStep, RestatesEvolves
<1>9. \A m \in Machines : KeepsUnnamed(one, records', m)
  BY <1>1, <1>2, <1>6, <1>7, SetStateKeeps
<1>10. Evolves(records, records') /\ \A m \in Machines : KeepsUnnamed(records, records', m)
  BY <1>4, <1>5, <1>8, <1>9, EvolvesTwice, KeepsTwice
<1>11. /\ records' \in Seq(Record) /\ Unique(records') /\ IdentityKept /\ RequestsFit'
  BY <1>1, <1>10, EvolvedParts
<1>12. ExpectedRestartIsArmed'
  BY <1>1 DEF ExpectedRestartIsArmed
<1>13. TypeOK'
  BY <1>1, <1>11 DEF IInv, TypeOK, machine, sync
<1>14. ProfileWatched' /\ Authorized
  BY <1>1 DEF IInv, ProfileWatched, Authorized, machine
<1>15. WaitingHasUnnamed'
  BY <1>1, <1>10, KeptUnnamed DEF IInv, WaitingHasUnnamed, machine
<1> QED
  BY <1>11, <1>12, <1>13, <1>14, <1>15 DEF IInv

-----------------------------------------------------------------------------
(* Read-back                                                                *)

LEMMA ResolveStep ==
  ASSUME NEW recs \in Recs, NEW k, NEW matching \in BOOLEAN
  PROVE  /\ Evolves(recs, Resolve(recs, k, matching))
         /\ NoneExpected(recs, Resolve(recs, k, matching))
         /\ \A m : m # k => KeepsUnnamed(recs, Resolve(recs, k, matching), m)
<1> DEFINE S == {i \in DOMAIN recs : recs[i].kind = k /\ recs[i].state \in Open}
           i == Newest(S)
           s == IF matching THEN "RESYNC_CONFIRMED_APPLIED" ELSE "RESYNC_CONFIRMED_NOT_APPLIED"
<1>1. s \in RecordStates /\ s # "EXPECTED_RESTART"
  BY StatesOfRecords DEF Closed
<1>2. i \in S \cup {0}
  BY NewestIn
<1>3. i \in DOMAIN recs \cup {0} /\ (i # 0 => recs[i].kind = k)
  BY <1>2
<1>4. Resolve(recs, k, matching) = SetState(recs, i, s)
  BY DEF Resolve
<1> HIDE DEF i, s
<1>5. Evolves(recs, SetState(recs, i, s)) /\ NoneExpected(recs, SetState(recs, i, s))
  BY <1>1, <1>3, SetStateStep, RestatesEvolves, SetStateNone
<1>6. \A m : m # k => KeepsUnnamed(recs, SetState(recs, i, s), m)
  BY <1>1, <1>3, SetStateKeeps
<1> QED
  BY <1>4, <1>5, <1>6

LEMMA NoChange ==
  ASSUME NEW recs \in Recs
  PROVE  Evolves(recs, recs) /\ NoneExpected(recs, recs) /\ \A m : KeepsUnnamed(recs, recs, m)
  BY DEF Evolves, NoneExpected, KeepsUnnamed, Unnamed

LEMMA ReadBackStep ==
  ASSUME IInv, NEW k \in Kinds \cap Readable, NEW v \in Value(k), NEW id \in MaybeId,
         NEW gen \in BOOLEAN, ReadBack(k, v, id, gen)
  PROVE  IInv' /\ IdentityKept /\ Authorized
<1>1. /\ Evolves(records, records') /\ NoneExpected(records, records')
      /\ \A m : m # k => KeepsUnnamed(records, records', m)
  BY ResolveStep, NoChange, MachineTypes DEF ReadBack
<1>2. k \in {"mode", "row_modes"} <=> k \in Machines
  BY MachineKinds
<1>3. v \in Values
  BY ValueType
<1>4. /\ pending' = [pending EXCEPT ![k] = None] /\ applied' = [applied EXCEPT ![k] = v]
      /\ reqId' = IF k \in Machines THEN [reqId EXCEPT ![k] = id] ELSE reqId
      /\ trans' = IF k \in Machines THEN [trans EXCEPT ![k] = "read"] ELSE trans
      /\ genKnown' = IF k \in Machines THEN [genKnown EXCEPT ![k] = gen] ELSE genKnown
      /\ syncSeen' = syncSeen \cup {k} /\ readBoot' = readBoot \cup {k} /\ known' \in BOOLEAN
      /\ UNCHANGED <<bootId, restart, api>>
  BY DEF ReadBack, SyncWith
<1>5. Machine'
  BY <1>3, <1>4, MachineTypes DEF Machine
<1>6. ProfileWatched' /\ Authorized
  BY <1>2, <1>4, MachineTypes DEF Machine, IInv, ProfileWatched, Authorized
<1>7. WaitingHasUnnamed'
  BY <1>1, <1>4, KeptUnnamed, MachineTypes, MachineKinds DEF Machine, IInv, WaitingHasUnnamed
<1>8. syncSeen' \subseteq Readable /\ readBoot' \subseteq Readable
  BY <1>4 DEF IInv, TypeOK
<1> QED
  BY <1>1, <1>4, <1>5, <1>6, <1>7, <1>8, ReportParts

LEMMA ReadDegradedStep ==
  ASSUME IInv, ReadDegraded
  PROVE  IInv' /\ IdentityKept /\ Authorized
<1>1. /\ Evolves(records, records') /\ NoneExpected(records, records')
      /\ \A m : m # "mode" => KeepsUnnamed(records, records', m)
  BY ResolveStep, NoChange, MachineTypes DEF ReadDegraded
<1>2. /\ pending' = [pending EXCEPT !["mode"] = None] /\ trans' = [trans EXCEPT !["mode"] = "ended"]
      /\ known' = FALSE
      /\ UNCHANGED <<applied, reqId, genKnown, bootId, restart, syncSeen, readBoot, api>>
  BY DEF ReadDegraded
<1>3. Machine' /\ ProfileWatched' /\ Authorized
  BY <1>2, MachineTypes DEF Machine, IInv, ProfileWatched, Authorized
<1>4. WaitingHasUnnamed'
  BY <1>1, <1>2, KeptUnnamed, MachineTypes, MachineKinds DEF Machine, IInv, WaitingHasUnnamed
<1> QED
  BY <1>1, <1>2, <1>3, <1>4, ReportParts DEF IInv, TypeOK

LEMMA FrameStep ==
  ASSUME IInv, NEW k \in Machines, NEW v \in Value(k), FrameEstablishes(k, v)
  PROVE  IInv' /\ IdentityKept /\ Authorized
<1>1. Evolves(records, records') /\ NoneExpected(records, records')
  BY NoChange, MachineTypes DEF FrameEstablishes
<1>2. PICK id \in MaybeId, gen \in BOOLEAN :
        reqId' = [reqId EXCEPT ![k] = id] /\ genKnown' = [genKnown EXCEPT ![k] = gen]
  BY DEF FrameEstablishes, MaybeId
<1>3. /\ applied' = [applied EXCEPT ![k] = v]
      /\ trans' = [trans EXCEPT ![k] = IF v = applied[k] THEN "applied" ELSE "read"]
      /\ \A m \in {"mode", "row_modes"} : pending[m] = None
      /\ UNCHANGED <<records, pending, bootId, restart, sync, api>>
  BY DEF FrameEstablishes
<1>4. k \in {"mode", "row_modes"} /\ v \in Values
  BY MachineKinds, ValueType
<1>5. Machine'
  BY <1>2, <1>3, <1>4, MachineTypes DEF Machine
<1>6. ProfileWatched' /\ Authorized /\ WaitingHasUnnamed'
  BY <1>3, <1>4, MachineTypes, MachineKinds DEF Machine, ProfileWatched, Authorized, WaitingHasUnnamed
<1> QED
  BY <1>1, <1>3, <1>5, <1>6, ReportParts DEF sync, IInv, TypeOK

-----------------------------------------------------------------------------
(* Requests                                                                 *)

LEMMA AppendStep ==
  ASSUME NEW recs \in Recs, NEW r \in Record, r.state = "REQUESTED", r.id = None
  PROVE  LET new == Append(recs, r)
             n == Len(recs) + 1
         IN /\ Evolves(recs, new) /\ NoneExpected(recs, new)
            /\ \A m : KeepsUnnamed(recs, new, m)
            /\ n \in DOMAIN new /\ new[n] = r /\ n \in Nat
<1> DEFINE new == Append(recs, r)
           n == Len(recs) + 1
<1>1. DOMAIN recs = 1 .. Len(recs) /\ Len(recs) \in Nat
  BY LenProperties DEF Recs
<1>2. /\ new \in Seq(Record) /\ Len(new) = Len(recs) + 1
      /\ \A i \in 1 .. Len(recs) : new[i] = recs[i]
      /\ new[n] = r
  BY AppendProperties DEF Recs
<1>3. DOMAIN new = 1 .. Len(recs) + 1
  BY <1>2, LenProperties
<1> HIDE DEF new
<1>4. /\ DOMAIN new = DOMAIN recs \cup {n} /\ n \notin DOMAIN recs /\ n \in Nat
      /\ \A i \in DOMAIN recs : new[i] = recs[i]
  BY <1>1, <1>2, <1>3
<1> HIDE DEF n
<1>5. Unique(recs) => Unique(new)
  BY <1>2, <1>4 DEF Unique
<1>6. Evolves(recs, new) /\ NoneExpected(recs, new) /\ \A m : KeepsUnnamed(recs, new, m)
  BY <1>2, <1>4, <1>5 DEF Evolves, Recs, NoneExpected, KeepsUnnamed, Unnamed
<1>7. n \in DOMAIN new /\ new[n] = r /\ n \in Nat
  BY <1>2, <1>4
<1> QED
  BY <1>6, <1>7 DEF new, n

ApiType == [pc: {"idle", "checked", "sending"}, kind: Kinds \cup {"restart"},
            value: Values, record: Nat]

LEMMA ApiTypes ==
  ASSUME IInv
  PROVE  api \in [Api -> ApiType] /\ IdleApi \in ApiType /\ IdleApi.pc = "idle"
  BY DEF IInv, TypeOK, ApiType, IdleApi, Values

\* What a step of a request leaves alone.
LEMMA RequestParts ==
  ASSUME IInv, Evolves(records, records'), NoneExpected(records, records'), Machine',
         UNCHANGED <<bootId, restart, sync>>, api' \in [Api -> ApiType], RequestsFit',
         ProfileWatched', WaitingHasUnnamed'
  PROVE  IInv' /\ IdentityKept
<1>1. /\ records' \in Seq(Record) /\ Unique(records') /\ IdentityKept
  BY EvolvedParts
<1>2. ExpectedRestartIsArmed'
  BY ArmedKept
<1>3. TypeOK'
  BY <1>1 DEF IInv, TypeOK, Machine, sync, ApiType
<1> QED
  BY <1>1, <1>2, <1>3 DEF IInv

LEMMA CheckStep ==
  ASSUME IInv, NEW a \in Api, RequestCheck(a)
  PROVE  IInv' /\ IdentityKept /\ Authorized
<1>1. PICK k \in Kinds : \E v \in Value(k) :
        api' = [api EXCEPT ![a] = [pc |-> "checked", kind |-> k, value |-> v, record |-> 0]]
  BY DEF RequestCheck
<1>2. PICK v \in Value(k) :
        api' = [api EXCEPT ![a] = [pc |-> "checked", kind |-> k, value |-> v, record |-> 0]]
  BY <1>1
<1>3. UNCHANGED <<records, machine, bootId, restart, sync>>
  BY DEF RequestCheck
<1> DEFINE x == [pc |-> "checked", kind |-> k, value |-> v, record |-> 0]
<1>4. x \in ApiType /\ x.pc = "checked" /\ x.kind \in Kinds
  BY ValueType DEF ApiType
<1>5. api' = [api EXCEPT ![a] = x]
  BY <1>2
<1> HIDE DEF x
<1>6. api' \in [Api -> ApiType]
  BY <1>4, <1>5, ApiTypes
<1>7. RequestsFit'
  BY <1>3, <1>4, <1>5, ApiTypes DEF IInv, RequestsFit
<1>8. Machine' /\ ProfileWatched' /\ Authorized /\ WaitingHasUnnamed'
  BY <1>3, MachineTypes DEF machine, Machine, IInv, ProfileWatched, Authorized, WaitingHasUnnamed
<1>9. Evolves(records, records') /\ NoneExpected(records, records')
  BY <1>3, NoChange, MachineTypes
<1> QED
  BY <1>3, <1>6, <1>7, <1>8, <1>9, RequestParts

LEMMA BeginStep ==
  ASSUME IInv, NEW a \in Api, RequestBegin(a)
  PROVE  IInv' /\ IdentityKept /\ Authorized
<1> DEFINE k == api[a].kind
           v == api[a].value
           r == [kind |-> k, value |-> v, state |-> "REQUESTED", id |-> None]
           n == Len(records) + 1
<1>1. api[a] \in ApiType /\ api[a].pc = "checked" /\ k \in Kinds
  BY ApiTypes DEF RequestBegin, IInv, RequestsFit
<1>2. v \in Values
  BY <1>1 DEF ApiType
<1>3. /\ r \in Record /\ r.kind = k /\ r.value = v /\ r.state = "REQUESTED" /\ r.id = None
  BY <1>1, <1>2, StatesOfRecords DEF Record, Open, MaybeId
<1>4. /\ records' = Append(records, r)
      /\ api' = [api EXCEPT ![a].pc = "sending", ![a].record = n]
      /\ pending' = IF k \in Readable THEN [pending EXCEPT ![k] = v] ELSE pending
      /\ reqId' = IF k \in Readable THEN [reqId EXCEPT ![k] = None] ELSE reqId
      /\ trans' = IF k \in Machines THEN [trans EXCEPT ![k] = "running"] ELSE trans
      /\ UNCHANGED <<applied, genKnown, bootId, restart, sync>>
  BY DEF RequestBegin
<1> HIDE DEF r
<1>5. /\ Evolves(records, records') /\ NoneExpected(records, records')
      /\ \A m : KeepsUnnamed(records, records', m)
      /\ n \in DOMAIN records' /\ records'[n] = r /\ n \in Nat
  BY <1>3, <1>4, AppendStep, MachineTypes
<1> HIDE DEF n
<1> DEFINE x == [api[a] EXCEPT !.pc = "sending", !.record = n]
<1>6. /\ x \in ApiType /\ x.pc = "sending" /\ x.kind = k /\ x.record = n
  BY <1>1, <1>5 DEF ApiType
<1>7. api' = [api EXCEPT ![a] = x]
  BY <1>4, ApiTypes
<1> HIDE DEF x, k, v
<1>8. api' \in [Api -> ApiType]
  BY <1>6, <1>7, ApiTypes
<1>9. RequestsFit'
  <2> SUFFICES ASSUME NEW b \in Api
               PROVE  /\ api'[b].pc # "idle" => api'[b].kind \in Kinds
                      /\ api'[b].pc = "sending" =>
                           /\ api'[b].record \in DOMAIN records'
                           /\ records'[api'[b].record].kind = api'[b].kind
    BY DEF RequestsFit
  <2>1. CASE b = a
    BY <2>1, <1>1, <1>3, <1>5, <1>6, <1>7, ApiTypes
  <2>2. CASE b # a
    BY <2>2, <1>5, <1>7, ApiTypes DEF IInv, RequestsFit, Evolves
  <2> QED BY <2>1, <2>2
<1>10. k \in {"mode", "row_modes"} <=> k \in Machines
  BY <1>1, MachineKinds
<1>11. Machine'
  BY <1>2, <1>4, MachineTypes DEF Machine
<1>12. ProfileWatched' /\ Authorized
  BY <1>4, <1>10, MachineTypes DEF Machine, IInv, ProfileWatched, Authorized, Watched
<1>13. ASSUME NEW m \in Machines, pending'[m] # None, reqId'[m] = None
       PROVE  HasUnnamed(records', m, pending'[m])
  <2>1. CASE m = k
    <3>1. pending'[m] = v
      BY <2>1, <1>4, MachineTypes, MachineKinds DEF Machine
    <3> QED
      BY <3>1, <2>1, <1>3, <1>5 DEF HasUnnamed, Unnamed, Open
  <2>2. CASE m # k
    <3>1. pending'[m] = pending[m] /\ reqId'[m] = reqId[m]
      BY <2>2, <1>4, MachineTypes, MachineKinds DEF Machine
    <3> QED
      BY <3>1, <1>5, <1>13, KeptUnnamed DEF IInv, WaitingHasUnnamed
  <2> QED BY <2>1, <2>2
<1>14. WaitingHasUnnamed'
  BY <1>13 DEF WaitingHasUnnamed
<1> QED
  BY <1>4, <1>5, <1>8, <1>9, <1>11, <1>12, <1>14, RequestParts

\* The sender has returned: the thread is idle again.
LEMMA IdleAgain ==
  ASSUME IInv, NEW a \in Api, api' = [api EXCEPT ![a] = IdleApi], Evolves(records, records')
  PROVE  api' \in [Api -> ApiType] /\ RequestsFit'
<1>1. api' \in [Api -> ApiType]
  BY ApiTypes
<1>2. RequestsFit'
  BY ApiTypes DEF IInv, RequestsFit, Evolves
<1> QED
  BY <1>1, <1>2

LEMMA SentStep ==
  ASSUME IInv, NEW a \in Api, Sent(a) \/ SendAmbiguous(a) \/ NotSent(a)
  PROVE  IInv' /\ IdentityKept /\ Authorized
<1> DEFINE k == api[a].kind
           i == api[a].record
<1>1. /\ api[a].pc = "sending" /\ api' = [api EXCEPT ![a] = IdleApi]
      /\ UNCHANGED <<bootId, restart, sync, applied, genKnown>>
  BY DEF Sent, SendAmbiguous, NotSent, machine
<1>2. i \in DOMAIN records /\ records[i].kind = k /\ k \in Kinds
  BY <1>1 DEF IInv, RequestsFit
<1>3. k \in {"mode", "row_modes"} <=> k \in Machines
  BY <1>2, MachineKinds
<1> HIDE DEF k, i
<1>4. CASE Sent(a)
  <2>1. UNCHANGED <<records, machine>>
    BY <1>4 DEF Sent
  <2>2. Evolves(records, records') /\ NoneExpected(records, records')
    BY <2>1, NoChange, MachineTypes
  <2>3. Machine' /\ ProfileWatched' /\ Authorized /\ WaitingHasUnnamed'
    BY <2>1, MachineTypes DEF machine, Machine, IInv, ProfileWatched, Authorized, WaitingHasUnnamed
  <2> QED
    BY <1>1, <2>2, <2>3, IdleAgain, RequestParts
<1>5. CASE SendAmbiguous(a)
  <2>1. /\ records' = SetState(records, i, "OUTCOME_UNKNOWN")
        /\ trans' = IF k \in Machines THEN [trans EXCEPT ![k] = "outcome_unknown"] ELSE trans
        /\ UNCHANGED <<pending, reqId>>
    BY <1>5 DEF SendAmbiguous, k, i
  <2>2. "OUTCOME_UNKNOWN" \in RecordStates /\ "OUTCOME_UNKNOWN" \in Open
    BY StatesOfRecords DEF Open
  <2>3. /\ Evolves(records, records') /\ NoneExpected(records, records')
        /\ \A m \in Machines : KeepsUnnamed(records, records', m)
    BY <1>2, <2>1, <2>2, SetStateStep, SetStateKeeps, SetStateNone, RestatesEvolves, MachineTypes
  <2>4. Machine' /\ ProfileWatched' /\ Authorized
    BY <1>1, <2>1, MachineTypes DEF Machine, IInv, ProfileWatched, Authorized, Watched
  <2>5. WaitingHasUnnamed'
    BY <2>1, <2>3, KeptUnnamed DEF IInv, WaitingHasUnnamed
  <2> QED
    BY <1>1, <2>3, <2>4, <2>5, IdleAgain, RequestParts
<1>6. CASE NotSent(a)
  <2>1. /\ records' = SetState(records, i, "NOT_SENT")
        /\ trans' = IF k \in Machines THEN [trans EXCEPT ![k] = "ended"] ELSE trans
        /\ pending' = IF k \in Readable THEN [pending EXCEPT ![k] = None] ELSE pending
        /\ reqId' = IF k = "rows" THEN [reqId EXCEPT ![k] = None] ELSE reqId
    BY <1>6 DEF NotSent, k, i
  <2>2. "NOT_SENT" \in RecordStates /\ "NOT_SENT" # "EXPECTED_RESTART"
    BY StatesOfRecords DEF Closed
  <2>3. /\ Evolves(records, records') /\ NoneExpected(records, records')
        /\ \A m \in Machines : m # k => KeepsUnnamed(records, records', m)
    BY <1>2, <2>1, <2>2, SetStateStep, SetStateKeeps, SetStateNone, RestatesEvolves, MachineTypes
  <2>4. Machine' /\ ProfileWatched' /\ Authorized
    BY <1>1, <1>3, <2>1, MachineTypes DEF Machine, IInv, ProfileWatched, Authorized
  <2>5. ASSUME NEW m \in Machines, pending'[m] # None, reqId'[m] = None
        PROVE  HasUnnamed(records', m, pending'[m])
    <3>1. m # k /\ pending'[m] = pending[m] /\ reqId'[m] = reqId[m]
      BY <2>1, <2>5, MachineTypes, MachineKinds DEF Machine
    <3> QED
      BY <3>1, <2>3, <2>5, KeptUnnamed DEF IInv, WaitingHasUnnamed
  <2>6. WaitingHasUnnamed'
    BY <2>5 DEF WaitingHasUnnamed
  <2> QED
    BY <1>1, <2>3, <2>4, <2>6, IdleAgain, RequestParts
<1> QED
  BY <1>4, <1>5, <1>6

-----------------------------------------------------------------------------
(* Lifecycle                                                                *)

\* All records restated at once.
LEMMA RestateAll ==
  ASSUME NEW recs \in Recs, NEW new \in [DOMAIN recs -> Record],
         \A i \in DOMAIN recs : \E s \in RecordStates : new[i] = [recs[i] EXCEPT !.state = s]
  PROVE  Restates(recs, new)
<1>1. \A i \in DOMAIN recs : new[i] \in Record /\ new[i].kind = recs[i].kind
                             /\ new[i].value = recs[i].value /\ new[i].id = recs[i].id
  <2> SUFFICES ASSUME NEW i \in DOMAIN recs
               PROVE  new[i] \in Record /\ new[i].kind = recs[i].kind
                      /\ new[i].value = recs[i].value /\ new[i].id = recs[i].id
    OBVIOUS
  <2>1. PICK s \in RecordStates : new[i] = [recs[i] EXCEPT !.state = s]
    OBVIOUS
  <2>2. recs[i] \in Record
    BY RecordAt
  <2> QED BY <2>1, <2>2 DEF Record
<1>2. new \in Recs /\ DOMAIN new = DOMAIN recs
  BY PointwiseRecs
<1> QED
  BY <1>1, <1>2 DEF Restates

LEMMA SameState ==
  ASSUME NEW recs \in Recs, NEW i \in DOMAIN recs
  PROVE  recs[i] = [recs[i] EXCEPT !.state = recs[i].state] /\ recs[i].state \in RecordStates
<1>1. recs[i] \in Record
  BY RecordAt
<1> QED
  BY <1>1 DEF Record

\* Some records become unknown, the others stay as they are.
LEMMA UnknownStep ==
  ASSUME NEW recs \in Recs, NEW T,
         NEW new, new = [i \in DOMAIN recs |->
           IF i \in T THEN [recs[i] EXCEPT !.state = "OUTCOME_UNKNOWN"] ELSE recs[i]]
  PROVE  /\ Evolves(recs, new) /\ NoneExpected(recs, new)
         /\ \A m : KeepsUnnamed(recs, new, m)
<1>1. \A i \in DOMAIN recs : new[i] =
           IF i \in T THEN [recs[i] EXCEPT !.state = "OUTCOME_UNKNOWN"] ELSE recs[i]
  OBVIOUS
<1>2. "OUTCOME_UNKNOWN" \in RecordStates /\ "OUTCOME_UNKNOWN" \in Open
  BY StatesOfRecords DEF Open
<1>3. \A i \in DOMAIN recs : \E s \in RecordStates : new[i] = [recs[i] EXCEPT !.state = s]
  BY <1>1, <1>2, SameState
<1>4. Restates(recs, new)
  <2>1. \A i \in DOMAIN recs : recs[i] \in Record
    BY RecordAt
  <2>2. new \in [DOMAIN recs -> Record]
    BY <2>1, <1>2 DEF Record
  <2> QED
    BY <2>2, <1>3, RestateAll
<1>5. \A i \in DOMAIN recs : new[i].state = "OUTCOME_UNKNOWN" \/ new[i] = recs[i]
  <2> SUFFICES ASSUME NEW i \in DOMAIN recs
               PROVE  new[i].state = "OUTCOME_UNKNOWN" \/ new[i] = recs[i]
    OBVIOUS
  <2>1. recs[i] \in Record
    BY RecordAt
  <2> QED BY <1>1, <2>1 DEF Record
<1>6. NoneExpected(recs, new) /\ \A m : KeepsUnnamed(recs, new, m)
  BY <1>2, <1>4, <1>5 DEF Restates, NoneExpected, KeepsUnnamed, Unnamed
<1> QED
  BY <1>4, <1>6, RestatesEvolves

LEMMA NewConnectionStep ==
  ASSUME IInv, NewConnection
  PROVE  IInv' /\ IdentityKept /\ Authorized
<1> DEFINE T == {i \in DOMAIN records : records[i].state \in {"REQUESTED", "ACCEPTED"}}
<1>1. records' = [i \in DOMAIN records |->
        IF i \in T THEN [records[i] EXCEPT !.state = "OUTCOME_UNKNOWN"] ELSE records[i]]
  BY DEF NewConnection
<1> HIDE DEF T
<1>2. /\ Evolves(records, records') /\ NoneExpected(records, records')
      /\ \A m : KeepsUnnamed(records, records', m)
  BY <1>1, UnknownStep, MachineTypes
<1>3. /\ trans' = [m \in DOMAIN trans |-> IF pending[m] # None THEN "outcome_unknown" ELSE trans[m]]
      /\ known' = FALSE /\ syncSeen' = {} /\ readBoot' = {}
      /\ UNCHANGED <<applied, pending, reqId, genKnown, bootId, restart, api>>
  BY DEF NewConnection
<1>4. Machine' /\ ProfileWatched' /\ Authorized
  BY <1>3, MachineTypes DEF Machine, IInv, ProfileWatched, Authorized, Watched
<1>5. WaitingHasUnnamed'
  BY <1>2, <1>3, KeptUnnamed DEF IInv, WaitingHasUnnamed
<1> QED
  BY <1>2, <1>3, <1>4, <1>5, ReportParts

LEMMA TimeoutStep ==
  ASSUME IInv, NEW n \in 0 .. Len(records), NEW late \in SUBSET Machines, TimeoutOld(n, late)
  PROVE  IInv' /\ IdentityKept /\ Authorized
<1> DEFINE T == {i \in 1 .. n : records[i].state \in {"REQUESTED", "ACCEPTED"}}
           X == {m \in {"mode", "row_modes"} : \/ /\ m \in late /\ pending[m] # None
                                                 /\ trans[m] = "running"
                                              \/ \E i \in T : /\ records[i].kind = m
                                                              /\ records[i].value = pending[m]}
<1>1. /\ records' = [i \in DOMAIN records |->
           IF i \in T THEN [records[i] EXCEPT !.state = "OUTCOME_UNKNOWN"] ELSE records[i]]
      /\ trans' = [m \in DOMAIN trans |-> IF m \in X THEN "outcome_unknown" ELSE trans[m]]
      /\ UNCHANGED <<applied, pending, reqId, genKnown, bootId, restart, sync, api>>
  BY DEF TimeoutOld
<1> HIDE DEF T, X
<1>2. /\ Evolves(records, records') /\ NoneExpected(records, records')
      /\ \A m : KeepsUnnamed(records, records', m)
  BY <1>1, UnknownStep, MachineTypes
<1>3. Machine' /\ ProfileWatched' /\ Authorized
  BY <1>1, MachineTypes DEF Machine, IInv, ProfileWatched, Authorized, Watched
<1>4. WaitingHasUnnamed'
  BY <1>1, <1>2, KeptUnnamed DEF IInv, WaitingHasUnnamed
<1> QED
  BY <1>1, <1>2, <1>3, <1>4, ReportParts DEF sync, IInv, TypeOK

\* A changed boot closes every record that was open or announced a restart.
LEMMA SurvivesType ==
  ASSUME NEW r \in Record
  PROVE  SurvivesAs(r) \in RecordStates /\ SurvivesAs(r) # "EXPECTED_RESTART"
<1>1. r.state \in RecordStates
  BY DEF Record
<1> QED
  BY <1>1, StatesOfRecords DEF SurvivesAs, Closed

LEMMA BootStep ==
  ASSUME IInv, NEW b \in Boots, ObserveBoot(b)
  PROVE  IInv' /\ IdentityKept /\ Authorized
<1>1. bootId' = b /\ known' = FALSE /\ UNCHANGED <<applied, syncSeen, api>>
  BY DEF ObserveBoot
<1>2. CASE bootId # None /\ bootId # b
  <2>1. /\ records' = [i \in DOMAIN records |->
                         [records[i] EXCEPT !.state = SurvivesAs(records[i])]]
        /\ pending' = [k \in Readable |-> None] /\ reqId' = [k \in Readable |-> None]
        /\ trans' = [m \in DOMAIN trans |-> "ended"]
        /\ genKnown' = [m \in DOMAIN genKnown |-> FALSE]
        /\ restart' = NotExpected /\ readBoot' = {}
    BY <1>2 DEF ObserveBoot
  <2>2. \A i \in DOMAIN records :
          records'[i] = [records[i] EXCEPT !.state = SurvivesAs(records[i])]
    BY <2>1
  <2>3. \A i \in DOMAIN records : records[i] \in Record
    BY MachineTypes, RecordAt
  <2>4. \A i \in DOMAIN records :
          \E s \in RecordStates : records'[i] = [records[i] EXCEPT !.state = s]
    BY <2>2, <2>3, SurvivesType
  <2>5. Restates(records, records')
    <3>1. \A i \in DOMAIN records :
            [records[i] EXCEPT !.state = SurvivesAs(records[i])] \in Record
      BY <2>3, SurvivesType DEF Record
    <3>2. records' \in [DOMAIN records -> Record]
      BY <2>1, <3>1
    <3> QED
      BY <3>2, <2>4, RestateAll, MachineTypes
  <2>6. Evolves(records, records')
    BY <2>5, RestatesEvolves, MachineTypes
  <2>7. ExpectedRestartIsArmed'
    <3>1. \A i \in DOMAIN records : records'[i].state = SurvivesAs(records[i])
      <4> SUFFICES ASSUME NEW i \in DOMAIN records
                   PROVE  records'[i].state = SurvivesAs(records[i])
        OBVIOUS
      <4> QED BY <2>2, <2>3 DEF Record
    <3> QED
      BY <3>1, <2>3, <2>5, SurvivesType DEF Restates, ExpectedRestartIsArmed
  <2>8. /\ records' \in Seq(Record) /\ Unique(records') /\ IdentityKept /\ RequestsFit'
    BY <1>1, <2>6, EvolvedParts
  <2>9. TypeOK'
    BY <1>1, <2>1, <2>8, MachineTypes DEF IInv, TypeOK, Machine, NotExpected
  <2>10. ProfileWatched' /\ Authorized /\ WaitingHasUnnamed'
    BY <1>1, <2>1, MachineKinds, MachineTypes DEF ProfileWatched, Authorized, WaitingHasUnnamed
  <2> QED
    BY <2>7, <2>8, <2>9, <2>10 DEF IInv
<1>3. CASE ~(bootId # None /\ bootId # b)
  <2>1. UNCHANGED <<records, pending, reqId, trans, genKnown, restart, readBoot>>
    BY <1>3 DEF ObserveBoot
  <2> QED
    BY <1>1, <2>1 DEF IInv, TypeOK, RequestsFit, Unique, ExpectedRestartIsArmed, ProfileWatched,
                      WaitingHasUnnamed, HasUnnamed, Unnamed, IdentityKept, Authorized
<1> QED
  BY <1>2, <1>3

-----------------------------------------------------------------------------
(* The theorems                                                             *)

LEMMA InitInv == Init => IInv
<1> SUFFICES ASSUME Init PROVE IInv
  OBVIOUS
<1>1. TypeOK
  <2>1. records \in Seq(Record)
    BY DEF Init
  <2>2. /\ applied \in [Readable -> Values] /\ pending \in [Readable -> Values]
        /\ reqId \in [Readable -> MaybeId]
    BY DefaultAssumption DEF Init, Readable, Values, Profiles, MaybeId
  <2>3. /\ trans \in [{"mode", "row_modes"} -> Transitions]
        /\ genKnown \in [{"mode", "row_modes"} -> BOOLEAN]
    BY DEF Init, Transitions
  <2>4. /\ bootId \in Boots \cup {None} /\ restart \in [on: BOOLEAN, id: MaybeId]
        /\ syncSeen \subseteq Readable /\ readBoot \subseteq Readable /\ known \in BOOLEAN
    BY DEF Init, MaybeId, NotExpected
  <2>5. api \in [Api -> [pc: {"idle", "checked", "sending"}, kind: Kinds \cup {"restart"},
                         value: Values, record: Nat]]
    BY DEF Init, Values, IdleApi
  <2> QED
    BY <2>1, <2>2, <2>3, <2>4, <2>5 DEF TypeOK
<1>2. RequestsFit
  BY DEF Init, RequestsFit, IdleApi
<1>3. Unique(records) /\ ExpectedRestartIsArmed
  BY DEF Init, Unique, ExpectedRestartIsArmed
<1>4. ProfileWatched /\ WaitingHasUnnamed
  BY MachineKinds DEF Init, ProfileWatched, WaitingHasUnnamed, Readable
<1> QED
  BY <1>1, <1>2, <1>3, <1>4 DEF IInv

LEMMA StepInv ==
  ASSUME IInv, [Next]_vars
  PROVE  IInv' /\ IdentityKept /\ Authorized
<1>1. CASE Request
  BY <1>1, CheckStep, BeginStep, SentStep DEF Request
<1>2. CASE Report
  <2>1. ASSUME NEW k \in Machines, NEW id \in MaybeId,
               \/ \E old \in Maybe(k), req \in Value(k) : Accept(k, id, old, req)
               \/ \E v \in Value(k) : Apply(k, id, v)
               \/ \E v \in Maybe(k) : Fail(k, id, v)
        PROVE  IInv' /\ IdentityKept /\ Authorized
    BY <2>1, AcceptStep, ApplyStep, FailStep
  <2>2. ASSUME NEW id \in MaybeId,
               \/ \E v \in RowCounts : AcceptRows(id, v) \/ ApplyRows(id, v)
               \/ FailRows(id) \/ RestartAccepted(id) \/ Restarting(id) \/ RestartRejected(id)
        PROVE  IInv' /\ IdentityKept /\ Authorized
    BY <2>2, RowsStep, RestartReportStep, RestartingStep, DefaultAssumption
  <2> QED
    BY <1>2, <2>1, <2>2, ReadBackStep, ReadDegradedStep, FrameStep DEF Report
<1>3. CASE Lifecycle
  BY <1>3, NewConnectionStep, BootStep, TimeoutStep DEF Lifecycle
<1>4. CASE UNCHANGED vars
  BY <1>4 DEF vars, machine, sync, IInv, TypeOK, RequestsFit, Unique, ExpectedRestartIsArmed,
              ProfileWatched, WaitingHasUnnamed, HasUnnamed, Unnamed, IdentityKept, Authorized
<1> QED
  BY <1>1, <1>2, <1>3, <1>4 DEF Next

LEMMA InvariantHolds == Spec => []IInv
<1>1. IInv /\ [Next]_vars => IInv'
  BY StepInv
<1> QED
  BY <1>1, InitInv, PTL DEF Spec

LEMMA InvImplies == IInv => TypeOK /\ RecordIdsUnique /\ ExpectedRestartIsArmed
                            /\ ProfileWatched /\ WaitingHasOpenRecord
<1> SUFFICES ASSUME IInv
             PROVE  RecordIdsUnique /\ WaitingHasOpenRecord
  BY DEF IInv
<1>1. RecordIdsUnique
  BY DEF IInv, Unique, RecordIdsUnique
<1>2. WaitingHasOpenRecord
  BY DEF IInv, WaitingHasUnnamed, HasUnnamed, Unnamed, WaitingHasOpenRecord
<1> QED
  BY <1>1, <1>2

\* CommandService is type correct, whatever the device reports.
THEOREM TypeCorrect == Spec => []TypeOK
  BY InvImplies, InvariantHolds, PTL

\* A firmware request ID names at most one record of a kind, for any number of
\* requests and any order of reports: handle() looks for the identity first.
THEOREM IdentitiesUnique == Spec => []RecordIdsUnique
  BY InvImplies, InvariantHolds, PTL

\* A restart that was announced stays announced until a new boot is observed:
\* observe_boot() closes each record it was announced for.
THEOREM RestartsStayArmed == Spec => []ExpectedRestartIsArmed
  BY InvImplies, InvariantHolds, PTL

\* A pending row profile is watched by timeout_old() or shown as unknown, whatever
\* MODE transactions complete meanwhile.
THEOREM PendingIsWatched == Spec => []ProfileWatched
  BY InvImplies, InvariantHolds, PTL

\* While a request waits for its first answer, an open record of its kind and value
\* exists: only an answer under the record's own identity, or none, closes it.
THEOREM WaitersHaveRecords == Spec => []WaitingHasOpenRecord
  BY InvImplies, InvariantHolds, PTL

\* An identity that a record was given by _match_record() is never replaced.
THEOREM IdentitiesStay == Spec => RecordIdentityKept
<1>1. IInv /\ [Next]_vars => [IdentityKept]_vars
  BY StepInv
<1>2. [IdentityKept]_vars =>
        [\A i \in DOMAIN records : records[i].id # None => records'[i].id = records[i].id]_vars
  BY DEF IdentityKept
<1> QED
  BY <1>1, <1>2, InvariantHolds, PTL DEF Spec, RecordIdentityKept

\* What is shown as applied changes only to what was pending under a known identity,
\* or to what was read back: no acceptance, error or time-out changes it.
THEOREM AppliedIsAuthorized == Spec => AppliedNeedsAuthority
<1>1. IInv /\ [Next]_vars => [Authorized]_vars
  BY StepInv
<1>2. [Authorized]_vars =>
        [\A k \in {"mode", "row_modes"} :
           applied'[k] # applied[k] =>
             \/ \E m \in {"mode", "row_modes"} : AppliedFor(k, m)
             \/ trans'[k] = "read"]_vars
  BY DEF Authorized
<1> QED
  BY <1>1, <1>2, InvariantHolds, PTL DEF Spec, AppliedNeedsAuthority
===============================================================================
