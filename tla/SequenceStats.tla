---------------------------- MODULE SequenceStats ----------------------------
(***************************************************************************)
(* Integrity accounting of sequence numbers:                               *)
(* src/sensorarray_app/store/statistics_store.py, fed as app/runtime.py    *)
(* feeds it.                                                               *)
(*                                                                         *)
(* The device (external) numbers every physical frame, also those that it  *)
(* does not send, and reports what it did with them: SF50 lines about a    *)
(* window of frames, also while the window is still growing, and PERF      *)
(* replies with totals since boot.  A report is queued behind other output *)
(* and may arrive late; one that is lost is one that is not sent.  The     *)
(* host sees the gaps in the numbers of the frames that arrive and         *)
(* explains them by the reports.  What really became of each frame is a    *)
(* history variable that no operation reads.                               *)
(*                                                                         *)
(* One source and one boot, hence one sequence key.  sequenceGaps and      *)
(* byReason move with unknownSequenceGap and are left out, and so are the  *)
(* counters of PERF other than usbDrop.                                    *)
(***************************************************************************)
EXTENDS Integers, Sequences, FiniteSets

CONSTANTS
  WindowSize,  \* frames of an SF50 window (50 in the firmware)
  Every,       \* data_every: in DEBUG the device sends one frame in so many
  MaxSeq,      \* bound: physical frames
  MaxPerf,     \* bound: PERF replies
  MaxLosses,   \* bound: frames dropped by the firmware or lost on the way
  MaxEvents,   \* bound: links that break and changes of the output policy
  None         \* Python's None

ASSUME SizesAssumption == WindowSize \in Nat \ {0} /\ Every \in Nat \ {0, 1}
ASSUME BoundsAssumption == {MaxSeq, MaxPerf, MaxLosses, MaxEvents} \subseteq Nat
ASSUME NoneAssumption == None \notin Int \cup [total : Nat, seq : Nat]

VARIABLES
  \* the device and the way to the host
  fate,    \* history: what became of each physical frame
  link,    \* the link is up
  debug,   \* output policy: DEBUG, or FULL
  diag,    \* the report under way, or None
  perfs,   \* PERF replies sent
  events,  \* budget used
  \* StatisticsStore
  last,    \* _lastSequences
  gaps,    \* _pendingSequenceGaps: a sequence of gaps, each a sequence of segments
  windows, \* _firmwareOutputWindows, by start
  report,  \* _firmwarePerformanceReports
  drop,    \* _firmwareDropReports of usbDrop
  count,   \* the counters
  witness  \* history: kinds of non-fresh evidence used, and epochs begun

device == <<fate, link, debug, diag, perfs, events>>
store == <<last, gaps, windows, report, drop, count>>
vars == <<device, store, witness>>

Seq0 == Len(fate)
Frames(f) == {n \in 1 .. Seq0 : fate[n] = f}

ZeroCounts ==
  [observed |-> 0, intentional |-> 0, unknown |-> 0, suppressed |-> 0, attributed |-> 0,
   windowDrops |-> 0, counterDrops |-> 0]

Init ==
  /\ fate = <<>> /\ link = TRUE /\ debug = FALSE
  /\ diag = None /\ perfs = 0 /\ events = 0
  /\ last = None /\ gaps = <<>> /\ windows = <<>> /\ report = None /\ drop = None
  /\ count = ZeroCounts /\ witness = {}

AtMost(a, b) == IF a <= b THEN a ELSE b
AtLeast(a, b) == IF a >= b THEN a ELSE b

-----------------------------------------------------------------------------
(* _CandidateSegment and _PendingSequenceGap: numbers from start to end    *)
(* that are congruent to phase modulo step.                                *)

Segment(start, end, step, phase) == [start |-> start, end |-> end, step |-> step, phase |-> phase]

\* The first candidate at or behind n.
FirstFrom(s, n) == n + ((s.phase - n) % s.step)

Candidates(s, lower, upper) ==
  LET start == AtLeast(s.start, lower)
      end == AtMost(s.end, upper)
      first == FirstFrom(s, start)
  IN IF first > end THEN 0 ELSE ((end - first) \div s.step) + 1

Size(s) == Candidates(s, s.start, s.end)

\* A part of a segment, unless it has no candidate.
Piece(s) == IF Size(s) > 0 THEN <<s>> ELSE <<>>

\* Seeded fault for the checks: a frame that stays open when it is explained.
RemainderKeepingLast(s, first, end) ==
  Piece([s EXCEPT !.end = first - 1]) \o Piece([s EXCEPT !.start = end])

\* What is left of a segment around the numbers from first to end.
Remainder(s, first, end) == Piece([s EXCEPT !.end = first - 1]) \o Piece([s EXCEPT !.start = end + 1])

\* Takes up to limit candidates out of [lower, upper], the smallest first.
ConsumeSegment(s, lower, upper, limit) ==
  LET amount == AtMost(limit, Candidates(s, lower, upper))
      first == FirstFrom(s, AtLeast(s.start, lower))
  IN IF amount = 0 THEN [taken |-> 0, rest |-> <<s>>]
     ELSE [taken |-> amount, rest |-> Remainder(s, first, first + (amount - 1) * s.step)]

\* Over the segments of a gap, and over gaps: emptied gaps are pruned.
Nothing == [taken |-> 0, rest |-> <<>>]
Then(p, c) == [taken |-> p.taken + c.taken, rest |-> p.rest \o c.rest]

GapSteps(g, lower, upper, limit) ==
  LET f[i \in 0 .. Len(g)] ==
        IF i = 0 THEN Nothing
        ELSE Then(f[i - 1], ConsumeSegment(g[i], lower, upper, limit - f[i - 1].taken))
  IN f

ConsumeGap(g, lower, upper, limit) == GapSteps(g, lower, upper, limit)[Len(g)]

Pruned(c) == [taken |-> c.taken, rest |-> IF c.rest = <<>> THEN <<>> ELSE <<c.rest>>]

GapsSteps(gs, lower, upper, limit) ==
  LET f[i \in 0 .. Len(gs)] ==
        IF i = 0 THEN Nothing
        ELSE Then(f[i - 1], Pruned(ConsumeGap(gs[i], lower, upper, limit - f[i - 1].taken)))
  IN f

ConsumeGaps(gs, lower, upper, limit) == GapsSteps(gs, lower, upper, limit)[Len(gs)]

-----------------------------------------------------------------------------
(* The operations of the store, on a record of the parts they change.      *)

\* _reclassify: frames that the firmware did not send because they were not fresh.
Suppressed(c, n) == [c EXCEPT !.unknown = AtLeast(0, @ - n), !.suppressed = @ + n]
\* _attribute_firmware_drop
Attributed(c, n) == [c EXCEPT !.unknown = AtLeast(0, @ - n), !.attributed = @ + n]

\* Seeded faults for the checks: both reports of a drop counted, no look back at
\* the windows, window reports that are added up.
BothDrops(c) == c.windowDrops + c.counterDrops
NoLookBack(g, ws) == [gap |-> g, taken |-> 0, windows |-> ws]
AddWindow(m) ==
  /\ windows' = IF m.start \in DOMAIN windows
                THEN [windows EXCEPT ![m.start].end = m.end, ![m.start].invalid = @ + m.invalid]
                ELSE [s \in DOMAIN windows \cup {m.start} |-> IF s = m.start
                        THEN [end |-> m.end, invalid |-> m.invalid, used |-> 0, drops |-> 0]
                        ELSE windows[s]]
  /\ UNCHANGED <<gaps, count>>

\* firmwareTransportDrop
TransportDrop(c) == AtLeast(c.windowDrops, c.counterDrops)

\* _reconcile_gap_with_windows: windows reported before the gap was seen, in the
\* order they were first reported in, which is that of their starts.
Reconciled(p, start) ==
  LET w == p.windows[start]
      c == ConsumeGap(p.gap, start, w.end, AtLeast(0, w.invalid - w.used))
  IN [gap |-> c.rest, taken |-> p.taken + c.taken,
      windows |-> [p.windows EXCEPT ![start].used = @ + c.taken]]

WindowSteps(g, ws) ==
  LET f[i \in 0 .. MaxSeq] ==
        IF i = 0 THEN [gap |-> g, taken |-> 0, windows |-> ws]
        ELSE IF i \in DOMAIN ws THEN Reconciled(f[i - 1], i) ELSE f[i - 1]
  IN f

GapWithWindows(g, ws) == WindowSteps(g, ws)[MaxSeq]

\* record_frame
RecordFrame(n) ==
  LET missing == n - last - 1
      candidates == IF debug THEN Segment(last + 1, n - 1, Every, last % Every)
                    ELSE Segment(last + 1, n - 1, 1, 0)
      unexplained == Size(candidates)
      r == GapWithWindows(<<candidates>>, windows)
      counted == [count EXCEPT !.observed = @ + missing,
                               !.intentional = @ + missing - unexplained,
                               !.unknown = @ + unexplained]
  IN /\ last' = n
     /\ IF last = None \/ n <= last + 1
        THEN UNCHANGED <<gaps, windows, count>>
        ELSE /\ count' = Suppressed(counted, r.taken)
             /\ gaps' = IF r.gap = <<>> \/ unexplained = 0 THEN gaps ELSE Append(gaps, r.gap)
             /\ windows' = r.windows

\* record_firmware_output_window: the same window may be reported again and again.
RecordWindow(m) ==
  LET known == m.start \in DOMAIN windows
      old == IF known THEN windows[m.start] ELSE [end |-> m.end, invalid |-> 0, used |-> 0, drops |-> 0]
      grown == [old EXCEPT !.end = AtLeast(@, m.end), !.invalid = AtLeast(@, m.invalid),
                           !.drops = AtLeast(@, m.drops)]
      c == ConsumeGaps(gaps, m.start, grown.end, AtLeast(0, grown.invalid - grown.used))
      full == [grown EXCEPT !.used = @ + c.taken]
  IN /\ windows' = [s \in DOMAIN windows \cup {m.start} |-> IF s = m.start THEN full ELSE windows[s]]
     /\ gaps' = c.rest
     /\ count' = Suppressed([count EXCEPT !.windowDrops = @ + grown.drops - old.drops], c.taken)

\* What a PERF reply changes: first record_firmware_performance_counters, which
\* closes the tail that SF50 has not reported yet,
AfterPerformance(m) ==
  LET seq == IF last = None THEN m.frames ELSE AtMost(last, m.frames)
      restarted == report = None \/ m.frames < report.published \/ m.fresh < report.fresh
      delta == (m.frames - report.published) - (m.fresh - report.fresh)
               - AtLeast(0, count.suppressed - report.classified)
      c == IF restarted THEN [taken |-> 0, rest |-> gaps]
           ELSE ConsumeGaps(gaps, report.seq + 1, seq, AtLeast(0, delta))
      counted == Suppressed(count, c.taken)
  IN [gaps |-> c.rest, count |-> counted, seq |-> seq,
      report |-> [published |-> m.frames, fresh |-> m.fresh, seq |-> seq,
                  classified |-> counted.suppressed]]

\* then record_firmware_drop_report for usbDrop: the first report is a baseline.
AfterDrops(p, m) ==
  LET delta == IF drop = None THEN 0 ELSE AtLeast(0, m.drops - drop.total)
      counted == [p.count EXCEPT !.counterDrops = @ + delta]
      c == IF delta = 0 THEN [taken |-> 0, rest |-> p.gaps]
           ELSE ConsumeGaps(p.gaps, drop.seq + 1, p.seq,
                            AtMost(delta, AtLeast(0, TransportDrop(counted) - counted.attributed)))
  IN [gaps |-> c.rest, count |-> Attributed(counted, c.taken),
      drop |-> [total |-> m.drops, seq |-> p.seq]]

RecordPerf(m) ==
  LET p == AfterPerformance(m)
      d == AfterDrops(p, m)
  IN /\ report' = p.report /\ drop' = d.drop /\ gaps' = d.gaps /\ count' = d.count

-----------------------------------------------------------------------------
(* The device sends, and the parser hands what arrives to the store.       *)

\* A physical frame: not fresh, dropped by the firmware's own output, thinned
\* out by DEBUG, lost on the way or behind a broken link, or heard.
Losses ==
  IF Cardinality(Frames("lost") \cup Frames("dropped")) < MaxLosses THEN {"lost", "dropped"} ELSE {}
Fates ==
  {"stale"} \cup
  (IF debug /\ (Seq0 + 1) % Every # 0 THEN {"thinned"}
   ELSE IF ~link THEN {"unheard"} \cup (Losses \ {"lost"})
   ELSE {"heard"} \cup Losses)

Frame ==
  /\ Seq0 < MaxSeq
  /\ \E f \in Fates :
       /\ fate' = Append(fate, f)
       /\ IF f = "heard" THEN RecordFrame(Seq0 + 1) ELSE UNCHANGED <<last, gaps, windows, count>>
  /\ UNCHANGED <<link, debug, diag, perfs, events, report, drop, witness>>

InWindow(start, f) == Cardinality({n \in Frames(f) : n >= start})

SendWindow ==
  /\ link /\ diag = None /\ Seq0 > 0
  /\ LET start == Seq0 - ((Seq0 - 1) % WindowSize)
     IN diag' = [kind |-> "SF50", start |-> start, end |-> Seq0,
                 invalid |-> InWindow(start, "stale"), drops |-> InWindow(start, "dropped")]
  /\ UNCHANGED <<fate, link, debug, perfs, events, store, witness>>

SendPerf ==
  /\ link /\ diag = None /\ perfs < MaxPerf
  /\ perfs' = perfs + 1
  /\ diag' = [kind |-> "PERF", frames |-> Seq0, fresh |-> Seq0 - Cardinality(Frames("stale")),
              drops |-> Cardinality(Frames("dropped"))]
  /\ UNCHANGED <<fate, link, debug, events, store, witness>>

ReceiveWindow ==
  /\ diag # None /\ diag.kind = "SF50"
  /\ RecordWindow(diag)
  /\ diag' = None
  /\ witness' = witness \cup {"SF50"}
  /\ UNCHANGED <<fate, link, debug, perfs, events, last, report, drop>>

ReceivePerf ==
  /\ diag # None /\ diag.kind = "PERF"
  /\ RecordPerf(diag)
  /\ diag' = None
  /\ witness' = witness \cup {"PERF"}
  /\ UNCHANGED <<fate, link, debug, perfs, events, last, windows>>

\* The link breaks, and what was under way is lost with it.
Break ==
  /\ link /\ events < MaxEvents
  /\ link' = FALSE /\ diag' = None
  /\ events' = events + 1
  /\ UNCHANGED <<fate, debug, perfs, store, witness>>

\* begin_connection_epoch: only the drop report outlives the link.
Reconnect ==
  /\ ~link
  /\ link' = TRUE
  /\ last' = None /\ report' = None /\ gaps' = <<>> /\ windows' = <<>>
  /\ witness' = witness \cup {"epoch"}
  /\ UNCHANGED <<fate, debug, diag, perfs, events, drop, count>>

\* begin_output_policy, when USBSTREAM= is applied: pending gaps stay pending.
SetPolicy ==
  /\ link /\ events < MaxEvents
  /\ events' = events + 1
  /\ debug' = ~debug
  /\ last' = None /\ report' = None
  /\ UNCHANGED <<fate, link, diag, perfs, gaps, windows, drop, count, witness>>

Next == Frame \/ SendWindow \/ SendPerf \/ ReceiveWindow \/ ReceivePerf
        \/ Break \/ Reconnect \/ SetPolicy

Spec == Init /\ [][Next]_vars

-----------------------------------------------------------------------------
(* Properties *)

Members(s) == {n \in s.start .. s.end : n % s.step = s.phase % s.step}
GapMembers(g) == UNION {Members(g[i]) : i \in DOMAIN g}
Pending == UNION {GapMembers(gaps[i]) : i \in DOMAIN gaps}
Sum(v) == LET f[i \in 0 .. Len(v)] == IF i = 0 THEN 0 ELSE f[i - 1] + v[i] IN f[Len(v)]
GapSize(g) == Sum([i \in DOMAIN g |-> Size(g[i])])
Sizes(gs) == Sum([i \in DOMAIN gs |-> GapSize(gs[i])])

\* Type correctness of the store.
TypeOK ==
  /\ last \in {None} \cup 1 .. MaxSeq
  /\ \A i \in DOMAIN gaps : gaps[i] # <<>> /\ \A j \in DOMAIN gaps[i] :
       gaps[i][j] \in [start : 1 .. MaxSeq, end : 1 .. MaxSeq, step : {1, Every}, phase : 0 .. Every]
  /\ \A start \in DOMAIN windows :
       windows[start] \in [end : start .. MaxSeq, invalid : 0 .. WindowSize, used : 0 .. WindowSize,
                          drops : 0 .. WindowSize]
  /\ report # None => report \in [published : Nat, fresh : Nat, seq : Nat, classified : Nat]
  /\ drop # None => drop \in [total : Nat, seq : Nat]
  /\ count \in [DOMAIN ZeroCounts -> Nat]

\* Whatever reports arrive, in whatever order and how often, every number missing
\* between two frames is in exactly one account (docs/architecture.md:124-127), and
\* what is still open is a set of frames that the host really never got: splitting
\* a segment neither keeps a frame that was taken out of it nor takes another one.
OpenGapsAreMissing ==
  /\ count.observed = count.intentional + count.unknown + count.suppressed + count.attributed
  /\ Sizes(gaps) = Cardinality(Pending)
  /\ \A n \in Pending : fate[n] \in {"stale", "dropped", "lost", "thinned"}
  /\ Sizes(gaps) <= count.unknown
  /\ ("epoch" \notin witness => Sizes(gaps) = count.unknown)

\* No evidence is spent twice.  The drops that gaps are blamed on are drops that
\* the firmware had, once each, although SF50 and PERF report the same ones.  While
\* the link stays up (a new link forgets which windows were counted) the total of
\* drops on display is no more than they are, and repeated, growing reports of one
\* kind never excuse more frames than the firmware held back, so that they cannot
\* hide a loss.  (Reports of both kinds together can: see NonFreshSpentOnce.)
EvidenceSpentOnce ==
  /\ count.attributed <= AtMost(TransportDrop(count), Cardinality(Frames("dropped")))
  /\ "epoch" \notin witness =>
       /\ TransportDrop(count) <= Cardinality(Frames("dropped"))
       /\ Cardinality(witness) <= 1 => count.suppressed <= Cardinality(Frames("stale"))

\* When nothing was lost or dropped on a link that stayed up, and every window was
\* reported up to the last frame missing in it, no gap is left unexplained, whether
\* a report came before its gap, after it, or in parts.
Missed == {n \in 1 .. Seq0 : fate[n] # "heard" /\ \E m \in Frames("heard") : m > n}
Reported(n) == \E start \in DOMAIN windows : start <= n /\ n <= windows[start].end
WindowsExplain ==
  /\ "epoch" \notin witness
  /\ \A n \in Missed : fate[n] = "thinned" \/ (fate[n] = "stale" /\ Reported(n))
  => count.unknown = 0

\* A frame that the firmware held back excuses one missing number, as the comment
\* in the code says (statistics_store.py:254-256).  Known not to hold: the run
\* SequenceStats_twice.
NonFreshSpentOnce == count.suppressed <= Cardinality(Frames("stale"))

=============================================================================
