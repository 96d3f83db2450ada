---------------------------- MODULE FrameAssembly ----------------------------
(***************************************************************************)
(* From lines to frames: src/sensorarray_app/protocol/registry.py and the  *)
(* three parsers it routes lines to, cap_ascii.py (C frames),              *)
(* measurement_ascii.py (V and R) and mixed_ascii.py (M), as one text      *)
(* stream of one session feeds them.                                       *)
(*                                                                         *)
(* A frame is a header, its data lines and a trailer K with a CRC.  The    *)
(* device (external) sends frames one after the other and its log lines    *)
(* between their lines.  A line may be lost, arrive damaged ("bad", or     *)
(* "odd" when it is not ASCII), or lose its end, so that it runs into the  *)
(* next line.  The content of a line is its identity: a damaged line may   *)
(* be refused or taken for what its tag says, and a CRC matches exactly    *)
(* the lines that the device sent.                                         *)
(***************************************************************************)
EXTENDS Integers, Sequences, FiniteSets

CONSTANTS
  Kinds,      \* kinds of frames the device sends
  Chunks,     \* D lines, P lines or MR rows of a frame
  MaxFrames,  \* bound: frames the device begins
  MaxFaults,  \* bound: faults, log lines, time-outs and link resets
  MaxWire,    \* bound: lines under way
  None        \* Python's None

ASSUME KindsAssumption == Kinds \subseteq {"C", "V", "R", "M"} /\ None \notin {"C", "V", "R", "M"}
ASSUME ChunksAssumption == Chunks \in Nat \ {0}
ASSUME BoundsAssumption == {MaxFrames, MaxFaults, MaxWire} \subseteq Nat

Headers == {"C", "V", "R", "M"}
Parsers == {"C", "V", "M"}

\* The parser of a kind of frame: V and R share the measurement parser.
Owner(kind) == IF kind = "R" THEN "V" ELSE kind

NoHeader == [tag |-> "", frame |-> 0, whole |-> FALSE]

\* A line: its tag, the frame whose content it carries (0: a log line), the
\* number in its tag, its state, and a header that it holds behind its start.
Line(tag, f, i) == [tag |-> tag, frame |-> f, index |-> i, state |-> "ok", inner |-> NoHeader]
NoLine == Line("", 0, 0)
LogLine == Line("LOG", 0, 0)

Numbered(tag, f, first) == [i \in 1 .. Chunks |-> Line(tag, f, i - 1 + first)]

\* The lines of frame f that its CRC covers.
Body(kind, f) ==
  <<Line(kind, f, 0)>> \o
  (CASE kind = "C" -> Numbered("D", f, 0)
     [] kind = "M" -> Numbered("MR", f, 1)
     [] OTHER -> Numbered("D", f, 0) \o Numbered("P", f, 0))

VARIABLES
  \* the device and the wire
  kinds,     \* kinds of the frames begun
  pos,       \* lines of the last frame that have left the device
  wire,      \* lines under way
  cut,       \* text whose end was lost: the start of the next line
  faults,    \* budget used
  damaged,   \* history: frames that lost content on the way
  spliced,   \* history: frames whose header arrived whole behind a cut line
  \* ProtocolRegistry
  buffer,    \* _text_buffers: lines of the chunk being fed
  feeding,   \* feed() is under way
  parser     \* _StreamState: active frame type, pending frames, frames handed on

device == <<kinds, pos, cut, damaged, spliced>>
vars == <<kinds, pos, wire, cut, faults, damaged, spliced, buffer, feeding, parser>>

Begun == Len(kinds)
Lines(f) == Append(Body(kinds[f], f), Line("K", f, 0))
Finished(f) == f < Begun \/ (f = Begun /\ pos = Len(Lines(f)))

FreshState == [active |-> None, pend |-> [k \in Parsers |-> <<>>], out |-> <<>>]

Init ==
  /\ kinds = <<>> /\ pos = 0 /\ wire = <<>> /\ cut = NoLine
  /\ faults = 0 /\ damaged = {} /\ spliced = {}
  /\ buffer = <<>> /\ feeding = FALSE /\ parser = FreshState

-----------------------------------------------------------------------------
(* What the three parsers share.  An operation returns the set of states   *)
(* that it may leave the stream in: one for a sound line.                  *)

\* Seeded fault for the checks: the rejected frame is set to None.
RejectedToNone(p, k) == [p EXCEPT !.pend[k] = None]

\* _reject_pending, abort_pending, reset and the time-out: the pending frame is gone.
Rejected(p, k) == [p EXCEPT !.pend[k] = <<>>]
Opened(p, k, l) == [p EXCEPT !.pend[k] = <<l>>]
Extended(p, k, l) == [p EXCEPT !.pend[k] = Append(@, l)]
Emitted(p, k) == [p EXCEPT !.out = Append(@, p.pend[k]), !.pend[k] = <<>>]

\* A sound line is taken; a damaged one is taken for what it says, or refused.
Taken(l, accepted, refused) == IF l.state = "ok" THEN {accepted} ELSE {accepted, refused}

Count(p, k, tag) == Cardinality({i \in DOMAIN p.pend[k] : p.pend[k][i].tag = tag})

\* Seeded fault for the checks: the CRC is not compared.
CrcIgnored(p, k, l) == TRUE

\* K names the identity of its header, and its CRC covers the lines of its frame.
SameIdentity(p, k, l) == p.pend[k][1].frame = l.frame
CrcMatches(p, k, l) == p.pend[k] = Body(kinds[l.frame], l.frame)

Closed(p, k, l, complete) ==
  IF complete /\ SameIdentity(p, k, l) /\ CrcMatches(p, k, l)
  THEN Taken(l, Emitted(p, k), Rejected(p, k))
  ELSE {Rejected(p, k)}

-----------------------------------------------------------------------------
(* CapAsciiParser *)

\* Seeded fault for the checks: a header that interrupts a frame is lost with it.
CapHeaderRejecting(p, l) ==
  IF p.pend["C"] # <<>> THEN {Rejected(p, "C")} ELSE Taken(l, Opened(p, "C", l), p)

\* A new header drops the pending frame, whether or not it is sound itself.
CapHeader(p, l) == Taken(l, Opened(p, "C", l), Rejected(p, "C"))

\* D lines come in order, without repetition.
CapData(p, l) ==
  LET next == Count(p, "C", "D")
  IN IF l.index # next \/ l.index >= Chunks
     THEN {Rejected(p, "C")}
     ELSE Taken(l, Extended(p, "C", l), Rejected(p, "C"))

CapTrailer(p, l) == Closed(p, "C", l, Count(p, "C", "D") = Chunks)

\* feed_line: lines that are not ASCII and orphans are reported, other tags are logs.
CapFeed(p, l) ==
  CASE l.state # "odd" /\ l.tag = "C" -> CapHeader(p, l)
    [] l.state # "odd" /\ l.tag = "D" /\ p.pend["C"] # <<>> -> CapData(p, l)
    [] l.state # "odd" /\ l.tag = "K" /\ p.pend["C"] # <<>> -> CapTrailer(p, l)
    [] OTHER -> {p}

-----------------------------------------------------------------------------
(* MeasurementAsciiParser *)

MeasurementHeader(p, l) == Taken(l, Opened(p, "V", l), Rejected(p, "V"))

MeasurementData(p, l) ==
  IF Count(p, "V", "P") > 0 \/ l.index >= Chunks \/ l.index # Count(p, "V", "D")
  THEN {Rejected(p, "V")}
  ELSE Taken(l, Extended(p, "V", l), Rejected(p, "V"))

\* P lines come after all D lines.
MeasurementPga(p, l) ==
  IF Count(p, "V", "D") # Chunks \/ l.index >= Chunks \/ l.index # Count(p, "V", "P")
  THEN {Rejected(p, "V")}
  ELSE Taken(l, Extended(p, "V", l), Rejected(p, "V"))

MeasurementTrailer(p, l) ==
  Closed(p, "V", l, Count(p, "V", "D") = Chunks /\ Count(p, "V", "P") = Chunks)

\* feed_line: here a line that is not ASCII costs the pending frame.
MeasurementFeed(p, l) ==
  CASE l.state = "odd" -> {Rejected(p, "V")}
    [] l.state # "odd" /\ l.tag \in {"V", "R"} -> MeasurementHeader(p, l)
    [] l.state # "odd" /\ l.tag = "D" /\ p.pend["V"] # <<>> -> MeasurementData(p, l)
    [] l.state # "odd" /\ l.tag = "P" /\ p.pend["V"] # <<>> -> MeasurementPga(p, l)
    [] l.state # "odd" /\ l.tag = "K" /\ p.pend["V"] # <<>> -> MeasurementTrailer(p, l)
    [] OTHER -> {p}

-----------------------------------------------------------------------------
(* MixedMeasurementAsciiParser *)

MixedHeader(p, l) == Taken(l, Opened(p, "M", l), Rejected(p, "M"))

\* Rows are unique, in any order.
MixedRow(p, l) ==
  IF l.index \notin 1 .. Chunks \/ \E i \in 1 .. Len(p.pend["M"]) :
       p.pend["M"][i].tag = "MR" /\ p.pend["M"][i].index = l.index
  THEN {Rejected(p, "M")}
  ELSE Taken(l, Extended(p, "M", l), Rejected(p, "M"))

MixedTrailer(p, l) == Closed(p, "M", l, Count(p, "M", "MR") = Chunks)

MixedFeed(p, l) ==
  CASE l.state = "odd" -> {Rejected(p, "M")}
    [] l.state # "odd" /\ l.tag = "M" -> MixedHeader(p, l)
    [] l.state # "odd" /\ l.tag = "MR" /\ p.pend["M"] # <<>> -> MixedRow(p, l)
    [] l.state # "odd" /\ l.tag = "K" /\ p.pend["M"] # <<>> -> MixedTrailer(p, l)
    [] OTHER -> {p}

-----------------------------------------------------------------------------
(* ProtocolRegistry *)

Feed(k, p, l) ==
  CASE k = "C" -> CapFeed(p, l)
    [] k = "M" -> MixedFeed(p, l)
    [] OTHER -> MeasurementFeed(p, l)

\* Seeded fault for the checks: the frame of the other parser is left pending.
ActivatedKeepingOther(p, kind) == [p EXCEPT !.active = kind]

\* A header makes its parser the active one and aborts the frame of another.
Activated(p, kind) ==
  LET q == IF p.active # None /\ Owner(p.active) # Owner(kind)
           THEN Rejected(p, Owner(p.active)) ELSE p
  IN [q EXCEPT !.active = kind]

\* The tag decides who is fed; D, P and K go to the active frame.
Routed(p, l) ==
  LET active == IF p.active = None THEN "C" ELSE Owner(p.active)
  IN CASE l.tag \in Headers ->
            Feed(Owner(l.tag), Activated(p, l.tag), l)
            \* a damaged M header may not be told from the log tag M
            \cup (IF l.tag = "M" /\ l.state = "bad" THEN {p} ELSE {})
       [] l.tag = "MR" -> MixedFeed(p, l)
       [] l.tag = "D" -> IF active = "V" THEN MeasurementFeed(p, l) ELSE CapFeed(p, l)
       [] l.tag = "P" -> IF p.active = "C" THEN CapFeed(p, l) ELSE MeasurementFeed(p, l)
       [] l.tag = "K" -> Feed(active, [p EXCEPT !.active = None], l)
       [] OTHER -> CapFeed(p, l)

\* _reset_active_frame
ActiveReset(p) ==
  [(IF p.active = None THEN p ELSE Rejected(p, Owner(p.active))) EXCEPT !.active = None]

\* _embedded_frame_header: a whole header behind the start of a line is found,
\* an incomplete one perhaps.  The header M has no field n, which is asked of it.
Embedded(inner) ==
  CASE inner = NoHeader -> {FALSE}
    [] inner # NoHeader /\ inner.whole -> {inner.tag # "M"}
    [] OTHER -> BOOLEAN

HeaderLine(inner) ==
  [Line(inner.tag, inner.frame, 0) EXCEPT !.state = IF inner.whole THEN "ok" ELSE "bad"]

\* _feed_current_line
FeedLine(p, l) ==
  IF l.state = "odd"
  THEN IF p.active = None THEN {p} ELSE Feed(Owner(p.active), p, l)
  ELSE UNION {IF found THEN Routed(ActiveReset(p), HeaderLine(l.inner)) ELSE Routed(p, l) :
                found \in Embedded(l.inner)}

\* _feed_text: a chunk brings the lines completed by it, which are fed in turn;
Receive ==
  /\ ~feeding
  /\ feeding' = TRUE
  /\ buffer' = wire
  /\ wire' = <<>>
  /\ UNCHANGED <<device, faults, parser>>

FeedNext ==
  /\ buffer # <<>>
  /\ parser' \in FeedLine(parser, Head(buffer))
  /\ buffer' = Tail(buffer)
  /\ UNCHANGED <<device, wire, faults, feeding>>

\* at its end an old pending frame times out, and a finished one is not active.
TimedOut(p, late) == [p EXCEPT !.pend = [k \in Parsers |-> IF late THEN <<>> ELSE @[k]]]
Deactivated(p) ==
  IF p.active # None /\ p.pend[Owner(p.active)] = <<>> THEN [p EXCEPT !.active = None] ELSE p

PendingFrames == {parser.pend[k][1].frame : k \in {j \in Parsers : parser.pend[j] # <<>>}}

EndChunk ==
  /\ feeding /\ buffer = <<>>
  /\ \E late \in BOOLEAN :
       /\ late => PendingFrames # {} /\ faults < MaxFaults
       /\ faults' = IF late THEN faults + 1 ELSE faults
       /\ damaged' = IF late THEN damaged \cup PendingFrames ELSE damaged
       /\ parser' = Deactivated(TimedOut(parser, late))
  /\ feeding' = FALSE
  /\ UNCHANGED <<kinds, pos, wire, cut, spliced, buffer>>

\* reset_connection: the link went down; what was under way is gone with it.
FramesOf(lines) == {lines[i].frame : i \in 1 .. Len(lines)} \cup {lines[i].inner.frame : i \in 1 .. Len(lines)}

ResetConnection ==
  /\ ~feeding
  /\ faults < MaxFaults
  /\ faults' = faults + 1
  /\ damaged' = damaged \cup FramesOf(wire) \cup {cut.frame, cut.inner.frame}
                        \cup {f \in {Begun} \ {0} : pos > 0 /\ ~Finished(f)}
  /\ wire' = <<>> /\ cut' = NoLine
  /\ parser' = [FreshState EXCEPT !.out = parser.out]
  /\ UNCHANGED <<kinds, pos, spliced, buffer, feeding>>

-----------------------------------------------------------------------------
(* The device and the wire (external) *)

\* Line l behind the text of a cut line: one line with the tag of the first.
Merged(c, l) ==
  [c EXCEPT
    !.state = IF "odd" \in {c.state, l.state} THEN "odd" ELSE "bad",
    !.inner = IF \/ l.tag \in {"C", "V", "R"} /\ l.state = "ok"
                 \/ l.tag \in Headers /\ c.inner = NoHeader
              THEN [tag |-> l.tag, frame |-> l.frame, whole |-> l.state = "ok"]
              ELSE [c.inner EXCEPT !.whole = FALSE]]

\* A header behind a cut line that is text loses nothing itself.
SplicedWhole(l) == cut # NoLine /\ cut.state # "odd" /\ l.tag \in Headers /\ l.state = "ok"

\* Line l leaves the device: with its end, or without it.
Put(l, ended) ==
  LET m == IF cut = NoLine THEN l ELSE Merged(cut, l)
      intact == ended /\ l.state = "ok" /\ (cut = NoLine \/ SplicedWhole(l))
  IN /\ ended => Len(wire) < MaxWire
     /\ wire' = IF ended THEN Append(wire, m) ELSE wire
     /\ cut' = IF ended THEN NoLine ELSE m
     /\ damaged' = IF intact THEN damaged ELSE damaged \cup {l.frame}
     /\ spliced' = IF ended /\ SplicedWhole(l) THEN spliced \cup {l.frame} ELSE spliced
     /\ UNCHANGED <<buffer, feeding, parser>>

Begin ==
  /\ Begun < MaxFrames
  /\ Begun > 0 => Finished(Begun)
  /\ \E k \in Kinds : kinds' = Append(kinds, k)
  /\ pos' = 0
  /\ UNCHANGED <<wire, cut, faults, damaged, spliced, buffer, feeding, parser>>

Outgoing == Lines(Begun)[pos + 1]
Sends == Begun > 0 /\ ~Finished(Begun) /\ pos' = pos + 1 /\ UNCHANGED kinds
Fails == faults < MaxFaults /\ faults' = faults + 1

Send == Sends /\ Put(Outgoing, TRUE) /\ UNCHANGED faults
Damage == Sends /\ Fails /\ \E s \in {"bad", "odd"} : Put([Outgoing EXCEPT !.state = s], TRUE)
CutShort == Sends /\ Fails /\ Put(Outgoing, FALSE)
Lose ==
  /\ Sends /\ Fails
  /\ damaged' = damaged \cup {Begun}
  /\ UNCHANGED <<wire, cut, spliced, buffer, feeding, parser>>
Log ==
  /\ Fails
  /\ \E ended \in BOOLEAN : Put(LogLine, ended)
  /\ UNCHANGED <<kinds, pos>>

Next ==
  \/ Begin \/ Send \/ Damage \/ CutShort \/ Lose \/ Log
  \/ Receive \/ FeedNext \/ EndChunk \/ ResetConnection

Spec == Init /\ [][Next]_vars

-----------------------------------------------------------------------------
(* Properties *)

LineType == [tag : Headers \cup {"D", "P", "MR", "K", "LOG", ""}, frame : 0 .. MaxFrames,
             index : 0 .. Chunks, state : {"ok", "bad", "odd"},
             inner : [tag : Headers \cup {""}, frame : 0 .. MaxFrames, whole : BOOLEAN]]

\* The types of the variables.
TypeOK ==
  /\ kinds \in Seq(Kinds) /\ Begun <= MaxFrames
  /\ pos \in 0 .. 2 * Chunks + 2
  /\ wire \in Seq(LineType) /\ buffer \in Seq(LineType) /\ cut \in LineType
  /\ faults \in 0 .. MaxFaults
  /\ damaged \cup spliced \subseteq 0 .. MaxFrames
  /\ feeding \in BOOLEAN
  /\ parser.active \in Headers \cup {None}
  /\ parser.pend \in [Parsers -> Seq(LineType)]
  /\ parser.out \in Seq(Seq(LineType))

\* At most one parser holds a pending frame, and the active frame type names
\* it: D, P and K lines, which do not say whose they are, cannot reach a frame
\* that another parser assembles.
ActiveOwnsPending ==
  \A k \in Parsers : parser.pend[k] # <<>> => parser.active # None /\ Owner(parser.active) = k

\* The number of the frame whose lines a delivered frame has, 0 if it is none.
FrameOf(lines) ==
  IF \E f \in 1 .. Begun : lines = Body(kinds[f], f)
  THEN CHOOSE f \in 1 .. Begun : lines = Body(kinds[f], f) ELSE 0

Delivered == {FrameOf(parser.out[i]) : i \in 1 .. Len(parser.out)}
Settled == wire = <<>> /\ buffer = <<>>

\* A frame whose own lines arrived is delivered, whatever happened to the
\* frames and the log lines before it: no state that an interrupted frame
\* leaves behind costs the next one.  (A header M behind a cut line is left to
\* EmbeddedRecovered.)
IntactDelivered ==
  Settled => \A f \in 1 .. Begun :
    Finished(f) /\ f \notin damaged /\ ~(f \in spliced /\ kinds[f] = "M") => f \in Delivered

\* A header that arrives whole behind a cut line is recovered and its frame
\* delivered, for all four kinds (docs/architecture.md:134-139).  Known not to hold
\* for M (FrameAssembly_embedded.cfg).
EmbeddedRecovered ==
  Settled => \A f \in spliced : Finished(f) /\ f \notin damaged => f \in Delivered

\* The frames handed on are whole, in order and not repeated.
Channel == INSTANCE FrameChannel WITH
  produced <- Cardinality({f \in 1 .. Begun : Finished(f)}),
  delivered <- [i \in 1 .. Len(parser.out) |-> FrameOf(parser.out[i])]

ImplementsChannel == Channel!Spec
=============================================================================
