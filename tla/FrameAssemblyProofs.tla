-------------------------- MODULE FrameAssemblyProofs --------------------------
(***************************************************************************)
(* FrameAssembly is type correct, its active frame type names the only     *)
(* parser that holds a pending frame, what it hands on is a FrameChannel,  *)
(* and a frame whose own lines arrive is handed on, for every set of       *)
(* kinds, number of chunks and bound.                                      *)
(*                                                                         *)
(* The parsers are operators from a state of the stream and a line to a    *)
(* set of states, so the proof has one lemma per parser, which says what a *)
(* line may do to the state (FedAlone), and one for the routing between    *)
(* them (RoutedStep).  The device and the wire are lemmas of their own.    *)
(***************************************************************************)
EXTENDS FrameAssembly, TLAPS, FiniteSetTheorems

StreamType == [active : Headers \cup {None}, pend : [Parsers -> Seq(LineType)],
               out : Seq(Seq(LineType))]

\* D, P and K lines reach no frame but that of the active type.
Owns(p) == \A k \in Parsers : p.pend[k] # <<>> => p.active # None /\ Owner(p.active) = k

\* What line l hands on, if anything: the frame that a trailer closes.
HandsOn(p, q, l) ==
  \/ q.out = p.out
  \/ l.tag = "K" /\ q.out = Append(p.out, Body(kinds[l.frame], l.frame))

\* Line l was given to parser k: it leaves the other parsers and the active
\* type alone, begins no frame unless it is a header, and ends one if it is K.
FedAlone(p, q, k, l) ==
  /\ q \in StreamType
  /\ q.active = p.active
  /\ \A j \in Parsers \ {k} : q.pend[j] = p.pend[j]
  /\ p.pend[k] = <<>> /\ l.tag \notin Headers => q.pend[k] = <<>>
  /\ l.tag = "K" /\ l.state # "odd" => q.pend[k] = <<>>
  /\ HandsOn(p, q, l)

-----------------------------------------------------------------------------
(* Lines *)

LineTag == Headers \cup {"D", "P", "MR", "K", "LOG", ""}

LEMMA LineTyped ==
  ASSUME NEW tag \in LineTag, NEW f \in 0 .. MaxFrames, NEW i \in 0 .. Chunks
  PROVE  /\ Line(tag, f, i) \in LineType
         /\ Line(tag, f, i).tag = tag /\ Line(tag, f, i).frame = f
<1>1. NoHeader \in [tag : Headers \cup {""}, frame : 0 .. MaxFrames, whole : BOOLEAN]
  BY BoundsAssumption DEF NoHeader
<1> QED
  BY <1>1 DEF Line, LineType, LineTag

LEMMA NaturalBounds == MaxFrames \in Nat /\ MaxFaults \in Nat /\ MaxWire \in Nat
BY BoundsAssumption

LEMMA ZeroIndex == 0 \in 0 .. Chunks
BY ChunksAssumption

LEMMA StateSet ==
  ASSUME NEW l \in LineType, NEW s \in {"ok", "bad", "odd"}
  PROVE  /\ [l EXCEPT !.state = s] \in LineType
         /\ [l EXCEPT !.state = s].state = s
         /\ [l EXCEPT !.state = s].tag = l.tag
         /\ [l EXCEPT !.state = s].frame = l.frame
BY DEF LineType

-----------------------------------------------------------------------------
(* The operations that the parsers share *)

LEMMA PendingSet ==
  ASSUME NEW p \in StreamType, NEW k \in Parsers, NEW s \in Seq(LineType)
  PROVE  /\ [p EXCEPT !.pend[k] = s] \in StreamType
         /\ [p EXCEPT !.pend[k] = s].active = p.active
         /\ [p EXCEPT !.pend[k] = s].out = p.out
         /\ [p EXCEPT !.pend[k] = s].pend[k] = s
         /\ \A j \in Parsers \ {k} : [p EXCEPT !.pend[k] = s].pend[j] = p.pend[j]
<1> DEFINE Line_s == Seq(LineType)
           Out_s == Seq(Seq(LineType))
<1>1. p \in [active : Headers \cup {None}, pend : [Parsers -> Line_s], out : Out_s]
  BY DEF StreamType
<1>2. s \in Line_s
  OBVIOUS
<1> HIDE DEF Line_s, Out_s
<1>3. [p EXCEPT !.pend[k] = s] \in [active : Headers \cup {None}, pend : [Parsers -> Line_s], out : Out_s]
  BY <1>1, <1>2
<1>4. /\ [p EXCEPT !.pend[k] = s].active = p.active
      /\ [p EXCEPT !.pend[k] = s].out = p.out
      /\ [p EXCEPT !.pend[k] = s].pend[k] = s
      /\ \A j \in Parsers \ {k} : [p EXCEPT !.pend[k] = s].pend[j] = p.pend[j]
  BY <1>1, <1>2
<1> QED
  BY <1>3, <1>4 DEF Line_s, Out_s, StreamType

LEMMA PendingCleared ==
  ASSUME NEW p \in StreamType, NEW k \in Parsers
  PROVE  /\ [p EXCEPT !.pend[k] = <<>>] \in StreamType
         /\ [p EXCEPT !.pend[k] = <<>>].active = p.active
         /\ [p EXCEPT !.pend[k] = <<>>].out = p.out
         /\ [p EXCEPT !.pend[k] = <<>>].pend[k] = <<>>
         /\ \A j \in Parsers \ {k} : [p EXCEPT !.pend[k] = <<>>].pend[j] = p.pend[j]
<1>1. <<>> \in Seq(LineType)
  OBVIOUS
<1>2. PICK s \in Seq(LineType) : s = <<>>
  BY <1>1
<1>3. /\ [p EXCEPT !.pend[k] = s] \in StreamType
      /\ [p EXCEPT !.pend[k] = s].active = p.active
      /\ [p EXCEPT !.pend[k] = s].out = p.out
      /\ [p EXCEPT !.pend[k] = s].pend[k] = s
      /\ \A j \in Parsers \ {k} : [p EXCEPT !.pend[k] = s].pend[j] = p.pend[j]
  BY PendingSet
<1> QED
  BY <1>2, <1>3

LEMMA RejectedIsFed ==
  ASSUME NEW p \in StreamType, NEW k \in Parsers, NEW l \in LineType
  PROVE  FedAlone(p, Rejected(p, k), k, l)
<1> DEFINE q == [p EXCEPT !.pend[k] = <<>>]
<1>2. /\ q \in StreamType /\ q.active = p.active /\ q.out = p.out /\ q.pend[k] = <<>>
      /\ \A j \in Parsers \ {k} : q.pend[j] = p.pend[j]
  BY PendingCleared
<1>3. Rejected(p, k) = q
  BY DEF Rejected
<1> HIDE DEF q
<1> QED
  BY <1>2, <1>3 DEF FedAlone, HandsOn

LEMMA UntouchedIsFed ==
  ASSUME NEW p \in StreamType, NEW k \in Parsers, NEW l \in LineType,
         l.tag = "K" /\ l.state # "odd" => p.pend[k] = <<>>
  PROVE  FedAlone(p, p, k, l)
BY DEF FedAlone, HandsOn

LEMMA OpenedIsFed ==
  ASSUME NEW p \in StreamType, NEW k \in Parsers, NEW l \in LineType, l.tag \in Headers
  PROVE  FedAlone(p, Opened(p, k, l), k, l)
<1>1. <<l>> \in Seq(LineType)
  OBVIOUS
<1>2. l.tag # "K"
  BY DEF Headers
<1> QED
  BY <1>1, <1>2, PendingSet DEF Opened, FedAlone, HandsOn

LEMMA ExtendedIsFed ==
  ASSUME NEW p \in StreamType, NEW k \in Parsers, NEW l \in LineType,
         l.tag # "K", p.pend[k] # <<>>
  PROVE  FedAlone(p, Extended(p, k, l), k, l)
<1>1. p.pend[k] \in Seq(LineType)
  BY DEF StreamType
<1>2. Append(p.pend[k], l) \in Seq(LineType)
  BY <1>1
<1> DEFINE q == [p EXCEPT !.pend[k] = Append(p.pend[k], l)]
<1>3. /\ q \in StreamType /\ q.active = p.active /\ q.out = p.out
      /\ \A j \in Parsers \ {k} : q.pend[j] = p.pend[j]
  BY <1>2, PendingSet
<1>4. Extended(p, k, l) = q
  BY DEF Extended
<1> HIDE DEF q
<1> QED
  BY <1>3, <1>4 DEF FedAlone, HandsOn

\* A trailer leaves nothing pending; the frame it hands on is the one its CRC covers.
LEMMA ClosedIsFed ==
  ASSUME NEW p \in StreamType, NEW k \in Parsers, NEW l \in LineType,
         NEW complete \in BOOLEAN, l.tag = "K", NEW q \in Closed(p, k, l, complete)
  PROVE  FedAlone(p, q, k, l)
<1>1. CASE q = Rejected(p, k)
  BY <1>1, RejectedIsFed
<1>2. CASE q = Emitted(p, k) /\ CrcMatches(p, k, l)
  <2>1. p.pend[k] \in Seq(LineType) /\ p.out \in Seq(Seq(LineType)) /\ <<>> \in Seq(LineType)
    BY DEF StreamType
  <2>2. Append(p.out, p.pend[k]) \in Seq(Seq(LineType))
    BY <2>1
  <2> DEFINE r == [p EXCEPT !.out = Append(p.out, p.pend[k])]
  <2>3. /\ r \in StreamType /\ r.active = p.active
        /\ r.out = Append(p.out, p.pend[k]) /\ r.pend = p.pend
    <3> DEFINE Line_s == Seq(LineType)
               Out_s == Seq(Seq(LineType))
    <3>1. p \in [active : Headers \cup {None}, pend : [Parsers -> Line_s], out : Out_s]
      BY DEF StreamType
    <3>2. Append(p.out, p.pend[k]) \in Out_s
      BY <2>2
    <3> HIDE DEF Line_s, Out_s
    <3>3. r \in [active : Headers \cup {None}, pend : [Parsers -> Line_s], out : Out_s]
      BY <3>1, <3>2
    <3>4. r.active = p.active /\ r.out = Append(p.out, p.pend[k]) /\ r.pend = p.pend
      BY <3>1
    <3> QED
      BY <3>3, <3>4 DEF Line_s, Out_s, StreamType
  <2>4. q = [r EXCEPT !.pend[k] = <<>>]
    BY <1>2 DEF Emitted
  <2> HIDE DEF r
  <2>5. /\ q \in StreamType /\ q.active = r.active /\ q.out = r.out /\ q.pend[k] = <<>>
        /\ \A j \in Parsers \ {k} : q.pend[j] = r.pend[j]
    BY <2>3, <2>4, PendingCleared
  <2>6. q.out = Append(p.out, Body(kinds[l.frame], l.frame))
    BY <1>2, <2>3, <2>5 DEF CrcMatches
  <2> QED
    BY <2>3, <2>5, <2>6 DEF FedAlone, HandsOn
<1> QED
  BY <1>1, <1>2 DEF Closed, Taken

-----------------------------------------------------------------------------
(* The three parsers *)

LEMMA LineTags ==
  /\ "D" \notin Headers /\ "P" \notin Headers /\ "MR" \notin Headers /\ "K" \notin Headers
  /\ "C" \in Parsers /\ "V" \in Parsers /\ "M" \in Parsers
BY DEF Headers, Parsers

LEMMA CapIsFed ==
  ASSUME NEW p \in StreamType, NEW l \in LineType, NEW q \in CapFeed(p, l)
  PROVE  FedAlone(p, q, "C", l)
<1>1. CASE l.state # "odd" /\ l.tag = "C"
  <2>1. q = Opened(p, "C", l) \/ q = Rejected(p, "C")
    BY <1>1 DEF CapFeed, CapHeader, Taken
  <2> QED
    BY <1>1, <2>1, OpenedIsFed, RejectedIsFed, LineTags DEF Headers
<1>2. CASE l.state # "odd" /\ l.tag = "D" /\ p.pend["C"] # <<>>
  <2>1. q = Extended(p, "C", l) \/ q = Rejected(p, "C")
    BY <1>2 DEF CapFeed, CapData, Taken
  <2> QED
    BY <1>2, <2>1, ExtendedIsFed, RejectedIsFed, LineTags
<1>3. CASE l.state # "odd" /\ l.tag = "K" /\ p.pend["C"] # <<>>
  <2>1. q \in Closed(p, "C", l, Count(p, "C", "D") = Chunks)
    BY <1>3 DEF CapFeed, CapTrailer
  <2> QED
    BY <1>3, <2>1, ClosedIsFed, LineTags
<1>4. CASE /\ ~(l.state # "odd" /\ l.tag = "C")
           /\ ~(l.state # "odd" /\ l.tag = "D" /\ p.pend["C"] # <<>>)
           /\ ~(l.state # "odd" /\ l.tag = "K" /\ p.pend["C"] # <<>>)
  <2>1. q = p
    BY <1>4 DEF CapFeed
  <2> QED
    BY <1>4, <2>1, UntouchedIsFed, LineTags
<1> QED
  BY <1>1, <1>2, <1>3, <1>4

LEMMA MeasurementIsFed ==
  ASSUME NEW p \in StreamType, NEW l \in LineType, NEW q \in MeasurementFeed(p, l)
  PROVE  FedAlone(p, q, "V", l)
<1>1. CASE l.state = "odd"
  BY <1>1, RejectedIsFed, LineTags DEF MeasurementFeed
<1>2. CASE l.state # "odd" /\ l.tag \in {"V", "R"}
  <2>1. q = Opened(p, "V", l) \/ q = Rejected(p, "V")
    BY <1>2 DEF MeasurementFeed, MeasurementHeader, Taken
  <2> QED
    BY <1>2, <2>1, OpenedIsFed, RejectedIsFed, LineTags DEF Headers
<1>3. CASE l.state # "odd" /\ l.tag = "D" /\ p.pend["V"] # <<>>
  <2>1. q = Extended(p, "V", l) \/ q = Rejected(p, "V")
    BY <1>3 DEF MeasurementFeed, MeasurementData, Taken
  <2> QED
    BY <1>3, <2>1, ExtendedIsFed, RejectedIsFed, LineTags
<1>4. CASE l.state # "odd" /\ l.tag = "P" /\ p.pend["V"] # <<>>
  <2>1. q = Extended(p, "V", l) \/ q = Rejected(p, "V")
    BY <1>4 DEF MeasurementFeed, MeasurementPga, Taken
  <2> QED
    BY <1>4, <2>1, ExtendedIsFed, RejectedIsFed, LineTags
<1>5. CASE l.state # "odd" /\ l.tag = "K" /\ p.pend["V"] # <<>>
  <2>1. q \in Closed(p, "V", l, Count(p, "V", "D") = Chunks /\ Count(p, "V", "P") = Chunks)
    BY <1>5 DEF MeasurementFeed, MeasurementTrailer
  <2> QED
    BY <1>5, <2>1, ClosedIsFed, LineTags
<1>6. CASE /\ l.state # "odd" /\ l.tag \notin {"V", "R"}
           /\ ~(l.tag \in {"D", "P", "K"} /\ p.pend["V"] # <<>>)
  <2>1. q = p
    BY <1>6 DEF MeasurementFeed
  <2> QED
    BY <1>6, <2>1, UntouchedIsFed, LineTags
<1> QED
  BY <1>1, <1>2, <1>3, <1>4, <1>5, <1>6

LEMMA MixedIsFed ==
  ASSUME NEW p \in StreamType, NEW l \in LineType, NEW q \in MixedFeed(p, l)
  PROVE  FedAlone(p, q, "M", l)
<1>1. CASE l.state = "odd"
  BY <1>1, RejectedIsFed, LineTags DEF MixedFeed
<1>2. CASE l.state # "odd" /\ l.tag = "M"
  <2>1. q = Opened(p, "M", l) \/ q = Rejected(p, "M")
    BY <1>2 DEF MixedFeed, MixedHeader, Taken
  <2> QED
    BY <1>2, <2>1, OpenedIsFed, RejectedIsFed, LineTags DEF Headers
<1>3. CASE l.state # "odd" /\ l.tag = "MR" /\ p.pend["M"] # <<>>
  <2>1. q = Extended(p, "M", l) \/ q = Rejected(p, "M")
    BY <1>3 DEF MixedFeed, MixedRow, Taken
  <2> QED
    BY <1>3, <2>1, ExtendedIsFed, RejectedIsFed, LineTags
<1>4. CASE l.state # "odd" /\ l.tag = "K" /\ p.pend["M"] # <<>>
  <2>1. q \in Closed(p, "M", l, Count(p, "M", "MR") = Chunks)
    BY <1>4 DEF MixedFeed, MixedTrailer
  <2> QED
    BY <1>4, <2>1, ClosedIsFed, LineTags
<1>5. CASE /\ l.state # "odd" /\ l.tag # "M"
           /\ ~(l.tag \in {"MR", "K"} /\ p.pend["M"] # <<>>)
  <2>1. q = p
    BY <1>5 DEF MixedFeed
  <2> QED
    BY <1>5, <2>1, UntouchedIsFed, LineTags
<1> QED
  BY <1>1, <1>2, <1>3, <1>4, <1>5

LEMMA FedIsAlone ==
  ASSUME NEW k \in Parsers, NEW p \in StreamType, NEW l \in LineType, NEW q \in Feed(k, p, l)
  PROVE  FedAlone(p, q, k, l)
BY CapIsFed, MeasurementIsFed, MixedIsFed DEF Feed, Parsers

-----------------------------------------------------------------------------
(* The routing between them *)

\* A state of the stream whose active frame type owns what is pending.
Ordered(p) == p \in StreamType /\ Owns(p)

LEMMA NothingActive ==
  ASSUME NEW p \in StreamType
  PROVE  /\ [p EXCEPT !.active = None] \in StreamType
         /\ [p EXCEPT !.active = None].active = None
         /\ [p EXCEPT !.active = None].pend = p.pend
         /\ [p EXCEPT !.active = None].out = p.out
BY DEF StreamType

LEMMA OwnerIsParser ==
  ASSUME NEW kind \in Headers
  PROVE  Owner(kind) \in Parsers /\ kind # None
BY KindsAssumption DEF Owner, Parsers, Headers

LEMMA ActivatedIsOrdered ==
  ASSUME NEW p, Ordered(p), NEW kind \in Headers
  PROVE  /\ Ordered(Activated(p, kind))
         /\ Activated(p, kind).active = kind
         /\ Activated(p, kind).out = p.out
<1> DEFINE r == IF p.active # None /\ Owner(p.active) # Owner(kind)
                THEN Rejected(p, Owner(p.active)) ELSE p
<1>1. p \in StreamType /\ Owns(p)
  BY DEF Ordered
<1>2. /\ r \in StreamType /\ r.out = p.out
      /\ \A k \in Parsers : r.pend[k] # <<>> => k = Owner(kind)
  <2>1. CASE p.active # None /\ Owner(p.active) # Owner(kind)
    <3>1. p.active \in Headers /\ Owner(p.active) \in Parsers
      BY <1>1, <2>1, OwnerIsParser DEF StreamType
    <3> DEFINE k == Owner(p.active)
    <3>3. r = [p EXCEPT !.pend[k] = <<>>]
      BY <2>1 DEF Rejected
    <3> HIDE DEF k, r
    <3>4. /\ r \in StreamType /\ r.out = p.out /\ r.pend[k] = <<>>
          /\ \A j \in Parsers \ {k} : r.pend[j] = p.pend[j]
      BY <1>1, <3>1, <3>3, PendingCleared DEF k
    <3> QED
      BY <1>1, <3>4 DEF Owns, k
  <2>2. CASE ~(p.active # None /\ Owner(p.active) # Owner(kind))
    BY <1>1, <2>2 DEF Owns
  <2> QED
    BY <2>1, <2>2
<1>3. Activated(p, kind) = [r EXCEPT !.active = kind]
  BY DEF Activated
<1> HIDE DEF r
<1>4. /\ [r EXCEPT !.active = kind] \in StreamType
      /\ [r EXCEPT !.active = kind].active = kind
      /\ [r EXCEPT !.active = kind].pend = r.pend
      /\ [r EXCEPT !.active = kind].out = r.out
  BY <1>2 DEF StreamType
<1> QED
  BY <1>2, <1>3, <1>4, OwnerIsParser DEF Ordered, Owns

\* A line given to a parser in an ordered state leaves it ordered, when the
\* parser is the owner of the active frame or the line begins none.
LEMMA FedKeepsOrder ==
  ASSUME NEW p, Ordered(p), NEW k \in Parsers, NEW l \in LineType, NEW q, FedAlone(p, q, k, l),
         \/ p.active # None /\ Owner(p.active) = k
         \/ l.tag \notin Headers
  PROVE  Ordered(q) /\ HandsOn(p, q, l)
<1>1. p \in StreamType /\ Owns(p)
  BY DEF Ordered
<1>2. ASSUME NEW j \in Parsers, q.pend[j] # <<>>
      PROVE  p.active # None /\ Owner(p.active) = j
  <2>1. CASE j = k
    BY <1>1, <1>2, <2>1 DEF FedAlone, Owns
  <2>2. CASE j # k
    BY <1>1, <1>2, <2>2 DEF FedAlone, Owns
  <2> QED
    BY <2>1, <2>2
<1> QED
  BY <1>2 DEF FedAlone, Ordered, Owns

LEMMA RoutedStep ==
  ASSUME NEW p, Ordered(p), NEW l \in LineType, l.state # "odd", NEW q \in Routed(p, l)
  PROVE  Ordered(q) /\ HandsOn(p, q, l)
<1> DEFINE active == IF p.active = None THEN "C" ELSE Owner(p.active)
<1>0. p \in StreamType /\ Owns(p)
  BY DEF Ordered
<1>a. active \in Parsers
  BY <1>0, OwnerIsParser, LineTags DEF StreamType
<1>1. CASE l.tag \in Headers
  <2>1. CASE q = p
    BY <2>1 DEF HandsOn
  <2>2. CASE q \in Feed(Owner(l.tag), Activated(p, l.tag), l)
    <3> DEFINE r == Activated(p, l.tag)
    <3>1. Ordered(r) /\ r.active = l.tag /\ r.out = p.out
      BY <1>1, ActivatedIsOrdered
    <3>2. Owner(l.tag) \in Parsers /\ l.tag # None
      BY <1>1, OwnerIsParser
    <3> HIDE DEF r
    <3>3. FedAlone(r, q, Owner(l.tag), l)
      BY <2>2, <3>1, <3>2, FedIsAlone DEF r, Ordered
    <3>4. Ordered(q) /\ HandsOn(r, q, l)
      BY <3>1, <3>2, <3>3, FedKeepsOrder
    <3> QED
      BY <3>1, <3>4 DEF HandsOn
  <2>3. q \in Feed(Owner(l.tag), Activated(p, l.tag), l)
               \cup (IF l.tag = "M" /\ l.state = "bad" THEN {p} ELSE {})
    BY <1>1, LineTags DEF Routed
  <2>4. q \in Feed(Owner(l.tag), Activated(p, l.tag), l) \/ q = p
    BY <2>3
  <2> QED
    BY <2>1, <2>2, <2>4
<1>2. CASE l.tag = "MR"
  <2>1. q \in MixedFeed(p, l)
    BY <1>2, LineTags DEF Routed
  <2> QED
    BY <1>0, <1>2, <2>1, MixedIsFed, FedKeepsOrder, LineTags
<1>3. CASE l.tag \in {"D", "P"}
  <2>1. q \in MeasurementFeed(p, l) \/ q \in CapFeed(p, l)
    BY <1>3, LineTags DEF Routed
  <2>2. l.tag \notin Headers
    BY <1>3, LineTags
  <2>3. FedAlone(p, q, "V", l) \/ FedAlone(p, q, "C", l)
    BY <1>0, <2>1, MeasurementIsFed, CapIsFed
  <2> QED
    BY <2>2, <2>3, FedKeepsOrder, LineTags
<1>4. CASE l.tag = "K"
  <2> DEFINE r == [p EXCEPT !.active = None]
  <2>1. r \in StreamType /\ r.active = None /\ r.pend = p.pend /\ r.out = p.out
    BY <1>0, NothingActive
  <2>2. q \in Feed(active, r, l)
    BY <1>4, LineTags DEF Routed
  <2> HIDE DEF r
  <2>3. FedAlone(r, q, active, l)
    BY <1>a, <2>1, <2>2, FedIsAlone
  <2>4. ASSUME NEW j \in Parsers
        PROVE  q.pend[j] = <<>>
    <3>1. CASE j = active
      BY <1>4, <2>3, <3>1 DEF FedAlone
    <3>2. CASE j # active
      BY <1>0, <2>1, <2>3, <3>2 DEF FedAlone, Owns
    <3> QED
      BY <3>1, <3>2
  <2> QED
    BY <2>1, <2>3, <2>4 DEF FedAlone, HandsOn, Ordered, Owns
<1>5. CASE l.tag \notin Headers \cup {"MR", "D", "P", "K"}
  <2>1. q \in CapFeed(p, l)
    BY <1>5 DEF Routed
  <2> QED
    BY <1>0, <1>5, <2>1, CapIsFed, FedKeepsOrder, LineTags
<1> QED
  BY <1>1, <1>2, <1>3, <1>4, <1>5

\* A header behind a cut line takes the place of the active frame.
LEMMA ActiveResetStep ==
  ASSUME NEW p, Ordered(p)
  PROVE  Ordered(ActiveReset(p)) /\ ActiveReset(p).out = p.out
<1>0. p \in StreamType /\ Owns(p)
  BY DEF Ordered
<1> DEFINE r == IF p.active = None THEN p ELSE Rejected(p, Owner(p.active))
<1>1. /\ r \in StreamType /\ r.out = p.out
      /\ \A k \in Parsers : r.pend[k] = <<>>
  <2>1. CASE p.active = None
    BY <1>0, <2>1 DEF Owns
  <2>2. CASE p.active # None
    <3> DEFINE k == Owner(p.active)
    <3>1. k \in Parsers
      BY <1>0, <2>2, OwnerIsParser DEF StreamType
    <3>2. r = [p EXCEPT !.pend[k] = <<>>]
      BY <2>2 DEF Rejected
    <3> HIDE DEF k, r
    <3>3. /\ r \in StreamType /\ r.out = p.out /\ r.pend[k] = <<>>
          /\ \A j \in Parsers \ {k} : r.pend[j] = p.pend[j]
      BY <1>0, <3>1, <3>2, PendingCleared
    <3> QED
      BY <1>0, <3>3 DEF Owns, k
  <2> QED
    BY <2>1, <2>2
<1>2. ActiveReset(p) = [r EXCEPT !.active = None]
  BY DEF ActiveReset
<1> HIDE DEF r
<1>3. /\ [r EXCEPT !.active = None] \in StreamType
      /\ [r EXCEPT !.active = None].pend = r.pend
      /\ [r EXCEPT !.active = None].out = r.out
  BY <1>1, NothingActive
<1> QED
  BY <1>1, <1>2, <1>3 DEF Ordered, Owns

\* A line that is not ASCII goes to the parser of the active frame as it is.
LEMMA FeedLineStep ==
  ASSUME NEW p, Ordered(p), NEW l \in LineType, NEW q \in FeedLine(p, l)
  PROVE  Ordered(q) /\ HandsOn(p, q, l)
<1>0. p \in StreamType /\ Owns(p)
  BY DEF Ordered
<1>1. CASE l.state = "odd" /\ p.active = None
  BY <1>1 DEF FeedLine, HandsOn
<1>2. CASE l.state = "odd" /\ p.active # None
  <2>1. Owner(p.active) \in Parsers
    BY <1>0, <1>2, OwnerIsParser DEF StreamType
  <2>2. q \in Feed(Owner(p.active), p, l)
    BY <1>2 DEF FeedLine
  <2> QED
    BY <1>0, <1>2, <2>1, <2>2, FedIsAlone, FedKeepsOrder
<1>3. CASE l.state # "odd" /\ q \in Routed(p, l)
  BY <1>3, RoutedStep
<1>4. CASE l.state # "odd" /\ l.inner.tag \in Headers \cup {""} /\ q \in Routed(ActiveReset(p), HeaderLine(l.inner))
  <2> DEFINE h == HeaderLine(l.inner)
             r == ActiveReset(p)
  <2>1. h \in LineType /\ h.state # "odd" /\ h.tag = l.inner.tag
    <3> DEFINE b == Line(l.inner.tag, l.inner.frame, 0)
               s == IF l.inner.whole THEN "ok" ELSE "bad"
    <3>1. l.inner.tag \in LineTag /\ l.inner.frame \in 0 .. MaxFrames
      BY <1>4 DEF LineType, LineTag
    <3>2. b \in LineType /\ b.tag = l.inner.tag
      BY <3>1, LineTyped, ZeroIndex
    <3>3. h = [b EXCEPT !.state = s]
      BY DEF HeaderLine
    <3>4. s \in {"ok", "bad", "odd"} /\ s # "odd"
      OBVIOUS
    <3> HIDE DEF b, s, h
    <3> QED
      BY <3>2, <3>3, <3>4, StateSet
  <2>2. Ordered(r) /\ r.out = p.out
    BY <1>0, ActiveResetStep
  <2>3. h.tag # "K"
    BY <1>4, <2>1 DEF Headers
  <2> HIDE DEF h, r
  <2>4. Ordered(q) /\ HandsOn(r, q, h)
    BY <1>4, <2>1, <2>2, RoutedStep DEF h, r
  <2> QED
    BY <2>2, <2>3, <2>4 DEF HandsOn
<1>5. l.state # "odd" => q \in Routed(ActiveReset(p), HeaderLine(l.inner)) \/ q \in Routed(p, l)
  BY DEF FeedLine
<1>6. l.inner.tag \in Headers \cup {""}
  BY DEF LineType
<1> QED
  BY <1>1, <1>2, <1>3, <1>4, <1>5, <1>6

-----------------------------------------------------------------------------
(* The lines of a frame *)

LEMMA NumberedTyped ==
  ASSUME NEW tag \in LineTag, NEW f \in 0 .. MaxFrames, NEW first \in {0, 1}
  PROVE  /\ Numbered(tag, f, first) \in Seq(LineType)
         /\ Len(Numbered(tag, f, first)) = Chunks
         /\ \A i \in 1 .. Chunks :
              Numbered(tag, f, first)[i].tag = tag /\ Numbered(tag, f, first)[i].frame = f
<1>1. ASSUME NEW i \in 1 .. Chunks
      PROVE  /\ Line(tag, f, i - 1 + first) \in LineType
             /\ Line(tag, f, i - 1 + first).tag = tag /\ Line(tag, f, i - 1 + first).frame = f
  <2>1. i - 1 + first \in 0 .. Chunks
    BY ChunksAssumption
  <2> QED
    BY <2>1, LineTyped
<1> HIDE DEF Line, LineType
<1> QED
  BY <1>1, ChunksAssumption DEF Numbered

\* n lines of frame f, none of them a trailer.
OwnLines(s, n, f) ==
  /\ s \in Seq(LineType) /\ Len(s) = n
  /\ \A i \in 1 .. n : s[i].tag # "K" /\ s[i].frame = f

LEMMA OwnLinesJoin ==
  ASSUME NEW s, NEW t, NEW m \in Nat, NEW n \in Nat, NEW f, OwnLines(s, m, f), OwnLines(t, n, f)
  PROVE  OwnLines(s \o t, m + n, f)
<1>1. /\ s \in Seq(LineType) /\ t \in Seq(LineType) /\ Len(s) = m /\ Len(t) = n
      /\ \A i \in 1 .. m : s[i].tag # "K" /\ s[i].frame = f
      /\ \A i \in 1 .. n : t[i].tag # "K" /\ t[i].frame = f
  BY DEF OwnLines
<1> HIDE DEF LineType
<1>2. s \o t \in Seq(LineType) /\ Len(s \o t) = m + n
  BY <1>1
<1>3. ASSUME NEW i \in 1 .. m + n
      PROVE  (s \o t)[i].tag # "K" /\ (s \o t)[i].frame = f
  <2>1. CASE i <= m
    <3>1. (s \o t)[i] = s[i] /\ i \in 1 .. m
      BY <1>1, <2>1
    <3> QED
      BY <1>1, <3>1
  <2>2. CASE i > m
    <3>1. (s \o t)[i] = t[i - m] /\ i - m \in 1 .. n
      BY <1>1, <2>2
    <3> QED
      BY <1>1, <3>1
  <2>3. i <= m \/ i > m
    OBVIOUS
  <2> QED
    BY <2>1, <2>2, <2>3
<1> QED
  BY <1>2, <1>3 DEF OwnLines

\* No trailer but the last line; every line names its frame.
LEMMA BodyTyped ==
  ASSUME NEW k \in Headers, NEW f \in 0 .. MaxFrames
  PROVE  \E n \in 1 .. 2 * Chunks + 1 : OwnLines(Body(k, f), n, f)
<1> DEFINE h == <<Line(k, f, 0)>>
           d == Numbered("D", f, 0)
           pga == Numbered("P", f, 0)
           mr == Numbered("MR", f, 1)
<1>1. OwnLines(h, 1, f)
  <2>1. k \in LineTag
    BY DEF LineTag
  <2>2. k # "K"
    BY DEF Headers
  <2>3. Line(k, f, 0) \in LineType /\ Line(k, f, 0).tag = k /\ Line(k, f, 0).frame = f
    BY <2>1, LineTyped, ZeroIndex
  <2> HIDE DEF LineType, Line
  <2>4. h \in Seq(LineType) /\ Len(h) = 1 /\ h[1] = Line(k, f, 0)
    BY <2>3
  <2> QED
    BY <2>2, <2>3, <2>4 DEF OwnLines
<1>2. OwnLines(d, Chunks, f) /\ OwnLines(pga, Chunks, f) /\ OwnLines(mr, Chunks, f)
  <2>1. "D" \in LineTag /\ "P" \in LineTag /\ "MR" \in LineTag
    BY DEF LineTag
  <2>2. OwnLines(d, Chunks, f)
    BY <2>1, NumberedTyped DEF OwnLines
  <2>3. OwnLines(pga, Chunks, f)
    BY <2>1, NumberedTyped DEF OwnLines
  <2>4. OwnLines(mr, Chunks, f)
    BY <2>1, NumberedTyped DEF OwnLines
  <2> QED
    BY <2>2, <2>3, <2>4
<1>3. Chunks \in Nat \ {0}
  BY ChunksAssumption
<1>4. Body(k, f) = h \o (CASE k = "C" -> d [] k = "M" -> mr [] OTHER -> d \o pga)
  BY DEF Body
<1> HIDE DEF h, d, pga, mr
<1>5. CASE k = "C"
  <2>1. Body(k, f) = h \o d
    BY <1>4, <1>5
  <2>2. OwnLines(Body(k, f), 1 + Chunks, f)
    BY <1>1, <1>2, <1>3, <2>1, OwnLinesJoin
  <2> QED
    BY <1>3, <2>2
<1>6. CASE k = "M"
  <2>1. Body(k, f) = h \o mr
    BY <1>4, <1>6
  <2>2. OwnLines(Body(k, f), 1 + Chunks, f)
    BY <1>1, <1>2, <1>3, <2>1, OwnLinesJoin
  <2> QED
    BY <1>3, <2>2
<1>7. CASE k # "C" /\ k # "M"
  <2>1. Body(k, f) = h \o (d \o pga)
    BY <1>4, <1>7
  <2>2. OwnLines(d \o pga, Chunks + Chunks, f)
    BY <1>2, <1>3, OwnLinesJoin
  <2>3. OwnLines(Body(k, f), 1 + (Chunks + Chunks), f)
    BY <1>1, <1>3, <2>1, <2>2, OwnLinesJoin
  <2> QED
    BY <1>3, <2>3
<1> QED
  BY <1>5, <1>6, <1>7

\* The lines that follow one another on the wire.
WholeFrame(lines, f) ==
  /\ lines \in Seq(LineType)
  /\ Len(lines) \in 1 .. 2 * Chunks + 2
  /\ \A i \in 1 .. Len(lines) : lines[i].frame = f /\ (lines[i].tag = "K" <=> i = Len(lines))

LEMMA FrameLines ==
  ASSUME NEW kind \in Headers, NEW f \in 0 .. MaxFrames
  PROVE  WholeFrame(Append(Body(kind, f), Line("K", f, 0)), f)
<1> DEFINE b == Body(kind, f)
           k == Line("K", f, 0)
<1>1. PICK n \in 1 .. 2 * Chunks + 1 : OwnLines(b, n, f)
  BY BodyTyped
<1>2. k \in LineType /\ k.tag = "K" /\ k.frame = f
  BY LineTyped, ZeroIndex DEF LineTag
<1> DEFINE lines == Append(b, k)
<1> HIDE DEF b, k, LineType
<1>4. n \in Nat /\ n + 1 \in 1 .. 2 * Chunks + 2
  BY ChunksAssumption
<1>5. /\ b \in Seq(LineType) /\ Len(b) = n
      /\ \A i \in 1 .. n : b[i].tag # "K" /\ b[i].frame = f
  BY <1>1 DEF OwnLines
<1>6. /\ lines \in Seq(LineType) /\ Len(lines) = n + 1
      /\ lines[n + 1] = k /\ \A i \in 1 .. n : lines[i] = b[i]
  BY <1>2, <1>5
<1> HIDE DEF lines
<1>7. \A i \in 1 .. n + 1 : i \in 1 .. n \/ i = n + 1
  BY <1>4
<1>8. \A i \in 1 .. n + 1 : lines[i].frame = f /\ (lines[i].tag = "K" <=> i = n + 1)
  <2> SUFFICES ASSUME NEW i \in 1 .. n + 1
               PROVE  lines[i].frame = f /\ (lines[i].tag = "K" <=> i = n + 1)
    OBVIOUS
  <2>1. CASE i = n + 1
    BY <1>2, <1>6, <2>1
  <2>2. CASE i \in 1 .. n
    <3>1. lines[i] = b[i] /\ b[i].tag # "K" /\ b[i].frame = f /\ i # n + 1
      BY <1>4, <1>5, <1>6, <2>2
    <3> QED
      BY <3>1
  <2> QED
    BY <1>7, <2>1, <2>2
<1> QED
  <2>1. WholeFrame(lines, f)
    BY <1>4, <1>6, <1>8 DEF WholeFrame
  <2> QED
    BY <2>1 DEF lines, b, k

LEMMA KindTyped ==
  ASSUME NEW s \in Seq(Kinds), NEW f \in 1 .. Len(s), Len(s) <= MaxFrames
  PROVE  s[f] \in Headers /\ f \in 0 .. MaxFrames
<1>1. s[f] \in Kinds /\ Len(s) \in Nat
  OBVIOUS
<1>2. s[f] \in Headers
  BY <1>1, KindsAssumption DEF Headers
<1>3. f \in 0 .. MaxFrames
  BY <1>1, NaturalBounds
<1> QED
  BY <1>2, <1>3

\* A line behind the text of a cut line has the tag and the frame of the first.
LEMMA MergedTyped ==
  ASSUME NEW c \in LineType, NEW l \in LineType
  PROVE  Merged(c, l) \in LineType /\ Merged(c, l).tag = c.tag /\ Merged(c, l).frame = c.frame
<1> DEFINE InnerType == [tag : Headers \cup {""}, frame : 0 .. MaxFrames, whole : BOOLEAN]
           s == IF "odd" \in {c.state, l.state} THEN "odd" ELSE "bad"
           n == IF \/ l.tag \in {"C", "V", "R"} /\ l.state = "ok"
                   \/ l.tag \in Headers /\ c.inner = NoHeader
                THEN [tag |-> l.tag, frame |-> l.frame, whole |-> l.state = "ok"]
                ELSE [c.inner EXCEPT !.whole = FALSE]
<1>1. c.inner \in InnerType /\ l.frame \in 0 .. MaxFrames
  BY DEF LineType
<1>2. [c.inner EXCEPT !.whole = FALSE] \in InnerType
  BY <1>1
<1>3. \A w \in BOOLEAN : l.tag \in Headers => [tag |-> l.tag, frame |-> l.frame, whole |-> w] \in InnerType
  BY <1>1
<1>4. {"C", "V", "R"} \subseteq Headers /\ (l.state = "ok") \in BOOLEAN
  BY DEF Headers
<1> HIDE DEF InnerType
<1>5. n \in InnerType
  BY <1>2, <1>3, <1>4
<1>6. s \in {"ok", "bad", "odd"}
  OBVIOUS
<1>7. Merged(c, l) = [c EXCEPT !.state = s, !.inner = n]
  BY DEF Merged
<1> HIDE DEF s, n
<1> QED
  BY <1>5, <1>6, <1>7 DEF LineType, InnerType

-----------------------------------------------------------------------------
(* The invariant *)

AssemblyInv ==
  /\ TypeOK
  /\ Ordered(parser)
  /\ Begun = 0 => pos = 0
  /\ Begun > 0 => pos <= Len(Lines(Begun))

LEMMA InitHolds == Init => AssemblyInv
<1> SUFFICES ASSUME Init PROVE AssemblyInv
  OBVIOUS
<1>1. kinds = <<>> /\ wire = <<>> /\ buffer = <<>> /\ Begun = 0
  BY DEF Init, Begun
<1>2. "" \in LineTag /\ 0 \in 0 .. MaxFrames
  BY BoundsAssumption DEF LineTag
<1>3. cut \in LineType
  BY <1>2, LineTyped, ZeroIndex DEF Init, NoLine
<1>4. /\ parser.active = None /\ parser.pend = [k \in Parsers |-> <<>>] /\ parser.out = <<>>
      /\ parser = [active |-> parser.active, pend |-> parser.pend, out |-> parser.out]
  BY DEF Init, FreshState
<1> HIDE DEF LineType
<1>5. parser \in StreamType
  <2>1. <<>> \in Seq(LineType) /\ <<>> \in Seq(Seq(LineType))
    OBVIOUS
  <2>2. [k \in Parsers |-> <<>>] \in [Parsers -> Seq(LineType)]
    BY <2>1
  <2> QED
    BY <1>4, <2>1, <2>2 DEF StreamType
<1>6. Owns(parser)
  BY <1>4 DEF Owns
<1>7. TypeOK
  <2>1. kinds \in Seq(Kinds) /\ wire \in Seq(LineType) /\ buffer \in Seq(LineType)
    BY <1>1
  <2>2. Begun <= MaxFrames /\ pos \in 0 .. 2 * Chunks + 2 /\ faults \in 0 .. MaxFaults
    BY <1>1, NaturalBounds, ChunksAssumption DEF Init
  <2>3. damaged \cup spliced \subseteq 0 .. MaxFrames /\ feeding \in BOOLEAN
    BY DEF Init
  <2>4. /\ parser.active \in Headers \cup {None} /\ parser.pend \in [Parsers -> Seq(LineType)]
        /\ parser.out \in Seq(Seq(LineType))
    BY <1>5 DEF StreamType
  <2> QED
    BY <1>3, <2>1, <2>2, <2>3, <2>4 DEF TypeOK
<1> QED
  BY <1>1, <1>5, <1>6, <1>7 DEF AssemblyInv, Ordered, Init

LEMMA PutStep ==
  ASSUME AssemblyInv, NEW l \in LineType, NEW ended \in BOOLEAN, Put(l, ended)
  PROVE  /\ wire' \in Seq(LineType) /\ cut' \in LineType
         /\ damaged' \cup spliced' \subseteq 0 .. MaxFrames
         /\ UNCHANGED <<buffer, feeding, parser>>
<1> DEFINE m == IF cut = NoLine THEN l ELSE Merged(cut, l)
<1>1. /\ wire \in Seq(LineType) /\ cut \in LineType
      /\ damaged \cup spliced \subseteq 0 .. MaxFrames
  BY DEF AssemblyInv, TypeOK
<1>2. m \in LineType
  BY <1>1, MergedTyped
<1>3. NoLine \in LineType
  <2>1. "" \in LineTag /\ 0 \in 0 .. MaxFrames
    BY NaturalBounds DEF LineTag
  <2> QED
    BY <2>1, LineTyped, ZeroIndex DEF NoLine
<1>4. l.frame \in 0 .. MaxFrames
  BY DEF LineType
<1>5. /\ wire' = IF ended THEN Append(wire, m) ELSE wire
      /\ cut' = IF ended THEN NoLine ELSE m
      /\ damaged' \subseteq damaged \cup {l.frame}
      /\ spliced' \subseteq spliced \cup {l.frame}
      /\ UNCHANGED <<buffer, feeding, parser>>
  BY DEF Put
<1> HIDE DEF m, LineType
<1>6. wire' \in Seq(LineType)
  BY <1>1, <1>2, <1>5
<1> QED
  BY <1>1, <1>2, <1>3, <1>4, <1>5, <1>6

\* The line that leaves the device next, while a frame is unfinished.
LEMMA OutgoingTyped ==
  ASSUME AssemblyInv, Begun > 0, ~Finished(Begun)
  PROVE  /\ Outgoing \in LineType /\ Outgoing.frame = Begun
         /\ Outgoing.tag = "K" <=> pos + 1 = Len(Lines(Begun))
         /\ pos + 1 \in 1 .. Len(Lines(Begun)) /\ pos + 1 \in 0 .. 2 * Chunks + 2
<1>1. kinds \in Seq(Kinds) /\ Begun \in 1 .. Begun /\ Begun <= MaxFrames
  BY DEF AssemblyInv, TypeOK, Begun
<1>2. /\ Lines(Begun) \in Seq(LineType)
      /\ Len(Lines(Begun)) \in 1 .. 2 * Chunks + 2
      /\ \A i \in 1 .. Len(Lines(Begun)) :
           Lines(Begun)[i].frame = Begun /\ (Lines(Begun)[i].tag = "K" <=> i = Len(Lines(Begun)))
  <2>1. kinds[Begun] \in Headers /\ Begun \in 0 .. MaxFrames
    BY <1>1, KindTyped DEF Begun
  <2>2. Lines(Begun) = Append(Body(kinds[Begun], Begun), Line("K", Begun, 0))
    BY DEF Lines
  <2>3. WholeFrame(Append(Body(kinds[Begun], Begun), Line("K", Begun, 0)), Begun)
    BY <2>1, FrameLines
  <2> QED
    BY <2>2, <2>3, Zenon DEF WholeFrame
<1>3. pos \in Nat /\ pos # Len(Lines(Begun)) /\ pos <= Len(Lines(Begun))
  BY DEF AssemblyInv, TypeOK, Finished
<1> HIDE DEF LineType
<1>4. pos + 1 \in 1 .. Len(Lines(Begun)) /\ pos + 1 \in 0 .. 2 * Chunks + 2
  BY <1>2, <1>3, ChunksAssumption
<1> QED
  BY <1>2, <1>4 DEF Outgoing

\* A step of the device that sends its next line, or loses it.
LEMMA SendingKeeps ==
  ASSUME AssemblyInv, Sends, faults' \in 0 .. MaxFaults,
         wire' \in Seq(LineType), cut' \in LineType,
         damaged' \cup spliced' \subseteq 0 .. MaxFrames,
         UNCHANGED <<buffer, feeding, parser>>
  PROVE  AssemblyInv'
<1>1. Begun > 0 /\ ~Finished(Begun) /\ pos' = pos + 1 /\ kinds' = kinds
  BY DEF Sends
<1>2. pos + 1 \in 1 .. Len(Lines(Begun)) /\ pos + 1 \in 0 .. 2 * Chunks + 2
  BY <1>1, OutgoingTyped
<1>3. Begun' = Begun /\ Lines(Begun)' = Lines(Begun)
  BY <1>1 DEF Begun, Lines
<1>4. Ordered(parser)' /\ parser' \in StreamType
  BY DEF AssemblyInv, Ordered, Owns
<1>5. TypeOK'
  BY <1>1, <1>2, <1>3, <1>4 DEF AssemblyInv, TypeOK, StreamType
<1>6. pos' <= Len(Lines(Begun))'
  BY <1>1, <1>2, <1>3
<1> QED
  BY <1>1, <1>3, <1>4, <1>5, <1>6 DEF AssemblyInv

LEMMA BeginKeeps == AssemblyInv /\ Begin => AssemblyInv'
<1> SUFFICES ASSUME AssemblyInv, Begin PROVE AssemblyInv'
  OBVIOUS
<1>1. PICK k \in Kinds : kinds' = Append(kinds, k)
  BY DEF Begin
<1>2. kinds \in Seq(Kinds) /\ Begun < MaxFrames /\ pos' = 0
  BY DEF AssemblyInv, TypeOK, Begin
<1>3. kinds' \in Seq(Kinds) /\ Len(kinds') = Len(kinds) + 1 /\ Len(kinds) \in Nat
  BY <1>1, <1>2
<1>4. Begun' \in 1 .. MaxFrames
  BY <1>2, <1>3, NaturalBounds DEF Begun
<1>5. Ordered(parser)'
  BY DEF Begin, AssemblyInv, Ordered, Owns
<1>6. TypeOK'
  BY <1>2, <1>3, <1>4, ChunksAssumption DEF Begin, AssemblyInv, TypeOK
<1>7. pos' <= Len(Lines(Begun))'
  <2>1. kinds'[Begun'] \in Headers /\ Begun' \in 0 .. MaxFrames
    BY <1>3, <1>4, KindTyped DEF Begun
  <2>2. Lines(Begun)' = Append(Body(kinds'[Begun'], Begun'), Line("K", Begun', 0))
    BY DEF Lines
  <2>3. WholeFrame(Append(Body(kinds'[Begun'], Begun'), Line("K", Begun', 0)), Begun')
    BY <2>1, FrameLines
  <2>4. Len(Lines(Begun)') \in 1 .. 2 * Chunks + 2
    BY <2>2, <2>3, Zenon DEF WholeFrame
  <2> QED
    BY <1>2, <2>4, ChunksAssumption
<1> QED
  BY <1>2, <1>5, <1>6, <1>7 DEF AssemblyInv

LEMMA SendKeeps == AssemblyInv /\ Send => AssemblyInv'
<1> SUFFICES ASSUME AssemblyInv, Send PROVE AssemblyInv'
  OBVIOUS
<1>1. Sends /\ Put(Outgoing, TRUE) /\ faults' \in 0 .. MaxFaults
  BY DEF Send, AssemblyInv, TypeOK
<1>2. Outgoing \in LineType
  BY <1>1, OutgoingTyped DEF Sends
<1> QED
  BY <1>1, <1>2, PutStep, SendingKeeps

LEMMA FaultCounted ==
  ASSUME AssemblyInv, Fails
  PROVE  faults' \in 0 .. MaxFaults
BY NaturalBounds DEF AssemblyInv, TypeOK, Fails

LEMMA DamageKeeps == AssemblyInv /\ Damage => AssemblyInv'
<1> SUFFICES ASSUME AssemblyInv, Damage PROVE AssemblyInv'
  OBVIOUS
<1>1. PICK s \in {"bad", "odd"} : Put([Outgoing EXCEPT !.state = s], TRUE)
  BY DEF Damage
<1>2. Sends /\ faults' \in 0 .. MaxFaults
  BY FaultCounted DEF Damage
<1>3. [Outgoing EXCEPT !.state = s] \in LineType
  <2>1. Outgoing \in LineType
    BY <1>2, OutgoingTyped DEF Sends
  <2> QED
    BY <2>1, StateSet
<1> HIDE DEF LineType
<1> QED
  BY <1>1, <1>2, <1>3, PutStep, SendingKeeps

LEMMA CutShortKeeps == AssemblyInv /\ CutShort => AssemblyInv'
<1> SUFFICES ASSUME AssemblyInv, CutShort PROVE AssemblyInv'
  OBVIOUS
<1>1. Sends /\ Put(Outgoing, FALSE) /\ faults' \in 0 .. MaxFaults
  BY FaultCounted DEF CutShort
<1>2. Outgoing \in LineType
  BY <1>1, OutgoingTyped DEF Sends
<1> QED
  BY <1>1, <1>2, PutStep, SendingKeeps

LEMMA LoseKeeps == AssemblyInv /\ Lose => AssemblyInv'
<1> SUFFICES ASSUME AssemblyInv, Lose PROVE AssemblyInv'
  OBVIOUS
<1>1. Sends /\ faults' \in 0 .. MaxFaults
  BY FaultCounted DEF Lose
<1>2. Begun \in 0 .. MaxFrames
  BY NaturalBounds DEF AssemblyInv, TypeOK, Begun
<1>3. /\ wire' \in Seq(LineType) /\ cut' \in LineType
      /\ damaged' \cup spliced' \subseteq 0 .. MaxFrames
      /\ UNCHANGED <<buffer, feeding, parser>>
  BY <1>2 DEF Lose, AssemblyInv, TypeOK
<1> QED
  BY <1>1, <1>3, SendingKeeps

\* A step that leaves the frames of the device as they are.
LEMMA OthersKeep ==
  ASSUME AssemblyInv, UNCHANGED <<kinds, pos>>,
         wire' \in Seq(LineType), buffer' \in Seq(LineType), cut' \in LineType,
         faults' \in 0 .. MaxFaults, damaged' \cup spliced' \subseteq 0 .. MaxFrames,
         feeding' \in BOOLEAN, Ordered(parser')
  PROVE  AssemblyInv'
<1>1. Begun' = Begun /\ Lines(Begun)' = Lines(Begun)
  BY DEF Begun, Lines
<1>2. TypeOK'
  BY <1>1 DEF AssemblyInv, TypeOK, Ordered, StreamType
<1> QED
  BY <1>1, <1>2 DEF AssemblyInv, Ordered, Owns

LEMMA LogKeeps == AssemblyInv /\ Log => AssemblyInv'
<1> SUFFICES ASSUME AssemblyInv, Log PROVE AssemblyInv'
  OBVIOUS
<1>1. PICK ended \in BOOLEAN : Put(LogLine, ended)
  BY DEF Log
<1>2. UNCHANGED <<kinds, pos>> /\ faults' \in 0 .. MaxFaults
  BY FaultCounted DEF Log
<1>3. LogLine \in LineType
  <2>1. "LOG" \in LineTag /\ 0 \in 0 .. MaxFrames
    BY NaturalBounds DEF LineTag
  <2> QED
    BY <2>1, LineTyped, ZeroIndex DEF LogLine
<1> HIDE DEF LineType, LogLine
<1>4. /\ wire' \in Seq(LineType) /\ cut' \in LineType
      /\ damaged' \cup spliced' \subseteq 0 .. MaxFrames
      /\ UNCHANGED <<buffer, feeding, parser>>
  BY <1>1, <1>3, PutStep
<1>5. buffer' \in Seq(LineType) /\ feeding' \in BOOLEAN /\ Ordered(parser')
  BY <1>4 DEF AssemblyInv, TypeOK
<1> QED
  BY <1>2, <1>4, <1>5, OthersKeep

LEMMA ReceiveKeeps == AssemblyInv /\ Receive => AssemblyInv'
<1> SUFFICES ASSUME AssemblyInv, Receive PROVE AssemblyInv'
  OBVIOUS
<1>1. wire' \in Seq(LineType) /\ buffer' \in Seq(LineType) /\ feeding' \in BOOLEAN
  BY DEF Receive, AssemblyInv, TypeOK
<1>2. /\ UNCHANGED <<kinds, pos>> /\ cut' \in LineType /\ faults' \in 0 .. MaxFaults
      /\ damaged' \cup spliced' \subseteq 0 .. MaxFrames /\ Ordered(parser')
  BY DEF Receive, device, AssemblyInv, TypeOK
<1> QED
  BY <1>1, <1>2, OthersKeep

LEMMA FeedNextKeeps == AssemblyInv /\ FeedNext => AssemblyInv'
<1> SUFFICES ASSUME AssemblyInv, FeedNext PROVE AssemblyInv'
  OBVIOUS
<1> HIDE DEF LineType
<1>1. Head(buffer) \in LineType /\ buffer' \in Seq(LineType)
  BY DEF FeedNext, AssemblyInv, TypeOK
<1>2. Ordered(parser')
  BY <1>1, FeedLineStep DEF FeedNext, AssemblyInv
<1>3. /\ UNCHANGED <<kinds, pos>> /\ wire' \in Seq(LineType) /\ cut' \in LineType
      /\ faults' \in 0 .. MaxFaults /\ feeding' \in BOOLEAN
      /\ damaged' \cup spliced' \subseteq 0 .. MaxFrames
  BY DEF FeedNext, device, AssemblyInv, TypeOK
<1> QED
  BY <1>1, <1>2, <1>3, OthersKeep

\* The time-out ends every pending frame; a finished frame is not active.
LEMMA EndChunkOrders ==
  ASSUME NEW p, Ordered(p), NEW late \in BOOLEAN
  PROVE  /\ Ordered(Deactivated(TimedOut(p, late))) /\ Deactivated(TimedOut(p, late)).out = p.out
         /\ \A k \in Parsers :
              Deactivated(TimedOut(p, late)).pend[k] = IF late THEN <<>> ELSE p.pend[k]
<1>0. p \in StreamType /\ Owns(p)
  BY DEF Ordered
<1> DEFINE g == [k \in Parsers |-> IF late THEN <<>> ELSE p.pend[k]]
           r == TimedOut(p, late)
<1>1. g \in [Parsers -> Seq(LineType)]
  <2>1. <<>> \in Seq(LineType) /\ \A k \in Parsers : p.pend[k] \in Seq(LineType)
    BY <1>0 DEF StreamType
  <2> QED
    BY <2>1
<1>2. r = [p EXCEPT !.pend = g]
  BY DEF TimedOut
<1> HIDE DEF g, r
<1>3. r \in StreamType /\ r.active = p.active /\ r.out = p.out /\ r.pend = g
  BY <1>0, <1>1, <1>2 DEF StreamType
<1>4. \A k \in Parsers : g[k] = IF late THEN <<>> ELSE p.pend[k]
  BY DEF g
<1>5. Ordered(r)
  <2>1. ASSUME NEW k \in Parsers, g[k] # <<>>
        PROVE  p.pend[k] # <<>>
    BY <2>1 DEF g
  <2> QED
    BY <1>0, <1>3, <2>1 DEF Ordered, Owns
<1>6. CASE r.active # None /\ r.pend[Owner(r.active)] = <<>>
  <2> DEFINE q == [r EXCEPT !.active = None]
  <2>1. Deactivated(r) = q
    BY <1>6 DEF Deactivated
  <2>2. q \in StreamType /\ q.pend = r.pend /\ q.out = r.out
    BY <1>3, NothingActive
  <2> HIDE DEF q
  <2>3. \A k \in Parsers : q.pend[k] = <<>>
    BY <1>5, <1>6, <2>2 DEF Ordered, Owns
  <2>4. Ordered(q)
    BY <2>2, <2>3 DEF Ordered, Owns
  <2> QED
    BY <1>3, <1>4, <2>1, <2>2, <2>4 DEF r
<1>7. CASE ~(r.active # None /\ r.pend[Owner(r.active)] = <<>>)
  <2>1. Deactivated(r) = r
    BY <1>7 DEF Deactivated
  <2> QED
    BY <1>3, <1>5, <1>4, <2>1 DEF r
<1> QED
  BY <1>6, <1>7

LEMMA EndChunkKeeps == AssemblyInv /\ EndChunk => AssemblyInv'
<1> SUFFICES ASSUME AssemblyInv, EndChunk PROVE AssemblyInv'
  OBVIOUS
<1>1. PICK late \in BOOLEAN :
        /\ late => PendingFrames # {} /\ faults < MaxFaults
        /\ faults' = IF late THEN faults + 1 ELSE faults
        /\ damaged' = IF late THEN damaged \cup PendingFrames ELSE damaged
        /\ parser' = Deactivated(TimedOut(parser, late))
  BY DEF EndChunk
<1>2. Ordered(parser')
  BY <1>1, EndChunkOrders DEF AssemblyInv
<1>3. PendingFrames \subseteq 0 .. MaxFrames
  <2>1. ASSUME NEW k \in Parsers, parser.pend[k] # <<>>
        PROVE  parser.pend[k][1].frame \in 0 .. MaxFrames
    <3>1. parser.pend[k] \in Seq(LineType)
      BY DEF AssemblyInv, TypeOK
    <3> HIDE DEF LineType
    <3>2. parser.pend[k][1] \in LineType
      BY <2>1, <3>1
    <3> QED
      BY <3>2 DEF LineType
  <2> QED
    BY <2>1 DEF PendingFrames
<1>4. faults' \in 0 .. MaxFaults
  BY <1>1, NaturalBounds DEF AssemblyInv, TypeOK
<1>5. damaged' \cup spliced' \subseteq 0 .. MaxFrames
  BY <1>1, <1>3 DEF EndChunk, AssemblyInv, TypeOK
<1>6. /\ UNCHANGED <<kinds, pos>> /\ wire' \in Seq(LineType) /\ buffer' \in Seq(LineType)
      /\ cut' \in LineType /\ feeding' \in BOOLEAN
  BY DEF EndChunk, AssemblyInv, TypeOK
<1> QED
  BY <1>2, <1>4, <1>5, <1>6, OthersKeep

LEMMA ResetConnectionKeeps == AssemblyInv /\ ResetConnection => AssemblyInv'
<1> SUFFICES ASSUME AssemblyInv, ResetConnection PROVE AssemblyInv'
  OBVIOUS
<1>1. Begun \in 0 .. MaxFrames
  BY NaturalBounds DEF AssemblyInv, TypeOK, Begun
<1>2. FramesOf(wire) \subseteq 0 .. MaxFrames
  <2>1. wire \in Seq(LineType)
    BY DEF AssemblyInv, TypeOK
  <2>2. ASSUME NEW i \in 1 .. Len(wire)
        PROVE  wire[i].frame \in 0 .. MaxFrames /\ wire[i].inner.frame \in 0 .. MaxFrames
    <3> HIDE DEF LineType
    <3>1. wire[i] \in LineType
      BY <2>1
    <3> QED
      BY <3>1 DEF LineType
  <2> QED
    BY <2>2 DEF FramesOf
<1>3. cut.frame \in 0 .. MaxFrames /\ cut.inner.frame \in 0 .. MaxFrames
  BY DEF AssemblyInv, TypeOK, LineType
<1>4. damaged' \cup spliced' \subseteq 0 .. MaxFrames
  BY <1>1, <1>2, <1>3 DEF ResetConnection, AssemblyInv, TypeOK
<1>5. cut' \in LineType
  <2>1. "" \in LineTag /\ 0 \in 0 .. MaxFrames
    BY NaturalBounds DEF LineTag
  <2> QED
    BY <2>1, LineTyped, ZeroIndex DEF ResetConnection, NoLine
<1>6. Ordered(parser')
  <2> DEFINE q == [FreshState EXCEPT !.out = parser.out]
  <2>1. /\ q.active = None /\ q.pend = [k \in Parsers |-> <<>>] /\ q.out = parser.out
        /\ q = [active |-> q.active, pend |-> q.pend, out |-> q.out]
    BY DEF FreshState
  <2>2. parser.out \in Seq(Seq(LineType))
    BY DEF AssemblyInv, TypeOK
  <2>3. [k \in Parsers |-> <<>>] \in [Parsers -> Seq(LineType)]
    <3>1. <<>> \in Seq(LineType)
      OBVIOUS
    <3> QED
      BY <3>1
  <2> HIDE DEF q
  <2>4. q \in StreamType /\ Owns(q)
    BY <2>1, <2>2, <2>3 DEF StreamType, Owns
  <2>5. parser' = q
    BY DEF ResetConnection, q
  <2> QED
    BY <2>4, <2>5 DEF Ordered
<1>7. /\ UNCHANGED <<kinds, pos>> /\ wire' \in Seq(LineType) /\ buffer' \in Seq(LineType)
      /\ feeding' \in BOOLEAN /\ faults' \in 0 .. MaxFaults
  BY NaturalBounds DEF ResetConnection, AssemblyInv, TypeOK
<1> QED
  BY <1>4, <1>5, <1>6, <1>7, OthersKeep

LEMMA NextKeeps == AssemblyInv /\ [Next]_vars => AssemblyInv'
<1> SUFFICES ASSUME AssemblyInv, [Next]_vars PROVE AssemblyInv'
  OBVIOUS
<1>1. CASE UNCHANGED vars
  <2>1. Ordered(parser') /\ UNCHANGED <<kinds, pos, wire, cut, faults, damaged, spliced, buffer, feeding>>
    BY <1>1 DEF vars, AssemblyInv
  <2> QED
    BY <2>1, OthersKeep DEF AssemblyInv, TypeOK
<1> QED
  BY <1>1, BeginKeeps, SendKeeps, DamageKeeps, CutShortKeeps, LoseKeeps, LogKeeps,
     ReceiveKeeps, FeedNextKeeps, EndChunkKeeps, ResetConnectionKeeps DEF Next

LEMMA InvariantHolds == Spec => []AssemblyInv
BY InitHolds, NextKeeps, PTL DEF Spec

\* Every variable keeps its type, for all frames, faults and lines under way;
\* no line of any state takes the parsers out of their types.
THEOREM TypeCorrect == Spec => []TypeOK
<1>1. AssemblyInv => TypeOK
  BY DEF AssemblyInv
<1> QED
  BY <1>1, InvariantHolds, PTL

\* Whatever is lost, damaged, cut or logged in between, only the parser of the
\* active frame type holds a pending frame.
THEOREM OneFramePending == Spec => []ActiveOwnsPending
<1>1. AssemblyInv => ActiveOwnsPending
  BY DEF AssemblyInv, Ordered, Owns, ActiveOwnsPending
<1> QED
  BY <1>1, InvariantHolds, PTL

-----------------------------------------------------------------------------
(* The parsers of FrameAssembly implement FrameChannel: for every set of     *)
(* kinds, number of chunks and faults, what they hand on is whole frames,    *)
(* each once and in the order in which the device finished them.             *)
(*                                                                           *)
(* A frame is handed on by a trailer K that arrives, and only when the CRC   *)
(* in it covers the lines of its frame.  So the argument is about trailers:  *)
(* those under way belong to finished frames, follow one another in the      *)
(* order of their frames, and are all newer than the last frame handed on    *)
(* (OrderInv).                                                               *)

Done == {f \in 1 .. Begun : Finished(f)}

\* The newest frame handed on.
Last == IF parser.out = <<>> THEN 0 ELSE FrameOf(parser.out[Len(parser.out)])

\* The trailers among lines s are those of frames older than a trailer l.
Behind(s, l) == \A i \in 1 .. Len(s) : s[i].tag = "K" /\ l.tag = "K" => s[i].frame < l.frame
Below(s, t) == \A j \in 1 .. Len(t) : Behind(s, t[j])
Ascending(s) == \A i, j \in 1 .. Len(s) :
  i < j /\ s[i].tag = "K" /\ s[j].tag = "K" => s[i].frame < s[j].frame

\* A trailer belongs to a finished frame that was not handed on.
DueLine(l, done, last) == l.tag = "K" => l.frame \in done /\ l.frame > last
Due(s, done, last) == \A i \in 1 .. Len(s) : DueLine(s[i], done, last)

WholeFrames == \A i \in 1 .. Len(parser.out) :
  \E f \in Done : parser.out[i] = Body(kinds[f], f)

OrderInv ==
  /\ Ascending(buffer) /\ Ascending(wire)
  /\ Below(buffer, wire) /\ Behind(buffer, cut) /\ Behind(wire, cut)
  /\ Due(buffer, Done, Last) /\ Due(wire, Done, Last) /\ DueLine(cut, Done, Last)
  /\ WholeFrames

-----------------------------------------------------------------------------
(* The number of a frame *)

LEMMA BodyNamesFrame ==
  ASSUME NEW k \in Headers, NEW f \in 0 .. MaxFrames, NEW j \in Headers, NEW g \in 0 .. MaxFrames,
         Body(k, f) = Body(j, g)
  PROVE  f = g
<1>1. PICK m \in 1 .. 2 * Chunks + 1 : OwnLines(Body(k, f), m, f)
  BY BodyTyped
<1>2. PICK n \in 1 .. 2 * Chunks + 1 : OwnLines(Body(j, g), n, g)
  BY BodyTyped
<1>3. 1 \in 1 .. m /\ 1 \in 1 .. n
  OBVIOUS
<1>4. Body(k, f)[1].frame = f /\ Body(j, g)[1].frame = g
  BY <1>1, <1>2, <1>3, Zenon DEF OwnLines
<1> QED
  BY <1>4

LEMMA FrameNumber ==
  ASSUME NEW s \in Seq(Kinds), Len(s) <= MaxFrames, NEW f \in 1 .. Len(s)
  PROVE  (IF \E g \in 1 .. Len(s) : Body(s[f], f) = Body(s[g], g)
          THEN CHOOSE g \in 1 .. Len(s) : Body(s[f], f) = Body(s[g], g) ELSE 0) = f
<1> DEFINE Same(g) == Body(s[f], f) = Body(s[g], g)
<1>1. ASSUME NEW g \in 1 .. Len(s), Same(g) PROVE g = f
  BY <1>1, KindTyped, BodyNamesFrame
<1>2. Same(f)
  OBVIOUS
<1> HIDE DEF Same
<1>3. (CHOOSE g \in 1 .. Len(s) : Same(g)) = f
  BY <1>1, <1>2
<1>4. (IF \E g \in 1 .. Len(s) : Same(g) THEN CHOOSE g \in 1 .. Len(s) : Same(g) ELSE 0) = f
  BY <1>2, <1>3
<1> QED
  BY <1>4 DEF Same

LEMMA FrameOfBody ==
  ASSUME AssemblyInv, NEW f \in 1 .. Begun
  PROVE  FrameOf(Body(kinds[f], f)) = f
<1>1. kinds \in Seq(Kinds) /\ Len(kinds) <= MaxFrames /\ f \in 1 .. Len(kinds)
  BY DEF AssemblyInv, TypeOK, Begun
<1> HIDE DEF Body
<1> QED
  BY <1>1, FrameNumber DEF FrameOf, Begun

\* The frames that are finished, before and after a step of the device.
LEMMA DoneInterval ==
  ASSUME AssemblyInv
  PROVE  \E n \in 0 .. Begun :
           /\ Done = 1 .. n
           /\ Begun > 0 /\ ~Finished(Begun) => n = Begun - 1
           /\ ~(Begun > 0 /\ ~Finished(Begun)) => n = Begun
<1>1. Begun \in Nat
  BY DEF AssemblyInv, TypeOK, Begun
<1>2. \A f \in 1 .. Begun : f < Begun \/ f = Begun
  BY <1>1
<1>3. CASE Begun > 0 /\ ~Finished(Begun)
  <2>1. Done = 1 .. Begun - 1
    BY <1>1, <1>2, <1>3 DEF Done, Finished
  <2> QED
    BY <1>1, <1>3, <2>1
<1>4. CASE ~(Begun > 0 /\ ~Finished(Begun))
  <2>1. Done = 1 .. Begun
    BY <1>1, <1>2, <1>4 DEF Done, Finished
  <2> QED
    BY <1>1, <1>4, <2>1
<1> QED
  BY <1>3, <1>4

LEMMA BeginDone ==
  ASSUME AssemblyInv, Begin
  PROVE  Done' = Done
<1>1. PICK k \in Kinds : kinds' = Append(kinds, k)
  BY DEF Begin
<1>2. kinds \in Seq(Kinds) /\ Begun \in Nat
  BY DEF AssemblyInv, TypeOK, Begun
<1>3. Begun' = Begun + 1
  BY <1>1, <1>2 DEF Begun
<1>4. Done = 1 .. Begun
  BY DoneInterval DEF Begin
<1>5. ASSUME NEW f, f = Begun + 1 PROVE ~Finished(f)'
  <2>1. kinds' \in Seq(Kinds) /\ Len(kinds') <= MaxFrames /\ Begun + 1 \in 1 .. Len(kinds')
    <3>1. kinds' \in Seq(Kinds) /\ Len(kinds') = Begun + 1
      BY <1>1, <1>2 DEF Begun
    <3> QED
      BY <1>2, <3>1, NaturalBounds DEF Begin
  <2>2. kinds'[Begun + 1] \in Headers /\ Begun + 1 \in 0 .. MaxFrames
    BY <2>1, KindTyped
  <2>3. WholeFrame(Append(Body(kinds'[Begun + 1], Begun + 1), Line("K", Begun + 1, 0)), Begun + 1)
    BY <2>2, FrameLines
  <2>4. Len(Append(Body(kinds'[Begun + 1], Begun + 1), Line("K", Begun + 1, 0))) \in 1 .. 2 * Chunks + 2
    BY <2>3, Zenon DEF WholeFrame
  <2>5. Len(Append(Body(kinds'[Begun + 1], Begun + 1), Line("K", Begun + 1, 0))) # 0
    BY <2>4, ChunksAssumption
  <2>6. pos' = 0
    BY DEF Begin
  <2>7. Finished(f)' =>
          \/ f < Begun'
          \/ pos' = Len(Append(Body(kinds'[f], f), Line("K", f, 0)))
    BY DEF Finished, Lines
  <2>8. ~(f < Begun')
    BY <1>2, <1>3, <1>5
  <2> QED
    BY <1>5, <2>5, <2>6, <2>7, <2>8, Zenon
<1>6. \A f \in 1 .. Begun + 1 : Finished(f)' <=> f \in 1 .. Begun
  <2> SUFFICES ASSUME NEW f \in 1 .. Begun + 1 PROVE Finished(f)' <=> f \in 1 .. Begun
    OBVIOUS
  <2>1. CASE f = Begun + 1
    BY <1>2, <1>5, <2>1
  <2>2. CASE f < Begun + 1
    <3>1. f < Begun' => Finished(f)'
      BY DEF Finished
    <3> QED
      BY <1>2, <1>3, <2>2, <3>1
  <2>3. f = Begun + 1 \/ f < Begun + 1
    BY <1>2
  <2> QED
    BY <2>1, <2>2, <2>3
<1>7. Done' = {f \in 1 .. Begun + 1 : Finished(f)'}
  BY <1>3 DEF Done
<1> QED
  BY <1>2, <1>4, <1>6, <1>7

LEMMA KindsSameDone ==
  ASSUME UNCHANGED <<kinds, pos>>
  PROVE  Done' = Done /\ Begun' = Begun
BY DEF Done, Finished, Lines, Begun

\* The last line of a frame finishes it, any other changes nothing.
LEMMA SendsDone ==
  ASSUME AssemblyInv, Sends
  PROVE  /\ Done = 1 .. Begun - 1 /\ Begun' = Begun /\ Begun \in Nat \ {0}
         /\ Done' = IF pos + 1 = Len(Lines(Begun)) THEN 1 .. Begun ELSE Done
<1>1. Begun > 0 /\ ~Finished(Begun) /\ pos' = pos + 1 /\ kinds' = kinds
  BY DEF Sends
<1>2. Begun \in Nat /\ Begun' = Begun /\ Lines(Begun)' = Lines(Begun)
  BY <1>1 DEF AssemblyInv, TypeOK, Begun, Lines
<1>3. Done = 1 .. Begun - 1
  BY <1>1, DoneInterval
<1>4. \A f \in 1 .. Begun : Finished(f)' <=> f < Begun \/ pos + 1 = Len(Lines(Begun))
  <2> SUFFICES ASSUME NEW f \in 1 .. Begun
               PROVE  Finished(f)' <=> f < Begun \/ pos + 1 = Len(Lines(Begun))
    OBVIOUS
  <2>1. Finished(f)' <=> f < Begun \/ (f = Begun /\ pos + 1 = Len(Lines(f)'))
    BY <1>1, <1>2 DEF Finished
  <2>2. f < Begun \/ f = Begun
    BY <1>2
  <2> QED
    BY <1>2, <2>1, <2>2
<1>5. Done' = {f \in 1 .. Begun : Finished(f)'}
  BY <1>2 DEF Done
<1> QED
  BY <1>1, <1>2, <1>3, <1>4, <1>5

-----------------------------------------------------------------------------
(* The order of trailers *)

LEMMA DueMore ==
  ASSUME NEW s, NEW done, NEW more, NEW last, Due(s, done, last), done \subseteq more
  PROVE  Due(s, more, last)
BY DEF Due, DueLine

LEMMA AscendingAppend ==
  ASSUME NEW s \in Seq(LineType), NEW l \in LineType, Ascending(s), Behind(s, l)
  PROVE  Ascending(Append(s, l))
<1> HIDE DEF LineType
<1>1. /\ Len(Append(s, l)) = Len(s) + 1 /\ Len(s) \in Nat
      /\ \A i \in 1 .. Len(s) : Append(s, l)[i] = s[i]
      /\ Append(s, l)[Len(s) + 1] = l
  OBVIOUS
<1> DEFINE t == Append(s, l)
<1> HIDE DEF t
<1> SUFFICES ASSUME NEW i \in 1 .. Len(t), NEW j \in 1 .. Len(t), i < j, t[i].tag = "K", t[j].tag = "K"
             PROVE  t[i].frame < t[j].frame
  BY DEF Ascending, t
<1>2. i \in 1 .. Len(s) /\ t[i] = s[i]
  BY <1>1 DEF t
<1>3. CASE j = Len(s) + 1
  BY <1>1, <1>2, <1>3 DEF Behind, t
<1>4. CASE j \in 1 .. Len(s)
  BY <1>1, <1>2, <1>4 DEF Ascending, t
<1>5. j = Len(s) + 1 \/ j \in 1 .. Len(s)
  BY <1>1 DEF t
<1> QED
  BY <1>3, <1>4, <1>5

LEMMA EachAppend ==
  ASSUME NEW s \in Seq(LineType), NEW l \in LineType, NEW t, NEW done, NEW last, NEW m
  PROVE  /\ Below(t, s) /\ Behind(t, l) => Below(t, Append(s, l))
         /\ Due(s, done, last) /\ DueLine(l, done, last) => Due(Append(s, l), done, last)
         /\ Behind(s, m) /\ (l.tag = "K" /\ m.tag = "K" => l.frame < m.frame) => Behind(Append(s, l), m)
<1> HIDE DEF LineType
<1>1. /\ Len(Append(s, l)) = Len(s) + 1 /\ Len(s) \in Nat
      /\ \A i \in 1 .. Len(s) : Append(s, l)[i] = s[i]
      /\ Append(s, l)[Len(s) + 1] = l
  OBVIOUS
<1> DEFINE a == Append(s, l)
<1>2. \A i \in 1 .. Len(a) : a[i] = l \/ (i \in 1 .. Len(s) /\ a[i] = s[i])
  BY <1>1
<1> HIDE DEF a
<1>3. Below(t, s) /\ Behind(t, l) => Below(t, a)
  BY <1>2 DEF Below
<1>4. Due(s, done, last) /\ DueLine(l, done, last) => Due(a, done, last)
  BY <1>2 DEF Due
<1>5. Behind(s, m) /\ (l.tag = "K" /\ m.tag = "K" => l.frame < m.frame) => Behind(a, m)
  BY <1>2 DEF Behind
<1> QED
  BY <1>3, <1>4, <1>5 DEF a

\* A line behind its predecessors on the wire keeps the order.
LEMMA PutOrders ==
  ASSUME AssemblyInv, OrderInv, NEW l \in LineType, NEW ended \in BOOLEAN, Put(l, ended),
         NEW done, Done \subseteq done,
         l.tag = "K" => l.frame \in done /\ l.frame > Last /\ \A f \in Done : f < l.frame
  PROVE  /\ Ascending(wire') /\ Below(buffer, wire')
         /\ Behind(buffer, cut') /\ Behind(wire', cut')
         /\ Due(wire', done, Last) /\ DueLine(cut', done, Last) /\ Due(buffer, done, Last)
<1> DEFINE m == IF cut = NoLine THEN l ELSE Merged(cut, l)
<1>1. wire \in Seq(LineType) /\ cut \in LineType
  BY DEF AssemblyInv, TypeOK
<1>2. m \in LineType
  BY <1>1, MergedTyped
<1>3. wire' = (IF ended THEN Append(wire, m) ELSE wire) /\ cut' = IF ended THEN NoLine ELSE m
  BY DEF Put
<1>4. NoLine.tag # "K"
  BY DEF NoLine, Line
<1>5. DueLine(m, done, Last) /\ Behind(buffer, m) /\ Behind(wire, m)
  <2>1. CASE cut = NoLine
    <3>1. m = l
      BY <2>1
    <3>2. Due(buffer, Done, Last) /\ Due(wire, Done, Last)
      BY DEF OrderInv
    <3> HIDE DEF m
    <3>3. ASSUME NEW s, Due(s, Done, Last) PROVE Behind(s, l)
      BY <3>3 DEF Due, DueLine, Behind
    <3> QED
      BY <3>1, <3>2, <3>3 DEF DueLine
  <2>2. CASE cut # NoLine
    <3>1. m.tag = cut.tag /\ m.frame = cut.frame
      BY <1>1, <2>2, MergedTyped
    <3> HIDE DEF m
    <3> QED
      BY <3>1 DEF OrderInv, DueLine, Behind
  <2> QED
    BY <2>1, <2>2
<1>6. Due(buffer, done, Last) /\ Due(wire, done, Last)
  BY DueMore DEF OrderInv
<1> HIDE DEF m, LineType
<1>7. CASE ended
  <2>1. wire' = Append(wire, m) /\ cut' = NoLine
    BY <1>3, <1>7
  <2>2. Ascending(wire')
    BY <1>1, <1>2, <1>5, <2>1, AscendingAppend DEF OrderInv
  <2>3. Below(buffer, wire') /\ Due(wire', done, Last)
    BY <1>1, <1>2, <1>5, <1>6, <2>1, EachAppend DEF OrderInv
  <2>4. Behind(buffer, cut') /\ Behind(wire', cut') /\ DueLine(cut', done, Last)
    BY <1>4, <2>1 DEF Behind, DueLine
  <2> QED
    BY <1>6, <2>2, <2>3, <2>4
<1>8. CASE ~ended
  BY <1>3, <1>5, <1>6, <1>8 DEF OrderInv
<1> QED
  BY <1>7, <1>8

\* What a step leaves of the frames handed on.
LEMMA HandedOnKept ==
  ASSUME AssemblyInv, OrderInv, parser'.out = parser.out, Done \subseteq Done',
         \A f \in 1 .. Begun : kinds'[f] = kinds[f],
         kinds' \in Seq(Kinds), Len(kinds') <= MaxFrames, Begun <= Len(kinds')
  PROVE  /\ WholeFrames' /\ Last' = Last
         /\ \A i \in 1 .. Len(parser.out) : FrameOf(parser.out[i])' = FrameOf(parser.out[i])
<1> HIDE DEF Body
<1>1. ASSUME NEW i \in 1 .. Len(parser.out)
      PROVE  /\ \E f \in Done : parser.out[i] = Body(kinds'[f], f)
             /\ FrameOf(parser.out[i])' = FrameOf(parser.out[i])
  <2>1. PICK f \in Done : parser.out[i] = Body(kinds[f], f)
    BY <1>1 DEF OrderInv, WholeFrames
  <2>2. f \in 1 .. Begun /\ kinds'[f] = kinds[f]
    BY DEF Done
  <2>3. FrameOf(parser.out[i]) = f
    BY <2>1, <2>2, FrameOfBody
  <2>4. f \in 1 .. Len(kinds')
    BY <2>2 DEF AssemblyInv, TypeOK, Begun
  <2>5. parser'.out[i] = Body(kinds'[f], f)
    BY <2>1, <2>2
  <2>6. FrameOf(parser.out[i])' = f
    BY <2>4, <2>5, FrameNumber DEF FrameOf, Begun
  <2> QED
    BY <2>2, <2>1, <2>3, <2>6
<1>2. WholeFrames'
  BY <1>1 DEF WholeFrames
<1>3. Last' = Last
  <2>1. CASE parser.out = <<>>
    BY <2>1 DEF Last
  <2>2. CASE parser.out # <<>>
    <3>1. Len(parser.out) \in 1 .. Len(parser.out)
      BY <2>2 DEF AssemblyInv, TypeOK
    <3>2. FrameOf(parser.out[Len(parser.out)])' = FrameOf(parser.out[Len(parser.out)])
      BY <1>1, <3>1
    <3> QED
      BY <2>2, <3>2 DEF Last
  <2> QED
    BY <2>1, <2>2
<1> QED
  BY <1>1, <1>2, <1>3

\* The newest frame handed on is a finished one.
LEMMA LastIsDone ==
  ASSUME AssemblyInv, OrderInv
  PROVE  Last = 0 \/ Last \in Done
<1> HIDE DEF Body
<1>1. CASE parser.out # <<>>
  <2>1. Len(parser.out) \in 1 .. Len(parser.out)
    BY <1>1 DEF AssemblyInv, TypeOK
  <2>2. PICK f \in Done : parser.out[Len(parser.out)] = Body(kinds[f], f)
    BY <2>1 DEF OrderInv, WholeFrames
  <2>3. Last = f
    BY <1>1, <2>2, FrameOfBody DEF Last, Done
  <2> QED
    BY <2>3
<1> QED
  BY <1>1 DEF Last

-----------------------------------------------------------------------------
(* The invariant *)

LEMMA OrderInit == Init => OrderInv
<1> SUFFICES ASSUME Init PROVE OrderInv
  OBVIOUS
<1>1. buffer = <<>> /\ wire = <<>> /\ parser.out = <<>> /\ cut.tag # "K"
  BY DEF Init, FreshState, NoLine, Line
<1>2. Len(buffer) = 0 /\ Len(wire) = 0 /\ Len(parser.out) = 0
  BY <1>1
<1> QED
  BY <1>1, <1>2 DEF OrderInv, Ascending, Below, Behind, Due, DueLine, WholeFrames

\* A step of the device that puts a line on the wire.
LEMMA SendingOrders ==
  ASSUME AssemblyInv, OrderInv, Sends, NEW l \in LineType, NEW ended \in BOOLEAN, Put(l, ended),
         l.tag = Outgoing.tag, l.frame = Outgoing.frame
  PROVE  OrderInv'
<1>1. Begun > 0 /\ ~Finished(Begun) /\ kinds' = kinds
  BY DEF Sends
<1>2. /\ Done = 1 .. Begun - 1 /\ Begun' = Begun /\ Begun \in Nat \ {0}
      /\ Done' = IF pos + 1 = Len(Lines(Begun)) THEN 1 .. Begun ELSE Done
  BY SendsDone
<1>3. l.frame = Begun /\ (l.tag = "K" <=> pos + 1 = Len(Lines(Begun)))
  BY <1>1, OutgoingTyped
<1>4. Done \subseteq Done' /\ (l.tag = "K" => l.frame \in Done' /\ \A f \in Done : f < l.frame)
  BY <1>2, <1>3
<1>5. Last < l.frame
  BY <1>2, <1>3, LastIsDone
<1>6. UNCHANGED <<buffer, parser>>
  BY DEF Put
<1> HIDE DEF LineType
<1>7. /\ Ascending(wire') /\ Below(buffer, wire')
      /\ Behind(buffer, cut') /\ Behind(wire', cut')
      /\ Due(wire', Done', Last) /\ DueLine(cut', Done', Last) /\ Due(buffer, Done', Last)
  BY <1>4, <1>5, PutOrders
<1>8. WholeFrames' /\ Last' = Last
  <2>1. kinds' \in Seq(Kinds) /\ Len(kinds') <= MaxFrames /\ Begun <= Len(kinds')
    BY <1>1, <1>2 DEF AssemblyInv, TypeOK, Begun
  <2> QED
    BY <1>1, <1>4, <1>6, <2>1, HandedOnKept
<1> QED
  BY <1>6, <1>7, <1>8 DEF OrderInv, Ascending, Below, Behind, Due, DueLine

\* A step that leaves the device's frames and the frames handed on as they are.
LEMMA QuietStep ==
  ASSUME AssemblyInv, OrderInv, UNCHANGED <<kinds, pos>>, parser'.out = parser.out
  PROVE  /\ Done' = Done /\ WholeFrames' /\ Last' = Last
         /\ \A i \in 1 .. Len(parser.out) : FrameOf(parser.out[i])' = FrameOf(parser.out[i])
<1>1. Done' = Done
  BY KindsSameDone
<1>2. kinds' \in Seq(Kinds) /\ Len(kinds') <= MaxFrames /\ Begun <= Len(kinds')
  BY DEF AssemblyInv, TypeOK, Begun
<1> QED
  BY <1>1, <1>2, HandedOnKept

LEMMA BeginOrders == AssemblyInv /\ OrderInv /\ Begin =>
  /\ OrderInv' /\ Done' = Done
  /\ \A i \in 1 .. Len(parser.out) : FrameOf(parser.out[i])' = FrameOf(parser.out[i])
<1> SUFFICES ASSUME AssemblyInv, OrderInv, Begin
             PROVE  /\ OrderInv' /\ Done' = Done
                    /\ \A i \in 1 .. Len(parser.out) :
                         FrameOf(parser.out[i])' = FrameOf(parser.out[i])
  OBVIOUS
<1>1. Done' = Done
  BY BeginDone
<1>2. /\ kinds' \in Seq(Kinds) /\ Len(kinds') <= MaxFrames /\ Begun <= Len(kinds')
      /\ \A f \in 1 .. Begun : kinds'[f] = kinds[f]
  <2>1. PICK k \in Kinds : kinds' = Append(kinds, k)
    BY DEF Begin
  <2>2. kinds \in Seq(Kinds) /\ Len(kinds) < MaxFrames /\ Len(kinds) \in Nat
    BY DEF Begin, AssemblyInv, TypeOK, Begun
  <2>3. /\ kinds' \in Seq(Kinds) /\ Len(kinds') = Len(kinds) + 1
        /\ \A f \in 1 .. Len(kinds) : kinds'[f] = kinds[f]
    BY <2>1, <2>2
  <2> QED
    BY <2>2, <2>3, NaturalBounds DEF Begun
<1>3. UNCHANGED <<buffer, wire, cut, parser>>
  BY DEF Begin
<1>4. /\ WholeFrames' /\ Last' = Last
      /\ \A i \in 1 .. Len(parser.out) : FrameOf(parser.out[i])' = FrameOf(parser.out[i])
  BY <1>1, <1>2, <1>3, HandedOnKept
<1> QED
  BY <1>1, <1>3, <1>4 DEF OrderInv, Ascending, Below, Behind, Due, DueLine

LEMMA SendOrders == AssemblyInv /\ OrderInv /\ Send => OrderInv'
<1> SUFFICES ASSUME AssemblyInv, OrderInv, Send PROVE OrderInv'
  OBVIOUS
<1>1. Sends /\ Put(Outgoing, TRUE)
  BY DEF Send
<1>2. Outgoing \in LineType
  BY <1>1, OutgoingTyped DEF Sends
<1> QED
  BY <1>1, <1>2, SendingOrders

LEMMA DamageOrders == AssemblyInv /\ OrderInv /\ Damage => OrderInv'
<1> SUFFICES ASSUME AssemblyInv, OrderInv, Damage PROVE OrderInv'
  OBVIOUS
<1>1. PICK s \in {"bad", "odd"} : Put([Outgoing EXCEPT !.state = s], TRUE)
  BY DEF Damage
<1>2. Sends
  BY DEF Damage
<1> DEFINE l == [Outgoing EXCEPT !.state = s]
<1>3. l \in LineType /\ l.tag = Outgoing.tag /\ l.frame = Outgoing.frame
  <2>1. Outgoing \in LineType
    BY <1>2, OutgoingTyped DEF Sends
  <2> QED
    BY <2>1, StateSet
<1>4. Put(l, TRUE)
  BY <1>1
<1> HIDE DEF LineType, l
<1> QED
  BY <1>2, <1>3, <1>4, SendingOrders

LEMMA CutShortOrders == AssemblyInv /\ OrderInv /\ CutShort => OrderInv'
<1> SUFFICES ASSUME AssemblyInv, OrderInv, CutShort PROVE OrderInv'
  OBVIOUS
<1>1. Sends /\ Put(Outgoing, FALSE)
  BY DEF CutShort
<1>2. Outgoing \in LineType
  BY <1>1, OutgoingTyped DEF Sends
<1> QED
  BY <1>1, <1>2, SendingOrders

LEMMA LoseOrders == AssemblyInv /\ OrderInv /\ Lose => OrderInv'
<1> SUFFICES ASSUME AssemblyInv, OrderInv, Lose PROVE OrderInv'
  OBVIOUS
<1>1. Sends /\ kinds' = kinds /\ UNCHANGED <<buffer, wire, cut, parser>>
  BY DEF Lose, Sends
<1>2. Done \subseteq Done'
  BY <1>1, SendsDone
<1>3. kinds' \in Seq(Kinds) /\ Len(kinds') <= MaxFrames /\ Begun <= Len(kinds')
  BY <1>1 DEF AssemblyInv, TypeOK, Begun
<1>4. WholeFrames' /\ Last' = Last
  BY <1>1, <1>2, <1>3, HandedOnKept
<1>5. Due(buffer, Done', Last) /\ Due(wire, Done', Last) /\ DueLine(cut, Done', Last)
  BY <1>2 DEF OrderInv, Due, DueLine
<1> QED
  BY <1>1, <1>4, <1>5 DEF OrderInv, Ascending, Below, Behind, Due, DueLine

LEMMA LogOrders == AssemblyInv /\ OrderInv /\ Log => OrderInv'
<1> SUFFICES ASSUME AssemblyInv, OrderInv, Log PROVE OrderInv'
  OBVIOUS
<1>1. PICK ended \in BOOLEAN : Put(LogLine, ended)
  BY DEF Log
<1>2. UNCHANGED <<kinds, pos, buffer, parser>>
  BY <1>1 DEF Log, Put
<1>3. LogLine \in LineType /\ LogLine.tag # "K"
  <2>1. "LOG" \in LineTag /\ 0 \in 0 .. MaxFrames
    BY NaturalBounds DEF LineTag
  <2> QED
    BY <2>1, LineTyped, ZeroIndex DEF LogLine
<1> HIDE DEF LineType, LogLine
<1>4. /\ Ascending(wire') /\ Below(buffer, wire')
      /\ Behind(buffer, cut') /\ Behind(wire', cut')
      /\ Due(wire', Done, Last) /\ DueLine(cut', Done, Last) /\ Due(buffer, Done, Last)
  BY <1>1, <1>3, PutOrders
<1>5. Done' = Done /\ WholeFrames' /\ Last' = Last
  BY <1>2, QuietStep
<1> QED
  BY <1>2, <1>4, <1>5 DEF OrderInv, Ascending, Below, Behind, Due, DueLine

LEMMA ReceiveOrders == AssemblyInv /\ OrderInv /\ Receive => OrderInv'
<1> SUFFICES ASSUME AssemblyInv, OrderInv, Receive PROVE OrderInv'
  OBVIOUS
<1>1. buffer' = wire /\ wire' = <<>> /\ UNCHANGED <<kinds, pos, cut, parser>>
  BY DEF Receive, device
<1>2. Len(wire') = 0
  BY <1>1
<1>3. Done' = Done /\ WholeFrames' /\ Last' = Last
  BY <1>1, QuietStep
<1> QED
  BY <1>1, <1>2, <1>3 DEF OrderInv, Ascending, Below, Behind, Due, DueLine

LEMMA EndChunkOutKept == AssemblyInv /\ EndChunk => parser'.out = parser.out
<1> SUFFICES ASSUME AssemblyInv, EndChunk PROVE parser'.out = parser.out
  OBVIOUS
<1>1. PICK late \in BOOLEAN : parser' = Deactivated(TimedOut(parser, late))
  BY DEF EndChunk
<1> QED
  BY <1>1, EndChunkOrders DEF AssemblyInv

LEMMA EndChunkOrder == AssemblyInv /\ OrderInv /\ EndChunk => OrderInv'
<1> SUFFICES ASSUME AssemblyInv, OrderInv, EndChunk PROVE OrderInv'
  OBVIOUS
<1>1. UNCHANGED <<kinds, pos, buffer, wire, cut>> /\ parser'.out = parser.out
  BY EndChunkOutKept DEF EndChunk
<1>2. Done' = Done /\ WholeFrames' /\ Last' = Last
  BY <1>1, QuietStep
<1> QED
  BY <1>1, <1>2 DEF OrderInv, Ascending, Below, Behind, Due, DueLine

LEMMA ResetConnectionOrders == AssemblyInv /\ OrderInv /\ ResetConnection => OrderInv'
<1> SUFFICES ASSUME AssemblyInv, OrderInv, ResetConnection PROVE OrderInv'
  OBVIOUS
<1>1. /\ UNCHANGED <<kinds, pos, buffer>> /\ parser'.out = parser.out
      /\ wire' = <<>> /\ cut'.tag # "K"
  BY DEF ResetConnection, FreshState, NoLine, Line
<1>2. Len(wire') = 0
  BY <1>1
<1>3. Done' = Done /\ WholeFrames' /\ Last' = Last
  BY <1>1, QuietStep
<1> QED
  BY <1>1, <1>2, <1>3 DEF OrderInv, Ascending, Below, Behind, Due, DueLine

\* A line that leaves the buffer hands on nothing, or the frame of its trailer.
HandsOnNext ==
  \/ parser'.out = parser.out
  \/ \E f \in Done : f > Last /\ parser'.out = Append(parser.out, Body(kinds[f], f))

LEMMA FeedNextOrders == AssemblyInv /\ OrderInv /\ FeedNext => OrderInv' /\ HandsOnNext
<1> SUFFICES ASSUME AssemblyInv, OrderInv, FeedNext PROVE OrderInv' /\ HandsOnNext
  OBVIOUS
<1> DEFINE l == Head(buffer)
<1>1. buffer \in Seq(LineType) /\ buffer # <<>> /\ wire \in Seq(LineType)
  BY DEF FeedNext, AssemblyInv, TypeOK
<1>2. /\ l = buffer[1] /\ l \in LineType /\ Len(buffer) \in Nat \ {0}
      /\ Len(Tail(buffer)) = Len(buffer) - 1
      /\ \A i \in 1 .. Len(buffer) - 1 : Tail(buffer)[i] = buffer[i + 1]
  <2> HIDE DEF LineType
  <2> QED
    BY <1>1
<1>3. UNCHANGED <<kinds, pos, wire, cut>> /\ buffer' = Tail(buffer) /\ parser' \in FeedLine(parser, l)
  BY DEF FeedNext, device
<1>4. HandsOn(parser, parser', l)
  BY <1>2, <1>3, FeedLineStep DEF AssemblyInv
<1>5. Done' = Done
  BY <1>3, KindsSameDone
<1> HIDE DEF l

<1>6. \A i \in 1 .. Len(buffer') : i + 1 \in 1 .. Len(buffer) /\ buffer'[i] = buffer[i + 1]
  BY <1>2, <1>3
<1>7. Len(buffer') \in Nat /\ 1 \in 1 .. Len(buffer)
  BY <1>2, <1>3
<1>8. Ascending(buffer') /\ Below(buffer', wire) /\ Behind(buffer', cut) /\ Due(buffer', Done, Last)
  <2>1. Ascending(buffer')
    <3> SUFFICES ASSUME NEW i \in 1 .. Len(buffer'), NEW j \in 1 .. Len(buffer'), i < j,
                        buffer'[i].tag = "K", buffer'[j].tag = "K"
                 PROVE  buffer'[i].frame < buffer'[j].frame
      BY DEF Ascending
    <3>1. i + 1 < j + 1
      BY <1>7
    <3> QED
      BY <1>6, <3>1 DEF OrderInv, Ascending
  <2>2. Below(buffer', wire) /\ Behind(buffer', cut)
    BY <1>6 DEF OrderInv, Below, Behind
  <2>3. Due(buffer', Done, Last)
    BY <1>6 DEF OrderInv, Due
  <2> QED
    BY <2>1, <2>2, <2>3
<1>9. CASE parser'.out = parser.out
  <2>1. WholeFrames' /\ Last' = Last
    BY <1>3, <1>9, QuietStep
  <2> QED
    BY <1>3, <1>5, <1>8, <1>9, <2>1
    DEF OrderInv, Ascending, Below, Behind, Due, DueLine, HandsOnNext
<1>10. CASE l.tag = "K" /\ parser'.out = Append(parser.out, Body(kinds[l.frame], l.frame))
  <2> DEFINE f == l.frame
             b == Body(kinds[f], f)
  <2>1. f \in Done /\ f > Last
    BY <1>2, <1>7, <1>10 DEF OrderInv, Due, DueLine
  <2>2. parser.out \in Seq(Seq(LineType))
    BY DEF AssemblyInv, TypeOK
  <2>3. parser'.out = Append(parser.out, b)
    BY <1>10
  <2>4. f \in 1 .. Begun
    BY <2>1 DEF Done
  <2>5. FrameOf(b) = f
    BY <2>4, FrameOfBody
  <2> HIDE DEF f, LineType
  <2>6. b \in Seq(LineType)
    <3>1. kinds[f] \in Headers /\ f \in 0 .. MaxFrames
      BY <2>4, KindTyped DEF AssemblyInv, TypeOK, Begun
    <3>2. PICK n \in 1 .. 2 * Chunks + 1 : OwnLines(b, n, f)
      BY <3>1, BodyTyped
    <3> QED
      BY <3>2 DEF OwnLines
  <2> HIDE DEF b
  <2>7. /\ Len(parser.out) \in Nat /\ Len(parser'.out) = Len(parser.out) + 1
        /\ parser'.out # <<>> /\ parser'.out[Len(parser.out) + 1] = b
        /\ \A i \in 1 .. Len(parser.out) : parser'.out[i] = parser.out[i]
    <3>1. /\ Len(parser.out) \in Nat /\ Len(parser'.out) = Len(parser.out) + 1
          /\ parser'.out[Len(parser.out) + 1] = b
          /\ \A i \in 1 .. Len(parser.out) : parser'.out[i] = parser.out[i]
      BY <2>2, <2>3, <2>6
    <3>2. parser'.out # <<>>
      BY <3>1
    <3> QED
      BY <3>1, <3>2
  <2>8. Last' = f
    <3>1. FrameOf(parser.out[Len(parser.out)])' = FrameOf(b)
      BY <1>3, <2>7 DEF FrameOf, Begun
    <3> QED
      BY <2>5, <2>7, <3>1 DEF Last
  <2>9. WholeFrames'
    <3> SUFFICES ASSUME NEW i \in 1 .. Len(parser'.out)
                 PROVE  \E g \in Done : parser'.out[i] = Body(kinds[g], g)
      BY <1>3, <1>5 DEF WholeFrames
    <3>1. CASE i = Len(parser.out) + 1
      BY <2>1, <2>7, <3>1 DEF b
    <3>2. CASE i \in 1 .. Len(parser.out)
      BY <2>7, <3>2 DEF OrderInv, WholeFrames
    <3>3. i = Len(parser.out) + 1 \/ i \in 1 .. Len(parser.out)
      BY <2>7
    <3> QED
      BY <3>1, <3>2, <3>3
  <2>10. Due(buffer', Done, f)
    <3> SUFFICES ASSUME NEW i \in 1 .. Len(buffer'), buffer'[i].tag = "K"
                 PROVE  buffer'[i].frame \in Done /\ buffer'[i].frame > f
      BY DEF Due, DueLine
    <3>1. 1 < i + 1 /\ i + 1 \in 1 .. Len(buffer) /\ buffer'[i] = buffer[i + 1]
      BY <1>6
    <3>2. buffer[i + 1].frame > f
      BY <1>2, <1>7, <1>10, <3>1 DEF OrderInv, Ascending, f
    <3> QED
      BY <1>8, <3>1, <3>2 DEF Due, DueLine
  <2>11. Due(wire, Done, f) /\ DueLine(cut, Done, f)
    BY <1>2, <1>7, <1>10 DEF OrderInv, Below, Behind, Due, DueLine, f
  <2>12. HandsOnNext
    BY <2>1, <2>3 DEF HandsOnNext, b
  <2> QED
    BY <1>3, <1>5, <1>8, <2>8, <2>9, <2>10, <2>11, <2>12
    DEF OrderInv, Ascending, Below, Behind, Due, DueLine
<1> QED
  BY <1>4, <1>9, <1>10 DEF HandsOn

LEMMA OrderKept == AssemblyInv /\ OrderInv /\ [Next]_vars => OrderInv'
<1> SUFFICES ASSUME AssemblyInv, OrderInv, [Next]_vars PROVE OrderInv'
  OBVIOUS
<1>1. CASE UNCHANGED vars
  <2>1. UNCHANGED <<kinds, pos, wire, cut, buffer, parser>>
    BY <1>1 DEF vars
  <2>2. Done' = Done /\ WholeFrames' /\ Last' = Last
    BY <2>1, QuietStep
  <2> QED
    BY <2>1, <2>2 DEF OrderInv, Ascending, Below, Behind, Due, DueLine
<1> QED
  BY <1>1, BeginOrders, SendOrders, DamageOrders, CutShortOrders, LoseOrders, LogOrders,
     ReceiveOrders, FeedNextOrders, EndChunkOrder, ResetConnectionOrders DEF Next

-----------------------------------------------------------------------------
(* The refinement *)

\* What FrameChannel sees of a state.
Produced == Cardinality(Done)
Seen == [i \in 1 .. Len(parser.out) |-> FrameOf(parser.out[i])]

LEMMA ProducedCounts ==
  ASSUME NEW n \in Nat
  PROVE  Cardinality(1 .. n) = n
BY FS_Interval

LEMMA QuietSeen ==
  ASSUME parser'.out = parser.out,
         \A i \in 1 .. Len(parser.out) : FrameOf(parser.out[i])' = FrameOf(parser.out[i])
  PROVE  Seen' = Seen
BY DEF Seen

\* Sending the last line of a frame produces it.
LEMMA SendsProduce ==
  ASSUME AssemblyInv, OrderInv, Sends, parser' = parser
  PROVE  Seen' = Seen /\ (Produced' = Produced \/ Produced' = Produced + 1)
<1>1. /\ Done = 1 .. Begun - 1 /\ Begun \in Nat \ {0} /\ kinds' = kinds
      /\ Done' = IF pos + 1 = Len(Lines(Begun)) THEN 1 .. Begun ELSE Done
  BY SendsDone DEF Sends
<1>2. Seen' = Seen
  <2>1. Done \subseteq Done'
    BY <1>1
  <2>2. kinds' \in Seq(Kinds) /\ Len(kinds') <= MaxFrames /\ Begun <= Len(kinds')
    BY <1>1 DEF AssemblyInv, TypeOK, Begun
  <2> QED
    BY <1>1, <2>1, <2>2, HandedOnKept, QuietSeen
<1>3. Produced = Begun - 1
  BY <1>1, ProducedCounts DEF Produced
<1>4. Produced' = IF pos + 1 = Len(Lines(Begun)) THEN Begun ELSE Produced
  BY <1>1, ProducedCounts DEF Produced
<1> QED
  BY <1>1, <1>2, <1>3, <1>4

\* A trailer that hands on a frame is one step of the channel.
LEMMA FeedDelivers ==
  ASSUME AssemblyInv, OrderInv, FeedNext
  PROVE  /\ Produced' = Produced
         /\ Seen' = Seen \/ \E f \in Last + 1 .. Produced : Seen' = Append(Seen, f)
<1>1. UNCHANGED <<kinds, pos>>
  BY DEF FeedNext, device
<1>2. Done' = Done /\ Produced' = Produced
  BY <1>1, KindsSameDone DEF Produced
<1>3. CASE parser'.out = parser.out
  BY <1>1, <1>2, <1>3, QuietStep, QuietSeen
<1>4. ASSUME NEW f \in Done, f > Last, parser'.out = Append(parser.out, Body(kinds[f], f))
      PROVE  \E g \in Last + 1 .. Produced : Seen' = Append(Seen, g)
  <2> DEFINE b == Body(kinds[f], f)
  <2>1. f \in 1 .. Begun /\ Begun \in Nat
    BY DEF Done, AssemblyInv, TypeOK, Begun
  <2>2. FrameOf(b) = f
    BY <2>1, FrameOfBody
  <2>3. b \in Seq(LineType)
    <3>1. kinds[f] \in Headers /\ f \in 0 .. MaxFrames
      BY <2>1, KindTyped DEF AssemblyInv, TypeOK, Begun
    <3>2. PICK n \in 1 .. 2 * Chunks + 1 : OwnLines(b, n, f)
      BY <3>1, BodyTyped
    <3> QED
      BY <3>2 DEF OwnLines
  <2>4. parser.out \in Seq(Seq(LineType)) /\ parser'.out = Append(parser.out, b)
    BY <1>4 DEF AssemblyInv, TypeOK
  <2> HIDE DEF b, LineType
  <2>5. /\ Len(parser.out) \in Nat /\ Len(parser'.out) = Len(parser.out) + 1
        /\ parser'.out[Len(parser.out) + 1] = b
        /\ \A i \in 1 .. Len(parser.out) : parser'.out[i] = parser.out[i]
    BY <2>3, <2>4
  <2>6. Seen' = [i \in 1 .. Len(parser.out) + 1 |-> IF i = Len(parser.out) + 1 THEN f ELSE FrameOf(parser.out[i])]
    <3>1. \A i \in 1 .. Len(parser.out) + 1 :
            FrameOf(parser.out[i])' = IF i = Len(parser.out) + 1 THEN f ELSE FrameOf(parser.out[i])
      <4> SUFFICES ASSUME NEW i \in 1 .. Len(parser.out) + 1
                   PROVE  FrameOf(parser.out[i])' = IF i = Len(parser.out) + 1 THEN f ELSE FrameOf(parser.out[i])
        OBVIOUS
      <4>1. CASE i = Len(parser.out) + 1
        <5>1. parser'.out[i] = b
          BY <2>5, <4>1
        <5>2. FrameOf(parser.out[i])' = FrameOf(b)
          BY <1>1, <5>1 DEF FrameOf, Begun
        <5> QED
          BY <2>2, <4>1, <5>2
      <4>2. CASE i \in 1 .. Len(parser.out)
        <5>1. parser'.out[i] = parser.out[i] /\ i # Len(parser.out) + 1
          BY <2>5, <4>2
        <5>2. FrameOf(parser.out[i])' = FrameOf(parser.out[i])
          BY <1>1, <5>1 DEF FrameOf, Begun
        <5> QED
          BY <5>1, <5>2
      <4>3. i = Len(parser.out) + 1 \/ i \in 1 .. Len(parser.out)
        BY <2>5
      <4> QED
        BY <4>1, <4>2, <4>3
    <3> QED
      BY <2>5, <3>1 DEF Seen
  <2>7. Seen' = Append(Seen, f)
    BY <2>5, <2>6 DEF Seen
  <2>8. f \in Last + 1 .. Produced
    <3>1. PICK n \in 0 .. Begun : Done = 1 .. n
      BY DoneInterval
    <3>2. Produced = n /\ f <= n
      BY <2>1, <3>1, ProducedCounts DEF Produced
    <3>3. Last \in Nat
      BY <2>1, LastIsDone DEF Done
    <3> QED
      BY <1>4, <2>1, <3>2, <3>3
  <2> QED
    BY <2>7, <2>8
<1> QED
  BY <1>2, <1>3, <1>4, FeedNextOrders DEF HandsOnNext

LEMMA NewestSeen ==
  ASSUME AssemblyInv
  PROVE  Last = IF Seen = <<>> THEN 0 ELSE Seen[Len(Seen)]
<1>1. Len(parser.out) \in Nat /\ (parser.out = <<>> <=> Len(parser.out) = 0)
  BY DEF AssemblyInv, TypeOK
<1>2. Len(Seen) = Len(parser.out) /\ (Seen = <<>> <=> Len(parser.out) = 0)
  BY <1>1 DEF Seen
<1> QED
  BY <1>1, <1>2 DEF Last, Seen

\* Every step of the device, the wire and the parsers is one of the channel,
\* or changes nothing that it sees.
LEMMA ChannelStep ==
  AssemblyInv /\ OrderInv /\ [Next]_vars =>
    \/ Produced' = Produced /\ Seen' = Seen
    \/ Produced' = Produced + 1 /\ Seen' = Seen
    \/ Produced' = Produced /\ \E f \in Last + 1 .. Produced : Seen' = Append(Seen, f)
<1> SUFFICES ASSUME AssemblyInv, OrderInv, [Next]_vars
             PROVE  \/ Produced' = Produced /\ Seen' = Seen
                    \/ Produced' = Produced + 1 /\ Seen' = Seen
                    \/ Produced' = Produced /\ \E f \in Last + 1 .. Produced : Seen' = Append(Seen, f)
  OBVIOUS
<1>1. ASSUME UNCHANGED <<kinds, pos>>, parser'.out = parser.out
      PROVE  Produced' = Produced /\ Seen' = Seen
  <2>1. Produced' = Produced
    BY <1>1, KindsSameDone DEF Produced
  <2>2. Seen' = Seen
    BY <1>1, QuietStep, QuietSeen
  <2> QED
    BY <2>1, <2>2
<1>2. CASE UNCHANGED vars
  BY <1>1, <1>2 DEF vars
<1>3. CASE Begin
  <2>1. Done' = Done /\ Seen' = Seen
    BY <1>3, BeginOrders, QuietSeen DEF Begin
  <2> QED
    BY <2>1 DEF Produced
<1>4. CASE Send \/ Damage \/ CutShort \/ Lose
  <2>1. Sends /\ parser' = parser
    BY <1>4 DEF Send, Damage, CutShort, Lose, Put
  <2> QED
    BY <2>1, SendsProduce
<1>5. CASE Log
  BY <1>1, <1>5 DEF Log, Put
<1>6. CASE Receive
  BY <1>1, <1>6 DEF Receive, device
<1>7. CASE FeedNext
  BY <1>7, FeedDelivers
<1>8. CASE EndChunk
  BY <1>1, <1>8, EndChunkOutKept DEF EndChunk
<1>9. CASE ResetConnection
  BY <1>1, <1>9 DEF ResetConnection
<1> QED
  BY <1>2, <1>3, <1>4, <1>5, <1>6, <1>7, <1>8, <1>9 DEF Next

LEMMA OrderHolds == Spec => []OrderInv
<1>1. Spec => []AssemblyInv
  BY InvariantHolds
<1> QED
  BY <1>1, OrderInit, OrderKept, PTL DEF Spec

\* The parsers implement the channel: frames may be lost, but what is handed on
\* is whole, in the order of the device and never repeated.
THEOREM ParsersImplementChannel == Spec => ImplementsChannel
<1>1. Init => Channel!Init
  <2> SUFFICES ASSUME Init PROVE Channel!Init
    OBVIOUS
  <2>1. parser.out = <<>> /\ Begun = 0
    BY DEF Init, FreshState, Begun
  <2>2. Done = {}
    BY <2>1 DEF Done
  <2>3. Produced = 0 /\ Seen = <<>>
    BY <2>1, <2>2, FS_EmptySet DEF Produced, Seen
  <2> QED
    BY <2>3 DEF Channel!Init, Produced, Seen, Done
<1>2. AssemblyInv /\ OrderInv /\ [Next]_vars => [Channel!Next]_(Channel!vars)
  <2> SUFFICES ASSUME AssemblyInv, OrderInv, [Next]_vars
               PROVE  Channel!Produce \/ Channel!Deliver \/ UNCHANGED Channel!vars
    BY DEF Channel!Next
  <2>1. Last = Channel!Newest
    BY NewestSeen DEF Channel!Newest, Seen
  <2> QED
    BY <2>1, ChannelStep DEF Channel!Produce, Channel!Deliver, Channel!vars, Produced, Seen, Done
<1> QED
  BY <1>1, <1>2, OrderHolds, InvariantHolds, PTL DEF Spec, ImplementsChannel, Channel!Spec

-----------------------------------------------------------------------------
(* A frame whose own lines arrive is delivered (IntactDelivered), whatever   *)
(* happened to the frames and the log lines before it.                       *)
(*                                                                           *)
(* The stream is what the registry has yet to read: the chunk being fed and  *)
(* the wire behind it.  In it the lines of an intact frame follow one        *)
(* another with nothing but log lines between (WireFits), since the device   *)
(* finishes a frame before it begins another and a line that is lost or      *)
(* damaged would have damaged the frame.  The parser that holds the first n  *)
(* of them therefore sees line n + 1 next (ParserFits): no line of another   *)
(* frame comes between that would drop it, and a header opens its frame in   *)
(* whatever state an interrupted one left the parsers (FeedFits).            *)

LinesOf(kind, f) == Append(Body(kind, f), Line("K", f, 0))
Size(kind, f) == Len(LinesOf(kind, f))

\* A line that names frame f, and one that brings its n-th line to the parsers:
\* the line itself, or its header whole behind the start of another line.
Names(l, f) == l.frame = f \/ l.inner.frame = f
Bears(l, kind, f, n) ==
  \/ l = LinesOf(kind, f)[n]
  \/ /\ n = 1 /\ kind # "M" /\ l.state # "odd"
     /\ l.inner = [tag |-> kind, frame |-> f, whole |-> TRUE]

\* A line that changes nothing in the parsers.
Plain(l) == l.tag = "LOG" /\ l.inner = NoHeader /\ l.state # "odd"

\* From line i of the stream s on, the first that is not plain bears line n of f.
NextUp(s, i, kind, f, n) ==
  \E j \in i .. Len(s) : Bears(s[j], kind, f, n) /\ \A h \in i .. j - 1 : Plain(s[h])

\* After line n of a frame of which the device has sent so many lines comes the
\* next one, if it has left the device.
Continues(s, i, kind, f, n, sent) ==
  \/ n = Size(kind, f)
  \/ NextUp(s, i, kind, f, n + 1)
  \/ n = sent /\ \A h \in i .. Len(s) : Plain(s[h])

\* The lines of an intact frame f under way: no others name it, its header is the
\* first and its trailer the last of them, and nothing but log lines is between.
WireFits(s, kind, f, sent) ==
  /\ \A i \in 1 .. Len(s) : Names(s[i], f) => \E n \in 1 .. sent : Bears(s[i], kind, f, n)
  /\ \A i, j \in 1 .. Len(s) : i < j =>
       /\ Bears(s[j], kind, f, 1) => ~Names(s[i], f)
       /\ Bears(s[i], kind, f, Size(kind, f)) => ~Names(s[j], f)
  /\ \A i \in 1 .. Len(s), n \in 1 .. Size(kind, f) :
       Bears(s[i], kind, f, n) => Continues(s, i + 1, kind, f, n, sent)

\* The first n lines of f are pending; f was handed on.
Holds(p, kind, f, n) ==
  /\ n \in 1 .. Len(Body(kind, f)) /\ Len(p.pend[Owner(kind)]) = n
  /\ \A i \in 1 .. n : p.pend[Owner(kind)][i] = Body(kind, f)[i]
HandedOn(p, kind, f) == \E i \in 1 .. Len(p.out) : p.out[i] = Body(kind, f)

\* An intact frame of which a line has been sent waits in the stream, is pending
\* up to the line that comes next, or was handed on and has left the stream.
ParserFits(p, s, kind, f, sent) ==
  /\ \A n \in 1 .. Size(kind, f) : Holds(p, kind, f, n) => Continues(s, 1, kind, f, n, sent)
  /\ sent > 0 => \/ HandedOn(p, kind, f)
                 \/ \E n \in 1 .. Size(kind, f) : Holds(p, kind, f, n)
                 \/ \E i \in 1 .. Len(s) : Bears(s[i], kind, f, 1)
  /\ HandedOn(p, kind, f) => \A i \in 1 .. Len(s) : ~Names(s[i], f)

\* The text that waits for its end is not of f, and only of a log between its lines.
CutFits(c, kind, f, sent) ==
  /\ ~Names(c, f)
  /\ sent \in 1 .. Size(kind, f) - 1 => c = NoLine \/ Plain(c)

Intact(f) == f \notin damaged /\ ~(f \in spliced /\ kinds[f] = "M")
Sent(f) == IF f = Begun THEN pos ELSE Size(kinds[f], f)
Stream == buffer \o wire

\* No line is of a frame that the device has not begun.
Begins(l, n) == l.frame <= n /\ l.inner.frame <= n
AllBegun ==
  /\ \A i \in 1 .. Len(Stream) : Begins(Stream[i], Begun)
  /\ Begins(cut, Begun)
  /\ \A k \in Parsers : \A i \in 1 .. Len(parser.pend[k]) : parser.pend[k][i].frame <= Begun

Fits(f) ==
  /\ WireFits(Stream, kinds[f], f, Sent(f))
  /\ ParserFits(parser, Stream, kinds[f], f, Sent(f))
  /\ CutFits(cut, kinds[f], f, Sent(f))

IntactInv ==
  /\ ~feeding => buffer = <<>>
  /\ AllBegun
  /\ \A f \in 1 .. Begun : Intact(f) => Fits(f)

-----------------------------------------------------------------------------
(* The lines of a frame, one by one                                         *)

LEMMA JoinIs ==
  ASSUME NEW T, NEW s \in Seq(T), NEW t \in Seq(T)
  PROVE  /\ s \o t \in Seq(T) /\ Len(s \o t) = Len(s) + Len(t)
         /\ \A i \in 1 .. Len(s) : (s \o t)[i] = s[i]
         /\ \A i \in 1 .. Len(t) : (s \o t)[Len(s) + i] = t[i]
OBVIOUS

LEMMA NumberedIs ==
  ASSUME NEW tag \in LineTag, NEW f \in 0 .. MaxFrames, NEW first \in {0, 1}
  PROVE  /\ Numbered(tag, f, first) \in Seq(LineType) /\ Len(Numbered(tag, f, first)) = Chunks
         /\ \A i \in 1 .. Chunks : Numbered(tag, f, first)[i] = Line(tag, f, i - 1 + first)
<1>1. \A i \in 1 .. Chunks : Numbered(tag, f, first)[i] = Line(tag, f, i - 1 + first)
  BY DEF Numbered
<1> QED
  BY <1>1, NumberedTyped

\* What each line of a frame is.
BodyIs(b, kind, f) ==
  /\ b \in Seq(LineType)
  /\ Len(b) = IF kind \in {"C", "M"} THEN Chunks + 1 ELSE 2 * Chunks + 1
  /\ b[1] = Line(kind, f, 0)
  /\ \A i \in 2 .. Chunks + 1 : b[i] = IF kind = "M" THEN Line("MR", f, i - 1) ELSE Line("D", f, i - 2)
  /\ kind \notin {"C", "M"} => \A i \in Chunks + 2 .. 2 * Chunks + 1 : b[i] = Line("P", f, i - Chunks - 2)

LEMMA BodyLines ==
  ASSUME NEW kind \in Headers, NEW f \in 0 .. MaxFrames
  PROVE  BodyIs(Body(kind, f), kind, f)
<1> DEFINE h == <<Line(kind, f, 0)>>
           d == Numbered("D", f, 0)
           pga == Numbered("P", f, 0)
           mr == Numbered("MR", f, 1)
           x == CASE kind = "C" -> d [] kind = "M" -> mr [] OTHER -> d \o pga
           b == h \o x
<1>1. Chunks \in Nat \ {0}
  BY ChunksAssumption
<1>2. h \in Seq(LineType) /\ Len(h) = 1 /\ h[1] = Line(kind, f, 0)
  <2>1. kind \in LineTag
    BY DEF LineTag
  <2>2. Line(kind, f, 0) \in LineType
    BY <2>1, LineTyped, ZeroIndex
  <2> HIDE DEF LineType, Line
  <2> QED
    BY <2>2
<1>3. "D" \in LineTag /\ "P" \in LineTag /\ "MR" \in LineTag
  BY DEF LineTag
<1>4. d \in Seq(LineType) /\ Len(d) = Chunks /\ \A i \in 1 .. Chunks : d[i] = Line("D", f, i - 1)
  <2>1. \A i \in 1 .. Chunks : Numbered("D", f, 0)[i] = Line("D", f, i - 1 + 0)
    BY <1>3, NumberedIs
  <2>2. \A i \in 1 .. Chunks : i - 1 + 0 = i - 1
    OBVIOUS
  <2> QED
    BY <1>3, <2>1, <2>2, NumberedIs
<1>5. pga \in Seq(LineType) /\ Len(pga) = Chunks /\ \A i \in 1 .. Chunks : pga[i] = Line("P", f, i - 1)
  <2>1. \A i \in 1 .. Chunks : Numbered("P", f, 0)[i] = Line("P", f, i - 1 + 0)
    BY <1>3, NumberedIs
  <2>2. \A i \in 1 .. Chunks : i - 1 + 0 = i - 1
    OBVIOUS
  <2> QED
    BY <1>3, <2>1, <2>2, NumberedIs
<1>6. mr \in Seq(LineType) /\ Len(mr) = Chunks /\ \A i \in 1 .. Chunks : mr[i] = Line("MR", f, i)
  <2>1. \A i \in 1 .. Chunks : Numbered("MR", f, 1)[i] = Line("MR", f, i - 1 + 1)
    BY <1>3, NumberedIs
  <2>2. \A i \in 1 .. Chunks : i - 1 + 1 = i
    OBVIOUS
  <2> QED
    BY <1>3, <2>1, <2>2, NumberedIs
<1>7. Body(kind, f) = b
  BY DEF Body
<1> HIDE DEF h, d, pga, mr, x, LineType, Line
<1>8. ASSUME x \in Seq(LineType)
      PROVE  /\ b \in Seq(LineType) /\ Len(b) = 1 + Len(x) /\ b[1] = Line(kind, f, 0)
             /\ \A i \in 2 .. Len(x) + 1 : b[i] = x[i - 1]
  <2>1. /\ b \in Seq(LineType) /\ Len(b) = 1 + Len(x)
        /\ \A i \in 1 .. 1 : b[i] = h[i]
        /\ \A i \in 1 .. Len(x) : b[1 + i] = x[i]
    BY <1>2, <1>8, JoinIs
  <2>2. \A i \in 2 .. Len(x) + 1 : i - 1 \in 1 .. Len(x) /\ 1 + (i - 1) = i
    BY <1>8
  <2> HIDE DEF b
  <2>3. \A i \in 2 .. Len(x) + 1 : b[i] = x[i - 1]
    <3> TAKE i \in 2 .. Len(x) + 1
    <3>1. b[1 + (i - 1)] = x[i - 1] /\ 1 + (i - 1) = i
      BY <2>1, <2>2
    <3> QED
      BY <3>1
  <2> QED
    BY <1>2, <2>1, <2>3
<1> HIDE DEF b
<1>9. \A i \in 2 .. Chunks + 1 : i - 1 \in 1 .. Chunks /\ i - 1 - 1 = i - 2
  BY <1>1
<1>10. CASE kind = "C"
  <2>1. x = d
    BY <1>10 DEF x
  <2>2. \A i \in 2 .. Chunks + 1 : b[i] = Line("D", f, i - 2)
    <3> TAKE i \in 2 .. Chunks + 1
    <3>1. b[i] = d[i - 1] /\ d[i - 1] = Line("D", f, i - 1 - 1)
      BY <1>4, <1>8, <1>9, <2>1
    <3> QED
      BY <1>9, <3>1
  <2> QED
    BY <1>1, <1>4, <1>7, <1>8, <1>10, <2>1, <2>2 DEF BodyIs
<1>11. CASE kind = "M"
  <2>1. x = mr
    BY <1>11 DEF x
  <2>2. \A i \in 2 .. Chunks + 1 : b[i] = Line("MR", f, i - 1)
    <3> TAKE i \in 2 .. Chunks + 1
    <3> QED
      BY <1>6, <1>8, <1>9, <2>1
  <2> QED
    BY <1>1, <1>6, <1>7, <1>8, <1>11, <2>1, <2>2 DEF BodyIs
<1>12. CASE kind \notin {"C", "M"}
  <2>1. x = d \o pga
    BY <1>12 DEF x
  <2>2. /\ x \in Seq(LineType) /\ Len(x) = Chunks + Chunks
        /\ \A i \in 1 .. Chunks : x[i] = d[i]
        /\ \A i \in 1 .. Chunks : x[Chunks + i] = pga[i]
    <3>1. /\ d \o pga \in Seq(LineType) /\ Len(d \o pga) = Len(d) + Len(pga)
          /\ \A i \in 1 .. Len(d) : (d \o pga)[i] = d[i]
          /\ \A i \in 1 .. Len(pga) : (d \o pga)[Len(d) + i] = pga[i]
      BY <1>4, <1>5, JoinIs
    <3> QED
      BY <1>4, <1>5, <2>1, <3>1
  <2>3. \A i \in 2 .. Chunks + 1 : b[i] = Line("D", f, i - 2)
    <3> TAKE i \in 2 .. Chunks + 1
    <3>1. i \in 2 .. Len(x) + 1
      BY <1>1, <2>2
    <3>2. b[i] = d[i - 1] /\ d[i - 1] = Line("D", f, i - 1 - 1)
      BY <1>4, <1>8, <1>9, <2>2, <3>1
    <3> QED
      BY <1>9, <3>2
  <2>4. \A i \in Chunks + 2 .. 2 * Chunks + 1 : b[i] = Line("P", f, i - Chunks - 2)
    <3> TAKE i \in Chunks + 2 .. 2 * Chunks + 1
    <3> DEFINE j == i - Chunks - 1
    <3>1. i \in 2 .. Len(x) + 1 /\ j \in 1 .. Chunks /\ i - 1 = Chunks + j /\ j - 1 = i - Chunks - 2
      BY <1>1, <2>2
    <3> HIDE DEF j
    <3>2. b[i] = x[Chunks + j] /\ x[Chunks + j] = pga[j] /\ pga[j] = Line("P", f, j - 1)
      BY <1>5, <1>8, <2>2, <3>1
    <3> QED
      BY <3>1, <3>2
  <2>5. Len(b) = 2 * Chunks + 1
    BY <1>1, <1>8, <2>2
  <2> QED
    BY <1>7, <1>8, <1>12, <2>2, <2>3, <2>4, <2>5 DEF BodyIs
<1> QED
  BY <1>10, <1>11, <1>12

LEMMA LineIs ==
  ASSUME NEW tag, NEW f, NEW i
  PROVE  /\ Line(tag, f, i).tag = tag /\ Line(tag, f, i).frame = f /\ Line(tag, f, i).index = i
         /\ Line(tag, f, i).state = "ok" /\ Line(tag, f, i).inner = NoHeader
BY DEF Line

LEMMA NoHeaderIs == NoHeader.tag = "" /\ NoHeader.frame = 0 /\ NoHeader.whole = FALSE
BY DEF NoHeader

\* The n-th line of a frame: sound, alone in its line, a header only if it is the
\* first and a trailer only if it is the last.
NthIs(l, kind, f, n, size) ==
  /\ l \in LineType
  /\ l.frame = f /\ l.state = "ok" /\ l.inner = NoHeader
  /\ l.tag \in {kind, "D", "P", "MR", "K"}
  /\ l.tag = kind <=> n = 1
  /\ l.tag = "K" <=> n = size

LEMMA FrameIs ==
  ASSUME NEW kind \in Headers, NEW f \in 0 .. MaxFrames
  PROVE  /\ LinesOf(kind, f) \in Seq(LineType)
         /\ Len(Body(kind, f)) \in Nat \ {0, 1} /\ Size(kind, f) = Len(Body(kind, f)) + 1
         /\ \A i \in 1 .. Len(Body(kind, f)) : LinesOf(kind, f)[i] = Body(kind, f)[i]
         /\ LinesOf(kind, f)[1] = Line(kind, f, 0)
         /\ LinesOf(kind, f)[Size(kind, f)] = Line("K", f, 0)
         /\ \A i \in 1 .. Size(kind, f) : NthIs(LinesOf(kind, f)[i], kind, f, i, Size(kind, f))
<1> DEFINE b == Body(kind, f)
           k == Line("K", f, 0)
           s == Append(b, k)
<1>1. BodyIs(b, kind, f)
  BY BodyLines
<1>2. Chunks \in Nat \ {0}
  BY ChunksAssumption
<1>3. k \in LineType /\ k.tag = "K" /\ k.frame = f /\ k.state = "ok" /\ k.inner = NoHeader
  <2>1. "K" \in LineTag
    BY DEF LineTag
  <2> QED
    BY <2>1, LineTyped, LineIs, ZeroIndex
<1>4. LinesOf(kind, f) = s
  BY DEF LinesOf
<1> HIDE DEF b, k, LineType, Line
<1>5. b \in Seq(LineType) /\ Len(b) \in Nat \ {0, 1}
  BY <1>1, <1>2 DEF BodyIs
<1>6. /\ s \in Seq(LineType) /\ Len(s) = Len(b) + 1 /\ s[Len(b) + 1] = k
      /\ \A i \in 1 .. Len(b) : s[i] = b[i]
  BY <1>3, <1>5
<1>7. 1 \in 1 .. Len(b)
  BY <1>5
<1>8. s[1] = Line(kind, f, 0)
  BY <1>1, <1>6, <1>7 DEF BodyIs
<1> HIDE DEF s
<1>9. \A tag \in {"C", "V", "R", "M"} : tag # "D" /\ tag # "P" /\ tag # "MR" /\ tag # "K"
  OBVIOUS
<1>10. kind # "D" /\ kind # "P" /\ kind # "MR" /\ kind # "K"
  BY <1>9 DEF Headers
<1>11. \A i \in 1 .. Len(s) : NthIs(s[i], kind, f, i, Len(s))
  <2> SUFFICES ASSUME NEW i \in 1 .. Len(s) PROVE NthIs(s[i], kind, f, i, Len(s))
    OBVIOUS
  <2>1. s[i] \in LineType /\ Len(s) = Len(b) + 1 /\ Len(b) \in Nat \ {0, 1}
    BY <1>5, <1>6
  <2>2. CASE i = 1
    <3>1. s[i] = Line(kind, f, 0) /\ i # Len(s)
      BY <1>5, <1>6, <1>8, <2>2
    <3> QED
      BY <1>10, <2>1, <2>2, <3>1, LineIs DEF NthIs
  <2>3. CASE i = Len(s)
    <3>1. s[i] = k /\ i # 1
      BY <1>5, <1>6, <2>3
    <3> QED
      BY <1>3, <1>10, <2>1, <2>3, <3>1 DEF NthIs
  <2>4. CASE i \in 2 .. Len(b)
    <3>1. s[i] = b[i] /\ i # 1 /\ i # Len(s)
      BY <1>5, <1>6, <2>4
    <3>2. i \in 2 .. Chunks + 1 \/ (kind \notin {"C", "M"} /\ i \in Chunks + 2 .. 2 * Chunks + 1)
      BY <1>1, <1>2, <2>4 DEF BodyIs
    <3>3. b[i] = Line("MR", f, i - 1) \/ b[i] = Line("D", f, i - 2) \/ b[i] = Line("P", f, i - Chunks - 2)
      BY <1>1, <3>2 DEF BodyIs
    <3>4. /\ s[i].tag \in {"D", "P", "MR"} /\ s[i].frame = f /\ s[i].state = "ok"
          /\ s[i].inner = NoHeader
      BY <3>1, <3>3, LineIs
    <3> QED
      BY <1>10, <2>1, <3>1, <3>4 DEF NthIs
  <2>5. i = 1 \/ i = Len(s) \/ i \in 2 .. Len(b)
    BY <2>1
  <2> QED
    BY <2>2, <2>3, <2>4, <2>5
<1>12. Size(kind, f) = Len(s)
  BY <1>4 DEF Size
<1> QED
  BY <1>4, <1>5, <1>6, <1>8, <1>11, <1>12 DEF b, k

\* Which frame and which of its lines a line bears.
LEMMA BearsOne ==
  ASSUME NEW kind \in Headers, NEW f \in 1 .. MaxFrames, NEW n \in 1 .. Size(kind, f), NEW l,
         Bears(l, kind, f, n)
  PROVE  /\ Names(l, f) /\ ~Plain(l) /\ l.state # "odd"
         /\ Bears(l, kind, f, 1) => n = 1
         /\ Bears(l, kind, f, Size(kind, f)) => n = Size(kind, f)
         /\ n > 1 => NthIs(l, kind, f, n, Size(kind, f))
<1> DEFINE size == Size(kind, f)
           s == LinesOf(kind, f)
<1>1. f \in 0 .. MaxFrames
  BY NaturalBounds
<1>2. \A i \in 1 .. size : NthIs(s[i], kind, f, i, size)
  BY <1>1, FrameIs
<1>3. size \in Nat /\ size > 2
  <2>1. Len(Body(kind, f)) \in Nat \ {0, 1} /\ size = Len(Body(kind, f)) + 1
    BY <1>1, FrameIs
  <2>2. \A m \in Nat \ {0, 1} : m + 1 \in Nat /\ m + 1 > 2
    OBVIOUS
  <2> HIDE DEF size
  <2> QED
    BY <2>1, <2>2
<1>4. \A tag \in {"C", "V", "R", "M"} : tag # "" /\ tag # "LOG"
  OBVIOUS
<1>5. kind # "" /\ kind # "LOG"
  BY <1>4 DEF Headers
<1>9. [tag |-> kind, frame |-> f, whole |-> TRUE] # NoHeader
  <2>1. [tag |-> kind, frame |-> f, whole |-> TRUE].tag = kind
    OBVIOUS
  <2> QED
    BY <1>5, <2>1, NoHeaderIs
<1>6. \A m : Bears(l, kind, f, m) <=>
        \/ l = s[m]
        \/ m = 1 /\ kind # "M" /\ l.state # "odd" /\ l.inner = [tag |-> kind, frame |-> f, whole |-> TRUE]
  BY DEF Bears
<1> HIDE DEF size, s
<1>7. CASE l = s[n]
  <2>1. NthIs(l, kind, f, n, size)
    BY <1>2, <1>7 DEF size
  <2>2. l.inner # [tag |-> kind, frame |-> f, whole |-> TRUE]
    BY <1>9, <2>1 DEF NthIs
  <2>3. Names(l, f) /\ ~Plain(l) /\ l.state # "odd"
    BY <1>5, <2>1 DEF NthIs, Names, Plain
  <2>4. Bears(l, kind, f, 1) => n = 1
    <3> HAVE Bears(l, kind, f, 1)
    <3>1. l = s[1] /\ 1 \in 1 .. size
      BY <1>3, <1>6, <2>2
    <3>2. NthIs(l, kind, f, 1, size)
      BY <1>2, <3>1
    <3> QED
      BY <2>1, <3>2 DEF NthIs
  <2>5. Bears(l, kind, f, size) => n = size
    <3> HAVE Bears(l, kind, f, size)
    <3>1. l = s[size] /\ size \in 1 .. size
      BY <1>3, <1>6, <2>2
    <3>2. NthIs(l, kind, f, size, size)
      BY <1>2, <3>1
    <3> QED
      BY <2>1, <3>2 DEF NthIs
  <2> QED
    BY <2>1, <2>3, <2>4, <2>5 DEF size
<1>8. CASE /\ l # s[n] /\ n = 1 /\ kind # "M" /\ l.state # "odd"
           /\ l.inner = [tag |-> kind, frame |-> f, whole |-> TRUE]
  <2>1. l.inner.frame = f /\ l.inner # NoHeader
    BY <1>8, <1>9
  <2>2. Names(l, f) /\ ~Plain(l)
    BY <2>1 DEF Names, Plain
  <2>3. ~Bears(l, kind, f, size)
    <3> SUFFICES ASSUME Bears(l, kind, f, size) PROVE FALSE
      OBVIOUS
    <3>1. l = s[size] /\ size \in 1 .. size
      BY <1>3, <1>6
    <3>2. NthIs(l, kind, f, size, size)
      BY <1>2, <3>1
    <3> QED
      BY <2>1, <3>2 DEF NthIs
  <2> QED
    BY <1>8, <2>2, <2>3 DEF size
<1> QED
  BY <1>6, <1>7, <1>8

-----------------------------------------------------------------------------
(* What the parsers do with the lines of a frame in their order             *)

LEMMA IntervalCount ==
  ASSUME NEW a \in Nat, NEW b \in Nat, a <= b + 1
  PROVE  Cardinality(a .. b) = b - a + 1
<1>1. a \in Int /\ b \in Int
  OBVIOUS
<1>2. Cardinality(a .. b) = IF a > b THEN 0 ELSE b - a + 1
  BY <1>1, FS_Interval
<1> QED
  BY <1>2

LEMMA HeldSequence ==
  ASSUME NEW p \in StreamType, NEW k \in Parsers
  PROVE  /\ p.pend[k] \in Seq(LineType) /\ Len(p.pend[k]) \in Nat
         /\ DOMAIN p.pend[k] = 1 .. Len(p.pend[k])
<1>1. p.pend[k] \in Seq(LineType)
  BY DEF StreamType
<1> HIDE DEF LineType
<1> QED
  BY <1>1

\* How many lines of each tag the first n lines of a frame have.
LEMMA HeldCounts ==
  ASSUME NEW p \in StreamType, NEW kind \in Headers, NEW f \in 0 .. MaxFrames, NEW n,
         Holds(p, kind, f, n)
  PROVE  /\ kind = "M" => Count(p, Owner(kind), "MR") = n - 1
         /\ kind # "M" => Count(p, Owner(kind), "D") = IF n <= Chunks + 1 THEN n - 1 ELSE Chunks
         /\ kind \notin {"C", "M"} =>
              Count(p, Owner(kind), "P") = IF n <= Chunks + 1 THEN 0 ELSE n - 1 - Chunks
<1> DEFINE k == Owner(kind)
           b == Body(kind, f)
<1>1. k \in Parsers
  BY OwnerIsParser
<1>2. BodyIs(b, kind, f)
  BY BodyLines
<1>3. Chunks \in Nat \ {0}
  BY ChunksAssumption
<1>4. /\ n \in 1 .. Len(b) /\ Len(p.pend[k]) = n
      /\ \A i \in 1 .. n : p.pend[k][i] = b[i]
  BY DEF Holds
<1>5. Len(b) = IF kind \in {"C", "M"} THEN Chunks + 1 ELSE 2 * Chunks + 1
  BY <1>2 DEF BodyIs
<1>6. n \in Nat \ {0} /\ (kind \in {"C", "M"} => n <= Chunks + 1) /\ n <= 2 * Chunks + 1
  BY <1>3, <1>4, <1>5
<1>7. DOMAIN p.pend[k] = 1 .. n
  BY <1>1, <1>4, HeldSequence
<1>8. \A tag \in {"C", "V", "R", "M"} : tag # "D" /\ tag # "P" /\ tag # "MR"
  OBVIOUS
<1>9. kind # "D" /\ kind # "P" /\ kind # "MR"
  BY <1>8 DEF Headers
<1>10. ASSUME NEW i \in 1 .. n
       PROVE  b[i].tag = IF i = 1 THEN kind
                         ELSE IF i > Chunks + 1 THEN "P" ELSE IF kind = "M" THEN "MR" ELSE "D"
  <2>1. i \in 1 .. Len(b) /\ i \in Nat
    BY <1>4, <1>6
  <2>2. CASE i = 1
    BY <1>2, <2>2, LineIs DEF BodyIs
  <2>3. CASE i \in 2 .. Chunks + 1
    <3>1. b[i] = IF kind = "M" THEN Line("MR", f, i - 1) ELSE Line("D", f, i - 2)
      BY <1>2, <2>3 DEF BodyIs
    <3>2. b[i].tag = IF kind = "M" THEN "MR" ELSE "D"
      BY <3>1, LineIs
    <3> QED
      BY <1>3, <2>3, <3>2
  <2>4. CASE i > Chunks + 1
    <3>1. kind \notin {"C", "M"} /\ i \in Chunks + 2 .. 2 * Chunks + 1
      BY <1>3, <1>6, <2>1, <2>4
    <3>2. b[i] = Line("P", f, i - Chunks - 2)
      BY <1>2, <3>1 DEF BodyIs
    <3>3. b[i].tag = "P"
      BY <3>2, LineIs
    <3> QED
      BY <1>3, <2>4, <3>3
  <2> QED
    BY <1>3, <2>1, <2>2, <2>3, <2>4
<1> HIDE DEF k, b
<1>11. CASE kind = "M"
  <2>1. \A i \in 1 .. n : p.pend[k][i].tag = "MR" <=> 2 <= i /\ i <= n
    <3> TAKE i \in 1 .. n
    <3>1. i <= Chunks + 1 /\ i \in Nat /\ i <= n /\ ~(i > Chunks + 1)
      BY <1>3, <1>6, <1>11
    <3>2. p.pend[k][i].tag = IF i = 1 THEN "M" ELSE "MR"
      BY <1>4, <1>10, <1>11, <3>1
    <3> QED
      BY <3>1, <3>2
  <2>2. 2 \in 1 .. n + 1 /\ n \in 0 .. n /\ 2 <= n + 1 /\ n \in Nat
    BY <1>6
  <2>3. Count(p, k, "MR") = n - 2 + 1
    <3>1. {i \in DOMAIN p.pend[k] : p.pend[k][i].tag = "MR"} = 2 .. n
      BY <1>7, <2>1, <2>2
    <3> QED
      BY <2>2, <3>1, IntervalCount DEF Count
  <2> QED
    BY <1>6, <1>11, <2>3 DEF k
<1>12. CASE kind # "M"
  <2> DEFINE m == IF n <= Chunks + 1 THEN n ELSE Chunks + 1
  <2>1. m \in 1 .. n /\ m \in 0 .. n /\ m + 1 \in 1 .. n + 1 /\ m <= n /\ m <= Chunks + 1 /\ n \in Nat
        /\ \A i \in 1 .. n : i \in Nat /\ (i <= m <=> ~(i > Chunks + 1))
    BY <1>3, <1>6
  <2>2. \A i \in 1 .. n : p.pend[k][i].tag = "D" <=> 2 <= i /\ i <= m
    <3> TAKE i \in 1 .. n
    <3>1. p.pend[k][i].tag = IF i = 1 THEN kind ELSE IF i > Chunks + 1 THEN "P" ELSE "D"
      BY <1>4, <1>10, <1>12
    <3>2. i \in Nat /\ i >= 1 /\ (i <= m <=> ~(i > Chunks + 1))
      BY <2>1
    <3> HIDE DEF m
    <3> QED
      BY <1>9, <3>1, <3>2
  <2>3. \A i \in 1 .. n : p.pend[k][i].tag = "P" <=> m + 1 <= i /\ i <= n
    <3> TAKE i \in 1 .. n
    <3>1. p.pend[k][i].tag = IF i = 1 THEN kind ELSE IF i > Chunks + 1 THEN "P" ELSE "D"
      BY <1>4, <1>10, <1>12
    <3>2. i \in Nat /\ i >= 1 /\ i <= n /\ (i <= m <=> ~(i > Chunks + 1)) /\ m \in Nat /\ m >= 1
      BY <2>1
    <3> HIDE DEF m
    <3> QED
      BY <1>9, <3>1, <3>2
  <2>4. m \in Nat /\ 2 \in 1 .. n + 1 /\ 2 <= m + 1 /\ n \in 0 .. n /\ m + 1 <= n + 1
    BY <1>6, <2>1
  <2> HIDE DEF m
  <2>5. Count(p, k, "D") = m - 2 + 1
    <3>1. {i \in DOMAIN p.pend[k] : p.pend[k][i].tag = "D"} = 2 .. m
      BY <1>7, <2>1, <2>2, <2>4
    <3> QED
      BY <2>4, <3>1, IntervalCount DEF Count
  <2>6. Count(p, k, "P") = n - (m + 1) + 1
    <3>1. {i \in DOMAIN p.pend[k] : p.pend[k][i].tag = "P"} = m + 1 .. n
      BY <1>7, <2>1, <2>3, <2>4
    <3>2. m + 1 \in Nat /\ m + 1 <= n + 1 /\ n \in Nat
      BY <2>1, <2>4
    <3> QED
      BY <3>1, <3>2, IntervalCount DEF Count
  <2> QED
    BY <1>3, <1>6, <1>12, <2>4, <2>5, <2>6 DEF k, m
<1> QED
  BY <1>11, <1>12

\* A sound line with no header inside takes the way that its tag says.
LEMMA SoundIsRouted ==
  ASSUME NEW p, NEW l \in LineType, l.state # "odd", l.inner = NoHeader
  PROVE  FeedLine(p, l) = Routed(p, l)
<1>1. Embedded(l.inner) = {FALSE}
  BY DEF Embedded
<1> QED
  BY <1>1 DEF FeedLine

\* A log line changes nothing.
LEMMA PlainPasses ==
  ASSUME NEW p, NEW l \in LineType, Plain(l), NEW q \in FeedLine(p, l)
  PROVE  q = p
<1>1. l.tag = "LOG" /\ l.state # "odd" /\ l.inner = NoHeader
  BY DEF Plain
<1>2. q \in Routed(p, l)
  BY <1>1, SoundIsRouted
<1>3. q \in CapFeed(p, l)
  BY <1>1, <1>2 DEF Routed, Headers
<1> QED
  BY <1>1, <1>3 DEF CapFeed

LEMMA OwnerIs ==
  ASSUME NEW kind \in Headers
  PROVE  /\ Owner(kind) = IF kind \in {"V", "R"} THEN "V" ELSE kind
         /\ Owner(kind) \in Parsers /\ kind # None
BY OwnerIsParser DEF Owner, Headers

LEMMA HeaderRouted ==
  ASSUME NEW p, NEW l, l.tag \in Headers
  PROVE  Routed(p, l) = Feed(Owner(l.tag), Activated(p, l.tag), l)
                          \cup (IF l.tag = "M" /\ l.state = "bad" THEN {p} ELSE {})
BY LineTags DEF Routed

\* A sound header begins its frame, whatever was pending.
LEMMA HeaderOpens ==
  ASSUME NEW p, Ordered(p), NEW kind \in Headers, NEW f \in 0 .. MaxFrames,
         NEW q \in Routed(p, Line(kind, f, 0))
  PROVE  Holds(q, kind, f, 1) /\ q.out = p.out
<1> DEFINE l == Line(kind, f, 0)
           r == Activated(p, kind)
           k == Owner(kind)
<1>1. l \in LineType /\ l.tag = kind /\ l.state = "ok"
  <2>1. kind \in LineTag
    BY DEF LineTag
  <2> QED
    BY <2>1, LineTyped, LineIs, ZeroIndex
<1>2. Ordered(r)
  BY ActivatedIsOrdered
<1>3. k \in Parsers /\ k = IF kind \in {"V", "R"} THEN "V" ELSE kind
  BY OwnerIs
<1>4. q \in Feed(k, r, l)
  <2>1. Routed(p, l) = Feed(Owner(l.tag), Activated(p, l.tag), l)
                         \cup (IF l.tag = "M" /\ l.state = "bad" THEN {p} ELSE {})
    BY <1>1, HeaderRouted
  <2> HIDE DEF l
  <2>2. Routed(p, l) = Feed(k, r, l)
    BY <1>1, <2>1
  <2> QED
    BY <2>2 DEF l
<1> HIDE DEF l, r, k
<1>5. kind = "C" \/ kind = "M" \/ kind \in {"V", "R"}
  BY DEF Headers
<1>6. q \in Taken(l, Opened(r, k, l), Rejected(r, k))
  <2>1. CASE kind = "C"
    BY <1>1, <1>3, <1>4, <2>1 DEF Feed, CapFeed, CapHeader
  <2>2. CASE kind = "M"
    BY <1>1, <1>3, <1>4, <2>2 DEF Feed, MixedFeed, MixedHeader
  <2>3. CASE kind \in {"V", "R"}
    BY <1>1, <1>3, <1>4, <2>3 DEF Feed, MeasurementFeed, MeasurementHeader
  <2> QED
    BY <1>5, <2>1, <2>2, <2>3
<1>7. q = Opened(r, k, l)
  BY <1>1, <1>6 DEF Taken
<1>8. q.pend[k] = <<l>>
  <2>1. <<l>> \in Seq(LineType)
    BY <1>1
  <2> QED
    BY <1>2, <1>3, <1>7, <2>1, PendingSet DEF Opened, Ordered
<1>9. Len(Body(kind, f)) \in Nat \ {0} /\ Body(kind, f)[1] = l
  BY FrameIs, BodyLines DEF BodyIs, l
<1>10. Len(q.pend[k]) = 1 /\ q.pend[k][1] = l
  BY <1>8
<1>11. 1 \in 1 .. Len(Body(kind, f)) /\ \A i \in 1 .. 1 : i = 1
  BY <1>9
<1>12. q.out = p.out
  <2>1. r.out = p.out
    BY ActivatedIsOrdered DEF r
  <2>2. <<l>> \in Seq(LineType)
    BY <1>1
  <2> QED
    BY <1>2, <1>3, <1>7, <2>1, <2>2, PendingSet DEF Opened, Ordered
<1> QED
  BY <1>9, <1>10, <1>11, <1>12 DEF Holds, k

\* So does a header behind a cut line, for the kinds that are looked for there.
LEMMA FirstLineOpens ==
  ASSUME NEW p, Ordered(p), NEW kind \in Headers, NEW f \in 0 .. MaxFrames,
         NEW l \in LineType, Bears(l, kind, f, 1), NEW q \in FeedLine(p, l)
  PROVE  Holds(q, kind, f, 1) /\ q.out = p.out
<1>1. CASE l = LinesOf(kind, f)[1]
  <2>1. l = Line(kind, f, 0)
    BY <1>1, FrameIs
  <2>2. l.state # "odd" /\ l.inner = NoHeader
    BY <2>1, LineIs
  <2> QED
    BY <2>1, <2>2, SoundIsRouted, HeaderOpens
<1>2. CASE /\ kind # "M" /\ l.state # "odd"
           /\ l.inner = [tag |-> kind, frame |-> f, whole |-> TRUE]
  <2>1. l.inner # NoHeader /\ l.inner.whole = TRUE /\ l.inner.tag = kind /\ l.inner.frame = f
    <3> DEFINE h == [tag |-> kind, frame |-> f, whole |-> TRUE]
    <3>1. h.whole = TRUE /\ h.tag = kind /\ h.frame = f
      OBVIOUS
    <3>2. l.inner = h
      BY <1>2
    <3> HIDE DEF h
    <3>3. h # NoHeader
      BY <3>1, NoHeaderIs
    <3> QED
      BY <3>1, <3>2, <3>3
  <2>2. Embedded(l.inner) = {TRUE}
    BY <1>2, <2>1 DEF Embedded
  <2>3. q \in Routed(ActiveReset(p), HeaderLine(l.inner))
    BY <1>2, <2>2 DEF FeedLine
  <2>4. HeaderLine(l.inner) = Line(kind, f, 0)
    BY <2>1 DEF HeaderLine, Line
  <2> QED
    BY <2>3, <2>4, ActiveResetStep, HeaderOpens
<1> QED
  BY <1>1, <1>2 DEF Bears

\* The active frame type is that of a frame that is pending.
LEMMA HeldIsActive ==
  ASSUME NEW p, Ordered(p), NEW kind \in Headers, NEW f \in 0 .. MaxFrames, NEW n,
         Holds(p, kind, f, n)
  PROVE  /\ n \in Nat \ {0} /\ p.pend[Owner(kind)] # <<>>
         /\ p.active # None /\ Owner(p.active) = Owner(kind)
         /\ kind = "C" => p.active = "C"
         /\ kind # "C" => p.active # "C"
<1>1. n \in Nat \ {0} /\ Len(p.pend[Owner(kind)]) = n
  <2>1. Len(Body(kind, f)) \in Nat
    BY FrameIs
  <2> QED
    BY <2>1 DEF Holds
<1>2. p.pend[Owner(kind)] # <<>>
  BY <1>1
<1>3. p.active # None /\ Owner(p.active) = Owner(kind) /\ p.active \in Headers \cup {None}
  BY <1>2, OwnerIs DEF Ordered, Owns, StreamType
<1>4. p.active \in Headers
  BY <1>3
<1>5. Owner("C") = "C" /\ \A j \in Headers : Owner(j) = "C" => j = "C"
  BY OwnerIs DEF Owner
<1> QED
  BY <1>1, <1>2, <1>3, <1>4, <1>5

LEMMA DataRouted ==
  ASSUME NEW p, p.active # None, NEW l
  PROVE  /\ l.tag = "MR" => Routed(p, l) = MixedFeed(p, l)
         /\ l.tag = "D" => Routed(p, l) = IF Owner(p.active) = "V" THEN MeasurementFeed(p, l)
                                                                   ELSE CapFeed(p, l)
         /\ l.tag = "P" => Routed(p, l) = IF p.active = "C" THEN CapFeed(p, l)
                                                            ELSE MeasurementFeed(p, l)
         /\ l.tag = "K" => Routed(p, l) = Feed(Owner(p.active), [p EXCEPT !.active = None], l)
BY LineTags DEF Routed

\* The line that comes next is added to a pending frame.
LEMMA NextLineTaken ==
  ASSUME NEW p, Ordered(p), NEW kind \in Headers, NEW f \in 0 .. MaxFrames, NEW n,
         Holds(p, kind, f, n), n < Len(Body(kind, f)), NEW l, l = Body(kind, f)[n + 1],
         NEW q \in FeedLine(p, l)
  PROVE  q = Extended(p, Owner(kind), l)
<1> DEFINE k == Owner(kind)
           b == Body(kind, f)
<1>1. /\ n \in Nat \ {0} /\ p.pend[k] # <<>> /\ p.active # None /\ Owner(p.active) = k
      /\ kind = "C" => p.active = "C"
      /\ kind # "C" => p.active # "C"
  BY HeldIsActive
<1>2. BodyIs(b, kind, f) /\ Len(b) \in Nat
  BY BodyLines, FrameIs
<1>3. /\ l \in LineType /\ l.state = "ok" /\ l.inner = NoHeader
  <2>1. n + 1 \in 1 .. Len(b) /\ Size(kind, f) = Len(b) + 1
    BY <1>1, <1>2, FrameIs
  <2>2. n + 1 \in 1 .. Size(kind, f)
    BY <1>2, <2>1
  <2>3. NthIs(LinesOf(kind, f)[n + 1], kind, f, n + 1, Size(kind, f)) /\ LinesOf(kind, f)[n + 1] = b[n + 1]
    BY <2>1, <2>2, FrameIs
  <2> QED
    BY <2>3 DEF NthIs
<1>4. q \in Routed(p, l)
  BY <1>3, SoundIsRouted
<1>5. k = IF kind \in {"V", "R"} THEN "V" ELSE kind
  BY OwnerIs
<1>6. p \in StreamType
  BY DEF Ordered
<1>7. Chunks \in Nat \ {0}
  BY ChunksAssumption
<1>8. Len(b) = IF kind \in {"C", "M"} THEN Chunks + 1 ELSE 2 * Chunks + 1
  BY <1>2 DEF BodyIs
<1>9. kind = "C" \/ kind = "M" \/ kind \in {"V", "R"}
  BY DEF Headers
<1>10. /\ kind = "M" => Count(p, k, "MR") = n - 1
       /\ kind # "M" => Count(p, k, "D") = IF n <= Chunks + 1 THEN n - 1 ELSE Chunks
       /\ kind \notin {"C", "M"} => Count(p, k, "P") = IF n <= Chunks + 1 THEN 0 ELSE n - 1 - Chunks
  BY <1>6, HeldCounts
<1>11. l = b[n + 1]
  OBVIOUS
<1>12. Taken(l, Extended(p, k, l), Rejected(p, k)) = {Extended(p, k, l)}
  BY <1>3 DEF Taken
<1>13. /\ Len(p.pend[k]) = n
       /\ \A i \in 1 .. n : p.pend[k][i] = b[i]
  BY DEF Holds
<1> HIDE DEF k, b
<1>14. CASE n + 1 \in 2 .. Chunks + 1
  <2>1. l = IF kind = "M" THEN Line("MR", f, n) ELSE Line("D", f, n - 1)
    <3> DEFINE m == n + 1
    <3>1. m - 1 = n /\ m - 2 = n - 1 /\ l = b[m] /\ m \in 2 .. Chunks + 1
      BY <1>1, <1>11, <1>14
    <3> HIDE DEF m
    <3>2. b[m] = IF kind = "M" THEN Line("MR", f, m - 1) ELSE Line("D", f, m - 2)
      BY <1>2, <3>1 DEF BodyIs
    <3> QED
      BY <3>1, <3>2
  <2>2. n <= Chunks /\ n - 1 < Chunks /\ n <= Chunks + 1
    BY <1>1, <1>7, <1>14
  <2>3. CASE kind = "C"
    <3>1. l.tag = "D" /\ l.index = n - 1
      BY <2>1, <2>3, LineIs
    <3>2. q \in CapFeed(p, l)
      BY <1>1, <1>4, <1>5, <2>3, <3>1, DataRouted
    <3>3. q \in CapData(p, l)
      BY <1>1, <1>3, <1>5, <2>3, <3>1, <3>2 DEF CapFeed
    <3>4. Count(p, "C", "D") = n - 1
      BY <1>5, <1>10, <2>2, <2>3
    <3> QED
      BY <1>1, <1>5, <1>7, <1>12, <2>2, <2>3, <3>1, <3>3, <3>4 DEF CapData, k
  <2>4. CASE kind \in {"V", "R"}
    <3>1. l.tag = "D" /\ l.index = n - 1
      BY <2>1, <2>4, LineIs
    <3>2. q \in MeasurementFeed(p, l)
      BY <1>1, <1>4, <1>5, <2>4, <3>1, DataRouted
    <3>3. q \in MeasurementData(p, l)
      BY <1>1, <1>3, <1>5, <2>4, <3>1, <3>2 DEF MeasurementFeed
    <3>4. Count(p, "V", "D") = n - 1 /\ Count(p, "V", "P") = 0
      BY <1>5, <1>10, <2>2, <2>4
    <3> QED
      BY <1>1, <1>5, <1>7, <1>12, <2>2, <2>4, <3>1, <3>3, <3>4 DEF MeasurementData, k
  <2>5. CASE kind = "M"
    <3>1. l.tag = "MR" /\ l.index = n
      BY <2>1, <2>5, LineIs
    <3>2. q \in MixedFeed(p, l)
      BY <1>1, <1>4, <3>1, DataRouted
    <3>3. q \in MixedRow(p, l)
      BY <1>1, <1>3, <1>5, <2>5, <3>1, <3>2 DEF MixedFeed
    <3>4. \A i \in 1 .. Len(p.pend["M"]) : ~(p.pend["M"][i].tag = "MR" /\ p.pend["M"][i].index = l.index)
      <4> SUFFICES ASSUME NEW i \in 1 .. n, b[i].tag = "MR" PROVE b[i].index # n
        BY <1>5, <1>13, <2>5, <3>1
      <4>1. i \in Nat /\ (i = 1 \/ i \in 2 .. Chunks + 1) /\ i <= n
        BY <1>1, <1>7, <2>2
      <4>2. CASE i = 1
        BY <1>2, <2>5, <4>2, LineIs DEF BodyIs
      <4>3. CASE i \in 2 .. Chunks + 1
        <5>1. b[i] = Line("MR", f, i - 1)
          BY <1>2, <2>5, <4>3 DEF BodyIs
        <5>2. b[i].index = i - 1
          BY <5>1, LineIs
        <5> QED
          BY <1>1, <4>1, <5>2
      <4> QED
        BY <4>1, <4>2, <4>3
    <3>5. l.index \in 1 .. Chunks
      BY <1>1, <1>7, <2>2, <3>1
    <3> QED
      BY <1>5, <1>12, <2>5, <3>3, <3>4, <3>5 DEF MixedRow, k
  <2> QED
    BY <1>9, <2>3, <2>4, <2>5
<1>15. CASE kind \in {"V", "R"} /\ n + 1 \in Chunks + 2 .. 2 * Chunks + 1
  <2>1. l = Line("P", f, n - 1 - Chunks)
    <3> DEFINE m == n + 1
    <3>1. /\ kind \notin {"C", "M"} /\ m - Chunks - 2 = n - 1 - Chunks
          /\ l = b[m] /\ m \in Chunks + 2 .. 2 * Chunks + 1
      BY <1>1, <1>7, <1>11, <1>15
    <3> HIDE DEF m
    <3>2. b[m] = Line("P", f, m - Chunks - 2)
      BY <1>2, <3>1 DEF BodyIs
    <3> QED
      BY <3>1, <3>2
  <2>2. l.tag = "P" /\ l.index = n - 1 - Chunks
    BY <2>1, LineIs
  <2>3. q \in MeasurementFeed(p, l)
    BY <1>1, <1>4, <1>15, <2>2, DataRouted
  <2>4. q \in MeasurementPga(p, l)
    BY <1>1, <1>3, <1>5, <1>15, <2>2, <2>3 DEF MeasurementFeed
  <2>5. Count(p, "V", "D") = Chunks /\ Count(p, "V", "P") = n - 1 - Chunks /\ n - 1 - Chunks < Chunks
    BY <1>1, <1>5, <1>7, <1>10, <1>15
  <2> QED
    BY <1>1, <1>5, <1>7, <1>12, <1>15, <2>2, <2>4, <2>5 DEF MeasurementPga, k
<1> QED
  BY <1>1, <1>2, <1>7, <1>8, <1>9, <1>14, <1>15 DEF b

LEMMA NextLineExtends ==
  ASSUME NEW p, Ordered(p), NEW kind \in Headers, NEW f \in 0 .. MaxFrames, NEW n,
         Holds(p, kind, f, n), n < Len(Body(kind, f)), NEW l, l = Body(kind, f)[n + 1],
         NEW q \in FeedLine(p, l)
  PROVE  Holds(q, kind, f, n + 1) /\ q.out = p.out
<1> DEFINE k == Owner(kind)
           s == p.pend[k]
<1>1. p \in StreamType /\ k \in Parsers
  BY OwnerIs DEF Ordered
<1>2. s \in Seq(LineType)
  BY <1>1, HeldSequence
<1>3. n \in Nat \ {0} /\ Len(Body(kind, f)) \in Nat /\ Body(kind, f) \in Seq(LineType)
  BY HeldIsActive, FrameIs, BodyLines DEF BodyIs
<1>4. l \in LineType
  <2>1. n + 1 \in 1 .. Len(Body(kind, f))
    BY <1>3
  <2> HIDE DEF LineType
  <2> QED
    BY <1>3, <2>1
<1>5. q = Extended(p, k, l)
  BY NextLineTaken
<1> HIDE DEF k, LineType
<1>6. Append(s, l) \in Seq(LineType)
  BY <1>2, <1>4
<1>7. q.pend[k] = Append(s, l) /\ q.out = p.out
  <2> DEFINE u == Append(s, l)
  <2>1. q = [p EXCEPT !.pend[k] = u]
    BY <1>5 DEF Extended
  <2>2. u \in Seq(LineType)
    BY <1>6
  <2> HIDE DEF u
  <2>3. q.pend[k] = u /\ q.out = p.out
    BY <1>1, <2>1, <2>2, PendingSet
  <2> QED
    BY <2>3 DEF u
<1>8. Len(s) = n /\ \A i \in 1 .. n : s[i] = Body(kind, f)[i]
  BY DEF Holds, k
<1> HIDE DEF s
<1>9. /\ Len(Append(s, l)) = n + 1 /\ Append(s, l)[n + 1] = l
      /\ \A i \in 1 .. n : Append(s, l)[i] = s[i]
  BY <1>2, <1>3, <1>4, <1>8
<1>10. \A i \in 1 .. n + 1 : i \in 1 .. n \/ i = n + 1
  BY <1>3
<1>11. n + 1 \in 1 .. Len(Body(kind, f))
  BY <1>3
<1>12. \A i \in 1 .. n + 1 : q.pend[k][i] = Body(kind, f)[i]
  BY <1>7, <1>8, <1>9, <1>10
<1> QED
  BY <1>7, <1>9, <1>11, <1>12 DEF Holds, k

LEMMA SameSequence ==
  ASSUME NEW T, NEW s \in Seq(T), NEW t \in Seq(T), Len(s) = Len(t),
         \A i \in 1 .. Len(s) : s[i] = t[i]
  PROVE  s = t
OBVIOUS

LEMMA EmittedIs ==
  ASSUME NEW p \in StreamType, NEW k \in Parsers
  PROVE  Emitted(p, k).out = Append(p.out, p.pend[k]) /\ Emitted(p, k).pend[k] = <<>>
<1> DEFINE Line_s == Seq(LineType)
           Out_s == Seq(Seq(LineType))
           r == [p EXCEPT !.out = Append(p.out, p.pend[k])]
<1>1. p \in [active : Headers \cup {None}, pend : [Parsers -> Line_s], out : Out_s]
  BY DEF StreamType
<1>2. Emitted(p, k) = [r EXCEPT !.pend[k] = <<>>]
  BY DEF Emitted
<1> HIDE DEF Out_s, Line_s
<1> QED
  BY <1>1, <1>2

\* The trailer hands on the frame whose other lines are pending.
LEMMA TrailerHandsOn ==
  ASSUME NEW p, Ordered(p), NEW kind \in Headers, NEW f \in 0 .. MaxFrames, kinds[f] = kind,
         Holds(p, kind, f, Len(Body(kind, f))), NEW q \in FeedLine(p, Line("K", f, 0))
  PROVE  q.out = Append(p.out, Body(kind, f)) /\ q.pend[Owner(kind)] = <<>>
<1> DEFINE k == Owner(kind)
           b == Body(kind, f)
           n == Len(b)
           l == Line("K", f, 0)
           r == [p EXCEPT !.active = None]
<1>1. /\ n \in Nat \ {0} /\ p.pend[k] # <<>> /\ p.active # None /\ Owner(p.active) = k
  BY HeldIsActive
<1>2. BodyIs(b, kind, f)
  BY BodyLines
<1>3. l \in LineType /\ l.tag = "K" /\ l.frame = f /\ l.state = "ok" /\ l.inner = NoHeader
  <2>1. "K" \in LineTag
    BY DEF LineTag
  <2> QED
    BY <2>1, LineTyped, LineIs, ZeroIndex
<1>4. k \in Parsers /\ k = IF kind \in {"V", "R"} THEN "V" ELSE kind
  BY OwnerIs
<1>5. r \in StreamType /\ r.pend = p.pend /\ r.out = p.out
  BY NothingActive DEF Ordered
<1>6. Holds(r, kind, f, n)
  BY <1>5 DEF Holds
<1>7. Chunks \in Nat \ {0}
  BY ChunksAssumption
<1>8. n = IF kind \in {"C", "M"} THEN Chunks + 1 ELSE 2 * Chunks + 1
  BY <1>2 DEF BodyIs
<1>9. kind = "C" \/ kind = "M" \/ kind \in {"V", "R"}
  BY DEF Headers
<1>10. /\ kind = "M" => Count(r, k, "MR") = n - 1
       /\ kind # "M" => Count(r, k, "D") = IF n <= Chunks + 1 THEN n - 1 ELSE Chunks
       /\ kind \notin {"C", "M"} => Count(r, k, "P") = IF n <= Chunks + 1 THEN 0 ELSE n - 1 - Chunks
  BY <1>5, <1>6, HeldCounts
<1>11. p.pend[k] = b
  <2>1. p.pend[k] \in Seq(LineType) /\ b \in Seq(LineType)
    BY <1>2, <1>4, HeldSequence DEF Ordered, BodyIs
  <2>2. Len(p.pend[k]) = Len(b) /\ \A i \in 1 .. Len(b) : p.pend[k][i] = b[i]
    BY DEF Holds
  <2> HIDE DEF LineType, k, b
  <2> QED
    BY <2>1, <2>2, SameSequence
<1>12. q \in Routed(p, l)
  BY <1>3, SoundIsRouted
<1>13. q \in Feed(k, r, l)
  <2> HIDE DEF l, k
  <2> QED
    BY <1>1, <1>3, <1>12, DataRouted
<1>14. SameIdentity(r, k, l) /\ CrcMatches(r, k, l)
  <2>1. b[1].frame = f
    BY <1>2, LineIs DEF BodyIs
  <2> HIDE DEF k, l
  <2> QED
    BY <1>3, <1>5, <1>11, <2>1 DEF SameIdentity, CrcMatches
<1> HIDE DEF k, b, n, l, r
<1>15. ASSUME NEW complete, complete = TRUE, q \in Closed(r, k, l, complete)
       PROVE  q = Emitted(r, k)
  BY <1>3, <1>14, <1>15 DEF Closed, Taken
<1>16. q = Emitted(r, k)
  <2>1. CASE kind = "C"
    <3>1. q \in CapTrailer(r, l)
      BY <1>1, <1>3, <1>4, <1>5, <1>13, <2>1 DEF Feed, CapFeed
    <3>2. Count(r, k, "D") = Chunks
      BY <1>7, <1>8, <1>10, <2>1
    <3> QED
      BY <1>4, <1>15, <2>1, <3>1, <3>2 DEF CapTrailer
  <2>2. CASE kind = "M"
    <3>1. q \in MixedTrailer(r, l)
      BY <1>1, <1>3, <1>4, <1>5, <1>13, <2>2 DEF Feed, MixedFeed
    <3>2. Count(r, k, "MR") = Chunks
      BY <1>7, <1>8, <1>10, <2>2
    <3> QED
      BY <1>4, <1>15, <2>2, <3>1, <3>2 DEF MixedTrailer
  <2>3. CASE kind \in {"V", "R"}
    <3>1. q \in MeasurementTrailer(r, l)
      BY <1>1, <1>3, <1>4, <1>5, <1>13, <2>3 DEF Feed, MeasurementFeed
    <3>2. Count(r, k, "D") = Chunks /\ Count(r, k, "P") = Chunks
      BY <1>7, <1>8, <1>10, <2>3
    <3> QED
      BY <1>4, <1>15, <2>3, <3>1, <3>2 DEF MeasurementTrailer
  <2> QED
    BY <1>9, <2>1, <2>2, <2>3
<1>17. q.out = Append(r.out, r.pend[k]) /\ q.pend[k] = <<>>
  BY <1>4, <1>5, <1>16, EmittedIs
<1> QED
  BY <1>5, <1>11, <1>17 DEF b, k

-----------------------------------------------------------------------------
(* What the parsers do with any line                                        *)

\* A pending frame stays, is dropped, or ends in a line of one of the frames fs.
Grown(s, t, fs) ==
  \/ t = s
  \/ t = <<>>
  \/ /\ Len(t) \in Nat \ {0} /\ t[Len(t)].frame \in fs
     /\ \A i \in 1 .. Len(t) : t[i].frame \in fs \/ \E h \in 1 .. Len(s) : t[i] = s[h]
AllGrown(p, q, fs) == \A k \in Parsers : Grown(p.pend[k], q.pend[k], fs)

LEMMA DroppedGrows ==
  ASSUME NEW s, NEW t, NEW fs, Grown(<<>>, t, fs)
  PROVE  Grown(s, t, fs)
<1>1. \A h \in 1 .. Len(<<>>) : FALSE
  OBVIOUS
<1> QED
  BY <1>1 DEF Grown

LEMMA FedFrom ==
  ASSUME NEW k \in Parsers, NEW p, NEW l, NEW q \in Feed(k, p, l)
  PROVE  q \in {p, Rejected(p, k), Opened(p, k, l), Extended(p, k, l), Emitted(p, k)}
<1>1. CASE k = "C"
  <2>1. q \in CapFeed(p, l)
    BY <1>1 DEF Feed
  <2> QED
    BY <1>1, <2>1 DEF CapFeed, CapHeader, CapData, CapTrailer, Closed, Taken
<1>2. CASE k = "V"
  <2>1. q \in MeasurementFeed(p, l)
    BY <1>2 DEF Feed
  <2> QED
    BY <1>2, <2>1
    DEF MeasurementFeed, MeasurementHeader, MeasurementData, MeasurementPga, MeasurementTrailer, Closed, Taken
<1>3. CASE k = "M"
  <2>1. q \in MixedFeed(p, l)
    BY <1>3 DEF Feed
  <2> QED
    BY <1>3, <2>1 DEF MixedFeed, MixedHeader, MixedRow, MixedTrailer, Closed, Taken
<1> QED
  BY <1>1, <1>2, <1>3 DEF Parsers

LEMMA FedGrows ==
  ASSUME NEW k \in Parsers, NEW p \in StreamType, NEW l \in LineType, NEW q \in Feed(k, p, l)
  PROVE  AllGrown(p, q, {l.frame})
<1> DEFINE s == p.pend[k]
<1>1. s \in Seq(LineType) /\ Len(s) \in Nat
  BY HeldSequence
<1>2. q \in StreamType /\ \A j \in Parsers \ {k} : q.pend[j] = p.pend[j]
  BY FedIsAlone DEF FedAlone
<1> HIDE DEF LineType
<1>3. Append(s, l) \in Seq(LineType) /\ <<l>> \in Seq(LineType)
  BY <1>1
<1>4. Grown(s, Append(s, l), {l.frame})
  <2> HIDE DEF s
  <2>1. /\ Len(Append(s, l)) = Len(s) + 1 /\ Append(s, l)[Len(s) + 1] = l
        /\ \A i \in 1 .. Len(s) : Append(s, l)[i] = s[i]
    BY <1>1
  <2>2. \A i \in 1 .. Len(s) + 1 : i \in 1 .. Len(s) \/ i = Len(s) + 1
    BY <1>1
  <2>3. Len(s) + 1 \in Nat \ {0}
    BY <1>1
  <2> QED
    BY <2>1, <2>2, <2>3 DEF Grown
<1>5. Grown(s, <<l>>, {l.frame})
  BY DEF Grown
<1>6. Grown(s, q.pend[k], {l.frame})
  <2>1. CASE q = p
    BY <2>1 DEF Grown
  <2>2. CASE q = Rejected(p, k)
    <3>1. q.pend[k] = <<>>
      BY <2>2, PendingCleared DEF Rejected
    <3> QED
      BY <3>1 DEF Grown
  <2>3. CASE q = Opened(p, k, l)
    <3>1. q.pend[k] = <<l>>
      BY <1>3, <2>3, PendingSet DEF Opened
    <3> QED
      BY <1>5, <3>1
  <2>4. CASE q = Extended(p, k, l)
    <3>1. q.pend[k] = Append(s, l)
      BY <1>3, <2>4, PendingSet DEF Extended
    <3> QED
      BY <1>4, <3>1
  <2>5. CASE q = Emitted(p, k)
    <3>1. q.pend[k] = <<>>
      BY <2>5, EmittedIs
    <3> QED
      BY <3>1 DEF Grown
  <2> QED
    BY <2>1, <2>2, <2>3, <2>4, <2>5, FedFrom
<1>7. \A j \in Parsers \ {k} : Grown(p.pend[j], q.pend[j], {l.frame})
  BY <1>2 DEF Grown
<1> QED
  BY <1>6, <1>7 DEF AllGrown

Dropped(p, r) == \A k \in Parsers : r.pend[k] = p.pend[k] \/ r.pend[k] = <<>>

LEMMA DroppedThenGrown ==
  ASSUME NEW p, NEW r, NEW q, NEW fs, Dropped(p, r), AllGrown(r, q, fs)
  PROVE  AllGrown(p, q, fs)
<1> SUFFICES ASSUME NEW k \in Parsers PROVE Grown(p.pend[k], q.pend[k], fs)
  BY DEF AllGrown
<1>1. Grown(r.pend[k], q.pend[k], fs)
  BY DEF AllGrown
<1>2. r.pend[k] = p.pend[k] \/ r.pend[k] = <<>>
  BY DEF Dropped
<1> QED
  BY <1>1, <1>2, DroppedGrows

LEMMA ActivatedDrops ==
  ASSUME NEW p \in StreamType, NEW kind \in Headers
  PROVE  Dropped(p, Activated(p, kind))
<1> DEFINE r == IF p.active # None /\ Owner(p.active) # Owner(kind)
                THEN Rejected(p, Owner(p.active)) ELSE p
<1>1. r \in StreamType /\ Dropped(p, r)
  <2>1. CASE p.active # None /\ Owner(p.active) # Owner(kind)
    <3> DEFINE k == Owner(p.active)
    <3>1. k \in Parsers
      BY <2>1, OwnerIsParser DEF StreamType
    <3>2. r = [p EXCEPT !.pend[k] = <<>>]
      BY <2>1 DEF Rejected
    <3> HIDE DEF k, r
    <3> QED
      BY <3>1, <3>2, PendingCleared DEF Dropped
  <2>2. CASE ~(p.active # None /\ Owner(p.active) # Owner(kind))
    BY <2>2 DEF Dropped
  <2> QED
    BY <2>1, <2>2
<1>2. Activated(p, kind) = [r EXCEPT !.active = kind]
  BY DEF Activated
<1> HIDE DEF r
<1>3. Activated(p, kind).pend = r.pend
  BY <1>1, <1>2 DEF StreamType
<1> QED
  BY <1>1, <1>3 DEF Dropped

LEMMA ActiveResetDrops ==
  ASSUME NEW p \in StreamType
  PROVE  Dropped(p, ActiveReset(p))
<1> DEFINE r == IF p.active = None THEN p ELSE Rejected(p, Owner(p.active))
<1>1. r \in StreamType /\ Dropped(p, r)
  <2>1. CASE p.active # None
    <3> DEFINE k == Owner(p.active)
    <3>1. k \in Parsers
      BY <2>1, OwnerIsParser DEF StreamType
    <3>2. r = [p EXCEPT !.pend[k] = <<>>]
      BY <2>1 DEF Rejected
    <3> HIDE DEF k, r
    <3> QED
      BY <3>1, <3>2, PendingCleared DEF Dropped
  <2>2. CASE p.active = None
    BY <2>2 DEF Dropped
  <2> QED
    BY <2>1, <2>2
<1>2. ActiveReset(p) = [r EXCEPT !.active = None]
  BY DEF ActiveReset
<1> HIDE DEF r
<1>3. ActiveReset(p).pend = r.pend
  BY <1>1, <1>2, NothingActive
<1> QED
  BY <1>1, <1>3 DEF Dropped

LEMMA UntouchedGrows ==
  ASSUME NEW p, NEW fs
  PROVE  AllGrown(p, p, fs)
BY DEF AllGrown, Grown

LEMMA MoreFrames ==
  ASSUME NEW p, NEW q, NEW fs, NEW gs, AllGrown(p, q, fs), fs \subseteq gs
  PROVE  AllGrown(p, q, gs)
BY DEF AllGrown, Grown

LEMMA RoutedGrows ==
  ASSUME NEW p, Ordered(p), NEW l \in LineType, NEW q \in Routed(p, l)
  PROVE  AllGrown(p, q, {l.frame})
<1>0. p \in StreamType
  BY DEF Ordered
<1>1. CASE l.tag \in Headers
  <2> DEFINE r == Activated(p, l.tag)
  <2>1. q \in Feed(Owner(l.tag), r, l) \/ q = p
    <3>1. q \in Feed(Owner(l.tag), r, l) \cup (IF l.tag = "M" /\ l.state = "bad" THEN {p} ELSE {})
      BY <1>1, HeaderRouted
    <3> QED
      BY <3>1
  <2>2. r \in StreamType /\ Dropped(p, r) /\ Owner(l.tag) \in Parsers
    BY <1>0, <1>1, ActivatedIsOrdered, ActivatedDrops, OwnerIsParser DEF Ordered
  <2> HIDE DEF r
  <2>3. q \in Feed(Owner(l.tag), r, l) => AllGrown(r, q, {l.frame})
    BY <2>2, FedGrows
  <2> QED
    BY <2>1, <2>2, <2>3, DroppedThenGrown, UntouchedGrows
<1>2. CASE l.tag = "K"
  <2> DEFINE active == IF p.active = None THEN "C" ELSE Owner(p.active)
             r == [p EXCEPT !.active = None]
  <2>1. active \in Parsers
    BY <1>0, OwnerIsParser, LineTags DEF StreamType
  <2>2. r \in StreamType /\ r.pend = p.pend
    BY <1>0, NothingActive
  <2>3. q \in Feed(active, r, l)
    BY <1>2, LineTags DEF Routed
  <2> HIDE DEF active, r
  <2>4. AllGrown(r, q, {l.frame})
    BY <2>1, <2>2, <2>3, FedGrows
  <2> QED
    BY <2>2, <2>4 DEF AllGrown
<1>3. CASE l.tag \notin Headers \cup {"K"}
  <2>1. q \in CapFeed(p, l) \/ q \in MeasurementFeed(p, l) \/ q \in MixedFeed(p, l)
    BY <1>3, LineTags DEF Routed
  <2>2. \E k \in Parsers : q \in Feed(k, p, l)
    BY <2>1 DEF Feed, Parsers
  <2> QED
    BY <1>0, <2>2, FedGrows
<1> QED
  BY <1>1, <1>2, <1>3

LEMMA FeedLineGrows ==
  ASSUME NEW p, Ordered(p), NEW l \in LineType, NEW q \in FeedLine(p, l)
  PROVE  AllGrown(p, q, {l.frame, l.inner.frame})
<1>0. p \in StreamType
  BY DEF Ordered
<1>1. CASE l.state = "odd"
  <2>1. p.active # None => Owner(p.active) \in Parsers
    BY <1>0, OwnerIsParser DEF StreamType
  <2>2. q = p \/ (p.active # None /\ q \in Feed(Owner(p.active), p, l))
    BY <1>1 DEF FeedLine
  <2>3. AllGrown(p, q, {l.frame})
    BY <1>0, <2>1, <2>2, FedGrows, UntouchedGrows
  <2> QED
    BY <2>3, MoreFrames
<1>2. CASE l.state # "odd" /\ q \in Routed(p, l)
  <2>1. AllGrown(p, q, {l.frame})
    BY <1>2, RoutedGrows
  <2> QED
    BY <2>1, MoreFrames
<1>3. CASE l.state # "odd" /\ q \in Routed(ActiveReset(p), HeaderLine(l.inner))
  <2> DEFINE h == HeaderLine(l.inner)
             r == ActiveReset(p)
  <2>1. h \in LineType /\ h.frame = l.inner.frame
    <3> DEFINE b == Line(l.inner.tag, l.inner.frame, 0)
               s == IF l.inner.whole THEN "ok" ELSE "bad"
    <3>1. l.inner.tag \in LineTag /\ l.inner.frame \in 0 .. MaxFrames
      BY DEF LineType, LineTag
    <3>2. b \in LineType /\ b.frame = l.inner.frame
      BY <3>1, LineTyped, ZeroIndex
    <3>3. h = [b EXCEPT !.state = s]
      BY DEF HeaderLine
    <3>4. s \in {"ok", "bad", "odd"}
      OBVIOUS
    <3> HIDE DEF b, s, h
    <3> QED
      BY <3>2, <3>3, <3>4, StateSet
  <2>2. Ordered(r) /\ Dropped(p, r)
    BY <1>0, ActiveResetStep, ActiveResetDrops
  <2> HIDE DEF h, r
  <2>3. AllGrown(r, q, {h.frame})
    BY <1>3, <2>1, <2>2, RoutedGrows DEF h, r
  <2>4. AllGrown(p, q, {h.frame})
    BY <2>2, <2>3, DroppedThenGrown
  <2> QED
    BY <2>1, <2>4, MoreFrames
<1>4. l.state # "odd" => q \in Routed(ActiveReset(p), HeaderLine(l.inner)) \/ q \in Routed(p, l)
  BY DEF FeedLine
<1> QED
  BY <1>1, <1>2, <1>3, <1>4

\* What is pending of a frame that a line does not name was pending before it.
LEMMA HeldBefore ==
  ASSUME NEW p, Ordered(p), NEW l \in LineType, NEW q \in FeedLine(p, l),
         NEW kind \in Headers, NEW f \in 1 .. MaxFrames, NEW n, ~Names(l, f), Holds(q, kind, f, n)
  PROVE  Holds(p, kind, f, n)
<1> DEFINE s == p.pend[Owner(kind)]
           t == q.pend[Owner(kind)]
<1>1. Grown(s, t, {l.frame, l.inner.frame})
  BY FeedLineGrows, OwnerIs DEF AllGrown
<1>2. f \in 0 .. MaxFrames
  BY NaturalBounds
<1>3. Ordered(q)
  BY FeedLineStep
<1>4. n \in Nat \ {0} /\ t # <<>>
  BY <1>2, <1>3, HeldIsActive
<1>5. Len(t) = n /\ n \in 1 .. Len(Body(kind, f)) /\ t[n] = Body(kind, f)[n]
  BY <1>4 DEF Holds
<1>6. Body(kind, f)[n].frame = f
  <2>1. /\ Len(Body(kind, f)) \in Nat /\ Size(kind, f) = Len(Body(kind, f)) + 1
        /\ LinesOf(kind, f)[n] = Body(kind, f)[n]
    BY <1>2, <1>5, FrameIs
  <2>2. n \in 1 .. Size(kind, f)
    BY <1>5, <2>1
  <2>3. NthIs(LinesOf(kind, f)[n], kind, f, n, Size(kind, f))
    BY <1>2, <2>2, FrameIs
  <2> QED
    BY <2>1, <2>3 DEF NthIs
<1>7. t = s
  BY <1>1, <1>4, <1>5, <1>6 DEF Grown, Names
<1> QED
  BY <1>7 DEF Holds

-----------------------------------------------------------------------------
(* A line leaves the stream                                                 *)

LEMMA RestIs ==
  ASSUME NEW s \in Seq(LineType), s # <<>>
  PROVE  /\ Tail(s) \in Seq(LineType) /\ Len(s) \in Nat \ {0} /\ Len(Tail(s)) = Len(s) - 1
         /\ s[1] = Head(s) /\ s[1] \in LineType
         /\ \A i \in 1 .. Len(s) - 1 : Tail(s)[i] = s[i + 1]
<1> HIDE DEF LineType
<1> QED
  OBVIOUS

LEMMA ContinuesRest ==
  ASSUME NEW s \in Seq(LineType), s # <<>>, NEW kind, NEW f, NEW n, NEW sent, NEW i \in Nat \ {0},
         Continues(s, i + 1, kind, f, n, sent)
  PROVE  Continues(Tail(s), i, kind, f, n, sent)
<1> DEFINE t == Tail(s)
<1>1. /\ Len(s) \in Nat \ {0} /\ Len(t) = Len(s) - 1
      /\ \A j \in 1 .. Len(s) - 1 : t[j] = s[j + 1]
  BY RestIs
<1> HIDE DEF t
<1>2. \A j \in i .. Len(t) : t[j] = s[j + 1] /\ j + 1 \in i + 1 .. Len(s)
  BY <1>1
<1>3. CASE NextUp(s, i + 1, kind, f, n + 1)
  <2>1. PICK j \in i + 1 .. Len(s) :
          Bears(s[j], kind, f, n + 1) /\ \A h \in i + 1 .. j - 1 : Plain(s[h])
    BY <1>3 DEF NextUp
  <2>2. j - 1 \in i .. Len(t) /\ j - 1 + 1 = j
    BY <1>1, <2>1
  <2>3. \A h \in i .. j - 1 - 1 : t[h] = s[h + 1] /\ h + 1 \in i + 1 .. j - 1
    BY <1>1, <2>1
  <2>4. t[j - 1] = s[j]
    BY <1>2, <2>2
  <2>5. NextUp(t, i, kind, f, n + 1)
    BY <2>1, <2>2, <2>3, <2>4 DEF NextUp
  <2> QED
    BY <2>5 DEF Continues, t
<1>4. CASE n = sent /\ \A h \in i + 1 .. Len(s) : Plain(s[h])
  BY <1>2, <1>4 DEF Continues, t
<1>5. CASE n = Size(kind, f)
  BY <1>5 DEF Continues
<1> QED
  BY <1>3, <1>4, <1>5 DEF Continues

\* The line at the front is plain or the next one of its frame.
LEMMA FrontLine ==
  ASSUME NEW s \in Seq(LineType), s # <<>>, NEW kind \in Headers, NEW f \in 1 .. MaxFrames,
         NEW n \in 1 .. Size(kind, f) - 1, NEW sent, Continues(s, 1, kind, f, n, sent)
  PROVE  \/ Plain(s[1]) /\ Continues(Tail(s), 1, kind, f, n, sent)
         \/ Bears(s[1], kind, f, n + 1)
<1>0. Len(s) \in Nat \ {0}
  BY RestIs
<1>a. Size(kind, f) \in Nat /\ n \in Nat \ {0} /\ n < Size(kind, f)
  <2>1. f \in 0 .. MaxFrames
    BY NaturalBounds
  <2>2. Len(Body(kind, f)) \in Nat /\ Size(kind, f) = Len(Body(kind, f)) + 1
    BY <2>1, FrameIs
  <2>3. Size(kind, f) \in Nat
    BY <2>2
  <2> HIDE DEF Size
  <2> QED
    BY <2>3
<1>1. CASE NextUp(s, 1, kind, f, n + 1)
  <2>1. PICK j \in 1 .. Len(s) : Bears(s[j], kind, f, n + 1) /\ \A h \in 1 .. j - 1 : Plain(s[h])
    BY <1>1 DEF NextUp
  <2>2. CASE j = 1
    BY <2>1, <2>2
  <2>3. CASE j # 1
    <3>1. 1 \in 1 .. j - 1 /\ j \in 2 .. Len(s) /\ \A h \in 2 .. j - 1 : h \in 1 .. j - 1
      BY <1>0, <2>1, <2>3
    <3>2. Plain(s[1]) /\ NextUp(s, 2, kind, f, n + 1)
      BY <2>1, <3>1 DEF NextUp
    <3>3. Continues(s, 1 + 1, kind, f, n, sent)
      BY <3>2 DEF Continues
    <3> QED
      BY <3>2, <3>3, ContinuesRest
  <2> QED
    BY <2>2, <2>3
<1>2. CASE n = sent /\ \A h \in 1 .. Len(s) : Plain(s[h])
  <2>1. 1 \in 1 .. Len(s) /\ \A h \in 1 + 1 .. Len(s) : h \in 1 .. Len(s)
    BY <1>0
  <2>2. Plain(s[1]) /\ Continues(s, 1 + 1, kind, f, n, sent)
    BY <1>2, <2>1 DEF Continues
  <2> QED
    BY <2>2, ContinuesRest
<1> QED
  BY <1>a, <1>1, <1>2 DEF Continues

LEMMA RestFits ==
  ASSUME NEW s \in Seq(LineType), s # <<>>, NEW kind \in Headers, NEW f, NEW sent,
         WireFits(s, kind, f, sent)
  PROVE  WireFits(Tail(s), kind, f, sent)
<1> DEFINE t == Tail(s)
<1>1. /\ Len(s) \in Nat \ {0} /\ Len(t) = Len(s) - 1
      /\ \A j \in 1 .. Len(s) - 1 : t[j] = s[j + 1]
  BY RestIs
<1>2. ASSUME NEW i \in 1 .. Len(t), NEW n \in 1 .. Size(kind, f), Bears(t[i], kind, f, n)
      PROVE  Continues(t, i + 1, kind, f, n, sent)
  <2> HIDE DEF t
  <2>1. i + 1 \in 1 .. Len(s) /\ t[i] = s[i + 1] /\ i + 1 \in Nat \ {0}
    BY <1>1
  <2>2. Continues(s, i + 1 + 1, kind, f, n, sent)
    BY <1>2, <2>1 DEF WireFits
  <2> QED
    BY <2>1, <2>2, ContinuesRest DEF t
<1> HIDE DEF t
<1>3. \A i \in 1 .. Len(t) : i + 1 \in 1 .. Len(s) /\ t[i] = s[i + 1]
  BY <1>1
<1>4. \A i \in 1 .. Len(t) : Names(t[i], f) => \E n \in 1 .. sent : Bears(t[i], kind, f, n)
  BY <1>3 DEF WireFits
<1>5. ASSUME NEW i \in 1 .. Len(t), NEW j \in 1 .. Len(t), i < j
      PROVE  /\ Bears(t[j], kind, f, 1) => ~Names(t[i], f)
             /\ Bears(t[i], kind, f, Size(kind, f)) => ~Names(t[j], f)
  <2>1. i + 1 < j + 1
    BY <1>1, <1>5
  <2> QED
    BY <1>3, <2>1 DEF WireFits
<1> QED
  BY <1>2, <1>4, <1>5 DEF WireFits, t

LEMMA HandedOnSteps ==
  ASSUME NEW p \in StreamType, NEW q, NEW l, HandsOn(p, q, l), NEW kind \in Headers,
         NEW f \in 0 .. MaxFrames,
         l.tag = "K" => kinds[l.frame] \in Headers /\ l.frame \in 0 .. MaxFrames
  PROVE  /\ HandedOn(p, kind, f) => HandedOn(q, kind, f)
         /\ l.frame # f => (HandedOn(q, kind, f) => HandedOn(p, kind, f))
<1> DEFINE g == l.frame
           b == Body(kinds[g], g)
<1>1. p.out \in Seq(Seq(LineType)) /\ Len(p.out) \in Nat
  BY DEF StreamType
<1>2. CASE q.out = p.out
  BY <1>2 DEF HandedOn
<1>3. CASE l.tag = "K" /\ q.out = Append(p.out, b)
  <2>1. kinds[g] \in Headers /\ g \in 0 .. MaxFrames
    BY <1>3
  <2>2. b \in Seq(LineType)
    BY <2>1, BodyLines DEF BodyIs
  <2>3. g # f => b # Body(kind, f)
    BY <2>1, BodyNamesFrame
  <2>4. q.out = Append(p.out, b)
    BY <1>3
  <2> HIDE DEF b, LineType
  <2>5. /\ Len(q.out) = Len(p.out) + 1 /\ q.out[Len(p.out) + 1] = b
        /\ \A i \in 1 .. Len(p.out) : q.out[i] = p.out[i]
    BY <1>1, <2>2, <2>4
  <2>6. \A i \in 1 .. Len(p.out) + 1 : i \in 1 .. Len(p.out) \/ i = Len(p.out) + 1
    BY <1>1
  <2>7. \A i \in 1 .. Len(p.out) : i \in 1 .. Len(p.out) + 1
    BY <1>1
  <2> QED
    BY <2>3, <2>5, <2>6, <2>7 DEF HandedOn
<1> QED
  BY <1>2, <1>3 DEF HandsOn

LEMMA SizeIs ==
  ASSUME NEW kind \in Headers, NEW f \in 0 .. MaxFrames
  PROVE  /\ Size(kind, f) \in Nat /\ Size(kind, f) > 2 /\ Len(Body(kind, f)) = Size(kind, f) - 1
         /\ 1 .. Len(Body(kind, f)) = 1 .. Size(kind, f) - 1
<1>1. PICK n \in Nat \ {0, 1} : Len(Body(kind, f)) = n /\ Size(kind, f) = n + 1
  BY FrameIs
<1>2. n + 1 \in Nat /\ n + 1 > 2 /\ n = n + 1 - 1
  BY <1>1
<1> QED
  BY <1>1, <1>2

LEMMA HeldOnce ==
  ASSUME NEW p, NEW kind, NEW f, NEW m, NEW n, Holds(p, kind, f, m), Holds(p, kind, f, n)
  PROVE  m = n
BY DEF Holds

\* The parsers take the lines of an intact frame one after the other, whatever
\* they are given before and behind them.
LEMMA FeedFits ==
  ASSUME NEW p, Ordered(p), NEW s \in Seq(LineType), s # <<>>, NEW q \in FeedLine(p, s[1]),
         NEW kind \in Headers, NEW f \in 1 .. MaxFrames, kinds[f] = kind, NEW sent,
         WireFits(s, kind, f, sent), ParserFits(p, s, kind, f, sent), sent \in 0 .. Size(kind, f),
         s[1].tag = "K" => kinds[s[1].frame] \in Headers /\ s[1].frame \in 0 .. MaxFrames
  PROVE  ParserFits(q, Tail(s), kind, f, sent)
<1> DEFINE l == s[1]
           t == Tail(s)
           size == Size(kind, f)
<1>1. /\ Len(s) \in Nat \ {0} /\ Len(t) = Len(s) - 1 /\ l \in LineType
      /\ \A i \in 1 .. Len(s) - 1 : t[i] = s[i + 1]
  BY RestIs
<1>2. f \in 0 .. MaxFrames
  BY NaturalBounds
<1>3. /\ size \in Nat /\ size > 2 /\ Len(Body(kind, f)) = size - 1
      /\ 1 .. Len(Body(kind, f)) = 1 .. size - 1
  BY <1>2, SizeIs
<1>4. p \in StreamType
  BY DEF Ordered
<1>5. HandsOn(p, q, l)
  BY <1>1, FeedLineStep
<1>6. /\ HandedOn(p, kind, f) => HandedOn(q, kind, f)
      /\ l.frame # f => (HandedOn(q, kind, f) => HandedOn(p, kind, f))
  BY <1>2, <1>4, <1>5, HandedOnSteps
<1>7. 1 \in 1 .. Len(s)
  BY <1>1
<1>8. \A n \in 1 .. size : Bears(l, kind, f, n) => Continues(t, 1, kind, f, n, sent)
  <2> SUFFICES ASSUME NEW n \in 1 .. size, Bears(l, kind, f, n) PROVE Continues(t, 1, kind, f, n, sent)
    OBVIOUS
  <2>1. Continues(s, 1 + 1, kind, f, n, sent)
    BY <1>7 DEF WireFits
  <2> QED
    BY <2>1, ContinuesRest
<1>9. Names(l, f) => ~HandedOn(p, kind, f)
  BY <1>7 DEF ParserFits
<1>10. \A n : q.out = p.out => (HandedOn(q, kind, f) <=> HandedOn(p, kind, f))
  BY DEF HandedOn
<1>11. \A n : Holds(q, kind, f, n) => n \in 1 .. size /\ n # size
  BY <1>3 DEF Holds
<1> HIDE DEF l, t, size
<1>12. ASSUME NEW n, Holds(q, kind, f, n), n \in 1 .. size, Continues(t, 1, kind, f, n, sent),
              q.out = p.out, Names(l, f)
       PROVE  ParserFits(q, t, kind, f, sent)
  <2>1. \A m \in 1 .. size : Holds(q, kind, f, m) => Continues(t, 1, kind, f, m, sent)
    BY <1>12, HeldOnce
  <2>2. ~HandedOn(q, kind, f)
    BY <1>9, <1>10, <1>12
  <2> QED
    BY <1>12, <2>1, <2>2 DEF ParserFits, size
<1>13. ASSUME NEW n, Holds(p, kind, f, n)
       PROVE  ParserFits(q, t, kind, f, sent)
  <2>1. n \in 1 .. size - 1 /\ n \in 1 .. size
    BY <1>3, <1>13 DEF Holds
  <2>2. (Plain(l) /\ Continues(t, 1, kind, f, n, sent)) \/ Bears(l, kind, f, n + 1)
    <3>1. Continues(s, 1, kind, f, n, sent)
      BY <1>13, <2>1 DEF ParserFits, size
    <3> QED
      BY <2>1, <3>1, FrontLine DEF size, l, t
  <2>3. CASE Plain(l) /\ Continues(t, 1, kind, f, n, sent)
    <3>1. q = p
      BY <1>1, <2>3, PlainPasses DEF l
    <3>2. \A m \in 1 .. size : Holds(q, kind, f, m) => Continues(t, 1, kind, f, m, sent)
      BY <1>13, <2>3, <3>1, HeldOnce
    <3>3. \A i \in 1 .. Len(t) : i + 1 \in 1 .. Len(s) /\ t[i] = s[i + 1]
      BY <1>1
    <3>4. HandedOn(q, kind, f) => \A i \in 1 .. Len(t) : ~Names(t[i], f)
      BY <3>1, <3>3 DEF ParserFits
    <3> QED
      BY <1>13, <2>1, <3>1, <3>2, <3>4 DEF ParserFits, size
  <2>4. CASE Bears(l, kind, f, n + 1) /\ n + 1 < size
    <3>1. n + 1 \in 1 .. size /\ n + 1 # 1 /\ n + 1 \in 1 .. Len(Body(kind, f)) /\ n < Len(Body(kind, f))
      BY <1>3, <2>1, <2>4
    <3>2. l = LinesOf(kind, f)[n + 1]
      BY <2>4, <3>1 DEF Bears
    <3>3. l = Body(kind, f)[n + 1]
      BY <1>2, <3>1, <3>2, FrameIs
    <3>4. Holds(q, kind, f, n + 1) /\ q.out = p.out
      BY <1>2, <1>13, <3>1, <3>3, NextLineExtends DEF l
    <3>5. Names(l, f)
      BY <2>4, <3>1, BearsOne DEF size
    <3> QED
      BY <1>8, <1>12, <2>4, <3>1, <3>4, <3>5
  <2>5. CASE Bears(l, kind, f, n + 1) /\ n + 1 = size
    <3>1. n = Len(Body(kind, f)) /\ n + 1 # 1 /\ n + 1 \in 1 .. size
      BY <1>3, <2>1, <2>5
    <3>2. l = LinesOf(kind, f)[size]
      BY <2>5, <3>1 DEF Bears
    <3>3. l = Line("K", f, 0)
      BY <1>2, <3>2, FrameIs DEF size
    <3>4. q \in FeedLine(p, Line("K", f, 0))
      BY <3>3 DEF l
    <3>5. q.out = Append(p.out, Body(kind, f)) /\ q.pend[Owner(kind)] = <<>>
      BY <1>2, <1>13, <3>1, <3>4, TrailerHandsOn
    <3>6. HandedOn(q, kind, f)
      <4>1. p.out \in Seq(Seq(LineType)) /\ Body(kind, f) \in Seq(LineType)
        BY <1>2, <1>4, BodyLines DEF StreamType, BodyIs
      <4> HIDE DEF LineType
      <4>2. Len(p.out) + 1 \in 1 .. Len(q.out) /\ q.out[Len(p.out) + 1] = Body(kind, f)
        BY <3>5, <4>1
      <4> QED
        BY <4>2 DEF HandedOn
    <3>7. \A m \in 1 .. size : ~Holds(q, kind, f, m)
      BY <3>5 DEF Holds
    <3>8. ASSUME NEW i \in 1 .. Len(t)
          PROVE  ~Names(t[i], f)
      <4>1. i + 1 \in 1 .. Len(s) /\ t[i] = s[i + 1] /\ 1 < i + 1
        BY <1>1
      <4>2. Bears(s[1], kind, f, Size(kind, f))
        BY <2>5 DEF l, size
      <4> QED
        BY <1>7, <4>1, <4>2 DEF WireFits
    <3> QED
      BY <3>6, <3>7, <3>8 DEF ParserFits, size
  <2> QED
    BY <1>3, <2>1, <2>2, <2>3, <2>4, <2>5
<1>14. ASSUME \A n : ~Holds(p, kind, f, n), Names(l, f)
       PROVE  ParserFits(q, t, kind, f, sent)
  <2>1. PICK n \in 1 .. sent : Bears(l, kind, f, n)
    BY <1>7, <1>14 DEF WireFits, l
  <2>2. n \in 1 .. size /\ sent > 0
    BY <1>3, <2>1 DEF size
  <2>3. PICK i \in 1 .. Len(s) : Bears(s[i], kind, f, 1)
    BY <1>9, <1>14, <2>2 DEF ParserFits
  <2>4. i = 1
    <3> SUFFICES ASSUME i # 1 PROVE FALSE
      OBVIOUS
    <3>1. 1 < i
      OBVIOUS
    <3> QED
      BY <1>7, <1>14, <2>3, <3>1 DEF WireFits, l
  <2>5. Bears(l, kind, f, 1)
    BY <2>3, <2>4 DEF l
  <2>6. Holds(q, kind, f, 1) /\ q.out = p.out
    BY <1>1, <1>2, <2>5, FirstLineOpens DEF l
  <2>7. 1 \in 1 .. size
    BY <1>3
  <2> QED
    BY <1>8, <1>12, <1>14, <2>5, <2>6, <2>7
<1>15. ASSUME \A n : ~Holds(p, kind, f, n), ~Names(l, f)
       PROVE  ParserFits(q, t, kind, f, sent)
  <2>1. \A n \in 1 .. size : ~Holds(q, kind, f, n)
    BY <1>1, <1>15, HeldBefore DEF l
  <2>2. HandedOn(q, kind, f) <=> HandedOn(p, kind, f)
    BY <1>6, <1>15 DEF Names
  <2>3. \A i \in 1 .. Len(t) : i + 1 \in 1 .. Len(s) /\ t[i] = s[i + 1]
    BY <1>1
  <2>4. HandedOn(q, kind, f) => \A i \in 1 .. Len(t) : ~Names(t[i], f)
    BY <2>2, <2>3 DEF ParserFits
  <2>5. ASSUME NEW i \in 1 .. Len(s), Bears(s[i], kind, f, 1)
        PROVE  \E j \in 1 .. Len(t) : Bears(t[j], kind, f, 1)
    <3>1. 1 \in 1 .. Size(kind, f)
      BY <1>3 DEF size
    <3>2. i # 1
      BY <1>15, <2>5, <3>1, BearsOne DEF l
    <3>3. i - 1 \in 1 .. Len(t) /\ t[i - 1] = s[i - 1 + 1] /\ i - 1 + 1 = i
      BY <1>1, <3>2
    <3> QED
      BY <2>5, <3>3
  <2>6. sent > 0 => HandedOn(p, kind, f) \/ \E i \in 1 .. Len(s) : Bears(s[i], kind, f, 1)
    BY <1>15 DEF ParserFits
  <2> QED
    BY <2>1, <2>2, <2>4, <2>5, <2>6 DEF ParserFits, size
<1> QED
  BY <1>13, <1>14, <1>15 DEF t

\* No two lines of a frame are the same.
LEMMA LinesDiffer ==
  ASSUME NEW kind \in Headers, NEW f \in 0 .. MaxFrames, NEW i \in 1 .. Size(kind, f),
         NEW j \in 1 .. Size(kind, f), LinesOf(kind, f)[i] = LinesOf(kind, f)[j]
  PROVE  i = j
<1> DEFINE b == Body(kind, f)
           x == LinesOf(kind, f)
           size == Size(kind, f)
<1>1. BodyIs(b, kind, f)
  BY BodyLines
<1>2. /\ Len(b) \in Nat \ {0, 1} /\ size = Len(b) + 1 /\ x[size] = Line("K", f, 0)
      /\ \A h \in 1 .. Len(b) : x[h] = b[h]
  BY FrameIs
<1>3. i \in 1 .. size /\ j \in 1 .. size /\ x[i] = x[j] /\ Chunks \in Nat \ {0}
  BY ChunksAssumption
<1> HIDE DEF b, x, size
\* The number of a line among those with its tag, and how many come before those.
<1> DEFINE Key(h) == IF h = 1 THEN <<kind, 0>>
                     ELSE IF h = size THEN <<"K", 0>>
                     ELSE IF kind = "M" THEN <<"MR", h - 1>>
                     ELSE IF h <= Chunks + 1 THEN <<"D", h - 2>>
                     ELSE <<"P", h - Chunks - 2>>
<1>4. ASSUME NEW h \in 1 .. size
      PROVE  x[h].tag = Key(h)[1] /\ x[h].index = Key(h)[2]
  <2>1. CASE h = size
    <3>1. h # 1
      BY <1>2, <2>1
    <3> QED
      BY <1>2, <2>1, <3>1, LineIs
  <2>2. CASE h # size
    <3>1. h \in 1 .. Len(b) /\ x[h] = b[h]
      BY <1>2, <2>2
    <3>2. \/ h = 1
          \/ h \in 2 .. Chunks + 1
          \/ kind \notin {"C", "M"} /\ h \in Chunks + 2 .. 2 * Chunks + 1
      BY <1>1, <1>3, <3>1 DEF BodyIs
    <3>3. CASE h = 1
      BY <1>1, <3>1, <3>3, LineIs DEF BodyIs
    <3>4. CASE h \in 2 .. Chunks + 1
      BY <1>1, <1>3, <2>2, <3>1, <3>4, LineIs DEF BodyIs
    <3>5. CASE kind \notin {"C", "M"} /\ h \in Chunks + 2 .. 2 * Chunks + 1
      <4>1. x[h] = Line("P", f, h - Chunks - 2)
        BY <1>1, <3>1, <3>5 DEF BodyIs
      <4>2. Key(h) = <<"P", h - Chunks - 2>>
        BY <1>3, <2>2, <3>5
      <4> HIDE DEF Key
      <4> QED
        BY <4>1, <4>2, LineIs
    <3> QED
      BY <3>2, <3>3, <3>4, <3>5
  <2> QED
    BY <2>1, <2>2
<1>5. Key(i) = Key(j) => i = j
  BY <1>2, <1>3, LineTags DEF Headers
<1>6. Key(i)[1] = Key(j)[1] /\ Key(i)[2] = Key(j)[2]
  BY <1>3, <1>4
<1>7. Key(i) = Key(j)
  <2>1. Key(i) = <<Key(i)[1], Key(i)[2]>> /\ Key(j) = <<Key(j)[1], Key(j)[2]>>
    OBVIOUS
  <2> QED
    BY <1>6, <2>1
<1> QED
  BY <1>5, <1>7

-----------------------------------------------------------------------------
(* A line is added to the stream                                            *)

LEMMA AddedIs ==
  ASSUME NEW s \in Seq(LineType), NEW m \in LineType
  PROVE  /\ Append(s, m) \in Seq(LineType) /\ Len(s) \in Nat /\ Len(Append(s, m)) = Len(s) + 1
         /\ Append(s, m)[Len(s) + 1] = m
         /\ \A i \in 1 .. Len(s) : Append(s, m)[i] = s[i]
         /\ \A i \in 1 .. Len(s) + 1 : i \in 1 .. Len(s) \/ i = Len(s) + 1
<1> HIDE DEF LineType
<1> QED
  OBVIOUS

LEMMA AddedBehind ==
  ASSUME NEW s \in Seq(LineType), NEW t \in Seq(LineType), NEW m \in LineType
  PROVE  s \o Append(t, m) = Append(s \o t, m)
<1> HIDE DEF LineType
<1> QED
  OBVIOUS

LEMMA ContinuesAdded ==
  ASSUME NEW s \in Seq(LineType), NEW m \in LineType, NEW kind, NEW f, NEW n, NEW sent \in Nat,
         NEW i \in 1 .. Len(s) + 1, Continues(s, i, kind, f, n, sent)
  PROVE  /\ Plain(m) \/ n # sent => Continues(Append(s, m), i, kind, f, n, sent)
         /\ Bears(m, kind, f, sent + 1) => Continues(Append(s, m), i, kind, f, n, sent + 1)
<1> DEFINE t == Append(s, m)
<1>1. /\ Len(s) \in Nat /\ Len(t) = Len(s) + 1 /\ t[Len(s) + 1] = m
      /\ \A j \in 1 .. Len(s) : t[j] = s[j]
      /\ \A j \in 1 .. Len(s) + 1 : j \in 1 .. Len(s) \/ j = Len(s) + 1
  BY AddedIs
<1> HIDE DEF t
<1>2. CASE n = Size(kind, f)
  BY <1>2 DEF Continues
<1>3. CASE NextUp(s, i, kind, f, n + 1)
  <2>1. PICK j \in i .. Len(s) : Bears(s[j], kind, f, n + 1) /\ \A h \in i .. j - 1 : Plain(s[h])
    BY <1>3 DEF NextUp
  <2>2. j \in i .. Len(t) /\ j \in 1 .. Len(s) /\ \A h \in i .. j - 1 : h \in 1 .. Len(s)
    BY <1>1, <2>1
  <2>3. NextUp(t, i, kind, f, n + 1)
    BY <1>1, <2>1, <2>2 DEF NextUp
  <2> QED
    BY <2>3 DEF Continues, t
<1>4. CASE n = sent /\ \A h \in i .. Len(s) : Plain(s[h])
  <2>1. \A h \in i .. Len(s) : t[h] = s[h] /\ Plain(t[h])
    BY <1>1, <1>4
  <2>2. Plain(m) => \A h \in i .. Len(t) : Plain(t[h])
    <3> SUFFICES ASSUME Plain(m), NEW h \in i .. Len(t) PROVE Plain(t[h])
      OBVIOUS
    <3>1. h \in i .. Len(s) \/ h = Len(s) + 1
      BY <1>1
    <3> QED
      BY <1>1, <2>1, <3>1
  <2>3. Bears(m, kind, f, sent + 1) => NextUp(t, i, kind, f, n + 1)
    <3>1. Len(s) + 1 \in i .. Len(t) /\ \A h \in i .. Len(s) + 1 - 1 : h \in i .. Len(s)
      BY <1>1
    <3> QED
      BY <1>1, <1>4, <2>1, <3>1 DEF NextUp
  <2> QED
    BY <1>4, <2>2, <2>3 DEF Continues, t
<1> QED
  BY <1>2, <1>3, <1>4 DEF Continues

\* A line of another frame, or of a log.
LEMMA OtherAdded ==
  ASSUME NEW s \in Seq(LineType), NEW m \in LineType, NEW kind \in Headers, NEW f \in 1 .. MaxFrames,
         NEW sent \in 0 .. Size(kind, f), WireFits(s, kind, f, sent), ~Names(m, f),
         Plain(m) \/ sent \notin 1 .. Size(kind, f) - 1,
         NEW p, ParserFits(p, s, kind, f, sent)
  PROVE  WireFits(Append(s, m), kind, f, sent) /\ ParserFits(p, Append(s, m), kind, f, sent)
<1> DEFINE t == Append(s, m)
           size == Size(kind, f)
<1>1. /\ Len(s) \in Nat /\ Len(t) = Len(s) + 1 /\ t[Len(s) + 1] = m
      /\ \A j \in 1 .. Len(s) : t[j] = s[j]
      /\ \A j \in 1 .. Len(s) + 1 : j \in 1 .. Len(s) \/ j = Len(s) + 1
  BY AddedIs
<1>2. f \in 0 .. MaxFrames
  BY NaturalBounds
<1>3. size \in Nat /\ size > 2
  BY <1>2, SizeIs
<1>4. \A n \in 1 .. size : ~Bears(m, kind, f, n)
  BY BearsOne
<1>5. 1 \in 1 .. size /\ size \in 1 .. size
  BY <1>3
<1>6. ASSUME NEW i \in 1 .. Len(s) + 1, NEW n \in 1 .. size, Continues(s, i, kind, f, n, sent)
      PROVE  Continues(t, i, kind, f, n, sent)
  <2>1. CASE Plain(m) \/ n # sent
    <3>1. sent \in Nat
      BY <1>3
    <3> QED
      BY <1>6, <2>1, <3>1, ContinuesAdded
  <2>2. CASE ~Plain(m) /\ n = sent
    <3>1. n = size
      BY <1>3, <2>2
    <3> QED
      BY <3>1 DEF Continues
  <2> QED
    BY <2>1, <2>2
<1> HIDE DEF t, size
<1>7. WireFits(t, kind, f, sent)
  <2>1. \A i \in 1 .. Len(t) : Names(t[i], f) => \E n \in 1 .. sent : Bears(t[i], kind, f, n)
    BY <1>1 DEF WireFits
  <2>2. ASSUME NEW i \in 1 .. Len(t), NEW j \in 1 .. Len(t), i < j
        PROVE  /\ Bears(t[j], kind, f, 1) => ~Names(t[i], f)
               /\ Bears(t[i], kind, f, size) => ~Names(t[j], f)
    <3>1. i \in 1 .. Len(s)
      BY <1>1, <2>2
    <3>2. j \in 1 .. Len(s) \/ j = Len(s) + 1
      BY <1>1
    <3> QED
      BY <1>1, <1>4, <1>5, <2>2, <3>1, <3>2 DEF WireFits, size
  <2>3. ASSUME NEW i \in 1 .. Len(t), NEW n \in 1 .. size, Bears(t[i], kind, f, n)
        PROVE  Continues(t, i + 1, kind, f, n, sent)
    <3>1. i \in 1 .. Len(s)
      BY <1>1, <1>4, <2>3
    <3>2. Continues(s, i + 1, kind, f, n, sent) /\ i + 1 \in 1 .. Len(s) + 1
      BY <1>1, <2>3, <3>1 DEF WireFits, size
    <3> QED
      BY <1>6, <3>2
  <2> QED
    BY <2>1, <2>2, <2>3 DEF WireFits, size
<1>8. ParserFits(p, t, kind, f, sent)
  <2>1. 1 \in 1 .. Len(s) + 1
    BY <1>1
  <2>2. \A n \in 1 .. size : Holds(p, kind, f, n) => Continues(t, 1, kind, f, n, sent)
    BY <1>6, <2>1 DEF ParserFits, size
  <2>3. \A i \in 1 .. Len(s) : i \in 1 .. Len(t)
    BY <1>1
  <2>4. (\E i \in 1 .. Len(s) : Bears(s[i], kind, f, 1)) => \E i \in 1 .. Len(t) : Bears(t[i], kind, f, 1)
    BY <1>1, <2>3
  <2>5. HandedOn(p, kind, f) => \A i \in 1 .. Len(t) : ~Names(t[i], f)
    BY <1>1 DEF ParserFits
  <2> QED
    BY <2>2, <2>4, <2>5 DEF ParserFits, size
<1> QED
  BY <1>7, <1>8 DEF t

\* The next line of the frame.
LEMMA NextAdded ==
  ASSUME NEW s \in Seq(LineType), NEW m \in LineType, NEW kind \in Headers, NEW f \in 1 .. MaxFrames,
         NEW sent \in 0 .. Size(kind, f) - 1, WireFits(s, kind, f, sent),
         Bears(m, kind, f, sent + 1), NEW p, ParserFits(p, s, kind, f, sent), ~HandedOn(p, kind, f)
  PROVE  WireFits(Append(s, m), kind, f, sent + 1) /\ ParserFits(p, Append(s, m), kind, f, sent + 1)
<1> DEFINE t == Append(s, m)
           size == Size(kind, f)
<1>1. /\ Len(s) \in Nat /\ Len(t) = Len(s) + 1 /\ t[Len(s) + 1] = m
      /\ \A j \in 1 .. Len(s) : t[j] = s[j]
      /\ \A j \in 1 .. Len(s) + 1 : j \in 1 .. Len(s) \/ j = Len(s) + 1
  BY AddedIs
<1>2. f \in 0 .. MaxFrames
  BY NaturalBounds
<1>3. size \in Nat /\ size > 2
  BY <1>2, SizeIs
<1>4. sent \in Nat /\ sent + 1 \in 1 .. size /\ sent < size
  BY <1>3
<1>5. Bears(m, kind, f, 1) => sent = 0
  <2>1. Bears(m, kind, f, 1) => sent + 1 = 1
    BY <1>4, BearsOne
  <2> QED
    BY <1>4, <2>1
<1>6. \A i \in 1 .. Len(s) : ~Bears(s[i], kind, f, size)
  <2> SUFFICES ASSUME NEW i \in 1 .. Len(s), Bears(s[i], kind, f, size) PROVE FALSE
    OBVIOUS
  <2>1. size \in 1 .. size
    BY <1>3
  <2>2. Names(s[i], f)
    BY <2>1, BearsOne
  <2>3. PICK n \in 1 .. sent : Bears(s[i], kind, f, n)
    BY <2>2 DEF WireFits
  <2> HIDE DEF size
  <2>4. n \in 1 .. size /\ n # size
    BY <1>3, <1>4, <2>3
  <2>5. Bears(s[i], kind, f, Size(kind, f))
    BY DEF size
  <2> QED
    BY <2>3, <2>4, <2>5, BearsOne DEF size
<1>7. sent = 0 => \A i \in 1 .. Len(s) : ~Names(s[i], f)
  BY DEF WireFits
<1>8. ASSUME NEW i \in 1 .. Len(s) + 1, NEW n, Continues(s, i, kind, f, n, sent)
      PROVE  Continues(t, i, kind, f, n, sent + 1)
  BY <1>4, <1>8, ContinuesAdded
<1> HIDE DEF t, size
<1>9. WireFits(t, kind, f, sent + 1)
  <2>1. ASSUME NEW i \in 1 .. Len(t), Names(t[i], f)
        PROVE  \E n \in 1 .. sent + 1 : Bears(t[i], kind, f, n)
    <3>1. CASE i = Len(s) + 1
      <4>1. sent + 1 \in 1 .. sent + 1
        BY <1>4
      <4> QED
        BY <1>1, <3>1, <4>1
    <3>2. CASE i \in 1 .. Len(s)
      <4>1. PICK n \in 1 .. sent : Bears(t[i], kind, f, n)
        BY <1>1, <2>1, <3>2 DEF WireFits
      <4>2. n \in 1 .. sent + 1
        BY <1>4
      <4> QED
        BY <4>1, <4>2
    <3> QED
      BY <1>1, <3>1, <3>2
  <2>2. ASSUME NEW i \in 1 .. Len(t), NEW j \in 1 .. Len(t), i < j
        PROVE  /\ Bears(t[j], kind, f, 1) => ~Names(t[i], f)
               /\ Bears(t[i], kind, f, size) => ~Names(t[j], f)
    <3>1. i \in 1 .. Len(s)
      BY <1>1, <2>2
    <3>2. j \in 1 .. Len(s) \/ j = Len(s) + 1
      BY <1>1
    <3> QED
      BY <1>1, <1>5, <1>6, <1>7, <2>2, <3>1, <3>2 DEF WireFits
  <2>3. ASSUME NEW i \in 1 .. Len(t), NEW n \in 1 .. size, Bears(t[i], kind, f, n)
        PROVE  Continues(t, i + 1, kind, f, n, sent + 1)
    <3>1. CASE i \in 1 .. Len(s)
      <4>1. Continues(s, i + 1, kind, f, n, sent) /\ i + 1 \in 1 .. Len(s) + 1
        BY <1>1, <2>3, <3>1 DEF WireFits, size
      <4> QED
        BY <1>8, <4>1
    <3>2. CASE i = Len(s) + 1
      <4>1. \A h \in i + 1 .. Len(t) : FALSE
        BY <1>1, <3>2
      <4>2. n = sent + 1
        <5>1. CASE n = 1
          BY <1>1, <1>5, <2>3, <3>2, <5>1
        <5>2. CASE n # 1 /\ sent = 0
          <6>1. Bears(m, kind, f, 1)
            BY <5>2
          <6> QED
            BY <1>1, <2>3, <3>2, <5>2, <6>1, BearsOne DEF size
        <5>3. CASE n # 1 /\ sent # 0
          <6>1. m = LinesOf(kind, f)[n]
            BY <1>1, <2>3, <3>2, <5>3 DEF Bears
          <6>2. m = LinesOf(kind, f)[sent + 1]
            BY <1>4, <5>3 DEF Bears
          <6> QED
            BY <1>2, <1>4, <2>3, <6>1, <6>2, LinesDiffer DEF size
        <5> QED
          BY <5>1, <5>2, <5>3
      <4> QED
        BY <4>1, <4>2 DEF Continues
    <3> QED
      BY <1>1, <3>1, <3>2
  <2> QED
    BY <2>1, <2>2, <2>3 DEF WireFits, size
<1>10. ParserFits(p, t, kind, f, sent + 1)
  <2>1. ASSUME NEW n \in 1 .. size, Holds(p, kind, f, n)
        PROVE  Continues(t, 1, kind, f, n, sent + 1)
    <3>1. Continues(s, 1, kind, f, n, sent) /\ 1 \in 1 .. Len(s) + 1
      BY <1>1, <2>1 DEF ParserFits, size
    <3> QED
      BY <1>8, <3>1
  <2>2. \/ \E n \in 1 .. size : Holds(p, kind, f, n)
        \/ \E i \in 1 .. Len(t) : Bears(t[i], kind, f, 1)
    <3>1. CASE sent = 0
      <4>1. Len(t) \in 1 .. Len(t) /\ Bears(t[Len(t)], kind, f, 1)
        BY <1>1, <3>1
      <4> QED
        BY <4>1
    <3>2. CASE sent # 0
      <4>1. sent > 0 /\ \A i \in 1 .. Len(s) : i \in 1 .. Len(t) /\ t[i] = s[i]
        BY <1>1, <1>4, <3>2
      <4> QED
        BY <4>1 DEF ParserFits, size
    <3> QED
      BY <3>1, <3>2
  <2> QED
    BY <2>1, <2>2 DEF ParserFits, size
<1> QED
  BY <1>9, <1>10 DEF t

-----------------------------------------------------------------------------
(* Lines behind the text of a cut line *)

\* The line that reaches the stream when l leaves the device.
Arriving(c, l) == IF c = NoLine THEN l ELSE Merged(c, l)

LEMMA MergedIs ==
  ASSUME NEW c \in LineType, NEW l \in LineType
  PROVE  /\ Merged(c, l) \in LineType /\ Merged(c, l).tag = c.tag /\ Merged(c, l).frame = c.frame
         /\ Merged(c, l).state = IF "odd" \in {c.state, l.state} THEN "odd" ELSE "bad"
         /\ l.tag \in {"C", "V", "R"} /\ l.state = "ok" =>
              Merged(c, l).inner = [tag |-> l.tag, frame |-> l.frame, whole |-> TRUE]
         /\ l.tag \notin Headers /\ c.inner = NoHeader => Merged(c, l).inner = NoHeader
         /\ Merged(c, l).inner.frame \in {0, l.frame, c.inner.frame}
<1>1. c \in [tag : LineTag, frame : 0 .. MaxFrames, index : 0 .. Chunks, state : {"ok", "bad", "odd"},
             inner : [tag : Headers \cup {""}, frame : 0 .. MaxFrames, whole : BOOLEAN]]
  BY DEF LineType, LineTag
<1>2. Merged(c, l) \in LineType /\ Merged(c, l).tag = c.tag /\ Merged(c, l).frame = c.frame
  BY MergedTyped
<1> DEFINE s == IF "odd" \in {c.state, l.state} THEN "odd" ELSE "bad"
           n == IF \/ l.tag \in {"C", "V", "R"} /\ l.state = "ok"
                   \/ l.tag \in Headers /\ c.inner = NoHeader
                THEN [tag |-> l.tag, frame |-> l.frame, whole |-> l.state = "ok"]
                ELSE [c.inner EXCEPT !.whole = FALSE]
<1>3. Merged(c, l) = [c EXCEPT !.state = s, !.inner = n]
  BY DEF Merged
<1>4. l.tag \in {"C", "V", "R"} /\ l.state = "ok" =>
        n = [tag |-> l.tag, frame |-> l.frame, whole |-> TRUE]
  OBVIOUS
<1>5. l.tag \notin Headers /\ c.inner = NoHeader => n = NoHeader
  <2> DEFINE S == [tag : {""}, frame : {0}, whole : {FALSE}]
  <2>3. NoHeader \in S
    BY DEF NoHeader
  <2>4. \A r \in S : [r EXCEPT !.whole = FALSE] = r
    OBVIOUS
  <2>1. [NoHeader EXCEPT !.whole = FALSE] = NoHeader
    BY <2>3, <2>4
  <2>2. {"C", "V", "R"} \subseteq Headers
    BY DEF Headers
  <2> QED
    BY <2>1, <2>2
<1>6. n.frame \in {0, l.frame, c.inner.frame}
  <2>1. [c.inner EXCEPT !.whole = FALSE].frame = c.inner.frame
    BY <1>1
  <2>2. n = [c.inner EXCEPT !.whole = FALSE] \/ \E w : n = [tag |-> l.tag, frame |-> l.frame, whole |-> w]
    OBVIOUS
  <2> HIDE DEF n
  <2>3. CASE n = [c.inner EXCEPT !.whole = FALSE]
    BY <2>1, <2>3
  <2>4. ASSUME NEW w, n = [tag |-> l.tag, frame |-> l.frame, whole |-> w]
        PROVE  n.frame = l.frame
    BY <2>4
  <2> QED
    BY <2>2, <2>3, <2>4
<1> HIDE DEF s, n
<1>7. Merged(c, l).state = s /\ Merged(c, l).inner = n
  BY <1>1, <1>3
<1> QED
  BY <1>2, <1>4, <1>5, <1>6, <1>7 DEF s

\* It names the frame of l and those that the cut line names.
LEMMA ArrivingNames ==
  ASSUME NEW c \in LineType, NEW l \in LineType, l.inner = NoHeader
  PROVE  /\ Arriving(c, l) \in LineType
         /\ \A f : Names(Arriving(c, l), f) => Names(c, f) \/ f \in {0, l.frame}
         /\ \A n \in Nat : Begins(c, n) /\ l.frame <= n => Begins(Arriving(c, l), n)
<1> HIDE DEF LineType
<1>1. CASE c = NoLine
  <2>1. \A n \in Nat : 0 <= n
    OBVIOUS
  <2> QED
    BY <1>1, <2>1, NoHeaderIs DEF Arriving, Names, Begins
<1>2. CASE c # NoLine
  <2>1. Arriving(c, l) = Merged(c, l)
    BY <1>2 DEF Arriving
  <2>2. /\ Merged(c, l) \in LineType /\ Merged(c, l).frame = c.frame
        /\ Merged(c, l).inner.frame \in {0, l.frame, c.inner.frame}
    BY MergedIs
  <2>3. \A n \in Nat : 0 <= n
    OBVIOUS
  <2> QED
    BY <2>1, <2>2, <2>3 DEF Names, Begins
<1> QED
  BY <1>1, <1>2

LEMMA LogLineIs ==
  /\ LogLine \in LineType /\ LogLine.tag = "LOG" /\ LogLine.tag \notin Headers
  /\ LogLine.frame = 0 /\ LogLine.state = "ok" /\ LogLine.inner = NoHeader
<1>1. LogLine \in LineType
  <2>1. "LOG" \in LineTag /\ 0 \in 0 .. MaxFrames
    BY NaturalBounds DEF LineTag
  <2> QED
    BY <2>1, LineTyped, ZeroIndex DEF LogLine
<1> QED
  BY <1>1, LineIs DEF LogLine, Headers

\* A log line behind the text of a log line.
LEMMA ArrivingPlain ==
  ASSUME NEW c \in LineType, c = NoLine \/ Plain(c)
  PROVE  Plain(Arriving(c, LogLine))
<1>1. LogLine \in LineType
  BY LogLineIs
<1>2. /\ LogLine.tag = "LOG" /\ LogLine.state = "ok" /\ LogLine.inner = NoHeader
      /\ LogLine.tag \notin Headers
  BY LogLineIs
<1> HIDE DEF LineType, LogLine
<1>3. CASE c = NoLine
  BY <1>1, <1>2, <1>3 DEF Arriving, Plain
<1>4. CASE c # NoLine
  <2>1. Arriving(c, LogLine) = Merged(c, LogLine) /\ Plain(c)
    BY <1>4 DEF Arriving
  <2>2. Merged(c, LogLine).tag = "LOG" /\ Merged(c, LogLine).inner = NoHeader
    BY <1>1, <1>2, <2>1, MergedIs DEF Plain
  <2>3. Merged(c, LogLine).state = IF "odd" \in {c.state, LogLine.state} THEN "odd" ELSE "bad"
    BY <1>1, MergedIs
  <2>4. Merged(c, LogLine).state # "odd"
    BY <1>2, <2>1, <2>3 DEF Plain
  <2> QED
    BY <1>1, <2>1, <2>2, <2>4 DEF Plain
<1> QED
  BY <1>1, <1>3, <1>4

\* A line that leaves the device sound and whole arrives as itself, or as the
\* header that it is behind the text of a cut line.
LEMMA ArrivingBears ==
  ASSUME NEW c \in LineType, NEW kind \in Headers, NEW f \in 0 .. MaxFrames,
         NEW n \in 1 .. Size(kind, f), NEW l, l = LinesOf(kind, f)[n],
         \/ c = NoLine
         \/ c.state # "odd" /\ l.tag \in Headers /\ kind # "M"
  PROVE  Bears(Arriving(c, l), kind, f, n)
<1>1. NthIs(l, kind, f, n, Size(kind, f))
  BY FrameIs
<1>2. CASE c = NoLine
  BY <1>2 DEF Arriving, Bears
<1>3. CASE c # NoLine
  <2>1. l.tag = kind /\ n = 1
    BY <1>1, <1>3, LineTags DEF NthIs
  <2>2. l.tag \in {"C", "V", "R"} /\ l.state = "ok" /\ l \in LineType /\ l.frame = f
    BY <1>1, <1>3, <2>1 DEF NthIs, Headers
  <2>3. Arriving(c, l) = Merged(c, l)
    BY <1>3 DEF Arriving
  <2>4. /\ Merged(c, l).inner = [tag |-> l.tag, frame |-> l.frame, whole |-> TRUE]
        /\ Merged(c, l).state = IF "odd" \in {c.state, l.state} THEN "odd" ELSE "bad"
    BY <2>2, MergedIs
  <2>5. Merged(c, l).state # "odd"
    BY <1>3, <2>2, <2>4
  <2> QED
    BY <1>3, <2>1, <2>2, <2>3, <2>4, <2>5 DEF Bears
<1> QED
  BY <1>2, <1>3

-----------------------------------------------------------------------------
(* The steps of the device                                                  *)

LEMMA StreamTyped ==
  ASSUME AssemblyInv
  PROVE  /\ buffer \in Seq(LineType) /\ wire \in Seq(LineType) /\ Stream \in Seq(LineType)
         /\ cut \in LineType /\ Ordered(parser) /\ parser \in StreamType
         /\ kinds \in Seq(Kinds) /\ Begun \in Nat /\ Begun <= MaxFrames /\ pos \in Nat
<1>1. /\ buffer \in Seq(LineType) /\ wire \in Seq(LineType) /\ cut \in LineType
      /\ Ordered(parser) /\ kinds \in Seq(Kinds) /\ Begun <= MaxFrames /\ pos \in Nat
  BY DEF AssemblyInv, TypeOK
<1> HIDE DEF LineType
<1>2. Stream \in Seq(LineType) /\ Begun \in Nat
  BY <1>1 DEF Stream, Begun
<1> QED
  BY <1>1, <1>2 DEF Ordered

LEMMA FrameKnown ==
  ASSUME AssemblyInv, NEW f \in 1 .. Begun
  PROVE  /\ kinds[f] \in Headers /\ f \in 1 .. MaxFrames /\ f \in 0 .. MaxFrames
         /\ Lines(f) = LinesOf(kinds[f], f)
         /\ Sent(f) \in 0 .. Size(kinds[f], f)
         /\ f # Begun => Sent(f) = Size(kinds[f], f)
         /\ Finished(f) <=> Sent(f) = Size(kinds[f], f)
<1>1. kinds \in Seq(Kinds) /\ Begun \in Nat /\ Begun <= MaxFrames /\ pos \in Nat
  BY StreamTyped
<1>2. kinds[f] \in Headers /\ f \in 0 .. MaxFrames /\ f \in 1 .. MaxFrames
  BY <1>1, KindTyped, NaturalBounds DEF Begun
<1>3. Lines(f) = LinesOf(kinds[f], f) /\ Len(Lines(f)) = Size(kinds[f], f)
  BY DEF Lines, LinesOf, Size
<1>4. Size(kinds[f], f) \in Nat
  BY <1>2, SizeIs
<1>5. f = Begun => pos <= Size(kinds[f], f)
  BY <1>1, <1>3 DEF AssemblyInv
<1> HIDE DEF LinesOf, Size
<1>6. CASE f = Begun
  BY <1>1, <1>2, <1>3, <1>4, <1>5, <1>6 DEF Sent, Finished
<1>7. CASE f # Begun
  <2>1. f < Begun
    BY <1>1, <1>7
  <2> QED
    BY <1>2, <1>3, <1>4, <1>7, <2>1 DEF Sent, Finished
<1> QED
  BY <1>6, <1>7

\* A frame that is not finished was not handed on.
LEMMA UnfinishedKept ==
  ASSUME AssemblyInv, OrderInv, NEW f \in 1 .. Begun, ~Finished(f)
  PROVE  ~HandedOn(parser, kinds[f], f)
<1> SUFFICES ASSUME HandedOn(parser, kinds[f], f) PROVE FALSE
  OBVIOUS
<1>1. PICK i \in 1 .. Len(parser.out) : parser.out[i] = Body(kinds[f], f)
  BY DEF HandedOn
<1>2. PICK g \in Done : parser.out[i] = Body(kinds[g], g)
  BY DEF OrderInv, WholeFrames
<1>3. g \in 1 .. Begun /\ Finished(g)
  BY DEF Done
<1>4. g = f
  BY <1>1, <1>2, <1>3, FrameKnown, BodyNamesFrame
<1> QED
  BY <1>3, <1>4

\* The line that the device sends next.
LEMMA OutgoingIs ==
  ASSUME AssemblyInv, Sends
  PROVE  /\ Begun \in 1 .. Begun /\ Sent(Begun) = pos /\ pos \in 0 .. Size(kinds[Begun], Begun) - 1
         /\ Outgoing = LinesOf(kinds[Begun], Begun)[pos + 1]
         /\ Outgoing \in LineType /\ Outgoing.frame = Begun /\ Outgoing.inner = NoHeader
         /\ Outgoing.state = "ok" /\ (Outgoing.tag \in Headers => Outgoing.tag = kinds[Begun])
<1>1. Begun \in 1 .. Begun /\ ~Finished(Begun) /\ pos \in Nat
  BY StreamTyped DEF Sends
<1>2. /\ Sent(Begun) = pos /\ kinds[Begun] \in Headers /\ Begun \in 0 .. MaxFrames
      /\ pos # Size(kinds[Begun], Begun) /\ pos \in 0 .. Size(kinds[Begun], Begun)
      /\ Lines(Begun) = LinesOf(kinds[Begun], Begun)
  BY <1>1, FrameKnown DEF Sent
<1>3. Size(kinds[Begun], Begun) \in Nat
  BY <1>2, SizeIs
<1>4. pos \in 0 .. Size(kinds[Begun], Begun) - 1 /\ pos + 1 \in 1 .. Size(kinds[Begun], Begun)
  BY <1>1, <1>2, <1>3
<1>5. Outgoing = LinesOf(kinds[Begun], Begun)[pos + 1]
  BY <1>2 DEF Outgoing
<1>6. NthIs(Outgoing, kinds[Begun], Begun, pos + 1, Size(kinds[Begun], Begun))
  BY <1>2, <1>4, <1>5, FrameIs
<1>7. Outgoing.tag \in Headers => Outgoing.tag = kinds[Begun]
  BY <1>6, LineTags DEF NthIs
<1> QED
  BY <1>1, <1>2, <1>4, <1>5, <1>6, <1>7 DEF NthIs

\* What a line that leaves the device does to the stream.
LEMMA PutIs ==
  ASSUME AssemblyInv, NEW l \in LineType, NEW ended \in BOOLEAN, Put(l, ended)
  PROVE  /\ Stream' = IF ended THEN Append(Stream, Arriving(cut, l)) ELSE Stream
         /\ cut' = IF ended THEN NoLine ELSE Arriving(cut, l)
         /\ damaged \subseteq damaged' /\ spliced \subseteq spliced'
         /\ UNCHANGED <<buffer, feeding, parser>>
         /\ l.frame \notin damaged' => ended /\ l.state = "ok" /\ (cut = NoLine \/ SplicedWhole(l))
         /\ ended /\ SplicedWhole(l) => l.frame \in spliced'
<1>1. /\ wire' = IF ended THEN Append(wire, Arriving(cut, l)) ELSE wire
      /\ cut' = IF ended THEN NoLine ELSE Arriving(cut, l)
      /\ UNCHANGED <<buffer, feeding, parser>>
  BY DEF Put, Arriving
<1> DEFINE intact == ended /\ l.state = "ok" /\ (cut = NoLine \/ SplicedWhole(l))
<1>2. /\ damaged' = IF intact THEN damaged ELSE damaged \cup {l.frame}
      /\ spliced' = IF ended /\ SplicedWhole(l) THEN spliced \cup {l.frame} ELSE spliced
  BY DEF Put
<1>3. /\ damaged \subseteq damaged' /\ (l.frame \notin damaged' => intact)
      /\ spliced \subseteq spliced' /\ (ended /\ SplicedWhole(l) => l.frame \in spliced')
  BY <1>2
<1>4. Stream' = IF ended THEN Append(Stream, Arriving(cut, l)) ELSE Stream
  <2>1. buffer \in Seq(LineType) /\ wire \in Seq(LineType) /\ Merged(cut, l) \in LineType
    BY StreamTyped, MergedTyped
  <2>2. Arriving(cut, l) \in LineType
    BY <2>1 DEF Arriving
  <2> QED
    BY <1>1, <2>1, <2>2, AddedBehind DEF Stream
<1> QED
  BY <1>1, <1>3, <1>4

LEMMA NoLineIs == NoLine.frame = 0 /\ NoLine.inner.frame = 0 /\ NoLine.state # "odd"
<1>1. Line("", 0, 0).frame = 0 /\ Line("", 0, 0).inner = NoHeader /\ Line("", 0, 0).state = "ok"
  BY DEF Line
<1> QED
  BY <1>1, NoHeaderIs DEF NoLine

\* Nothing that is under way is of a frame that was not begun.
LEMMA BegunAdded ==
  ASSUME AssemblyInv, NEW s \in Seq(LineType), NEW m \in LineType, NEW n,
         \A i \in 1 .. Len(s) : Begins(s[i], n), Begins(m, n)
  PROVE  \A i \in 1 .. Len(Append(s, m)) : Begins(Append(s, m)[i], n)
<1> DEFINE t == Append(s, m)
<1>1. /\ Len(t) = Len(s) + 1 /\ t[Len(s) + 1] = m
      /\ \A i \in 1 .. Len(s) : t[i] = s[i]
      /\ \A i \in 1 .. Len(s) + 1 : i \in 1 .. Len(s) \/ i = Len(s) + 1
  BY AddedIs
<1> HIDE DEF t
<1> QED
  BY <1>1 DEF t

\* The invariant of a state, from its parts in the state before.
LEMMA FitsNext ==
  ASSUME NEW f, WireFits(Stream', kinds'[f], f, Sent(f)'),
         ParserFits(parser', Stream', kinds'[f], f, Sent(f)'), CutFits(cut', kinds'[f], f, Sent(f)')
  PROVE  Fits(f)'
BY DEF Fits

\* A step of the device that puts a line of its frame on the wire, damaged unless
\* it is the one that comes next.
LEMMA SendingFits ==
  ASSUME AssemblyInv, OrderInv, IntactInv, Sends, NEW l \in LineType, NEW ended \in BOOLEAN,
         Put(l, ended), l.frame = Begun, l.inner = NoHeader, l = Outgoing \/ l.state # "ok"
  PROVE  IntactInv'
<1> DEFINE m == Arriving(cut, l)
<1>1. /\ Begun \in 1 .. Begun /\ Begun \in Nat \ {0} /\ Begun \in 1 .. MaxFrames
      /\ Sent(Begun) = pos /\ pos \in 0 .. Size(kinds[Begun], Begun) - 1
      /\ Outgoing = LinesOf(kinds[Begun], Begun)[pos + 1] /\ ~Finished(Begun)
      /\ (Outgoing.tag \in Headers => Outgoing.tag = kinds[Begun])
      /\ kinds' = kinds /\ pos' = pos + 1 /\ Begun' = Begun
  BY OutgoingIs, FrameKnown, StreamTyped DEF Sends, Begun
<1>2. /\ Stream' = IF ended THEN Append(Stream, m) ELSE Stream
      /\ cut' = IF ended THEN NoLine ELSE m
      /\ damaged \subseteq damaged' /\ spliced \subseteq spliced'
      /\ buffer' = buffer /\ feeding' = feeding /\ parser' = parser
      /\ l.frame \notin damaged' => ended /\ l.state = "ok" /\ (cut = NoLine \/ SplicedWhole(l))
      /\ ended /\ SplicedWhole(l) => l.frame \in spliced'
  BY PutIs
<1>3. /\ Stream \in Seq(LineType) /\ cut \in LineType /\ m \in LineType
      /\ \A f : Names(m, f) => Names(cut, f) \/ f \in {0, l.frame}
      /\ Begins(cut, Begun) => Begins(m, Begun)
  <2>1. l.frame <= Begun /\ Begun \in Nat
    BY <1>1
  <2> QED
    BY <2>1, StreamTyped, ArrivingNames
<1>4. NoLine.frame = 0 /\ NoLine.inner.frame = 0
  BY NoLineIs
<1> HIDE DEF m, LineType
<1>5. AllBegun'
  <2>1. /\ \A i \in 1 .. Len(Stream) : Begins(Stream[i], Begun)
        /\ Begins(cut, Begun) /\ Begins(m, Begun)
    BY <1>3 DEF IntactInv, AllBegun
  <2>2. \A i \in 1 .. Len(Stream') : Begins(Stream'[i], Begun)
    BY <1>2, <1>3, <2>1, BegunAdded
  <2>3. Begins(cut', Begun)
    <3>1. 0 <= Begun
      BY <1>1
    <3> QED
      BY <1>2, <1>4, <2>1, <3>1 DEF Begins
  <2> QED
    BY <1>1, <1>2, <2>2, <2>3 DEF IntactInv, AllBegun, Begins
<1>6. ASSUME NEW f \in 1 .. Begun, f # Begun, Intact(f)'
      PROVE  Fits(f)'
  <2>1. Intact(f) /\ Fits(f)
    BY <1>1, <1>2, <1>6 DEF IntactInv, Intact
  <2>2. /\ kinds[f] \in Headers /\ f \in 1 .. MaxFrames /\ f \in 0 .. MaxFrames
        /\ Sent(f) = Size(kinds[f], f) /\ Sent(f)' = Size(kinds[f], f)
        /\ Sent(f) \in 0 .. Size(kinds[f], f)
    BY <1>1, <1>6, FrameKnown DEF Sent
  <2>3. ~Names(m, f)
    BY <1>1, <1>3, <1>6, <2>1 DEF Fits, CutFits
  <2>4. Sent(f) \notin 1 .. Size(kinds[f], f) - 1
    BY <2>2, SizeIs
  <2>5. /\ WireFits(Stream', kinds[f], f, Sent(f))
        /\ ParserFits(parser', Stream', kinds[f], f, Sent(f))
    BY <1>2, <1>3, <2>1, <2>2, <2>3, <2>4, OtherAdded DEF Fits
  <2>6. CutFits(cut', kinds[f], f, Sent(f))
    BY <1>1, <1>2, <1>4, <1>6, <2>3, <2>4 DEF CutFits, Names
  <2> QED
    BY <1>1, <2>2, <2>5, <2>6, FitsNext
<1>7. ASSUME Intact(Begun)'
      PROVE  Fits(Begun)'
  <2>1. ended /\ l = Outgoing /\ (cut = NoLine \/ SplicedWhole(l))
    BY <1>1, <1>2, <1>7 DEF Intact
  <2>2. Intact(Begun) /\ Fits(Begun)
    BY <1>1, <1>2, <1>7 DEF IntactInv, Intact
  <2>3. cut = NoLine \/ (cut.state # "odd" /\ l.tag \in Headers /\ kinds[Begun] # "M")
    BY <1>1, <1>2, <1>7, <2>1 DEF Intact, SplicedWhole
  <2>4. kinds[Begun] \in Headers /\ Begun \in 0 .. MaxFrames /\ Size(kinds[Begun], Begun) \in Nat
    BY <1>1, FrameKnown, SizeIs
  <2>5. pos + 1 \in 1 .. Size(kinds[Begun], Begun) /\ pos \in Nat
    BY <1>1, <2>4
  <2>6. Bears(m, kinds[Begun], Begun, pos + 1)
    BY <1>1, <1>3, <2>1, <2>3, <2>4, <2>5, ArrivingBears DEF m
  <2>7. ~HandedOn(parser, kinds[Begun], Begun)
    BY <1>1, UnfinishedKept
  <2>8. /\ WireFits(Append(Stream, m), kinds[Begun], Begun, pos + 1)
        /\ ParserFits(parser, Append(Stream, m), kinds[Begun], Begun, pos + 1)
    BY <1>1, <1>3, <2>2, <2>4, <2>6, <2>7, NextAdded DEF Fits
  <2>9. CutFits(NoLine, kinds[Begun], Begun, pos + 1)
    BY <1>1, <1>4 DEF CutFits, Names
  <2>10. Sent(Begun)' = pos + 1
    BY <1>1 DEF Sent
  <2> QED
    BY <1>1, <1>2, <2>1, <2>8, <2>9, <2>10, FitsNext
<1>8. ~feeding' => buffer' = <<>>
  BY <1>2 DEF IntactInv
<1> QED
  BY <1>1, <1>5, <1>6, <1>7, <1>8 DEF IntactInv

LEMMA SendFits == AssemblyInv /\ OrderInv /\ IntactInv /\ Send => IntactInv'
<1> SUFFICES ASSUME AssemblyInv, OrderInv, IntactInv, Send PROVE IntactInv'
  OBVIOUS
<1>1. Sends /\ Put(Outgoing, TRUE)
  BY DEF Send
<1> QED
  BY <1>1, OutgoingIs, SendingFits

LEMMA DamageFits == AssemblyInv /\ OrderInv /\ IntactInv /\ Damage => IntactInv'
<1> SUFFICES ASSUME AssemblyInv, OrderInv, IntactInv, Damage PROVE IntactInv'
  OBVIOUS
<1>1. PICK s \in {"bad", "odd"} : Put([Outgoing EXCEPT !.state = s], TRUE)
  BY DEF Damage
<1>2. Sends
  BY DEF Damage
<1> DEFINE l == [Outgoing EXCEPT !.state = s]
<1>3. Outgoing \in LineType /\ Outgoing.frame = Begun /\ Outgoing.inner = NoHeader
  BY <1>2, OutgoingIs
<1>4. l \in LineType /\ l.state = s /\ l.frame = Begun /\ l.inner = NoHeader
  <2>1. l \in LineType /\ l.state = s /\ l.frame = Outgoing.frame
    BY <1>3, StateSet
  <2>2. l.inner = Outgoing.inner
    BY <1>3 DEF LineType
  <2> QED
    BY <1>3, <2>1, <2>2
<1>5. Put(l, TRUE)
  BY <1>1
<1> HIDE DEF LineType, l
<1> QED
  BY <1>2, <1>4, <1>5, SendingFits

LEMMA CutShortFits == AssemblyInv /\ OrderInv /\ IntactInv /\ CutShort => IntactInv'
<1> SUFFICES ASSUME AssemblyInv, OrderInv, IntactInv, CutShort PROVE IntactInv'
  OBVIOUS
<1>1. Sends /\ Put(Outgoing, FALSE)
  BY DEF CutShort
<1> QED
  BY <1>1, OutgoingIs, SendingFits

LEMMA LoseFits == AssemblyInv /\ OrderInv /\ IntactInv /\ Lose => IntactInv'
<1> SUFFICES ASSUME AssemblyInv, OrderInv, IntactInv, Lose PROVE IntactInv'
  OBVIOUS
<1>1. /\ Sends /\ kinds' = kinds /\ Begun' = Begun /\ damaged' = damaged \cup {Begun}
      /\ UNCHANGED <<wire, cut, spliced, buffer, feeding, parser>>
  BY DEF Lose, Sends, Begun
<1>2. Stream' = Stream
  BY <1>1 DEF Stream
<1>3. AllBegun'
  BY <1>1, <1>2 DEF IntactInv, AllBegun, Begins
<1>4. ASSUME NEW f \in 1 .. Begun, Intact(f)'
      PROVE  Fits(f)'
  <2>1. Intact(f) /\ f # Begun /\ Fits(f)
    BY <1>1, <1>4 DEF IntactInv, Intact
  <2>2. Sent(f)' = Sent(f)
    BY <1>1, <2>1 DEF Sent
  <2> QED
    BY <1>1, <1>2, <2>1, <2>2, FitsNext DEF Fits
<1> QED
  BY <1>1, <1>3, <1>4 DEF IntactInv

LEMMA LogFits == AssemblyInv /\ OrderInv /\ IntactInv /\ Log => IntactInv'
<1> SUFFICES ASSUME AssemblyInv, OrderInv, IntactInv, Log PROVE IntactInv'
  OBVIOUS
<1>1. PICK ended \in BOOLEAN : Put(LogLine, ended)
  BY DEF Log
<1> DEFINE m == Arriving(cut, LogLine)
<1>2. kinds' = kinds /\ pos' = pos /\ Begun' = Begun
  BY DEF Log, Begun
<1>3. /\ LogLine \in LineType /\ LogLine.frame = 0 /\ LogLine.inner = NoHeader
      /\ cut = NoLine \/ Plain(cut) => Plain(m)
  BY LogLineIs, StreamTyped, ArrivingPlain
<1>4. /\ Stream' = IF ended THEN Append(Stream, m) ELSE Stream
      /\ cut' = IF ended THEN NoLine ELSE m
      /\ damaged \subseteq damaged' /\ spliced \subseteq spliced'
      /\ buffer' = buffer /\ feeding' = feeding /\ parser' = parser
  BY <1>1, <1>3, PutIs
<1>5. /\ Stream \in Seq(LineType) /\ cut \in LineType /\ m \in LineType
      /\ \A f : Names(m, f) => Names(cut, f) \/ f = 0
      /\ Begins(cut, Begun) => Begins(m, Begun)
  <2>1. LogLine.frame <= Begun /\ Begun \in Nat
    BY <1>3, StreamTyped
  <2> QED
    BY <1>3, <2>1, StreamTyped, ArrivingNames
<1> HIDE DEF m, LineType
<1>6. AllBegun'
  <2>1. /\ \A i \in 1 .. Len(Stream) : Begins(Stream[i], Begun)
        /\ Begins(cut, Begun) /\ Begins(m, Begun)
    BY <1>5 DEF IntactInv, AllBegun
  <2>2. \A i \in 1 .. Len(Stream') : Begins(Stream'[i], Begun)
    BY <1>4, <1>5, <2>1, BegunAdded
  <2>3. Begins(cut', Begun)
    <3>1. 0 <= Begun
      BY StreamTyped
    <3> QED
      BY <1>4, <2>1, <3>1, NoLineIs DEF Begins
  <2> QED
    BY <1>2, <1>4, <2>2, <2>3 DEF IntactInv, AllBegun, Begins
<1>7. ASSUME NEW f \in 1 .. Begun, Intact(f)'
      PROVE  Fits(f)'
  <2>1. Intact(f) /\ Fits(f)
    BY <1>2, <1>4, <1>7 DEF IntactInv, Intact
  <2>2. /\ kinds[f] \in Headers /\ f \in 1 .. MaxFrames /\ f # 0
        /\ Sent(f)' = Sent(f) /\ Sent(f) \in 0 .. Size(kinds[f], f)
    BY <1>2, FrameKnown DEF Sent
  <2>3. ~Names(m, f)
    BY <1>5, <2>1, <2>2 DEF Fits, CutFits
  <2>4. Sent(f) \in 1 .. Size(kinds[f], f) - 1 => Plain(m)
    BY <1>3, <2>1 DEF Fits, CutFits
  <2>5. /\ WireFits(Stream', kinds[f], f, Sent(f))
        /\ ParserFits(parser', Stream', kinds[f], f, Sent(f))
    BY <1>4, <1>5, <2>1, <2>2, <2>3, <2>4, OtherAdded DEF Fits
  <2>6. CutFits(cut', kinds[f], f, Sent(f))
    BY <1>4, <2>2, <2>3, <2>4, NoLineIs DEF CutFits, Names
  <2> QED
    BY <1>2, <2>2, <2>5, <2>6, FitsNext
<1> QED
  BY <1>2, <1>4, <1>6, <1>7 DEF IntactInv

LEMMA FrameNumbers == \A l \in LineType : l.frame \in Nat /\ l.inner.frame \in Nat
<1>1. \A l \in LineType : l.frame \in 0 .. MaxFrames /\ l.inner.frame \in 0 .. MaxFrames
  BY DEF LineType
<1> QED
  BY <1>1, NaturalBounds

\* A frame that begins has no line under way.
LEMMA BeginFits == AssemblyInv /\ OrderInv /\ IntactInv /\ Begin => IntactInv'
<1> SUFFICES ASSUME AssemblyInv, OrderInv, IntactInv, Begin PROVE IntactInv'
  OBVIOUS
<1>1. UNCHANGED <<wire, cut, damaged, spliced, buffer, feeding, parser>> /\ pos' = 0 /\ Stream' = Stream
  BY DEF Begin, Stream
<1>2. PICK k \in Kinds : kinds' = Append(kinds, k)
  BY DEF Begin
<1>3. /\ kinds' \in Seq(Kinds) /\ Begun' = Begun + 1 /\ Begun \in Nat
      /\ \A f \in 1 .. Begun : kinds'[f] = kinds[f]
  BY <1>2, StreamTyped DEF Begun
<1>4. Begun' \in 1 .. MaxFrames /\ kinds'[Begun'] \in Headers
  <2>1. Begun < MaxFrames
    BY DEF Begin
  <2>2. Begun' \in 1 .. MaxFrames
    BY <1>3, <2>1, NaturalBounds
  <2>3. Len(kinds') = Begun'
    BY DEF Begun
  <2>4. Begun' \in 1 .. Len(kinds') /\ Len(kinds') <= MaxFrames
    BY <2>2, <2>3, NaturalBounds
  <2> QED
    BY <1>3, <2>2, <2>4, KindTyped
<1>5. AllBegun'
  <2>1. \A g \in Nat : g <= Begun => g <= Begun + 1
    BY <1>3
  <2>2. /\ \A i \in 1 .. Len(Stream) : Stream[i] \in LineType
        /\ cut \in LineType
        /\ \A j \in Parsers : \A i \in 1 .. Len(parser.pend[j]) : parser.pend[j][i] \in LineType
    <3>1. Stream \in Seq(LineType) /\ cut \in LineType /\ parser.pend \in [Parsers -> Seq(LineType)]
      BY StreamTyped DEF StreamType
    <3> HIDE DEF LineType
    <3> QED
      BY <3>1
  <2>3. \A l \in LineType : l.frame \in Nat /\ l.inner.frame \in Nat
    BY FrameNumbers
  <2> HIDE DEF LineType
  <2> QED
    BY <1>1, <1>3, <2>1, <2>2, <2>3 DEF IntactInv, AllBegun, Begins
<1>6. ASSUME NEW f \in 1 .. Begun, Intact(f)'
      PROVE  Fits(f)'
  <2>1. Intact(f) /\ Fits(f)
    BY <1>1, <1>3, <1>6 DEF IntactInv, Intact
  <2>2. Sent(f) = Size(kinds[f], f)
    <3>1. f = Begun => Finished(f)
      BY <1>3 DEF Begin
    <3> QED
      BY <3>1, FrameKnown
  <2>3. f # Begun'
    BY <1>3
  <2>4. Sent(f)' = Sent(f) /\ kinds'[f] = kinds[f]
    BY <1>3, <2>2, <2>3 DEF Sent
  <2> QED
    BY <1>1, <2>1, <2>4, FitsNext DEF Fits
<1>7. Fits(Begun)'
  <2> DEFINE g == Begun + 1
             kind == kinds'[g]
  <2>1. g = Begun' /\ kind \in Headers /\ g \in 1 .. MaxFrames /\ g \in 0 .. MaxFrames
    BY <1>3, <1>4
  <2>2. Sent(Begun)' = 0
    BY <1>1 DEF Sent
  <2>3. \A l \in LineType : Begins(l, Begun) => ~Names(l, g)
    <3>1. \A l \in LineType : l.frame \in Nat /\ l.inner.frame \in Nat
      BY FrameNumbers
    <3>2. \A a \in Nat : a <= Begun => a # g
      BY <1>3
    <3> QED
      BY <3>1, <3>2 DEF Begins, Names
  <2> HIDE DEF LineType
  <2>4. \A i \in 1 .. Len(Stream) : ~Names(Stream[i], g)
    <3>1. Stream \in Seq(LineType)
      BY StreamTyped
    <3> QED
      BY <2>3, <3>1 DEF IntactInv, AllBegun
  <2>5. ~Names(cut, g)
    BY <2>3, StreamTyped DEF IntactInv, AllBegun
  <2>6. \A n : ~Holds(parser, kind, g, n)
    <3> SUFFICES ASSUME NEW n, Holds(parser, kind, g, n) PROVE FALSE
      OBVIOUS
    <3>1. Owner(kind) \in Parsers
      BY <2>1, OwnerIs
    <3>2. n \in Nat \ {0} /\ 1 \in 1 .. n /\ Len(parser.pend[Owner(kind)]) = n
      BY <2>1, FrameIs DEF Holds
    <3>3. parser.pend[Owner(kind)][1] = Body(kind, g)[1]
      BY <3>2 DEF Holds
    <3>4. Body(kind, g)[1] = Line(kind, g, 0)
      BY <2>1, BodyLines DEF BodyIs
    <3>5. parser.pend[Owner(kind)][1].frame = g
      BY <3>3, <3>4, LineIs
    <3>6. parser.pend[Owner(kind)][1].frame <= Begun
      BY <3>1, <3>2 DEF IntactInv, AllBegun
    <3> QED
      BY <1>3, <3>5, <3>6
  <2>7. \A i \in 1 .. Len(Stream), n \in 1 .. Size(kind, g) : ~Bears(Stream[i], kind, g, n)
    BY <2>1, <2>4, BearsOne
  <2>8. 1 \in 1 .. Size(kind, g) /\ Size(kind, g) \in 1 .. Size(kind, g)
    BY <2>1, SizeIs
  <2> HIDE DEF g, kind
  <2>9. WireFits(Stream, kind, g, 0)
    BY <2>4, <2>7, <2>8 DEF WireFits
  <2>10. ParserFits(parser, Stream, kind, g, 0)
    BY <2>4, <2>6 DEF ParserFits
  <2>11. CutFits(cut, kind, g, 0)
    BY <2>5 DEF CutFits
  <2> QED
    BY <1>1, <2>1, <2>2, <2>9, <2>10, <2>11, FitsNext DEF kind
<1> QED
  <2>1. \A f \in 1 .. Begun + 1 : f \in 1 .. Begun \/ f = Begun + 1
    BY <1>3
  <2>2. ~feeding' => buffer' = <<>>
    BY <1>1 DEF IntactInv
  <2> QED
    BY <1>3, <1>5, <1>6, <1>7, <2>1, <2>2 DEF IntactInv

-----------------------------------------------------------------------------
(* The steps of the registry                                                *)

\* The chunk is what was under way: the stream stays the same.
LEMMA ReceiveFits == AssemblyInv /\ OrderInv /\ IntactInv /\ Receive => IntactInv'
<1> SUFFICES ASSUME AssemblyInv, OrderInv, IntactInv, Receive PROVE IntactInv'
  OBVIOUS
<1>1. /\ UNCHANGED <<kinds, pos, cut, damaged, spliced, parser>> /\ Begun' = Begun
      /\ feeding' = TRUE /\ buffer = <<>> /\ buffer' = wire /\ wire' = <<>>
  BY DEF Receive, device, Begun, IntactInv
<1>2. Stream' = Stream
  <2>1. <<>> \o wire = wire /\ wire \o <<>> = wire
    <3> HIDE DEF LineType
    <3>1. wire \in Seq(LineType)
      BY StreamTyped
    <3> QED
      BY <3>1
  <2> QED
    BY <1>1, <2>1 DEF Stream
<1>3. AllBegun'
  BY <1>1, <1>2 DEF IntactInv, AllBegun, Begins
<1>4. ASSUME NEW f \in 1 .. Begun, Intact(f)'
      PROVE  Fits(f)'
  <2>1. Intact(f) /\ Fits(f)
    BY <1>1, <1>4 DEF IntactInv, Intact
  <2>2. Sent(f)' = Sent(f)
    BY <1>1 DEF Sent
  <2> QED
    BY <1>1, <1>2, <2>1, <2>2, FitsNext DEF Fits
<1> QED
  BY <1>1, <1>3, <1>4 DEF IntactInv

LEMMA FirstTaken ==
  ASSUME NEW s \in Seq(LineType), NEW t \in Seq(LineType), s # <<>>
  PROVE  /\ Tail(s) \o t = Tail(s \o t) /\ s \o t # <<>> /\ (s \o t)[1] = Head(s)
         /\ s \o t \in Seq(LineType)
<1> HIDE DEF LineType
<1>1. /\ Tail(s) \in Seq(LineType) /\ Len(s) \in Nat \ {0} /\ Len(Tail(s)) = Len(s) - 1
      /\ s[1] = Head(s) /\ \A i \in 1 .. Len(s) - 1 : Tail(s)[i] = s[i + 1]
  OBVIOUS
<1>2. /\ s \o t \in Seq(LineType) /\ Len(s \o t) = Len(s) + Len(t) /\ Len(t) \in Nat
      /\ \A i \in 1 .. Len(s) : (s \o t)[i] = s[i]
      /\ \A i \in 1 .. Len(t) : (s \o t)[Len(s) + i] = t[i]
  BY JoinIs
<1>3. s \o t # <<>> /\ (s \o t)[1] = Head(s)
  <2>1. Len(s \o t) # 0 /\ 1 \in 1 .. Len(s)
    BY <1>1, <1>2
  <2> QED
    BY <1>1, <1>2, <2>1
<1>4. Tail(s) \o t = Tail(s \o t)
  OBVIOUS
<1> QED
  BY <1>2, <1>3, <1>4

LEMMA FeedNextFits == AssemblyInv /\ OrderInv /\ IntactInv /\ FeedNext => IntactInv'
<1> SUFFICES ASSUME AssemblyInv, OrderInv, IntactInv, FeedNext PROVE IntactInv'
  OBVIOUS
<1> DEFINE l == Stream[1]
<1>1. /\ buffer # <<>> /\ buffer' = Tail(buffer) /\ parser' \in FeedLine(parser, Head(buffer))
      /\ UNCHANGED <<kinds, pos, wire, cut, damaged, spliced, feeding>> /\ Begun' = Begun
  BY DEF FeedNext, device, Begun
<1>2. /\ Stream \in Seq(LineType) /\ Stream # <<>> /\ Stream' = Tail(Stream)
      /\ l = Head(buffer)
  BY <1>1, StreamTyped, FirstTaken DEF Stream
<1>3. /\ Tail(Stream) \in Seq(LineType) /\ Len(Stream) \in Nat \ {0}
      /\ Len(Tail(Stream)) = Len(Stream) - 1 /\ l \in LineType
      /\ \A i \in 1 .. Len(Stream) - 1 : Tail(Stream)[i] = Stream[i + 1]
  BY <1>2, RestIs
<1>4. parser' \in FeedLine(parser, l) /\ Ordered(parser)
  BY <1>1, <1>2, StreamTyped
<1>5. l.tag = "K" => kinds[l.frame] \in Headers /\ l.frame \in 0 .. MaxFrames
  <2>1. l = buffer[1] /\ 1 \in 1 .. Len(buffer)
    <3> HIDE DEF LineType
    <3>1. buffer \in Seq(LineType)
      BY StreamTyped
    <3> QED
      BY <1>1, <1>2, <3>1
  <2>2. l.tag = "K" => l.frame \in Done
    BY <2>1 DEF OrderInv, Due, DueLine
  <2>3. l.tag = "K" => l.frame \in 1 .. Begun
    BY <2>2 DEF Done
  <2> QED
    BY <2>3, FrameKnown
<1> HIDE DEF LineType
<1>6. AllBegun'
  <2>1. 1 \in 1 .. Len(Stream) /\ \A i \in 1 .. Len(Stream) - 1 : i + 1 \in 1 .. Len(Stream)
    BY <1>3
  <2>2. \A i \in 1 .. Len(Tail(Stream)) : Begins(Tail(Stream)[i], Begun)
    BY <1>3, <2>1 DEF IntactInv, AllBegun
  <2>3. l.frame <= Begun /\ l.inner.frame <= Begun
    BY <2>1 DEF IntactInv, AllBegun, Begins
  <2>4. AllGrown(parser, parser', {l.frame, l.inner.frame})
    BY <1>3, <1>4, FeedLineGrows
  <2> HIDE DEF l
  <2>5. ASSUME NEW k \in Parsers, NEW i \in 1 .. Len(parser'.pend[k])
        PROVE  parser'.pend[k][i].frame <= Begun
    <3>1. Grown(parser.pend[k], parser'.pend[k], {l.frame, l.inner.frame})
      BY <2>4 DEF AllGrown
    <3>2. CASE parser'.pend[k] = parser.pend[k]
      BY <2>5, <3>2 DEF IntactInv, AllBegun
    <3>3. CASE parser'.pend[k] = <<>>
      <4>1. Len(parser'.pend[k]) = 0
        BY <3>3
      <4> QED
        BY <4>1
    <3>4. CASE \/ parser'.pend[k][i].frame \in {l.frame, l.inner.frame}
               \/ \E h \in 1 .. Len(parser.pend[k]) : parser'.pend[k][i] = parser.pend[k][h]
      BY <2>3, <3>4 DEF IntactInv, AllBegun
    <3> QED
      BY <3>1, <3>2, <3>3, <3>4 DEF Grown
  <2> QED
    BY <1>1, <1>2, <2>2, <2>5 DEF IntactInv, AllBegun, Begins
<1>7. ASSUME NEW f \in 1 .. Begun, Intact(f)'
      PROVE  Fits(f)'
  <2>1. Intact(f) /\ Fits(f)
    BY <1>1, <1>7 DEF IntactInv, Intact
  <2>2. /\ kinds[f] \in Headers /\ f \in 1 .. MaxFrames /\ Sent(f)' = Sent(f)
        /\ Sent(f) \in 0 .. Size(kinds[f], f)
    BY <1>1, FrameKnown DEF Sent
  <2>3. WireFits(Tail(Stream), kinds[f], f, Sent(f))
    BY <1>2, <2>1, <2>2, RestFits DEF Fits
  <2>4. ParserFits(parser', Tail(Stream), kinds[f], f, Sent(f))
    BY <1>2, <1>4, <1>5, <2>1, <2>2, FeedFits DEF Fits
  <2> QED
    BY <1>1, <1>2, <2>1, <2>2, <2>3, <2>4, FitsNext DEF Fits
<1>8. ~feeding' => buffer' = <<>>
  BY <1>1 DEF IntactInv
<1> QED
  BY <1>1, <1>6, <1>7, <1>8 DEF IntactInv

\* A frame whose lines wait in the parser is the pending frame.
LEMMA HeldIsPending ==
  ASSUME AssemblyInv, NEW f \in 1 .. Begun, NEW n, Holds(parser, kinds[f], f, n)
  PROVE  f \in PendingFrames
<1>1. kinds[f] \in Headers /\ f \in 0 .. MaxFrames /\ Ordered(parser)
  BY FrameKnown, StreamTyped
<1>2. /\ Owner(kinds[f]) \in Parsers /\ n \in Nat \ {0}
      /\ parser.pend[Owner(kinds[f])] # <<>>
  BY <1>1, OwnerIs, HeldIsActive
<1>3. parser.pend[Owner(kinds[f])][1] = Body(kinds[f], f)[1]
  BY <1>2 DEF Holds
<1>4. Body(kinds[f], f)[1] = Line(kinds[f], f, 0)
  BY <1>1, BodyLines DEF BodyIs
<1>5. parser.pend[Owner(kinds[f])][1].frame = f
  BY <1>3, <1>4, LineIs
<1> QED
  BY <1>2, <1>5 DEF PendingFrames

\* At the end of a chunk the pending frame stays, or is counted as damaged.
LEMMA EndChunkFits == AssemblyInv /\ OrderInv /\ IntactInv /\ EndChunk => IntactInv'
<1> SUFFICES ASSUME AssemblyInv, OrderInv, IntactInv, EndChunk PROVE IntactInv'
  OBVIOUS
<1>1. PICK late \in BOOLEAN :
        /\ damaged' = IF late THEN damaged \cup PendingFrames ELSE damaged
        /\ parser' = Deactivated(TimedOut(parser, late))
  BY DEF EndChunk
<1>2. /\ UNCHANGED <<kinds, pos, wire, cut, spliced, buffer>> /\ buffer = <<>>
      /\ Begun' = Begun /\ Stream' = Stream
  BY DEF EndChunk, Begun, Stream
<1>3. /\ parser'.out = parser.out
      /\ \A k \in Parsers : parser'.pend[k] = IF late THEN <<>> ELSE parser.pend[k]
  BY <1>1, StreamTyped, EndChunkOrders
<1>4. AllBegun'
  <2>1. ASSUME NEW k \in Parsers, NEW i \in 1 .. Len(parser'.pend[k])
        PROVE  parser'.pend[k][i].frame <= Begun
    <3>1. CASE late
      <4>1. Len(parser'.pend[k]) = 0
        BY <1>3, <3>1
      <4> QED
        BY <4>1
    <3>2. CASE ~late
      BY <1>3, <2>1, <3>2 DEF IntactInv, AllBegun
    <3> QED
      BY <3>1, <3>2
  <2> QED
    BY <1>2, <2>1 DEF IntactInv, AllBegun, Begins
<1>5. ASSUME NEW f \in 1 .. Begun, Intact(f)'
      PROVE  Fits(f)'
  <2>1. Intact(f) /\ Fits(f)
    BY <1>1, <1>2, <1>5 DEF IntactInv, Intact
  <2>2. Sent(f)' = Sent(f) /\ Owner(kinds[f]) \in Parsers
    BY <1>2, FrameKnown, OwnerIs DEF Sent
  <2>3. \A n : Holds(parser', kinds[f], f, n) <=> Holds(parser, kinds[f], f, n)
    <3>1. CASE late
      <4>1. \A n : ~Holds(parser, kinds[f], f, n)
        BY <1>1, <1>5, <3>1, HeldIsPending DEF Intact
      <4>2. Len(parser'.pend[Owner(kinds[f])]) = 0
        BY <1>3, <2>2, <3>1
      <4>3. \A n : ~Holds(parser', kinds[f], f, n)
        BY <4>2 DEF Holds
      <4> QED
        BY <4>1, <4>3
    <3>2. CASE ~late
      BY <1>3, <2>2, <3>2 DEF Holds
    <3> QED
      BY <3>1, <3>2
  <2>4. HandedOn(parser', kinds[f], f) <=> HandedOn(parser, kinds[f], f)
    BY <1>3 DEF HandedOn
  <2>5. ParserFits(parser', Stream, kinds[f], f, Sent(f))
    BY <2>1, <2>3, <2>4 DEF Fits, ParserFits
  <2> QED
    BY <1>2, <2>1, <2>2, <2>5, FitsNext DEF Fits
<1> QED
  BY <1>2, <1>4, <1>5 DEF IntactInv

\* What is under way is lost with the link, and a frame that was not damaged by
\* it was handed on before.
LEMMA ResetConnectionFits == AssemblyInv /\ OrderInv /\ IntactInv /\ ResetConnection => IntactInv'
<1> SUFFICES ASSUME AssemblyInv, OrderInv, IntactInv, ResetConnection PROVE IntactInv'
  OBVIOUS
<1>1. /\ UNCHANGED <<kinds, pos, spliced, buffer, feeding>> /\ Begun' = Begun
      /\ buffer = <<>> /\ wire' = <<>> /\ cut' = NoLine
      /\ damaged' = damaged \cup FramesOf(wire) \cup {cut.frame, cut.inner.frame}
                            \cup {f \in {Begun} \ {0} : pos > 0 /\ ~Finished(f)}
  BY DEF ResetConnection, IntactInv, Begun
<1>2. /\ parser'.out = parser.out /\ \A k \in Parsers : parser'.pend[k] = <<>>
  <2> DEFINE q == [FreshState EXCEPT !.out = parser.out]
  <2>1. q.pend = [k \in Parsers |-> <<>>] /\ q.out = parser.out
    BY DEF FreshState
  <2> HIDE DEF q
  <2>2. parser' = q
    BY DEF ResetConnection, q
  <2> QED
    BY <2>1, <2>2
<1>3. \A k \in Parsers : Len(parser'.pend[k]) = 0
  BY <1>2
<1>4. Stream = wire /\ Stream' = <<>> /\ Len(Stream') = 0
  <2>1. <<>> \o wire = wire
    <3> HIDE DEF LineType
    <3>1. wire \in Seq(LineType)
      BY StreamTyped
    <3> QED
      BY <3>1
  <2>2. <<>> \o <<>> = <<>>
    OBVIOUS
  <2>3. Stream' = <<>>
    BY <1>1, <2>2 DEF Stream
  <2>4. Len(Stream') = 0
    BY <2>3
  <2> QED
    BY <1>1, <2>1, <2>3, <2>4 DEF Stream
<1>5. AllBegun'
  <2>1. Begins(NoLine, Begun)
    BY StreamTyped, NoLineIs DEF Begins
  <2>2. Begins(cut', Begun')
    BY <1>1, <2>1
  <2>3. \A i \in 1 .. 0 : FALSE
    OBVIOUS
  <2> QED
    BY <1>3, <1>4, <2>2, <2>3 DEF AllBegun, Begins
<1>6. ASSUME NEW f \in 1 .. Begun, Intact(f)'
      PROVE  Fits(f)'
  <2> DEFINE kind == kinds[f]
             size == Size(kind, f)
  <2>1. Intact(f) /\ Fits(f) /\ f \notin damaged'
    BY <1>1, <1>6 DEF IntactInv, Intact
  <2>2. /\ kind \in Headers /\ f \in 1 .. MaxFrames /\ f \in 0 .. MaxFrames /\ Sent(f)' = Sent(f)
        /\ Sent(f) \in 0 .. size /\ (f # Begun => Sent(f) = size) /\ (Finished(f) <=> Sent(f) = size)
    BY <1>1, FrameKnown DEF Sent
  <2>3. size \in Nat /\ size > 2 /\ Len(Body(kind, f)) = size - 1
    BY <2>2, SizeIs
  <2>4. \A i \in 1 .. Len(Stream) : ~Names(Stream[i], f)
    BY <1>1, <1>4, <2>1 DEF FramesOf, Names
  <2>5. Sent(f) = 0 \/ Sent(f) = size
    <3>1. CASE f = Begun
      <4>1. f \in {Begun} \ {0}
        BY <3>1
      <4>2. ~(pos > 0 /\ ~Finished(f))
        BY <1>1, <2>1, <3>1, <4>1
      <4>3. Sent(f) = pos /\ pos \in Nat
        BY <3>1, StreamTyped DEF Sent
      <4> QED
        BY <2>2, <4>2, <4>3
    <3> QED
      BY <2>2, <3>1
  <2>6. \A n : Holds(parser, kind, f, n) => Sent(f) = 0
    <3> SUFFICES ASSUME NEW n, Holds(parser, kind, f, n) PROVE Sent(f) = 0
      OBVIOUS
    <3>1. n \in 1 .. Len(Body(kind, f))
      BY DEF Holds
    <3>2. n \in 1 .. size /\ n # size /\ n + 1 \in 1 .. size
      BY <2>3, <3>1
    <3>3. Continues(Stream, 1, kind, f, n, Sent(f))
      BY <2>1, <3>2 DEF Fits, ParserFits
    <3>4. ~NextUp(Stream, 1, kind, f, n + 1)
      BY <2>2, <2>4, <3>2, BearsOne DEF NextUp
    <3>5. n = Sent(f)
      BY <3>2, <3>3, <3>4 DEF Continues
    <3> QED
      BY <2>5, <3>2, <3>5
  <2>7. Sent(f) > 0 => HandedOn(parser, kind, f)
    <3> SUFFICES ASSUME Sent(f) > 0 PROVE HandedOn(parser, kind, f)
      OBVIOUS
    <3>1. \A n : ~Holds(parser, kind, f, n)
      BY <2>6
    <3>2. 1 \in 1 .. size
      BY <2>3
    <3>3. \A i \in 1 .. Len(Stream) : ~Bears(Stream[i], kind, f, 1)
      BY <2>2, <2>4, <3>2, BearsOne
    <3> QED
      BY <2>1, <3>1, <3>3 DEF Fits, ParserFits
  <2>8. \A n : ~Holds(parser', kind, f, n)
    <3>1. Len(parser'.pend[Owner(kind)]) = 0
      BY <1>3, <2>2, OwnerIs
    <3> QED
      BY <3>1 DEF Holds
  <2>9. HandedOn(parser', kind, f) <=> HandedOn(parser, kind, f)
    BY <1>2 DEF HandedOn
  <2>10. \A i \in 1 .. 0 : FALSE
    OBVIOUS
  <2> HIDE DEF kind, size
  <2>11. WireFits(Stream', kind, f, Sent(f))
    BY <1>4, <2>10 DEF WireFits
  <2>12. ParserFits(parser', Stream', kind, f, Sent(f))
    BY <1>4, <2>7, <2>8, <2>9, <2>10 DEF ParserFits
  <2>13. CutFits(NoLine, kind, f, Sent(f))
    <3>1. f # 0
      OBVIOUS
    <3> QED
      BY <3>1, NoLineIs DEF CutFits, Names
  <2> QED
    BY <1>1, <2>2, <2>11, <2>12, <2>13, FitsNext DEF kind
<1> QED
  BY <1>1, <1>5, <1>6 DEF IntactInv

-----------------------------------------------------------------------------
(* The invariant                                                            *)

LEMMA IntactInit == Init => IntactInv
<1> SUFFICES ASSUME Init PROVE IntactInv
  OBVIOUS
<1>1. /\ buffer = <<>> /\ Begun = 0 /\ cut = NoLine /\ parser.pend = [k \in Parsers |-> <<>>]
      /\ wire = <<>>
  BY DEF Init, FreshState, Begun
<1>2. Len(Stream) = 0 /\ \A k \in Parsers : Len(parser.pend[k]) = 0
  <2>1. <<>> \o <<>> = <<>>
    OBVIOUS
  <2>2. Stream = <<>>
    BY <1>1, <2>1 DEF Stream
  <2> QED
    BY <1>1, <2>2
<1>3. \A i \in 1 .. 0 : FALSE
  OBVIOUS
<1>4. AllBegun
  BY <1>1, <1>2, <1>3, NoLineIs DEF AllBegun, Begins
<1> QED
  BY <1>1, <1>3, <1>4 DEF IntactInv

LEMMA IntactKept == AssemblyInv /\ OrderInv /\ IntactInv /\ [Next]_vars => IntactInv'
<1> SUFFICES ASSUME AssemblyInv, OrderInv, IntactInv, [Next]_vars PROVE IntactInv'
  OBVIOUS
<1>1. CASE Next
  BY <1>1, BeginFits, SendFits, DamageFits, CutShortFits, LoseFits, LogFits,
     ReceiveFits, FeedNextFits, EndChunkFits, ResetConnectionFits DEF Next
<1>2. CASE UNCHANGED vars
  BY <1>2 DEF vars, IntactInv, AllBegun, Begins, Begun, Stream, Intact, Sent, Fits
<1> QED
  BY <1>1, <1>2

\* With nothing under way an intact frame that is finished was handed on.
LEMMA SettledHandedOn ==
  ASSUME AssemblyInv, IntactInv, Settled, NEW f \in 1 .. Begun, Finished(f), Intact(f)
  PROVE  HandedOn(parser, kinds[f], f)
<1> DEFINE kind == kinds[f]
           size == Size(kind, f)
<1>1. /\ kind \in Headers /\ f \in 1 .. MaxFrames /\ f \in 0 .. MaxFrames
      /\ Sent(f) = size
  BY FrameKnown
<1>2. size \in Nat /\ size > 2 /\ Len(Body(kind, f)) = size - 1
  BY <1>1, SizeIs
<1>3. Len(Stream) = 0
  <2>1. <<>> \o <<>> = <<>>
    OBVIOUS
  <2>2. Stream = <<>>
    BY <2>1 DEF Stream, Settled
  <2> QED
    BY <2>2
<1>4. Fits(f)
  BY DEF IntactInv
<1>5. ASSUME NEW n, Holds(parser, kind, f, n)
      PROVE  FALSE
  <2>1. n \in 1 .. Len(Body(kind, f))
    BY <1>5 DEF Holds
  <2>2. n \in 1 .. size /\ n # size
    BY <1>2, <2>1
  <2>3. Continues(Stream, 1, kind, f, n, size)
    BY <1>1, <1>4, <1>5, <2>2 DEF Fits, ParserFits
  <2>4. ~NextUp(Stream, 1, kind, f, n + 1)
    <3>1. \A j \in 1 .. 0 : FALSE
      OBVIOUS
    <3> QED
      BY <1>3, <3>1 DEF NextUp
  <2> QED
    BY <2>2, <2>3, <2>4 DEF Continues
<1>6. \A i \in 1 .. 0 : FALSE
  OBVIOUS
<1>7. Sent(f) > 0
  BY <1>1, <1>2
<1> QED
  BY <1>3, <1>4, <1>5, <1>6, <1>7 DEF Fits, ParserFits

\* A frame whose own lines all arrived is delivered, whatever was lost, damaged,
\* cut or logged before it, and however its lines were split into chunks.
THEOREM IntactFramesDelivered == Spec => []IntactDelivered
<1>1. AssemblyInv /\ IntactInv => IntactDelivered
  <2> SUFFICES ASSUME AssemblyInv, IntactInv, Settled, NEW f \in 1 .. Begun, Finished(f),
                      f \notin damaged, ~(f \in spliced /\ kinds[f] = "M")
               PROVE  f \in Delivered
    BY DEF IntactDelivered
  <2>1. HandedOn(parser, kinds[f], f)
    BY SettledHandedOn DEF Intact
  <2>2. PICK i \in 1 .. Len(parser.out) : parser.out[i] = Body(kinds[f], f)
    BY <2>1 DEF HandedOn
  <2>3. FrameOf(parser.out[i]) = f
    BY <2>2, FrameOfBody
  <2> QED
    BY <2>3 DEF Delivered
<1>2. Spec => []AssemblyInv
  BY InvariantHolds
<1>3. Spec => []OrderInv
  BY OrderHolds
<1>4. Spec => []IntactInv
  BY <1>2, <1>3, IntactInit, IntactKept, PTL DEF Spec
<1> QED
  BY <1>1, <1>2, <1>4, PTL
===============================================================================
