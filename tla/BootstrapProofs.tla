---------------------------- MODULE BootstrapProofs ----------------------------
(***************************************************************************)
(* Proofs about Bootstrap: connecting to a device never overwrites its     *)
(* measurement settings (NeverOverwrites), the state stays within its      *)
(* domain (TypeOK), a completed bootstrap shows the boot of the device     *)
(* (KnowsTheBoot), preferences reported as COMPLETE are those of the       *)
(* device (CompleteMeansApplied), and in silence the host knows the device *)
(* (KnowsTheDevice), if no link comes up before what is left of the one    *)
(* before has been handled (Drained).                                      *)
(***************************************************************************)
EXTENDS Bootstrap, SequenceTheorems, TLAPS

-----------------------------------------------------------------------------
(* The questions.                                                          *)

AllQuestions ==
  {"PROTO?", "BUILD?", "BOOT?", "READY?", "STATE?", "ROWS?", "ROWMODES?", "FDCISO?", "BAT?",
   "RAIL?", "CAL?", "ST=AUTO", "USBSTREAM?", "BTX?"}

LEMMA UnlessType == \A q \in AllQuestions : Unless(q) \in Seq(AllQuestions)
  BY DEF Unless

Elements(q) == {q[i] : i \in DOMAIN q}

LEMMA ElementsConcat ==
  ASSUME NEW S, NEW q \in Seq(S), NEW r \in Seq(S)
  PROVE  q \o r \in Seq(S) /\ Elements(q \o r) = Elements(q) \cup Elements(r)
<1>1. /\ DOMAIN q = 1 .. Len(q) /\ DOMAIN r = 1 .. Len(r) /\ Len(q) \in Nat /\ Len(r) \in Nat
      /\ q \o r \in Seq(S) /\ DOMAIN (q \o r) = 1 .. Len(q) + Len(r)
      /\ \A i \in 1 .. Len(q) + Len(r) : (q \o r)[i] = IF i <= Len(q) THEN q[i] ELSE r[i - Len(q)]
  BY ConcatProperties, LenProperties
<1>2. \A i \in 1 .. Len(q) + Len(r) : (q \o r)[i] \in Elements(q) \cup Elements(r)
  <2>1. \A i \in 1 .. Len(q) + Len(r) : IF i <= Len(q) THEN i \in 1 .. Len(q) ELSE i - Len(q) \in 1 .. Len(r)
    BY <1>1
  <2> QED BY <1>1, <2>1 DEF Elements
<1>3. \A i \in 1 .. Len(q) : q[i] \in Elements(q \o r)
  <2>1. \A i \in 1 .. Len(q) : i \in 1 .. Len(q) + Len(r) /\ i <= Len(q)
    BY <1>1
  <2> QED BY <1>1, <2>1 DEF Elements
<1>4. \A i \in 1 .. Len(r) : r[i] \in Elements(q \o r)
  <2>1. \A i \in 1 .. Len(r) : Len(q) + i \in 1 .. Len(q) + Len(r) /\ ~(Len(q) + i <= Len(q))
                               /\ (Len(q) + i) - Len(q) = i
    BY <1>1
  <2>2. \A i \in 1 .. Len(r) : (q \o r)[Len(q) + i] = r[i]
    BY <1>1, <2>1
  <2> QED BY <1>1, <2>1, <2>2 DEF Elements
<1> QED BY <1>1, <1>2, <1>3, <1>4 DEF Elements

LEMMA ChainType == Chain \in Seq(AllQuestions) /\ {"PROTO?", "READY?"} \subseteq Elements(Chain)
<1> DEFINE S == Seq(AllQuestions)
           end == CASE Source = "serial" -> <<"USBSTREAM?">> [] Source = "ble" -> <<"BTX?">> [] OTHER -> <<>>
           four == <<"BOOT?", "READY?", "STATE?", "ROWS?">>
           q1 == <<"PROTO?">>
           q2 == q1 \o Unless("BUILD?")
           q3 == q2 \o four
           q4 == q3 \o <<"ROWMODES?">>
           q5 == q4 \o Unless("FDCISO?")
           q6 == q5 \o Unless("BAT?")
           q7 == q6 \o Unless("RAIL?")
           q8 == q7 \o Unless("CAL?")
           q9 == q8 \o Unless("ST=AUTO")
<1>1. \A q, r \in S : q \o r \in S /\ Elements(q \o r) = Elements(q) \cup Elements(r)
  BY ElementsConcat
<1>2. /\ Unless("BUILD?") \in S /\ Unless("FDCISO?") \in S /\ Unless("BAT?") \in S
      /\ Unless("RAIL?") \in S /\ Unless("CAL?") \in S /\ Unless("ST=AUTO") \in S
  BY UnlessType DEF AllQuestions
<1>3. q1 \in S /\ "PROTO?" \in Elements(q1)
  <2>1. q1 \in S /\ Len(q1) = 1 /\ q1[1] = "PROTO?"
    BY DEF AllQuestions
  <2>2. DOMAIN q1 = 1 .. 1 /\ 1 \in 1 .. 1
    BY <2>1, LenProperties
  <2> QED BY <2>1, <2>2 DEF Elements
<1>4. four \in S /\ "READY?" \in Elements(four)
  <2>1. four \in S
    BY DEF AllQuestions
  <2>2. Len(four) = 4 /\ four[2] = "READY?"
    OBVIOUS
  <2>3. DOMAIN four = 1 .. 4 /\ 2 \in 1 .. 4
    BY <2>1, <2>2, LenProperties
  <2> QED BY <2>1, <2>2, <2>3 DEF Elements
<1>5. <<"ROWMODES?">> \in S
  BY DEF AllQuestions
<1>6. end \in S
  <2>1. <<"USBSTREAM?">> \in S /\ <<"BTX?">> \in S /\ <<>> \in S
    BY DEF AllQuestions
  <2>2. end = <<"USBSTREAM?">> \/ end = <<"BTX?">> \/ end = <<>>
    OBVIOUS
  <2> QED BY <2>1, <2>2
<1>7. Chain = q9 \o end
  BY DEF Chain, AskedOf
<1> HIDE DEF S, end, q1, four
<1>8. q4 \in S /\ {"PROTO?", "READY?"} \subseteq Elements(q4)
  <2>1. q2 \in S /\ "PROTO?" \in Elements(q2)
    BY <1>1, <1>2, <1>3
  <2> HIDE DEF q2
  <2>2. q3 \in S /\ {"PROTO?", "READY?"} \subseteq Elements(q3)
    BY <1>1, <1>4, <2>1
  <2> HIDE DEF q3
  <2> QED BY <1>1, <1>5, <2>2
<1> HIDE DEF q4
<1>9. q9 \in S /\ {"PROTO?", "READY?"} \subseteq Elements(q9)
  <2>1. q6 \in S /\ {"PROTO?", "READY?"} \subseteq Elements(q6)
    BY <1>1, <1>2, <1>8
  <2> HIDE DEF q6
  <2>2. q8 \in S /\ {"PROTO?", "READY?"} \subseteq Elements(q8)
    BY <1>1, <1>2, <2>1
  <2> HIDE DEF q8
  <2> QED BY <1>1, <1>2, <2>2
<1> HIDE DEF q9
<1>10. Chain \in S /\ {"PROTO?", "READY?"} \subseteq Elements(Chain)
  BY <1>1, <1>6, <1>7, <1>9
<1> QED BY <1>10 DEF S

\* Every question but the last is followed by one.
LEMMA QuestionsAreAsked ==
  /\ Questions \subseteq AllQuestions
  /\ "PROTO?" \in Questions /\ "READY?" \in Questions
  /\ \A q \in Questions : q # Last => Follows(q) \in Questions
<1>1. DOMAIN Chain = 1 .. Len(Chain) /\ Len(Chain) \in Nat
      /\ \A i \in 1 .. Len(Chain) : Chain[i] \in AllQuestions
  BY ChainType, LenProperties, ElementOfSeq
<1>2. ASSUME NEW q \in Questions, q # Last
      PROVE  Follows(q) \in Questions
  <2> DEFINE i == CHOOSE i \in DOMAIN Chain : Chain[i] = q
  <2>1. i \in DOMAIN Chain /\ Chain[i] = q
    BY <1>2 DEF Questions
  <2>2. i # Len(Chain)
    BY <1>2, <2>1 DEF Last
  <2> HIDE DEF i
  <2>3. 1 + i \in DOMAIN Chain
    BY <1>1, <2>1, <2>2
  <2>4. Follows(q) = Chain[1 + i]
    BY DEF Follows, i
  <2> QED BY <2>3, <2>4 DEF Questions
<1>3. Questions \subseteq AllQuestions
  BY <1>1 DEF Questions
<1>4. "PROTO?" \in Questions /\ "READY?" \in Questions
  BY ChainType DEF Questions, Elements
<1> QED BY <1>2, <1>3, <1>4

-----------------------------------------------------------------------------
(* What is sent.                                                           *)

\* A sequence of whatever values.
IsSeq(q) == \E S : q \in Seq(S)

LEMMA SeqExtended ==
  ASSUME NEW q, IsSeq(q), NEW x
  PROVE  /\ IsSeq(Append(q, x)) /\ Len(q) \in Nat /\ Len(Append(q, x)) = Len(q) + 1
         /\ \A i \in 1 .. Len(q) : Append(q, x)[i] = q[i]
         /\ Append(q, x)[Len(q) + 1] = x
<1>1. PICK S : q \in Seq(S)
  BY DEF IsSeq
<1> DEFINE T == S \cup {x}
<1>2. q \in Seq(T) /\ x \in T
  BY <1>1, SeqMonotonic
<1> HIDE DEF T
<1>3. /\ Append(q, x) \in Seq(T) /\ Len(q) \in Nat /\ Len(Append(q, x)) = Len(q) + 1
      /\ \A i \in 1 .. Len(q) : Append(q, x)[i] = q[i]
      /\ Append(q, x)[Len(q) + 1] = x
  BY <1>2, LenProperties
<1> QED BY <1>3 DEF IsSeq

LEMMA SeqJoined ==
  ASSUME NEW q, NEW r, IsSeq(q), IsSeq(r)
  PROVE  /\ IsSeq(q \o r) /\ Len(q) \in Nat /\ Len(r) \in Nat /\ Len(q \o r) = Len(q) + Len(r)
         /\ \A i \in 1 .. Len(q) + Len(r) : (q \o r)[i] = IF i <= Len(q) THEN q[i] ELSE r[i - Len(q)]
<1>1. PICK S : q \in Seq(S)
  BY DEF IsSeq
<1>2. PICK T : r \in Seq(T)
  BY DEF IsSeq
<1> DEFINE U == S \cup T
<1>3. q \in Seq(U) /\ r \in Seq(U)
  BY <1>1, <1>2, SeqMonotonic
<1> HIDE DEF U
<1> QED BY <1>3, ConcatProperties, LenProperties DEF IsSeq

LEMMA SeqTail ==
  ASSUME NEW q, IsSeq(q), q # <<>>
  PROVE  /\ IsSeq(Tail(q)) /\ Len(q) \in Nat \ {0} /\ Len(Tail(q)) = Len(q) - 1 /\ Head(q) = q[1]
         /\ \A i \in 1 .. Len(Tail(q)) : i + 1 \in 1 .. Len(q) /\ Tail(q)[i] = q[i + 1]
<1>1. PICK S : q \in Seq(S)
  BY DEF IsSeq
<1>2. Tail(q) \in Seq(S) /\ Len(q) \in Nat \ {0} /\ Len(Tail(q)) = Len(q) - 1 /\ Head(q) = q[1]
  BY <1>1, EmptySeq, HeadTailProperties
<1>3. \A i \in 1 .. Len(Tail(q)) : i + 1 \in 1 .. Len(q) /\ Tail(q)[i] = q[i + 1]
  BY <1>1, <1>2, HeadTailProperties
<1> QED BY <1>2, <1>3 DEF IsSeq

LEMMA SeqCut ==
  ASSUME NEW q, IsSeq(q), NEW n \in 0 .. Len(q)
  PROVE  /\ IsSeq(SubSeq(q, 1, n)) /\ Len(SubSeq(q, 1, n)) = n
         /\ \A i \in 1 .. n : i \in 1 .. Len(q) /\ SubSeq(q, 1, n)[i] = q[i]
<1>1. PICK S : q \in Seq(S)
  BY DEF IsSeq
<1>2. Len(q) \in Nat /\ n \in Int /\ \A i \in 1 .. n : i \in 1 .. Len(q)
  BY <1>1, LenProperties
<1>3. \A i \in 1 .. n : q[i] \in S
  BY <1>1, <1>2, ElementOfSeq
<1>4. /\ SubSeq(q, 1, n) \in Seq(S)
      /\ Len(SubSeq(q, 1, n)) = IF 1 <= n THEN n - 1 + 1 ELSE 0
      /\ \A i \in 1 .. n - 1 + 1 : SubSeq(q, 1, n)[i] = q[1 + i - 1]
  BY <1>2, <1>3, SubSeqProperties
<1>5. Len(SubSeq(q, 1, n)) = n /\ \A i \in 1 .. n : SubSeq(q, 1, n)[i] = q[i]
  BY <1>2, <1>4
<1> QED BY <1>2, <1>4, <1>5 DEF IsSeq

LEMMA EmptyIsSeq == IsSeq(<<>>) /\ Len(<<>>) = 0
<1>1. <<>> \in Seq({})
  OBVIOUS
<1> QED BY <1>1 DEF IsSeq

\* Commands that change measurement settings are among them only if p.
Tame(q, p) == IsSeq(q) /\ \A i \in 1 .. Len(q) : Measured(q[i]) => p

LEMMA TameAppend ==
  ASSUME NEW p \in BOOLEAN, NEW q, Tame(q, p), NEW c, Measured(c) => p
  PROVE  Tame(Append(q, c), p)
<1>1. /\ IsSeq(Append(q, c)) /\ Len(q) \in Nat /\ Len(Append(q, c)) = Len(q) + 1
      /\ \A i \in 1 .. Len(q) : Append(q, c)[i] = q[i]
      /\ Append(q, c)[Len(q) + 1] = c
  BY SeqExtended DEF Tame
<1>2. \A i \in 1 .. Len(q) + 1 : i \in 1 .. Len(q) \/ i = Len(q) + 1
  BY <1>1
<1> QED BY <1>1, <1>2 DEF Tame

LEMMA TameJoined ==
  ASSUME NEW p \in BOOLEAN, NEW q, NEW r, Tame(q, p), Tame(r, p)
  PROVE  Tame(q \o r, p)
<1>1. /\ IsSeq(q \o r) /\ Len(q) \in Nat /\ Len(r) \in Nat /\ Len(q \o r) = Len(q) + Len(r)
      /\ \A i \in 1 .. Len(q) + Len(r) : (q \o r)[i] = IF i <= Len(q) THEN q[i] ELSE r[i - Len(q)]
  BY SeqJoined DEF Tame
<1>2. \A i \in 1 .. Len(q) + Len(r) : IF i <= Len(q) THEN i \in 1 .. Len(q) ELSE i - Len(q) \in 1 .. Len(r)
  BY <1>1
<1> QED BY <1>1, <1>2 DEF Tame

LEMMA TameTail ==
  ASSUME NEW p \in BOOLEAN, NEW q, Tame(q, p), q # <<>>
  PROVE  Tame(Tail(q), p)
  BY SeqTail DEF Tame

LEMMA TameEmpty == \A p : Tame(<<>>, p)
  BY EmptyIsSeq DEF Tame

LEMMA TameMore ==
  ASSUME NEW p \in BOOLEAN, NEW r \in BOOLEAN, NEW q, Tame(q, p), p => r
  PROVE  Tame(q, r)
  BY DEF Tame

-----------------------------------------------------------------------------
(* The host.                                                               *)

\* The fields of the host that the property depends on.
Fields(h) ==
  /\ "ask" \in DOMAIN h /\ "bootId" \in DOMAIN h /\ "bootChanged" \in DOMAIN h
  /\ "restore" \in DOMAIN h /\ "resume" \in DOMAIN h /\ "sent" \in DOMAIN h
  /\ h.bootChanged \in BOOLEAN /\ h.restore \in BOOLEAN /\ h.resume \in BOOLEAN
  /\ h.ask \in Questions \cup {None}

\* h restores settings only if the device has restarted (ok) and resuming is on; b
\* is the boot it knows, and on whether resuming is.
Fit(h, ok, b, on) ==
  /\ Fields(h) /\ h.bootId = b /\ h.resume = on
  /\ h.bootChanged => ok
  /\ h.restore => ok /\ on
  /\ Tame(h.sent, ok /\ on)

\* g differs from h in what is outstanding and in what is shown.
Like(g, h) ==
  /\ Fields(g)
  /\ g.bootId = h.bootId /\ g.bootChanged = h.bootChanged /\ g.restore = h.restore
  /\ g.resume = h.resume /\ g.sent = h.sent

LEMMA LikeFit ==
  ASSUME NEW ok, NEW b, NEW on, NEW h, Fit(h, ok, b, on), NEW g, Like(g, h)
  PROVE  Fit(g, ok, b, on) /\ g.resume = h.resume
  BY DEF Like, Fit

LEMMA FitMore ==
  ASSUME NEW ok \in BOOLEAN, NEW more \in BOOLEAN, ok => more, NEW b, NEW on, NEW h, Fit(h, ok, b, on)
  PROVE  Fit(h, more, b, on)
<1>1. (ok /\ h.resume) \in BOOLEAN /\ (more /\ h.resume) \in BOOLEAN
  OBVIOUS
<1>2. Tame(h.sent, more /\ h.resume)
  BY <1>1, TameMore DEF Fit
<1> QED BY <1>2 DEF Fit

LEMMA WrittenFit ==
  ASSUME NEW ok \in BOOLEAN, NEW b, NEW on, NEW h, Fit(h, ok, b, on), NEW c, Measured(c) => ok /\ h.resume,
         NEW g \in Written(h, c)
  PROVE  Fit(g, ok, b, on) /\ g.resume = h.resume
<1>1. g = [h EXCEPT !.sent = Append(@, c)]
  BY DEF Written
<1>2. /\ Fields(g) /\ g.bootId = h.bootId /\ g.bootChanged = h.bootChanged
      /\ g.restore = h.restore /\ g.resume = h.resume /\ g.sent = Append(h.sent, c)
  BY <1>1 DEF Fit, Fields
<1>3. (ok /\ h.resume) \in BOOLEAN
  OBVIOUS
<1>4. Tame(g.sent, ok /\ h.resume)
  BY <1>2, <1>3, TameAppend DEF Fit
<1> QED BY <1>2, <1>4 DEF Fit

\* A question changes no settings.
LEMMA SendQueryFit ==
  ASSUME NEW ok \in BOOLEAN, NEW b, NEW on, NEW h, Fit(h, ok, b, on), NEW q \in Questions, NEW n,
         NEW g \in SendQuery(h, q, n)
  PROVE  Fit(g, ok, b, on)
<1> DEFINE asked == [h EXCEPT !.ask = q, !.waiting = FALSE, !.retries = n]
<1>1. Like(asked, h)
  BY DEF Fit, Fields, Like
<1>2. Fit(asked, ok, b, on)
  BY <1>1, LikeFit
<1>3. ~Measured(Command(q, None))
  BY QuestionsAreAsked DEF Measured, Command, Kinds, AllQuestions
<1>4. CASE g \in Written(asked, Command(q, None))
  BY <1>2, <1>3, <1>4, WrittenFit
<1>5. CASE g = asked
  BY <1>2, <1>5
<1>6. CASE g = Failed(h, "FAILED")
  <2>1. Like(g, h)
    BY <1>6 DEF Failed, Fit, Fields, Like
  <2> QED BY <2>1, LikeFit
<1> QED BY <1>4, <1>5, <1>6 DEF SendQuery

LEMMA AskFit ==
  ASSUME NEW ok \in BOOLEAN, NEW b, NEW on, NEW h, Fit(h, ok, b, on), NEW k \in DOMAIN Waiting,
         k \in Kinds => h.restore, NEW g \in Ask(h, k)
  PROVE  Fit(g, ok, b, on)
<1> DEFINE c == Command(k, h.want[k])
           begun == IF k = "usb" THEN h
                    ELSE [h EXCEPT !.pending[k] = h.want[k], !.req[k] = None]
           failed == [begun EXCEPT !.pref = "ERROR"]
           refused == IF k = "usb" THEN failed ELSE [failed EXCEPT !.pending[k] = None]
           waits == [begun EXCEPT !.pref = Waiting[k]]
           rejected == [h EXCEPT !.pref = "ERROR"]
<1>1. Like(begun, h)
  BY DEF Fit, Fields, Like
<1> HIDE DEF begun
<1>2. Like(waits, h) /\ Like(failed, h)
  BY <1>1 DEF Fields, Like
<1> HIDE DEF failed, waits
<1>3. Like(refused, h)
  BY <1>2 DEF Fields, Like
<1>4. Like(rejected, h)
  BY DEF Fit, Fields, Like
<1> HIDE DEF refused, rejected
<1>5. /\ Fit(waits, ok, b, on) /\ Fit(failed, ok, b, on) /\ Fit(refused, ok, b, on) /\ Fit(rejected, ok, b, on)
      /\ waits.resume = h.resume /\ failed.resume = h.resume
  BY <1>2, <1>3, <1>4, LikeFit
<1>6. Measured(c) => ok /\ h.resume
  BY DEF Measured, Command, Fit
<1>7. g \in Written(waits, c) \/ g \in Written(failed, c) \/ g \in {failed, refused, rejected}
  BY DEF Ask, begun, failed, refused, waits, rejected
<1> HIDE DEF c
<1>8. CASE g \in Written(waits, c)
  BY <1>5, <1>6, <1>8, WrittenFit
<1>9. CASE g \in Written(failed, c)
  BY <1>5, <1>6, <1>9, WrittenFit
<1> QED BY <1>5, <1>7, <1>8, <1>9

\* The next step of a restore changes settings only while it restores.
LEMMA AdvanceFit ==
  ASSUME NEW ok \in BOOLEAN, NEW b, NEW on, NEW h, Fit(h, ok, b, on), NEW g \in Advance(h)
  PROVE  Fit(g, ok, b, on)
<1> DEFINE d == Decision(h)
<1>1. CASE g = h
  BY <1>1
<1>2. CASE g \in Carry(h, d)
  <2>1. d \in Kinds => h.restore
    BY DEF Decision, Kinds
  <2> HIDE DEF d
  <2>2. CASE d \in DOMAIN Waiting
    <3>1. g \in Ask(h, d)
      BY <1>2, <2>2 DEF Carry
    <3> QED BY <2>1, <2>2, <3>1, AskFit
  <2>3. CASE d \notin DOMAIN Waiting
    <3>1. g = [h EXCEPT !.pref = d]
      BY <1>2, <2>3 DEF Carry
    <3>2. Like(g, h)
      BY <3>1 DEF Fit, Fields, Like
    <3> QED BY <3>2, LikeFit
  <2> QED BY <2>2, <2>3
<1> QED BY <1>1, <1>2 DEF Advance

LEMMA StartedFit ==
  ASSUME NEW ok, NEW b, NEW on, NEW h, Fit(h, ok, b, on), NEW restore \in BOOLEAN, restore => ok /\ h.resume
  PROVE  Fit(Started(h, restore), ok, b, on)
<1> DEFINE g == Started(h, restore)
<1>1. /\ Fields(g) /\ g.bootId = h.bootId /\ g.bootChanged = h.bootChanged
      /\ g.restore = restore /\ g.resume = h.resume /\ g.sent = h.sent
  BY DEF Started, Fit, Fields
<1> QED BY <1>1 DEF Fit

LEMMA BootstrapCompleteFit ==
  ASSUME NEW ok \in BOOLEAN, NEW b, NEW on, NEW h, Fit(h, ok, b, on), NEW g \in OnBootstrapComplete(h)
  PROVE  Fit(g, ok, b, on)
<1> DEFINE disabled == [h EXCEPT !.pref = "DISABLED", !.target = h.bootId, !.restore = FALSE]
           ready == [h EXCEPT !.pref = "READY"]
<1>1. CASE h.bootChanged /\ h.resume
  <2>1. g \in Advance(Started(h, TRUE)) /\ (TRUE => ok /\ h.resume)
    BY <1>1 DEF OnBootstrapComplete, Fit
  <2>2. Fit(Started(h, TRUE), ok, b, on)
    BY <2>1, StartedFit
  <2> QED BY <2>1, <2>2, AdvanceFit
<1>2. Fit(ready, ok, b, on)
  <2>1. Like(ready, h)
    BY DEF Fit, Fields, Like
  <2> QED BY <2>1, LikeFit
<1>3. Fit(disabled, ok, b, on)
  <2>1. /\ Fields(disabled) /\ disabled.bootId = h.bootId /\ disabled.bootChanged = h.bootChanged
        /\ disabled.restore = FALSE /\ disabled.resume = h.resume /\ disabled.sent = h.sent
    BY DEF Fit, Fields
  <2> HIDE DEF disabled
  <2> QED BY <2>1 DEF Fit
<1>4. CASE ~(h.bootChanged /\ h.resume)
  <2> DEFINE d == IF h.bootChanged THEN disabled ELSE h
  <2>1. \/ g \in Advance(ready) \/ g \in Advance(Started(d, FALSE)) \/ g = d
    BY <1>4 DEF OnBootstrapComplete
  <2>2. Fit(d, ok, b, on)
    BY <1>3
  <2> HIDE DEF d, ready
  <2>3. Fit(Started(d, FALSE), ok, b, on)
    BY <2>2, StartedFit
  <2> QED BY <1>2, <2>1, <2>2, <2>3, AdvanceFit
<1> QED BY <1>1, <1>4

LEMMA StartBootstrapFit ==
  ASSUME NEW ok \in BOOLEAN, NEW b, NEW on, NEW h, Fit(h, ok, b, on), NEW g \in StartBootstrap(h)
  PROVE  Fit(g, ok, b, on)
<1> DEFINE fresh == [h EXCEPT !.known = FALSE, !.seen = {}, !.state = "BOOTSTRAPPING", !.ask = None,
                              !.polls = 0, !.usbRead = None]
<1>1. Like(fresh, h)
  BY DEF Fit, Fields, Like
<1>2. g \in SendQuery(fresh, "PROTO?", 0)
  BY DEF StartBootstrap
<1> HIDE DEF fresh
<1>3. Fit(fresh, ok, b, on)
  BY <1>1, LikeFit
<1> QED BY <1>2, <1>3, QuestionsAreAsked, SendQueryFit

LEMMA StopBootstrapFit ==
  ASSUME NEW ok, NEW b, NEW on, NEW h, Fit(h, ok, b, on)
  PROVE  Fit(StopBootstrap(h), ok, b, on)
<1>1. Like(StopBootstrap(h), h)
  BY DEF StopBootstrap, Fit, Fields, Like
<1> QED BY <1>1, LikeFit

LEMMA SynchronizeFit ==
  ASSUME NEW ok \in BOOLEAN, NEW b, NEW on, NEW h, Fit(h, ok, b, on), NEW m, NEW g \in Synchronize(h, m)
  PROVE  Fit(g, ok, b, on)
<1> DEFINE read == IF m.kind = "USBSTREAM?" THEN [h EXCEPT !.usbRead = m.value] ELSE h
           synced == [read EXCEPT !.ask = None, !.state = "SYNCED"]
<1>1. Like(read, h)
  BY DEF Fit, Fields, Like
<1> HIDE DEF read
<1>2. Like(synced, h)
  BY <1>1 DEF Fields, Like
<1> HIDE DEF synced
<1>3. Fit(read, ok, b, on) /\ Fit(synced, ok, b, on)
  BY <1>1, <1>2, LikeFit
<1>4. Like(Failed(h, "INCOMPATIBLE_FIRMWARE"), h) /\ Like(PollLater(h), h)
  BY DEF Failed, PollLater, Fit, Fields, Like
<1>5. \/ g = h \/ g = Failed(h, "INCOMPATIBLE_FIRMWARE") \/ g = PollLater(h)
      \/ g \in OnBootstrapComplete(synced)
      \/ /\ g \in SendQuery(read, Follows(m.kind), 0)
         /\ m.kind = h.ask /\ h.ask # None /\ m.kind # Last
  BY DEF Synchronize, Completed, read, synced
<1>6. CASE g \in SendQuery(read, Follows(m.kind), 0) /\ m.kind = h.ask /\ h.ask # None /\ m.kind # Last
  <2>1. Follows(m.kind) \in Questions
    BY <1>6, QuestionsAreAsked DEF Fit, Fields
  <2> QED BY <1>3, <1>6, <2>1, SendQueryFit
<1>7. CASE g \in OnBootstrapComplete(synced)
  BY <1>3, <1>7, BootstrapCompleteFit
<1> QED BY <1>4, <1>5, <1>6, <1>7, LikeFit

LEMMA ExpiredFit ==
  ASSUME NEW ok \in BOOLEAN, NEW b, NEW on, NEW h, Fit(h, ok, b, on), NEW g \in Expired(h)
  PROVE  Fit(g, ok, b, on)
<1> DEFINE idle == [h EXCEPT !.ask = None]
<1>1. Like(Failed(h, "FAILED"), h) /\ Like(idle, h)
  BY DEF Failed, Fit, Fields, Like
<1> HIDE DEF idle
<1>2. Fit(Failed(h, "FAILED"), ok, b, on) /\ Fit(idle, ok, b, on)
  BY <1>1, LikeFit
<1>3. \/ g = Failed(h, "FAILED")
      \/ g \in SendQuery(idle, h.ask, h.retries + 1) /\ h.ask # None
      \/ g \in SendQuery(h, "READY?", 0)
  BY DEF Expired, idle
<1>4. h.ask # None => h.ask \in Questions
  BY DEF Fit, Fields
<1> QED BY <1>2, <1>3, <1>4, QuestionsAreAsked, SendQueryFit

\* Reports other than of a boot.
LEMMA ServeFit ==
  ASSUME NEW ok \in BOOLEAN, NEW b, NEW on, NEW h, Fit(h, ok, b, on), NEW m, m.kind # "BOOT?",
         NEW g \in Serve(h, m)
  PROVE  Fit(g, ok, b, on)
<1>1. \A k \in Kinds : Like(Applied(h, k, m), h)
  BY DEF Applied, Fit, Fields, Like
<1>2. \A k \in Kinds : Like(Accepted(h, k, m), h)
  BY DEF Accepted, Fit, Fields, Like
<1>3. \A k \in Kinds : Like(Rejected(h, k), h) /\ Like(AfterRejected(Rejected(h, k)), h)
  BY DEF Rejected, AfterRejected, Fit, Fields, Like
<1>4. \A k \in Kinds : Like(ReadBack(h, k, m.value), h)
  BY DEF ReadBack, SyncWith, Fit, Fields, Like
<1>5. Like(h, h) /\ Like(SyncWith(h, "mode"), h) /\ Like(Degraded(h), h)
      /\ Like([h EXCEPT !.usb = m.value], h)
  BY DEF SyncWith, Degraded, Fit, Fields, Like
<1>6. \A x : Like(x, h) => Fit(x, ok, b, on)
  BY LikeFit
<1>7. \A x : Fit(x, ok, b, on) => \A y \in Advance(x) : Fit(y, ok, b, on)
  BY AdvanceFit
<1>8. \/ Like(g, h)
      \/ g \in Advance([h EXCEPT !.usb = m.value])
      \/ \E k \in Kinds : g \in Advance(Applied(h, k, m))
  <2>1. CASE m.kind \in {"STATE?", "ROWS?", "ROWMODES?"}
    <3>1. Serve(h, m) \in {{SyncWith(h, "mode")}, {Degraded(h)}, {ReadBack(h, "rows", m.value)},
                           {ReadBack(h, "modes", m.value)}}
      BY <2>1 DEF Serve
    <3> QED BY <1>4, <1>5, <3>1 DEF Kinds
  <2>2. CASE m.kind = "USBSTREAM?"
    <3>1. g \in UsbReported(h, m.value)
      BY <2>2 DEF Serve
    <3> QED BY <1>5, <3>1 DEF UsbReported
  <2>3. CASE m.kind \in {"RCMD", "RMACK"}
    <3>1. g \in {Accepted(h, "rows", m), Accepted(h, "modes", m)}
      BY <2>3 DEF Serve
    <3> QED BY <1>2, <3>1 DEF Kinds
  <2>4. CASE m.kind \in {"RAPP", "RMAPP"}
    <3>1. g \in AfterApplied(Applied(h, "rows", m)) \cup AfterApplied(Applied(h, "modes", m))
      BY <2>4 DEF Serve
    <3> QED BY <1>1, <3>1 DEF AfterApplied, Kinds
  <2>5. CASE m.kind \in {"ERR", "RMERR"}
    <3>1. g \in {AfterRejected(Rejected(h, "rows")), AfterRejected(Rejected(h, "modes"))}
      BY <2>5 DEF Serve
    <3> QED BY <1>3, <3>1 DEF Kinds
  <2>6. CASE m.kind \notin {"STATE?", "ROWS?", "ROWMODES?", "USBSTREAM?", "RCMD", "RMACK", "RAPP",
                            "RMAPP", "ERR", "RMERR"}
    <3>1. g = h
      BY <2>6 DEF Serve
    <3> QED BY <1>5, <3>1
  <2> QED BY <2>1, <2>2, <2>3, <2>4, <2>5, <2>6
<1> QED BY <1>1, <1>5, <1>6, <1>7, <1>8

\* A boot that differs from the one known is a restart.
LEMMA ObserveBootFit ==
  ASSUME NEW ok \in BOOLEAN, NEW b, NEW on, NEW h, Fit(h, ok, b, on), NEW c, b # None /\ b # c => ok
  PROVE  Fit(ObserveBoot(h, c), ok, c, on)
<1> DEFINE g == ObserveBoot(h, c)
<1>1. /\ Fields(g) /\ g.bootId = c /\ g.bootChanged = (b # None /\ b # c)
      /\ g.restore = h.restore /\ g.resume = h.resume /\ g.sent = h.sent
  <2>1. (h.bootId # None /\ h.bootId # c) \in BOOLEAN
    OBVIOUS
  <2> QED BY <2>1 DEF ObserveBoot, Fit, Fields
<1> HIDE DEF g
<1>2. Fit(g, ok, c, on)
  BY <1>1 DEF Fit
<1> QED BY <1>2 DEF g

-----------------------------------------------------------------------------
(* The reports on their way.                                               *)

IsBoot(m) == m.kind = "BOOT?"

\* The boots they name are in ascending order and between low and high.
Ascending(q, low, high) ==
  /\ IsSeq(q)
  /\ \A i \in 1 .. Len(q) : IsBoot(q[i]) => q[i].value \in low .. high
  /\ \A i, j \in 1 .. Len(q) : i < j /\ IsBoot(q[i]) /\ IsBoot(q[j]) => q[i].value <= q[j].value

LEMMA AscendingAppend ==
  ASSUME NEW low \in Nat, NEW high \in Nat, low <= high, NEW q, Ascending(q, low, high), NEW m,
         IsBoot(m) => m.value = high
  PROVE  Ascending(Append(q, m), low, high)
<1> DEFINE r == Append(q, m)
           n == Len(q) + 1
<1>1. /\ IsSeq(r) /\ Len(q) \in Nat /\ Len(r) = n
      /\ \A i \in 1 .. Len(q) : r[i] = q[i]
      /\ r[n] = m
  BY SeqExtended DEF Ascending
<1> HIDE DEF r
<1>2. \A i \in 1 .. n : i \in 1 .. Len(q) \/ i = n
  BY <1>1
<1>3. \A i, j \in 1 .. n : i < j => i \in 1 .. Len(q)
  BY <1>1
<1>4. \A i \in 1 .. n : IsBoot(r[i]) => r[i].value \in low .. high
  BY <1>1, <1>2 DEF Ascending
<1>5. ASSUME NEW i \in 1 .. n, NEW j \in 1 .. n, i < j, IsBoot(r[i]), IsBoot(r[j])
      PROVE  r[i].value <= r[j].value
  <2>1. CASE j = n
    <3>1. r[j].value = high /\ r[i].value \in low .. high
      BY <1>1, <1>4, <1>5, <2>1
    <3> QED BY <3>1
  <2>2. CASE j \in 1 .. Len(q)
    <3>1. i \in 1 .. Len(q)
      BY <1>3, <1>5
    <3>2. r[i] = q[i] /\ r[j] = q[j]
      BY <1>1, <2>2, <3>1
    <3> QED BY <1>5, <2>2, <3>1, <3>2 DEF Ascending
  <2> QED BY <1>2, <2>1, <2>2
<1> QED BY <1>1, <1>4, <1>5 DEF Ascending, r

LEMMA AscendingTail ==
  ASSUME NEW low \in Nat, NEW high \in Nat, NEW q, Ascending(q, low, high), q # <<>>
  PROVE  /\ Ascending(Tail(q), low, high)
         /\ IsBoot(Head(q)) => /\ Head(q).value \in low .. high
                               /\ Ascending(Tail(q), Head(q).value, high)
<1> DEFINE r == Tail(q)
<1>1. /\ IsSeq(r) /\ Len(q) \in Nat \ {0} /\ Len(r) = Len(q) - 1 /\ Head(q) = q[1]
      /\ \A i \in 1 .. Len(r) : i + 1 \in 1 .. Len(q) /\ r[i] = q[i + 1]
  BY SeqTail DEF Ascending
<1>2. \A i \in 1 .. Len(r) : IsBoot(r[i]) => r[i].value \in low .. high
  BY <1>1 DEF Ascending
<1>3. \A i, j \in 1 .. Len(r) : i < j /\ IsBoot(r[i]) /\ IsBoot(r[j]) => r[i].value <= r[j].value
  <2>1. \A i, j \in 1 .. Len(r) : i < j => i + 1 < j + 1
    OBVIOUS
  <2> QED BY <1>1, <2>1 DEF Ascending
<1>4. 1 \in 1 .. Len(q) /\ \A i \in 1 .. Len(r) : 1 < i + 1
  BY <1>1
<1>5. ASSUME IsBoot(Head(q))
      PROVE  /\ Head(q).value \in low .. high
             /\ \A i \in 1 .. Len(r) : IsBoot(r[i]) => r[i].value \in Head(q).value .. high
  <2>1. Head(q).value \in low .. high
    BY <1>1, <1>4, <1>5 DEF Ascending
  <2>2. \A i \in 1 .. Len(r) : IsBoot(r[i]) => Head(q).value <= r[i].value
    BY <1>1, <1>4, <1>5 DEF Ascending
  <2> QED BY <1>2, <2>1, <2>2
<1> QED BY <1>1, <1>2, <1>3, <1>5 DEF Ascending

LEMMA AscendingCut ==
  ASSUME NEW low, NEW high, NEW q, Ascending(q, low, high), NEW n \in 0 .. Len(q)
  PROVE  Ascending(SubSeq(q, 1, n), low, high)
  BY SeqCut DEF Ascending

LEMMA AscendingHigher ==
  ASSUME NEW low \in Nat, NEW high \in Nat, NEW more \in Nat, high <= more, NEW q,
         Ascending(q, low, high)
  PROVE  Ascending(q, low, more)
<1>1. \A v \in low .. high : v \in low .. more
  OBVIOUS
<1> QED BY <1>1 DEF Ascending

\* The reports of a transaction.
Announced == {"RCMD", "RAPP", "RMACK", "RMAPP", "USBSTREAM?"}

LEMMA TransactionIs ==
  ASSUME NEW k, NEW v
  PROVE  IsSeq(Transaction(k, v)) /\ \A i \in 1 .. Len(Transaction(k, v)) : Transaction(k, v)[i].kind \in Announced
<1> DEFINE r == Transaction(k, v)
<1>1. ASSUME NEW x, NEW y, x.kind \in Announced, y.kind \in Announced, r = <<x, y>> \/ r = <<x>>
      PROVE  IsSeq(r) /\ \A i \in 1 .. Len(r) : r[i].kind \in Announced
  <2>1. r \in Seq({x, y})
    <3>1. <<x, y>> \in Seq({x, y}) /\ <<x>> \in Seq({x, y})
      OBVIOUS
    <3> HIDE DEF r
    <3> QED BY <1>1, <3>1
  <2>2. \A i \in 1 .. Len(r) : r[i] \in {x, y}
    BY <2>1, ElementOfSeq
  <2> QED BY <1>1, <2>1, <2>2 DEF IsSeq
<1>2. \A kind \in Announced : \A id, old : Report(kind, v, id, old).kind \in Announced
  BY DEF Report
<1>3. \E x, y : x.kind \in Announced /\ y.kind \in Announced /\ (r = <<x, y>> \/ r = <<x>>)
  <2> DEFINE id == dev.txn + 1
             old == dev.set[k]
  <2>1. \/ r = <<Report("RCMD", v, id, old), Report("RAPP", v, id, old)>>
        \/ r = <<Report("RMACK", v, id, old), Report("RMAPP", v, id, old)>>
        \/ r = <<Report("USBSTREAM?", v, 0, None)>>
    BY DEF Transaction, Said
  <2>2. \A kind \in {"RCMD", "RAPP", "RMACK", "RMAPP", "USBSTREAM?"} : kind \in Announced
    BY DEF Announced
  <2> HIDE DEF id, old, r
  <2> QED BY <1>2, <2>1, <2>2
<1> QED BY <1>1, <1>3

LEMMA AscendingTransaction ==
  ASSUME NEW low \in Nat, NEW high \in Nat, low <= high, NEW q, Ascending(q, low, high), NEW k, NEW v
  PROVE  Ascending(q \o Transaction(k, v), low, high)
<1> DEFINE r == Transaction(k, v)
<1>1. IsSeq(r) /\ \A i \in 1 .. Len(r) : ~IsBoot(r[i])
  BY TransactionIs DEF IsBoot, Announced
<1> HIDE DEF r
<1>2. /\ IsSeq(q \o r) /\ Len(q) \in Nat /\ Len(r) \in Nat /\ Len(q \o r) = Len(q) + Len(r)
      /\ \A i \in 1 .. Len(q) + Len(r) : (q \o r)[i] = IF i <= Len(q) THEN q[i] ELSE r[i - Len(q)]
  BY <1>1, SeqJoined DEF Ascending
<1>3. \A i \in 1 .. Len(q) + Len(r) : IF i <= Len(q) THEN i \in 1 .. Len(q) ELSE i - Len(q) \in 1 .. Len(r)
  BY <1>2
<1>4. \A i \in 1 .. Len(q) + Len(r) : IsBoot((q \o r)[i]) => i \in 1 .. Len(q) /\ (q \o r)[i] = q[i]
  BY <1>1, <1>2, <1>3
<1>5. Ascending(q \o r, low, high)
  BY <1>2, <1>4 DEF Ascending
<1> QED BY <1>5 DEF r

-----------------------------------------------------------------------------
(* The inductive invariant.                                                *)

\* The device has restarted since the host first saw it.
Restarted == firstBoot \notin {None, dev.boot}
Low == IF firstBoot = None THEN 0 ELSE firstBoot

Boots ==
  /\ "boot" \in DOMAIN dev /\ dev.boot \in Nat /\ Low \in 0 .. dev.boot
  /\ IF firstBoot = None THEN host.bootId = None ELSE host.bootId \in firstBoot .. dev.boot
  /\ Ascending(toHost, Low, dev.boot)

Safe ==
  /\ api = "idle"
  /\ Fit(host, Restarted, host.bootId, host.resume) /\ host.sent = <<>>
  /\ Tame(toDevice, Restarted /\ host.resume)
  /\ Boots

BootInv == /\ "requests" \in DOMAIN used /\ used.requests \in Nat
           /\ Unasked => Safe

LEMMA BootInvImplies == BootInv => NeverOverwrites
<1> SUFFICES ASSUME BootInv, Unasked, ~host.resume \/ firstBoot \in {None, dev.boot},
                    NEW i \in DOMAIN toDevice
             PROVE  ~Measured(toDevice[i])
  BY DEF NeverOverwrites
<1>1. Tame(toDevice, Restarted /\ host.resume) /\ ~(Restarted /\ host.resume)
  BY DEF BootInv, Safe, Restarted
<1>2. PICK S : toDevice \in Seq(S)
  BY <1>1 DEF Tame, IsSeq
<1>3. i \in 1 .. Len(toDevice)
  BY <1>2, LenProperties
<1> QED BY <1>1, <1>3 DEF Tame

LEMMA InitBoot == Init => BootInv
<1> SUFFICES ASSUME Init PROVE BootInv
  OBVIOUS
<1>1. Fields(host) /\ host.bootId = None /\ host.bootChanged = FALSE /\ host.restore = FALSE
      /\ host.sent = <<>>
  BY DEF Init, Fields
<1>2. Fit(host, Restarted, host.bootId, host.resume)
  BY <1>1, TameEmpty DEF Fit
<1>3. toDevice = <<>> /\ toHost = <<>> /\ api = "idle" /\ firstBoot = None
      /\ "boot" \in DOMAIN dev /\ dev.boot = 1
      /\ "requests" \in DOMAIN used /\ used.requests = 0
  BY DEF Init
<1>4. Ascending(<<>>, 0, 1)
  BY EmptyIsSeq DEF Ascending
<1>5. Boots
  BY <1>1, <1>3, <1>4 DEF Boots, Low
<1> QED BY <1>1, <1>2, <1>3, <1>5, TameEmpty DEF BootInv, Safe

\* A host that has taken its step, as the next state has it.
LEMMA BecomesSafe ==
  ASSUME NEW h, Fit(h, Restarted', h.bootId, h.resume), Becomes(h), api' = "idle", Boots',
         Tame(toDevice, Restarted' /\ h.resume)
  PROVE  Safe'
<1>1. host' = [h EXCEPT !.sent = <<>>] /\ toDevice' = toDevice \o h.sent
  BY DEF Becomes
<1>2. /\ Fields(host') /\ host'.bootId = h.bootId /\ host'.bootChanged = h.bootChanged
      /\ host'.restore = h.restore /\ host'.resume = h.resume /\ host'.sent = <<>>
  BY <1>1 DEF Fit, Fields
<1>3. Fit(host', Restarted', host'.bootId, host'.resume)
  BY <1>2, TameEmpty DEF Fit
<1>4. (Restarted' /\ h.resume) \in BOOLEAN /\ Tame(h.sent, Restarted' /\ h.resume)
  BY DEF Fit
<1>5. Tame(toDevice', Restarted' /\ h.resume)
  BY <1>1, <1>4, TameJoined
<1> QED BY <1>2, <1>3, <1>5 DEF Safe

\* A step of the host that learns of no boot.
LEMMA HostSafe ==
  ASSUME Safe, NEW h, Fit(h, Restarted, host.bootId, host.resume), Becomes(h),
         UNCHANGED <<api, dev, firstBoot>>, Ascending(toHost', Low, dev.boot)
  PROVE  Safe'
<1>1. Restarted' = Restarted /\ Low' = Low
  BY DEF Restarted, Low
<1>2. h.bootId = host.bootId /\ h.resume = host.resume /\ host'.bootId = host.bootId
  BY DEF Fit, Fields, Becomes
<1>3. Boots'
  BY <1>1, <1>2 DEF Safe, Boots
<1> QED BY <1>1, <1>2, <1>3, BecomesSafe DEF Safe

LEMMA ParseSafe ==
  ASSUME Safe, Parse
  PROVE  Safe'
<1> DEFINE m == Head(toHost)
           b == host.bootId
           on == host.resume
<1>1. /\ toHost # <<>> /\ toHost' = Tail(toHost) /\ UNCHANGED <<api, dev>>
      /\ firstBoot' = IF IsBoot(m) /\ firstBoot = None THEN m.value ELSE firstBoot
  BY DEF Parse, IsBoot
<1>2. /\ Low \in Nat /\ dev.boot \in Nat /\ Low <= dev.boot /\ "boot" \in DOMAIN dev
      /\ Fit(host, Restarted, b, on) /\ Restarted \in BOOLEAN /\ Restarted' \in BOOLEAN
      /\ Tame(toDevice, Restarted /\ on) /\ Ascending(toHost, Low, dev.boot)
  BY DEF Safe, Boots, Restarted
<1>3. /\ Ascending(toHost', Low, dev.boot)
      /\ IsBoot(m) => m.value \in Low .. dev.boot /\ Ascending(toHost', m.value, dev.boot)
  BY <1>1, <1>2, AscendingTail
<1>4. CASE ~IsBoot(m)
  <2>1. UNCHANGED <<api, dev, firstBoot>>
    BY <1>1, <1>4
  <2>2. PICK h : Becomes(h) /\ Fit(h, Restarted, b, on)
    <3>1. CASE m.kind = "STREAMING"
      <4>1. PICK h \in StartBootstrap(host) : Becomes(h)
        BY <3>1 DEF Parse
      <4> QED BY <1>2, <4>1, StartBootstrapFit
    <3>2. CASE m.kind = "LOST"
      <4>1. Becomes(StopBootstrap(host))
        BY <3>2 DEF Parse
      <4> QED BY <1>2, <4>1, StopBootstrapFit
    <3>3. CASE m.kind \notin {"STREAMING", "LOST"}
      <4>1. PICK g \in Synchronize(host, m) : \E h \in Serve(g, m) : Becomes(h)
        BY <3>3 DEF Parse
      <4>2. PICK h \in Serve(g, m) : Becomes(h)
        BY <4>1
      <4> HIDE DEF m
      <4>3. Fit(g, Restarted, b, on)
        BY <1>2, SynchronizeFit
      <4>4. Fit(h, Restarted, b, on)
        BY <1>2, <1>4, <4>3, ServeFit DEF IsBoot
      <4> QED BY <4>2, <4>4
    <3> QED BY <3>1, <3>2, <3>3
  <2> QED BY <1>3, <2>1, <2>2, HostSafe
<1>5. CASE IsBoot(m)
  <2> DEFINE c == m.value
  <2>1. PICK g \in Synchronize(host, m) : Becomes(ObserveBoot(g, c))
    <3>1. PICK g \in Synchronize(host, m) : \E h \in Serve(g, m) : Becomes(h)
      BY <1>5 DEF Parse, IsBoot
    <3>2. Serve(g, m) = {ObserveBoot(g, c)}
      BY <1>5 DEF Serve, IsBoot
    <3> QED BY <3>1, <3>2
  <2> HIDE DEF m
  <2>2. c \in Low .. dev.boot /\ c \in Nat /\ Ascending(toHost', c, dev.boot) /\ c # None
    BY <1>2, <1>3, <1>5, NoneAssumption
  <2> HIDE DEF c
  <2>3. /\ firstBoot = None => firstBoot' = c /\ b = None
        /\ firstBoot # None => firstBoot' = firstBoot /\ b \in firstBoot .. dev.boot /\ Low = firstBoot
    BY <1>1, <1>5 DEF Safe, Boots, Low, c
  <2>4. (Restarted => Restarted') /\ (b # None /\ b # c => Restarted')
    <3>1. CASE firstBoot = None
      BY <2>3, <3>1 DEF Restarted
    <3>2. CASE firstBoot # None
      <4>1. Low \in Nat /\ b \in Low .. dev.boot /\ c \in Low .. dev.boot
        BY <1>2, <2>2, <2>3, <3>2
      <4>2. b # c => Low # dev.boot
        BY <1>2, <4>1
      <4> QED BY <1>1, <2>3, <3>2, <4>2 DEF Restarted
    <3> QED BY <3>1, <3>2
  <2>5. Fit(ObserveBoot(g, c), Restarted', c, on)
    <3>1. Fit(g, Restarted, b, on)
      BY <1>2, SynchronizeFit
    <3>2. Fit(g, Restarted', b, on)
      BY <1>2, <2>4, <3>1, FitMore
    <3> QED BY <1>2, <2>4, <3>2, ObserveBootFit
  <2> DEFINE h == ObserveBoot(g, c)
  <2>6. h.bootId = c /\ h.resume = on /\ Fit(h, Restarted', h.bootId, h.resume) /\ Becomes(h)
    BY <2>1, <2>5 DEF Fit
  <2> HIDE DEF h
  <2>7. Tame(toDevice, Restarted' /\ h.resume)
    <3>1. (Restarted /\ on) \in BOOLEAN /\ (Restarted' /\ on) \in BOOLEAN
      OBVIOUS
    <3> QED BY <1>2, <2>4, <2>6, <3>1, TameMore
  <2>8. Boots'
    <3>1. host'.bootId = c
      BY <2>6 DEF Becomes, Fit, Fields
    <3>2. CASE firstBoot = None
      <4>1. Low' = c /\ firstBoot' = c /\ c # None /\ c \in c .. dev.boot /\ c \in 0 .. dev.boot
        BY <1>2, <2>2, <2>3, <3>2 DEF Low
      <4> QED BY <1>1, <1>2, <2>2, <3>1, <4>1 DEF Boots
    <3>3. CASE firstBoot # None
      <4>1. Low' = Low /\ firstBoot' = firstBoot /\ Low = firstBoot /\ Low \in 0 .. dev.boot
        BY <1>2, <2>3, <3>3 DEF Low
      <4> QED BY <1>1, <1>2, <1>3, <2>2, <3>1, <3>3, <4>1 DEF Boots
    <3> QED BY <3>2, <3>3
  <2> QED BY <1>1, <2>6, <2>7, <2>8, BecomesSafe DEF Safe
<1> QED BY <1>4, <1>5

LEMMA TickSafe ==
  ASSUME Safe, Tick
  PROVE  Safe'
<1>1. PICK h \in Expired(host) : Becomes(h)
  BY DEF Tick
<1>2. UNCHANGED <<api, dev, firstBoot, toHost>> /\ Restarted \in BOOLEAN
  BY DEF Tick, environment, Restarted
<1>3. Fit(h, Restarted, host.bootId, host.resume)
  BY <1>2, ExpiredFit DEF Safe
<1> QED BY <1>1, <1>2, <1>3, HostSafe DEF Safe, Boots

\* What the device and the link do leaves the host and its orders alone.
LEMMA OutsideSafe ==
  ASSUME Safe, UNCHANGED <<host, api, firstBoot>>, Tame(toDevice', Restarted /\ host.resume),
         "boot" \in DOMAIN dev', dev'.boot \in {dev.boot, dev.boot + 1},
         Ascending(toHost', Low, dev'.boot)
  PROVE  Safe'
<1>1. /\ Low \in Nat /\ dev.boot \in Nat /\ Low <= dev.boot /\ Low' = Low
      /\ firstBoot # None => firstBoot = Low /\ host.bootId \in Low .. dev.boot
      /\ Restarted \in BOOLEAN /\ Restarted' \in BOOLEAN
  BY DEF Safe, Boots, Low, Restarted
<1>2. dev'.boot \in Nat /\ Low \in 0 .. dev'.boot /\ dev.boot <= dev'.boot
  BY <1>1
<1>3. Restarted => Restarted'
  BY <1>1, <1>2 DEF Restarted
<1>4. Fit(host, Restarted', host.bootId, host.resume)
  BY <1>1, <1>3, FitMore DEF Safe
<1>5. Tame(toDevice', Restarted' /\ host.resume)
  <2>1. (Restarted /\ host.resume) \in BOOLEAN /\ (Restarted' /\ host.resume) \in BOOLEAN
    OBVIOUS
  <2> QED BY <1>3, <2>1, TameMore
<1>6. IF firstBoot = None THEN host.bootId = None ELSE host.bootId \in firstBoot .. dev'.boot
  BY <1>1, <1>2 DEF Safe, Boots
<1>7. Boots'
  BY <1>1, <1>2, <1>6 DEF Boots
<1> QED BY <1>4, <1>5, <1>7 DEF Safe

LEMMA DeviceSafe ==
  ASSUME Safe, Device
  PROVE  Safe'
<1> DEFINE p == Restarted /\ host.resume
<1>1. /\ p \in BOOLEAN /\ Tame(toDevice, p) /\ Ascending(toHost, Low, dev.boot) /\ toDevice # <<>>
      /\ Low \in Nat /\ dev.boot \in Nat /\ Low <= dev.boot /\ "boot" \in DOMAIN dev
      /\ UNCHANGED <<host, api, firstBoot>> /\ toDevice' = Tail(toDevice)
  BY DEF Safe, Boots, Device, DeviceAnswers, DeviceApplies, DeviceRejects, environment
<1>2. Tame(toDevice', p)
  BY <1>1, TameTail
<1>3. "boot" \in DOMAIN dev' /\ dev'.boot = dev.boot
  BY <1>1 DEF Device, DeviceAnswers, DeviceApplies, DeviceRejects, environment
<1>4. Ascending(toHost', Low, dev.boot)
  <2>1. CASE DeviceApplies
    <3>1. \E k, v : toHost' = toHost \o Transaction(k, v)
      BY <2>1 DEF DeviceApplies
    <3> QED BY <1>1, <3>1, AscendingTransaction
  <2>2. CASE DeviceAnswers \/ DeviceRejects
    <3>1. \E x : toHost' = Append(toHost, x) /\ (IsBoot(x) => x.value = dev.boot)
      BY <2>2 DEF DeviceAnswers, DeviceRejects, Said, Report, Answer, IsBoot
    <3> QED BY <1>1, <3>1, AscendingAppend
  <2> QED BY <2>1, <2>2 DEF Device
<1> QED BY <1>1, <1>2, <1>3, <1>4, OutsideSafe

\* What is left of the reports when the link is lost.
LEMMA CutAscending ==
  ASSUME NEW low \in Nat, NEW high \in Nat, low <= high, Ascending(toHost, low, high), Cut
  PROVE  Ascending(toHost', low, high) /\ toDevice' = <<>>
<1>1. PICK n \in 0 .. Len(toHost) : toHost' = Append(SubSeq(toHost, 1, n), Said("LOST", None))
  BY DEF Cut
<1>2. ~IsBoot(Said("LOST", None))
  BY DEF IsBoot, Said, Report
<1> QED BY <1>1, <1>2, AscendingCut, AscendingAppend DEF Cut

LEMMA LinkSafe ==
  ASSUME Safe, DeviceReady \/ LinkLost \/ LinkUp \/ Takeover
  PROVE  Safe'
<1>1. /\ Tame(toDevice, Restarted /\ host.resume) /\ Ascending(toHost, Low, dev.boot)
      /\ Low \in Nat /\ dev.boot \in Nat /\ Low <= dev.boot /\ "boot" \in DOMAIN dev
      /\ UNCHANGED <<host, api, firstBoot>>
  BY DEF Safe, Boots, DeviceReady, LinkLost, LinkUp, Takeover
<1>2. "boot" \in DOMAIN dev' /\ dev'.boot = dev.boot
  BY <1>1 DEF DeviceReady, LinkLost, LinkUp, Takeover
<1>3. Tame(toDevice', Restarted /\ host.resume) /\ Ascending(toHost', Low, dev.boot)
  <2>1. CASE LinkLost
    <3>1. Ascending(toHost', Low, dev.boot) /\ toDevice' = <<>>
      BY <1>1, <2>1, CutAscending DEF LinkLost
    <3> QED BY <3>1, TameEmpty
  <2>2. CASE LinkUp
    <3>1. toHost' = Append(toHost, Said("STREAMING", None)) /\ ~IsBoot(Said("STREAMING", None))
          /\ toDevice' = toDevice
      BY <2>2 DEF LinkUp, IsBoot, Said, Report
    <3> QED BY <1>1, <3>1, AscendingAppend
  <2>3. CASE DeviceReady \/ Takeover
    BY <1>1, <2>3 DEF DeviceReady, Takeover
  <2> QED BY <2>1, <2>2, <2>3
<1> QED BY <1>1, <1>2, <1>3, OutsideSafe

LEMMA DeviceRestartsSafe ==
  ASSUME Safe, DeviceRestarts
  PROVE  Safe'
<1> DEFINE n == dev.boot + 1
<1>1. /\ Tame(toDevice, Restarted /\ host.resume) /\ Ascending(toHost, Low, dev.boot)
      /\ Low \in Nat /\ dev.boot \in Nat /\ Low <= dev.boot /\ "boot" \in DOMAIN dev
      /\ UNCHANGED <<host, api, firstBoot>>
  BY DEF Safe, Boots, DeviceRestarts
<1>2. "boot" \in DOMAIN dev' /\ dev'.boot = n
  BY <1>1 DEF DeviceRestarts
<1>3. n \in Nat /\ dev.boot <= n /\ Low <= n
  BY <1>1
<1>4. Tame(toDevice', Restarted /\ host.resume) /\ Ascending(toHost', Low, n)
  <2>1. CASE Cut
    <3>1. Ascending(toHost', Low, dev.boot) /\ toDevice' = <<>>
      BY <1>1, <2>1, CutAscending
    <3> QED BY <1>1, <1>3, <3>1, AscendingHigher, TameEmpty
  <2>2. CASE toDevice' = <<>> /\ toHost' = Append(toHost, Said("BOOT?", dev.boot + 1))
    <3>1. Ascending(toHost, Low, n) /\ Said("BOOT?", dev.boot + 1).value = n
      BY <1>1, <1>3, AscendingHigher DEF Said, Report
    <3> QED BY <1>1, <1>3, <2>2, <3>1, AscendingAppend, TameEmpty
  <2>3. CASE UNCHANGED <<toDevice, toHost>>
    BY <1>1, <1>3, <2>3, AscendingHigher
  <2> QED BY <2>1, <2>2, <2>3 DEF DeviceRestarts
<1> QED BY <1>1, <1>2, <1>4, OutsideSafe

\* A request of the user ends what the property promises; nothing else counts one.
LEMMA RequestsKept ==
  ASSUME BootInv, [Next]_vars
  PROVE  /\ "requests" \in DOMAIN used' /\ used'.requests \in Nat
         /\ Unasked' => Unasked /\ ~ApplyProfile /\ ~RequestRows
<1>1. "requests" \in DOMAIN used /\ used.requests \in Nat
  BY DEF BootInv
<1>2. CASE ApplyProfile \/ RequestRows
  <2>1. used' = [used EXCEPT !.requests = @ + 1]
    BY <1>2 DEF ApplyProfile, RequestRows, Requesting
  <2> QED BY <1>1, <2>1 DEF Unasked
<1>3. CASE ~(ApplyProfile \/ RequestRows)
  <2>1. "requests" \in DOMAIN used' /\ used'.requests = used.requests
    <3>1. CASE Takeover
      BY <1>1, <3>1 DEF Takeover
    <3>2. CASE UNCHANGED used
      BY <1>1, <3>2
    <3> QED BY <1>3, <3>1, <3>2 DEF Next, Api, Parse, Tick, ApiDecide, ApiCarry, Device, DeviceAnswers,
                                    DeviceApplies, DeviceRejects, DeviceReady, DeviceRestarts,
                                    LinkLost, LinkUp, environment, vars
  <2> QED BY <1>1, <1>3, <2>1 DEF Unasked
<1> QED BY <1>2, <1>3

LEMMA StutterSafe == Safe /\ UNCHANGED vars => Safe'
<1> SUFFICES ASSUME Safe, UNCHANGED vars PROVE Safe'
  OBVIOUS
<1>1. UNCHANGED <<host, api, toDevice, toHost, dev, firstBoot>>
  BY DEF vars
<1> QED BY <1>1 DEF Safe, Boots, Low, Restarted

LEMMA BootKept ==
  ASSUME BootInv, [Next]_vars
  PROVE  BootInv'
<1>1. /\ "requests" \in DOMAIN used' /\ used'.requests \in Nat
      /\ Unasked' => Unasked /\ ~ApplyProfile /\ ~RequestRows
  BY RequestsKept
<1>2. ASSUME Unasked' PROVE Safe'
  <2>1. Safe /\ ~ApplyProfile /\ ~RequestRows /\ api = "idle"
    BY <1>1, <1>2 DEF BootInv, Safe
  <2>2. ~ApiDecide /\ ~ApiCarry
    BY <2>1 DEF ApiDecide, ApiCarry
  <2> QED BY <2>1, <2>2, ParseSafe, TickSafe, DeviceSafe, LinkSafe, DeviceRestartsSafe, StutterSafe
          DEF Next, Api
<1> QED BY <1>1, <1>2 DEF BootInv

\* Connecting never overwrites the settings of a running device: as long as the user
\* asks for nothing, ROWS= and ROWMODES= are on their way only to a device that has
\* restarted since the host first saw it, and only if resuming is on; whatever links
\* are lost, answers come late, and restarts go unseen, on every transport.
THEOREM FirstAttachIsReadOnly == Spec => []NeverOverwrites
<1>1. ASSUME BootInv, [Next]_vars PROVE BootInv'
  BY <1>1, BootKept
<1> QED BY <1>1, InitBoot, BootInvImplies, PTL DEF Spec

-----------------------------------------------------------------------------
(* The order of the questions.                                             *)

\* The questions before the device is polled for being ready.
Early == {"PROTO?", "BUILD?", "BOOT?"}
Late == AllQuestions \ (Early \cup {"READY?"})

\* The n-th question of q is the poll; it comes once, behind the question of the boot.
Staged(q, n) ==
  /\ q \in Seq(AllQuestions) /\ n \in 2 .. Len(q) /\ q[n - 1] = "BOOT?" /\ q[n] = "READY?"
  /\ \A i \in 1 .. Len(q) : (i < n => q[i] \in Early) /\ (i > n => q[i] \in Late)

LEMMA StagedJoined ==
  ASSUME NEW q, NEW n, Staged(q, n), NEW r \in Seq(Late)
  PROVE  Staged(q \o r, n)
<1>1. r \in Seq(AllQuestions)
  BY SeqMonotonic DEF Late
<1>2. /\ Len(q) \in Nat /\ Len(r) \in Nat /\ n \in 2 .. Len(q)
      /\ q \o r \in Seq(AllQuestions) /\ Len(q \o r) = Len(q) + Len(r)
      /\ \A i \in 1 .. Len(q) + Len(r) : (q \o r)[i] = IF i <= Len(q) THEN q[i] ELSE r[i - Len(q)]
  BY <1>1, ConcatProperties, LenProperties DEF Staged
<1>3. n \in 2 .. Len(q) + Len(r) /\ (q \o r)[n - 1] = "BOOT?" /\ (q \o r)[n] = "READY?"
  <2>1. /\ n \in 2 .. Len(q) + Len(r) /\ n <= Len(q) /\ n - 1 <= Len(q)
        /\ n \in 1 .. Len(q) + Len(r) /\ n - 1 \in 1 .. Len(q) + Len(r)
    BY <1>2
  <2> QED BY <1>2, <2>1 DEF Staged
<1>4. ASSUME NEW i \in 1 .. Len(q) + Len(r)
      PROVE  (i < n => (q \o r)[i] \in Early) /\ (i > n => (q \o r)[i] \in Late)
  <2>1. CASE i <= Len(q)
    <3>1. i \in 1 .. Len(q) /\ (q \o r)[i] = q[i]
      BY <1>2, <2>1
    <3> QED BY <3>1 DEF Staged
  <2>2. CASE ~(i <= Len(q))
    <3>1. i - Len(q) \in 1 .. Len(r) /\ (q \o r)[i] = r[i - Len(q)] /\ ~(i < n)
      BY <1>2, <2>2
    <3>2. r[i - Len(q)] \in Late
      BY <3>1, ElementOfSeq
    <3> QED BY <3>1, <3>2
  <2> QED BY <2>1, <2>2
<1> QED BY <1>2, <1>3, <1>4 DEF Staged

\* The questions up to ROWS?.
Starts == <<"PROTO?">> \o Unless("BUILD?") \o <<"BOOT?", "READY?", "STATE?", "ROWS?">>

LEMMA StartsIs ==
  /\ Starts \in Seq(AllQuestions)
  /\ \/ /\ Len(Starts) = 5 /\ Starts[1] = "PROTO?" /\ Starts[2] = "BOOT?" /\ Starts[3] = "READY?"
        /\ Starts[4] = "STATE?" /\ Starts[5] = "ROWS?"
     \/ /\ Len(Starts) = 6 /\ Starts[1] = "PROTO?" /\ Starts[2] = "BUILD?" /\ Starts[3] = "BOOT?"
        /\ Starts[4] = "READY?" /\ Starts[5] = "STATE?" /\ Starts[6] = "ROWS?"
<1> DEFINE four == <<"BOOT?", "READY?", "STATE?", "ROWS?">>
           q2 == <<"PROTO?">> \o Unless("BUILD?")
           q3 == q2 \o four
<1>1. four \in Seq(AllQuestions) /\ Len(four) = 4
      /\ four[1] = "BOOT?" /\ four[2] = "READY?" /\ four[3] = "STATE?" /\ four[4] = "ROWS?"
  BY DEF AllQuestions
<1>2. \/ /\ q2 \in Seq(AllQuestions) /\ Len(q2) = 1 /\ q2[1] = "PROTO?"
      \/ /\ q2 \in Seq(AllQuestions) /\ Len(q2) = 2 /\ q2[1] = "PROTO?" /\ q2[2] = "BUILD?"
  <2>1. Unless("BUILD?") = <<>> \/ Unless("BUILD?") = <<"BUILD?">>
    BY DEF Unless
  <2> DEFINE p == <<"PROTO?">>
             b == Unless("BUILD?")
  <2>2. /\ p \in Seq(AllQuestions) /\ Len(p) = 1 /\ p[1] = "PROTO?"
        /\ b \in Seq(AllQuestions) /\ (Len(b) = 0 \/ (Len(b) = 1 /\ b[1] = "BUILD?"))
    <3>1. p \in Seq(AllQuestions) /\ Len(p) = 1 /\ p[1] = "PROTO?"
      BY DEF AllQuestions
    <3>2. CASE b = <<>>
      <4>1. <<>> \in Seq(AllQuestions) /\ Len(<<>>) = 0
        OBVIOUS
      <4> QED BY <3>1, <3>2, <4>1
    <3>3. CASE b = <<"BUILD?">>
      <4>1. <<"BUILD?">> \in Seq(AllQuestions) /\ Len(<<"BUILD?">>) = 1 /\ <<"BUILD?">>[1] = "BUILD?"
        BY DEF AllQuestions
      <4> HIDE DEF p, b
      <4> QED BY <3>1, <3>3, <4>1
    <3> QED BY <2>1, <3>2, <3>3
  <2>3. q2 = p \o b
    OBVIOUS
  <2> HIDE DEF p, b, q2
  <2>4. /\ q2 \in Seq(AllQuestions) /\ Len(q2) = 1 + Len(b)
        /\ \A i \in 1 .. 1 + Len(b) : q2[i] = IF i <= 1 THEN p[i] ELSE b[i - 1]
    BY <2>2, <2>3, ConcatProperties
  <2> QED BY <2>2, <2>4
<1> HIDE DEF four, q2
<1>3. /\ Len(q2) \in {1, 2} /\ q3 \in Seq(AllQuestions) /\ Len(q3) = Len(q2) + 4
      /\ \A i \in 1 .. Len(q2) + 4 : q3[i] = IF i <= Len(q2) THEN q2[i] ELSE four[i - Len(q2)]
  <2>1. q2 \in Seq(AllQuestions) /\ Len(q2) \in {1, 2}
    BY <1>2
  <2>2. four \in Seq(AllQuestions) /\ Len(four) = 4
    BY <1>1
  <2>3. q3 = q2 \o four
    OBVIOUS
  <2> HIDE DEF q3
  <2>4. /\ q3 \in Seq(AllQuestions) /\ Len(q3) = Len(q2) + Len(four)
        /\ \A i \in 1 .. Len(q2) + Len(four) : q3[i] = IF i <= Len(q2) THEN q2[i] ELSE four[i - Len(q2)]
    BY <2>1, <2>2, <2>3, ConcatProperties
  <2> QED BY <2>1, <2>2, <2>4
<1> HIDE DEF q3
<1>4. CASE Len(q2) = 1
  BY <1>1, <1>2, <1>3, <1>4 DEF Starts, q3, q2, four
<1>5. CASE Len(q2) = 2
  BY <1>1, <1>2, <1>3, <1>5 DEF Starts, q3, q2, four
<1> QED BY <1>3, <1>4, <1>5

LEMMA ChainStaged == \E n : Staged(Chain, n)
<1> DEFINE end == CASE Source = "serial" -> <<"USBSTREAM?">> [] Source = "ble" -> <<"BTX?">> [] OTHER -> <<>>
           S == Seq(Late)
<1>1. PICK n : Staged(Starts, n)
  <2>1. CASE Len(Starts) = 5
    <3>1. \A i \in 1 .. 5 : i \in {1, 2, 3, 4, 5}
      OBVIOUS
    <3>2. Staged(Starts, 3)
      BY <2>1, <3>1, StartsIs DEF Staged, Early, Late, AllQuestions
    <3> QED BY <3>2
  <2>2. CASE Len(Starts) = 6
    <3>1. \A i \in 1 .. 6 : i \in {1, 2, 3, 4, 5, 6}
      OBVIOUS
    <3>2. Staged(Starts, 4)
      BY <2>2, <3>1, StartsIs DEF Staged, Early, Late, AllQuestions
    <3> QED BY <3>2
  <2> QED BY <2>1, <2>2, StartsIs
<1>2. \A q : Staged(q, n) => \A r \in S : Staged(q \o r, n)
  BY StagedJoined
<1>3. /\ <<"ROWMODES?">> \in S /\ Unless("FDCISO?") \in S /\ Unless("BAT?") \in S
      /\ Unless("RAIL?") \in S /\ Unless("CAL?") \in S /\ Unless("ST=AUTO") \in S
  <2>1. \A q \in Late : <<q>> \in S /\ Unless(q) \in S
    BY DEF Unless
  <2> QED BY <2>1 DEF Late, AllQuestions, Early
<1>4. end \in S
  <2>1. <<"USBSTREAM?">> \in S /\ <<"BTX?">> \in S /\ <<>> \in S
    BY DEF Late, AllQuestions, Early
  <2>2. end = <<"USBSTREAM?">> \/ end = <<"BTX?">> \/ end = <<>>
    OBVIOUS
  <2> QED BY <2>1, <2>2
<1>5. Chain = Starts \o <<"ROWMODES?">> \o Unless("FDCISO?") \o Unless("BAT?") \o Unless("RAIL?")
                 \o Unless("CAL?") \o Unless("ST=AUTO") \o end
  BY DEF Chain, AskedOf, Starts
<1> HIDE DEF S, end
<1> QED BY <1>1, <1>2, <1>3, <1>4, <1>5

\* Only an early question is followed by an early one, or by the poll.
LEMMA PollComesOnce ==
  \A q \in Questions : q # Last /\ Follows(q) \in Early \cup {"READY?"} => q \in Early
<1> SUFFICES ASSUME NEW q \in Questions, q # Last, Follows(q) \in Early \cup {"READY?"}
             PROVE  q \in Early
  OBVIOUS
<1>1. PICK n : Staged(Chain, n)
  BY ChainStaged
<1>2. DOMAIN Chain = 1 .. Len(Chain) /\ Len(Chain) \in Nat
  BY <1>1, LenProperties DEF Staged
<1> DEFINE i == CHOOSE i \in DOMAIN Chain : Chain[i] = q
<1>3. i \in DOMAIN Chain /\ Chain[i] = q
  BY DEF Questions
<1>4. i # Len(Chain)
  BY <1>3 DEF Last
<1>5. Follows(q) = Chain[1 + i]
  BY DEF Follows
<1> HIDE DEF i
<1>6. 1 + i \in 1 .. Len(Chain) /\ i \in 1 .. Len(Chain) /\ n \in Nat
  BY <1>1, <1>2, <1>3, <1>4 DEF Staged
<1>7. Chain[1 + i] \notin Late
  BY <1>5 DEF Late
<1>8. ~(1 + i > n)
  BY <1>1, <1>6, <1>7 DEF Staged
<1>9. i < n
  BY <1>6, <1>8
<1> QED BY <1>1, <1>3, <1>6, <1>9 DEF Staged

-----------------------------------------------------------------------------
(* The domain of the state.                                                *)

\* Only commands that the protocol knows are sent.
Orders(q) == IsSeq(q) /\ \A i \in 1 .. Len(q) : q[i].kind \in Questions \cup DOMAIN Waiting

LEMMA OrdersKept ==
  /\ Orders(<<>>)
  /\ \A q, c : Orders(q) /\ c.kind \in Questions \cup DOMAIN Waiting => Orders(Append(q, c))
  /\ \A q, r : Orders(q) /\ Orders(r) => Orders(q \o r)
  /\ \A q : Orders(q) /\ q # <<>> => Orders(Tail(q))
<1>1. Orders(<<>>)
  BY EmptyIsSeq DEF Orders
<1>2. ASSUME NEW q, NEW c, Orders(q), c.kind \in Questions \cup DOMAIN Waiting
      PROVE  Orders(Append(q, c))
  <2>1. /\ IsSeq(Append(q, c)) /\ Len(q) \in Nat /\ Len(Append(q, c)) = Len(q) + 1
        /\ \A i \in 1 .. Len(q) : Append(q, c)[i] = q[i]
        /\ Append(q, c)[Len(q) + 1] = c
    BY <1>2, SeqExtended DEF Orders
  <2>2. \A i \in 1 .. Len(q) + 1 : i \in 1 .. Len(q) \/ i = Len(q) + 1
    BY <2>1
  <2> QED BY <1>2, <2>1, <2>2 DEF Orders
<1>3. ASSUME NEW q, NEW r, Orders(q), Orders(r)
      PROVE  Orders(q \o r)
  <2>1. /\ IsSeq(q \o r) /\ Len(q) \in Nat /\ Len(r) \in Nat /\ Len(q \o r) = Len(q) + Len(r)
        /\ \A i \in 1 .. Len(q) + Len(r) : (q \o r)[i] = IF i <= Len(q) THEN q[i] ELSE r[i - Len(q)]
    BY <1>3, SeqJoined DEF Orders
  <2>2. \A i \in 1 .. Len(q) + Len(r) : IF i <= Len(q) THEN i \in 1 .. Len(q) ELSE i - Len(q) \in 1 .. Len(r)
    BY <2>1
  <2> QED BY <1>3, <2>1, <2>2 DEF Orders
<1>4. \A q : Orders(q) /\ q # <<>> => Orders(Tail(q))
  BY SeqTail DEF Orders
<1> QED BY <1>1, <1>2, <1>3, <1>4

Named(h) ==
  /\ "state" \in DOMAIN h /\ "ask" \in DOMAIN h /\ "retries" \in DOMAIN h /\ "waiting" \in DOMAIN h
  /\ "polls" \in DOMAIN h /\ "pref" \in DOMAIN h /\ "seen" \in DOMAIN h /\ "known" \in DOMAIN h
  /\ "sent" \in DOMAIN h

\* The host of TypeOK, with what bounds its polls: none is counted before the first
\* READY?, and one that is outstanding is not the last.
Sound(h) ==
  /\ Named(h)
  /\ h.state \in States /\ h.pref \in PrefStates /\ h.ask \in Questions \cup {None}
  /\ h.state = "IDLE" => h.ask = None /\ ~h.waiting
  /\ h.retries \in 0 .. MaxRetries /\ h.polls \in 0 .. MaxPolls
  /\ h.ask # None /\ h.ask \in Early => h.polls = 0
  /\ h.ask # None /\ h.ask = "READY?" => h.polls < MaxPolls
  /\ h.seen \subseteq Readable /\ h.known \in BOOLEAN
  /\ Orders(h.sent)

\* g differs from h in what a report or a restore touches.
Alike(g, h) ==
  /\ Named(g) /\ g.pref \in PrefStates /\ g.seen \subseteq Readable /\ g.known \in BOOLEAN
  /\ g.state = h.state /\ g.ask = h.ask /\ g.waiting = h.waiting /\ g.retries = h.retries
  /\ g.polls = h.polls /\ g.sent = h.sent

LEMMA AlikeSound == \A g, h : Sound(h) /\ Alike(g, h) => Sound(g)
  BY DEF Alike, Sound

LEMMA WrittenSound ==
  ASSUME NEW h, Sound(h), NEW c, c.kind \in Questions \cup DOMAIN Waiting, NEW g \in Written(h, c)
  PROVE  Sound(g)
<1>1. g = [h EXCEPT !.sent = Append(@, c)]
  BY DEF Written
<1>2. /\ Named(g) /\ g.state = h.state /\ g.pref = h.pref /\ g.ask = h.ask /\ g.waiting = h.waiting
      /\ g.retries = h.retries /\ g.polls = h.polls /\ g.seen = h.seen /\ g.known = h.known
      /\ g.sent = Append(h.sent, c)
  BY <1>1 DEF Sound, Named
<1>3. Orders(g.sent)
  BY <1>2, OrdersKept DEF Sound
<1> QED BY <1>2, <1>3 DEF Sound

LEMMA FailedSound ==
  ASSUME NEW h, Sound(h), NEW s \in States \ {"IDLE"}
  PROVE  Sound(Failed(h, s))
<1> DEFINE g == Failed(h, s)
<1>1. /\ Named(g) /\ g.state = s /\ g.pref = h.pref /\ g.ask = None /\ g.waiting = h.waiting
      /\ g.retries = h.retries /\ g.polls = h.polls /\ g.seen = h.seen /\ g.known = h.known
      /\ g.sent = h.sent
  BY DEF Sound, Named, Failed
<1> HIDE DEF g
<1>2. Sound(g)
  BY <1>1 DEF Sound
<1> QED BY <1>2 DEF g

LEMMA SendQuerySound ==
  ASSUME NEW h, Sound(h), h.state # "IDLE", NEW q \in Questions, NEW n \in 0 .. MaxRetries,
         q \in Early => h.polls = 0, q = "READY?" => h.polls < MaxPolls, NEW g \in SendQuery(h, q, n)
  PROVE  Sound(g)
<1> DEFINE asked == [h EXCEPT !.ask = q, !.waiting = FALSE, !.retries = n]
<1>1. /\ Named(asked) /\ asked.state = h.state /\ asked.pref = h.pref /\ asked.ask = q
      /\ asked.retries = n /\ asked.polls = h.polls /\ asked.seen = h.seen /\ asked.known = h.known
      /\ asked.sent = h.sent
  BY DEF Sound, Named
<1>2. g \in Written(asked, Command(q, None)) \cup {Failed(h, "FAILED"), asked}
  BY DEF SendQuery
<1> HIDE DEF asked
<1>3. Sound(asked)
  BY <1>1 DEF Sound
<1>4. Command(q, None).kind = q
  BY DEF Command
<1>5. CASE g \in Written(asked, Command(q, None))
  BY <1>3, <1>4, <1>5, WrittenSound
<1>6. Sound(Failed(h, "FAILED"))
  BY FailedSound DEF States
<1> QED BY <1>2, <1>3, <1>5, <1>6

LEMMA AskSound ==
  ASSUME NEW h, Sound(h), NEW k \in DOMAIN Waiting, NEW g \in Ask(h, k)
  PROVE  Sound(g)
<1> DEFINE c == Command(k, h.want[k])
           begun == IF k = "usb" THEN h
                    ELSE [h EXCEPT !.pending[k] = h.want[k], !.req[k] = None]
           failed == [begun EXCEPT !.pref = "ERROR"]
           refused == IF k = "usb" THEN failed ELSE [failed EXCEPT !.pending[k] = None]
           waits == [begun EXCEPT !.pref = Waiting[k]]
           rejected == [h EXCEPT !.pref = "ERROR"]
<1>1. g \in Written(waits, c) \/ g \in Written(failed, c) \/ g \in {failed, refused, rejected}
  BY DEF Ask
<1>2. "ERROR" \in PrefStates /\ Waiting[k] \in PrefStates
  BY DEF PrefStates, Settled
<1>3. Alike(begun, h)
  BY DEF Sound, Named, Alike
<1> HIDE DEF begun
<1>4. Alike(waits, h) /\ Alike(failed, h)
  BY <1>2, <1>3 DEF Named, Alike
<1> HIDE DEF failed, waits
<1>5. Alike(refused, h)
  BY <1>4 DEF Named, Alike
<1>6. Alike(rejected, h)
  BY <1>2 DEF Sound, Named, Alike
<1> HIDE DEF refused, rejected
<1>7. c.kind \in Questions \cup DOMAIN Waiting
  BY DEF Command
<1> HIDE DEF c
<1>8. Sound(waits) /\ Sound(failed) /\ Sound(refused) /\ Sound(rejected)
  BY <1>4, <1>5, <1>6, AlikeSound
<1> QED BY <1>1, <1>7, <1>8, WrittenSound

Decisions == {"WAITING_BOOTSTRAP", "WAITING_TRANSACTION", "COMPLETE"} \cup DOMAIN Waiting

LEMMA CarrySound ==
  ASSUME NEW h, Sound(h), NEW d \in Decisions, NEW g \in Carry(h, d)
  PROVE  Sound(g)
<1>1. CASE d \in DOMAIN Waiting
  BY <1>1, AskSound DEF Carry
<1>2. CASE d \notin DOMAIN Waiting
  <2>1. g = [h EXCEPT !.pref = d] /\ d \in PrefStates
    BY <1>2 DEF Carry, Decisions, PrefStates, Settled
  <2>2. Alike(g, h)
    BY <2>1 DEF Sound, Named, Alike
  <2> QED BY <2>2, AlikeSound
<1> QED BY <1>1, <1>2

LEMMA DecisionIs == \A h : Decision(h) \in Decisions
  BY DEF Decision, Decisions, Waiting

LEMMA AdvanceSound == \A h : Sound(h) => \A g \in Advance(h) : Sound(g)
  BY CarrySound, DecisionIs DEF Advance

LEMMA StartedSound == \A h, r : Sound(h) => Sound(Started(h, r))
<1> SUFFICES ASSUME NEW h, NEW r, Sound(h) PROVE Sound(Started(h, r))
  OBVIOUS
<1>1. Alike(Started(h, r), h)
  BY DEF Started, Sound, Named, Alike, PrefStates
<1> QED BY <1>1, AlikeSound

LEMMA BootstrapCompleteSound ==
  ASSUME NEW h, Sound(h), NEW g \in OnBootstrapComplete(h)
  PROVE  Sound(g)
<1> DEFINE disabled == [h EXCEPT !.pref = "DISABLED", !.target = h.bootId, !.restore = FALSE]
           ready == [h EXCEPT !.pref = "READY"]
           d == IF h.bootChanged THEN disabled ELSE h
<1>1. Alike(disabled, h) /\ Alike(ready, h)
  BY DEF Sound, Named, Alike, PrefStates, Settled
<1>2. \/ g \in Advance(Started(h, TRUE)) \/ g \in Advance(ready)
      \/ g \in Advance(Started(d, FALSE)) \/ g = d
  BY DEF OnBootstrapComplete
<1> HIDE DEF disabled, ready
<1>3. Sound(ready) /\ Sound(d)
  BY <1>1, AlikeSound
<1> HIDE DEF d
<1> QED BY <1>2, <1>3, AdvanceSound, StartedSound

LEMMA StartBootstrapSound ==
  ASSUME NEW h, Sound(h), NEW g \in StartBootstrap(h)
  PROVE  Sound(g)
<1> DEFINE fresh == [h EXCEPT !.known = FALSE, !.seen = {}, !.state = "BOOTSTRAPPING", !.ask = None,
                              !.polls = 0, !.usbRead = None]
<1>1. g \in SendQuery(fresh, "PROTO?", 0)
  BY DEF StartBootstrap
<1>2. /\ Named(fresh) /\ fresh.state = "BOOTSTRAPPING" /\ fresh.pref = h.pref /\ fresh.ask = None
      /\ fresh.retries = h.retries /\ fresh.polls = 0 /\ fresh.seen = {}
      /\ fresh.known = FALSE /\ fresh.sent = h.sent
  BY DEF Sound, Named
<1> HIDE DEF fresh
<1>3. 0 \in 0 .. MaxPolls /\ 0 \in 0 .. MaxRetries
  BY RetryAssumption
<1>4. Sound(fresh)
  BY <1>2, <1>3 DEF Sound, States
<1> QED BY <1>1, <1>2, <1>3, <1>4, SendQuerySound, QuestionsAreAsked

LEMMA StopBootstrapSound ==
  ASSUME NEW h, Sound(h)
  PROVE  Sound(StopBootstrap(h))
<1> DEFINE g == StopBootstrap(h)
<1>1. /\ Named(g) /\ g.state = (IF h.state = "BOOTSTRAPPING" THEN "INTERRUPTED" ELSE h.state)
      /\ g.pref = h.pref /\ g.ask = None
      /\ g.waiting = h.waiting /\ g.retries = h.retries /\ g.polls = h.polls /\ g.seen = h.seen
      /\ g.known = h.known /\ g.sent = h.sent
  BY DEF Sound, Named, StopBootstrap
<1> HIDE DEF g
<1>2. Sound(g)
  BY <1>1 DEF Sound, States
<1> QED BY <1>2 DEF g

LEMMA SynchronizeSound ==
  ASSUME NEW h, Sound(h), NEW m, NEW g \in Synchronize(h, m)
  PROVE  Sound(g)
<1> DEFINE read == IF m.kind = "USBSTREAM?" THEN [h EXCEPT !.usbRead = m.value] ELSE h
           synced == [read EXCEPT !.ask = None, !.state = "SYNCED"]
           asks == h.state = "BOOTSTRAPPING" /\ h.ask # None /\ m.kind = h.ask
<1>1. \/ g = h
      \/ asks /\ g = Failed(h, "INCOMPATIBLE_FIRMWARE")
      \/ asks /\ m.kind = "READY?" /\ g = PollLater(h)
      \/ asks /\ g \in OnBootstrapComplete(synced)
      \/ asks /\ m.kind # Last /\ g \in SendQuery(read, Follows(m.kind), 0)
  BY DEF Synchronize, Completed
<1>2. Alike(read, h)
  BY DEF Sound, Named, Alike
<1> HIDE DEF read
<1>3. Sound(read) /\ read.state = h.state /\ read.polls = h.polls
  BY <1>2, AlikeSound DEF Alike
<1>4. Sound(synced)
  <2>1. /\ Named(synced) /\ synced.state = "SYNCED" /\ synced.ask = None
        /\ synced.pref = read.pref /\ synced.retries = read.retries /\ synced.polls = read.polls
        /\ synced.seen = read.seen /\ synced.known = read.known /\ synced.sent = read.sent
    BY <1>3 DEF Sound, Named
  <2> HIDE DEF synced
  <2> QED BY <1>3, <2>1 DEF Sound, States
<1> HIDE DEF synced
<1>5. CASE asks /\ m.kind = "READY?" /\ g = PollLater(h)
  <2>1. /\ Named(g) /\ g.state = "BOOTSTRAPPING" /\ g.ask = None
        /\ g.pref = h.pref /\ g.retries = h.retries /\ g.polls = h.polls + 1
        /\ g.seen = h.seen /\ g.known = h.known /\ g.sent = h.sent
    BY <1>5 DEF Sound, Named, PollLater
  <2>2. h.polls \in 0 .. MaxPolls /\ h.polls < MaxPolls
    BY <1>5 DEF Sound
  <2>3. g.polls \in 0 .. MaxPolls
    BY <2>1, <2>2, RetryAssumption
  <2> QED BY <2>1, <2>3 DEF Sound, States
<1>6. CASE asks /\ m.kind # Last /\ g \in SendQuery(read, Follows(m.kind), 0)
  <2> DEFINE q == Follows(m.kind)
  <2>1. m.kind \in Questions /\ m.kind # Last
    BY <1>6 DEF Sound
  <2>2. q \in Questions /\ (q \in Early \cup {"READY?"} => m.kind \in Early)
    BY <2>1, QuestionsAreAsked, PollComesOnce
  <2> HIDE DEF q
  <2>3. m.kind \in Early => read.polls = 0
    BY <1>3, <1>6 DEF Sound
  <2>4. /\ q \in Early => read.polls = 0
        /\ q = "READY?" => read.polls < MaxPolls
    BY <2>2, <2>3, RetryAssumption
  <2>5. 0 \in 0 .. MaxRetries
    BY RetryAssumption
  <2> QED BY <1>3, <1>6, <2>2, <2>4, <2>5, SendQuerySound DEF q
<1>7. CASE asks /\ g = Failed(h, "INCOMPATIBLE_FIRMWARE")
  BY <1>7, FailedSound DEF States
<1> QED BY <1>1, <1>4, <1>5, <1>6, <1>7, BootstrapCompleteSound

LEMMA ExpiredSound ==
  ASSUME NEW h, Sound(h), h.state = "BOOTSTRAPPING", NEW g \in Expired(h)
  PROVE  Sound(g)
<1> DEFINE idle == [h EXCEPT !.ask = None]
<1>1. \/ g = Failed(h, "FAILED")
      \/ h.ask # None /\ ~(h.retries >= MaxRetries) /\ g \in SendQuery(idle, h.ask, h.retries + 1)
      \/ ~(h.polls >= MaxPolls) /\ g \in SendQuery(h, "READY?", 0)
  BY DEF Expired
<1>2. /\ Named(idle) /\ idle.state = "BOOTSTRAPPING" /\ idle.ask = None
      /\ idle.pref = h.pref /\ idle.retries = h.retries /\ idle.polls = h.polls
      /\ idle.seen = h.seen /\ idle.known = h.known /\ idle.sent = h.sent
  BY DEF Sound, Named
<1> HIDE DEF idle
<1>3. Sound(idle)
  BY <1>2 DEF Sound
<1>4. h.retries \in 0 .. MaxRetries /\ h.polls \in 0 .. MaxPolls /\ MaxRetries \in Nat /\ MaxPolls \in Nat
  BY RetryAssumption DEF Sound
<1>5. CASE h.ask # None /\ ~(h.retries >= MaxRetries) /\ g \in SendQuery(idle, h.ask, h.retries + 1)
  <2>1. h.retries + 1 \in 0 .. MaxRetries
    BY <1>4, <1>5
  <2>2. h.ask \in Questions
    BY <1>5 DEF Sound
  <2>3. (h.ask \in Early => idle.polls = 0) /\ (h.ask = "READY?" => idle.polls < MaxPolls)
    BY <1>2, <1>5 DEF Sound
  <2> QED BY <1>2, <1>3, <1>5, <2>1, <2>2, <2>3, SendQuerySound
<1>6. CASE ~(h.polls >= MaxPolls) /\ g \in SendQuery(h, "READY?", 0)
  <2>1. h.polls < MaxPolls /\ 0 \in 0 .. MaxRetries /\ "READY?" \notin Early
    BY <1>4, <1>6 DEF Early
  <2> QED BY <1>6, <2>1, SendQuerySound, QuestionsAreAsked
<1>7. CASE g = Failed(h, "FAILED")
  BY <1>7, FailedSound DEF States
<1> QED BY <1>1, <1>5, <1>6, <1>7

LEMMA ServeSound ==
  ASSUME NEW h, Sound(h), NEW m, NEW g \in Serve(h, m)
  PROVE  Sound(g)
<1>1. \A k \in Kinds : Alike(Applied(h, k, m), h)
  BY DEF Applied, Sound, Named, Alike
<1>2. \A k \in Kinds : Alike(Accepted(h, k, m), h)
  BY DEF Accepted, Sound, Named, Alike
<1>3. \A k \in Kinds : Alike(Rejected(h, k), h) /\ Alike(AfterRejected(Rejected(h, k)), h)
  BY DEF Rejected, AfterRejected, Sound, Named, Alike, PrefStates, Settled
<1>4. \A k \in Kinds : Alike(ReadBack(h, k, m.value), h)
  <2>1. \A k \in Kinds : h.seen \cup {k} \subseteq Readable /\ (h.seen \cup {k} = Readable) \in BOOLEAN
    BY DEF Sound, Kinds, Readable
  <2> QED BY <2>1 DEF ReadBack, SyncWith, Sound, Named, Alike
<1>5. Alike(SyncWith(h, "mode"), h)
  <2>1. h.seen \cup {"mode"} \subseteq Readable /\ (h.seen \cup {"mode"} = Readable) \in BOOLEAN
    BY DEF Sound, Readable
  <2> QED BY <2>1 DEF SyncWith, Sound, Named, Alike
<1>6. Alike(h, h) /\ Alike(Degraded(h), h) /\ Alike([h EXCEPT !.usb = m.value], h)
  BY DEF Degraded, Sound, Named, Alike
<1>7. Alike(ObserveBoot(h, m.value), h)
  BY DEF ObserveBoot, Sound, Named, Alike
<1>8. \/ Alike(g, h)
      \/ g \in Advance([h EXCEPT !.usb = m.value])
      \/ \E k \in Kinds : g \in Advance(Applied(h, k, m))
  <2>1. CASE m.kind \in {"BOOT?", "STATE?", "ROWS?", "ROWMODES?"}
    <3>1. Serve(h, m) \in {{ObserveBoot(h, m.value)}, {SyncWith(h, "mode")}, {Degraded(h)},
                           {ReadBack(h, "rows", m.value)}, {ReadBack(h, "modes", m.value)}}
      BY <2>1 DEF Serve
    <3> QED BY <1>4, <1>5, <1>6, <1>7, <3>1 DEF Kinds
  <2>2. CASE m.kind = "USBSTREAM?"
    <3>1. g \in UsbReported(h, m.value)
      BY <2>2 DEF Serve
    <3> QED BY <1>6, <3>1 DEF UsbReported
  <2>3. CASE m.kind \in {"RCMD", "RMACK"}
    <3>1. g \in {Accepted(h, "rows", m), Accepted(h, "modes", m)}
      BY <2>3 DEF Serve
    <3> QED BY <1>2, <3>1 DEF Kinds
  <2>4. CASE m.kind \in {"RAPP", "RMAPP"}
    <3>1. g \in AfterApplied(Applied(h, "rows", m)) \cup AfterApplied(Applied(h, "modes", m))
      BY <2>4 DEF Serve
    <3> QED BY <1>1, <3>1 DEF AfterApplied, Kinds
  <2>5. CASE m.kind \in {"ERR", "RMERR"}
    <3>1. g \in {AfterRejected(Rejected(h, "rows")), AfterRejected(Rejected(h, "modes"))}
      BY <2>5 DEF Serve
    <3> QED BY <1>3, <3>1 DEF Kinds
  <2>6. CASE m.kind \notin {"BOOT?", "STATE?", "ROWS?", "ROWMODES?", "USBSTREAM?", "RCMD", "RMACK", "RAPP",
                            "RMAPP", "ERR", "RMERR"}
    <3>1. g = h
      BY <2>6 DEF Serve
    <3> QED BY <1>6, <3>1
  <2> QED BY <2>1, <2>2, <2>3, <2>4, <2>5, <2>6
<1>9. Sound([h EXCEPT !.usb = m.value]) /\ \A k \in Kinds : Sound(Applied(h, k, m))
  BY <1>1, <1>6, AlikeSound
<1> QED BY <1>8, <1>9, AlikeSound, AdvanceSound

\* What one thread has decided and not yet done is a decision.
DomainInv ==
  /\ Sound(host) /\ host.sent = <<>> /\ Orders(toDevice)
  /\ api \in {"idle", "started"} \cup Decisions

LEMMA DomainInvImplies == DomainInv => TypeOK
<1> SUFFICES ASSUME DomainInv PROVE TypeOK
  OBVIOUS
<1>1. \A i \in DOMAIN toDevice : toDevice[i].kind \in Questions \cup DOMAIN Waiting
  <2>1. PICK S : toDevice \in Seq(S)
    BY DEF DomainInv, Orders, IsSeq
  <2>2. DOMAIN toDevice = 1 .. Len(toDevice)
    BY <2>1, LenProperties
  <2> QED BY <2>2 DEF DomainInv, Orders
<1> QED BY <1>1 DEF DomainInv, Sound, TypeOK

LEMMA InitDomain == Init => DomainInv
<1> SUFFICES ASSUME Init PROVE DomainInv
  OBVIOUS
<1>1. /\ Named(host) /\ host.state = "IDLE" /\ host.ask = None /\ host.waiting = FALSE
      /\ host.retries = 0 /\ host.polls = 0 /\ host.pref = "IDLE" /\ host.seen = {}
      /\ host.known = FALSE /\ host.sent = <<>>
  BY DEF Init, Named
<1>2. 0 \in 0 .. MaxRetries /\ 0 \in 0 .. MaxPolls
  BY RetryAssumption
<1>3. Sound(host)
  BY <1>1, <1>2, OrdersKept DEF Sound, States, PrefStates, Settled
<1>4. toDevice = <<>> /\ api = "idle"
  BY DEF Init
<1> QED BY <1>1, <1>3, <1>4, OrdersKept DEF DomainInv

LEMMA BecomesDomain ==
  ASSUME DomainInv, NEW h, Sound(h), Becomes(h)
  PROVE  Sound(host') /\ host'.sent = <<>> /\ Orders(toDevice')
<1>1. host' = [h EXCEPT !.sent = <<>>] /\ toDevice' = toDevice \o h.sent
  BY DEF Becomes
<1>2. /\ Named(host') /\ host'.state = h.state /\ host'.pref = h.pref /\ host'.ask = h.ask
      /\ host'.waiting = h.waiting /\ host'.retries = h.retries /\ host'.polls = h.polls
      /\ host'.seen = h.seen /\ host'.known = h.known /\ host'.sent = <<>>
  BY <1>1 DEF Sound, Named
<1>3. Sound(host')
  BY <1>2, OrdersKept DEF Sound
<1>4. Orders(toDevice')
  BY <1>1, OrdersKept DEF Sound, DomainInv
<1> QED BY <1>2, <1>3, <1>4

LEMMA ParseDomain ==
  ASSUME DomainInv, Parse
  PROVE  DomainInv'
<1> DEFINE m == Head(toHost)
<1>1. PICK h : Becomes(h) /\ Sound(h)
  <2>1. CASE m.kind = "STREAMING"
    <3>1. PICK h \in StartBootstrap(host) : Becomes(h)
      BY <2>1 DEF Parse
    <3> QED BY <3>1, StartBootstrapSound DEF DomainInv
  <2>2. CASE m.kind = "LOST"
    <3>1. Becomes(StopBootstrap(host))
      BY <2>2 DEF Parse
    <3> QED BY <3>1, StopBootstrapSound DEF DomainInv
  <2>3. CASE m.kind \notin {"STREAMING", "LOST"}
    <3>1. PICK g \in Synchronize(host, m) : \E h \in Serve(g, m) : Becomes(h)
      BY <2>3 DEF Parse
    <3>2. PICK h \in Serve(g, m) : Becomes(h)
      BY <3>1
    <3> HIDE DEF m
    <3>3. Sound(g)
      BY SynchronizeSound DEF DomainInv
    <3>4. Sound(h)
      BY <3>3, ServeSound
    <3> QED BY <3>2, <3>4
  <2> QED BY <2>1, <2>2, <2>3
<1>2. api' = api
  BY DEF Parse
<1> QED BY <1>1, <1>2, BecomesDomain DEF DomainInv

LEMMA ApiDomain ==
  ASSUME DomainInv, Api
  PROVE  DomainInv'
<1>1. CASE ApplyProfile
  <2>1. PICK w, r : host' = Started([host EXCEPT !.want = w, !.resume = r], TRUE)
    BY <1>1 DEF ApplyProfile
  <2>2. api' = "started" /\ toDevice' = toDevice
    BY <1>1 DEF ApplyProfile
  <2> DEFINE h == [host EXCEPT !.want = w, !.resume = r]
  <2>3. Alike(h, host) /\ h.sent = <<>>
    BY DEF DomainInv, Sound, Named, Alike
  <2> HIDE DEF h
  <2>4. Sound(h) /\ Started(h, TRUE).sent = <<>>
    BY <2>3, AlikeSound DEF DomainInv, Sound, Named, Started
  <2>5. Sound(host') /\ host'.sent = <<>>
    BY <2>1, <2>4, StartedSound DEF h
  <2> QED BY <2>2, <2>5 DEF DomainInv
<1>2. CASE ApiDecide
  <2>1. api' \in {"idle"} \cup Decisions
    BY <1>2, DecisionIs DEF ApiDecide
  <2>2. UNCHANGED <<host, toDevice>>
    BY <1>2 DEF ApiDecide
  <2> QED BY <2>1, <2>2 DEF DomainInv
<1>3. CASE ApiCarry
  <2>1. api \in Decisions /\ api' = "idle"
    BY <1>3 DEF ApiCarry, DomainInv
  <2>2. PICK h \in Carry(host, api) : Becomes(h)
    BY <1>3 DEF ApiCarry
  <2>3. Sound(h)
    BY <2>1, CarrySound DEF DomainInv
  <2> QED BY <2>1, <2>2, <2>3, BecomesDomain DEF DomainInv
<1>4. CASE RequestRows
  <2>1. PICK w :
          LET g == [host EXCEPT !.want.rows = w.rows]
              asked == [g EXCEPT !.pending.rows = w.rows, !.req.rows = None]
          IN \E h \in Written(asked, Command("rows", w.rows))
                      \cup {asked, [asked EXCEPT !.pending.rows = None]} : Becomes(h)
    BY <1>4 DEF RequestRows
  <2> DEFINE g == [host EXCEPT !.want.rows = w.rows]
             asked == [g EXCEPT !.pending.rows = w.rows, !.req.rows = None]
             refused == [asked EXCEPT !.pending.rows = None]
  <2>2. PICK h \in Written(asked, Command("rows", w.rows)) \cup {asked, refused} : Becomes(h)
    BY <2>1
  <2>3. Alike(g, host)
    BY DEF DomainInv, Sound, Named, Alike
  <2> HIDE DEF g
  <2>4. Alike(asked, host)
    BY <2>3 DEF Named, Alike
  <2> HIDE DEF asked
  <2>5. Alike(refused, host)
    BY <2>4 DEF Named, Alike
  <2> HIDE DEF refused
  <2>6. Sound(asked) /\ Sound(refused)
    BY <2>4, <2>5, AlikeSound DEF DomainInv
  <2>7. Command("rows", w.rows).kind \in DOMAIN Waiting
    BY DEF Command, Waiting
  <2>8. Sound(h)
    BY <2>2, <2>6, <2>7, WrittenSound
  <2>9. api' = api
    BY <1>4 DEF RequestRows
  <2> QED BY <2>2, <2>8, <2>9, BecomesDomain DEF DomainInv
<1> QED BY <1>1, <1>2, <1>3, <1>4 DEF Api

LEMMA DomainKept ==
  ASSUME DomainInv, [Next]_vars
  PROVE  DomainInv'
<1>1. CASE Parse
  BY <1>1, ParseDomain
<1>2. CASE Tick
  <2>1. PICK h \in Expired(host) : Becomes(h)
    BY <1>2 DEF Tick
  <2>2. host.state = "BOOTSTRAPPING" /\ api' = api
    BY <1>2 DEF Tick
  <2>3. Sound(h)
    BY <2>2, ExpiredSound DEF DomainInv
  <2> QED BY <2>1, <2>2, <2>3, BecomesDomain DEF DomainInv
<1>3. CASE Api
  BY <1>3, ApiDomain
<1>4. CASE Device
  <2>1. UNCHANGED <<host, api>> /\ toDevice # <<>> /\ toDevice' = Tail(toDevice)
    BY <1>4 DEF Device, DeviceAnswers, DeviceApplies, DeviceRejects
  <2> QED BY <2>1, OrdersKept DEF DomainInv
<1>5. CASE DeviceReady \/ DeviceRestarts \/ LinkLost \/ LinkUp \/ Takeover
  <2>1. UNCHANGED <<host, api>> /\ toDevice' \in {toDevice, <<>>}
    BY <1>5 DEF DeviceReady, DeviceRestarts, LinkLost, LinkUp, Takeover, Cut
  <2> QED BY <2>1, OrdersKept DEF DomainInv
<1>6. CASE UNCHANGED vars
  BY <1>6 DEF vars, DomainInv
<1> QED BY <1>1, <1>2, <1>3, <1>4, <1>5, <1>6 DEF Next

\* The state stays within its domain on every transport, whatever the limits on retries
\* and polls are: a question that is outstanding is one of the chain, polls are counted
\* by READY? alone, which is asked again only below the limit, and every command on its
\* way is a question or an order of the restore.
THEOREM TypeCorrect == Spec => []TypeOK
<1>1. ASSUME DomainInv, [Next]_vars PROVE DomainInv'
  BY <1>1, DomainKept
<1> QED BY <1>1, InitDomain, DomainInvImplies, PTL DEF Spec

-----------------------------------------------------------------------------
(* The boot on display.                                                    *)

\* The boot is known once an early question has been left behind.
LEMMA BootIsAsked ==
  /\ Last \notin Early
  /\ \A q \in Questions : q # Last /\ q \in Early /\ Follows(q) \notin Early => q = "BOOT?"
<1>1. PICK n : Staged(Chain, n)
  BY ChainStaged
<1>2. DOMAIN Chain = 1 .. Len(Chain) /\ Len(Chain) \in Nat /\ n \in 2 .. Len(Chain)
  BY <1>1, LenProperties DEF Staged
<1>3. Last \notin Early
  <2>1. Len(Chain) \in 1 .. Len(Chain) /\ (Len(Chain) = n \/ Len(Chain) > n)
    <3>1. \A k \in Nat : n \in 2 .. k => k \in 1 .. k /\ (k = n \/ k > n)
      OBVIOUS
    <3> QED BY <1>2, <3>1
  <2>2. Chain[Len(Chain)] \in Late \cup {"READY?"}
    BY <1>1, <2>1 DEF Staged
  <2> QED BY <2>2 DEF Last, Late, Early
<1>4. ASSUME NEW q \in Questions, q # Last, q \in Early, Follows(q) \notin Early
      PROVE  q = "BOOT?"
  <2> DEFINE i == CHOOSE i \in DOMAIN Chain : Chain[i] = q
  <2>1. i \in DOMAIN Chain /\ Chain[i] = q
    BY <1>4 DEF Questions
  <2>2. i # Len(Chain)
    BY <1>4, <2>1 DEF Last
  <2>3. Follows(q) = Chain[1 + i]
    BY DEF Follows
  <2> HIDE DEF i
  <2>4. 1 + i \in 1 .. Len(Chain) /\ i \in 1 .. Len(Chain) /\ n \in Nat
    BY <1>2, <2>1, <2>2
  <2>5. ~(i > n) /\ i # n
    BY <1>1, <1>4, <2>1, <2>4 DEF Staged, Late, Early
  <2>6. ~(1 + i < n)
    BY <1>1, <1>4, <2>3, <2>4 DEF Staged
  <2>7. i = n - 1
    BY <2>4, <2>5, <2>6
  <2> QED BY <1>1, <2>1, <2>7 DEF Staged
<1> QED BY <1>3, <1>4

\* The bootstrap has asked for the boot and has been answered.
Past(h) ==
  \/ h.state = "SYNCED"
  \/ h.state = "BOOTSTRAPPING" /\ h.ask # None /\ h.ask \notin Early
  \/ h.state = "BOOTSTRAPPING" /\ h.ask = None /\ h.waiting

Booted(h) == Named(h) /\ "bootId" \in DOMAIN h

\* g is where h is in the bootstrap, and knows the same boot.
Steady(g, h) ==
  /\ Booted(g) /\ g.state = h.state /\ g.ask = h.ask /\ g.waiting = h.waiting /\ g.bootId = h.bootId

LEMMA SteadyPast == \A g, h : Steady(g, h) => (Past(g) <=> Past(h)) /\ g.bootId = h.bootId /\ Booted(g)
  BY DEF Steady, Past

LEMMA SteadyTwice == \A f, g, h : Steady(f, g) /\ Steady(g, h) => Steady(f, h)
  BY DEF Steady

LEMMA CarrySteady ==
  ASSUME NEW h, Booted(h), NEW d, NEW g \in Carry(h, d)
  PROVE  Steady(g, h)
<1> DEFINE c == Command(d, h.want[d])
           begun == IF d = "usb" THEN h
                    ELSE [h EXCEPT !.pending[d] = h.want[d], !.req[d] = None]
           failed == [begun EXCEPT !.pref = "ERROR"]
           refused == IF d = "usb" THEN failed ELSE [failed EXCEPT !.pending[d] = None]
           waits == [begun EXCEPT !.pref = Waiting[d]]
           rejected == [h EXCEPT !.pref = "ERROR"]
           carried == [h EXCEPT !.pref = d]
<1>1. g \in Written(waits, c) \/ g \in Written(failed, c) \/ g \in {failed, refused, rejected, carried}
  BY DEF Carry, Ask
<1>2. Steady(begun, h)
  BY DEF Steady, Booted, Named
<1> HIDE DEF begun
<1>3. Steady(waits, h) /\ Steady(failed, h)
  BY <1>2 DEF Steady, Booted, Named
<1> HIDE DEF failed, waits
<1>4. Steady(refused, h)
  BY <1>3 DEF Steady, Booted, Named
<1>5. Steady(rejected, h) /\ Steady(carried, h)
  BY DEF Steady, Booted, Named
<1> HIDE DEF refused, rejected, carried, c
<1>6. ASSUME NEW x, Steady(x, h), NEW y \in Written(x, c)
      PROVE  Steady(y, h)
  <2>1. y = [x EXCEPT !.sent = Append(@, c)]
    BY <1>6 DEF Written
  <2> QED BY <1>6, <2>1 DEF Steady, Booted, Named
<1> QED BY <1>1, <1>3, <1>4, <1>5, <1>6

LEMMA AdvanceSteady ==
  ASSUME NEW h, Booted(h), NEW g \in Advance(h)
  PROVE  Steady(g, h)
<1>1. Steady(h, h)
  BY DEF Steady
<1> QED BY <1>1, CarrySteady DEF Advance

LEMMA BootstrapCompleteSteady ==
  ASSUME NEW h, Booted(h), NEW g \in OnBootstrapComplete(h)
  PROVE  Steady(g, h)
<1> DEFINE disabled == [h EXCEPT !.pref = "DISABLED", !.target = h.bootId, !.restore = FALSE]
           ready == [h EXCEPT !.pref = "READY"]
           d == IF h.bootChanged THEN disabled ELSE h
<1>1. \/ g \in Advance(Started(h, TRUE)) \/ g \in Advance(ready)
      \/ g \in Advance(Started(d, FALSE)) \/ g = d
  BY DEF OnBootstrapComplete
<1>2. Steady(h, h) /\ Steady(disabled, h) /\ Steady(ready, h)
  BY DEF Steady, Booted, Named
<1> HIDE DEF disabled, ready
<1>3. Steady(d, h)
  BY <1>2
<1> HIDE DEF d
<1>4. ASSUME NEW x, Steady(x, h), NEW r PROVE Steady(Started(x, r), h)
  BY <1>4 DEF Started, Steady, Booted, Named
<1>5. ASSUME NEW x, Steady(x, h), NEW y \in Advance(x) PROVE Steady(y, h)
  <2>1. Steady(y, x)
    BY <1>5, AdvanceSteady DEF Steady
  <2> QED BY <1>5, <2>1, SteadyTwice
<1> QED BY <1>1, <1>2, <1>3, <1>4, <1>5

LEMMA ServeSteady ==
  ASSUME NEW h, Booted(h), NEW m, NEW g \in Serve(h, m)
  PROVE  /\ Booted(g) /\ (Past(g) <=> Past(h))
         /\ g.bootId = IF IsBoot(m) THEN m.value ELSE h.bootId
<1>1. CASE IsBoot(m)
  <2>1. g = ObserveBoot(h, m.value)
    BY <1>1 DEF Serve, IsBoot
  <2>2. /\ Booted(g) /\ g.bootId = m.value /\ g.state = h.state /\ g.ask = h.ask
        /\ g.waiting = h.waiting
    BY <2>1 DEF ObserveBoot, Booted, Named
  <2> QED BY <1>1, <2>2 DEF Past
<1>2. CASE ~IsBoot(m)
  <2>1. \A k \in Kinds : Steady(Applied(h, k, m), h)
    BY DEF Applied, Steady, Booted, Named
  <2>2. \A k \in Kinds : Steady(Accepted(h, k, m), h)
    BY DEF Accepted, Steady, Booted, Named
  <2>3. \A k \in Kinds : Steady(Rejected(h, k), h) /\ Steady(AfterRejected(Rejected(h, k)), h)
    BY DEF Rejected, AfterRejected, Steady, Booted, Named
  <2>4. \A k \in Kinds : Steady(ReadBack(h, k, m.value), h)
    BY DEF ReadBack, SyncWith, Steady, Booted, Named
  <2>5. Steady(h, h) /\ Steady(SyncWith(h, "mode"), h) /\ Steady(Degraded(h), h)
        /\ Steady([h EXCEPT !.usb = m.value], h)
    BY DEF SyncWith, Degraded, Steady, Booted, Named
  <2>6. \/ Steady(g, h)
        \/ g \in Advance([h EXCEPT !.usb = m.value])
        \/ \E k \in Kinds : g \in Advance(Applied(h, k, m))
    <3>1. CASE m.kind \in {"STATE?", "ROWS?", "ROWMODES?"}
      <4>1. Serve(h, m) \in {{SyncWith(h, "mode")}, {Degraded(h)},
                             {ReadBack(h, "rows", m.value)}, {ReadBack(h, "modes", m.value)}}
        BY <3>1 DEF Serve
      <4> QED BY <2>4, <2>5, <4>1 DEF Kinds
    <3>2. CASE m.kind = "USBSTREAM?"
      <4>1. g \in UsbReported(h, m.value)
        BY <3>2 DEF Serve
      <4> QED BY <2>5, <4>1 DEF UsbReported
    <3>3. CASE m.kind \in {"RCMD", "RMACK"}
      <4>1. g \in {Accepted(h, "rows", m), Accepted(h, "modes", m)}
        BY <3>3 DEF Serve
      <4> QED BY <2>2, <4>1 DEF Kinds
    <3>4. CASE m.kind \in {"RAPP", "RMAPP"}
      <4>1. g \in AfterApplied(Applied(h, "rows", m)) \cup AfterApplied(Applied(h, "modes", m))
        BY <3>4 DEF Serve
      <4> QED BY <2>1, <4>1 DEF AfterApplied, Kinds
    <3>5. CASE m.kind \in {"ERR", "RMERR"}
      <4>1. g \in {AfterRejected(Rejected(h, "rows")), AfterRejected(Rejected(h, "modes"))}
        BY <3>5 DEF Serve
      <4> QED BY <2>3, <4>1 DEF Kinds
    <3>6. CASE m.kind \notin {"STATE?", "ROWS?", "ROWMODES?", "USBSTREAM?", "RCMD", "RMACK", "RAPP",
                              "RMAPP", "ERR", "RMERR"}
      <4>1. g = h
        BY <1>2, <3>6 DEF Serve, IsBoot
      <4> QED BY <2>5, <4>1
    <3> QED BY <3>1, <3>2, <3>3, <3>4, <3>5, <3>6
  <2>7. ASSUME NEW x, Steady(x, h), NEW y \in Advance(x) PROVE Steady(y, h)
    <3>1. Steady(y, x)
      BY <2>7, AdvanceSteady DEF Steady
    <3> QED BY <2>7, <3>1, SteadyTwice
  <2>8. Steady(g, h)
    BY <2>1, <2>5, <2>6, <2>7
  <2> QED BY <1>2, <2>8, SteadyPast
<1> QED BY <1>1, <1>2

\* Only the answer to BOOT? leads past the early questions.
LEMMA SynchronizePast ==
  ASSUME NEW h, Sound(h), Booted(h), NEW m, NEW g \in Synchronize(h, m)
  PROVE  /\ Booted(g) /\ g.bootId = h.bootId
         /\ Past(g) => Past(h) \/ IsBoot(m)
<1> DEFINE read == IF m.kind = "USBSTREAM?" THEN [h EXCEPT !.usbRead = m.value] ELSE h
           synced == [read EXCEPT !.ask = None, !.state = "SYNCED"]
           asks == h.state = "BOOTSTRAPPING" /\ h.ask # None /\ m.kind = h.ask
<1>1. \/ g = h
      \/ asks /\ g = Failed(h, "INCOMPATIBLE_FIRMWARE")
      \/ asks /\ m.kind = "READY?" /\ g = PollLater(h)
      \/ asks /\ m.kind = Last /\ g \in OnBootstrapComplete(synced)
      \/ asks /\ m.kind # Last /\ g \in SendQuery(read, Follows(m.kind), 0)
  BY DEF Synchronize, Completed
<1>2. asks /\ m.kind \notin Early => Past(h)
  BY DEF Past
<1>3. Steady(read, h)
  BY DEF Steady, Booted, Named
<1> HIDE DEF read
<1>4. Booted(synced) /\ synced.bootId = h.bootId
  BY <1>3 DEF Steady, Booted, Named
<1> HIDE DEF synced
<1>5. CASE asks /\ g = Failed(h, "INCOMPATIBLE_FIRMWARE")
  BY <1>5 DEF Failed, Past, Booted, Named
<1>6. CASE asks /\ m.kind = "READY?" /\ g = PollLater(h)
  <2>1. Booted(g) /\ g.bootId = h.bootId
    BY <1>6 DEF PollLater, Booted, Named
  <2>2. m.kind \notin Early
    BY <1>6 DEF Early
  <2> QED BY <1>2, <1>6, <2>1, <2>2
<1>7. CASE asks /\ m.kind = Last /\ g \in OnBootstrapComplete(synced)
  <2>1. Steady(g, synced)
    BY <1>4, <1>7, BootstrapCompleteSteady
  <2>2. m.kind \notin Early
    BY <1>7, BootIsAsked
  <2> QED BY <1>2, <1>4, <1>7, <2>1, <2>2 DEF Steady
<1>8. CASE asks /\ m.kind # Last /\ g \in SendQuery(read, Follows(m.kind), 0)
  <2> DEFINE q == Follows(m.kind)
             asked == [read EXCEPT !.ask = q, !.waiting = FALSE, !.retries = 0]
  <2>1. m.kind \in Questions
    BY <1>8 DEF Sound
  <2>2. q \notin Early => m.kind \notin Early \/ m.kind = "BOOT?"
    BY <1>8, <2>1, BootIsAsked
  <2>3. g \in Written(asked, Command(q, None)) \cup {Failed(read, "FAILED"), asked}
    BY <1>8 DEF SendQuery
  <2> HIDE DEF q
  <2>4. /\ Booted(asked) /\ asked.bootId = h.bootId /\ asked.state = "BOOTSTRAPPING"
        /\ asked.ask = q /\ asked.waiting = FALSE
    BY <1>3, <1>8 DEF Steady, Booted, Named
  <2> HIDE DEF asked
  <2>5. CASE g = Failed(read, "FAILED")
    BY <1>3, <2>5 DEF Failed, Past, Steady, Booted, Named
  <2>6. CASE g # Failed(read, "FAILED")
    <3>1. Booted(g) /\ g.bootId = h.bootId /\ g.state = "BOOTSTRAPPING" /\ g.ask = q /\ g.waiting = FALSE
      BY <2>3, <2>4, <2>6 DEF Written, Booted, Named
    <3>2. Past(g) => q \notin Early
      BY <3>1 DEF Past
    <3> QED BY <1>2, <1>8, <2>2, <3>1, <3>2 DEF IsBoot
  <2> QED BY <2>5, <2>6
<1> QED BY <1>1, <1>5, <1>6, <1>7, <1>8

\* No start or end of a link is on its way.
Clear(q) == \A i \in 1 .. Len(q) : ~IsState(q[i])

\* Reports of other boots than b, and the end of a link, are behind the start of a
\* later one.
Current(q, b) ==
  /\ IsSeq(q)
  /\ \A i \in 1 .. Len(q) :
       q[i].kind = "LOST" \/ (IsBoot(q[i]) /\ q[i].value # b) =>
         \E j \in 1 .. Len(q) : i < j /\ q[j].kind = "STREAMING"

LEMMA CurrentTail ==
  ASSUME NEW q, NEW b, Current(q, b), q # <<>>
  PROVE  /\ Current(Tail(q), b)
         /\ Clear(Tail(q)) => /\ Head(q).kind # "LOST" /\ (IsBoot(Head(q)) => Head(q).value = b)
                              /\ Head(q).kind # "STREAMING" => Clear(q)
<1>1. /\ IsSeq(Tail(q)) /\ Len(q) \in Nat \ {0} /\ Len(Tail(q)) = Len(q) - 1 /\ Head(q) = q[1]
      /\ \A i \in 1 .. Len(Tail(q)) : i + 1 \in 1 .. Len(q) /\ Tail(q)[i] = q[i + 1]
  BY SeqTail DEF Current
<1> DEFINE r == Tail(q)
<1> HIDE DEF r
<1>2. /\ IsSeq(r) /\ Len(q) \in Nat \ {0} /\ Len(r) = Len(q) - 1 /\ Head(q) = q[1]
      /\ \A i \in 1 .. Len(r) : i + 1 \in 1 .. Len(q) /\ r[i] = q[i + 1]
  BY <1>1 DEF r
<1>3. \A j \in 1 .. Len(q) : j = 1 \/ (j - 1 \in 1 .. Len(r) /\ q[j] = r[j - 1])
  <2>1. \A j \in 1 .. Len(q) : j = 1 \/ (j - 1 \in 1 .. Len(r) /\ (j - 1) + 1 = j)
    BY <1>2
  <2> QED BY <1>2, <2>1
<1>4. Current(r, b)
  <2>1. SUFFICES ASSUME NEW i \in 1 .. Len(r), r[i].kind = "LOST" \/ (IsBoot(r[i]) /\ r[i].value # b)
                 PROVE  \E j \in 1 .. Len(r) : i < j /\ r[j].kind = "STREAMING"
    BY <1>2 DEF Current
  <2>2. PICK j \in 1 .. Len(q) : i + 1 < j /\ q[j].kind = "STREAMING"
    BY <1>2, <2>1 DEF Current
  <2>3. j # 1 /\ i < j - 1
    BY <1>2, <2>2
  <2> QED BY <1>3, <2>2, <2>3
<1>5. ASSUME Clear(r)
      PROVE  /\ Head(q).kind # "LOST" /\ (IsBoot(Head(q)) => Head(q).value = b)
             /\ Head(q).kind # "STREAMING" => Clear(q)
  <2>1. \A j \in 1 .. Len(q) : 1 < j => ~IsState(q[j])
    <3>1. \A j \in 1 .. Len(q) : 1 < j => j # 1
      BY <1>2
    <3> QED BY <1>3, <1>5, <3>1 DEF Clear
  <2>2. \A j \in 1 .. Len(q) : 1 < j => q[j].kind # "STREAMING"
    BY <2>1 DEF IsState
  <2>3. 1 \in 1 .. Len(q)
    BY <1>2
  <2>4. Head(q).kind # "LOST" /\ (IsBoot(Head(q)) => Head(q).value = b)
    BY <1>2, <2>2, <2>3 DEF Current
  <2>5. \A j \in 1 .. Len(q) : j = 1 \/ 1 < j
    BY <1>2
  <2> QED BY <1>2, <2>1, <2>4, <2>5 DEF Clear, IsState
<1> QED BY <1>4, <1>5 DEF r

LEMMA CurrentAppend ==
  ASSUME NEW q, NEW b, NEW m, IsSeq(q), m.kind # "LOST", IsBoot(m) => m.value = b,
         Current(q, b) \/ m.kind = "STREAMING"
  PROVE  Current(Append(q, m), b) /\ (Clear(Append(q, m)) => Clear(q) /\ ~IsState(m))
<1> DEFINE r == Append(q, m)
           n == Len(q) + 1
<1>1. /\ IsSeq(r) /\ Len(q) \in Nat /\ Len(r) = n
      /\ \A i \in 1 .. Len(q) : r[i] = q[i]
      /\ r[n] = m
  BY SeqExtended
<1> HIDE DEF r
<1>2. \A i \in 1 .. n : (i \in 1 .. Len(q) /\ i < n) \/ i = n
  BY <1>1
<1>3. n \in 1 .. n /\ \A i \in 1 .. Len(q) : i \in 1 .. n
  BY <1>1
<1>4. Current(r, b)
  <2>1. SUFFICES ASSUME NEW i \in 1 .. n, r[i].kind = "LOST" \/ (IsBoot(r[i]) /\ r[i].value # b)
                 PROVE  \E j \in 1 .. n : i < j /\ r[j].kind = "STREAMING"
    BY <1>1 DEF Current
  <2>2. i \in 1 .. Len(q) /\ i < n
    BY <1>1, <1>2, <2>1
  <2>3. CASE m.kind = "STREAMING"
    BY <1>1, <1>3, <2>2, <2>3
  <2>4. CASE Current(q, b)
    <3>1. PICK j \in 1 .. Len(q) : i < j /\ q[j].kind = "STREAMING"
      BY <1>1, <2>1, <2>2, <2>4 DEF Current
    <3> QED BY <1>1, <1>3, <3>1
  <2> QED BY <2>3, <2>4
<1>5. Clear(r) => Clear(q) /\ ~IsState(m)
  BY <1>1, <1>3 DEF Clear
<1> QED BY <1>4, <1>5 DEF r

\* Under a link without a restart: what is on its way ends in the present boot, and
\* once the start of the link is handled, a bootstrap past BOOT? knows that boot.
OnDisplay == Current(toHost, dev.boot) /\ (Clear(toHost) /\ Past(host) => host.bootId = dev.boot)

DisplayInv ==
  /\ Sound(host) /\ "bootId" \in DOMAIN host /\ IsSeq(toHost)
  /\ "up" \in DOMAIN link /\ "intact" \in DOMAIN link /\ "boot" \in DOMAIN dev
  /\ link.up /\ link.intact => OnDisplay

LEMMA DisplayInvImplies == DisplayInv => KnowsTheBoot
<1> SUFFICES ASSUME DisplayInv, UpToDate, host.state = "SYNCED" PROVE host.bootId = dev.boot
  BY DEF KnowsTheBoot
<1>1. PICK S : toHost \in Seq(S)
  BY DEF DisplayInv, IsSeq
<1>2. Clear(toHost)
  BY <1>1, LenProperties DEF UpToDate, Clear
<1> QED BY <1>2 DEF DisplayInv, OnDisplay, Past, UpToDate

LEMMA InitDisplay == Init => DisplayInv
<1> SUFFICES ASSUME Init PROVE DisplayInv
  OBVIOUS
<1>1. Sound(host)
  BY InitDomain DEF DomainInv
<1>2. "bootId" \in DOMAIN host /\ toHost = <<>> /\ "up" \in DOMAIN link /\ "intact" \in DOMAIN link
      /\ link.up = FALSE /\ "boot" \in DOMAIN dev
  BY DEF Init
<1> QED BY <1>1, <1>2, EmptyIsSeq DEF DisplayInv

\* A step of the host, whose queue may have become shorter.
LEMMA HostDisplay ==
  ASSUME DisplayInv, Sound(host'), NEW h, Booted(h), Becomes(h), UNCHANGED <<link, dev>>,
         IsSeq(toHost'),
         link.up /\ link.intact => Current(toHost', dev.boot)
                                   /\ (Clear(toHost') /\ Past(h) => h.bootId = dev.boot)
  PROVE  DisplayInv'
<1>1. /\ "bootId" \in DOMAIN host' /\ host'.bootId = h.bootId /\ host'.state = h.state
      /\ host'.ask = h.ask /\ host'.waiting = h.waiting
  BY DEF Becomes, Booted, Named
<1>2. Past(host') <=> Past(h)
  BY <1>1 DEF Past
<1> QED BY <1>1, <1>2 DEF DisplayInv, OnDisplay

LEMMA SendQueryBooted ==
  ASSUME NEW h, Booted(h), NEW q, NEW n, NEW g \in SendQuery(h, q, n)
  PROVE  /\ Booted(g) /\ g.bootId = h.bootId
         /\ g.state = "FAILED" \/ (g.state = h.state /\ g.ask = q /\ ~g.waiting)
<1> DEFINE asked == [h EXCEPT !.ask = q, !.waiting = FALSE, !.retries = n]
<1>1. g \in Written(asked, Command(q, None)) \cup {Failed(h, "FAILED"), asked}
  BY DEF SendQuery
<1>2. Booted(asked) /\ asked.bootId = h.bootId /\ asked.state = h.state /\ asked.ask = q /\ asked.waiting = FALSE
  BY DEF Booted, Named
<1> HIDE DEF asked
<1>3. CASE g = Failed(h, "FAILED")
  BY <1>3 DEF Failed, Booted, Named
<1>4. CASE g # Failed(h, "FAILED")
  <2>1. /\ Booted(g) /\ g.bootId = h.bootId /\ g.state = h.state
        /\ g.ask = q /\ g.waiting = FALSE
    BY <1>1, <1>2, <1>4 DEF Written, Booted, Named
  <2> QED BY <2>1
<1> QED BY <1>3, <1>4

LEMMA ParseDisplay ==
  ASSUME DisplayInv, Sound(host'), Parse
  PROVE  DisplayInv'
<1> DEFINE m == Head(toHost)
           b == dev.boot
<1>1. toHost # <<>> /\ toHost' = Tail(toHost) /\ UNCHANGED <<link, dev>>
  BY DEF Parse
<1>2. IsSeq(toHost') /\ Booted(host) /\ Sound(host)
  BY <1>1, SeqTail DEF DisplayInv, Booted, Sound
<1>3. link.up /\ link.intact =>
        /\ Current(toHost', b)
        /\ Clear(toHost') => /\ m.kind # "LOST" /\ (IsBoot(m) => m.value = b)
                             /\ m.kind # "STREAMING" => Clear(toHost)
  BY <1>1, CurrentTail DEF DisplayInv, OnDisplay
<1>4. PICK h : /\ Becomes(h) /\ Booted(h)
               /\ link.up /\ link.intact => (Clear(toHost') /\ Past(h) => h.bootId = b)
  <2>1. CASE m.kind = "STREAMING"
    <3>1. PICK h \in StartBootstrap(host) : Becomes(h)
      BY <2>1 DEF Parse
    <3> DEFINE fresh == [host EXCEPT !.known = FALSE, !.seen = {}, !.state = "BOOTSTRAPPING", !.ask = None,
                                     !.polls = 0, !.usbRead = None]
    <3>2. h \in SendQuery(fresh, "PROTO?", 0)
      BY <3>1 DEF StartBootstrap
    <3>3. Booted(fresh) /\ fresh.state = "BOOTSTRAPPING"
      BY <1>2 DEF Booted, Named
    <3> HIDE DEF fresh
    <3>4. Booted(h) /\ (h.state = "FAILED" \/ (h.state = "BOOTSTRAPPING" /\ h.ask = "PROTO?" /\ ~h.waiting))
      BY <3>2, <3>3, SendQueryBooted
    <3>5. ~Past(h)
      BY <3>4 DEF Past, Early
    <3> QED BY <3>1, <3>4, <3>5
  <2>2. CASE m.kind = "LOST"
    <3>1. Becomes(StopBootstrap(host))
      BY <2>2 DEF Parse
    <3>2. Booted(StopBootstrap(host))
      BY <1>2 DEF StopBootstrap, Booted, Named
    <3> QED BY <1>3, <2>2, <3>1, <3>2
  <2>3. CASE m.kind \notin {"STREAMING", "LOST"}
    <3>1. PICK g \in Synchronize(host, m) : \E h \in Serve(g, m) : Becomes(h)
      BY <2>3 DEF Parse
    <3>2. PICK h \in Serve(g, m) : Becomes(h)
      BY <3>1
    <3> HIDE DEF m
    <3>3. Booted(g) /\ g.bootId = host.bootId /\ (Past(g) => Past(host) \/ IsBoot(m))
      BY <1>2, SynchronizePast
    <3>4. Booted(h) /\ (Past(h) <=> Past(g)) /\ h.bootId = IF IsBoot(m) THEN m.value ELSE g.bootId
      BY <3>3, ServeSteady
    <3>5. ASSUME link.up, link.intact, Clear(toHost'), Past(h) PROVE h.bootId = b
      <4>1. Clear(toHost) /\ (IsBoot(m) => m.value = b)
        BY <1>3, <2>3, <3>5 DEF m
      <4>2. CASE IsBoot(m)
        BY <3>4, <4>1, <4>2
      <4>3. CASE ~IsBoot(m)
        <5>1. Past(host) /\ h.bootId = host.bootId
          BY <3>3, <3>4, <3>5, <4>3
        <5> QED BY <3>5, <4>1, <5>1 DEF DisplayInv, OnDisplay
      <4> QED BY <4>2, <4>3
    <3> QED BY <3>2, <3>4, <3>5
  <2> QED BY <2>1, <2>2, <2>3
<1> QED BY <1>1, <1>2, <1>3, <1>4, HostDisplay

LEMMA TickDisplay ==
  ASSUME DisplayInv, Sound(host'), Tick
  PROVE  DisplayInv'
<1>1. PICK h \in Expired(host) : Becomes(h)
  BY DEF Tick
<1>2. UNCHANGED <<toHost, link, dev>> /\ host.state = "BOOTSTRAPPING" /\ (host.ask # None \/ host.waiting)
  BY DEF Tick, environment
<1>3. Booted(host)
  BY DEF DisplayInv, Sound, Booted
<1> DEFINE idle == [host EXCEPT !.ask = None]
<1>4. \/ h = Failed(host, "FAILED")
      \/ host.ask # None /\ h \in SendQuery(idle, host.ask, host.retries + 1)
      \/ host.ask = None /\ h \in SendQuery(host, "READY?", 0)
      \/ h = Failed(host, "FAILED")
  BY DEF Expired
<1>5. Booted(idle) /\ idle.bootId = host.bootId /\ idle.state = host.state
  BY <1>3 DEF Booted, Named
<1> HIDE DEF idle
<1>6. Booted(h) /\ h.bootId = host.bootId /\ (Past(h) => Past(host))
  <2>1. CASE h = Failed(host, "FAILED")
    BY <1>3, <2>1 DEF Failed, Past, Booted, Named
  <2>2. CASE host.ask # None /\ h \in SendQuery(idle, host.ask, host.retries + 1)
    <3>1. /\ Booted(h) /\ h.bootId = host.bootId
          /\ h.state = "FAILED" \/ (h.state = "BOOTSTRAPPING" /\ h.ask = host.ask /\ ~h.waiting)
      BY <1>2, <1>5, <2>2, SendQueryBooted
    <3> QED BY <1>2, <2>2, <3>1 DEF Past
  <2>3. CASE host.ask = None /\ h \in SendQuery(host, "READY?", 0)
    <3>1. Past(host)
      BY <1>2, <2>3 DEF Past
    <3> QED BY <1>3, <2>3, <3>1, SendQueryBooted
  <2> QED BY <1>4, <2>1, <2>2, <2>3
<1>7. IsSeq(toHost') /\ (link.up /\ link.intact => Current(toHost', dev.boot)
        /\ (Clear(toHost') /\ Past(h) => h.bootId = dev.boot))
  BY <1>2, <1>6 DEF DisplayInv, OnDisplay
<1> QED BY <1>1, <1>2, <1>6, <1>7, HostDisplay

LEMMA ApiDisplay ==
  ASSUME DisplayInv, Sound(host'), Api
  PROVE  DisplayInv'
<1>1. UNCHANGED <<toHost, link, dev>> /\ Booted(host)
  BY DEF DisplayInv, Sound, Booted, Api, ApplyProfile, ApiDecide, ApiCarry, RequestRows, environment
<1>2. "bootId" \in DOMAIN host' /\ host'.bootId = host.bootId /\ (Past(host') <=> Past(host))
  <2>1. CASE ApiDecide
    BY <1>1, <2>1 DEF ApiDecide, Booted
  <2>2. CASE ApplyProfile
    <3>1. PICK w, r : host' = Started([host EXCEPT !.want = w, !.resume = r], TRUE)
      BY <2>2 DEF ApplyProfile
    <3>2. Steady(host', host)
      BY <1>1, <3>1 DEF Started, Steady, Booted, Named
    <3> QED BY <3>2, SteadyPast DEF Booted
  <2>3. CASE ApiCarry
    <3>1. PICK h \in Carry(host, api) : Becomes(h)
      BY <2>3 DEF ApiCarry
    <3>2. Steady(h, host)
      BY <1>1, CarrySteady
    <3>3. Steady(host', host)
      BY <3>1, <3>2 DEF Becomes, Steady, Booted, Named
    <3> QED BY <3>3, SteadyPast DEF Booted
  <2>4. CASE RequestRows
    <3>1. PICK w :
            LET g == [host EXCEPT !.want.rows = w.rows]
                asked == [g EXCEPT !.pending.rows = w.rows, !.req.rows = None]
            IN \E h \in Written(asked, Command("rows", w.rows))
                        \cup {asked, [asked EXCEPT !.pending.rows = None]} : Becomes(h)
      BY <2>4 DEF RequestRows
    <3> DEFINE g == [host EXCEPT !.want.rows = w.rows]
               asked == [g EXCEPT !.pending.rows = w.rows, !.req.rows = None]
               refused == [asked EXCEPT !.pending.rows = None]
    <3>2. PICK h \in Written(asked, Command("rows", w.rows)) \cup {asked, refused} : Becomes(h)
      BY <3>1
    <3>3. Steady(g, host)
      BY <1>1 DEF Steady, Booted, Named
    <3> HIDE DEF g
    <3>4. Steady(asked, host)
      BY <3>3 DEF Steady, Booted, Named
    <3> HIDE DEF asked
    <3>5. Steady(refused, host)
      BY <3>4 DEF Steady, Booted, Named
    <3> HIDE DEF refused
    <3>6. Steady(h, host)
      BY <3>2, <3>4, <3>5 DEF Written, Steady, Booted, Named
    <3>7. Steady(host', host)
      BY <3>2, <3>6 DEF Becomes, Steady, Booted, Named
    <3> QED BY <3>7, SteadyPast DEF Booted
  <2> QED BY <2>1, <2>2, <2>3, <2>4 DEF Api
<1> QED BY <1>1, <1>2 DEF DisplayInv, OnDisplay

LEMMA CurrentJoined ==
  ASSUME NEW q, NEW b, NEW r, Current(q, b), IsSeq(r), \A i \in 1 .. Len(r) : r[i].kind \in Announced
  PROVE  Current(q \o r, b) /\ (Clear(q \o r) => Clear(q))
<1> DEFINE s == q \o r
           n == Len(q) + Len(r)
<1>1. /\ IsSeq(s) /\ Len(q) \in Nat /\ Len(r) \in Nat /\ Len(s) = n
      /\ \A i \in 1 .. n : s[i] = IF i <= Len(q) THEN q[i] ELSE r[i - Len(q)]
  BY SeqJoined DEF Current
<1> HIDE DEF s
<1>2. /\ \A i \in 1 .. n : IF i <= Len(q) THEN i \in 1 .. Len(q) ELSE i - Len(q) \in 1 .. Len(r)
      /\ \A i \in 1 .. Len(q) : i \in 1 .. n /\ i <= Len(q)
  BY <1>1
<1>3. \A i \in 1 .. Len(q) : s[i] = q[i]
  BY <1>1, <1>2
<1>4. Current(s, b)
  <2>1. SUFFICES ASSUME NEW i \in 1 .. n, s[i].kind = "LOST" \/ (IsBoot(s[i]) /\ s[i].value # b)
                 PROVE  \E j \in 1 .. n : i < j /\ s[j].kind = "STREAMING"
    BY <1>1 DEF Current
  <2>2. i \in 1 .. Len(q) /\ s[i] = q[i]
    BY <1>1, <1>2, <2>1 DEF Announced, IsBoot
  <2>3. PICK j \in 1 .. Len(q) : i < j /\ q[j].kind = "STREAMING"
    BY <2>1, <2>2 DEF Current
  <2> QED BY <1>2, <1>3, <2>3
<1>5. Clear(s) => Clear(q)
  BY <1>1, <1>2, <1>3 DEF Clear
<1> QED BY <1>4, <1>5 DEF s

LEMMA DeviceDisplay ==
  ASSUME DomainInv, DisplayInv, Device
  PROVE  DisplayInv'
<1>1. /\ UNCHANGED <<host, link>> /\ "boot" \in DOMAIN dev' /\ dev'.boot = dev.boot /\ IsSeq(toHost)
  BY DEF DisplayInv, Device, DeviceAnswers, DeviceApplies, DeviceRejects, environment
<1>2. /\ IsSeq(toHost')
      /\ Current(toHost, dev.boot) => Current(toHost', dev.boot) /\ (Clear(toHost') => Clear(toHost))
  <2>1. CASE DeviceAnswers \/ DeviceRejects
    <3>1. PICK x : toHost' = Append(toHost, x) /\ x.kind # "LOST" /\ (IsBoot(x) => x.value = dev.boot)
      <4>1. CASE DeviceRejects
        BY <4>1 DEF DeviceRejects, Said, Report, IsBoot
      <4>2. CASE DeviceAnswers
        <5> DEFINE k == Head(toDevice).kind
        <5>1. toHost' = Append(toHost, Said(k, Answer(k)))
          BY <4>2 DEF DeviceAnswers
        <5>2. Said(k, Answer(k)).kind = k /\ (k = "BOOT?" => Said(k, Answer(k)).value = dev.boot)
          BY DEF Said, Report, Answer
        <5>3. k # "LOST"
          <6>1. Orders(toDevice) /\ toDevice # <<>> /\ k \notin DOMAIN Waiting
            BY <4>2 DEF DeviceAnswers, DomainInv
          <6>2. k \in Questions
            <7>1. Len(toDevice) \in Nat \ {0} /\ Head(toDevice) = toDevice[1]
              BY <6>1, SeqTail DEF Orders
            <7>2. 1 \in 1 .. Len(toDevice)
              BY <7>1
            <7> QED BY <6>1, <7>1, <7>2 DEF Orders
          <6> QED BY <6>2, QuestionsAreAsked DEF AllQuestions
        <5> QED BY <5>1, <5>2, <5>3 DEF IsBoot
      <4> QED BY <2>1, <4>1, <4>2
    <3>2. IsSeq(toHost')
      BY <1>1, <3>1, SeqExtended
    <3>3. Current(toHost, dev.boot) => Current(toHost', dev.boot) /\ (Clear(toHost') => Clear(toHost))
      BY <1>1, <3>1, CurrentAppend
    <3> QED BY <3>2, <3>3
  <2>2. CASE DeviceApplies
    <3>1. PICK k, v : toHost' = toHost \o Transaction(k, v)
      BY <2>2 DEF DeviceApplies
    <3> DEFINE r == Transaction(k, v)
    <3>2. IsSeq(r) /\ \A i \in 1 .. Len(r) : r[i].kind \in Announced
      BY TransactionIs
    <3> HIDE DEF r
    <3>3. toHost' = toHost \o r
      BY <3>1 DEF r
    <3>4. IsSeq(toHost')
      BY <1>1, <3>2, <3>3, SeqJoined
    <3> QED BY <3>2, <3>3, <3>4, CurrentJoined
  <2> QED BY <2>1, <2>2 DEF Device
<1> QED BY <1>1, <1>2 DEF DisplayInv, OnDisplay, Past, Sound

LEMMA LinkDisplay ==
  ASSUME DisplayInv, DeviceReady \/ DeviceRestarts \/ LinkLost \/ LinkUp \/ Takeover
  PROVE  DisplayInv'
<1>1. Sound(host') /\ "bootId" \in DOMAIN host' /\ host' = host
  BY DEF DisplayInv, DeviceReady, DeviceRestarts, LinkLost, LinkUp, Takeover
<1>2. ASSUME Cut
      PROVE  IsSeq(toHost') /\ "up" \in DOMAIN link' /\ "intact" \in DOMAIN link' /\ ~link'.up
  <2>1. PICK n \in 0 .. Len(toHost) : toHost' = Append(SubSeq(toHost, 1, n), Said("LOST", None))
    BY <1>2 DEF Cut
  <2>2. IsSeq(toHost')
    BY <2>1, SeqCut, SeqExtended DEF DisplayInv
  <2> QED BY <1>2, <2>2 DEF Cut, DisplayInv
<1>3. CASE DeviceReady \/ Takeover
  <2>1. UNCHANGED <<toHost, link>> /\ "boot" \in DOMAIN dev' /\ dev'.boot = dev.boot
    BY <1>3 DEF DeviceReady, Takeover, DisplayInv
  <2> QED BY <1>1, <2>1 DEF DisplayInv, OnDisplay
<1>4. CASE LinkLost
  <2>1. Cut /\ dev' = dev
    BY <1>4 DEF LinkLost
  <2> QED BY <1>1, <1>2, <2>1 DEF DisplayInv
<1>5. CASE LinkUp
  <2>1. /\ toHost' = Append(toHost, Said("STREAMING", None)) /\ dev' = dev
        /\ "up" \in DOMAIN link' /\ "intact" \in DOMAIN link'
    BY <1>5 DEF LinkUp
  <2>2. Said("STREAMING", None).kind = "STREAMING"
    BY DEF Said, Report
  <2>3. IsState(Said("STREAMING", None))
    BY <2>2 DEF IsState
  <2>4. IsSeq(toHost') /\ Current(toHost', dev.boot) /\ ~Clear(toHost')
    <3>1. IsSeq(toHost)
      BY DEF DisplayInv
    <3> QED BY <2>1, <2>2, <2>3, <3>1, SeqExtended, CurrentAppend DEF IsBoot
  <2> QED BY <1>1, <2>1, <2>4 DEF DisplayInv, OnDisplay
<1>6. CASE DeviceRestarts
  <2>1. "boot" \in DOMAIN dev'
    BY <1>6 DEF DeviceRestarts, DisplayInv
  <2>2. CASE Cut
    BY <1>1, <1>2, <2>1, <2>2 DEF DisplayInv
  <2>3. CASE ~link.up /\ UNCHANGED <<link, toDevice, toHost>>
    BY <1>1, <2>1, <2>3 DEF DisplayInv
  <2>4. CASE link' = [link EXCEPT !.intact = FALSE]
             /\ toHost' = Append(toHost, Said("BOOT?", dev.boot + 1))
    <3>1. IsSeq(toHost') /\ "up" \in DOMAIN link' /\ "intact" \in DOMAIN link' /\ ~link'.intact
      BY <2>4, SeqExtended DEF DisplayInv
    <3> QED BY <1>1, <2>1, <3>1 DEF DisplayInv
  <2> QED BY <1>6, <2>2, <2>3, <2>4 DEF DeviceRestarts
<1> QED BY <1>3, <1>4, <1>5, <1>6

LEMMA DisplayKept ==
  ASSUME DomainInv, DisplayInv, [Next]_vars
  PROVE  DisplayInv'
<1>1. Sound(host')
  BY DomainKept DEF DomainInv
<1>2. CASE UNCHANGED vars
  BY <1>2 DEF vars, DisplayInv, OnDisplay
<1> QED BY <1>1, <1>2, ParseDisplay, TickDisplay, ApiDisplay, DeviceDisplay, LinkDisplay DEF Next

\* When the link has come up and its start is handled, a completed bootstrap shows the
\* boot of the device: no report that was on its way before the link, and no answer to
\* an earlier bootstrap, is taken for it, however many links and restarts there were.
THEOREM BootOnDisplay == Spec => []KnowsTheBoot
<1>1. ASSUME DomainInv, DisplayInv, [Next]_vars PROVE DomainInv' /\ DisplayInv'
  BY <1>1, DomainKept, DisplayKept
<1> QED BY <1>1, InitDomain, InitDisplay, DisplayInvImplies, PTL DEF Spec

-----------------------------------------------------------------------------
(* COMPLETE.                                                               *)

Reads == [rows |-> {"ROWS?", "RAPP"}, modes |-> {"ROWMODES?", "RMAPP"}]

\* Orders to change settings are for the preferences w.
Wishes(q, w) == IsSeq(q) /\ \A i \in 1 .. Len(q) : Measured(q[i]) => q[i].value = w[q[i].kind]

\* A report of the setting k being the preferred one is true of the settings s.
Honest(m, s, w) ==
  \A k \in Kinds : m.kind \in Reads[k] /\ m.value = w[k] => s[k] = w[k]

\* So is every report behind the last start or end of a link.
AllHonest(q, s, w) ==
  /\ IsSeq(q)
  /\ \A i \in 1 .. Len(q) :
       (\A j \in 1 .. Len(q) : i <= j => ~IsState(q[j])) => Honest(q[i], s, w)

Sincere(s, w) == \A k \in Kinds : s[k] = w[k]

\* The fields that the completion of a restore depends on.
Shown(h) ==
  /\ "state" \in DOMAIN h /\ "known" \in DOMAIN h /\ "seen" \in DOMAIN h /\ "active" \in DOMAIN h
  /\ "want" \in DOMAIN h /\ "pref" \in DOMAIN h /\ "restore" \in DOMAIN h /\ "sent" \in DOMAIN h
  /\ Kinds \subseteq DOMAIN h.active

\* If t, what the host has read back is true where it is what is wanted; the host has
\* everything read back when it says so; and unless p, it is complete only with s.
Candid(h, w, s, t, p) ==
  /\ Shown(h) /\ h.want = w
  /\ h.known => h.seen = Readable
  /\ t => \A k \in Kinds : k \in h.seen /\ h.active[k] = w[k] => s[k] = w[k]
  /\ h.pref = "COMPLETE" /\ h.restore /\ t => p \/ Sincere(s, w)
  /\ Wishes(h.sent, w)

\* g shows the same settings as h, and is complete only if h is.
Resembles(g, h) ==
  /\ Shown(g) /\ g.want = h.want /\ g.known = h.known /\ g.seen = h.seen /\ g.active = h.active
  /\ g.sent = h.sent
  /\ g.pref = "COMPLETE" /\ g.restore => h.pref = "COMPLETE" /\ h.restore

LEMMA ResemblesCandid ==
  \A g, h, w, s, t, p : Candid(h, w, s, t, p) /\ Resembles(g, h) => Candid(g, w, s, t, p)
  BY DEF Candid, Resembles

LEMMA WishesKept ==
  /\ \A w : Wishes(<<>>, w)
  /\ \A w, q, c : Wishes(q, w) /\ (Measured(c) => c.value = w[c.kind]) => Wishes(Append(q, c), w)
  /\ \A w, q, r : Wishes(q, w) /\ Wishes(r, w) => Wishes(q \o r, w)
  /\ \A w, q : Wishes(q, w) /\ q # <<>> =>
       Wishes(Tail(q), w) /\ (Measured(Head(q)) => Head(q).value = w[Head(q).kind])
<1>1. \A w : Wishes(<<>>, w)
  BY EmptyIsSeq DEF Wishes
<1>2. ASSUME NEW w, NEW q, NEW c, Wishes(q, w), Measured(c) => c.value = w[c.kind]
      PROVE  Wishes(Append(q, c), w)
  <2>1. /\ IsSeq(Append(q, c)) /\ Len(q) \in Nat /\ Len(Append(q, c)) = Len(q) + 1
        /\ \A i \in 1 .. Len(q) : Append(q, c)[i] = q[i]
        /\ Append(q, c)[Len(q) + 1] = c
    BY <1>2, SeqExtended DEF Wishes
  <2>2. \A i \in 1 .. Len(q) + 1 : i \in 1 .. Len(q) \/ i = Len(q) + 1
    BY <2>1
  <2> QED BY <1>2, <2>1, <2>2 DEF Wishes
<1>3. ASSUME NEW w, NEW q, NEW r, Wishes(q, w), Wishes(r, w)
      PROVE  Wishes(q \o r, w)
  <2>1. /\ IsSeq(q \o r) /\ Len(q) \in Nat /\ Len(r) \in Nat /\ Len(q \o r) = Len(q) + Len(r)
        /\ \A i \in 1 .. Len(q) + Len(r) : (q \o r)[i] = IF i <= Len(q) THEN q[i] ELSE r[i - Len(q)]
    BY <1>3, SeqJoined DEF Wishes
  <2>2. \A i \in 1 .. Len(q) + Len(r) : IF i <= Len(q) THEN i \in 1 .. Len(q) ELSE i - Len(q) \in 1 .. Len(r)
    BY <2>1
  <2> QED BY <1>3, <2>1, <2>2 DEF Wishes
<1>4. ASSUME NEW w, NEW q, Wishes(q, w), q # <<>>
      PROVE  Wishes(Tail(q), w) /\ (Measured(Head(q)) => Head(q).value = w[Head(q).kind])
  <2>1. /\ IsSeq(Tail(q)) /\ Len(q) \in Nat \ {0} /\ Len(Tail(q)) = Len(q) - 1 /\ Head(q) = q[1]
        /\ \A i \in 1 .. Len(Tail(q)) : i + 1 \in 1 .. Len(q) /\ Tail(q)[i] = q[i + 1]
    BY <1>4, SeqTail DEF Wishes
  <2>2. 1 \in 1 .. Len(q)
    BY <2>1
  <2> QED BY <1>4, <2>1, <2>2 DEF Wishes
<1> QED BY <1>1, <1>2, <1>3, <1>4

LEMMA WrittenCandid ==
  ASSUME NEW w, NEW s, NEW t, NEW p, NEW h, Candid(h, w, s, t, p), NEW c,
         Measured(c) => c.value = w[c.kind], NEW g \in Written(h, c)
  PROVE  Candid(g, w, s, t, p)
<1>1. g = [h EXCEPT !.sent = Append(@, c)]
  BY DEF Written
<1>2. /\ Shown(g) /\ g.want = h.want /\ g.known = h.known /\ g.seen = h.seen /\ g.active = h.active
      /\ g.pref = h.pref /\ g.restore = h.restore /\ g.sent = Append(h.sent, c)
  BY <1>1 DEF Candid, Shown
<1>3. Wishes(g.sent, w)
  BY <1>2, WishesKept DEF Candid
<1> QED BY <1>2, <1>3 DEF Candid

LEMMA SendQueryCandid ==
  ASSUME NEW w, NEW s, NEW t, NEW p, NEW h, Candid(h, w, s, t, p), NEW q \in Questions, NEW n,
         NEW g \in SendQuery(h, q, n)
  PROVE  Candid(g, w, s, t, p)
<1> DEFINE asked == [h EXCEPT !.ask = q, !.waiting = FALSE, !.retries = n]
           failed == Failed(h, "FAILED")
<1>1. g \in Written(asked, Command(q, None)) \cup {failed, asked}
  BY DEF SendQuery
<1>2. Resembles(asked, h) /\ Resembles(failed, h)
  BY DEF Candid, Shown, Resembles, Failed
<1> HIDE DEF asked, failed
<1>3. ~Measured(Command(q, None))
  BY QuestionsAreAsked DEF Measured, Command, Kinds, AllQuestions
<1> QED BY <1>1, <1>2, <1>3, WrittenCandid, ResemblesCandid

LEMMA AskCandid ==
  ASSUME NEW w, NEW s, NEW t, NEW p, NEW h, Candid(h, w, s, t, p), NEW k \in DOMAIN Waiting,
         NEW g \in Ask(h, k)
  PROVE  Candid(g, w, s, t, p)
<1> DEFINE c == Command(k, h.want[k])
           begun == IF k = "usb" THEN h
                    ELSE [h EXCEPT !.pending[k] = h.want[k], !.req[k] = None]
           failed == [begun EXCEPT !.pref = "ERROR"]
           refused == IF k = "usb" THEN failed ELSE [failed EXCEPT !.pending[k] = None]
           waits == [begun EXCEPT !.pref = Waiting[k]]
           rejected == [h EXCEPT !.pref = "ERROR"]
<1>1. g \in Written(waits, c) \/ g \in Written(failed, c) \/ g \in {failed, refused, rejected}
  BY DEF Ask
<1>2. Resembles(begun, h)
  BY DEF Candid, Shown, Resembles
<1> HIDE DEF begun
<1>3. Waiting[k] # "COMPLETE"
  BY DEF Waiting
<1>4. Resembles(waits, h) /\ Resembles(failed, h)
  BY <1>2, <1>3 DEF Shown, Resembles
<1> HIDE DEF failed, waits
<1>5. Resembles(refused, h)
  BY <1>4 DEF Shown, Resembles
<1>6. Resembles(rejected, h)
  BY DEF Candid, Shown, Resembles
<1> HIDE DEF refused, rejected
<1>7. Measured(c) => c.value = w[c.kind]
  BY DEF Command, Candid
<1> HIDE DEF c
<1>8. Candid(waits, w, s, t, p) /\ Candid(failed, w, s, t, p)
      /\ Candid(refused, w, s, t, p) /\ Candid(rejected, w, s, t, p)
  BY <1>4, <1>5, <1>6, ResemblesCandid
<1> QED BY <1>1, <1>7, <1>8, WrittenCandid

\* A restore is complete only when everything has been read back and is as wanted.
LEMMA AdvanceCandid ==
  ASSUME NEW w, NEW s, NEW t, NEW p, NEW h, Candid(h, w, s, t, p), NEW g \in Advance(h)
  PROVE  Candid(g, w, s, t, p)
<1> DEFINE d == Decision(h)
<1>1. CASE g \in Carry(h, d)
  <2>1. d = "COMPLETE" => h.known /\ (h.restore => h.active.rows = h.want.rows /\ h.active.modes = h.want.modes)
    BY DEF Decision
  <2> HIDE DEF d
  <2>2. CASE d \in DOMAIN Waiting
    BY <1>1, <2>2, AskCandid DEF Carry
  <2>3. CASE d \notin DOMAIN Waiting
    <3>1. g = [h EXCEPT !.pref = d]
      BY <1>1, <2>3 DEF Carry
    <3>2. /\ Shown(g) /\ g.want = h.want /\ g.known = h.known /\ g.seen = h.seen
          /\ g.active = h.active /\ g.pref = d /\ g.restore = h.restore /\ g.sent = h.sent
      BY <3>1 DEF Candid, Shown
    <3>3. d = "COMPLETE" /\ h.restore /\ t => Sincere(s, w)
      <4>1. \A k \in Kinds : k \in Readable /\ (k = "rows" \/ k = "modes")
        BY DEF Kinds, Readable
      <4> QED BY <2>1, <4>1 DEF Candid, Sincere
    <3> QED BY <3>2, <3>3 DEF Candid
  <2> QED BY <2>2, <2>3
<1> QED BY <1>1 DEF Advance

LEMMA BootstrapCompleteCandid ==
  ASSUME NEW w, NEW s, NEW t, NEW p, NEW h, Candid(h, w, s, t, p), NEW g \in OnBootstrapComplete(h)
  PROVE  Candid(g, w, s, t, p)
<1> DEFINE disabled == [h EXCEPT !.pref = "DISABLED", !.target = h.bootId, !.restore = FALSE]
           ready == [h EXCEPT !.pref = "READY"]
           d == IF h.bootChanged THEN disabled ELSE h
<1>1. \/ g \in Advance(Started(h, TRUE)) \/ g \in Advance(ready)
      \/ g \in Advance(Started(d, FALSE)) \/ g = d
  BY DEF OnBootstrapComplete
<1>2. Resembles(disabled, h) /\ Resembles(ready, h)
  BY DEF Candid, Shown, Resembles
<1> HIDE DEF disabled, ready
<1>3. Candid(ready, w, s, t, p) /\ Candid(d, w, s, t, p)
  BY <1>2, ResemblesCandid
<1> HIDE DEF d
<1>4. ASSUME NEW x, Candid(x, w, s, t, p), NEW r PROVE Candid(Started(x, r), w, s, t, p)
  <2>1. Resembles(Started(x, r), x)
    BY <1>4 DEF Started, Candid, Shown, Resembles
  <2> QED BY <1>4, <2>1, ResemblesCandid
<1> QED BY <1>1, <1>3, <1>4, AdvanceCandid

LEMMA SynchronizeCandid ==
  ASSUME NEW w, NEW s, NEW t, NEW p, NEW h, Candid(h, w, s, t, p), Sound(h), NEW m,
         NEW g \in Synchronize(h, m)
  PROVE  Candid(g, w, s, t, p)
<1> DEFINE read == IF m.kind = "USBSTREAM?" THEN [h EXCEPT !.usbRead = m.value] ELSE h
           synced == [read EXCEPT !.ask = None, !.state = "SYNCED"]
           failed == Failed(h, "INCOMPATIBLE_FIRMWARE")
           later == PollLater(h)
<1>1. \/ g \in {h, failed, later}
      \/ g \in OnBootstrapComplete(synced)
      \/ g \in SendQuery(read, Follows(m.kind), 0) /\ m.kind = h.ask /\ h.ask # None /\ m.kind # Last
  BY DEF Synchronize, Completed
<1>2. Resembles(read, h) /\ Resembles(failed, h) /\ Resembles(later, h)
  BY DEF Candid, Shown, Resembles, Failed, PollLater
<1> HIDE DEF read, failed, later
<1>3. Resembles(synced, h)
  BY <1>2 DEF Shown, Resembles
<1> HIDE DEF synced
<1>4. Candid(read, w, s, t, p) /\ Candid(synced, w, s, t, p) /\ Candid(failed, w, s, t, p)
      /\ Candid(later, w, s, t, p)
  BY <1>2, <1>3, ResemblesCandid
<1>5. CASE g \in SendQuery(read, Follows(m.kind), 0) /\ m.kind = h.ask /\ h.ask # None /\ m.kind # Last
  <2>1. Follows(m.kind) \in Questions
    BY <1>5, QuestionsAreAsked DEF Sound
  <2> QED BY <1>4, <1>5, <2>1, SendQueryCandid
<1> QED BY <1>1, <1>4, <1>5, BootstrapCompleteCandid

\* An honest report keeps what is shown true.
LEMMA ServeCandid ==
  ASSUME NEW w, NEW s, NEW t \in BOOLEAN, NEW p, NEW h, Candid(h, w, s, t, p), NEW m, t => Honest(m, s, w),
         NEW g \in Serve(h, m)
  PROVE  Candid(g, w, s, t, p)
<1>1. ASSUME NEW k \in Kinds, m.kind \in Reads[k]
      PROVE  Candid(ReadBack(h, k, m.value), w, s, t, p)
  <2> DEFINE x == [h EXCEPT !.active[k] = m.value, !.pending[k] = None,
                            !.req[k] = IF k = "modes" THEN None ELSE @]
             y == ReadBack(h, k, m.value)
  <2>1. /\ Shown(x) /\ x.want = h.want /\ x.seen = h.seen /\ x.pref = h.pref /\ x.restore = h.restore
        /\ x.sent = h.sent /\ x.active = [h.active EXCEPT ![k] = m.value]
    BY DEF Candid, Shown
  <2>2. y = [x EXCEPT !.seen = x.seen \cup {k}, !.known = (x.seen \cup {k} = Readable)]
    BY DEF ReadBack, SyncWith
  <2> HIDE DEF x, y
  <2>3. /\ Shown(y) /\ y.want = h.want /\ y.seen = h.seen \cup {k} /\ y.known = (y.seen = Readable)
        /\ y.pref = h.pref /\ y.restore = h.restore /\ y.sent = h.sent /\ y.active = x.active
    BY <2>1, <2>2 DEF Shown
  <2>4. y.active[k] = m.value /\ \A l \in Kinds \ {k} : y.active[l] = h.active[l]
    BY <2>1, <2>3 DEF Candid, Shown
  <2>5. t => \A l \in Kinds : l \in y.seen /\ y.active[l] = w[l] => s[l] = w[l]
    BY <1>1, <2>3, <2>4 DEF Honest, Candid
  <2>6. Candid(y, w, s, t, p)
    BY <2>3, <2>5 DEF Candid
  <2> QED BY <2>6 DEF y
<1>2. ASSUME NEW k \in Kinds, m.kind \in Reads[k]
      PROVE  Candid(Applied(h, k, m), w, s, t, p)
  <2> DEFINE y == [h EXCEPT !.active[k] = m.value, !.pending[k] = None,
                            !.req[k] = IF k = "rows" THEN None ELSE @]
  <2>1. /\ Shown(y) /\ y.want = h.want /\ y.seen = h.seen /\ y.known = h.known /\ y.pref = h.pref
        /\ y.restore = h.restore /\ y.sent = h.sent /\ y.active = [h.active EXCEPT ![k] = m.value]
    BY DEF Candid, Shown
  <2>2. Applied(h, k, m) \in {y, h}
    BY DEF Applied
  <2> HIDE DEF y
  <2>3. y.active[k] = m.value /\ \A l \in Kinds \ {k} : y.active[l] = h.active[l]
    BY <2>1 DEF Candid, Shown
  <2>4. t => \A l \in Kinds : l \in y.seen /\ y.active[l] = w[l] => s[l] = w[l]
    BY <1>2, <2>1, <2>3 DEF Honest, Candid
  <2>5. Candid(y, w, s, t, p)
    BY <2>1, <2>4 DEF Candid
  <2> QED BY <2>2, <2>5
<1>3. ASSUME NEW k \in Kinds
      PROVE  Resembles(Accepted(h, k, m), h) /\ Resembles(AfterRejected(Rejected(h, k)), h)
  BY DEF Accepted, Rejected, AfterRejected, Candid, Shown, Resembles
<1>4. Resembles(h, h) /\ Resembles([h EXCEPT !.usb = m.value], h)
  BY DEF Candid, Shown, Resembles
<1>5. Candid(SyncWith(h, "mode"), w, s, t, p)
  <2> DEFINE y == SyncWith(h, "mode")
  <2>1. /\ Shown(y) /\ y.want = h.want /\ y.seen = h.seen \cup {"mode"} /\ y.known = (y.seen = Readable)
        /\ y.pref = h.pref /\ y.restore = h.restore /\ y.sent = h.sent /\ y.active = h.active
    BY DEF SyncWith, Candid, Shown
  <2> HIDE DEF y
  <2>2. \A l \in Kinds : l \in y.seen => l \in h.seen
    BY <2>1 DEF Kinds
  <2>3. Candid(y, w, s, t, p)
    BY <2>1, <2>2 DEF Candid
  <2> QED BY <2>3 DEF y
<1>6. Candid(Degraded(h), w, s, t, p) /\ Candid(ObserveBoot(h, m.value), w, s, t, p)
  <2>1. ASSUME NEW y \in {Degraded(h), ObserveBoot(h, m.value)}
        PROVE  /\ Shown(y) /\ y.want = h.want /\ y.seen = h.seen /\ y.known = FALSE
               /\ y.pref = h.pref /\ y.restore = h.restore /\ y.sent = h.sent /\ y.active = h.active
    BY <2>1 DEF Degraded, ObserveBoot, Candid, Shown
  <2> QED BY <2>1 DEF Candid
<1>7. \A x : Resembles(x, h) => Candid(x, w, s, t, p)
  BY ResemblesCandid
<1>8. \A x : Candid(x, w, s, t, p) => \A y \in Advance(x) : Candid(y, w, s, t, p)
  BY AdvanceCandid
<1>9. CASE m.kind \in {"BOOT?", "STATE?"}
  <2>1. g \in {ObserveBoot(h, m.value), SyncWith(h, "mode"), Degraded(h)}
    BY <1>9 DEF Serve
  <2> QED BY <1>5, <1>6, <2>1
<1>10. CASE m.kind \in {"ROWS?", "ROWMODES?"}
  <2>1. \E k \in Kinds : m.kind \in Reads[k] /\ g = ReadBack(h, k, m.value)
    BY <1>10 DEF Serve, Kinds, Reads
  <2> QED BY <1>1, <2>1
<1>11. CASE m.kind = "USBSTREAM?"
  <2>1. g \in UsbReported(h, m.value)
    BY <1>11 DEF Serve
  <2> QED BY <1>4, <1>7, <1>8, <2>1 DEF UsbReported
<1>12. CASE m.kind \in {"RCMD", "RMACK"}
  <2>1. \E k \in Kinds : g = Accepted(h, k, m)
    BY <1>12 DEF Serve, Kinds
  <2> QED BY <1>3, <1>7, <2>1
<1>13. CASE m.kind \in {"RAPP", "RMAPP"}
  <2>1. \E k \in Kinds : m.kind \in Reads[k] /\ g \in AfterApplied(Applied(h, k, m))
    BY <1>13 DEF Serve, Kinds, Reads
  <2> QED BY <1>2, <1>8, <2>1 DEF AfterApplied
<1>14. CASE m.kind \in {"ERR", "RMERR"}
  <2>1. \E k \in Kinds : g = AfterRejected(Rejected(h, k))
    BY <1>14 DEF Serve, Kinds
  <2> QED BY <1>3, <1>7, <2>1
<1>15. CASE m.kind \notin {"BOOT?", "STATE?", "ROWS?", "ROWMODES?", "USBSTREAM?", "RCMD", "RMACK", "RAPP",
                           "RMAPP", "ERR", "RMERR"}
  <2>1. g = h
    BY <1>15 DEF Serve
  <2> QED BY <2>1
<1> QED BY <1>9, <1>10, <1>11, <1>12, <1>13, <1>14, <1>15

LEMMA StartBootstrapCandid ==
  ASSUME NEW w, NEW s, NEW t, NEW p, NEW h, Candid(h, w, s, FALSE, p), h.pref = "COMPLETE" => p,
         NEW g \in StartBootstrap(h)
  PROVE  Candid(g, w, s, t, p)
<1> DEFINE fresh == [h EXCEPT !.known = FALSE, !.seen = {}, !.state = "BOOTSTRAPPING", !.ask = None,
                              !.polls = 0, !.usbRead = None]
<1>1. g \in SendQuery(fresh, "PROTO?", 0)
  BY DEF StartBootstrap
<1>2. /\ Shown(fresh) /\ fresh.want = h.want /\ fresh.seen = {} /\ fresh.known = FALSE
      /\ fresh.pref = h.pref /\ fresh.restore = h.restore /\ fresh.sent = h.sent
  BY DEF Candid, Shown
<1> HIDE DEF fresh
<1>3. Candid(fresh, w, s, t, p)
  BY <1>2 DEF Candid
<1> QED BY <1>1, <1>3, SendQueryCandid, QuestionsAreAsked

LEMMA StopBootstrapCandid ==
  ASSUME NEW w, NEW s, NEW t, NEW p, NEW h, Candid(h, w, s, t, p)
  PROVE  Candid(StopBootstrap(h), w, s, t, p)
<1>1. Resembles(StopBootstrap(h), h)
  BY DEF StopBootstrap, Candid, Shown, Resembles
<1> QED BY <1>1, ResemblesCandid

LEMMA ExpiredCandid ==
  ASSUME NEW w, NEW s, NEW t, NEW p, NEW h, Candid(h, w, s, t, p), Sound(h), NEW g \in Expired(h)
  PROVE  Candid(g, w, s, t, p)
<1> DEFINE idle == [h EXCEPT !.ask = None]
           failed == Failed(h, "FAILED")
<1>1. \/ g = failed
      \/ g \in SendQuery(idle, h.ask, h.retries + 1) /\ h.ask # None
      \/ g \in SendQuery(h, "READY?", 0)
  BY DEF Expired
<1>2. Resembles(failed, h) /\ Resembles(idle, h)
  BY DEF Failed, Candid, Shown, Resembles
<1> HIDE DEF idle, failed
<1>3. Candid(failed, w, s, t, p) /\ Candid(idle, w, s, t, p)
  BY <1>2, ResemblesCandid
<1>4. h.ask # None => h.ask \in Questions
  BY DEF Sound
<1> QED BY <1>1, <1>3, <1>4, QuestionsAreAsked, SendQueryCandid

LEMMA HonestTail ==
  ASSUME NEW s, NEW w, NEW q, AllHonest(q, s, w), q # <<>>
  PROVE  /\ AllHonest(Tail(q), s, w)
         /\ Clear(q) => Honest(Head(q), s, w) /\ Clear(Tail(q))
<1> DEFINE r == Tail(q)
<1>1. /\ IsSeq(r) /\ Len(q) \in Nat \ {0} /\ Len(r) = Len(q) - 1 /\ Head(q) = q[1]
      /\ \A i \in 1 .. Len(r) : i + 1 \in 1 .. Len(q) /\ r[i] = q[i + 1]
  BY SeqTail DEF AllHonest
<1> HIDE DEF r
<1>2. \A i \in 1 .. Len(r), j \in 1 .. Len(q) : i + 1 <= j => j - 1 \in 1 .. Len(r) /\ i <= j - 1 /\ (j - 1) + 1 = j
  BY <1>1
<1>3. ASSUME NEW i \in 1 .. Len(r), \A j \in 1 .. Len(r) : i <= j => ~IsState(r[j])
      PROVE  Honest(r[i], s, w)
  <2>1. ASSUME NEW j \in 1 .. Len(q), i + 1 <= j PROVE ~IsState(q[j])
    <3>1. j - 1 \in 1 .. Len(r) /\ i <= j - 1 /\ r[j - 1] = q[j]
      BY <1>1, <1>2, <2>1
    <3> QED BY <1>3, <3>1
  <2> QED BY <1>1, <2>1 DEF AllHonest
<1>4. 1 \in 1 .. Len(q)
  BY <1>1
<1>5. Clear(q) => Honest(Head(q), s, w) /\ Clear(r)
  BY <1>1, <1>4 DEF AllHonest, Clear
<1> QED BY <1>1, <1>3, <1>5 DEF AllHonest, r

\* Settings that are as wanted stay so, and the reports that join are honest.
LEMMA HonestJoined ==
  ASSUME NEW s, NEW v, NEW w, NEW q, AllHonest(q, s, w), \A k \in Kinds : s[k] = w[k] => v[k] = w[k],
         NEW r, IsSeq(r), \A i \in 1 .. Len(r) : Honest(r[i], v, w)
  PROVE  AllHonest(q \o r, v, w)
<1> DEFINE x == q \o r
           n == Len(q) + Len(r)
<1>1. /\ IsSeq(x) /\ Len(q) \in Nat /\ Len(r) \in Nat /\ Len(x) = n
      /\ \A i \in 1 .. n : x[i] = IF i <= Len(q) THEN q[i] ELSE r[i - Len(q)]
  BY SeqJoined DEF AllHonest
<1> HIDE DEF x
<1>2. /\ \A i \in 1 .. n : IF i <= Len(q) THEN i \in 1 .. Len(q) ELSE i - Len(q) \in 1 .. Len(r)
      /\ \A i \in 1 .. Len(q) : i \in 1 .. n /\ i <= Len(q)
  BY <1>1
<1>3. \A i \in 1 .. Len(q) : x[i] = q[i]
  BY <1>1, <1>2
<1>4. ASSUME NEW i \in 1 .. n, \A j \in 1 .. n : i <= j => ~IsState(x[j])
      PROVE  Honest(x[i], v, w)
  <2>1. CASE i <= Len(q)
    <3>1. i \in 1 .. Len(q) /\ \A j \in 1 .. Len(q) : i <= j => ~IsState(q[j])
      BY <1>2, <1>3, <1>4, <2>1
    <3>2. Honest(q[i], s, w) /\ x[i] = q[i]
      BY <1>3, <3>1 DEF AllHonest
    <3> QED BY <3>2 DEF Honest
  <2>2. CASE ~(i <= Len(q))
    BY <1>1, <1>2, <2>2
  <2> QED BY <2>1, <2>2
<1>5. AllHonest(x, v, w)
  BY <1>1, <1>4 DEF AllHonest
<1> QED BY <1>5 DEF x

LEMMA HonestAppend ==
  ASSUME NEW s, NEW w, NEW q, NEW m,
         (AllHonest(q, s, w) /\ Honest(m, s, w)) \/ (IsSeq(q) /\ IsState(m))
  PROVE  AllHonest(Append(q, m), s, w) /\ (Clear(Append(q, m)) => Clear(q) /\ ~IsState(m))
<1> DEFINE r == Append(q, m)
           n == Len(q) + 1
<1>1. /\ IsSeq(r) /\ Len(q) \in Nat /\ Len(r) = n
      /\ \A i \in 1 .. Len(q) : r[i] = q[i]
      /\ r[n] = m
  BY SeqExtended DEF AllHonest
<1> HIDE DEF r
<1>2. /\ \A i \in 1 .. n : i <= n /\ (i \in 1 .. Len(q) \/ i = n)
      /\ n \in 1 .. n /\ \A i \in 1 .. Len(q) : i \in 1 .. n
  BY <1>1
<1>3. ASSUME NEW i \in 1 .. n, \A j \in 1 .. n : i <= j => ~IsState(r[j])
      PROVE  Honest(r[i], s, w)
  <2>1. ~IsState(m)
    BY <1>1, <1>2, <1>3
  <2>2. CASE i = n
    BY <1>1, <2>1, <2>2
  <2>3. CASE i \in 1 .. Len(q)
    <3>1. \A j \in 1 .. Len(q) : i <= j => ~IsState(q[j])
      BY <1>1, <1>2, <1>3
    <3> QED BY <1>1, <2>1, <2>3, <3>1 DEF AllHonest
  <2> QED BY <1>2, <2>2, <2>3
<1>4. AllHonest(r, s, w)
  BY <1>1, <1>3 DEF AllHonest
<1>5. Clear(r) => Clear(q) /\ ~IsState(m)
  BY <1>1, <1>2 DEF Clear
<1> QED BY <1>4, <1>5 DEF r

\* What a transaction reports is what it has set.
LEMMA HonestTransaction ==
  ASSUME NEW k \in DOMAIN Waiting, NEW v, NEW s, NEW w, k \in Kinds => s[k] = v
  PROVE  \A i \in 1 .. Len(Transaction(k, v)) : Honest(Transaction(k, v)[i], s, w)
<1> DEFINE id == dev.txn + 1
           old == dev.set[k]
           r == Transaction(k, v)
<1>1. ASSUME NEW x, NEW y, Honest(x, s, w), Honest(y, s, w), r = <<x, y>> \/ r = <<x>>
      PROVE  \A i \in 1 .. Len(r) : Honest(r[i], s, w)
  <2>1. r \in Seq({x, y})
    <3>1. <<x, y>> \in Seq({x, y}) /\ <<x>> \in Seq({x, y})
      OBVIOUS
    <3> HIDE DEF r
    <3> QED BY <1>1, <3>1
  <2>2. \A i \in 1 .. Len(r) : r[i] \in {x, y}
    BY <2>1, ElementOfSeq
  <2> QED BY <1>1, <2>2
<1>2. CASE k = "rows"
  <2> DEFINE x == Report("RCMD", v, id, old)
             y == Report("RAPP", v, id, old)
  <2>1. r = <<x, y>>
    BY <1>2 DEF Transaction
  <2>2. Honest(x, s, w) /\ Honest(y, s, w)
    BY <1>2 DEF Report, Honest, Reads, Kinds
  <2> QED BY <1>1, <2>1, <2>2
<1>3. CASE k = "modes"
  <2> DEFINE x == Report("RMACK", v, id, old)
             y == Report("RMAPP", v, id, old)
  <2>1. r = <<x, y>>
    BY <1>3 DEF Transaction
  <2>2. Honest(x, s, w) /\ Honest(y, s, w)
    BY <1>3 DEF Report, Honest, Reads, Kinds
  <2> QED BY <1>1, <2>1, <2>2
<1>4. CASE k = "usb"
  <2> DEFINE x == Said("USBSTREAM?", v)
  <2>1. r = <<x>>
    BY <1>4 DEF Transaction
  <2>2. Honest(x, s, w)
    BY DEF Said, Report, Honest, Reads, Kinds
  <2> QED BY <1>1, <2>1, <2>2
<1> QED BY <1>2, <1>3, <1>4 DEF Waiting

-----------------------------------------------------------------------------
(* The invariant of a restore.                                              *)

Live == link.up /\ link.intact /\ Clear(toHost)

\* As long as the user asks for nothing, what is ordered is what is wanted, what is
\* reported to be so on the present link is so, and so is what the host shows.
Restoring ==
  /\ Candid(host, host.want, dev.set, Live, TRUE)
  /\ Wishes(toDevice, host.want)
  /\ link.up /\ link.intact => AllHonest(toHost, dev.set, host.want)

Grounded ==
  /\ IsSeq(toHost)
  /\ "set" \in DOMAIN dev /\ DOMAIN dev.set = {"rows", "modes", "usb"}
  /\ "up" \in DOMAIN link /\ "intact" \in DOMAIN link
  /\ link.up \in BOOLEAN /\ link.intact \in BOOLEAN

RestoreInv == Unasked => Grounded /\ Restoring

LEMMA InitRestore == Init => RestoreInv
<1> SUFFICES ASSUME Init PROVE RestoreInv
  OBVIOUS
<1>1. Shown(host) /\ host.known = FALSE /\ host.seen = {} /\ host.sent = <<>>
  BY DEF Init, Shown, Kinds
<1>2. toHost = <<>> /\ toDevice = <<>>
      /\ "up" \in DOMAIN link /\ "intact" \in DOMAIN link /\ link.up = FALSE /\ link.intact = TRUE
      /\ "set" \in DOMAIN dev /\ dev.set \in Others \cup {Default}
  BY DEF Init
<1>3. Candid(host, host.want, dev.set, Live, TRUE)
  BY <1>1, WishesKept DEF Candid
<1> QED BY <1>2, <1>3, EmptyIsSeq, WishesKept, SettingsAssumption DEF RestoreInv, Grounded, Restoring

\* A step of the host.
LEMMA HostRestores ==
  ASSUME Grounded, NEW h, NEW p, Candid(h, host.want, dev.set, Live', p), Becomes(h),
         UNCHANGED <<link, dev>>,
         Wishes(toDevice, host.want), IsSeq(toHost'),
         link.up /\ link.intact => AllHonest(toHost', dev.set, host.want)
  PROVE  /\ Grounded' /\ Restoring' /\ host'.pref = h.pref /\ host'.restore = h.restore
<1>1. host' = [h EXCEPT !.sent = <<>>] /\ toDevice' = toDevice \o h.sent
  BY DEF Becomes
<1>2. /\ Shown(host') /\ host'.want = host.want /\ host'.known = h.known /\ host'.seen = h.seen
      /\ host'.active = h.active /\ host'.pref = h.pref /\ host'.restore = h.restore /\ host'.sent = <<>>
  BY <1>1 DEF Candid, Shown
<1>3. Candid(host', host'.want, dev'.set, Live', TRUE)
  BY <1>2, WishesKept DEF Candid
<1>4. Wishes(toDevice', host'.want)
  BY <1>1, <1>2, WishesKept DEF Candid
<1> QED BY <1>2, <1>3, <1>4 DEF Grounded, Restoring

LEMMA CandidLess ==
  \A h, w, s, p : \A t, u \in BOOLEAN : Candid(h, w, s, t, p) /\ (u => t) => Candid(h, w, s, u, p)
  BY DEF Candid

LEMMA ParseRestores ==
  ASSUME DomainInv, DisplayInv, Grounded, Restoring, Parse
  PROVE  Grounded' /\ Restoring' /\ ReallyComplete
<1> DEFINE m == Head(toHost)
           w == host.want
           s == dev.set
           p == host.pref = "COMPLETE"
<1>1. toHost # <<>> /\ toHost' = Tail(toHost) /\ UNCHANGED <<link, dev, used>> /\ IsSeq(toHost)
  BY DEF Parse, Grounded
<1>2. IsSeq(toHost') /\ Sound(host) /\ Live \in BOOLEAN /\ Live' \in BOOLEAN
  BY <1>1, SeqTail DEF DomainInv, Grounded, Live, Clear
<1>3. link.up /\ link.intact =>
        /\ AllHonest(toHost', s, w)
        /\ Clear(toHost) => Honest(m, s, w) /\ Clear(toHost')
        /\ Clear(toHost') => /\ m.kind # "LOST"
                             /\ m.kind # "STREAMING" => Clear(toHost)
  BY <1>1, CurrentTail, HonestTail DEF DisplayInv, OnDisplay, Restoring
<1>4. Candid(host, w, s, Live, p)
  BY DEF Candid, Restoring
<1>5. Candid(host, w, s, FALSE, p)
  BY <1>2, <1>4, CandidLess
<1>6. Live <=> link.up /\ link.intact /\ Clear(toHost)
  BY DEF Live
<1>7. Live' <=> link.up /\ link.intact /\ Clear(toHost')
  BY <1>1 DEF Live
<1>8. UpToDate => Live /\ m.kind \notin {"STREAMING", "LOST"}
  <2>1. PICK S : toHost \in Seq(S)
    BY <1>1 DEF IsSeq
  <2>2. UpToDate => Clear(toHost)
    BY <2>1, LenProperties DEF UpToDate, Clear
  <2>3. Len(toHost) \in Nat \ {0} /\ m = toHost[1]
    BY <1>1, SeqTail
  <2>4. 1 \in 1 .. Len(toHost)
    BY <2>3
  <2> QED BY <1>6, <2>2, <2>3, <2>4 DEF UpToDate, Clear, IsState
<1> HIDE DEF p, w, s
<1>9. PICK h : Becomes(h) /\ Candid(h, w, s, Live', p)
  <2>1. CASE m.kind = "STREAMING"
    <3>1. PICK h \in StartBootstrap(host) : Becomes(h)
      BY <2>1 DEF Parse
    <3> QED BY <1>5, <3>1, StartBootstrapCandid DEF p
  <2>2. CASE m.kind = "LOST"
    <3>1. Becomes(StopBootstrap(host))
      BY <2>2 DEF Parse
    <3>2. Live' = FALSE
      BY <1>2, <1>3, <1>7, <2>2
    <3> QED BY <1>5, <3>1, <3>2, StopBootstrapCandid
  <2>3. CASE m.kind \notin {"STREAMING", "LOST"}
    <3>1. PICK g \in Synchronize(host, m) : \E h \in Serve(g, m) : Becomes(h)
      BY <2>3 DEF Parse
    <3>2. PICK h \in Serve(g, m) : Becomes(h)
      BY <3>1
    <3>3. (Live' => Live) /\ (Live => Honest(m, s, w))
      BY <1>3, <1>6, <1>7, <2>3
    <3> HIDE DEF m
    <3>4. Candid(g, w, s, Live, p)
      BY <1>2, <1>4, SynchronizeCandid
    <3>5. Candid(h, w, s, Live, p)
      BY <1>2, <3>3, <3>4, ServeCandid
    <3> QED BY <1>2, <3>2, <3>3, <3>5, CandidLess
  <2> QED BY <2>1, <2>2, <2>3
<1>10. Grounded' /\ Restoring' /\ host'.pref = h.pref /\ host'.restore = h.restore
  BY <1>1, <1>2, <1>3, <1>9, HostRestores DEF Restoring, w, s
<1>11. ReallyComplete
  <2> SUFFICES ASSUME UpToDate, host.pref # "COMPLETE", host'.pref = "COMPLETE", host'.restore
               PROVE  Sincere(s, w)
    BY DEF ReallyComplete, Sincere, s, w
  <2>1. Live'
    BY <1>3, <1>6, <1>7, <1>8
  <2> QED BY <1>9, <1>10, <2>1 DEF Candid, p
<1> QED BY <1>10, <1>11

LEMMA TickRestores ==
  ASSUME DomainInv, Grounded, Restoring, Tick
  PROVE  Grounded' /\ Restoring'
<1>1. PICK h \in Expired(host) : Becomes(h)
  BY DEF Tick
<1>2. UNCHANGED <<toHost, link, dev>> /\ Live' = Live /\ IsSeq(toHost')
  BY DEF Tick, environment, Grounded, Live
<1>3. Candid(h, host.want, dev.set, Live', TRUE)
  BY <1>1, <1>2, ExpiredCandid DEF DomainInv, Restoring
<1> QED BY <1>1, <1>2, <1>3, HostRestores DEF Restoring

\* Settings as wanted stay so under what the device does by the host's orders.
LEMMA DeviceRestores ==
  ASSUME DomainInv, Grounded, Restoring, Device
  PROVE  Grounded' /\ Restoring'
<1> DEFINE c == Head(toDevice)
           w == host.want
<1>1. /\ UNCHANGED <<host, link>> /\ toDevice # <<>> /\ toDevice' = Tail(toDevice) /\ IsSeq(toHost)
      /\ "up" \in DOMAIN link' /\ "intact" \in DOMAIN link'
      /\ link'.up \in BOOLEAN /\ link'.intact \in BOOLEAN
  BY DEF Grounded, Device, DeviceAnswers, DeviceApplies, DeviceRejects, environment
<1>2. Wishes(toDevice', w) /\ (Measured(c) => c.value = w[c.kind])
  BY <1>1, WishesKept DEF Restoring
<1>3. PICK r : toHost' = toHost \o r /\ IsSeq(r) /\ "set" \in DOMAIN dev' /\ DOMAIN dev'.set = {"rows", "modes", "usb"}
               /\ (\A k \in Kinds : dev.set[k] = w[k] => dev'.set[k] = w[k])
               /\ (\A i \in 1 .. Len(r) : Honest(r[i], dev'.set, w) /\ ~IsState(r[i]))
  <2>1. CASE DeviceApplies
    <3> DEFINE r == Transaction(c.kind, c.value)
    <3>1. /\ toHost' = toHost \o r /\ c.kind \in DOMAIN Waiting
          /\ dev' = [dev EXCEPT !.set[c.kind] = c.value, !.txn = IF c.kind = "usb" THEN @ ELSE @ + 1]
      BY <2>1 DEF DeviceApplies
    <3>2. c.kind \in {"rows", "modes", "usb"}
      BY <3>1 DEF Waiting
    <3>3. /\ "set" \in DOMAIN dev' /\ DOMAIN dev'.set = {"rows", "modes", "usb"}
          /\ dev'.set = [dev.set EXCEPT ![c.kind] = c.value]
      BY <3>1 DEF Grounded
    <3>4. dev'.set[c.kind] = c.value /\ \A k \in Kinds \ {c.kind} : dev'.set[k] = dev.set[k]
      BY <3>2, <3>3 DEF Grounded, Kinds
    <3>5. \A k \in Kinds : dev.set[k] = w[k] => dev'.set[k] = w[k]
      BY <1>2, <3>4 DEF Measured
    <3>6. IsSeq(r) /\ \A i \in 1 .. Len(r) : r[i].kind \in Announced
      BY TransactionIs
    <3>7. \A i \in 1 .. Len(r) : Honest(r[i], dev'.set, w)
      BY <3>1, <3>4, HonestTransaction
    <3>8. \A i \in 1 .. Len(r) : ~IsState(r[i])
      BY <3>6 DEF Announced, IsState
    <3> QED BY <3>1, <3>3, <3>5, <3>6, <3>7, <3>8
  <2>2. CASE DeviceAnswers \/ DeviceRejects
    <3>1. PICK x : toHost' = Append(toHost, x) /\ Honest(x, dev.set, w) /\ ~IsState(x)
      <4>1. CASE DeviceRejects
        BY <4>1 DEF DeviceRejects, Said, Report, Honest, Reads, IsState, Kinds
      <4>2. CASE DeviceAnswers
        <5> DEFINE k == c.kind
                   x == Said(k, Answer(k))
        <5>1. toHost' = Append(toHost, x) /\ k \notin DOMAIN Waiting
          BY <4>2 DEF DeviceAnswers
        <5>2. k \in AllQuestions
          <6>1. Len(toDevice) \in Nat \ {0} /\ c = toDevice[1] /\ Orders(toDevice)
            BY <1>1, SeqTail DEF DomainInv, Orders
          <6>2. 1 \in 1 .. Len(toDevice)
            BY <6>1
          <6> QED BY <5>1, <6>1, <6>2, QuestionsAreAsked DEF Orders
        <5>3. x.kind = k /\ x.value = Answer(k)
          BY DEF Said, Report
        <5> HIDE DEF x, k
        <5>4. ~IsState(x)
          BY <5>2, <5>3 DEF IsState, AllQuestions
        <5>5. Honest(x, dev.set, w)
          <6>1. ASSUME NEW l \in Kinds, x.kind \in Reads[l], x.value = w[l] PROVE dev.set[l] = w[l]
            <7>1. CASE k = "ROWS?" /\ l = "rows"
              BY <5>3, <6>1, <7>1 DEF Answer
            <7>2. CASE k = "ROWMODES?" /\ l = "modes"
              BY <5>3, <6>1, <7>2 DEF Answer
            <7> QED BY <5>2, <5>3, <6>1, <7>1, <7>2 DEF Reads, Kinds, AllQuestions
          <6> QED BY <6>1 DEF Honest
        <5> QED BY <5>1, <5>4, <5>5
      <4> QED BY <2>2, <4>1, <4>2
    <3>2. toHost' = toHost \o <<x>>
      <4>1. PICK S : toHost \in Seq(S)
        BY <1>1 DEF IsSeq
      <4>2. toHost \in Seq(S \cup {x}) /\ x \in S \cup {x}
        BY <4>1, SeqMonotonic
      <4> QED BY <3>1, <4>2, AppendIsConcat
    <3>3. IsSeq(<<x>>) /\ \A i \in 1 .. Len(<<x>>) : <<x>>[i] = x
      <4>1. <<x>> \in Seq({x}) /\ Len(<<x>>) = 1 /\ <<x>>[1] = x
        OBVIOUS
      <4>2. \A i \in 1 .. 1 : i = 1
        OBVIOUS
      <4> QED BY <4>1, <4>2 DEF IsSeq
    <3>4. dev' = dev
      BY <2>2 DEF DeviceAnswers, DeviceRejects, environment
    <3> QED BY <3>1, <3>2, <3>3, <3>4 DEF Grounded
  <2> QED BY <2>1, <2>2 DEF Device
<1>4. IsSeq(toHost') /\ (link.up /\ link.intact => AllHonest(toHost', dev'.set, w))
  <2>1. IsSeq(toHost')
    BY <1>1, <1>3, SeqJoined
  <2> QED BY <1>3, <2>1, HonestJoined DEF Restoring
<1>5. Live' => Live
  <2>1. Clear(toHost') => Clear(toHost)
    <3>1. /\ Len(toHost) \in Nat /\ Len(r) \in Nat /\ Len(toHost') = Len(toHost) + Len(r)
          /\ \A i \in 1 .. Len(toHost) + Len(r) : toHost'[i] = IF i <= Len(toHost) THEN toHost[i] ELSE r[i - Len(toHost)]
      BY <1>1, <1>3, SeqJoined
    <3>2. \A i \in 1 .. Len(toHost) : i \in 1 .. Len(toHost) + Len(r) /\ i <= Len(toHost)
      BY <3>1
    <3> QED BY <3>1, <3>2 DEF Clear
  <2> QED BY <1>1, <2>1 DEF Live
<1>6. Candid(host', w, dev'.set, Live', TRUE)
  BY <1>1, <1>3, <1>5 DEF Restoring, Candid
<1> QED BY <1>1, <1>2, <1>3, <1>4, <1>6 DEF Grounded, Restoring

LEMMA LinkRestores ==
  ASSUME Grounded, Restoring, DeviceReady \/ DeviceRestarts \/ LinkLost \/ LinkUp \/ Takeover
  PROVE  Grounded' /\ Restoring'
<1> DEFINE w == host.want
<1>1. host' = host /\ toDevice' \in {toDevice, <<>>} /\ IsSeq(toHost)
  BY DEF Grounded, DeviceReady, DeviceRestarts, LinkLost, LinkUp, Takeover, Cut
<1>2. Wishes(toDevice', host'.want)
  BY <1>1, WishesKept DEF Restoring
<1>3. /\ "set" \in DOMAIN dev' /\ DOMAIN dev'.set = {"rows", "modes", "usb"}
  <2>1. CASE Takeover
    <3>1. PICK s \in Others : dev' = [dev EXCEPT !.set = s]
      BY <2>1 DEF Takeover
    <3> QED BY <3>1, SettingsAssumption DEF Grounded
  <2>2. CASE DeviceRestarts
    <3>1. dev' = [dev EXCEPT !.boot = @ + 1, !.ready = FALSE, !.txn = 0, !.set = Default]
      BY <2>2 DEF DeviceRestarts
    <3>2. "set" \in DOMAIN dev' /\ dev'.set = Default
      BY <3>1 DEF Grounded
    <3> QED BY <3>2, SettingsAssumption
  <2>3. CASE DeviceReady \/ LinkLost \/ LinkUp
    BY <2>3 DEF Grounded, DeviceReady, LinkLost, LinkUp
  <2> QED BY <2>1, <2>2, <2>3
<1>4. Candid(host, w, dev'.set, FALSE, TRUE)
  BY DEF Candid, Restoring
<1>5. \/ /\ UNCHANGED <<toHost, link>> /\ (link.up => dev'.set = dev.set)
      \/ /\ IsSeq(toHost') /\ "up" \in DOMAIN link' /\ "intact" \in DOMAIN link'
         /\ link'.up \in BOOLEAN /\ link'.intact \in BOOLEAN
         /\ link'.up /\ link'.intact => AllHonest(toHost', dev'.set, w) /\ ~Clear(toHost')
  <2>1. ASSUME Cut
        PROVE  IsSeq(toHost') /\ "up" \in DOMAIN link' /\ "intact" \in DOMAIN link' /\ ~link'.up
               /\ link'.up \in BOOLEAN /\ link'.intact \in BOOLEAN
    <3>1. PICK n \in 0 .. Len(toHost) : toHost' = Append(SubSeq(toHost, 1, n), Said("LOST", None))
      BY <2>1 DEF Cut
    <3>2. IsSeq(toHost')
      BY <1>1, <3>1, SeqCut, SeqExtended
    <3> QED BY <2>1, <3>2 DEF Cut, Grounded
  <2>2. CASE LinkLost
    BY <2>1, <2>2 DEF LinkLost
  <2>3. CASE DeviceReady \/ Takeover
    BY <2>3 DEF DeviceReady, Takeover, Grounded
  <2>4. CASE LinkUp
    <3> DEFINE x == Said("STREAMING", None)
    <3>1. /\ toHost' = Append(toHost, x)
          /\ link' = [up |-> TRUE, count |-> link.count + 1, intact |-> TRUE]
      BY <2>4 DEF LinkUp
    <3>2. IsState(x)
      BY DEF Said, Report, IsState
    <3> HIDE DEF x
    <3>3. IsSeq(toHost') /\ AllHonest(toHost', dev'.set, w) /\ ~Clear(toHost')
      BY <1>1, <3>1, <3>2, HonestAppend, SeqExtended
    <3> QED BY <3>1, <3>3
  <2>5. CASE DeviceRestarts
    <3>1. CASE Cut
      BY <2>1, <3>1
    <3>2. CASE ~link.up /\ UNCHANGED <<link, toDevice, toHost>>
      BY <3>2
    <3>3. CASE link' = [link EXCEPT !.intact = FALSE]
               /\ toHost' = Append(toHost, Said("BOOT?", dev.boot + 1))
      <4>1. IsSeq(toHost')
        BY <1>1, <3>3, SeqExtended
      <4> QED BY <3>3, <4>1 DEF Grounded
    <3> QED BY <2>5, <3>1, <3>2, <3>3 DEF DeviceRestarts
  <2> QED BY <2>2, <2>3, <2>4, <2>5
<1>6. CASE UNCHANGED <<toHost, link>> /\ (link.up => dev'.set = dev.set)
  <2>1. Live' = Live /\ (Live => link.up)
    BY <1>6 DEF Live
  <2>2. Candid(host', host'.want, dev'.set, Live', TRUE)
    <3>1. CASE Live
      BY <1>1, <1>6, <2>1, <3>1 DEF Restoring
    <3>2. CASE ~Live
      BY <1>1, <1>4, <2>1, <3>2 DEF Candid
    <3> QED BY <3>1, <3>2
  <2> QED BY <1>1, <1>2, <1>3, <1>6, <2>2 DEF Grounded, Restoring
<1>7. CASE /\ IsSeq(toHost') /\ "up" \in DOMAIN link' /\ "intact" \in DOMAIN link'
           /\ link'.up \in BOOLEAN /\ link'.intact \in BOOLEAN
           /\ link'.up /\ link'.intact => AllHonest(toHost', dev'.set, w) /\ ~Clear(toHost')
  <2>1. ~Live'
    BY <1>7 DEF Live
  <2>2. Candid(host', host'.want, dev'.set, Live', TRUE)
    BY <1>1, <1>4, <2>1 DEF Candid
  <2> QED BY <1>1, <1>2, <1>3, <1>7, <2>2 DEF Grounded, Restoring
<1> QED BY <1>5, <1>6, <1>7

\* Requests of the user aside, every step keeps it.
LEMMA RestoreKept ==
  ASSUME BootInv, DomainInv, DisplayInv, RestoreInv, [Next]_vars
  PROVE  RestoreInv' /\ [Unasked => ReallyComplete]_vars
<1>1. Unasked' => Unasked /\ ~ApplyProfile /\ ~RequestRows
  BY RequestsKept
<1>2. ASSUME Unasked
      PROVE  ~ApiDecide /\ ~ApiCarry
  BY <1>2 DEF BootInv, Safe, ApiDecide, ApiCarry
<1>3. ASSUME Unasked, Parse
      PROVE  Grounded' /\ Restoring' /\ ReallyComplete
  BY <1>3, ParseRestores DEF RestoreInv
<1>4. ASSUME Unasked'
      PROVE  Grounded' /\ Restoring'
  <2>1. Unasked /\ Grounded /\ Restoring /\ ~Api
    BY <1>1, <1>2, <1>4 DEF RestoreInv, Api
  <2>2. CASE UNCHANGED vars
    <3>1. Live' = Live
      BY <2>2 DEF vars, Live
    <3> QED BY <2>1, <2>2, <3>1 DEF vars, Grounded, Restoring
  <2> QED BY <1>3, <2>1, <2>2, TickRestores, DeviceRestores, LinkRestores DEF Next
<1> QED BY <1>3, <1>4 DEF RestoreInv, ReallyComplete

\* When the preferences are reported as COMPLETE on the present link, the device has
\* them, as long as the user asks for nothing meanwhile: the rows and the profile that
\* are compared with them were read back, or confirmed, on this link and by this boot,
\* whatever transactions were left over from earlier links, whatever was refused,
\* answered late or asked again, and however often the device restarted.
THEOREM CompleteIsApplied == Spec => CompleteMeansApplied
<1> DEFINE Inv == BootInv /\ DomainInv /\ DisplayInv /\ RestoreInv
<1>1. Init => Inv
  BY InitBoot, InitDomain, InitDisplay, InitRestore
<1>2. ASSUME Inv, [Next]_vars
      PROVE  Inv' /\ [Unasked => ReallyComplete]_vars
  <2>1. BootInv'
    BY <1>2, BootKept
  <2>2. DomainInv' /\ DisplayInv'
    BY <1>2, DomainKept, DisplayKept
  <2>3. RestoreInv' /\ [Unasked => ReallyComplete]_vars
    BY <1>2, RestoreKept
  <2> QED BY <2>1, <2>2, <2>3
<1> HIDE DEF Inv
<1> QED BY <1>1, <1>2, PTL DEF Spec, CompleteMeansApplied

-----------------------------------------------------------------------------
(* A transaction on its way.                                               *)

Asking == [rows |-> "ROWS?", modes |-> "ROWMODES?"]
Opening == [rows |-> "RCMD", modes |-> "RMACK"]
Closing == [rows |-> "RAPP", modes |-> "RMAPP"]
Refusal == [rows |-> "ERR", modes |-> "RMERR"]

\* m is a report of a transaction.
Told(m) == m.kind \in {"RCMD", "RMACK", "RAPP", "RMAPP", "ERR", "RMERR"}
Untold(q) == IsSeq(q) /\ \A i \in 1 .. Len(q) : ~Told(q[i])
Unordered(c) == IsSeq(c) /\ \A i \in 1 .. Len(c) : ~Measured(c[i])
Idle(q, c) == Untold(q) /\ Unordered(c)

\* The host will take the report that the transaction k is accepted.
Ready(h, k) == h.req[k] = None /\ (k = "modes" => h.pending[k] \in {None, h.want[k]})

\* The order is on its way to the device; the device has carried it out and both reports
\* are on their way; the first of them has been taken; the device has refused.
Ordering(h, k, q, c) ==
  /\ Untold(q) /\ Ready(h, k) /\ IsSeq(c)
  /\ \E i \in 1 .. Len(c) : /\ c[i].kind = k /\ c[i].value = h.want[k]
                            /\ \A j \in 1 .. Len(c) : j # i => ~Measured(c[j])
Answered(h, k, q, c, s) ==
  /\ Unordered(c) /\ Ready(h, k) /\ s[k] = h.want[k] /\ IsSeq(q)
  /\ \E i \in 1 .. Len(q), n \in 1 .. Len(q) :
       /\ n = i + 1 /\ q[i].kind = Opening[k] /\ q[i].value = s[k]
       /\ q[n].kind = Closing[k] /\ q[n].value = s[k] /\ q[n].id = q[i].id
       /\ \A j \in 1 .. Len(q) : j # i /\ j # n => ~Told(q[j])
Opened(h, k, q, c, s) ==
  /\ Unordered(c) /\ IsSeq(q) /\ q # <<>> /\ q[1].kind = Closing[k] /\ q[1].value = s[k]
  /\ h.req[k] = q[1].id /\ (k = "modes" => h.pending[k] = s[k])
  /\ \A j \in 1 .. Len(q) : j # 1 => ~Told(q[j])
Refused(q, k, c) ==
  /\ Unordered(c) /\ IsSeq(q)
  /\ \E i \in 1 .. Len(q) : /\ q[i].kind = Refusal[k]
                            /\ \A j \in 1 .. Len(q) : j # i => ~Told(q[j])

Underway(h, k, q, c, s) ==
  /\ h.state = "SYNCED" /\ h.pref \in {Waiting[k], "ERROR"}
  /\ Ordering(h, k, q, c) \/ Answered(h, k, q, c, s) \/ Opened(h, k, q, c, s) \/ Refused(q, k, c)

\* One transaction at a time.
Flight(h, q, c, s) == Idle(q, c) \/ \E k \in Kinds : Underway(h, k, q, c, s)

LEMMA UntoldKept ==
  /\ \A q, m : Untold(q) /\ ~Told(m) => Untold(Append(q, m))
  /\ \A q : Untold(q) /\ q # <<>> => Untold(Tail(q))
<1>1. ASSUME NEW q, NEW m, Untold(q), ~Told(m)
      PROVE  Untold(Append(q, m))
  <2>1. /\ IsSeq(Append(q, m)) /\ Len(q) \in Nat /\ Len(Append(q, m)) = Len(q) + 1
        /\ \A i \in 1 .. Len(q) : Append(q, m)[i] = q[i]
        /\ Append(q, m)[Len(q) + 1] = m
    BY <1>1, SeqExtended DEF Untold
  <2>2. \A i \in 1 .. Len(q) + 1 : i \in 1 .. Len(q) \/ i = Len(q) + 1
    BY <2>1
  <2> QED BY <1>1, <2>1, <2>2 DEF Untold
<1>2. \A q : Untold(q) /\ q # <<>> => Untold(Tail(q))
  BY SeqTail DEF Untold
<1> QED BY <1>1, <1>2

LEMMA UnorderedKept ==
  /\ \A c, x : Unordered(c) /\ ~Measured(x) => Unordered(Append(c, x))
  /\ \A c : Unordered(c) /\ c # <<>> => Unordered(Tail(c))
<1>1. ASSUME NEW c, NEW x, Unordered(c), ~Measured(x)
      PROVE  Unordered(Append(c, x))
  <2>1. /\ IsSeq(Append(c, x)) /\ Len(c) \in Nat /\ Len(Append(c, x)) = Len(c) + 1
        /\ \A i \in 1 .. Len(c) : Append(c, x)[i] = c[i]
        /\ Append(c, x)[Len(c) + 1] = x
    BY <1>1, SeqExtended DEF Unordered
  <2>2. \A i \in 1 .. Len(c) + 1 : i \in 1 .. Len(c) \/ i = Len(c) + 1
    BY <2>1
  <2> QED BY <1>1, <2>1, <2>2 DEF Unordered
<1>2. \A c : Unordered(c) /\ c # <<>> => Unordered(Tail(c))
  BY SeqTail DEF Unordered
<1> QED BY <1>1, <1>2

\* Another report joins those on their way to the host.
LEMMA FlightReport ==
  ASSUME NEW h, NEW q, NEW c, NEW s, Flight(h, q, c, s), NEW m, ~Told(m)
  PROVE  Flight(h, Append(q, m), c, s)
<1> DEFINE r == Append(q, m)
<1>1. IsSeq(q)
  BY DEF Flight, Idle, Untold, Underway, Ordering, Answered, Opened, Refused
<1>2. /\ IsSeq(r) /\ Len(q) \in Nat /\ Len(r) = Len(q) + 1 /\ r[Len(q) + 1] = m
      /\ \A i \in 1 .. Len(q) : r[i] = q[i]
  BY <1>1, SeqExtended
<1>3. Untold(q) => Untold(r)
  BY UntoldKept
<1> HIDE DEF r
<1>4. /\ \A i \in 1 .. Len(r) : i \in 1 .. Len(q) \/ i = Len(q) + 1
      /\ \A i \in 1 .. Len(q) : i \in 1 .. Len(r)
      /\ Len(q) + 1 \notin 1 .. Len(q)
  BY <1>2
<1>5. \A j \in 1 .. Len(r) : Told(r[j]) => j \in 1 .. Len(q) /\ Told(q[j])
  BY <1>2, <1>4
<1>6. ASSUME NEW k \in Kinds
      PROVE  /\ Ordering(h, k, q, c) => Ordering(h, k, r, c)
             /\ Answered(h, k, q, c, s) => Answered(h, k, r, c, s)
             /\ Opened(h, k, q, c, s) => Opened(h, k, r, c, s)
             /\ Refused(q, k, c) => Refused(r, k, c)
  <2>1. Ordering(h, k, q, c) => Ordering(h, k, r, c)
    BY <1>3 DEF Ordering
  <2>2. ASSUME Answered(h, k, q, c, s) PROVE Answered(h, k, r, c, s)
    <3>1. PICK i \in 1 .. Len(q), n \in 1 .. Len(q) :
            /\ n = i + 1 /\ q[i].kind = Opening[k] /\ q[i].value = s[k]
            /\ q[n].kind = Closing[k] /\ q[n].value = s[k] /\ q[n].id = q[i].id
            /\ \A j \in 1 .. Len(q) : j # i /\ j # n => ~Told(q[j])
      BY <2>2 DEF Answered
    <3>2. \A j \in 1 .. Len(r) : j # i /\ j # n => ~Told(r[j])
      BY <1>5, <3>1
    <3>3. i \in 1 .. Len(r) /\ n \in 1 .. Len(r) /\ r[i] = q[i] /\ r[n] = q[n]
      BY <1>2, <1>4
    <3> QED BY <1>2, <2>2, <3>1, <3>2, <3>3 DEF Answered
  <2>3. ASSUME Opened(h, k, q, c, s) PROVE Opened(h, k, r, c, s)
    <3>1. 1 \in 1 .. Len(q) /\ r # <<>>
      <4>1. Len(q) \in Nat \ {0}
        BY <2>3, SeqTail DEF Opened
      <4> QED BY <1>2, <4>1, EmptyIsSeq
    <3>2. r[1] = q[1] /\ \A j \in 1 .. Len(r) : j # 1 => ~Told(r[j])
      BY <1>2, <1>5, <2>3, <3>1 DEF Opened
    <3> QED BY <1>2, <2>3, <3>1, <3>2 DEF Opened
  <2>4. ASSUME Refused(q, k, c) PROVE Refused(r, k, c)
    <3>1. PICK i \in 1 .. Len(q) : q[i].kind = Refusal[k] /\ \A j \in 1 .. Len(q) : j # i => ~Told(q[j])
      BY <2>4 DEF Refused
    <3>2. i \in 1 .. Len(r) /\ r[i] = q[i] /\ \A j \in 1 .. Len(r) : j # i => ~Told(r[j])
      BY <1>2, <1>4, <1>5, <3>1
    <3> QED BY <1>2, <2>4, <3>1, <3>2 DEF Refused
  <2> QED BY <2>1, <2>2, <2>3, <2>4
<1>7. Flight(h, r, c, s)
  BY <1>3, <1>6 DEF Flight, Idle, Underway
<1> QED BY <1>7 DEF r

\* The host takes another report.
LEMMA FlightTaken ==
  ASSUME NEW h, NEW q, NEW c, NEW s, Flight(h, q, c, s), q # <<>>, ~Told(q[1])
  PROVE  Flight(h, Tail(q), c, s)
<1> DEFINE r == Tail(q)
<1>1. IsSeq(q)
  BY DEF Flight, Idle, Untold, Underway, Ordering, Answered, Opened, Refused
<1>2. /\ IsSeq(r) /\ Len(q) \in Nat \ {0} /\ Len(r) = Len(q) - 1
      /\ \A i \in 1 .. Len(r) : i + 1 \in 1 .. Len(q) /\ r[i] = q[i + 1]
  BY <1>1, SeqTail
<1>3. Untold(q) => Untold(r)
  BY UntoldKept
<1> HIDE DEF r
<1>4. \A i \in 1 .. Len(q) : i # 1 => i - 1 \in 1 .. Len(r) /\ (i - 1) + 1 = i
  BY <1>2
<1>5. \A i \in 1 .. Len(q) : i # 1 => i - 1 \in 1 .. Len(r) /\ r[i - 1] = q[i]
  BY <1>2, <1>4
<1>6. \A i \in 1 .. Len(q), j \in 1 .. Len(r) : j # i - 1 => j + 1 # i
  BY <1>2
<1>7. ASSUME NEW k \in Kinds
      PROVE  /\ Ordering(h, k, q, c) => Ordering(h, k, r, c)
             /\ Answered(h, k, q, c, s) => Answered(h, k, r, c, s)
             /\ ~Opened(h, k, q, c, s)
             /\ Refused(q, k, c) => Refused(r, k, c)
  <2>1. Ordering(h, k, q, c) => Ordering(h, k, r, c)
    BY <1>3 DEF Ordering
  <2>2. ASSUME Answered(h, k, q, c, s) PROVE Answered(h, k, r, c, s)
    <3>1. PICK i \in 1 .. Len(q), n \in 1 .. Len(q) :
            /\ n = i + 1 /\ q[i].kind = Opening[k] /\ q[i].value = s[k]
            /\ q[n].kind = Closing[k] /\ q[n].value = s[k] /\ q[n].id = q[i].id
            /\ \A j \in 1 .. Len(q) : j # i /\ j # n => ~Told(q[j])
      BY <2>2 DEF Answered
    <3>2. Told(q[i])
      BY <3>1 DEF Told, Opening, Kinds
    <3>3. i # 1 /\ n # 1 /\ n - 1 = (i - 1) + 1
      BY <1>2, <3>1, <3>2
    <3>4. /\ i - 1 \in 1 .. Len(r) /\ n - 1 \in 1 .. Len(r)
          /\ r[i - 1] = q[i] /\ r[n - 1] = q[n]
      BY <1>5, <3>3
    <3>5. \A j \in 1 .. Len(r) : j # i - 1 /\ j # n - 1 => ~Told(r[j])
      BY <1>2, <1>6, <3>1
    <3> DEFINE a == i - 1
               b == n - 1
    <3>6. /\ a \in 1 .. Len(r) /\ b \in 1 .. Len(r) /\ b = a + 1
          /\ r[a] = q[i] /\ r[b] = q[n]
          /\ \A j \in 1 .. Len(r) : j # a /\ j # b => ~Told(r[j])
      BY <3>3, <3>4, <3>5
    <3> HIDE DEF a, b
    <3>7. /\ b = a + 1 /\ r[a].kind = Opening[k] /\ r[a].value = s[k]
          /\ r[b].kind = Closing[k] /\ r[b].value = s[k] /\ r[b].id = r[a].id
      BY <3>1, <3>6
    <3> QED BY <1>2, <2>2, <3>6, <3>7 DEF Answered
  <2>3. ~Opened(h, k, q, c, s)
    BY DEF Opened, Told, Closing, Kinds
  <2>4. ASSUME Refused(q, k, c) PROVE Refused(r, k, c)
    <3>1. PICK i \in 1 .. Len(q) : q[i].kind = Refusal[k] /\ \A j \in 1 .. Len(q) : j # i => ~Told(q[j])
      BY <2>4 DEF Refused
    <3>2. Told(q[i])
      BY <3>1 DEF Told, Refusal, Kinds
    <3>3. i - 1 \in 1 .. Len(r) /\ r[i - 1] = q[i] /\ \A j \in 1 .. Len(r) : j # i - 1 => ~Told(r[j])
      BY <1>2, <1>5, <1>6, <3>1, <3>2
    <3> QED BY <1>2, <2>4, <3>1, <3>3 DEF Refused
  <2> QED BY <2>1, <2>2, <2>3, <2>4
<1>8. Flight(h, r, c, s)
  BY <1>3, <1>7 DEF Flight, Idle, Underway
<1> QED BY <1>8 DEF r

\* The device takes a question.
LEMMA FlightAsked ==
  ASSUME NEW h, NEW q, NEW c, NEW s, Flight(h, q, c, s), c # <<>>, ~Measured(c[1])
  PROVE  Flight(h, q, Tail(c), s)
<1> DEFINE r == Tail(c)
<1>1. IsSeq(c)
  BY DEF Flight, Idle, Unordered, Underway, Ordering, Answered, Opened, Refused
<1>2. /\ IsSeq(r) /\ Len(c) \in Nat \ {0} /\ Len(r) = Len(c) - 1
      /\ \A i \in 1 .. Len(r) : i + 1 \in 1 .. Len(c) /\ r[i] = c[i + 1]
  BY <1>1, SeqTail
<1>3. Unordered(c) => Unordered(r)
  BY UnorderedKept
<1> HIDE DEF r
<1>4. ASSUME NEW k \in Kinds, Ordering(h, k, q, c)
      PROVE  Ordering(h, k, q, r)
  <2>1. PICK i \in 1 .. Len(c) : /\ c[i].kind = k /\ c[i].value = h.want[k]
                                 /\ \A j \in 1 .. Len(c) : j # i => ~Measured(c[j])
    BY <1>4 DEF Ordering
  <2>2. i # 1
    BY <2>1 DEF Measured
  <2>3. i - 1 \in 1 .. Len(r) /\ (i - 1) + 1 = i /\ \A j \in 1 .. Len(r) : j # i - 1 => j + 1 # i
    BY <1>2, <2>2
  <2>4. r[i - 1] = c[i] /\ \A j \in 1 .. Len(r) : j # i - 1 => ~Measured(r[j])
    BY <1>2, <2>1, <2>3
  <2> QED BY <1>2, <1>4, <2>1, <2>3, <2>4 DEF Ordering
<1>5. ASSUME NEW k \in Kinds
      PROVE  /\ Answered(h, k, q, c, s) => Answered(h, k, q, r, s)
             /\ Opened(h, k, q, c, s) => Opened(h, k, q, r, s)
             /\ Refused(q, k, c) => Refused(q, k, r)
  BY <1>3 DEF Answered, Opened, Refused
<1>6. Flight(h, q, r, s)
  BY <1>3, <1>4, <1>5 DEF Flight, Idle, Underway
<1> QED BY <1>6 DEF r

\* The host gives an order.
LEMMA FlightOrdered ==
  ASSUME NEW q, NEW c, Idle(q, c), NEW k \in Kinds, NEW g, NEW s,
         g.state = "SYNCED", g.pref \in {Waiting[k], "ERROR"}, g.req[k] = None, g.pending[k] = g.want[k]
  PROVE  Flight(g, q, Append(c, Command(k, g.want[k])), s)
<1> DEFINE x == Command(k, g.want[k])
           r == Append(c, x)
           n == Len(c) + 1
<1>1. /\ IsSeq(r) /\ Len(c) \in Nat /\ Len(r) = n /\ r[n] = x
      /\ \A i \in 1 .. Len(c) : r[i] = c[i]
  BY SeqExtended DEF Idle, Unordered
<1>2. x.kind = k /\ x.value = g.want[k]
  BY DEF Command
<1> HIDE DEF x, r
<1>3. n \in 1 .. n /\ \A i \in 1 .. n : i # n => i \in 1 .. Len(c)
  BY <1>1
<1>4. \A j \in 1 .. n : j # n => ~Measured(r[j])
  BY <1>1, <1>3 DEF Idle, Unordered
<1>5. Ordering(g, k, q, r)
  BY <1>1, <1>2, <1>3, <1>4 DEF Ordering, Idle, Ready
<1> QED BY <1>5 DEF Flight, Underway, r, x

\* The order at the head of the queue is the only one.
LEMMA OrderAtHead ==
  ASSUME NEW h, NEW q, NEW c, NEW s, Flight(h, q, c, s), c # <<>>, NEW k \in Kinds, c[1].kind = k
  PROVE  /\ h.state = "SYNCED" /\ h.pref \in {Waiting[k], "ERROR"} /\ Untold(q) /\ Ready(h, k)
         /\ c[1].value = h.want[k] /\ Unordered(Tail(c))
<1>1. IsSeq(c)
  BY DEF Flight, Idle, Unordered, Underway, Ordering, Answered, Opened, Refused
<1>2. /\ IsSeq(Tail(c)) /\ Len(c) \in Nat \ {0} /\ Len(Tail(c)) = Len(c) - 1
      /\ \A i \in 1 .. Len(Tail(c)) : i + 1 \in 1 .. Len(c) /\ Tail(c)[i] = c[i + 1]
  BY <1>1, SeqTail
<1>3. 1 \in 1 .. Len(c) /\ \A i \in 1 .. Len(Tail(c)) : i + 1 # 1
  BY <1>2
<1>4. ~Unordered(c)
  BY <1>3 DEF Unordered, Measured
<1>5. PICK l \in Kinds : /\ h.state = "SYNCED" /\ h.pref \in {Waiting[l], "ERROR"}
                         /\ Ordering(h, l, q, c)
  BY <1>4 DEF Flight, Idle, Underway, Answered, Opened, Refused
<1>6. PICK i \in 1 .. Len(c) : /\ c[i].kind = l /\ c[i].value = h.want[l]
                               /\ \A j \in 1 .. Len(c) : j # i => ~Measured(c[j])
  BY <1>5 DEF Ordering
<1>7. i = 1 /\ l = k
  BY <1>3, <1>6 DEF Measured
<1>8. Unordered(Tail(c))
  BY <1>2, <1>3, <1>6, <1>7 DEF Unordered
<1> QED BY <1>5, <1>6, <1>7, <1>8 DEF Ordering

\* The device carries it out, or refuses.
LEMMA FlightCarried ==
  ASSUME NEW h, NEW q, NEW c, NEW s, NEW v, Flight(h, q, c, s), c # <<>>, NEW k \in Kinds, c[1].kind = k,
         v[k] = c[1].value, NEW a, NEW b, a.kind = Opening[k], b.kind = Closing[k], a.id = b.id,
         a.value = c[1].value, b.value = c[1].value
  PROVE  Flight(h, Append(Append(q, a), b), Tail(c), v)
<1> DEFINE x == Append(q, a)
           r == Append(x, b)
           i == Len(q) + 1
           n == Len(q) + 2
<1>1. /\ h.state = "SYNCED" /\ h.pref \in {Waiting[k], "ERROR"} /\ Untold(q) /\ Ready(h, k)
      /\ c[1].value = h.want[k] /\ Unordered(Tail(c))
  BY OrderAtHead
<1>2. /\ IsSeq(x) /\ Len(q) \in Nat /\ Len(x) = i /\ x[i] = a
      /\ \A j \in 1 .. Len(q) : x[j] = q[j]
  BY <1>1, SeqExtended DEF Untold
<1> HIDE DEF x
<1>3. /\ IsSeq(r) /\ Len(r) = n /\ r[n] = b
      /\ \A j \in 1 .. i : r[j] = x[j]
  <2>1. /\ IsSeq(r) /\ Len(r) = Len(x) + 1 /\ r[Len(x) + 1] = b
        /\ \A j \in 1 .. Len(x) : r[j] = x[j]
    BY <1>2, SeqExtended
  <2>2. Len(x) + 1 = n /\ Len(x) = i
    BY <1>2
  <2> QED BY <2>1, <2>2
<1> HIDE DEF r
<1>4. /\ i \in 1 .. n /\ n \in 1 .. n /\ n = i + 1 /\ i \in 1 .. i
      /\ \A j \in 1 .. n : j # i /\ j # n => j \in 1 .. Len(q) /\ j \in 1 .. i
  BY <1>2
<1>5. r[i] = a /\ r[n] = b /\ \A j \in 1 .. n : j # i /\ j # n => ~Told(r[j])
  BY <1>1, <1>2, <1>3, <1>4 DEF Untold
<1> HIDE DEF i, n
<1>6. Answered(h, k, r, Tail(c), v)
  BY <1>1, <1>3, <1>4, <1>5 DEF Answered
<1> QED BY <1>1, <1>6 DEF Flight, Underway, r, x

LEMMA FlightRefused ==
  ASSUME NEW h, NEW q, NEW c, NEW s, Flight(h, q, c, s), c # <<>>, NEW k \in Kinds, c[1].kind = k,
         NEW m, m.kind = Refusal[k]
  PROVE  Flight(h, Append(q, m), Tail(c), s)
<1> DEFINE r == Append(q, m)
           n == Len(q) + 1
<1>1. /\ h.state = "SYNCED" /\ h.pref \in {Waiting[k], "ERROR"} /\ Untold(q) /\ Unordered(Tail(c))
  BY OrderAtHead
<1>2. /\ IsSeq(r) /\ Len(q) \in Nat /\ Len(r) = n /\ r[n] = m
      /\ \A j \in 1 .. Len(q) : r[j] = q[j]
  BY <1>1, SeqExtended DEF Untold
<1> HIDE DEF r
<1>3. n \in 1 .. n /\ \A j \in 1 .. n : j # n => j \in 1 .. Len(q)
  BY <1>2
<1>4. \A j \in 1 .. n : j # n => ~Told(r[j])
  BY <1>1, <1>2, <1>3 DEF Untold
<1>5. Refused(r, k, Tail(c))
  BY <1>1, <1>2, <1>3, <1>4 DEF Refused
<1> QED BY <1>1, <1>5 DEF Flight, Underway, r

\* The first report of a transaction that the host can take: the acceptance, after which
\* the host waits for the confirmation under the request ID of the device; or the
\* confirmation of what it waits for; or the refusal.
LEMMA FlightTold ==
  ASSUME NEW h, NEW q, NEW c, NEW s, Flight(h, q, c, s), q # <<>>, Told(q[1])
  PROVE  \E k \in Kinds :
           /\ h.state = "SYNCED" /\ h.pref \in {Waiting[k], "ERROR"} /\ Unordered(c) /\ IsSeq(Tail(q))
           /\ \/ /\ q[1].kind = Opening[k] /\ Ready(h, k) /\ s[k] = h.want[k] /\ q[1].value = s[k]
                 /\ Len(Tail(q)) \in Nat \ {0} /\ Tail(q)[1].kind = Closing[k] /\ Tail(q)[1].value = s[k]
                 /\ Tail(q)[1].id = q[1].id
                 /\ \A j \in 1 .. Len(Tail(q)) : j # 1 => ~Told(Tail(q)[j])
              \/ /\ q[1].kind = Closing[k] /\ q[1].value = s[k]
                 /\ h.req[k] = q[1].id /\ (k = "modes" => h.pending[k] = s[k])
                 /\ Untold(Tail(q))
              \/ q[1].kind = Refusal[k] /\ Untold(Tail(q))
<1> DEFINE r == Tail(q)
<1>1. IsSeq(q)
  BY DEF Flight, Idle, Untold, Underway, Ordering, Answered, Opened, Refused
<1>2. /\ IsSeq(r) /\ Len(q) \in Nat \ {0} /\ Len(r) = Len(q) - 1
      /\ \A i \in 1 .. Len(r) : i + 1 \in 1 .. Len(q) /\ r[i] = q[i + 1]
  BY <1>1, SeqTail
<1> HIDE DEF r
<1>3. 1 \in 1 .. Len(q) /\ \A j \in 1 .. Len(r) : j + 1 # 1
  BY <1>2
<1>4. ~Untold(q)
  BY <1>3 DEF Untold
<1>5. PICK k \in Kinds : /\ h.state = "SYNCED" /\ h.pref \in {Waiting[k], "ERROR"}
                         /\ Answered(h, k, q, c, s) \/ Opened(h, k, q, c, s) \/ Refused(q, k, c)
  BY <1>4 DEF Flight, Idle, Underway, Ordering
<1>6. (\A j \in 1 .. Len(q) : j # 1 => ~Told(q[j])) => Untold(r)
  BY <1>2, <1>3 DEF Untold
<1>7. CASE Answered(h, k, q, c, s)
  <2>1. PICK i \in 1 .. Len(q), n \in 1 .. Len(q) :
          /\ n = i + 1 /\ q[i].kind = Opening[k] /\ q[i].value = s[k]
          /\ q[n].kind = Closing[k] /\ q[n].value = s[k] /\ q[n].id = q[i].id
          /\ \A j \in 1 .. Len(q) : j # i /\ j # n => ~Told(q[j])
    BY <1>7 DEF Answered
  <2>2. i = 1 /\ n = 2
    BY <1>2, <1>3, <2>1
  <2>3. 1 \in 1 .. Len(r) /\ Len(r) \in Nat \ {0} /\ 1 + 1 = 2
        /\ \A j \in 1 .. Len(r) : j # 1 => j + 1 # 1 /\ j + 1 # 2
    BY <1>2, <2>1, <2>2
  <2>4. r[1] = q[2] /\ \A j \in 1 .. Len(r) : j # 1 => ~Told(r[j])
    BY <1>2, <2>1, <2>2, <2>3
  <2> QED BY <1>2, <1>5, <1>7, <2>1, <2>2, <2>3, <2>4 DEF Answered, r
<1>8. CASE Opened(h, k, q, c, s)
  BY <1>2, <1>5, <1>6, <1>8 DEF Opened, r
<1>9. CASE Refused(q, k, c)
  <2>1. PICK i \in 1 .. Len(q) : q[i].kind = Refusal[k] /\ \A j \in 1 .. Len(q) : j # i => ~Told(q[j])
    BY <1>9 DEF Refused
  <2>2. i = 1
    BY <1>3, <2>1
  <2> QED BY <1>2, <1>5, <1>6, <1>9, <2>1, <2>2 DEF Refused, r
<1> QED BY <1>5, <1>7, <1>8, <1>9

\* What a transaction touches at the host.
LEMMA FlightKept ==
  ASSUME NEW h, NEW q, NEW c, NEW s, Flight(h, q, c, s), NEW g,
         Idle(q, c) \/ (g.state = h.state /\ g.pref \in {h.pref, "ERROR"} /\ g.want = h.want
                        /\ g.req = h.req /\ g.pending = h.pending)
  PROVE  Flight(g, q, c, s)
  BY DEF Flight, Underway, Ordering, Answered, Opened, Ready

\* A reading that comes in meanwhile leaves it to the report of the device.
LEMMA FlightRead ==
  ASSUME NEW h, NEW q, NEW c, NEW s, Flight(h, q, c, s), q # <<>>, ~Told(q[1]), NEW g,
         g.state = h.state, g.pref = h.pref, g.want = h.want,
         \A k \in Kinds : /\ g.req[k] \in {h.req[k], None}
                          /\ g.pending[k] \in {h.pending[k], None}
  PROVE  Flight(g, q, c, s)
<1>1. ASSUME NEW k \in Kinds
      PROVE  /\ Ready(h, k) => Ready(g, k)
             /\ ~Opened(h, k, q, c, s)
  BY DEF Ready, Opened, Told, Closing, Kinds
<1>2. ASSUME NEW k \in Kinds
      PROVE  /\ Ordering(h, k, q, c) => Ordering(g, k, q, c)
             /\ Answered(h, k, q, c, s) => Answered(g, k, q, c, s)
  BY <1>1 DEF Ordering, Answered
<1>3. ASSUME NEW k \in Kinds, Underway(h, k, q, c, s)
      PROVE  Underway(g, k, q, c, s)
  BY <1>1, <1>2, <1>3 DEF Underway
<1> QED BY <1>3 DEF Flight

-----------------------------------------------------------------------------
(* What has been read back.                                                *)

\* A reading on its way is right, or a confirmation follows it.
Faithful(q, s) ==
  /\ IsSeq(q)
  /\ \A k \in Kinds : \A i \in 1 .. Len(q) :
       q[i].kind = Asking[k] =>
         q[i].value = s[k] \/ \E j \in 1 .. Len(q) : i < j /\ q[j].kind = Closing[k]

\* So is what the host shows.
Shows(h, q, s) ==
  \A k \in Kinds : k \in h.seen =>
    h.active[k] = s[k] \/ \E j \in 1 .. Len(q) : q[j].kind = Closing[k]

LEMMA FaithfulAppend ==
  ASSUME NEW q, NEW s, Faithful(q, s), NEW m, \A k \in Kinds : m.kind = Asking[k] => m.value = s[k]
  PROVE  /\ Faithful(Append(q, m), s)
         /\ \A h : Shows(h, q, s) => Shows(h, Append(q, m), s)
<1> DEFINE r == Append(q, m)
<1>1. /\ IsSeq(r) /\ Len(q) \in Nat /\ Len(r) = Len(q) + 1 /\ r[Len(q) + 1] = m
      /\ \A i \in 1 .. Len(q) : r[i] = q[i]
  BY SeqExtended DEF Faithful
<1> HIDE DEF r
<1>2. /\ \A i \in 1 .. Len(r) : i \in 1 .. Len(q) \/ i = Len(q) + 1
      /\ \A i \in 1 .. Len(q) : i \in 1 .. Len(r)
  BY <1>1
<1>3. ASSUME NEW k \in Kinds, NEW i \in 1 .. Len(r), r[i].kind = Asking[k], r[i].value # s[k]
      PROVE  \E j \in 1 .. Len(r) : i < j /\ r[j].kind = Closing[k]
  <2>1. i \in 1 .. Len(q) /\ r[i] = q[i]
    BY <1>1, <1>2, <1>3
  <2>2. PICK j \in 1 .. Len(q) : i < j /\ q[j].kind = Closing[k]
    BY <1>3, <2>1 DEF Faithful
  <2> QED BY <1>1, <1>2, <2>2
<1>4. \A h : Shows(h, q, s) => Shows(h, r, s)
  <2>1. \A k \in Kinds : (\E j \in 1 .. Len(q) : q[j].kind = Closing[k])
                           => \E j \in 1 .. Len(r) : r[j].kind = Closing[k]
    BY <1>1, <1>2
  <2> QED BY <2>1 DEF Shows
<1>5. Faithful(r, s)
  BY <1>1, <1>3 DEF Faithful
<1> QED BY <1>4, <1>5 DEF r

\* The device changes a setting and says so.
LEMMA FaithfulCarried ==
  ASSUME NEW q, NEW s, Faithful(q, s), NEW l \in Kinds, NEW v, \A k \in Kinds : k # l => v[k] = s[k],
         NEW a, NEW b, a.kind = Opening[l], b.kind = Closing[l]
  PROVE  /\ Faithful(Append(Append(q, a), b), v)
         /\ \A h : Shows(h, q, s) => Shows(h, Append(Append(q, a), b), v)
<1> DEFINE x == Append(q, a)
           r == Append(x, b)
           n == Len(q) + 2
<1>1. /\ IsSeq(x) /\ Len(q) \in Nat /\ Len(x) = Len(q) + 1 /\ x[Len(q) + 1] = a
      /\ \A i \in 1 .. Len(q) : x[i] = q[i]
  BY SeqExtended DEF Faithful
<1> HIDE DEF x
<1>2. /\ IsSeq(r) /\ Len(r) = Len(x) + 1 /\ r[Len(x) + 1] = b
      /\ \A i \in 1 .. Len(x) : r[i] = x[i]
  BY <1>1, SeqExtended
<1> HIDE DEF r
<1>3. /\ Len(r) = n /\ n \in 1 .. n /\ Len(x) + 1 = n
      /\ \A i \in 1 .. n : (i \in 1 .. Len(q) /\ i \in 1 .. Len(x) /\ i < n) \/ i = Len(q) + 1 \/ i = n
      /\ \A i \in 1 .. Len(q) : i \in 1 .. n /\ i \in 1 .. Len(x)
      /\ Len(q) + 1 \in 1 .. Len(x)
  BY <1>1, <1>2
<1>4. /\ r[n] = b /\ r[Len(q) + 1] = a /\ \A i \in 1 .. Len(q) : r[i] = q[i]
  BY <1>1, <1>2, <1>3
<1>5. \A k \in Kinds : a.kind # Asking[k] /\ b.kind # Asking[k]
  BY DEF Kinds, Opening, Closing, Asking
<1>6. ASSUME NEW k \in Kinds, NEW i \in 1 .. n, r[i].kind = Asking[k], r[i].value # v[k]
      PROVE  \E j \in 1 .. n : i < j /\ r[j].kind = Closing[k]
  <2>1. i \in 1 .. Len(q) /\ r[i] = q[i] /\ i < n
    BY <1>3, <1>4, <1>5, <1>6
  <2>2. CASE k = l
    BY <1>3, <1>4, <2>1, <2>2
  <2>3. CASE k # l
    <3>1. PICK j \in 1 .. Len(q) : i < j /\ q[j].kind = Closing[k]
      BY <1>6, <2>1, <2>3 DEF Faithful
    <3> QED BY <1>3, <1>4, <3>1
  <2> QED BY <2>2, <2>3
<1>7. ASSUME NEW h, Shows(h, q, s), NEW k \in Kinds, k \in h.seen, h.active[k] # v[k]
      PROVE  \E j \in 1 .. n : r[j].kind = Closing[k]
  <2>1. CASE k = l
    BY <1>3, <1>4, <2>1
  <2>2. CASE k # l
    <3>1. PICK j \in 1 .. Len(q) : q[j].kind = Closing[k]
      BY <1>7, <2>2 DEF Shows
    <3> QED BY <1>3, <1>4, <3>1
  <2> QED BY <2>1, <2>2
<1>8. Faithful(r, v) /\ \A h : Shows(h, q, s) => Shows(h, r, v)
  BY <1>2, <1>3, <1>6, <1>7 DEF Faithful, Shows
<1> QED BY <1>8 DEF r, x

LEMMA FaithfulTail ==
  ASSUME NEW q, NEW s, Faithful(q, s), q # <<>>
  PROVE  Faithful(Tail(q), s)
<1> DEFINE r == Tail(q)
<1>1. /\ IsSeq(r) /\ Len(q) \in Nat \ {0} /\ Len(r) = Len(q) - 1
      /\ \A i \in 1 .. Len(r) : i + 1 \in 1 .. Len(q) /\ r[i] = q[i + 1]
  BY SeqTail DEF Faithful
<1> HIDE DEF r
<1>2. ASSUME NEW k \in Kinds, NEW i \in 1 .. Len(r), r[i].kind = Asking[k], r[i].value # s[k]
      PROVE  \E j \in 1 .. Len(r) : i < j /\ r[j].kind = Closing[k]
  <2>1. PICK j \in 1 .. Len(q) : i + 1 < j /\ q[j].kind = Closing[k]
    BY <1>1, <1>2 DEF Faithful
  <2>2. j - 1 \in 1 .. Len(r) /\ i < j - 1 /\ (j - 1) + 1 = j
    BY <1>1, <2>1
  <2> QED BY <1>1, <2>1, <2>2
<1>3. Faithful(r, s)
  BY <1>1, <1>2 DEF Faithful
<1> QED BY <1>3 DEF r

\* The host takes a report: where it changes what is shown, it shows what is so.
LEMMA ShowsTail ==
  ASSUME NEW q, NEW s, Faithful(q, s), q # <<>>, NEW h, Shows(h, q, s), NEW g,
         \A k \in Kinds : q[1].kind = Closing[k] => g.active[k] = s[k],
         \A k \in Kinds : k \in g.seen =>
           \/ k \in h.seen /\ g.active[k] = h.active[k]
           \/ g.active[k] = s[k]
           \/ q[1].kind = Asking[k] /\ g.active[k] = q[1].value
  PROVE  Shows(g, Tail(q), s)
<1> DEFINE r == Tail(q)
<1>1. /\ IsSeq(r) /\ Len(q) \in Nat \ {0} /\ Len(r) = Len(q) - 1
      /\ \A i \in 1 .. Len(r) : i + 1 \in 1 .. Len(q) /\ r[i] = q[i + 1]
  BY SeqTail DEF Faithful
<1> HIDE DEF r
<1>2. 1 \in 1 .. Len(q) /\ \A j \in 1 .. Len(q) : j # 1 => j - 1 \in 1 .. Len(r) /\ (j - 1) + 1 = j
  BY <1>1
<1>3. ASSUME NEW k \in Kinds, NEW j \in 1 .. Len(q), j # 1, q[j].kind = Closing[k]
      PROVE  \E i \in 1 .. Len(r) : r[i].kind = Closing[k]
  <2> DEFINE i == j - 1
  <2>1. i \in 1 .. Len(r) /\ i + 1 = j
    BY <1>2, <1>3
  <2> HIDE DEF i
  <2>2. r[i] = q[j]
    BY <1>1, <2>1
  <2> QED BY <1>3, <2>1, <2>2
<1>4. ASSUME NEW k \in Kinds, k \in g.seen, g.active[k] # s[k]
      PROVE  \E i \in 1 .. Len(r) : r[i].kind = Closing[k]
  <2>1. \E j \in 1 .. Len(q) : q[j].kind = Closing[k] /\ j # 1
    <3>1. CASE k \in h.seen /\ g.active[k] = h.active[k]
      BY <1>4, <3>1 DEF Shows
    <3>2. CASE q[1].kind = Asking[k] /\ g.active[k] = q[1].value
      <4>1. \A j \in 1 .. Len(q) : 1 < j => j # 1
        BY <1>1
      <4> QED BY <1>2, <1>4, <3>2, <4>1 DEF Faithful
    <3> QED BY <1>4, <3>1, <3>2
  <2> QED BY <1>3, <2>1
<1>5. Shows(g, r, s)
  BY <1>4 DEF Shows
<1> QED BY <1>5 DEF r

-----------------------------------------------------------------------------
(* What the steps of the host are.                                         *)

\* The fields that what is known of the device depends on.
Full(h) ==
  /\ "state" \in DOMAIN h /\ "ask" \in DOMAIN h /\ "seen" \in DOMAIN h /\ "known" \in DOMAIN h
  /\ "want" \in DOMAIN h /\ "pref" \in DOMAIN h
  /\ "sent" \in DOMAIN h /\ IsSeq(h.sent)
  /\ "active" \in DOMAIN h /\ DOMAIN h.active = Kinds /\ h.active = [k \in Kinds |-> h.active[k]]
  /\ "pending" \in DOMAIN h /\ Kinds \subseteq DOMAIN h.pending
  /\ "req" \in DOMAIN h /\ Kinds \subseteq DOMAIN h.req

\* g has learned nothing that h did not know.
Knows(g, h) ==
  /\ Full(g) /\ g.seen = h.seen /\ g.known = h.known /\ g.active = h.active /\ g.want = h.want

Wrote(g, h, x) == link.up /\ g.sent = Append(h.sent, x)

\* The question f is asked; the bootstrap is over, waits, or is complete.
Asks(g, h, f) ==
  /\ Knows(g, h) /\ g.state = h.state /\ g.ask = f
  /\ g.sent = h.sent \/ Wrote(g, h, Command(f, None))
Stops(g, h) == Knows(g, h) /\ g.state \notin {"BOOTSTRAPPING", "SYNCED"} /\ g.sent = h.sent
Waits(g, h) == Knows(g, h) /\ g.state = h.state /\ g.ask = None /\ g.sent = h.sent
Syncs(g, h) == Knows(g, h) /\ g.state = "SYNCED" /\ g.ask = None /\ g.sent = h.sent

\* x is an order of the restore; or that of a setting that is only displayed.
Restores(g, h, x) ==
  /\ x.kind \in DOMAIN Waiting
  /\ Measured(x) => /\ x = Command(x.kind, g.want[x.kind]) /\ g.pref \in {Waiting[x.kind], "ERROR"}
                    /\ g.req[x.kind] = None /\ g.pending[x.kind] = g.want[x.kind]

\* The restore moves on.
Moved(g, h) ==
  /\ Knows(g, h) /\ g.state = h.state /\ g.ask = h.ask
  /\ \/ g.sent = h.sent
     \/ h.state = "SYNCED" /\ \E x : Wrote(g, h, x) /\ Restores(g, h, x)

LEMMA WrittenIs ==
  ASSUME NEW h, Full(h), NEW c, NEW g \in Written(h, c)
  PROVE  /\ Full(g) /\ Wrote(g, h, c)
         /\ g.state = h.state /\ g.ask = h.ask /\ g.seen = h.seen /\ g.known = h.known /\ g.want = h.want
         /\ g.pref = h.pref /\ g.active = h.active /\ g.pending = h.pending /\ g.req = h.req
<1>1. g = [h EXCEPT !.sent = Append(@, c)] /\ link.up
  BY DEF Written
<1>2. /\ g.state = h.state /\ g.ask = h.ask /\ g.seen = h.seen /\ g.known = h.known /\ g.want = h.want
      /\ g.pref = h.pref /\ g.active = h.active /\ g.pending = h.pending /\ g.req = h.req
      /\ g.sent = Append(h.sent, c) /\ DOMAIN g = DOMAIN h
  BY <1>1 DEF Full
<1>3. IsSeq(g.sent)
  BY <1>2, SeqExtended DEF Full
<1> QED BY <1>1, <1>2, <1>3 DEF Full, Wrote

LEMMA SendQueryIs ==
  ASSUME NEW h, Full(h), NEW q, NEW n, NEW g \in SendQuery(h, q, n)
  PROVE  Asks(g, h, q) \/ Stops(g, h)
<1> DEFINE asked == [h EXCEPT !.ask = q, !.waiting = FALSE, !.retries = n]
           failed == Failed(h, "FAILED")
<1>1. g \in Written(asked, Command(q, None)) \cup {failed, asked}
  BY DEF SendQuery
<1>2. Knows(asked, h) /\ asked.state = h.state /\ asked.ask = q /\ asked.sent = h.sent
  BY DEF Full, Knows
<1>3. Stops(failed, h)
  BY DEF Failed, Full, Knows, Stops
<1> HIDE DEF asked, failed
<1>4. ASSUME g \in Written(asked, Command(q, None))
      PROVE  Asks(g, h, q)
  BY <1>2, <1>4, WrittenIs DEF Knows, Asks, Wrote
<1> QED BY <1>1, <1>2, <1>3, <1>4 DEF Asks

LEMMA CarryIs ==
  ASSUME NEW h, Full(h), NEW d, d \in DOMAIN Waiting => h.state = "SYNCED", NEW g \in Carry(h, d)
  PROVE  Moved(g, h)
<1>1. CASE d \notin DOMAIN Waiting
  <2>1. g = [h EXCEPT !.pref = d]
    BY <1>1 DEF Carry
  <2> QED BY <2>1 DEF Full, Knows, Moved
<1>2. CASE d \in DOMAIN Waiting
  <2> DEFINE c == Command(d, h.want[d])
             begun == IF d = "usb" THEN h
                      ELSE [h EXCEPT !.pending[d] = h.want[d], !.req[d] = None]
             failed == [begun EXCEPT !.pref = "ERROR"]
             refused == IF d = "usb" THEN failed ELSE [failed EXCEPT !.pending[d] = None]
             waits == [begun EXCEPT !.pref = Waiting[d]]
             rejected == [h EXCEPT !.pref = "ERROR"]
  <2>1. g \in Written(waits, c) \/ g \in Written(failed, c) \/ g \in {failed, refused, rejected}
    BY <1>2 DEF Carry, Ask
  <2>2. /\ Knows(begun, h) /\ begun.state = h.state /\ begun.ask = h.ask /\ begun.sent = h.sent
        /\ d \in Kinds => begun.pending[d] = h.want[d] /\ begun.req[d] = None
    <3>1. CASE d = "usb"
      BY <3>1 DEF Full, Knows, Kinds
    <3>2. CASE d # "usb"
      <4>1. begun = [h EXCEPT !.pending[d] = h.want[d], !.req[d] = None]
        BY <3>2
      <4>2. /\ DOMAIN begun = DOMAIN h /\ begun.state = h.state /\ begun.ask = h.ask
            /\ begun.seen = h.seen /\ begun.known = h.known /\ begun.active = h.active
            /\ begun.want = h.want /\ begun.sent = h.sent
            /\ begun.pending = [h.pending EXCEPT ![d] = h.want[d]]
            /\ begun.req = [h.req EXCEPT ![d] = None]
        BY <4>1 DEF Full
      <4> HIDE DEF begun
      <4>3. /\ DOMAIN begun.pending = DOMAIN h.pending /\ DOMAIN begun.req = DOMAIN h.req
            /\ d \in Kinds => begun.pending[d] = h.want[d] /\ begun.req[d] = None
        BY <4>2 DEF Full
      <4> QED BY <4>2, <4>3 DEF Full, Knows
    <3> QED BY <3>1, <3>2
  <2> HIDE DEF begun
  <2>3. /\ Knows(waits, h) /\ waits.state = h.state /\ waits.ask = h.ask /\ waits.sent = h.sent
        /\ waits.pref = Waiting[d] /\ waits.pending = begun.pending /\ waits.req = begun.req
    BY <2>2 DEF Full, Knows
  <2>4. /\ Knows(failed, h) /\ failed.state = h.state /\ failed.ask = h.ask /\ failed.sent = h.sent
        /\ failed.pref = "ERROR" /\ failed.pending = begun.pending /\ failed.req = begun.req
    BY <2>2 DEF Full, Knows
  <2> HIDE DEF waits, failed
  <2>5. Moved(refused, h)
    <3>1. CASE d = "usb"
      BY <2>4, <3>1 DEF Moved
    <3>2. CASE d # "usb"
      <4>1. refused = [failed EXCEPT !.pending[d] = None]
        BY <3>2
      <4> HIDE DEF refused
      <4>2. /\ DOMAIN refused = DOMAIN failed /\ refused.state = h.state /\ refused.ask = h.ask
            /\ refused.seen = h.seen /\ refused.known = h.known /\ refused.active = h.active
            /\ refused.want = h.want /\ refused.sent = h.sent /\ refused.req = failed.req
            /\ refused.pending = [failed.pending EXCEPT ![d] = None]
        BY <2>4, <4>1 DEF Full, Knows
      <4>3. DOMAIN refused.pending = DOMAIN failed.pending
        BY <4>2
      <4> QED BY <2>4, <4>2, <4>3 DEF Full, Knows, Moved
    <3> QED BY <3>1, <3>2
  <2> HIDE DEF refused
  <2>6. Moved(rejected, h)
    BY DEF Full, Knows, Moved
  <2> HIDE DEF rejected
  <2>7. c.kind = d /\ c = Command(c.kind, h.want[c.kind])
    BY DEF Command
  <2> HIDE DEF c
  <2>8. ASSUME NEW x \in {waits, failed}, g \in Written(x, c)
        PROVE  Moved(g, h)
    <3>1. /\ Knows(x, h) /\ x.state = h.state /\ x.ask = h.ask /\ x.sent = h.sent
          /\ x.pref \in {Waiting[d], "ERROR"} /\ x.pending = begun.pending /\ x.req = begun.req
      BY <2>3, <2>4, <2>8
    <3>2. /\ Full(g) /\ Wrote(g, x, c)
          /\ g.state = x.state /\ g.ask = x.ask /\ g.seen = x.seen /\ g.known = x.known /\ g.want = x.want
          /\ g.pref = x.pref /\ g.active = x.active /\ g.pending = x.pending /\ g.req = x.req
      BY <2>8, <3>1, WrittenIs DEF Knows
    <3>3. Knows(g, h) /\ Wrote(g, h, c)
      BY <3>1, <3>2 DEF Knows, Wrote
    <3>4. Restores(g, h, c)
      BY <1>2, <2>2, <2>7, <3>1, <3>2, <3>3 DEF Restores, Measured, Knows
    <3> QED BY <1>2, <3>1, <3>2, <3>3, <3>4 DEF Moved
  <2> QED BY <2>1, <2>4, <2>5, <2>6, <2>8 DEF Moved
<1> QED BY <1>1, <1>2

LEMMA AdvanceIs ==
  ASSUME NEW h, Full(h), NEW g \in Advance(h)
  PROVE  Moved(g, h)
<1>1. Moved(h, h)
  BY DEF Knows, Moved
<1> DEFINE d == Decision(h)
<1>2. d \in {"rows", "modes", "usb"} => h.state = "SYNCED"
  BY DEF Decision
<1> HIDE DEF d
<1>3. d \in DOMAIN Waiting => h.state = "SYNCED"
  BY <1>2 DEF Waiting
<1> QED BY <1>1, <1>3, CarryIs DEF Advance, d

\* x and h differ in what the restore is about to do.
Same(x, h) ==
  /\ Knows(x, h) /\ x.state = h.state /\ x.ask = h.ask /\ x.sent = h.sent

LEMMA MovedFrom ==
  ASSUME NEW h, NEW x, Same(x, h), NEW g, Moved(g, x)
  PROVE  Moved(g, h)
<1>1. Knows(g, h) /\ g.state = h.state /\ g.ask = h.ask /\ x.sent = h.sent /\ x.state = h.state
      /\ x.want = h.want
  BY DEF Same, Moved, Knows
<1>2. \A y : Wrote(g, x, y) /\ Restores(g, x, y) => Wrote(g, h, y) /\ Restores(g, h, y)
  BY <1>1 DEF Wrote, Restores
<1> QED BY <1>1, <1>2 DEF Moved

LEMMA BootstrapCompleteIs ==
  ASSUME NEW h, Full(h), NEW g \in OnBootstrapComplete(h)
  PROVE  Moved(g, h)
<1> DEFINE disabled == [h EXCEPT !.pref = "DISABLED", !.target = h.bootId, !.restore = FALSE]
           ready == [h EXCEPT !.pref = "READY"]
           d == IF h.bootChanged THEN disabled ELSE h
<1>1. \/ g \in Advance(Started(h, TRUE)) \/ g \in Advance(ready)
      \/ g \in Advance(Started(d, FALSE)) \/ g = d
  BY DEF OnBootstrapComplete
<1>2. Same(h, h) /\ Same(disabled, h) /\ Same(ready, h)
  BY DEF Full, Knows, Same
<1> HIDE DEF disabled, ready
<1>3. Same(d, h)
  BY <1>2
<1> HIDE DEF d
<1>4. ASSUME NEW x, Same(x, h), NEW r PROVE Same(Started(x, r), h)
  BY <1>4 DEF Started, Full, Knows, Same
<1>5. ASSUME NEW x, Same(x, h), NEW y \in Advance(x) PROVE Moved(y, h)
  <2>1. Moved(y, x)
    BY <1>5, AdvanceIs DEF Same, Knows
  <2> QED BY <1>5, <2>1, MovedFrom
<1>6. Moved(d, h)
  BY <1>3 DEF Same, Moved
<1> QED BY <1>1, <1>2, <1>3, <1>4, <1>5, <1>6

LEMMA SynchronizeIs ==
  ASSUME NEW h, Full(h), NEW m, NEW g \in Synchronize(h, m)
  PROVE  \/ g = h
         \/ /\ h.state = "BOOTSTRAPPING" /\ h.ask # None /\ m.kind = h.ask
            /\ \/ Stops(g, h)
               \/ m.kind = "READY?" /\ Waits(g, h)
               \/ m.kind = Last /\ \E x : Syncs(x, h) /\ Moved(g, x)
               \/ m.kind # Last /\ Asks(g, h, Follows(m.kind))
<1> DEFINE read == IF m.kind = "USBSTREAM?" THEN [h EXCEPT !.usbRead = m.value] ELSE h
           synced == [read EXCEPT !.ask = None, !.state = "SYNCED"]
           failed == Failed(h, "INCOMPATIBLE_FIRMWARE")
           later == PollLater(h)
           asks == h.state = "BOOTSTRAPPING" /\ h.ask # None /\ m.kind = h.ask
<1>1. \/ g = h
      \/ asks /\ g = failed
      \/ asks /\ m.kind = "READY?" /\ g = later
      \/ asks /\ m.kind = Last /\ g \in OnBootstrapComplete(synced)
      \/ asks /\ m.kind # Last /\ g \in SendQuery(read, Follows(m.kind), 0)
  BY DEF Synchronize, Completed
<1>2. Knows(read, h) /\ read.state = h.state /\ read.ask = h.ask /\ read.sent = h.sent
  BY DEF Full, Knows
<1> HIDE DEF read
<1>3. Syncs(synced, h)
  BY <1>2 DEF Full, Knows, Syncs
<1> HIDE DEF synced
<1>4. Stops(failed, h)
  BY DEF Failed, Full, Knows, Stops
<1>5. Waits(later, h)
  BY DEF PollLater, Full, Knows, Waits
<1> HIDE DEF failed, later
<1>6. CASE asks /\ m.kind = Last /\ g \in OnBootstrapComplete(synced)
  <2>1. Moved(g, synced)
    BY <1>3, <1>6, BootstrapCompleteIs DEF Syncs, Knows
  <2> QED BY <1>3, <1>6, <2>1
<1>7. CASE asks /\ m.kind # Last /\ g \in SendQuery(read, Follows(m.kind), 0)
  <2>1. Asks(g, read, Follows(m.kind)) \/ Stops(g, read)
    BY <1>2, <1>7, SendQueryIs DEF Knows
  <2>2. Asks(g, h, Follows(m.kind)) \/ Stops(g, h)
    BY <1>2, <2>1 DEF Asks, Stops, Knows, Wrote
  <2> QED BY <1>7, <2>2
<1> QED BY <1>1, <1>4, <1>5, <1>6, <1>7

LEMMA ExpiredIs ==
  ASSUME NEW h, Full(h), NEW g \in Expired(h)
  PROVE  \/ Stops(g, h)
         \/ h.ask # None /\ Asks(g, h, h.ask)
         \/ h.ask = None /\ Asks(g, h, "READY?")
<1> DEFINE idle == [h EXCEPT !.ask = None]
           failed == Failed(h, "FAILED")
<1>1. \/ g = failed
      \/ h.ask # None /\ g \in SendQuery(idle, h.ask, h.retries + 1)
      \/ h.ask = None /\ g \in SendQuery(h, "READY?", 0)
  BY DEF Expired
<1>2. Knows(idle, h) /\ idle.state = h.state /\ idle.sent = h.sent
  BY DEF Full, Knows
<1>3. Stops(failed, h)
  BY DEF Failed, Full, Knows, Stops
<1> HIDE DEF idle, failed
<1>4. CASE h.ask # None /\ g \in SendQuery(idle, h.ask, h.retries + 1)
  <2>1. Asks(g, idle, h.ask) \/ Stops(g, idle)
    BY <1>2, <1>4, SendQueryIs DEF Knows
  <2>2. Asks(g, h, h.ask) \/ Stops(g, h)
    BY <1>2, <2>1 DEF Asks, Stops, Knows, Wrote
  <2> QED BY <1>4, <2>2
<1>5. CASE h.ask = None /\ g \in SendQuery(h, "READY?", 0)
  BY <1>5, SendQueryIs
<1> QED BY <1>1, <1>3, <1>4, <1>5

-----------------------------------------------------------------------------
(* The order of the answers.                                               *)

IsEarly(m) == m.kind \in Early
NoEarly(q) == IsSeq(q) /\ \A i \in 1 .. Len(q) : ~IsEarly(q[i])
AllEarly(q) == IsSeq(q) /\ \A i \in 1 .. Len(q) : IsEarly(q[i])

\* Nothing early is behind anything else, neither among the answers q nor among the
\* commands c that are still to be answered.
Sorted(q, c) ==
  /\ IsSeq(q) /\ IsSeq(c)
  /\ \A i, j \in 1 .. Len(q) : i < j /\ IsEarly(q[j]) => IsEarly(q[i])
  /\ \A i, j \in 1 .. Len(c) : i < j /\ IsEarly(c[j]) => IsEarly(c[i])
  /\ \A i \in 1 .. Len(q), j \in 1 .. Len(c) : IsEarly(c[j]) => IsEarly(q[i])

LEMMA EarlyKept ==
  /\ NoEarly(<<>>) /\ AllEarly(<<>>)
  /\ \A q, m : NoEarly(q) /\ ~IsEarly(m) => NoEarly(Append(q, m))
  /\ \A q, m : AllEarly(q) /\ IsEarly(m) => AllEarly(Append(q, m))
  /\ \A q : q # <<>> /\ NoEarly(q) => NoEarly(Tail(q)) /\ ~IsEarly(q[1])
  /\ \A q : q # <<>> /\ AllEarly(q) => AllEarly(Tail(q)) /\ IsEarly(q[1])
<1>1. NoEarly(<<>>) /\ AllEarly(<<>>)
  BY EmptyIsSeq DEF NoEarly, AllEarly
<1>2. ASSUME NEW q, NEW m, IsSeq(q)
      PROVE  /\ NoEarly(q) /\ ~IsEarly(m) => NoEarly(Append(q, m))
             /\ AllEarly(q) /\ IsEarly(m) => AllEarly(Append(q, m))
  <2> DEFINE r == Append(q, m)
  <2>1. /\ IsSeq(r) /\ Len(q) \in Nat /\ Len(r) = Len(q) + 1 /\ r[Len(q) + 1] = m
        /\ \A i \in 1 .. Len(q) : r[i] = q[i]
    BY <1>2, SeqExtended
  <2> HIDE DEF r
  <2>2. \A i \in 1 .. Len(r) : i \in 1 .. Len(q) \/ i = Len(q) + 1
    BY <2>1
  <2>3. /\ NoEarly(q) /\ ~IsEarly(m) => NoEarly(r)
        /\ AllEarly(q) /\ IsEarly(m) => AllEarly(r)
    BY <2>1, <2>2 DEF NoEarly, AllEarly
  <2> QED BY <2>3 DEF r
<1>3. ASSUME NEW q, q # <<>>, IsSeq(q)
      PROVE  /\ NoEarly(q) => NoEarly(Tail(q)) /\ ~IsEarly(q[1])
             /\ AllEarly(q) => AllEarly(Tail(q)) /\ IsEarly(q[1])
  <2> DEFINE r == Tail(q)
  <2>1. /\ IsSeq(r) /\ Len(q) \in Nat \ {0} /\ Len(r) = Len(q) - 1
        /\ \A i \in 1 .. Len(r) : i + 1 \in 1 .. Len(q) /\ r[i] = q[i + 1]
    BY <1>3, SeqTail
  <2> HIDE DEF r
  <2>2. 1 \in 1 .. Len(q)
    BY <2>1
  <2>3. /\ NoEarly(q) => NoEarly(r) /\ ~IsEarly(q[1])
        /\ AllEarly(q) => AllEarly(r) /\ IsEarly(q[1])
    BY <2>1, <2>2 DEF NoEarly, AllEarly
  <2> QED BY <2>3 DEF r
<1> QED BY <1>1, <1>2, <1>3 DEF NoEarly, AllEarly

\* A command is sent: an early one, only behind early ones.
LEMMA SortedSent ==
  ASSUME NEW q, NEW c, Sorted(q, c), NEW x, IsEarly(x) => AllEarly(q) /\ AllEarly(c)
  PROVE  Sorted(q, Append(c, x))
<1> DEFINE r == Append(c, x)
           n == Len(c) + 1
<1>1. /\ IsSeq(r) /\ Len(c) \in Nat /\ Len(r) = n /\ r[n] = x
      /\ \A i \in 1 .. Len(c) : r[i] = c[i]
  BY SeqExtended DEF Sorted
<1> HIDE DEF r
<1>2. /\ \A i \in 1 .. n : i \in 1 .. Len(c) \/ i = n
      /\ \A i, j \in 1 .. n : i < j => i \in 1 .. Len(c)
  BY <1>1
<1>3. ASSUME NEW i \in 1 .. n, NEW j \in 1 .. n, i < j, IsEarly(r[j])
      PROVE  IsEarly(r[i])
  <2>1. i \in 1 .. Len(c) /\ r[i] = c[i]
    BY <1>1, <1>2, <1>3
  <2>2. CASE j \in 1 .. Len(c)
    BY <1>1, <1>3, <2>1, <2>2 DEF Sorted
  <2>3. CASE j = n
    BY <1>1, <1>3, <2>1, <2>3 DEF AllEarly
  <2> QED BY <1>2, <2>2, <2>3
<1>4. ASSUME NEW i \in 1 .. Len(q), NEW j \in 1 .. n, IsEarly(r[j])
      PROVE  IsEarly(q[i])
  <2>1. CASE j \in 1 .. Len(c)
    BY <1>1, <1>4, <2>1 DEF Sorted
  <2>2. CASE j = n
    BY <1>1, <1>4, <2>2 DEF AllEarly
  <2> QED BY <1>2, <2>1, <2>2
<1>5. Sorted(q, r)
  BY <1>1, <1>3, <1>4 DEF Sorted
<1> QED BY <1>5 DEF r

\* The host takes a report; behind one that is not early there is nothing early.
LEMMA SortedTaken ==
  ASSUME NEW q, NEW c, Sorted(q, c), q # <<>>
  PROVE  /\ Sorted(Tail(q), c)
         /\ ~IsEarly(q[1]) => NoEarly(q) /\ NoEarly(c)
<1> DEFINE r == Tail(q)
<1>1. /\ IsSeq(r) /\ Len(q) \in Nat \ {0} /\ Len(r) = Len(q) - 1
      /\ \A i \in 1 .. Len(r) : i + 1 \in 1 .. Len(q) /\ r[i] = q[i + 1]
  BY SeqTail DEF Sorted
<1> HIDE DEF r
<1>2. 1 \in 1 .. Len(q) /\ \A i \in 1 .. Len(q) : i = 1 \/ 1 < i
  BY <1>1
<1>3. \A i, j \in 1 .. Len(r) : i < j => i + 1 < j + 1
  BY <1>1
<1>4. Sorted(r, c)
  BY <1>1, <1>3 DEF Sorted
<1>5. ~IsEarly(q[1]) => NoEarly(q) /\ NoEarly(c)
  BY <1>2 DEF Sorted, NoEarly
<1> QED BY <1>4, <1>5 DEF r

\* The device takes a command and reports; early, if it was asked an early question.
LEMMA SortedAnswer ==
  ASSUME NEW q, NEW c, Sorted(q, c), c # <<>>, NEW m, IsEarly(m) => IsEarly(c[1])
  PROVE  /\ ~IsEarly(c[1]) => NoEarly(c)
         /\ Sorted(Append(q, m), Tail(c)) \/ (IsEarly(c[1]) /\ ~IsEarly(m))
<1> DEFINE r == Tail(c)
           x == Append(q, m)
           n == Len(q) + 1
<1>1. /\ IsSeq(r) /\ Len(c) \in Nat \ {0} /\ Len(r) = Len(c) - 1
      /\ \A i \in 1 .. Len(r) : i + 1 \in 1 .. Len(c) /\ r[i] = c[i + 1]
  BY SeqTail DEF Sorted
<1>2. /\ IsSeq(x) /\ Len(q) \in Nat /\ Len(x) = n /\ x[n] = m
      /\ \A i \in 1 .. Len(q) : x[i] = q[i]
  BY SeqExtended DEF Sorted
<1> HIDE DEF r, x
<1>3. /\ 1 \in 1 .. Len(c) /\ \A i \in 1 .. Len(c) : i = 1 \/ 1 < i
      /\ \A i \in 1 .. Len(r) : 1 < i + 1
      /\ \A i, j \in 1 .. Len(r) : i < j => i + 1 < j + 1
      /\ \A i \in 1 .. n : i \in 1 .. Len(q) \/ i = n
      /\ \A i, j \in 1 .. n : i < j => i \in 1 .. Len(q)
  BY <1>1, <1>2
<1>4. ~IsEarly(c[1]) => NoEarly(c)
  BY <1>3 DEF Sorted, NoEarly
<1>5. ASSUME IsEarly(c[1]) => IsEarly(m)
      PROVE  Sorted(x, r)
  <2>1. \A i, j \in 1 .. Len(r) : i < j /\ IsEarly(r[j]) => IsEarly(r[i])
    BY <1>1, <1>3 DEF Sorted
  <2>2. ASSUME NEW i \in 1 .. n, NEW j \in 1 .. n, i < j, IsEarly(x[j])
        PROVE  IsEarly(x[i])
    <3>1. i \in 1 .. Len(q) /\ x[i] = q[i]
      BY <1>2, <1>3, <2>2
    <3>2. CASE j \in 1 .. Len(q)
      BY <1>2, <2>2, <3>1, <3>2 DEF Sorted
    <3>3. CASE j = n
      BY <1>2, <1>3, <2>2, <3>1, <3>3 DEF Sorted
    <3> QED BY <1>3, <3>2, <3>3
  <2>3. ASSUME NEW i \in 1 .. n, NEW j \in 1 .. Len(r), IsEarly(r[j])
        PROVE  IsEarly(x[i])
    <3>1. IsEarly(c[1])
      BY <1>1, <1>3, <2>3 DEF Sorted
    <3>2. CASE i \in 1 .. Len(q)
      BY <1>2, <1>3, <3>1, <3>2 DEF Sorted
    <3>3. CASE i = n
      BY <1>2, <1>5, <3>1, <3>3
    <3> QED BY <1>3, <3>2, <3>3
  <2> QED BY <1>1, <1>2, <2>1, <2>2, <2>3 DEF Sorted
<1> QED BY <1>4, <1>5 DEF r, x

-----------------------------------------------------------------------------
(* What the questions tell.                                                *)

\* The question that brings a setting, and those that come after it.
Sources == [mode |-> "STATE?", rows |-> "ROWS?", modes |-> "ROWMODES?"]
Unread == {"FDCISO?", "BAT?", "RAIL?", "CAL?", "ST=AUTO", "USBSTREAM?", "BTX?"}
After == [mode |-> {"ROWS?", "ROWMODES?"} \cup Unread, rows |-> {"ROWMODES?"} \cup Unread, modes |-> Unread]

\* An index of q from which on the questions are those that do not read anything back.
Read(q, n) ==
  /\ q \in Seq(AllQuestions) /\ n \in 3 .. Len(q) /\ q[n - 2] = "STATE?" /\ q[n - 1] = "ROWS?"
  /\ q[n] = "ROWMODES?"
  /\ \A i \in 1 .. Len(q) : (i < n - 2 => q[i] \in Early \cup {"READY?"}) /\ (i > n => q[i] \in Unread)
  /\ \A i \in 1 .. Len(q) - 1 : q[i] \in Early => q[i + 1] \in Early \cup {"READY?"}

LEMMA ReadJoined ==
  ASSUME NEW q, NEW n, Read(q, n), NEW r \in Seq(Unread)
  PROVE  Read(q \o r, n)
<1>1. r \in Seq(AllQuestions)
  <2>1. Unread \subseteq AllQuestions
    BY DEF Unread, AllQuestions
  <2> QED BY <2>1, SeqMonotonic
<1>2. /\ Len(q) \in Nat /\ Len(r) \in Nat /\ n \in 3 .. Len(q)
      /\ q \o r \in Seq(AllQuestions) /\ Len(q \o r) = Len(q) + Len(r)
      /\ \A i \in 1 .. Len(q) + Len(r) : (q \o r)[i] = IF i <= Len(q) THEN q[i] ELSE r[i - Len(q)]
  BY <1>1, ConcatProperties, LenProperties DEF Read
<1> DEFINE x == q \o r
           l == Len(q) + Len(r)
<1> HIDE DEF x
<1>3. /\ x \in Seq(AllQuestions) /\ Len(x) = l
      /\ \A i \in 1 .. l : x[i] = IF i <= Len(q) THEN q[i] ELSE r[i - Len(q)]
  BY <1>2 DEF x
<1>4. n \in 3 .. l /\ x[n - 2] = q[n - 2] /\ x[n - 1] = q[n - 1] /\ x[n] = q[n]
  <2>1. /\ n \in 3 .. l /\ n <= Len(q) /\ n - 1 <= Len(q) /\ n - 2 <= Len(q)
        /\ n \in 1 .. l /\ n - 1 \in 1 .. l /\ n - 2 \in 1 .. l
    BY <1>2
  <2> QED BY <1>3, <2>1
<1>5. ASSUME NEW i \in 1 .. l
      PROVE  /\ i < n - 2 => x[i] \in Early \cup {"READY?"}
             /\ i > n => x[i] \in Unread
             /\ i # l /\ x[i] \in Early => x[i + 1] \in Early \cup {"READY?"}
  <2>1. CASE i <= Len(q)
    <3>1. i \in 1 .. Len(q) /\ x[i] = q[i]
      BY <1>2, <1>3, <2>1
    <3>2. i < n - 2 => x[i] \in Early \cup {"READY?"}
      BY <3>1 DEF Read
    <3>3. i > n => x[i] \in Unread
      BY <3>1 DEF Read
    <3>4. x[i] \in Early => i \in 1 .. Len(q) - 1 /\ i + 1 \in 1 .. l /\ i + 1 <= Len(q)
      <4>1. CASE i = Len(q)
        <5>1. i = n \/ i > n
          BY <1>2, <4>1
        <5>2. x[i] \notin Early
          BY <3>1, <3>3, <5>1 DEF Read, Unread, Early
        <5> QED BY <5>2
      <4>2. CASE i # Len(q)
        BY <1>2, <3>1, <4>2
      <4> QED BY <4>1, <4>2
    <3>5. x[i] \in Early => x[i + 1] \in Early \cup {"READY?"}
      BY <1>3, <3>1, <3>4 DEF Read
    <3> QED BY <3>2, <3>3, <3>5
  <2>2. CASE ~(i <= Len(q))
    <3>1. i - Len(q) \in 1 .. Len(r) /\ x[i] = r[i - Len(q)] /\ ~(i < n - 2)
      BY <1>2, <1>3, <2>2
    <3>2. x[i] \in Unread
      BY <3>1, ElementOfSeq
    <3> QED BY <3>1, <3>2 DEF Unread, Early
  <2> QED BY <2>1, <2>2
<1>6. \A i \in 1 .. l - 1 : i \in 1 .. l /\ i # l
  BY <1>2
<1>7. Read(x, n)
  BY <1>3, <1>4, <1>5, <1>6 DEF Read
<1> QED BY <1>7 DEF x

LEMMA ChainRead == \E n : Read(Chain, n)
<1> DEFINE last == <<"ROWMODES?">>
           x == Starts \o last
           end == CASE Source = "serial" -> <<"USBSTREAM?">> [] Source = "ble" -> <<"BTX?">> [] OTHER -> <<>>
           S == Seq(Unread)
<1>1. PICK n : Read(x, n)
  <2>1. last \in Seq(AllQuestions) /\ Len(last) = 1 /\ last[1] = "ROWMODES?"
    BY DEF AllQuestions
  <2>2. Starts \in Seq(AllQuestions) /\ Len(Starts) \in {5, 6}
    BY StartsIs
  <2>3. x = Starts \o last
    OBVIOUS
  <2> HIDE DEF last, x
  <2>4. /\ x \in Seq(AllQuestions) /\ Len(x) = Len(Starts) + 1
        /\ \A i \in 1 .. Len(Starts) + 1 : x[i] = IF i <= Len(Starts) THEN Starts[i] ELSE last[i - Len(Starts)]
    <3>1. /\ Starts \o last \in Seq(AllQuestions) /\ Len(Starts \o last) = Len(Starts) + Len(last)
          /\ \A i \in 1 .. Len(Starts) + Len(last) :
               (Starts \o last)[i] = IF i <= Len(Starts) THEN Starts[i] ELSE last[i - Len(Starts)]
      BY <2>1, <2>2, ConcatProperties
    <3> QED BY <2>1, <2>3, <3>1
  <2>5. CASE Len(Starts) = 5
    <3>1. \A i \in 1 .. 6 : i \in {1, 2, 3, 4, 5, 6}
      OBVIOUS
    <3>2. x[1] = "PROTO?" /\ x[2] = "BOOT?" /\ x[3] = "READY?" /\ x[4] = "STATE?" /\ x[5] = "ROWS?"
          /\ x[6] = "ROWMODES?"
      BY <2>1, <2>4, <2>5, StartsIs
    <3>3. \A i \in 1 .. 6 - 1 : x[i] \in Early => x[i + 1] \in Early \cup {"READY?"}
      <4>1. \A i \in 1 .. 6 - 1 : i \in {1, 2, 3, 4, 5}
        OBVIOUS
      <4> QED BY <3>2, <4>1 DEF Early
    <3>4. Read(x, 6)
      BY <2>4, <2>5, <3>1, <3>2, <3>3 DEF Read, Early
    <3> QED BY <3>4
  <2>6. CASE Len(Starts) = 6
    <3>1. \A i \in 1 .. 7 : i \in {1, 2, 3, 4, 5, 6, 7}
      OBVIOUS
    <3>2. x[1] = "PROTO?" /\ x[2] = "BUILD?" /\ x[3] = "BOOT?" /\ x[4] = "READY?" /\ x[5] = "STATE?"
          /\ x[6] = "ROWS?" /\ x[7] = "ROWMODES?"
      BY <2>1, <2>4, <2>6, StartsIs
    <3>3. \A i \in 1 .. 7 - 1 : x[i] \in Early => x[i + 1] \in Early \cup {"READY?"}
      <4>1. \A i \in 1 .. 7 - 1 : i \in {1, 2, 3, 4, 5, 6}
        OBVIOUS
      <4> QED BY <3>2, <4>1 DEF Early
    <3>4. Read(x, 7)
      BY <2>4, <2>6, <3>1, <3>2, <3>3 DEF Read, Early
    <3> QED BY <3>4
  <2> QED BY <2>2, <2>5, <2>6
<1>2. \A q : Read(q, n) => \A r \in S : Read(q \o r, n)
  BY ReadJoined
<1>3. /\ Unless("FDCISO?") \in S /\ Unless("BAT?") \in S
      /\ Unless("RAIL?") \in S /\ Unless("CAL?") \in S /\ Unless("ST=AUTO") \in S
  <2>1. \A q \in Unread : <<q>> \in S /\ Unless(q) \in S
    BY DEF Unless
  <2> QED BY <2>1 DEF Unread
<1>4. end \in S
  <2>1. <<"USBSTREAM?">> \in S /\ <<"BTX?">> \in S /\ <<>> \in S
    BY DEF Unread
  <2>2. end = <<"USBSTREAM?">> \/ end = <<"BTX?">> \/ end = <<>>
    OBVIOUS
  <2> QED BY <2>1, <2>2
<1>5. Chain = x \o Unless("FDCISO?") \o Unless("BAT?") \o Unless("RAIL?")
                \o Unless("CAL?") \o Unless("ST=AUTO") \o end
  BY DEF Chain, AskedOf, Starts
<1> HIDE DEF x, S, end
<1> QED BY <1>1, <1>2, <1>3, <1>4, <1>5

\* Behind the question for a setting, and only there, are the questions of After; behind
\* an early question there is an early one, or the poll.
LEMMA ChainOrder ==
  /\ \A k \in Readable : Last \in After[k] \cup {Sources[k]}
  /\ \A q \in Questions : q # Last =>
       /\ \A k \in Readable : Follows(q) \in After[k] => q \in After[k] \cup {Sources[k]}
       /\ q \in Early => Follows(q) \in Early \cup {"READY?"}
<1>1. PICK n : Read(Chain, n)
  BY ChainRead
<1>2. DOMAIN Chain = 1 .. Len(Chain) /\ Len(Chain) \in Nat /\ n \in 3 .. Len(Chain)
  BY <1>1, LenProperties DEF Read
<1>3. \A k \in Readable : Last \in After[k] \cup {Sources[k]}
  <2>1. Len(Chain) \in 1 .. Len(Chain) /\ (Len(Chain) = n \/ Len(Chain) > n)
    <3>1. \A k \in Nat : n \in 3 .. k => k \in 1 .. k /\ (k = n \/ k > n)
      OBVIOUS
    <3> QED BY <1>2, <3>1
  <2>2. Chain[Len(Chain)] \in Unread \cup {"ROWMODES?"}
    BY <1>1, <2>1 DEF Read
  <2>3. \A k \in Readable : Unread \cup {"ROWMODES?"} \subseteq After[k] \cup {Sources[k]}
    BY DEF Readable, After, Sources
  <2> QED BY <2>2, <2>3 DEF Last
<1>4. ASSUME NEW q \in Questions, q # Last
      PROVE  /\ \A k \in Readable : Follows(q) \in After[k] => q \in After[k] \cup {Sources[k]}
             /\ q \in Early => Follows(q) \in Early \cup {"READY?"}
  <2> DEFINE i == CHOOSE i \in DOMAIN Chain : Chain[i] = q
             j == 1 + i
  <2>1. i \in DOMAIN Chain /\ Chain[i] = q
    BY DEF Questions
  <2>2. i # Len(Chain)
    BY <1>4, <2>1 DEF Last
  <2>3. Follows(q) = Chain[j]
    BY DEF Follows
  <2> HIDE DEF i
  <2>4. j \in 1 .. Len(Chain) /\ i \in 1 .. Len(Chain) /\ i \in 1 .. Len(Chain) - 1 /\ j = i + 1 /\ n \in Nat
    BY <1>2, <2>1, <2>2
  <2> HIDE DEF j
  <2>5. q \in Early => Follows(q) \in Early \cup {"READY?"}
    BY <1>1, <2>1, <2>3, <2>4 DEF Read
  <2>6. \/ j < n - 2 \/ j = n - 2 \/ (j = n - 1 /\ i = n - 2) \/ (j = n /\ i = n - 1)
        \/ (j > n /\ i = n) \/ (j > n /\ i > n)
    BY <2>4
  <2>7. ASSUME NEW k \in Readable, Chain[j] \in After[k]
        PROVE  q \in After[k] \cup {Sources[k]}
    <3>1. CASE j < n - 2 \/ j = n - 2
      <4>1. Chain[j] \in Early \cup {"READY?", "STATE?"}
        BY <1>1, <2>4, <3>1 DEF Read
      <4> QED BY <2>7, <4>1 DEF After, Unread, Early, Readable
    <3>2. CASE j = n - 1 /\ i = n - 2
      <4>1. Chain[j] = "ROWS?" /\ q = "STATE?"
        BY <1>1, <2>1, <3>2 DEF Read
      <4> QED BY <2>7, <4>1 DEF After, Unread, Sources, Readable
    <3>3. CASE j = n /\ i = n - 1
      <4>1. Chain[j] = "ROWMODES?" /\ q = "ROWS?"
        BY <1>1, <2>1, <3>3 DEF Read
      <4> QED BY <2>7, <4>1 DEF After, Unread, Sources, Readable
    <3>4. CASE i = n
      <4>1. q = "ROWMODES?"
        BY <1>1, <2>1, <3>4 DEF Read
      <4> QED BY <4>1 DEF After, Sources, Readable
    <3>5. CASE i > n
      <4>1. q \in Unread
        BY <1>1, <2>1, <2>4, <3>5 DEF Read
      <4> QED BY <4>1 DEF After, Readable
    <3> QED BY <2>6, <3>1, <3>2, <3>3, <3>4, <3>5
  <2> QED BY <2>3, <2>5, <2>7
<1> QED BY <1>3, <1>4

-----------------------------------------------------------------------------
(* The bootstrap and what it has learned.                                  *)

\* The commands on their way t, and those the step has written.
Pipe(t, h) == t \o h.sent

\* What is on its way: one transaction at most, readings that are right or will be
\* corrected, and the state y of the device.
Wired(h, q, c, s, y) ==
  /\ Full(h) /\ IsSeq(q) /\ IsSeq(c) /\ Clear(q)
  /\ Flight(h, q, c, s) /\ Faithful(q, s) /\ Shows(h, q, s)
  /\ \A i \in 1 .. Len(q) : q[i].kind = "STATE?" => q[i].value = y
  /\ "mode" \in h.seen => y

\* Early questions and answers are there only as long as nothing has been read back.
Lined(h, q, c) ==
  /\ Sorted(q, c)
  /\ \/ NoEarly(q) /\ NoEarly(c)
     \/ /\ h.seen = {} /\ h.state = "BOOTSTRAPPING"
        /\ h.ask \in Early \cup {"READY?"}
  /\ h.state = "BOOTSTRAPPING" /\ h.ask # None /\ h.ask \in Early =>
       h.seen = {} /\ AllEarly(q) /\ AllEarly(c)

\* What a bootstrap has left behind, it has read back or is about to hear.
Passed(h, k) == h.state = "SYNCED" \/ (h.ask # None /\ h.ask \in After[k])
Learned(h, q, y) ==
  /\ h.known = (h.seen = Readable)
  /\ \A k \in Readable : Passed(h, k) =>
       k \in h.seen \/ (k = "mode" /\ ~y) \/ \E i \in 1 .. Len(q) : q[i].kind = Sources[k]

Running(h, q, c, s, y) ==
  /\ Wired(h, q, c, s, y)
  /\ h.state \in {"BOOTSTRAPPING", "SYNCED"} => Lined(h, q, c) /\ Learned(h, q, y)

LEMMA PipeIs ==
  ASSUME NEW t, IsSeq(t), NEW h, Full(h), NEW g, Full(g)
  PROVE  /\ IsSeq(Pipe(t, g))
         /\ g.sent = h.sent => Pipe(t, g) = Pipe(t, h)
         /\ \A x : Wrote(g, h, x) => Pipe(t, g) = Append(Pipe(t, h), x)
<1>1. IsSeq(h.sent) /\ IsSeq(g.sent)
  BY DEF Full
<1>2. IsSeq(Pipe(t, g))
  BY <1>1, SeqJoined DEF Pipe
<1>3. ASSUME NEW x, g.sent = Append(h.sent, x)
      PROVE  Pipe(t, g) = Append(Pipe(t, h), x)
  <2>1. PICK S : t \in Seq(S)
    BY DEF IsSeq
  <2>2. PICK T : h.sent \in Seq(T)
    BY <1>1 DEF IsSeq
  <2> DEFINE U == S \cup T \cup {x}
             u == h.sent
  <2>3. t \in Seq(U) /\ u \in Seq(U) /\ x \in U /\ <<x>> \in Seq(U)
    BY <2>1, <2>2, SeqMonotonic
  <2> HIDE DEF U, u
  <2>4. Append(u, x) = u \o <<x>>
    BY <2>3, AppendIsConcat
  <2>5. t \o u \in Seq(U)
    BY <2>3, ConcatProperties
  <2>6. Append(t \o u, x) = (t \o u) \o <<x>>
    BY <2>3, <2>5, AppendIsConcat
  <2>7. (t \o u) \o <<x>> = t \o (u \o <<x>>)
    BY <2>3, ConcatAssociative
  <2> QED BY <1>3, <2>4, <2>6, <2>7 DEF Pipe, u
<1> QED BY <1>2, <1>3 DEF Pipe, Wrote

\* An order of the restore is not early.
LEMMA RestoresIs == \A g, h, x : Restores(g, h, x) => ~IsEarly(x)
  BY DEF Restores, Waiting, IsEarly, Early

LEMMA WiredKnows ==
  ASSUME NEW h, NEW q, NEW c, NEW s, NEW y, Wired(h, q, c, s, y), NEW g, Knows(g, h), NEW d, IsSeq(d),
         Flight(g, q, d, s)
  PROVE  Wired(g, q, d, s, y)
  BY DEF Wired, Knows, Shows

LEMMA WiredTaken ==
  ASSUME NEW h, NEW q, NEW c, NEW s, NEW y, Wired(h, q, c, s, y), q # <<>>, NEW g, Full(g),
         NEW d, IsSeq(d), Flight(g, Tail(q), d, s), "mode" \in g.seen => y,
         \A k \in Kinds : q[1].kind = Closing[k] => g.active[k] = s[k],
         \A k \in Kinds : k \in g.seen =>
           \/ k \in h.seen /\ g.active[k] = h.active[k]
           \/ g.active[k] = s[k]
           \/ q[1].kind = Asking[k] /\ g.active[k] = q[1].value
  PROVE  Wired(g, Tail(q), d, s, y)
<1> DEFINE r == Tail(q)
<1>1. /\ IsSeq(r) /\ Len(q) \in Nat \ {0} /\ Len(r) = Len(q) - 1
      /\ \A i \in 1 .. Len(r) : i + 1 \in 1 .. Len(q) /\ r[i] = q[i + 1]
  BY SeqTail DEF Wired
<1>2. Faithful(r, s) /\ Shows(g, r, s)
  BY FaithfulTail, ShowsTail DEF Wired
<1> HIDE DEF r
<1>3. Clear(r) /\ \A i \in 1 .. Len(r) : r[i].kind = "STATE?" => r[i].value = y
  BY <1>1 DEF Wired, Clear
<1>4. Wired(g, r, d, s, y)
  BY <1>1, <1>2, <1>3 DEF Wired, r
<1> QED BY <1>4 DEF r

LEMMA LinedTaken ==
  ASSUME NEW h, NEW q, NEW c, Lined(h, q, c), q # <<>>, NEW g, g.state = h.state, g.ask = h.ask,
         IsEarly(q[1]) => g.seen = h.seen
  PROVE  Lined(g, Tail(q), c)
<1> DEFINE r == Tail(q)
<1>1. Sorted(r, c) /\ (~IsEarly(q[1]) => NoEarly(q) /\ NoEarly(c))
  BY SortedTaken DEF Lined
<1>2. /\ NoEarly(q) => NoEarly(r) /\ ~IsEarly(q[1])
      /\ AllEarly(q) => AllEarly(r) /\ IsEarly(q[1])
  BY EarlyKept
<1> HIDE DEF r
<1>3. Lined(g, r, c)
  BY <1>1, <1>2 DEF Lined
<1> QED BY <1>3 DEF r

LEMMA LearnedTaken ==
  ASSUME NEW h, NEW q, NEW y, Learned(h, q, y), IsSeq(q), q # <<>>, NEW g, g.state = h.state, g.ask = h.ask,
         g.known = (g.seen = Readable), h.seen \subseteq g.seen,
         \A k \in Readable : q[1].kind = Sources[k] => k \in g.seen \/ (k = "mode" /\ ~y)
  PROVE  Learned(g, Tail(q), y)
<1> DEFINE r == Tail(q)
<1>1. /\ IsSeq(r) /\ Len(q) \in Nat \ {0} /\ Len(r) = Len(q) - 1
      /\ \A i \in 1 .. Len(r) : i + 1 \in 1 .. Len(q) /\ r[i] = q[i + 1]
  BY SeqTail
<1> HIDE DEF r
<1>2. \A i \in 1 .. Len(q) : i = 1 \/ (i - 1 \in 1 .. Len(r) /\ (i - 1) + 1 = i)
  BY <1>1
<1>3. \A i \in 1 .. Len(q) : i = 1 \/ \E j \in 1 .. Len(r) : r[j] = q[i]
  BY <1>1, <1>2
<1>4. ASSUME NEW k \in Readable, Passed(g, k)
      PROVE  k \in g.seen \/ (k = "mode" /\ ~y) \/ \E i \in 1 .. Len(r) : r[i].kind = Sources[k]
  <2>1. Passed(h, k)
    BY <1>4 DEF Passed
  <2>2. CASE k \in h.seen \/ (k = "mode" /\ ~y)
    BY <2>2
  <2>3. CASE \E i \in 1 .. Len(q) : q[i].kind = Sources[k]
    BY <1>3, <2>3
  <2> QED BY <2>1, <2>2, <2>3 DEF Learned
<1>5. Learned(g, r, y)
  BY <1>4 DEF Learned
<1> QED BY <1>5 DEF r

\* The restore moves on.
LEMMA MovedPipe ==
  ASSUME NEW t, IsSeq(t), NEW h, Full(h), NEW g, Moved(g, h), NEW q, NEW s
  PROVE  /\ IsSeq(Pipe(t, g)) /\ (h.state # "SYNCED" => Pipe(t, g) = Pipe(t, h))
         /\ NoEarly(Pipe(t, h)) => NoEarly(Pipe(t, g))
         /\ Sorted(q, Pipe(t, h)) => Sorted(q, Pipe(t, g))
         /\ Idle(q, Pipe(t, h)) => Flight(g, q, Pipe(t, g), s)
<1>1. /\ IsSeq(Pipe(t, g))
      /\ g.sent = h.sent => Pipe(t, g) = Pipe(t, h)
      /\ \A x : Wrote(g, h, x) => Pipe(t, g) = Append(Pipe(t, h), x)
  BY PipeIs DEF Moved, Knows
<1> DEFINE c == Pipe(t, h)
           d == Pipe(t, g)
<1> HIDE DEF c, d
<1>2. CASE d = c
  BY <1>1, <1>2 DEF Flight, c, d
<1>3. CASE d # c
  <2>1. PICK x : h.state = "SYNCED" /\ Wrote(g, h, x) /\ Restores(g, h, x)
    BY <1>1, <1>3 DEF Moved, c, d
  <2>2. d = Append(c, x) /\ ~IsEarly(x)
    BY <1>1, <2>1, RestoresIs DEF c, d
  <2>3. NoEarly(c) => NoEarly(d)
    BY <2>2, EarlyKept
  <2>4. Sorted(q, c) => Sorted(q, d)
    BY <2>2, SortedSent
  <2>5. ASSUME Idle(q, c) PROVE Flight(g, q, d, s)
    <3>1. CASE Measured(x)
      <4>1. /\ x.kind \in Kinds /\ x = Command(x.kind, g.want[x.kind])
            /\ g.pref \in {Waiting[x.kind], "ERROR"}
            /\ g.req[x.kind] = None /\ g.pending[x.kind] = g.want[x.kind] /\ g.state = "SYNCED"
        BY <2>1, <3>1 DEF Restores, Measured, Moved
      <4> QED BY <2>2, <2>5, <4>1, FlightOrdered
    <3>2. CASE ~Measured(x)
      BY <2>2, <2>5, <3>2, UnorderedKept DEF Flight, Idle
    <3> QED BY <3>1, <3>2
  <2> QED BY <1>1, <2>1, <2>3, <2>4, <2>5 DEF c, d
<1> QED BY <1>2, <1>3

LEMMA RunningMoved ==
  ASSUME NEW t, IsSeq(t), NEW h, NEW q, NEW s, NEW y, Running(h, q, Pipe(t, h), s, y),
         Idle(q, Pipe(t, h)), NEW g, Moved(g, h)
  PROVE  Running(g, q, Pipe(t, g), s, y)
<1> DEFINE c == Pipe(t, h)
           d == Pipe(t, g)
<1>1. /\ IsSeq(d) /\ (h.state # "SYNCED" => d = c) /\ (NoEarly(c) => NoEarly(d))
      /\ Sorted(q, c) => Sorted(q, d)
      /\ Flight(g, q, d, s)
  BY MovedPipe DEF Running, Wired
<1>2. Running(h, q, c, s, y)
  OBVIOUS
<1> HIDE DEF c, d
<1>3. Knows(g, h) /\ g.state = h.state /\ g.ask = h.ask
  BY DEF Moved
<1>4. Wired(g, q, d, s, y)
  BY <1>1, <1>2, <1>3, WiredKnows DEF Running
<1>5. Lined(h, q, c) => Lined(g, q, d)
  BY <1>1, <1>3 DEF Lined, Knows
<1>6. Learned(h, q, y) => Learned(g, q, y)
  BY <1>3 DEF Learned, Passed, Knows
<1>7. Running(g, q, d, s, y)
  BY <1>2, <1>3, <1>4, <1>5, <1>6 DEF Running
<1> QED BY <1>7 DEF d

\* Before it has completed, a bootstrap orders nothing.
LEMMA RunningIdle ==
  ASSUME NEW h, NEW q, NEW c, NEW s, NEW y, Running(h, q, c, s, y), h.state # "SYNCED"
  PROVE  Idle(q, c)
  BY DEF Running, Wired, Flight, Underway

\* A bootstrap asks the question f.
LEMMA AskRuns ==
  ASSUME NEW t, IsSeq(t), NEW h, NEW q, NEW s, NEW y, Running(h, q, Pipe(t, h), s, y),
         h.state = "BOOTSTRAPPING", NEW f \in AllQuestions, NEW g, Asks(g, h, f),
         f \in Early => AllEarly(q) /\ AllEarly(Pipe(t, h)) /\ h.seen = {},
         f \notin Early => (NoEarly(q) /\ NoEarly(Pipe(t, h))) \/ (h.seen = {} /\ f = "READY?"),
         \A k \in Readable : f \in After[k] =>
           k \in h.seen \/ (k = "mode" /\ ~y) \/ \E i \in 1 .. Len(q) : q[i].kind = Sources[k]
  PROVE  Running(g, q, Pipe(t, g), s, y)
<1> DEFINE c == Pipe(t, h)
           d == Pipe(t, g)
           x == Command(f, None)
<1>1. IsSeq(d) /\ (d = c \/ d = Append(c, x))
  BY PipeIs DEF Asks, Knows, Running, Wired
<1>2. x.kind = f
  BY DEF Command
<1>3. Running(h, q, c, s, y) /\ Idle(q, c)
  BY RunningIdle
<1>11. /\ f \in Early => AllEarly(q) /\ AllEarly(c) /\ h.seen = {}
       /\ f \notin Early => (NoEarly(q) /\ NoEarly(c)) \/ (h.seen = {} /\ f = "READY?")
  OBVIOUS
<1> HIDE DEF c, d, x
<1>4. ~Measured(x) /\ (IsEarly(x) => f \in Early) /\ (f \in Early => IsEarly(x))
  BY <1>2 DEF Measured, IsEarly, AllQuestions, Kinds
<1>5. Idle(q, d)
  BY <1>1, <1>3, <1>4, UnorderedKept DEF Idle
<1>6. Wired(g, q, d, s, y)
  BY <1>1, <1>3, <1>5, WiredKnows DEF Running, Asks, Flight
<1>7. Sorted(q, d)
  <2>1. Sorted(q, c)
    BY <1>3 DEF Running, Lined
  <2>2. IsEarly(x) => AllEarly(q) /\ AllEarly(c)
    BY <1>4, <1>11
  <2>3. Sorted(q, Append(c, x))
    BY <2>1, <2>2, SortedSent
  <2> QED BY <1>1, <2>1, <2>3
<1>8. Lined(g, q, d)
  <2>1. g.seen = h.seen /\ g.state = "BOOTSTRAPPING" /\ g.ask = f
    BY DEF Asks, Knows
  <2>2. CASE f \in Early
    <3>1. AllEarly(c) /\ AllEarly(q) /\ h.seen = {} /\ IsEarly(x)
      BY <1>4, <1>11, <2>2
    <3>2. AllEarly(Append(c, x))
      BY <3>1, EarlyKept
    <3>3. AllEarly(d)
      BY <1>1, <3>1, <3>2
    <3> QED BY <1>7, <2>1, <2>2, <3>1, <3>3 DEF Lined
  <2>3. CASE f \notin Early
    <3>1. ASSUME NoEarly(c) PROVE NoEarly(d)
      <4>1. NoEarly(Append(c, x))
        BY <1>4, <2>3, <3>1, EarlyKept
      <4> QED BY <1>1, <3>1, <4>1
    <3> QED BY <1>7, <1>11, <2>1, <2>3, <3>1 DEF Lined
  <2> QED BY <2>2, <2>3
<1>9. Learned(g, q, y)
  <2>1. Learned(h, q, y)
    BY <1>3 DEF Running
  <2>2. g.seen = h.seen /\ g.known = h.known /\ g.state = "BOOTSTRAPPING" /\ g.ask = f
    BY DEF Asks, Knows
  <2> QED BY <2>1, <2>2 DEF Learned, Passed
<1>10. Running(g, q, d, s, y)
  BY <1>6, <1>8, <1>9 DEF Running
<1> QED BY <1>10 DEF d

LEMMA StopRuns ==
  ASSUME NEW t, IsSeq(t), NEW h, NEW q, NEW s, NEW y, Running(h, q, Pipe(t, h), s, y),
         h.state # "SYNCED", NEW g, Stops(g, h)
  PROVE  Running(g, q, Pipe(t, g), s, y)
<1> DEFINE c == Pipe(t, h)
           d == Pipe(t, g)
<1>1. IsSeq(d) /\ d = c
  BY PipeIs DEF Stops, Knows, Running, Wired
<1>2. Running(h, q, c, s, y) /\ Idle(q, c)
  BY RunningIdle
<1> HIDE DEF c, d
<1>3. Wired(g, q, d, s, y)
  BY <1>1, <1>2, WiredKnows DEF Running, Stops, Flight
<1>4. Running(g, q, d, s, y)
  BY <1>3 DEF Running, Stops
<1> QED BY <1>4 DEF d

\* An answer of the device moves the bootstrap on.
LEMMA SynchronizeRuns ==
  ASSUME NEW t, IsSeq(t), NEW h, Sound(h), NEW q, q # <<>>, NEW s, NEW y,
         Running(h, q, Pipe(t, h), s, y), NEW g \in Synchronize(h, q[1])
  PROVE  Running(g, q, Pipe(t, g), s, y)
<1> DEFINE m == q[1]
           c == Pipe(t, h)
<1>1. CASE g = h
  BY <1>1
<1>2. CASE g # h
  <2>1. Full(h) /\ IsSeq(q)
    BY DEF Running, Wired
  <2>2. /\ h.state = "BOOTSTRAPPING" /\ h.ask # None /\ m.kind = h.ask
        /\ \/ Stops(g, h)
           \/ m.kind = "READY?" /\ Waits(g, h)
           \/ m.kind = Last /\ \E x : Syncs(x, h) /\ Moved(g, x)
           \/ m.kind # Last /\ Asks(g, h, Follows(m.kind))
    BY <1>2, <2>1, SynchronizeIs
  <2>3. Idle(q, c) /\ Lined(h, q, c) /\ Learned(h, q, y) /\ Wired(h, q, c, s, y)
    BY <2>2, RunningIdle DEF Running
  <2>4. m.kind \in Questions
    BY <2>2 DEF Sound
  <2>5. 1 \in 1 .. Len(q)
    <3>1. Len(q) \in Nat \ {0}
      BY <2>1, SeqTail
    <3> QED BY <3>1
  <2>6. ~IsEarly(m) => NoEarly(q) /\ NoEarly(c)
    BY <2>3, SortedTaken DEF Lined
  <2>7. ASSUME NEW k \in Readable, h.ask \in After[k] \cup {Sources[k]}
        PROVE  k \in h.seen \/ (k = "mode" /\ ~y) \/ \E i \in 1 .. Len(q) : q[i].kind = Sources[k]
    <3>1. CASE h.ask = Sources[k]
      BY <2>2, <2>5, <3>1
    <3>2. CASE h.ask \in After[k]
      BY <2>2, <2>3, <3>2 DEF Learned, Passed
    <3> QED BY <2>7, <3>1, <3>2
  <2>8. CASE Stops(g, h)
    BY <2>2, <2>8, StopRuns
  <2>9. CASE m.kind = "READY?" /\ Waits(g, h)
    <3>1. NoEarly(q) /\ NoEarly(c)
      BY <2>6, <2>9 DEF IsEarly, Early
    <3>2. IsSeq(Pipe(t, g)) /\ Pipe(t, g) = c
      BY <2>1, <2>9, PipeIs DEF Waits, Knows
    <3> HIDE DEF c, m
    <3>3. Wired(g, q, c, s, y)
      BY <2>3, <2>9, <3>2, WiredKnows DEF Waits, Flight
    <3>4. Lined(g, q, c) /\ Learned(g, q, y)
      BY <2>2, <2>3, <2>9, <3>1 DEF Lined, Learned, Passed, Waits, Knows
    <3> QED BY <3>2, <3>3, <3>4 DEF Running
  <2>10. CASE m.kind = Last /\ \E x : Syncs(x, h) /\ Moved(g, x)
    <3>1. PICK x : Syncs(x, h) /\ Moved(g, x)
      BY <2>10
    <3>2. NoEarly(q) /\ NoEarly(c)
      BY <2>6, <2>10, BootIsAsked DEF IsEarly
    <3>3. IsSeq(Pipe(t, x)) /\ Pipe(t, x) = c
      BY <2>1, <3>1, PipeIs DEF Syncs, Knows
    <3> HIDE DEF c, m
    <3>4. Wired(x, q, c, s, y)
      BY <2>3, <3>1, <3>3, WiredKnows DEF Syncs, Flight
    <3>5. Lined(x, q, c)
      BY <2>3, <3>1, <3>2 DEF Lined, Syncs
    <3>6. Learned(x, q, y)
      <4>1. \A k \in Readable : h.ask \in After[k] \cup {Sources[k]}
        BY <2>2, <2>10, ChainOrder
      <4>2. \A k \in Readable :
              k \in h.seen \/ (k = "mode" /\ ~y) \/ \E i \in 1 .. Len(q) : q[i].kind = Sources[k]
        BY <2>7, <4>1
      <4> QED BY <2>3, <3>1, <4>2 DEF Learned, Syncs, Knows
    <3>7. Running(x, q, Pipe(t, x), s, y)
      BY <3>3, <3>4, <3>5, <3>6 DEF Running
    <3> QED BY <2>3, <3>1, <3>3, <3>7, RunningMoved
  <2>11. CASE m.kind # Last /\ Asks(g, h, Follows(m.kind))
    <3> DEFINE f == Follows(m.kind)
    <3>1. f \in Questions
      BY <2>4, <2>11, QuestionsAreAsked
    <3>2. /\ \A k \in Readable : f \in After[k] => m.kind \in After[k] \cup {Sources[k]}
          /\ m.kind \in Early => f \in Early \cup {"READY?"}
          /\ f \in Early \cup {"READY?"} => m.kind \in Early
      BY <2>4, <2>11, ChainOrder, PollComesOnce
    <3> HIDE DEF f, c, m
    <3>3. m.kind \in Early => h.seen = {} /\ AllEarly(q) /\ AllEarly(c)
      BY <2>2, <2>3 DEF Lined
    <3>4. f \in Early => AllEarly(q) /\ AllEarly(c) /\ h.seen = {}
      BY <3>2, <3>3
    <3>5. f \notin Early => (NoEarly(q) /\ NoEarly(c)) \/ (h.seen = {} /\ f = "READY?")
      BY <2>6, <3>2, <3>3 DEF IsEarly
    <3>6. ASSUME NEW k \in Readable, f \in After[k]
          PROVE  k \in h.seen \/ (k = "mode" /\ ~y) \/ \E i \in 1 .. Len(q) : q[i].kind = Sources[k]
      BY <2>2, <2>7, <3>2, <3>6
    <3>7. f \in AllQuestions
      BY <3>1, QuestionsAreAsked
    <3> QED BY <2>2, <2>11, <3>4, <3>5, <3>6, <3>7, AskRuns DEF f, c
  <2> QED BY <2>2, <2>8, <2>9, <2>10, <2>11
<1> QED BY <1>1, <1>2

\* So does the clock.
LEMMA ExpiredRuns ==
  ASSUME NEW t, IsSeq(t), NEW h, Sound(h), h.state = "BOOTSTRAPPING", NEW q, NEW s, NEW y,
         Running(h, q, Pipe(t, h), s, y), NEW g \in Expired(h)
  PROVE  Running(g, q, Pipe(t, g), s, y)
<1>1. Full(h) /\ Lined(h, q, Pipe(t, h)) /\ Learned(h, q, y)
  BY DEF Running, Wired
<1>2. \/ Stops(g, h)
      \/ h.ask # None /\ Asks(g, h, h.ask)
      \/ h.ask = None /\ Asks(g, h, "READY?")
  BY <1>1, ExpiredIs
<1>3. CASE Stops(g, h)
  BY <1>3, StopRuns
<1>4. CASE h.ask # None /\ Asks(g, h, h.ask)
  <2>1. h.ask \in AllQuestions
    BY <1>4, QuestionsAreAsked DEF Sound
  <2>2. /\ h.ask \in Early => AllEarly(q) /\ AllEarly(Pipe(t, h)) /\ h.seen = {}
        /\ h.ask \notin Early =>
             (NoEarly(q) /\ NoEarly(Pipe(t, h))) \/ (h.seen = {} /\ h.ask = "READY?")
    BY <1>1, <1>4 DEF Lined
  <2>3. \A k \in Readable : h.ask \in After[k] =>
          k \in h.seen \/ (k = "mode" /\ ~y) \/ \E i \in 1 .. Len(q) : q[i].kind = Sources[k]
    BY <1>1, <1>4 DEF Learned, Passed
  <2> QED BY <1>4, <2>1, <2>2, <2>3, AskRuns
<1>5. CASE h.ask = None /\ Asks(g, h, "READY?")
  <2>1. "READY?" \in AllQuestions /\ "READY?" \notin Early /\ \A k \in Readable : "READY?" \notin After[k]
    BY DEF AllQuestions, Early, After, Unread, Readable
  <2>2. (NoEarly(q) /\ NoEarly(Pipe(t, h))) \/ h.seen = {}
    BY <1>1 DEF Lined
  <2> QED BY <1>5, <2>1, <2>2, AskRuns
<1> QED BY <1>2, <1>3, <1>4, <1>5

-----------------------------------------------------------------------------
(* The command service takes a report.                                     *)

LEMMA RunningTaken ==
  ASSUME NEW t, IsSeq(t), NEW h, NEW q, q # <<>>, NEW s, NEW y, Running(h, q, Pipe(t, h), s, y),
         NEW g, Full(g), g.sent = h.sent, g.state = h.state, g.ask = h.ask,
         Flight(g, Tail(q), Pipe(t, h), s), "mode" \in g.seen => y,
         \A k \in Kinds : q[1].kind = Closing[k] => g.active[k] = s[k],
         \A k \in Kinds : k \in g.seen =>
           \/ k \in h.seen /\ g.active[k] = h.active[k]
           \/ g.active[k] = s[k]
           \/ q[1].kind = Asking[k] /\ g.active[k] = q[1].value,
         h.state \in {"BOOTSTRAPPING", "SYNCED"} =>
           /\ IsEarly(q[1]) => g.seen = h.seen
           /\ g.known = (g.seen = Readable) /\ h.seen \subseteq g.seen
           /\ \A k \in Readable : q[1].kind = Sources[k] => k \in g.seen \/ (k = "mode" /\ ~y)
  PROVE  Running(g, Tail(q), Pipe(t, g), s, y)
<1>1. IsSeq(Pipe(t, h)) /\ Pipe(t, g) = Pipe(t, h) /\ IsSeq(q)
  BY PipeIs DEF Running, Wired
<1>2. Wired(g, Tail(q), Pipe(t, h), s, y)
  BY <1>1, WiredTaken DEF Running
<1>3. ASSUME h.state \in {"BOOTSTRAPPING", "SYNCED"}
      PROVE  Lined(g, Tail(q), Pipe(t, h)) /\ Learned(g, Tail(q), y)
  <2>1. Lined(h, q, Pipe(t, h)) /\ Learned(h, q, y)
    BY <1>3 DEF Running
  <2>2. Lined(g, Tail(q), Pipe(t, h))
    BY <1>3, <2>1, LinedTaken
  <2>3. Learned(g, Tail(q), y)
    BY <1>1, <1>3, <2>1, LearnedTaken
  <2> QED BY <2>2, <2>3
<1> QED BY <1>1, <1>2, <1>3 DEF Running

\* Nothing has been read back when an early answer comes.
LEMMA EarlyFinds ==
  ASSUME NEW h, NEW q, q # <<>>, NEW c, NEW s, NEW y, Running(h, q, c, s, y), IsEarly(q[1]),
         h.state \in {"BOOTSTRAPPING", "SYNCED"}
  PROVE  h.seen = {}
<1>1. Lined(h, q, c)
  BY DEF Running
<1>2. ~NoEarly(q)
  BY EarlyKept
<1> QED BY <1>1, <1>2 DEF Lined

LEMMA BootRuns ==
  ASSUME NEW t, IsSeq(t), NEW h, NEW q, q # <<>>, NEW s, NEW y, Running(h, q, Pipe(t, h), s, y),
         q[1].kind = "BOOT?", NEW b
  PROVE  Running(ObserveBoot(h, b), Tail(q), Pipe(t, ObserveBoot(h, b)), s, y)
<1> DEFINE g == ObserveBoot(h, b)
           c == Pipe(t, h)
<1>1. Full(h) /\ Flight(h, q, c, s) /\ ("mode" \in h.seen => y)
  BY DEF Running, Wired
<1>2. /\ Full(g) /\ g.sent = h.sent /\ g.state = h.state /\ g.ask = h.ask /\ g.seen = h.seen
      /\ g.known = FALSE /\ g.active = h.active /\ g.want = h.want /\ g.pref = h.pref
      /\ \A k \in Kinds : /\ g.req[k] \in {h.req[k], None}
                          /\ g.pending[k] \in {h.pending[k], None}
  BY <1>1 DEF ObserveBoot, Full
<1>3. ~Told(q[1]) /\ IsEarly(q[1])
  BY DEF Told, IsEarly, Early
<1> HIDE DEF g, c
<1>4. Flight(g, q, c, s)
  BY <1>1, <1>2, <1>3, FlightRead
<1>5. Flight(g, Tail(q), c, s)
  BY <1>3, <1>4, FlightTaken
<1>6. \A k \in Kinds : q[1].kind # Closing[k]
  BY DEF Closing, Kinds
<1>7. ASSUME h.state \in {"BOOTSTRAPPING", "SYNCED"}
      PROVE  /\ g.known = (g.seen = Readable)
             /\ \A k \in Readable : q[1].kind # Sources[k]
  <2>1. h.seen = {}
    BY <1>3, <1>7, EarlyFinds DEF c
  <2>2. \A k \in Readable : q[1].kind # Sources[k]
    BY DEF Readable, Sources
  <2>3. {} # Readable
    BY DEF Readable
  <2> QED BY <1>2, <2>1, <2>2, <2>3
<1>8. Running(g, Tail(q), Pipe(t, g), s, y)
  BY <1>1, <1>2, <1>5, <1>6, <1>7, RunningTaken DEF c
<1> QED BY <1>8 DEF g

LEMMA StateRuns ==
  ASSUME NEW t, IsSeq(t), NEW h, NEW q, q # <<>>, NEW s, NEW y, Running(h, q, Pipe(t, h), s, y),
         q[1].kind = "STATE?", NEW g,
         g = IF q[1].value THEN SyncWith(h, "mode") ELSE Degraded(h)
  PROVE  Running(g, Tail(q), Pipe(t, g), s, y)
<1> DEFINE c == Pipe(t, h)
<1>1. Full(h) /\ Flight(h, q, c, s) /\ ("mode" \in h.seen => y) /\ IsSeq(q)
  BY DEF Running, Wired
<1>2. q[1].value = y
  <2>1. Len(q) \in Nat \ {0}
    BY <1>1, SeqTail
  <2>2. 1 \in 1 .. Len(q)
    BY <2>1
  <2> QED BY <2>2 DEF Running, Wired
<1>3. /\ Full(g) /\ g.sent = h.sent /\ g.state = h.state /\ g.ask = h.ask
      /\ g.active = h.active /\ g.want = h.want /\ g.pref = h.pref /\ g.req = h.req /\ g.pending = h.pending
      /\ y => g.seen = h.seen \cup {"mode"} /\ g.known = (h.seen \cup {"mode"} = Readable)
      /\ ~y => g.seen = h.seen /\ g.known = FALSE
  BY <1>1, <1>2 DEF SyncWith, Degraded, Full
<1>4. ~Told(q[1]) /\ ~IsEarly(q[1])
  BY DEF Told, IsEarly, Early
<1> HIDE DEF c
<1>5. Flight(g, Tail(q), c, s)
  BY <1>1, <1>3, <1>4, FlightRead, FlightTaken
<1>6. /\ \A k \in Kinds : q[1].kind # Closing[k] /\ k # "mode"
      /\ "mode" \in Readable
      /\ \A k \in Readable : q[1].kind = Sources[k] => k = "mode"
  BY DEF Closing, Kinds, Readable, Sources
<1>7. /\ "mode" \in g.seen => y
      /\ g.known = (g.seen = Readable) /\ h.seen \subseteq g.seen
      /\ \A k \in Readable : q[1].kind = Sources[k] => k \in g.seen \/ (k = "mode" /\ ~y)
  <2>1. CASE y
    BY <1>3, <1>6, <2>1
  <2>2. CASE ~y
    <3>1. g.seen # Readable
      BY <1>1, <1>3, <1>6, <2>2
    <3>2. g.known = (g.seen = Readable)
      BY <1>3, <2>2, <3>1
    <3> QED BY <1>1, <1>3, <1>6, <2>2, <3>2
  <2> QED BY <2>1, <2>2
<1>8. \A k \in Kinds : k \in g.seen => k \in h.seen /\ g.active[k] = h.active[k]
  BY <1>3, <1>6
<1> QED BY <1>3, <1>4, <1>5, <1>6, <1>7, <1>8, RunningTaken DEF c

LEMMA ReadRuns ==
  ASSUME NEW t, IsSeq(t), NEW h, NEW q, q # <<>>, NEW s, NEW y, Running(h, q, Pipe(t, h), s, y),
         NEW k \in Kinds, q[1].kind = Asking[k]
  PROVE  Running(ReadBack(h, k, q[1].value), Tail(q), Pipe(t, ReadBack(h, k, q[1].value)), s, y)
<1> DEFINE v == q[1].value
           x == [h EXCEPT !.active[k] = v, !.pending[k] = None, !.req[k] = IF k = "modes" THEN None ELSE @]
           g == ReadBack(h, k, v)
           c == Pipe(t, h)
<1>1. Full(h) /\ Flight(h, q, c, s) /\ ("mode" \in h.seen => y) /\ k \in DOMAIN h.active /\ k \in DOMAIN h.pending
      /\ k \in DOMAIN h.req
  BY DEF Running, Wired, Full
<1>2. g = [x EXCEPT !.seen = @ \cup {k}, !.known = (x.seen \cup {k} = Readable)]
  BY DEF ReadBack, SyncWith
<1> HIDE DEF v
<1>3. /\ DOMAIN x = DOMAIN h /\ x.sent = h.sent /\ x.state = h.state /\ x.ask = h.ask /\ x.seen = h.seen
      /\ x.known = h.known /\ x.want = h.want /\ x.pref = h.pref
      /\ x.active = [h.active EXCEPT ![k] = v] /\ x.pending = [h.pending EXCEPT ![k] = None]
      /\ x.req = [h.req EXCEPT ![k] = IF k = "modes" THEN None ELSE @]
  BY <1>1 DEF Full
<1> HIDE DEF x
<1>4. /\ DOMAIN g = DOMAIN x /\ g.sent = x.sent /\ g.state = x.state /\ g.ask = x.ask
      /\ g.want = x.want /\ g.pref = x.pref /\ g.active = x.active /\ g.pending = x.pending /\ g.req = x.req
      /\ g.seen = x.seen \cup {k} /\ g.known = (x.seen \cup {k} = Readable)
  BY <1>1, <1>2, <1>3 DEF Full
<1> HIDE DEF g
<1>5. /\ DOMAIN g.active = Kinds /\ g.active = [l \in Kinds |-> g.active[l]]
      /\ DOMAIN g.pending = DOMAIN h.pending /\ DOMAIN g.req = DOMAIN h.req
      /\ g.active[k] = v /\ \A l \in Kinds : l # k => g.active[l] = h.active[l]
      /\ \A l \in Kinds : g.req[l] \in {h.req[l], None} /\ g.pending[l] \in {h.pending[l], None}
  <2>1. g.active = [h.active EXCEPT ![k] = v] /\ DOMAIN h.active = Kinds /\ h.active = [l \in Kinds |-> h.active[l]]
    BY <1>1, <1>3, <1>4 DEF Full
  <2>2. /\ DOMAIN g.active = Kinds /\ g.active = [l \in Kinds |-> g.active[l]]
        /\ g.active[k] = v /\ \A l \in Kinds : l # k => g.active[l] = h.active[l]
    BY <2>1
  <2>3. /\ g.pending = [h.pending EXCEPT ![k] = None]
        /\ g.req = [h.req EXCEPT ![k] = IF k = "modes" THEN None ELSE @]
        /\ Kinds \subseteq DOMAIN h.pending /\ Kinds \subseteq DOMAIN h.req
    BY <1>1, <1>3, <1>4 DEF Full
  <2>4. DOMAIN g.pending = DOMAIN h.pending /\ DOMAIN g.req = DOMAIN h.req
    BY <2>3
  <2>5. ASSUME NEW l \in Kinds
        PROVE  g.req[l] \in {h.req[l], None} /\ g.pending[l] \in {h.pending[l], None}
    BY <2>3, <2>5
  <2> QED BY <2>2, <2>4, <2>5
<1>6. Full(g)
  BY <1>1, <1>3, <1>4, <1>5 DEF Full
<1>7. ~Told(q[1]) /\ ~IsEarly(q[1])
  BY DEF Told, IsEarly, Early, Asking, Kinds
<1> HIDE DEF c
<1>8. Flight(g, Tail(q), c, s)
  <2>1. Flight(g, q, c, s)
    BY <1>1, <1>3, <1>4, <1>5, <1>7, FlightRead
  <2> QED BY <1>7, <2>1, FlightTaken
<1>9. /\ \A l \in Kinds : q[1].kind # Closing[l]
      /\ k # "mode"
      /\ \A l \in Readable : q[1].kind = Sources[l] => l = k
  BY DEF Closing, Kinds, Readable, Sources, Asking
<1>10. \A l \in Kinds : l \in g.seen =>
         \/ l \in h.seen /\ g.active[l] = h.active[l]
         \/ q[1].kind = Asking[l] /\ g.active[l] = q[1].value
  BY <1>3, <1>4, <1>5 DEF v
<1>11. /\ "mode" \in g.seen => y
       /\ g.known = (g.seen = Readable) /\ h.seen \subseteq g.seen
       /\ \A l \in Readable : q[1].kind = Sources[l] => l \in g.seen
  BY <1>1, <1>3, <1>4, <1>9
<1>12. Running(g, Tail(q), Pipe(t, g), s, y)
  <2>1. g.sent = h.sent /\ g.state = h.state /\ g.ask = h.ask
    BY <1>3, <1>4
  <2>2. Flight(g, Tail(q), Pipe(t, h), s)
    BY <1>8 DEF c
  <2> QED BY <1>6, <1>7, <1>9, <1>10, <1>11, <2>1, <2>2, RunningTaken
<1> QED BY <1>12 DEF g, v

\* A report that tells nothing about the settings.
LEMMA PlainRuns ==
  ASSUME NEW t, IsSeq(t), NEW h, NEW q, q # <<>>, NEW s, NEW y, Running(h, q, Pipe(t, h), s, y),
         ~Told(q[1]), q[1].kind \notin {"STATE?", "ROWS?", "ROWMODES?"}, NEW g, Same(g, h), g.pref = h.pref,
         g.req = h.req, g.pending = h.pending
  PROVE  Running(g, Tail(q), Pipe(t, g), s, y)
<1>1. Full(h) /\ Flight(h, q, Pipe(t, h), s) /\ ("mode" \in h.seen => y)
  BY DEF Running, Wired
<1>2. /\ Full(g) /\ g.sent = h.sent /\ g.state = h.state /\ g.ask = h.ask /\ g.seen = h.seen
      /\ g.known = h.known /\ g.active = h.active /\ g.want = h.want
  BY DEF Same, Knows
<1>3. Flight(g, q, Pipe(t, h), s)
  BY <1>1, <1>2, FlightKept
<1>4. Flight(g, Tail(q), Pipe(t, h), s)
  BY <1>3, FlightTaken
<1>5. /\ \A k \in Kinds : q[1].kind # Closing[k]
      /\ \A k \in Readable : q[1].kind # Sources[k]
  BY DEF Closing, Kinds, Readable, Sources, Told
<1>6. h.state \in {"BOOTSTRAPPING", "SYNCED"} => g.known = (g.seen = Readable)
  BY <1>2 DEF Running, Learned
<1> QED BY <1>1, <1>2, <1>4, <1>5, <1>6, RunningTaken

LEMMA UsbRuns ==
  ASSUME NEW t, IsSeq(t), NEW h, NEW q, q # <<>>, NEW s, NEW y, Running(h, q, Pipe(t, h), s, y),
         q[1].kind = "USBSTREAM?", NEW v, NEW g \in UsbReported(h, v)
  PROVE  Running(g, Tail(q), Pipe(t, g), s, y)
<1> DEFINE x == [h EXCEPT !.usb = v]
<1>1. Full(h) /\ Flight(h, q, Pipe(t, h), s)
  BY DEF Running, Wired
<1>2. /\ Same(x, h) /\ x.pref = h.pref /\ x.req = h.req /\ x.pending = h.pending
  BY <1>1 DEF Same, Knows, Full
<1>3. g = x \/ (h.pref = "WAITING_USB_STREAM" /\ g \in Advance(x))
  BY <1>2 DEF UsbReported
<1> HIDE DEF x
<1>4. Running(x, Tail(q), Pipe(t, x), s, y)
  BY <1>2, PlainRuns DEF Told
<1>5. CASE h.pref = "WAITING_USB_STREAM" /\ g \in Advance(x)
  <2>1. Idle(q, Pipe(t, h))
    BY <1>1, <1>5 DEF Flight, Underway, Waiting, Kinds
  <2>2. Pipe(t, x) = Pipe(t, h)
    BY <1>1, <1>2, PipeIs DEF Same, Knows
  <2>3. Idle(Tail(q), Pipe(t, x))
    BY <2>1, <2>2, UntoldKept DEF Idle
  <2>4. Moved(g, x)
    BY <1>2, <1>5, AdvanceIs DEF Same, Knows
  <2> QED BY <1>4, <2>3, <2>4, RunningMoved
<1> QED BY <1>3, <1>4, <1>5

\* The report of a transaction is neither early nor one of those that are read.
LEMMA ToldIs ==
  \A m : Told(m) => /\ ~IsEarly(m) /\ \A k \in Readable : m.kind # Sources[k]
                    /\ \A k \in Kinds : m.kind # Asking[k]
  BY DEF Told, IsEarly, Early, Readable, Sources, Asking, Kinds

LEMMA AcceptedRuns ==
  ASSUME NEW t, IsSeq(t), NEW h, NEW q, q # <<>>, NEW s, NEW y, Running(h, q, Pipe(t, h), s, y),
         NEW k \in Kinds, q[1].kind = Opening[k]
  PROVE  Running(Accepted(h, k, q[1]), Tail(q), Pipe(t, Accepted(h, k, q[1])), s, y)
<1> DEFINE m == q[1]
           r == Tail(q)
           c == Pipe(t, h)
           g == Accepted(h, k, m)
<1>1. Full(h) /\ Flight(h, q, c, s) /\ ("mode" \in h.seen => y)
  BY DEF Running, Wired
<1>2. Told(m)
  BY DEF Told, Opening, Kinds
<1>3. PICK l \in Kinds :
        /\ h.state = "SYNCED" /\ h.pref \in {Waiting[l], "ERROR"} /\ Unordered(c) /\ IsSeq(r)
        /\ \/ /\ m.kind = Opening[l] /\ Ready(h, l) /\ s[l] = h.want[l] /\ m.value = s[l]
              /\ Len(r) \in Nat \ {0} /\ r[1].kind = Closing[l] /\ r[1].value = s[l]
              /\ r[1].id = m.id
              /\ \A j \in 1 .. Len(r) : j # 1 => ~Told(r[j])
           \/ m.kind = Closing[l]
           \/ m.kind = Refusal[l]
  <2>1. \E l \in Kinds :
          /\ h.state = "SYNCED" /\ h.pref \in {Waiting[l], "ERROR"} /\ Unordered(c) /\ IsSeq(Tail(q))
          /\ \/ /\ q[1].kind = Opening[l] /\ Ready(h, l) /\ s[l] = h.want[l] /\ q[1].value = s[l]
                /\ Len(Tail(q)) \in Nat \ {0} /\ Tail(q)[1].kind = Closing[l] /\ Tail(q)[1].value = s[l]
                /\ Tail(q)[1].id = q[1].id
                /\ \A j \in 1 .. Len(Tail(q)) : j # 1 => ~Told(Tail(q)[j])
             \/ /\ q[1].kind = Closing[l] /\ q[1].value = s[l]
                /\ h.req[l] = q[1].id /\ (l = "modes" => h.pending[l] = s[l])
                /\ Untold(Tail(q))
             \/ q[1].kind = Refusal[l] /\ Untold(Tail(q))
    BY <1>1, <1>2, FlightTold
  <2> QED BY <2>1
<1>4. l = k /\ m.kind # Closing[l] /\ m.kind # Refusal[l]
  BY <1>3 DEF Opening, Closing, Refusal, Kinds
<1>5. Opens(h, k, m)
  <2>1. h.req[k] = None /\ m.value = h.want[k] /\ (k = "modes" => h.pending[k] \in {None, h.want[k]})
    BY <1>3, <1>4 DEF Ready
  <2>2. CASE k = "rows"
    BY <2>1, <2>2 DEF Opens
  <2>3. CASE k = "modes"
    BY <2>1, <2>3 DEF Opens
  <2> QED BY <2>2, <2>3 DEF Kinds
<1>6. g = [h EXCEPT !.pending[k] = m.value, !.req[k] = m.id]
  BY <1>5 DEF Accepted
<1> HIDE DEF g, m, r, c
<1>7. /\ DOMAIN g = DOMAIN h /\ g.sent = h.sent /\ g.state = h.state /\ g.ask = h.ask /\ g.seen = h.seen
      /\ g.known = h.known /\ g.want = h.want /\ g.pref = h.pref /\ g.active = h.active
      /\ g.pending = [h.pending EXCEPT ![k] = m.value] /\ g.req = [h.req EXCEPT ![k] = m.id]
      /\ k \in DOMAIN h.pending /\ k \in DOMAIN h.req
  BY <1>1, <1>6 DEF Full
<1>8. /\ DOMAIN g.pending = DOMAIN h.pending /\ DOMAIN g.req = DOMAIN h.req
      /\ g.pending[k] = m.value /\ g.req[k] = m.id
  BY <1>7
<1>9. Full(g)
  BY <1>1, <1>7, <1>8 DEF Full
<1>10. r # <<>>
  BY <1>3, <1>4, EmptyIsSeq
<1>11. Opened(g, k, r, c, s)
  BY <1>3, <1>4, <1>8, <1>10 DEF Opened
<1>12. Flight(g, r, c, s)
  BY <1>3, <1>4, <1>7, <1>11 DEF Flight, Underway
<1>13. /\ \A j \in Kinds : m.kind # Closing[j]
       /\ ~IsEarly(m) /\ \A j \in Readable : m.kind # Sources[j]
  <2>1. \A j \in Kinds : Opening[k] # Closing[j]
    BY DEF Opening, Closing, Kinds
  <2> QED BY <1>2, <1>3, <1>4, <2>1, ToldIs
<1>14. g.known = (g.seen = Readable)
  BY <1>3, <1>7 DEF Running, Learned
<1>15. Running(g, Tail(q), Pipe(t, g), s, y)
  <2>1. Flight(g, Tail(q), Pipe(t, h), s) /\ ~IsEarly(q[1]) /\ (\A j \in Readable : q[1].kind # Sources[j])
        /\ \A j \in Kinds : q[1].kind # Closing[j]
    BY <1>12, <1>13 DEF r, c, m
  <2> QED BY <1>1, <1>7, <1>9, <1>14, <2>1, RunningTaken
<1> QED BY <1>15 DEF g, m

\* The confirmation, of the transaction that was accepted.
LEMMA AppliedRuns ==
  ASSUME NEW t, IsSeq(t), NEW h, NEW q, q # <<>>, NEW s, NEW y, Running(h, q, Pipe(t, h), s, y),
         NEW k \in Kinds, q[1].kind = Closing[k]
  PROVE  /\ Running(Applied(h, k, q[1]), Tail(q), Pipe(t, Applied(h, k, q[1])), s, y)
         /\ Idle(Tail(q), Pipe(t, Applied(h, k, q[1])))
<1> DEFINE m == q[1]
           r == Tail(q)
           c == Pipe(t, h)
           g == Applied(h, k, m)
<1>1. Full(h) /\ Flight(h, q, c, s) /\ ("mode" \in h.seen => y)
  BY DEF Running, Wired
<1>2. Told(m)
  BY DEF Told, Closing, Kinds
<1>3. PICK l \in Kinds :
        /\ h.state = "SYNCED" /\ Unordered(c)
        /\ \/ m.kind = Opening[l]
           \/ /\ m.kind = Closing[l] /\ m.value = s[l]
              /\ h.req[l] = m.id /\ (l = "modes" => h.pending[l] = s[l])
              /\ Untold(r)
           \/ m.kind = Refusal[l]
  BY <1>1, <1>2, FlightTold
<1>4. l = k /\ m.kind # Opening[l] /\ m.kind # Refusal[l]
  BY <1>3 DEF Opening, Closing, Refusal, Kinds
<1>5. Closes(h, k, m) /\ m.value = s[k] /\ Idle(r, c)
  BY <1>3, <1>4 DEF Closes, Idle
<1>6. g = [h EXCEPT !.active[k] = m.value, !.pending[k] = None,
                    !.req[k] = IF k = "rows" THEN None ELSE @]
  BY <1>5 DEF Applied
<1> HIDE DEF g, m, r, c
<1>7. /\ DOMAIN g = DOMAIN h /\ g.sent = h.sent /\ g.state = h.state /\ g.ask = h.ask /\ g.seen = h.seen
      /\ g.known = h.known /\ g.want = h.want /\ g.pref = h.pref
      /\ g.active = [h.active EXCEPT ![k] = m.value] /\ g.pending = [h.pending EXCEPT ![k] = None]
      /\ g.req = [h.req EXCEPT ![k] = IF k = "rows" THEN None ELSE @]
      /\ DOMAIN h.active = Kinds /\ h.active = [j \in Kinds |-> h.active[j]]
  BY <1>1, <1>6 DEF Full
<1>8. /\ DOMAIN g.active = Kinds /\ g.active = [j \in Kinds |-> g.active[j]]
      /\ g.active[k] = m.value /\ \A j \in Kinds : j # k => g.active[j] = h.active[j]
  BY <1>7
<1>9. DOMAIN g.pending = DOMAIN h.pending /\ DOMAIN g.req = DOMAIN h.req
  BY <1>7
<1>10. Full(g)
  BY <1>1, <1>7, <1>8, <1>9 DEF Full
<1>11. /\ \A j \in Kinds : m.kind = Closing[j] => j = k
       /\ ~IsEarly(m) /\ \A j \in Readable : m.kind # Sources[j]
  <2>1. \A j \in Kinds : Closing[k] = Closing[j] => j = k
    BY DEF Closing, Kinds
  <2> QED BY <1>2, <1>3, <1>4, <2>1, ToldIs
<1>12. g.known = (g.seen = Readable)
  BY <1>3, <1>7 DEF Running, Learned
<1>13. Pipe(t, g) = c
  BY <1>1, <1>7, <1>10, PipeIs DEF c
<1>14. Running(g, Tail(q), Pipe(t, g), s, y)
  <2>1. Flight(g, Tail(q), Pipe(t, h), s)
    BY <1>5 DEF Flight, r, c
  <2>2. /\ \A j \in Kinds : q[1].kind = Closing[j] => g.active[j] = s[j]
        /\ \A j \in Kinds : j \in g.seen =>
             (j \in h.seen /\ g.active[j] = h.active[j]) \/ g.active[j] = s[j]
    BY <1>5, <1>7, <1>8, <1>11 DEF m
  <2>3. ~IsEarly(q[1]) /\ \A j \in Readable : q[1].kind # Sources[j]
    BY <1>11 DEF m
  <2> QED BY <1>1, <1>7, <1>10, <1>12, <2>1, <2>2, <2>3, RunningTaken
<1> QED BY <1>5, <1>13, <1>14 DEF g, m, r

\* The refusal.
LEMMA RejectedRuns ==
  ASSUME NEW t, IsSeq(t), NEW h, NEW q, q # <<>>, NEW s, NEW y, Running(h, q, Pipe(t, h), s, y),
         NEW k \in Kinds, q[1].kind = Refusal[k], NEW g, g = AfterRejected(Rejected(h, k))
  PROVE  Running(g, Tail(q), Pipe(t, g), s, y)
<1> DEFINE m == q[1]
           r == Tail(q)
           c == Pipe(t, h)
           x == Rejected(h, k)
<1>1. Full(h) /\ Flight(h, q, c, s) /\ ("mode" \in h.seen => y)
  BY DEF Running, Wired
<1>2. Told(m)
  BY DEF Told, Refusal, Kinds
<1>3. PICK l \in Kinds :
        /\ h.state = "SYNCED" /\ Unordered(c)
        /\ \/ m.kind = Opening[l]
           \/ m.kind = Closing[l]
           \/ m.kind = Refusal[l] /\ Untold(r)
  BY <1>1, <1>2, FlightTold
<1>4. m.kind # Opening[l] /\ m.kind # Closing[l] /\ \A j \in Kinds : m.kind # Closing[j]
  BY DEF Opening, Closing, Refusal, Kinds
<1>5. Flight(g, r, c, s)
  BY <1>3, <1>4 DEF Flight, Idle
<1>6. x = h \/ x = [h EXCEPT !.pending[k] = None]
  BY DEF Rejected
<1>7. g = x \/ g = [x EXCEPT !.pref = "ERROR"]
  BY DEF AfterRejected
<1> HIDE DEF x, c, r
<1>8. Same(x, h)
  <2>1. CASE x = [h EXCEPT !.pending[k] = None]
    <3>1. /\ DOMAIN x = DOMAIN h /\ x.sent = h.sent /\ x.state = h.state /\ x.ask = h.ask /\ x.seen = h.seen
          /\ x.known = h.known /\ x.want = h.want /\ x.active = h.active /\ x.req = h.req
          /\ x.pending = [h.pending EXCEPT ![k] = None]
      BY <1>1, <2>1 DEF Full
    <3>2. DOMAIN x.pending = DOMAIN h.pending
      BY <3>1
    <3> QED BY <1>1, <3>1, <3>2 DEF Same, Knows, Full
  <2>2. CASE x = h
    BY <1>1, <2>2 DEF Same, Knows
  <2> QED BY <1>6, <2>1, <2>2
<1>9. Same(g, h)
  BY <1>7, <1>8 DEF Same, Knows, Full
<1>10. ~IsEarly(q[1]) /\ \A j \in Readable : q[1].kind # Sources[j]
  BY <1>2, ToldIs
<1>11. g.known = (g.seen = Readable)
  BY <1>3, <1>9 DEF Running, Learned, Same, Knows
<1>12. Full(g) /\ g.sent = h.sent /\ g.state = h.state /\ g.ask = h.ask /\ g.seen = h.seen /\ g.active = h.active
  BY <1>9 DEF Same, Knows
<1>13. Flight(g, Tail(q), Pipe(t, h), s)
  BY <1>5 DEF r, c
<1> QED BY <1>1, <1>4, <1>10, <1>11, <1>12, <1>13, RunningTaken

\* A report, whatever it is, is taken for what it says.
LEMMA ServeRuns ==
  ASSUME NEW t, IsSeq(t), NEW h, NEW q, q # <<>>, NEW s, NEW y, Running(h, q, Pipe(t, h), s, y),
         NEW g \in Serve(h, q[1])
  PROVE  Running(g, Tail(q), Pipe(t, g), s, y)
<1> DEFINE m == q[1]
<1>1. CASE m.kind = "BOOT?"
  <2>1. g = ObserveBoot(h, m.value)
    BY <1>1 DEF Serve
  <2> QED BY <1>1, <2>1, BootRuns
<1>2. CASE m.kind = "STATE?"
  <2>1. g = IF m.value THEN SyncWith(h, "mode") ELSE Degraded(h)
    BY <1>2 DEF Serve
  <2> QED BY <1>2, <2>1, StateRuns
<1>3. CASE m.kind = "ROWS?"
  <2>1. g = ReadBack(h, "rows", m.value) /\ "rows" \in Kinds /\ m.kind = Asking["rows"]
    BY <1>3 DEF Serve, Kinds, Asking
  <2> QED BY <2>1, ReadRuns
<1>4. CASE m.kind = "ROWMODES?"
  <2>1. g = ReadBack(h, "modes", m.value) /\ "modes" \in Kinds /\ m.kind = Asking["modes"]
    BY <1>4 DEF Serve, Kinds, Asking
  <2> QED BY <2>1, ReadRuns
<1>5. CASE m.kind = "USBSTREAM?"
  <2>1. g \in UsbReported(h, m.value)
    BY <1>5 DEF Serve
  <2> QED BY <1>5, <2>1, UsbRuns
<1>6. CASE m.kind \in {"RCMD", "RMACK"}
  <2>1. g = Accepted(h, IF m.kind = "RCMD" THEN "rows" ELSE "modes", m)
    BY <1>6 DEF Serve
  <2>2. \E k \in Kinds : g = Accepted(h, k, m) /\ m.kind = Opening[k]
    BY <1>6, <2>1 DEF Kinds, Opening
  <2> QED BY <2>2, AcceptedRuns
<1>7. CASE m.kind \in {"RAPP", "RMAPP"}
  <2>1. g \in AfterApplied(Applied(h, IF m.kind = "RAPP" THEN "rows" ELSE "modes", m))
    BY <1>7 DEF Serve
  <2>2. PICK k \in Kinds : g \in AfterApplied(Applied(h, k, m)) /\ m.kind = Closing[k]
    BY <1>7, <2>1 DEF Kinds, Closing
  <2> DEFINE x == Applied(h, k, m)
  <2>3. Running(x, Tail(q), Pipe(t, x), s, y) /\ Idle(Tail(q), Pipe(t, x))
    BY <2>2, AppliedRuns
  <2>4. g = x \/ g \in Advance(x)
    BY <2>2 DEF AfterApplied
  <2> HIDE DEF x
  <2>5. CASE g \in Advance(x)
    <3>1. Moved(g, x)
      BY <2>3, <2>5, AdvanceIs DEF Running, Wired
    <3> QED BY <2>3, <3>1, RunningMoved
  <2> QED BY <2>3, <2>4, <2>5
<1>8. CASE m.kind \in {"ERR", "RMERR"}
  <2>1. g = AfterRejected(Rejected(h, IF m.kind = "ERR" THEN "rows" ELSE "modes"))
    BY <1>8 DEF Serve
  <2>2. \E k \in Kinds : g = AfterRejected(Rejected(h, k)) /\ m.kind = Refusal[k]
    BY <1>8, <2>1 DEF Kinds, Refusal
  <2> QED BY <2>2, RejectedRuns
<1>9. CASE m.kind \notin {"BOOT?", "STATE?", "ROWS?", "ROWMODES?", "USBSTREAM?", "RCMD", "RMACK", "RAPP", "RMAPP",
                          "ERR", "RMERR"}
  <2>1. g = h
    BY <1>9 DEF Serve
  <2>2. Same(h, h)
    BY DEF Running, Wired, Same, Knows
  <2> QED BY <1>9, <2>1, <2>2, PlainRuns DEF Told
<1> QED BY <1>1, <1>2, <1>3, <1>4, <1>5, <1>6, <1>7, <1>8, <1>9

-----------------------------------------------------------------------------
(* The host in general.                                                    *)

\* On whatever link: the state of the bootstrap is Synchronize's, and without a link
\* nothing is written.
Mute(g, h) == Full(g) /\ g.state = h.state /\ (link.up \/ g.sent = h.sent)

LEMMA MutesTwice == \A f, g, h : Mute(f, g) /\ Mute(g, h) => Mute(f, h)
  BY DEF Mute

LEMMA MovedIsMute == \A g, h : Moved(g, h) => Mute(g, h)
  BY DEF Moved, Mute, Knows, Wrote

LEMMA ServeIs ==
  ASSUME NEW h, Full(h), NEW m, NEW g \in Serve(h, m)
  PROVE  Mute(g, h)
<1>1. CASE m.kind = "BOOT?"
  <2>1. g = ObserveBoot(h, m.value)
    BY <1>1 DEF Serve
  <2> QED BY <2>1 DEF ObserveBoot, Full, Mute
<1>2. CASE m.kind = "STATE?"
  <2>1. g = SyncWith(h, "mode") \/ g = Degraded(h)
    BY <1>2 DEF Serve
  <2> QED BY <2>1 DEF SyncWith, Degraded, Full, Mute
<1>3. CASE m.kind \in {"ROWS?", "ROWMODES?"}
  <2>1. PICK k \in Kinds : g = ReadBack(h, k, m.value)
    BY <1>3 DEF Serve, Kinds
  <2> DEFINE r == IF k = "modes" THEN None ELSE h.req[k]
             x == [h EXCEPT !.active[k] = m.value, !.pending[k] = None, !.req[k] = IF k = "modes" THEN None ELSE @]
  <2>2. /\ DOMAIN x = DOMAIN h /\ x.sent = h.sent /\ x.state = h.state
        /\ x.active = [h.active EXCEPT ![k] = m.value] /\ x.pending = [h.pending EXCEPT ![k] = None]
        /\ x.req = [h.req EXCEPT ![k] = r]
    BY DEF Full
  <2>3. g = SyncWith(x, k)
    BY <2>1 DEF ReadBack
  <2> HIDE DEF x, r
  <2>4. Mute(x, h)
    <3>1. /\ DOMAIN x.active = Kinds /\ x.active = [l \in Kinds |-> x.active[l]]
          /\ DOMAIN x.pending = DOMAIN h.pending /\ DOMAIN x.req = DOMAIN h.req
      BY <2>2 DEF Full
    <3> QED BY <2>2, <3>1 DEF Mute, Full
  <2>5. Mute(SyncWith(x, k), x)
    BY <2>4 DEF SyncWith, Full, Mute
  <2> QED BY <2>3, <2>4, <2>5, MutesTwice
<1>4. CASE m.kind = "USBSTREAM?"
  <2> DEFINE x == [h EXCEPT !.usb = m.value]
  <2>1. g = x \/ g \in Advance(x)
    BY <1>4 DEF Serve, UsbReported
  <2>2. Mute(x, h)
    BY DEF Full, Mute
  <2> HIDE DEF x
  <2> QED BY <2>1, <2>2, AdvanceIs, MovedIsMute, MutesTwice DEF Mute
<1>5. CASE m.kind \in {"RCMD", "RMACK"}
  <2>1. PICK k \in Kinds : g = Accepted(h, k, m)
    BY <1>5 DEF Serve, Kinds
  <2>2. CASE g = h
    BY <2>2 DEF Mute
  <2>3. CASE g = [h EXCEPT !.pending[k] = m.value, !.req[k] = m.id]
    <3>1. /\ DOMAIN g = DOMAIN h /\ g.sent = h.sent /\ g.state = h.state /\ g.active = h.active
          /\ g.pending = [h.pending EXCEPT ![k] = m.value] /\ g.req = [h.req EXCEPT ![k] = m.id]
      BY <2>3 DEF Full
    <3>2. DOMAIN g.pending = DOMAIN h.pending /\ DOMAIN g.req = DOMAIN h.req
      BY <3>1
    <3> QED BY <3>1, <3>2 DEF Mute, Full
  <2> QED BY <2>1, <2>2, <2>3 DEF Accepted
<1>6. CASE m.kind \in {"RAPP", "RMAPP"}
  <2>1. PICK k \in Kinds : g \in AfterApplied(Applied(h, k, m))
    BY <1>6 DEF Serve, Kinds
  <2> DEFINE x == Applied(h, k, m)
             r == IF k = "rows" THEN None ELSE h.req[k]
  <2>2. g = x \/ g \in Advance(x)
    BY <2>1 DEF AfterApplied
  <2>3. x = h \/ x = [h EXCEPT !.active[k] = m.value, !.pending[k] = None,
                               !.req[k] = IF k = "rows" THEN None ELSE @]
    BY DEF Applied
  <2> HIDE DEF x
  <2>5. ASSUME x # h PROVE Mute(x, h)
    <3>1. /\ DOMAIN x = DOMAIN h /\ x.sent = h.sent /\ x.state = h.state
          /\ x.active = [h.active EXCEPT ![k] = m.value] /\ x.pending = [h.pending EXCEPT ![k] = None]
          /\ x.req = [h.req EXCEPT ![k] = r]
      BY <2>3, <2>5 DEF Full
    <3> HIDE DEF r
    <3>2. /\ DOMAIN x.active = Kinds /\ x.active = [l \in Kinds |-> x.active[l]]
          /\ DOMAIN x.pending = DOMAIN h.pending /\ DOMAIN x.req = DOMAIN h.req
      BY <3>1 DEF Full
    <3> QED BY <3>1, <3>2 DEF Mute, Full
  <2>6. Mute(x, h)
    <3>1. CASE x = h
      BY <3>1 DEF Mute
    <3> QED BY <2>5, <3>1
  <2> QED BY <2>2, <2>6, AdvanceIs, MovedIsMute, MutesTwice DEF Mute
<1>7. CASE m.kind \in {"ERR", "RMERR"}
  <2>1. PICK k \in Kinds : g = AfterRejected(Rejected(h, k))
    BY <1>7 DEF Serve, Kinds
  <2> DEFINE x == Rejected(h, k)
  <2>2. g = x \/ g = [x EXCEPT !.pref = "ERROR"]
    BY <2>1 DEF AfterRejected
  <2>3. x = h \/ x = [h EXCEPT !.pending[k] = None]
    BY DEF Rejected
  <2> HIDE DEF x
  <2>4. Mute(x, h)
    <3>1. CASE x = h
      BY <3>1 DEF Mute
    <3>2. CASE x = [h EXCEPT !.pending[k] = None]
      <4>1. /\ DOMAIN x = DOMAIN h /\ x.sent = h.sent /\ x.state = h.state /\ x.active = h.active
            /\ x.req = h.req /\ x.pending = [h.pending EXCEPT ![k] = None]
        BY <3>2 DEF Full
      <4>2. DOMAIN x.pending = DOMAIN h.pending
        BY <4>1
      <4> QED BY <4>1, <4>2 DEF Mute, Full
    <3> QED BY <2>3, <3>1, <3>2
  <2>5. Mute([x EXCEPT !.pref = "ERROR"], x)
    BY <2>4 DEF Mute, Full
  <2> QED BY <2>2, <2>4, <2>5, MutesTwice
<1>8. CASE m.kind \notin {"BOOT?", "STATE?", "ROWS?", "ROWMODES?", "USBSTREAM?", "RCMD", "RMACK", "RAPP", "RMAPP",
                          "ERR", "RMERR"}
  <2>1. g = h
    BY <1>8 DEF Serve
  <2> QED BY <2>1 DEF Mute
<1> QED BY <1>1, <1>2, <1>3, <1>4, <1>5, <1>6, <1>7, <1>8

\* A question is asked, a bootstrap ends, or it is complete.
LEMMA SynchronizeMute ==
  ASSUME NEW h, Full(h), NEW m, NEW g \in Synchronize(h, m)
  PROVE  Full(g) /\ (link.up \/ g.sent = h.sent) /\ (h.state # "BOOTSTRAPPING" => g.state = h.state)
  BY SynchronizeIs, MovedIsMute DEF Stops, Waits, Syncs, Asks, Knows, Wrote, Mute

LEMMA ExpiredMute ==
  ASSUME NEW h, Full(h), NEW g \in Expired(h)
  PROVE  Full(g) /\ (link.up \/ g.sent = h.sent)
  BY ExpiredIs DEF Stops, Asks, Knows, Wrote

LEMMA StartIs ==
  ASSUME NEW h, Full(h), NEW g \in StartBootstrap(h)
  PROVE  \E x : /\ Full(x) /\ x.seen = {} /\ x.known = FALSE /\ x.state = "BOOTSTRAPPING" /\ x.ask = None
                /\ x.sent = h.sent
                /\ Asks(g, x, "PROTO?") \/ Stops(g, x)
<1> DEFINE x == [h EXCEPT !.known = FALSE, !.seen = {}, !.state = "BOOTSTRAPPING", !.ask = None,
                          !.polls = 0, !.usbRead = None]
<1>1. g \in SendQuery(x, "PROTO?", 0)
  BY DEF StartBootstrap
<1>2. /\ Full(x) /\ x.seen = {} /\ x.known = FALSE /\ x.state = "BOOTSTRAPPING" /\ x.ask = None
      /\ x.sent = h.sent
  BY DEF Full
<1> HIDE DEF x
<1> QED BY <1>1, <1>2, SendQueryIs

LEMMA StopIs ==
  ASSUME NEW h, Full(h)
  PROVE  /\ Full(StopBootstrap(h)) /\ StopBootstrap(h).sent = h.sent
         /\ StopBootstrap(h).state # "BOOTSTRAPPING"
  BY DEF StopBootstrap, Full

-----------------------------------------------------------------------------
(* A link begins, and the device answers.                                  *)

LEMMA StartRuns ==
  ASSUME NEW h, Full(h), h.sent = <<>>, NEW g \in StartBootstrap(h), NEW s, NEW y
  PROVE  Running(g, <<>>, Pipe(<<>>, g), s, y)
<1> DEFINE e == <<>>
<1>1. PICK x : /\ Full(x) /\ x.seen = {} /\ x.known = FALSE /\ x.state = "BOOTSTRAPPING" /\ x.ask = None
               /\ x.sent = e
               /\ Asks(g, x, "PROTO?") \/ Stops(g, x)
  BY StartIs
<1>2. IsSeq(e) /\ Len(e) = 0 /\ \A i \in 1 .. 0 : FALSE
  BY EmptyIsSeq
<1>3. Pipe(e, x) = e
  <2>1. e \in Seq({}) /\ e \o e = e
    BY ConcatEmptySeq
  <2> QED BY <1>1, <2>1 DEF Pipe
<1>4. NoEarly(e) /\ AllEarly(e)
  BY EarlyKept
<1> HIDE DEF e
<1>5. Sorted(e, e) /\ Untold(e) /\ Unordered(e) /\ Clear(e) /\ Faithful(e, s)
  BY <1>2 DEF Sorted, Untold, Unordered, Clear, Faithful
<1>6. Wired(x, e, e, s, y)
  BY <1>1, <1>2, <1>5 DEF Wired, Flight, Idle, Shows
<1>7. Lined(x, e, e)
  BY <1>1, <1>4, <1>5 DEF Lined
<1>8. Learned(x, e, y)
  <2>1. {} # Readable
    BY DEF Readable
  <2> QED BY <1>1, <2>1 DEF Learned, Passed
<1>9. Running(x, e, Pipe(e, x), s, y)
  BY <1>3, <1>6, <1>7, <1>8 DEF Running
<1>10. Running(g, e, Pipe(e, g), s, y)
  <2>1. CASE Stops(g, x)
    BY <1>1, <1>2, <1>9, <2>1, StopRuns
  <2>2. CASE Asks(g, x, "PROTO?")
    <3>1. "PROTO?" \in AllQuestions /\ "PROTO?" \in Early /\ \A k \in Readable : "PROTO?" \notin After[k]
      BY DEF AllQuestions, Early, After, Unread, Readable
    <3>2. AllEarly(e) /\ AllEarly(Pipe(e, x)) /\ x.seen = {}
      BY <1>1, <1>3, <1>4
    <3> QED BY <1>1, <1>2, <1>9, <2>2, <3>1, <3>2, AskRuns
  <2> QED BY <1>1, <2>1, <2>2
<1> QED BY <1>10 DEF e

LEMMA SortedReport ==
  ASSUME NEW q, NEW c, Sorted(q, c), NoEarly(c), NEW m, ~IsEarly(m)
  PROVE  Sorted(Append(q, m), c)
<1> DEFINE x == Append(q, m)
           n == Len(q) + 1
<1>1. /\ IsSeq(x) /\ Len(q) \in Nat /\ Len(x) = n /\ x[n] = m
      /\ \A i \in 1 .. Len(q) : x[i] = q[i]
  BY SeqExtended DEF Sorted
<1> HIDE DEF x
<1>2. /\ \A i \in 1 .. n : i \in 1 .. Len(q) \/ i = n
      /\ \A i, j \in 1 .. n : i < j => i \in 1 .. Len(q)
  BY <1>1
<1>3. ASSUME NEW i \in 1 .. n, NEW j \in 1 .. n, i < j, IsEarly(x[j])
      PROVE  IsEarly(x[i])
  <2>1. i \in 1 .. Len(q) /\ x[i] = q[i]
    BY <1>1, <1>2, <1>3
  <2>2. j \in 1 .. Len(q) /\ x[j] = q[j]
    BY <1>1, <1>2, <1>3
  <2> QED BY <1>3, <2>1, <2>2 DEF Sorted
<1>4. Sorted(x, c)
  BY <1>1, <1>3 DEF Sorted, NoEarly
<1> QED BY <1>4 DEF x

LEMMA LinedAnswered ==
  ASSUME NEW h, NEW q, NEW c, Lined(h, q, c), c # <<>>, NEW m, IsEarly(m) => IsEarly(c[1]),
         IsEarly(c[1]) => IsEarly(m)
  PROVE  Lined(h, Append(q, m), Tail(c))
<1> DEFINE x == Append(q, m)
           r == Tail(c)
<1>1. Sorted(x, r)
  BY SortedAnswer DEF Lined
<1>2. /\ NoEarly(c) => NoEarly(r) /\ ~IsEarly(c[1])
      /\ AllEarly(c) => AllEarly(r) /\ IsEarly(c[1])
  BY EarlyKept
<1>3. NoEarly(q) /\ ~IsEarly(m) => NoEarly(x)
  BY EarlyKept
<1>4. AllEarly(q) /\ IsEarly(m) => AllEarly(x)
  BY EarlyKept
<1> HIDE DEF x, r
<1>5. ASSUME NoEarly(q), NoEarly(c) PROVE NoEarly(x) /\ NoEarly(r)
  BY <1>2, <1>3, <1>5
<1>6. ASSUME AllEarly(q), AllEarly(c) PROVE AllEarly(x) /\ AllEarly(r)
  BY <1>2, <1>4, <1>6
<1>7. Lined(h, x, r)
  BY <1>1, <1>5, <1>6 DEF Lined
<1> QED BY <1>7 DEF x, r

LEMMA LinedReported ==
  ASSUME NEW h, NEW q, NEW c, Lined(h, q, c), h.state = "SYNCED", NEW m, ~IsEarly(m)
  PROVE  Lined(h, Append(q, m), c)
<1>1. NoEarly(q) /\ NoEarly(c)
  BY DEF Lined
<1>2. NoEarly(Append(q, m))
  BY <1>1, EarlyKept
<1>3. Sorted(Append(q, m), c)
  BY <1>1, SortedReport DEF Lined
<1> QED BY <1>1, <1>2, <1>3 DEF Lined

LEMMA LearnedReported ==
  ASSUME NEW h, NEW q, NEW y, Learned(h, q, y), IsSeq(q), NEW m
  PROVE  Learned(h, Append(q, m), y)
<1> DEFINE r == Append(q, m)
<1>1. /\ Len(q) \in Nat /\ Len(r) = Len(q) + 1
      /\ \A i \in 1 .. Len(q) : r[i] = q[i]
  BY SeqExtended
<1> HIDE DEF r
<1>2. \A i \in 1 .. Len(q) : i \in 1 .. Len(r)
  BY <1>1
<1>3. \A k \in Readable : (\E i \in 1 .. Len(q) : q[i].kind = Sources[k])
                            => \E i \in 1 .. Len(r) : r[i].kind = Sources[k]
  BY <1>1, <1>2
<1>4. Learned(h, r, y)
  BY <1>3 DEF Learned
<1> QED BY <1>4 DEF r

LEMMA ClearAppend ==
  ASSUME NEW q, IsSeq(q), Clear(q), NEW m, ~IsState(m), NEW y, m.kind = "STATE?" => m.value = y,
         \A i \in 1 .. Len(q) : q[i].kind = "STATE?" => q[i].value = y
  PROVE  /\ IsSeq(Append(q, m)) /\ Clear(Append(q, m))
         /\ \A i \in 1 .. Len(Append(q, m)) : Append(q, m)[i].kind = "STATE?" => Append(q, m)[i].value = y
<1> DEFINE r == Append(q, m)
           n == Len(q) + 1
<1>1. /\ IsSeq(r) /\ Len(q) \in Nat /\ Len(r) = n /\ r[n] = m
      /\ \A i \in 1 .. Len(q) : r[i] = q[i]
  BY SeqExtended
<1> HIDE DEF r
<1>2. \A i \in 1 .. n : i \in 1 .. Len(q) \/ i = n
  BY <1>1
<1>3. IsSeq(r) /\ Clear(r) /\ \A i \in 1 .. Len(r) : r[i].kind = "STATE?" => r[i].value = y
  BY <1>1, <1>2 DEF Clear
<1> QED BY <1>3 DEF r

\* The device takes a command, does nothing, and reports.
LEMMA AnswerRuns ==
  ASSUME NEW h, NEW q, NEW c, NEW s, NEW y, Running(h, q, c, s, y), c # <<>>, NEW m, ~IsState(m),
         m.kind = "STATE?" => m.value = y, \A k \in Kinds : m.kind = Asking[k] => m.value = s[k],
         IsEarly(m) => IsEarly(c[1]), IsEarly(c[1]) => IsEarly(m),
         (~Told(m) /\ ~Measured(c[1])) \/ \E k \in Kinds : c[1].kind = k /\ m.kind = Refusal[k]
  PROVE  Running(h, Append(q, m), Tail(c), s, y)
<1>1. Wired(h, q, c, s, y)
  BY DEF Running
<1>2. Flight(h, Append(q, m), Tail(c), s)
  <2>1. CASE ~Told(m) /\ ~Measured(c[1])
    BY <1>1, <2>1, FlightAsked, FlightReport DEF Wired
  <2>2. CASE \E k \in Kinds : c[1].kind = k /\ m.kind = Refusal[k]
    BY <1>1, <2>2, FlightRefused DEF Wired
  <2> QED BY <2>1, <2>2
<1>3. Faithful(Append(q, m), s) /\ Shows(h, Append(q, m), s)
  BY <1>1, FaithfulAppend DEF Wired
<1>4. IsSeq(Tail(c)) /\ IsSeq(q)
  BY <1>1, SeqTail DEF Wired
<1>5. Wired(h, Append(q, m), Tail(c), s, y)
  BY <1>1, <1>2, <1>3, <1>4, ClearAppend DEF Wired
<1>6. Lined(h, q, c) => Lined(h, Append(q, m), Tail(c))
  BY LinedAnswered
<1>7. Learned(h, q, y) => Learned(h, Append(q, m), y)
  BY <1>4, LearnedReported
<1> QED BY <1>5, <1>6, <1>7 DEF Running

\* The device carries out an order of the restore.
LEMMA CarriedRuns ==
  ASSUME NEW h, NEW q, NEW c, NEW s, NEW y, Running(h, q, c, s, y), c # <<>>, NEW k \in Kinds, c[1].kind = k,
         NEW v, v[k] = c[1].value, \A l \in Kinds : l # k => v[l] = s[l],
         NEW a, NEW b, a.kind = Opening[k], b.kind = Closing[k], a.id = b.id,
         a.value = c[1].value, b.value = c[1].value
  PROVE  Running(h, Append(Append(q, a), b), Tail(c), v, y)
<1> DEFINE x == Append(q, a)
           r == Append(x, b)
           d == Tail(c)
<1>1. Wired(h, q, c, s, y)
  BY DEF Running
<1>2. Flight(h, r, d, v)
  BY <1>1, FlightCarried DEF Wired
<1>3. h.state = "SYNCED"
  BY <1>1, OrderAtHead DEF Wired
<1>4. Faithful(r, v) /\ Shows(h, r, v)
  BY <1>1, FaithfulCarried DEF Wired
<1>5. IsSeq(d) /\ IsSeq(q)
  BY <1>1, SeqTail DEF Wired
<1>6. /\ ~IsState(a) /\ ~IsState(b) /\ a.kind # "STATE?" /\ b.kind # "STATE?"
      /\ ~IsEarly(a) /\ ~IsEarly(b) /\ ~IsEarly(c[1])
  BY DEF IsState, IsEarly, Early, Opening, Closing, Kinds
<1>7. IsSeq(x) /\ Clear(x) /\ \A i \in 1 .. Len(x) : x[i].kind = "STATE?" => x[i].value = y
  <2>1. Clear(q) /\ \A i \in 1 .. Len(q) : q[i].kind = "STATE?" => q[i].value = y
    BY <1>1 DEF Wired
  <2>2. a.kind = "STATE?" => a.value = y
    BY <1>6
  <2> QED BY <1>5, <1>6, <2>1, <2>2, ClearAppend
<1>8. Lined(h, q, c) /\ Learned(h, q, y)
  BY <1>3 DEF Running
<1>9. Lined(h, x, d)
  BY <1>6, <1>8, LinedAnswered
<1>10. Learned(h, x, y)
  BY <1>5, <1>8, LearnedReported
<1> HIDE DEF x, d
<1>11. IsSeq(r) /\ Clear(r) /\ \A i \in 1 .. Len(r) : r[i].kind = "STATE?" => r[i].value = y
  BY <1>6, <1>7, ClearAppend
<1>12. Lined(h, r, d) /\ Learned(h, r, y)
  BY <1>3, <1>6, <1>7, <1>9, <1>10, LinedReported, LearnedReported
<1> HIDE DEF r
<1>13. Wired(h, r, d, v, y)
  BY <1>1, <1>2, <1>4, <1>5, <1>11 DEF Wired
<1>14. Running(h, r, d, v, y)
  BY <1>12, <1>13 DEF Running
<1> QED BY <1>14 DEF r, x, d

-----------------------------------------------------------------------------
(* The link between the bootstrap and the device.                          *)

Settings == [k \in Kinds |-> dev.set[k]]

\* Without a link, nothing is on its way to the device, and once the loss of the link
\* is handled, no bootstrap goes on.
Down(h, q, c) ==
  /\ c = <<>> /\ IsSeq(q)
  /\ IF q = <<>> THEN h.state # "BOOTSTRAPPING" ELSE q[Len(q)].kind = "LOST"

\* The link has come up, and the host is yet to hear of it.
Starting(h, q, c) == q = <<Said("STREAMING", None)>> /\ c = <<>> /\ h.state # "BOOTSTRAPPING"

Attached(h, q, c) ==
  /\ ~link.up => Down(h, q, c)
  /\ link.up /\ link.intact => Starting(h, q, c) \/ Running(h, q, c, Settings, dev.healthy)

Linked ==
  /\ Full(host) /\ "healthy" \in DOMAIN dev /\ dev.healthy \in BOOLEAN
  /\ Attached(host, toHost, toDevice)

LinkInv == Unasked => Linked

\* A host that has sent what it wrote.
LEMMA SentKept ==
  ASSUME NEW h, Full(h), NEW g, g = [h EXCEPT !.sent = <<>>]
  PROVE  /\ Full(g) /\ g.state = h.state
         /\ \A q, c, s, y : Running(h, q, c, s, y) => Running(g, q, c, s, y)
<1>1. /\ Full(g) /\ g.state = h.state /\ g.ask = h.ask /\ g.seen = h.seen /\ g.known = h.known
      /\ g.want = h.want /\ g.pref = h.pref /\ g.active = h.active /\ g.pending = h.pending
      /\ g.req = h.req
  <2>1. DOMAIN g = DOMAIN h /\ \A f \in DOMAIN h : f # "sent" => g[f] = h[f]
    OBVIOUS
  <2>2. g.sent = <<>>
    BY DEF Full
  <2> QED BY <2>1, <2>2, EmptyIsSeq DEF Full
<1>2. ASSUME NEW q, NEW c, NEW s, NEW y, Running(h, q, c, s, y)
      PROVE  Running(g, q, c, s, y)
  <2>1. Wired(h, q, c, s, y)
    BY <1>2 DEF Running
  <2>2. Flight(g, q, c, s)
    <3>1. Flight(h, q, c, s)
      BY <2>1 DEF Wired
    <3>2. g.pref \in {h.pref, "ERROR"}
      BY <1>1
    <3> QED BY <1>1, <3>1, <3>2, FlightKept
  <2>3. Wired(g, q, c, s, y)
    BY <1>1, <2>1, <2>2 DEF Wired, Shows
  <2>4. Lined(h, q, c) => Lined(g, q, c)
    BY <1>1 DEF Lined
  <2>5. Learned(h, q, y) => Learned(g, q, y)
    BY <1>1 DEF Learned, Passed
  <2> QED BY <1>1, <1>2, <2>3, <2>4, <2>5 DEF Running
<1> QED BY <1>1, <1>2

\* A step of the host that runs on.
LEMMA HostRuns ==
  ASSUME NEW h, Full(h), Becomes(h), UNCHANGED <<link, dev>>,
         "healthy" \in DOMAIN dev, dev.healthy \in BOOLEAN,
         ~link.up => Down(h, toHost', Pipe(toDevice, h)),
         link.up /\ link.intact => Running(h, toHost', Pipe(toDevice, h), Settings, dev.healthy)
  PROVE  Linked'
<1>1. host' = [h EXCEPT !.sent = <<>>] /\ toDevice' = Pipe(toDevice, h)
  BY DEF Becomes, Pipe
<1>2. /\ Full(host') /\ host'.state = h.state
      /\ \A q, c, s, y : Running(h, q, c, s, y) => Running(host', q, c, s, y)
  BY <1>1, SentKept
<1>3. Settings' = Settings /\ dev' = dev /\ link' = link
  BY DEF Settings
<1>4. Down(h, toHost', toDevice') => Down(host', toHost', toDevice')
  BY <1>2 DEF Down
<1>5. Attached(host, toHost, toDevice)'
  BY <1>1, <1>2, <1>3, <1>4 DEF Attached
<1> QED BY <1>2, <1>3, <1>5 DEF Linked

\* Nothing is written without a link.
LEMMA EmptyPipe ==
  ASSUME NEW h, Full(h), h.sent = <<>>
  PROVE  Pipe(<<>>, h) = <<>> /\ (IsSeq(toDevice) => Pipe(toDevice, h) = toDevice)
<1>1. <<>> \o <<>> = <<>>
  OBVIOUS
<1>2. ASSUME IsSeq(toDevice) PROVE toDevice \o <<>> = toDevice
  <2>1. PICK S : toDevice \in Seq(S)
    BY <1>2 DEF IsSeq
  <2> QED BY <2>1, ConcatEmptySeq
<1> QED BY <1>1, <1>2 DEF Pipe

LEMMA DownTail ==
  ASSUME NEW q, IsSeq(q), q # <<>>, NEW h, NEW c, Down(h, q, c), NEW g,
         q[1].kind = "LOST" => g.state # "BOOTSTRAPPING"
  PROVE  Down(g, Tail(q), c)
<1> DEFINE r == Tail(q)
<1>1. /\ IsSeq(r) /\ Len(q) \in Nat \ {0} /\ Len(r) = Len(q) - 1
      /\ \A i \in 1 .. Len(r) : i + 1 \in 1 .. Len(q) /\ r[i] = q[i + 1]
  BY SeqTail
<1>2. r = <<>> => Len(q) = 1
  <2>1. r = <<>> => Len(r) = 0
    BY EmptyIsSeq
  <2> HIDE DEF r
  <2> QED BY <1>1, <2>1
<1>3. r # <<>> => Len(r) \in 1 .. Len(r) /\ Len(r) + 1 = Len(q)
  <2>1. r # <<>> => Len(r) \in Nat \ {0}
    BY <1>1, SeqTail
  <2> HIDE DEF r
  <2> QED BY <1>1, <2>1
<1> HIDE DEF r
<1>4. r # <<>> => r[Len(r)] = q[Len(q)]
  BY <1>1, <1>3
<1>5. Down(g, r, c)
  BY <1>1, <1>2, <1>4 DEF Down
<1> QED BY <1>5 DEF r

\* The parser thread takes what comes first.
LEMMA ParseLinked ==
  ASSUME DomainInv, Grounded, Linked, Parse
  PROVE  Linked'
<1> DEFINE q == toHost
           m == q[1]
           r == Tail(q)
           d == Settings
           y == dev.healthy
<1>1. /\ toHost # <<>> /\ Head(toHost) = m /\ toHost' = r /\ UNCHANGED <<link, dev>> /\ IsSeq(toHost)
      /\ Len(toHost) \in Nat \ {0}
  BY SeqTail DEF Parse, Grounded
<1>2. /\ Full(host) /\ host.sent = <<>> /\ Sound(host) /\ IsSeq(toDevice)
      /\ Pipe(toDevice, host) = toDevice /\ Attached(host, q, toDevice)
  BY EmptyPipe DEF Linked, DomainInv, Orders
<1>3. /\ Running(host, q, toDevice, d, y) => ~IsState(m)
      /\ Starting(host, q, toDevice) => m.kind = "STREAMING" /\ r = <<>> /\ toDevice = <<>>
  <2>1. Running(host, q, toDevice, d, y) => ~IsState(m)
    <3>1. 1 \in 1 .. Len(q)
      BY <1>1
    <3> QED BY <3>1 DEF Running, Wired, Clear
  <2>2. \A x : <<x>>[1] = x /\ Tail(<<x>>) = <<>>
    OBVIOUS
  <2>3. Said("STREAMING", None).kind = "STREAMING"
    BY DEF Said, Report
  <2> QED BY <2>1, <2>2, <2>3 DEF Starting
<1>4. link.up /\ link.intact => Starting(host, q, toDevice) \/ Running(host, q, toDevice, d, y)
  BY <1>2 DEF Attached
<1> HIDE DEF d, y
<1>5. PICK h : /\ Becomes(h) /\ Full(h) /\ (link.up \/ h.sent = <<>>)
               /\ m.kind = "LOST" => h.state # "BOOTSTRAPPING"
               /\ link.up /\ link.intact => Running(h, r, Pipe(toDevice, h), d, y)
  <2>1. CASE m.kind = "STREAMING"
    <3>1. PICK h \in StartBootstrap(host) : Becomes(h)
      BY <1>1, <2>1 DEF Parse
    <3>2. Full(h) /\ (link.up \/ h.sent = <<>>)
      <4>1. PICK x : x.sent = host.sent /\ (Asks(h, x, "PROTO?") \/ Stops(h, x))
        BY <1>2, StartIs
      <4> QED BY <1>2, <4>1 DEF Asks, Stops, Knows, Wrote
    <3>3. ASSUME link.up, link.intact PROVE Running(h, r, Pipe(toDevice, h), d, y)
      <4>1. r = <<>> /\ toDevice = <<>>
        BY <1>3, <1>4, <2>1, <3>3 DEF IsState
      <4>2. Running(h, <<>>, Pipe(<<>>, h), d, y)
        BY <1>2, StartRuns
      <4> QED BY <4>1, <4>2
    <3> QED BY <2>1, <3>1, <3>2, <3>3
  <2>2. CASE m.kind = "LOST"
    <3> DEFINE h == StopBootstrap(host)
    <3>1. Becomes(h)
      BY <1>1, <2>2 DEF Parse
    <3>2. Full(h) /\ h.sent = <<>> /\ h.state # "BOOTSTRAPPING"
      BY <1>2, StopIs
    <3>3. ~(link.up /\ link.intact)
      BY <1>3, <1>4, <2>2 DEF IsState
    <3> HIDE DEF h
    <3> QED BY <3>1, <3>2, <3>3
  <2>3. CASE m.kind \notin {"STREAMING", "LOST"}
    <3>1. PICK g \in Synchronize(host, m) : \E h \in Serve(g, m) : Becomes(h)
      BY <1>1, <2>3 DEF Parse
    <3>2. PICK h \in Serve(g, m) : Becomes(h)
      BY <3>1
    <3>3. Full(g) /\ (link.up \/ g.sent = host.sent)
      BY <1>2, SynchronizeMute
    <3>4. Full(h) /\ (link.up \/ h.sent = g.sent)
      BY <3>3, ServeIs DEF Mute
    <3>5. ASSUME link.up, link.intact PROVE Running(h, r, Pipe(toDevice, h), d, y)
      <4>1. Running(host, q, Pipe(toDevice, host), d, y)
        BY <1>2, <1>3, <1>4, <2>3, <3>5
      <4>2. Running(g, q, Pipe(toDevice, g), d, y)
        BY <1>1, <1>2, <4>1, SynchronizeRuns
      <4> QED BY <1>1, <1>2, <4>2, ServeRuns
    <3> QED BY <1>2, <2>3, <3>2, <3>3, <3>4, <3>5
  <2> QED BY <2>1, <2>2, <2>3
<1>6. ASSUME ~link.up PROVE Down(h, r, Pipe(toDevice, h))
  <2>1. Down(host, q, toDevice) /\ toDevice = <<>>
    BY <1>2, <1>6 DEF Attached, Down
  <2>2. Pipe(toDevice, h) = <<>>
    BY <1>5, <1>6, <2>1, EmptyPipe
  <2> QED BY <1>1, <1>5, <2>1, <2>2, DownTail
<1> QED BY <1>1, <1>5, <1>6, HostRuns DEF Linked, d, y

\* The deadline of a question, or of the next poll, has passed.
LEMMA TickLinked ==
  ASSUME DomainInv, Grounded, Linked, Tick
  PROVE  Linked'
<1> DEFINE d == Settings
           y == dev.healthy
<1>1. PICK h \in Expired(host) : Becomes(h)
  BY DEF Tick
<1>2. host.state = "BOOTSTRAPPING" /\ UNCHANGED <<toHost, link, dev>>
  BY DEF Tick, environment
<1>3. /\ Full(host) /\ host.sent = <<>> /\ Sound(host) /\ IsSeq(toDevice)
      /\ Pipe(toDevice, host) = toDevice /\ Attached(host, toHost, toDevice)
  BY EmptyPipe DEF Linked, DomainInv, Orders
<1>4. Full(h) /\ (link.up \/ h.sent = <<>>)
  BY <1>3, ExpiredMute
<1>5. ASSUME ~link.up PROVE Down(h, toHost, Pipe(toDevice, h))
  <2>1. Down(host, toHost, toDevice) /\ toDevice = <<>> /\ toHost # <<>>
    BY <1>2, <1>3, <1>5 DEF Attached, Down
  <2>2. Pipe(toDevice, h) = <<>>
    BY <1>4, <1>5, <2>1, EmptyPipe
  <2> QED BY <2>1, <2>2 DEF Down
<1>6. ASSUME link.up, link.intact PROVE Running(h, toHost, Pipe(toDevice, h), d, y)
  <2>1. Running(host, toHost, Pipe(toDevice, host), d, y)
    BY <1>2, <1>3, <1>6 DEF Attached, Starting
  <2> HIDE DEF d, y
  <2> QED BY <1>2, <1>3, <2>1, ExpiredRuns
<1> QED BY <1>1, <1>2, <1>4, <1>5, <1>6, HostRuns DEF Linked

\* The device takes a command only under a link, and never before the host has heard of it.
LEMMA CommandRuns ==
  ASSUME DomainInv, Grounded, Linked, toDevice # <<>>
  PROVE  /\ link.up /\ IsSeq(toHost) /\ Head(toDevice) = toDevice[1]
         /\ toDevice[1].kind \in Questions \cup DOMAIN Waiting
         /\ link.intact => Running(host, toHost, toDevice, Settings, dev.healthy)
<1>1. Attached(host, toHost, toDevice) /\ link.up \in BOOLEAN /\ IsSeq(toHost)
  BY DEF Linked, Grounded
<1>2. link.up /\ (link.intact => Running(host, toHost, toDevice, Settings, dev.healthy))
  BY <1>1 DEF Attached, Down, Starting
<1>3. IsSeq(toDevice) /\ \A i \in 1 .. Len(toDevice) : toDevice[i].kind \in Questions \cup DOMAIN Waiting
  BY DEF DomainInv, Orders
<1>4. Len(toDevice) \in Nat \ {0} /\ Head(toDevice) = toDevice[1]
  BY <1>3, SeqTail
<1>5. 1 \in 1 .. Len(toDevice)
  BY <1>4
<1> QED BY <1>1, <1>2, <1>3, <1>4, <1>5

LEMMA AnswersLinked ==
  ASSUME DomainInv, Grounded, Linked, DeviceAnswers
  PROVE  Linked'
<1> DEFINE k == toDevice[1].kind
           x == Said(k, Answer(k))
<1>1. /\ toDevice # <<>> /\ toDevice' = Tail(toDevice) /\ UNCHANGED <<host, link, dev>>
      /\ Head(toDevice).kind \notin DOMAIN Waiting
      /\ toHost' = Append(toHost, Said(Head(toDevice).kind, Answer(Head(toDevice).kind)))
  BY DEF DeviceAnswers, environment
<1>2. /\ link.up /\ Head(toDevice) = toDevice[1] /\ k \in Questions \cup DOMAIN Waiting
      /\ link.intact => Running(host, toHost, toDevice, Settings, dev.healthy)
  BY <1>1, CommandRuns
<1>3. k \in AllQuestions /\ k \notin DOMAIN Waiting /\ toHost' = Append(toHost, x)
  BY <1>1, <1>2, QuestionsAreAsked
<1>4. x.kind = k /\ x.value = Answer(k)
  BY DEF Said, Report
<1>5. Settings' = Settings /\ Settings = [l \in Kinds |-> dev.set[l]]
  BY <1>1 DEF Settings
<1>6. ~IsState(x) /\ ~Told(x) /\ ~Measured(toDevice[1])
  BY <1>3, <1>4 DEF IsState, Told, Measured, AllQuestions, Kinds, Waiting
<1>7. x.kind = "STATE?" => x.value = dev.healthy
  BY <1>4 DEF Answer
<1>8. \A l \in Kinds : x.kind = Asking[l] => x.value = Settings[l]
  <2>1. k = "ROWS?" => Answer(k) = Settings["rows"]
    BY <1>5 DEF Answer, Kinds
  <2>2. k = "ROWMODES?" => Answer(k) = Settings["modes"]
    BY <1>5 DEF Answer, Kinds
  <2> QED BY <1>4, <2>1, <2>2 DEF Asking, Kinds
<1>9. IsEarly(x) => IsEarly(toDevice[1])
  BY <1>4 DEF IsEarly
<1>10. IsEarly(toDevice[1]) => IsEarly(x)
  BY <1>4 DEF IsEarly
<1> HIDE DEF x, k
<1>11. link.intact => Running(host, toHost', toDevice', Settings, dev.healthy)
  BY <1>1, <1>2, <1>3, <1>6, <1>7, <1>8, <1>9, <1>10, AnswerRuns
<1> QED BY <1>1, <1>2, <1>5, <1>11 DEF Linked, Attached

LEMMA RejectsLinked ==
  ASSUME DomainInv, Grounded, Linked, DeviceRejects
  PROVE  Linked'
<1> DEFINE k == toDevice[1].kind
           x == Said(Refusal[k], None)
<1>1. /\ toDevice # <<>> /\ toDevice' = Tail(toDevice) /\ UNCHANGED <<host, link, dev>>
      /\ Head(toDevice).kind \in Kinds
      /\ toHost' = Append(toHost, Said(IF Head(toDevice).kind = "rows" THEN "ERR" ELSE "RMERR", None))
  BY DEF DeviceRejects, environment
<1>2. /\ link.up /\ Head(toDevice) = toDevice[1]
      /\ link.intact => Running(host, toHost, toDevice, Settings, dev.healthy)
  BY <1>1, CommandRuns
<1>3. k \in Kinds /\ toHost' = Append(toHost, x)
  BY <1>1, <1>2 DEF Refusal, Kinds
<1>4. x.kind = Refusal[k]
  BY DEF Said, Report
<1>5. Settings' = Settings
  BY <1>1 DEF Settings
<1>6. /\ x.kind \in {"ERR", "RMERR"} /\ k \notin Early
  BY <1>3, <1>4 DEF Refusal, Kinds, Early
<1>7. /\ ~IsState(x) /\ x.kind # "STATE?" /\ (\A l \in Kinds : x.kind # Asking[l])
      /\ ~IsEarly(x) /\ ~IsEarly(toDevice[1])
  BY <1>6 DEF IsState, Asking, IsEarly, Early, Kinds
<1>8. \E l \in Kinds : toDevice[1].kind = l /\ x.kind = Refusal[l]
  BY <1>3, <1>4
<1> HIDE DEF x, k
<1>9. link.intact => Running(host, toHost', toDevice', Settings, dev.healthy)
  BY <1>1, <1>2, <1>3, <1>7, <1>8, AnswerRuns
<1> QED BY <1>1, <1>2, <1>5, <1>9 DEF Linked, Attached

\* The reports of a transaction.
LEMMA Announcements ==
  ASSUME NEW q, IsSeq(q), NEW x
  PROVE  /\ q \o <<x>> = Append(q, x)
         /\ \A y : q \o <<x, y>> = Append(Append(q, x), y)
<1>1. ASSUME NEW y PROVE q \o <<x, y>> = Append(Append(q, x), y) /\ q \o <<x>> = Append(q, x)
  <2>1. PICK S : q \in Seq(S)
    BY DEF IsSeq
  <2> DEFINE T == S \cup {x, y}
  <2>2. q \in Seq(T) /\ x \in T /\ y \in T /\ <<x>> \in Seq(T) /\ <<y>> \in Seq(T)
    BY <2>1, SeqMonotonic
  <2>3. <<x, y>> = <<x>> \o <<y>>
    <3> DEFINE z == <<x>> \o <<y>>
    <3>1. Len(<<x>>) = 1 /\ <<x>>[1] = x /\ Len(<<y>>) = 1 /\ <<y>>[1] = y
      OBVIOUS
    <3>2. z \in Seq(T) /\ Len(z) = 2 /\ z[1] = x /\ z[2] = y
      BY <2>2, <3>1, ConcatProperties
    <3>3. <<x, y>> \in Seq(T) /\ Len(<<x, y>>) = 2 /\ <<x, y>>[1] = x /\ <<x, y>>[2] = y
      BY <2>2
    <3>4. \A i \in 1 .. 2 : i = 1 \/ i = 2
      OBVIOUS
    <3> HIDE DEF z, T
    <3>5. <<x, y>> = z
      BY <3>2, <3>3, <3>4, SeqEqual
    <3> QED BY <3>5 DEF z
  <2> HIDE DEF T
  <2>4. Append(q, x) = q \o <<x>> /\ Append(q, x) \in Seq(T)
    BY <2>2, AppendIsConcat, ConcatProperties
  <2>5. Append(Append(q, x), y) = (q \o <<x>>) \o <<y>>
    BY <2>2, <2>4, AppendIsConcat
  <2>6. (q \o <<x>>) \o <<y>> = q \o (<<x>> \o <<y>>)
    BY <2>2, ConcatAssociative
  <2> QED BY <2>3, <2>4, <2>5, <2>6
<1> QED BY <1>1

LEMMA AppliesLinked ==
  ASSUME DomainInv, Grounded, Linked, DeviceApplies
  PROVE  Linked'
<1> DEFINE c == toDevice[1]
           k == toDevice[1].kind
           v == toDevice[1].value
           id == dev.txn + 1
           old == dev.set[k]
           a == Report(Opening[k], v, id, old)
           b == Report(Closing[k], v, id, old)
           u == Said("USBSTREAM?", v)
<1>1. /\ toDevice # <<>> /\ toDevice' = Tail(toDevice) /\ UNCHANGED <<host, link>>
      /\ Head(toDevice).kind \in DOMAIN Waiting
      /\ toHost' = toHost \o Transaction(Head(toDevice).kind, Head(toDevice).value)
      /\ dev' = [dev EXCEPT !.set[Head(toDevice).kind] = Head(toDevice).value,
                            !.txn = IF Head(toDevice).kind = "usb" THEN @ ELSE @ + 1]
  BY DEF DeviceApplies
<1>2. /\ link.up /\ Head(toDevice) = c /\ IsSeq(toHost)
      /\ link.intact => Running(host, toHost, toDevice, Settings, dev.healthy)
  BY <1>1, CommandRuns
<1>3. k \in {"rows", "modes", "usb"} /\ toHost' = toHost \o Transaction(k, v)
  BY <1>1, <1>2 DEF Waiting
<1>4. "set" \in DOMAIN dev /\ DOMAIN dev.set = {"rows", "modes", "usb"} /\ "healthy" \in DOMAIN dev
  BY DEF Grounded, Linked
<1>5. /\ dev'.set = [dev.set EXCEPT ![k] = v] /\ "healthy" \in DOMAIN dev' /\ dev'.healthy = dev.healthy
  BY <1>1, <1>2, <1>4
<1>6. dev'.set[k] = v /\ \A l \in Kinds : l # k => dev'.set[l] = dev.set[l]
  BY <1>3, <1>4, <1>5 DEF Kinds
<1>7. /\ \A l \in Kinds : Settings[l] = dev.set[l]
      /\ \A l \in Kinds : Settings'[l] = dev'.set[l]
  BY DEF Settings
<1>8. k \in Kinds => toHost' = Append(Append(toHost, a), b)
  <2>1. k \in Kinds => Transaction(k, v) = <<a, b>>
    BY DEF Transaction, Kinds, Opening, Closing
  <2> HIDE DEF a, b
  <2>2. toHost \o <<a, b>> = Append(Append(toHost, a), b)
    BY <1>2, Announcements
  <2> QED BY <1>3, <2>1, <2>2
<1>9. k \notin Kinds => toHost' = Append(toHost, u)
  <2>1. k \notin Kinds => Transaction(k, v) = <<u>>
    BY <1>3 DEF Transaction, Kinds
  <2> HIDE DEF u
  <2>2. toHost \o <<u>> = Append(toHost, u)
    BY <1>2, Announcements
  <2> QED BY <1>3, <2>1, <2>2
<1>10. /\ a.kind = Opening[k] /\ b.kind = Closing[k] /\ a.id = b.id /\ a.value = v /\ b.value = v
       /\ u.kind = "USBSTREAM?"
  BY DEF Report, Said
<1>11. k \notin Kinds => Settings' = Settings
  BY <1>6 DEF Settings
<1> HIDE DEF a, b, u
<1>12. ASSUME link.intact PROVE Running(host, toHost', toDevice', Settings', dev.healthy)
  <2>1. Running(host, toHost, toDevice, Settings, dev.healthy)
    BY <1>2, <1>12
  <2>2. CASE k \in Kinds
    <3> DEFINE d == Settings
               e == Settings'
    <3>1. e[k] = c.value /\ \A l \in Kinds : l # k => e[l] = d[l]
      BY <1>6, <1>7, <2>2
    <3> HIDE DEF d, e
    <3>2. Running(host, Append(Append(toHost, a), b), Tail(toDevice), e, dev.healthy)
      BY <1>1, <1>10, <2>1, <2>2, <3>1, CarriedRuns DEF d
    <3> QED BY <1>1, <1>8, <2>2, <3>2 DEF e
  <2>3. CASE k \notin Kinds
    <3>1. k = "usb"
      BY <1>3, <2>3 DEF Kinds
    <3>2. /\ ~IsState(u) /\ u.kind # "STATE?" /\ (\A l \in Kinds : u.kind # Asking[l])
          /\ ~IsEarly(u) /\ ~IsEarly(c) /\ ~Told(u) /\ ~Measured(c)
      BY <1>10, <3>1 DEF IsState, Asking, IsEarly, Early, Kinds, Told, Measured
    <3>3. Running(host, Append(toHost, u), Tail(toDevice), Settings, dev.healthy)
      BY <1>1, <2>1, <3>2, AnswerRuns
    <3> QED BY <1>1, <1>9, <1>11, <2>3, <3>3
  <2> QED BY <2>2, <2>3
<1> QED BY <1>1, <1>2, <1>5, <1>12 DEF Linked, Attached

\* The link, and what befalls the device.
LEMMA CutLinked ==
  ASSUME Grounded, Linked, Cut
  PROVE  ~link'.up /\ \A h : Down(h, toHost', toDevice')
<1>1. IsSeq(toHost) /\ ~link'.up /\ toDevice' = <<>>
  BY DEF Grounded, Cut
<1>2. PICK n \in 0 .. Len(toHost) : toHost' = Append(SubSeq(toHost, 1, n), Said("LOST", None))
  BY DEF Cut
<1> DEFINE p == SubSeq(toHost, 1, n)
           x == Said("LOST", None)
<1>3. IsSeq(p)
  BY <1>1, SeqCut
<1>4. x.kind = "LOST" /\ toHost' = Append(p, x)
  BY <1>2 DEF Said, Report
<1> HIDE DEF p, x
<1>5. IsSeq(toHost') /\ Len(p) \in Nat /\ Len(toHost') = Len(p) + 1 /\ toHost'[Len(p) + 1] = x
  BY <1>3, <1>4, SeqExtended
<1>6. toHost' # <<>>
  BY <1>5, EmptyIsSeq
<1> QED BY <1>1, <1>4, <1>5, <1>6 DEF Down

LEMMA LinkLinked ==
  ASSUME Grounded, Linked, LinkUp => toHost = <<>>,
         DeviceReady \/ DeviceRestarts \/ LinkLost \/ LinkUp \/ Takeover
  PROVE  Linked'
<1>1. /\ Full(host) /\ "healthy" \in DOMAIN dev /\ dev.healthy \in BOOLEAN
      /\ Attached(host, toHost, toDevice) /\ "set" \in DOMAIN dev
      /\ "up" \in DOMAIN link /\ "intact" \in DOMAIN link /\ link.up \in BOOLEAN
  BY DEF Linked, Grounded
<1>2. host' = host
  BY DEF DeviceReady, DeviceRestarts, LinkLost, LinkUp, Takeover
<1>3. "healthy" \in DOMAIN dev' /\ dev'.healthy = dev.healthy
  BY <1>1 DEF DeviceReady, DeviceRestarts, LinkLost, LinkUp, Takeover
<1>4. Attached(host, toHost, toDevice)'
  <2>1. ASSUME Cut PROVE Attached(host, toHost, toDevice)'
    BY <1>2, <2>1, CutLinked DEF Attached
  <2>2. CASE DeviceReady
    <3>1. UNCHANGED <<toDevice, toHost, link>> /\ dev'.set = dev.set
      BY <1>1, <2>2 DEF DeviceReady
    <3>2. Settings' = Settings
      BY <3>1 DEF Settings
    <3> QED BY <1>1, <1>2, <1>3, <3>1, <3>2 DEF Attached
  <2>3. CASE ~link.up /\ UNCHANGED <<toDevice, toHost, link>>
    BY <1>1, <1>2, <2>3 DEF Attached
  <2>4. CASE LinkUp
    <3> DEFINE x == Said("STREAMING", None)
    <3>1. /\ toHost = <<>> /\ ~link.up /\ link'.up /\ toDevice' = toDevice /\ toHost' = Append(<<>>, x)
      BY <2>4 DEF LinkUp
    <3>2. toDevice = <<>> /\ host.state # "BOOTSTRAPPING"
      BY <1>1, <3>1 DEF Attached, Down
    <3>3. Append(<<>>, x) = <<x>>
      OBVIOUS
    <3>4. Starting(host', toHost', toDevice')
      BY <1>2, <3>1, <3>2, <3>3 DEF Starting
    <3> QED BY <3>1, <3>4 DEF Attached
  <2>5. CASE DeviceRestarts
    <3>1. CASE link' = [link EXCEPT !.intact = FALSE] /\ link.up
      BY <1>1, <3>1 DEF Attached
    <3> QED BY <2>1, <2>3, <2>5, <3>1 DEF DeviceRestarts
  <2> QED BY <2>1, <2>2, <2>3, <2>4, <2>5 DEF LinkLost, Takeover
<1> QED BY <1>1, <1>2, <1>3, <1>4 DEF Linked

LEMMA LinkKept ==
  ASSUME BootInv, DomainInv, RestoreInv, LinkInv, [Next]_vars, [LinkUp => toHost = <<>>]_vars
  PROVE  LinkInv'
<1> SUFFICES ASSUME Unasked' PROVE Linked'
  BY DEF LinkInv
<1>1. Unasked /\ ~ApplyProfile /\ ~RequestRows
  BY RequestsKept
<1>2. ~ApiDecide /\ ~ApiCarry
  BY <1>1 DEF BootInv, Safe, ApiDecide, ApiCarry
<1>3. Grounded /\ Linked
  BY <1>1 DEF RestoreInv, LinkInv
<1>4. CASE UNCHANGED vars
  <2>1. UNCHANGED <<host, toHost, toDevice, link, dev>> /\ Settings' = Settings
    BY <1>4 DEF vars, Settings
  <2> QED BY <1>3, <2>1 DEF Linked, Attached
<1>5. CASE DeviceReady \/ DeviceRestarts \/ LinkLost \/ LinkUp \/ Takeover
  <2>1. LinkUp => toHost = <<>>
    <3>1. LinkUp => toHost' = Append(toHost, Said("STREAMING", None)) /\ IsSeq(toHost)
      BY <1>3 DEF LinkUp, Grounded
    <3>2. LinkUp => toHost' # toHost
      BY <3>1, SeqExtended
    <3> QED BY <3>2 DEF vars
  <2> QED BY <1>3, <1>5, <2>1, LinkLinked
<1> QED BY <1>1, <1>2, <1>3, <1>4, <1>5, ParseLinked, TickLinked, AnswersLinked, AppliesLinked, RejectsLinked
        DEF Next, Api, Device

LEMMA InitLink == Init => LinkInv
<1> SUFFICES ASSUME Init PROVE Linked
  BY DEF LinkInv
<1>1. /\ toHost = <<>> /\ toDevice = <<>> /\ link.up = FALSE
      /\ "healthy" \in DOMAIN dev /\ dev.healthy \in BOOLEAN
      /\ host.state = "IDLE" /\ host.sent = <<>>
  BY DEF Init
<1>2. Full(host)
  <2>1. PICK w \in Wants, r \in BOOLEAN :
          host = [state |-> "IDLE", ask |-> None, retries |-> 0, waiting |-> FALSE, polls |-> 0,
                  usbRead |-> None, bootId |-> None, bootChanged |-> FALSE, seen |-> {},
                  known |-> FALSE, active |-> [rows |-> Default.rows, modes |-> Default.modes],
                  pending |-> [k \in Kinds |-> None], req |-> [k \in Kinds |-> None],
                  usb |-> None, want |-> w, resume |-> r,
                  pref |-> "IDLE", target |-> None, restore |-> FALSE, sent |-> <<>>]
    BY DEF Init
  <2> DEFINE a == [rows |-> Default.rows, modes |-> Default.modes]
  <2>2. DOMAIN a = Kinds /\ a = [k \in Kinds |-> a[k]]
    BY DEF Kinds
  <2> HIDE DEF a
  <2>3. host.active = a
    BY <2>1 DEF a
  <2>4. /\ "state" \in DOMAIN host /\ "ask" \in DOMAIN host /\ "seen" \in DOMAIN host
        /\ "known" \in DOMAIN host /\ "want" \in DOMAIN host /\ "pref" \in DOMAIN host
        /\ "sent" \in DOMAIN host /\ "active" \in DOMAIN host /\ "pending" \in DOMAIN host
        /\ "req" \in DOMAIN host /\ DOMAIN host.pending = Kinds /\ DOMAIN host.req = Kinds
    BY <2>1
  <2>5. /\ Kinds \subseteq DOMAIN host.pending /\ Kinds \subseteq DOMAIN host.req
    BY <2>4
  <2> QED BY <1>1, <2>2, <2>3, <2>4, <2>5, EmptyIsSeq DEF Full
<1>3. Down(host, toHost, toDevice)
  BY <1>1, EmptyIsSeq DEF Down
<1> QED BY <1>1, <1>2, <1>3 DEF Linked, Attached

\* In silence, what the host has read is what the device has.
LEMMA LinkInvImplies ==
  ASSUME DomainInv, DisplayInv, LinkInv
  PROVE  KnowsTheDevice
<1> SUFFICES ASSUME Quiet, Unasked, host.state = "SYNCED"
             PROVE  /\ host.known = dev.healthy /\ host.bootId = dev.boot
                    /\ host.active = [k \in Kinds |-> dev.set[k]]
  BY DEF KnowsTheDevice
<1>1. link.up /\ link.intact /\ toHost = <<>> /\ Len(toHost) = 0
  BY EmptyIsSeq DEF Quiet
<1>2. Linked
  BY DEF LinkInv
<1>3. Running(host, <<>>, toDevice, Settings, dev.healthy) /\ dev.healthy \in BOOLEAN
  <2>1. <<>> # <<Said("STREAMING", None)>>
    <3>1. \A x : <<>> # <<x>>
      OBVIOUS
    <3> QED BY <3>1
  <2> QED BY <1>1, <1>2, <2>1 DEF Linked, Attached, Starting
<1>4. ~ \E i \in 1 .. Len(<<>>) : TRUE
  BY EmptyIsSeq
<1>5. /\ host.known = (host.seen = Readable)
      /\ \A k \in Readable : k \in host.seen \/ (k = "mode" /\ ~dev.healthy)
      /\ "mode" \in host.seen => dev.healthy
  BY <1>3, <1>4 DEF Running, Wired, Learned, Passed
<1>6. host.seen \subseteq Readable /\ "mode" \in Readable /\ Kinds \subseteq Readable /\ "mode" \notin Kinds
  BY DEF DomainInv, Sound, Readable, Kinds
<1>7. host.known = dev.healthy
  <2>1. dev.healthy => host.seen = Readable
    BY <1>5, <1>6
  <2>2. ~dev.healthy => host.seen # Readable
    BY <1>5, <1>6
  <2> QED BY <1>3, <1>5, <2>1, <2>2
<1>8. host.active = [k \in Kinds |-> dev.set[k]]
  <2>1. \A k \in Kinds : host.active[k] = Settings[k]
    BY <1>3, <1>4, <1>5, <1>6 DEF Running, Wired, Shows
  <2>2. \A k \in Kinds : Settings[k] = dev.set[k]
    BY DEF Settings
  <2>3. host.active = [k \in Kinds |-> host.active[k]]
    BY <1>2 DEF Linked, Full
  <2> QED BY <2>1, <2>2, <2>3
<1>9. host.bootId = dev.boot
  <2>1. UpToDate
    <3>1. DOMAIN toHost = {}
      BY <1>1
    <3> QED BY <1>1, <3>1 DEF UpToDate
  <2> QED BY <2>1, DisplayInvImplies DEF KnowsTheBoot
<1> QED BY <1>7, <1>8, <1>9

\* When a link has fallen silent after a bootstrap, the host knows the device: the boot,
\* the rows and the profile it shows are the device's, and it takes what it has read for
\* complete exactly if the device measures.  Answers to repeated questions may have come
\* late, transactions may have crossed the read-back or outlived the link they were
\* started on, and others may have changed the device in between; a link is only assumed
\* not to come up before what is left of the one before has been handled.
THEOREM DeviceIsKnown == Spec /\ Drained => []KnowsTheDevice
<1> DEFINE Inv == BootInv /\ DomainInv /\ DisplayInv /\ RestoreInv /\ LinkInv
<1>1. Init => Inv
  BY InitBoot, InitDomain, InitDisplay, InitRestore, InitLink
<1>2. ASSUME Inv, [Next]_vars, [LinkUp => toHost = <<>>]_vars
      PROVE  Inv'
  <2>1. BootInv'
    BY <1>2, BootKept
  <2>2. DomainInv' /\ DisplayInv'
    BY <1>2, DomainKept, DisplayKept
  <2>3. RestoreInv'
    BY <1>2, RestoreKept
  <2>4. LinkInv'
    BY <1>2, LinkKept
  <2> QED BY <2>1, <2>2, <2>3, <2>4
<1>3. Inv => KnowsTheDevice
  BY LinkInvImplies
<1> HIDE DEF Inv
<1> QED BY <1>1, <1>2, <1>3, PTL DEF Spec, Drained
=============================================================================
