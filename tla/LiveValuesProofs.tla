--------------------------- MODULE LiveValuesProofs ---------------------------
(***************************************************************************)
(* Theorems about LiveValues, for every set of boards and every bound: the *)
(* types of its state, that a value shown as fresh is one of the link and  *)
(* the board on display, and that a baseline sampled on this link and boot *)
(* is one of the configuration applied.                                    *)
(*                                                                         *)
(* The last two rest on the order in which the lines of the link reach the *)
(* parser: the input queue leads in order from the connection that the     *)
(* parser knows of to the one that is up, each line behind the event that  *)
(* announces its connection (Ordered), and the boots that its lines name   *)
(* ascend (Trail).                                                         *)
(***************************************************************************)
EXTENDS LiveValues, SequenceTheorems, TLAPS

Boots == 1 .. MaxEvents + 1
MaybeBoot == Boots \cup {None}
MaybeDevice == Devices \cup {None}
MaybeReading == Readings \cup {None}
MaybeCapture == Captures \cup {None}
Snaps == [session : 1 .. MaxSessions, id : 0 .. MaxChanges]
MaybeSnap == Snaps \cup {None}
Items == Lines \cup States

BoardType == [boot : Boots, config : Configs]
UsedType == [requests : Nat, lines : Nat, events : 0 .. MaxEvents, changes : 0 .. MaxChanges]
LinkType == [session : 0 .. MaxSessions, dev : MaybeDevice, conn : 0 .. MaxConns, up : BOOLEAN]
ApiType == [op : {"idle", "link", "capture", "cancel", "reset"},
            step : {"", "invalidate", "begin", "switch", "make", "drop"},
            dev : MaybeDevice, snap : MaybeSnap]
ParserType == [at : {"loop", "taken", "look", "finish"}, line : Lines \cup {NoLine},
               done : MaybeCapture, locked : BOOLEAN]
CommandsType == [session : 0 .. MaxSessions, conn : 0 .. MaxConns, boot : MaybeBoot]
StoreType == [resync : BOOLEAN, applied : Configs, latest : MaybeSnap]
Measured == [value : Readings, boot : Boots]
TeleType == [identity : MaybeDevice, boot : MaybeBoot, latest : MaybeReading,
             good : MaybeReading, previous : Measured \cup {None}, stale : BOOLEAN,
             rail : MaybeReading, railStale : BOOLEAN]

DeviceTyped ==
  /\ dev \in [Devices -> BoardType] /\ used \in UsedType
  /\ \A d \in Devices : dev[d].boot <= used.events + 1 /\ dev[d].config.id <= used.changes
  /\ link \in LinkType
  /\ link.dev # None => link.session > 0
  /\ link.up => link.dev # None /\ link.conn > 0
\* A frame measures CAP, and telemetry says what it reports.
Proper(line) ==
  /\ line.kind = "frame" => line.config.cap
  /\ line.kind \in {"battery", "rail"} => line.what # ""
QueueTyped ==
  /\ queue \in Seq(Items) /\ mix \in Mixes
  /\ \A i \in DOMAIN queue : ~IsState(queue[i]) => Proper(queue[i])
ApiTyped == api \in ApiType /\ (api.op = "link" => link.session < MaxSessions)
ParserTyped ==
  /\ parser \in ParserType
  /\ parser.at = "taken" => parser.line \in Lines /\ Proper(parser.line)
  /\ parser.at # "finish" => parser.done = None
  /\ parser.at = "finish" => parser.done \in Captures /\ (parser.done.due \/ parser.done.cancelled)
HostTyped == commands \in CommandsType /\ store \in StoreType /\ tele \in TeleType
BaselineTyped ==
  /\ capture \in MaybeCapture /\ baseline \in MaybeCapture
  /\ baseline # None => baseline.samples # {} /\ (baseline.due \/ baseline.cancelled)

\* The types of the state in full.
Typed == DeviceTyped /\ QueueTyped /\ ApiTyped /\ ParserTyped /\ HostTyped /\ BaselineTyped

-----------------------------------------------------------------------------
(* The order of what is on its way                                          *)

NoLater(a, b) == a.session < b.session \/ (a.session = b.session /\ a.conn <= b.conn)
SamePlace(a, b) == a.session = b.session /\ a.conn = b.conn
\* Where a line or an event comes from.
Place(e) == [session |-> IF IsState(e) THEN e.session ELSE e.from.session,
             conn |-> IF IsState(e) THEN e.conn ELSE e.from.conn]

\* Along the queue q, from where the parser is (c) to the link (l).
InOrder(q, c, l) ==
  /\ NoLater(c, l)
  /\ \A i \in DOMAIN q : NoLater(c, Place(q[i])) /\ NoLater(Place(q[i]), l)
  /\ \A i, j \in DOMAIN q : i < j => NoLater(Place(q[i]), Place(q[j]))

\* p is where the parser will be when it has taken the first n items.
Announced(q, c, p, n) ==
  SamePlace(p, c) \/ \E j \in 1 .. n : q[j].kind = "up" /\ SamePlace(p, q[j])
AllAnnounced(q, c, l) ==
  /\ \A i \in DOMAIN q : q[i].kind # "up" => Announced(q, c, Place(q[i]), i - 1)
  /\ l.up => Announced(q, c, l, Len(q))

\* A connection of the session s that item i opens is the first of the session, or
\* behind the end of the one before it; if that is gone, nothing is fresh (calm).
MayOpen(q, c, calm, i, s) ==
  IF i = 1 THEN c.session < s \/ calm
           ELSE Place(q[i-1]).session < s \/ q[i-1].kind = "down"
AllMayOpen(q, c, l, calm) ==
  /\ \A i \in DOMAIN q : q[i].kind = "up" => MayOpen(q, c, calm, i, q[i].session)
  /\ ~l.up => MayOpen(q, c, calm, Len(q) + 1, l.session)

Calm(t) == ~BatteryFresh(t) /\ ~RailFresh(t)
Settled == Calm(tele) /\ parser.at # "taken"

Ordered ==
  /\ InOrder(queue, commands, link)
  /\ AllAnnounced(queue, commands, link)
  /\ AllMayOpen(queue, commands, link, Settled)
  /\ parser.at = "taken" => OfKnownLink(parser.line)

\* An origin in the past of the link l and of the boards b.
Traced(b, l, o) ==
  /\ o.boot <= b[o.dev].boot /\ NoLater(o, l)
  /\ o.session = l.session => o.dev = l.dev

Fresh ==
  /\ BatteryFresh(tele) => OfKnownLink(tele.latest) /\ Traced(dev, link, tele.latest.from)
  /\ RailFresh(tele) => OfKnownLink(tele.rail) /\ Traced(dev, link, tele.rail.from)

-----------------------------------------------------------------------------
(* The boots that the lines name                                            *)

Evolves(o, n) == NoLater(o, n) /\ (o.session = n.session => o.dev = n.dev /\ o.boot <= n.boot)
\* What was measured at o was so before any line of q.
Ahead(b, l, q, o) ==
  Traced(b, l, o) /\ \A i \in DOMAIN q : ~IsState(q[i]) => Evolves(o, q[i].from)

Trailed(b, l, q) ==
  /\ \A i \in DOMAIN q : ~IsState(q[i]) => Traced(b, l, q[i].from)
  /\ \A i, j \in DOMAIN q :
       i < j /\ ~IsState(q[i]) /\ ~IsState(q[j]) => Evolves(q[i].from, q[j].from)

Trail ==
  /\ Trailed(dev, link, queue)
  /\ parser.at = "taken" => Ahead(dev, link, queue, parser.line.from)

\* A sample of the link c and the boot that the parser knows of, if they are current.
Current(b, c, y) ==
  SamePlace(y.from, c) /\ y.from.boot = b[y.from.dev].boot /\ y.known = y.from.boot

\* The configuration applied is the one of the capture, and the boot is known.
Matched(y, id) ==
  ~store.resync /\ store.applied = [cap |-> TRUE, id |-> id] /\ commands.boot = y.known

SampleFits(y, id) ==
  /\ Ahead(dev, link, queue, y.from) /\ NoLater(y.from, commands)
  /\ parser.at = "taken" => Evolves(y.from, parser.line.from)
  /\ Current(dev, commands, y) => Matched(y, id)

SamplesFit(x) == x # None => \A y \in x.samples : SampleFits(y, x.id)
Sampling == SamplesFit(capture) /\ SamplesFit(parser.done) /\ SamplesFit(baseline)

-----------------------------------------------------------------------------
(* Types                                                                    *)

LEMMA Bounds ==
  /\ MaxSessions \in Nat /\ MaxConns \in Nat /\ MaxEvents \in Nat /\ MaxChanges \in Nat
  /\ Boots \subseteq Nat /\ 1 \in Boots
  BY BoundsAssumption DEF Boots

LEMMA NoneApart == None \notin Devices /\ None \notin Int /\ None \notin Boots
  BY DevicesAssumption, Bounds DEF Boots

LEMMA LineFields ==
  ASSUME NEW l \in Lines
  PROVE  /\ ~IsState(l) /\ l.from \in Epochs /\ l.config \in Configs
         /\ l.what \in BatteryLines \cup RailLines \cup {""}
         /\ l.kind \in {"battery", "rail", "frame", "boot", "state", "rows", "mode"}
         /\ l.from.dev \in Devices /\ l.from.boot \in Boots
         /\ l.from.session \in 1 .. MaxSessions /\ l.from.conn \in 1 .. MaxConns
  BY DEF Lines, IsState, Epochs, Boots

LEMMA StateFields ==
  ASSUME NEW e \in States
  PROVE  /\ IsState(e) /\ e.kind \in {"up", "down"}
         /\ e.session \in 1 .. MaxSessions /\ e.conn \in 1 .. MaxConns
  BY DEF States, IsState

LEMMA PlaceFields ==
  ASSUME NEW e \in Items
  PROVE  /\ Place(e).session \in Nat /\ Place(e).conn \in Nat
         /\ IsState(e) => e \in States /\ Place(e).session = e.session /\ Place(e).conn = e.conn
         /\ ~IsState(e) => e \in Lines /\ Place(e).session = e.from.session
                                       /\ Place(e).conn = e.from.conn
<1>1. CASE e \in Lines
  <2>1. /\ ~IsState(e)
        /\ e.from.session \in 1 .. MaxSessions /\ e.from.conn \in 1 .. MaxConns
    BY <1>1, LineFields
  <2>2. e.from.session \in Nat /\ e.from.conn \in Nat
    BY <2>1, Bounds
  <2> QED BY <1>1, <2>1, <2>2 DEF Place
<1>2. CASE e \in States
  <2>1. IsState(e) /\ e.session \in Nat /\ e.conn \in Nat
    BY <1>2, StateFields, Bounds
  <2> QED BY <1>2, <2>1 DEF Place
<1> QED
  BY <1>1, <1>2 DEF Items

LEMMA LinkFields ==
  ASSUME DeviceTyped
  PROVE  /\ link.session \in 0 .. MaxSessions /\ link.session \in Nat
         /\ link.dev \in MaybeDevice /\ link.up \in BOOLEAN
         /\ link.conn \in 0 .. MaxConns /\ link.conn \in Nat
  BY Bounds DEF DeviceTyped, LinkType

LEMMA DeviceFields ==
  ASSUME DeviceTyped, NEW d \in Devices
  PROVE  /\ dev[d] \in BoardType /\ dev[d].boot \in Boots /\ dev[d].config \in Configs
         /\ dev[d].config.cap \in BOOLEAN /\ dev[d].config.id \in 0 .. MaxChanges
         /\ used.events \in 0 .. MaxEvents /\ used.changes \in 0 .. MaxChanges
         /\ dev[d].boot <= used.events + 1 /\ dev[d].config.id <= used.changes
  BY DEF DeviceTyped, BoardType, Configs, UsedType

-----------------------------------------------------------------------------
(* What the devices do                                                      *)

\* A line of the link on display.
Sent(l) == l \in Lines /\ l.from = Origin /\ Proper(l)

LEMMA OriginFields ==
  ASSUME DeviceTyped, link.up
  PROVE  /\ link.dev \in Devices /\ Origin \in Epochs
         /\ Origin.dev = link.dev /\ Origin.boot = dev[link.dev].boot
         /\ Origin.session = link.session /\ Origin.conn = link.conn
<1>1. link.dev \in Devices /\ link.session > 0 /\ link.conn > 0
  BY LinkFields DEF DeviceTyped, MaybeDevice
<1> QED
  BY <1>1, LinkFields, DeviceFields, Bounds DEF Origin, Epochs, Boots

LEMMA LineOfIs ==
  ASSUME DeviceTyped, link.up,
         NEW k \in {"battery", "rail", "frame", "boot", "state", "rows", "mode"},
         NEW w \in BatteryLines \cup RailLines \cup {""}
  PROVE  /\ LineOf(k, w) \in Lines /\ LineOf(k, w).from = Origin /\ LineOf(k, w).kind = k
         /\ LineOf(k, w).what = w /\ LineOf(k, w).config = dev[link.dev].config
<1>1. Origin \in Epochs /\ dev[link.dev].config \in Configs
  BY OriginFields, DeviceFields
<1> QED
  BY <1>1 DEF LineOf, Lines

\* A line is queued, and only the configuration of the board may change.
Sends ==
  /\ link.up /\ dev' \in [Devices -> BoardType] /\ used' \in UsedType
  /\ \A d \in Devices : dev'[d].boot = dev[d].boot /\ dev'[d].config.id <= used'.changes
  /\ used'.events = used.events
  /\ queue' = queue \/ \E l \in Lines : Sent(l) /\ queue' = Append(queue, l)
  /\ UNCHANGED <<link, mix, api, parser, commands, store, tele, capture, baseline>>

LEMMA SendIs == ASSUME DeviceTyped, Send PROVE Sends
<1>1. /\ link.up /\ used' = [used EXCEPT !.lines = @ + 1]
      /\ UNCHANGED <<dev, link, mix, api, parser, commands, store, tele, capture, baseline>>
  BY DEF Send
<1>2. used' \in UsedType /\ used'.events = used.events /\ used'.changes = used.changes
  BY <1>1 DEF DeviceTyped, UsedType
<1>4. \E l \in Lines : Sent(l) /\ queue' = Append(queue, l)
  <2>1. CASE \E what \in BatteryLines : Put(LineOf("battery", what))
    <3> PICK what \in BatteryLines : Put(LineOf("battery", what))
      BY <2>1
    <3>1. Sent(LineOf("battery", what))
      BY <1>1, LineOfIs DEF Sent, Proper, BatteryLines
    <3> QED BY <3>1 DEF Put, Sent
  <2>2. CASE \E what \in RailLines : Put(LineOf("rail", what))
    <3> PICK what \in RailLines : Put(LineOf("rail", what))
      BY <2>2
    <3>1. Sent(LineOf("rail", what))
      BY <1>1, LineOfIs DEF Sent, Proper, RailLines
    <3> QED BY <3>1 DEF Put, Sent
  <2>3. CASE dev[link.dev].config.cap /\ Put(LineOf("frame", ""))
    <3>1. Sent(LineOf("frame", ""))
      <4> DEFINE l == LineOf("frame", "")
      <4>1. l \in Lines /\ l.from = Origin /\ l.config = dev[link.dev].config
        BY <1>1, LineOfIs
      <4>2. l.kind = "frame"
        BY DEF LineOf
      <4>3. l.config.cap
        BY <2>3, <4>1
      <4> QED BY <4>1, <4>2, <4>3 DEF Sent, Proper
    <3> QED BY <2>3, <3>1 DEF Put, Sent
  <2> QED
    BY <2>1, <2>2, <2>3 DEF Send
<1> QED
  BY <1>1, <1>2, <1>4, DeviceFields DEF Sends, DeviceTyped

LEMMA AnswerIs == ASSUME DeviceTyped, Answer PROVE Sends
<1>1. /\ link.up
      /\ UNCHANGED <<dev, link, mix, used, api, parser, commands, store, tele, capture, baseline>>
      /\ Put(LineOf("boot", "")) \/ Put(LineOf("state", ""))
  BY DEF Answer
<1>3. Sent(LineOf("boot", "")) /\ Sent(LineOf("state", ""))
  BY <1>1, LineOfIs DEF Sent, Proper
<1>4. \E l \in Lines : Sent(l) /\ queue' = Append(queue, l)
  BY <1>1, <1>3 DEF Put, Sent
<1> QED
  BY <1>1, <1>4, DeviceFields DEF Sends, DeviceTyped

LEMMA ChangeIs == ASSUME DeviceTyped, Change PROVE Sends
<1>1. /\ link.up /\ used.changes < MaxChanges /\ used' = [used EXCEPT !.changes = @ + 1]
      /\ UNCHANGED <<link, mix, api, parser, commands, store, tele, capture, baseline>>
  BY DEF Change
<1>2. PICK what \in {"rows", "mode"}, reported \in BOOLEAN :
        /\ dev' = [dev EXCEPT ![link.dev].config = Changed(@, what)]
        /\ IF reported THEN Put([LineOf(what, "") EXCEPT !.config = dev'[link.dev].config])
                       ELSE UNCHANGED queue
  BY DEF Change
<1>3. link.dev \in Devices
  BY <1>1, OriginFields
<1> DEFINE c == dev[link.dev].config
           new == Changed(c, what)
<1>4. /\ used' \in UsedType /\ used'.events = used.events /\ used'.changes = used.changes + 1
      /\ used.changes \in Nat
  BY <1>1, Bounds DEF DeviceTyped, UsedType
<1>5. new \in Configs /\ new.id <= used.changes + 1
  <2>1. c \in Configs /\ c.id <= used.changes /\ c.id \in Nat /\ c.cap \in BOOLEAN
    BY <1>3, DeviceFields
  <2> HIDE DEF c
  <2>2. CASE what = "rows"
    <3>1. new = [c EXCEPT !.id = @ + 1]
      BY <2>2 DEF Changed
    <3> QED BY <1>1, <1>4, <2>1, <3>1, Bounds DEF Configs
  <2>3. CASE what # "rows"
    <3> DEFINE b == ~c.cap
    <3>1. new = [c EXCEPT !.cap = b] /\ b \in BOOLEAN
      BY <2>3 DEF Changed
    <3> HIDE DEF b
    <3> QED BY <1>4, <2>1, <3>1 DEF Configs
  <2> QED BY <2>2, <2>3
<1>6. dev' = [dev EXCEPT ![link.dev].config = new]
  BY <1>2
<1> HIDE DEF new, c
<1>7. /\ dev' \in [Devices -> BoardType]
      /\ \A d \in Devices : dev'[d].boot = dev[d].boot
                            /\ dev'[d].config = IF d = link.dev THEN new ELSE dev[d].config
  BY <1>3, <1>5, <1>6 DEF DeviceTyped, BoardType
<1>8. \A d \in Devices : dev'[d].config.id <= used'.changes
  BY <1>4, <1>5, <1>7, DeviceFields
<1>9. queue' = queue \/ \E l \in Lines : Sent(l) /\ queue' = Append(queue, l)
  <2> DEFINE l == [LineOf(what, "") EXCEPT !.config = dev'[link.dev].config]
  <2>1. dev'[link.dev].config \in Configs
    BY <1>3, <1>5, <1>7
  <2>2. l \in Lines /\ l.from = Origin /\ l.kind = what
    <3>1. PICK d \in Configs : d = dev'[link.dev].config
      BY <2>1
    <3>2. /\ LineOf("rows", "") \in Lines /\ LineOf("rows", "").from = Origin
          /\ LineOf("rows", "").kind = "rows"
      BY <1>1, LineOfIs
    <3>3. /\ LineOf("mode", "") \in Lines /\ LineOf("mode", "").from = Origin
          /\ LineOf("mode", "").kind = "mode"
      BY <1>1, LineOfIs
    <3>4. /\ LineOf(what, "") \in Lines /\ LineOf(what, "").from = Origin
          /\ LineOf(what, "").kind = what
      <4>1. CASE what = "rows"
        BY <3>2, <4>1
      <4>2. CASE what = "mode"
        BY <3>3, <4>2
      <4> QED BY <4>1, <4>2
    <3>5. PICK o \in Lines : o = LineOf(what, "")
      BY <3>4
    <3>6. /\ [o EXCEPT !.config = d] \in Lines /\ [o EXCEPT !.config = d].from = o.from
          /\ [o EXCEPT !.config = d].kind = o.kind
      BY <3>1 DEF Lines
    <3> QED BY <3>1, <3>4, <3>5, <3>6
  <2>3. Sent(l)
    BY <2>2 DEF Sent, Proper
  <2>4. queue' = queue \/ queue' = Append(queue, l)
    BY <1>2 DEF Put
  <2> HIDE DEF l
  <2> QED BY <2>2, <2>3, <2>4
<1> QED
  BY <1>1, <1>4, <1>7, <1>8, <1>9 DEF Sends

LinkOnly ==
  UNCHANGED <<dev, mix, api, parser, commands, store, tele, capture, baseline>>

LEMMA LinkUpIs ==
  ASSUME DeviceTyped, LinkUp
  PROVE  /\ LinkOnly /\ used' = used /\ ~link.up
         /\ link'.session = link.session /\ link'.dev = link.dev /\ link.dev \in Devices
         /\ link'.conn = link.conn + 1 /\ link'.up = TRUE /\ link' \in LinkType
         /\ \E e \in States : /\ e.kind = "up" /\ SamePlace(e, link') /\ queue' = Append(queue, e)
<1>1. /\ LinkOnly /\ used' = used /\ ~link.up
      /\ link.dev # None /\ link.conn < MaxConns
      /\ link' = [link EXCEPT !.up = TRUE, !.conn = @ + 1]
      /\ queue' = Append(queue, StateOf("up", link'))
  BY DEF LinkUp, LinkOnly, Put
<1>2. link \in LinkType /\ link.dev \in Devices /\ link.session \in 1 .. MaxSessions
  BY <1>1, LinkFields DEF DeviceTyped, MaybeDevice
<1>3. /\ link'.session = link.session /\ link'.dev = link.dev
      /\ link'.conn = link.conn + 1 /\ link'.up = TRUE /\ link' \in LinkType
  <2>1. PICK n \in 0 .. MaxConns : n = link.conn + 1
    BY <1>1, LinkFields, Bounds
  <2>2. link' = [link EXCEPT !.up = TRUE, !.conn = n]
    BY <1>1, <2>1
  <2>3. /\ link' \in LinkType /\ link'.session = link.session /\ link'.dev = link.dev
        /\ link'.conn = n /\ link'.up = TRUE
    BY <1>2, <2>2 DEF LinkType
  <2> QED BY <2>1, <2>3
<1>4. link'.conn \in 1 .. MaxConns
  BY <1>1, <1>3, LinkFields, Bounds
<1> DEFINE e == StateOf("up", link')
<1>5. e \in States /\ e.kind = "up" /\ SamePlace(e, link')
  BY <1>2, <1>3, <1>4 DEF StateOf, States, SamePlace
<1> HIDE DEF e
<1> QED
  BY <1>1, <1>2, <1>3, <1>5 DEF e

LEMMA LinkDownIs ==
  ASSUME DeviceTyped, LinkDown
  PROVE  /\ LinkOnly /\ used' \in UsedType /\ used'.events = used.events + 1
         /\ used'.changes = used.changes /\ link.up
         /\ link'.session = link.session /\ link'.dev = link.dev
         /\ link'.conn = link.conn /\ link'.up = FALSE /\ link' \in LinkType
         /\ \E e \in States : e.kind = "down" /\ SamePlace(e, link) /\ queue' = Append(queue, e)
<1>1. /\ LinkOnly /\ link.up /\ used.events < MaxEvents
      /\ used' = [used EXCEPT !.events = @ + 1]
      /\ link' = [link EXCEPT !.up = FALSE]
      /\ queue' = Append(queue, StateOf("down", link))
  BY DEF LinkDown, LinkOnly, Put, Happens
<1>2. /\ used' \in UsedType /\ used'.events = used.events + 1 /\ used'.changes = used.changes
  BY <1>1, Bounds DEF DeviceTyped, UsedType
<1>3. /\ link'.session = link.session /\ link'.dev = link.dev
      /\ link'.conn = link.conn /\ link'.up = FALSE /\ link' \in LinkType
  BY <1>1 DEF LinkType, DeviceTyped
<1>4. /\ link.session \in 1 .. MaxSessions /\ link.conn \in 1 .. MaxConns
  BY <1>1, LinkFields, Bounds DEF DeviceTyped
<1> DEFINE e == StateOf("down", link)
<1>5. e \in States /\ e.kind = "down" /\ SamePlace(e, link)
  BY <1>4 DEF StateOf, States, SamePlace
<1> HIDE DEF e
<1> QED
  BY <1>1, <1>2, <1>3, <1>5 DEF e

LEMMA RebootIs ==
  ASSUME DeviceTyped, Reboot
  PROVE  /\ UNCHANGED <<link, queue, mix, api, parser, commands, store, tele, capture, baseline>>
         /\ dev' \in [Devices -> BoardType]
         /\ used' \in UsedType /\ used'.changes = used.changes
         /\ \A d \in Devices : dev[d].boot <= dev'[d].boot /\ dev'[d].boot <= used'.events + 1
                               /\ dev'[d].config.id <= used'.changes
         /\ \A d \in Devices : dev'[d].boot # dev[d].boot => dev'[d].boot > dev[d].boot
<1>1. /\ link.dev # None /\ used.events < MaxEvents
      /\ used' = [used EXCEPT !.events = @ + 1]
      /\ dev' = [dev EXCEPT ![link.dev] = [boot |-> dev[link.dev].boot + 1, config |-> FirstConfig]]
      /\ UNCHANGED <<link, queue, mix, api, parser, commands, store, tele, capture, baseline>>
  BY DEF Reboot, Happens
<1>2. link.dev \in Devices /\ dev \in [Devices -> BoardType]
  BY <1>1, LinkFields DEF DeviceTyped, MaybeDevice
<1>3. /\ used' \in UsedType /\ used'.events = used.events + 1 /\ used'.changes = used.changes
      /\ used.events \in Nat /\ used.changes \in Nat
  BY <1>1, Bounds DEF DeviceTyped, UsedType
<1>4. FirstConfig \in Configs /\ FirstConfig.id = 0
  BY Bounds DEF FirstConfig, Configs
<1>5. /\ dev[link.dev].boot + 1 \in Boots /\ dev[link.dev].boot \in Nat
      /\ dev[link.dev].boot <= used.events + 1
  BY <1>1, <1>2, DeviceFields, Bounds DEF Boots
<1>6. PICK b \in BoardType : b = [boot |-> dev[link.dev].boot + 1, config |-> FirstConfig]
  BY <1>4, <1>5 DEF BoardType
<1>7. dev' = [dev EXCEPT ![link.dev] = b]
  BY <1>1, <1>6
<1>8. /\ dev' \in [Devices -> BoardType]
      /\ \A d \in Devices : d # link.dev => dev'[d] = dev[d]
      /\ dev'[link.dev] = b
  BY <1>2, <1>7
<1>9. b.boot = dev[link.dev].boot + 1 /\ b.config.id = 0
  BY <1>4, <1>6
<1> SUFFICES ASSUME NEW d \in Devices
             PROVE  /\ dev[d].boot <= dev'[d].boot /\ dev'[d].boot <= used'.events + 1
                    /\ dev'[d].config.id <= used'.changes
                    /\ dev'[d].boot # dev[d].boot => dev'[d].boot > dev[d].boot
  BY <1>1, <1>3, <1>8
<1>10. CASE d = link.dev
  BY <1>3, <1>5, <1>8, <1>9, <1>10
<1>11. CASE d # link.dev
  <2>1. dev'[d] = dev[d] /\ dev[d].boot \in Nat /\ dev[d].boot <= used.events + 1
        /\ dev[d].config.id <= used.changes
    BY <1>8, <1>11, DeviceFields, Bounds
  <2> QED BY <1>3, <2>1
<1> QED
  BY <1>10, <1>11

LEMMA SwitchIs ==
  ASSUME DeviceTyped, ApiTyped, Switch
  PROVE  /\ UNCHANGED <<dev, queue, mix, used, parser, commands, store, tele, capture, baseline>>
         /\ link' \in LinkType /\ link'.session = link.session + 1 /\ link'.conn = 0
         /\ link'.up = FALSE /\ api' = Idle
<1>1. /\ UNCHANGED <<dev, queue, mix, used, parser, commands, store, tele, capture, baseline>>
      /\ link' = [NoStatus EXCEPT !.session = link.session + 1, !.dev = api.dev]
      /\ api.op = "link" /\ api' = Idle
  BY DEF Switch, At
<1>2. link.session \in 0 .. MaxSessions /\ link.session < MaxSessions
  BY <1>1, LinkFields DEF ApiTyped
<1>3. PICK n \in 0 .. MaxSessions : n = link.session + 1
  BY <1>2, Bounds
<1>4. PICK d \in MaybeDevice : d = api.dev
  BY DEF ApiTyped, ApiType
<1>5. link' = [session |-> n, dev |-> d, conn |-> 0, up |-> FALSE]
  BY <1>1, <1>3, <1>4 DEF NoStatus
<1>6. 0 \in 0 .. MaxConns
  BY Bounds
<1>7. link' \in LinkType
  BY <1>5, <1>6 DEF LinkType
<1>8. link'.session = n /\ link'.conn = 0
  BY <1>5
<1>9. link'.up = FALSE
  BY <1>5, Zenon
<1> QED
  BY <1>1, <1>3, <1>7, <1>8, <1>9

-----------------------------------------------------------------------------
(* The telemetry                                                            *)

\* What t shows as fresh, o showed as fresh.
NothingNew(t, o) ==
  /\ BatteryFresh(t) => BatteryFresh(o) /\ t.latest = o.latest
  /\ RailFresh(t) => RailFresh(o) /\ t.rail = o.rail

LEMMA TeleFields ==
  ASSUME NEW t \in TeleType
  PROVE  /\ t.identity \in MaybeDevice /\ t.boot \in MaybeBoot /\ t.latest \in MaybeReading
         /\ t.good \in MaybeReading /\ t.rail \in MaybeReading
         /\ t.stale \in BOOLEAN /\ t.railStale \in BOOLEAN
         /\ t.previous \in Measured \cup {None}
  BY DEF TeleType

LEMMA NoTelemetryTyped == NoTelemetry \in TeleType /\ Calm(NoTelemetry)
<1>1. /\ None \in MaybeDevice /\ None \in MaybeBoot /\ None \in MaybeReading
      /\ None \in Measured \cup {None}
  BY DEF MaybeDevice, MaybeBoot, MaybeReading
<1>2. NoTelemetry \in TeleType
  BY <1>1 DEF NoTelemetry, TeleType
<1>3. NoTelemetry.latest = None /\ NoTelemetry.rail = None
  BY DEF NoTelemetry
<1> QED
  BY <1>2, <1>3 DEF Calm, BatteryFresh, RailFresh

LEMMA MarkStaleIs ==
  ASSUME NEW t \in TeleType
  PROVE  MarkStale(t) \in TeleType /\ Calm(MarkStale(t))
<1>1. MarkStale(t) \in TeleType /\ MarkStale(t).stale = TRUE /\ MarkStale(t).railStale = TRUE
  BY DEF MarkStale, TeleType
<1> QED
  BY <1>1 DEF Calm, BatteryFresh, RailFresh

LEMMA BeginDeviceIs ==
  ASSUME NEW t \in TeleType, NEW d \in Devices
  PROVE  BeginDevice(t, d) \in TeleType /\ Calm(BeginDevice(t, d))
<1>1. d \in MaybeDevice
  BY DEF MaybeDevice
<1>2. [t EXCEPT !.identity = d] \in TeleType /\ [NoTelemetry EXCEPT !.identity = d] \in TeleType
  BY <1>1, NoTelemetryTyped DEF TeleType
<1>3. CASE t.identity \in {None, d}
  BY <1>2, <1>3, MarkStaleIs DEF BeginDevice
<1>4. CASE t.identity \notin {None, d}
  BY <1>2, <1>4, MarkStaleIs DEF BeginDevice
<1> QED
  BY <1>3, <1>4

LEMMA ObserveBootIs ==
  ASSUME NEW t \in TeleType, NEW b \in Boots
  PROVE  ObserveBoot(t, b) \in TeleType /\ NothingNew(ObserveBoot(t, b), t)
<1>1. CASE t.boot \in {None, b}
  <2>1. PICK m \in MaybeBoot : m = b
    BY DEF MaybeBoot
  <2>2. ObserveBoot(t, b) = [t EXCEPT !.boot = m]
    BY <1>1, <2>1 DEF ObserveBoot
  <2> DEFINE n == [t EXCEPT !.boot = m]
  <2>3. /\ n \in TeleType /\ n.latest = t.latest /\ n.rail = t.rail /\ n.good = t.good
        /\ n.stale = t.stale /\ n.railStale = t.railStale
    BY DEF TeleType
  <2> HIDE DEF n
  <2>4. NothingNew(n, t)
    BY <2>3 DEF NothingNew, BatteryFresh, RailFresh
  <2> QED BY <2>2, <2>3, <2>4 DEF n
<1>2. CASE t.boot \notin {None, b}
  <2> DEFINE p == IF t.good = None THEN t.previous ELSE [value |-> t.good, boot |-> t.boot]
             n == [t EXCEPT !.boot = b, !.latest = None, !.good = None, !.rail = None,
                            !.previous = p]
  <2>1. p \in Measured \cup {None}
    <3>1. t.boot \in Boots
      BY <1>2, TeleFields DEF MaybeBoot
    <3>2. t.good # None => t.good \in Readings
      BY TeleFields DEF MaybeReading
    <3> QED BY <3>1, <3>2, TeleFields DEF Measured
  <2>2. ObserveBoot(t, b) = MarkStale(n)
    BY <1>2 DEF ObserveBoot
  <2> HIDE DEF p
  <2>3. b \in MaybeBoot /\ None \in MaybeReading
    BY DEF MaybeBoot, MaybeReading
  <2>4. n \in TeleType
    BY <2>1, <2>3 DEF TeleType
  <2> HIDE DEF n
  <2> QED BY <2>2, <2>4, MarkStaleIs DEF NothingNew, Calm
<1> QED
  BY <1>1, <1>2

LEMMA ReadingIs ==
  ASSUME NEW l \in Lines, Proper(l), l.kind \in {"battery", "rail"}
  PROVE  Reading(l) \in MaybeReading /\ Reading(l).from = l.from
<1>1. l.what \in BatteryLines \cup RailLines /\ l.from \in Epochs
  BY LineFields DEF Proper
<1> QED
  BY <1>1 DEF Reading, Readings, MaybeReading

\* A value that a line brings is fresh, or nothing new is.
LEMMA UpdateBatteryIs ==
  ASSUME NEW t \in TeleType, NEW l \in Lines, Proper(l), l.kind = "battery"
  PROVE  LET n == UpdateBattery(t, l) IN
         /\ n \in TeleType
         /\ NothingNew(n, t) \/ (n.latest = Reading(l) /\ (RailFresh(n) => RailFresh(t) /\ n.rail = t.rail))
<1>1. CASE OtherBoot(t)
  <2>1. UpdateBattery(t, l) = t
    BY <1>1 DEF UpdateBattery
  <2> QED BY <2>1 DEF NothingNew
<1>2. CASE ~OtherBoot(t)
  <2>1. PICK r \in MaybeReading : r = Reading(l)
    BY ReadingIs
  <2>2. LastGood(t, l) \in MaybeReading
    BY <2>1, TeleFields DEF LastGood, MaybeReading
  <2>3. PICK g \in MaybeReading : g = LastGood(t, l)
    BY <2>2
  <2> DEFINE b == t.stale /\ l.what # "good"
             n == [t EXCEPT !.latest = r, !.good = g, !.stale = b]
  <2>4. b \in BOOLEAN
    BY TeleFields
  <2>5. UpdateBattery(t, l) = n
    BY <1>2, <2>1, <2>3 DEF UpdateBattery
  <2> HIDE DEF b
  <2>6. n \in TeleType /\ n.latest = r /\ n.rail = t.rail /\ n.railStale = t.railStale
    BY <2>4 DEF TeleType
  <2> HIDE DEF n
  <2> QED BY <2>1, <2>5, <2>6 DEF RailFresh
<1> QED
  BY <1>1, <1>2

LEMMA UpdateRailIs ==
  ASSUME NEW t \in TeleType, NEW l \in Lines, Proper(l), l.kind = "rail"
  PROVE  LET n == UpdateRail(t, l) IN
         /\ n \in TeleType
         /\ NothingNew(n, t) \/ (n.rail = Reading(l) /\ (BatteryFresh(n) => BatteryFresh(t) /\ n.latest = t.latest))
<1>1. CASE OtherBoot(t)
  <2>1. UpdateRail(t, l) = t
    BY <1>1 DEF UpdateRail
  <2> QED BY <2>1 DEF NothingNew
<1>2. CASE ~OtherBoot(t)
  <2>1. PICK r \in MaybeReading : r = Reading(l)
    BY ReadingIs
  <2> DEFINE b == t.railStale /\ l.what # "fresh"
             n == [t EXCEPT !.rail = r, !.railStale = b]
  <2>4. b \in BOOLEAN
    BY TeleFields
  <2>5. UpdateRail(t, l) = n
    BY <1>2, <2>1 DEF UpdateRail
  <2> HIDE DEF b
  <2>6. n \in TeleType /\ n.rail = r /\ n.latest = t.latest /\ n.good = t.good /\ n.stale = t.stale
    BY <2>4 DEF TeleType
  <2> HIDE DEF n
  <2> QED BY <2>1, <2>5, <2>6 DEF BatteryFresh
<1> QED
  BY <1>1, <1>2

-----------------------------------------------------------------------------
(* The steps that take no line                                              *)

SameSamples(x, c) == c # None /\ x.samples = c.samples /\ x.id = c.id
Kept(x) ==
  \/ x = None \/ x.samples = {}
  \/ SameSamples(x, capture) \/ SameSamples(x, parser.done) \/ SameSamples(x, baseline)

\* No line moves, nothing is sampled, and no value becomes fresh.
Quiet ==
  /\ UNCHANGED <<dev, link, queue, mix, commands>>
  /\ used' \in UsedType /\ used'.events = used.events /\ used'.changes = used.changes
  /\ parser' = parser \/ parser'.at # "taken"
  /\ tele' = tele \/ Calm(tele')
  /\ store'.resync = store.resync /\ store'.applied = store.applied
  /\ Kept(capture') /\ Kept(parser'.done) /\ Kept(baseline')

LEMMA KeptSame == Kept(None) /\ Kept(capture) /\ Kept(parser.done) /\ Kept(baseline)
  BY DEF Kept, SameSamples

LEMMA UsedSame ==
  ASSUME DeviceTyped
  PROVE  /\ used \in UsedType /\ used.events \in Nat /\ used.changes \in Nat
         /\ [used EXCEPT !.requests = @ + 1] \in UsedType
         /\ [used EXCEPT !.requests = @ + 1].events = used.events
         /\ [used EXCEPT !.requests = @ + 1].changes = used.changes
  BY Bounds DEF DeviceTyped, UsedType

LEMMA IdleTyped == Idle \in ApiType /\ Idle.op = "idle" /\ Idle.dev = None /\ Idle.snap = None
<1>1. None \in MaybeDevice /\ None \in MaybeSnap
  BY DEF MaybeDevice, MaybeSnap
<1> QED
  BY <1>1 DEF Idle, ApiType

LEMMA CaptureFields ==
  ASSUME NEW c \in Captures
  PROVE  /\ c.session \in 1 .. MaxSessions /\ c.dev \in MaybeDevice /\ c.id \in 0 .. MaxChanges
         /\ c.cancelled \in BOOLEAN /\ c.due \in BOOLEAN /\ c.samples \in SUBSET Samples
  BY DEF Captures, MaybeDevice

\* What a step of the API may do: an idle API awaits, and nothing of it is a link.
ApiStep ==
  /\ api' \in ApiType /\ (api'.op = "link" => link.session < MaxSessions)
  /\ HostTyped' /\ BaselineTyped' /\ UNCHANGED parser

LEMMA RequestLinkIs == ASSUME Typed, RequestLink PROVE Quiet /\ ApiStep
<1>1. PICK d \in (Devices \cap mix) \cup {None} :
        api' = [Idle EXCEPT !.op = "link", !.step = "invalidate", !.dev = d]
  BY DEF RequestLink
<1>2. /\ link.session < MaxSessions
      /\ UNCHANGED <<dev, link, queue, mix, used, parser, commands, store, tele, capture, baseline>>
  BY DEF RequestLink, device
<1>3. d \in MaybeDevice
  BY DEF MaybeDevice
<1>4. api' \in ApiType
  BY <1>1, <1>3, IdleTyped DEF ApiType
<1>5. HostTyped' /\ BaselineTyped'
  BY <1>2 DEF Typed, HostTyped, BaselineTyped
<1> QED
  BY <1>2, <1>4, <1>5, KeptSame, UsedSame DEF Typed, Quiet, ApiStep

LEMMA StepTyped ==
  ASSUME ApiTyped, NEW s \in {"", "invalidate", "begin", "switch", "make", "drop"}, Step(s)
  PROVE  api' \in ApiType /\ api'.op = api.op
  BY DEF ApiTyped, ApiType, Step

LEMMA NoneTyped ==
  ASSUME BaselineTyped
  PROVE  None \in MaybeCapture /\ capture \in MaybeCapture /\ baseline \in MaybeCapture
  BY DEF BaselineTyped, MaybeCapture

LEMMA InvalidateIs == ASSUME Typed, Invalidate PROVE Quiet /\ ApiStep
<1>1. /\ UNCHANGED <<dev, link, queue, mix, used, parser, commands, store, tele>>
      /\ capture' = None /\ baseline' = None
      /\ (api.op = "link" /\ Step("begin")) \/ api' = Idle
  BY DEF Invalidate, device
<1>2. api' \in ApiType /\ (api'.op = "link" => link.session < MaxSessions)
  BY <1>1, StepTyped, IdleTyped DEF Typed, ApiTyped
<1>3. HostTyped' /\ BaselineTyped'
  BY <1>1, NoneTyped DEF Typed, HostTyped, BaselineTyped
<1> QED
  BY <1>1, <1>2, <1>3, KeptSame, UsedSame DEF Typed, Quiet, ApiStep

LEMMA BeginIs == ASSUME Typed, Begin PROVE Quiet /\ ApiStep
<1>1. /\ UNCHANGED <<dev, link, queue, mix, used, parser, commands, store, capture, baseline>>
      /\ api.op = "link" /\ Step("switch")
      /\ tele' = IF api.dev = None THEN MarkStale(tele) ELSE BeginDevice(tele, api.dev)
  BY DEF Begin, device, At
<1>2. api' \in ApiType /\ (api'.op = "link" => link.session < MaxSessions)
  BY <1>1, StepTyped DEF Typed, ApiTyped
<1>3. tele' \in TeleType /\ Calm(tele')
  <2>1. tele \in TeleType /\ api.dev \in MaybeDevice
    BY DEF Typed, HostTyped, ApiTyped, ApiType
  <2>2. CASE api.dev = None
    BY <1>1, <2>1, <2>2, MarkStaleIs
  <2>3. CASE api.dev # None
    <3>1. api.dev \in Devices
      BY <2>1, <2>3 DEF MaybeDevice
    <3>2. PICK d \in Devices : d = api.dev
      BY <3>1
    <3>3. tele' = BeginDevice(tele, d)
      BY <1>1, <2>3, <3>2
    <3> QED BY <2>1, <3>3, BeginDeviceIs
  <2> QED BY <2>2, <2>3
<1>4. HostTyped' /\ BaselineTyped'
  BY <1>1, <1>3 DEF Typed, HostTyped, BaselineTyped
<1> QED
  BY <1>1, <1>2, <1>3, <1>4, KeptSame, UsedSame DEF Typed, Quiet, ApiStep

LEMMA StoreFields ==
  ASSUME NEW s \in StoreType
  PROVE  s.resync \in BOOLEAN /\ s.applied \in Configs /\ s.latest \in MaybeSnap
  BY DEF StoreType

LEMMA RequestCaptureIs == ASSUME Typed, RequestCapture PROVE Quiet /\ ApiStep
<1> DEFINE snap == IF store.applied.cap THEN store.latest ELSE None
<1>1. /\ UNCHANGED <<dev, link, queue, mix, parser, commands, store, tele, capture, baseline>>
      /\ used' = [used EXCEPT !.requests = @ + 1]
      /\ api' = [Idle EXCEPT !.op = "capture", !.step = "make", !.snap = snap]
  BY DEF RequestCapture, Requests
<1>2. snap \in MaybeSnap
  BY StoreFields DEF Typed, HostTyped, MaybeSnap
<1> HIDE DEF snap
<1>3. api' \in ApiType /\ api'.op = "capture"
  BY <1>1, <1>2, IdleTyped DEF ApiType
<1>4. HostTyped' /\ BaselineTyped'
  BY <1>1 DEF Typed, HostTyped, BaselineTyped
<1>5. used' \in UsedType /\ used'.events = used.events /\ used'.changes = used.changes
  BY <1>1, UsedSame DEF Typed
<1> QED
  BY <1>1, <1>3, <1>4, <1>5, KeptSame DEF Quiet, ApiStep

LEMMA RequestResetIs == ASSUME Typed, RequestReset PROVE Quiet /\ ApiStep
<1>1. /\ UNCHANGED <<dev, link, queue, mix, parser, commands, tele, capture, baseline>>
      /\ used' = [used EXCEPT !.requests = @ + 1]
      /\ api' = [Idle EXCEPT !.op = "reset", !.step = "invalidate"]
      /\ store' = store \/ store' = [store EXCEPT !.latest = None]
  BY DEF RequestReset, Requests
<1>2. api' \in ApiType /\ api'.op = "reset"
  BY <1>1, IdleTyped DEF ApiType
<1>3. store \in StoreType /\ None \in MaybeSnap
  BY DEF Typed, HostTyped, MaybeSnap
<1>4. store' \in StoreType /\ store'.applied = store.applied
  BY <1>1, <1>3 DEF StoreType
<1>5. store'.resync = store.resync
  BY <1>1, <1>3 DEF StoreType
<1>6. HostTyped' /\ BaselineTyped'
  BY <1>1, <1>4 DEF Typed, HostTyped, BaselineTyped
<1>7. used' \in UsedType /\ used'.events = used.events /\ used'.changes = used.changes
  BY <1>1, UsedSame DEF Typed
<1> QED
  BY <1>1, <1>2, <1>4, <1>5, <1>6, <1>7, KeptSame DEF Quiet, ApiStep

LEMMA MakeCaptureIs == ASSUME Typed, MakeCapture PROVE Quiet /\ ApiStep
<1> DEFINE c == [session |-> api.snap.session, dev |-> link.dev, id |-> api.snap.id,
                 cancelled |-> FALSE, due |-> FALSE, samples |-> {}]
<1>1. /\ UNCHANGED <<dev, link, queue, mix, used, parser, commands, store, tele>>
      /\ baseline' = None /\ api' = Idle
      /\ capture' = IF api.snap = None THEN None ELSE c
  BY DEF MakeCapture, device
<1>2. api.snap # None => c \in Captures /\ c.samples = {}
  <2> HAVE api.snap # None
  <2>1. api.snap \in Snaps
    BY DEF Typed, ApiTyped, ApiType, MaybeSnap
  <2>2. api.snap.session \in 1 .. MaxSessions /\ api.snap.id \in 0 .. MaxChanges
    BY <2>1 DEF Snaps
  <2>3. link.dev \in MaybeDevice
    BY LinkFields DEF Typed
  <2> QED BY <2>2, <2>3 DEF Captures, MaybeDevice
<1> HIDE DEF c
<1>3. Kept(capture') /\ capture' \in MaybeCapture
  BY <1>1, <1>2 DEF Kept, MaybeCapture
<1>4. HostTyped' /\ BaselineTyped'
  BY <1>1, <1>3, NoneTyped DEF Typed, HostTyped, BaselineTyped
<1>5. api' \in ApiType /\ api'.op = "idle"
  BY <1>1, IdleTyped
<1> QED
  BY <1>1, <1>3, <1>4, <1>5, KeptSame, UsedSame DEF Typed, Quiet, ApiStep

LEMMA RequestCancelIs == ASSUME Typed, RequestCancel PROVE Quiet /\ ApiStep
<1>1. /\ UNCHANGED <<dev, link, queue, mix, used, parser, commands, store, tele, baseline>>
      /\ capture # None /\ capture' = [capture EXCEPT !.cancelled = TRUE]
      /\ api' = [Idle EXCEPT !.op = "cancel", !.step = "drop"]
  BY DEF RequestCancel, device
<1>2. capture \in Captures
  BY <1>1 DEF Typed, BaselineTyped, MaybeCapture
<1>3. /\ capture' \in Captures /\ capture'.samples = capture.samples
      /\ capture'.id = capture.id
  BY <1>1, <1>2 DEF Captures
<1>4. Kept(capture')
  BY <1>1, <1>3 DEF Kept, SameSamples
<1>5. HostTyped' /\ BaselineTyped'
  BY <1>1, <1>3 DEF Typed, HostTyped, BaselineTyped, MaybeCapture
<1>6. api' \in ApiType /\ api'.op = "cancel"
  BY <1>1, IdleTyped DEF ApiType
<1> QED
  BY <1>1, <1>4, <1>5, <1>6, KeptSame, UsedSame DEF Typed, Quiet, ApiStep

LEMMA DropCaptureIs == ASSUME Typed, DropCapture PROVE Quiet /\ ApiStep
<1>1. /\ UNCHANGED <<dev, link, queue, mix, used, parser, commands, store, tele, baseline>>
      /\ capture' = None /\ api' = Idle
  BY DEF DropCapture, device
<1>2. HostTyped' /\ BaselineTyped'
  BY <1>1, NoneTyped DEF Typed, HostTyped, BaselineTyped
<1> QED
  BY <1>1, <1>2, IdleTyped, KeptSame, UsedSame DEF Typed, Quiet, ApiStep

LEMMA ElapseIs ==
  ASSUME Typed, Elapse
  PROVE  Quiet /\ UNCHANGED <<api, parser>> /\ HostTyped' /\ BaselineTyped'
<1>1. /\ UNCHANGED <<dev, link, queue, mix, used, api, parser, commands, store, tele, baseline>>
      /\ capture # None /\ capture' = [capture EXCEPT !.due = TRUE]
  BY DEF Elapse, device
<1>2. capture \in Captures
  BY <1>1 DEF Typed, BaselineTyped, MaybeCapture
<1>3. /\ capture' \in Captures /\ capture'.samples = capture.samples
      /\ capture'.id = capture.id
  BY <1>1, <1>2 DEF Captures
<1>4. Kept(capture')
  BY <1>1, <1>3 DEF Kept, SameSamples
<1>5. HostTyped' /\ BaselineTyped'
  BY <1>1, <1>3 DEF Typed, HostTyped, BaselineTyped, MaybeCapture
<1> QED
  BY <1>1, <1>4, <1>5, KeptSame, UsedSame DEF Typed, Quiet

LEMMA AtLoopIs ==
  AtLoop \in ParserType /\ AtLoop.at = "loop" /\ AtLoop.done = None
<1>1. None \in MaybeCapture /\ NoLine \in Lines \cup {NoLine}
  BY DEF MaybeCapture
<1> HIDE DEF NoLine
<1> QED
  BY <1>1 DEF AtLoop, ParserType

LEMMA ParserFields ==
  ASSUME ParserTyped
  PROVE  /\ parser \in ParserType /\ parser.at \in {"loop", "taken", "look", "finish"}
         /\ parser.line \in Lines \cup {NoLine} /\ parser.done \in MaybeCapture
  BY DEF ParserTyped, ParserType

LEMMA NoInputIs ==
  ASSUME Typed, NoInput
  PROVE  Quiet /\ UNCHANGED api /\ ParserTyped' /\ HostTyped' /\ BaselineTyped'
<1>1. /\ UNCHANGED <<dev, link, queue, mix, used, api, commands, store, tele, capture, baseline>>
      /\ parser.at = "loop" /\ parser' = [parser EXCEPT !.at = "look"]
  BY DEF NoInput, device
<1>2. /\ parser' \in ParserType /\ parser'.at = "look" /\ parser'.done = parser.done
      /\ parser.done = None
  BY <1>1, ParserFields DEF Typed, ParserTyped, ParserType
<1>3. HostTyped' /\ BaselineTyped'
  BY <1>1 DEF Typed, HostTyped, BaselineTyped
<1> QED
  BY <1>1, <1>2, <1>3, KeptSame, UsedSame DEF Typed, Quiet, ParserTyped

LEMMA LookIs ==
  ASSUME Typed, Look
  PROVE  Quiet /\ UNCHANGED api /\ ParserTyped' /\ HostTyped' /\ BaselineTyped'
<1>1. /\ UNCHANGED <<dev, link, queue, mix, used, api, commands, store, tele, capture, baseline>>
      /\ \/ /\ capture # None /\ (capture.due \/ capture.cancelled)
            /\ parser' = [parser EXCEPT !.at = "finish", !.done = capture]
         \/ parser' = AtLoop
  BY DEF Look, device
<1>2. HostTyped' /\ BaselineTyped'
  BY <1>1 DEF Typed, HostTyped, BaselineTyped
<1>3. CASE /\ capture # None /\ (capture.due \/ capture.cancelled)
           /\ parser' = [parser EXCEPT !.at = "finish", !.done = capture]
  <2>1. capture \in MaybeCapture /\ capture \in Captures
    BY <1>3 DEF Typed, BaselineTyped, MaybeCapture
  <2>2. parser' \in ParserType /\ parser'.at = "finish" /\ parser'.done = capture
    BY <1>3, <2>1, ParserFields DEF Typed, ParserType
  <2> QED
    BY <1>1, <1>2, <1>3, <2>1, <2>2, KeptSame, UsedSame DEF Typed, Quiet, ParserTyped
<1>4. CASE parser' = AtLoop
  BY <1>1, <1>2, <1>4, AtLoopIs, KeptSame, UsedSame DEF Typed, Quiet, ParserTyped
<1> QED
  BY <1>1, <1>3, <1>4

LEMMA FinishIs ==
  ASSUME Typed, Finish
  PROVE  Quiet /\ UNCHANGED api /\ ParserTyped' /\ HostTyped' /\ BaselineTyped'
<1>1. /\ UNCHANGED <<dev, link, queue, mix, used, api, commands, store, tele>>
      /\ parser.at = "finish" /\ parser' = AtLoop /\ capture' = None
      /\ baseline' = None \/ (parser.done.samples # {} /\ baseline' = parser.done)
  BY DEF Finish, device
<1>2. parser.done \in Captures /\ (parser.done.due \/ parser.done.cancelled)
  BY <1>1 DEF Typed, ParserTyped
<1>3. HostTyped' /\ BaselineTyped'
  BY <1>1, <1>2 DEF Typed, HostTyped, BaselineTyped, MaybeCapture
<1> QED
  BY <1>1, <1>3, AtLoopIs, KeptSame, UsedSame DEF Typed, Quiet, ParserTyped

-----------------------------------------------------------------------------
(* The steps that take a line                                               *)

LEMMA TailOne ==
  ASSUME NEW T, NEW q \in Seq(T), q # <<>>
  PROVE  /\ Tail(q) \in Seq(T) /\ Head(q) \in T /\ Head(q) = q[1] /\ 1 \in DOMAIN q
         /\ \A i \in DOMAIN Tail(q) : i + 1 \in DOMAIN q /\ Tail(q)[i] = q[i+1]
         /\ Len(q) \in Nat /\ Len(q) >= 1 /\ Len(Tail(q)) = Len(q) - 1
<1>1. /\ Tail(q) \in Seq(T) /\ Len(Tail(q)) = Len(q) - 1
      /\ \A i \in 1 .. Len(Tail(q)) : Tail(q)[i] = q[i+1]
      /\ Head(q) \in T /\ Head(q) = q[1]
  BY HeadTailProperties
<1>2. /\ DOMAIN q = 1 .. Len(q) /\ Len(q) \in Nat \ {0}
      /\ DOMAIN Tail(q) = 1 .. (Len(q) - 1)
  BY <1>1, LenProperties, EmptySeq
<1> QED
  BY <1>1, <1>2

LEMMA AppendOne ==
  ASSUME NEW T, NEW q \in Seq(T), NEW x \in T
  PROVE  /\ Append(q, x) \in Seq(T)
         /\ Len(q) \in Nat /\ Len(Append(q, x)) = Len(q) + 1
         /\ DOMAIN q = 1 .. Len(q) /\ DOMAIN Append(q, x) = 1 .. (Len(q) + 1)
         /\ \A i \in 1 .. Len(q) : Append(q, x)[i] = q[i]
         /\ Append(q, x)[Len(q) + 1] = x
<1>1. /\ Append(q, x) \in Seq(T) /\ Len(Append(q, x)) = Len(q) + 1
      /\ \A i \in 1 .. Len(q) : Append(q, x)[i] = q[i]
      /\ Append(q, x)[Len(q) + 1] = x
  BY AppendProperties
<1>2. DOMAIN q = 1 .. Len(q) /\ Len(q) \in Nat /\ DOMAIN Append(q, x) = 1 .. (Len(q) + 1)
  BY <1>1, LenProperties
<1> QED
  BY <1>1, <1>2

LEMMA CommandsFields ==
  ASSUME HostTyped
  PROVE  /\ commands.session \in 0 .. MaxSessions /\ commands.conn \in 0 .. MaxConns
         /\ commands.session \in Nat /\ commands.conn \in Nat /\ commands.boot \in MaybeBoot
  BY Bounds DEF HostTyped, CommandsType

\* The parser adopts the place of an event, and nothing is fresh behind it unless
\* the event confirms where the parser is.
LEMMA ParseStateIs ==
  ASSUME Typed, ParseState
  PROVE  LET e == Head(queue) IN
         /\ parser.at = "loop" /\ queue # <<>> /\ queue' = Tail(queue) /\ e \in States
         /\ UNCHANGED <<dev, link, mix, used, api, parser, capture, baseline>>
         /\ HostTyped'
         /\ commands'.session = e.session /\ commands'.boot = commands.boot
         /\ e.kind = "up" => commands'.conn = e.conn
         /\ e.kind = "down" => commands'.conn = commands.conn
         /\ store'.applied = store.applied
         /\ SamePlace(commands', commands) => store'.resync = store.resync
         /\ Calm(tele') \/ (tele' = tele /\ e.session = commands.session /\ e.kind = "up")
<1> DEFINE e == Head(queue)
           adopts == e.session # commands.session
           opens == e.kind = "up" /\ e.conn # commands.conn
           c == IF opens THEN e.conn ELSE commands.conn
           r == store.resync \/ adopts \/ opens
<1>1. /\ parser.at = "loop" /\ queue # <<>> /\ queue' = Tail(queue) /\ IsState(e)
      /\ UNCHANGED <<dev, link, mix, used, api, parser, capture, baseline>>
      /\ commands' = [commands EXCEPT !.session = e.session, !.conn = c]
      /\ store' = [store EXCEPT !.resync = r]
      /\ tele' = CASE adopts /\ tele.identity = None -> NoTelemetry
                   [] adopts /\ tele.identity # None -> MarkStale(tele)
                   [] ~adopts /\ e.kind = "down" -> MarkStale(tele)
                   [] OTHER -> tele
  BY DEF ParseState
<1>2. e \in States /\ e.kind \in {"up", "down"}
      /\ e.session \in 0 .. MaxSessions /\ e.conn \in 0 .. MaxConns
  <2>1. e \in Items
    BY <1>1, TailOne DEF Typed, QueueTyped
  <2>2. e \in States
    BY <1>1, <2>1, PlaceFields
  <2> QED BY <2>2, StateFields, Bounds
<1>3. tele \in TeleType /\ commands \in CommandsType /\ store \in StoreType
  BY DEF Typed, HostTyped
<1>4. c \in 0 .. MaxConns
  BY <1>2, CommandsFields DEF Typed
<1>5. r \in BOOLEAN
  BY <1>3, StoreFields
<1>6. /\ e.kind = "up" => c = e.conn
      /\ e.kind = "down" => c = commands.conn
  BY <1>2
<1>7. e.session = commands.session /\ c = commands.conn => r = store.resync
  BY <1>3, StoreFields
<1> HIDE DEF c, r
<1>8. /\ commands' \in CommandsType /\ commands'.session = e.session /\ commands'.conn = c
      /\ commands'.boot = commands.boot
  BY <1>1, <1>2, <1>3, <1>4 DEF CommandsType
<1>9. /\ store' \in StoreType /\ store'.applied = store.applied
  BY <1>1, <1>3, <1>5 DEF StoreType
<1>10. store'.resync = r
  BY <1>1, <1>3, <1>5 DEF StoreType
<1>11. /\ tele' \in TeleType
       /\ Calm(tele') \/ (tele' = tele /\ ~adopts /\ e.kind # "down")
  <2>1. CASE adopts /\ tele.identity = None
    <3>1. tele' = NoTelemetry
      BY <1>1, <2>1
    <3> QED BY <3>1, NoTelemetryTyped
  <2>2. CASE adopts /\ tele.identity # None
    <3>1. tele' = MarkStale(tele)
      BY <1>1, <2>2
    <3> QED BY <1>3, <3>1, MarkStaleIs
  <2>3. CASE ~adopts /\ e.kind = "down"
    <3>1. tele' = MarkStale(tele)
      BY <1>1, <2>3
    <3> QED BY <1>3, <3>1, MarkStaleIs
  <2>4. CASE ~adopts /\ e.kind # "down"
    <3>1. tele' = tele
      BY <1>1, <2>4
    <3> QED BY <1>3, <2>4, <3>1
  <2> QED BY <2>1, <2>2, <2>3, <2>4
<1>12. SamePlace(commands', commands) => store'.resync = store.resync
  BY <1>7, <1>8, <1>10 DEF SamePlace
<1> QED
  BY <1>1, <1>2, <1>6, <1>8, <1>9, <1>11, <1>12 DEF HostTyped

LEMMA TakeLineIs ==
  ASSUME Typed, TakeLine
  PROVE  LET l == Head(queue) IN
         /\ parser.at = "loop" /\ queue # <<>> /\ queue' = Tail(queue)
         /\ l \in Lines /\ ~IsState(l)
         /\ UNCHANGED <<dev, link, mix, used, api, commands, store, tele, capture, baseline>>
         /\ ParserTyped' /\ parser'.done = parser.done
         /\ parser'.at = "taken" => parser'.line = l
<1> DEFINE l == Head(queue)
<1>1. /\ parser.at = "loop" /\ queue # <<>> /\ queue' = Tail(queue) /\ ~IsState(l)
      /\ UNCHANGED <<dev, link, mix, used, api, commands, store, tele, capture, baseline>>
      /\ parser' = [parser EXCEPT !.at = "taken", !.line = l] \/ parser' = parser
  BY DEF TakeLine
<1>2. l \in Lines /\ Proper(l)
  BY <1>1, TailOne, PlaceFields DEF Typed, QueueTyped
<1> HIDE DEF l
<1>3. CASE parser' = parser
  BY <1>1, <1>2, <1>3 DEF Typed, ParserTyped, l
<1>4. CASE parser' = [parser EXCEPT !.at = "taken", !.line = l]
  <2>1. /\ parser' \in ParserType /\ parser'.at = "taken" /\ parser'.line = l
        /\ parser'.done = parser.done
    BY <1>2, <1>4, ParserFields DEF Typed, ParserType
  <2> QED BY <1>1, <1>2, <2>1 DEF Typed, ParserTyped, l
<1> QED
  BY <1>1, <1>3, <1>4

LEMMA HandleIs ==
  ASSUME Typed, Handle
  PROVE  /\ parser.at = "taken" /\ parser.line \in Lines /\ Proper(parser.line)
         /\ parser.done = None
         /\ ParserTyped' /\ parser'.at = "look" /\ parser'.done = None
         /\ UNCHANGED <<dev, link, queue, mix, used, api>>
<1>1. /\ parser.at = "taken" /\ parser' = [AtLoop EXCEPT !.at = "look", !.locked = TRUE]
      /\ UNCHANGED <<dev, link, queue, mix, used, api>>
  BY DEF Handle, device
<1>2. parser' \in ParserType /\ parser'.at = "look" /\ parser'.done = None
  BY <1>1, AtLoopIs DEF ParserType
<1> QED
  BY <1>1, <1>2 DEF Typed, ParserTyped

\* What is fresh behind the line was so before it, or comes from it.
Brings(line) ==
  /\ BatteryFresh(tele') =>
       (BatteryFresh(tele) /\ tele'.latest = tele.latest) \/ tele'.latest.from = line.from
  /\ RailFresh(tele') =>
       (RailFresh(tele) /\ tele'.rail = tele.rail) \/ tele'.rail.from = line.from

LEMMA HandleTelemetryIs ==
  ASSUME HostTyped, NEW l \in Lines, Proper(l),
         \/ l.kind = "battery" /\ tele' = UpdateBattery(tele, l)
         \/ l.kind = "rail" /\ tele' = UpdateRail(tele, l)
  PROVE  tele' \in TeleType /\ Brings(l)
<1>1. tele \in TeleType
  BY DEF HostTyped
<1>2. CASE l.kind = "battery" /\ tele' = UpdateBattery(tele, l)
  <2>1. Reading(l).from = l.from
    BY <1>2, ReadingIs
  <2> QED BY <1>1, <1>2, <2>1, UpdateBatteryIs DEF NothingNew, Brings
<1>3. CASE l.kind = "rail" /\ tele' = UpdateRail(tele, l)
  <2>1. Reading(l).from = l.from
    BY <1>3, ReadingIs
  <2> QED BY <1>1, <1>3, <2>1, UpdateRailIs DEF NothingNew, Brings
<1> QED
  BY <1>2, <1>3

LEMMA HandleFrameIs ==
  ASSUME HostTyped, BaselineTyped, NEW l \in Lines, HandleFrame(l)
  PROVE  /\ store' \in StoreType /\ store'.resync = store.resync
         /\ store'.applied = store.applied
         /\ capture' \in MaybeCapture
         /\ \/ capture' = capture
            \/ /\ capture # None /\ capture' \in Captures /\ capture'.id = capture.id
               /\ ~store.resync /\ l.config = store.applied /\ l.config.id = capture.id
               /\ capture'.samples =
                    capture.samples \cup {[from |-> l.from, known |-> commands.boot]}
<1>0. store \in StoreType
  BY DEF HostTyped
<1>1. CASE store.resync \/ l.config # store.applied
  <2>1. store' = store /\ capture' = capture
    BY <1>1 DEF HandleFrame
  <2> QED BY <1>0, <2>1 DEF BaselineTyped
<1>2. CASE ~(store.resync \/ l.config # store.applied)
  <2> DEFINE snap == [session |-> l.from.session, id |-> l.config.id]
             y == [from |-> l.from, known |-> commands.boot]
  <2>1. /\ store' = [store EXCEPT !.latest = snap]
        /\ \/ capture' = capture
           \/ /\ capture # None /\ Matches(capture, l)
              /\ capture' = [capture EXCEPT !.samples = @ \cup {y}]
    BY <1>2 DEF HandleFrame, Sampled
  <2>2. l.from \in Epochs /\ l.config \in Configs /\ l.from.session \in 1 .. MaxSessions
    BY LineFields
  <2>3. snap \in MaybeSnap
    BY <2>2 DEF Snaps, MaybeSnap, Configs
  <2> HIDE DEF snap
  <2>4. /\ store' \in StoreType /\ store'.resync = store.resync
    BY <1>0, <2>1, <2>3 DEF StoreType
  <2>5. store'.applied = store.applied
    BY <1>0, <2>1, <2>3 DEF StoreType
  <2>6. y \in Samples
    BY <2>2, CommandsFields DEF Samples, MaybeBoot, Boots
  <2> HIDE DEF y
  <2>7. CASE capture' = capture
    BY <2>4, <2>5, <2>7 DEF BaselineTyped
  <2>8. CASE /\ capture # None /\ Matches(capture, l)
             /\ capture' = [capture EXCEPT !.samples = @ \cup {y}]
    <3>1. capture \in Captures
      BY <2>8 DEF BaselineTyped, MaybeCapture
    <3>2. capture.samples \cup {y} \in SUBSET Samples
      BY <2>6, <3>1, CaptureFields
    <3>3. /\ capture' \in Captures /\ capture'.id = capture.id
          /\ capture'.samples = capture.samples \cup {y}
      BY <2>8, <3>1, <3>2 DEF Captures
    <3>4. l.config.id = capture.id
      BY <2>8 DEF Matches
    <3> QED BY <1>2, <2>4, <2>5, <2>8, <3>3, <3>4 DEF MaybeCapture, y
  <2> QED BY <2>1, <2>7, <2>8
<1> QED
  BY <1>1, <1>2

LEMMA HandleAppliedIs ==
  ASSUME HostTyped, BaselineTyped, NEW l \in Lines, HandleApplied(l)
  PROVE  /\ store' \in StoreType /\ store'.resync = store.resync
         /\ \/ capture' = None /\ baseline' = None
            \/ capture' = capture /\ baseline' = baseline /\ store'.applied = store.applied
<1> DEFINE config == IF l.kind = "rows" THEN [store.applied EXCEPT !.id = l.config.id]
                                        ELSE [store.applied EXCEPT !.cap = l.config.cap]
           latest == IF config # store.applied THEN None ELSE store.latest
<1>1. /\ store' = [store EXCEPT !.applied = config, !.latest = latest]
      /\ \/ capture' = None /\ baseline' = None
         \/ capture' = capture /\ baseline' = baseline /\ config = store.applied
  BY DEF HandleApplied
<1>2. store \in StoreType /\ store.applied \in Configs /\ l.config \in Configs
  BY StoreFields, LineFields DEF HostTyped
<1>3. config \in Configs
  BY <1>2 DEF Configs
<1>4. latest \in MaybeSnap
  BY <1>2, StoreFields DEF MaybeSnap
<1> HIDE DEF config, latest
<1>5. store' \in StoreType /\ store'.applied = config
  BY <1>1, <1>2, <1>3, <1>4 DEF StoreType
<1>6. store'.resync = store.resync
  BY <1>1, <1>2, <1>3, <1>4 DEF StoreType
<1> QED
  BY <1>1, <1>5, <1>6

LEMMA HandleReadbackIs ==
  ASSUME HostTyped, NEW l \in Lines, HandleReadback(l)
  PROVE  store' \in StoreType /\ (store.resync \/ store' = store)
<1>1. store \in StoreType /\ l.config \in Configs
  BY LineFields DEF HostTyped
<1>2. CASE ~store.resync
  BY <1>1, <1>2 DEF HandleReadback
<1>3. CASE store.resync
  <2> DEFINE latest == IF l.config = store.applied THEN store.latest ELSE None
  <2>1. store' = [resync |-> FALSE, applied |-> l.config, latest |-> latest]
    BY <1>3 DEF HandleReadback
  <2>2. latest \in MaybeSnap
    BY <1>1, StoreFields DEF MaybeSnap
  <2> HIDE DEF latest
  <2> QED BY <1>1, <1>3, <2>1, <2>2 DEF StoreType
<1> QED
  BY <1>2, <1>3

LEMMA HandleBootIs ==
  ASSUME HostTyped, NEW l \in Lines, HandleBoot(l)
  PROVE  /\ HostTyped' /\ NothingNew(tele', tele)
         /\ SamePlace(commands', commands) /\ commands'.boot = l.from.boot
         /\ store'.applied = store.applied
         /\ commands.boot = l.from.boot => store'.resync = store.resync
<1> DEFINE r == store.resync \/ commands.boot \notin {None, l.from.boot}
<1>1. /\ commands' = [commands EXCEPT !.boot = l.from.boot]
      /\ store' = [store EXCEPT !.resync = r]
      /\ tele' = ObserveBoot(tele, l.from.boot)
  BY DEF HandleBoot
<1>2. /\ store \in StoreType /\ tele \in TeleType /\ commands \in CommandsType
      /\ l.from.boot \in Boots
  BY LineFields DEF HostTyped
<1>3. PICK b \in Boots : b = l.from.boot
  BY <1>2
<1>4. tele' \in TeleType /\ NothingNew(tele', tele)
  BY <1>1, <1>2, <1>3, ObserveBootIs
<1>5. /\ commands' \in CommandsType /\ SamePlace(commands', commands)
      /\ commands'.boot = l.from.boot
  BY <1>1, <1>2 DEF CommandsType, SamePlace, MaybeBoot
<1>6. r \in BOOLEAN /\ (commands.boot = l.from.boot => r = store.resync)
  BY <1>2, StoreFields
<1> HIDE DEF r
<1>7. store' \in StoreType /\ store'.applied = store.applied
  BY <1>1, <1>2, <1>6 DEF StoreType
<1>8. store'.resync = r
  BY <1>1, <1>2, <1>6 DEF StoreType
<1> QED
  BY <1>4, <1>5, <1>6, <1>7, <1>8 DEF HostTyped

-----------------------------------------------------------------------------
(* The types hold                                                           *)

LEMMA QueueGrows ==
  ASSUME QueueTyped, mix' = mix,
         queue' = queue \/ \E x \in Items : (IsState(x) \/ Proper(x)) /\ queue' = Append(queue, x)
  PROVE  QueueTyped'
<1>1. CASE queue' = queue
  BY <1>1 DEF QueueTyped
<1>2. CASE \E x \in Items : (IsState(x) \/ Proper(x)) /\ queue' = Append(queue, x)
  <2> PICK x \in Items : (IsState(x) \/ Proper(x)) /\ queue' = Append(queue, x)
    BY <1>2
  <2>1. queue \in Seq(Items)
    BY DEF QueueTyped
  <2>2. /\ queue' \in Seq(Items) /\ Len(queue) \in Nat
        /\ DOMAIN queue = 1 .. Len(queue) /\ DOMAIN queue' = 1 .. (Len(queue) + 1)
        /\ \A i \in 1 .. Len(queue) : queue'[i] = queue[i]
        /\ queue'[Len(queue) + 1] = x
    BY <2>1, AppendOne
  <2>3. ASSUME NEW i \in DOMAIN queue', ~IsState(queue'[i])
        PROVE  Proper(queue'[i])
    <3>1. CASE i = Len(queue) + 1
      BY <2>2, <2>3, <3>1
    <3>2. CASE i # Len(queue) + 1
      <4>1. i \in 1 .. (Len(queue) + 1)
        BY <2>2
      <4>2. i \in 1 .. Len(queue)
        <5>1. Len(queue) \in Nat
          BY <2>2
        <5> QED BY <3>2, <4>1, <5>1
      <4>3. i \in DOMAIN queue /\ queue'[i] = queue[i]
        BY <2>2, <4>2
      <4> QED BY <2>3, <4>3 DEF QueueTyped
    <3> QED BY <3>1, <3>2
  <2> QED BY <2>2, <2>3 DEF QueueTyped
<1> QED
  BY <1>1, <1>2

LEMMA QueueShrinks ==
  ASSUME QueueTyped, mix' = mix, queue # <<>>, queue' = Tail(queue)
  PROVE  QueueTyped'
<1>1. queue \in Seq(Items)
  BY DEF QueueTyped
<1>2. /\ queue' \in Seq(Items)
      /\ \A i \in DOMAIN queue' : i + 1 \in DOMAIN queue /\ queue'[i] = queue[i+1]
  BY <1>1, TailOne
<1> QED
  BY <1>2 DEF QueueTyped

LEMMA InitTyped == ASSUME Init PROVE Typed
<1> USE Bounds
<1>1. FirstConfig \in Configs /\ FirstConfig.id = 0
  BY DEF FirstConfig, Configs
<1>2. DeviceTyped
  <2> DEFINE b == [boot |-> 1, config |-> FirstConfig]
  <2>1. b \in BoardType /\ b.boot = 1 /\ b.config.id = 0
    BY <1>1 DEF BoardType
  <2>2. dev = [d \in Devices |-> b]
    BY DEF Init
  <2> HIDE DEF b
  <2>3. dev \in [Devices -> BoardType]
    BY <2>1, <2>2
  <2>4. used = [requests |-> 0, lines |-> 0, events |-> 0, changes |-> 0]
    BY DEF Init
  <2>5. used \in UsedType /\ used.events = 0 /\ used.changes = 0
    BY <2>4 DEF UsedType
  <2>6. link = [session |-> 0, dev |-> None, conn |-> 0, up |-> FALSE]
    BY DEF Init, NoStatus
  <2>7. None \in MaybeDevice
    BY DEF MaybeDevice
  <2>8. link \in LinkType
    BY <2>6, <2>7 DEF LinkType
  <2>9. link.dev = None /\ ~link.up
    BY <2>6
  <2> QED BY <2>1, <2>2, <2>3, <2>5, <2>8, <2>9 DEF DeviceTyped
<1>3. QueueTyped
  <2>1. queue = <<>> /\ mix \in Mixes
    BY DEF Init
  <2>2. <<>> \in Seq(Items) /\ DOMAIN <<>> = {}
    OBVIOUS
  <2> QED BY <2>1, <2>2 DEF QueueTyped
<1>4. ApiTyped /\ ParserTyped
  BY IdleTyped, AtLoopIs DEF Init, ApiTyped, ParserTyped
<1>5. HostTyped
  <2>1. /\ commands = [session |-> 0, conn |-> 0, boot |-> None]
        /\ store = [resync |-> FALSE, applied |-> FirstConfig, latest |-> None]
        /\ tele = NoTelemetry
    BY DEF Init
  <2>2. None \in MaybeBoot /\ None \in MaybeSnap
    BY DEF MaybeBoot, MaybeSnap
  <2>3. commands \in CommandsType
    BY <2>1, <2>2 DEF CommandsType
  <2>4. store \in StoreType
    BY <1>1, <2>1, <2>2 DEF StoreType
  <2> QED BY <2>1, <2>3, <2>4, NoTelemetryTyped DEF HostTyped
<1>6. BaselineTyped
  BY DEF Init, BaselineTyped, MaybeCapture
<1> QED
  BY <1>2, <1>3, <1>4, <1>5, <1>6 DEF Typed

LEMMA StutterTyped == ASSUME Typed, UNCHANGED vars PROVE Typed'
<1>1. DeviceTyped' /\ QueueTyped' /\ ApiTyped'
  BY DEF vars, Typed, DeviceTyped, QueueTyped, ApiTyped
<1>2. ParserTyped' /\ HostTyped' /\ BaselineTyped'
  BY DEF vars, Typed, ParserTyped, HostTyped, BaselineTyped
<1> QED
  BY <1>1, <1>2 DEF Typed

\* The host is as it was, but for the request that the API has under way.
LEMMA HostKept ==
  ASSUME Typed, UNCHANGED <<parser, commands, store, tele, capture, baseline>>
  PROVE  ParserTyped' /\ HostTyped' /\ BaselineTyped'
  BY DEF Typed, ParserTyped, HostTyped, BaselineTyped

LEMMA DeviceNextTyped == ASSUME Typed, DeviceNext PROVE Typed'
<1>0. DeviceTyped /\ QueueTyped /\ ApiTyped
  BY DEF Typed
<1>1. CASE LinkUp
  <2>1. PICK e \in States : queue' = Append(queue, e)
    BY <1>0, <1>1, LinkUpIs
  <2>2. e \in Items /\ IsState(e)
    BY StateFields DEF Items
  <2>3. LinkOnly /\ used' = used
    BY <1>0, <1>1, LinkUpIs
  <2>4. QueueTyped'
    BY <1>0, <2>1, <2>2, <2>3, QueueGrows DEF LinkOnly
  <2>5. /\ link' \in LinkType /\ link'.dev = link.dev /\ link'.session = link.session
        /\ link.dev \in Devices /\ link'.conn = link.conn + 1
    BY <1>0, <1>1, LinkUpIs
  <2>6. DeviceTyped'
    BY <1>0, <2>3, <2>5, LinkFields, NoneApart DEF LinkOnly, DeviceTyped
  <2>7. ApiTyped'
    BY <1>0, <2>3, <2>5 DEF LinkOnly, ApiTyped
  <2> QED BY <2>3, <2>4, <2>6, <2>7, HostKept DEF Typed, LinkOnly
<1>2. CASE LinkDown
  <2>1. PICK e \in States : queue' = Append(queue, e)
    BY <1>0, <1>2, LinkDownIs
  <2>2. e \in Items /\ IsState(e)
    BY StateFields DEF Items
  <2>3. /\ LinkOnly /\ used' \in UsedType /\ used'.events = used.events + 1
        /\ used'.changes = used.changes
    BY <1>0, <1>2, LinkDownIs
  <2>4. QueueTyped'
    BY <1>0, <2>1, <2>2, <2>3, QueueGrows DEF LinkOnly
  <2>5. /\ link' \in LinkType /\ link'.dev = link.dev /\ link'.session = link.session
        /\ link'.up = FALSE
    BY <1>0, <1>2, LinkDownIs
  <2>6. ASSUME NEW d \in Devices
        PROVE  dev[d].boot <= used'.events + 1 /\ dev[d].config.id <= used'.changes
    <3>1. dev[d].boot \in Boots /\ dev[d].boot <= used.events + 1 /\ dev[d].config.id <= used.changes
      BY <1>0, DeviceFields
    <3>2. dev[d].boot \in Nat /\ used.events \in Nat
      BY <1>0, <3>1, UsedSame, Bounds
    <3> QED BY <2>3, <3>1, <3>2
  <2>7. DeviceTyped'
    BY <1>0, <2>3, <2>5, <2>6 DEF LinkOnly, DeviceTyped
  <2>8. ApiTyped'
    BY <1>0, <2>3, <2>5 DEF LinkOnly, ApiTyped
  <2> QED BY <2>3, <2>4, <2>7, <2>8, HostKept DEF Typed, LinkOnly
<1>3. CASE Send \/ Answer \/ Change
  <2>1. Sends
    BY <1>0, <1>3, SendIs, AnswerIs, ChangeIs
  <2>2. QueueTyped'
    <3>1. queue' = queue \/ \E x \in Items : Proper(x) /\ queue' = Append(queue, x)
      BY <2>1 DEF Sends, Sent, Items
    <3> QED BY <1>0, <2>1, <3>1, QueueGrows DEF Sends
  <2>3. \A d \in Devices : dev'[d].boot <= used'.events + 1 /\ dev'[d].config.id <= used'.changes
    BY <1>0, <2>1, DeviceFields DEF Sends
  <2>4. DeviceTyped'
    BY <1>0, <2>1, <2>3 DEF Sends, DeviceTyped
  <2>5. ApiTyped'
    BY <1>0, <2>1 DEF Sends, ApiTyped
  <2> QED BY <2>1, <2>2, <2>4, <2>5, HostKept DEF Typed, Sends
<1>4. CASE Reboot
  <2>1. /\ UNCHANGED <<link, queue, mix, api, parser, commands, store, tele, capture, baseline>>
        /\ dev' \in [Devices -> BoardType] /\ used' \in UsedType
        /\ \A d \in Devices : dev'[d].boot <= used'.events + 1 /\ dev'[d].config.id <= used'.changes
    BY <1>0, <1>4, RebootIs
  <2>2. DeviceTyped'
    BY <1>0, <2>1 DEF DeviceTyped
  <2>3. QueueTyped' /\ ApiTyped'
    BY <1>0, <2>1 DEF QueueTyped, ApiTyped
  <2> QED BY <2>1, <2>2, <2>3, HostKept DEF Typed
<1> QED
  BY <1>1, <1>2, <1>3, <1>4 DEF DeviceNext

LEMMA QuietTyped ==
  ASSUME Typed, Quiet, ApiTyped', ParserTyped', HostTyped', BaselineTyped'
  PROVE  Typed'
<1>1. DeviceTyped' /\ QueueTyped'
  BY DEF Typed, Quiet, DeviceTyped, QueueTyped
<1> QED
  BY <1>1 DEF Typed

\* The requests but for the switch of the link.
OtherRequests ==
  \/ RequestLink \/ Invalidate \/ Begin \/ RequestCapture \/ MakeCapture
  \/ RequestCancel \/ DropCapture \/ RequestReset

LEMMA OtherRequestsAre == ASSUME Typed, OtherRequests PROVE Quiet /\ ApiStep
  BY RequestLinkIs, InvalidateIs, BeginIs, RequestCaptureIs, MakeCaptureIs, RequestCancelIs,
     DropCaptureIs, RequestResetIs DEF OtherRequests

LEMMA ApiNextTyped == ASSUME Typed, ApiNext PROVE Typed'
<1>1. CASE OtherRequests
  <2>1. Quiet /\ ApiStep
    BY <1>1, OtherRequestsAre
  <2>2. ApiTyped' /\ ParserTyped'
    BY <2>1 DEF Quiet, ApiStep, ApiTyped, ParserTyped, Typed
  <2> QED BY <2>1, <2>2, QuietTyped DEF ApiStep
<1>2. CASE Switch
  <2>1. /\ UNCHANGED <<dev, queue, mix, used, parser, commands, store, tele, capture, baseline>>
        /\ link' \in LinkType /\ link'.session = link.session + 1
        /\ link'.up = FALSE /\ api' = Idle
    BY <1>2, SwitchIs DEF Typed
  <2>2. DeviceTyped'
    BY <2>1, LinkFields DEF Typed, DeviceTyped
  <2>3. QueueTyped' /\ ApiTyped'
    BY <2>1, IdleTyped DEF Typed, QueueTyped, ApiTyped
  <2> QED BY <2>1, <2>2, <2>3, HostKept DEF Typed
<1> QED
  BY <1>1, <1>2 DEF ApiNext, OtherRequests

LEMMA HandleTyped == ASSUME Typed, Handle PROVE HostTyped' /\ BaselineTyped'
<1> PICK l \in Lines : l = parser.line /\ Proper(l)
  BY HandleIs
<1>0. HostTyped /\ BaselineTyped
  BY DEF Typed
<1>1. CASE /\ (l.kind = "battery" /\ tele' = UpdateBattery(tele, l))
              \/ (l.kind = "rail" /\ tele' = UpdateRail(tele, l))
           /\ UNCHANGED <<commands, store, capture, baseline>>
  BY <1>0, <1>1, HandleTelemetryIs DEF HostTyped, BaselineTyped
<1>2. CASE HandleFrame(l) /\ UNCHANGED <<commands, tele, baseline>>
  BY <1>0, <1>2, HandleFrameIs DEF HostTyped, BaselineTyped
<1>3. CASE HandleApplied(l) /\ UNCHANGED <<commands, tele>>
  BY <1>0, <1>3, HandleAppliedIs, NoneTyped DEF HostTyped, BaselineTyped
<1>4. CASE HandleReadback(l) /\ UNCHANGED <<commands, tele, capture, baseline>>
  BY <1>0, <1>4, HandleReadbackIs DEF HostTyped, BaselineTyped
<1>5. CASE HandleBoot(l) /\ UNCHANGED <<capture, baseline>>
  BY <1>0, <1>5, HandleBootIs DEF BaselineTyped
<1> QED
  BY <1>1, <1>2, <1>3, <1>4, <1>5 DEF Handle

LEMMA ParserNextTyped == ASSUME Typed, ParserNext PROVE Typed'
<1>1. CASE ParseState
  <2>1. /\ queue # <<>> /\ queue' = Tail(queue) /\ HostTyped'
        /\ UNCHANGED <<dev, link, mix, used, api, parser, capture, baseline>>
    BY <1>1, ParseStateIs
  <2>2. QueueTyped'
    BY <2>1, QueueShrinks DEF Typed
  <2>3. DeviceTyped' /\ ApiTyped' /\ ParserTyped' /\ BaselineTyped'
    BY <2>1 DEF Typed, DeviceTyped, ApiTyped, ParserTyped, BaselineTyped
  <2> QED BY <2>1, <2>2, <2>3 DEF Typed
<1>2. CASE TakeLine
  <2>1. /\ queue # <<>> /\ queue' = Tail(queue) /\ ParserTyped'
        /\ UNCHANGED <<dev, link, mix, used, api, commands, store, tele, capture, baseline>>
    BY <1>2, TakeLineIs
  <2>2. QueueTyped'
    BY <2>1, QueueShrinks DEF Typed
  <2>3. DeviceTyped' /\ ApiTyped' /\ HostTyped' /\ BaselineTyped'
    BY <2>1 DEF Typed, DeviceTyped, ApiTyped, HostTyped, BaselineTyped
  <2> QED BY <2>1, <2>2, <2>3 DEF Typed
<1>3. CASE Handle
  <2>1. ParserTyped' /\ UNCHANGED <<dev, link, queue, mix, used, api>>
    BY <1>3, HandleIs
  <2>2. DeviceTyped' /\ QueueTyped' /\ ApiTyped'
    BY <2>1 DEF Typed, DeviceTyped, QueueTyped, ApiTyped
  <2> QED BY <1>3, <2>1, <2>2, HandleTyped DEF Typed
<1>4. CASE NoInput \/ Look \/ Finish
  <2>1. Quiet /\ UNCHANGED api /\ ParserTyped' /\ HostTyped' /\ BaselineTyped'
    BY <1>4, NoInputIs, LookIs, FinishIs
  <2>2. ApiTyped'
    BY <2>1 DEF Quiet, Typed, ApiTyped
  <2> QED BY <2>1, <2>2, QuietTyped
<1> QED
  BY <1>1, <1>2, <1>3, <1>4 DEF ParserNext

LEMMA TypedInductive == ASSUME Typed, [Next]_vars PROVE Typed'
<1>1. CASE Elapse
  <2>1. Quiet /\ UNCHANGED <<api, parser>> /\ HostTyped' /\ BaselineTyped'
    BY <1>1, ElapseIs
  <2>2. ApiTyped' /\ ParserTyped'
    BY <2>1 DEF Quiet, Typed, ApiTyped, ParserTyped
  <2> QED BY <2>1, <2>2, QuietTyped
<1> QED
  BY <1>1, DeviceNextTyped, ApiNextTyped, ParserNextTyped, StutterTyped DEF Next

LEMMA TypedIsTypeOK == ASSUME Typed PROVE TypeOK
<1>1. \A d \in Devices : dev[d].boot \in 1 .. MaxEvents + 1 /\ dev[d].config \in Configs
  BY DeviceFields DEF Typed, Boots
<1>2. mix \in Mixes /\ link.session \in 0 .. MaxSessions /\ link.dev \in Devices \cup {None}
  BY LinkFields DEF Typed, QueueTyped, MaybeDevice
<1>3. \A i \in DOMAIN queue : queue[i] \in Lines \cup States
  <2>1. queue \in Seq(Items)
    BY DEF Typed, QueueTyped
  <2> QED BY <2>1, ElementOfSeq, LenProperties DEF Items
<1>4. parser.line \in Lines \cup {NoLine} /\ parser.done \in Captures \cup {None}
  BY ParserFields DEF Typed, MaybeCapture
<1>5. /\ store.applied \in Configs
      /\ {tele.latest, tele.good, tele.rail} \subseteq Readings \cup {None}
      /\ tele.identity \in Devices \cup {None}
  BY StoreFields, TeleFields DEF Typed, HostTyped, MaybeReading, MaybeDevice
<1>6. /\ {capture, baseline} \subseteq Captures \cup {None}
      /\ baseline # None => baseline.samples # {} /\ (baseline.due \/ baseline.cancelled)
  BY DEF Typed, BaselineTyped, MaybeCapture
<1> QED
  BY <1>1, <1>2, <1>3, <1>4, <1>5, <1>6 DEF TypeOK

\* The types of the boards, the link, the lines under way and of what is shown hold:
\* only a finished capture with samples becomes the baseline.
THEOREM TypeCorrect == Spec => []TypeOK
<1>1. Init => Typed
  BY InitTyped
<1>2. Typed /\ [Next]_vars => Typed'
  BY TypedInductive
<1>3. Typed => TypeOK
  BY TypedIsTypeOK
<1> QED
  BY <1>1, <1>2, <1>3, PTL DEF Spec

-----------------------------------------------------------------------------
(* The order of the queue                                                   *)

Spot(p) == p.session \in Nat /\ p.conn \in Nat

LEMMA NoLaterTransitive ==
  ASSUME NEW a, NEW b, NEW c, Spot(a), Spot(b), Spot(c), NoLater(a, b), NoLater(b, c)
  PROVE  NoLater(a, c)
  BY DEF Spot, NoLater

LEMMA NoLaterSame ==
  ASSUME NEW a, NEW b, NEW c, Spot(a), Spot(b), Spot(c), SamePlace(a, b)
  PROVE  /\ NoLater(a, b) /\ NoLater(b, a)
         /\ NoLater(b, c) => NoLater(a, c)
         /\ NoLater(c, b) => NoLater(c, a)
  BY DEF Spot, NoLater, SamePlace

LEMMA NoLaterBoth ==
  ASSUME NEW a, NEW b, Spot(a), Spot(b), NoLater(a, b), NoLater(b, a)
  PROVE  SamePlace(a, b)
  BY DEF Spot, NoLater, SamePlace

LEMMA QueueSpots ==
  ASSUME NEW q \in Seq(Items), NEW i \in DOMAIN q
  PROVE  q[i] \in Items /\ Spot(Place(q[i]))
<1>1. q[i] \in Items
  BY ElementOfSeq, LenProperties
<1> QED
  BY <1>1, PlaceFields DEF Spot

LEMMA OrderAppend ==
  ASSUME NEW q \in Seq(Items), NEW x \in Items, NEW c, NEW l, NEW m,
         Spot(c), Spot(l), Spot(m), InOrder(q, c, l), NoLater(l, m), SamePlace(Place(x), m)
  PROVE  InOrder(Append(q, x), c, m)
<1> DEFINE r == Append(q, x)
<1>1. /\ Len(q) \in Nat /\ DOMAIN q = 1 .. Len(q) /\ DOMAIN r = 1 .. (Len(q) + 1)
      /\ \A i \in 1 .. Len(q) : r[i] = q[i]
      /\ r[Len(q) + 1] = x
  BY AppendOne
<1> HIDE DEF r
<1>2. Spot(Place(x)) /\ NoLater(c, m)
  BY PlaceFields, NoLaterTransitive DEF Spot, InOrder
<1>3. NoLater(c, Place(x)) /\ NoLater(Place(x), m)
  BY <1>2, NoLaterSame
<1>4. ASSUME NEW i \in 1 .. Len(q)
      PROVE  /\ i \in DOMAIN q /\ r[i] = q[i]
             /\ NoLater(c, Place(r[i])) /\ NoLater(Place(r[i]), m) /\ NoLater(Place(r[i]), Place(x))
  <2>1. i \in DOMAIN q /\ r[i] = q[i]
    BY <1>1
  <2>2. Spot(Place(q[i])) /\ NoLater(c, Place(q[i])) /\ NoLater(Place(q[i]), l)
    BY <2>1, QueueSpots DEF InOrder
  <2>3. NoLater(Place(q[i]), m)
    BY <2>2, NoLaterTransitive
  <2> QED BY <1>2, <2>1, <2>2, <2>3, NoLaterSame
<1>5. \A i \in DOMAIN r : NoLater(c, Place(r[i])) /\ NoLater(Place(r[i]), m)
  <2> TAKE i \in DOMAIN r
  <2>1. CASE i = Len(q) + 1
    BY <1>1, <1>3, <2>1
  <2>2. CASE i # Len(q) + 1
    <3>1. i \in 1 .. Len(q)
      BY <1>1, <2>2
    <3> QED BY <1>4, <3>1
  <2> QED BY <2>1, <2>2
<1>6. \A i, j \in DOMAIN r : i < j => NoLater(Place(r[i]), Place(r[j]))
  <2> TAKE i, j \in DOMAIN r
  <2> HAVE i < j
  <2>1. i \in 1 .. Len(q)
    BY <1>1
  <2>2. CASE j = Len(q) + 1
    BY <1>1, <1>4, <2>1, <2>2
  <2>3. CASE j # Len(q) + 1
    <3>1. j \in 1 .. Len(q)
      BY <1>1, <2>3
    <3> QED BY <1>4, <2>1, <3>1 DEF InOrder
  <2> QED BY <2>2, <2>3
<1> QED
  BY <1>2, <1>5, <1>6 DEF InOrder, r

LEMMA OrderForward ==
  ASSUME NEW q \in Seq(Items), NEW c, NEW l, NEW m,
         Spot(c), Spot(l), Spot(m), InOrder(q, c, l), NoLater(l, m)
  PROVE  InOrder(q, c, m)
<1>1. NoLater(c, m)
  BY NoLaterTransitive DEF InOrder
<1>2. \A i \in DOMAIN q : NoLater(c, Place(q[i])) /\ NoLater(Place(q[i]), m)
  BY QueueSpots, NoLaterTransitive DEF InOrder
<1> QED
  BY <1>1, <1>2 DEF InOrder

LEMMA OrderTail ==
  ASSUME NEW q \in Seq(Items), q # <<>>, NEW c, NEW d, NEW l,
         Spot(c), Spot(d), Spot(l), InOrder(q, c, l), NoLater(d, Place(Head(q)))
  PROVE  InOrder(Tail(q), d, l)
<1> DEFINE r == Tail(q)
<1>1. /\ Head(q) = q[1] /\ 1 \in DOMAIN q
      /\ r \in Seq(Items)
      /\ \A i \in DOMAIN r : i + 1 \in DOMAIN q /\ r[i] = q[i+1]
  BY TailOne
<1>2. \A i \in DOMAIN r : i \in Nat /\ 1 < i + 1
  BY <1>1, LenProperties
<1> HIDE DEF r
<1>3. Spot(Place(q[1])) /\ NoLater(Place(q[1]), l) /\ NoLater(d, Place(q[1]))
  BY <1>1, QueueSpots DEF InOrder
<1>4. NoLater(d, l)
  BY <1>3, NoLaterTransitive
<1>5. \A i \in DOMAIN r : NoLater(d, Place(r[i])) /\ NoLater(Place(r[i]), l)
  <2> TAKE i \in DOMAIN r
  <2>1. /\ i + 1 \in DOMAIN q /\ r[i] = q[i+1] /\ Spot(Place(q[i+1]))
        /\ NoLater(Place(q[1]), Place(q[i+1])) /\ NoLater(Place(q[i+1]), l)
    BY <1>1, <1>2, QueueSpots DEF InOrder
  <2>2. NoLater(d, Place(q[i+1]))
    BY <1>3, <2>1, NoLaterTransitive
  <2> QED BY <2>1, <2>2
<1>6. \A i, j \in DOMAIN r : i < j => NoLater(Place(r[i]), Place(r[j]))
  <2> TAKE i, j \in DOMAIN r
  <2> HAVE i < j
  <2>1. i + 1 \in DOMAIN q /\ j + 1 \in DOMAIN q /\ i + 1 < j + 1
    BY <1>1, <1>2
  <2> QED BY <1>1, <2>1 DEF InOrder
<1> QED
  BY <1>4, <1>5, <1>6 DEF InOrder, r

LEMMA AnnouncedMore ==
  ASSUME NEW q, NEW c, NEW p, NEW p2, NEW n \in Nat, NEW k \in Nat, n <= k,
         Announced(q, c, p, n), SamePlace(p, p2)
  PROVE  Announced(q, c, p2, k)
<1>1. 1 .. n \subseteq 1 .. k
  OBVIOUS
<1> QED
  BY <1>1 DEF Announced, SamePlace

LEMMA AnnouncedAppend ==
  ASSUME NEW q \in Seq(Items), NEW x \in Items, NEW c, NEW p, NEW n \in Nat, n <= Len(q),
         Announced(q, c, p, n)
  PROVE  Announced(Append(q, x), c, p, n)
<1>1. \A i \in 1 .. n : Append(q, x)[i] = q[i]
  BY AppendOne
<1> QED
  BY <1>1 DEF Announced

LEMMA AllAnnouncedAppend ==
  ASSUME NEW q \in Seq(Items), NEW x \in Items, NEW c, NEW l, NEW m,
         AllAnnounced(q, c, l), SamePlace(Place(x), m),
         x.kind = "up" \/ (l.up /\ SamePlace(m, l))
  PROVE  AllAnnounced(Append(q, x), c, m)
<1> DEFINE r == Append(q, x)
<1>1. /\ Len(q) \in Nat /\ Len(r) = Len(q) + 1
      /\ DOMAIN q = 1 .. Len(q) /\ DOMAIN r = 1 .. (Len(q) + 1)
      /\ \A i \in 1 .. Len(q) : r[i] = q[i]
      /\ r[Len(q) + 1] = x
  BY AppendOne
<1>2. ASSUME NEW p, NEW n \in Nat, n <= Len(q), Announced(q, c, p, n)
      PROVE  Announced(r, c, p, n)
  BY <1>2, AnnouncedAppend
<1> HIDE DEF r
<1>3. x.kind # "up" => Announced(r, c, Place(x), Len(q))
  <2> HAVE x.kind # "up"
  <2>1. Announced(q, c, l, Len(q)) /\ SamePlace(l, Place(x))
    BY DEF AllAnnounced, SamePlace
  <2>2. Announced(r, c, l, Len(q))
    BY <1>1, <1>2, <2>1
  <2> QED BY <1>1, <2>1, <2>2, AnnouncedMore
<1>4. ASSUME NEW i \in DOMAIN r, r[i].kind # "up"
      PROVE  Announced(r, c, Place(r[i]), i - 1)
  <2>1. CASE i = Len(q) + 1
    <3>1. r[i] = x /\ i - 1 = Len(q)
      BY <1>1, <2>1
    <3> QED BY <1>3, <1>4, <3>1
  <2>2. CASE i # Len(q) + 1
    <3>1. i \in 1 .. Len(q)
      BY <1>1, <2>2
    <3>2. Announced(q, c, Place(q[i]), i - 1) /\ r[i] = q[i]
      BY <1>1, <1>4, <3>1 DEF AllAnnounced
    <3>3. i - 1 \in Nat /\ i - 1 <= Len(q)
      BY <1>1, <3>1
    <3> QED BY <1>2, <3>2, <3>3
  <2> QED BY <2>1, <2>2
<1>5. Announced(r, c, m, Len(r))
  <2>1. CASE x.kind = "up"
    <3>1. SamePlace(m, x)
      BY <2>1, PlaceFields DEF IsState, SamePlace
    <3>2. Len(q) + 1 \in 1 .. Len(r)
      BY <1>1
    <3> QED BY <1>1, <2>1, <3>1, <3>2 DEF Announced
  <2>2. CASE x.kind # "up"
    <3>1. SamePlace(Place(x), m) /\ Len(q) \in Nat /\ Len(r) \in Nat /\ Len(q) <= Len(r)
      BY <1>1
    <3> QED BY <1>3, <2>2, <3>1, AnnouncedMore
  <2> QED BY <2>1, <2>2
<1> QED
  BY <1>4, <1>5 DEF AllAnnounced, r

LEMMA AnnouncedTail ==
  ASSUME NEW q \in Seq(Items), q # <<>>, NEW c, NEW d, NEW p, NEW n \in Nat, n + 1 <= Len(q),
         Spot(c), Spot(p), NoLater(c, Place(q[1])), NoLater(Place(q[1]), p),
         SamePlace(d, Place(q[1])), Announced(q, c, p, n + 1)
  PROVE  Announced(Tail(q), d, p, n)
<1>1. /\ 1 \in DOMAIN q /\ DOMAIN Tail(q) = 1 .. (Len(q) - 1) /\ Len(q) \in Nat
      /\ \A i \in DOMAIN Tail(q) : Tail(q)[i] = q[i+1]
  BY TailOne, LenProperties
<1>2. q[1] \in Items /\ Spot(Place(q[1]))
  BY <1>1, QueueSpots
<1>3. CASE SamePlace(p, c)
  <2>1. SamePlace(p, Place(q[1]))
    BY <1>2, <1>3, NoLaterSame, NoLaterBoth
  <2> QED BY <2>1 DEF Announced, SamePlace
<1>4. CASE \E j \in 1 .. (n + 1) : q[j].kind = "up" /\ SamePlace(p, q[j])
  <2> PICK j \in 1 .. (n + 1) : q[j].kind = "up" /\ SamePlace(p, q[j])
    BY <1>4
  <2>1. CASE j = 1
    <3>1. SamePlace(p, Place(q[1]))
      BY <1>2, <2>1, PlaceFields DEF IsState, SamePlace
    <3> QED BY <3>1 DEF Announced, SamePlace
  <2>2. CASE j # 1
    <3>1. j - 1 \in 1 .. n /\ j - 1 \in DOMAIN Tail(q) /\ (j - 1) + 1 = j
      BY <1>1, <2>2
    <3>2. Tail(q)[j-1] = q[j]
      BY <1>1, <3>1
    <3> QED BY <3>1, <3>2 DEF Announced
  <2> QED BY <2>1, <2>2
<1> QED
  BY <1>3, <1>4 DEF Announced

LEMMA AllAnnouncedTail ==
  ASSUME NEW q \in Seq(Items), q # <<>>, NEW c, NEW d, NEW l, Spot(c), Spot(l),
         InOrder(q, c, l), AllAnnounced(q, c, l), SamePlace(d, Place(Head(q)))
  PROVE  AllAnnounced(Tail(q), d, l)
<1>1. /\ Head(q) = q[1] /\ 1 \in DOMAIN q /\ Len(q) \in Nat /\ Len(q) >= 1
      /\ Len(Tail(q)) = Len(q) - 1 /\ Tail(q) \in Seq(Items)
      /\ \A i \in DOMAIN Tail(q) : i + 1 \in DOMAIN q /\ Tail(q)[i] = q[i+1]
      /\ DOMAIN Tail(q) = 1 .. (Len(q) - 1)
  BY TailOne, LenProperties
<1>2. NoLater(c, Place(q[1])) /\ NoLater(Place(q[1]), l)
  BY <1>1 DEF InOrder
<1>3. ASSUME NEW i \in DOMAIN Tail(q), Tail(q)[i].kind # "up"
      PROVE  Announced(Tail(q), d, Place(Tail(q)[i]), i - 1)
  <2> DEFINE n == i - 1
  <2>1. /\ i + 1 \in DOMAIN q /\ Tail(q)[i] = q[i+1] /\ 1 < i + 1
        /\ n \in Nat /\ n + 1 = i /\ n + 1 <= Len(q) /\ (i + 1) - 1 = n + 1
    BY <1>1
  <2>2. Announced(q, c, Place(q[i+1]), n + 1)
    BY <1>3, <2>1 DEF AllAnnounced
  <2>3. NoLater(Place(q[1]), Place(q[i+1])) /\ Spot(Place(q[i+1]))
    BY <1>1, <2>1, QueueSpots DEF InOrder
  <2> HIDE DEF n
  <2>4. Announced(Tail(q), d, Place(q[i+1]), n)
    BY <1>1, <1>2, <2>1, <2>2, <2>3, AnnouncedTail
  <2> QED BY <2>1, <2>4 DEF n
<1>4. l.up => Announced(Tail(q), d, l, Len(Tail(q)))
  <2> HAVE l.up
  <2> DEFINE n == Len(q) - 1
  <2>1. n \in Nat /\ n + 1 = Len(q) /\ n + 1 <= Len(q)
    BY <1>1
  <2>2. Announced(q, c, l, n + 1)
    BY <2>1 DEF AllAnnounced
  <2> HIDE DEF n
  <2>3. Announced(Tail(q), d, l, n)
    BY <1>1, <1>2, <2>1, <2>2, AnnouncedTail
  <2> QED BY <1>1, <2>3 DEF n
<1> QED
  BY <1>3, <1>4 DEF AllAnnounced

LEMMA MayOpenAppend ==
  ASSUME NEW q \in Seq(Items), NEW x \in Items, NEW c, NEW calm, NEW s,
         NEW i \in 1 .. Len(q) + 1, MayOpen(q, c, calm, i, s)
  PROVE  MayOpen(Append(q, x), c, calm, i, s)
<1>1. Len(q) \in Nat /\ \A j \in 1 .. Len(q) : Append(q, x)[j] = q[j]
  BY AppendOne
<1>2. i # 1 => i - 1 \in 1 .. Len(q)
  BY <1>1
<1> QED
  BY <1>1, <1>2 DEF MayOpen

LEMMA AllMayOpenAppend ==
  ASSUME NEW q \in Seq(Items), NEW x \in Items, NEW c, NEW l, NEW m, NEW calm,
         AllMayOpen(q, c, l, calm),
         x.kind = "up" => ~l.up /\ x.session = l.session,
         ~m.up => x.kind = "down"
  PROVE  AllMayOpen(Append(q, x), c, m, calm)
<1> DEFINE r == Append(q, x)
<1>1. /\ Len(q) \in Nat /\ Len(r) = Len(q) + 1
      /\ DOMAIN q = 1 .. Len(q) /\ DOMAIN r = 1 .. (Len(q) + 1)
      /\ \A i \in 1 .. Len(q) : r[i] = q[i]
      /\ r[Len(q) + 1] = x
  BY AppendOne
<1>2. ASSUME NEW i \in 1 .. Len(q) + 1, NEW s, MayOpen(q, c, calm, i, s)
      PROVE  MayOpen(r, c, calm, i, s)
  BY <1>2, MayOpenAppend
<1> HIDE DEF r
<1>3. ASSUME NEW i \in DOMAIN r, r[i].kind = "up"
      PROVE  MayOpen(r, c, calm, i, r[i].session)
  <2>1. i \in 1 .. Len(q) + 1
    BY <1>1
  <2>2. CASE i = Len(q) + 1
    <3>1. r[i] = x
      BY <1>1, <2>2
    <3>2. MayOpen(q, c, calm, i, x.session)
      BY <1>3, <2>2, <3>1 DEF AllMayOpen
    <3> QED BY <1>2, <2>1, <3>1, <3>2
  <2>3. CASE i # Len(q) + 1
    <3>1. i \in 1 .. Len(q)
      BY <1>1, <2>1, <2>3
    <3>2. MayOpen(q, c, calm, i, q[i].session) /\ r[i] = q[i]
      BY <1>1, <1>3, <3>1 DEF AllMayOpen
    <3> QED BY <1>2, <2>1, <3>2
  <2> QED BY <2>2, <2>3
<1>4. ~m.up => MayOpen(r, c, calm, Len(r) + 1, m.session)
  <2>1. Len(r) + 1 # 1 /\ (Len(r) + 1) - 1 = Len(q) + 1
    BY <1>1
  <2> QED BY <1>1, <2>1 DEF MayOpen
<1> QED
  BY <1>3, <1>4 DEF AllMayOpen, r

LEMMA AllMayOpenTail ==
  ASSUME NEW q \in Seq(Items), q # <<>>, NEW c, NEW d, NEW l, NEW calm, NEW after \in BOOLEAN,
         AllMayOpen(q, c, l, calm),
         after \/ (~IsState(Head(q)) /\ d.session <= Place(Head(q)).session),
         Spot(d), l.session \in Nat
  PROVE  AllMayOpen(Tail(q), d, l, after)
<1>1. /\ Head(q) = q[1] /\ 1 \in DOMAIN q /\ Len(q) \in Nat /\ Len(q) >= 1
      /\ Len(Tail(q)) = Len(q) - 1 /\ Tail(q) \in Seq(Items)
      /\ \A i \in DOMAIN Tail(q) : i + 1 \in DOMAIN q /\ Tail(q)[i] = q[i+1]
      /\ DOMAIN Tail(q) = 1 .. (Len(q) - 1)
  BY TailOne, LenProperties
<1>2. q[1] \in Items /\ Spot(Place(q[1]))
  BY <1>1, QueueSpots
<1>3. ASSUME NEW i \in 1 .. Len(q), NEW s \in Nat, MayOpen(q, c, calm, i + 1, s)
      PROVE  MayOpen(Tail(q), d, after, i, s)
  <2>1. i + 1 # 1 /\ (i + 1) - 1 = i
    BY <1>1
  <2>2. Place(q[i]).session < s \/ q[i].kind = "down"
    BY <1>3, <2>1 DEF MayOpen
  <2>3. CASE i = 1
    <3>1. after \/ d.session < s
      <4>1. CASE ~after
        <5>1. q[1].kind # "down"
          BY <1>1, <4>1 DEF IsState
        <5>2. Place(q[1]).session < s /\ d.session <= Place(q[1]).session
          BY <1>1, <2>2, <2>3, <4>1, <5>1
        <5> QED BY <1>2, <5>2 DEF Spot
      <4> QED BY <4>1
    <3> QED BY <2>3, <3>1 DEF MayOpen
  <2>4. CASE i # 1
    <3>1. i - 1 \in DOMAIN Tail(q) /\ (i - 1) + 1 = i
      BY <1>1, <2>4
    <3>2. Tail(q)[i-1] = q[i]
      BY <1>1, <3>1
    <3> QED BY <2>2, <2>4, <3>2 DEF MayOpen
  <2> QED BY <2>3, <2>4
<1>4. ASSUME NEW i \in DOMAIN Tail(q), Tail(q)[i].kind = "up"
      PROVE  MayOpen(Tail(q), d, after, i, Tail(q)[i].session)
  <2>1. i \in 1 .. Len(q) /\ i + 1 \in DOMAIN q /\ Tail(q)[i] = q[i+1]
    BY <1>1
  <2>2. MayOpen(q, c, calm, i + 1, q[i+1].session)
    BY <1>4, <2>1 DEF AllMayOpen
  <2>3. q[i+1].session \in Nat
    BY <1>4, <2>1, QueueSpots, PlaceFields DEF IsState, Spot
  <2> QED BY <1>3, <2>1, <2>2, <2>3
<1>5. ~l.up => MayOpen(Tail(q), d, after, Len(Tail(q)) + 1, l.session)
  <2> HAVE ~l.up
  <2>1. MayOpen(q, c, calm, Len(q) + 1, l.session)
    BY DEF AllMayOpen
  <2>2. Len(q) \in 1 .. Len(q) /\ Len(Tail(q)) + 1 = Len(q)
    BY <1>1
  <2> QED BY <1>3, <2>1, <2>2
<1> QED
  BY <1>4, <1>5 DEF AllMayOpen

LEMMA AllMayOpenCalmer ==
  ASSUME NEW q, NEW c, NEW d, NEW l, NEW calm \in BOOLEAN, NEW after \in BOOLEAN,
         AllMayOpen(q, c, l, calm), calm => after, d.session = c.session
  PROVE  AllMayOpen(q, d, l, after)
  BY DEF AllMayOpen, MayOpen

LEMMA AllMayOpenAnyway ==
  ASSUME NEW q, NEW c, NEW d, NEW l, NEW after,
         AllMayOpen(q, c, l, FALSE), d.session = c.session
  PROVE  AllMayOpen(q, d, l, after)
  BY DEF AllMayOpen, MayOpen

LEMMA AllMayOpenSwitched ==
  ASSUME NEW q \in Seq(Items), NEW c, NEW l, NEW m, NEW calm, Spot(c), Spot(l), Spot(m),
         InOrder(q, c, l), AllMayOpen(q, c, l, calm), l.session < m.session
  PROVE  AllMayOpen(q, c, m, calm)
<1>1. MayOpen(q, c, calm, Len(q) + 1, m.session)
  <2>1. CASE Len(q) + 1 = 1
    <3>1. c.session < m.session
      BY DEF InOrder, NoLater, Spot
    <3> QED BY <2>1, <3>1 DEF MayOpen
  <2>2. CASE Len(q) + 1 # 1
    <3>1. Len(q) \in DOMAIN q /\ (Len(q) + 1) - 1 = Len(q)
      BY <2>2, LenProperties
    <3>2. Spot(Place(q[Len(q)])) /\ NoLater(Place(q[Len(q)]), l)
      BY <3>1, QueueSpots DEF InOrder
    <3>3. Place(q[Len(q)]).session < m.session
      BY <3>2 DEF NoLater, Spot
    <3> QED BY <2>2, <3>1, <3>3 DEF MayOpen
  <2> QED BY <2>1, <2>2
<1> QED
  BY <1>1 DEF AllMayOpen

-----------------------------------------------------------------------------
(* The order holds                                                          *)

LEMMA Spots == ASSUME Typed PROVE Spot(commands) /\ Spot(link) /\ queue \in Seq(Items)
  BY CommandsFields, LinkFields DEF Typed, QueueTyped, Spot

LEMMA SpotsNext == ASSUME Typed' PROVE Spot(commands') /\ Spot(link')
<1>1. link' \in LinkType /\ commands' \in CommandsType
  BY DEF Typed, DeviceTyped, HostTyped
<1> QED
  BY <1>1, Bounds DEF LinkType, CommandsType, Spot

LEMMA SettledKept ==
  ASSUME Ordered, commands' = commands, queue' = queue, link' = link,
         parser' = parser \/ parser'.at # "taken", tele' = tele \/ Calm(tele')
  PROVE  Ordered'
<1>1. Settled \in BOOLEAN /\ Settled' \in BOOLEAN /\ (Settled => Settled')
  BY DEF Settled, Calm
<1>2. AllMayOpen(queue, commands, link, Settled')
  BY <1>1, AllMayOpenCalmer DEF Ordered
<1>3. parser'.at = "taken" => parser' = parser
  OBVIOUS
<1>4. parser'.at = "taken" => OfKnownLink(parser.line)'
  BY <1>3 DEF Ordered, OfKnownLink
<1> QED
  BY <1>2, <1>4 DEF Ordered

\* A device queues x; the link ends behind it, where it says so.
LEMMA QueuedOrdered ==
  ASSUME Typed, Typed', Ordered, NEW x \in Items, queue' = Append(queue, x),
         UNCHANGED <<commands, parser, tele>>,
         NoLater(link, link'), SamePlace(Place(x), link'),
         x.kind = "up" \/ (link.up /\ SamePlace(link', link)),
         x.kind = "up" => ~link.up /\ x.session = link.session,
         ~link'.up => x.kind = "down"
  PROVE  Ordered'
<1>1. Spot(commands) /\ Spot(link) /\ Spot(link') /\ queue \in Seq(Items)
  BY Spots, SpotsNext
<1>2. InOrder(queue', commands, link')
  BY <1>1, OrderAppend DEF Ordered
<1>3. AllAnnounced(queue', commands, link')
  BY <1>1, AllAnnouncedAppend DEF Ordered
<1>4. AllMayOpen(queue', commands, link', Settled)
  BY <1>1, AllMayOpenAppend DEF Ordered
<1>5. Settled' = Settled
  BY DEF Settled
<1> QED
  BY <1>2, <1>3, <1>4, <1>5 DEF Ordered, OfKnownLink

LEMMA DeviceNextOrdered == ASSUME Typed, Typed', Ordered, DeviceNext PROVE Ordered'
<1>0. DeviceTyped /\ Spot(link) /\ Spot(commands)
  BY Spots DEF Typed
<1>1. CASE LinkUp
  <2>1. PICK e \in States : e.kind = "up" /\ SamePlace(e, link') /\ queue' = Append(queue, e)
    BY <1>0, <1>1, LinkUpIs
  <2>2. e \in Items /\ SamePlace(Place(e), link')
    BY <2>1, PlaceFields, StateFields DEF Items, SamePlace
  <2>3. /\ LinkOnly /\ ~link.up /\ link'.session = link.session
        /\ link'.conn = link.conn + 1 /\ link'.up = TRUE
    BY <1>0, <1>1, LinkUpIs
  <2>4. NoLater(link, link') /\ e.session = link.session
    BY <1>0, <2>1, <2>3 DEF NoLater, Spot, SamePlace
  <2> QED BY <2>1, <2>2, <2>3, <2>4, QueuedOrdered DEF LinkOnly
<1>2. CASE LinkDown
  <2>1. PICK e \in States : e.kind = "down" /\ SamePlace(e, link) /\ queue' = Append(queue, e)
    BY <1>0, <1>2, LinkDownIs
  <2>2. /\ LinkOnly /\ link.up /\ link'.session = link.session
        /\ link'.conn = link.conn
    BY <1>0, <1>2, LinkDownIs
  <2>3. e \in Items /\ SamePlace(Place(e), link') /\ SamePlace(link', link)
    BY <2>1, <2>2, PlaceFields, StateFields DEF Items, SamePlace
  <2>4. NoLater(link, link')
    BY <1>0, <2>2 DEF NoLater, Spot
  <2> QED BY <2>1, <2>2, <2>3, <2>4, QueuedOrdered DEF LinkOnly
<1>3. CASE Send \/ Answer \/ Change
  <2>1. Sends
    BY <1>0, <1>3, SendIs, AnswerIs, ChangeIs
  <2>2. CASE queue' = queue
    BY <2>1, <2>2, SettledKept DEF Sends
  <2>3. CASE \E l \in Lines : Sent(l) /\ queue' = Append(queue, l)
    <3> PICK l \in Lines : Sent(l) /\ queue' = Append(queue, l)
      BY <2>3
    <3>1. l \in Items /\ ~IsState(l) /\ l.kind # "up"
      BY LineFields DEF Items, IsState
    <3>2. Place(l).session = link.session /\ Place(l).conn = link.conn
      BY <1>0, <2>1, <3>1, OriginFields DEF Place, Sends, Sent
    <3>3. link' = link /\ link.up
      BY <2>1 DEF Sends
    <3>4. SamePlace(Place(l), link') /\ SamePlace(link', link) /\ NoLater(link, link')
      BY <1>0, <3>2, <3>3 DEF SamePlace, NoLater, Spot
    <3> QED BY <2>1, <3>1, <3>3, <3>4, QueuedOrdered DEF Sends
  <2> QED BY <2>1, <2>2, <2>3 DEF Sends
<1>4. CASE Reboot
  <2>1. UNCHANGED <<link, queue, mix, api, parser, commands, store, tele, capture, baseline>>
    BY <1>0, <1>4, RebootIs
  <2> QED BY <2>1, SettledKept
<1> QED
  BY <1>1, <1>2, <1>3, <1>4 DEF DeviceNext

LEMMA SwitchOrdered == ASSUME Typed, Typed', Ordered, Switch PROVE Ordered'
<1>1. /\ UNCHANGED <<dev, queue, mix, used, parser, commands, store, tele, capture, baseline>>
      /\ link'.session = link.session + 1 /\ link'.up = FALSE
  BY SwitchIs DEF Typed
<1>2. Spot(commands) /\ Spot(link) /\ Spot(link') /\ queue \in Seq(Items)
  BY Spots, SpotsNext
<1>3. NoLater(link, link') /\ link.session < link'.session
  BY <1>1, <1>2 DEF NoLater, Spot
<1>4. InOrder(queue, commands, link')
  BY <1>2, <1>3, OrderForward DEF Ordered
<1>5. AllAnnounced(queue, commands, link')
  BY <1>1 DEF Ordered, AllAnnounced
<1>6. AllMayOpen(queue, commands, link', Settled)
  BY <1>2, <1>3, AllMayOpenSwitched DEF Ordered
<1>7. Settled' = Settled
  BY <1>1 DEF Settled
<1> QED
  BY <1>1, <1>4, <1>5, <1>6, <1>7 DEF Ordered, OfKnownLink

\* The parser is where the event says.
LEMMA AdoptsPlace ==
  ASSUME Typed, Ordered, ParseState
  PROVE  /\ SamePlace(commands', Place(Head(queue))) /\ Calm(tele') /\ Settled'
         /\ NoLater(commands, commands')
<1> DEFINE e == Head(queue)
<1>1. /\ parser.at = "loop" /\ parser' = parser /\ queue # <<>> /\ e \in States
      /\ commands'.session = e.session
      /\ e.kind = "up" => commands'.conn = e.conn
      /\ e.kind = "down" => commands'.conn = commands.conn
      /\ Calm(tele') \/ (tele' = tele /\ e.session = commands.session /\ e.kind = "up")
  BY ParseStateIs
<1>2. Spot(commands) /\ queue \in Seq(Items)
  BY Spots
<1>3. e = queue[1] /\ 1 \in DOMAIN queue
  BY <1>1, <1>2, TailOne
<1> HIDE DEF e
<1>4. /\ IsState(e) /\ e.kind \in {"up", "down"} /\ e \in Items
      /\ Place(e).session = e.session /\ Place(e).conn = e.conn /\ Spot(Place(e))
  BY <1>1, StateFields, PlaceFields DEF Items, Spot
<1>5. SamePlace(commands', Place(e))
  <2>1. CASE e.kind = "up"
    BY <1>1, <1>4, <2>1 DEF SamePlace
  <2>2. CASE e.kind = "down"
    <3>1. Announced(queue, commands, Place(e), 1 - 1)
      BY <1>3, <2>2 DEF Ordered, AllAnnounced
    <3>2. SamePlace(Place(e), commands)
      BY <3>1 DEF Announced
    <3> QED BY <1>1, <1>4, <2>2, <3>2 DEF SamePlace
  <2> QED BY <1>4, <2>1, <2>2
<1>6. Calm(tele')
  <2>1. CASE tele' = tele /\ e.session = commands.session /\ e.kind = "up"
    <3>1. MayOpen(queue, commands, Settled, 1, e.session)
      BY <1>3, <2>1 DEF Ordered, AllMayOpen
    <3>2. Settled
      BY <1>2, <2>1, <3>1 DEF MayOpen, Spot
    <3> QED BY <2>1, <3>2 DEF Settled
  <2> QED BY <1>1, <2>1
<1>7. NoLater(commands, commands')
  <2>1. NoLater(commands, Place(e))
    BY <1>3 DEF Ordered, InOrder
  <2> QED BY <1>2, <1>4, <1>5, <2>1 DEF NoLater, SamePlace, Spot
<1> QED
  BY <1>1, <1>5, <1>6, <1>7 DEF Settled, e

LEMMA ParserNextOrdered == ASSUME Typed, Typed', Ordered, ParserNext PROVE Ordered'
<1>0. /\ Spot(commands) /\ Spot(link) /\ Spot(commands') /\ queue \in Seq(Items)
  BY Spots, SpotsNext
<1>1. CASE ParseState
  <2>1. /\ queue # <<>> /\ queue' = Tail(queue) /\ link' = link
        /\ parser' = parser /\ parser.at = "loop"
    BY <1>1, ParseStateIs
  <2>2. SamePlace(commands', Place(Head(queue))) /\ Settled'
    BY <1>1, AdoptsPlace
  <2>3. Spot(Place(Head(queue)))
    BY <1>0, <2>1, TailOne, QueueSpots
  <2>4. NoLater(commands', Place(Head(queue)))
    BY <1>0, <2>2, <2>3, NoLaterSame
  <2>5. InOrder(queue', commands', link)
    BY <1>0, <2>1, <2>4, OrderTail DEF Ordered
  <2>6. AllAnnounced(queue', commands', link)
    BY <1>0, <2>1, <2>2, AllAnnouncedTail DEF Ordered
  <2>7. AllMayOpen(queue', commands', link, TRUE)
    <3>1. link.session \in Nat
      BY <1>0 DEF Spot
    <3> QED BY <1>0, <2>1, <3>1, AllMayOpenTail DEF Ordered
  <2>8. Settled' \in BOOLEAN
    BY DEF Settled, Calm
  <2>9. AllMayOpen(queue', commands', link, Settled')
    BY <2>2, <2>7, <2>8, AllMayOpenCalmer
  <2> QED BY <2>1, <2>5, <2>6, <2>9 DEF Ordered
<1>2. CASE TakeLine
  <2>1. /\ queue # <<>> /\ queue' = Tail(queue) /\ link' = link /\ commands' = commands
        /\ ~IsState(Head(queue)) /\ Head(queue) \in Lines /\ Head(queue) \in Items
        /\ parser'.at = "taken" => parser'.line = Head(queue)
    BY <1>2, TakeLineIs DEF Items
  <2>2. /\ Head(queue) = queue[1] /\ 1 \in DOMAIN queue
        /\ Spot(Place(Head(queue))) /\ NoLater(commands, Place(Head(queue)))
    BY <1>0, <2>1, TailOne, QueueSpots DEF Ordered, InOrder
  <2>3. SamePlace(Place(Head(queue)), commands)
    <3>1. queue[1].kind # "up"
      BY <2>1, <2>2 DEF IsState
    <3>2. Announced(queue, commands, Place(queue[1]), 1 - 1)
      BY <2>2, <3>1 DEF Ordered, AllAnnounced
    <3> QED BY <2>2, <3>2 DEF Announced
  <2>4. InOrder(queue', commands, link)
    BY <1>0, <2>1, <2>2, OrderTail DEF Ordered
  <2>5. AllAnnounced(queue', commands, link)
    <3>1. SamePlace(commands, Place(Head(queue)))
      BY <2>3 DEF SamePlace
    <3> QED BY <1>0, <2>1, <3>1, AllAnnouncedTail DEF Ordered
  <2>6. AllMayOpen(queue', commands, link, FALSE)
    <3>1. commands.session <= Place(Head(queue)).session /\ link.session \in Nat
      BY <1>0, <2>3 DEF SamePlace, Spot
    <3> QED BY <1>0, <2>1, <3>1, AllMayOpenTail DEF Ordered
  <2>8. AllMayOpen(queue', commands, link, Settled')
    BY <2>6, AllMayOpenAnyway
  <2>9. parser'.at = "taken" => OfKnownLink(parser.line)'
    BY <2>1, <2>3, PlaceFields DEF OfKnownLink, SamePlace
  <2> QED BY <2>1, <2>4, <2>5, <2>8, <2>9 DEF Ordered
<1>3. CASE Handle
  <2>1. /\ parser.at = "taken" /\ parser'.at = "look"
        /\ UNCHANGED <<dev, link, queue, mix, used, api>>
    BY <1>3, HandleIs
  <2>2. SamePlace(commands', commands)
    <3>1. CASE commands' = commands
      BY <3>1 DEF SamePlace
    <3>2. CASE HandleBoot(parser.line)
      BY <1>3, <3>2, HandleIs, HandleBootIs DEF Typed
    <3> QED BY <1>3, <3>1, <3>2 DEF Handle
  <2>3. InOrder(queue, commands', link)
    <3>1. \A p : NoLater(commands, p) => NoLater(commands', p)
      BY <2>2 DEF NoLater, SamePlace
    <3> QED BY <3>1 DEF Ordered, InOrder
  <2>4. AllAnnounced(queue, commands', link)
    <3>1. \A p : SamePlace(p, commands) => SamePlace(p, commands')
      BY <2>2 DEF SamePlace
    <3> QED BY <3>1 DEF Ordered, AllAnnounced, Announced
  <2>5. Settled = FALSE
    BY <2>1 DEF Settled, Calm
  <2>6. AllMayOpen(queue, commands', link, Settled')
    <3>1. AllMayOpen(queue, commands, link, FALSE) /\ commands'.session = commands.session
      BY <2>2, <2>5 DEF Ordered, SamePlace
    <3> QED BY <3>1, AllMayOpenAnyway
  <2> QED BY <2>1, <2>3, <2>4, <2>6 DEF Ordered
<1>4. CASE NoInput \/ Look \/ Finish
  <2>1. Quiet
    BY <1>4, NoInputIs, LookIs, FinishIs
  <2> QED BY <2>1, SettledKept DEF Quiet
<1> QED
  BY <1>1, <1>2, <1>3, <1>4 DEF ParserNext

LEMMA OrderedInductive == ASSUME Typed, Typed', Ordered, [Next]_vars PROVE Ordered'
<1>1. CASE OtherRequests \/ Elapse
  <2>1. Quiet
    BY <1>1, OtherRequestsAre, ElapseIs
  <2> QED BY <2>1, SettledKept DEF Quiet
<1>2. CASE UNCHANGED vars
  BY <1>2, SettledKept DEF vars
<1> QED
  BY <1>1, <1>2, DeviceNextOrdered, SwitchOrdered, ParserNextOrdered
     DEF Next, ApiNext, OtherRequests

LEMMA InitOrdered == ASSUME Init PROVE Ordered
<1>1. /\ queue = <<>> /\ parser = AtLoop /\ tele = NoTelemetry
      /\ commands.session = 0 /\ commands.conn = 0
      /\ link.session = 0 /\ link.conn = 0 /\ ~link.up
  BY DEF Init, NoStatus
<1>2. DOMAIN queue = {} /\ Len(queue) + 1 = 1
  BY <1>1
<1>3. parser.at = "loop" /\ Settled
  BY <1>1, AtLoopIs, NoTelemetryTyped DEF Settled
<1>4. NoLater(commands, link)
  BY <1>1 DEF NoLater
<1> QED
  BY <1>1, <1>2, <1>3, <1>4 DEF Ordered, InOrder, AllAnnounced, AllMayOpen, MayOpen

-----------------------------------------------------------------------------
(* Boots and links only advance                                             *)

Booted(b) == \A d \in Devices : b[d].boot \in Nat

\* From the boards b behind the link l to b2 and l2.
Onward(b, l, b2, l2) ==
  /\ NoLater(l, l2) /\ (l2.session = l.session => l2.dev = l.dev)
  /\ \A d \in Devices : b[d].boot <= b2[d].boot

\* An origin as a line gets it.
Newest(b, l, o) == SamePlace(o, l) /\ o.dev = l.dev /\ o.boot = b[l.dev].boot

LEMMA EpochFields ==
  ASSUME NEW o \in Epochs
  PROVE  Spot(o) /\ o.dev \in Devices /\ o.boot \in Boots /\ o.boot \in Nat
<1>1. /\ o.dev \in Devices /\ o.boot \in Boots
      /\ o.session \in 1 .. MaxSessions /\ o.conn \in 1 .. MaxConns
  BY DEF Epochs, Boots
<1>2. o.session \in Nat /\ o.conn \in Nat
  BY <1>1, Bounds
<1>3. o.boot \in Nat
  BY <1>1, Bounds, Zenon
<1> QED
  BY <1>1, <1>2, <1>3 DEF Spot

LEMMA TracedForward ==
  ASSUME NEW o \in Epochs, NEW b, NEW b2, NEW l, NEW l2, Booted(b), Booted(b2),
         Spot(l), Spot(l2), Onward(b, l, b2, l2), Traced(b, l, o)
  PROVE  Traced(b2, l2, o)
<1>1. Spot(o) /\ o.dev \in Devices /\ o.boot \in Nat
  BY EpochFields
<1>2. o.boot <= b2[o.dev].boot
  BY <1>1 DEF Traced, Onward, Booted
<1>3. NoLater(o, l2)
  BY <1>1, NoLaterTransitive DEF Traced, Onward
<1>4. o.session = l2.session => o.dev = l2.dev
  BY <1>1 DEF Traced, Onward, NoLater, Spot
<1> QED
  BY <1>2, <1>3, <1>4 DEF Traced

LEMMA TracedEvolves ==
  ASSUME NEW o \in Epochs, NEW n \in Epochs, NEW b, NEW l, Booted(b), Spot(l),
         Traced(b, l, o), Newest(b, l, n)
  PROVE  Evolves(o, n) /\ Traced(b, l, n)
<1>1. Spot(o) /\ Spot(n) /\ o.dev \in Devices /\ n.boot \in Nat
  BY EpochFields
<1>2. NoLater(o, n) /\ NoLater(n, l)
  BY <1>1 DEF Traced, Newest, NoLater, SamePlace, Spot
<1>3. o.session = n.session => o.dev = n.dev /\ o.boot <= n.boot
  BY <1>1 DEF Traced, Newest, SamePlace
<1>4. n.boot <= b[n.dev].boot /\ (n.session = l.session => n.dev = l.dev)
  BY <1>1 DEF Newest
<1> QED
  BY <1>2, <1>3, <1>4 DEF Evolves, Traced

LEMMA NewestTraced ==
  ASSUME NEW n \in Epochs, NEW b, NEW l, Spot(l), Newest(b, l, n)
  PROVE  Traced(b, l, n)
<1>1. Spot(n) /\ n.boot \in Nat
  BY EpochFields
<1> QED
  BY <1>1 DEF Newest, Traced, NoLater, SamePlace, Spot

\* What may happen to the queue in a step.
Queues(b, l, q, r) ==
  \/ r = q
  \/ q # <<>> /\ r = Tail(q)
  \/ \E x \in Items : r = Append(q, x) /\ (IsState(x) \/ Newest(b, l, x.from))

LEMMA ItemEpoch ==
  ASSUME NEW q \in Seq(Items), NEW i \in DOMAIN q, ~IsState(q[i])
  PROVE  q[i] \in Lines /\ q[i].from \in Epochs
<1>1. q[i] \in Items
  BY QueueSpots
<1>2. q[i] \in Lines
  BY <1>1, PlaceFields
<1> QED
  BY <1>2, LineFields

LEMMA AheadForward ==
  ASSUME NEW o \in Epochs, NEW b, NEW b2, NEW l, NEW l2, NEW q \in Seq(Items), NEW r,
         Booted(b), Booted(b2), Spot(l), Spot(l2), Onward(b, l, b2, l2),
         Queues(b2, l2, q, r), Ahead(b, l, q, o)
  PROVE  Ahead(b2, l2, r, o)
<1>1. Traced(b2, l2, o)
  BY TracedForward DEF Ahead
<1>2. CASE r = q
  BY <1>1, <1>2 DEF Ahead
<1>3. CASE q # <<>> /\ r = Tail(q)
  <2>1. \A i \in DOMAIN r : i + 1 \in DOMAIN q /\ r[i] = q[i+1]
    BY <1>3, TailOne
  <2> QED BY <1>1, <2>1 DEF Ahead
<1>4. CASE \E x \in Items : r = Append(q, x) /\ (IsState(x) \/ Newest(b2, l2, x.from))
  <2> PICK x \in Items : r = Append(q, x) /\ (IsState(x) \/ Newest(b2, l2, x.from))
    BY <1>4
  <2>1. /\ Len(q) \in Nat /\ DOMAIN q = 1 .. Len(q) /\ DOMAIN r = 1 .. (Len(q) + 1)
        /\ \A i \in 1 .. Len(q) : r[i] = q[i]
        /\ r[Len(q) + 1] = x
    BY AppendOne
  <2>2. ASSUME NEW i \in DOMAIN r, ~IsState(r[i])
        PROVE  Evolves(o, r[i].from)
    <3>1. CASE i = Len(q) + 1
      <4>1. r[i] = x /\ x.from \in Epochs /\ Newest(b2, l2, x.from)
        BY <2>1, <2>2, <3>1, PlaceFields, LineFields
      <4> QED BY <1>1, <4>1, TracedEvolves
    <3>2. CASE i # Len(q) + 1
      <4>1. i \in 1 .. Len(q)
        BY <2>1, <3>2
      <4> QED BY <2>1, <2>2, <4>1 DEF Ahead
    <3> QED BY <3>1, <3>2
  <2> QED BY <1>1, <2>2 DEF Ahead
<1> QED
  BY <1>2, <1>3, <1>4 DEF Queues

LEMMA TrailedForward ==
  ASSUME NEW b, NEW b2, NEW l, NEW l2, NEW q \in Seq(Items), NEW r,
         Booted(b), Booted(b2), Spot(l), Spot(l2), Onward(b, l, b2, l2),
         Queues(b2, l2, q, r), Trailed(b, l, q)
  PROVE  Trailed(b2, l2, r)
<1>1. ASSUME NEW i \in DOMAIN q, ~IsState(q[i])
      PROVE  Traced(b2, l2, q[i].from)
  <2>1. q[i].from \in Epochs /\ Traced(b, l, q[i].from)
    BY <1>1, ItemEpoch DEF Trailed
  <2> QED BY <2>1, TracedForward
<1>2. CASE r = q
  BY <1>1, <1>2 DEF Trailed
<1>3. CASE q # <<>> /\ r = Tail(q)
  <2>1. \A i \in DOMAIN r : i + 1 \in DOMAIN q /\ r[i] = q[i+1] /\ i \in Nat
    BY <1>3, TailOne, LenProperties
  <2>2. \A i \in DOMAIN r : ~IsState(r[i]) => Traced(b2, l2, r[i].from)
    BY <1>1, <2>1
  <2>3. \A i, j \in DOMAIN r :
          i < j /\ ~IsState(r[i]) /\ ~IsState(r[j]) => Evolves(r[i].from, r[j].from)
    <3> TAKE i, j \in DOMAIN r
    <3> HAVE i < j /\ ~IsState(r[i]) /\ ~IsState(r[j])
    <3>1. i + 1 \in DOMAIN q /\ j + 1 \in DOMAIN q /\ i + 1 < j + 1
      BY <2>1
    <3> QED BY <2>1, <3>1 DEF Trailed
  <2> QED BY <2>2, <2>3 DEF Trailed
<1>4. CASE \E x \in Items : r = Append(q, x) /\ (IsState(x) \/ Newest(b2, l2, x.from))
  <2> PICK x \in Items : r = Append(q, x) /\ (IsState(x) \/ Newest(b2, l2, x.from))
    BY <1>4
  <2>1. /\ Len(q) \in Nat /\ DOMAIN q = 1 .. Len(q) /\ DOMAIN r = 1 .. (Len(q) + 1)
        /\ \A i \in 1 .. Len(q) : r[i] = q[i]
        /\ r[Len(q) + 1] = x
    BY AppendOne
  <2>2. ~IsState(x) => x.from \in Epochs /\ Newest(b2, l2, x.from) /\ Traced(b2, l2, x.from)
    BY PlaceFields, LineFields, NewestTraced
  <2>3. ASSUME NEW i \in DOMAIN r, ~IsState(r[i])
        PROVE  /\ Traced(b2, l2, r[i].from) /\ r[i].from \in Epochs
               /\ i # Len(q) + 1 => i \in DOMAIN q /\ r[i] = q[i]
    <3>1. CASE i = Len(q) + 1
      BY <2>1, <2>2, <2>3, <3>1
    <3>2. CASE i # Len(q) + 1
      <4>1. i \in 1 .. Len(q) /\ i \in DOMAIN q
        BY <2>1, <3>2
      <4> QED BY <1>1, <2>1, <2>3, <4>1, ItemEpoch
    <3> QED BY <3>1, <3>2
  <2>4. \A i, j \in DOMAIN r :
          i < j /\ ~IsState(r[i]) /\ ~IsState(r[j]) => Evolves(r[i].from, r[j].from)
    <3> TAKE i, j \in DOMAIN r
    <3> HAVE i < j /\ ~IsState(r[i]) /\ ~IsState(r[j])
    <3>1. i # Len(q) + 1
      BY <2>1
    <3>2. i \in DOMAIN q /\ r[i] = q[i] /\ Traced(b2, l2, r[i].from) /\ r[i].from \in Epochs
      BY <2>3, <3>1
    <3>3. CASE j = Len(q) + 1
      <4>1. r[j] = x /\ x.from \in Epochs /\ Newest(b2, l2, x.from)
        BY <2>1, <2>2, <3>3
      <4> QED BY <3>2, <4>1, TracedEvolves
    <3>4. CASE j # Len(q) + 1
      BY <2>3, <3>2, <3>4 DEF Trailed
    <3> QED BY <3>3, <3>4
  <2> QED BY <2>3, <2>4 DEF Trailed
<1> QED
  BY <1>2, <1>3, <1>4 DEF Queues

-----------------------------------------------------------------------------
(* The trail holds                                                          *)

Advances ==
  /\ Onward(dev, link, dev', link')
  /\ Queues(dev', link', queue, queue')

LEMMA BootedNow == ASSUME DeviceTyped PROVE Booted(dev)
  BY DeviceFields, Bounds DEF Booted

LEMMA BootedNext == ASSUME DeviceTyped' PROVE Booted(dev')
  BY Bounds DEF DeviceTyped, BoardType, Booted

LEMMA OnwardSame ==
  ASSUME NEW b, NEW l, Booted(b), Spot(l)
  PROVE  Onward(b, l, b, l)
  BY DEF Booted, Spot, Onward, NoLater

LEMMA QueuesMore ==
  ASSUME NEW b, NEW l, NEW q, NEW x \in Items, IsState(x) \/ Newest(b, l, x.from)
  PROVE  Queues(b, l, q, q) /\ Queues(b, l, q, Append(q, x))
  BY DEF Queues

LEMMA StepAdvances == ASSUME Typed, Typed', [Next]_vars PROVE Advances
<1>0. DeviceTyped /\ Booted(dev) /\ Booted(dev') /\ Spot(link) /\ Spot(link')
  BY BootedNow, BootedNext, Spots, SpotsNext DEF Typed
<1>1. CASE dev' = dev /\ link' = link /\ (queue' = queue \/ (queue # <<>> /\ queue' = Tail(queue)))
  BY <1>0, <1>1, OnwardSame DEF Advances, Queues
<1>2. CASE LinkUp
  <2>1. PICK e \in States : queue' = Append(queue, e)
    BY <1>0, <1>2, LinkUpIs
  <2>2. e \in Items /\ IsState(e)
    BY StateFields DEF Items
  <2>3. /\ LinkOnly /\ link'.session = link.session /\ link'.dev = link.dev
        /\ link'.conn = link.conn + 1
    BY <1>0, <1>2, LinkUpIs
  <2>4. Onward(dev, link, dev', link')
    BY <1>0, <2>3 DEF Onward, NoLater, Spot, Booted, LinkOnly
  <2> QED BY <2>1, <2>2, <2>4 DEF Advances, Queues
<1>3. CASE LinkDown
  <2>1. PICK e \in States : queue' = Append(queue, e)
    BY <1>0, <1>3, LinkDownIs
  <2>2. e \in Items /\ IsState(e)
    BY StateFields DEF Items
  <2>3. /\ LinkOnly /\ link'.session = link.session /\ link'.dev = link.dev
        /\ link'.conn = link.conn
    BY <1>0, <1>3, LinkDownIs
  <2>4. Onward(dev, link, dev', link')
    BY <1>0, <2>3 DEF Onward, NoLater, Spot, Booted, LinkOnly
  <2> QED BY <2>1, <2>2, <2>4 DEF Advances, Queues
<1>4. CASE Send \/ Answer \/ Change
  <2>1. Sends
    BY <1>0, <1>4, SendIs, AnswerIs, ChangeIs
  <2>2. Onward(dev, link, dev', link')
    <3>1. link' = link /\ \A d \in Devices : dev'[d].boot = dev[d].boot
      BY <2>1 DEF Sends
    <3> QED BY <1>0, <3>1 DEF Onward, NoLater, Spot, Booted
  <2>3. Queues(dev', link', queue, queue')
    <3>1. CASE queue' = queue
      BY <3>1 DEF Queues
    <3>2. CASE \E l \in Lines : Sent(l) /\ queue' = Append(queue, l)
      <4> PICK l \in Lines : Sent(l) /\ queue' = Append(queue, l)
        BY <3>2
      <4>1. link.up /\ link' = link /\ \A d \in Devices : dev'[d].boot = dev[d].boot
        BY <2>1 DEF Sends
      <4>2. /\ link.dev \in Devices /\ l.from.dev = link.dev /\ l.from.boot = dev[link.dev].boot
            /\ l.from.session = link.session /\ l.from.conn = link.conn
        BY <1>0, <4>1, OriginFields DEF Sent
      <4>3. Newest(dev', link', l.from)
        BY <4>1, <4>2 DEF Newest, SamePlace
      <4>4. l \in Items
        BY DEF Items
      <4> QED BY <4>3, <4>4 DEF Queues
    <3> QED BY <2>1, <3>1, <3>2 DEF Sends
  <2> QED BY <2>2, <2>3 DEF Advances
<1>5. CASE Reboot
  <2>1. /\ link' = link /\ queue' = queue
        /\ \A d \in Devices : dev[d].boot <= dev'[d].boot
    BY <1>0, <1>5, RebootIs
  <2> QED BY <1>0, <2>1 DEF Advances, Queues, Onward, NoLater, Spot
<1>6. CASE Switch
  <2>1. dev' = dev /\ queue' = queue /\ link'.session = link.session + 1
    BY <1>6, SwitchIs DEF Typed
  <2> QED BY <1>0, <2>1 DEF Advances, Queues, Onward, NoLater, Spot, Booted
<1>7. CASE OtherRequests \/ Elapse \/ NoInput \/ Look \/ Finish
  <2>1. Quiet
    BY <1>7, OtherRequestsAre, ElapseIs, NoInputIs, LookIs, FinishIs
  <2> QED BY <1>1, <2>1 DEF Quiet
<1>8. CASE ParseState \/ TakeLine
  BY <1>1, <1>8, ParseStateIs, TakeLineIs
<1>9. CASE Handle
  BY <1>1, <1>9, HandleIs
<1>10. CASE UNCHANGED vars
  BY <1>1, <1>10 DEF vars
<1> QED
  BY <1>2, <1>3, <1>4, <1>5, <1>6, <1>7, <1>8, <1>9, <1>10
     DEF Next, DeviceNext, ApiNext, OtherRequests, ParserNext

LEMMA AheadAdvances ==
  ASSUME Typed, Typed', Advances, NEW o \in Epochs, Ahead(dev, link, queue, o)
  PROVE  Ahead(dev', link', queue', o)
<1>1. /\ Booted(dev) /\ Booted(dev') /\ Spot(link) /\ Spot(link') /\ queue \in Seq(Items)
  BY BootedNow, BootedNext, Spots, SpotsNext DEF Typed
<1> QED
  BY <1>1, AheadForward DEF Advances

LEMMA TracedAdvances ==
  ASSUME Typed, Typed', Advances, NEW o \in Epochs, Traced(dev, link, o)
  PROVE  Traced(dev', link', o)
<1>1. /\ Booted(dev) /\ Booted(dev') /\ Spot(link) /\ Spot(link')
  BY BootedNow, BootedNext, Spots, SpotsNext DEF Typed
<1> QED
  BY <1>1, TracedForward DEF Advances

\* The parser goes on with its line, takes one, or has none in its hands.
LEMMA LineTaken ==
  ASSUME Typed, [Next]_vars, parser'.at = "taken"
  PROVE  parser' = parser \/ (TakeLine /\ parser'.line = Head(queue))
<1>1. CASE LinkUp \/ LinkDown \/ Reboot
  BY <1>1, LinkUpIs, LinkDownIs, RebootIs DEF Typed, LinkOnly
<1>2. CASE Send \/ Answer \/ Change
  BY <1>2, SendIs, AnswerIs, ChangeIs DEF Typed, Sends
<1>3. CASE Switch
  BY <1>3, SwitchIs DEF Typed
<1>4. CASE OtherRequests \/ Elapse \/ NoInput \/ Look \/ Finish
  BY <1>4, OtherRequestsAre, ElapseIs, NoInputIs, LookIs, FinishIs DEF Quiet
<1>5. CASE ParseState
  BY <1>5, ParseStateIs
<1>6. CASE TakeLine
  BY <1>6, TakeLineIs
<1>7. CASE Handle
  BY <1>7, HandleIs
<1>8. CASE UNCHANGED vars
  BY <1>8 DEF vars
<1> QED
  BY <1>1, <1>2, <1>3, <1>4, <1>5, <1>6, <1>7, <1>8
     DEF Next, DeviceNext, ApiNext, OtherRequests, ParserNext

LEMMA TrailInductive == ASSUME Typed, Typed', Trail, [Next]_vars PROVE Trail'
<1>0. Advances /\ queue \in Seq(Items)
  BY StepAdvances, Spots
<1>1. Trailed(dev', link', queue')
  <2>1. /\ Booted(dev) /\ Booted(dev') /\ Spot(link) /\ Spot(link')
    BY BootedNow, BootedNext, Spots, SpotsNext DEF Typed
  <2> QED BY <1>0, <2>1, TrailedForward DEF Advances, Trail
<1>2. parser'.at = "taken" => Ahead(dev', link', queue', parser'.line.from)
  <2> HAVE parser'.at = "taken"
  <2>1. CASE parser' = parser
    <3>1. parser.line.from \in Epochs
      BY <2>1, LineFields DEF Typed, ParserTyped
    <3>2. PICK o \in Epochs : o = parser.line.from
      BY <3>1
    <3>3. Ahead(dev', link', queue', o)
      BY <1>0, <2>1, <3>2, AheadAdvances DEF Trail
    <3> QED BY <2>1, <3>2, <3>3
  <2>2. CASE TakeLine /\ parser'.line = Head(queue)
    <3>1. /\ queue # <<>> /\ queue' = Tail(queue) /\ ~IsState(Head(queue))
          /\ dev' = dev /\ link' = link
      BY <2>2, TakeLineIs
    <3>2. /\ Head(queue) = queue[1] /\ 1 \in DOMAIN queue
          /\ \A i \in DOMAIN queue' : i + 1 \in DOMAIN queue /\ queue'[i] = queue[i+1] /\ 1 < i + 1
      BY <1>0, <3>1, TailOne, LenProperties
    <3>3. Traced(dev, link, queue[1].from)
      BY <3>1, <3>2 DEF Trail, Trailed
    <3>4. \A i \in DOMAIN queue' : ~IsState(queue'[i]) => Evolves(queue[1].from, queue'[i].from)
      BY <3>1, <3>2 DEF Trail, Trailed
    <3> QED BY <2>2, <3>1, <3>2, <3>3, <3>4 DEF Ahead
  <2> QED BY <2>1, <2>2, LineTaken
<1> QED
  BY <1>1, <1>2 DEF Trail

LEMMA InitTrail == ASSUME Init PROVE Trail
<1>1. queue = <<>> /\ DOMAIN queue = {} /\ parser.at = "loop"
  BY AtLoopIs DEF Init
<1> QED
  BY <1>1 DEF Trail, Trailed

-----------------------------------------------------------------------------
(* What is fresh is of the link on display                                  *)

LEMMA FreshFields ==
  ASSUME HostTyped
  PROVE  /\ BatteryFresh(tele) => tele.latest.from \in Epochs
         /\ RailFresh(tele) => tele.rail.from \in Epochs
<1>1. tele.latest \in MaybeReading /\ tele.rail \in MaybeReading
  BY TeleFields DEF HostTyped
<1>2. \A r \in Readings : r.from \in Epochs
  BY DEF Readings
<1> QED
  BY <1>1, <1>2 DEF BatteryFresh, RailFresh, MaybeReading

LEMMA FreshKept ==
  ASSUME Typed, Typed', Advances, Fresh, NothingNew(tele', tele), SamePlace(commands', commands)
  PROVE  Fresh'
<1>1. BatteryFresh(tele') => OfKnownLink(tele.latest)' /\ Traced(dev', link', tele'.latest.from)
  <2> HAVE BatteryFresh(tele')
  <2>1. BatteryFresh(tele) /\ tele'.latest = tele.latest
    BY DEF NothingNew
  <2>2. PICK o \in Epochs : o = tele.latest.from
    BY <2>1, FreshFields DEF Typed
  <2>3. Traced(dev', link', o)
    BY <2>1, <2>2, TracedAdvances DEF Fresh
  <2>4. OfKnownLink(tele.latest)'
    BY <2>1 DEF Fresh, OfKnownLink, SamePlace
  <2> QED BY <2>1, <2>2, <2>3, <2>4
<1>2. RailFresh(tele') => OfKnownLink(tele.rail)' /\ Traced(dev', link', tele'.rail.from)
  <2> HAVE RailFresh(tele')
  <2>1. RailFresh(tele) /\ tele'.rail = tele.rail
    BY DEF NothingNew
  <2>2. PICK o \in Epochs : o = tele.rail.from
    BY <2>1, FreshFields DEF Typed
  <2>3. Traced(dev', link', o)
    BY <2>1, <2>2, TracedAdvances DEF Fresh
  <2>4. OfKnownLink(tele.rail)'
    BY <2>1 DEF Fresh, OfKnownLink, SamePlace
  <2> QED BY <2>1, <2>2, <2>3, <2>4
<1> QED
  BY <1>1, <1>2 DEF Fresh

\* What Handle() does to the telemetry and to the place of the parser.
LEMMA HandleBrings ==
  ASSUME Typed, Handle
  PROVE  Brings(parser.line) /\ SamePlace(commands', commands)
<1> PICK l \in Lines : l = parser.line /\ Proper(l)
  BY HandleIs
<1>0. HostTyped /\ BaselineTyped /\ (tele' = tele => Brings(l))
      /\ (commands' = commands => SamePlace(commands', commands))
  BY DEF Typed, Brings, SamePlace
<1>1. CASE /\ (l.kind = "battery" /\ tele' = UpdateBattery(tele, l))
              \/ (l.kind = "rail" /\ tele' = UpdateRail(tele, l))
           /\ UNCHANGED <<commands, store, capture, baseline>>
  BY <1>0, <1>1, HandleTelemetryIs
<1>2. CASE commands' = commands /\ tele' = tele
  BY <1>0, <1>2
<1>3. CASE HandleBoot(l)
  BY <1>0, <1>3, HandleBootIs DEF NothingNew, Brings
<1> QED
  BY <1>1, <1>2, <1>3 DEF Handle

LEMMA HandleFresh == ASSUME Typed, Ordered, Trail, Fresh, Handle PROVE Fresh'
<1> DEFINE o == parser.line.from
<1>1. /\ parser.at = "taken" /\ dev' = dev /\ link' = link
  BY HandleIs
<1>2. Brings(parser.line) /\ SamePlace(commands', commands)
  BY HandleBrings
<1>3. /\ OfKnownLink(parser.line) /\ Traced(dev, link, o)
  BY <1>1 DEF Ordered, Trail, Ahead
<1>4. BatteryFresh(tele') => OfKnownLink(tele.latest)' /\ Traced(dev', link', tele'.latest.from)
  <2>1. CASE BatteryFresh(tele) /\ tele'.latest = tele.latest
    BY <1>1, <1>2, <2>1 DEF Fresh, OfKnownLink, SamePlace
  <2>2. CASE tele'.latest.from = o
    BY <1>1, <1>2, <1>3, <2>2 DEF OfKnownLink, SamePlace
  <2> QED BY <1>2, <2>1, <2>2 DEF Brings
<1>5. RailFresh(tele') => OfKnownLink(tele.rail)' /\ Traced(dev', link', tele'.rail.from)
  <2>1. CASE RailFresh(tele) /\ tele'.rail = tele.rail
    BY <1>1, <1>2, <2>1 DEF Fresh, OfKnownLink, SamePlace
  <2>2. CASE tele'.rail.from = o
    BY <1>1, <1>2, <1>3, <2>2 DEF OfKnownLink, SamePlace
  <2> QED BY <1>2, <2>1, <2>2 DEF Brings
<1> QED
  BY <1>4, <1>5 DEF Fresh

\* But for the parser, a step leaves the values and the place of the parser alone,
\* or marks them as stale.
HostStands == (tele' = tele \/ Calm(tele')) /\ commands' = commands

LEMMA OtherStepsStand ==
  ASSUME Typed, [Next]_vars, ~ParseState, ~Handle
  PROVE  /\ HostStands
         /\ store'.resync = store.resync /\ store'.applied = store.applied
         /\ Kept(capture') /\ Kept(parser'.done) /\ Kept(baseline')
<1>1. CASE UNCHANGED <<commands, store, tele, capture, baseline>> /\ parser'.done = parser.done
  BY <1>1, KeptSame DEF HostStands
<1>2. CASE LinkUp \/ LinkDown \/ Reboot
  BY <1>1, <1>2, LinkUpIs, LinkDownIs, RebootIs DEF Typed, LinkOnly
<1>3. CASE Send \/ Answer \/ Change
  BY <1>1, <1>3, SendIs, AnswerIs, ChangeIs DEF Typed, Sends
<1>4. CASE Switch
  BY <1>1, <1>4, SwitchIs DEF Typed
<1>5. CASE OtherRequests \/ Elapse \/ NoInput \/ Look \/ Finish
  BY <1>5, OtherRequestsAre, ElapseIs, NoInputIs, LookIs, FinishIs DEF Quiet, HostStands
<1>6. CASE TakeLine
  BY <1>1, <1>6, TakeLineIs
<1>7. CASE UNCHANGED vars
  BY <1>1, <1>7 DEF vars
<1> QED
  BY <1>2, <1>3, <1>4, <1>5, <1>6, <1>7
     DEF Next, DeviceNext, ApiNext, OtherRequests, ParserNext

LEMMA FreshInductive ==
  ASSUME Typed, Typed', Ordered, Trail, Fresh, [Next]_vars
  PROVE  Fresh'
<1>1. CASE ParseState
  BY <1>1, AdoptsPlace DEF Fresh, Calm
<1>2. CASE Handle
  BY <1>2, HandleFresh
<1>3. CASE ~ParseState /\ ~Handle
  <2>1. HostStands
    BY <1>3, OtherStepsStand
  <2>2. NothingNew(tele', tele) /\ SamePlace(commands', commands)
    BY <2>1 DEF HostStands, NothingNew, Calm, SamePlace
  <2> QED BY <2>2, FreshKept, StepAdvances
<1> QED
  BY <1>1, <1>2, <1>3

LEMMA InitFresh == ASSUME Init PROVE Fresh
  BY NoTelemetryTyped DEF Init, Fresh, Calm

\* A battery or rail value shown as fresh was measured on the link that is up for the
\* parser, by the board on display: the parser follows the links in order, and none
\* opens in the session of another before the end of that one, which makes all
\* values stale.
THEOREM ValuesAreLive == Spec => []FreshIsLive
<1> DEFINE IInv == Typed /\ Ordered /\ Trail /\ Fresh
<1>1. Init => IInv
  BY InitTyped, InitOrdered, InitTrail, InitFresh
<1>2. IInv /\ [Next]_vars => IInv'
  BY TypedInductive, OrderedInductive, TrailInductive, FreshInductive
<1>3. IInv => FreshIsLive
  BY DEF FreshIsLive, Fresh, Traced, OfKnownLink
<1> QED
  BY <1>1, <1>2, <1>3, PTL DEF Spec

-----------------------------------------------------------------------------
(* The samples of a baseline                                                *)

LEMMA CommandsAdvance ==
  ASSUME Typed, Ordered, [Next]_vars
  PROVE  NoLater(commands, commands')
<1>0. Spot(commands)
  BY Spots
<1>1. CASE ParseState
  BY <1>1, AdoptsPlace
<1>2. CASE Handle
  BY <1>0, <1>2, HandleBrings DEF NoLater, SamePlace, Spot
<1>3. CASE ~ParseState /\ ~Handle
  BY <1>0, <1>3, OtherStepsStand DEF HostStands, NoLater, Spot
<1> QED
  BY <1>1, <1>2, <1>3

\* A sample stays in the past of every line, and none becomes current again.
LEMMA SampleStays ==
  ASSUME Typed, Typed', Ordered, [Next]_vars, NEW y \in Samples, NEW id, SampleFits(y, id)
  PROVE  /\ Ahead(dev', link', queue', y.from) /\ NoLater(y.from, commands')
         /\ parser'.at = "taken" => Evolves(y.from, parser'.line.from)
         /\ Current(dev', commands', y) => Current(dev, commands, y) /\ SamePlace(commands', commands)
<1>1. /\ y.from \in Epochs /\ Advances /\ NoLater(commands, commands')
      /\ Spot(commands) /\ Spot(commands') /\ queue \in Seq(Items)
  BY StepAdvances, CommandsAdvance, Spots, SpotsNext DEF Samples
<1>2. Spot(y.from) /\ y.from.dev \in Devices /\ y.from.boot \in Nat
  BY <1>1, EpochFields
<1>3. Ahead(dev, link, queue, y.from) /\ NoLater(y.from, commands)
  BY DEF SampleFits
<1>4. Ahead(dev', link', queue', y.from)
  <2> PICK o \in Epochs : o = y.from
    BY <1>1
  <2> QED BY <1>1, <1>3, AheadAdvances
<1>5. NoLater(y.from, commands')
  BY <1>1, <1>2, <1>3, NoLaterTransitive
<1>6. parser'.at = "taken" => Evolves(y.from, parser'.line.from)
  <2> HAVE parser'.at = "taken"
  <2>1. CASE parser' = parser
    BY <2>1 DEF SampleFits
  <2>2. CASE TakeLine /\ parser'.line = Head(queue)
    <3>1. queue # <<>> /\ ~IsState(Head(queue))
      BY <2>2, TakeLineIs
    <3>2. Head(queue) = queue[1] /\ 1 \in DOMAIN queue
      BY <1>1, <3>1, TailOne
    <3> QED BY <1>3, <2>2, <3>1, <3>2 DEF Ahead
  <2> QED BY <2>1, <2>2, LineTaken
<1>7. Current(dev', commands', y) => Current(dev, commands, y) /\ SamePlace(commands', commands)
  <2> HAVE Current(dev', commands', y)
  <2>1. SamePlace(y.from, commands) /\ SamePlace(commands', commands)
    BY <1>1, <1>2, <1>3 DEF Current, NoLater, SamePlace, Spot
  <2>2. y.from.boot <= dev[y.from.dev].boot /\ dev[y.from.dev].boot <= dev'[y.from.dev].boot
        /\ y.from.boot = dev'[y.from.dev].boot /\ dev[y.from.dev].boot \in Nat
    BY <1>1, <1>2, <1>3, BootedNow DEF Ahead, Traced, Advances, Onward, Current, Typed, Booted
  <2>3. y.from.boot = dev[y.from.dev].boot
    BY <1>2, <2>2
  <2> QED BY <2>1, <2>3 DEF Current
<1> QED
  BY <1>4, <1>5, <1>6, <1>7

LEMMA SampleKept ==
  ASSUME Typed, Typed', Ordered, [Next]_vars, NEW y \in Samples, NEW id, SampleFits(y, id),
         Current(dev, commands, y) /\ SamePlace(commands', commands) /\ Matched(y, id)
           => Matched(y, id)'
  PROVE  SampleFits(y, id)'
<1>1. Current(dev', commands', y) => Matched(y, id)'
  BY SampleStays DEF SampleFits
<1> QED
  BY <1>1, SampleStays DEF SampleFits

AllKept == \A y \in Samples, id \in 0 .. MaxChanges : SampleFits(y, id) => SampleFits(y, id)'

\* A capture or a baseline that a step keeps still fits.
LEMMA KeptFits ==
  ASSUME Typed, Sampling, AllKept, NEW x \in MaybeCapture, Kept(x)
  PROVE  SamplesFit(x)'
<1>1. ASSUME NEW y \in Samples, x # None, y \in x.samples
      PROVE  SampleFits(y, x.id)
  <2>1. x \in Captures /\ x.id \in 0 .. MaxChanges
    BY <1>1, CaptureFields DEF MaybeCapture
  <2> QED BY <1>1, <2>1 DEF Kept, SameSamples, Sampling, SamplesFit
<1>2. ASSUME x # None, NEW y \in x.samples
      PROVE  SampleFits(y, x.id)'
  <2>1. x.id \in 0 .. MaxChanges /\ y \in Samples
    BY <1>2, CaptureFields DEF MaybeCapture
  <2>2. SampleFits(y, x.id)
    BY <1>1, <1>2, <2>1
  <2>3. PICK id \in 0 .. MaxChanges : id = x.id
    BY <2>1
  <2>4. SampleFits(y, id)'
    BY <2>1, <2>2, <2>3 DEF AllKept
  <2> QED BY <2>3, <2>4
<1> QED
  BY <1>2 DEF SamplesFit

LEMMA SamplingKept ==
  ASSUME Typed, Typed', Sampling, AllKept, Kept(capture'), Kept(parser'.done), Kept(baseline')
  PROVE  Sampling'
<1>1. /\ capture' \in MaybeCapture /\ baseline' \in MaybeCapture
      /\ parser'.done \in MaybeCapture
  BY DEF Typed, BaselineTyped, ParserTyped, ParserType
<1>2. SamplesFit(capture)'
  <2> PICK x \in MaybeCapture : x = capture'
    BY <1>1
  <2> QED BY KeptFits DEF SamplesFit
<1>3. SamplesFit(parser.done)'
  <2> PICK x \in MaybeCapture : x = parser'.done
    BY <1>1
  <2> QED BY KeptFits DEF SamplesFit
<1>4. SamplesFit(baseline)'
  <2> PICK x \in MaybeCapture : x = baseline'
    BY <1>1
  <2> QED BY KeptFits DEF SamplesFit
<1> QED
  BY <1>2, <1>3, <1>4 DEF Sampling

LEMMA AllMatchedKept ==
  ASSUME Typed, Typed', Ordered, [Next]_vars,
         SamePlace(commands', commands)
           => /\ store'.resync = store.resync /\ store'.applied = store.applied
              /\ commands'.boot = commands.boot
  PROVE  AllKept
<1> SUFFICES ASSUME NEW y \in Samples, NEW id \in 0 .. MaxChanges, SampleFits(y, id)
             PROVE  SampleFits(y, id)'
  BY DEF AllKept
<1>1. SamePlace(commands', commands) /\ Matched(y, id) => Matched(y, id)'
  BY DEF Matched
<1> QED
  BY <1>1, SampleKept

LEMMA FrameSampling ==
  ASSUME Typed, Typed', Ordered, Trail, Sampling, Handle,
         HandleFrame(parser.line), parser.line.kind = "frame",
         UNCHANGED <<commands, tele, baseline>>
  PROVE  Sampling'
<1> PICK l \in Lines : l = parser.line /\ Proper(l)
  BY HandleIs
<1>0. /\ HostTyped /\ BaselineTyped /\ [Next]_vars
      /\ parser.at = "taken" /\ parser'.at = "look" /\ parser'.done = None
      /\ UNCHANGED <<dev, link, queue>>
  BY HandleIs DEF Typed, Next, ParserNext
<1>1. /\ store'.resync = store.resync /\ store'.applied = store.applied
      /\ \/ capture' = capture
         \/ /\ capture # None /\ capture' \in Captures /\ capture'.id = capture.id
            /\ ~store.resync /\ l.config = store.applied /\ l.config.id = capture.id
            /\ capture'.samples = capture.samples \cup {[from |-> l.from, known |-> commands.boot]}
  BY <1>0, HandleFrameIs
<1>2. AllKept
  BY <1>0, <1>1, AllMatchedKept
<1>3. CASE capture' = capture
  BY <1>0, <1>2, <1>3, SamplingKept, KeptSame
<1>4. CASE /\ capture # None /\ capture' \in Captures /\ capture'.id = capture.id
           /\ ~store.resync /\ l.config = store.applied /\ l.config.id = capture.id
           /\ capture'.samples = capture.samples \cup {[from |-> l.from, known |-> commands.boot]}
  <2> DEFINE n == [from |-> l.from, known |-> commands.boot]
  <2>1. PICK x \in MaybeCapture : x = capture
    BY <1>0 DEF BaselineTyped
  <2>2. SamplesFit(x)'
    BY <1>2, <2>1, KeptFits DEF Kept, SameSamples
  <2>3. x # None /\ capture'.id = x.id /\ capture'.samples = x.samples \cup {n}
    BY <1>4, <2>1
  <2>4. n.from = l.from /\ n.known = commands.boot
    OBVIOUS
  <2> HIDE DEF n
  <2>5. /\ Ahead(dev', link', queue', n.from) /\ NoLater(n.from, commands')
    <3>1. Ahead(dev, link, queue, l.from) /\ OfKnownLink(l)
      BY <1>0 DEF Trail, Ordered
    <3>2. Spot(l.from) /\ Spot(commands)
      BY LineFields, EpochFields, Spots
    <3>3. NoLater(l.from, commands)
      BY <3>1, <3>2 DEF OfKnownLink, NoLater, Spot
    <3> QED BY <1>0, <2>4, <3>1, <3>3
  <2>6. /\ ~store'.resync /\ store'.applied = [cap |-> TRUE, id |-> x.id]
        /\ commands'.boot = n.known
    <3>1. l.config \in Configs /\ l.config.cap
      BY LineFields DEF Proper
    <3>2. l.config = [cap |-> TRUE, id |-> l.config.id]
      BY <3>1 DEF Configs
    <3> QED BY <1>1, <1>4, <2>1, <2>4, <3>2
  <2>7. \A y \in capture'.samples : SampleFits(y, capture.id)'
    <3> TAKE y \in capture'.samples
    <3>1. CASE y = n
      BY <1>0, <2>3, <2>5, <2>6, <3>1 DEF SampleFits, Matched
    <3>2. CASE y \in x.samples
      BY <2>2, <2>3, <3>2 DEF SamplesFit
    <3> QED BY <2>3, <3>1, <3>2
  <2>8. SamplesFit(capture)'
    BY <2>7 DEF SamplesFit
  <2>9. PICK z \in MaybeCapture : z = baseline
    BY <1>0 DEF BaselineTyped
  <2>10. SamplesFit(z)'
    BY <1>2, <2>9, KeptFits DEF Kept, SameSamples
  <2>11. SamplesFit(baseline)' /\ SamplesFit(parser.done)'
    BY <1>0, <2>9, <2>10 DEF SamplesFit
  <2> QED BY <2>8, <2>11 DEF Sampling
<1> QED
  BY <1>1, <1>3, <1>4

LEMMA BootSampling ==
  ASSUME Typed, Typed', Ordered, Trail, Sampling, Handle,
         HandleBoot(parser.line), UNCHANGED <<capture, baseline>>
  PROVE  Sampling'
<1> PICK l \in Lines : l = parser.line
  BY HandleIs
<1>0. /\ HostTyped /\ [Next]_vars /\ DeviceTyped
      /\ parser.at = "taken" /\ parser'.done = None
  BY HandleIs DEF Typed, Next, ParserNext
<1>1. /\ SamePlace(commands', commands) /\ commands'.boot = l.from.boot
      /\ store'.applied = store.applied
      /\ commands.boot = l.from.boot => store'.resync = store.resync
  BY <1>0, HandleBootIs
<1>2. OfKnownLink(l) /\ Traced(dev, link, l.from)
  BY <1>0 DEF Trail, Ordered, Ahead
<1>3. AllKept
  <2> SUFFICES ASSUME NEW y \in Samples, NEW id \in 0 .. MaxChanges, SampleFits(y, id)
               PROVE  SampleFits(y, id)'
    BY DEF AllKept
  <2>1. Current(dev, commands, y) /\ Matched(y, id) => Matched(y, id)'
    <3> HAVE Current(dev, commands, y) /\ Matched(y, id)
    <3>1. y.from \in Epochs /\ l.from \in Epochs
      BY LineFields DEF Samples
    <3>2. Evolves(y.from, l.from) /\ y.from.session = l.from.session
      BY <1>0, <1>2 DEF SampleFits, Current, SamePlace, OfKnownLink
    <3>3. y.from.dev = l.from.dev /\ y.from.boot <= l.from.boot /\ l.from.boot <= y.from.boot
      BY <1>2, <3>2 DEF Evolves, Traced, Current
    <3>4. y.from.boot = l.from.boot
      BY <3>1, <3>3, EpochFields
    <3> QED BY <1>1, <3>4 DEF Matched, Current
  <2> QED BY <1>0, <2>1, SampleKept
<1> QED
  BY <1>0, <1>3, SamplingKept, KeptSame

LEMMA HandleSampling == ASSUME Typed, Typed', Ordered, Trail, Sampling, Handle PROVE Sampling'
<1> PICK l \in Lines : l = parser.line /\ Proper(l)
  BY HandleIs
<1>0. HostTyped /\ BaselineTyped /\ [Next]_vars /\ parser'.done = None
  BY HandleIs DEF Typed, Next, ParserNext
<1>1. CASE UNCHANGED <<commands, store, capture, baseline>>
  <2>1. AllKept
    BY <1>0, <1>1, AllMatchedKept
  <2> QED BY <1>0, <1>1, <2>1, SamplingKept, KeptSame
<1>2. CASE l.kind = "frame" /\ HandleFrame(l) /\ UNCHANGED <<commands, tele, baseline>>
  BY <1>2, FrameSampling
<1>3. CASE HandleApplied(l) /\ UNCHANGED <<commands, tele>>
  <2>1. /\ store'.resync = store.resync
        /\ \/ capture' = None /\ baseline' = None
           \/ capture' = capture /\ baseline' = baseline /\ store'.applied = store.applied
    BY <1>0, <1>3, HandleAppliedIs
  <2>2. CASE capture' = None /\ baseline' = None
    BY <1>0, <2>2 DEF Sampling, SamplesFit
  <2>3. CASE capture' = capture /\ baseline' = baseline /\ store'.applied = store.applied
    <3>1. AllKept
      BY <1>0, <1>3, <2>1, <2>3, AllMatchedKept
    <3> QED BY <1>0, <2>3, <3>1, SamplingKept, KeptSame
  <2> QED BY <2>1, <2>2, <2>3
<1>4. CASE HandleReadback(l) /\ UNCHANGED <<commands, tele, capture, baseline>>
  <2>1. store.resync \/ store' = store
    BY <1>0, <1>4, HandleReadbackIs
  <2>2. AllKept
    <3> SUFFICES ASSUME NEW y \in Samples, NEW id \in 0 .. MaxChanges, SampleFits(y, id)
                 PROVE  SampleFits(y, id)'
      BY DEF AllKept
    <3>1. Matched(y, id) => Matched(y, id)'
      BY <1>4, <2>1 DEF Matched
    <3> QED BY <1>0, <3>1, SampleKept
  <2> QED BY <1>0, <1>4, <2>2, SamplingKept, KeptSame
<1>5. CASE HandleBoot(l) /\ UNCHANGED <<capture, baseline>>
  BY <1>5, BootSampling
<1> QED
  BY <1>1, <1>2, <1>3, <1>4, <1>5 DEF Handle

LEMMA SamplingInductive ==
  ASSUME Typed, Typed', Ordered, Trail, Sampling, [Next]_vars
  PROVE  Sampling'
<1>1. CASE ParseState
  <2>1. /\ UNCHANGED <<parser, capture, baseline>>
        /\ commands'.boot = commands.boot /\ store'.applied = store.applied
        /\ SamePlace(commands', commands) => store'.resync = store.resync
    BY <1>1, ParseStateIs
  <2>2. AllKept
    BY <2>1, AllMatchedKept
  <2> QED BY <2>1, <2>2, SamplingKept, KeptSame
<1>2. CASE Handle
  BY <1>2, HandleSampling
<1>3. CASE ~ParseState /\ ~Handle
  <2>1. /\ HostStands /\ store'.resync = store.resync /\ store'.applied = store.applied
        /\ Kept(capture') /\ Kept(parser'.done) /\ Kept(baseline')
    BY <1>3, OtherStepsStand
  <2>2. AllKept
    BY <2>1, AllMatchedKept DEF HostStands
  <2> QED BY <2>1, <2>2, SamplingKept
<1> QED
  BY <1>1, <1>2, <1>3

LEMMA InitSampling == ASSUME Init PROVE Sampling
<1>1. capture = None /\ baseline = None /\ parser.done = None
  BY AtLoopIs DEF Init
<1> QED
  BY <1>1 DEF Sampling, SamplesFit

\* A baseline all of whose samples are of this link and boot, when the host knew of
\* the boot, belongs to the configuration applied: every sample that is still current
\* was taken under that configuration, whatever has been captured, changed or
\* reported in between.
THEOREM BaselineMatches == Spec => []BaselineOfConfiguration
<1> DEFINE IInv == Typed /\ Ordered /\ Trail /\ Sampling
<1>1. Init => IInv
  BY InitTyped, InitOrdered, InitTrail, InitSampling
<1>2. IInv /\ [Next]_vars => IInv'
  BY TypedInductive, OrderedInductive, TrailInductive, SamplingInductive
<1>3. IInv => BaselineOfConfiguration
  <2> SUFFICES ASSUME IInv, baseline # None, link.dev # None, baseline.samples = {Here}
               PROVE  store.applied = [cap |-> TRUE, id |-> baseline.id]
    BY DEF BaselineOfConfiguration
  <2>1. SampleFits(Here, baseline.id)
    BY DEF Sampling, SamplesFit
  <2>2. /\ Here.from.dev = link.dev /\ Here.from.boot = dev[link.dev].boot
        /\ Here.from.session = commands.session /\ Here.from.conn = commands.conn
        /\ Here.known = dev[link.dev].boot
    BY DEF Here
  <2>3. Current(dev, commands, Here)
    BY <2>2 DEF Current, SamePlace
  <2> QED BY <2>1, <2>3 DEF SampleFits, Matched
<1> QED
  BY <1>1, <1>2, <1>3, PTL DEF Spec
=============================================================================
