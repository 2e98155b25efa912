---------------------------- MODULE Alerts_proofs ----------------------------
(***************************************************************************)
(* The two sources of alerts, which share no state but the bus.            *)
(*                                                                         *)
(* Incidents, for any number of incidents, briefs, sockets and alerts: the *)
(* inbox is current, a high incident is announced, and a subscribed socket *)
(* is sent every alert in order or has a full queue to show for it.  The   *)
(* three are independent.  What a sweep has still to file (Inbox) bridges  *)
(* the states between two sweeps; the dedupe table and the history of what *)
(* was said agree at every moment (Dedupe); and a queue holds what lies    *)
(* between the mark of its socket and the newest alert (BusInv).           *)
(*                                                                         *)
(* Alert rules, for any rules, sessions and sightings: whoever was told of *)
(* a thing inside is told when it leaves, and the edges an evaluation sees *)
(* cover what stands in an area.  Both are about evaluate_rules, which     *)
(* takes the candidates one by one: the memory it carries is accounted for *)
(* by the firings it has made (Memory), and so is, after each delivery or  *)
(* loss of one, what the evaluator remembers by what was told (Account).   *)
(***************************************************************************)
EXTENDS Incidents, Watch, Lemmas

-----------------------------------------------------------------------------
(* Incidents, the inbox and the bus *)

\* Every actionable incident is in the inbox, was taken from it, or is still to be
\* filed by the sweep in which it rose; between sweeps the inbox has its size.
Inbox ==
    /\ \A k \in Keys : snap["officer"][k] \in Actionable =>
          k \in ToSet(open) \cup cleared \cup ToSet(filing)
    /\ ToSet(open) \cap cleared = {}
    /\ ToSet(filing) \subseteq risen
    /\ filing = <<>> => Len(open) <= MaxBriefs

\* An alert is spoken exactly when the dedupe lets it through.
Dedupe == seen = spoken

BusInv ==
    /\ published \in Nat
    /\ socket \in [Clients -> {"off", "backfill", "live"}]
    /\ queue \in [Clients -> Seq(Nat)]
    /\ mark \in [Clients -> Nat] /\ dropped \in [Clients -> SUBSET Nat]
    /\ \A c \in Clients :
          /\ socket[c] # "live" => queue[c] = <<>>
          /\ mark[c] <= published /\ \A a \in dropped[c] : a <= published
          /\ Len(queue[c]) <= MaxQueue
    /\ StreamExplained

IncidentsInv == IncidentsTypeOK /\ Inbox /\ Dedupe /\ BusInv

-----------------------------------------------------------------------------
(* Pictures and their changes *)

LEMMA SnapshotType == ASSUME NEW pic \in Pictures PROVE Snapshot(pic) \in [Keys -> Levels]
<1> DEFINE at(k) == {i \in DOMAIN pic : pic[i].key = k}
           last(k) == CHOOSE i \in at(k) : \A j \in at(k) : j <= i
           level(k) == IF at(k) = {} THEN 0 ELSE pic[last(k)].level
<1>1. pic \in Seq([key : Keys, level : Levels \ {0}]) BY IncidentsAssumption
<1>2. /\ DOMAIN pic = 1 .. Len(pic) /\ Len(pic) \in Nat
      /\ \A i \in 1 .. Len(pic) : pic[i].level \in Levels
  <2> DEFINE R == [key : Keys, level : Levels \ {0}]
  <2>1. \A e \in R : e.level \in Levels OBVIOUS
  <2>2. pic \in Seq(R) BY <1>1
  <2> HIDE DEF R
  <2>3. DOMAIN pic = 1 .. Len(pic) /\ Len(pic) \in Nat BY <2>2, SeqContent
  <2>4. \A i \in 1 .. Len(pic) : pic[i] \in R BY <2>2, ElementOfSeq
  <2> QED BY <2>1, <2>3, <2>4
<1>3. ASSUME NEW k \in Keys PROVE level(k) \in Levels
  <2>1. CASE at(k) = {} BY <2>1 DEF Levels
  <2>2. CASE at(k) # {}
    <3>1. at(k) \in SUBSET (1 .. Len(pic)) BY <1>2
    <3>2. \E i \in at(k) : \A j \in at(k) : j <= i
      <4> HIDE DEF at
      <4> QED BY <1>2, <2>2, <3>1, LastPosition
    <3>3. last(k) \in at(k)
      <4> HIDE DEF at
      <4> QED BY <3>2
    <3> HIDE DEF last
    <3> QED BY <1>2, <2>2, <3>1, <3>3
  <2> QED BY <2>1, <2>2
<1>4. Snapshot(pic) = [k \in Keys |-> level(k)] BY DEF Snapshot
<1> HIDE DEF level
<1> QED BY <1>3, <1>4

\* The changes are the keys that are new or worse.
LEMMA ChangesAreRose ==
    ASSUME NEW prev \in [Keys -> Levels], NEW cur \in [Keys -> Levels]
    PROVE  Changes(prev, cur) \in Seq(Keys) /\ ToSet(Changes(prev, cur)) = Rose(prev, cur)
<1> DEFINE new == {k \in Keys : prev[k] = 0 /\ cur[k] > 0}
           worse == {k \in Keys : 0 < prev[k] /\ prev[k] < cur[k]}
<1>1. IsFiniteSet(new) /\ IsFiniteSet(worse) BY IncidentsAssumption, FS_Subset
<1>2. new \cup worse = Rose(prev, cur) BY DEF Rose, Levels
<1>3. \A S : S \subseteq Keys => Seq(S) \subseteq Seq(Keys) OBVIOUS
<1>4. /\ SetToSeq(new) \in Seq(Keys) /\ ToSet(SetToSeq(new)) = new
      /\ SetToSeq(worse) \in Seq(Keys) /\ ToSet(SetToSeq(worse)) = worse
  <2>1. new \subseteq Keys /\ worse \subseteq Keys OBVIOUS
  <2> HIDE DEF new, worse
  <2> QED BY <1>1, <1>3, <2>1, Listed
<1>5. Changes(prev, cur) = SetToSeq(new) \o SetToSeq(worse) BY DEF Changes
<1> HIDE DEF new, worse
<1> DEFINE t == SetToSeq(new)
           u == SetToSeq(worse)
<1>6. t \in Seq(Keys) /\ u \in Seq(Keys) BY <1>4
<1>7. ToSet(t) \cup ToSet(u) = Rose(prev, cur) BY <1>2, <1>4
<1>8. Changes(prev, cur) = t \o u BY <1>5
<1> HIDE DEF t, u
<1>9. t \o u \in Seq(Keys) /\ ToSet(t \o u) = ToSet(t) \cup ToSet(u) BY <1>6, Concatenated
<1> QED BY <1>7, <1>8, <1>9

-----------------------------------------------------------------------------
(* The bus *)

Increasing(q) == \A i, j \in DOMAIN q : i < j => q[i] < q[j]

\* What a queue gets of the next m alerts after p: as many of the first as it has room
\* for.
LEMMA Offered ==
    ASSUME NEW q \in Seq(Nat), Len(q) <= MaxQueue, Increasing(q),
           NEW p \in Nat, \A a \in ToSet(q) : a <= p, NEW m \in Nat
    PROVE  LET o == Offer(q, Interval(p + 1, p + m)) IN
           /\ o \in Seq(Nat) /\ Len(o) <= MaxQueue /\ Increasing(o)
           /\ \A a \in ToSet(o) : a \in ToSet(q) \/ a \in p + 1 .. p + m
           /\ ToSet(q) \subseteq ToSet(o)
<1> DEFINE as == Interval(p + 1, p + m)
           room == IF m < MaxQueue - Len(q) THEN m ELSE MaxQueue - Len(q)
           u == SubSeq(as, 1, room)
           o == q \o u
<1>1. /\ Len(q) \in Nat /\ MaxQueue \in Nat /\ DOMAIN q = 1 .. Len(q)
      /\ ToSet(q) = {q[i] : i \in 1 .. Len(q)} /\ \A i \in 1 .. Len(q) : q[i] \in Nat
  BY SeqContent, ElementOfSeq, BusAssumption
<1>2. /\ as \in Seq(Nat) /\ Len(as) = m /\ \A i \in 1 .. m : as[i] = p + i
  <2>1. (p + m + 1) - (p + 1) = m OBVIOUS
  <2>2. as = [i \in 1 .. m |-> (p + 1) + i - 1] BY <2>1 DEF Interval
  <2> HIDE DEF as
  <2> QED BY <2>2
<1>3. Offer(q, as) = o BY <1>2 DEF Offer
<1> HIDE DEF as
<1>4. room \in Nat /\ room <= m /\ Len(q) + room <= MaxQueue BY <1>1
<1> HIDE DEF room
<1>5. u \in Seq(Nat) /\ Len(u) = room /\ \A i \in 1 .. room : u[i] = p + i
  <2>1. room \in 0 .. Len(as) BY <1>2, <1>4
  <2>2. /\ u \in Seq(Nat) /\ Len(u) = room /\ \A i \in 1 .. room : u[i] = as[i]
    BY <1>2, <2>1, Prefix
  <2> HIDE DEF u
  <2>3. \A i \in 1 .. room : i \in 1 .. m BY <1>4
  <2> QED BY <1>2, <2>2, <2>3
<1> HIDE DEF u
<1>6. /\ o \in Seq(Nat) /\ Len(o) = Len(q) + room
      /\ \A i \in 1 .. Len(q) : o[i] = q[i]
      /\ \A i \in 1 .. Len(o) : i > Len(q) =>
            o[i] = p + (i - Len(q)) /\ i - Len(q) \in 1 .. room
  <2>1. /\ o \in Seq(Nat) /\ Len(o) = Len(q) + Len(u)
        /\ \A i \in 1 .. Len(q) + Len(u) : o[i] = IF i <= Len(q) THEN q[i] ELSE u[i - Len(q)]
    BY <1>5, ConcatProperties
  <2> HIDE DEF o
  <2>2. \A i \in 1 .. Len(q) : o[i] = q[i] BY <1>1, <1>4, <1>5, <2>1
  <2>3. ASSUME NEW i \in 1 .. Len(o), i > Len(q)
        PROVE  o[i] = p + (i - Len(q)) /\ i - Len(q) \in 1 .. room
    <3>1. i - Len(q) \in 1 .. room BY <1>1, <1>4, <1>5, <2>1, <2>3
    <3>2. o[i] = u[i - Len(q)] BY <1>1, <1>4, <1>5, <2>1, <2>3
    <3> QED BY <1>5, <3>1, <3>2
  <2> QED BY <1>5, <2>1, <2>2, <2>3
<1> HIDE DEF o
<1>7. DOMAIN o = 1 .. Len(o) /\ ToSet(o) = {o[i] : i \in 1 .. Len(o)} BY <1>6, SeqContent
<1>8. \A i \in 1 .. Len(q) : q[i] <= p BY <1>1
<1>9. Increasing(o)
  <2> SUFFICES ASSUME NEW i \in 1 .. Len(o), NEW j \in 1 .. Len(o), i < j PROVE o[i] < o[j]
    BY <1>7 DEF Increasing
  <2>1. CASE j <= Len(q)
    <3>1. i \in 1 .. Len(q) /\ j \in 1 .. Len(q) BY <1>1, <2>1
    <3> QED BY <1>1, <1>6, <3>1 DEF Increasing
  <2>2. CASE i <= Len(q) /\ j > Len(q)
    <3>0. i \in 1 .. Len(q) BY <1>1, <1>6, <2>2
    <3>1. o[i] = q[i] /\ q[i] <= p /\ q[i] \in Nat BY <1>1, <1>6, <1>8, <3>0
    <3>2. o[j] = p + (j - Len(q)) /\ j - Len(q) \in 1 .. room BY <1>6, <2>2
    <3> QED BY <1>4, <3>1, <3>2
  <2>3. CASE i > Len(q)
    <3>1. o[i] = p + (i - Len(q)) BY <1>6, <2>3
    <3>2. j > Len(q) BY <1>1, <1>4, <1>6, <2>3
    <3>3. o[j] = p + (j - Len(q)) BY <1>6, <3>2
    <3> QED BY <1>1, <1>4, <1>6, <3>1, <3>3
  <2> QED BY <1>1, <1>4, <1>6, <2>1, <2>2, <2>3
<1>10. \A a \in ToSet(o) : a \in ToSet(q) \/ a \in p + 1 .. p + m
  <2> SUFFICES ASSUME NEW i \in 1 .. Len(o) PROVE o[i] \in ToSet(q) \/ o[i] \in p + 1 .. p + m
    BY <1>7
  <2>1. CASE i <= Len(q) BY <1>1, <1>6, <2>1
  <2>2. CASE i > Len(q) BY <1>4, <1>6, <2>2
  <2> QED BY <1>1, <1>4, <1>6, <2>1, <2>2
<1>11. ToSet(q) \subseteq ToSet(o)
  <2>1. \A i \in 1 .. Len(q) : i \in 1 .. Len(o) /\ o[i] = q[i] BY <1>1, <1>4, <1>6
  <2> QED BY <1>1, <1>7, <2>1
<1> QED BY <1>1, <1>3, <1>4, <1>6, <1>9, <1>10, <1>11 DEF as

\* A queue without its head is what is newer than the head.
LEMMA Served ==
    ASSUME NEW q \in Seq(Nat), Increasing(q), q # <<>>
    PROVE  /\ Tail(q) \in Seq(Nat) /\ Len(Tail(q)) < Len(q) /\ Increasing(Tail(q))
           /\ Head(q) \in ToSet(q) /\ Head(q) \in Nat
           /\ ToSet(Tail(q)) = {a \in ToSet(q) : a > Head(q)}
<1> DEFINE u == Tail(q)
<1>1. /\ u \in Seq(Nat) /\ Len(u) = Len(q) - 1 /\ Len(q) \in Nat \ {0}
      /\ Head(q) = q[1] /\ Head(q) \in Nat /\ \A i \in 1 .. Len(q) - 1 : u[i] = q[i + 1]
      /\ ToSet(q) = {Head(q)} \cup ToSet(u)
  BY FirstAndRest
<1> HIDE DEF u
<1>2. /\ DOMAIN u = 1 .. Len(u) /\ ToSet(u) = {u[i] : i \in 1 .. Len(u)}
      /\ DOMAIN q = 1 .. Len(q) /\ \A i \in 1 .. Len(q) : q[i] \in Nat
  BY <1>1, SeqContent, ElementOfSeq
<1>3. \A i \in 1 .. Len(u) : i + 1 \in 1 .. Len(q) /\ u[i] = q[i + 1] BY <1>1
<1>4. Increasing(u)
  <2> SUFFICES ASSUME NEW i \in 1 .. Len(u), NEW j \in 1 .. Len(u), i < j PROVE u[i] < u[j]
    BY <1>2 DEF Increasing
  <2>0. i + 1 \in 1 .. Len(q) /\ j + 1 \in 1 .. Len(q) /\ i + 1 < j + 1 BY <1>1, <1>3
  <2>1. q[i + 1] < q[j + 1] BY <1>2, <2>0 DEF Increasing
  <2> QED BY <1>3, <2>1
<1>5. \A i \in 1 .. Len(u) : u[i] > Head(q)
  <2> TAKE i \in 1 .. Len(u)
  <2>1. 1 \in 1 .. Len(q) /\ i + 1 \in 1 .. Len(q) /\ 1 < i + 1 BY <1>1, <1>3
  <2>2. q[1] < q[i + 1] BY <1>2, <2>1 DEF Increasing
  <2> QED BY <1>1, <1>2, <1>3, <2>1, <2>2
<1>6. ~(Head(q) > Head(q)) BY <1>1
<1>7. ToSet(u) = {a \in ToSet(q) : a > Head(q)} BY <1>1, <1>2, <1>5, <1>6
<1> QED BY <1>1, <1>4, <1>7 DEF u

\* Part by part, for one socket.
StreamOf(c) ==
    /\ Increasing(queue[c])
    /\ ToSet(queue[c]) = (mark[c] + 1 .. published) \ dropped[c]

LEMMA Stream ==
    /\ StreamExplained <=> \A c \in Clients : socket[c] = "live" => StreamOf(c)
    /\ StreamExplained' <=> \A c \in Clients : socket'[c] = "live" => StreamOf(c)'
BY DEF StreamExplained, StreamOf, Increasing, Live

LEMMA PublishKeeps == ASSUME BusInv, NEW m \in Nat, Publish(m) PROVE BusInv'
<1> DEFINE o(c) == Offer(queue[c], Interval(published + 1, published + m))
<1>1. /\ published \in Nat /\ published' = published + m /\ published' \in Nat
      /\ socket' = socket /\ mark' = mark
  BY DEF BusInv, Publish
<1>2. ASSUME NEW c \in Clients, socket[c] # "live"
      PROVE  /\ queue'[c] = queue[c] /\ dropped'[c] = dropped[c]
  BY <1>2 DEF Publish, Live
<1>3. ASSUME NEW c \in Clients, socket[c] = "live"
      PROVE  /\ queue'[c] \in Seq(Nat) /\ Len(queue'[c]) <= MaxQueue /\ Increasing(queue'[c])
             /\ \A a \in ToSet(queue'[c]) :
                   a \in ToSet(queue[c]) \/ a \in published + 1 .. published + m
             /\ ToSet(queue[c]) \subseteq ToSet(queue'[c])
             /\ dropped'[c] = dropped[c]
                              \cup ((published + 1 .. published + m) \ ToSet(queue'[c]))
  <2>1. /\ queue[c] \in Seq(Nat) /\ Len(queue[c]) <= MaxQueue /\ Increasing(queue[c])
        /\ ToSet(queue[c]) = (mark[c] + 1 .. published) \ dropped[c]
    BY <1>3, Stream DEF BusInv, StreamOf
  <2>2. \A a \in ToSet(queue[c]) : a <= published BY <1>1, <2>1
  <2>3. queue'[c] = o(c) BY <1>3 DEF Publish, Live
  <2>4. /\ o(c) \in Seq(Nat) /\ Len(o(c)) <= MaxQueue /\ Increasing(o(c))
        /\ \A a \in ToSet(o(c)) : a \in ToSet(queue[c]) \/ a \in published + 1 .. published + m
        /\ ToSet(queue[c]) \subseteq ToSet(o(c))
    BY <1>1, <2>1, <2>2, Offered
  <2>5. dropped'[c] = dropped[c] \cup ((published + 1 .. published + m) \ ToSet(queue'[c]))
    BY <1>3 DEF Publish, Live
  <2> HIDE DEF o
  <2> QED BY <2>3, <2>4, <2>5
<1>4. queue' \in [Clients -> Seq(Nat)]
  <2>1. queue' = [c \in Clients |-> queue'[c]] BY DEF Publish
  <2>2. \A c \in Clients : queue'[c] \in Seq(Nat) BY <1>2, <1>3 DEF BusInv
  <2> QED BY <2>1, <2>2
<1>5. dropped' \in [Clients -> SUBSET Nat]
  <2>1. dropped' = [c \in Clients |-> dropped'[c]] BY DEF Publish
  <2>2. published + 1 .. published + m \subseteq Nat BY <1>1
  <2>3. \A c \in Clients : dropped[c] \subseteq Nat BY DEF BusInv
  <2>4. \A c \in Clients : dropped'[c] \subseteq Nat BY <1>2, <1>3, <2>2, <2>3
  <2> QED BY <2>1, <2>4
<1>6. ASSUME NEW c \in Clients
      PROVE  /\ socket'[c] # "live" => queue'[c] = <<>>
             /\ mark'[c] <= published' /\ \A a \in dropped'[c] : a <= published'
             /\ Len(queue'[c]) <= MaxQueue
  <2>1. mark[c] \in Nat /\ mark[c] <= published BY DEF BusInv
  <2>2. \A a \in dropped[c] : a \in Nat /\ a <= published BY DEF BusInv
  <2>3. \A a \in dropped'[c] : a <= published'
    <3>1. CASE socket[c] = "live" BY <1>1, <1>3, <2>2, <3>1
    <3>2. CASE socket[c] # "live" BY <1>1, <1>2, <2>2, <3>2
    <3> QED BY <3>1, <3>2
  <2> QED BY <1>1, <1>2, <1>3, <2>1, <2>3 DEF BusInv
<1>7. StreamExplained'
  <2> SUFFICES ASSUME NEW c \in Clients, socket[c] = "live" PROVE StreamOf(c)'
    BY <1>1, Stream
  <2>1. ToSet(queue[c]) = (mark[c] + 1 .. published) \ dropped[c] /\ mark[c] \in Nat
        /\ mark[c] <= published /\ \A a \in dropped[c] : a \in Nat /\ a <= published
    BY Stream DEF BusInv, StreamOf
  <2> DEFINE old == mark[c] + 1 .. published
             new == published + 1 .. published + m
  <2>2. mark[c] + 1 .. published + m = old \cup new BY <1>1, <2>1
  <2>3. \A a \in new : a \notin old /\ a \notin dropped[c] BY <1>1, <2>1
  <2> HIDE DEF old, new
  <2>4. ToSet(queue'[c]) = (old \cup new) \ dropped'[c]
    BY <1>3, <2>1, <2>3 DEF old, new
  <2> QED BY <1>1, <1>3, <2>2, <2>4 DEF StreamOf
<1> QED BY <1>1, <1>4, <1>5, <1>6, <1>7 DEF BusInv

LEMMA SocketKeeps == ASSUME BusInv, NEW c \in Clients, Socket(c) PROVE BusInv'
<1>1. ASSUME Connect(c) \/ SendBackfill(c) PROVE BusInv'
  BY <1>1, Stream DEF Connect, SendBackfill, BusInv, StreamOf, Increasing
<1>2. ASSUME Subscribe(c) PROVE BusInv'
  <2>1. /\ queue[c] = <<>> /\ socket' = [socket EXCEPT ![c] = "live"]
        /\ mark' = [mark EXCEPT ![c] = published] /\ UNCHANGED <<published, queue, dropped>>
    BY <1>2 DEF BusInv, Subscribe
  <2>2. Increasing(<<>>) BY DEF Increasing
  <2>3. StreamOf(c)'
    <3>1. published + 1 .. published = {} BY DEF BusInv
    <3> QED BY <2>1, <2>2, <3>1, EmptyContent DEF BusInv, StreamOf
  <2>4. \A d \in Clients : d # c /\ socket[d] = "live" => StreamOf(d)'
    BY <2>1, Stream DEF BusInv, StreamOf
  <2>5. StreamExplained' BY <2>1, <2>3, <2>4, Stream DEF BusInv
  <2> QED BY <2>1, <2>5 DEF BusInv
<1>3. ASSUME Send(c) PROVE BusInv'
  <2> DEFINE h == Head(queue[c])
  <2>1. /\ socket[c] = "live" /\ queue[c] # <<>> /\ queue' = [queue EXCEPT ![c] = Tail(@)]
        /\ mark' = [mark EXCEPT ![c] = h]
        /\ dropped' = [dropped EXCEPT ![c] = {a \in @ : a > h}]
        /\ UNCHANGED <<published, socket>>
    BY <1>3 DEF Send
  <2>2. /\ queue[c] \in Seq(Nat) /\ Increasing(queue[c]) /\ published \in Nat
        /\ ToSet(queue[c]) = (mark[c] + 1 .. published) \ dropped[c] /\ mark[c] \in Nat
    BY <2>1, Stream DEF BusInv, StreamOf
  <2>3. /\ Tail(queue[c]) \in Seq(Nat) /\ Increasing(Tail(queue[c]))
        /\ Len(Tail(queue[c])) < Len(queue[c]) /\ h \in ToSet(queue[c]) /\ h \in Nat
        /\ ToSet(Tail(queue[c])) = {a \in ToSet(queue[c]) : a > h}
    BY <2>1, <2>2, Served
  <2>4. h \in mark[c] + 1 .. published BY <2>2, <2>3
  <2> HIDE DEF h
  <2>5. StreamOf(c)'
    <3>1. queue'[c] = Tail(queue[c]) /\ mark'[c] = h /\ dropped'[c] = {a \in dropped[c] : a > h}
      BY <2>1 DEF BusInv
    <3>2. {a \in ToSet(queue[c]) : a > h} = (h + 1 .. published) \ {a \in dropped[c] : a > h}
      BY <2>2, <2>3, <2>4
    <3> QED BY <2>1, <2>3, <3>1, <3>2 DEF StreamOf
  <2>6. \A d \in Clients : d # c /\ socket[d] = "live" => StreamOf(d)'
    BY <2>1, Stream DEF BusInv, StreamOf
  <2>7. StreamExplained' BY <2>1, <2>5, <2>6, Stream
  <2>8. Len(Tail(queue[c])) <= MaxQueue
    <3>1. Len(queue[c]) \in Nat /\ Len(Tail(queue[c])) \in Nat /\ MaxQueue \in Nat
      BY <2>2, <2>3, SeqContent, BusAssumption
    <3> QED BY <2>3, <3>1 DEF BusInv
  <2> QED BY <2>1, <2>2, <2>3, <2>4, <2>7, <2>8 DEF BusInv
<1>4. ASSUME Disconnect(c) PROVE BusInv'
  <2>1. StreamExplained'
    BY <1>4, Stream DEF Disconnect, BusInv, StreamOf
  <2> QED BY <1>4, <2>1, EmptyContent, BusAssumption DEF Disconnect, BusInv
<1> QED BY <1>1, <1>2, <1>3, <1>4 DEF Socket

LEMMA BusStarts ==
    ASSUME published' = 0, socket' = [c \in Clients |-> "off"],
           queue' = [c \in Clients |-> <<>>], mark' = [c \in Clients |-> 0],
           dropped' = [c \in Clients |-> {}]
    PROVE  BusInv'
BY Stream, EmptyContent, BusAssumption DEF BusInv, StreamExplained, Live

-----------------------------------------------------------------------------
(* Every step keeps the invariant *)

\* What a step of the officer reads.
LEMMA OfficerFacts ==
    ASSUME IncidentsInv
    PROVE  /\ snap["officer"] \in [Keys -> Levels] /\ snap["global"] \in [Keys -> Levels]
           /\ \A k \in Keys : snap["officer"][k] \in Actionable =>
                 k \in ToSet(open) \cup cleared \cup ToSet(filing)
           /\ ToSet(open) \cap cleared = {} /\ ToSet(filing) \subseteq risen
BY DEF IncidentsInv, IncidentsTypeOK, Inbox, Scopes

LEMMA SweepKeeps == ASSUME IncidentsInv, OfficerSweep PROVE IncidentsInv'
<1>1. PICK pic \in Pictures :
         /\ snap' = [snap EXCEPT !["officer"] = Snapshot(pic)]
         /\ filing' = Changes(snap["officer"], Snapshot(pic))
         /\ risen' = IF filing' = <<>> THEN {} ELSE Rose(snap["officer"], Snapshot(pic))
         /\ cleared' = cleared \ Rose(snap["officer"], Snapshot(pic))
  BY DEF OfficerSweep
<1> DEFINE prev == snap["officer"]
           cur == Snapshot(pic)
<1>2. prev \in [Keys -> Levels] /\ cur \in [Keys -> Levels]
  BY OfficerFacts, SnapshotType
<1>3. filing' \in Seq(Keys) /\ ToSet(filing') = Rose(prev, cur)
  BY <1>1, <1>2, ChangesAreRose
<1>4. snap' \in [Scopes -> [Keys -> Levels]] /\ snap'["officer"] = cur
  BY <1>1, <1>2 DEF IncidentsInv, IncidentsTypeOK, Scopes
<1>5. filing = <<>> /\ UNCHANGED <<open, seen, spoken, busVars>> BY DEF OfficerSweep
<1> HIDE DEF prev, cur
<1>6. IncidentsTypeOK'
  <2>1. Rose(prev, cur) \subseteq Keys BY DEF Rose
  <2>2. risen' \subseteq Keys /\ cleared' \subseteq Keys
    BY <1>1, <2>1 DEF IncidentsInv, IncidentsTypeOK, prev, cur
  <2> QED BY <1>3, <1>4, <1>5, <2>2 DEF IncidentsInv, IncidentsTypeOK
<1>7. Inbox'
  <2>1. \A k \in Keys : cur[k] \in Actionable =>
           k \in ToSet(open) \cup (cleared \ Rose(prev, cur)) \cup Rose(prev, cur)
    <3> SUFFICES ASSUME NEW k \in Keys, cur[k] \in Actionable, k \notin Rose(prev, cur)
                 PROVE  k \in ToSet(open) \cup cleared
      OBVIOUS
    <3>1. prev[k] \in Levels /\ cur[k] \in Levels /\ ~(prev[k] < cur[k]) BY <1>2 DEF Rose
    <3>2. prev[k] \in Actionable BY <3>1 DEF Actionable, Levels
    <3> QED BY <1>5, <3>2, OfficerFacts, EmptyContent DEF prev
  <2>2. ToSet(filing') \subseteq risen'
    <3>1. CASE filing' = <<>> BY <3>1, EmptyContent
    <3>2. CASE filing' # <<>> BY <1>1, <1>3, <3>2 DEF prev, cur
    <3> QED BY <3>1, <3>2
  <2>3. cleared' = cleared \ Rose(prev, cur) BY <1>1 DEF prev, cur
  <2> QED BY <1>3, <1>4, <1>5, <2>1, <2>2, <2>3, OfficerFacts DEF IncidentsInv, Inbox
<1>8. Dedupe' BY <1>5 DEF IncidentsInv, Dedupe
<1>9. BusInv' BY <1>5 DEF IncidentsInv, BusInv, busVars, StreamExplained, Live
<1> QED BY <1>6, <1>7, <1>8, <1>9 DEF IncidentsInv

\* The oldest briefs go, and with them nothing is lost count of.
LEMMA EvictKeeps ==
    ASSUME NEW bs \in Seq(Keys), IsInjective(bs)
    PROVE  /\ Evict(bs) \in Seq(Keys) /\ IsInjective(Evict(bs)) /\ Len(Evict(bs)) <= MaxBriefs
           /\ ToSet(Evict(bs)) \subseteq ToSet(bs)
<1> DEFINE m == IF Len(bs) > MaxBriefs THEN Len(bs) - MaxBriefs + 1 ELSE 1
<1>1. Len(bs) \in Nat /\ MaxBriefs \in Nat BY SeqContent, IncidentsAssumption
<1>2. m \in 1 .. Len(bs) + 1 /\ Len(bs) + 1 - m <= MaxBriefs BY <1>1
<1>3. Evict(bs) = SubSeq(bs, m, Len(bs)) BY DEF Evict
<1> HIDE DEF m
<1> QED BY <1>2, <1>3, Suffix

LEMMA FileKeeps == ASSUME IncidentsInv, FileNext PROVE IncidentsInv'
<1> DEFINE k == Head(filing)
           more == IF Files(k) THEN Append(open, k) ELSE open
           last == Len(filing) = 1
           kept == IF Files(k) /\ k \in risen THEN cleared \ {k} ELSE cleared
<1>1. /\ filing # <<>>
      /\ open' = IF last THEN Evict(more) ELSE more
      /\ filing' = Tail(filing)
      /\ risen' = IF last THEN {} ELSE risen
      /\ cleared' = kept \cup (ToSet(more) \ ToSet(open'))
      /\ UNCHANGED <<snap, seen, spoken, busVars>>
  BY DEF FileNext
<1>2. /\ filing \in Seq(Keys) /\ open \in Seq(Keys) /\ IsInjective(open)
      /\ risen \subseteq Keys /\ cleared \subseteq Keys
  BY DEF IncidentsInv, IncidentsTypeOK
<1>3. /\ k \in Keys /\ filing' \in Seq(Keys) /\ Len(filing') = Len(filing) - 1
      /\ Len(filing) \in Nat /\ ToSet(filing) = {k} \cup ToSet(filing')
  BY <1>1, <1>2, FirstAndRest
<1>4. k \in risen BY <1>3, OfficerFacts
<1>5. /\ more \in Seq(Keys) /\ IsInjective(more)
      /\ ToSet(open) \subseteq ToSet(more) /\ ToSet(more) \subseteq ToSet(open) \cup {k}
      /\ snap["officer"][k] \in Actionable => k \in ToSet(more)
      /\ ToSet(more) \cap kept = {}
      /\ kept = IF Files(k) THEN cleared \ {k} ELSE cleared
      /\ Files(k) => k \in ToSet(more)
  <2>1. CASE Files(k)
    <3>1. more = Append(open, k) /\ kept = cleared \ {k} BY <1>4, <2>1
    <3>2. k \notin ToSet(open) BY <2>1 DEF Files
    <3>3. more \in Seq(Keys) /\ IsInjective(more) /\ ToSet(more) = ToSet(open) \cup {k}
      BY <1>2, <1>3, <3>1, <3>2, OneMore
    <3> HIDE DEF k, more, kept
    <3> QED BY <2>1, <3>1, <3>3, OfficerFacts
  <2>2. CASE ~Files(k)
    <3>1. more = open /\ kept = cleared BY <2>2
    <3>2. snap["officer"][k] \in Actionable => k \in ToSet(open) BY <2>2 DEF Files
    <3> HIDE DEF k, more, kept
    <3> QED BY <1>2, <2>2, <3>1, <3>2, OfficerFacts
  <2> QED BY <2>1, <2>2
<1> HIDE DEF k, more, kept
<1>6. /\ open' \in Seq(Keys) /\ IsInjective(open') /\ ToSet(open') \subseteq ToSet(more)
      /\ last => Len(open') <= MaxBriefs
  <2>1. CASE last BY <1>1, <1>5, <2>1, EvictKeeps
  <2>2. CASE ~last BY <1>1, <1>5, <2>2
  <2> QED BY <2>1, <2>2
<1>7. filing' = <<>> <=> last
  <2>1. filing' = <<>> <=> Len(filing') = 0 BY <1>3, EmptySeq
  <2> QED BY <1>3, <2>1
<1>8. IncidentsTypeOK'
  <2>1. ToSet(more) \subseteq Keys BY <1>5, SeqContent
  <2>2. kept \subseteq Keys BY <1>2, <1>5
  <2> QED BY <1>1, <1>2, <1>3, <1>6, <2>1, <2>2 DEF IncidentsInv, IncidentsTypeOK
<1>9. Inbox'
  <2>1. ToSet(more) \cup kept \subseteq ToSet(open') \cup cleared' BY <1>1
  <2>2. \A j \in Keys : snap["officer"][j] \in Actionable =>
           j \in ToSet(more) \cup kept \cup ToSet(filing')
    <3> SUFFICES ASSUME NEW j \in Keys, snap["officer"][j] \in Actionable
                 PROVE  j \in ToSet(more) \cup kept \cup ToSet(filing')
      OBVIOUS
    <3>1. CASE j = k BY <1>5, <3>1
    <3>2. CASE j # k BY <1>3, <1>5, <3>2, OfficerFacts
    <3> QED BY <3>1, <3>2
  <2>3. ToSet(open') \cap cleared' = {} BY <1>1, <1>5, <1>6
  <2>4. ToSet(filing') \subseteq risen'
    <3>1. CASE last BY <1>7, <3>1, EmptyContent
    <3>2. CASE ~last BY <1>1, <1>3, <3>2, OfficerFacts
    <3> QED BY <3>1, <3>2
  <2> QED BY <1>1, <1>6, <1>7, <2>1, <2>2, <2>3, <2>4 DEF Inbox
<1>10. Dedupe' BY <1>1 DEF IncidentsInv, Dedupe
<1>11. BusInv' BY <1>1 DEF IncidentsInv, BusInv, busVars, StreamExplained, Live
<1> QED BY <1>8, <1>9, <1>10, <1>11 DEF IncidentsInv

LEMMA DropKeeps == ASSUME IncidentsInv, NEW k \in Keys, Drop(k) PROVE IncidentsInv'
<1>1. PICK i \in DOMAIN open : open[i] = k /\ open' = RemoveAt(open, i) BY DEF Drop
<1>2. open \in Seq(Keys) /\ IsInjective(open) /\ DOMAIN open = 1 .. Len(open)
  BY SeqContent DEF IncidentsInv, IncidentsTypeOK
<1>3. /\ open' \in Seq(Keys) /\ IsInjective(open') /\ Len(open') = Len(open) - 1
      /\ ToSet(open') = ToSet(open) \ {k}
  BY <1>1, <1>2, OneLess
<1>4. cleared' = cleared \cup {k} /\ UNCHANGED <<snap, filing, seen, risen, spoken, busVars>>
  BY DEF Drop
<1>5. IncidentsTypeOK' BY <1>3, <1>4 DEF IncidentsInv, IncidentsTypeOK
<1>6. Inbox'
  <2>1. filing' = <<>> => Len(open') <= MaxBriefs
    <3>1. Len(open) \in Nat /\ MaxBriefs \in Nat BY <1>2, SeqContent, IncidentsAssumption
    <3> QED BY <1>3, <1>4, <3>1 DEF IncidentsInv, Inbox
  <2> QED BY <1>3, <1>4, <2>1 DEF IncidentsInv, Inbox
<1>7. Dedupe' BY <1>4 DEF IncidentsInv, Dedupe
<1>8. BusInv' BY <1>4 DEF IncidentsInv, BusInv, busVars, StreamExplained, Live
<1> QED BY <1>5, <1>6, <1>7, <1>8 DEF IncidentsInv

\* What the incident watch does, and what it announces.
LEMMA WatchKeeps ==
    ASSUME IncidentsInv, WatchIncidents
    PROVE  /\ IncidentsInv'
           /\ \A k \in Keys :
                 /\ snap["global"][k] < High /\ snap'["global"][k] = High => spoken'[k] < CoolDown
                 /\ spoken'[k] < spoken[k] => spoken[k] = CoolDown
<1> DEFINE prev == snap["global"]
           due(cur) == {k \in ToSet(Changes(prev, cur)) : cur[k] = High}
           said(cur) == {k \in due(cur) : seen[k] = CoolDown}
<1>1. PICK pic \in Pictures :
         /\ snap' = [snap EXCEPT !["global"] = Snapshot(pic)]
         /\ seen' = Cool(due(Snapshot(pic)))
         /\ spoken' = [k \in Keys |-> IF k \in said(Snapshot(pic)) THEN 0 ELSE spoken[k]]
         /\ Publish(Cardinality(said(Snapshot(pic))))
  BY DEF WatchIncidents
<1>2. UNCHANGED officerVars BY DEF WatchIncidents
<1> DEFINE cur == Snapshot(pic)
<1>3. prev \in [Keys -> Levels] /\ cur \in [Keys -> Levels] BY OfficerFacts, SnapshotType
<1>4. ToSet(Changes(prev, cur)) = Rose(prev, cur) BY <1>3, ChangesAreRose
<1>5. snap' \in [Scopes -> [Keys -> Levels]] /\ snap'["global"] = cur
      /\ snap'["officer"] = snap["officer"]
  BY <1>1, <1>3 DEF IncidentsInv, IncidentsTypeOK, Scopes
<1> HIDE DEF prev, cur
<1> DEFINE ks == {k \in Rose(prev, cur) : cur[k] = High}
           sd == {k \in ks : seen[k] = CoolDown}
<1>6. due(cur) = ks /\ said(cur) = sd BY <1>4
<1>7. /\ seen' = Cool(ks) /\ spoken' = [k \in Keys |-> IF k \in sd THEN 0 ELSE spoken[k]]
      /\ Publish(Cardinality(sd))
  BY <1>1, <1>6 DEF cur
<1> HIDE DEF due, said
<1>8. ks \subseteq Keys /\ Cardinality(sd) \in Nat
  <2>1. ks \subseteq Keys /\ sd \in SUBSET Keys BY DEF Rose
  <2> QED BY <2>1, IncidentsAssumption, FS_Subset, FS_CardinalityType
<1>9. /\ seen \in [Keys -> 0 .. CoolDown] /\ spoken = seen /\ CoolDown \in Nat \ {0}
  BY IncidentsAssumption DEF IncidentsInv, IncidentsTypeOK, Dedupe
<1>10. \A k \in Keys : /\ seen'[k] = IF k \in ks /\ seen[k] = CoolDown THEN 0 ELSE seen[k]
                       /\ spoken'[k] = seen'[k]
  BY <1>7, <1>9 DEF Cool
<1>11. /\ seen' = [k \in Keys |-> seen'[k]] /\ spoken' = [k \in Keys |-> spoken'[k]]
  BY <1>7 DEF Cool
<1> HIDE DEF ks, sd
<1>12. \A k \in Keys : seen'[k] \in 0 .. CoolDown BY <1>9, <1>10
<1>13. Dedupe' BY <1>10, <1>11 DEF Dedupe
<1>14. IncidentsTypeOK'
  BY <1>2, <1>5, <1>10, <1>11, <1>12 DEF IncidentsInv, IncidentsTypeOK, officerVars
<1>15. Inbox' BY <1>2, <1>5 DEF IncidentsInv, Inbox, officerVars
<1>16. BusInv' BY <1>7, <1>8, PublishKeeps DEF IncidentsInv
<1>17. ASSUME NEW k \in Keys
       PROVE  /\ prev[k] < High /\ cur[k] = High => spoken'[k] < CoolDown
              /\ spoken'[k] < spoken[k] => spoken[k] = CoolDown
  <2>1. ASSUME prev[k] < High, cur[k] = High PROVE spoken'[k] < CoolDown
    <3>1. k \in ks BY <2>1 DEF ks, Rose
    <3> QED BY <1>9, <1>10, <3>1
  <2>2. ASSUME spoken'[k] < spoken[k] PROVE spoken[k] = CoolDown BY <1>9, <1>10, <2>2
  <2> QED BY <2>1, <2>2
<1> QED BY <1>5, <1>13, <1>14, <1>15, <1>16, <1>17 DEF IncidentsInv, prev

LEMMA TickKeeps == ASSUME IncidentsInv, Tick PROVE IncidentsInv'
<1>1. IncidentsTypeOK'
  BY IncidentsAssumption DEF IncidentsInv, IncidentsTypeOK, Tick, officerVars
<1>2. Inbox' BY DEF IncidentsInv, Inbox, Tick, officerVars
<1>3. Dedupe' BY DEF IncidentsInv, Dedupe, Tick
<1>4. BusInv' BY DEF IncidentsInv, BusInv, Tick, busVars, StreamExplained, Live
<1> QED BY <1>1, <1>2, <1>3, <1>4 DEF IncidentsInv

LEMMA RestartKeeps == ASSUME Restart PROVE IncidentsInv'
<1>1. IncidentsTypeOK'
  BY EmptyContent, IncidentsAssumption DEF IncidentsTypeOK, Restart, Levels
<1>2. Inbox'
  BY EmptyContent, IncidentsAssumption DEF Inbox, Restart, Scopes, Actionable
<1>3. Dedupe' BY DEF Dedupe, Restart
<1>4. BusInv' BY BusStarts DEF Restart, BusRestarts
<1> QED BY <1>1, <1>2, <1>3, <1>4 DEF IncidentsInv

LEMMA IncidentsStep == IncidentsInv /\ [Next]_vars => IncidentsInv'
<1> SUFFICES ASSUME IncidentsInv, [Next]_vars PROVE IncidentsInv' OBVIOUS
<1>1. ASSUME UNCHANGED <<snap, officerVars, seen, spoken>>, BusInv' PROVE IncidentsInv'
  BY <1>1 DEF IncidentsInv, IncidentsTypeOK, Inbox, Dedupe, officerVars
<1>2. ASSUME UNCHANGED vars PROVE IncidentsInv'
  <2>1. BusInv' BY <1>2 DEF vars, IncidentsInv, BusInv, busVars, StreamExplained, Live
  <2> QED BY <1>1, <1>2, <2>1 DEF vars
<1>3. ASSUME NEW c \in Clients, Socket(c), UNCHANGED <<snap, officerVars, seen, spoken>>
      PROVE  IncidentsInv'
  BY <1>1, <1>3, SocketKeeps DEF IncidentsInv
<1> QED
  BY <1>2, <1>3, SweepKeeps, FileKeeps, DropKeeps, WatchKeeps, TickKeeps, RestartKeeps
  DEF Next

LEMMA IncidentsInitially == Init => IncidentsInv
<1> SUFFICES ASSUME Init PROVE IncidentsInv OBVIOUS
<1>1. IncidentsTypeOK
  BY EmptyContent, IncidentsAssumption DEF IncidentsTypeOK, Init, Levels
<1>2. Inbox
  BY EmptyContent, IncidentsAssumption DEF Inbox, Init, Scopes, Actionable
<1>3. Dedupe BY DEF Dedupe, Init
<1>4. BusInv
  BY EmptyContent, BusAssumption DEF Init, BusInit, BusInv, StreamExplained, Live
<1> QED BY <1>1, <1>2, <1>3, <1>4 DEF IncidentsInv

\* Between sweeps the officer's inbox holds every actionable incident that was not
\* taken from it, and none that was.
THEOREM InboxCurrent == Spec => []InboxIsCurrent
<1>1. IncidentsInv => InboxIsCurrent BY EmptyContent DEF IncidentsInv, Inbox, InboxIsCurrent
<1> QED BY <1>1, IncidentsStep, IncidentsInitially, PTL DEF Spec

\* _dedupe: what turns high in its collapsed picture is announced, and not twice
\* within the cool-down.
THEOREM HighAnnounced == Spec => HighIsAnnounced
<1>1. IncidentsInv /\ [Next]_vars =>
        [WatchIncidents =>
           \A k \in Keys :
              /\ snap["global"][k] < High /\ snap'["global"][k] = High => spoken'[k] < CoolDown
              /\ spoken'[k] < spoken[k] => spoken[k] = CoolDown]_vars
  BY WatchKeeps
<1> QED BY <1>1, IncidentsStep, IncidentsInitially, PTL DEF Spec, HighIsAnnounced

\* The bus: a subscribed socket is sent every alert once and in order, or its queue was
\* full when the alert came.
THEOREM StreamHolds == Spec => []StreamExplained
<1>1. IncidentsInv => StreamExplained BY DEF IncidentsInv, BusInv
<1> QED BY <1>1, IncidentsStep, IncidentsInitially, PTL DEF Spec

-----------------------------------------------------------------------------
(* Alert rules *)

\* The last firing of p in fs is of the transition t.
Says(fs, p, t) ==
    \E i \in DOMAIN fs : /\ fs[i].pair = p /\ fs[i].to = t
                         /\ \A j \in DOMAIN fs : j > i => fs[j].pair # p

Side(p, members) == IF p \in members THEN "enter" ELSE "exit"

Silent(fs, p) == \A i \in DOMAIN fs : fs[i].pair # p

\* What evaluate_rules carries from candidate to candidate, given the membership
\* it began with: a pair whose membership has changed has a firing that says so,
\* the others are as they were.
Memory(known) ==
    {mem \in [inside : SUBSET Pairs, quiet : SUBSET Pairs, fired : Seq(Firing)] :
        \A p \in Pairs \ mem.quiet :
            \/ Says(mem.fired, p, Side(p, mem.inside))
            \/ Silent(mem.fired, p) /\ p \notin quiet /\ (p \in mem.inside <=> p \in known)}

\* What the first n candidates put into the area of r is inside, unless another
\* candidate took it out.
Knows(mem, r, n) ==
    \A i \in 1 .. n :
        (cands[i].id.thing \in Watches[r] /\ Within(r, cands[i])) =>
            \/ <<r, cands[i].id>> \in mem.inside
            \/ \E d \in ToSet(cands) : d.id = cands[i].id /\ ~Within(r, d)

LEMMA AppendSays ==
    ASSUME NEW fs \in Seq(Firing), NEW p \in Pairs, NEW t \in {"enter", "exit"}
    PROVE  LET gs == Append(fs, [pair |-> p, to |-> t])
           IN /\ gs \in Seq(Firing)
              /\ Says(gs, p, t)
              /\ \A q \in Pairs \ {p} : /\ Silent(fs, q) => Silent(gs, q)
                                        /\ \A u : Says(fs, q, u) => Says(gs, q, u)
<1> DEFINE f == [pair |-> p, to |-> t]
           gs == Append(fs, f)
<1>1. f \in Firing BY DEF Firing
<1>2. /\ gs \in Seq(Firing) /\ Len(gs) = Len(fs) + 1 /\ Len(fs) \in Nat
      /\ DOMAIN fs = 1 .. Len(fs) /\ DOMAIN gs = 1 .. Len(fs) + 1
      /\ gs[Len(fs) + 1] = f /\ \A i \in 1 .. Len(fs) : gs[i] = fs[i]
  <2> HIDE DEF f
  <2> QED BY <1>1, AppendProperties, LenProperties
<1>3. Says(gs, p, t)
  <2>1. f.pair = p /\ f.to = t OBVIOUS
  <2> HIDE DEF gs, f
  <2> QED BY <1>2, <2>1 DEF Says
<1>4. ASSUME NEW q \in Pairs \ {p}
      PROVE  /\ Silent(fs, q) => Silent(gs, q)
             /\ \A u : Says(fs, q, u) => Says(gs, q, u)
  <2>1. f.pair # q OBVIOUS
  <2> HIDE DEF gs, f
  <2>2. \A i \in DOMAIN gs : i \in DOMAIN fs \/ gs[i].pair # q BY <1>2, <2>1
  <2>3. Silent(fs, q) => Silent(gs, q) BY <1>2, <2>2 DEF Silent
  <2>4. ASSUME NEW u, Says(fs, q, u) PROVE Says(gs, q, u)
    <3>1. PICK i \in DOMAIN fs : /\ fs[i].pair = q /\ fs[i].to = u
                                 /\ \A j \in DOMAIN fs : j > i => fs[j].pair # q
      BY <2>4 DEF Says
    <3>2. i \in DOMAIN gs /\ gs[i] = fs[i] BY <1>2
    <3>3. \A j \in DOMAIN gs : j > i => gs[j].pair # q BY <1>2, <2>2, <3>1
    <3> QED BY <3>1, <3>2, <3>3 DEF Says
  <2> QED BY <2>3, <2>4
<1> QED BY <1>2, <1>3, <1>4

\* One candidate against one rule keeps the books, and what was put inside there.
LEMMA CrossKeeps ==
    ASSUME WatchTypeOK, WatchAssumption, NEW known \in SUBSET Pairs, NEW mem \in Memory(known),
           NEW r \in Rules, NEW c \in ToSet(cands)
    PROVE  /\ Cross(mem, r, c) \in Memory(known)
           /\ Within(r, c) => <<r, c.id>> \in Cross(mem, r, c).inside
           /\ \A p \in mem.inside : p \in Cross(mem, r, c).inside \/ (p = <<r, c.id>> /\ ~Within(r, c))
<1> DEFINE pair == <<r, c.id>>
           fired(t) == Append(mem.fired, [pair |-> pair, to |-> t])
           M == [inside : SUBSET Pairs, quiet : SUBSET Pairs, fired : Seq(Firing)]
<1>1. c \in Candidate
  <2>1. PICK i \in DOMAIN cands : c = cands[i] BY DEF ToSet
  <2> QED BY <2>1, ElementOfSeq, LenProperties DEF WatchTypeOK
<1>2. pair \in Pairs BY <1>1 DEF Candidate, Pairs
<1>3. mem \in M /\ mem.inside \in SUBSET Pairs /\ mem.quiet \in SUBSET Pairs /\ mem.fired \in Seq(Firing)
  BY DEF Memory
<1>4. \A p \in Pairs \ mem.quiet :
            \/ Says(mem.fired, p, Side(p, mem.inside))
            \/ Silent(mem.fired, p) /\ p \notin quiet /\ (p \in mem.inside <=> p \in known)
  BY DEF Memory
<1>5. CASE Within(r, c) /\ pair \notin mem.inside /\ c.sev >= Floor[r]
  <2> DEFINE new == [mem EXCEPT !.inside = @ \cup {pair}, !.fired = fired("enter")]
  <2>1. Cross(mem, r, c) = new BY <1>5 DEF Cross
  <2>2. new.inside = mem.inside \cup {pair} /\ new.quiet = mem.quiet /\ new.fired = fired("enter")
    BY <1>3
  <2>3. /\ fired("enter") \in Seq(Firing) /\ Says(fired("enter"), pair, "enter")
        /\ \A q \in Pairs \ {pair} : /\ Silent(mem.fired, q) => Silent(fired("enter"), q)
                                     /\ \A u : Says(mem.fired, q, u) => Says(fired("enter"), q, u)
    <3> HIDE DEF pair
    <3> QED BY <1>2, <1>3, AppendSays
  <2>4. new \in M
    <3> HIDE DEF pair, fired
    <3> QED BY <1>2, <1>3, <2>3
  <2>5. ASSUME NEW p \in Pairs \ new.quiet
        PROVE  \/ Says(new.fired, p, Side(p, new.inside))
               \/ Silent(new.fired, p) /\ p \notin quiet /\ (p \in new.inside <=> p \in known)
    <3>1. CASE p = pair
      <4>1. Side(p, new.inside) = "enter" BY <2>2, <3>1 DEF Side
      <4> HIDE DEF new, fired, pair
      <4> QED BY <2>2, <2>3, <3>1, <4>1
    <3>2. CASE p # pair
      <4>1. /\ Side(p, new.inside) = Side(p, mem.inside) /\ p \notin mem.quiet
            /\ p \in new.inside <=> p \in mem.inside
        BY <2>2, <3>2 DEF Side
      <4> HIDE DEF new, fired, pair
      <4> QED BY <1>4, <2>2, <2>3, <3>2, <4>1
    <3> QED BY <3>1, <3>2
  <2> HIDE DEF new, fired
  <2>6. new \in Memory(known) BY <2>4, <2>5 DEF Memory
  <2> QED BY <2>1, <2>2, <2>6
<1>6. CASE Within(r, c) /\ pair \notin mem.inside /\ ~(c.sev >= Floor[r])
  <2> DEFINE new == [mem EXCEPT !.inside = @ \cup {pair}, !.quiet = @ \cup {pair}]
  <2>1. Cross(mem, r, c) = new BY <1>6 DEF Cross
  <2>2. new.inside = mem.inside \cup {pair} /\ new.quiet = mem.quiet \cup {pair} /\ new.fired = mem.fired
    BY <1>3
  <2>3. new \in M
    <3> HIDE DEF pair
    <3> QED BY <1>2, <1>3
  <2>4. ASSUME NEW p \in Pairs \ new.quiet
        PROVE  \/ Says(new.fired, p, Side(p, new.inside))
               \/ Silent(new.fired, p) /\ p \notin quiet /\ (p \in new.inside <=> p \in known)
    <3>1. /\ p # pair /\ Side(p, new.inside) = Side(p, mem.inside) /\ p \notin mem.quiet
          /\ p \in new.inside <=> p \in mem.inside
      BY <2>2 DEF Side
    <3> HIDE DEF new, pair
    <3> QED BY <1>4, <2>2, <3>1
  <2> HIDE DEF new
  <2>5. new \in Memory(known) BY <2>3, <2>4 DEF Memory
  <2> QED BY <2>1, <2>2, <2>5
<1>7. CASE ~Within(r, c) /\ pair \in mem.inside
  <2> DEFINE new == [mem EXCEPT !.inside = @ \ {pair}, !.quiet = @ \ {pair}, !.fired = fired("exit")]
  <2>1. Cross(mem, r, c) = new BY <1>7 DEF Cross
  <2>2. new.inside = mem.inside \ {pair} /\ new.quiet = mem.quiet \ {pair} /\ new.fired = fired("exit")
    BY <1>3
  <2>3. /\ fired("exit") \in Seq(Firing) /\ Says(fired("exit"), pair, "exit")
        /\ \A q \in Pairs \ {pair} : /\ Silent(mem.fired, q) => Silent(fired("exit"), q)
                                     /\ \A u : Says(mem.fired, q, u) => Says(fired("exit"), q, u)
    <3> HIDE DEF pair
    <3> QED BY <1>2, <1>3, AppendSays
  <2>4. new \in M
    <3> HIDE DEF pair, fired
    <3> QED BY <1>2, <1>3, <2>3
  <2>5. ASSUME NEW p \in Pairs \ new.quiet
        PROVE  \/ Says(new.fired, p, Side(p, new.inside))
               \/ Silent(new.fired, p) /\ p \notin quiet /\ (p \in new.inside <=> p \in known)
    <3>1. CASE p = pair
      <4>1. Side(p, new.inside) = "exit" BY <2>2, <3>1 DEF Side
      <4> HIDE DEF new, fired, pair
      <4> QED BY <2>2, <2>3, <3>1, <4>1
    <3>2. CASE p # pair
      <4>1. /\ Side(p, new.inside) = Side(p, mem.inside) /\ p \notin mem.quiet
            /\ p \in new.inside <=> p \in mem.inside
        BY <2>2, <3>2 DEF Side
      <4> HIDE DEF new, fired, pair
      <4> QED BY <1>4, <2>2, <2>3, <3>2, <4>1
    <3> QED BY <3>1, <3>2
  <2> HIDE DEF new, fired
  <2>6. new \in Memory(known) BY <2>4, <2>5 DEF Memory
  <2> QED BY <1>7, <2>1, <2>2, <2>6
<1>8. CASE Within(r, c) <=> pair \in mem.inside
  <2>1. Cross(mem, r, c) = mem BY <1>8 DEF Cross
  <2> QED BY <1>8, <2>1
<1> QED BY <1>5, <1>6, <1>7, <1>8

\* Every candidate against one rule.
LEMMA RuleKeeps ==
    ASSUME WatchTypeOK, WatchAssumption, NEW known \in SUBSET Pairs, NEW mem \in Memory(known),
           NEW r \in Rules
    PROVE  /\ AgainstRule(mem, r) \in Memory(known)
           /\ Knows(AgainstRule(mem, r), r, Len(cands))
           /\ \A s \in Rules : Knows(mem, s, Len(cands)) => Knows(AgainstRule(mem, r), s, Len(cands))
<1> DEFINE M == Memory(known)
           D == 0 .. Len(cands)
           Step(k, x) == IF cands[k].id.thing \in Watches[r] THEN Cross(x, r, cands[k]) ELSE x
           G == [k \in 1 .. Len(cands) |-> [x \in M |-> Step(k, x)]]
           Good(g) == g = [k \in D |-> IF k = 0 THEN mem ELSE Step(k, g[k - 1])]
           m == CHOOSE g : Good(g)
<1>0. mem \in M OBVIOUS
<1>l. Len(cands) \in Nat /\ DOMAIN cands = 1 .. Len(cands) BY LenProperties DEF WatchTypeOK
<1>1. \A k \in 1 .. Len(cands) : cands[k] \in ToSet(cands) BY <1>l DEF ToSet
<1>c. ASSUME NEW x \in M, NEW c \in ToSet(cands)
      PROVE  /\ Cross(x, r, c) \in M
             /\ Within(r, c) => <<r, c.id>> \in Cross(x, r, c).inside
             /\ \A p \in x.inside : p \in Cross(x, r, c).inside \/ (p = <<r, c.id>> /\ ~Within(r, c))
  BY CrossKeeps
<1>2. ASSUME NEW k \in 1 .. Len(cands), NEW x \in M PROVE Step(k, x) \in M
  <2> HIDE DEF M
  <2> QED BY <1>1, <1>c
<1>3. G \in StepsOn(Len(cands), M)
  <2> HIDE DEF M, Step
  <2> QED BY <1>2 DEF StepsOn
<1>4. PICK f : IsIteration(f, Len(cands), M, mem, G)
  <2> HIDE DEF G, M
  <2> QED BY <1>0, <1>3, <1>l, IterationExists
<1>5. Good(f)
  <2> HIDE DEF M, Step
  <2>1. f \in [D -> M] /\ f[0] = mem /\ \A k \in 1 .. Len(cands) : f[k] = G[k][f[k - 1]]
    BY <1>4 DEF IsIteration
  <2>2. ASSUME NEW k \in D PROVE f[k] = IF k = 0 THEN mem ELSE Step(k, f[k - 1])
    <3>1. CASE k # 0
      <4>1. k \in 1 .. Len(cands) /\ k - 1 \in D BY <1>l, <3>1
      <4> QED BY <2>1, <3>1, <4>1
    <3> QED BY <2>1, <3>1
  <2> QED BY <2>1, <2>2
<1>6. Good(m)
  <2> HIDE DEF Good
  <2> QED BY <1>5
<1>7. AgainstRule(mem, r) = m[Len(cands)] BY DEF AgainstRule
<1>8. m[0] = mem /\ \A k \in 1 .. Len(cands) : m[k] = Step(k, m[k - 1])
  <2> HIDE DEF m, Step
  <2>1. m = [k \in D |-> IF k = 0 THEN mem ELSE Step(k, m[k - 1])] BY <1>6
  <2>2. 0 \in D /\ \A k \in 1 .. Len(cands) : k \in D /\ k # 0 BY <1>l
  <2> HIDE DEF D
  <2> QED BY <2>1, <2>2
<1> DEFINE Fine(n) == /\ m[n] \in M
                      /\ Knows(m[n], r, n)
                      /\ \A s \in Rules : Knows(mem, s, Len(cands)) => Knows(m[n], s, Len(cands))
<1>9. Fine(0)
  <2> HIDE DEF m
  <2> QED BY <1>8 DEF Knows
<1>10. ASSUME NEW n \in Nat, n + 1 \in 1 .. Len(cands), Fine(n) PROVE Fine(n + 1)
  <2> DEFINE c == cands[n + 1]
  <2> HIDE DEF m
  <2>1. m[n + 1] = Step(n + 1, m[n]) BY <1>8, <1>10
  <2>2. CASE c.id.thing \in Watches[r]
    <3>1. /\ m[n + 1] \in M
          /\ Within(r, c) => <<r, c.id>> \in m[n + 1].inside
          /\ \A p \in m[n].inside : p \in m[n + 1].inside \/ (p = <<r, c.id>> /\ ~Within(r, c))
      <4>1. m[n] \in M /\ c \in ToSet(cands) BY <1>1, <1>10
      <4>2. m[n + 1] = Cross(m[n], r, c) BY <2>1, <2>2
      <4> HIDE DEF Fine, c, M
      <4> QED BY <4>1, <4>2, <1>c
    <3>2. ASSUME NEW s \in Rules, NEW k \in 0 .. Len(cands), Knows(m[n], s, k)
          PROVE  Knows(m[n + 1], s, k)
      <4> SUFFICES ASSUME NEW i \in 1 .. k, cands[i].id.thing \in Watches[s], Within(s, cands[i]),
                          <<s, cands[i].id>> \notin m[n + 1].inside
                   PROVE  \E d \in ToSet(cands) : d.id = cands[i].id /\ ~Within(s, d)
        BY DEF Knows
      <4>1. \/ <<s, cands[i].id>> \in m[n].inside
            \/ \E d \in ToSet(cands) : d.id = cands[i].id /\ ~Within(s, d)
        BY <3>2 DEF Knows
      <4> QED BY <1>1, <1>10, <3>1, <4>1
    <3>3. Knows(m[n + 1], r, n + 1)
      <4>1. Knows(m[n + 1], r, n) BY <1>10, <1>l, <3>2
      <4>2. \A i \in 1 .. n + 1 : i \in 1 .. n \/ i = n + 1 OBVIOUS
      <4> QED BY <3>1, <4>1, <4>2 DEF Knows
    <3> QED BY <1>10, <1>l, <3>1, <3>2, <3>3
  <2>3. CASE c.id.thing \notin Watches[r]
    <3>1. m[n + 1] = m[n] BY <2>1, <2>3
    <3>2. \A i \in 1 .. n + 1 : i \in 1 .. n \/ i = n + 1 OBVIOUS
    <3>3. Knows(m[n + 1], r, n + 1) BY <1>10, <2>3, <3>1, <3>2 DEF Knows
    <3> QED BY <1>10, <3>1, <3>3
  <2> QED BY <2>2, <2>3
<1>11. Fine(Len(cands))
  <2> DEFINE P == {n \in Nat : n <= Len(cands) => Fine(n)}
  <2> HIDE DEF Fine
  <2>1. 0 \in P BY <1>9
  <2>2. ASSUME NEW n \in Nat, n \in P PROVE n + 1 \in P
    <3> SUFFICES ASSUME n + 1 <= Len(cands) PROVE Fine(n + 1) OBVIOUS
    <3> QED BY <1>l, <1>10, <2>2
  <2> HIDE DEF P
  <2>3. \A n \in Nat : n \in P BY <2>1, <2>2, Induct
  <2> QED BY <1>l, <2>3 DEF P
<1> HIDE DEF m
<1> QED BY <1>7, <1>11

\* Every rule of a session.
LEMMA RulesKeep ==
    ASSUME WatchTypeOK, WatchAssumption, NEW known \in SUBSET Pairs, NEW rs \in SUBSET Rules
    PROVE  /\ AgainstRules(rs, known) \in Memory(known)
           /\ \A r \in rs : Knows(AgainstRules(rs, known), r, Len(cands))
<1> DEFINE M == Memory(known)
           N == Cardinality(rs)
           D == 0 .. N
           start == [inside |-> known, quiet |-> quiet, fired |-> <<>>]
           Step(k, x) == AgainstRule(x, SetToSeq(rs)[k])
           G == [k \in 1 .. N |-> [x \in M |-> Step(k, x)]]
           Good(g) == g = [k \in D |-> IF k = 0 THEN start ELSE Step(k, g[k - 1])]
           m == CHOOSE g : Good(g)
<1>0. start \in M
  <2>1. quiet \in SUBSET Pairs /\ <<>> \in Seq(Firing) BY DEF WatchTypeOK
  <2>2. \A p : Silent(<<>>, p) BY DEF Silent
  <2> QED BY <2>1, <2>2 DEF Memory
<1>l. N \in Nat /\ SetToSeq(rs) \in [1 .. N -> rs] /\ \A r \in rs : \E k \in 1 .. N : r = SetToSeq(rs)[k]
  <2>1. IsFiniteSet(rs) BY FS_Subset DEF WatchAssumption
  <2>2. SetToSeq(rs) \in [1 .. N -> rs] /\ ToSet(SetToSeq(rs)) = rs BY <2>1, Listed
  <2> QED BY <2>1, <2>2, FS_CardinalityType DEF ToSet
<1>c. ASSUME NEW x \in M, NEW r \in Rules
      PROVE  /\ AgainstRule(x, r) \in M
             /\ Knows(AgainstRule(x, r), r, Len(cands))
             /\ \A s \in Rules : Knows(x, s, Len(cands)) => Knows(AgainstRule(x, r), s, Len(cands))
  BY RuleKeeps
<1>2. ASSUME NEW k \in 1 .. N, NEW x \in M PROVE Step(k, x) \in M
  <2> HIDE DEF M, N
  <2> QED BY <1>l, <1>c
<1>3. G \in StepsOn(N, M)
  <2> HIDE DEF M, Step, N
  <2> QED BY <1>2 DEF StepsOn
<1>4. PICK f : IsIteration(f, N, M, start, G)
  <2> HIDE DEF G, M, N, start
  <2> QED BY <1>0, <1>3, <1>l, IterationExists
<1>5. Good(f)
  <2> HIDE DEF M, Step, N, start
  <2>1. f \in [D -> M] /\ f[0] = start /\ \A k \in 1 .. N : f[k] = G[k][f[k - 1]]
    BY <1>4 DEF IsIteration
  <2>2. ASSUME NEW k \in D PROVE f[k] = IF k = 0 THEN start ELSE Step(k, f[k - 1])
    <3>1. CASE k # 0
      <4>1. k \in 1 .. N /\ k - 1 \in D BY <1>l, <3>1
      <4> QED BY <2>1, <3>1, <4>1
    <3> QED BY <2>1, <3>1
  <2> QED BY <2>1, <2>2
<1>6. Good(m)
  <2> HIDE DEF Good
  <2> QED BY <1>5
<1>7. AgainstRules(rs, known) = m[N] BY DEF AgainstRules
<1>8. m[0] = start /\ \A k \in 1 .. N : m[k] = Step(k, m[k - 1])
  <2> HIDE DEF m, Step, start, N
  <2>1. m = [k \in D |-> IF k = 0 THEN start ELSE Step(k, m[k - 1])] BY <1>6
  <2>2. 0 \in D /\ \A k \in 1 .. N : k \in D /\ k # 0 BY <1>l
  <2> HIDE DEF D
  <2> QED BY <2>1, <2>2
<1> DEFINE Fine(n) == /\ m[n] \in M
                      /\ \A k \in 1 .. n : Knows(m[n], SetToSeq(rs)[k], Len(cands))
<1>9. Fine(0)
  <2> HIDE DEF m, start
  <2> QED BY <1>0, <1>8
<1>10. ASSUME NEW n \in Nat, n + 1 \in 1 .. N, Fine(n) PROVE Fine(n + 1)
  <2> DEFINE r == SetToSeq(rs)[n + 1]
  <2> HIDE DEF m, start
  <2>1. r \in Rules /\ m[n + 1] = AgainstRule(m[n], r) BY <1>l, <1>8, <1>10
  <2>2. /\ m[n + 1] \in M
        /\ Knows(m[n + 1], r, Len(cands))
        /\ \A s \in Rules : Knows(m[n], s, Len(cands)) => Knows(m[n + 1], s, Len(cands))
    <3>1. m[n] \in M BY <1>10
    <3> HIDE DEF Fine, r, M
    <3> QED BY <1>c, <2>1, <3>1
  <2>3. \A k \in 1 .. n + 1 : k = n + 1 \/ (k \in 1 .. n /\ SetToSeq(rs)[k] \in Rules)
    <3>1. \A k \in 1 .. n + 1 : k = n + 1 \/ (k \in 1 .. n /\ k \in 1 .. N) BY <1>l, <1>10
    <3> HIDE DEF N
    <3> QED BY <1>l, <3>1
  <2> QED BY <1>10, <2>2, <2>3
<1>11. Fine(N)
  <2> DEFINE P == {n \in Nat : n <= N => Fine(n)}
  <2> HIDE DEF Fine, N
  <2>1. 0 \in P BY <1>9
  <2>2. ASSUME NEW n \in Nat, n \in P PROVE n + 1 \in P
    <3> SUFFICES ASSUME n + 1 <= N PROVE Fine(n + 1) OBVIOUS
    <3> QED BY <1>l, <1>10, <2>2
  <2> HIDE DEF P
  <2>3. \A n \in Nat : n \in P BY <2>1, <2>2, Induct
  <2> QED BY <1>l, <2>3 DEF P
<1> HIDE DEF m
<1> QED BY <1>l, <1>7, <1>11
-----------------------------------------------------------------------------
(* The invariant *)

\* What is told is inside, if the firings still to be delivered are counted in.
Account ==
    \A p \in Pairs \ quiet :
        \/ Says(firings, p, Side(p, inside))
        \/ Silent(firings, p) /\ (p \in lost \/ (p \in inside <=> p \in told))

WatchInv == WatchTypeOK /\ Account

LEMMA WatchInitially == WatchInit => WatchInv
BY WatchAssumption DEF WatchInit, WatchInv, WatchTypeOK, Account, Silent, IsInjective

\* The tail of a sequence, as far as its last firings are concerned.
LEMMA TailSays ==
    ASSUME NEW fs \in Seq(Firing), fs # <<>>, NEW p \in Pairs
    PROVE  /\ Head(fs) \in Firing /\ Tail(fs) \in Seq(Firing)
           /\ Silent(fs, p) => Silent(Tail(fs), p) /\ Head(fs).pair # p
           /\ \A t : Says(fs, p, t) =>
                 \/ Says(Tail(fs), p, t)
                 \/ Silent(Tail(fs), p) /\ Head(fs).pair = p /\ Head(fs).to = t
<1> DEFINE gs == Tail(fs)
<1>1. /\ Len(fs) \in Nat /\ Len(fs) > 0 /\ DOMAIN fs = 1 .. Len(fs)
      /\ gs \in Seq(Firing) /\ Len(gs) = Len(fs) - 1 /\ DOMAIN gs = 1 .. Len(fs) - 1
      /\ \A i \in 1 .. Len(fs) - 1 : gs[i] = fs[i + 1]
      /\ Head(fs) = fs[1] /\ fs[1] \in Firing
  BY HeadTailProperties, LenProperties, EmptySeq, ElementOfSeq
<1> HIDE DEF gs
<1>2. Silent(fs, p) => Silent(gs, p) /\ fs[1].pair # p BY <1>1 DEF Silent
<1>3. ASSUME NEW t, Says(fs, p, t)
      PROVE  Says(gs, p, t) \/ (Silent(gs, p) /\ fs[1].pair = p /\ fs[1].to = t)
  <2>1. PICK i \in DOMAIN fs : /\ fs[i].pair = p /\ fs[i].to = t
                               /\ \A j \in DOMAIN fs : j > i => fs[j].pair # p
    BY <1>3 DEF Says
  <2>2. CASE i = 1 BY <1>1, <2>1, <2>2 DEF Silent
  <2>3. CASE i # 1
    <3>1. i - 1 \in DOMAIN gs /\ gs[i - 1] = fs[i] BY <1>1, <2>3
    <3>2. \A j \in DOMAIN gs : j > i - 1 => gs[j].pair # p BY <1>1, <2>1
    <3> QED BY <2>1, <3>1, <3>2 DEF Says
  <2> QED BY <2>2, <2>3
<1> QED BY <1>1, <1>2, <1>3 DEF gs

LEMMA SessionEnds ==
    ASSUME WatchTypeOK, todo # <<>>, NextSession
    PROVE  /\ todo' \in Seq(Users) /\ firings' = <<>> /\ pc' \in {"sleep", "session"}
           /\ pc' # "sleep" => todo' # <<>>
<1>1. todo \in Seq(Users) BY DEF WatchTypeOK
<1>2. Tail(todo) \in Seq(Users) /\ Len(Tail(todo)) = Len(todo) - 1 /\ Len(todo) \in Nat /\ Len(todo) > 0
  BY <1>1, HeadTailProperties, LenProperties, EmptySeq
<1>3. ASSUME Len(todo) # 1 PROVE Tail(todo) # <<>>
  <2>1. Len(Tail(todo)) # 0 BY <1>2, <1>3
  <2>2. Len(<<>>) = 0 OBVIOUS
  <2> QED BY <2>1, <2>2
<1> QED BY <1>2, <1>3 DEF NextSession

\* evaluate_session: the evaluator's books become the firings of the session.
LEMMA EvaluateStep ==
    ASSUME WatchInv, NEW rs \in SUBSET Rules, Evaluate(rs),
           UNCHANGED <<cloud, rules, sessions, cands, brief, told, lost>>, faults' \in 0 .. MaxFaults
    PROVE  WatchInv'
<1> DEFINE mem == EvaluateRules(rs)
<1>1. WatchTypeOK /\ Account BY DEF WatchInv
<1>2. mem \in Memory(inside)
  <2>1. inside \in SUBSET Pairs BY <1>1 DEF WatchTypeOK
  <2> QED BY <1>1, <2>1, RulesKeep, WatchAssumption DEF EvaluateRules
<1>3. pc = "session" /\ inside' = mem.inside /\ quiet' = mem.quiet
      /\ IF mem.fired = <<>> THEN NextSession ELSE firings' = mem.fired /\ pc' = "persist" /\ UNCHANGED todo
  BY DEF Evaluate
<1> HIDE DEF mem
<1>4. mem.inside \in SUBSET Pairs /\ mem.quiet \in SUBSET Pairs /\ mem.fired \in Seq(Firing)
  BY <1>2 DEF Memory
<1>5. todo # <<>> /\ firings = <<>> BY <1>1, <1>3 DEF WatchTypeOK
<1>6. /\ firings' = mem.fired /\ todo' \in Seq(Users)
      /\ pc' \in {"sleep", "session", "persist"} /\ (pc' # "sleep" => todo' # <<>>)
      /\ pc' = "persist" <=> firings' # <<>>
  <2>1. CASE mem.fired = <<>> BY <1>1, <1>3, <1>5, <2>1, SessionEnds
  <2>2. CASE mem.fired # <<>> BY <1>1, <1>3, <1>5, <2>2 DEF WatchTypeOK
  <2> QED BY <2>1, <2>2
<1>7. WatchTypeOK' BY <1>1, <1>3, <1>4, <1>6 DEF WatchTypeOK, Candidate
<1>8. Account'
  <2> SUFFICES ASSUME NEW p \in Pairs \ mem.quiet
               PROVE  \/ Says(mem.fired, p, Side(p, mem.inside))
                      \/ Silent(mem.fired, p) /\ (p \in lost \/ (p \in mem.inside <=> p \in told))
    BY <1>3, <1>6 DEF Account, Side, Says, Silent
  <2>1. \/ Says(mem.fired, p, Side(p, mem.inside))
        \/ Silent(mem.fired, p) /\ p \notin quiet /\ (p \in mem.inside <=> p \in inside)
    BY <1>2 DEF Memory
  <2>2. ~Says(firings, p, Side(p, inside)) BY <1>5 DEF Says
  <2>3. p \notin quiet => p \in lost \/ (p \in inside <=> p \in told) BY <1>1, <2>2 DEF Account
  <2> QED BY <2>1, <2>3
<1> QED BY <1>7, <1>8 DEF WatchInv

LEMMA DeliverStep ==
    ASSUME WatchInv, Deliver
    PROVE  WatchInv'
<1>1. WatchTypeOK /\ Account BY DEF WatchInv
<1>2. firings \in Seq(Firing) /\ firings # <<>> /\ todo \in Seq(Users) /\ todo # <<>>
  BY <1>1 DEF WatchTypeOK, Deliver
<1>3. /\ Tail(firings) \in Seq(Firing) /\ Len(firings) \in Nat /\ Head(firings) \in Firing
      /\ (Tail(firings) = <<>> <=> Len(firings) = 1)
  <2>1. Tail(firings) \in Seq(Firing) /\ Len(Tail(firings)) = Len(firings) - 1 /\ Len(firings) \in Nat
        /\ Head(firings) \in Firing
    BY <1>2, HeadTailProperties, LenProperties, EmptySeq
  <2> QED BY <2>1, EmptySeq
<1>4. /\ firings' = Tail(firings) /\ todo' \in Seq(Users)
      /\ pc' \in {"sleep", "session", "persist"} /\ (pc' # "sleep" => todo' # <<>>)
      /\ pc' = "persist" <=> firings' # <<>>
  <2>1. CASE Len(firings) = 1
    <3>1. NextSession BY <2>1 DEF Deliver
    <3> QED BY <1>1, <1>2, <1>3, <2>1, <3>1, SessionEnds
  <2>2. CASE Len(firings) # 1 BY <1>2, <1>3, <2>2 DEF Deliver
  <2> QED BY <2>1, <2>2
<1> DEFINE f == Head(firings)
<1>5. /\ told' = IF f.to = "enter" THEN told \cup {f.pair} ELSE told \ {f.pair}
      /\ lost' = lost \ {f.pair}
      /\ UNCHANGED <<cloud, rules, sessions, inside, cands, brief, faults, quiet>>
  BY DEF Deliver, Tell
<1>6. f.pair \in Pairs BY <1>3 DEF Firing
<1> HIDE DEF f
<1>7. WatchTypeOK' BY <1>1, <1>3, <1>4, <1>5, <1>6 DEF WatchTypeOK
<1>8. Account'
  <2> SUFFICES ASSUME NEW p \in Pairs \ quiet
               PROVE  \/ Says(Tail(firings), p, Side(p, inside))
                      \/ Silent(Tail(firings), p) /\ (p \in lost' \/ (p \in inside <=> p \in told'))
    BY <1>4, <1>5 DEF Account, Side, Says, Silent
  <2>1. CASE Says(firings, p, Side(p, inside))
    <3>1. \/ Says(Tail(firings), p, Side(p, inside))
          \/ Silent(Tail(firings), p) /\ f.pair = p /\ f.to = Side(p, inside)
      BY <1>2, <2>1, TailSays DEF f
    <3> QED BY <1>5, <3>1 DEF Side
  <2>2. CASE Silent(firings, p) /\ (p \in lost \/ (p \in inside <=> p \in told))
    <3>1. Silent(Tail(firings), p) /\ f.pair # p BY <1>2, <2>2, TailSays DEF f
    <3> QED BY <1>5, <2>2, <3>1
  <2> QED BY <1>1, <2>1, <2>2 DEF Account
<1> QED BY <1>7, <1>8 DEF WatchInv

LEMMA LogFailsStep ==
    ASSUME WatchInv, LogFails
    PROVE  WatchInv'
<1>1. WatchTypeOK /\ Account BY DEF WatchInv
<1>2. firings \in Seq(Firing) /\ todo # <<>> /\ NextSession
  BY <1>1 DEF WatchTypeOK, LogFails
<1>3. /\ todo' \in Seq(Users) /\ firings' = <<>> /\ pc' \in {"sleep", "session"}
      /\ pc' # "sleep" => todo' # <<>>
  BY <1>1, <1>2, SessionEnds
<1>4. /\ lost' = lost \cup {f.pair : f \in ToSet(firings)} /\ faults' \in 0 .. MaxFaults
      /\ UNCHANGED <<cloud, rules, sessions, inside, cands, brief, quiet, told>>
  BY <1>1, WatchAssumption DEF LogFails, Fault, WatchTypeOK
<1>5. \A i \in DOMAIN firings : firings[i].pair \in Pairs /\ firings[i].pair \in lost'
  <2>1. \A i \in DOMAIN firings : firings[i] \in Firing BY <1>2, LenProperties, ElementOfSeq
  <2> QED BY <1>4, <2>1 DEF ToSet, Firing
<1>6. lost' \in SUBSET Pairs
  <2>1. lost \in SUBSET Pairs BY <1>1 DEF WatchTypeOK
  <2> QED BY <1>4, <1>5, <2>1 DEF ToSet
<1>7. WatchTypeOK' BY <1>1, <1>3, <1>4, <1>6 DEF WatchTypeOK
<1>8. Account'
  <2> SUFFICES ASSUME NEW p \in Pairs \ quiet
               PROVE  p \in lost' \/ (p \in inside <=> p \in told)
    BY <1>3, <1>4 DEF Account, Silent
  <2>1. CASE Says(firings, p, Side(p, inside)) BY <1>5, <2>1 DEF Says
  <2>2. CASE p \in lost \/ (p \in inside <=> p \in told) BY <1>4, <2>2
  <2> QED BY <1>1, <2>1, <2>2 DEF Account
<1> QED BY <1>7, <1>8 DEF WatchInv

LEMMA WatchStep == WatchInv /\ [WatchNext]_watchVars => WatchInv'
<1> SUFFICES ASSUME WatchInv, [WatchNext]_watchVars PROVE WatchInv' OBVIOUS
<1>0. WatchTypeOK /\ Account BY DEF WatchInv
<1>1. CASE BeginSweep
  <2>1. sessions \in Seq(Users) /\ <<LocalUser>> \in Seq(Users) BY <1>0, WatchAssumption DEF WatchTypeOK
  <2>2. todo' \in Seq(Users) /\ todo' # <<>> BY <1>1, <2>1 DEF BeginSweep
  <2>3. WatchTypeOK' BY <1>0, <1>1, <2>2 DEF BeginSweep, WatchTypeOK
  <2>4. Account' BY <1>0, <1>1 DEF BeginSweep, Account, Says, Silent, Side
  <2> QED BY <2>3, <2>4 DEF WatchInv
<1>2. CASE Gather
  <2>1. brief' \in 0 .. MaxSweeps BY <1>0, <1>2, WatchAssumption DEF Gather, WatchTypeOK
  <2>2. PICK batch \in Sightings :
             cands' = [i \in DOMAIN batch |-> [id |-> IdOf(batch[i].thing), at |-> batch[i].at, sev |-> batch[i].sev]]
    BY <1>2, WatchAssumption DEF Gather
  <2>3. batch \in Seq([thing : Things, at : {"in", "out"}, sev : Nat]) BY WatchAssumption
  <2>4. ASSUME NEW i \in DOMAIN batch
        PROVE  [id |-> IdOf(batch[i].thing), at |-> batch[i].at, sev |-> batch[i].sev] \in Candidate
    <3>1. batch[i] \in [thing : Things, at : {"in", "out"}, sev : Nat] BY <2>3, LenProperties, ElementOfSeq
    <3>2. 0 \in 0 .. MaxSweeps BY WatchAssumption
    <3>3. batch[i].thing \in Things /\ batch[i].at \in {"in", "out"} /\ batch[i].sev \in Nat BY <3>1
    <3>4. IdOf(batch[i].thing) \in Ids BY <2>1, <3>2, <3>3 DEF IdOf, Ids
    <3> QED BY <3>3, <3>4 DEF Candidate
  <2>5. cands' \in Seq(Candidate)
    <3>1. DOMAIN batch = 1 .. Len(batch) /\ Len(batch) \in Nat BY <2>3, LenProperties
    <3> QED BY <2>2, <2>4, <3>1
  <2>6. WatchTypeOK' BY <1>0, <1>2, <2>1, <2>5 DEF Gather, WatchTypeOK
  <2>7. Account' BY <1>0, <1>2 DEF Gather, Account, Says, Silent, Side
  <2> QED BY <2>6, <2>7 DEF WatchInv
<1>3. CASE EvaluateSession
  <2>1. RulesOf(Head(todo)) \in SUBSET Rules BY DEF RulesOf
  <2>2. faults' \in 0 .. MaxFaults BY <1>0, <1>3 DEF EvaluateSession, WatchTypeOK
  <2> QED BY <1>3, <2>1, <2>2, EvaluateStep DEF EvaluateSession
<1>4. CASE ListFails
  <2>1. faults' \in 0 .. MaxFaults BY <1>0, <1>4, WatchAssumption DEF ListFails, Fault, WatchTypeOK
  <2> QED BY <1>4, <2>1, EvaluateStep DEF ListFails
<1>5. CASE Persist
  <2>1. WatchTypeOK' BY <1>0, <1>5 DEF Persist, WatchTypeOK
  <2>2. Account' BY <1>0, <1>5 DEF Persist, Account, Says, Silent, Side
  <2> QED BY <2>1, <2>2 DEF WatchInv
<1>6. CASE Deliver BY <1>6, DeliverStep
<1>7. CASE LogFails BY <1>7, LogFailsStep
<1>8. CASE RestartWatch
  <2>1. faults' \in 0 .. MaxFaults BY <1>0, <1>8, WatchAssumption DEF RestartWatch, Fault, WatchTypeOK
  <2>2. WatchTypeOK' BY <1>0, <1>8, <2>1 DEF RestartWatch, WatchTypeOK, IsInjective
  <2>3. Account' BY <1>8 DEF RestartWatch, Account, Silent
  <2> QED BY <2>2, <2>3 DEF WatchInv
<1>9. ASSUME NEW r \in Rules, CreateRule(r) \/ DeleteRule(r) PROVE WatchInv'
  <2>1. WatchTypeOK' BY <1>0, <1>9 DEF CreateRule, DeleteRule, WatchTypeOK
  <2>2. Account' BY <1>0, <1>9 DEF CreateRule, DeleteRule, Account, Says, Silent, Side
  <2> QED BY <2>1, <2>2 DEF WatchInv
<1>10. ASSUME NEW u \in Users, Register(u) \/ Unregister(u) PROVE WatchInv'
  <2>1. sessions' \in Seq(Users) /\ IsInjective(sessions')
    <3>1. sessions \in Seq(Users) /\ IsInjective(sessions) BY <1>0 DEF WatchTypeOK
    <3>2. CASE Register(u) BY <3>1, <3>2, OneMore DEF Register
    <3>3. CASE Unregister(u) BY <3>1, <3>3, OneLess, SeqContent DEF Unregister
    <3> QED BY <1>10, <3>2, <3>3
  <2>2. WatchTypeOK' BY <1>0, <1>10, <2>1 DEF Register, Unregister, WatchTypeOK
  <2>3. Account' BY <1>0, <1>10 DEF Register, Unregister, Account, Says, Silent, Side
  <2> QED BY <2>2, <2>3 DEF WatchInv
<1>11. CASE UNCHANGED watchVars
  <2>1. WatchTypeOK' BY <1>0, <1>11 DEF watchVars, WatchTypeOK
  <2>2. Account' BY <1>0, <1>11 DEF watchVars, Account, Says, Silent, Side
  <2> QED BY <2>1, <2>2 DEF WatchInv
<1> QED BY <1>1, <1>2, <1>3, <1>4, <1>5, <1>6, <1>7, <1>8, <1>9, <1>10, <1>11 DEF WatchNext, Loop

LEMMA WatchInvariant == WatchSpec => []WatchInv
BY WatchInitially, WatchStep, PTL DEF WatchSpec

\* evaluate_session and its announcements: between sweeps what is told is what is
\* remembered as inside.
THEOREM ToldAndInside == WatchSpec => []ToldIsInside
<1>1. WatchInv => ToldIsInside
  <2> SUFFICES ASSUME WatchInv,
                      NEW p \in Pairs \ (quiet \cup lost \cup {f.pair : f \in ToSet(firings)})
               PROVE  p \in inside <=> p \in told
    BY DEF WatchInv, ToldIsInside
  <2>1. ~Says(firings, p, Side(p, inside)) BY DEF Says, ToSet
  <2> QED BY <2>1 DEF WatchInv, Account
<1> QED BY <1>1, WatchInvariant, PTL

\* evaluate_rules and standing_detections agree on what matches.
THEOREM EdgeCoversLevel == WatchSpec => EdgeKnowsLevel
<1>1. ASSUME WatchInv, [WatchNext]_watchVars, EvaluateSession, NEW r \in RulesOf(Head(todo)), NEW c \in Standing(r)
      PROVE  <<r, c.id>> \in inside' \/ \E d \in ToSet(cands) : d.id = c.id /\ ~Within(r, d)
  <2> DEFINE rs == RulesOf(Head(todo))
  <2>1. rs \in SUBSET Rules BY DEF RulesOf
  <2>2. inside' = AgainstRules(rs, inside).inside BY <1>1 DEF EvaluateSession, Evaluate, EvaluateRules
  <2>3. inside \in SUBSET Pairs /\ WatchTypeOK BY <1>1 DEF WatchInv, WatchTypeOK
  <2> HIDE DEF rs
  <2>4. Knows(AgainstRules(rs, inside), r, Len(cands)) BY <2>1, <2>3, RulesKeep, WatchAssumption DEF rs
  <2>5. PICK i \in 1 .. Len(cands) : c = cands[i]
    BY <2>3, LenProperties DEF Standing, ToSet, WatchTypeOK
  <2> QED BY <2>2, <2>4, <2>5 DEF Knows, Standing
<1>2. WatchInv /\ [WatchNext]_watchVars =>
        [EvaluateSession => \A r \in RulesOf(Head(todo)) : \A c \in Standing(r) :
            \/ <<r, c.id>> \in inside'
            \/ \E d \in ToSet(cands) : d.id = c.id /\ ~Within(r, d)]_watchVars
  BY <1>1
<1> QED BY <1>2, WatchInvariant, PTL DEF WatchSpec, EdgeKnowsLevel
===============================================================================
