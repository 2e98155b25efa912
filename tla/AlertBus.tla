------------------------------- MODULE AlertBus -------------------------------
(***************************************************************************)
(* The alert bus of correlate/bus.py and the sockets that read it          *)
(* (alerts_ws of routes/alerts.py): a ring of the newest alerts, and one   *)
(* bounded queue per subscribed socket.  An alert is the number of its     *)
(* publication, so the newest n of the ring (500) are the n newest         *)
(* numbers.                                                                *)
(***************************************************************************)
EXTENDS Naturals, Sequences, SequencesExt

CONSTANTS
    Clients,
    Backfill,   \* alerts of the ring that a new socket is sent (20)
    MaxQueue    \* maxsize of a subscriber's queue (200)

ASSUME BusAssumption == Backfill \in Nat /\ MaxQueue \in Nat \ {0}

VARIABLES
    published,  \* alerts published since the process started
    socket,     \* client -> off, backfill, live
    unsent,     \* client -> what is left of its backfill
    queue,      \* client -> its queue, empty until it subscribes
    mark,       \* history: client -> the newest alert when it subscribed, or the
                \* one its queue was last served from, whichever is newer
    dropped     \* history: client -> alerts past its mark that found its queue full

busVars == <<published, socket, unsent, queue, mark, dropped>>

BusInit ==
    /\ published = 0
    /\ socket = [c \in Clients |-> "off"]
    /\ unsent = [c \in Clients |-> <<>>]
    /\ queue = [c \in Clients |-> <<>>]
    /\ mark = [c \in Clients |-> 0]
    /\ dropped = [c \in Clients |-> {}]

\* The numbers from a to b.
Interval(a, b) == [i \in 1 .. (b + 1) - a |-> a + i - 1]

\* bus.recent(n)
RecentAlerts(n) == Interval(IF published > n THEN published - n + 1 ELSE 1, published)

\* Slip: a full queue loses its oldest alerts.
SlipOffer(q, as) ==
    LET all == q \o as IN SubSeq(all, IF Len(all) > MaxQueue THEN Len(all) - MaxQueue + 1 ELSE 1, Len(all))

\* put_nowait of one alert after the other: a full queue gets none of the rest.
Offer(q, as) ==
    q \o SubSeq(as, 1, IF Len(as) < MaxQueue - Len(q) THEN Len(as) ELSE MaxQueue - Len(q))

Live == {c \in Clients : socket[c] = "live"}

\* publish(), m times in a row
Publish(m) ==
    /\ published' = published + m
    /\ queue' = [c \in Clients |->
                   IF c \in Live THEN Offer(queue[c], Interval(published + 1, published + m))
                   ELSE queue[c]]
    /\ dropped' = [c \in Clients |->
                     IF c \in Live
                     THEN dropped[c] \cup ((published + 1 .. published + m) \ ToSet(queue'[c]))
                     ELSE dropped[c]]
    /\ UNCHANGED <<socket, unsent, mark>>

\* The socket is accepted and the newest alerts are read off the ring; they are
\* sent one by one, and only then is a queue subscribed.
Connect(c) ==
    /\ socket[c] = "off"
    /\ socket' = [socket EXCEPT ![c] = "backfill"]
    /\ unsent' = [unsent EXCEPT ![c] = RecentAlerts(Backfill)]
    /\ UNCHANGED <<published, queue, mark, dropped>>

SendBackfill(c) ==
    /\ socket[c] = "backfill" /\ unsent[c] # <<>>
    /\ unsent' = [unsent EXCEPT ![c] = Tail(@)]
    /\ UNCHANGED <<published, socket, queue, mark, dropped>>

Subscribe(c) ==
    /\ socket[c] = "backfill" /\ unsent[c] = <<>>
    /\ socket' = [socket EXCEPT ![c] = "live"]
    /\ mark' = [mark EXCEPT ![c] = published]
    /\ UNCHANGED <<published, unsent, queue, dropped>>

Send(c) ==
    /\ socket[c] = "live" /\ queue[c] # <<>>
    /\ queue' = [queue EXCEPT ![c] = Tail(@)]
    /\ mark' = [mark EXCEPT ![c] = Head(queue[c])]
    /\ dropped' = [dropped EXCEPT ![c] = {a \in @ : a > Head(queue[c])}]
    /\ UNCHANGED <<published, socket, unsent>>

\* The socket closes, at any await: its queue is unsubscribed.
Disconnect(c) ==
    /\ socket[c] # "off"
    /\ socket' = [socket EXCEPT ![c] = "off"]
    /\ unsent' = [unsent EXCEPT ![c] = <<>>]
    /\ queue' = [queue EXCEPT ![c] = <<>>]
    /\ mark' = [mark EXCEPT ![c] = 0]
    /\ dropped' = [dropped EXCEPT ![c] = {}]
    /\ UNCHANGED published

\* The process restarts, and the sockets are gone with it.
BusRestarts ==
    /\ published' = 0
    /\ socket' = [c \in Clients |-> "off"]
    /\ unsent' = [c \in Clients |-> <<>>]
    /\ queue' = [c \in Clients |-> <<>>]
    /\ mark' = [c \in Clients |-> 0]
    /\ dropped' = [c \in Clients |-> {}]

Socket(c) == Connect(c) \/ SendBackfill(c) \/ Subscribe(c) \/ Send(c) \/ Disconnect(c)

-----------------------------------------------------------------------------
(* Properties *)

\* A subscribed tab is sent every alert once and in order: what is past its mark
\* waits in its queue, in the order of publication, or found the queue full.  (The
\* alerts published while its backfill was sent are before its mark.)
StreamExplained ==
    \A c \in Live :
       /\ \A i, j \in DOMAIN queue[c] : i < j => queue[c][i] < queue[c][j]
       /\ ToSet(queue[c]) = (mark[c] + 1 .. published) \ dropped[c]
===============================================================================
