------------------------------- MODULE TtlCache -------------------------------
(***************************************************************************)
(* The cache of upstream.py that the routes put before their upstreams:    *)
(* bounded, least recently used first out, every entry with a time to      *)
(* live, and one lock per key so that callers who miss together load once. *)
(*                                                                         *)
(* A lock is an object of its own: callers hold on to one that the table   *)
(* has evicted.  What a loader fetches is the version that the upstream    *)
(* has when the loader asks; its answer comes later, or never.  Time is    *)
(* counted in ticks, and an entry keeps what is left of its time to live.  *)
(***************************************************************************)
EXTENDS Naturals, Sequences, FiniteSets, SequencesExt

CONSTANTS
    Callers,
    Keys,
    NumLocks,    \* lock objects that are in use at a time
    None,
    MaxEntries,  \* _MAX_CACHE_ENTRIES
    TTL,         \* ttl_sec, in ticks
    Short,       \* max_ttl_sec of shorten
    MaxVersion,  \* bound: changes of the upstream
    MaxWait      \* bound: ticks of a caller's wait that count

Locks == 1 .. NumLocks

ASSUME TtlCacheAssumption ==
    /\ IsFiniteSet(Callers) /\ IsFiniteSet(Keys) /\ None \notin Callers \cup Keys \cup Locks
    /\ NumLocks \in Nat /\ NumLocks >= Cardinality(Callers) + Cardinality(Keys)
    /\ MaxEntries \in Nat \ {0} /\ TTL \in Nat \ {0} /\ Short \in 0 .. TTL
    /\ MaxVersion \in Nat /\ MaxWait \in Nat

VARIABLES
    origin,   \* key -> version of the upstream
    data,     \* _data, oldest first: [key, val, left]
    locks,    \* _locks, oldest first: [key, lock]
    owner,    \* lock -> the caller that has acquired it, or None
    pc,       \* caller -> idle, wait, load
    want,     \* caller -> the key it asked for
    lock,     \* caller -> the lock it waits for or has
    waited,   \* caller -> ticks since it looked at the clock first
    fetched,  \* caller -> the version its loader will answer
    expired,  \* history: an answer from the cache was past its time to live
    split     \* history: keys whose lock was evicted while a caller used it

callerVars == <<pc, want, lock, waited, fetched>>
vars == <<origin, data, locks, owner, callerVars, expired, split>>

TypeOK ==
    /\ origin \in [Keys -> 0 .. MaxVersion]
    /\ data \in Seq([key : Keys, val : 0 .. MaxVersion, left : 0 .. TTL])
    /\ locks \in Seq([key : Keys, lock : Locks])
    /\ \A i, j \in DOMAIN data : data[i].key = data[j].key => i = j
    /\ \A i, j \in DOMAIN locks : locks[i].key = locks[j].key => i = j
    /\ owner \in [Locks -> Callers \cup {None}]
    /\ pc \in [Callers -> {"idle", "wait", "load"}]
    /\ want \in [Callers -> Keys \cup {None}] /\ lock \in [Callers -> Locks \cup {None}]
    /\ waited \in [Callers -> 0 .. MaxWait] /\ fetched \in [Callers -> 0 .. MaxVersion]
    /\ split \subseteq Keys

Init ==
    /\ origin = [k \in Keys |-> 0]
    /\ data = <<>> /\ locks = <<>>
    /\ owner = [l \in Locks |-> None]
    /\ pc = [c \in Callers |-> "idle"]
    /\ want = [c \in Callers |-> None]
    /\ lock = [c \in Callers |-> None]
    /\ waited = [c \in Callers |-> 0]
    /\ fetched = [c \in Callers |-> 0]
    /\ expired = FALSE
    /\ split = {}

-----------------------------------------------------------------------------
(* The two ordered tables *)

Entries(table, k) == {e \in ToSet(table) : e.key = k}

Without(table, k) ==
    LET at == {i \in DOMAIN table : table[i].key = k}
    IN IF at = {} THEN table ELSE RemoveAt(table, CHOOSE i \in at : TRUE)

\* Written, or touched: the entry goes to the end.
Put(table, e) == Append(Without(table, e.key), e)

\* popitem(last=False) until the cap is met.
Newest(table) ==
    SubSeq(table, IF Len(table) > MaxEntries THEN Len(table) - MaxEntries + 1 ELSE 1, Len(table))

\* An entry that has not expired, seen from a clock that was read ago ticks ago.
Hits(k, ago) == {e \in Entries(data, k) : e.left + ago > 0}

Leave(c) ==
    /\ pc' = [pc EXCEPT ![c] = "idle"]
    /\ want' = [want EXCEPT ![c] = None]
    /\ lock' = [lock EXCEPT ![c] = None]
    /\ waited' = [waited EXCEPT ![c] = 0]
    /\ fetched' = [fetched EXCEPT ![c] = 0]

\* An answer from the cache touches its entry.
Serve(e) ==
    /\ data' = Put(data, e)
    /\ expired' = (expired \/ e.left = 0)

-----------------------------------------------------------------------------
(* get_or_fetch *)

FreeLock ==
    CHOOSE l \in Locks : /\ \A e \in ToSet(locks) : e.lock # l
                         /\ \A c \in Callers : lock[c] # l

\* The first look: an answer at once, or the lock of the key, made if there is
\* none.
Ask(c, k) ==
    /\ pc[c] = "idle"
    /\ \/ \E e \in Hits(k, 0) :
             Serve(e) /\ UNCHANGED <<locks, callerVars>>
       \/ /\ Hits(k, 0) = {}
          /\ LET l == IF Entries(locks, k) = {} THEN FreeLock
                      ELSE (CHOOSE e \in Entries(locks, k) : TRUE).lock
             IN /\ locks' = Put(locks, [key |-> k, lock |-> l])
                /\ lock' = [lock EXCEPT ![c] = l]
          /\ pc' = [pc EXCEPT ![c] = "wait"]
          /\ want' = [want EXCEPT ![c] = k]
          /\ UNCHANGED <<data, expired, waited, fetched>>
    /\ UNCHANGED <<origin, owner, split>>

\* Slip: the second look at the entry uses the clock of the first.
SlipEnter(c) ==
    /\ pc[c] = "wait" /\ owner[lock[c]] = None
    /\ \/ \E e \in Hits(want[c], waited[c]) :
             Serve(e) /\ Leave(c) /\ UNCHANGED owner
       \/ /\ Hits(want[c], waited[c]) = {}
          /\ owner' = [owner EXCEPT ![lock[c]] = c]
          /\ pc' = [pc EXCEPT ![c] = "load"]
          /\ fetched' = [fetched EXCEPT ![c] = origin[want[c]]]
          /\ UNCHANGED <<data, expired, want, lock, waited>>
    /\ UNCHANGED <<origin, locks, split>>

\* The lock is acquired and the clock read again: an entry stored meanwhile is the
\* answer, or the loader starts.
Enter(c) ==
    /\ pc[c] = "wait" /\ owner[lock[c]] = None
    /\ \/ \E e \in Hits(want[c], 0) :
             Serve(e) /\ Leave(c) /\ UNCHANGED owner
       \/ /\ Hits(want[c], 0) = {}
          /\ owner' = [owner EXCEPT ![lock[c]] = c]
          /\ pc' = [pc EXCEPT ![c] = "load"]
          /\ fetched' = [fetched EXCEPT ![c] = origin[want[c]]]
          /\ UNCHANGED <<data, expired, want, lock, waited>>
    /\ UNCHANGED <<origin, locks, split>>

Used(e) == \E c \in Callers : lock[c] = e.lock

\* The loader answers: the entry is stored, both tables are cut to size, and the
\* lock is released, evicted or not.
Loaded(c) ==
    /\ pc[c] = "load"
    /\ data' = Newest(Put(data, [key |-> want[c], val |-> fetched[c], left |-> TTL]))
    /\ locks' = Newest(locks)
    /\ split' = split \cup {e.key : e \in {f \in ToSet(locks) \ ToSet(Newest(locks)) : Used(f)}}
    /\ owner' = [owner EXCEPT ![lock[c]] = None]
    /\ Leave(c)
    /\ UNCHANGED <<origin, expired>>

\* Slip: a failed load takes the lock of its key out of the table.
SlipFailed(c) ==
    /\ pc[c] = "load"
    /\ owner' = [owner EXCEPT ![lock[c]] = None]
    /\ locks' = Without(locks, want[c])
    /\ Leave(c)
    /\ UNCHANGED <<origin, data, expired, split>>

\* The loader raises, or its caller is cancelled: only the lock is released.
Failed(c) ==
    /\ pc[c] = "load"
    /\ owner' = [owner EXCEPT ![lock[c]] = None]
    /\ Leave(c)
    /\ UNCHANGED <<origin, data, locks, expired, split>>

\* A caller that waits for the lock is cancelled.
GivesUp(c) ==
    /\ pc[c] = "wait"
    /\ Leave(c)
    /\ UNCHANGED <<origin, data, locks, owner, expired, split>>

Shorten(k) ==
    /\ \E e \in Entries(data, k) :
          /\ e.left > Short
          /\ data' = [i \in DOMAIN data |-> IF data[i] = e THEN [e EXCEPT !.left = Short] ELSE data[i]]
    /\ UNCHANGED <<origin, locks, owner, callerVars, expired, split>>

Invalidate(k) ==
    /\ Entries(data, k) # {}
    /\ data' = Without(data, k)
    /\ UNCHANGED <<origin, locks, owner, callerVars, expired, split>>

-----------------------------------------------------------------------------

UpstreamChanges(k) ==
    /\ origin[k] < MaxVersion
    /\ origin' = [origin EXCEPT ![k] = @ + 1]
    /\ UNCHANGED <<data, locks, owner, callerVars, expired, split>>

Tick ==
    /\ data' = [i \in DOMAIN data |->
                  [data[i] EXCEPT !.left = IF @ > 0 THEN @ - 1 ELSE 0]]
    /\ waited' = [c \in Callers |-> IF pc[c] = "wait" /\ waited[c] < MaxWait
                                    THEN waited[c] + 1 ELSE waited[c]]
    /\ UNCHANGED <<origin, locks, owner, pc, want, lock, fetched, expired, split>>

Next ==
    \/ \E c \in Callers : Enter(c) \/ Loaded(c) \/ Failed(c) \/ GivesUp(c)
    \/ \E c \in Callers, k \in Keys : Ask(c, k)
    \/ \E k \in Keys : Shorten(k) \/ Invalidate(k) \/ UpstreamChanges(k)
    \/ Tick

Spec == Init /\ [][Next]_vars

-----------------------------------------------------------------------------
(* Properties *)

\* A caller is never given an entry past its time to live, however long it waited
\* for the lock and whatever happened to the entry meanwhile.
NeverExpired == TypeOK /\ ~expired

\* Two callers load one key at a time only while one of them holds a lock that was
\* evicted under it.
OneLoader ==
    \A c, d \in Callers :
       /\ c # d
       /\ pc[c] = "load" /\ pc[d] = "load" /\ want[c] = want[d]
       => \E b \in {c, d} : [key |-> want[c], lock |-> lock[b]] \notin ToSet(locks)

\* Callers that miss together load once, so that a slow answer does not replace a
\* newer one: no step puts an older value in the place of a stored one, unless the
\* lock of the key was evicted while a caller used it.  A value that was dropped
\* in between is no longer compared: there OneLoader alone keeps the order.
LoadsInTurn ==
    [][/\ OneLoader'
       /\ \A e \in ToSet(data), f \in ToSet(data') :
             e.key = f.key /\ e.key \notin split => f.val >= e.val]_vars
===============================================================================
