---------------------------- MODULE TtlCache_proofs ----------------------------
(***************************************************************************)
(* For any number of callers, keys and entries: no caller is given an      *)
(* entry past its time to live, and callers that miss together load in     *)
(* turn, so that what is stored for a key never goes back in time.         *)
(*                                                                         *)
(* The second rests on whose lock is whose (LockInv) and on the one table  *)
(* entry through which all callers of a key meet, as long as it was not    *)
(* evicted under one of them (TurnInv).  The tables are reasoned about as  *)
(* the sets of their entries, one per key (Table): their order decides     *)
(* only what is evicted.                                                   *)
(***************************************************************************)
EXTENDS TtlCache, SequenceTheorems, FiniteSetTheorems, TLAPS

\* Nobody shares a lock object, and a lock is held by a caller that loads under it.
LockInv ==
    /\ \A e, f \in ToSet(locks) : e.lock = f.lock => e = f
    /\ \A c \in Callers :
          /\ pc[c] = "idle" => lock[c] = None
          /\ pc[c] # "idle" => want[c] \in Keys /\ lock[c] \in Locks
          /\ pc[c] = "load" => owner[lock[c]] = c
    /\ \A l \in Locks : owner[l] # None => pc[owner[l]] = "load" /\ lock[owner[l]] = l

\* As long as the lock of a key was not evicted under a caller, all who want the
\* key meet at its entry; and no entry is newer than the answer a loader brings.
TurnInv ==
    /\ \A c \in Callers :
          pc[c] # "idle" /\ want[c] \notin split =>
             [key |-> want[c], lock |-> lock[c]] \in ToSet(locks)
    /\ \A e \in ToSet(data) : e.val <= origin[e.key]
    /\ \A c \in Callers : pc[c] = "load" =>
          /\ fetched[c] <= origin[want[c]]
          /\ \A e \in ToSet(data) : e.key = want[c] /\ e.key \notin split => e.val <= fetched[c]

IInv == TypeOK /\ ~expired /\ LockInv /\ TurnInv

-----------------------------------------------------------------------------
(* The tables as sets of entries *)

Table(t, S) ==
    /\ t \in Seq(S)
    /\ \A i, j \in DOMAIN t : t[i].key = t[j].key => i = j

\* The content of a sequence, by its positions.
LEMMA Content ==
    ASSUME NEW S, NEW t \in Seq(S)
    PROVE  /\ ToSet(t) = {t[i] : i \in 1 .. Len(t)} /\ ToSet(t) \subseteq S
           /\ DOMAIN t = 1 .. Len(t) /\ Len(t) \in Nat
BY LenProperties, ElementOfSeq DEF ToSet

LEMMA OnePerKey ==
    ASSUME NEW S, NEW t, Table(t, S)
    PROVE  \A e, f \in ToSet(t) : e.key = f.key => e = f
BY Content DEF Table

\* Part of a table is a table.
LEMMA PartOfTable ==
    ASSUME NEW S, NEW t, Table(t, S), NEW m \in 1 .. Len(t) + 1
    PROVE  /\ Table(SubSeq(t, m, Len(t)), S)
           /\ ToSet(SubSeq(t, m, Len(t))) \subseteq ToSet(t)
<1> DEFINE u == SubSeq(t, m, Len(t))
<1>1. t \in Seq(S) /\ Len(t) \in Nat /\ \A i \in 1 .. Len(t) : t[i] \in S
  BY Content, ElementOfSeq DEF Table
<1>2. /\ u \in Seq(S) /\ Len(u) = Len(t) + 1 - m
      /\ \A i \in 1 .. Len(u) : u[i] = t[m + i - 1]
  BY <1>1, SubSeqProperties
<1>3. /\ DOMAIN u = 1 .. Len(u) /\ ToSet(u) = {u[i] : i \in 1 .. Len(u)}
      /\ DOMAIN t = 1 .. Len(t) /\ ToSet(t) = {t[i] : i \in 1 .. Len(t)}
  BY <1>1, <1>2, Content
<1> HIDE DEF u
<1>4. \A i \in 1 .. Len(u) : m + i - 1 \in 1 .. Len(t) BY <1>1, <1>2
<1> QED BY <1>1, <1>2, <1>3, <1>4 DEF Table, u

LEMMA NewestTable ==
    ASSUME NEW S, NEW t, Table(t, S)
    PROVE  Table(Newest(t), S) /\ ToSet(Newest(t)) \subseteq ToSet(t)
<1>1. Len(t) \in Nat /\ MaxEntries \in Nat \ {0}
  BY Content, TtlCacheAssumption DEF Table
<1>2. (IF Len(t) > MaxEntries THEN Len(t) - MaxEntries + 1 ELSE 1) \in 1 .. Len(t) + 1
  BY <1>1
<1> QED BY <1>2, PartOfTable DEF Newest

LEMMA WithoutTable ==
    ASSUME NEW S, NEW t, Table(t, S), NEW k
    PROVE  /\ Table(Without(t, k), S)
           /\ ToSet(Without(t, k)) = {e \in ToSet(t) : e.key # k}
<1> DEFINE at == {i \in DOMAIN t : t[i].key = k}
<1>1. /\ t \in Seq(S) /\ Len(t) \in Nat /\ DOMAIN t = 1 .. Len(t)
      /\ ToSet(t) = {t[i] : i \in 1 .. Len(t)} /\ \A i \in 1 .. Len(t) : t[i] \in S
  BY Content, ElementOfSeq DEF Table
<1>2. CASE at = {} BY <1>1, <1>2 DEF Without
<1>3. CASE at # {}
  <2> DEFINE n == CHOOSE i \in at : TRUE
             a == SubSeq(t, 1, n - 1)
             b == SubSeq(t, n + 1, Len(t))
             u == a \o b
  <2>1. n \in 1 .. Len(t) /\ t[n].key = k BY <1>1, <1>3
  <2>2. Without(t, k) = u BY <1>3 DEF Without, RemoveAt
  <2> HIDE DEF n
  <2>3. /\ a \in Seq(S) /\ Len(a) = n - 1 /\ \A i \in 1 .. n - 1 : a[i] = t[i]
        /\ b \in Seq(S) /\ Len(b) = Len(t) - n /\ \A i \in 1 .. Len(t) - n : b[i] = t[n + i]
    <3>1. /\ a \in Seq(S) /\ Len(a) = n - 1 /\ \A i \in 1 .. n - 1 : a[i] = t[i]
      BY <1>1, <2>1, SubSeqProperties
    <3>2. n + 1 \in Int /\ Len(t) \in Int /\ \A i \in n + 1 .. Len(t) : t[i] \in S
      BY <1>1, <2>1
    <3>3. /\ b \in Seq(S)
          /\ Len(b) = IF n + 1 <= Len(t) THEN Len(t) - (n + 1) + 1 ELSE 0
          /\ \A i \in 1 .. Len(t) - (n + 1) + 1 : b[i] = t[(n + 1) + i - 1]
      BY <3>2, SubSeqProperties
    <3>4. Len(b) = Len(t) - n
      <4>1. (IF n + 1 <= Len(t) THEN Len(t) - (n + 1) + 1 ELSE 0) = Len(t) - n
        BY <1>1, <2>1
      <4> QED BY <3>3, <4>1
    <3>5. \A i \in 1 .. Len(t) - n : b[i] = t[n + i]
      <4> TAKE i \in 1 .. Len(t) - n
      <4>1. (n + 1) + i - 1 = n + i /\ i \in 1 .. Len(t) - (n + 1) + 1 BY <1>1, <2>1
      <4> QED BY <3>3, <4>1
    <3> QED BY <3>1, <3>3, <3>4, <3>5
  <2> HIDE DEF a, b
  <2>4. /\ u \in Seq(S) /\ Len(u) = Len(t) - 1
        /\ \A i \in 1 .. Len(u) : u[i] = IF i < n THEN t[i] ELSE t[i + 1]
    <3>1. /\ u \in Seq(S) /\ Len(u) = Len(a) + Len(b)
          /\ \A i \in 1 .. Len(a) + Len(b) : u[i] = IF i <= Len(a) THEN a[i] ELSE b[i - Len(a)]
      BY <2>3, ConcatProperties
    <3> QED BY <1>1, <2>1, <2>3, <3>1
  <2> HIDE DEF u
  <2>5. DOMAIN u = 1 .. Len(u) /\ ToSet(u) = {u[i] : i \in 1 .. Len(u)} BY <2>4, Content
  <2>6. Table(u, S) BY <1>1, <2>1, <2>4, <2>5 DEF Table
  <2>7. \A i \in 1 .. Len(t) : i # n => t[i].key # k BY <1>1, <2>1 DEF Table
  <2>8. \A i \in 1 .. Len(t) : i # n => \E j \in 1 .. Len(u) : u[j] = t[i]
    <3> TAKE i \in 1 .. Len(t)
    <3>1. CASE i < n BY <1>1, <2>1, <2>4, <3>1
    <3>2. CASE i > n
      <4>1. i - 1 \in 1 .. Len(u) /\ u[i - 1] = t[i] BY <1>1, <2>1, <2>4, <3>2
      <4> QED BY <4>1
    <3> QED BY <3>1, <3>2, <1>1, <2>1
  <2>9. \A j \in 1 .. Len(u) : \E i \in 1 .. Len(t) : i # n /\ u[j] = t[i]
    <3> TAKE j \in 1 .. Len(u)
    <3>1. CASE j < n BY <1>1, <2>1, <2>4, <3>1
    <3>2. CASE j >= n
      <4>1. j + 1 \in 1 .. Len(t) /\ j + 1 # n /\ u[j] = t[j + 1] BY <1>1, <2>1, <2>4, <3>2
      <4> QED BY <4>1
    <3> QED BY <3>1, <3>2, <1>1, <2>1, <2>4
  <2> QED BY <1>1, <2>1, <2>2, <2>5, <2>6, <2>7, <2>8, <2>9
<1> QED BY <1>2, <1>3

LEMMA PutTable ==
    ASSUME NEW S, NEW t, Table(t, S), NEW e \in S
    PROVE  /\ Table(Put(t, e), S)
           /\ ToSet(Put(t, e)) = {f \in ToSet(t) : f.key # e.key} \cup {e}
<1> DEFINE w == Without(t, e.key)
           u == Append(w, e)
<1>1. Table(w, S) /\ ToSet(w) = {f \in ToSet(t) : f.key # e.key} BY WithoutTable
<1>2. Put(t, e) = u BY DEF Put
<1> HIDE DEF w
<1>3. /\ w \in Seq(S) /\ Len(w) \in Nat /\ DOMAIN w = 1 .. Len(w)
      /\ ToSet(w) = {w[i] : i \in 1 .. Len(w)}
  BY <1>1, Content DEF Table
<1>4. /\ u \in Seq(S) /\ Len(u) = Len(w) + 1 /\ u[Len(w) + 1] = e
      /\ \A i \in 1 .. Len(w) : u[i] = w[i]
  BY <1>3, AppendProperties
<1> HIDE DEF u
<1>5. DOMAIN u = 1 .. Len(u) /\ ToSet(u) = {u[i] : i \in 1 .. Len(u)} BY <1>4, Content
<1>6. ToSet(u) = ToSet(w) \cup {e}
  <2>1. 1 .. Len(u) = 1 .. Len(w) \cup {Len(w) + 1} BY <1>3, <1>4
  <2> QED BY <1>3, <1>4, <1>5, <2>1
<1>7. \A i \in 1 .. Len(w) : w[i].key # e.key BY <1>1, <1>3
<1>8. Table(u, S)
  <2> SUFFICES ASSUME NEW i \in 1 .. Len(u), NEW j \in 1 .. Len(u), u[i].key = u[j].key
               PROVE  i = j
    BY <1>4, <1>5 DEF Table
  <2>1. CASE i \in 1 .. Len(w) /\ j \in 1 .. Len(w) BY <1>1, <1>3, <1>4, <2>1 DEF Table
  <2>2. CASE i = Len(w) + 1 \/ j = Len(w) + 1 BY <1>3, <1>4, <1>7, <2>2
  <2> QED BY <1>3, <1>4, <2>1, <2>2
<1> QED BY <1>1, <1>2, <1>6, <1>8

\* Entries written where they are keep their keys.
LEMMA MapTable ==
    ASSUME NEW S, NEW t, Table(t, S), NEW u, DOMAIN u = DOMAIN t,
           \A i \in DOMAIN t : u[i] \in S /\ u[i].key = t[i].key,
           u = [i \in DOMAIN t |-> u[i]]
    PROVE  /\ Table(u, S)
           /\ \A f \in ToSet(u) : \E i \in DOMAIN t : f = u[i] /\ t[i] \in ToSet(t)
<1>1. t \in Seq(S) /\ DOMAIN t = 1 .. Len(t) /\ Len(t) \in Nat BY Content DEF Table
<1>2. u \in Seq(S) BY <1>1
<1> QED BY <1>1, <1>2 DEF Table, ToSet

-----------------------------------------------------------------------------
(* Helpers of the steps *)

Entry == [key : Keys, val : 0 .. MaxVersion, left : 0 .. TTL]
LockEntry == [key : Keys, lock : Locks]

\* TypeOK by its tables and the rest.
Scalars ==
    /\ origin \in [Keys -> 0 .. MaxVersion]
    /\ owner \in [Locks -> Callers \cup {None}]
    /\ pc \in [Callers -> {"idle", "wait", "load"}]
    /\ want \in [Callers -> Keys \cup {None}] /\ lock \in [Callers -> Locks \cup {None}]
    /\ waited \in [Callers -> 0 .. MaxWait] /\ fetched \in [Callers -> 0 .. MaxVersion]
    /\ split \subseteq Keys

LEMMA Types == TypeOK <=> Table(data, Entry) /\ Table(locks, LockEntry) /\ Scalars
BY DEF TypeOK, Table, Entry, LockEntry, Scalars

LEMMA TypesPrimed == TypeOK' <=> Table(data', Entry) /\ Table(locks', LockEntry) /\ Scalars'
BY DEF TypeOK, Table, Entry, LockEntry, Scalars

\* What a step may read off the tables.
LEMMA Facts ==
    ASSUME IInv
    PROVE  /\ Table(data, Entry) /\ Table(locks, LockEntry) /\ Scalars
           /\ ToSet(data) \subseteq Entry /\ ToSet(locks) \subseteq LockEntry
           /\ \A e, f \in ToSet(data) : e.key = f.key => e = f
           /\ \A e, f \in ToSet(locks) : e.key = f.key => e = f
<1>1. Table(data, Entry) /\ Table(locks, LockEntry) /\ Scalars BY Types DEF IInv
<1> QED BY <1>1, OnePerKey, Content DEF Table

\* There are more locks than callers and keys can use, so one is free for a caller
\* that uses none and a key that has none.
LEMMA FreeLockIsFree ==
    ASSUME IInv, NEW c \in Callers, NEW k \in Keys, pc[c] = "idle", Entries(locks, k) = {}
    PROVE  /\ FreeLock \in Locks
           /\ \A e \in ToSet(locks) : e.lock # FreeLock
           /\ \A d \in Callers : lock[d] # FreeLock
<1> DEFINE held == {lock[d] : d \in Callers \ {c}}
           listed == {e.lock : e \in ToSet(locks)}
<1>1. IsFiniteSet(held) /\ Cardinality(held) <= Cardinality(Callers) - 1
  <2>1. /\ IsFiniteSet(Callers \ {c}) /\ Cardinality(Callers \ {c}) = Cardinality(Callers) - 1
    BY TtlCacheAssumption, FS_RemoveElement
  <2>2. [d \in Callers \ {c} |-> lock[d]] \in Surjection(Callers \ {c}, held)
    BY DEF Surjection
  <2>3. IsFiniteSet(held) /\ Cardinality(held) <= Cardinality(Callers \ {c})
    BY <2>1, <2>2, FS_Surjection
  <2> QED BY <2>1, <2>3
<1>2. IsFiniteSet(listed) /\ Cardinality(listed) <= Cardinality(Keys)
  <2> DEFINE ks == {e.key : e \in ToSet(locks)}
             lockOf == [j \in ks |-> (CHOOSE e \in ToSet(locks) : e.key = j).lock]
  <2>1. ks \subseteq Keys BY Facts DEF LockEntry
  <2>2. IsFiniteSet(ks) /\ Cardinality(ks) <= Cardinality(Keys)
    BY <2>1, TtlCacheAssumption, FS_Subset
  <2>3. lockOf \in Surjection(ks, listed)
    <3>1. \A e \in ToSet(locks) : e.key \in ks /\ lockOf[e.key] = e.lock
      <4> TAKE e \in ToSet(locks)
      <4> DEFINE f == CHOOSE g \in ToSet(locks) : g.key = e.key
      <4>1. f \in ToSet(locks) /\ f.key = e.key OBVIOUS
      <4> HIDE DEF f
      <4>2. f = e BY <4>1, Facts
      <4> QED BY <4>2 DEF f
    <3>2. \A j \in ks : lockOf[j] \in listed BY <3>1
    <3>3. \A l \in listed : \E j \in ks : lockOf[j] = l BY <3>1
    <3> QED BY <3>2, <3>3 DEF Surjection
  <2>4. IsFiniteSet(listed) /\ Cardinality(listed) <= Cardinality(ks)
    BY <2>2, <2>3, FS_Surjection
  <2>5. Cardinality(ks) \in Nat /\ Cardinality(listed) \in Nat /\ Cardinality(Keys) \in Nat
    BY <2>2, <2>4, TtlCacheAssumption, FS_CardinalityType
  <2> QED BY <2>2, <2>4, <2>5
<1>3. \E l \in Locks : l \notin held \cup listed
  <2> SUFFICES ASSUME Locks \subseteq held \cup listed PROVE FALSE OBVIOUS
  <2>1. IsFiniteSet(held \cup listed)
        /\ Cardinality(held \cup listed) <= Cardinality(held) + Cardinality(listed)
    <3> HIDE DEF held, listed
    <3>1. Cardinality(held \cup listed) = Cardinality(held) + Cardinality(listed)
                                            - Cardinality(held \cap listed)
      BY <1>1, <1>2, FS_Union
    <3>2. IsFiniteSet(held \cap listed) /\ IsFiniteSet(held \cup listed)
      BY <1>1, <1>2, FS_Intersection, FS_Union
    <3> QED BY <1>1, <1>2, <3>1, <3>2, FS_CardinalityType
  <2>2. Cardinality(Locks) = NumLocks
    <3>1. Cardinality(1 .. NumLocks) = IF 1 > NumLocks THEN 0 ELSE NumLocks - 1 + 1
      BY TtlCacheAssumption, FS_Interval
    <3>2. (IF 1 > NumLocks THEN 0 ELSE NumLocks - 1 + 1) = NumLocks
      BY TtlCacheAssumption
    <3> QED BY <3>1, <3>2 DEF Locks
  <2>3. Cardinality(Locks) <= Cardinality(held \cup listed)
    BY <2>1, FS_Subset
  <2>4. /\ Cardinality(held) \in Nat /\ Cardinality(listed) \in Nat
        /\ Cardinality(held \cup listed) \in Nat
        /\ Cardinality(Callers) \in Nat /\ Cardinality(Keys) \in Nat
    BY <1>1, <1>2, <2>1, TtlCacheAssumption, FS_CardinalityType
  <2> HIDE DEF held, listed
  <2> QED BY <1>1, <1>2, <2>1, <2>2, <2>3, <2>4, TtlCacheAssumption
<1>4. \E l \in Locks : (\A e \in ToSet(locks) : e.lock # l) /\ \A d \in Callers : lock[d] # l
  <2>1. PICK l \in Locks : l \notin held \cup listed BY <1>3
  <2>2. \A e \in ToSet(locks) : e.lock # l BY <2>1
  <2>3. lock[c] # l BY TtlCacheAssumption DEF IInv, LockInv
  <2>4. \A d \in Callers : lock[d] # l BY <2>1, <2>3
  <2> QED BY <2>2, <2>4
<1> QED BY <1>4 DEF FreeLock

-----------------------------------------------------------------------------
(* Every step keeps the invariant, and takes no stored value back *)

Newer ==
    \A e \in ToSet(data), f \in ToSet(data') :
       e.key = f.key /\ e.key \notin split => f.val >= e.val

Kept == IInv' /\ Newer

\* An answer from the cache leaves the entries as they are.
LEMMA ServeKeeps ==
    ASSUME IInv, NEW k, NEW e \in Hits(k, 0), Serve(e)
    PROVE  Table(data', Entry) /\ ToSet(data') = ToSet(data) /\ ~expired'
<1>1. e \in ToSet(data) /\ e \in Entry /\ e.left > 0
  BY Facts DEF Hits, Entries, Entry
<1>2. /\ Table(data', Entry)
      /\ ToSet(data') = {f \in ToSet(data) : f.key # e.key} \cup {e}
  BY <1>1, Facts, PutTable DEF Serve
<1>3. e.left # 0 BY <1>1
<1>4. ~expired' BY <1>3 DEF Serve, IInv
<1> QED BY <1>1, <1>2, <1>4, Facts

LEMMA AskKeeps == ASSUME IInv, NEW c \in Callers, NEW k \in Keys, Ask(c, k) PROVE Kept
<1>1. ASSUME NEW e \in Hits(k, 0), Serve(e), UNCHANGED <<locks, callerVars>> PROVE Kept
  <2>1. /\ Table(data', Entry) /\ ToSet(data') = ToSet(data) /\ ~expired'
        /\ UNCHANGED <<origin, locks, owner, pc, want, lock, waited, fetched, split>>
    BY <1>1, ServeKeeps DEF Ask, callerVars
  <2>2. TypeOK' BY <2>1, Facts, TypesPrimed DEF Scalars
  <2>3. LockInv' /\ TurnInv' BY <2>1 DEF IInv, LockInv, TurnInv
  <2>4. Newer BY <2>1, Facts DEF Newer, Entry
  <2> QED BY <2>1, <2>2, <2>3, <2>4 DEF Kept, IInv
<1>2. ASSUME ~ \E e \in Hits(k, 0) : Serve(e) /\ UNCHANGED <<locks, callerVars>> PROVE Kept
  <2> DEFINE es == Entries(locks, k)
             l == IF es = {} THEN FreeLock ELSE (CHOOSE e \in es : TRUE).lock
             new == [key |-> k, lock |-> l]
  <2>1. /\ pc[c] = "idle" /\ pc' = [pc EXCEPT ![c] = "wait"]
        /\ want' = [want EXCEPT ![c] = k] /\ lock' = [lock EXCEPT ![c] = l]
        /\ locks' = Put(locks, new)
        /\ UNCHANGED <<origin, data, owner, waited, fetched, expired, split>>
    BY <1>2 DEF Ask
  <2>2. /\ l \in Locks
        /\ (\E e \in ToSet(locks) : e.key = k) => new \in ToSet(locks)
        /\ (\A e \in ToSet(locks) : e.key # k) =>
              \A e \in ToSet(locks) : e.lock # l
    <3>1. CASE es = {} BY <2>1, <3>1, FreeLockIsFree DEF Entries
    <3>2. CASE es # {}
      <4>1. PICK e \in es : l = e.lock BY <3>2
      <4>2. e \in ToSet(locks) /\ e \in LockEntry /\ e.key = k BY <4>1, Facts DEF Entries
      <4>3. e = new BY <4>1, <4>2 DEF LockEntry
      <4> QED BY <4>1, <4>2, <4>3 DEF LockEntry
    <3> QED BY <3>1, <3>2
  <2> HIDE DEF l
  <2>3. new \in LockEntry BY <2>2 DEF LockEntry
  <2>4. /\ Table(locks', LockEntry)
        /\ ToSet(locks') = {f \in ToSet(locks) : f.key # k} \cup {new}
    BY <2>1, <2>3, Facts, PutTable
  <2>5. ToSet(locks) \subseteq ToSet(locks')
    BY <2>2, <2>3, <2>4, Facts DEF LockEntry
  <2>6. TypeOK' BY <2>1, <2>2, <2>4, Facts, TypesPrimed DEF Scalars
  <2>7. LockInv'
    <3>1. \A e, f \in ToSet(locks') : e.lock = f.lock => e = f
      BY <2>2, <2>3, <2>4 DEF IInv, LockInv
    <3> QED BY <2>1, <2>2, <3>1, Facts, TtlCacheAssumption DEF Scalars, IInv, LockInv
  <2>8. TurnInv' BY <2>1, <2>2, <2>4, <2>5, Facts DEF Scalars, IInv, TurnInv
  <2>9. Newer BY <2>1, Facts DEF Newer, Entry
  <2> QED BY <2>1, <2>6, <2>7, <2>8, <2>9 DEF Kept, IInv
<1> QED BY <1>1, <1>2

LEMMA EnterKeeps == ASSUME IInv, NEW c \in Callers, Enter(c) PROVE Kept
<1>1. ASSUME NEW e \in Hits(want[c], 0), Serve(e), Leave(c), UNCHANGED owner PROVE Kept
  <2>1. /\ Table(data', Entry) /\ ToSet(data') = ToSet(data) /\ ~expired'
        /\ pc[c] = "wait" /\ UNCHANGED <<origin, locks, owner, split>>
    BY <1>1, ServeKeeps DEF Enter
  <2>2. TypeOK' BY <1>1, <2>1, Facts, TypesPrimed, TtlCacheAssumption DEF Scalars, Leave
  <2>3. LockInv' BY <1>1, <2>1, Facts DEF Scalars, Leave, IInv, LockInv
  <2>4. TurnInv' BY <1>1, <2>1, Facts DEF Scalars, Leave, IInv, TurnInv
  <2>5. Newer BY <2>1, Facts DEF Newer, Entry
  <2> QED BY <2>1, <2>2, <2>3, <2>4, <2>5 DEF Kept, IInv
<1>2. ASSUME ~ \E e \in Hits(want[c], 0) : Serve(e) /\ Leave(c) /\ UNCHANGED owner PROVE Kept
  <2>1. /\ pc[c] = "wait" /\ owner[lock[c]] = None
        /\ owner' = [owner EXCEPT ![lock[c]] = c]
        /\ pc' = [pc EXCEPT ![c] = "load"]
        /\ fetched' = [fetched EXCEPT ![c] = origin[want[c]]]
        /\ UNCHANGED <<origin, data, locks, want, lock, waited, expired, split>>
    BY <1>2 DEF Enter
  <2>2. want[c] \in Keys /\ lock[c] \in Locks BY <2>1 DEF IInv, LockInv
  <2>3. TypeOK' BY <2>1, <2>2, Facts, TypesPrimed DEF Scalars
  <2>4. LockInv' BY <2>1, <2>2, Facts, TtlCacheAssumption DEF Scalars, IInv, LockInv
  <2>5. TurnInv' BY <2>1, <2>2, Facts DEF Scalars, IInv, TurnInv, Entry
  <2>6. Newer BY <2>1, Facts DEF Newer, Entry
  <2> QED BY <2>1, <2>3, <2>4, <2>5, <2>6 DEF Kept, IInv
<1> QED BY <1>1, <1>2

\* A caller that leaves releases the lock it holds, if any.
LEMMA LeaveKeeps ==
    ASSUME IInv, NEW c \in Callers, Leave(c), pc[c] # "idle",
           \/ pc[c] = "wait" /\ owner' = owner
           \/ pc[c] = "load" /\ owner' = [owner EXCEPT ![lock[c]] = None],
           UNCHANGED <<origin, data, locks, expired, split>>
    PROVE  Kept
<1>1. TypeOK' BY Facts, TypesPrimed, TtlCacheAssumption DEF Scalars, Leave
<1>2. LockInv' BY Facts, TtlCacheAssumption DEF Scalars, Leave, IInv, LockInv
<1>3. TurnInv' BY Facts DEF Scalars, Leave, IInv, TurnInv
<1>4. Newer BY Facts DEF Newer, Entry
<1> QED BY <1>1, <1>2, <1>3, <1>4 DEF Kept, IInv

LEMMA LoadedKeeps == ASSUME IInv, NEW c \in Callers, Loaded(c) PROVE Kept
<1> DEFINE new == [key |-> want[c], val |-> fetched[c], left |-> TTL]
           gone == {f \in ToSet(locks) \ ToSet(Newest(locks)) : Used(f)}
<1>1. /\ pc[c] = "load" /\ Leave(c)
      /\ data' = Newest(Put(data, new)) /\ locks' = Newest(locks)
      /\ split' = split \cup {e.key : e \in gone}
      /\ owner' = [owner EXCEPT ![lock[c]] = None]
      /\ UNCHANGED <<origin, expired>>
  BY DEF Loaded
<1>2. new \in Entry /\ want[c] \in Keys /\ lock[c] \in Locks
  BY <1>1, Facts, TtlCacheAssumption DEF Scalars, Entry, IInv, LockInv
<1>3. /\ Table(data', Entry)
      /\ \A f \in ToSet(data') : f = new \/ (f \in ToSet(data) /\ f.key # want[c])
  <2>1. /\ Table(Put(data, new), Entry)
        /\ ToSet(Put(data, new)) = {f \in ToSet(data) : f.key # want[c]} \cup {new}
    BY <1>2, Facts, PutTable
  <2> QED BY <1>1, <2>1, NewestTable
<1>4. Table(locks', LockEntry) /\ ToSet(locks') \subseteq ToSet(locks)
  BY <1>1, Facts, NewestTable
<1>5. \A d \in Callers : pc[d] # "idle" /\ want[d] \notin split' =>
         [key |-> want[d], lock |-> lock[d]] \in ToSet(locks')
  <2> SUFFICES ASSUME NEW d \in Callers, pc[d] # "idle", want[d] \notin split',
                      [key |-> want[d], lock |-> lock[d]] \notin ToSet(locks')
               PROVE  FALSE
    OBVIOUS
  <2> DEFINE f == [key |-> want[d], lock |-> lock[d]]
  <2>1. f \in ToSet(locks) BY <1>1 DEF IInv, TurnInv
  <2>2. f \in gone BY <1>1, <2>1 DEF Used
  <2> QED BY <1>1, <2>2
<1> HIDE DEF gone
<1>6. TypeOK'
  <2>1. split' \subseteq Keys BY <1>1, Facts DEF gone, Scalars, LockEntry
  <2> QED BY <1>1, <1>2, <1>3, <1>4, <2>1, Facts, TypesPrimed, TtlCacheAssumption DEF Scalars, Leave
<1>7. LockInv' BY <1>1, <1>2, <1>4, Facts, TtlCacheAssumption DEF Scalars, Leave, IInv, LockInv
<1>8. \A d \in Callers : d # c /\ pc[d] = "load" /\ want[d] \notin split => want[d] # want[c]
  <2> SUFFICES ASSUME NEW d \in Callers, d # c, pc[d] = "load", want[d] \notin split,
                      want[d] = want[c]
               PROVE  FALSE
    OBVIOUS
  <2>1. /\ [key |-> want[c], lock |-> lock[d]] \in ToSet(locks)
        /\ [key |-> want[c], lock |-> lock[c]] \in ToSet(locks)
    BY <1>1 DEF IInv, TurnInv
  <2>2. lock[d] = lock[c] BY <2>1, Facts
  <2> QED BY <1>1, <2>2 DEF IInv, LockInv
<1>9. TurnInv'
  <2>1. \A d \in Callers : pc'[d] # "idle" =>
           d # c /\ pc'[d] = pc[d] /\ want'[d] = want[d] /\ lock'[d] = lock[d]
           /\ fetched'[d] = fetched[d]
    BY <1>1, Facts DEF Scalars, Leave
  <2>2. split \subseteq split' BY <1>1
  <2>3. \A e \in ToSet(data') : e.val <= origin'[e.key]
    BY <1>1, <1>2, <1>3 DEF IInv, TurnInv
  <2>4. \A d \in Callers : pc'[d] = "load" =>
           /\ fetched'[d] <= origin'[want'[d]]
           /\ \A e \in ToSet(data') : e.key = want'[d] /\ e.key \notin split' => e.val <= fetched'[d]
    BY <1>1, <1>3, <1>8, <2>1, <2>2 DEF IInv, TurnInv
  <2> QED BY <1>5, <2>1, <2>3, <2>4 DEF TurnInv
<1>10. Newer BY <1>1, <1>2, <1>3, Facts DEF Newer, IInv, TurnInv, Entry, Scalars
<1> QED BY <1>1, <1>6, <1>7, <1>9, <1>10 DEF Kept, IInv

\* Entries that vanish, or are written with the key and value they had.
LEMMA DataKeeps ==
    ASSUME IInv, Table(data', Entry),
           \A f \in ToSet(data') : \E e \in ToSet(data) : f.key = e.key /\ f.val = e.val,
           Scalars', UNCHANGED <<origin, locks, owner, pc, want, lock, fetched, expired, split>>
    PROVE  Kept
<1>1. TypeOK' BY Facts, TypesPrimed
<1>2. LockInv' BY DEF IInv, LockInv
<1>3. TurnInv' BY DEF IInv, TurnInv
<1>4. Newer BY Facts DEF Newer, Entry
<1> QED BY <1>1, <1>2, <1>3, <1>4 DEF Kept, IInv

LEMMA ShortenKeeps == ASSUME IInv, NEW k \in Keys, Shorten(k) PROVE Kept
<1>1. PICK e \in Entries(data, k) :
         data' = [i \in DOMAIN data |-> IF data[i] = e THEN [e EXCEPT !.left = Short] ELSE data[i]]
  BY DEF Shorten
<1>2. e \in Entry /\ [e EXCEPT !.left = Short] = [key |-> e.key, val |-> e.val, left |-> Short]
  BY <1>1, Facts DEF Entries, Entry
<1>3. \A i \in DOMAIN data : data[i] \in Entry /\ data[i] \in ToSet(data)
  BY Facts DEF ToSet
<1>4. \A i \in DOMAIN data : /\ data'[i] \in Entry
                             /\ data'[i].key = data[i].key /\ data'[i].val = data[i].val
  <2> TAKE i \in DOMAIN data
  <2>1. CASE data[i] = e
    <3>1. data'[i] = [key |-> e.key, val |-> e.val, left |-> Short] BY <1>1, <1>2, <2>1
    <3> QED BY <1>2, <2>1, <3>1, TtlCacheAssumption DEF Entry
  <2>2. CASE data[i] # e BY <1>1, <1>3, <2>2
  <2> QED BY <2>1, <2>2
<1>5. /\ Table(data', Entry)
      /\ \A f \in ToSet(data') : \E i \in DOMAIN data : f = data'[i] /\ data[i] \in ToSet(data)
  <2>1. DOMAIN data' = DOMAIN data /\ data' = [i \in DOMAIN data |-> data'[i]] BY <1>1
  <2> QED BY <1>4, <2>1, Facts, MapTable
<1>6. \A f \in ToSet(data') : \E g \in ToSet(data) : f.key = g.key /\ f.val = g.val
  BY <1>4, <1>5
<1> QED BY <1>5, <1>6, Facts, DataKeeps DEF Shorten, Scalars, callerVars

LEMMA InvalidateKeeps == ASSUME IInv, NEW k \in Keys, Invalidate(k) PROVE Kept
<1>1. Table(data', Entry) /\ ToSet(data') \subseteq ToSet(data)
  BY Facts, WithoutTable DEF Invalidate
<1>2. \A f \in ToSet(data') : \E g \in ToSet(data) : f.key = g.key /\ f.val = g.val BY <1>1
<1> QED BY <1>1, <1>2, Facts, DataKeeps DEF Invalidate, Scalars, callerVars

LEMMA TickKeeps == ASSUME IInv, Tick PROVE Kept
<1>1. \A i \in DOMAIN data : data[i] \in Entry /\ data[i] \in ToSet(data)
  BY Facts DEF ToSet
<1>2. \A i \in DOMAIN data :
         data'[i] = [key |-> data[i].key, val |-> data[i].val,
                     left |-> IF data[i].left > 0 THEN data[i].left - 1 ELSE 0]
  BY <1>1 DEF Tick, Entry
<1>3. \A i \in DOMAIN data : /\ data'[i] \in Entry
                             /\ data'[i].key = data[i].key /\ data'[i].val = data[i].val
  <2> TAKE i \in DOMAIN data
  <2> DEFINE n == IF data[i].left > 0 THEN data[i].left - 1 ELSE 0
  <2>1. n \in 0 .. TTL BY <1>1, TtlCacheAssumption DEF Entry
  <2>2. data'[i] = [key |-> data[i].key, val |-> data[i].val, left |-> n] BY <1>2
  <2> HIDE DEF n
  <2>3. data[i].key \in Keys /\ data[i].val \in 0 .. MaxVersion BY <1>1 DEF Entry
  <2> QED BY <2>1, <2>2, <2>3 DEF Entry
<1>4. /\ Table(data', Entry)
      /\ \A f \in ToSet(data') : \E i \in DOMAIN data : f = data'[i] /\ data[i] \in ToSet(data)
  <2>1. DOMAIN data' = DOMAIN data /\ data' = [i \in DOMAIN data |-> data'[i]] BY DEF Tick
  <2> QED BY <1>3, <2>1, Facts, MapTable
<1>5. \A f \in ToSet(data') : \E g \in ToSet(data) : f.key = g.key /\ f.val = g.val
  BY <1>3, <1>4
<1>6. Scalars' BY Facts, TtlCacheAssumption DEF Scalars, Tick
<1> QED BY <1>4, <1>5, <1>6, DataKeeps DEF Tick

LEMMA UpstreamKeeps == ASSUME IInv, NEW k \in Keys, UpstreamChanges(k) PROVE Kept
<1> USE DEF UpstreamChanges, callerVars
<1>1. TypeOK' BY Facts, TypesPrimed, TtlCacheAssumption DEF Scalars
<1>2. LockInv' BY DEF IInv, LockInv
<1>3. \A j \in Keys : origin[j] \in Nat /\ origin'[j] \in Nat /\ origin[j] <= origin'[j]
  BY Facts, TtlCacheAssumption DEF Scalars
<1>4. TurnInv'
  <2>1. \A e \in ToSet(data) : e.val \in Nat /\ e.key \in Keys BY Facts DEF Entry
  <2>2. \A c \in Callers : fetched[c] \in Nat /\ (pc[c] = "load" => want[c] \in Keys)
    BY Facts DEF Scalars, IInv, LockInv
  <2> QED BY <1>3, <2>1, <2>2 DEF IInv, TurnInv
<1>5. Newer BY Facts DEF Newer, Entry
<1> QED BY <1>1, <1>2, <1>4, <1>5 DEF Kept, IInv

LEMMA StepKeeps == IInv /\ [Next]_vars => Kept
<1> SUFFICES ASSUME IInv, [Next]_vars PROVE Kept OBVIOUS
<1>1. ASSUME UNCHANGED vars PROVE Kept
  BY <1>1, Facts, DataKeeps DEF vars, callerVars, Scalars
<1>2. ASSUME NEW c \in Callers, Failed(c) \/ GivesUp(c) PROVE Kept
  BY <1>2, LeaveKeeps DEF Failed, GivesUp
<1> QED
  BY <1>1, <1>2, AskKeeps, EnterKeeps, LoadedKeeps, ShortenKeeps, InvalidateKeeps, TickKeeps,
     UpstreamKeeps
  DEF Next

LEMMA Initially == Init => IInv
<1> SUFFICES ASSUME Init PROVE IInv OBVIOUS
<1>1. ToSet(<<>>) = {} BY DEF ToSet
<1>2. TypeOK BY TtlCacheAssumption DEF Init, TypeOK
<1>3. LockInv /\ TurnInv BY <1>1, TtlCacheAssumption DEF Init, LockInv, TurnInv
<1> QED BY <1>2, <1>3 DEF Init, IInv

\* get_or_fetch: no caller is given an entry past its time to live.
THEOREM NothingExpiredServed == Spec => []NeverExpired
<1>1. IInv => NeverExpired BY DEF IInv, NeverExpired
<1>2. IInv /\ [Next]_vars => IInv' BY StepKeeps DEF Kept
<1> QED BY <1>1, <1>2, Initially, PTL DEF Spec

\* The lock of a key: two callers load it at a time only when it was evicted under
\* one of them, and no step takes the stored value of a key back in time otherwise.
THEOREM LoadsTakeTurns == Spec => LoadsInTurn
<1>1. IInv /\ [Next]_vars => IInv' BY StepKeeps DEF Kept
<1>2. IInv => OneLoader
  <2> SUFFICES ASSUME IInv, NEW c \in Callers, NEW d \in Callers, c # d,
                      pc[c] = "load", pc[d] = "load", want[c] = want[d],
                      [key |-> want[c], lock |-> lock[c]] \in ToSet(locks),
                      [key |-> want[c], lock |-> lock[d]] \in ToSet(locks)
               PROVE  FALSE
    BY DEF OneLoader
  <2>1. lock[c] = lock[d] BY Facts
  <2> QED BY <2>1 DEF IInv, LockInv
<1>3. IInv' => OneLoader' BY <1>2, PTL
<1>4. IInv /\ [Next]_vars =>
        [/\ OneLoader'
         /\ \A e \in ToSet(data), f \in ToSet(data') :
               e.key = f.key /\ e.key \notin split => f.val >= e.val]_vars
  BY <1>3, StepKeeps DEF Kept, Newer
<1> QED BY <1>1, <1>4, Initially, PTL DEF Spec, LoadsInTurn
===============================================================================
