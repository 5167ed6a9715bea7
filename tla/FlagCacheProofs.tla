--------------------------- MODULE FlagCacheProofs ---------------------------
(***************************************************************************)
(* For any processes, names, flags, TTL and capacity: the flag id cache    *)
(* keeps to its capacity, and what it serves wrongly is at most one TTL    *)
(* behind.                                                                 *)
(*                                                                         *)
(* The invariant dates every entry: the read it was stored from was made   *)
(* at exp - TTL, and since then its name has not changed, or has been      *)
(* upset.  A lookup between its read and its put is in the same position   *)
(* with the time of now, because no tick separates the two.                *)
(***************************************************************************)
EXTENDS FlagCache, FiniteSetTheorems, TLAPS

Reading == [at : {"read", "expired"}, proc : Procs, name : Names]
Putting == [at : {"put"}, proc : Procs, name : Names, id : Ids \union {Unknown}]
Evicting == [at : {"evictName", "evictId"}, proc : Procs, id : Ids, name : Names,
             kind : {"create", "update", "delete"}]

Types ==
    /\ flags \in [Ids -> Names \union {"unused", "deleted"}]
    /\ cache \in [Procs -> SUBSET Entry]
    /\ lookup \in [Lookups -> {Idle} \union Reading \union Putting]
    /\ writer \in [Writers -> {Idle} \union Evicting]
    /\ now \in Nat
    /\ upset \in [Names -> Nat]

(* One entry a name, and no more than Cap. *)
Sized(entries) ==
    /\ IsFiniteSet(entries) /\ Cardinality(entries) <= Cap
    /\ \A x, y \in entries : x.name = y.name => x = y
AllSized == \A p \in Procs : Sized(cache[p])

LEMMA CapIsNat == Cap \in Nat /\ Cap >= 2 /\ TTL \in Nat
  BY FlagCacheAssumption

LEMMA CurrentIsId == ASSUME NEW n PROVE Current(n) \in Ids \union {Unknown}
  BY DEF Current, Holders

LEMMA TypesInitially == Init => Types
  BY DEF Init, Types, Idle

-----------------------------------------------------------------------------
(* Type correctness. *)
LEMMA LookupKeepsTypes ==
    ASSUME Types, NEW l \in Lookups, Get(l) \/ DropExpired(l) \/ Read(l) \/ Put(l)
    PROVE  Types'
  <1>1. CASE Get(l)
    <2>1. PICK s \in {Idle} \union Reading : lookup' = [lookup EXCEPT ![l] = s]
      BY <1>1, FlagCacheAssumption DEF Get, Move, Lookup, Reading
    <2> QED
      BY <1>1, <2>1 DEF Get, Types
  <1>2. CASE DropExpired(l)
    <2>1. lookup[l] \in Reading
      BY <1>2 DEF DropExpired, Types, Idle, Putting
    <2>2. [lookup[l] EXCEPT !.at = "read"] \in Reading
      BY <2>1 DEF Reading
    <2> QED
      BY <1>2, <2>1, <2>2 DEF DropExpired, Move, Types
  <1>3. CASE Read(l)
    <2>1. lookup[l] \in Reading
      BY <1>3 DEF Read, Types, Idle, Putting
    <2>2. PICK s \in Putting : lookup' = [lookup EXCEPT ![l] = s]
      BY <1>3, <2>1, CurrentIsId DEF Read, Move, Reading, Putting
    <2>3. upset' \in [Names -> Nat]
      BY <1>3, <2>1 DEF Read, Types, Reading
    <2> QED
      BY <1>3, <2>2, <2>3 DEF Read, Types
  <1>4. CASE Put(l)
    <2>1. lookup[l] \in Putting
      BY <1>4 DEF Put, Types, Idle, Reading
    <2>2. PICK keep \in Kept(cache[lookup[l].proc]) :
            cache' = [cache EXCEPT ![lookup[l].proc] =
                        {x \in keep : x.name # lookup[l].name}
                          \union {[name |-> lookup[l].name, id |-> lookup[l].id, exp |-> now + TTL]}]
      BY <1>4 DEF Put
    <2>3. keep \subseteq cache[lookup[l].proc]
      BY DEF Kept
    <2>4. [name |-> lookup[l].name, id |-> lookup[l].id, exp |-> now + TTL] \in Entry
      BY <2>1, CapIsNat DEF Putting, Entry, Types
    <2>5. cache' \in [Procs -> SUBSET Entry]
      BY <2>1, <2>2, <2>3, <2>4 DEF Putting, Types
    <2> QED
      BY <1>4, <2>5 DEF Put, Move, Types
  <1> QED
    BY <1>1, <1>2, <1>3, <1>4

LEMMA WriterKeepsTypes ==
    ASSUME Types, NEW w \in Writers,
           Create(w) \/ Rename(w) \/ Delete(w) \/ EvictName(w) \/ EvictFlagByID(w)
    PROVE  Types'
  <1>1. ASSUME NEW p \in Procs, NEW id \in Ids, NEW name \in Names,
               NEW kind \in {"create", "update", "delete"}, Write(w, p, id, name, kind)
        PROVE  Types'
    BY <1>1 DEF Write, Types, Evicting
  <1>2. CASE Create(w) \/ Rename(w) \/ Delete(w)
    BY <1>1, <1>2 DEF Create, Rename, Delete
  <1>3. CASE EvictName(w)
    <2>1. writer[w] \in Evicting
      BY <1>3 DEF EvictName, Types, Idle
    <2>2. [writer[w] EXCEPT !.at = "evictId"] \in Evicting
      BY <2>1 DEF Evicting
    <2> QED
      BY <1>3, <2>1, <2>2 DEF EvictName, Types, Evicting
  <1>4. CASE EvictFlagByID(w)
    BY <1>4 DEF EvictFlagByID, Types
  <1> QED
    BY <1>2, <1>3, <1>4

LEMMA StepKeepsTypes == Types /\ [Next]_vars => Types'
  <1>1. Types /\ Tick => Types'
    BY DEF Types, Tick
  <1>2. Types /\ UNCHANGED vars => Types'
    BY DEF Types, vars
  <1> QED
    BY <1>1, <1>2, LookupKeepsTypes, WriterKeepsTypes DEF Next

-----------------------------------------------------------------------------
(* The capacity. *)
LEMMA SubsetIsSized ==
    ASSUME NEW entries, Sized(entries), NEW fewer \in SUBSET entries
    PROVE  Sized(fewer)
  <1>1. Cardinality(fewer) \in Nat /\ Cardinality(entries) \in Nat
    BY FS_Subset, FS_CardinalityType DEF Sized
  <1> QED
    BY <1>1, CapIsNat, FS_Subset DEF Sized

(* A put into a full cache first makes room: what is kept leaves one place. *)
LEMMA KeptLeavesRoom ==
    ASSUME NEW entries, Sized(entries), NEW keep \in Kept(entries)
    PROVE  /\ keep \subseteq entries /\ Sized(keep)
           /\ Cardinality(keep) \in Nat /\ Cardinality(keep) < Cap
  <1>1. keep \subseteq entries
    BY DEF Kept
  <1>2. Sized(keep) /\ Cardinality(keep) \in Nat /\ Cardinality(entries) \in Nat
    BY <1>1, SubsetIsSized, FS_CardinalityType DEF Sized
  <1>3. CASE Cardinality(entries) < Cap
    BY <1>1, <1>2, <1>3 DEF Kept
  <1>4. CASE ~(Cardinality(entries) < Cap)
    <2> DEFINE live == {x \in entries : ~Expired(x)}
    <2>1. live \in SUBSET entries
      OBVIOUS
    <2>2. IsFiniteSet(live) /\ Cardinality(live) \in Nat
      BY <2>1, FS_Subset, FS_CardinalityType DEF Sized
    <2>3. Cardinality(keep) = IF live = {} THEN 0
                              ELSE IF Cardinality(live) < Cap \div 2 THEN Cardinality(live) - 1
                              ELSE Cap \div 2 - 1
      BY <1>4 DEF Kept
    <2> HIDE DEF live
    <2>4. Cap \div 2 \in Nat /\ Cap \div 2 <= Cap
      BY CapIsNat
    <2> QED
      BY <1>1, <1>2, <2>2, <2>3, <2>4, CapIsNat
  <1> QED
    BY <1>3, <1>4

LEMMA PutIsSized ==
    ASSUME NEW entries, Sized(entries), NEW keep \in Kept(entries), NEW e
    PROVE  Sized({x \in keep : x.name # e.name} \union {e})
  <1> DEFINE others == {x \in keep : x.name # e.name}
  <1>1. others \in SUBSET keep
    OBVIOUS
  <1>2. Sized(keep) /\ Cardinality(keep) \in Nat /\ Cardinality(keep) < Cap
    BY KeptLeavesRoom
  <1>3. Sized(others) /\ IsFiniteSet(others)
    BY <1>1, <1>2, SubsetIsSized DEF Sized
  <1>4. Cardinality(others) \in Nat /\ Cardinality(others) <= Cardinality(keep)
    BY <1>1, <1>2, <1>3, FS_Subset, FS_CardinalityType DEF Sized
  <1>5. e \notin others
    OBVIOUS
  <1>6. IsFiniteSet(others \union {e}) /\ Cardinality(others \union {e}) = Cardinality(others) + 1
    BY <1>3, <1>5, FS_AddElement
  <1>7. \A x, y \in others \union {e} : x.name = y.name => x = y
    BY <1>3 DEF Sized
  <1> HIDE DEF others
  <1>8. Cardinality(others \union {e}) <= Cap
    BY <1>2, <1>4, <1>6, CapIsNat
  <1>9. Sized(others \union {e})
    BY <1>6, <1>7, <1>8 DEF Sized
  <1> QED
    BY <1>9 DEF others

LEMMA StepKeepsSized == Types /\ AllSized /\ [Next]_vars => AllSized'
  <1> SUFFICES ASSUME Types, AllSized, [Next]_vars
               PROVE  AllSized'
    OBVIOUS
  <1>1. ASSUME NEW p \in Procs, cache' = [cache EXCEPT ![p] = cache'[p]], Sized(cache'[p])
        PROVE  AllSized'
    BY <1>1 DEF AllSized, Sized, Types
  <1>2. ASSUME NEW p \in Procs, NEW fewer \in SUBSET cache[p],
               cache' = [cache EXCEPT ![p] = fewer]
        PROVE  AllSized'
    <2>1. Sized(fewer)
      BY <1>2, SubsetIsSized DEF AllSized
    <2> QED
      BY <1>1, <1>2, <2>1 DEF Types
  <1>3. ASSUME NEW l \in Lookups, DropExpired(l)
        PROVE  AllSized'
    <2>1. lookup[l].proc \in Procs
      BY <1>3 DEF DropExpired, Types, Idle, Reading, Putting
    <2> QED
      BY <1>2, <1>3, <2>1 DEF DropExpired
  <1>4. ASSUME NEW l \in Lookups, Put(l)
        PROVE  AllSized'
    <2>1. lookup[l].proc \in Procs
      BY <1>4 DEF Put, Types, Idle, Reading, Putting
    <2> DEFINE e == [name |-> lookup[l].name, id |-> lookup[l].id, exp |-> now + TTL]
    <2>2. PICK keep \in Kept(cache[lookup[l].proc]) :
            cache' = [cache EXCEPT ![lookup[l].proc] =
                        {x \in keep : x.name # e.name} \union {e}]
      BY <1>4 DEF Put
    <2> HIDE DEF e
    <2>3. Sized({x \in keep : x.name # e.name} \union {e})
      BY <2>1, PutIsSized DEF AllSized
    <2> QED
      BY <1>1, <2>1, <2>2, <2>3 DEF Types
  <1>5. ASSUME NEW w \in Writers, EvictName(w) \/ EvictFlagByID(w)
        PROVE  AllSized'
    <2>1. writer[w].proc \in Procs
      BY <1>5 DEF EvictName, EvictFlagByID, Types, Idle, Evicting
    <2> QED
      BY <1>2, <1>5, <2>1 DEF EvictName, EvictFlagByID
  <1>6. CASE UNCHANGED cache
    BY <1>6 DEF AllSized, Sized
  <1> QED
    BY <1>3, <1>4, <1>5, <1>6
    DEF Next, Get, Read, Create, Rename, Delete, Write, Tick, vars

(* A process holds at most Cap entries and one a name, however full its    *)
(* cache was when lookups of any number raced to put (flagcache.go).       *)
THEOREM CacheIsBounded == Spec => []CacheBounded
  <1>1. Init => AllSized
    BY CapIsNat, FS_EmptySet DEF Init, AllSized, Sized
  <1>2. ASSUME Types, AllSized
        PROVE  CacheBounded
    <2>1. ASSUME NEW p \in Procs, NEW n \in Names
          PROVE  Cardinality(EntriesOf(p, n)) <= 1
      <3>1. Sized(cache[p])
        BY <1>2 DEF AllSized
      <3>2. CASE EntriesOf(p, n) = {}
        BY <3>2, FS_EmptySet
      <3>3. CASE EntriesOf(p, n) # {}
        <4>1. PICK x : EntriesOf(p, n) = {x}
          BY <3>1, <3>3 DEF EntriesOf, Sized
        <4>2. Cardinality(EntriesOf(p, n)) = 1
          BY <4>1, FS_Singleton, Zenon
        <4> QED
          BY <4>2
      <3> QED
        BY <3>2, <3>3
    <2> QED
      BY <1>2, <2>1 DEF CacheBounded, AllSized, Sized
  <1> QED
    BY <1>1, <1>2, TypesInitially, StepKeepsTypes, StepKeepsSized, PTL DEF Spec

-----------------------------------------------------------------------------
(* Staleness.  Of an entry, and of what a lookup is about to put: it says  *)
(* what the collection says, or its name was upset no earlier than the     *)
(* read it stems from.                                                     *)
Dated(name, id, read) == id = Current(name) \/ upset[name] >= read

NoUpsetAhead == \A n \in Names : upset[n] <= now
EntriesDated ==
    \A p \in Procs : \A x \in cache[p] :
        x.exp <= now + TTL /\ Dated(x.name, x.id, x.exp - TTL)
PutsDated ==
    \A l \in Lookups : lookup[l].at = "put" => Dated(lookup[l].name, lookup[l].id, now)

Fresh == NoUpsetAhead /\ EntriesDated /\ PutsDated

(* A flag write leaves every name alone, or upsets it now. *)
LEMMA WriteUpsets ==
    ASSUME Types, NEW w \in Writers, NEW p, NEW id \in Ids, NEW name \in Names, NEW kind,
           Write(w, p, id, name, kind), NEW n \in Names
    PROVE  \/ upset'[n] = now
           \/ upset'[n] = upset[n] /\ Current(n)' = Current(n)
  <1>1. CASE n \in {name, flags[id]}
    BY <1>1 DEF Write
  <1>2. CASE n \notin {name, flags[id]}
    <2>1. flags'[id] # n /\ \A i \in Ids \ {id} : flags'[i] = flags[i]
      BY <1>2, FlagCacheAssumption DEF Write, Types
    <2>2. Holders(n)' = Holders(n)
      BY <1>2, <2>1 DEF Holders
    <2>3. Current(n)' = Current(n)
      BY <2>2 DEF Current
    <2> QED
      BY <1>2, <2>3 DEF Write
  <1> QED
    BY <1>1, <1>2

(* Steps that do not let time pass keep what is dated dated, whatever they *)
(* upset, as long as a name is only upset now. *)
LEMMA DatedKept ==
    ASSUME Types, NoUpsetAhead, now' = now, NEW n \in Names, NEW id, NEW read \in Int,
           Dated(n, id, read), read <= now,
           \/ upset'[n] = now
           \/ upset'[n] = upset[n] /\ Current(n)' = Current(n)
    PROVE  Dated(n, id, read)'
  BY DEF Types, NoUpsetAhead, Dated

LEMMA FreshStep ==
    ASSUME Types, Types', Fresh, now' = now,
           \A n \in Names : \/ upset'[n] = now
                            \/ upset'[n] = upset[n] /\ Current(n)' = Current(n),
           \A p \in Procs : \A x \in cache'[p] :
               \/ x \in cache[p]
               \/ x.exp = now + TTL /\ Dated(x.name, x.id, now),
           \A l \in Lookups : lookup'[l].at = "put" =>
               \/ lookup'[l] = lookup[l]
               \/ /\ lookup'[l].id = Current(lookup[l].name)
                  /\ lookup'[l].name = lookup[l].name
                  /\ Current(lookup[l].name)' = Current(lookup[l].name)
               \/ upset'[lookup'[l].name] = now
    PROVE  Fresh'
  <1>1. NoUpsetAhead'
    BY DEF Fresh, NoUpsetAhead, Types
  <1>2. EntriesDated'
    <2> SUFFICES ASSUME NEW p \in Procs, NEW x \in cache'[p]
                 PROVE  x.exp <= now + TTL /\ Dated(x.name, x.id, x.exp - TTL)'
      BY DEF EntriesDated
    <2>1. x \in Entry /\ x.exp \in Nat /\ x.name \in Names
      BY DEF Types, Entry
    <2>2. x.exp <= now + TTL /\ Dated(x.name, x.id, x.exp - TTL)
      <3>1. CASE x \in cache[p]
        BY <3>1 DEF Fresh, EntriesDated
      <3>2. CASE x.exp = now + TTL /\ Dated(x.name, x.id, now)
        <4>1. x.exp - TTL = now
          BY <3>2, CapIsNat DEF Types
        <4> QED
          BY <3>2, <4>1, CapIsNat DEF Types
      <3> QED
        BY <3>1, <3>2
    <2>3. x.exp - TTL \in Int /\ x.exp - TTL <= now
      BY <2>1, <2>2, CapIsNat DEF Types
    <2>4. Dated(x.name, x.id, x.exp - TTL)'
      BY <2>1, <2>2, <2>3, DatedKept DEF Fresh
    <2> QED
      BY <2>2, <2>4
  <1>3. PutsDated'
    <2> SUFFICES ASSUME NEW l \in Lookups, lookup'[l].at = "put"
                 PROVE  Dated(lookup[l].name, lookup[l].id, now)'
      BY DEF PutsDated
    <2>1. lookup'[l].name \in Names
      BY DEF Types, Idle, Reading, Putting
    <2>2. CASE lookup'[l] = lookup[l]
      BY <2>1, <2>2, DatedKept DEF Fresh, PutsDated, Types
    <2>3. CASE /\ lookup'[l].id = Current(lookup[l].name)
               /\ lookup'[l].name = lookup[l].name
               /\ Current(lookup[l].name)' = Current(lookup[l].name)
      BY <2>3 DEF Dated
    <2>4. CASE upset'[lookup'[l].name] = now
      BY <2>4 DEF Dated, Types
    <2> QED
      BY <2>2, <2>3, <2>4
  <1> QED
    BY <1>1, <1>2, <1>3 DEF Fresh

LEMMA StepKeepsFresh == Types /\ Fresh /\ [Next]_vars => Fresh'
  <1> SUFFICES ASSUME Types, Fresh, [Next]_vars
               PROVE  Fresh'
    OBVIOUS
  <1>0. Types'
    BY StepKeepsTypes
  <1>1. flags' = flags => \A n \in Names : Current(n)' = Current(n)
    <2> SUFFICES ASSUME flags' = flags, NEW n \in Names
                 PROVE  Current(n)' = Current(n)
      OBVIOUS
    <2>1. Holders(n)' = Holders(n)
      BY DEF Holders
    <2> QED
      BY <2>1 DEF Current
  <1>2. ASSUME UNCHANGED <<flags, upset, now>>,
               \A p \in Procs : cache'[p] \subseteq cache[p],
               \A l \in Lookups : lookup'[l].at = "put" => lookup'[l] = lookup[l]
        PROVE  Fresh'
    BY <1>0, <1>1, <1>2, FreshStep
  <1>3. ASSUME NEW l \in Lookups, Get(l)
        PROVE  Fresh'
    <2>1. \A k \in Lookups : lookup'[k].at = "put" => lookup'[k] = lookup[k]
      BY <1>3 DEF Get, Move, Lookup, Idle, Types
    <2> QED
      BY <1>2, <1>3, <2>1 DEF Get
  <1>4. ASSUME NEW l \in Lookups, DropExpired(l)
        PROVE  Fresh'
    <2>1. lookup[l] \in Reading
      BY <1>4 DEF DropExpired, Types, Idle, Putting
    <2>2. \A k \in Lookups : lookup'[k].at = "put" => lookup'[k] = lookup[k]
      BY <1>4, <2>1 DEF DropExpired, Move, Types, Reading
    <2> QED
      BY <1>2, <1>4, <2>1, <2>2 DEF DropExpired, Types
  <1>5. ASSUME NEW l \in Lookups, Read(l)
        PROVE  Fresh'
    <2>1. lookup[l] \in Reading
      BY <1>5 DEF Read, Types, Idle, Putting
    <2>2. PICK failed \in ReadFails :
            /\ lookup' = [lookup EXCEPT ![l] =
                            [at |-> "put", proc |-> lookup[l].proc, name |-> lookup[l].name,
                             id |-> IF failed THEN Unknown ELSE Current(lookup[l].name)]]
            /\ upset' = IF failed THEN [upset EXCEPT ![lookup[l].name] = now] ELSE upset
      BY <1>5 DEF Read, Move
    <2>3. UNCHANGED <<flags, cache, now>> /\ lookup[l].name \in Names
      BY <1>5, <2>1 DEF Read, Reading
    <2>4. \A n \in Names : upset'[n] = now \/ upset'[n] = upset[n]
      BY <2>2 DEF Types
    <2>5. \A k \in Lookups \ {l} : lookup'[k] = lookup[k]
      BY <2>2 DEF Types
    <2>6. /\ lookup'[l].name = lookup[l].name
          /\ failed => upset'[lookup[l].name] = now
          /\ ~failed => lookup'[l].id = Current(lookup[l].name)
      BY <2>2, <2>3, FlagCacheAssumption DEF Types
    <2> QED
      BY <1>0, <1>1, <2>3, <2>4, <2>5, <2>6, FreshStep
  <1>6. ASSUME NEW l \in Lookups, Put(l)
        PROVE  Fresh'
    <2>1. lookup[l] \in Putting
      BY <1>6 DEF Put, Types, Idle, Reading
    <2> DEFINE e == [name |-> lookup[l].name, id |-> lookup[l].id, exp |-> now + TTL]
    <2>2. PICK keep \in Kept(cache[lookup[l].proc]) :
            cache' = [cache EXCEPT ![lookup[l].proc] =
                        {x \in keep : x.name # e.name} \union {e}]
      BY <1>6 DEF Put
    <2>3. e.exp = now + TTL /\ Dated(e.name, e.id, now)
      BY <1>6, <2>1 DEF Put, Fresh, PutsDated, Putting
    <2> HIDE DEF e
    <2>4. keep \subseteq cache[lookup[l].proc]
      BY DEF Kept
    <2>5. \A p \in Procs : \A x \in cache'[p] : x \in cache[p] \/ x = e
      BY <2>1, <2>2, <2>4 DEF Types
    <2>6. \A k \in Lookups : lookup'[k].at = "put" => lookup'[k] = lookup[k]
      BY <1>6 DEF Put, Move, Idle, Types
    <2>7. UNCHANGED <<flags, upset, now>>
      BY <1>6 DEF Put
    <2> QED
      BY <1>0, <1>1, <2>3, <2>5, <2>6, <2>7, FreshStep
  <1>7. ASSUME NEW w \in Writers, Create(w) \/ Rename(w) \/ Delete(w)
        PROVE  Fresh'
    <2>1. PICK p \in Procs, id \in Ids, name \in Names,
                 kind \in {"create", "update", "delete"} : Write(w, p, id, name, kind)
      BY <1>7 DEF Create, Rename, Delete
    <2>2. \A n \in Names : \/ upset'[n] = now
                           \/ upset'[n] = upset[n] /\ Current(n)' = Current(n)
      BY <2>1, WriteUpsets
    <2>3. UNCHANGED <<cache, lookup, now>>
      BY <2>1 DEF Write
    <2> QED
      BY <1>0, <2>2, <2>3, FreshStep
  <1>8. ASSUME NEW w \in Writers, EvictName(w) \/ EvictFlagByID(w)
        PROVE  Fresh'
    <2>1. \A p \in Procs : cache'[p] \subseteq cache[p]
      BY <1>8 DEF EvictName, EvictFlagByID, Types
    <2> QED
      BY <1>2, <1>8, <2>1 DEF EvictName, EvictFlagByID
  <1>9. CASE Tick
    <2>1. \A n \in Names : Current(n)' = Current(n)
      BY <1>1, <1>9 DEF Tick
    <2>2. NoUpsetAhead' /\ PutsDated'
      BY <1>9 DEF Tick, Fresh, NoUpsetAhead, PutsDated, Types
    <2>3. EntriesDated'
      BY <1>9, <2>1, CapIsNat DEF Tick, Fresh, EntriesDated, Dated, Types, Entry
    <2> QED
      BY <2>2, <2>3 DEF Fresh
  <1>10. CASE UNCHANGED vars
    BY <1>2, <1>10 DEF vars
  <1> QED
    BY <1>3, <1>4, <1>5, <1>6, <1>7, <1>8, <1>9, <1>10 DEF Next

(* "Edits on another process converge within one TTL" (flagcache.go:27):   *)
(* what a process serves wrongly changed, or was misread, at most one TTL  *)
(* ago, for any processes, however lookups, writes, hooks and evictions    *)
(* interleave.                                                             *)
THEOREM StaleForOneTTL == Spec => []StalenessBounded
  <1>1. Init => Fresh
    BY DEF Init, Fresh, NoUpsetAhead, EntriesDated, PutsDated, Idle
  <1>2. Types /\ Fresh => StalenessBounded
    BY CapIsNat DEF Types, Fresh, EntriesDated, Dated, StalenessBounded, Expired, Entry
  <1> QED
    BY <1>1, <1>2, TypesInitially, StepKeepsTypes, StepKeepsFresh, PTL DEF Spec
=============================================================================
