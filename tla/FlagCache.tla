----------------------------- MODULE FlagCache ------------------------------
(***************************************************************************)
(* The (project, key) -> flag id cache of the ingest path                  *)
(* (ingest/flagcache.go, resolveFlagIDs in ingest/handler.go) and the      *)
(* hooks that evict it when a flag changes (ingest/flagcache_hooks.go).    *)
(*                                                                         *)
(* Every server process has a cache of its own.  A lookup that misses      *)
(* reads the database and then stores what it read; a flag write commits   *)
(* and then runs the hook in the process that made it.  None of the four   *)
(* is one step with another.                                               *)
(***************************************************************************)
EXTENDS Naturals, FiniteSets

CONSTANTS
    Procs,      \* server processes on one database
    Serving,    \* bound: those whose lookups are followed
    Lookups,    \* requests that resolve one flag key
    Writers,    \* flag edits
    Names,      \* (project, key) pairs
    Ids,        \* record ids, each used once
    Unknown,    \* the empty id: no flag has the key
    TTL,        \* flagCacheTTL
    Cap,        \* flagCacheCap
    ReadFails,  \* the outcomes of a database read: may it fail?
    MaxTime     \* bound on the clock

ASSUME FlagCacheAssumption ==
    /\ TTL \in Nat /\ MaxTime \in Nat /\ Cap \in Nat \ {0, 1}
    /\ Unknown \notin Ids
    /\ {"unused", "deleted"} \intersect Names = {}
    /\ Serving \subseteq Procs
    /\ ReadFails \subseteq BOOLEAN

VARIABLES
    flags,      \* id -> name of the flag, or "unused" or "deleted"
    cache,      \* process -> the entries it holds, one at most per name
    lookup,     \* lookup -> where it stands
    writer,     \* writer -> where it stands
    now,
    upset       \* name -> last time its flag changed or a read of it failed

vars == <<flags, cache, lookup, writer, now, upset>>

Idle == [at |-> "idle"]
Entry == [name : Names, id : Ids \union {Unknown}, exp : Nat]

(* The id a fresh read of the flags collection finds. *)
Holders(name) == {id \in Ids : flags[id] = name}
Current(name) == IF Holders(name) = {} THEN Unknown ELSE CHOOSE id \in Holders(name) : TRUE

EntriesOf(p, name) == {x \in cache[p] : x.name = name}
Expired(x) == now > x.exp

Init ==
    /\ flags \in [Ids -> Names \union {"unused"}]
    /\ \A i, j \in Ids : flags[i] = flags[j] /\ flags[i] \in Names => i = j
    /\ cache = [p \in Procs |-> {}]
    /\ lookup = [l \in Lookups |-> Idle]
    /\ writer = [w \in Writers |-> Idle]
    /\ now = 0
    /\ upset = [n \in Names |-> 0]

-----------------------------------------------------------------------------
(* resolveFlagIDs, for one key of one batch.                               *)
Move(l, state) == lookup' = [lookup EXCEPT ![l] = state]
Lookup(p, n, at) == [at |-> at, proc |-> p, name |-> n]

(* Mutant: an entry that is served is kept for another TTL. *)
GetRefreshes(l) ==
    /\ lookup[l] = Idle
    /\ \E p \in Serving, n \in Names :
         \/ /\ EntriesOf(p, n) = {}
            /\ Move(l, Lookup(p, n, "read"))
            /\ UNCHANGED cache
         \/ \E x \in EntriesOf(p, n) :
              /\ Move(l, IF Expired(x) THEN Lookup(p, n, "expired") ELSE Idle)
              /\ cache' = IF Expired(x) THEN cache
                          ELSE [cache EXCEPT ![p] = (@ \ {x}) \union {[x EXCEPT !.exp = now + TTL]}]
    /\ UNCHANGED <<flags, writer, now, upset>>

(* flagCacheGet, under the read lock: a miss, a hit, an expired entry. *)
Get(l) ==
    /\ lookup[l] = Idle
    /\ \E p \in Serving, n \in Names :
         \/ EntriesOf(p, n) = {} /\ Move(l, Lookup(p, n, "read"))
         \/ \E x \in EntriesOf(p, n) :
              Move(l, IF Expired(x) THEN Lookup(p, n, "expired") ELSE Idle)
    /\ UNCHANGED <<flags, cache, writer, now, upset>>

(* An expired entry is deleted under a lock taken anew. *)
DropExpired(l) ==
    /\ lookup[l].at = "expired"
    /\ cache' = [cache EXCEPT ![lookup[l].proc] = @ \ EntriesOf(lookup[l].proc, lookup[l].name)]
    /\ Move(l, [lookup[l] EXCEPT !.at = "read"])
    /\ UNCHANGED <<flags, writer, now, upset>>

(* The database read; a failing one counts as an unknown key. *)
Read(l) ==
    /\ lookup[l].at = "read"
    /\ \E failed \in ReadFails :
         LET n == lookup[l].name
         IN  /\ Move(l, [at |-> "put", proc |-> lookup[l].proc, name |-> n,
                         id |-> IF failed THEN Unknown ELSE Current(n)])
             /\ upset' = IF failed THEN [upset EXCEPT ![n] = now] ELSE upset
    /\ UNCHANGED <<flags, cache, writer, now>>

(* Mutant: the sweep of a full cache is forgotten when nothing expired. *)
KeptAll(entries) ==
    {{x \in entries : ~Expired(x)}}

(* A full cache gives up its expired entries, then others until less than  *)
(* half of it is left, one at least.                                       *)
Kept(entries) ==
    LET live == {x \in entries : ~Expired(x)}
        left == IF live = {} THEN 0
                ELSE IF Cardinality(live) < Cap \div 2 THEN Cardinality(live) - 1
                ELSE Cap \div 2 - 1
    IN  IF Cardinality(entries) < Cap THEN {entries}
        ELSE {keep \in SUBSET live : Cardinality(keep) = left}

(* flagCachePut. *)
Put(l) ==
    /\ lookup[l].at = "put"
    /\ \E keep \in Kept(cache[lookup[l].proc]) :
         cache' = [cache EXCEPT ![lookup[l].proc] =
                     {x \in keep : x.name # lookup[l].name}
                       \union {[name |-> lookup[l].name, id |-> lookup[l].id, exp |-> now + TTL]}]
    /\ Move(l, Idle)
    /\ UNCHANGED <<flags, writer, now, upset>>

-----------------------------------------------------------------------------
(* Flag writes: the commit, then the after-success hook.                   *)
Write(w, p, id, name, kind) ==
    /\ writer[w] = Idle
    /\ flags' = [flags EXCEPT ![id] = IF kind = "delete" THEN "deleted" ELSE name]
    /\ upset' = [n \in Names |-> IF n \in {name, flags[id]} THEN now ELSE upset[n]]
    /\ writer' = [writer EXCEPT ![w] =
                    [at |-> "evictName", proc |-> p, id |-> id, name |-> name, kind |-> kind]]
    /\ UNCHANGED <<cache, lookup, now>>

Create(w) ==
    \E p \in Procs, id \in Ids, n \in Names :
        /\ flags[id] = "unused" /\ Holders(n) = {}
        /\ Write(w, p, id, n, "create")

(* A new key, or another project. *)
Rename(w) ==
    \E p \in Procs, id \in Ids, n \in Names :
        /\ flags[id] \in Names /\ Holders(n) = {}
        /\ Write(w, p, id, n, "update")

Delete(w) ==
    \E p \in Procs, id \in Ids :
        /\ flags[id] \in Names
        /\ Write(w, p, id, flags[id], "delete")

(* flagCacheDel of the row's project and key as written. *)
EvictName(w) ==
    /\ writer[w].at = "evictName"
    /\ cache' = [cache EXCEPT ![writer[w].proc] = @ \ EntriesOf(writer[w].proc, writer[w].name)]
    /\ writer' = [writer EXCEPT ![w] =
                    IF @.kind = "create" THEN Idle ELSE [@ EXCEPT !.at = "evictId"]]
    /\ UNCHANGED <<flags, lookup, now, upset>>

EvictFlagByID(w) ==
    /\ writer[w].at = "evictId"
    /\ cache' = [cache EXCEPT ![writer[w].proc] = {x \in @ : x.id # writer[w].id}]
    /\ writer' = [writer EXCEPT ![w] = Idle]
    /\ UNCHANGED <<flags, lookup, now, upset>>

(* Time passes in units longer than a lookup takes from its read to its    *)
(* put.                                                                    *)
Tick ==
    /\ now < MaxTime
    /\ \A l \in Lookups : lookup[l].at # "put"
    /\ now' = now + 1
    /\ UNCHANGED <<flags, cache, lookup, writer, upset>>

Next ==
    \/ \E l \in Lookups : Get(l) \/ DropExpired(l) \/ Read(l) \/ Put(l)
    \/ \E w \in Writers : Create(w) \/ Rename(w) \/ Delete(w) \/ EvictName(w) \/ EvictFlagByID(w)
    \/ Tick

Spec == Init /\ [][Next]_vars

-----------------------------------------------------------------------------
(* A mapping that is served and wrong is at most one TTL behind: its flag  *)
(* changed, in whatever process, or a read of it failed, no longer ago     *)
(* ("edits on another process converge within one TTL", flagcache.go:27).  *)
StalenessBounded ==
    \A p \in Procs : \A x \in cache[p] :
        ~Expired(x) /\ x.id # Current(x.name) => now <= upset[x.name] + TTL

(* A process never holds more than Cap entries, nor two of one name. *)
CacheBounded ==
    \A p \in Procs :
        /\ Cardinality(cache[p]) <= Cap
        /\ \A n \in Names : Cardinality(EntriesOf(p, n)) <= 1

(* flagcache_hooks.go:12-13: a create evicts the entry, "so a negative hit *)
(* for a previously unknown key flips to the new flag ID immediately".     *)
(* Once the hooks of a process are done, it serves no negative entry for a *)
(* flag that exists, when no other process writes and no read failed.      *)
FlipsImmediately ==
    \A p \in Procs : \A x \in cache[p] :
        /\ \A w \in Writers : writer[w] = Idle
        /\ ~Expired(x) /\ x.id = Unknown
        => Current(x.name) = Unknown
=============================================================================
