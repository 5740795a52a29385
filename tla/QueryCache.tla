----------------------------- MODULE QueryCache -----------------------------
(***************************************************************************)
(* The query cache of src/fundadb_hash.c: a hash table split in            *)
(* partitions, each with its own rwlock, and an array (ptrArray) of every  *)
(* entry of the partition that the purge thread walks to free entries.     *)
(*                                                                         *)
(* Three kinds of actors run concurrently: the mysql threads call fdb_get  *)
(* and fdb_set; purgeHash_thread expires and frees entries; the admin      *)
(* thread runs fdb_truncate_all (FLUSH QUERY CACHE).  A reader leaves the   *)
(* lock before it reads the entry, so only ref_count protects it.  Each    *)
(* stretch of code between two points where another actor can interfere is *)
(* one action.                                                             *)
(*                                                                         *)
(* A result set is a model value; every entry counts one unit of memory.   *)
(*                                                                         *)
(* An operator Mut_X is X with a mistake of the kind a programmer makes;   *)
(* no specification uses it.  Substituted for X it shows that a property   *)
(* would notice the mistake.                                               *)
(***************************************************************************)
EXTENDS Integers, Sequences, FiniteSets

CONSTANTS
    Threads,        \* the mysql threads
    Keys,           \* query checksums
    Values,         \* result sets
    Entries,        \* memory cells an fdb_hash_entry can be allocated in
    NumPartitions,  \* hg->size
    PartitionOf,    \* [Keys -> 0..NumPartitions-1], the byte sum modulo size
    TTLs,           \* the cache_ttl values of the query rules
    HashExpireMax, HashExpireDefault,
    MaxMemory,      \* max_memory_size, in entries
    ThresholdPctMin, \* purge_threshold_pct_min
    PurgeLoop, PurgeTime, \* hash_purge_loop and hash_purge_time
    MinChunk,       \* the literal 10 of the chunk computation
    MaxTime,        \* bound on the clock
    NoEntry, NoKey, Miss

Partitions == 0 .. NumPartitions - 1

ASSUME PartitionAssumption ==
    /\ NumPartitions \in Nat \ {0}
    /\ PartitionOf \in [Keys -> Partitions]

ASSUME TimingAssumption ==
    /\ TTLs \subseteq Nat
    /\ HashExpireMax \in Nat
    /\ HashExpireDefault \in Nat
    /\ PurgeLoop \in Nat \ {0}
    /\ PurgeTime \in Nat \ {0}
    /\ MinChunk \in Nat \ {0}
    /\ MaxTime \in Nat \ {0}

ASSUME MemoryAssumption ==
    /\ MaxMemory \in Nat \ {0}
    /\ ThresholdPctMin \in Nat
    /\ NoEntry \notin Entries
    /\ Miss \notin Values
    /\ NoKey \notin Keys
    /\ Keys # {}
    /\ Values # {}
    /\ IsFiniteSet(Threads)
    /\ IsFiniteSet(Entries)

EXPIRE_DROPIT == 0

VARIABLES
    clock,      \* time(NULL)
    now,        \* hg->now, refreshed by the purge thread only
    alloc,      \* the cells that are allocated
    entry,      \* their contents
    hash,       \* the entry a key is mapped to by the GHashTable
    hashKey,    \* the entry that owns the key string the GHashTable refers to
    ptrArray,   \* per partition, all its entries
    purgeIdx, purgeChunkSize,
    size,       \* size_keys + size_values + size_metas
    wrlock,     \* who holds a partition's lock for writing across steps
    pc, held, wanted, res,  \* per mysql thread: step, entry, key, result
    purge,      \* the purge thread: step, partition and min_idx
    truncating  \* how many write locks fdb_truncate_all holds

tvars == <<pc, held, wanted, res>>
vars == <<clock, now, alloc, entry, hash, hashKey, ptrArray, purgeIdx,
          purgeChunkSize, size, wrlock, tvars, purge, truncating>>

EntryRec == [key : Keys, value : Values, expire : Nat, ref_count : Nat]

ReaderSteps == {"check", "copy", "release"}
WriterSteps == {"insert", "account"}

Init ==
    /\ clock = 1
    /\ now = 1
    /\ alloc = {}
    /\ entry \in [Entries -> {[key |-> CHOOSE k \in Keys : TRUE,
                               value |-> CHOOSE v \in Values : TRUE,
                               expire |-> EXPIRE_DROPIT, ref_count |-> 0]}]
    /\ hash = [k \in Keys |-> NoEntry]
    /\ hashKey = [k \in Keys |-> NoEntry]
    /\ ptrArray = [p \in Partitions |-> <<>>]
    /\ purgeIdx = [p \in Partitions |-> 0]
    /\ purgeChunkSize = [p \in Partitions |-> 0]
    /\ size = 0
    /\ wrlock = [p \in Partitions |-> "none"]
    /\ pc = [t \in Threads |-> "idle"]
    /\ held = [t \in Threads |-> NoEntry]
    /\ wanted = [t \in Threads |-> NoKey]
    /\ res = [t \in Threads |-> Miss]
    /\ purge = [step |-> "sleep", part |-> 0, min_idx |-> 0]
    /\ truncating = 0

Tick ==
    /\ clock < MaxTime
    /\ clock' = clock + 1
    /\ UNCHANGED <<now, alloc, entry, hash, hashKey, ptrArray, purgeIdx,
                   purgeChunkSize, size, wrlock, tvars, purge, truncating>>

-----------------------------------------------------------------------------
(* fdb_get.  The lookup and the increment of ref_count run under the read   *)
(* lock; expiry, the copy and the decrement do not.                         *)

Mut_Pinned(e) == entry
Pinned(e) == [entry EXCEPT ![e].ref_count = @ + 1]

FdbGetLookup(t, k) ==
    /\ pc[t] = "idle"
    /\ wrlock[PartitionOf[k]] = "none"
    /\ hash[k] # NoEntry   \* otherwise fdb_get returns NULL: a stutter
    /\ entry' = Pinned(hash[k])
    /\ wanted' = [wanted EXCEPT ![t] = k]
    /\ held' = [held EXCEPT ![t] = hash[k]]
    /\ pc' = [pc EXCEPT ![t] = "check"]
    /\ UNCHANGED <<clock, now, alloc, res, hash, hashKey, ptrArray, purgeIdx,
                   purgeChunkSize, size, wrlock, purge, truncating>>

Fresh(e) == entry[e].expire > now

AfterCheck(e) == IF Fresh(e) THEN "copy" ELSE "release"

FdbGetCheck(t) ==
    /\ pc[t] = "check"
    /\ pc' = [pc EXCEPT ![t] = AfterCheck(held[t])]
    /\ UNCHANGED <<clock, now, alloc, entry, hash, hashKey, ptrArray, purgeIdx,
                   purgeChunkSize, size, wrlock, held, wanted, res, purge,
                   truncating>>

FdbGetCopy(t) ==
    /\ pc[t] = "copy"
    /\ res' = [res EXCEPT ![t] = entry[held[t]].value]
    /\ pc' = [pc EXCEPT ![t] = "release"]
    /\ UNCHANGED <<clock, now, alloc, entry, hash, hashKey, ptrArray, purgeIdx,
                   purgeChunkSize, size, wrlock, held, wanted, purge,
                   truncating>>

FdbGetRelease(t) ==
    /\ pc[t] = "release"
    /\ entry' = [entry EXCEPT ![held[t]].ref_count = @ - 1]
    /\ res' = [res EXCEPT ![t] = Miss]   \* handed over to the caller
    /\ held' = [held EXCEPT ![t] = NoEntry]
    /\ wanted' = [wanted EXCEPT ![t] = NoKey]
    /\ pc' = [pc EXCEPT ![t] = "idle"]
    /\ UNCHANGED <<clock, now, alloc, hash, hashKey, ptrArray, purgeIdx,
                   purgeChunkSize, size, wrlock, purge, truncating>>

-----------------------------------------------------------------------------
(* fdb_set, called by server_COM_QUERY once free memory has been checked.   *)
(* The entry is built before the lock is taken, published under the write   *)
(* lock, and accounted for after the lock is released.                      *)

FreeMem == IF size > MaxMemory THEN 0 ELSE MaxMemory - size

ExpireAt(ttl) ==
    IF ttl > 0
      THEN IF ttl > HashExpireMax THEN ttl ELSE now + ttl
      ELSE now + HashExpireDefault

FdbSetPrepare(t, k, v, ttl, e) ==
    /\ pc[t] = "idle"
    /\ 1 <= FreeMem
    /\ e \notin alloc
    /\ alloc' = alloc \cup {e}
    /\ entry' = [entry EXCEPT ![e] = [key |-> k, value |-> v,
                                      expire |-> ExpireAt(ttl), ref_count |-> 0]]
    /\ held' = [held EXCEPT ![t] = e]
    /\ pc' = [pc EXCEPT ![t] = "insert"]
    /\ UNCHANGED <<clock, now, hash, hashKey, ptrArray, purgeIdx, purgeChunkSize,
                   size, wrlock, wanted, res, purge, truncating>>

(* hash_value_destroy_func, for the entries the GHashTable lets go of. *)
Mut_Dropped(E) == entry
Dropped(E) ==
    [e \in Entries |-> IF e \in E THEN [entry[e] EXCEPT !.expire = EXPIRE_DROPIT]
                                  ELSE entry[e]]

(* g_hash_table_replace takes over the new entry's key string as well. *)
Mut_ReplacedKeyOwner(k, e) ==
    IF hashKey[k] = NoEntry THEN [hashKey EXCEPT ![k] = e] ELSE hashKey
ReplacedKeyOwner(k, e) == [hashKey EXCEPT ![k] = e]

FdbSetInsert(t) ==
    LET e == held[t]
        k == entry[e].key
        p == PartitionOf[k]
    IN  /\ pc[t] = "insert"
        /\ wrlock[p] = "none"
        /\ ptrArray' = [ptrArray EXCEPT ![p] = Append(@, e)]
        /\ hash' = [hash EXCEPT ![k] = e]
        /\ hashKey' = ReplacedKeyOwner(k, e)
        /\ entry' = Dropped({hash[k]})
        /\ pc' = [pc EXCEPT ![t] = "account"]
        /\ held' = [held EXCEPT ![t] = NoEntry]
        /\ UNCHANGED <<clock, now, alloc, purgeIdx, purgeChunkSize, size, wrlock,
                       wanted, res, purge, truncating>>

FdbSetAccount(t) ==
    /\ pc[t] = "account"
    /\ size' = size + 1
    /\ pc' = [pc EXCEPT ![t] = "idle"]
    /\ UNCHANGED <<clock, now, alloc, entry, hash, hashKey, ptrArray, purgeIdx,
                   purgeChunkSize, wrlock, held, wanted, res, purge,
                   truncating>>

-----------------------------------------------------------------------------
(* purgeHash_thread. *)

UsedMemPct ==
    LET pct == IF size < 0 THEN -((-size * 100) \div MaxMemory)
                           ELSE (size * 100) \div MaxMemory
    IN  IF pct > 100 THEN 100 ELSE pct

PurgeWake ==
    /\ purge.step = "sleep"
    /\ now' = clock
    /\ purge' = IF UsedMemPct < ThresholdPctMin
                  THEN purge
                  ELSE [purge EXCEPT !.step = "lock", !.part = 0]
    /\ UNCHANGED <<clock, alloc, entry, hash, hashKey, ptrArray, purgeIdx,
                   purgeChunkSize, size, wrlock, tvars, truncating>>

(* A new sweep of the array starts at its end, in chunks. *)
ChunkFor(len) ==
    LET c == (len * PurgeLoop) \div PurgeTime
    IN  IF c < MinChunk THEN len ELSE c

Mut_MinIdx(idx, chunk) == 1
MinIdx(idx, chunk) ==
    LET m == IF idx > chunk THEN idx - chunk ELSE 0
    IN  IF m < chunk THEN 0 ELSE m

Mut_SweepStart(len) == len + 1
SweepStart(len) == len

PurgeLock ==
    LET p == purge.part
        len == Len(ptrArray[p])
        restart == purgeIdx[p] = 0 /\ len # 0
        idx == IF restart THEN SweepStart(len) ELSE purgeIdx[p]
        chunk == IF restart THEN ChunkFor(len) ELSE purgeChunkSize[p]
    IN  /\ purge.step = "lock"
        /\ wrlock[p] = "none"
        /\ wrlock' = [wrlock EXCEPT ![p] = "purge"]
        /\ purgeIdx' = [purgeIdx EXCEPT ![p] = idx]
        /\ purgeChunkSize' = [purgeChunkSize EXCEPT ![p] = chunk]
        /\ purge' = [purge EXCEPT !.step = IF idx = 0 THEN "unlock" ELSE "scan",
                                  !.min_idx = MinIdx(idx, chunk)]
        /\ UNCHANGED <<clock, now, alloc, entry, hash, hashKey, ptrArray, size,
                       tvars, truncating>>

Mut_Expired(e) == entry[e].expire # EXPIRE_DROPIT
Expired(e) == entry[e].expire # EXPIRE_DROPIT /\ entry[e].expire <= now

(* g_ptr_array_remove_index_fast: the last element takes the place. *)
Mut_RemoveIndexFast(s, i) == [j \in 1 .. Len(s) - 1 |-> s[j]]
RemoveIndexFast(s, i) ==
    [j \in 1 .. Len(s) - 1 |-> IF j = i THEN s[Len(s)] ELSE s[j]]

Mut_Freeable(e, ent) == ent[e].expire = EXPIRE_DROPIT
Freeable(e, ent) == ent[e].expire = EXPIRE_DROPIT /\ ent[e].ref_count = 0

Mut_AccountedFree(n) == size
AccountedFree(n) == size - n

Mut_NextIdx(p) ==
    LET e == ptrArray[p][purgeIdx[p]]
    IN  IF Expired(e) \/ Freeable(e, entry)
          THEN [purgeIdx EXCEPT ![p] = @ - 1] ELSE purgeIdx
NextIdx(p) == [purgeIdx EXCEPT ![p] = @ - 1]

(* One iteration of the while loop; C's index i is position i+1. *)
PurgeEntry ==
    LET p == purge.part
        i == purgeIdx[p] - 1
        e == ptrArray[p][i + 1]
        k == entry[e].key
        gone == IF Expired(e) THEN {hash[k]} ELSE {}
    IN  /\ purge.step = "scan"
        /\ purgeIdx' = NextIdx(p)
        /\ \/ /\ i <= purge.min_idx
              /\ purge' = [purge EXCEPT !.step = "unlock"]
              /\ UNCHANGED <<alloc, entry, hash, hashKey, ptrArray, size>>
           \/ /\ i > purge.min_idx
              /\ entry' = Dropped(gone)
              /\ hash' = IF Expired(e) THEN [hash EXCEPT ![k] = NoEntry] ELSE hash
              /\ hashKey' = IF Expired(e) THEN [hashKey EXCEPT ![k] = NoEntry]
                                          ELSE hashKey
              /\ \/ /\ Freeable(e, Dropped(gone))
                    /\ alloc' = alloc \ {e}
                    /\ size' = AccountedFree(1)
                    /\ ptrArray' = [ptrArray EXCEPT ![p] = RemoveIndexFast(@, i + 1)]
                 \/ /\ ~Freeable(e, Dropped(gone))
                    /\ UNCHANGED <<alloc, size, ptrArray>>
              /\ UNCHANGED purge
        /\ UNCHANGED <<clock, now, purgeChunkSize, wrlock, tvars, truncating>>

PurgeUnlock ==
    /\ purge.step = "unlock"
    /\ wrlock' = [wrlock EXCEPT ![purge.part] = "none"]
    /\ purge' = IF purge.part + 1 < NumPartitions
                  THEN [purge EXCEPT !.step = "lock", !.part = @ + 1]
                  ELSE [purge EXCEPT !.step = "sleep"]
    /\ UNCHANGED <<clock, now, alloc, entry, hash, hashKey, ptrArray, purgeIdx,
                   purgeChunkSize, size, tvars, truncating>>

-----------------------------------------------------------------------------
(* fdb_truncate_all, run by the admin thread: every write lock is taken in  *)
(* partition order, then all the tables are emptied and the locks released. *)

TruncateLock ==
    /\ truncating < NumPartitions
    /\ wrlock[truncating] = "none"
    /\ wrlock' = [wrlock EXCEPT ![truncating] = "admin"]
    /\ truncating' = truncating + 1
    /\ UNCHANGED <<clock, now, alloc, entry, hash, hashKey, ptrArray, purgeIdx,
                   purgeChunkSize, size, tvars, purge>>

TruncateAll ==
    /\ truncating = NumPartitions
    /\ entry' = Dropped({hash[k] : k \in Keys})
    /\ hash' = [k \in Keys |-> NoEntry]
    /\ hashKey' = [k \in Keys |-> NoEntry]
    /\ wrlock' = [p \in Partitions |-> "none"]
    /\ truncating' = 0
    /\ UNCHANGED <<clock, now, alloc, ptrArray, purgeIdx, purgeChunkSize, size,
                   tvars, purge>>

-----------------------------------------------------------------------------

FdbGet(t) ==
    \/ \E k \in Keys : FdbGetLookup(t, k)
    \/ FdbGetCheck(t)
    \/ FdbGetCopy(t)
    \/ FdbGetRelease(t)

FdbSet(t) ==
    \/ \E k \in Keys, v \in Values, ttl \in TTLs, e \in Entries :
            FdbSetPrepare(t, k, v, ttl, e)
    \/ FdbSetInsert(t)
    \/ FdbSetAccount(t)

PurgeHashThread == PurgeWake \/ PurgeLock \/ PurgeEntry \/ PurgeUnlock

FdbTruncateAll == TruncateLock \/ TruncateAll

Next ==
    \/ Tick
    \/ \E t \in Threads : FdbGet(t) \/ FdbSet(t)
    \/ PurgeHashThread
    \/ FdbTruncateAll

Spec == Init /\ [][Next]_vars

(***************************************************************************)
(* A call that has started keeps running, the purge thread never stops, a  *)
(* FLUSH QUERY CACHE that has started is carried on, and nobody is starved  *)
(* of a lock that is released again and again: the purge thread sleeps     *)
(* between two passes and every other critical section is a few            *)
(* instructions.  Nothing obliges anybody to start a get, a set or a flush.*)
(***************************************************************************)
Fairness ==
    /\ \A t \in Threads : /\ WF_vars(FdbGetCheck(t))
                          /\ WF_vars(FdbGetCopy(t))
                          /\ WF_vars(FdbGetRelease(t))
                          /\ SF_vars(FdbSetInsert(t))
                          /\ WF_vars(FdbSetAccount(t))
    /\ WF_vars(PurgeWake) /\ SF_vars(PurgeLock)
    /\ WF_vars(PurgeEntry) /\ WF_vars(PurgeUnlock)
    /\ SF_vars(truncating > 0 /\ TruncateLock) /\ WF_vars(TruncateAll)

FairSpec == Spec /\ Fairness

-----------------------------------------------------------------------------
(* Properties. *)

TypeOK ==
    /\ clock \in Nat \ {0}
    /\ now \in Nat \ {0}
    /\ alloc \subseteq Entries
    /\ entry \in [Entries -> EntryRec]
    /\ hash \in [Keys -> Entries \cup {NoEntry}]
    /\ hashKey \in [Keys -> Entries \cup {NoEntry}]
    /\ ptrArray \in [Partitions -> Seq(Entries)]
    /\ purgeIdx \in [Partitions -> Nat]
    /\ purgeChunkSize \in [Partitions -> Nat]
    /\ size \in Int
    /\ wrlock \in [Partitions -> {"none", "purge", "admin"}]
    /\ pc \in [Threads -> {"idle"} \cup ReaderSteps \cup WriterSteps]
    /\ held \in [Threads -> Entries \cup {NoEntry}]
    /\ wanted \in [Threads -> Keys \cup {NoKey}]
    /\ res \in [Threads -> Values \cup {Miss}]
    /\ purge \in [step : {"sleep", "lock", "scan", "unlock"},
                  part : Partitions, min_idx : Nat]
    /\ truncating \in 0 .. NumPartitions

Reading(t) == pc[t] \in ReaderSteps
Elems(s) == {s[i] : i \in DOMAIN s}
Indexed(p) == Elems(ptrArray[p])

(* No actor ever holds a pointer to freed memory: not the readers that have  *)
(* left the lock of fdb_get, not the hash table (neither its values nor the  *)
(* key strings it compares with, which belong to entries), not the array     *)
(* that purgeHash_thread walks.                                              *)
NoUseAfterFree ==
    /\ \A t \in Threads : Reading(t) => held[t] \in alloc
    /\ \A k \in Keys : hash[k] # NoEntry => hash[k] \in alloc /\ hashKey[k] \in alloc
    /\ \A p \in Partitions : Indexed(p) \subseteq alloc

(* The memory under a reader is not recycled for another query: as long as   *)
(* fdb_get looks at its entry, that entry is one for the key it asked for.   *)
ReadersSeeTheirKey ==
    \A t \in Threads : Reading(t) => entry[held[t]].key = wanted[t]

(* The entries that ptrArrays or threads about to insert account for.         *)
BeingInserted == {held[t] : t \in {u \in Threads : pc[u] = "insert"}}
AllIndexed == UNION {Indexed(p) : p \in Partitions}

(* Every allocated entry sits in exactly one place of one array (or is the   *)
(* one a set is about to publish): none is freed twice, none is leaked.      *)
IndexedOnce ==
    /\ \A p, q \in Partitions : \A i \in DOMAIN ptrArray[p], j \in DOMAIN ptrArray[q] :
            ptrArray[p][i] = ptrArray[q][j] => p = q /\ i = j
    /\ alloc = AllIndexed \cup BeingInserted

(* EXPIRE_DROPIT is exactly "no longer in the hash table": the purge thread   *)
(* relies on it when it removes an expired entry by key and when it frees.    *)
LiveIffHashed ==
    \A p \in Partitions : \A e \in Indexed(p) :
        entry[e].expire # EXPIRE_DROPIT <=> hash[entry[e].key] = e

(* The index the purge thread keeps across passes, while sets append and it   *)
(* removes, never points beyond the array.                                    *)
PurgeInBounds ==
    \A p \in Partitions : purgeIdx[p] <= Len(ptrArray[p])

(* Memory accounting is exact up to the sets that have published but not yet  *)
(* counted their entry (fdb_set adds after releasing the lock).               *)
SizeAccounting ==
    size = Cardinality(UNION {Indexed(p) : p \in Partitions})
             - Cardinality({t \in Threads : pc[t] = "account"})

(* A key loses its result only to a newer result, to FLUSH QUERY CACHE, or     *)
(* because the result has expired by the purge thread's clock.                 *)
OnlyExpiredLeave ==
    [][\A k \in Keys :
          hash[k] # NoEntry /\ hash'[k] = NoEntry
            => truncating = NumPartitions \/ entry[hash[k]].expire <= now]_vars

Cache == INSTANCE ResultCache WITH
    store <- [k \in Keys |-> IF hash[k] = NoEntry THEN Miss ELSE entry[hash[k]].value],
    pending <- [t \in Threads |->
                  [key |-> wanted[t],
                   value |-> IF Reading(t) THEN entry[held[t]].value ELSE Miss,
                   result |-> res[t]]]

(* Whatever is replaced, expired, truncated, freed or recycled meanwhile,     *)
(* fdb_get behaves as the abstract cache does.                                *)
ImplementsResultCache == Cache!Spec

(* Every fdb_get and fdb_set that starts returns, whatever the purge thread   *)
(* does with the locks, and so does FLUSH QUERY CACHE, which needs every      *)
(* partition's lock at once.                                                  *)
CallsReturn ==
    /\ \A t \in Threads : pc[t] # "idle" ~> pc[t] = "idle"
    /\ truncating > 0 ~> truncating = 0

(***************************************************************************)
(* The inductive invariant behind the safety properties above.  The key    *)
(* facts are RefCounted (ref_count is the number of readers between lookup *)
(* and release) and HeldIndexed (a reader's entry is still in the array of *)
(* its key's partition): an entry leaves its array only when it is freed,  *)
(* which needs ref_count = 0, hence no reader.                             *)
(***************************************************************************)
Readers(e) == {t \in Threads : Reading(t) /\ held[t] = e}

RefCounted ==
    \A e \in alloc : entry[e].ref_count = Cardinality(Readers(e))

HeldIndexed ==
    \A t \in Threads : Reading(t) =>
        /\ wanted[t] \in Keys
        /\ held[t] \in Indexed(PartitionOf[wanted[t]])
        /\ entry[held[t]].key = wanted[t]

Unpublished ==
    \A t \in Threads : pc[t] = "insert" =>
        /\ held[t] \in alloc
        /\ entry[held[t]].expire # EXPIRE_DROPIT
        /\ \A p \in Partitions : held[t] \notin Indexed(p)
        /\ \A u \in Threads : pc[u] = "insert" /\ held[u] = held[t] => u = t

Apart(s) == \A i, j \in DOMAIN s : s[i] = s[j] => i = j

ArraysSound ==
    \A p \in Partitions :
        /\ Apart(ptrArray[p])
        /\ \A e \in Indexed(p) : e \in alloc /\ PartitionOf[entry[e].key] = p

HashSound ==
    \A k \in Keys : hash[k] # NoEntry =>
        /\ hash[k] \in Indexed(PartitionOf[k])
        /\ entry[hash[k]].key = k
        /\ entry[hash[k]].expire # EXPIRE_DROPIT
        /\ hashKey[k] = hash[k]

LiveHashed ==
    \A p \in Partitions : \A e \in Indexed(p) :
        entry[e].expire # EXPIRE_DROPIT => hash[entry[e].key] = e

AllocReachable ==
    \A e \in alloc : \/ \E p \in Partitions : e \in Indexed(p)
                     \/ \E t \in Threads : pc[t] = "insert" /\ held[t] = e

ScanSound == purge.step = "scan" => purgeIdx[purge.part] > 0

IInv ==
    /\ TypeOK
    /\ RefCounted
    /\ HeldIndexed
    /\ Unpublished
    /\ ArraysSound
    /\ HashSound
    /\ LiveHashed
    /\ AllocReachable
    /\ PurgeInBounds
    /\ ScanSound

(* The positions a sweep over an array of n entries looks at (C's indices).   *)
(* `while (--purgeIdx > min_idx)` stops at min_idx without a look, and the    *)
(* next pass goes on below it: the entry at the boundary of two chunks is     *)
(* skipped, and so is the first of the array.                                 *)
Boundaries(n) ==
    {b \in 1 .. n : b >= ChunkFor(n) /\ \E j \in 1 .. n : b = n - j * ChunkFor(n)}
Examined(n) == (1 .. n - 1) \ Boundaries(n)

(* Total time to purge a hash table (README: fundadb_hash_purge_time): again  *)
(* and again the purge thread leaves no expired entry in the table but those  *)
(* at the boundary of two chunks of the array and the first one, whatever is  *)
(* appended, replaced or moved by a removal between the passes of a sweep.    *)
ExpiredIsPurged ==
    []<>(\A p \in Partitions : \A i \in Examined(Len(ptrArray[p])) :
            ~Expired(ptrArray[p][i + 1]))
=============================================================================
