-------------------------- MODULE QueryCacheProofs --------------------------
(***************************************************************************)
(* The safety properties of QueryCache hold for every number of threads,   *)
(* keys, results, memory cells and partitions.  First the steps preserve   *)
(* IInv: one lemma per action, and under it one step per conjunct the      *)
(* action can disturb.  The properties follow from IInv; with it the cache *)
(* implements ResultCache, and its size is accounted for.                  *)
(***************************************************************************)
EXTENDS QueryCache, TLAPS, FiniteSetTheorems

(* What the lemmas use about the cardinality of sets of readers; it follows *)
(* from the theorems on finite sets (ReadersCountable).                     *)
ReaderCounts ==
    \A R \in SUBSET Threads :
        /\ Cardinality(R) \in Nat
        /\ Cardinality(R) = 0 <=> R = {}
        /\ \A t \in Threads :
              /\ t \notin R => Cardinality(R \cup {t}) = Cardinality(R) + 1
              /\ t \in R => Cardinality(R \ {t}) = Cardinality(R) - 1

(* The length of an array is a number. *)
LEMMA LenNat == \A s \in Seq(Entries) : Len(s) \in Nat
  OBVIOUS

(* Appending to an array adds exactly the new element. *)
LEMMA ElemsAppend ==
    ASSUME NEW s \in Seq(Entries), NEW e \in Entries
    PROVE  /\ Append(s, e) \in Seq(Entries)
           /\ Elems(Append(s, e)) = Elems(s) \cup {e}
           /\ Len(Append(s, e)) = Len(s) + 1
  <1> DEFINE r == Append(s, e)
  <1>1. /\ r \in Seq(Entries)
        /\ Len(s) \in Nat
        /\ Len(r) = Len(s) + 1
        /\ DOMAIN s = 1 .. Len(s)
        /\ DOMAIN r = 1 .. Len(s) + 1
        /\ \A j \in 1 .. Len(s) : r[j] = s[j]
        /\ r[Len(s) + 1] = e
    OBVIOUS
  <1> HIDE DEF r
  <1>2. Elems(r) = Elems(s) \cup {e}
    BY <1>1 DEF Elems
  <1> QED BY <1>1, <1>2, Zenon DEF r

(* Appending an element that is not there keeps the elements apart. *)
LEMMA AppendApart ==
    ASSUME NEW s \in Seq(Entries), NEW e \in Entries, e \notin Elems(s),
           Apart(s)
    PROVE  Apart(Append(s, e))
  <1> DEFINE r == Append(s, e)
  <1>1. \A j \in DOMAIN s : s[j] # e
    BY Zenon DEF Elems
  <1>2. /\ Len(s) \in Nat
        /\ DOMAIN s = 1 .. Len(s)
        /\ DOMAIN r = 1 .. Len(s) + 1
        /\ \A j \in 1 .. Len(s) : r[j] = s[j]
        /\ r[Len(s) + 1] = e
    OBVIOUS
  <1> HIDE DEF r
  <1> SUFFICES ASSUME NEW j \in 1 .. Len(s) + 1, NEW l \in 1 .. Len(s) + 1, r[j] = r[l]
               PROVE  j = l
    BY <1>2, Zenon DEF r, Apart
  <1>3. ASSUME NEW L \in Nat, NEW q \in 1 .. L + 1 PROVE q = L + 1 \/ q \in 1 .. L
    OBVIOUS
  <1>4. /\ j = Len(s) + 1 \/ j \in 1 .. Len(s)
        /\ l = Len(s) + 1 \/ l \in 1 .. Len(s)
    BY <1>2, <1>3, Zenon
  <1> QED BY <1>1, <1>2, <1>4, Zenon DEF Apart

(* g_ptr_array_remove_index_fast removes exactly the element at its index,   *)
(* and keeps the others apart, when no element occurs twice.                 *)
LEMMA ElemsRemove ==
    ASSUME NEW s \in Seq(Entries), NEW i \in 1 .. Len(s),
           Apart(s)
    PROVE  LET r == RemoveIndexFast(s, i)
           IN  /\ r \in Seq(Entries)
               /\ Len(r) = Len(s) - 1
               /\ Elems(r) = Elems(s) \ {s[i]}
               /\ Apart(r)
  <1> DEFINE n == Len(s) - 1
             r == RemoveIndexFast(s, i)
  <1>1. n \in Nat /\ Len(s) \in Nat /\ DOMAIN s = 1 .. Len(s)
    OBVIOUS
  <1>2. r = [j \in 1 .. n |-> IF j = i THEN s[Len(s)] ELSE s[j]]
    BY Zenon DEF RemoveIndexFast
  <1>3. r \in Seq(Entries) /\ Len(r) = n /\ DOMAIN r = 1 .. n
    BY <1>1, <1>2
  <1>4. Elems(r) = Elems(s) \ {s[i]}
    <2>1. ASSUME NEW x \in Elems(r) PROVE x \in Elems(s) \ {s[i]}
      <3>1. PICK j \in 1 .. n : x = r[j]
        BY <1>3, Zenon DEF Elems
      <3> QED BY <3>1, <1>1, <1>2 DEF Elems, Apart
    <2>2. ASSUME NEW x \in Elems(s), x # s[i] PROVE x \in Elems(r)
      <3>1. PICK m \in 1 .. Len(s) : x = s[m]
        BY <1>1, Zenon DEF Elems
      <3>a. ASSUME NEW L \in Nat, NEW q \in 1 .. L PROVE q = L \/ q < L
        OBVIOUS
      <3>b. m = Len(s) \/ m < Len(s)
        BY <3>a, <1>1, Zenon
      <3>2. CASE m = Len(s)
        <4>1. i \in 1 .. n /\ r[i] = x
          BY <3>1, <3>2, <2>2, <1>1, <1>2
        <4> QED BY <4>1, <1>3, Zenon DEF Elems
      <3>3. CASE m < Len(s)
        <4>1. m \in 1 .. n
          BY <3>3, <1>1
        <4>2. m # i
          BY <3>1, <2>2, Zenon
        <4>3. r[m] = x
          BY <4>1, <4>2, <3>1, <1>2, Zenon
        <4> QED BY <4>1, <4>3, <1>3, Zenon DEF Elems
      <3> QED BY <3>2, <3>3, <3>b, Zenon
    <2> HIDE DEF r
    <2> QED BY <2>1, <2>2, Zenon
  <1>5. Apart(r)
    BY <1>1, <1>2, <1>3 DEF Apart
  <1> QED BY <1>3, <1>4, <1>5, Zenon

(* The caches fdb_hashes_new has just set up satisfy IInv. *)
LEMMA InitInv == Init => IInv
  <1> SUFFICES ASSUME Init PROVE IInv
    BY Zenon
  <1> USE DEF Init
  <1>1. (CHOOSE k \in Keys : TRUE) \in Keys /\ (CHOOSE v \in Values : TRUE) \in Values
    BY MemoryAssumption, Zenon
  <1>2. TypeOK
    <2>1. entry \in [Entries -> EntryRec]
      BY <1>1 DEF EntryRec, EXPIRE_DROPIT
    <2>2. ptrArray \in [Partitions -> Seq(Entries)]
      OBVIOUS
    <2>3. 0 \in Partitions /\ 0 \in 0 .. NumPartitions
      BY PartitionAssumption DEF Partitions
    <2> QED BY <2>1, <2>2, <2>3 DEF TypeOK
  <1>3. \A p \in Partitions : Indexed(p) = {} /\ Len(ptrArray[p]) = 0
    BY DEF Indexed, Elems
  <1>4. \A t \in Threads : ~Reading(t) /\ pc[t] # "insert"
    BY Zenon DEF Reading, ReaderSteps
  <1>5. RefCounted /\ AllocReachable
    BY Zenon DEF RefCounted, AllocReachable
  <1>6. HeldIndexed /\ Unpublished
    BY <1>4, Zenon DEF HeldIndexed, Unpublished
  <1>7. ArraysSound /\ HashSound /\ LiveHashed
    BY <1>3 DEF ArraysSound, HashSound, LiveHashed, Indexed, Elems, Apart
  <1>8. PurgeInBounds /\ ScanSound
    BY <1>3 DEF PurgeInBounds, ScanSound
  <1> QED BY <1>2, <1>5, <1>6, <1>7, <1>8, Zenon DEF IInv

(* The conjuncts of IInv about the entries survive every step that touches   *)
(* neither the entries, nor the tables, nor which thread reads or inserts.   *)
LEMMA Frame ==
    ASSUME IInv, TypeOK', PurgeInBounds', ScanSound',
           UNCHANGED <<alloc, entry, hash, hashKey, ptrArray, held, wanted>>,
           \A t \in Threads : /\ Reading(t)' <=> Reading(t)
                              /\ pc'[t] = "insert" <=> pc[t] = "insert"
    PROVE  IInv'
  <1>1. RefCounted'
    <2>1. \A e : Readers(e)' = Readers(e)
      BY Zenon DEF Readers
    <2> QED BY <2>1, Zenon DEF IInv, RefCounted
  <1>2. HeldIndexed' /\ Unpublished'
    BY Zenon DEF IInv, HeldIndexed, Unpublished, Indexed
  <1>3. ArraysSound' /\ HashSound' /\ LiveHashed' /\ AllocReachable'
    BY DEF IInv, ArraysSound, HashSound, LiveHashed, AllocReachable, Indexed
  <1> QED BY <1>1, <1>2, <1>3, Zenon DEF IInv

(* The clock g_now only ever weakens what is not expired. *)
LEMMA TickInv == ASSUME IInv, Tick PROVE IInv'
  <1> USE DEF Tick, tvars
  <1>1. TypeOK'
    BY DEF IInv, TypeOK
  <1>2. PurgeInBounds' /\ ScanSound'
    BY Zenon DEF IInv, PurgeInBounds, ScanSound
  <1> QED BY <1>1, <1>2, Frame, Zenon DEF Reading

(* fdb_get's lookup under the read lock: a hit takes one more reference. *)
LEMMA LookupInv ==
    ASSUME ReaderCounts, NEW t \in Threads, NEW k \in Keys, IInv, FdbGetLookup(t, k)
    PROVE  IInv'
  <1> DEFINE e == hash[k]
  <1> USE DEF FdbGetLookup, Pinned
  <1>1. /\ TypeOK /\ RefCounted /\ HeldIndexed /\ Unpublished /\ ArraysSound
        /\ HashSound /\ LiveHashed /\ AllocReachable /\ PurgeInBounds /\ ScanSound
    BY Zenon DEF IInv
  <1>2. /\ e \in Entries /\ PartitionOf[k] \in Partitions
        /\ e \in Indexed(PartitionOf[k]) /\ entry[e].key = k /\ e \in alloc
        /\ entry[e].ref_count \in Nat
    BY <1>1, PartitionAssumption DEF TypeOK, HashSound, ArraysSound, EntryRec
  <1>3. TypeOK'
    <2>1. entry \in [Entries -> EntryRec]
      BY <1>1, Zenon DEF TypeOK
    <2>2. [entry[e] EXCEPT !.ref_count = @ + 1] \in EntryRec
      BY <1>2, <2>1 DEF EntryRec
    <2>3. entry' \in [Entries -> EntryRec]
      BY <1>2, <2>1, <2>2, Zenon
    <2> QED BY <1>1, <1>2, <2>3, Zenon DEF TypeOK, ReaderSteps
  <1>4. \A x \in Entries : /\ entry'[x].key = entry[x].key
                           /\ entry'[x].expire = entry[x].expire
                           /\ entry'[x].ref_count =
                                IF x = e THEN entry[x].ref_count + 1
                                         ELSE entry[x].ref_count
    <2>1. entry'[e] = [entry[e] EXCEPT !.ref_count = @ + 1] /\ entry[e] \in EntryRec
      BY <1>1, <1>2, Zenon DEF TypeOK
    <2>2. /\ entry'[e].key = entry[e].key /\ entry'[e].expire = entry[e].expire
          /\ entry'[e].ref_count = entry[e].ref_count + 1
      BY <2>1 DEF EntryRec
    <2>3. \A x \in Entries : x # e => entry'[x] = entry[x]
      BY <1>1, <1>2, Zenon DEF TypeOK
    <2> QED BY <2>2, <2>3
  <1>5. RefCounted'
    <2>1. ~Reading(t) /\ Reading(t)' /\ held'[t] = e
      BY <1>1, Zenon DEF TypeOK, Reading, ReaderSteps
    <2>2. \A u \in Threads : u # t => (Reading(u)' <=> Reading(u)) /\ held'[u] = held[u]
      BY <1>1, Zenon DEF TypeOK, Reading
    <2>3. Readers(e)' = Readers(e) \cup {t} /\ t \notin Readers(e)
      BY <2>1, <2>2, Zenon DEF Readers
    <2>4. \A x \in Entries : x # e => Readers(x)' = Readers(x)
      BY <2>1, <2>2, Zenon DEF Readers
    <2>5. Readers(e) \in SUBSET Threads
      BY Zenon DEF Readers
    <2>6. Cardinality(Readers(e)') = Cardinality(Readers(e)) + 1
      BY <2>3, <2>5 DEF ReaderCounts
    <2> QED BY <1>1, <1>2, <1>4, <2>4, <2>6 DEF RefCounted, TypeOK
  <1>6. HeldIndexed'
    <2>1. ptrArray' = ptrArray
      BY Zenon
    <2> SUFFICES ASSUME NEW u \in Threads, Reading(u)'
                 PROVE  /\ wanted'[u] \in Keys
                        /\ held'[u] \in Indexed(PartitionOf[wanted'[u]])
                        /\ entry'[held'[u]].key = wanted'[u]
      BY <2>1 DEF HeldIndexed, Indexed
    <2>2. CASE u = t
      <3>1. wanted'[u] = k /\ held'[u] = e
        BY <1>1, <2>2, Zenon DEF TypeOK
      <3> HIDE DEF e
      <3> QED BY <1>2, <1>4, <3>1, Zenon
    <2>3. CASE u # t
      <3>1. wanted'[u] = wanted[u] /\ held'[u] = held[u] /\ Reading(u)
        BY <1>1, <2>3, Zenon DEF TypeOK, Reading
      <3>2. /\ wanted[u] \in Keys /\ held[u] \in Indexed(PartitionOf[wanted[u]])
            /\ entry[held[u]].key = wanted[u]
        BY <1>1, <3>1, Zenon DEF HeldIndexed
      <3>3. held[u] \in Entries
        BY <1>1, <3>2, PartitionAssumption DEF ArraysSound, TypeOK
      <3> QED BY <1>4, <3>1, <3>2, <3>3, Zenon
    <2> QED BY <2>2, <2>3, Zenon
  <1>7. Unpublished'
    BY <1>1, <1>4 DEF Unpublished, TypeOK, Indexed
  <1>8. ArraysSound' /\ HashSound' /\ LiveHashed'
    BY <1>1, <1>4 DEF ArraysSound, HashSound, LiveHashed, TypeOK, Indexed
  <1>9. AllocReachable' /\ PurgeInBounds' /\ ScanSound'
    BY <1>1, Zenon DEF AllocReachable, PurgeInBounds, ScanSound, TypeOK, Indexed
  <1> QED BY <1>3, <1>5, <1>6, <1>7, <1>8, <1>9, Zenon DEF IInv

(* The two steps of a reader that change nothing but its own progress. *)
LEMMA ReaderStepInv ==
    ASSUME NEW t \in Threads, IInv, FdbGetCheck(t) \/ FdbGetCopy(t)
    PROVE  IInv'
  <1>1. /\ TypeOK /\ RefCounted /\ HeldIndexed /\ Unpublished /\ ArraysSound
        /\ HashSound /\ LiveHashed /\ AllocReachable /\ PurgeInBounds /\ ScanSound
    BY Zenon DEF IInv
  <1>2. /\ Reading(t)
        /\ \E s \in ReaderSteps : pc' = [pc EXCEPT ![t] = s]
        /\ UNCHANGED <<clock, now, alloc, entry, hash, hashKey, ptrArray, purgeIdx,
                       purgeChunkSize, size, wrlock, held, wanted, purge, truncating>>
    BY Zenon DEF FdbGetCheck, FdbGetCopy, AfterCheck, Reading, ReaderSteps
  <1>3. res' \in [Threads -> Values \cup {Miss}]
    <2>1. held[t] \in Entries
      BY <1>1, <1>2, PartitionAssumption DEF HeldIndexed, ArraysSound, TypeOK
    <2>2. entry[held[t]].value \in Values
      BY <1>1, <2>1, Zenon DEF TypeOK, EntryRec
    <2>3. res' = res \/ res' = [res EXCEPT ![t] = entry[held[t]].value]
      BY Zenon DEF FdbGetCheck, FdbGetCopy
    <2> QED BY <1>1, <2>2, <2>3, Zenon DEF TypeOK
  <1>4. TypeOK'
    <2>1. pc' \in [Threads -> {"idle"} \cup ReaderSteps \cup WriterSteps]
      BY <1>1, <1>2, Zenon DEF TypeOK
    <2> QED BY <1>1, <1>2, <1>3, <2>1, Zenon DEF TypeOK
  <1>5. \A u \in Threads : /\ Reading(u)' <=> Reading(u)
                           /\ pc'[u] = "insert" <=> pc[u] = "insert"
    BY <1>1, <1>2, Zenon DEF TypeOK, Reading, ReaderSteps
  <1>6. PurgeInBounds' /\ ScanSound'
    BY <1>1, <1>2, Zenon DEF PurgeInBounds, ScanSound
  <1> QED BY <1>2, <1>4, <1>5, <1>6, Frame, Zenon

(* fdb_get's last step gives back the one reference the lookup took. *)
LEMMA ReleaseInv ==
    ASSUME ReaderCounts, NEW t \in Threads, IInv, FdbGetRelease(t)
    PROVE  IInv'
  <1> SUFFICES ASSUME NEW e, e = held[t] PROVE IInv'
    BY Zenon
  <1> USE DEF FdbGetRelease
  <1>1. /\ TypeOK /\ RefCounted /\ HeldIndexed /\ Unpublished /\ ArraysSound
        /\ HashSound /\ LiveHashed /\ AllocReachable /\ PurgeInBounds /\ ScanSound
    BY Zenon DEF IInv
  <1>2. Reading(t) /\ ~Reading(t)' /\ pc'[t] # "insert" /\ held'[t] = NoEntry
    BY <1>1, Zenon DEF TypeOK, Reading, ReaderSteps
  <1>3. e \in alloc /\ e \in Entries
    BY <1>1, <1>2, PartitionAssumption DEF HeldIndexed, ArraysSound, TypeOK
  <1>4. \A u \in Threads : u # t => /\ pc'[u] = pc[u] /\ held'[u] = held[u]
                                    /\ wanted'[u] = wanted[u]
                                    /\ Reading(u)' <=> Reading(u)
    BY <1>1, Zenon DEF TypeOK, Reading
  <1>5. /\ t \in Readers(e)
        /\ \A x \in Entries :
                Readers(x)' = IF x = e THEN Readers(x) \ {t} ELSE Readers(x)
    BY <1>2, <1>4, Zenon DEF Readers
  <1>6. Readers(e) \in SUBSET Threads /\ Readers(e) \ {t} \in SUBSET Threads
    BY Zenon DEF Readers
  <1>7. /\ Cardinality(Readers(e) \ {t}) \in Nat
        /\ Cardinality(Readers(e) \ {t}) = Cardinality(Readers(e)) - 1
    BY <1>5, <1>6, Zenon DEF ReaderCounts
  <1>8. entry[e].ref_count - 1 \in Nat
    BY <1>1, <1>3, <1>7, Zenon DEF RefCounted
  <1>9. TypeOK'
    <2>1. entry \in [Entries -> EntryRec]
      BY <1>1, Zenon DEF TypeOK
    <2>2. [entry[e] EXCEPT !.ref_count = @ - 1] \in EntryRec
      BY <1>3, <1>8, <2>1, Zenon DEF EntryRec
    <2>3. entry' \in [Entries -> EntryRec]
      BY <1>3, <2>1, <2>2, Zenon
    <2> QED BY <1>1, <2>3, Zenon DEF TypeOK
  <1>10. \A x \in Entries : /\ entry'[x].key = entry[x].key
                            /\ entry'[x].expire = entry[x].expire
                            /\ entry'[x].ref_count =
                                 IF x = e THEN entry[x].ref_count - 1
                                          ELSE entry[x].ref_count
    <2>1. entry'[e] = [entry[e] EXCEPT !.ref_count = @ - 1] /\ entry[e] \in EntryRec
      BY <1>1, <1>3, Zenon DEF TypeOK
    <2>2. /\ entry'[e].key = entry[e].key /\ entry'[e].expire = entry[e].expire
          /\ entry'[e].ref_count = entry[e].ref_count - 1
      BY <2>1 DEF EntryRec
    <2>3. \A x \in Entries : x # e => entry'[x] = entry[x]
      BY <1>1, <1>3, Zenon DEF TypeOK
    <2> QED BY <2>2, <2>3
  <1>11. RefCounted'
    <2> SUFFICES ASSUME NEW x \in alloc
                 PROVE  entry'[x].ref_count = Cardinality(Readers(x)')
      BY Zenon DEF RefCounted
    <2>1. x \in Entries /\ entry[x].ref_count = Cardinality(Readers(x))
      BY <1>1, Zenon DEF RefCounted, TypeOK
    <2>2. CASE x = e
      <3>1. Readers(x)' = Readers(x) \ {t}
        BY <1>5, <2>1, <2>2, Zenon
      <3>2. Cardinality(Readers(x) \ {t}) = Cardinality(Readers(x)) - 1
        BY <1>7, <2>2, Zenon
      <3>3. entry'[x].ref_count = entry[x].ref_count - 1
        BY <1>10, <2>1, <2>2, Zenon
      <3> QED BY <2>1, <3>1, <3>2, <3>3, Zenon
    <2>3. CASE x # e
      <3>1. Readers(x)' = Readers(x)
        BY <1>5, <2>1, <2>3, Zenon
      <3> QED BY <1>10, <2>1, <2>3, <3>1, Zenon
    <2> QED BY <2>2, <2>3, Zenon
  <1>12. HeldIndexed'
    <2>1. ptrArray' = ptrArray
      BY Zenon
    <2> SUFFICES ASSUME NEW u \in Threads, Reading(u)'
                 PROVE  /\ wanted'[u] \in Keys
                        /\ held'[u] \in Indexed(PartitionOf[wanted'[u]])
                        /\ entry'[held'[u]].key = wanted'[u]
      BY <2>1 DEF HeldIndexed, Indexed
    <2>2. wanted'[u] = wanted[u] /\ held'[u] = held[u] /\ Reading(u)
      BY <1>2, <1>4, Zenon
    <2>3. /\ wanted[u] \in Keys /\ held[u] \in Indexed(PartitionOf[wanted[u]])
          /\ entry[held[u]].key = wanted[u]
      BY <1>1, <2>2, Zenon DEF HeldIndexed
    <2>4. held[u] \in Entries
      BY <1>1, <2>3, PartitionAssumption DEF ArraysSound, TypeOK
    <2> QED BY <1>10, <2>2, <2>3, <2>4, Zenon
  <1>13. Unpublished'
    BY <1>1, <1>2, <1>4, <1>10 DEF Unpublished, TypeOK, Indexed
  <1>14. ArraysSound' /\ HashSound' /\ LiveHashed'
    BY <1>1, <1>10 DEF ArraysSound, HashSound, LiveHashed, TypeOK, Indexed
  <1>15. AllocReachable' /\ PurgeInBounds' /\ ScanSound'
    <2>1. \A u \in Threads : pc[u] = "insert" => u # t
      BY <1>2, Zenon DEF Reading, ReaderSteps
    <2> QED BY <1>1, <1>4, <2>1 DEF AllocReachable, PurgeInBounds, ScanSound, Indexed
  <1> QED BY <1>9, <1>11, <1>12, <1>13, <1>14, <1>15, Zenon DEF IInv

(* fdb_set builds its entry before anyone else can reach it. *)
LEMMA PrepareInv ==
    ASSUME ReaderCounts, NEW t \in Threads, NEW k \in Keys, NEW v \in Values,
           NEW ttl \in TTLs, NEW e \in Entries, IInv, FdbSetPrepare(t, k, v, ttl, e)
    PROVE  IInv'
  <1> USE DEF FdbSetPrepare
  <1>1. /\ TypeOK /\ RefCounted /\ HeldIndexed /\ Unpublished /\ ArraysSound
        /\ HashSound /\ LiveHashed /\ AllocReachable /\ PurgeInBounds /\ ScanSound
    BY Zenon DEF IInv
  <1>2. ExpireAt(ttl) \in Nat /\ ExpireAt(ttl) # EXPIRE_DROPIT
    BY <1>1, TimingAssumption DEF ExpireAt, EXPIRE_DROPIT, TypeOK
  <1>3. TypeOK'
    <2>1. entry' \in [Entries -> EntryRec]
      BY <1>1, <1>2, Zenon DEF TypeOK, EntryRec
    <2> QED BY <1>1, <2>1, Zenon DEF TypeOK, WriterSteps
  <1>4. /\ e \notin alloc
        /\ \A x \in alloc : entry'[x] = entry[x]
        /\ entry'[e].expire # EXPIRE_DROPIT
        /\ entry'[e].ref_count = 0
    BY <1>1, <1>2, Zenon DEF TypeOK
  <1>5. \A p \in Partitions : e \notin Indexed(p) /\ Indexed(p) \subseteq alloc
    BY <1>1, <1>4, Zenon DEF ArraysSound
  <1>6. /\ ~Reading(t) /\ ~Reading(t)' /\ pc[t] # "insert"
        /\ pc'[t] = "insert" /\ held'[t] = e
    BY <1>1, Zenon DEF TypeOK, Reading, ReaderSteps
  <1>7. \A u \in Threads : u # t => /\ pc'[u] = pc[u] /\ held'[u] = held[u]
                                    /\ Reading(u)' <=> Reading(u)
    BY <1>1, Zenon DEF TypeOK, Reading
  <1>8. \A x \in Entries : Readers(x)' = Readers(x)
    BY <1>6, <1>7, Zenon DEF Readers
  <1>9. \A u \in Threads : Reading(u) => held[u] \in alloc
    BY <1>1, <1>5, PartitionAssumption, Zenon DEF HeldIndexed
  <1>10. RefCounted'
    <2>1. Readers(e) = {}
      BY <1>4, <1>9, Zenon DEF Readers
    <2>2. Cardinality(Readers(e)') = 0
      BY <1>8, <2>1, Zenon DEF ReaderCounts
    <2> QED BY <1>1, <1>4, <1>8, <2>2 DEF RefCounted, TypeOK
  <1>11. HeldIndexed'
    BY <1>1, <1>4, <1>6, <1>7, <1>9 DEF HeldIndexed, Indexed
  <1>12. Unpublished'
    BY <1>1, <1>4, <1>5, <1>6, <1>7 DEF Unpublished, Indexed
  <1>13. ArraysSound' /\ HashSound' /\ LiveHashed'
    BY <1>1, <1>4, <1>5, PartitionAssumption
       DEF ArraysSound, HashSound, LiveHashed, Indexed
  <1>14. AllocReachable' /\ PurgeInBounds' /\ ScanSound'
    <2>1. AllocReachable'
      BY <1>1, <1>6, <1>7 DEF AllocReachable, Indexed
    <2>2. PurgeInBounds' /\ ScanSound'
      BY <1>1, Zenon DEF PurgeInBounds, ScanSound
    <2> QED BY <2>1, <2>2, Zenon
  <1> QED BY <1>3, <1>10, <1>11, <1>12, <1>13, <1>14, Zenon DEF IInv

(* fdb_set's accounting after the unlock touches no entry. *)
LEMMA AccountInv == ASSUME NEW t \in Threads, IInv, FdbSetAccount(t) PROVE IInv'
  <1> USE DEF FdbSetAccount
  <1>1. TypeOK'
    BY DEF IInv, TypeOK
  <1>2. PurgeInBounds' /\ ScanSound'
    BY Zenon DEF IInv, PurgeInBounds, ScanSound
  <1>3. \A u \in Threads : /\ Reading(u)' <=> Reading(u)
                           /\ pc'[u] = "insert" <=> pc[u] = "insert"
    BY Zenon DEF IInv, TypeOK, Reading, ReaderSteps
  <1> QED BY <1>1, <1>2, <1>3, Frame, Zenon

(* What hash_value_destroy_func does to the entries it is called on. *)
LEMMA DroppedEntries ==
    ASSUME TypeOK, NEW E
    PROVE  /\ Dropped(E) \in [Entries -> EntryRec]
           /\ \A x \in Entries :
                 /\ Dropped(E)[x].key = entry[x].key
                 /\ Dropped(E)[x].ref_count = entry[x].ref_count
                 /\ x \in E => Dropped(E)[x].expire = EXPIRE_DROPIT
                 /\ x \notin E => Dropped(E)[x] = entry[x]
  <1>1. entry \in [Entries -> EntryRec]
    BY Zenon DEF TypeOK
  <1>2. \A x \in Entries : [entry[x] EXCEPT !.expire = EXPIRE_DROPIT] \in EntryRec
    BY <1>1, Zenon DEF EntryRec, EXPIRE_DROPIT
  <1>3. Dropped(E) \in [Entries -> EntryRec]
    BY <1>1, <1>2, Zenon DEF Dropped
  <1> QED BY <1>1, <1>3, Zenon DEF Dropped, EntryRec

(* fdb_set under the write lock: the new entry replaces the old one of   *)
(* its key, which stays in ptrArray marked EXPIRE_DROPIT.                  *)
LEMMA InsertInv == ASSUME NEW t \in Threads, IInv, FdbSetInsert(t) PROVE IInv'
  <1>0. SUFFICES ASSUME NEW e, e = held[t], NEW k, k = entry[e].key,
                      NEW p, p = PartitionOf[k], NEW old, old = hash[k]
               PROVE  IInv'
    BY Zenon
  <1>1. /\ TypeOK /\ RefCounted /\ HeldIndexed /\ Unpublished /\ ArraysSound
        /\ HashSound /\ LiveHashed /\ AllocReachable /\ PurgeInBounds /\ ScanSound
    BY Zenon DEF IInv
  <1>2. /\ pc[t] = "insert"
        /\ ptrArray' = [ptrArray EXCEPT ![p] = Append(@, e)]
        /\ hash' = [hash EXCEPT ![k] = e]
        /\ hashKey' = [hashKey EXCEPT ![k] = e]
        /\ entry' = Dropped({old})
        /\ pc' = [pc EXCEPT ![t] = "account"]
        /\ held' = [held EXCEPT ![t] = NoEntry]
        /\ UNCHANGED <<clock, now, alloc, purgeIdx, purgeChunkSize, size, wrlock,
                       wanted, res, purge, truncating>>
    BY <1>0, Zenon DEF FdbSetInsert, ReplacedKeyOwner
  <1>a. /\ pc[t] = "insert"
        /\ UNCHANGED <<alloc, purgeIdx, wanted, purge>>
    BY <1>2, Zenon
  <1>3. /\ e \in Entries /\ e \in alloc /\ k \in Keys /\ p \in Partitions
        /\ entry[e].expire # EXPIRE_DROPIT
        /\ \A q \in Partitions : e \notin Indexed(q)
        /\ \A u \in Threads : pc[u] = "insert" /\ held[u] = e => u = t
    <2>1. /\ e \in alloc
          /\ entry[e].expire # EXPIRE_DROPIT
          /\ \A q \in Partitions : e \notin Indexed(q)
          /\ \A u \in Threads : pc[u] = "insert" /\ held[u] = e => u = t
      BY <1>0, <1>1, <1>a, Zenon DEF Unpublished
    <2>2. e \in Entries /\ entry[e].key \in Keys
      BY <1>1, <2>1, Zenon DEF TypeOK, EntryRec
    <2>3. k \in Keys /\ p \in Partitions
      BY <1>0, <2>2, PartitionAssumption, Zenon
    <2> QED BY <2>1, <2>2, <2>3, Zenon
  <1>b. \A l \in Keys : /\ hash'[l] = IF l = k THEN e ELSE hash[l]
                        /\ hashKey'[l] = IF l = k THEN e ELSE hashKey[l]
    BY <1>1, <1>2, Zenon DEF TypeOK
  <1>4. /\ entry' \in [Entries -> EntryRec]
        /\ \A x \in Entries :
              /\ entry'[x].key = entry[x].key
              /\ entry'[x].ref_count = entry[x].ref_count
              /\ x = old => entry'[x].expire = EXPIRE_DROPIT
              /\ x # old => entry'[x] = entry[x]
    BY <1>1, <1>2, DroppedEntries, Zenon
  <1>5. old # NoEntry => /\ old \in Indexed(p) /\ old \in Entries
                         /\ entry[old].key = k /\ old # e
    BY <1>0, <1>1, <1>3 DEF HashSound, TypeOK
  <1>6. entry'[e] = entry[e]
    BY <1>3, <1>4, <1>5, MemoryAssumption, Zenon
  <1>7. /\ ptrArray' \in [Partitions -> Seq(Entries)]
        /\ ptrArray'[p] = Append(ptrArray[p], e)
        /\ Elems(ptrArray'[p]) = Elems(ptrArray[p]) \cup {e}
        /\ Len(ptrArray'[p]) = Len(ptrArray[p]) + 1
        /\ \A q \in Partitions : q # p => ptrArray'[q] = ptrArray[q]
        /\ \A q \in Partitions : Elems(ptrArray[q]) \subseteq Elems(ptrArray'[q])
    <2>1. ptrArray[p] \in Seq(Entries)
      BY <1>1, <1>3, Zenon DEF TypeOK
    <2>2. ptrArray'[p] = Append(ptrArray[p], e)
      BY <1>1, <1>2, <1>3, Zenon DEF TypeOK
    <2>3. ptrArray' \in [Partitions -> Seq(Entries)]
      BY <1>1, <1>2, <1>3, <2>1, ElemsAppend, Zenon DEF TypeOK
    <2>4. \A q \in Partitions : q # p => ptrArray'[q] = ptrArray[q]
      BY <1>1, <1>2, <1>3, Zenon DEF TypeOK
    <2>5. /\ Elems(ptrArray'[p]) = Elems(ptrArray[p]) \cup {e}
          /\ Len(ptrArray'[p]) = Len(ptrArray[p]) + 1
      BY <1>3, <2>1, <2>2, ElemsAppend, Zenon
    <2>6. ASSUME NEW q \in Partitions
          PROVE  Elems(ptrArray[q]) \subseteq Elems(ptrArray'[q])
      BY <2>4, <2>5, Zenon
    <2> QED BY <2>2, <2>3, <2>4, <2>5, <2>6, Zenon
  <1>c. \A q \in Partitions :
            Elems(ptrArray'[q]) = IF q = p THEN Elems(ptrArray[q]) \cup {e}
                                           ELSE Elems(ptrArray[q])
    BY <1>7, Zenon
  <1>8. TypeOK'
    <2>1. ptrArray' \in [Partitions -> Seq(Entries)]
      BY <1>7, Zenon
    <2> QED BY <1>1, <1>2, <1>3, <1>4, <2>1, Zenon DEF TypeOK, WriterSteps
  <1>9. /\ ~Reading(t) /\ ~Reading(t)' /\ pc'[t] # "insert"
        /\ \A u \in Threads : u # t => /\ pc'[u] = pc[u] /\ held'[u] = held[u]
                                       /\ Reading(u)' <=> Reading(u)
    BY <1>1, <1>2, Zenon DEF TypeOK, Reading, ReaderSteps
  <1>10. RefCounted'
    <2>1. \A x \in Entries : Readers(x)' = Readers(x)
      BY <1>9, Zenon DEF Readers
    <2>2. \A x \in alloc : x \in Entries /\ entry[x].ref_count = Cardinality(Readers(x))
      BY <1>1, Zenon DEF RefCounted, TypeOK
    <2>3. \A x \in alloc : entry'[x].ref_count = Cardinality(Readers(x)')
      BY <1>4, <2>1, <2>2, Zenon
    <2> QED BY <1>a, <2>3, Zenon DEF RefCounted
  <1>11. HeldIndexed'
    <2>1. ASSUME NEW u \in Threads, Reading(u)'
          PROVE  /\ wanted'[u] \in Keys
                 /\ held'[u] \in Elems(ptrArray'[PartitionOf[wanted'[u]]])
                 /\ entry'[held'[u]].key = wanted'[u]
      <3>1. Reading(u) /\ held'[u] = held[u] /\ wanted'[u] = wanted[u]
        BY <1>a, <1>9, <2>1, Zenon
      <3>2. /\ wanted[u] \in Keys
            /\ PartitionOf[wanted[u]] \in Partitions
            /\ held[u] \in Elems(ptrArray[PartitionOf[wanted[u]]])
            /\ entry[held[u]].key = wanted[u]
        BY <1>1, <3>1, PartitionAssumption, Zenon DEF HeldIndexed, Indexed
      <3>3. held[u] \in Entries
        BY <1>1, <3>2, Zenon DEF ArraysSound, TypeOK, Indexed
      <3>4. held[u] \in Elems(ptrArray'[PartitionOf[wanted[u]]])
        BY <1>c, <3>2, Zenon
      <3> QED BY <1>4, <3>1, <3>2, <3>3, <3>4, Zenon
    <2> QED BY <2>1, Zenon DEF HeldIndexed, Indexed
  <1>12. Unpublished'
    <2>1. ASSUME NEW u \in Threads, pc'[u] = "insert"
          PROVE  /\ u # t /\ pc[u] = "insert" /\ held'[u] = held[u]
                 /\ held[u] \in alloc /\ held[u] \in Entries
                 /\ held[u] # e /\ held[u] # old
                 /\ entry[held[u]].expire # EXPIRE_DROPIT
      <3>1. u # t /\ pc[u] = "insert" /\ held'[u] = held[u]
        BY <1>9, <2>1, Zenon
      <3> QED BY <1>1, <1>3, <1>5, <3>1, MemoryAssumption DEF Unpublished, TypeOK
    <2>2. ASSUME NEW u \in Threads, pc'[u] = "insert", NEW q \in Partitions
          PROVE  held[u] \notin Elems(ptrArray'[q])
      <3>1. held[u] \notin Elems(ptrArray[q])
        BY <1>1, <2>1, <2>2, Zenon DEF Unpublished, Indexed
      <3>2. held[u] # e
        BY <2>1, <2>2, Zenon
      <3> QED BY <1>c, <3>1, <3>2, Zenon
    <2>3. ASSUME NEW u \in Threads, pc'[u] = "insert"
          PROVE  entry'[held[u]].expire # EXPIRE_DROPIT
      BY <1>4, <2>1, <2>3, Zenon
    <2>4. ASSUME NEW u \in Threads, pc'[u] = "insert",
                 NEW w \in Threads, pc'[w] = "insert", held'[w] = held'[u]
          PROVE  w = u
      BY <1>1, <2>1, <2>4, Zenon DEF Unpublished
    <2>5. ASSUME NEW u \in Threads, pc'[u] = "insert"
          PROVE  /\ held'[u] \in alloc'
                 /\ entry'[held'[u]].expire # EXPIRE_DROPIT
                 /\ \A q \in Partitions : held'[u] \notin Elems(ptrArray'[q])
      <3>1. /\ held'[u] = held[u] /\ held[u] \in alloc
            /\ entry'[held[u]].expire # EXPIRE_DROPIT
        BY <2>1, <2>3, <2>5, Zenon
      <3>2. \A q \in Partitions : held[u] \notin Elems(ptrArray'[q])
        BY <2>2, <2>5, Zenon
      <3>3. alloc' = alloc
        BY <1>a, Zenon
      <3> QED BY <3>1, <3>2, <3>3, Zenon
    <2> QED BY <2>4, <2>5, Zenon DEF Unpublished, Indexed
  <1>13. ArraysSound'
    <2>1. ASSUME NEW q \in Partitions
          PROVE  Apart(ptrArray'[q])
      <3>1. Apart(ptrArray[q]) /\ e \notin Elems(ptrArray[q]) /\ ptrArray[q] \in Seq(Entries)
        BY <1>1, <1>3, Zenon DEF ArraysSound, Indexed, TypeOK
      <3>2. CASE q # p
        BY <1>7, <3>1, <3>2, Zenon
      <3>3. CASE q = p
        <4>1. e \in Entries /\ ptrArray'[q] = Append(ptrArray[q], e)
          BY <1>3, <1>7, <3>3, Zenon
        <4>2. Apart(Append(ptrArray[q], e))
          BY <3>1, <4>1, AppendApart, Zenon
        <4> QED BY <4>1, <4>2, Zenon
      <3> QED BY <3>2, <3>3, Zenon
    <2>2. ASSUME NEW q \in Partitions, NEW x \in Elems(ptrArray'[q])
          PROVE  x \in alloc /\ PartitionOf[entry'[x].key] = q
      <3>1. x \in Elems(ptrArray[q]) \/ (q = p /\ x = e)
        BY <1>c, Zenon
      <3>2. x \in alloc /\ x \in Entries /\ PartitionOf[entry[x].key] = q
        <4>1. CASE x \in Elems(ptrArray[q])
          BY <1>1, <4>1, Zenon DEF ArraysSound, Indexed, TypeOK
        <4>2. CASE q = p /\ x = e
          BY <1>0, <1>3, <4>2, Zenon
        <4> QED BY <3>1, <4>1, <4>2, Zenon
      <3> QED BY <1>4, <3>2, Zenon
    <2>3. alloc' = alloc
      BY <1>a, Zenon
    <2> QED BY <2>1, <2>2, <2>3, Zenon DEF ArraysSound, Indexed
  <1>14. HashSound'
    <2>1. ASSUME NEW l \in Keys, hash'[l] # NoEntry
          PROVE  /\ hash'[l] \in Elems(ptrArray'[PartitionOf[l]])
                 /\ entry'[hash'[l]].key = l
                 /\ entry'[hash'[l]].expire # EXPIRE_DROPIT
                 /\ hashKey'[l] = hash'[l]
      <3>1. CASE l = k
        <4>1. hash'[l] = e /\ hashKey'[l] = e
          BY <1>b, <3>1, Zenon
        <4>2. e \in Elems(ptrArray'[PartitionOf[l]])
          BY <1>0, <1>3, <1>c, <3>1, Zenon
        <4> QED BY <1>0, <1>3, <1>6, <3>1, <4>1, <4>2, Zenon
      <3>2. CASE l # k
        <4>1. hash'[l] = hash[l] /\ hashKey'[l] = hashKey[l] /\ PartitionOf[l] \in Partitions
          BY <1>b, <3>2, PartitionAssumption, Zenon
        <4>2. /\ hash[l] \in Elems(ptrArray[PartitionOf[l]]) /\ hash[l] \in Entries
              /\ entry[hash[l]].key = l /\ hashKey[l] = hash[l]
              /\ entry[hash[l]].expire # EXPIRE_DROPIT
          BY <1>1, <2>1, <4>1 DEF HashSound, Indexed, TypeOK
        <4>3. hash[l] # old
          BY <1>5, <2>1, <3>2, <4>1, <4>2, Zenon
        <4>4. hash[l] \in Elems(ptrArray'[PartitionOf[l]])
          BY <1>c, <4>1, <4>2, Zenon
        <4> QED BY <1>4, <4>1, <4>2, <4>3, <4>4, Zenon
      <3> QED BY <3>1, <3>2, Zenon
    <2> QED BY <2>1, Zenon DEF HashSound, Indexed
  <1>15. LiveHashed'
    <2>1. ASSUME NEW q \in Partitions, NEW x \in Elems(ptrArray'[q]),
                 entry'[x].expire # EXPIRE_DROPIT
          PROVE  hash'[entry'[x].key] = x
      <3>1. CASE x = e
        BY <1>0, <1>3, <1>6, <1>b, <3>1, Zenon
      <3>2. CASE x # e
        <4>1. x \in Elems(ptrArray[q]) /\ x \in Entries
          <5>1. x \in Elems(ptrArray[q])
            BY <1>c, <3>2, Zenon
          <5> QED BY <1>1, <5>1, Zenon DEF ArraysSound, Indexed, TypeOK
        <4>2. x # old /\ entry'[x] = entry[x]
          BY <1>4, <2>1, <4>1, Zenon
        <4>3. hash[entry[x].key] = x /\ entry[x].key \in Keys
          BY <1>1, <2>1, <4>1, <4>2, Zenon DEF LiveHashed, Indexed, TypeOK, EntryRec
        <4>4. entry[x].key # k
          BY <1>0, <4>2, <4>3, Zenon
        <4> QED BY <1>b, <4>2, <4>3, <4>4, Zenon
      <3> QED BY <3>1, <3>2, Zenon
    <2> QED BY <2>1, Zenon DEF LiveHashed, Indexed
  <1>16. AllocReachable'
    <2>1. ASSUME NEW x \in alloc
          PROVE  \/ \E q \in Partitions : x \in Elems(ptrArray'[q])
                 \/ \E u \in Threads : pc'[u] = "insert" /\ held'[u] = x
      <3>1. CASE x = e
        BY <1>3, <1>c, <3>1, Zenon
      <3>2. CASE x # e
        <4>1. CASE \E q \in Partitions : x \in Elems(ptrArray[q])
          BY <1>c, <4>1, Zenon
        <4>2. CASE \E u \in Threads : pc[u] = "insert" /\ held[u] = x
          <5>1. PICK u \in Threads : pc[u] = "insert" /\ held[u] = x
            BY <4>2, Zenon
          <5>2. u # t
            BY <1>0, <3>2, <5>1, Zenon
          <5> QED BY <1>9, <5>1, <5>2, Zenon
        <4> QED BY <1>1, <4>1, <4>2, Zenon DEF AllocReachable, Indexed
      <3> QED BY <3>1, <3>2, Zenon
    <2> QED BY <1>a, <2>1, Zenon DEF AllocReachable, Indexed
  <1>17. PurgeInBounds' /\ ScanSound'
    <2>1. ASSUME NEW q \in Partitions PROVE purgeIdx'[q] <= Len(ptrArray'[q])
      <3>1. /\ ptrArray[q] \in Seq(Entries) /\ purgeIdx[q] \in Nat
            /\ purgeIdx[q] <= Len(ptrArray[q])
        BY <1>1, Zenon DEF TypeOK, PurgeInBounds
      <3>2. Len(ptrArray[q]) \in Nat
        BY <3>1, LenNat, Zenon
      <3>3. Len(ptrArray'[q]) = Len(ptrArray[q]) \/ Len(ptrArray'[q]) = Len(ptrArray[q]) + 1
        BY <1>7, Zenon
      <3>4. purgeIdx' = purgeIdx
        BY <1>a, Zenon
      <3> QED BY <3>1, <3>2, <3>3, <3>4
    <2>2. PurgeInBounds'
      BY <2>1, Zenon DEF PurgeInBounds
    <2> QED BY <1>1, <1>a, <2>2, Zenon DEF ScanSound
  <1> QED BY <1>8, <1>10, <1>11, <1>12, <1>13, <1>14, <1>15, <1>16, <1>17, Zenon DEF IInv

-----------------------------------------------------------------------------
(* The purge thread and the truncation; with the above, every step.           *)
(* purgeHash_thread wakes up, or goes back to sleep. *)
LEMMA PurgeWakeInv == ASSUME IInv, PurgeWake PROVE IInv'
  <1> USE DEF PurgeWake, tvars
  <1>1. TypeOK'
    <2>1. purge' \in [step : {"sleep", "lock", "scan", "unlock"},
                      part : Partitions, min_idx : Nat]
      <3>1. 0 \in Partitions
        BY PartitionAssumption DEF Partitions
      <3>2. purge \in [step : {"sleep", "lock", "scan", "unlock"},
                       part : Partitions, min_idx : Nat]
        BY Zenon DEF IInv, TypeOK
      <3>3. purge' = purge \/ purge' = [purge EXCEPT !.step = "lock", !.part = 0]
        BY Zenon
      <3> QED BY <3>1, <3>2, <3>3, Zenon
    <2>2. now' \in Nat \ {0}
      BY Zenon DEF IInv, TypeOK
    <2> QED BY <2>1, <2>2, Zenon DEF IInv, TypeOK
  <1>2. PurgeInBounds' /\ ScanSound'
    BY Zenon DEF IInv, TypeOK, PurgeInBounds, ScanSound
  <1> QED BY <1>1, <1>2, Frame, Zenon DEF Reading

(* purgeHash_thread locks a partition and chooses the chunk to scan. *)
LEMMA PurgeLockInv == ASSUME IInv, PurgeLock PROVE IInv'
  <1>0. SUFFICES ASSUME NEW p, p = purge.part, NEW len, len = Len(ptrArray[p])
                 PROVE  IInv'
    BY Zenon
  <1>1. PICK idx \in {SweepStart(len), purgeIdx[p]},
             chunk \in {ChunkFor(len), purgeChunkSize[p]} :
          /\ wrlock' = [wrlock EXCEPT ![p] = "purge"]
          /\ purgeIdx' = [purgeIdx EXCEPT ![p] = idx]
          /\ purgeChunkSize' = [purgeChunkSize EXCEPT ![p] = chunk]
          /\ purge' = [purge EXCEPT !.step = IF idx = 0 THEN "unlock" ELSE "scan",
                                    !.min_idx = MinIdx(idx, chunk)]
          /\ UNCHANGED <<clock, now, alloc, entry, hash, hashKey, ptrArray, size,
                         pc, held, wanted, res, truncating>>
    BY <1>0, Zenon DEF PurgeLock, tvars
  <1>2. TypeOK /\ PurgeInBounds
    BY Zenon DEF IInv
  <1>3. /\ p \in Partitions /\ ptrArray[p] \in Seq(Entries) /\ purgeIdx[p] \in Nat
        /\ purgeChunkSize[p] \in Nat /\ purgeIdx[p] <= len
    BY <1>0, <1>2, Zenon DEF TypeOK, PurgeInBounds
  <1>4. len \in Nat
    BY <1>0, <1>3
  <1>5. idx \in Nat /\ idx <= len
    BY <1>3, <1>4 DEF SweepStart
  <1>6. chunk \in Nat
    <2>1. (len * PurgeLoop) \div PurgeTime \in Int
      BY <1>4, TimingAssumption
    <2>2. \A c \in Int : (IF c < MinChunk THEN len ELSE c) \in Nat
      BY <1>4, TimingAssumption
    <2>3. ChunkFor(len) \in Nat
      BY <2>1, <2>2, Zenon DEF ChunkFor
    <2> QED BY <1>3, <2>3, Zenon
  <1>7. MinIdx(idx, chunk) \in Nat
    BY <1>5, <1>6 DEF MinIdx
  <1>8. purge' \in [step : {"sleep", "lock", "scan", "unlock"},
                    part : Partitions, min_idx : Nat]
    BY <1>1, <1>2, <1>7, Zenon DEF TypeOK
  <1>9. TypeOK'
    BY <1>1, <1>2, <1>3, <1>5, <1>6, <1>8, Zenon DEF TypeOK
  <1>10. PurgeInBounds'
    <2>1. ASSUME NEW q \in Partitions PROVE purgeIdx'[q] <= Len(ptrArray[q])
      <3>1. purgeIdx'[q] = IF q = p THEN idx ELSE purgeIdx[q]
        BY <1>1, <1>2, Zenon DEF TypeOK
      <3>2. purgeIdx[q] <= Len(ptrArray[q])
        BY <1>2, Zenon DEF PurgeInBounds
      <3> QED BY <1>0, <1>5, <3>1, <3>2, Zenon
    <2> QED BY <1>1, <2>1, Zenon DEF PurgeInBounds
  <1>11. ScanSound'
    <2>1. purge'.part = p
      BY <1>0, <1>1, <1>2, Zenon DEF TypeOK
    <2>2. purgeIdx'[p] = idx
      BY <1>1, <1>2, <1>3, Zenon DEF TypeOK
    <2>3. purge'.step = "scan" => idx # 0
      BY <1>1, <1>2, Zenon DEF TypeOK
    <2> QED BY <1>5, <2>1, <2>2, <2>3 DEF ScanSound
  <1> QED BY <1>1, <1>9, <1>10, <1>11, Frame, Zenon DEF Reading

(* purgeHash_thread unlocks and moves to the next partition. *)
LEMMA PurgeUnlockInv == ASSUME IInv, PurgeUnlock PROVE IInv'
  <1> USE DEF PurgeUnlock, tvars
  <1>1. TypeOK'
    <2>1. purge.part \in Partitions /\ NumPartitions \in Nat
      BY PartitionAssumption, Zenon DEF IInv, TypeOK
    <2>2. purge.part + 1 < NumPartitions => purge.part + 1 \in Partitions
      BY <2>1 DEF Partitions
    <2>3. purge' \in [step : {"sleep", "lock", "scan", "unlock"},
                      part : Partitions, min_idx : Nat]
      BY <2>2, Zenon DEF IInv, TypeOK
    <2> QED BY <2>1, <2>3, Zenon DEF IInv, TypeOK
  <1>2. PurgeInBounds' /\ ScanSound'
    BY Zenon DEF IInv, TypeOK, PurgeInBounds, ScanSound
  <1> QED BY <1>1, <1>2, Frame, Zenon DEF Reading

(* fdb_truncate_all waits for a partition's write lock. *)
LEMMA TruncateLockInv == ASSUME IInv, TruncateLock PROVE IInv'
  <1> USE DEF TruncateLock, tvars
  <1>1. TypeOK'
    <2>1. truncating \in Partitions /\ truncating' \in 0 .. NumPartitions
      BY PartitionAssumption DEF IInv, TypeOK, Partitions
    <2> QED BY <2>1, Zenon DEF IInv, TypeOK
  <1>2. PurgeInBounds' /\ ScanSound'
    BY Zenon DEF IInv, PurgeInBounds, ScanSound
  <1> QED BY <1>1, <1>2, Frame, Zenon DEF Reading

(* fdb_truncate_all marks every entry of a partition EXPIRE_DROPIT. *)
LEMMA TruncateAllInv == ASSUME IInv, TruncateAll PROVE IInv'
  <1> DEFINE E == {hash[k] : k \in Keys}
  <1>1. /\ TypeOK /\ RefCounted /\ HeldIndexed /\ Unpublished /\ ArraysSound
        /\ HashSound /\ LiveHashed /\ AllocReachable /\ PurgeInBounds /\ ScanSound
    BY Zenon DEF IInv
  <1>2. /\ hash' = [k \in Keys |-> NoEntry]
        /\ hashKey' = [k \in Keys |-> NoEntry]
        /\ wrlock' = [p \in Partitions |-> "none"]
        /\ truncating' = 0
        /\ UNCHANGED <<clock, now, alloc, ptrArray, purgeIdx, purgeChunkSize, size,
                       pc, held, wanted, res, purge>>
    BY Zenon DEF TruncateAll, tvars
  <1>3. /\ entry' \in [Entries -> EntryRec]
        /\ \A x \in Entries :
              /\ entry'[x].key = entry[x].key
              /\ entry'[x].ref_count = entry[x].ref_count
              /\ x \in E => entry'[x].expire = EXPIRE_DROPIT
              /\ x \notin E => entry'[x] = entry[x]
    BY <1>1, DroppedEntries, Zenon DEF TruncateAll
  <1>4. TypeOK'
    BY <1>1, <1>2, <1>3, PartitionAssumption DEF TypeOK
  <1>5. RefCounted'
    <2>1. \A x : Readers(x)' = Readers(x)
      BY <1>2, Zenon DEF Readers, Reading
    <2>2. \A x \in alloc : x \in Entries /\ entry[x].ref_count = Cardinality(Readers(x))
      BY <1>1, Zenon DEF RefCounted, TypeOK
    <2>3. \A x \in alloc : entry'[x].ref_count = Cardinality(Readers(x)')
      BY <1>3, <2>1, <2>2, Zenon
    <2> QED BY <1>2, <2>3, Zenon DEF RefCounted
  <1>6. HeldIndexed'
    <2>1. \A t \in Threads : Reading(t) => held[t] \in Entries
      BY <1>1, PartitionAssumption DEF HeldIndexed, ArraysSound, TypeOK
    <2> QED BY <1>1, <1>2, <1>3, <2>1, Zenon DEF HeldIndexed, Indexed, Reading
  <1>7. Unpublished'
    <2>1. ASSUME NEW t \in Threads, pc[t] = "insert"
          PROVE  held[t] \in Entries /\ held[t] \notin E
      <3>1. held[t] \in Entries /\ \A p \in Partitions : held[t] \notin Indexed(p)
        BY <1>1, <2>1, Zenon DEF Unpublished, TypeOK
      <3>2. ASSUME NEW k \in Keys PROVE hash[k] # held[t]
        BY <1>1, <3>1, PartitionAssumption, MemoryAssumption DEF HashSound
      <3> QED BY <3>1, <3>2, Zenon
    <2>2. \A t \in Threads : pc[t] = "insert" => entry'[held[t]] = entry[held[t]]
      BY <1>3, <2>1, Zenon
    <2> QED BY <1>1, <1>2, <2>2, Zenon DEF Unpublished, Indexed
  <1>8. ArraysSound'
    <2>1. \A p \in Partitions : \A x \in Indexed(p) : x \in Entries
      BY <1>1, Zenon DEF ArraysSound, TypeOK
    <2> QED BY <1>1, <1>2, <1>3, <2>1 DEF ArraysSound, Indexed
  <1>9. HashSound'
    BY <1>2, Zenon DEF HashSound
  <1>10. LiveHashed'
    <2>1. ASSUME NEW p \in Partitions, NEW x \in Indexed(p)
          PROVE  entry'[x].expire = EXPIRE_DROPIT
      <3>1. x \in Entries /\ entry[x].key \in Keys
        BY <1>1, Zenon DEF ArraysSound, TypeOK, EntryRec
      <3>2. CASE entry[x].expire = EXPIRE_DROPIT
        BY <1>3, <3>1, <3>2, Zenon
      <3>3. CASE entry[x].expire # EXPIRE_DROPIT
        <4>1. hash[entry[x].key] = x
          BY <1>1, <3>3, Zenon DEF LiveHashed
        <4> QED BY <1>3, <3>1, <4>1, Zenon
      <3> QED BY <3>2, <3>3, Zenon
    <2> QED BY <1>2, <2>1, Zenon DEF LiveHashed, Indexed
  <1>11. AllocReachable' /\ PurgeInBounds' /\ ScanSound'
    BY <1>1, <1>2, Zenon DEF AllocReachable, PurgeInBounds, ScanSound, Indexed
  <1> QED BY <1>4, <1>5, <1>6, <1>7, <1>8, <1>9, <1>10, <1>11, Zenon DEF IInv

(* The iteration that ends the chunk. *)
LEMMA PurgeEntryEnds ==
    ASSUME IInv, PurgeEntry, purgeIdx[purge.part] - 1 <= purge.min_idx,
           UNCHANGED <<alloc, entry, hash, hashKey, ptrArray, size>>,
           purge' = [purge EXCEPT !.step = "unlock"]
    PROVE  IInv'
  <1> SUFFICES ASSUME NEW p, p = purge.part PROVE IInv'
    BY Zenon
  <1>1. TypeOK /\ PurgeInBounds /\ ScanSound
    BY Zenon DEF IInv
  <1>2. /\ purge.step = "scan"
        /\ purgeIdx' = [purgeIdx EXCEPT ![p] = @ - 1]
        /\ UNCHANGED <<clock, now, purgeChunkSize, wrlock, pc, held, wanted, res,
                       truncating>>
    BY Zenon DEF PurgeEntry, NextIdx, tvars
  <1>3. p \in Partitions /\ purgeIdx[p] \in Nat /\ purgeIdx[p] > 0
    BY <1>1, <1>2, Zenon DEF TypeOK, ScanSound
  <1>4. purgeIdx' \in [Partitions -> Nat]
    BY <1>1, <1>2, <1>3 DEF TypeOK
  <1>5. TypeOK'
    BY <1>1, <1>2, <1>4, Zenon DEF TypeOK
  <1>6. PurgeInBounds'
    <2>1. ASSUME NEW q \in Partitions PROVE purgeIdx'[q] <= Len(ptrArray[q])
      <3>1. /\ ptrArray[q] \in Seq(Entries) /\ purgeIdx[q] \in Nat
            /\ purgeIdx[q] <= Len(ptrArray[q])
            /\ purgeIdx'[q] = purgeIdx[q] \/ purgeIdx'[q] = purgeIdx[q] - 1
        BY <1>1, <1>2, Zenon DEF TypeOK, PurgeInBounds
      <3>2. Len(ptrArray[q]) \in Nat
        BY <3>1, LenNat, Zenon
      <3> QED BY <3>1, <3>2
    <2> QED BY <2>1, Zenon DEF PurgeInBounds
  <1>7. ScanSound'
    BY <1>1, Zenon DEF TypeOK, ScanSound
  <1> QED BY <1>2, <1>5, <1>6, <1>7, Frame, Zenon DEF Reading

(* Purging one entry.  F is the set of entries it frees: {} or {e}. *)
LEMMA PurgeEntryVisits ==
    ASSUME ReaderCounts, IInv, PurgeEntry, purgeIdx[purge.part] - 1 > purge.min_idx
    PROVE  IInv'
  <1>0. SUFFICES ASSUME NEW p, p = purge.part, NEW i, i = purgeIdx[p] - 1,
                      NEW arr, arr = ptrArray[p],
                      NEW e, e = arr[i + 1], NEW k, k = entry[e].key,
                      NEW old, old = hash[k]
               PROVE  IInv'
    BY Zenon
  <1>p. p = purge.part /\ arr = ptrArray[p]
    BY <1>0, Zenon
  <1>i. i = purgeIdx[p] - 1
    BY <1>0, Zenon
  <1>e. e = arr[i + 1]
    BY <1>0, Zenon
  <1>k. k = entry[e].key
    BY <1>0, Zenon
  <1>o. old = hash[k]
    BY <1>0, Zenon
  <1>a. SUFFICES ASSUME NEW gone, gone = IF Expired(e) THEN {old} ELSE {} PROVE IInv'
    BY Zenon
  <1>b. SUFFICES ASSUME NEW F, F = IF Freeable(e, Dropped(gone)) THEN {e} ELSE {} PROVE IInv'
    BY Zenon
  <1>1. /\ TypeOK /\ RefCounted /\ HeldIndexed /\ Unpublished /\ ArraysSound
        /\ HashSound /\ LiveHashed /\ AllocReachable /\ PurgeInBounds /\ ScanSound
    BY Zenon DEF IInv
  <1>2. purge \in [step : {"sleep", "lock", "scan", "unlock"},
                   part : Partitions, min_idx : Nat]
    BY <1>1, Zenon DEF TypeOK
  <1>3. /\ p \in Partitions /\ i \in Nat /\ i > 0 /\ i + 1 = purgeIdx[p]
        /\ ~(i <= purge.min_idx)
        /\ arr \in Seq(Entries) /\ i + 1 <= Len(arr)
        /\ purgeIdx[p] \in Nat
    <2>1. p \in Partitions /\ purge.min_idx \in Nat
      BY <1>p, <1>2, Zenon
    <2>2. purgeIdx[p] \in Nat /\ arr \in Seq(Entries) /\ purgeIdx[p] <= Len(arr)
      BY <1>p, <1>1, <2>1, Zenon DEF TypeOK, PurgeInBounds
    <2>3. i \in Int /\ i + 1 = purgeIdx[p] /\ i > purge.min_idx
      BY <1>p, <1>i, <2>2
    <2> QED BY <2>1, <2>2, <2>3
  <1>4. /\ entry' = Dropped(gone)
        /\ hash' = IF Expired(e) THEN [hash EXCEPT ![k] = NoEntry] ELSE hash
        /\ hashKey' = IF Expired(e) THEN [hashKey EXCEPT ![k] = NoEntry] ELSE hashKey
        /\ purgeIdx' = [purgeIdx EXCEPT ![p] = @ - 1]
        /\ purge' = purge
        /\ UNCHANGED <<clock, now, purgeChunkSize, wrlock, pc, held, wanted, res,
                       truncating>>
    BY <1>0, <1>a, <1>3, Zenon DEF PurgeEntry, NextIdx, tvars
  <1>5. \/ /\ Freeable(e, Dropped(gone))
           /\ alloc' = alloc \ {e}
           /\ size' = size - 1
           /\ ptrArray' = [ptrArray EXCEPT ![p] = RemoveIndexFast(@, i + 1)]
        \/ /\ ~Freeable(e, Dropped(gone))
           /\ UNCHANGED <<alloc, size, ptrArray>>
    BY <1>0, <1>a, <1>3, Zenon DEF PurgeEntry, AccountedFree
  <1>6. i + 1 \in 1 .. Len(arr) /\ i + 1 \in DOMAIN arr /\ e = arr[i + 1]
    <2>1. \A n, m \in Nat : m + 1 <= n => m + 1 \in 1 .. n
      OBVIOUS
    <2>2. Len(arr) \in Nat /\ DOMAIN arr = 1 .. Len(arr)
      BY <1>3
    <2>3. i + 1 \in 1 .. Len(arr)
      BY <1>3, <2>1, <2>2, Zenon
    <2> QED BY <1>e, <2>2, <2>3, Zenon
  <1>7. e \in Elems(arr) /\ e \in Entries
    BY <1>3, <1>6 DEF Elems
  <1>8. /\ e \in alloc /\ k \in Keys /\ PartitionOf[k] = p
        /\ \A q \in Partitions : e \in Elems(ptrArray[q]) => q = p
    <2>1. e \in Indexed(p)
      BY <1>p, <1>7, Zenon DEF Indexed
    <2>2. e \in alloc /\ PartitionOf[k] = p
      BY <1>k, <1>1, <1>3, <2>1, Zenon DEF ArraysSound
    <2>3. k \in Keys
      BY <1>k, <1>1, <1>7, Zenon DEF TypeOK, EntryRec
    <2>4. \A q \in Partitions : e \in Indexed(q) => PartitionOf[k] = q
      BY <1>k, <1>1, Zenon DEF ArraysSound
    <2> QED BY <2>2, <2>3, <2>4, Zenon DEF Indexed
  <1>9. Expired(e) => old = e
    BY <1>p, <1>k, <1>o, <1>1, <1>3, <1>7, Zenon DEF Expired, LiveHashed, Indexed
  <1>10. /\ entry' \in [Entries -> EntryRec]
         /\ \A x \in Entries :
               /\ entry'[x].key = entry[x].key
               /\ entry'[x].ref_count = entry[x].ref_count
               /\ x # e => entry'[x] = entry[x]
    <2>1. gone \subseteq {e}
      BY <1>a, <1>9, Zenon
    <2> QED BY <1>1, <1>4, <2>1, DroppedEntries, Zenon
  <1>11. /\ Expired(e) => entry'[e].expire = EXPIRE_DROPIT
         /\ ~Expired(e) => entry'[e] = entry[e]
    BY <1>a, <1>1, <1>4, <1>7, <1>9, DroppedEntries, Zenon
  <1>12. /\ F \subseteq {e}
         /\ alloc' = alloc \ F
         /\ ptrArray' \in [Partitions -> Seq(Entries)]
         /\ \A q \in Partitions : /\ Elems(ptrArray'[q]) = Elems(ptrArray[q]) \ F
                                  /\ Apart(ptrArray'[q])
         /\ \A q \in Partitions : q # p => ptrArray'[q] = ptrArray[q]
         /\ i <= Len(ptrArray'[p])
         /\ size' \in Int
    <2>1. \A q \in Partitions : Apart(ptrArray[q]) /\ ptrArray[q] \in Seq(Entries)
      BY <1>1, Zenon DEF ArraysSound, TypeOK
    <2>2. Len(arr) \in Nat
      BY <1>3, LenNat, Zenon
    <2>3. CASE Freeable(e, Dropped(gone))
      <3>1. F = {e} /\ alloc' = alloc \ {e} /\ size' \in Int
        <4>1. F = {e}
          BY <1>b, <2>3, Zenon
        <4>2. alloc' = alloc \ {e} /\ size' = size - 1
          BY <1>5, <2>3, Zenon
        <4>3. size \in Int
          BY <1>1, Zenon DEF TypeOK
        <4> QED BY <4>1, <4>2, <4>3
      <3>2. ptrArray' = [ptrArray EXCEPT ![p] = RemoveIndexFast(arr, i + 1)]
        BY <1>p, <1>5, <2>3, Zenon
      <3>3. /\ RemoveIndexFast(arr, i + 1) \in Seq(Entries)
            /\ Len(RemoveIndexFast(arr, i + 1)) = Len(arr) - 1
            /\ Elems(RemoveIndexFast(arr, i + 1)) = Elems(arr) \ {e}
            /\ Apart(RemoveIndexFast(arr, i + 1))
        <4>1. arr \in Seq(Entries) /\ i + 1 \in 1 .. Len(arr) /\ Apart(arr) /\ arr[i + 1] = e
          BY <1>p, <1>3, <1>6, <2>1, Zenon
        <4> QED BY <4>1, ElemsRemove, Zenon
      <3>4. ptrArray'[p] = RemoveIndexFast(arr, i + 1)
        BY <1>1, <1>3, <3>2, Zenon DEF TypeOK
      <3>5. \A q \in Partitions : q # p => ptrArray'[q] = ptrArray[q]
        BY <1>1, <3>2, Zenon DEF TypeOK
      <3>6. ptrArray' \in [Partitions -> Seq(Entries)]
        BY <1>1, <3>2, <3>3, Zenon DEF TypeOK
      <3>7. ASSUME NEW q \in Partitions
            PROVE  Elems(ptrArray'[q]) = Elems(ptrArray[q]) \ F /\ Apart(ptrArray'[q])
        <4>1. CASE q = p
          BY <1>p, <3>1, <3>3, <3>4, <4>1, Zenon
        <4>2. CASE q # p
          <5>1. ptrArray'[q] = ptrArray[q] /\ e \notin Elems(ptrArray[q])
            BY <1>8, <3>5, <4>2, Zenon
          <5> QED BY <2>1, <3>1, <5>1, Zenon
        <4> QED BY <4>1, <4>2, Zenon
      <3>8. i <= Len(ptrArray'[p])
        BY <1>3, <2>2, <3>3, <3>4
      <3> QED BY <3>1, <3>5, <3>6, <3>7, <3>8, Zenon
    <2>4. CASE ~Freeable(e, Dropped(gone))
      <3>1. F = {} /\ alloc' = alloc /\ size' = size /\ ptrArray' = ptrArray
        BY <1>b, <1>5, <2>4, Zenon
      <3>2. i <= Len(arr)
        BY <1>3, <2>2
      <3> QED BY <1>p, <1>1, <2>1, <3>1, <3>2, Zenon DEF TypeOK
    <2> QED BY <2>3, <2>4, Zenon
  <1>13. F = {e} => entry'[e].expire = EXPIRE_DROPIT /\ Readers(e) = {}
    <2> SUFFICES ASSUME F = {e}
                 PROVE  entry'[e].expire = EXPIRE_DROPIT /\ Readers(e) = {}
      BY Zenon
    <2>1. entry'[e].expire = EXPIRE_DROPIT /\ entry'[e].ref_count = 0
      BY <1>b, <1>4, Zenon DEF Freeable
    <2>2. Cardinality(Readers(e)) = 0
      BY <1>1, <1>7, <1>8, <1>10, <2>1, Zenon DEF RefCounted
    <2>3. Readers(e) \in SUBSET Threads
      BY Zenon DEF Readers
    <2> QED BY <2>1, <2>2, <2>3, Zenon DEF ReaderCounts
  <1>14. TypeOK'
    <2>1. hash' \in [Keys -> Entries \cup {NoEntry}] /\ hashKey' \in [Keys -> Entries \cup {NoEntry}]
      BY <1>1, <1>4, Zenon DEF TypeOK
    <2>2. purgeIdx' \in [Partitions -> Nat]
      BY <1>1, <1>3, <1>4 DEF TypeOK
    <2>3. alloc' \subseteq Entries
      BY <1>1, <1>12, Zenon DEF TypeOK
    <2> QED BY <1>1, <1>4, <1>10, <1>12, <2>1, <2>2, <2>3, Zenon DEF TypeOK
  <1>15. RefCounted'
    <2>1. \A x : Readers(x)' = Readers(x)
      BY <1>4, Zenon DEF Readers, Reading
    <2>2. \A x \in alloc' : x \in Entries /\ entry[x].ref_count = Cardinality(Readers(x))
      BY <1>1, <1>12, Zenon DEF RefCounted, TypeOK
    <2>3. \A x \in alloc' : entry'[x].ref_count = Cardinality(Readers(x)')
      BY <1>10, <2>1, <2>2, Zenon
    <2> QED BY <2>3, Zenon DEF RefCounted
  <1>16. HeldIndexed'
    <2>1. ASSUME NEW t \in Threads, Reading(t)
          PROVE  /\ wanted[t] \in Keys
                 /\ held[t] \in Elems(ptrArray'[PartitionOf[wanted[t]]])
                 /\ entry'[held[t]].key = wanted[t]
      <3>1. /\ wanted[t] \in Keys /\ PartitionOf[wanted[t]] \in Partitions
            /\ held[t] \in Elems(ptrArray[PartitionOf[wanted[t]]])
            /\ entry[held[t]].key = wanted[t]
        BY <1>1, <2>1, PartitionAssumption, Zenon DEF HeldIndexed, Indexed
      <3>2. held[t] \in Entries
        BY <1>1, <3>1, Zenon DEF ArraysSound, Indexed, TypeOK
      <3>3. held[t] \notin F
        <4>1. held[t] = e => t \in Readers(e)
          BY <2>1, Zenon DEF Readers
        <4> QED BY <1>12, <1>13, <4>1, Zenon
      <3> QED BY <1>10, <1>12, <3>1, <3>2, <3>3, Zenon
    <2> QED BY <1>4, <2>1, Zenon DEF HeldIndexed, Indexed, Reading
  <1>17. Unpublished'
    <2>1. ASSUME NEW t \in Threads, pc[t] = "insert"
          PROVE  /\ held[t] \in Entries /\ held[t] # e /\ held[t] \in alloc
                 /\ entry[held[t]].expire # EXPIRE_DROPIT
                 /\ \A q \in Partitions : held[t] \notin Elems(ptrArray[q])
      <3>1. /\ held[t] \in alloc /\ entry[held[t]].expire # EXPIRE_DROPIT
            /\ \A q \in Partitions : held[t] \notin Elems(ptrArray[q])
        BY <1>1, <2>1, Zenon DEF Unpublished, Indexed
      <3>2. held[t] \in Entries
        BY <1>1, <3>1, Zenon DEF TypeOK
      <3>3. held[t] # e
        BY <1>p, <1>3, <1>7, <3>1, Zenon
      <3> QED BY <3>1, <3>2, <3>3, Zenon
    <2>2. ASSUME NEW t \in Threads, pc[t] = "insert"
          PROVE  /\ held[t] \in alloc' /\ entry'[held[t]].expire # EXPIRE_DROPIT
                 /\ \A q \in Partitions : held[t] \notin Elems(ptrArray'[q])
      <3>1. /\ held[t] \in Entries /\ held[t] # e /\ held[t] \in alloc
            /\ entry[held[t]].expire # EXPIRE_DROPIT
            /\ \A q \in Partitions : held[t] \notin Elems(ptrArray[q])
        BY <2>1, <2>2, Zenon
      <3>2. entry'[held[t]] = entry[held[t]]
        BY <1>10, <3>1, Zenon
      <3> QED BY <1>12, <3>1, <3>2, Zenon
    <2>3. \A t, u \in Threads : pc[t] = "insert" /\ pc[u] = "insert" /\ held[u] = held[t]
                                  => u = t
      BY <1>1, Zenon DEF Unpublished
    <2> QED BY <1>4, <2>2, <2>3, Zenon DEF Unpublished, Indexed
  <1>18. ArraysSound'
    <2>1. ASSUME NEW q \in Partitions, NEW x \in Elems(ptrArray'[q])
          PROVE  x \in alloc' /\ PartitionOf[entry'[x].key] = q
      <3>1. x \in Elems(ptrArray[q]) /\ x \notin F
        BY <1>12, Zenon
      <3>2. x \in alloc /\ x \in Entries /\ PartitionOf[entry[x].key] = q
        BY <1>1, <3>1, Zenon DEF ArraysSound, Indexed, TypeOK
      <3> QED BY <1>10, <1>12, <3>1, <3>2, Zenon
    <2> QED BY <1>12, <2>1, Zenon DEF ArraysSound, Indexed
  <1>19. HashSound'
    <2>1. ASSUME NEW l \in Keys, hash'[l] # NoEntry
          PROVE  /\ hash'[l] \in Elems(ptrArray'[PartitionOf[l]])
                 /\ entry'[hash'[l]].key = l
                 /\ entry'[hash'[l]].expire # EXPIRE_DROPIT
                 /\ hashKey'[l] = hash'[l]
      <3>1. /\ hash'[l] = hash[l] /\ hashKey'[l] = hashKey[l] /\ PartitionOf[l] \in Partitions
            /\ Expired(e) => l # k
        BY <1>1, <1>4, <1>8, <2>1, PartitionAssumption, Zenon DEF TypeOK
      <3>2. /\ hash[l] \in Elems(ptrArray[PartitionOf[l]])
            /\ entry[hash[l]].key = l /\ hashKey[l] = hash[l]
            /\ entry[hash[l]].expire # EXPIRE_DROPIT
        BY <1>1, <2>1, <3>1, Zenon DEF HashSound, Indexed
      <3>3. hash[l] \in Entries
        BY <1>1, <2>1, <3>1, Zenon DEF TypeOK
      <3>4. entry'[hash[l]].expire # EXPIRE_DROPIT
        <4>1. CASE hash[l] = e
          BY <1>k, <1>11, <3>1, <3>2, <4>1, Zenon
        <4>2. CASE hash[l] # e
          BY <1>10, <3>2, <3>3, <4>2, Zenon
        <4> QED BY <4>1, <4>2, Zenon
      <3>5. hash[l] \notin F
        BY <1>12, <1>13, <3>4, Zenon
      <3> QED BY <1>10, <1>12, <3>1, <3>2, <3>3, <3>4, <3>5, Zenon
    <2> QED BY <2>1, Zenon DEF HashSound, Indexed
  <1>20. LiveHashed'
    <2>1. ASSUME NEW q \in Partitions, NEW x \in Elems(ptrArray'[q]),
                 entry'[x].expire # EXPIRE_DROPIT
          PROVE  hash'[entry'[x].key] = x
      <3>1. x \in Elems(ptrArray[q])
        BY <1>12, Zenon
      <3>2. x \in Entries
        BY <1>1, <3>1, Zenon DEF ArraysSound, Indexed, TypeOK
      <3>3. entry'[x] = entry[x] /\ (x = e => ~Expired(e))
        BY <1>10, <1>11, <2>1, <3>2, Zenon
      <3>4. hash[entry[x].key] = x /\ entry[x].key \in Keys
        BY <1>1, <2>1, <3>1, <3>2, <3>3, Zenon DEF LiveHashed, Indexed, TypeOK, EntryRec
      <3>5. Expired(e) => entry[x].key # k
        BY <1>o, <1>9, <3>3, <3>4, Zenon
      <3> QED BY <1>1, <1>4, <3>3, <3>4, <3>5, Zenon DEF TypeOK
    <2> QED BY <2>1, Zenon DEF LiveHashed, Indexed
  <1>21. AllocReachable'
    <2>1. ASSUME NEW x \in alloc, x \notin F
          PROVE  \/ \E q \in Partitions : x \in Elems(ptrArray'[q])
                 \/ \E t \in Threads : pc[t] = "insert" /\ held[t] = x
      <3>1. CASE \E q \in Partitions : x \in Elems(ptrArray[q])
        BY <1>12, <2>1, <3>1, Zenon
      <3>2. CASE \E t \in Threads : pc[t] = "insert" /\ held[t] = x
        BY <3>2, Zenon
      <3> QED BY <1>1, <3>1, <3>2, Zenon DEF AllocReachable, Indexed
    <2>2. alloc' = alloc \ F /\ pc' = pc /\ held' = held
      BY <1>4, <1>12, Zenon
    <2> QED BY <2>1, <2>2, Zenon DEF AllocReachable, Indexed
  <1>22. PurgeInBounds'
    <2>1. ASSUME NEW q \in Partitions PROVE purgeIdx'[q] <= Len(ptrArray'[q])
      <3>1. CASE q = p
        <4>1. purgeIdx'[q] = i
          BY <1>1, <1>3, <1>4, <3>1 DEF TypeOK
        <4> QED BY <1>12, <3>1, <4>1, Zenon
      <3>2. CASE q # p
        <4>1. purgeIdx'[q] = purgeIdx[q] /\ ptrArray'[q] = ptrArray[q]
          BY <1>1, <1>4, <1>12, <3>2, Zenon DEF TypeOK
        <4> QED BY <1>1, <4>1, Zenon DEF PurgeInBounds
      <3> QED BY <3>1, <3>2, Zenon
    <2> QED BY <2>1, Zenon DEF PurgeInBounds
  <1>23. ScanSound'
    <2>1. purge'.part = p
      BY <1>p, <1>4, Zenon
    <2>2. purgeIdx'[p] = i
      BY <1>1, <1>3, <1>4 DEF TypeOK
    <2> QED BY <1>3, <2>1, <2>2, Zenon DEF ScanSound
  <1> QED BY <1>14, <1>15, <1>16, <1>17, <1>18, <1>19, <1>20, <1>21, <1>22, <1>23, Zenon DEF IInv

(* Every step of every thread preserves IInv. *)
LEMMA NextInv == ASSUME ReaderCounts, IInv, Next PROVE IInv'
  <1>1. ASSUME NEW t \in Threads, FdbGet(t) PROVE IInv'
    <2>1. CASE \E k \in Keys : FdbGetLookup(t, k)
      BY <2>1, LookupInv, Zenon
    <2>2. CASE FdbGetCheck(t) \/ FdbGetCopy(t)
      BY <2>2, ReaderStepInv, Zenon
    <2>3. CASE FdbGetRelease(t)
      BY <2>3, ReleaseInv, Zenon
    <2> QED BY <1>1, <2>1, <2>2, <2>3, Zenon DEF FdbGet
  <1>2. ASSUME NEW t \in Threads, FdbSet(t) PROVE IInv'
    <2>1. CASE \E k \in Keys, v \in Values, ttl \in TTLs, e \in Entries :
                   FdbSetPrepare(t, k, v, ttl, e)
      BY <2>1, PrepareInv, Zenon
    <2>2. CASE FdbSetInsert(t)
      BY <2>2, InsertInv, Zenon
    <2>3. CASE FdbSetAccount(t)
      BY <2>3, AccountInv, Zenon
    <2> QED BY <1>2, <2>1, <2>2, <2>3, Zenon DEF FdbSet
  <1>3. ASSUME PurgeEntry PROVE IInv'
    <2>1. CASE purgeIdx[purge.part] - 1 > purge.min_idx
      BY <1>3, <2>1, PurgeEntryVisits, Zenon
    <2>2. CASE ~(purgeIdx[purge.part] - 1 > purge.min_idx)
      <3>1. purgeIdx[purge.part] - 1 <= purge.min_idx
        <4>1. purgeIdx[purge.part] \in Nat /\ purge.min_idx \in Nat
          BY Zenon DEF IInv, TypeOK
        <4> QED BY <2>2, <4>1
      <3>2. /\ UNCHANGED <<alloc, entry, hash, hashKey, ptrArray, size>>
            /\ purge' = [purge EXCEPT !.step = "unlock"]
        BY <1>3, <2>2, Zenon DEF PurgeEntry
      <3> QED BY <1>3, <3>1, <3>2, PurgeEntryEnds, Zenon
    <2> QED BY <2>1, <2>2, Zenon
  <1>4. ASSUME PurgeHashThread PROVE IInv'
    BY <1>3, <1>4, PurgeWakeInv, PurgeLockInv, PurgeUnlockInv, Zenon DEF PurgeHashThread
  <1>5. ASSUME FdbTruncateAll PROVE IInv'
    BY <1>5, TruncateLockInv, TruncateAllInv, Zenon DEF FdbTruncateAll
  <1> QED BY <1>1, <1>2, <1>4, <1>5, TickInv, Zenon DEF Next

-----------------------------------------------------------------------------
(* The theorems. *)

(* Sets of readers are finite, since the threads are. *)
LEMMA ReadersCountable == ReaderCounts
  <1> SUFFICES ASSUME NEW R \in SUBSET Threads
               PROVE  /\ Cardinality(R) \in Nat
                      /\ Cardinality(R) = 0 <=> R = {}
                      /\ \A t \in Threads :
                            /\ t \notin R => Cardinality(R \cup {t}) = Cardinality(R) + 1
                            /\ t \in R => Cardinality(R \ {t}) = Cardinality(R) - 1
    BY Zenon DEF ReaderCounts
  <1>1. IsFiniteSet(R)
    BY MemoryAssumption, FS_Subset, Zenon
  <1> QED BY <1>1, FS_CardinalityType, FS_EmptySet, FS_AddElement, FS_RemoveElement, Zenon

(* IInv is an invariant: it holds initially, every action and every          *)
(* stuttering step keeps it.                                                  *)
THEOREM Inductive == Spec => []IInv
  <1>1. ASSUME IInv, UNCHANGED vars PROVE IInv'
    <2>1. TypeOK'
      BY <1>1, Zenon DEF IInv, TypeOK, vars, tvars
    <2>2. PurgeInBounds' /\ ScanSound'
      BY <1>1, Zenon DEF IInv, PurgeInBounds, ScanSound, vars
    <2> QED BY <1>1, <2>1, <2>2, Frame, Zenon DEF vars, tvars, Reading
  <1>2. IInv /\ [Next]_vars => IInv'
    BY <1>1, NextInv, ReadersCountable, Zenon
  <1> QED BY InitInv, <1>2, PTL DEF Spec

(* Type correctness, in particular: ref_count never goes below zero.          *)
THEOREM TypeCorrect == Spec => []TypeOK
  <1>1. IInv => TypeOK
    BY Zenon DEF IInv
  <1> QED BY Inductive, <1>1, PTL

(* fdb_get never reads memory that purgeHash_thread has freed, and neither    *)
(* the hash table nor the arrays keep a pointer to it.                        *)
THEOREM NeverUseAfterFree == Spec => []NoUseAfterFree
  <1>1. ASSUME IInv PROVE NoUseAfterFree
    <2>1. \A p \in Partitions : Indexed(p) \subseteq alloc
      BY <1>1, Zenon DEF IInv, ArraysSound
    <2>2. \A t \in Threads : Reading(t) => held[t] \in alloc
      BY <1>1, <2>1, PartitionAssumption, Zenon DEF IInv, HeldIndexed
    <2>3. \A k \in Keys : hash[k] # NoEntry => hash[k] \in alloc /\ hashKey[k] \in alloc
      BY <1>1, <2>1, PartitionAssumption, Zenon DEF IInv, HashSound
    <2> QED BY <2>1, <2>2, <2>3, Zenon DEF NoUseAfterFree
  <1> QED BY Inductive, <1>1, PTL

(* The entry under a reader is never recycled for another query.              *)
THEOREM ReadersKeepTheirKey == Spec => []ReadersSeeTheirKey
  <1>1. IInv => ReadersSeeTheirKey
    BY Zenon DEF IInv, HeldIndexed, ReadersSeeTheirKey
  <1> QED BY Inductive, <1>1, PTL

(* No entry is in two places, so none is freed twice; none is leaked.         *)
THEOREM EntriesIndexedOnce == Spec => []IndexedOnce
  <1>1. ASSUME IInv PROVE IndexedOnce
    <2>1. ASSUME NEW p \in Partitions, NEW q \in Partitions,
                 NEW i \in DOMAIN ptrArray[p], NEW j \in DOMAIN ptrArray[q],
                 ptrArray[p][i] = ptrArray[q][j]
          PROVE  p = q /\ i = j
      <3>1. ptrArray[p][i] \in Indexed(p) /\ ptrArray[q][j] \in Indexed(q)
        BY Zenon DEF Indexed, Elems
      <3>2. p = q
        BY <1>1, <2>1, <3>1, Zenon DEF IInv, ArraysSound
      <3>3. Apart(ptrArray[p])
        BY <1>1, Zenon DEF IInv, ArraysSound
      <3> QED BY <2>1, <3>2, <3>3, Zenon DEF Apart
    <2>2. \A x : x \in AllIndexed <=> \E p \in Partitions : x \in Indexed(p)
      BY Zenon DEF AllIndexed
    <2>3. \A x : x \in BeingInserted <=> \E t \in Threads : pc[t] = "insert" /\ held[t] = x
      BY Zenon DEF BeingInserted
    <2>4. \A x : x \in alloc => \/ \E p \in Partitions : x \in Indexed(p)
                              \/ \E t \in Threads : pc[t] = "insert" /\ held[t] = x
      BY <1>1, Zenon DEF IInv, AllocReachable
    <2>5. \A p \in Partitions : Indexed(p) \subseteq alloc
      BY <1>1, Zenon DEF IInv, ArraysSound
    <2>6. \A t \in Threads : pc[t] = "insert" => held[t] \in alloc
      BY <1>1, Zenon DEF IInv, Unpublished
    <2>7. alloc = AllIndexed \cup BeingInserted
      BY <2>2, <2>3, <2>4, <2>5, <2>6, Zenon
    <2>8. \A p, q \in Partitions : \A i \in DOMAIN ptrArray[p], j \in DOMAIN ptrArray[q] :
            ptrArray[p][i] = ptrArray[q][j] => p = q /\ i = j
      BY <2>1, Zenon
    <2> QED BY <2>7, <2>8, Zenon DEF IndexedOnce
  <1> QED BY Inductive, <1>1, PTL

(* EXPIRE_DROPIT marks exactly the indexed entries the hash table let go of.  *)
THEOREM LiveExactlyHashed == Spec => []LiveIffHashed
  <1>1. ASSUME IInv PROVE LiveIffHashed
    <2>1. ASSUME NEW p \in Partitions, NEW e \in Indexed(p)
          PROVE  entry[e].expire # EXPIRE_DROPIT <=> hash[entry[e].key] = e
      <3>1. e \in Entries /\ entry[e].key \in Keys /\ e # NoEntry
        BY <1>1, MemoryAssumption DEF IInv, ArraysSound, TypeOK, EntryRec
      <3>2. entry[e].expire # EXPIRE_DROPIT => hash[entry[e].key] = e
        BY <1>1, Zenon DEF IInv, LiveHashed
      <3>3. hash[entry[e].key] = e => entry[e].expire # EXPIRE_DROPIT
        BY <1>1, <3>1, Zenon DEF IInv, HashSound
      <3> QED BY <3>2, <3>3, Zenon
    <2> QED BY <2>1, Zenon DEF LiveIffHashed
  <1> QED BY Inductive, <1>1, PTL

(* The index kept across passes of the purge thread stays inside the array.   *)
THEOREM PurgeStaysInBounds == Spec => []PurgeInBounds
  <1>1. IInv => PurgeInBounds
    BY Zenon DEF IInv
  <1> QED BY Inductive, <1>1, PTL

(* A key loses its result only to a newer one, to FLUSH QUERY CACHE or to     *)
(* expiry: no other step takes an entry out of the hash table.                *)
THEOREM LeaveOnlyExpired == Spec => OnlyExpiredLeave
  <1> DEFINE A == \A k \in Keys :
                     hash[k] # NoEntry /\ hash'[k] = NoEntry
                       => truncating = NumPartitions \/ entry[hash[k]].expire <= now
  <1>1. ASSUME IInv, [Next]_vars PROVE A
    <2>1. CASE hash' = hash
      BY <2>1, Zenon
    <2>2. ASSUME NEW t \in Threads, FdbSetInsert(t) PROVE A
      <3>1. /\ held[t] \in Entries
            /\ hash' = [hash EXCEPT ![entry[held[t]].key] = held[t]]
        BY <1>1, <2>2, Zenon DEF IInv, Unpublished, TypeOK, FdbSetInsert
      <3>2. hash \in [Keys -> Entries \cup {NoEntry}]
        BY <1>1, Zenon DEF IInv, TypeOK
      <3> QED BY <3>1, <3>2, MemoryAssumption, Zenon
    <2>3. CASE TruncateAll
      BY <2>3, Zenon DEF TruncateAll
    <2>4. CASE PurgeEntry
      <3>1. SUFFICES ASSUME NEW p, p = purge.part, NEW e, e = ptrArray[p][purgeIdx[p] - 1 + 1],
                            hash' # hash
                     PROVE  A
        BY <2>1, Zenon
      <3>2. Expired(e) /\ hash' = [hash EXCEPT ![entry[e].key] = NoEntry]
        BY <2>4, <3>1, Zenon DEF PurgeEntry
      <3>3. p \in Partitions /\ purgeIdx[p] \in Nat /\ purgeIdx[p] > 0
            /\ purgeIdx[p] <= Len(ptrArray[p]) /\ ptrArray[p] \in Seq(Entries)
        BY <1>1, <2>4, <3>1, Zenon DEF IInv, TypeOK, PurgeInBounds, ScanSound, PurgeEntry
      <3>4. e \in Indexed(p)
        <4>1. purgeIdx[p] - 1 + 1 = purgeIdx[p] /\ purgeIdx[p] \in DOMAIN ptrArray[p]
          BY <3>3
        <4> QED BY <3>1, <4>1, Zenon DEF Indexed, Elems
      <3>5. hash[entry[e].key] = e
        BY <1>1, <3>2, <3>3, <3>4, Zenon DEF IInv, LiveHashed, Expired
      <3>6. hash \in [Keys -> Entries \cup {NoEntry}]
        BY <1>1, Zenon DEF IInv, TypeOK
      <3> QED BY <3>2, <3>5, <3>6, Zenon DEF Expired
    <2>5. CASE UNCHANGED vars
      BY <2>1, <2>5, Zenon DEF vars
    <2>6. CASE Next
      <3>1. CASE \E t \in Threads : FdbGet(t)
        BY <2>1, <3>1, Zenon DEF FdbGet, FdbGetLookup, FdbGetCheck, FdbGetCopy, FdbGetRelease
      <3>2. CASE \E t \in Threads : FdbSet(t)
        BY <2>1, <2>2, <3>2, Zenon DEF FdbSet, FdbSetPrepare, FdbSetAccount
      <3>3. CASE PurgeHashThread
        BY <2>1, <2>4, <3>3, Zenon DEF PurgeHashThread, PurgeWake, PurgeLock, PurgeUnlock
      <3>4. CASE FdbTruncateAll
        BY <2>1, <2>3, <3>4, Zenon DEF FdbTruncateAll, TruncateLock
      <3>5. CASE Tick
        BY <2>1, <3>5, Zenon DEF Tick
      <3> QED BY <2>6, <3>1, <3>2, <3>3, <3>4, <3>5, Zenon DEF Next
    <2> QED BY <1>1, <2>5, <2>6, Zenon
  <1>2. IInv /\ [Next]_vars => [A]_vars
    BY <1>1, Zenon
  <1> QED BY Inductive, <1>2, PTL DEF Spec, OnlyExpiredLeave
-----------------------------------------------------------------------------
(* The refinement.  A thread that is not in fdb_get asks for nothing and has  *)
(* no result, and has none before it copies one.                              *)
Calls ==
    \A t \in Threads : /\ ~Reading(t) => wanted[t] = NoKey /\ res[t] = Miss
                       /\ pc[t] \in {"check", "copy"} => res[t] = Miss

OthersSame(t) ==
    \A u \in Threads : u # t => /\ pc'[u] = pc[u] /\ held'[u] = held[u]
                                /\ wanted'[u] = wanted[u] /\ res'[u] = res[u]

LEMMA ThreadSteps ==
    ASSUME TypeOK, NEW t \in Threads, FdbGet(t) \/ FdbSet(t)
    PROVE  OthersSame(t)
  <1>1. CASE FdbGet(t)
    BY <1>1, ZenonT(40) DEF TypeOK, FdbGet, FdbGetLookup, FdbGetCheck, FdbGetCopy, FdbGetRelease,
       OthersSame
  <1>2. CASE FdbSet(t)
    BY <1>2, ZenonT(40) DEF TypeOK, FdbSet, FdbSetPrepare, FdbSetInsert, FdbSetAccount, OthersSame
  <1> QED BY <1>1, <1>2, Zenon

LEMMA CallsKept ==
    ASSUME TypeOK, Calls, [Next]_vars
    PROVE  Calls'
  <1>1. CASE UNCHANGED tvars
    BY <1>1, Zenon DEF Calls, Reading, tvars
  <1>2. ASSUME NEW t \in Threads, FdbGet(t) \/ FdbSet(t),
               /\ pc'[t] \notin ReaderSteps => wanted'[t] = NoKey /\ res'[t] = Miss
               /\ pc'[t] \in {"check", "copy"} => res'[t] = Miss
        PROVE  Calls'
    BY <1>2, ThreadSteps, Zenon DEF Calls, Reading, OthersSame
  <1>3. ASSUME NEW t \in Threads, FdbGet(t) PROVE Calls'
    <2>1. CASE \E k \in Keys : FdbGetLookup(t, k)
      BY <1>2, <1>3, <2>1, ZenonT(40) DEF TypeOK, Calls, Reading, ReaderSteps, FdbGetLookup
    <2>2. CASE FdbGetCheck(t)
      BY <1>2, <1>3, <2>2, Zenon DEF TypeOK, Calls, Reading, ReaderSteps, FdbGetCheck, AfterCheck
    <2>3. CASE FdbGetCopy(t)
      BY <1>2, <1>3, <2>3, Zenon DEF TypeOK, Calls, Reading, ReaderSteps, FdbGetCopy
    <2>4. CASE FdbGetRelease(t)
      BY <1>2, <1>3, <2>4, Zenon DEF TypeOK, Calls, Reading, ReaderSteps, FdbGetRelease
    <2> QED BY <1>3, <2>1, <2>2, <2>3, <2>4, Zenon DEF FdbGet
  <1>4. ASSUME NEW t \in Threads, FdbSet(t) PROVE Calls'
    <2>1. pc[t] \notin ReaderSteps /\ pc'[t] \notin ReaderSteps /\ wanted' = wanted /\ res' = res
      BY <1>4, ZenonT(40) DEF TypeOK, ReaderSteps, FdbSet, FdbSetPrepare, FdbSetInsert, FdbSetAccount
    <2> QED BY <1>2, <1>4, <2>1, Zenon DEF Calls, Reading, ReaderSteps
  <1>5. CASE UNCHANGED vars
    BY <1>1, <1>5, Zenon DEF vars
  <1>6. CASE Tick \/ PurgeHashThread \/ FdbTruncateAll
    BY <1>1, <1>6, Zenon DEF Tick, PurgeHashThread, PurgeWake, PurgeLock, PurgeEntry, PurgeUnlock,
       FdbTruncateAll, TruncateLock, TruncateAll
  <1> QED BY <1>3, <1>4, <1>5, <1>6, Zenon DEF Next

(* What a reader holds and what the hash table maps to is allocated.           *)
LEMMA HeldAllocated ==
    ASSUME IInv
    PROVE  /\ \A t \in Threads : Reading(t) => held[t] \in alloc
           /\ \A k \in Keys : hash[k] # NoEntry => hash[k] \in alloc
  <1>1. \A p \in Partitions : Indexed(p) \subseteq alloc
    BY Zenon DEF IInv, ArraysSound
  <1> QED BY <1>1, PartitionAssumption, Zenon DEF IInv, HeldIndexed, HashSound

(* No step changes the result in an entry that is allocated.                  *)
ValuesKept == \A e \in alloc : entry'[e].value = entry[e].value

LEMMA EntriesKeepValues ==
    ASSUME IInv, Next
    PROVE  ValuesKept
  <1>1. entry \in [Entries -> EntryRec] /\ alloc \subseteq Entries
    BY Zenon DEF IInv, TypeOK
  <1>2. CASE entry' = entry
    BY <1>2, Zenon DEF ValuesKept
  <1>3. ASSUME NEW E, entry' = Dropped(E) PROVE ValuesKept
    <2>1. ASSUME NEW e \in alloc PROVE entry'[e].value = entry[e].value
      <3>1. entry[e] \in EntryRec /\ entry'[e] \in {entry[e], [entry[e] EXCEPT !.expire = EXPIRE_DROPIT]}
        BY <1>1, <1>3, Zenon DEF Dropped
      <3> QED BY <3>1, Zenon DEF EntryRec
    <2> QED BY <2>1, Zenon DEF ValuesKept
  <1>4. ASSUME NEW d \in Entries, NEW n, entry' = [entry EXCEPT ![d].ref_count = n] PROVE ValuesKept
    <2>1. ASSUME NEW e \in alloc PROVE entry'[e].value = entry[e].value
      <3>1. entry[e] \in EntryRec /\ entry'[e] \in {entry[e], [entry[e] EXCEPT !.ref_count = n]}
        BY <1>1, <1>4, Zenon
      <3> QED BY <3>1, Zenon DEF EntryRec
    <2> QED BY <2>1, Zenon DEF ValuesKept
  <1>5. ASSUME NEW t \in Threads, FdbGet(t) PROVE ValuesKept
    <2>1. ASSUME NEW k \in Keys, FdbGetLookup(t, k) PROVE ValuesKept
      <3>1. hash[k] \in Entries /\ entry' = [entry EXCEPT ![hash[k]].ref_count = entry[hash[k]].ref_count + 1]
        BY <2>1, Zenon DEF IInv, TypeOK, FdbGetLookup, Pinned
      <3> QED BY <1>4, <3>1, Zenon
    <2>2. CASE FdbGetRelease(t)
      <3>1. held[t] \in Entries
        BY <1>1, <2>2, HeldAllocated, Zenon DEF FdbGetRelease, Reading, ReaderSteps
      <3>2. entry' = [entry EXCEPT ![held[t]].ref_count = entry[held[t]].ref_count - 1]
        BY <2>2, Zenon DEF FdbGetRelease
      <3> QED BY <1>4, <3>1, <3>2, Zenon
    <2> QED BY <1>2, <1>5, <2>1, <2>2, Zenon DEF FdbGet, FdbGetCheck, FdbGetCopy
  <1>6. ASSUME NEW t \in Threads, FdbSet(t) PROVE ValuesKept
    <2>1. ASSUME NEW k \in Keys, NEW v \in Values, NEW ttl \in TTLs, NEW e \in Entries,
                 FdbSetPrepare(t, k, v, ttl, e)
          PROVE  ValuesKept
      BY <1>1, <2>1, Zenon DEF FdbSetPrepare, ValuesKept
    <2>2. CASE FdbSetInsert(t)
      BY <1>3, <2>2, Zenon DEF FdbSetInsert
    <2> QED BY <1>2, <1>6, <2>1, <2>2, Zenon DEF FdbSet, FdbSetAccount
  <1>7. CASE PurgeEntry
    BY <1>2, <1>3, <1>7, Zenon DEF PurgeEntry
  <1>8. CASE TruncateAll
    BY <1>3, <1>8, Zenon DEF TruncateAll
  <1> QED BY <1>2, <1>5, <1>6, <1>7, <1>8, Zenon DEF Next, Tick, PurgeHashThread, PurgeWake, PurgeLock,
          PurgeUnlock, FdbTruncateAll, TruncateLock

Store == [k \in Keys |-> IF hash[k] = NoEntry THEN Miss ELSE entry[hash[k]].value]
Call(t) == [key |-> wanted[t],
            value |-> IF Reading(t) THEN entry[held[t]].value ELSE Miss,
            result |-> res[t]]
Pending == [t \in Threads |-> Call(t)]

LEMMA StoreSame ==
    ASSUME IInv, ValuesKept, hash' = hash
    PROVE  Store' = Store
  <1>1. ASSUME NEW k \in Keys
        PROVE  (IF hash[k] = NoEntry THEN Miss ELSE entry'[hash[k]].value)
                 = (IF hash[k] = NoEntry THEN Miss ELSE entry[hash[k]].value)
    BY HeldAllocated, Zenon DEF ValuesKept
  <1> QED BY <1>1, Zenon DEF Store

LEMMA CallSame ==
    ASSUME IInv, ValuesKept, NEW t \in Threads,
           pc'[t] = pc[t], held'[t] = held[t], wanted'[t] = wanted[t], res'[t] = res[t]
    PROVE  Call(t)' = Call(t)
  <1>1. Reading(t) => entry'[held[t]].value = entry[held[t]].value
    BY HeldAllocated, Zenon DEF ValuesKept
  <1> QED BY <1>1, Zenon DEF Call, Reading

LEMMA PendingSame ==
    ASSUME IInv, ValuesKept, UNCHANGED tvars
    PROVE  Pending' = Pending
  <1>1. \A t \in Threads : Call(t)' = Call(t)
    BY CallSame, Zenon DEF tvars
  <1> QED BY <1>1, Zenon DEF Pending

LEMMA PendingExcept ==
    ASSUME IInv, ValuesKept, NEW t \in Threads, OthersSame(t)
    PROVE  Pending' = [Pending EXCEPT ![t] = Call(t)']
  <1>1. \A u \in Threads : u # t => Call(u)' = Call(u)
    BY CallSame, Zenon DEF OthersSame
  <1> QED BY <1>1, Zenon DEF Pending

(* The actions of ResultCache, in terms of the values it is given.            *)
LEMMA AbstractActions ==
    /\ \A k \in Keys : \A v \in Values :
          Store' = [Store EXCEPT ![k] = v] /\ Pending' = Pending => Cache!Next
    /\ \A K \in SUBSET Keys :
          /\ Store' = [k \in Keys |-> IF k \in K THEN Miss ELSE Store[k]]
          /\ Pending' = Pending
          => Cache!Next
    /\ \A t \in Threads : \A k \in Keys :
          /\ Pending[t] = Cache!NoCall
          /\ Store[k] # Miss
          /\ Pending' = [Pending EXCEPT
                           ![t] = [key |-> k, value |-> Store[k], result |-> Miss]]
          /\ Store' = Store
          => Cache!Next
    /\ \A t \in Threads :
          /\ Pending[t] # Cache!NoCall
          /\ Pending' = [Pending EXCEPT ![t].result = Pending[t].value]
          /\ Store' = Store
          => Cache!Next
    /\ \A t \in Threads :
          /\ Pending[t] # Cache!NoCall
          /\ Pending' = [Pending EXCEPT ![t] = Cache!NoCall]
          /\ Store' = Store
          => Cache!Next
  <1>1. \A k \in Keys : \A v \in Values :
          Store' = [Store EXCEPT ![k] = v] /\ Pending' = Pending => Cache!Next
    BY Zenon DEF Cache!Next, Cache!Put, Store, Pending, Call
  <1>2. \A K \in SUBSET Keys :
          /\ Store' = [k \in Keys |-> IF k \in K THEN Miss ELSE Store[k]]
          /\ Pending' = Pending
          => Cache!Next
    BY Zenon DEF Cache!Next, Cache!Evict, Store, Pending, Call
  <1>3. \A t \in Threads : \A k \in Keys :
          /\ Pending[t] = Cache!NoCall
          /\ Store[k] # Miss
          /\ Pending' = [Pending EXCEPT
                           ![t] = [key |-> k, value |-> Store[k], result |-> Miss]]
          /\ Store' = Store
          => Cache!Next
    BY Zenon DEF Cache!Next, Cache!LookUp, Store, Pending, Call
  <1>4. \A t \in Threads :
          /\ Pending[t] # Cache!NoCall
          /\ Pending' = [Pending EXCEPT ![t].result = Pending[t].value]
          /\ Store' = Store
          => Cache!Next
    BY Zenon DEF Cache!Next, Cache!Fetch, Store, Pending, Call
  <1>5. \A t \in Threads :
          /\ Pending[t] # Cache!NoCall
          /\ Pending' = [Pending EXCEPT ![t] = Cache!NoCall]
          /\ Store' = Store
          => Cache!Next
    BY Zenon DEF Cache!Next, Cache!Return, Store, Pending, Call
  <1> QED BY <1>1, <1>2, <1>3, <1>4, <1>5, Zenon

LEMMA AbstractStutter ==
    ASSUME Store' = Store, Pending' = Pending
    PROVE  UNCHANGED Cache!vars
  BY Zenon DEF Cache!vars, Store, Pending, Call

(* fdb_get: looking a key up, copying the result and returning are the        *)
(* abstract steps; finding the entry stale is a stutter.                      *)
LEMMA GetImplements ==
    ASSUME IInv, Calls, ValuesKept, NEW t \in Threads, FdbGet(t)
    PROVE  Cache!Next \/ UNCHANGED Cache!vars
  <1>1. OthersSame(t) /\ hash' = hash
    BY ThreadSteps, Zenon DEF IInv, FdbGet, FdbGetLookup, FdbGetCheck, FdbGetCopy, FdbGetRelease
  <1>2. Store' = Store /\ Pending' = [Pending EXCEPT ![t] = Call(t)']
    BY <1>1, StoreSame, PendingExcept, Zenon
  <1>3. Pending[t] = Call(t) /\ Pending \in [Threads -> {Pending[u] : u \in Threads}]
    BY Zenon DEF Pending
  <1>4. TypeOK
    BY Zenon DEF IInv
  <1>5. Reading(t) => Call(t) # Cache!NoCall
    <2>1. Reading(t) => wanted[t] # NoKey
      BY MemoryAssumption, Zenon DEF IInv, HeldIndexed
    <2> QED BY <2>1, Zenon DEF Call, Cache!NoCall
  <1>6. ASSUME NEW k \in Keys, FdbGetLookup(t, k) PROVE Cache!Next
    <2>1. Call(t) = Cache!NoCall
      BY <1>6, Zenon DEF Calls, Reading, ReaderSteps, FdbGetLookup, Call, Cache!NoCall
    <2>2. hash[k] \in alloc /\ hash[k] # NoEntry
      BY <1>6, HeldAllocated, Zenon DEF FdbGetLookup
    <2>3. Store[k] = entry[hash[k]].value
      BY <2>2, Zenon DEF Store
    <2>4. Store[k] # Miss
      BY <1>4, <2>2, <2>3, MemoryAssumption DEF TypeOK, EntryRec
    <2>5. /\ wanted'[t] = k /\ held'[t] = hash[k] /\ pc'[t] = "check" /\ res'[t] = res[t]
      BY <1>4, <1>6, Zenon DEF TypeOK, FdbGetLookup
    <2>6. res[t] = Miss
      BY <1>6, Zenon DEF Calls, Reading, ReaderSteps, FdbGetLookup
    <2>7. entry'[hash[k]].value = entry[hash[k]].value
      BY <2>2, Zenon DEF ValuesKept
    <2>8. Call(t)' = [key |-> k, value |-> Store[k], result |-> Miss]
      BY <2>3, <2>5, <2>6, <2>7, Zenon DEF Call, Reading, ReaderSteps
    <2> QED BY <1>2, <1>3, <2>1, <2>4, <2>8, AbstractActions, Zenon
  <1>7. CASE FdbGetCheck(t)
    <2>1. /\ wanted'[t] = wanted[t] /\ held'[t] = held[t] /\ res'[t] = res[t] /\ entry' = entry
          /\ Reading(t) /\ Reading(t)'
      BY <1>4, <1>7, Zenon DEF TypeOK, FdbGetCheck, AfterCheck, Reading, ReaderSteps
    <2>2. Call(t)' = Call(t)
      BY <2>1, Zenon DEF Call
    <2>3. Pending' = Pending
      BY <1>2, <1>3, <2>2, Zenon
    <2> QED BY <1>2, <2>3, AbstractStutter, Zenon
  <1>8. CASE FdbGetCopy(t)
    <2>1. /\ wanted'[t] = wanted[t] /\ held'[t] = held[t] /\ entry' = entry
          /\ Reading(t) /\ Reading(t)' /\ res'[t] = entry[held[t]].value
      BY <1>4, <1>8, Zenon DEF TypeOK, FdbGetCopy, Reading, ReaderSteps
    <2>2. Call(t)' = [Call(t) EXCEPT !.result = Call(t).value]
      <3>1. PICK k, v, r, c, d : /\ k = wanted[t] /\ v = entry[held[t]].value /\ r = res[t]
                                 /\ c = Call(t) /\ d = Call(t)'
        BY Zenon
      <3>2. c = [key |-> k, value |-> v, result |-> r]
        BY <2>1, <3>1, Zenon DEF Call
      <3>3. d = [key |-> k, value |-> v, result |-> v]
        BY <2>1, <3>1, Zenon DEF Call
      <3>4. d = [c EXCEPT !.result = c.value]
        BY <3>2, <3>3
      <3> QED BY <3>1, <3>4, Zenon
    <2>3. Pending' = [Pending EXCEPT ![t].result = Pending[t].value]
      BY <1>2, <1>3, <2>2, Zenon
    <2> QED BY <1>2, <1>3, <1>5, <2>1, <2>3, AbstractActions, Zenon
  <1>9. CASE FdbGetRelease(t)
    <2>1. /\ wanted'[t] = NoKey /\ res'[t] = Miss /\ Reading(t) /\ ~Reading(t)'
      BY <1>4, <1>9, Zenon DEF TypeOK, FdbGetRelease, Reading, ReaderSteps
    <2>2. Call(t)' = Cache!NoCall
      BY <2>1, Zenon DEF Call, Cache!NoCall
    <2> QED BY <1>2, <1>3, <1>5, <2>1, <2>2, AbstractActions, Zenon
  <1> QED BY <1>6, <1>7, <1>8, <1>9, Zenon DEF FdbGet

(* fdb_set: publishing the entry is the abstract Put; preparing it and        *)
(* accounting for it are stutters.                                            *)
LEMMA SetImplements ==
    ASSUME IInv, ValuesKept, NEW t \in Threads, FdbSet(t)
    PROVE  Cache!Next \/ UNCHANGED Cache!vars
  <1>1. OthersSame(t) /\ TypeOK
    BY ThreadSteps, Zenon DEF IInv
  <1>2. Call(t)' = Call(t)
    <2>1. ~Reading(t) /\ ~Reading(t)' /\ wanted' = wanted /\ res' = res
      BY <1>1, ZenonT(40) DEF TypeOK, Reading, ReaderSteps, FdbSet, FdbSetPrepare, FdbSetInsert, FdbSetAccount
    <2> QED BY <2>1, Zenon DEF Call
  <1>3. Pending' = Pending
    <2>1. Pending' = [Pending EXCEPT ![t] = Pending[t]]
      BY <1>1, <1>2, PendingExcept, Zenon DEF Pending
    <2> QED BY <2>1, Zenon DEF Pending
  <1>4. CASE hash' = hash
    BY <1>3, <1>4, StoreSame, AbstractStutter, Zenon
  <1>5. CASE FdbSetInsert(t)
    <2>1. PICK e, k : e = held[t] /\ k = entry[e].key
      BY Zenon
    <2>2. e \in alloc /\ e \in Entries /\ e # NoEntry
      BY <1>1, <1>5, <2>1, MemoryAssumption, Zenon DEF IInv, Unpublished, TypeOK, FdbSetInsert
    <2>3. k \in Keys /\ entry[e].value \in Values
      BY <1>1, <2>1, <2>2 DEF TypeOK, EntryRec
    <2>4. hash'[k] = e /\ \A l \in Keys : l # k => hash'[l] = hash[l]
      BY <1>1, <1>5, <2>1, <2>3, Zenon DEF TypeOK, FdbSetInsert
    <2>5. Store'[k] = entry[e].value
      BY <2>2, <2>3, <2>4, Zenon DEF Store, ValuesKept
    <2>6. \A l \in Keys : l # k => Store'[l] = Store[l]
      BY <2>4, HeldAllocated, Zenon DEF Store, ValuesKept
    <2>7. DOMAIN Store' = Keys /\ DOMAIN Store = Keys /\ Store' = [l \in Keys |-> Store'[l]]
      BY Zenon DEF Store
    <2>8. Store' = [Store EXCEPT ![k] = entry[e].value]
      BY <2>3, <2>5, <2>6, <2>7, Zenon
    <2> QED BY <1>3, <2>3, <2>8, AbstractActions, Zenon
  <1> QED BY <1>4, <1>5, Zenon DEF FdbSet, FdbSetPrepare, FdbSetAccount

(* Taking keys out of the hash table and leaving the threads alone is the     *)
(* abstract Evict: the purge thread and FLUSH QUERY CACHE do no more.         *)
LEMMA EvictImplements ==
    ASSUME IInv, ValuesKept, UNCHANGED tvars,
           \A k \in Keys : hash'[k] = hash[k] \/ hash'[k] = NoEntry
    PROVE  Cache!Next
  <1>1. PICK K \in SUBSET Keys : \A k \in Keys : k \in K <=> hash'[k] = NoEntry
    <2>1. {k \in Keys : hash'[k] = NoEntry} \in SUBSET Keys
      BY Zenon
    <2> QED BY <2>1, Zenon
  <1>2. \A k \in Keys : k \in K => Store'[k] = Miss
    BY <1>1, Zenon DEF Store
  <1>3. \A k \in Keys : k \notin K => Store'[k] = Store[k]
    BY <1>1, HeldAllocated, Zenon DEF Store, ValuesKept
  <1>4. Store' = [k \in Keys |-> Store'[k]]
    BY Zenon DEF Store
  <1>5. Store' = [k \in Keys |-> IF k \in K THEN Miss ELSE Store[k]]
    BY <1>2, <1>3, <1>4, Zenon
  <1> QED BY <1>5, PendingSame, AbstractActions, Zenon

(* Whatever is replaced, expired, flushed, freed or recycled meanwhile,       *)
(* fdb_get returns nothing or the very result that was stored for its key     *)
(* when it looked the key up: QueryCache implements ResultCache.              *)
THEOREM ImplementsCache == Spec => ImplementsResultCache
  <1>1. Init => Cache!Init
    <2> SUFFICES ASSUME Init PROVE Cache!Init
      OBVIOUS
    <2>1. Store = [k \in Keys |-> Miss]
      BY Zenon DEF Init, Store
    <2>2. \A t \in Threads : Call(t) = Cache!NoCall
      BY Zenon DEF Init, Call, Reading, ReaderSteps, Cache!NoCall
    <2>3. Pending = [t \in Threads |-> Cache!NoCall]
      BY <2>2, Zenon DEF Pending
    <2> QED BY <2>1, <2>3, Zenon DEF Cache!Init, Store, Pending, Call
  <1>2. Init => Calls
    BY Zenon DEF Init, Calls, Reading, ReaderSteps
  <1>3. IInv /\ Calls /\ [Next]_vars => Calls'
    BY CallsKept, Zenon DEF IInv
  <1>4. ASSUME IInv, Calls, [Next]_vars PROVE [Cache!Next]_(Cache!vars)
    <2>1. CASE UNCHANGED vars
      <3>1. ValuesKept /\ UNCHANGED tvars /\ hash' = hash
        BY <2>1, Zenon DEF vars, ValuesKept
      <3> QED BY <1>4, <3>1, StoreSame, PendingSame, AbstractStutter, Zenon
    <2>2. CASE Next
      <3>1. ValuesKept
        BY <1>4, <2>2, EntriesKeepValues, Zenon
      <3>2. CASE UNCHANGED tvars /\ hash' = hash
        BY <1>4, <3>1, <3>2, StoreSame, PendingSame, AbstractStutter, Zenon
      <3>3. CASE \E t \in Threads : FdbGet(t) \/ FdbSet(t)
        BY <1>4, <3>1, <3>3, GetImplements, SetImplements, Zenon
      <3>4. CASE PurgeEntry
        <4>1. \/ hash' = hash
              \/ \E k : hash' = [hash EXCEPT ![k] = NoEntry]
          BY <3>4, Zenon DEF PurgeEntry
        <4>2. hash \in [Keys -> Entries \cup {NoEntry}]
          BY <1>4, Zenon DEF IInv, TypeOK
        <4>3. \A k \in Keys : hash'[k] = hash[k] \/ hash'[k] = NoEntry
          BY <4>1, <4>2, Zenon
        <4>4. UNCHANGED tvars
          BY <3>4, Zenon DEF PurgeEntry
        <4> QED BY <1>4, <3>1, <4>3, <4>4, EvictImplements, Zenon
      <3>5. CASE TruncateAll
        <4>1. UNCHANGED tvars /\ \A k \in Keys : hash'[k] = NoEntry
          BY <3>5, Zenon DEF TruncateAll
        <4> QED BY <1>4, <3>1, <4>1, EvictImplements, Zenon
      <3> QED BY <2>2, <3>2, <3>3, <3>4, <3>5, Zenon DEF Next, Tick, PurgeHashThread, PurgeWake,
              PurgeLock, PurgeUnlock, FdbTruncateAll, TruncateLock
    <2> QED BY <1>4, <2>1, <2>2, Zenon
  <1> QED BY <1>1, <1>2, <1>3, <1>4, Inductive, PTL DEF Spec, Cache!Spec, ImplementsResultCache

-----------------------------------------------------------------------------
(* Memory accounting.  The indexed entries are the allocated ones that no set *)
(* is about to publish.                                                       *)
LEMMA IndexedIsPublished ==
    ASSUME IInv
    PROVE  AllIndexed = alloc \ BeingInserted
  <1>1. \A x : x \in AllIndexed <=> \E p \in Partitions : x \in Indexed(p)
    BY Zenon DEF AllIndexed
  <1>2. \A x : x \in BeingInserted <=> \E t \in Threads : pc[t] = "insert" /\ held[t] = x
    BY Zenon DEF BeingInserted
  <1>3. \A x \in alloc : \/ \E p \in Partitions : x \in Indexed(p)
                         \/ \E t \in Threads : pc[t] = "insert" /\ held[t] = x
    BY Zenon DEF IInv, AllocReachable
  <1>4. \A p \in Partitions : \A x \in Indexed(p) : x \in alloc
    BY Zenon DEF IInv, ArraysSound
  <1>5. \A t \in Threads : pc[t] = "insert" => \A p \in Partitions : held[t] \notin Indexed(p)
    BY Zenon DEF IInv, Unpublished
  <1> QED BY <1>1, <1>2, <1>3, <1>4, <1>5, Zenon

Published == alloc \ BeingInserted
Accounting == {t \in Threads : pc[t] = "account"}

Counts(S) == /\ IsFiniteSet(S) /\ Cardinality(S) \in Nat
             /\ \A x : /\ x \notin S => Cardinality(S \cup {x}) = Cardinality(S) + 1
                       /\ x \in S => Cardinality(S \ {x}) = Cardinality(S) - 1

LEMMA PublishedCounts ==
    ASSUME IInv
    PROVE  Counts(Published) /\ Counts(Accounting)
  <1>1. IsFiniteSet(Published)
    <2>1. Published \subseteq Entries
      BY Zenon DEF IInv, TypeOK, Published
    <2> QED BY <2>1, MemoryAssumption, FS_Subset, Zenon
  <1>2. IsFiniteSet(Accounting)
    <2>1. Accounting \subseteq Threads
      BY Zenon DEF Accounting
    <2> QED BY <2>1, MemoryAssumption, FS_Subset, Zenon
  <1> QED BY <1>1, <1>2, FS_CardinalityType, FS_AddElement, FS_RemoveElement, Zenon DEF Counts

(* Memory accounting in terms of the published entries.                       *)
Accounted == size = Cardinality(Published) - Cardinality(Accounting)

LEMMA AccountedSame ==
    ASSUME Accounted, size' = size, Published' = Published, Accounting' = Accounting
    PROVE  Accounted'
  BY Zenon DEF Accounted

LEMMA InsertAccounted ==
    ASSUME IInv, Accounted, NEW t \in Threads, FdbSetInsert(t)
    PROVE  Accounted'
  <1>1. PICK e : e = held[t]
    BY Zenon
  <1>2. /\ pc[t] = "insert" /\ pc \in [Threads -> {"idle"} \cup ReaderSteps \cup WriterSteps]
        /\ pc' = [pc EXCEPT ![t] = "account"]
        /\ held \in [Threads -> Entries \cup {NoEntry}] /\ held' = [held EXCEPT ![t] = NoEntry]
        /\ alloc' = alloc /\ size' = size
    BY Zenon DEF IInv, TypeOK, FdbSetInsert
  <1>3. e \in alloc /\ \A u \in Threads : pc[u] = "insert" /\ held[u] = e => u = t
    BY <1>1, <1>2, Zenon DEF IInv, Unpublished
  <1>4. BeingInserted' = BeingInserted \ {e}
    <2>1. \A u \in Threads : pc'[u] = "insert" <=> pc[u] = "insert" /\ u # t
      BY <1>2, Zenon
    <2>2. \A u \in Threads : u # t => held'[u] = held[u]
      BY <1>2, Zenon
    <2>3. \A x : x \in BeingInserted <=> \E u \in Threads : pc[u] = "insert" /\ held[u] = x
      BY Zenon DEF BeingInserted
    <2>4. \A x : x \in BeingInserted' <=> \E u \in Threads : pc'[u] = "insert" /\ held'[u] = x
      BY Zenon DEF BeingInserted
    <2>5. ASSUME NEW x \in BeingInserted' PROVE x \in BeingInserted \ {e}
      BY <1>3, <2>1, <2>2, <2>3, <2>4, ZenonT(40)
    <2>6. ASSUME NEW x \in BeingInserted, x # e PROVE x \in BeingInserted'
      BY <1>1, <2>1, <2>2, <2>3, <2>4, <2>6, Zenon
    <2> QED BY <2>5, <2>6, Zenon
  <1>5. e \in BeingInserted
    BY <1>1, <1>2, Zenon DEF BeingInserted
  <1>6. Published' = Published \cup {e} /\ e \notin Published
    BY <1>2, <1>3, <1>4, <1>5, Zenon DEF Published
  <1>7. Accounting' = Accounting \cup {t} /\ t \notin Accounting
    BY <1>2, Zenon DEF Accounting
  <1>8. /\ Cardinality(Published') = Cardinality(Published) + 1
        /\ Cardinality(Accounting') = Cardinality(Accounting) + 1
        /\ Cardinality(Published) \in Nat /\ Cardinality(Accounting) \in Nat
    BY <1>6, <1>7, PublishedCounts, Zenon DEF Counts
  <1>9. \A a, b \in Nat : (a + 1) - (b + 1) = a - b
    OBVIOUS
  <1>10. size' = size
    BY <1>2, Zenon
  <1> QED BY <1>8, <1>9, <1>10, Zenon DEF Accounted

LEMMA AccountAccounted ==
    ASSUME IInv, Accounted, NEW t \in Threads, FdbSetAccount(t)
    PROVE  Accounted'
  <1>1. /\ pc[t] = "account" /\ pc \in [Threads -> {"idle"} \cup ReaderSteps \cup WriterSteps]
        /\ pc' = [pc EXCEPT ![t] = "idle"]
        /\ held' = held /\ alloc' = alloc /\ size' = size + 1
    BY Zenon DEF IInv, TypeOK, FdbSetAccount
  <1>2. BeingInserted' = BeingInserted
    <2>1. \A u \in Threads : pc'[u] = "insert" <=> pc[u] = "insert"
      BY <1>1, Zenon
    <2> QED BY <1>1, <2>1, Zenon DEF BeingInserted
  <1>3. Published' = Published
    BY <1>1, <1>2, Zenon DEF Published
  <1>4. Accounting' = Accounting \ {t} /\ t \in Accounting
    BY <1>1, Zenon DEF Accounting
  <1>5. /\ Cardinality(Published') = Cardinality(Published)
        /\ Cardinality(Accounting') = Cardinality(Accounting) - 1
        /\ Cardinality(Published) \in Nat /\ Cardinality(Accounting) \in Nat
    BY <1>3, <1>4, PublishedCounts, Zenon DEF Counts
  <1>6. \A a, b \in Nat : a - (b - 1) = (a - b) + 1
    OBVIOUS
  <1> QED BY <1>1, <1>5, <1>6, Zenon DEF Accounted

LEMMA PurgeAccounted ==
    ASSUME IInv, Accounted, PurgeEntry
    PROVE  Accounted'
  <1>1. UNCHANGED <<pc, held>>
    BY Zenon DEF PurgeEntry, tvars
  <1>2. BeingInserted' = BeingInserted /\ Accounting' = Accounting
    BY <1>1, Zenon DEF BeingInserted, Accounting
  <1>3. CASE alloc' = alloc /\ size' = size
    BY <1>2, <1>3, AccountedSame, Zenon DEF Published
  <1>4. ASSUME NEW p, p = purge.part, NEW e, e = ptrArray[p][purgeIdx[p] - 1 + 1],
               alloc' = alloc \ {e}, size' = size - 1
        PROVE  Accounted'
    <2>1. p \in Partitions /\ purgeIdx[p] \in Nat /\ purgeIdx[p] > 0
          /\ purgeIdx[p] <= Len(ptrArray[p]) /\ ptrArray[p] \in Seq(Entries)
      BY <1>4, Zenon DEF IInv, TypeOK, PurgeInBounds, ScanSound, PurgeEntry
    <2>2. e \in Indexed(p)
      <3>1. purgeIdx[p] - 1 + 1 = purgeIdx[p] /\ purgeIdx[p] \in DOMAIN ptrArray[p]
        BY <2>1
      <3> QED BY <1>4, <3>1, Zenon DEF Indexed, Elems
    <2>3. e \in Published
      BY <2>1, <2>2, IndexedIsPublished, Zenon DEF AllIndexed, Published
    <2>4. Published' = Published \ {e}
      BY <1>2, <1>4, Zenon DEF Published
    <2>5. /\ Cardinality(Published') = Cardinality(Published) - 1
          /\ Cardinality(Accounting') = Cardinality(Accounting)
          /\ Cardinality(Published) \in Nat /\ Cardinality(Accounting) \in Nat
      BY <1>2, <2>3, <2>4, PublishedCounts, Zenon DEF Counts
    <2>6. \A a, b \in Nat : (a - 1) - b = (a - b) - 1
      OBVIOUS
    <2>7. size' = size - 1
      BY <1>4, Zenon
    <2> QED BY <2>5, <2>6, <2>7, Zenon DEF Accounted
  <1> QED BY <1>3, <1>4, Zenon DEF PurgeEntry, AccountedFree

(* Preparing an entry allocates one that is not published.                    *)
LEMMA PrepareAccounted ==
    ASSUME IInv, Accounted, NEW t \in Threads, NEW e \in Entries, NEW k, NEW v, NEW ttl,
           FdbSetPrepare(t, k, v, ttl, e)
    PROVE  Accounted'
  <1>1. /\ pc[t] = "idle" /\ pc \in [Threads -> {"idle"} \cup ReaderSteps \cup WriterSteps]
        /\ pc' = [pc EXCEPT ![t] = "insert"]
        /\ held \in [Threads -> Entries \cup {NoEntry}] /\ held' = [held EXCEPT ![t] = e]
        /\ alloc' = alloc \cup {e} /\ e \notin alloc /\ size' = size
    BY Zenon DEF IInv, TypeOK, FdbSetPrepare
  <1>2. BeingInserted' = BeingInserted \cup {e}
    <2>1. \A u \in Threads : pc'[u] = "insert" <=> pc[u] = "insert" \/ u = t
      BY <1>1, Zenon
    <2>2. \A u \in Threads : held'[u] = IF u = t THEN e ELSE held[u]
      BY <1>1, Zenon
    <2>3. \A x : x \in BeingInserted <=> \E u \in Threads : pc[u] = "insert" /\ held[u] = x
      BY Zenon DEF BeingInserted
    <2>4. \A x : x \in BeingInserted' <=> \E u \in Threads : pc'[u] = "insert" /\ held'[u] = x
      BY Zenon DEF BeingInserted
    <2>5. ASSUME NEW x \in BeingInserted' PROVE x \in BeingInserted \cup {e}
      BY <2>1, <2>2, <2>3, <2>4, Zenon
    <2>6. ASSUME NEW x \in BeingInserted PROVE x \in BeingInserted'
      <3>1. pc[t] # "insert"
        BY <1>1, Zenon
      <3> QED BY <2>1, <2>2, <2>3, <2>4, <3>1, ZenonT(40)
    <2>7. e \in BeingInserted'
      BY <2>1, <2>2, <2>4, Zenon
    <2> QED BY <2>5, <2>6, <2>7, Zenon
  <1>3. Published' = Published
    BY <1>1, <1>2, Zenon DEF Published
  <1>4. Accounting' = Accounting
    BY <1>1, Zenon DEF Accounting
  <1> QED BY <1>1, <1>3, <1>4, AccountedSame, Zenon

(* The memory that free-memory checks and the purge threshold rely on is      *)
(* that of the indexed entries, less the sets that have yet to add theirs:    *)
(* it neither drifts nor goes wrong however sets and purges interleave.       *)
THEOREM SizeIsAccounted == Spec => []SizeAccounting
  <1>1. ASSUME Init PROVE Accounted
    <2>1. Published = {} /\ Accounting = {} /\ size = 0
      BY <1>1, Zenon DEF Init, Published, Accounting
    <2>2. Cardinality({}) = 0
      BY FS_EmptySet, Zenon
    <2> QED BY <2>1, <2>2 DEF Accounted
  <1>2. ASSUME IInv, Accounted, [Next]_vars PROVE Accounted'
    <2>1. CASE UNCHANGED <<pc, held, alloc, size>>
      <3>1. Published' = Published /\ Accounting' = Accounting
        BY <2>1, Zenon DEF Published, BeingInserted, Accounting
      <3> QED BY <1>2, <2>1, <3>1, AccountedSame, Zenon
    <2>2. ASSUME NEW t \in Threads, FdbGet(t) PROVE Accounted'
      <3>1. alloc' = alloc /\ size' = size
        BY <2>2, Zenon DEF FdbGet, FdbGetLookup, FdbGetCheck, FdbGetCopy, FdbGetRelease
      <3>2. \A u \in Threads : /\ pc'[u] = "insert" <=> pc[u] = "insert"
                               /\ pc'[u] = "account" <=> pc[u] = "account"
                               /\ pc[u] = "insert" => held'[u] = held[u]
        BY <1>2, <2>2, ZenonT(40) DEF IInv, TypeOK, FdbGet, FdbGetLookup, FdbGetCheck, AfterCheck,
           FdbGetCopy, FdbGetRelease
      <3>3. BeingInserted' = BeingInserted
        BY <3>2, Zenon DEF BeingInserted
      <3>4. Published' = Published /\ Accounting' = Accounting
        BY <3>1, <3>2, <3>3, Zenon DEF Published, Accounting
      <3> QED BY <1>2, <3>1, <3>4, AccountedSame, Zenon
    <2>3. ASSUME NEW t \in Threads, FdbSet(t) PROVE Accounted'
      BY <1>2, <2>3, PrepareAccounted, InsertAccounted, AccountAccounted, Zenon DEF FdbSet
    <2>4. CASE PurgeEntry
      BY <1>2, <2>4, PurgeAccounted, Zenon
    <2>5. CASE UNCHANGED vars
      BY <2>1, <2>5, Zenon DEF vars, tvars
    <2> QED BY <1>2, <2>1, <2>2, <2>3, <2>4, <2>5, Zenon DEF Next, Tick, PurgeHashThread, PurgeWake,
            PurgeLock, PurgeUnlock, FdbTruncateAll, TruncateLock, TruncateAll, tvars
  <1>3. ASSUME IInv, Accounted PROVE SizeAccounting
    BY <1>3, IndexedIsPublished, Zenon DEF Accounted, Published, Accounting, SizeAccounting, AllIndexed
  <1> QED BY <1>1, <1>2, <1>3, Inductive, PTL DEF Spec
=============================================================================
