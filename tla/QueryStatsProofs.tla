--------------------------- MODULE QueryStatsProofs ---------------------------
(***************************************************************************)
(* CountedOnce and EntriesOwnedOnce hold in QueryStats for any sessions,   *)
(* queries and servers and any finite memory.                              *)
(***************************************************************************)
EXTENDS QueryStats, TLAPS, FiniteSetTheorems

Entry == [query : Queries, server : Servers \cup {NoServer}, exec_cnt : Nat]
Memory == UNION {[C -> Entry] : C \in SUBSET Cells}
Pointer == Cells \cup {NoCell}

TypeOK ==
    /\ phase \in [Sessions -> {"idle", "queued", "asked"}]
    /\ query_stats \in [Sessions -> Pointer]
    /\ entry \in Memory
    /\ c_hash \in [Keys -> Pointer] /\ p_hash \in [Keys -> Pointer]
    /\ report \in {"sleeping", "listing", "writing"}
    /\ keysList \subseteq Keys
    /\ rows \in [Keys -> Nat] /\ done \in [Keys -> Nat] /\ lost \in [Keys -> Nat]
    /\ up \in BOOLEAN

(* A pointer that is not NULL leads to a cell that is allocated, in a table   *)
(* to one of its key, and no two pointers lead to the same cell.  As entries  *)
(* of different keys differ, the pointers of one table need not be compared.  *)
(* No cell that is allocated is without a pointer.                            *)
Valid(mem, c) == c # NoCell => c \in DOMAIN mem
Apart(c, d) == c # NoCell => c # d
TableSound(mem, h) == \A k \in Keys : Valid(mem, h[k]) /\ (h[k] # NoCell => Key(mem[h[k]]) = k)
SessionsSound(mem, qs, ch, ph) ==
    \A s \in Sessions :
        /\ Valid(mem, qs[s])
        /\ \A t \in Sessions : s # t => Apart(qs[s], qs[t])
        /\ \A k \in Keys : Apart(qs[s], ch[k]) /\ Apart(qs[s], ph[k])
TablesApart(ch, ph) == \A j, k \in Keys : Apart(ch[j], ph[k])
NoLeak(mem, qs, ch, ph) ==
    \A c \in DOMAIN mem : \/ \E s \in Sessions : qs[s] = c
                          \/ \E k \in Keys : ch[k] = c \/ ph[k] = c

Owned(mem, qs, ch, ph) ==
    /\ mem \in Memory /\ qs \in [Sessions -> Pointer]
    /\ ch \in [Keys -> Pointer] /\ ph \in [Keys -> Pointer]
    /\ TableSound(mem, ch) /\ TableSound(mem, ph) /\ TablesApart(ch, ph)
    /\ SessionsSound(mem, qs, ch, ph) /\ NoLeak(mem, qs, ch, ph)

(* While the report thread sleeps p_hash is empty, and what it has still to   *)
(* write is there.                                                            *)
ReportSound ==
    /\ report = "sleeping" => p_hash = NoEntries
    /\ report = "writing" => \A k \in keysList : p_hash[k] # NoCell

IInv == TypeOK /\ Owned(entry, query_stats, c_hash, p_hash) /\ ReportSound /\ CountedOnce

-----------------------------------------------------------------------------
(* The memory: what its elements are, and what storing and freeing do to it.  *)
LEMMA MemoryType ==
    \A mem : mem \in Memory <=> DOMAIN mem \subseteq Cells /\ mem \in [DOMAIN mem -> Entry]
  BY Zenon DEF Memory

LEMMA KeyType == \A e \in Entry : Key(e) \in Keys
  BY Zenon DEF Entry, Key, Keys

LEMMA FreedMemory ==
    ASSUME NEW mem \in Memory, NEW C
    PROVE  /\ Freed(mem, C) \in Memory
           /\ DOMAIN Freed(mem, C) = DOMAIN mem \ C
           /\ \A d \in DOMAIN mem \ C : Freed(mem, C)[d] = mem[d]
  BY MemoryType, Zenon DEF Freed, Allocated

LEMMA PutMemory ==
    ASSUME NEW mem \in Memory, NEW c \in Cells, NEW e \in Entry
    PROVE  /\ Put(mem, c, e) \in Memory
           /\ DOMAIN Put(mem, c, e) = DOMAIN mem \cup {c}
           /\ Put(mem, c, e)[c] = e
           /\ \A d \in DOMAIN mem \ {c} : Put(mem, c, e)[d] = mem[d]
  BY MemoryType, Zenon DEF Put, Allocated

LEMMA CountMemory ==
    ASSUME NEW mem \in Memory, NEW c \in DOMAIN mem, NEW n \in Nat
    PROVE  LET new == [mem EXCEPT ![c].exec_cnt = n]
           IN  /\ new \in Memory
               /\ DOMAIN new = DOMAIN mem
               /\ \A d \in DOMAIN mem : Key(new[d]) = Key(mem[d])
               /\ new[c].exec_cnt = n
               /\ \A d \in DOMAIN mem \ {c} : new[d] = mem[d]
  <1>1. mem \in [DOMAIN mem -> Entry] /\ DOMAIN mem \subseteq Cells
    BY MemoryType, Zenon
  <1>2. [mem[c] EXCEPT !.exec_cnt = n] \in Entry /\ Key([mem[c] EXCEPT !.exec_cnt = n]) = Key(mem[c])
        /\ [mem[c] EXCEPT !.exec_cnt = n].exec_cnt = n
    BY <1>1, Zenon DEF Entry, Key
  <1> QED BY <1>1, <1>2, MemoryType, Zenon

-----------------------------------------------------------------------------
(* Ownership is kept by each thing the code does to an entry: a session frees *)
(* the one it has, ...                                                        *)
LEMMA ReleaseOwned ==
    ASSUME NEW mem, NEW qs, NEW ch, NEW ph, Owned(mem, qs, ch, ph), NEW s \in Sessions
    PROVE  Owned(Freed(mem, {qs[s]} \ {NoCell}), [qs EXCEPT ![s] = NoCell], ch, ph)
  <1> DEFINE C == {qs[s]} \ {NoCell}
             new == Freed(mem, C)
             nqs == [qs EXCEPT ![s] = NoCell]
  <1>1. /\ new \in Memory /\ DOMAIN new = DOMAIN mem \ C
        /\ \A d \in DOMAIN mem \ C : new[d] = mem[d]
    BY FreedMemory, Zenon DEF Owned
  <1> HIDE DEF new
  <1>2. TableSound(new, ch) /\ TableSound(new, ph)
    BY <1>1, Zenon DEF Owned, TableSound, SessionsSound, Valid, Apart
  <1>3. SessionsSound(new, nqs, ch, ph)
    BY <1>1, Zenon DEF Owned, SessionsSound, Valid, Apart
  <1>4. NoLeak(new, nqs, ch, ph)
    BY <1>1, QueryStatsAssumption, MemoryType, Zenon DEF Owned, NoLeak
  <1> QED BY <1>1, <1>2, <1>3, <1>4, Zenon DEF Owned, Pointer, new

(* ... takes a fresh one, ...                                                 *)
LEMMA TakeOwned ==
    ASSUME NEW mem, NEW qs, NEW ch, NEW ph, Owned(mem, qs, ch, ph), NEW s \in Sessions,
           qs[s] = NoCell, NEW c \in Cells, c \notin DOMAIN mem, NEW e \in Entry
    PROVE  Owned(Put(mem, c, e), [qs EXCEPT ![s] = c], ch, ph)
  <1> DEFINE new == Put(mem, c, e)
             nqs == [qs EXCEPT ![s] = c]
  <1>1. /\ new \in Memory /\ DOMAIN new = DOMAIN mem \cup {c}
        /\ \A d \in DOMAIN mem : new[d] = mem[d]
    BY PutMemory DEF Owned
  <1> HIDE DEF new
  <1>2. TableSound(new, ch) /\ TableSound(new, ph)
    BY <1>1, Zenon DEF Owned, TableSound, Valid
  <1>3. SessionsSound(new, nqs, ch, ph)
    BY <1>1 DEF Owned, SessionsSound, TableSound, Valid, Apart
  <1>4. NoLeak(new, nqs, ch, ph)
    BY <1>1, QueryStatsAssumption, MemoryType DEF Owned, NoLeak
  <1> QED BY <1>1, <1>2, <1>3, <1>4, Zenon DEF Owned, Pointer, new

(* ... gives its entry to c_hash, ...                                         *)
LEMMA EnterOwned ==
    ASSUME NEW mem, NEW qs, NEW ch, NEW ph, Owned(mem, qs, ch, ph), NEW s \in Sessions,
           qs[s] # NoCell, ch[Key(mem[qs[s]])] = NoCell
    PROVE  Owned([mem EXCEPT ![qs[s]].exec_cnt = 1], [qs EXCEPT ![s] = NoCell],
                 [ch EXCEPT ![Key(mem[qs[s]])] = qs[s]], ph)
  <1> DEFINE c == qs[s]
             k == Key(mem[c])
             new == [mem EXCEPT ![c].exec_cnt = 1]
             nqs == [qs EXCEPT ![s] = NoCell]
             nch == [ch EXCEPT ![k] = c]
  <1>1. c \in DOMAIN mem /\ c \in Cells /\ k \in Keys
    BY MemoryType, KeyType, Zenon DEF Owned, SessionsSound, Valid
  <1>2. new \in Memory /\ DOMAIN new = DOMAIN mem /\ \A d \in DOMAIN mem : Key(new[d]) = Key(mem[d])
    <2>1. \A n \in Nat : LET mn == [mem EXCEPT ![c].exec_cnt = n]
                         IN  mn \in Memory /\ DOMAIN mn = DOMAIN mem /\ \A d \in DOMAIN mem : Key(mn[d]) = Key(mem[d])
      BY <1>1, CountMemory DEF Owned
    <2>2. 1 \in Nat
      BY Zenon
    <2> QED BY <2>1, <2>2, Zenon
  <1> HIDE DEF new
  <1>3. TableSound(new, nch) /\ TableSound(new, ph)
    BY <1>1, <1>2, Zenon DEF Owned, TableSound, Valid
  <1>4. TablesApart(nch, ph)
    BY <1>1, Zenon DEF Owned, TablesApart, SessionsSound, Apart
  <1>5. SessionsSound(new, nqs, nch, ph)
    BY <1>1, <1>2, Zenon DEF Owned, SessionsSound, Valid, Apart
  <1>6. NoLeak(new, nqs, nch, ph)
    BY <1>1, <1>2, QueryStatsAssumption DEF Owned, NoLeak, Pointer
  <1> QED BY <1>1, <1>2, <1>3, <1>4, <1>5, <1>6, Zenon DEF Owned, Pointer, new

(* ... or counts its query in the entry c_hash already has.                   *)
LEMMA MergeOwned ==
    ASSUME NEW mem, NEW qs, NEW ch, NEW ph, Owned(mem, qs, ch, ph), NEW s \in Sessions,
           qs[s] # NoCell, ch[Key(mem[qs[s]])] # NoCell
    PROVE  Owned(CountedIn(Freed(mem, {qs[s]}), ch[Key(mem[qs[s]])]), [qs EXCEPT ![s] = NoCell], ch, ph)
  <1> DEFINE k == Key(mem[qs[s]])
             e == ch[k]
             mid == Freed(mem, {qs[s]} \ {NoCell})
             new == [mid EXCEPT ![e].exec_cnt = mid[e].exec_cnt + 1]
             nqs == [qs EXCEPT ![s] = NoCell]
  <1>1. k \in Keys
    BY MemoryType, KeyType, Zenon DEF Owned, SessionsSound, Valid
  <1>2. Owned(mid, nqs, ch, ph)
    BY ReleaseOwned, Zenon
  <1>3. mid = Freed(mem, {qs[s]})
    <2>1. {qs[s]} \ {NoCell} = {qs[s]}
      BY Zenon
    <2> QED BY <2>1, Zenon
  <1> HIDE DEF mid
  <1>4. e \in DOMAIN mid /\ mid[e].exec_cnt + 1 \in Nat
    BY <1>1, <1>2, MemoryType DEF Owned, TableSound, Valid, Entry
  <1>5. new \in Memory /\ DOMAIN new = DOMAIN mid /\ \A d \in DOMAIN mid : Key(new[d]) = Key(mid[d])
    BY <1>2, <1>4, CountMemory DEF Owned
  <1>6. new = CountedIn(mid, e)
    BY Zenon DEF CountedIn
  <1> HIDE DEF new
  <1>7. Owned(new, nqs, ch, ph)
    BY <1>2, <1>5, Zenon DEF Owned, TableSound, SessionsSound, NoLeak, Valid
  <1> QED BY <1>3, <1>6, <1>7, Zenon

-----------------------------------------------------------------------------
(* The counts on their way to the database.                                   *)
LEMMA PendingType ==
    ASSUME TypeOK, Owned(entry, query_stats, c_hash, p_hash), ReportSound
    PROVE  /\ \A k \in Keys : c_hash[k] # NoCell => entry[c_hash[k]].exec_cnt \in Nat
           /\ \A k \in Unwritten : k \in Keys /\ p_hash[k] # NoCell /\ entry[p_hash[k]].exec_cnt \in Nat
           /\ \A k \in Keys : Pending(k) \in Nat
  <1>1. \A c \in DOMAIN entry : entry[c].exec_cnt \in Nat
    BY MemoryType, Zenon DEF TypeOK, Entry
  <1>2. \A k \in Keys : /\ c_hash[k] # NoCell => entry[c_hash[k]].exec_cnt \in Nat
                        /\ p_hash[k] # NoCell => entry[p_hash[k]].exec_cnt \in Nat
    BY <1>1, Zenon DEF Owned, TableSound, Valid
  <1>3. \A k \in Unwritten : k \in Keys /\ p_hash[k] # NoCell
    BY Zenon DEF TypeOK, ReportSound, Unwritten, InTable
  <1> QED BY <1>2, <1>3 DEF Pending

(* query_statistics_set counts one query of the entry's key, whether c_hash   *)
(* has an entry for it or not, when the new entry of the session is not one   *)
(* of a table.                                                                *)
LEMMA SetCounts ==
    ASSUME IInv, NEW s \in Sessions, NEW mem, NEW c \in Cells,
           Owned(mem, [query_stats EXCEPT ![s] = c], c_hash, p_hash),
           \A k \in Keys : /\ c_hash[k] # NoCell => mem[c_hash[k]] = entry[c_hash[k]]
                           /\ p_hash[k] # NoCell => mem[p_hash[k]] = entry[p_hash[k]],
           query_statistics_set(s, mem, c), phase' \in [Sessions -> {"idle", "queued", "asked"}],
           UNCHANGED <<p_hash, reporter, up, lost>>
    PROVE  IInv'
  <1> DEFINE qs == [query_stats EXCEPT ![s] = c]
             k == Key(mem[c])
             e == c_hash[k]
  <1>1. /\ mem \in Memory /\ c \in DOMAIN mem /\ k \in Keys /\ c # NoCell /\ qs[s] = c
        /\ \A j \in Keys : c_hash[j] # c /\ p_hash[j] # c
        /\ \A d \in DOMAIN mem : mem[d].exec_cnt \in Nat
        /\ query_stats' = [qs EXCEPT ![s] = NoCell]
    <2>1. mem \in Memory /\ query_stats \in [Sessions -> Pointer] /\ c # NoCell
      BY QueryStatsAssumption, Zenon DEF Owned, IInv, TypeOK
    <2>2. qs[s] = c /\ query_stats' = [qs EXCEPT ![s] = NoCell]
      BY <2>1, Zenon DEF query_statistics_set, KeptPointer
    <2>3. c \in DOMAIN mem /\ \A j \in Keys : c_hash[j] # c /\ p_hash[j] # c
      BY <2>1, <2>2, Zenon DEF Owned, SessionsSound, Valid, Apart
    <2> QED BY <2>1, <2>2, <2>3, MemoryType, KeyType, Zenon DEF Entry
  <1>2. /\ Owned(entry', query_stats', c_hash', p_hash')
        /\ c_hash'[k] # NoCell
        /\ entry'[c_hash'[k]].exec_cnt = (IF e = NoCell THEN 0 ELSE mem[e].exec_cnt) + 1
        /\ \A j \in Keys \ {k} : c_hash'[j] = c_hash[j]
        /\ \A j \in Keys \ {k} : c_hash[j] # NoCell => entry'[c_hash[j]] = mem[c_hash[j]]
        /\ \A j \in Keys : p_hash[j] # NoCell => entry'[p_hash[j]] = mem[p_hash[j]]
    <2>1. CASE e = NoCell
      <3>1. c_hash' = [c_hash EXCEPT ![k] = c] /\ entry' = [mem EXCEPT ![c].exec_cnt = 1]
        BY <2>1, Zenon DEF query_statistics_set
      <3>2. Owned([mem EXCEPT ![qs[s]].exec_cnt = 1], [qs EXCEPT ![s] = NoCell],
                  [c_hash EXCEPT ![Key(mem[qs[s]])] = qs[s]], p_hash)
        BY <1>1, <2>1, EnterOwned, Zenon
      <3>3. Owned(entry', query_stats', c_hash', p_hash')
        BY <1>1, <3>1, <3>2, Zenon
      <3> QED BY <1>1, <2>1, <3>1, <3>3, MemoryType DEF Owned, TableSound, Valid, IInv, TypeOK, Entry
    <2>2. CASE e # NoCell
      <3>1. c_hash' = c_hash /\ entry' = CountedIn(Freed(mem, {c}), e)
        BY <2>2, Zenon DEF query_statistics_set
      <3>2. Owned(entry', query_stats', c_hash', p_hash')
        <4>1. Owned(CountedIn(Freed(mem, {qs[s]}), c_hash[Key(mem[qs[s]])]), [qs EXCEPT ![s] = NoCell],
                    c_hash, p_hash)
          BY <1>1, <2>2, MergeOwned, Zenon
        <4> QED BY <1>1, <3>1, <4>1, Zenon
      <3>3. /\ \A d \in DOMAIN mem \ {c} : Freed(mem, {c})[d] = mem[d]
            /\ DOMAIN Freed(mem, {c}) = DOMAIN mem \ {c}
        BY <1>1, FreedMemory, Zenon
      <3>4. e \in DOMAIN mem \ {c} /\ mem[e] \in Entry
        BY <1>1, <2>2, MemoryType DEF Owned, TableSound, Valid
      <3>5. entry'[e].exec_cnt = mem[e].exec_cnt + 1 /\ \A d \in DOMAIN mem \ {c, e} : entry'[d] = mem[d]
        BY <3>1, <3>3, <3>4, Zenon DEF CountedIn, Entry
      <3>6. /\ \A j \in Keys \ {k} : c_hash[j] # NoCell => c_hash[j] \in DOMAIN mem \ {c, e}
            /\ \A j \in Keys : p_hash[j] # NoCell => p_hash[j] \in DOMAIN mem \ {c, e}
        BY <1>1, <2>2 DEF Owned, TableSound, TablesApart, Valid, Apart
      <3> QED BY <2>2, <3>1, <3>2, <3>5, <3>6, Zenon
    <2> QED BY <2>1, <2>2, Zenon
  <1>3. ReportSound' /\ Unwritten' = Unwritten
    BY Zenon DEF IInv, ReportSound, Unwritten, InTable, reporter
  <1>4. done' = [done EXCEPT ![k] = done[k] + 1]
    BY Zenon DEF query_statistics_set
  <1>5. TypeOK'
    BY <1>2, <1>4, <1>1 DEF IInv, TypeOK, Owned, reporter
  <1>6. \A j \in Unwritten : j \in Keys /\ p_hash[j] # NoCell /\ entry[p_hash[j]].exec_cnt \in Nat
    BY PendingType, Zenon DEF IInv
  <1>7. \A j \in Keys : c_hash[j] # NoCell => entry[c_hash[j]].exec_cnt \in Nat
    BY PendingType, Zenon DEF IInv
  <1>8. Pending(k)' = Pending(k) + 1 /\ \A j \in Keys \ {k} : Pending(j)' = Pending(j)
    BY <1>1, <1>2, <1>3, <1>6, <1>7 DEF Pending
  <1>9. CountedOnce'
    <2> SUFFICES ASSUME NEW j \in Keys PROVE done'[j] = rows'[j] + Pending(j)' + lost'[j]
      BY Zenon DEF CountedOnce
    <2>1. done[j] = rows[j] + Pending(j) + lost[j] /\ rows' = rows /\ lost' = lost
      BY Zenon DEF IInv, CountedOnce, reporter
    <2>2. Pending(j) \in Nat /\ rows[j] \in Nat /\ lost[j] \in Nat /\ done[j] \in Nat
      BY PendingType, Zenon DEF IInv, TypeOK
    <2>3. done'[j] = (IF j = k THEN done[j] + 1 ELSE done[j])
      BY <1>4, Zenon DEF IInv, TypeOK
    <2> QED BY <1>8, <2>1, <2>2, <2>3
  <1> QED BY <1>2, <1>3, <1>5, <1>9, Zenon DEF IInv

(* A step that leaves the tables, the report and what the entries of the      *)
(* tables hold alone counts nothing.                                          *)
LEMMA SameCounts ==
    ASSUME IInv, TypeOK', Owned(entry', query_stats', c_hash', p_hash'),
           \A k \in Keys : /\ c_hash[k] # NoCell => entry'[c_hash[k]] = entry[c_hash[k]]
                           /\ p_hash[k] # NoCell => entry'[p_hash[k]] = entry[p_hash[k]],
           UNCHANGED <<c_hash, p_hash, reporter, done, lost>>
    PROVE  IInv'
  <1>1. ReportSound' /\ Unwritten' = Unwritten
    BY Zenon DEF IInv, ReportSound, Unwritten, InTable, reporter
  <1>2. \A k \in Unwritten : k \in Keys /\ p_hash[k] # NoCell
    BY PendingType, Zenon DEF IInv
  <1>3. \A k \in Keys : Pending(k)' = Pending(k)
    BY <1>1, <1>2, Zenon DEF Pending
  <1> QED BY <1>1, <1>3, Zenon DEF IInv, CountedOnce, reporter

LEMMA ClientQueryInv == ASSUME IInv, NEW s \in Sessions, NEW q \in Queries, ClientQuery(s, q) PROVE IInv'
  <1>1. PICK c \in Cells \ Allocated(Fresh(entry, s)), m \in Servers \cup {NoServer} :
           LET mem == Put(Fresh(entry, s), c, [query |-> q, server |-> m, exec_cnt |-> 0])
           IN  \/ /\ m = NoServer
                  /\ phase' = [phase EXCEPT ![s] = "idle"]
                  /\ query_statistics_set(s, mem, c)
               \/ /\ m = NoServer
                  /\ phase' = [phase EXCEPT ![s] = "queued"]
                  /\ Uncounted(s, mem, c)
               \/ /\ m # NoServer
                  /\ phase' = [phase EXCEPT ![s] = "asked"]
                  /\ Uncounted(s, mem, c)
    BY Zenon DEF ClientQuery
  <1> DEFINE fresh == Fresh(entry, s)
             e == [query |-> q, server |-> m, exec_cnt |-> 0]
             mem == Put(fresh, c, e)
             qs0 == [query_stats EXCEPT ![s] = NoCell]
             qs == [query_stats EXCEPT ![s] = c]
  <1>2. Owned(fresh, qs0, c_hash, p_hash)
    BY ReleaseOwned, Zenon DEF IInv, Fresh
  <1>3. e \in Entry /\ c \in Cells /\ c \notin DOMAIN fresh
    BY Zenon DEF Entry, Allocated
  <1>4. query_stats \in [Sessions -> Pointer]
    BY Zenon DEF IInv, TypeOK
  <1>5. Owned(mem, qs, c_hash, p_hash)
    <2> HIDE DEF fresh, e
    <2>1. qs0[s] = NoCell /\ [qs0 EXCEPT ![s] = c] = qs
      BY <1>4, Zenon
    <2>2. Owned(Put(fresh, c, e), [qs0 EXCEPT ![s] = c], c_hash, p_hash)
      BY <1>2, <1>3, <2>1, TakeOwned, Zenon
    <2> QED BY <2>1, <2>2, Zenon
  <1>6. \A k \in Keys : /\ c_hash[k] # NoCell => mem[c_hash[k]] = entry[c_hash[k]]
                        /\ p_hash[k] # NoCell => mem[p_hash[k]] = entry[p_hash[k]]
    <2>1. \A d \in DOMAIN fresh : mem[d] = entry[d] /\ d \in DOMAIN fresh
      <3>1. \A d \in DOMAIN fresh : fresh[d] = entry[d]
        BY Zenon DEF Fresh, Freed, Allocated
      <3>2. \A d \in DOMAIN fresh : mem[d] = fresh[d]
        BY <1>3, Zenon DEF Put, Allocated
      <3> QED BY <3>1, <3>2, Zenon
    <2>2. \A k \in Keys : /\ c_hash[k] # NoCell => c_hash[k] \in DOMAIN fresh
                          /\ p_hash[k] # NoCell => p_hash[k] \in DOMAIN fresh
      BY <1>2, Zenon DEF Owned, TableSound, Valid
    <2> QED BY <2>1, <2>2, Zenon
  <1> HIDE DEF mem
  <1>7. UNCHANGED <<p_hash, reporter, up, lost>>
    BY Zenon DEF ClientQuery
  <1>8. phase \in [Sessions -> {"idle", "queued", "asked"}]
    BY Zenon DEF IInv, TypeOK
  <1>9. CASE phase' = [phase EXCEPT ![s] = "idle"] /\ query_statistics_set(s, mem, c)
    <2>1. phase' \in [Sessions -> {"idle", "queued", "asked"}]
      BY <1>8, <1>9, Zenon
    <2> QED BY <1>3, <1>5, <1>6, <1>7, <1>9, <2>1, SetCounts, Zenon
  <1>10. CASE phase' \in {[phase EXCEPT ![s] = "queued"], [phase EXCEPT ![s] = "asked"]}
              /\ Uncounted(s, mem, c)
    <2>1. phase' \in [Sessions -> {"idle", "queued", "asked"}]
      BY <1>8, <1>10, Zenon
    <2>2. entry' = mem /\ query_stats' = qs /\ UNCHANGED <<c_hash, done>>
      BY <1>10, Zenon DEF Uncounted
    <2>3. TypeOK'
      BY <1>5, <1>7, <2>1, <2>2, Zenon DEF IInv, TypeOK, Owned, reporter
    <2> QED BY <1>5, <1>6, <1>7, <2>2, <2>3, SameCounts, Zenon
  <1> QED BY <1>1, <1>9, <1>10, Zenon DEF mem

LEMMA ServerResultInv ==
    ASSUME IInv, NEW s \in Sessions, NEW more \in BOOLEAN, ServerResult(s, more)
    PROVE  IInv'
  <1> DEFINE c == query_stats[s]
  <1>1. query_stats \in [Sessions -> Pointer] /\ c # NoCell /\ query_statistics_set(s, entry, c)
    BY Zenon DEF IInv, TypeOK, ServerResult
  <1>2. c \in Cells /\ [query_stats EXCEPT ![s] = c] = query_stats
    BY <1>1, Zenon DEF Pointer
  <1>3. phase' \in [Sessions -> {"idle", "queued", "asked"}] /\ UNCHANGED <<p_hash, reporter, up, lost>>
    BY Zenon DEF IInv, TypeOK, ServerResult
  <1>4. Owned(entry, [query_stats EXCEPT ![s] = c], c_hash, p_hash)
    BY <1>2, Zenon DEF IInv
  <1> QED BY <1>1, <1>2, <1>3, <1>4, SetCounts, Zenon

LEMMA SessCloseInv == ASSUME IInv, NEW s \in Sessions, SessClose(s) PROVE IInv'
  <1>1. Owned(entry', query_stats', c_hash', p_hash')
    BY ReleaseOwned, Zenon DEF IInv, SessClose, Fresh
  <1>2. TypeOK'
    BY <1>1, Zenon DEF IInv, TypeOK, Owned, SessClose, reporter
  <1>3. \A d \in DOMAIN entry' : entry'[d] = entry[d]
    BY Zenon DEF SessClose, Fresh, Freed, Allocated
  <1>4. \A k \in Keys : /\ c_hash[k] # NoCell => entry'[c_hash[k]] = entry[c_hash[k]]
                        /\ p_hash[k] # NoCell => entry'[p_hash[k]] = entry[p_hash[k]]
    BY <1>1, <1>3, Zenon DEF Owned, TableSound, Valid, SessClose
  <1> QED BY <1>1, <1>2, <1>4, SameCounts, Zenon DEF SessClose

-----------------------------------------------------------------------------
(* The exchange moves the counts of c_hash to p_hash, which was empty, ...    *)
LEMMA ExchangeInv == ASSUME IInv, Exchange PROVE IInv'
  <1>1. /\ p_hash' = c_hash /\ c_hash' = p_hash /\ p_hash = NoEntries
        /\ report = "sleeping" /\ report' = "listing"
        /\ UNCHANGED <<sessions, entry, keysList, rows, up, done, lost>>
    BY Zenon DEF Exchange, Exchanged, IInv, ReportSound
  <1>2. TypeOK'
    BY <1>1, Zenon DEF IInv, TypeOK, sessions
  <1>3. Owned(entry', query_stats', c_hash', p_hash')
    BY <1>1 DEF IInv, Owned, TablesApart, SessionsSound, NoLeak, Apart, sessions
  <1>4. \A k \in Keys : Pending(k)' = Pending(k)
    <2>1. Unwritten = {} /\ Unwritten' = {k \in Keys : c_hash[k] # NoCell}
      BY <1>1, Zenon DEF Unwritten, InTable
    <2>2. \A k \in Keys : c_hash'[k] = NoCell
      BY <1>1, Zenon DEF NoEntries
    <2>3. \A k \in Keys : c_hash[k] # NoCell => entry[c_hash[k]].exec_cnt \in Nat
      BY PendingType, Zenon DEF IInv
    <2> QED BY <1>1, <2>1, <2>2, <2>3 DEF Pending
  <1>5. ReportSound'
    BY <1>1, Zenon DEF ReportSound
  <1> QED BY <1>1, <1>2, <1>3, <1>4, <1>5, Zenon DEF IInv, CountedOnce

(* ... and so does the listing of its keys leave them all to be written.      *)
LEMMA GetKeysInv == ASSUME IInv, GetKeys PROVE IInv'
  <1>1. /\ report = "listing" /\ report' = "writing" /\ keysList' = InTable(p_hash)
        /\ UNCHANGED <<sessions, entry, c_hash, p_hash, rows, up, done, lost>>
    BY Zenon DEF GetKeys
  <1>2. TypeOK'
    BY <1>1, Zenon DEF IInv, TypeOK, sessions, InTable
  <1>3. Owned(entry', query_stats', c_hash', p_hash')
    BY <1>1, Zenon DEF IInv, sessions
  <1>4. ReportSound' /\ Unwritten' = Unwritten
    BY <1>1, Zenon DEF ReportSound, Unwritten, InTable
  <1>5. \A k \in Keys : Pending(k)' = Pending(k)
    BY <1>1, <1>4, Zenon DEF Pending
  <1> QED BY <1>1, <1>2, <1>3, <1>4, <1>5, Zenon DEF IInv, CountedOnce

(* Each row that is written takes what is pending for its key in p_hash.      *)
LEMMA FlushInv == ASSUME IInv, NEW k \in Keys, FlushQueryStats(k) PROVE IInv'
  <1> DEFINE n == entry[p_hash[k]].exec_cnt
  <1>1. /\ report = "writing" /\ report' = report /\ k \in keysList /\ keysList' = keysList \ {k}
        /\ rows' = [rows EXCEPT ![k] = rows[k] + n]
        /\ UNCHANGED <<sessions, entry, c_hash, p_hash, up, done, lost>>
    BY Zenon DEF FlushQueryStats
  <1>2. /\ \A j \in Unwritten : j \in Keys /\ p_hash[j] # NoCell /\ entry[p_hash[j]].exec_cnt \in Nat
        /\ \A j \in Keys : c_hash[j] # NoCell => entry[c_hash[j]].exec_cnt \in Nat
        /\ \A j \in Keys : Pending(j) \in Nat
    BY PendingType, Zenon DEF IInv
  <1>3. k \in Unwritten /\ Unwritten' = Unwritten \ {k} /\ n \in Nat
    BY <1>1, <1>2, Zenon DEF Unwritten
  <1>4. TypeOK'
    BY <1>1, <1>3 DEF IInv, TypeOK, sessions
  <1>5. Owned(entry', query_stats', c_hash', p_hash') /\ ReportSound'
    BY <1>1, Zenon DEF IInv, sessions, ReportSound
  <1>6. Pending(k) = Pending(k)' + n /\ Pending(k)' \in Nat
        /\ \A j \in Keys \ {k} : Pending(j)' = Pending(j)
    BY <1>1, <1>2, <1>3 DEF Pending
  <1>7. CountedOnce'
    <2> SUFFICES ASSUME NEW j \in Keys PROVE done'[j] = rows'[j] + Pending(j)' + lost'[j]
      BY Zenon DEF CountedOnce
    <2>1. done[j] = rows[j] + Pending(j) + lost[j] /\ done' = done /\ lost' = lost
      BY <1>1, Zenon DEF IInv, CountedOnce
    <2>2. rows[j] \in Nat /\ lost[j] \in Nat /\ done[j] \in Nat /\ Pending(j) \in Nat
      BY <1>2, Zenon DEF IInv, TypeOK
    <2>3. rows'[j] = (IF j = k THEN rows[j] + n ELSE rows[j])
      BY <1>1, Zenon DEF IInv, TypeOK
    <2> QED BY <1>3, <1>6, <2>1, <2>2, <2>3
  <1> QED BY <1>4, <1>5, <1>7, Zenon DEF IInv

(* p_hash is emptied when nothing of it is left to be written.                *)
LEMMA RemoveAllInv == ASSUME IInv, RemoveAll PROVE IInv'
  <1> DEFINE C == {p_hash[k] : k \in InTable(p_hash)}
  <1>1. /\ report = "writing" /\ report' = "sleeping" /\ keysList = {}
        /\ entry' = Freed(entry, C) /\ p_hash' = NoEntries
        /\ UNCHANGED <<sessions, c_hash, keysList, rows, up, done, lost>>
    BY Zenon DEF RemoveAll
  <1>2. /\ entry' \in Memory /\ DOMAIN entry' = DOMAIN entry \ C
        /\ \A d \in DOMAIN entry \ C : entry'[d] = entry[d]
    <2>1. entry \in Memory
      BY Zenon DEF IInv, TypeOK
    <2> HIDE DEF C
    <2> QED BY <1>1, <2>1, FreedMemory, Zenon
  <1>3. \A c : c \in C <=> \E k \in Keys : p_hash[k] # NoCell /\ p_hash[k] = c
    BY Zenon DEF InTable
  <1> HIDE DEF C
  <1>4. p_hash' \in [Keys -> Pointer] /\ \A k \in Keys : p_hash'[k] = NoCell
    BY <1>1, Zenon DEF NoEntries, Pointer
  <1>5. TypeOK'
    BY <1>1, <1>2, <1>4, Zenon DEF IInv, TypeOK, sessions
  <1>6. \A k \in Keys : c_hash[k] # NoCell => c_hash[k] \in DOMAIN entry \ C
    BY <1>3 DEF IInv, Owned, TableSound, TablesApart, Valid, Apart
  <1>7. \A s \in Sessions : query_stats[s] # NoCell => query_stats[s] \in DOMAIN entry \ C
    BY <1>3, Zenon DEF IInv, Owned, SessionsSound, Valid, Apart
  <1>8. Owned(entry', query_stats', c_hash', p_hash')
    <2>1. TableSound(entry', c_hash') /\ TableSound(entry', p_hash') /\ TablesApart(c_hash', p_hash')
      BY <1>1, <1>2, <1>4, <1>6, Zenon DEF IInv, Owned, TableSound, TablesApart, Valid, Apart
    <2>2. SessionsSound(entry', query_stats', c_hash', p_hash')
      BY <1>1, <1>2, <1>4, <1>7, Zenon DEF IInv, Owned, SessionsSound, Valid, Apart, sessions
    <2>3. NoLeak(entry', query_stats', c_hash', p_hash')
      <3>1. NoCell \notin DOMAIN entry
        BY MemoryType, QueryStatsAssumption, Zenon DEF IInv, TypeOK
      <3> QED BY <1>1, <1>2, <1>3, <3>1 DEF IInv, Owned, NoLeak, sessions
    <2> QED BY <1>5, <2>1, <2>2, <2>3, Zenon DEF Owned, TypeOK
  <1>9. ReportSound' /\ Unwritten' = {} /\ Unwritten = {}
    BY <1>1, Zenon DEF ReportSound, Unwritten
  <1>10. \A k \in Keys : Pending(k)' = Pending(k)
    BY <1>1, <1>2, <1>6, <1>9, Zenon DEF Pending
  <1> QED BY <1>1, <1>5, <1>8, <1>9, <1>10, Zenon DEF IInv, CountedOnce

-----------------------------------------------------------------------------
(* A process that begins owns nothing; what the last one had pending is lost. *)
LEMMA NothingOwned ==
    ASSUME NEW mem, NEW qs, NEW ch, NEW ph, mem = [c \in {} |-> {}],
           qs = [s \in Sessions |-> NoCell], ch = NoEntries, ph = NoEntries
    PROVE  Owned(mem, qs, ch, ph)
  <1>1. mem \in Memory
    BY MemoryType, Zenon
  <1> QED BY <1>1, Zenon DEF Owned, TableSound, TablesApart, SessionsSound, NoLeak, Valid, Apart, NoEntries, Pointer

LEMMA InitInv == ASSUME Init PROVE IInv
  <1>1. Owned(entry, query_stats, c_hash, p_hash)
    BY NothingOwned, Zenon DEF Init
  <1>2. TypeOK
    BY <1>1, Zenon DEF Init, TypeOK, Owned
  <1>3. ReportSound /\ Unwritten = {}
    BY Zenon DEF Init, ReportSound, Unwritten
  <1>4. CountedOnce
    BY <1>3 DEF CountedOnce, Pending, Init, NoEntries
  <1> QED BY <1>1, <1>2, <1>3, <1>4, Zenon DEF IInv

LEMMA DiesInv == ASSUME IInv, Dies PROVE IInv'
  <1>1. Owned(entry', query_stats', c_hash', p_hash')
    BY NothingOwned, Zenon DEF Dies
  <1>2. \A k \in Keys : Pending(k) \in Nat
    BY PendingType, Zenon DEF IInv
  <1>3. lost' = [k \in Keys |-> lost[k] + Pending(k)] /\ UNCHANGED <<rows, done>>
    BY Zenon DEF Dies
  <1>4. \A k \in Keys : lost[k] \in Nat /\ rows[k] \in Nat /\ done[k] \in Nat
    BY Zenon DEF IInv, TypeOK
  <1>5. lost' \in [Keys -> Nat] /\ \A k \in Keys : lost'[k] = lost[k] + Pending(k)
    BY <1>2, <1>3, <1>4
  <1>6. TypeOK'
    BY <1>1, <1>5, Zenon DEF IInv, TypeOK, Owned, Dies
  <1>7. ReportSound' /\ Unwritten' = {}
    BY Zenon DEF Dies, ReportSound, Unwritten
  <1>8. \A k \in Keys : Pending(k)' = 0
    BY <1>7 DEF Pending, Dies, NoEntries
  <1>9. CountedOnce'
    BY <1>2, <1>3, <1>4, <1>5, <1>8 DEF IInv, CountedOnce
  <1> QED BY <1>1, <1>6, <1>7, <1>9, Zenon DEF IInv

LEMMA SameInv ==
    ASSUME IInv, up' \in BOOLEAN, UNCHANGED <<sessions, entry, c_hash, p_hash, reporter, done, lost>>
    PROVE  IInv'
  <1>1. TypeOK' /\ Owned(entry', query_stats', c_hash', p_hash')
    BY Zenon DEF IInv, TypeOK, sessions, reporter
  <1> QED BY <1>1, SameCounts, Zenon

(* IInv is an invariant: it holds initially, every action and every          *)
(* stuttering step keeps it.                                                  *)
THEOREM StatsInductive == Spec => []IInv
  <1>1. ASSUME IInv, [Next]_vars PROVE IInv'
    <2>1. CASE \E s \in Sessions, q \in Queries : ClientQuery(s, q)
      BY <1>1, <2>1, ClientQueryInv, Zenon
    <2>2. CASE \E s \in Sessions, more \in BOOLEAN : ServerResult(s, more)
      BY <1>1, <2>2, ServerResultInv, Zenon
    <2>3. CASE \E s \in Sessions : SecondResult(s)
      BY <1>1, <2>3, DiesInv, Zenon DEF SecondResult
    <2>4. CASE \E s \in Sessions : SessClose(s)
      BY <1>1, <2>4, SessCloseInv, Zenon
    <2>5. CASE Report
      BY <1>1, <2>5, ExchangeInv, GetKeysInv, FlushInv, RemoveAllInv, Zenon DEF Report
    <2>6. CASE Killed
      BY <1>1, <2>6, DiesInv, Zenon DEF Killed
    <2>7. CASE Restart
      BY <1>1, <2>7, SameInv, Zenon DEF Restart
    <2>8. CASE UNCHANGED vars
      BY <1>1, <2>8, SameInv, Zenon DEF vars, IInv, TypeOK
    <2> QED BY <1>1, <2>1, <2>2, <2>3, <2>4, <2>5, <2>6, <2>7, <2>8, Zenon DEF Next
  <1> QED BY InitInv, <1>1, PTL DEF Spec

(* Type correctness; in particular the report thread never follows a NULL     *)
(* pointer to an entry.                                                       *)
THEOREM StatsTypeCorrect == Spec => []TypeOK
  <1>1. IInv => TypeOK
    BY Zenon DEF IInv
  <1> QED BY StatsInductive, <1>1, PTL

(* Every result is in a row, on its way there or lost with a process, once,   *)
(* whatever the sessions, the report and crashes do.                          *)
THEOREM ResultsCountedOnce == Spec => []CountedOnce
  <1>1. IInv => CountedOnce
    BY Zenon DEF IInv
  <1> QED BY StatsInductive, <1>1, PTL

(* Pointers of the places P fill the cells T, no two of them the same one: as *)
(* many places as cells.                                                      *)
Fill(f, P, T) ==
    /\ T \subseteq Cells
    /\ \A x \in P : f[x] \in T
    /\ \A c \in T : \E x \in P : f[x] = c
    /\ \A x, y \in P : f[x] = f[y] => x = y

LEMMA CountPlaces ==
    ASSUME NEW f, NEW P, NEW T, Fill(f, P, T)
    PROVE  IsFiniteSet(T) /\ Cardinality(P) = Cardinality(T) /\ Cardinality(T) \in Nat
  <1> DEFINE g == [x \in P |-> f[x]]
  <1>1. IsFiniteSet(T)
    BY FS_Subset, QueryStatsAssumption, Zenon DEF Fill
  <1>2. g \in Injection(P, T) /\ g \in Surjection(P, T)
    BY Zenon DEF Fill, Injection, Surjection, IsInjective
  <1> HIDE DEF g
  <1>3. Cardinality(P) = Cardinality(T)
    BY <1>1, <1>2, FS_Injection, Zenon
  <1> QED BY <1>1, <1>3, FS_CardinalityType, Zenon

(* Every entry has one owner, and none is leaked.                             *)
THEOREM EveryEntryOwnedOnce == Spec => []EntriesOwnedOnce
  <1>1. ASSUME IInv PROVE EntriesOwnedOnce
    <2> DEFINE held == {s \in Sessions : query_stats[s] # NoCell}
               in(h) == {h[k] : k \in InTable(h)}
               H == {query_stats[s] : s \in held}
               C == in(c_hash)
               P == in(p_hash)
    <2>1. \A x : /\ x \in H <=> \E s \in Sessions : query_stats[s] # NoCell /\ query_stats[s] = x
                 /\ x \in C <=> \E k \in Keys : c_hash[k] # NoCell /\ c_hash[k] = x
                 /\ x \in P <=> \E k \in Keys : p_hash[k] # NoCell /\ p_hash[k] = x
      BY Zenon DEF InTable
    <2>2. Fill(query_stats, held, H)
      BY <1>1, Zenon DEF Fill, IInv, Owned, SessionsSound, Pointer, Apart
    <2>3. ASSUME NEW h, h \in {c_hash, p_hash}
          PROVE  Fill(h, InTable(h), in(h)) /\ \A k \in InTable(h) : Key(entry[h[k]]) = k
      BY <1>1, <2>3 DEF Fill, IInv, Owned, TableSound, Pointer, InTable
    <2>4. IsFiniteSet(H) /\ Cardinality(held) = Cardinality(H) /\ Cardinality(H) \in Nat
      BY <2>2, CountPlaces, Zenon
    <2>5. IsFiniteSet(C) /\ Cardinality(InTable(c_hash)) = Cardinality(C) /\ Cardinality(C) \in Nat
      BY <2>3, CountPlaces, Zenon
    <2>6. IsFiniteSet(P) /\ Cardinality(InTable(p_hash)) = Cardinality(P) /\ Cardinality(P) \in Nat
      BY <2>3, CountPlaces, Zenon
    <2> HIDE DEF H, C, P, held, in
    <2>7. DOMAIN entry = H \cup C \cup P
      <3>1. NoCell \notin DOMAIN entry
        BY <1>1, MemoryType, QueryStatsAssumption, Zenon DEF IInv, TypeOK
      <3>2. \A x \in DOMAIN entry : x \in H \cup C \cup P
        BY <1>1, <2>1, <3>1, Zenon DEF IInv, Owned, NoLeak
      <3>3. \A x \in H \cup C \cup P : x \in DOMAIN entry
        BY <1>1, <2>1 DEF IInv, Owned, SessionsSound, TableSound, Valid
      <3> QED BY <3>2, <3>3, Zenon
    <2>8. H \cap C = {} /\ (H \cup C) \cap P = {}
      BY <1>1, <2>1 DEF IInv, Owned, SessionsSound, TablesApart, Apart
    <2>9. Cardinality(H \cap C) = 0 /\ Cardinality((H \cup C) \cap P) = 0
      BY <2>8, FS_EmptySet, Zenon
    <2>10. IsFiniteSet(H \cup C) /\ Cardinality(H \cup C) = Cardinality(H) + Cardinality(C)
      <3>1. IsFiniteSet(H \cup C)
            /\ Cardinality(H \cup C) = Cardinality(H) + Cardinality(C) - Cardinality(H \cap C)
        BY <2>4, <2>5, FS_Union, Zenon
      <3> QED BY <2>4, <2>5, <2>9, <3>1
    <2>11. Cardinality(H \cup C \cup P) = Cardinality(H) + Cardinality(C) + Cardinality(P)
      <3>1. Cardinality((H \cup C) \cup P)
              = Cardinality(H \cup C) + Cardinality(P) - Cardinality((H \cup C) \cap P)
        BY <2>6, <2>10, FS_Union, Zenon
      <3> QED BY <2>4, <2>5, <2>6, <2>9, <2>10, <3>1
    <2> QED BY <2>3, <2>4, <2>5, <2>6, <2>7, <2>11, Zenon DEF EntriesOwnedOnce, Allocated, H, C, P, held, in
  <1> QED BY StatsInductive, <1>1, PTL
=============================================================================
