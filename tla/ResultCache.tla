---------------------------- MODULE ResultCache ----------------------------
(***************************************************************************)
(* What the query cache promises its callers, without entries, arrays,     *)
(* reference counts or locks: a get returns nothing, or the very result    *)
(* that was stored for its key when it looked the key up.  Results may     *)
(* disappear at any time.                                                  *)
(***************************************************************************)
CONSTANTS Threads, Keys, Values, Miss, NoKey

VARIABLES
    store,     \* the result stored for a key, or Miss
    pending    \* per thread, the get in progress

vars == <<store, pending>>

NoCall == [key |-> NoKey, value |-> Miss, result |-> Miss]

Init ==
    /\ store = [k \in Keys |-> Miss]
    /\ pending = [t \in Threads |-> NoCall]

Put(k, v) ==
    /\ store' = [store EXCEPT ![k] = v]
    /\ UNCHANGED pending

Evict(K) ==
    /\ store' = [k \in Keys |-> IF k \in K THEN Miss ELSE store[k]]
    /\ UNCHANGED pending

LookUp(t, k) ==
    /\ pending[t] = NoCall
    /\ store[k] # Miss
    /\ pending' = [pending EXCEPT
                     ![t] = [key |-> k, value |-> store[k], result |-> Miss]]
    /\ UNCHANGED store

Fetch(t) ==
    /\ pending[t] # NoCall
    /\ pending' = [pending EXCEPT ![t].result = pending[t].value]
    /\ UNCHANGED store

Return(t) ==
    /\ pending[t] # NoCall
    /\ pending' = [pending EXCEPT ![t] = NoCall]
    /\ UNCHANGED store

Next ==
    \/ \E k \in Keys, v \in Values : Put(k, v)
    \/ \E K \in SUBSET Keys : Evict(K)
    \/ \E t \in Threads : (\E k \in Keys : LookUp(t, k)) \/ Fetch(t) \/ Return(t)

Spec == Init /\ [][Next]_vars
=============================================================================
