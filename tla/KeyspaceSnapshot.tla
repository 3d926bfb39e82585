-------------------------- MODULE KeyspaceSnapshot --------------------------
(***************************************************************************)
(* Saving the keyspace and loading it back (Store::save, Store::load_native *)
(* in src/store.cpp).  A snapshot holds the keys, one section per type, and *)
(* after them the deadlines, in the order of a hash table.  Loading attaches*)
(* the deadlines one by one and drops the keys whose deadline has passed,   *)
(* which renumbers keys whose deadlines are still to come.                  *)
(***************************************************************************)
EXTENDS Keyspace, SequencesExt

\* The snapshots save may write: the keys of each type in the order of their ids, the types
\* in a fixed order, so any order of the keys; the deadlines in any order.
save(st) ==
  [keys : SetToSeqs({st.slot[i] : i \in 0 .. st.size - 1}),
   ttl : SetToSeqs({<<st.slot[i].key, st.due[i]>> : i \in {j \in Id : st.due[j] # NoExpiry}})]

place(st, slot) == set_string(st, slot.key, slot.value)

\* (mutant of attach) the key that slides into the dropped key's slot loses its deadline.
attach_sliding(st, key, expiry_ms, t) ==
  IF ~exists(st, key) THEN st
  ELSE IF expiry_ms <= t THEN erase_at(st, id_of(st, key))
  ELSE ttl_set(st, id_of(st, key), expiry_ms)
attach(st, key, expiry_ms, t) ==
  IF ~exists(st, key) THEN st
  ELSE IF expiry_ms <= t THEN erase_keyspace_at(st, id_of(st, key))
  ELSE ttl_set(st, id_of(st, key), expiry_ms)

load_native(snapshot, t) ==
  FoldLeft(LAMBDA st, e : attach(st, e[1], e[2], t),
           FoldLeft(place, clear, snapshot.keys), snapshot.ttl)

\* GOBLIN.LOAD of a file that has just been saved.
load_command ==
  \E snapshot \in save(store) : Run([load_native(snapshot, clock) EXCEPT !.signals = Key])

SnapshotSpec == Init /\ [][Next \/ load_command]_vars
-----------------------------------------------------------------------------
\* A load, however late, restores exactly the keys that were saved and whose deadline has
\* not passed, each with its value and its deadline, and leaves the indexes consistent,
\* whatever the order of the keys and the deadlines in the file (save, load_native).
LoadRestores ==
  \A snapshot \in save(store), t \in clock .. MaxTime :
    LET loaded == load_native(snapshot, t)
    IN  /\ Agree(loaded)
        /\ View(loaded) = [k \in Key |-> IF entry[k].expiry <= t THEN Absent ELSE entry[k]]
=============================================================================
