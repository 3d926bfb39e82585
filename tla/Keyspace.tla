------------------------------ MODULE Keyspace ------------------------------
(***************************************************************************)
(* The keyspace and its expiry set (include/goblin/core: store.hpp,        *)
(* keyspace_storage.hpp, ttl_set.hpp; src/store.cpp).  Keys live in a      *)
(* dense table; erasing one slides the last key into its place, so the id  *)
(* of a key changes behind its back, and three structures that name keys   *)
(* by id have to follow: the name index, and the two halves of TtlSet.     *)
(*                                                                         *)
(* A store is a record, an operation of the code a function on stores, and *)
(* a command of the server an action.                                      *)
(***************************************************************************)
EXTENDS Integers

CONSTANTS
  Key, Value,
  MaxTime,    \* the last deadline TtlSet can hold (2^48 - 1 in the code)
  MaxKeyId,   \* kMaxKeyId
  Budget      \* kActiveExpireBudget

ASSUME KeyspaceAssumption ==
  MaxTime \in Nat /\ MaxKeyId \in Nat /\ Budget \in Nat \ {0}

VARIABLES
  store,   \* the Store
  clock,   \* now_ms()
  now,     \* the argument of the running active_expire ...
  left     \* ... and what is left of its budget; 0 when none is running

vars == <<store, clock, now, left>>
-----------------------------------------------------------------------------
Id == 0 .. MaxKeyId
npos == -1
Time == 0 .. MaxTime
NoExpiry == MaxTime + 1
Slot == [key : Key, value : Value]

\* slot: the table of size keys; where: its name index; due and order: TtlSet's index_,
\* by id, and order_, a multiset; signals: the keys reported modified by the last step.
Init ==
  /\ store = [size |-> 0, slot |-> [i \in {} |-> {}], where |-> [k \in Key |-> npos],
              due |-> [i \in Id |-> NoExpiry], order |-> [e \in Time \X Id |-> 0],
              signals |-> {}]
  /\ clock = 0 /\ now = 0 /\ left = 0

TypeOK ==
  /\ store.size \in 0 .. MaxKeyId + 1
  /\ store.slot \in [0 .. store.size - 1 -> Slot]
  /\ store.where \in [Key -> Id \cup {npos}]
  /\ store.due \in [Id -> Time \cup {NoExpiry}]
  /\ store.order \in [Time \X Id -> Nat]
  /\ store.signals \subseteq Key
  /\ clock \in Time /\ now \in Time /\ left \in Nat
-----------------------------------------------------------------------------
(* TtlSet. *)

insert(order, e) == [order EXCEPT ![e] = @ + 1]
erase_one(order, e) == [order EXCEPT ![e] = IF @ = 0 THEN 0 ELSE @ - 1]

ttl_set(st, id, when) ==
  [st EXCEPT !.due[id] = when,
             !.order = IF st.due[id] = NoExpiry THEN insert(@, <<when, id>>)
                       ELSE erase_one(insert(@, <<when, id>>), <<st.due[id], id>>)]

ttl_clear(st, id) ==
  IF st.due[id] = NoExpiry THEN st
  ELSE [st EXCEPT !.due[id] = NoExpiry, !.order = erase_one(@, <<st.due[id], id>>)]

\* The key with id from now has id to.
rekey(st, from, to) ==
  IF st.due[from] = NoExpiry THEN st
  ELSE [st EXCEPT !.due = [@ EXCEPT ![from] = NoExpiry, ![to] = st.due[from]],
                  !.order = erase_one(insert(@, <<st.due[from], to>>), <<st.due[from], from>>)]
-----------------------------------------------------------------------------
(* Keyspace. *)

id_of(st, k) == st.where[k]
exists(st, k) == st.where[k] # npos
signal(st, k) == [st EXCEPT !.signals = @ \cup {k}]

\* Past the last id push_back_key throws.
Storable(st, k) == exists(st, k) \/ st.size <= MaxKeyId

create_key(st, k, v) ==
  [st EXCEPT !.size = @ + 1, !.where[k] = st.size,
             !.slot = [i \in 0 .. st.size |-> IF i = st.size THEN [key |-> k, value |-> v]
                                              ELSE @[i]]]

set_string(st, k, v) ==
  IF exists(st, k) THEN [st EXCEPT !.slot[id_of(st, k)].value = v] ELSE create_key(st, k, v)

\* The newest key, whose value could not be stored, goes again.
rollback_created_key(st) ==
  [st EXCEPT !.size = @ - 1, !.where[st.slot[st.size - 1].key] = npos,
             !.slot = [i \in 0 .. st.size - 2 |-> @[i]]]

\* Swap-remove: the last key slides into the hole.
erase_at(st, id) ==
  LET last == st.size - 1
  IN  [st EXCEPT !.size = last,
                 !.where = [[@ EXCEPT ![st.slot[last].key] = id] EXCEPT ![st.slot[id].key] = npos],
                 !.slot = [i \in 0 .. last - 1 |-> IF i = id THEN @[last] ELSE @[i]]]

rename_key(st, k, d) ==
  [st EXCEPT !.where = [@ EXCEPT ![k] = npos, ![d] = id_of(st, k)],
             !.slot[id_of(st, k)].key = d]
-----------------------------------------------------------------------------
(* Store. *)

\* (mutant of erase_keyspace_at) the observers are not told.
erase_silently(st, id) ==
  LET last == st.size - 1
  IN  IF id = last THEN erase_at(st, id) ELSE rekey(erase_at(st, id), last, id)
erase_keyspace_at(st, id) ==
  LET last == st.size - 1
      erased == erase_at(signal(st, st.slot[id].key), id)
  IN  IF id = last THEN erased ELSE rekey(erased, last, id)

erase_key(st, k) ==
  IF exists(st, k) THEN erase_keyspace_at(ttl_clear(st, id_of(st, k)), id_of(st, k)) ELSE st

purge_if_expired(st, k, t) ==
  IF exists(st, k) /\ st.due[id_of(st, k)] <= t THEN erase_key(st, k) ELSE st

set(st, k, v) ==
  LET assigned == set_string(st, k, v)
  IN  IF Storable(st, k) THEN signal(ttl_clear(assigned, id_of(assigned, k)), k) ELSE st

set_keep_ttl(st, k, v) ==
  IF Storable(st, k) THEN signal(set_string(st, k, v), k) ELSE st

\* Whether EXPIRE applies under its flags; no deadline counts as infinite.
Applies(current, when, flags) ==
  /\ "NX" \in flags => current = NoExpiry
  /\ "XX" \in flags => current # NoExpiry
  /\ "GT" \in flags => current # NoExpiry /\ when > current
  /\ "LT" \in flags => when < current

expire_at_ms(st, k, when, t, flags) ==
  IF ~exists(st, k) \/ ~Applies(st.due[id_of(st, k)], when, flags) THEN st
  ELSE IF when <= t THEN erase_key(st, k)
  ELSE signal(ttl_set(st, id_of(st, k), when), k)

persist(st, k) ==
  IF exists(st, k) /\ st.due[id_of(st, k)] # NoExpiry
  THEN signal(ttl_clear(st, id_of(st, k)), k) ELSE st

\* (mutant of rename) an expired source is not purged first.
rename_unpurged(st, k, d, nx, t) ==
  LET both == purge_if_expired(st, d, t)
  IN  IF ~exists(st, k) \/ k = d THEN st
      ELSE IF nx /\ exists(both, d) THEN both
      ELSE signal(signal(rename_key(erase_key(both, d), k, d), k), d)
rename(st, k, d, nx, t) ==
  LET source == purge_if_expired(st, k, t)
      both == purge_if_expired(source, d, t)
  IN  IF ~exists(source, k) \/ k = d THEN source
      ELSE IF nx /\ exists(both, d) THEN both
      ELSE signal(signal(rename_key(erase_key(both, d), k, d), k), d)

\* The source's id is looked up before the destination is purged, and its deadline after.
copy(st, k, d, replace, t) ==
  LET source == purge_if_expired(st, k, t)
      source_id == id_of(source, k)
      both == purge_if_expired(source, d, t)
      expiry == both.due[source_id]
      copied == set_string(erase_key(both, d), d, both.slot[id_of(both, k)].value)
  IN  IF k = d THEN st
      ELSE IF ~exists(source, k) THEN source
      ELSE IF (~replace /\ exists(both, d)) \/ ~Storable(both, d) THEN both
      ELSE IF expiry = NoExpiry THEN signal(copied, d)
      ELSE signal(ttl_set(copied, id_of(copied, d), expiry), d)

\* Store::clear.
clear ==
  [size |-> 0, slot |-> [i \in {} |-> {}], where |-> [k \in Key |-> npos],
   due |-> [i \in Id |-> NoExpiry], order |-> [e \in Time \X Id |-> 0], signals |-> Key]
-----------------------------------------------------------------------------
(* The commands.  Each purges its first key before it looks at it. *)

Start == [store EXCEPT !.signals = {}]
Run(st) == left = 0 /\ store' = st /\ UNCHANGED <<clock, now, left>>

Flags == {{}, {"NX"}, {"XX"}, {"GT"}, {"LT"}, {"XX", "GT"}, {"XX", "LT"}}

\* SET k v [NX | XX] [KEEPTTL | PXAT when].
set_command(k, v, nx, xx, keepttl, when) ==
  LET purged == purge_if_expired(Start, k, clock)
      condition_met == ~(nx /\ exists(purged, k)) /\ ~(xx /\ ~exists(purged, k))
      stored == IF keepttl THEN set_keep_ttl(purged, k, v) ELSE set(purged, k, v)
  IN  /\ ~(nx /\ xx) /\ ~(keepttl /\ when # NoExpiry)
      /\ Run(IF ~condition_met THEN purged
             ELSE IF when = NoExpiry \/ ~Storable(purged, k) THEN stored
             ELSE expire_at_ms(stored, k, when, clock, {}))

\* SET of a new key whose value cannot be allocated.
set_throws(k, v) ==
  LET purged == purge_if_expired(Start, k, clock)
  IN  /\ ~exists(purged, k) /\ Storable(purged, k)
      /\ Run(rollback_created_key(create_key(purged, k, v)))

get_command(k) == Run(purge_if_expired(Start, k, clock))
del_command(k) == Run(erase_key(purge_if_expired(Start, k, clock), k))
expire_command(k, when, flags) ==
  Run(expire_at_ms(purge_if_expired(Start, k, clock), k, when, clock, flags))
persist_command(k) == Run(persist(purge_if_expired(Start, k, clock), k))
rename_command(k, d, nx) == Run(rename(Start, k, d, nx, clock))

\* RENAME when the new name cannot be allocated: the old name is restored, but what was at
\* the destination has already been erased.
rename_throws(k, d) ==
  LET both == purge_if_expired(purge_if_expired(Start, k, clock), d, clock)
  IN  k # d /\ exists(both, k) /\ Run(erase_key(both, d))

copy_command(k, d, replace) == Run(copy(purge_if_expired(Start, k, clock), k, d, replace, clock))

\* GOBLIN.LOAD of a file that is damaged or does not fit.
load_fails == Run(clear)

\* active_expire(now_ms(), budget): without a limit from DBSIZE and RANDOMKEY, with Budget
\* from network_iteration.
active_expire(budget) ==
  /\ left = 0
  /\ left' = budget /\ now' = clock
  /\ store' = Start /\ UNCHANGED clock

dbsize == active_expire(MaxKeyId + 2)
network_iteration == (\E i \in Id : store.due[i] # NoExpiry) /\ active_expire(Budget)

\* One turn of expire_due's loop: the front of the order goes, unless it is not due.
Soonest == {e \in Time \X Id : /\ store.order[e] > 0
                             /\ \A f \in Time \X Id : store.order[f] > 0 =>
                                  e[1] < f[1] \/ (e[1] = f[1] /\ e[2] <= f[2])}

expire_due ==
  /\ left > 0 /\ UNCHANGED clock
  /\ \/ (\A e \in Soonest : e[1] > now) /\ left' = 0 /\ store' = Start
     \/ \E e \in Soonest :
          /\ e[1] <= now /\ left' = left - 1
          /\ store' = erase_keyspace_at([Start EXCEPT !.order = erase_one(@, e),
                                                      !.due[e[2]] = NoExpiry], e[2])
  /\ now' = IF left' = 0 THEN 0 ELSE now

tick == clock < MaxTime /\ clock' = clock + 1 /\ UNCHANGED <<store, now, left>>
-----------------------------------------------------------------------------
Next ==
  \/ \E k \in Key, v \in Value :
       \/ set_throws(k, v)
       \/ \E nx, xx, keepttl \in BOOLEAN, when \in Time \cup {NoExpiry} :
            set_command(k, v, nx, xx, keepttl, when)
  \/ \E k \in Key : get_command(k) \/ del_command(k) \/ persist_command(k)
  \/ \E k \in Key, when \in Time, flags \in Flags : expire_command(k, when, flags)
  \/ \E k, d \in Key, option \in BOOLEAN :
       rename_command(k, d, option) \/ rename_throws(k, d) \/ copy_command(k, d, option)
  \/ load_fails
  \/ dbsize \/ network_iteration \/ expire_due
  \/ tick

Spec == Init /\ [][Next]_vars
-----------------------------------------------------------------------------
(* Properties. *)

\* What a client sees of the keys, whatever their ids.
Absent == [value |-> "absent", expiry |-> NoExpiry]
View(st) == [k \in Key |->
               IF ~exists(st, k) THEN Absent
               ELSE [value |-> st.slot[id_of(st, k)].value, expiry |-> st.due[id_of(st, k)]]]
entry == View(store)

Map == INSTANCE ExpiringMap

\* The store is a map of keys to values and deadlines: however the swap-removes of
\* erase_at renumber the keys, every command and every turn of active_expire changes just
\* the keys it names or the ones that are due, and a value and a deadline stay with their
\* key (erase_at, rekey, expire_due).
MapSpec == Map!MapSpec

Agree(st) ==
  /\ \A k \in Key : exists(st, k) => id_of(st, k) < st.size /\ st.slot[id_of(st, k)].key = k
  /\ \A i \in 0 .. st.size - 1 : id_of(st, st.slot[i].key) = i
  /\ \A i \in Id : st.due[i] # NoExpiry => i < st.size
  /\ \A e \in Time \X Id : st.order[e] = IF st.due[e[2]] = e[1] THEN 1 ELSE 0

\* Every key is in one slot and its name leads there, and TtlSet's two halves hold the same
\* deadlines, all of them of live keys, each once (erase_at, rollback_created_key, TtlSet).
IndexesAgree == Agree(store)

\* No key changes without the mutation observer being told its name: WATCH and the blocked
\* list commands see a key only through signal_key_modified.
NothingSilent == [][\A k \in Key : entry[k] # entry'[k] => k \in store'.signals]_vars

\* A sweep that stops before its budget is used leaves no key due at the time it was called
\* with; DBSIZE's, whose budget is not limited, always does (expire_due).
DueDrained ==
  [][left > 0 /\ left' = 0 /\ (left > 1 \/ entry = entry') =>
       \A k \in Key : entry'[k].expiry > now]_vars

\* COPY gives the destination the source's deadline.
CopyKeepsExpiry ==
  \A k, d \in Key, replace \in BOOLEAN :
    LET copied == copy(Start, k, d, replace, clock)
    IN  left = 0 /\ k # d /\ d \in copied.signals /\ exists(copied, d) =>
          copied.due[id_of(copied, d)] = copied.due[id_of(copied, k)]
=============================================================================
