--------------------------- MODULE KeyspaceProofs ---------------------------
(***************************************************************************)
(* Proofs about Keyspace: however erasing renumbers the keys, the table,   *)
(* its name index and the two halves of TtlSet agree, and a client sees a  *)
(* map of keys to values and deadlines.  An operation is first a lemma     *)
(* about stores: it keeps them Good, changes what is seen (V) of the keys  *)
(* it names, and leaves all others the Same.                               *)
(***************************************************************************)
EXTENDS Keyspace, WellFoundedInduction, TLAPS

Table == UNION {[0 .. n - 1 -> Slot] : n \in Nat}
Due == [Id -> Time \cup {NoExpiry}]
Order == [Time \X Id -> Nat]
Store == [size : 0 .. MaxKeyId + 1, slot : Table, where : [Key -> Id \cup {npos}],
          due : Due, order : Order, signals : SUBSET Key]

\* Names and slots lead to each other.
Named(size, slot, where) ==
  /\ size \in 0 .. MaxKeyId + 1
  /\ slot \in [0 .. size - 1 -> Slot]
  /\ where \in [Key -> Id \cup {npos}]
  /\ \A k \in Key : where[k] # npos => where[k] < size /\ slot[where[k]].key = k
  /\ \A i \in 0 .. size - 1 : where[slot[i].key] = i

\* The order holds each deadline of the index once.
Mirrors(due, order) ==
  /\ due \in Due /\ order \in Order
  /\ \A t \in Time, i \in Id : order[<<t, i>>] = IF due[i] = t THEN 1 ELSE 0

\* Only live ids have deadlines.
Live(due, size) == \A i \in Id : due[i] # NoExpiry => i < size

Good(st) ==
  /\ st \in Store
  /\ Named(st.size, st.slot, st.where)
  /\ Mirrors(st.due, st.order)
  /\ Live(st.due, st.size)

\* What the operations leave of a store is a store again.
LEMMA Constants == /\ MaxTime \in Nat /\ MaxKeyId \in Nat /\ Budget \in Nat /\ Budget # 0
                   /\ NoExpiry \in Nat /\ NoExpiry \notin Time /\ npos \notin Id
                   /\ \A i \in Id : i \in Nat
                   /\ \A t \in Time : t \in Nat
  BY KeyspaceAssumption DEF NoExpiry, Time, Id, npos

\* A table of some length.
LEMMA TableType ==
  ASSUME NEW n \in Nat, NEW f \in [0 .. n - 1 -> Slot]
  PROVE  f \in Table
  BY DEF Table
-----------------------------------------------------------------------------
(* TtlSet. *)

\* Adding a deadline that is not there (TtlSet::set).
LEMMA InsertMirrors ==
  ASSUME NEW due, NEW order, Mirrors(due, order), NEW id \in Id, NEW when \in Time,
         due[id] = NoExpiry
  PROVE  Mirrors([due EXCEPT ![id] = when], insert(order, <<when, id>>))
  BY Constants DEF Mirrors, insert, Due, Order

\* Dropping a deadline that is there (TtlSet::clear, and the front of expire_due's loop).
LEMMA EraseMirrors ==
  ASSUME NEW due, NEW order, Mirrors(due, order), NEW id \in Id, due[id] # NoExpiry
  PROVE  Mirrors([due EXCEPT ![id] = NoExpiry], erase_one(order, <<due[id], id>>))
  BY Constants DEF Mirrors, erase_one, Due, Order

\* Moving a deadline, when the new one may equal the old one (TtlSet::set).
LEMMA ReplaceMirrors ==
  ASSUME NEW due, NEW order, Mirrors(due, order), NEW id \in Id, NEW when \in Time,
         due[id] # NoExpiry
  PROVE  Mirrors([due EXCEPT ![id] = when],
                 erase_one(insert(order, <<when, id>>), <<due[id], id>>))
  BY Constants DEF Mirrors, erase_one, insert, Due, Order

\* Giving a deadline to another id (TtlSet::rekey).
LEMMA MoveMirrors ==
  ASSUME NEW due, NEW order, Mirrors(due, order), NEW from \in Id, NEW to \in Id,
         from # to, due[from] # NoExpiry, due[to] = NoExpiry
  PROVE  Mirrors([due EXCEPT ![from] = NoExpiry, ![to] = due[from]],
                 erase_one(insert(order, <<due[from], to>>), <<due[from], from>>))
  BY Constants DEF Mirrors, erase_one, insert, Due, Order

\* TtlSet::set of a live id.
LEMMA TtlSetGood ==
  ASSUME NEW st, Good(st), NEW id \in Id, id < st.size, NEW when \in Time
  PROVE  Good(ttl_set(st, id, when)) /\ ttl_set(st, id, when).where = st.where
<1> DEFINE s2 == ttl_set(st, id, when)
<1>1. st \in Store /\ st.due \in Due /\ st.order \in Order  BY DEF Good, Store
<1>2. /\ s2.size = st.size /\ s2.slot = st.slot /\ s2.where = st.where
      /\ s2.signals = st.signals /\ s2.due = [st.due EXCEPT ![id] = when]
      /\ s2.order = IF st.due[id] = NoExpiry THEN insert(st.order, <<when, id>>)
                    ELSE erase_one(insert(st.order, <<when, id>>), <<st.due[id], id>>)
  BY <1>1 DEF ttl_set, Store
<1>3. Mirrors(s2.due, s2.order)
  <2>1. Mirrors(st.due, st.order)  BY DEF Good
  <2> QED  BY <2>1, <1>2, InsertMirrors, ReplaceMirrors
<1>4. Live(s2.due, s2.size)  BY <1>1, <1>2 DEF Good, Live, Due
<1>5. s2 \in Store
  <2>1. s2.due \in Due /\ s2.order \in Order  BY <1>3 DEF Mirrors
  <2> QED  BY <1>1, <2>1, Zenon DEF ttl_set, Store
<1> QED  BY <1>2, <1>3, <1>4, <1>5 DEF Good

\* TtlSet::erase.
LEMMA TtlClearGood ==
  ASSUME NEW st, Good(st), NEW id \in Id
  PROVE  LET s2 == ttl_clear(st, id)
         IN  /\ Good(s2) /\ s2.due[id] = NoExpiry
             /\ s2.size = st.size /\ s2.slot = st.slot /\ s2.where = st.where
             /\ s2.signals = st.signals
             /\ \A i \in Id : i # id => s2.due[i] = st.due[i]
<1> DEFINE s2 == ttl_clear(st, id)
<1>1. st \in Store /\ st.due \in Due /\ st.order \in Order  BY DEF Good, Store
<1>2. CASE st.due[id] = NoExpiry  BY <1>2 DEF ttl_clear
<1>3. CASE st.due[id] # NoExpiry
  <2>1. /\ s2.size = st.size /\ s2.slot = st.slot /\ s2.where = st.where
        /\ s2.signals = st.signals /\ s2.due = [st.due EXCEPT ![id] = NoExpiry]
        /\ s2.order = erase_one(st.order, <<st.due[id], id>>)
    BY <1>1, <1>3 DEF ttl_clear, Store
  <2>2. Mirrors(s2.due, s2.order)  BY <2>1, <1>3, EraseMirrors DEF Good
  <2>3. Live(s2.due, s2.size)  BY <1>1, <2>1 DEF Good, Live, Due
  <2>4. s2 \in Store
    <3>1. s2.due \in Due /\ s2.order \in Order  BY <2>2 DEF Mirrors
    <3> QED  BY <1>1, <1>3, <3>1, Zenon DEF ttl_clear, Store
  <2>5. s2.due[id] = NoExpiry /\ \A i \in Id : i # id => s2.due[i] = st.due[i]
    BY <1>1, <2>1 DEF Due
  <2> QED  BY <2>1, <2>2, <2>3, <2>4, <2>5 DEF Good
<1> QED  BY <1>2, <1>3

\* TtlSet::rekey: the deadline of one id goes to another that has none.
LEMMA RekeyFields ==
  ASSUME NEW st \in Store, Mirrors(st.due, st.order), NEW from \in Id, NEW to \in Id,
         from # to, st.due[to] = NoExpiry
  PROVE  LET s2 == rekey(st, from, to)
         IN  /\ s2 \in Store /\ Mirrors(s2.due, s2.order)
             /\ s2.size = st.size /\ s2.slot = st.slot /\ s2.where = st.where
             /\ s2.signals = st.signals
             /\ s2.due[from] = NoExpiry /\ s2.due[to] = st.due[from]
             /\ \A i \in Id \ {from, to} : s2.due[i] = st.due[i]
<1> DEFINE s2 == rekey(st, from, to)
<1>1. st.due \in Due /\ st.order \in Order  BY DEF Store
<1>2. CASE st.due[from] = NoExpiry  BY <1>2 DEF rekey
<1>3. CASE st.due[from] # NoExpiry
  <2>1. /\ s2.size = st.size /\ s2.slot = st.slot /\ s2.where = st.where
        /\ s2.signals = st.signals
        /\ s2.due = [st.due EXCEPT ![from] = NoExpiry, ![to] = st.due[from]]
        /\ s2.order = erase_one(insert(st.order, <<st.due[from], to>>), <<st.due[from], from>>)
    BY <1>1, <1>3 DEF rekey, Store
  <2>2. Mirrors(s2.due, s2.order)  BY <2>1, <1>3, MoveMirrors
  <2>3. s2 \in Store
    <3>1. s2.due \in Due /\ s2.order \in Order  BY <2>2 DEF Mirrors
    <3> QED  BY <1>1, <1>3, <3>1, Zenon DEF rekey, Store
  <2>4. /\ s2.due[from] = NoExpiry /\ s2.due[to] = st.due[from]
        /\ \A i \in Id \ {from, to} : s2.due[i] = st.due[i]
    BY <1>1, <2>1 DEF Due
  <2> QED  BY <2>1, <2>2, <2>3, <2>4
<1> QED  BY <1>2, <1>3
-----------------------------------------------------------------------------
(* The table and its name index. *)

\* A key that exists is in the slot its name leads to.
LEMMA Found ==
  ASSUME NEW st, Good(st), NEW k \in Key, exists(st, k)
  PROVE  /\ id_of(st, k) \in Id /\ id_of(st, k) \in 0 .. st.size - 1
         /\ id_of(st, k) < st.size
         /\ st.slot[id_of(st, k)] \in Slot
         /\ st.slot[id_of(st, k)].key = k
  BY Constants DEF Good, Named, exists, id_of, Id, npos

\* push_back_key.
LEMMA CreateNamed ==
  ASSUME NEW size, NEW slot, NEW where, Named(size, slot, where), size <= MaxKeyId,
         NEW k \in Key, where[k] = npos, NEW v \in Value
  PROVE  Named(size + 1,
               [i \in 0 .. size |-> IF i = size THEN [key |-> k, value |-> v] ELSE slot[i]],
               [where EXCEPT ![k] = size])
<1> DEFINE slot2 == [i \in 0 .. size |-> IF i = size THEN [key |-> k, value |-> v] ELSE slot[i]]
           where2 == [where EXCEPT ![k] = size]
<1>1. size \in Nat /\ size \in Id /\ (size + 1) - 1 = size /\ size + 1 \in 0 .. MaxKeyId + 1
  BY Constants DEF Named, Id
<1>2. slot \in [0 .. size - 1 -> Slot] /\ where \in [Key -> Id \cup {npos}]  BY DEF Named
<1>3. slot2 \in [0 .. size -> Slot] /\ where2 \in [Key -> Id \cup {npos}]
  <2>1. ASSUME NEW i \in 0 .. size  PROVE slot2[i] \in Slot
    <3>1. CASE i = size  BY <3>1 DEF Slot
    <3>2. CASE i # size
      <4>1. i \in 0 .. size - 1  BY <3>2, <1>1
      <4> QED  BY <4>1, <3>2, <1>2
    <3> QED  BY <3>1, <3>2
  <2> QED  BY <2>1, <1>1, <1>2
<1>4. \A n \in Key : where2[n] # npos => where2[n] < size + 1 /\ slot2[where2[n]].key = n
  <2> SUFFICES ASSUME NEW n \in Key, where2[n] # npos
               PROVE  where2[n] < size + 1 /\ slot2[where2[n]].key = n
    OBVIOUS
  <2>1. CASE n = k  BY <2>1, <1>1, <1>2
  <2>2. CASE n # k
    <3>1. where2[n] = where[n] /\ where[n] \in Id /\ where[n] < size /\ slot[where[n]].key = n
      BY <2>2, <1>2 DEF Named
    <3>2. where[n] \in 0 .. size /\ where[n] # size  BY <3>1, <1>1, Constants DEF Id
    <3> QED  BY <3>1, <3>2, <1>1
  <2> QED  BY <2>1, <2>2
<1>5. \A i \in 0 .. size : where2[slot2[i].key] = i
  <2> SUFFICES ASSUME NEW i \in 0 .. size  PROVE where2[slot2[i].key] = i
    OBVIOUS
  <2>1. CASE i = size  BY <2>1, <1>2
  <2>2. CASE i # size
    <3>1. i \in 0 .. size - 1  BY <2>2, <1>1
    <3>2. where[slot[i].key] = i /\ slot[i].key \in Key  BY <3>1, <1>2 DEF Named, Slot
    <3>3. slot[i].key # k  BY <3>1, <3>2, <1>1 DEF npos
    <3> QED  BY <3>2, <3>3, <2>2, <1>2
  <2> QED  BY <2>1, <2>2
<1> QED  BY <1>1, <1>3, <1>4, <1>5 DEF Named

\* erase_at: the last key takes the place of the one that goes.
LEMMA EraseNamed ==
  ASSUME NEW size, NEW slot, NEW where, Named(size, slot, where), NEW id \in 0 .. size - 1
  PROVE  Named(size - 1,
               [i \in 0 .. size - 2 |-> IF i = id THEN slot[size - 1] ELSE slot[i]],
               [[where EXCEPT ![slot[size - 1].key] = id] EXCEPT ![slot[id].key] = npos])
<1> DEFINE last == size - 1
           lk == slot[last].key
           gk == slot[id].key
           slot2 == [i \in 0 .. size - 2 |-> IF i = id THEN slot[last] ELSE slot[i]]
           where2 == [[where EXCEPT ![lk] = id] EXCEPT ![gk] = npos]
<1>1. /\ size \in Nat /\ size >= 1 /\ last \in Nat /\ last \in 0 .. size - 1
      /\ last - 1 = size - 2 /\ id \in Id /\ last \in 0 .. MaxKeyId + 1 /\ id <= last
  BY Constants DEF Named, Id
<1>2. slot \in [0 .. size - 1 -> Slot] /\ where \in [Key -> Id \cup {npos}]  BY DEF Named
<1>3. lk \in Key /\ gk \in Key /\ where[lk] = last /\ where[gk] = id
  BY <1>1, <1>2 DEF Named, Slot
<1>4. \A i \in 0 .. size - 2 : i \in 0 .. size - 1 /\ i # last  BY <1>1
<1>5. slot2 \in [0 .. size - 2 -> Slot]  BY <1>1, <1>2, <1>4
<1>6. where2 \in [Key -> Id \cup {npos}]  BY <1>1, <1>2, Zenon
<1>7. \A n \in Key : where2[n] # npos => where2[n] < last /\ slot2[where2[n]].key = n
  <2> SUFFICES ASSUME NEW n \in Key, where2[n] # npos
               PROVE  where2[n] < last /\ slot2[where2[n]].key = n
    BY Zenon
  <2>1. n # gk  BY <1>2, <1>3
  <2>2. CASE n = lk
    <3>1. where2[n] = id /\ id # last  BY <2>1, <2>2, <1>2, <1>3
    <3>2. id \in 0 .. size - 2 /\ id < last  BY <3>1, <1>1
    <3> QED  BY <3>1, <3>2, <2>2
  <2>3. CASE n # lk
    <3>1. where2[n] = where[n] /\ where[n] # npos  BY <2>1, <2>3, <1>2, <1>3
    <3>2. where[n] \in Id /\ where[n] < size /\ slot[where[n]].key = n
      BY <3>1, <1>2 DEF Named
    <3>3. where[n] # last /\ where[n] # id  BY <3>2, <2>1, <2>3
    <3>4. where[n] \in 0 .. size - 2 /\ where[n] < last  BY <3>2, <3>3, <1>1 DEF Id
    <3> QED  BY <3>1, <3>2, <3>3, <3>4
  <2> QED  BY <2>2, <2>3
<1>8. \A i \in 0 .. size - 2 : where2[slot2[i].key] = i
  <2> SUFFICES ASSUME NEW i \in 0 .. size - 2  PROVE where2[slot2[i].key] = i
    BY Zenon
  <2>1. CASE i = id
    <3>1. slot2[i].key = lk /\ lk # gk  BY <2>1, <1>3, <1>4
    <3> QED  BY <3>1, <2>1, <1>2, <1>3
  <2>2. CASE i # id
    <3>1. slot2[i].key = slot[i].key /\ slot[i].key \in Key /\ where[slot[i].key] = i
      BY <2>2, <1>2, <1>4 DEF Named, Slot
    <3>2. slot[i].key # lk /\ slot[i].key # gk  BY <3>1, <2>2, <1>3, <1>4
    <3> QED  BY <3>1, <3>2, <1>2, <1>3
  <2> QED  BY <2>1, <2>2
<1> QED  BY <1>1, <1>5, <1>6, <1>7, <1>8, Zenon DEF Named

\* A new value in a slot.
LEMMA ValueNamed ==
  ASSUME NEW size, NEW slot, NEW where, Named(size, slot, where), NEW id \in 0 .. size - 1,
         NEW v \in Value
  PROVE  Named(size, [slot EXCEPT ![id].value = v], where)
<1> DEFINE slot2 == [slot EXCEPT ![id].value = v]
<1>1. slot \in [0 .. size - 1 -> Slot] /\ where \in [Key -> Id \cup {npos}]  BY DEF Named
<1>2. slot2 \in [0 .. size - 1 -> Slot]  BY <1>1 DEF Slot
<1>3. \A i \in 0 .. size - 1 : slot2[i].key = slot[i].key  BY <1>1 DEF Slot
<1>4. \A k \in Key : where[k] # npos => where[k] \in 0 .. size - 1
  BY <1>1, Constants DEF Named, Id
<1> QED  BY <1>2, <1>3, <1>4 DEF Named

\* rename_key onto a name that is free.
LEMMA RenameNamed ==
  ASSUME NEW size, NEW slot, NEW where, Named(size, slot, where), NEW k \in Key, NEW d \in Key,
         k # d, where[k] # npos, where[d] = npos
  PROVE  Named(size, [slot EXCEPT ![where[k]].key = d],
               [where EXCEPT ![k] = npos, ![d] = where[k]])
<1> DEFINE id == where[k]
           slot2 == [slot EXCEPT ![id].key = d]
           where2 == [where EXCEPT ![k] = npos, ![d] = id]
<1>1. slot \in [0 .. size - 1 -> Slot] /\ where \in [Key -> Id \cup {npos}]  BY DEF Named
<1>2. id \in Id /\ id \in 0 .. size - 1 /\ slot[id].key = k
  BY <1>1, Constants DEF Named, Id
<1>3. \A n \in Key : where[n] # npos => where[n] \in 0 .. size - 1
  BY <1>1, Constants DEF Named, Id
<1>4. slot2 \in [0 .. size - 1 -> Slot] /\ where2 \in [Key -> Id \cup {npos}]
  BY <1>1, <1>2 DEF Slot
<1>5. slot2[id].key = d /\ \A i \in 0 .. size - 1 : i # id => slot2[i] = slot[i]
  BY <1>1, <1>2 DEF Slot
<1>6. where2[k] = npos /\ where2[d] = id /\ \A n \in Key \ {k, d} : where2[n] = where[n]
  BY <1>1
<1> HIDE DEF slot2, where2, id
<1>7. \A n \in Key : where2[n] # npos => where2[n] < size /\ slot2[where2[n]].key = n
  <2> SUFFICES ASSUME NEW n \in Key, where2[n] # npos
               PROVE  where2[n] < size /\ slot2[where2[n]].key = n
    OBVIOUS
  <2>1. n # k  BY <1>6
  <2>2. CASE n = d  BY <2>2, <1>2, <1>5, <1>6 DEF Named
  <2>3. CASE n # d
    <3>1. where2[n] = where[n] /\ where[n] # npos  BY <2>1, <2>3, <1>6
    <3>2. where[n] < size /\ slot[where[n]].key = n /\ where[n] \in 0 .. size - 1
      BY <3>1, <1>3 DEF Named
    <3>3. where[n] # id  BY <3>2, <2>1, <1>2
    <3> QED  BY <3>1, <3>2, <3>3, <1>5
  <2> QED  BY <2>2, <2>3
<1>8. \A i \in 0 .. size - 1 : where2[slot2[i].key] = i
  <2> SUFFICES ASSUME NEW i \in 0 .. size - 1  PROVE where2[slot2[i].key] = i
    OBVIOUS
  <2>1. CASE i = id  BY <2>1, <1>5, <1>6
  <2>2. CASE i # id
    <3>1. slot2[i].key = slot[i].key /\ where[slot[i].key] = i /\ slot[i].key \in Key
      BY <2>2, <1>1, <1>5 DEF Named, Slot
    <3>2. slot[i].key # k  BY <3>1, <2>2 DEF id
    <3>3. slot[i].key # d  BY <3>1, Constants DEF npos
    <3> QED  BY <3>1, <3>2, <3>3, <1>6
  <2> QED  BY <2>1, <2>2
<1>9. size \in 0 .. MaxKeyId + 1  BY DEF Named
<1>10. Named(size, slot2, where2)  BY <1>4, <1>7, <1>8, <1>9 DEF Named
<1> QED  BY <1>10 DEF slot2, where2, id
-----------------------------------------------------------------------------
(* What a client sees at a key, and what the operations of the store make of it. *)

Pair(v, when) == [value |-> v, expiry |-> when]
V(st, k) == IF ~exists(st, k) THEN Absent
            ELSE Pair(st.slot[id_of(st, k)].value, st.due[id_of(st, k)])

\* Only the deadline of a key that exists is other than NoExpiry.
LEMMA Seen ==
  ASSUME NEW st, Good(st), NEW k \in Key
  PROVE  /\ ~exists(st, k) => V(st, k) = Absent /\ V(st, k).expiry = NoExpiry
         /\ exists(st, k) => /\ V(st, k).value = st.slot[id_of(st, k)].value
                             /\ V(st, k).value \in Value
                             /\ V(st, k).expiry = st.due[id_of(st, k)]
                             /\ V(st, k) = Pair(st.slot[id_of(st, k)].value, st.due[id_of(st, k)])
         /\ V(st, k).expiry \in Time \cup {NoExpiry}
<1>1. st.due \in Due  BY DEF Good, Store
<1>2. CASE exists(st, k)
  <2>1. id_of(st, k) \in Id /\ st.slot[id_of(st, k)] \in Slot  BY <1>2, Found, Zenon
  <2> QED  BY <1>1, <1>2, <2>1 DEF V, Pair, Due, Slot
<1>3. CASE ~exists(st, k)  BY <1>3, Zenon DEF V, Absent
<1> QED  BY <1>2, <1>3, Zenon

\* Two keys never share an id.
LEMMA Apart ==
  ASSUME NEW st, Good(st), NEW k \in Key, NEW n \in Key, k # n, exists(st, k), exists(st, n)
  PROVE  id_of(st, k) # id_of(st, n)
  BY Found, Zenon

\* The keys other than those of K are there or not as before, with the same value and deadline.
Same(st, s2, K) ==
  \A n \in Key \ K : (exists(s2, n) <=> exists(st, n)) /\ V(s2, n) = V(st, n)

\* It does not matter in how many steps the others stay the same.
LEMMA SameTwice ==
  ASSUME NEW a, NEW b, NEW c, NEW K, NEW L, Same(a, b, K), Same(b, c, L)
  PROVE  Same(a, c, K \cup L)
  BY Zenon DEF Same

\* signal_key_modified changes no key.
LEMMA SignalOp ==
  ASSUME NEW st, Good(st), NEW k \in Key
  PROVE  LET s2 == signal(st, k)
         IN  /\ Good(s2) /\ Same(st, s2, {}) /\ s2.signals = st.signals \cup {k}
             /\ s2.size = st.size /\ s2.slot = st.slot /\ s2.where = st.where
             /\ s2.due = st.due /\ s2.order = st.order
<1> DEFINE s2 == signal(st, k)
<1>1. st \in Store  BY DEF Good
<1>2. /\ s2 \in Store /\ s2.signals = st.signals \cup {k}
      /\ s2.size = st.size /\ s2.slot = st.slot /\ s2.where = st.where
      /\ s2.due = st.due /\ s2.order = st.order
  BY <1>1 DEF signal, Store
<1> HIDE DEF s2
<1>3. Good(s2)  BY <1>2 DEF Good
<1>4. Same(st, s2, {})  BY <1>2 DEF Same, V, exists, id_of
<1> QED  BY <1>2, <1>3, <1>4 DEF s2

\* A store whose deadlines changed only at the id of k looks the same at the other keys.
LEMMA SameElsewhere ==
  ASSUME NEW st, Good(st), NEW s2, Good(s2), NEW k \in Key, exists(st, k),
         s2.where = st.where, s2.slot = st.slot,
         \A i \in Id : i # id_of(st, k) => s2.due[i] = st.due[i]
  PROVE  /\ Same(st, s2, {k}) /\ exists(s2, k)
         /\ V(s2, k) = Pair(V(st, k).value, s2.due[id_of(st, k)])
<1>1. \A n \in Key : exists(s2, n) <=> exists(st, n)  BY DEF exists
<1>2. \A n \in Key : id_of(s2, n) = id_of(st, n)  BY DEF id_of
<1>3. ASSUME NEW n \in Key \ {k}  PROVE V(s2, n) = V(st, n)
  <2>1. CASE exists(st, n)
    <3>1. id_of(st, n) \in Id /\ id_of(st, n) # id_of(st, k)  BY <2>1, Found, Apart, Zenon
    <3> QED  BY <3>1, <2>1, <1>1, <1>2, Zenon DEF V
  <2>2. CASE ~exists(st, n)  BY <2>2, <1>1, Zenon DEF V
  <2> QED  BY <2>1, <2>2, Zenon
<1>4. V(s2, k) = Pair(V(st, k).value, s2.due[id_of(st, k)])
  <2>1. V(st, k).value = st.slot[id_of(st, k)].value  BY Seen, Zenon
  <2> QED  BY <2>1, <1>1, <1>2, Zenon DEF V
<1> QED  BY <1>1, <1>3, <1>4, Zenon DEF Same

\* A deadline for a key (TtlSet::set).
LEMMA TtlSetOp ==
  ASSUME NEW st, Good(st), NEW k \in Key, exists(st, k), NEW when \in Time
  PROVE  LET s2 == ttl_set(st, id_of(st, k), when)
         IN  /\ Good(s2) /\ Same(st, s2, {k}) /\ exists(s2, k) /\ s2.signals = st.signals
             /\ V(s2, k) = Pair(V(st, k).value, when)
<1> DEFINE id == id_of(st, k)
           s2 == ttl_set(st, id, when)
<1>1. id \in Id /\ id < st.size  BY Found, Zenon
<1>2. Good(s2)  BY <1>1, TtlSetGood
<1>3. st \in Store /\ st.due \in Due  BY DEF Good, Store
<1>4. s2.slot = st.slot /\ s2.where = st.where /\ s2.signals = st.signals
  BY <1>3 DEF ttl_set, Store
<1>5. s2.due[id] = when /\ \A i \in Id : i # id => s2.due[i] = st.due[i]
  <2>1. s2.due = [st.due EXCEPT ![id] = when]  BY <1>3 DEF ttl_set, Store
  <2> QED  BY <1>1, <1>3, <2>1 DEF Due
<1> HIDE DEF s2
<1>6. Same(st, s2, {k}) /\ exists(s2, k)
      /\ V(s2, k) = Pair(V(st, k).value, s2.due[id])
  BY <1>2, <1>4, <1>5, SameElsewhere, Zenon
<1> QED  BY <1>2, <1>4, <1>5, <1>6 DEF s2

\* No deadline for a key (TtlSet::erase).
LEMMA TtlClearOp ==
  ASSUME NEW st, Good(st), NEW k \in Key, exists(st, k)
  PROVE  LET s2 == ttl_clear(st, id_of(st, k))
         IN  /\ Good(s2) /\ Same(st, s2, {k}) /\ exists(s2, k) /\ s2.signals = st.signals
             /\ s2.size = st.size /\ s2.slot = st.slot /\ s2.where = st.where
             /\ s2.due[id_of(st, k)] = NoExpiry
             /\ V(s2, k) = Pair(V(st, k).value, NoExpiry)
<1> DEFINE id == id_of(st, k)
           s2 == ttl_clear(st, id)
<1>1. id \in Id  BY Found, Zenon
<1>2. /\ Good(s2) /\ s2.due[id] = NoExpiry
      /\ s2.size = st.size /\ s2.slot = st.slot /\ s2.where = st.where
      /\ s2.signals = st.signals
      /\ \A i \in Id : i # id => s2.due[i] = st.due[i]
  BY <1>1, TtlClearGood
<1> HIDE DEF s2
<1>3. Same(st, s2, {k}) /\ exists(s2, k)
      /\ V(s2, k) = Pair(V(st, k).value, s2.due[id])
  BY <1>2, SameElsewhere, Zenon
<1> QED  BY <1>2, <1>3 DEF s2

\* A store with another table and name index, and the same deadlines.
With(st, size, slot, where) == [st EXCEPT !.size = size, !.where = where, !.slot = slot]

\* Its fields.
LEMMA WithFields ==
  ASSUME NEW st, Good(st), NEW s2, NEW size \in Nat, NEW slot, NEW where,
         s2 = With(st, size, slot, where), Named(size, slot, where)
  PROVE  /\ s2 \in Store /\ s2.signals = st.signals /\ s2.size = size /\ s2.slot = slot
         /\ s2.where = where /\ s2.due = st.due /\ s2.order = st.order
         /\ Mirrors(s2.due, s2.order)
<1>1. st \in Store /\ Mirrors(st.due, st.order)  BY DEF Good
<1>2. slot \in Table  BY TableType DEF Named
<1>3. /\ s2.signals = st.signals /\ s2.size = size /\ s2.slot = slot
      /\ s2.where = where /\ s2.due = st.due /\ s2.order = st.order
  BY <1>1 DEF With, Store
<1>4. size \in 0 .. MaxKeyId + 1 /\ where \in [Key -> Id \cup {npos}]  BY DEF Named
<1>5. s2 \in Store  BY <1>1, <1>2, <1>4, Zenon DEF With, Store
<1> QED  BY <1>1, <1>3, <1>5

\* It is consistent if the new table is and no deadline is beyond it.
LEMMA Rebuilt ==
  ASSUME NEW st, Good(st), NEW s2, NEW size \in Nat, NEW slot, NEW where,
         s2 = With(st, size, slot, where), Named(size, slot, where), Live(st.due, size)
  PROVE  /\ Good(s2) /\ s2.signals = st.signals /\ s2.size = size /\ s2.slot = slot
         /\ s2.where = where /\ s2.due = st.due
<1>1. /\ s2 \in Store /\ s2.signals = st.signals /\ s2.size = size /\ s2.slot = slot
      /\ s2.where = where /\ s2.due = st.due /\ s2.order = st.order
      /\ Mirrors(s2.due, s2.order)
  BY WithFields
<1> QED  BY <1>1 DEF Good

\* push_back_key: a key without a deadline.
LEMMA CreateOp ==
  ASSUME NEW st, Good(st), NEW k \in Key, ~exists(st, k), st.size <= MaxKeyId, NEW v \in Value
  PROVE  LET s2 == create_key(st, k, v)
         IN  /\ Good(s2) /\ Same(st, s2, {k}) /\ exists(s2, k) /\ s2.signals = st.signals
             /\ V(s2, k) = Pair(v, NoExpiry)
             /\ s2.size = st.size + 1 /\ s2.slot[st.size].key = k
             /\ s2.due[st.size] = NoExpiry
<1> DEFINE s2 == create_key(st, k, v)
           slot2 == [i \in 0 .. st.size |-> IF i = st.size THEN [key |-> k, value |-> v]
                                            ELSE st.slot[i]]
           where2 == [st.where EXCEPT ![k] = st.size]
<1>1. st \in Store /\ Named(st.size, st.slot, st.where) /\ Live(st.due, st.size)  BY DEF Good
<1>2. st.size \in Nat /\ st.size \in Id /\ st.size + 1 \in Nat /\ st.size # npos
  BY <1>1, Constants DEF Named, Id, npos
<1>3. Named(st.size + 1, slot2, where2)  BY <1>1, CreateNamed DEF exists
<1>4. Live(st.due, st.size + 1)  BY <1>1, <1>2, Constants DEF Live, Id
<1>5. s2 = With(st, st.size + 1, slot2, where2)
  BY <1>1 DEF create_key, With, Store
<1>6. where2[k] = st.size /\ \A n \in Key \ {k} : where2[n] = st.where[n]
  BY <1>1 DEF Named
<1>7. slot2[st.size] = [key |-> k, value |-> v]
      /\ \A i \in 0 .. st.size - 1 : slot2[i] = st.slot[i]
  BY <1>2
<1> HIDE DEF s2, slot2, where2
<1>8. /\ Good(s2) /\ s2.signals = st.signals /\ s2.size = st.size + 1 /\ s2.slot = slot2
      /\ s2.where = where2 /\ s2.due = st.due
  BY <1>2, <1>3, <1>4, <1>5, Rebuilt
<1>9. st.due[st.size] = NoExpiry  BY <1>1, <1>2 DEF Live
<1>10. exists(s2, k) /\ V(s2, k) = Pair(v, NoExpiry)
  BY <1>2, <1>6, <1>7, <1>8, <1>9 DEF exists, V, id_of
<1>11. Same(st, s2, {k})
  <2> SUFFICES ASSUME NEW n \in Key \ {k}
               PROVE  (exists(s2, n) <=> exists(st, n)) /\ V(s2, n) = V(st, n)
    BY Zenon DEF Same
  <2>1. s2.where[n] = st.where[n]  BY <1>6, <1>8
  <2>2. exists(st, n) => slot2[id_of(st, n)] = st.slot[id_of(st, n)]  BY <1>7, Found, Zenon
  <2> QED  BY <2>1, <2>2, <1>8 DEF exists, V, id_of
<1>12. s2.slot[st.size].key = k  BY <1>7, <1>8
<1> QED  BY <1>8, <1>9, <1>10, <1>11, <1>12 DEF s2

\* Assigning a string to a key keeps its deadline, if the key can be stored at all.
LEMMA SetStringOp ==
  ASSUME NEW st, Good(st), NEW k \in Key, Storable(st, k), NEW v \in Value
  PROVE  LET s2 == set_string(st, k, v)
         IN  /\ Good(s2) /\ Same(st, s2, {k}) /\ exists(s2, k) /\ s2.signals = st.signals
             /\ V(s2, k) = Pair(v, V(st, k).expiry)
<1> DEFINE s2 == set_string(st, k, v)
<1>1. CASE ~exists(st, k)
  <2>1. s2 = create_key(st, k, v) /\ st.size <= MaxKeyId  BY <1>1, Zenon DEF set_string, Storable
  <2>2. V(st, k).expiry = NoExpiry  BY <1>1, Seen, Zenon
  <2>3. LET c == create_key(st, k, v)
        IN  /\ Good(c) /\ Same(st, c, {k}) /\ exists(c, k) /\ c.signals = st.signals
            /\ V(c, k) = Pair(v, NoExpiry)
    BY <1>1, <2>1, CreateOp, ZenonT(30)
  <2> HIDE DEF s2
  <2>4. Good(s2) /\ Same(st, s2, {k}) /\ exists(s2, k) /\ s2.signals = st.signals
        /\ V(s2, k) = Pair(v, NoExpiry)
    BY <2>1, <2>3
  <2> QED  BY <2>2, <2>4 DEF s2
<1>2. CASE exists(st, k)
  <2> DEFINE id == id_of(st, k)
             slot2 == [st.slot EXCEPT ![id].value = v]
  <2>1. st \in Store /\ Named(st.size, st.slot, st.where) /\ Live(st.due, st.size)  BY DEF Good
  <2>2. id \in 0 .. st.size - 1 /\ id \in Id /\ st.size \in Nat
    <3>1. st.size \in Nat  BY <2>1, Constants DEF Named
    <3> QED  BY <1>2, <3>1, Found, Zenon
  <2>3. s2 = With(st, st.size, slot2, st.where)
    <3>1. s2 = [st EXCEPT !.slot = slot2]  BY <1>2 DEF set_string
    <3> HIDE DEF slot2, s2
    <3> QED  BY <3>1, <2>1, Zenon DEF With, Store
  <2>4. Named(st.size, slot2, st.where)  BY <2>1, <2>2, ValueNamed
  <2>5. st.slot \in [0 .. st.size - 1 -> Slot]  BY <2>1 DEF Named
  <2>6. slot2[id].value = v /\ \A i \in 0 .. st.size - 1 : i # id => slot2[i] = st.slot[i]
    BY <2>2, <2>5 DEF Slot
  <2> HIDE DEF s2, slot2
  <2>7. /\ Good(s2) /\ s2.signals = st.signals /\ s2.slot = slot2
        /\ s2.where = st.where /\ s2.due = st.due
    BY <2>1, <2>2, <2>3, <2>4, Rebuilt
  <2>8. exists(s2, k) /\ V(s2, k) = Pair(v, V(st, k).expiry)
    <3>1. V(st, k).expiry = st.due[id]  BY <1>2, Seen, Zenon
    <3>2. exists(s2, k) /\ id_of(s2, k) = id  BY <1>2, <2>7 DEF exists, id_of
    <3> QED  BY <3>1, <3>2, <2>6, <2>7, Zenon DEF V
  <2>9. Same(st, s2, {k})
    <3> SUFFICES ASSUME NEW n \in Key \ {k}
                 PROVE  (exists(s2, n) <=> exists(st, n)) /\ V(s2, n) = V(st, n)
      BY Zenon DEF Same
    <3>1. s2.where[n] = st.where[n]  BY <2>7
    <3>2. exists(st, n) => slot2[id_of(st, n)] = st.slot[id_of(st, n)]
      BY <1>2, <2>6, Found, Apart, Zenon
    <3> QED  BY <3>1, <3>2, <2>7 DEF exists, V, id_of
  <2> QED  BY <2>7, <2>8, <2>9 DEF s2
<1> QED  BY <1>1, <1>2, Zenon

\* erase_at and rekey together: the key in slot id is gone, and the key that slides into its
\* place has taken its deadline along (erase_keyspace_at).
LEMMA EraseOp ==
  ASSUME NEW st, Good(st), NEW id \in 0 .. st.size - 1, st.due[id] = NoExpiry,
         NEW k \in Key, st.slot[id].key = k
  PROVE  LET s2 == erase_keyspace_at(st, id)
         IN  /\ Good(s2) /\ Same(st, s2, {k}) /\ ~exists(s2, k)
             /\ s2.signals = st.signals \cup {k} /\ s2.size = st.size - 1
             /\ \A i \in Id \ {id} : s2.due[i] \in {st.due[i], NoExpiry}
<1> DEFINE s2 == erase_keyspace_at(st, id)
           s1 == signal(st, k)
           last == st.size - 1
           lk == st.slot[last].key
           slot2 == [i \in 0 .. st.size - 2 |-> IF i = id THEN st.slot[last] ELSE st.slot[i]]
           where2 == [[st.where EXCEPT ![lk] = id] EXCEPT ![k] = npos]
           e == erase_at(s1, id)
<1>1. st \in Store /\ Named(st.size, st.slot, st.where) /\ Live(st.due, st.size)
      /\ Mirrors(st.due, st.order)
  BY DEF Good
<1>2. /\ st.size \in Nat /\ st.size >= 1 /\ last \in Nat /\ last \in Id /\ id \in Id
      /\ last - 1 = st.size - 2 /\ last \in 0 .. st.size - 1 /\ id <= last
  BY <1>1, Constants DEF Named, Id
<1>3. Named(last, slot2, where2)  BY <1>1, EraseNamed
<1>4. /\ Good(s1) /\ s1.signals = st.signals \cup {k}
      /\ s1.size = st.size /\ s1.slot = st.slot /\ s1.where = st.where
      /\ s1.due = st.due /\ s1.order = st.order
  BY SignalOp
<1>5. /\ lk \in Key /\ st.where[lk] = last /\ st.where[k] = id
      /\ st.slot \in [0 .. st.size - 1 -> Slot]
      /\ st.where \in [Key -> Id \cup {npos}]
  BY <1>1, <1>2, Zenon DEF Named, Slot
<1>6. where2[k] = npos /\ (lk # k => where2[lk] = id)
      /\ \A n \in Key \ {k, lk} : where2[n] = st.where[n]
  BY <1>5
<1>7. /\ id # last => slot2[id] = st.slot[last]
      /\ \A i \in 0 .. st.size - 2 : i # id => slot2[i] = st.slot[i]
  BY <1>2
<1>8. e = With(s1, last, slot2, where2)
  <2>1. s1 \in Store  BY <1>4 DEF Good
  <2> HIDE DEF s1
  <2> QED  BY <1>2, <1>4, <2>1, Zenon DEF erase_at, With, Store
<1>9. s2 = IF id = last THEN e ELSE rekey(e, last, id)  BY DEF erase_keyspace_at
<1> HIDE DEF e, s1, s2, slot2, where2
<1>10. /\ e \in Store /\ e.signals = s1.signals /\ e.size = last /\ e.slot = slot2
       /\ e.where = where2 /\ e.due = s1.due /\ Mirrors(e.due, e.order)
  BY <1>2, <1>3, <1>4, <1>8, WithFields
<1>11. /\ s2 \in Store /\ Mirrors(s2.due, s2.order) /\ s2.size = last /\ s2.slot = slot2
       /\ s2.where = where2 /\ s2.signals = st.signals \cup {k}
       /\ s2.due[last] = NoExpiry /\ (id # last => s2.due[id] = st.due[last])
       /\ \A i \in Id \ {last, id} : s2.due[i] = st.due[i]
  <2>1. CASE id = last  BY <2>1, <1>4, <1>9, <1>10
  <2>2. CASE id # last
    <3>1. s2 = rekey(e, last, id) /\ e.due[id] = NoExpiry  BY <2>2, <1>4, <1>9, <1>10
    <3>2. /\ s2 \in Store /\ Mirrors(s2.due, s2.order)
          /\ s2.size = e.size /\ s2.slot = e.slot /\ s2.where = e.where
          /\ s2.signals = e.signals
          /\ s2.due[last] = NoExpiry /\ s2.due[id] = e.due[last]
          /\ \A i \in Id \ {last, id} : s2.due[i] = e.due[i]
      BY <3>1, <2>2, <1>2, <1>10, RekeyFields
    <3> QED  BY <3>2, <1>4, <1>10
  <2> QED  BY <2>1, <2>2
<1>12. \A i \in Id \ {id} : s2.due[i] \in {st.due[i], NoExpiry}  BY <1>11
<1>13. Live(s2.due, s2.size)
  <2> SUFFICES ASSUME NEW i \in Id, s2.due[i] # NoExpiry  PROVE i < last
    BY <1>11 DEF Live
  <2>1. i # last  BY <1>11
  <2>2. CASE i = id  BY <2>1, <2>2, <1>2
  <2>3. CASE i # id
    <3>1. st.due[i] # NoExpiry  BY <2>1, <2>3, <1>11
    <3>2. i < st.size /\ i \in Nat  BY <3>1, <1>1, Constants DEF Live
    <3> QED  BY <3>2, <2>1, <1>2
  <2> QED  BY <2>2, <2>3
<1>14. Good(s2)  BY <1>3, <1>11, <1>13 DEF Good
<1>15. ~exists(s2, k)  BY <1>6, <1>11 DEF exists
<1>16. Same(st, s2, {k})
  <2> SUFFICES ASSUME NEW n \in Key \ {k}
               PROVE  (exists(s2, n) <=> exists(st, n)) /\ V(s2, n) = V(st, n)
    BY Zenon DEF Same
  <2>1. CASE n = lk
    <3>1. id # last /\ s2.where[n] = id /\ st.where[n] = last
      BY <2>1, <1>5, <1>6, <1>11
    <3>2. s2.slot[id] = st.slot[last] /\ s2.due[id] = st.due[last]  BY <3>1, <1>7, <1>11
    <3>3. exists(s2, n) /\ exists(st, n)  BY <3>1, <1>2, Constants DEF exists
    <3> QED  BY <3>1, <3>2, <3>3, Zenon DEF V, id_of
  <2>2. CASE n # lk
    <3>1. s2.where[n] = st.where[n]  BY <2>2, <1>6, <1>11, Zenon
    <3>2. CASE exists(st, n)
      <4>1. st.where[n] \in Id /\ st.where[n] \in 0 .. st.size - 1 /\ st.slot[st.where[n]].key = n
        BY <3>2, Found, Zenon DEF id_of
      <4>2. st.where[n] # last /\ st.where[n] # id  BY <4>1, <2>2
      <4>3. st.where[n] \in 0 .. st.size - 2  BY <4>1, <4>2, <1>2
      <4> QED  BY <3>1, <3>2, <4>1, <4>2, <4>3, <1>7, <1>11 DEF exists, V, id_of
    <3>3. CASE ~exists(st, n)  BY <3>1, <3>3 DEF exists, V
    <3> QED  BY <3>2, <3>3, Zenon
  <2> QED  BY <2>1, <2>2, Zenon
<1> QED  BY <1>11, <1>12, <1>14, <1>15, <1>16, Zenon DEF s2

\* erase_key: the key is gone, and with it its deadline.
LEMMA EraseKeyOp ==
  ASSUME NEW st, Good(st), NEW k \in Key
  PROVE  LET s2 == erase_key(st, k)
         IN  /\ Good(s2) /\ Same(st, s2, {k}) /\ ~exists(s2, k)
             /\ exists(st, k) => s2.signals = st.signals \cup {k} /\ s2.size = st.size - 1
             /\ ~exists(st, k) => s2 = st
             /\ exists(st, k) => \A i \in Id \ {id_of(st, k)} : s2.due[i] \in {st.due[i], NoExpiry}
<1> DEFINE s2 == erase_key(st, k)
<1>1. CASE ~exists(st, k)
  <2>1. s2 = st  BY <1>1 DEF erase_key
  <2> QED  BY <1>1, <2>1, Zenon DEF Same
<1>2. CASE exists(st, k)
  <2> DEFINE id == id_of(st, k)
             c == ttl_clear(st, id)
  <2>1. id \in Id /\ id \in 0 .. st.size - 1 /\ st.slot[id].key = k  BY <1>2, Found, Zenon
  <2>2. /\ Good(c) /\ Same(st, c, {k}) /\ c.signals = st.signals
        /\ c.size = st.size /\ c.slot = st.slot /\ c.due[id] = NoExpiry
    BY <1>2, TtlClearOp, Zenon
  <2>3. \A i \in Id \ {id} : c.due[i] = st.due[i]
    <3> HIDE DEF id
    <3> QED  BY <2>1, TtlClearGood
  <2>4. s2 = erase_keyspace_at(c, id)  BY <1>2 DEF erase_key
  <2> HIDE DEF c, s2, id
  <2>5. /\ Good(s2) /\ Same(c, s2, {k}) /\ ~exists(s2, k)
        /\ s2.signals = c.signals \cup {k} /\ s2.size = c.size - 1
        /\ \A i \in Id \ {id} : s2.due[i] \in {c.due[i], NoExpiry}
    <3>1. id \in 0 .. c.size - 1 /\ c.slot[id].key = k  BY <2>1, <2>2
    <3> QED  BY <3>1, <2>2, <2>4, EraseOp, ZenonT(60)
  <2>6. Same(st, s2, {k})  BY <2>2, <2>5, Zenon DEF Same
  <2>7. \A i \in Id \ {id} : s2.due[i] \in {st.due[i], NoExpiry}  BY <2>3, <2>5
  <2> QED  BY <1>2, <2>2, <2>5, <2>6, <2>7, Zenon DEF s2, id
<1> QED  BY <1>1, <1>2, Zenon

\* purge_if_expired: a key whose deadline has passed goes, any other stays as it is.
LEMMA PurgeOp ==
  ASSUME NEW st, Good(st), NEW k \in Key, NEW t \in Time
  PROVE  LET s2 == purge_if_expired(st, k, t)
         IN  /\ Good(s2) /\ Same(st, s2, {k})
             /\ V(st, k).expiry <= t =>
                  ~exists(s2, k) /\ s2.signals = st.signals \cup {k} /\ s2.size = st.size - 1
             /\ ~(V(st, k).expiry <= t) => s2 = st
             /\ exists(st, k) => \A i \in Id \ {id_of(st, k)} : s2.due[i] \in {st.due[i], NoExpiry}
<1> DEFINE s2 == purge_if_expired(st, k, t)
<1>1. t \in Nat /\ ~(NoExpiry <= t)  BY Constants DEF Time, NoExpiry
<1>2. CASE ~exists(st, k)
  <2>1. s2 = st  BY <1>2 DEF purge_if_expired
  <2>2. V(st, k).expiry = NoExpiry  BY <1>2, Seen, Zenon
  <2> QED  BY <1>1, <2>1, <2>2, Zenon DEF Same
<1>3. CASE exists(st, k)
  <2>1. V(st, k).expiry = st.due[id_of(st, k)]  BY <1>3, Seen, Zenon
  <2>2. CASE st.due[id_of(st, k)] <= t
    <3>1. s2 = erase_key(st, k)  BY <1>3, <2>2 DEF purge_if_expired
    <3> HIDE DEF s2
    <3>2. /\ Good(s2) /\ Same(st, s2, {k}) /\ ~exists(s2, k)
          /\ s2.signals = st.signals \cup {k} /\ s2.size = st.size - 1
          /\ \A i \in Id \ {id_of(st, k)} : s2.due[i] \in {st.due[i], NoExpiry}
      BY <1>3, <3>1, EraseKeyOp, Zenon
    <3> QED  BY <2>1, <2>2, <3>2, Zenon DEF s2
  <2>3. CASE ~(st.due[id_of(st, k)] <= t)
    <3>1. s2 = st  BY <1>3, <2>3 DEF purge_if_expired
    <3> QED  BY <2>1, <2>3, <3>1, Zenon DEF Same
  <2> QED  BY <2>2, <2>3, Zenon
<1> QED  BY <1>2, <1>3, Zenon

\* rename_key onto a free name: value and deadline go along.
LEMMA RenameKeyOp ==
  ASSUME NEW st, Good(st), NEW k \in Key, NEW d \in Key, k # d, exists(st, k), ~exists(st, d)
  PROVE  LET s2 == rename_key(st, k, d)
         IN  /\ Good(s2) /\ Same(st, s2, {k, d}) /\ ~exists(s2, k) /\ exists(s2, d)
             /\ V(s2, d) = V(st, k) /\ s2.signals = st.signals
<1> DEFINE s2 == rename_key(st, k, d)
           id == id_of(st, k)
           slot2 == [st.slot EXCEPT ![id].key = d]
           where2 == [st.where EXCEPT ![k] = npos, ![d] = id]
<1>1. st \in Store /\ Named(st.size, st.slot, st.where) /\ Live(st.due, st.size)  BY DEF Good
<1>2. st.size \in Nat  BY <1>1, Constants DEF Named
<1>3. id \in Id /\ id \in 0 .. st.size - 1 /\ st.slot[id].key = k  BY Found, Zenon
<1>4. id = st.where[k]  BY DEF id_of
<1>5. Named(st.size, slot2, where2)  BY <1>1, <1>4, RenameNamed DEF exists
<1>6. s2 = With(st, st.size, slot2, where2)
  <2>1. s2 = [st EXCEPT !.where = where2, !.slot = slot2]  BY DEF rename_key
  <2> HIDE DEF s2, slot2, where2
  <2> QED  BY <1>1, <2>1, Zenon DEF With, Store
<1>7. st.slot \in [0 .. st.size - 1 -> Slot] /\ st.where \in [Key -> Id \cup {npos}]
  BY <1>1 DEF Named
<1>8. /\ slot2[id].value = st.slot[id].value
      /\ \A i \in 0 .. st.size - 1 : i # id => slot2[i] = st.slot[i]
  BY <1>3, <1>7 DEF Slot
<1>9. /\ where2[k] = npos /\ where2[d] = id
      /\ \A n \in Key \ {k, d} : where2[n] = st.where[n]
  BY <1>7
<1> HIDE DEF s2, slot2, where2
<1>10. /\ Good(s2) /\ s2.signals = st.signals /\ s2.size = st.size /\ s2.slot = slot2
       /\ s2.where = where2 /\ s2.due = st.due
  BY <1>1, <1>2, <1>5, <1>6, Rebuilt
<1>11. ~exists(s2, k) /\ exists(s2, d)  BY <1>3, <1>9, <1>10, Constants DEF exists
<1>12. V(s2, d) = V(st, k)
  <2>1. id_of(s2, d) = id  BY <1>9, <1>10 DEF id_of
  <2> QED  BY <2>1, <1>8, <1>10, <1>11 DEF V
<1>13. Same(st, s2, {k, d})
  <2> SUFFICES ASSUME NEW n \in Key \ {k, d}
               PROVE  (exists(s2, n) <=> exists(st, n)) /\ V(s2, n) = V(st, n)
    BY Zenon DEF Same
  <2>1. s2.where[n] = st.where[n]  BY <1>9, <1>10
  <2>2. exists(st, n) => slot2[id_of(st, n)] = st.slot[id_of(st, n)]
    BY <1>8, Found, Apart, Zenon
  <2> QED  BY <2>1, <2>2, <1>10 DEF exists, V, id_of
<1> QED  BY <1>10, <1>11, <1>12, <1>13, Zenon DEF s2
-----------------------------------------------------------------------------
(* What a command makes of the store, as a client and as the mutation observer see it. *)

Entries == [value : Value, expiry : Time \cup {NoExpiry}]

\* A key that looks different has been reported.
Told(st, s2) ==
  /\ st.signals \subseteq s2.signals
  /\ \A n \in Key : V(s2, n) # V(st, n) => n \in s2.signals

\* What a command finds at n at time t, and what it leaves of the keys it does not name.
Lives(st, n, t) == IF V(st, n).expiry <= t THEN Absent ELSE V(st, n)
Rest(st, s2, K, t) == \A n \in Key \ K : V(s2, n) \in {V(st, n), Lives(st, n, t)}

Puts(st, s2, k, t) == Rest(st, s2, {k}, t) /\ V(s2, k) \in Entries /\ V(s2, k).expiry > t
Removes(st, s2, k, t) == Rest(st, s2, {k}, t) /\ V(s2, k) = Absent
Renames(st, s2, k, d, t) ==
  /\ k # d /\ Lives(st, k, t).value \in Value
  /\ Rest(st, s2, {k, d}, t) /\ V(s2, k) = Absent /\ V(s2, d) = Lives(st, k, t)

Step(st, s2, t) ==
  /\ Good(s2) /\ Told(st, s2)
  /\ \/ Rest(st, s2, {}, t)
     \/ \A k \in Key : V(s2, k) = Absent
     \/ \E k \in Key : Puts(st, s2, k, t) \/ Removes(st, s2, k, t)
     \/ \E k, d \in Key : Renames(st, s2, k, d, t)

\* At most one key is changed, reported, and put, dropped or left.
Touches(p, s2, k, t) ==
  /\ Good(s2) /\ Same(p, s2, {k}) /\ Told(p, s2)
  /\ \/ V(s2, k) \in {V(p, k), Absent}
     \/ V(s2, k) \in Entries /\ V(s2, k).expiry > t

\* Reports add up.
LEMMA ToldTwice ==
  ASSUME NEW a, NEW b, NEW c, Told(a, b), Told(b, c)
  PROVE  Told(a, c)
<1> SUFFICES ASSUME NEW n \in Key, V(c, n) # V(a, n)  PROVE n \in c.signals
  BY DEF Told
<1>1. CASE V(c, n) # V(b, n)  BY <1>1 DEF Told
<1>2. CASE V(b, n) # V(a, n)  BY <1>2 DEF Told
<1> QED  BY <1>1, <1>2

\* What comes after the keys that were due have been purged.
LEMMA TouchStep ==
  ASSUME NEW st, NEW p, NEW s2, NEW k \in Key, NEW t,
         Told(st, p), Rest(st, p, {}, t), Touches(p, s2, k, t)
  PROVE  Step(st, s2, t)
<1>1. Good(s2) /\ Told(st, s2)  BY ToldTwice DEF Touches
<1>2. Rest(st, s2, {k}, t)  BY Zenon DEF Touches, Same, Rest
<1>3. CASE V(s2, k) = V(p, k)
  <2>1. Rest(st, s2, {}, t)  BY <1>3, Zenon DEF Touches, Same, Rest
  <2> QED  BY <1>1, <2>1 DEF Step
<1>4. CASE V(s2, k) = Absent
  <2>1. Removes(st, s2, k, t)  BY <1>2, <1>4 DEF Removes
  <2> QED  BY <1>1, <2>1 DEF Step
<1>5. CASE V(s2, k) \in Entries /\ V(s2, k).expiry > t
  <2>1. Puts(st, s2, k, t)  BY <1>2, <1>5 DEF Puts
  <2> QED  BY <1>1, <2>1 DEF Step
<1> QED  BY <1>3, <1>4, <1>5 DEF Touches

\* A store that stays as it is.
LEMMA TouchNothing ==
  ASSUME NEW p, Good(p), NEW k \in Key, NEW t
  PROVE  Touches(p, p, k, t)
  BY DEF Touches, Same, Told

\* A change of one key that is reported.
LEMMA TouchSignal ==
  ASSUME NEW p, Good(p), NEW q, Good(q), NEW k \in Key, NEW t, Same(p, q, {k}),
         p.signals \subseteq q.signals,
         V(q, k) \in {V(p, k), Absent} \/ (V(q, k) \in Entries /\ V(q, k).expiry > t)
  PROVE  Touches(p, signal(q, k), k, t)
<1> DEFINE s2 == signal(q, k)
<1>1. /\ Good(s2) /\ Same(q, s2, {}) /\ s2.signals = q.signals \cup {k}
  BY SignalOp
<1> HIDE DEF s2
<1>2. Same(p, s2, {k}) /\ V(s2, k) = V(q, k)  BY <1>1, Zenon DEF Same
<1>3. Told(p, s2)
  <2>1. \A n \in Key \ {k} : V(s2, n) = V(p, n)  BY <1>2, Zenon DEF Same
  <2> QED  BY <1>1, <2>1 DEF Told
<1>4. Touches(p, s2, k, t)  BY <1>1, <1>2, <1>3 DEF Touches
<1> QED  BY <1>4 DEF s2

\* erase_key reports the key itself.
LEMMA TouchErase ==
  ASSUME NEW p, Good(p), NEW k \in Key, NEW t
  PROVE  Touches(p, erase_key(p, k), k, t) /\ ~exists(erase_key(p, k), k)
<1> DEFINE s2 == erase_key(p, k)
<1>1. /\ Good(s2) /\ Same(p, s2, {k}) /\ ~exists(s2, k)
      /\ exists(p, k) => s2.signals = p.signals \cup {k}
      /\ ~exists(p, k) => s2 = p
  BY EraseKeyOp, Zenon
<1> HIDE DEF s2
<1>2. V(s2, k) = Absent  BY <1>1 DEF V
<1>3. Told(p, s2)
  <2>1. \A n \in Key \ {k} : V(s2, n) = V(p, n)  BY <1>1, Zenon DEF Same
  <2>2. CASE exists(p, k)  BY <1>1, <2>1, <2>2 DEF Told
  <2>3. CASE ~exists(p, k)  BY <1>1, <2>3 DEF Told
  <2> QED  BY <2>2, <2>3, Zenon
<1>4. Touches(p, s2, k, t)  BY <1>1, <1>2, <1>3 DEF Touches
<1> QED  BY <1>1, <1>4, Zenon DEF s2

\* One change of a key after another.
LEMMA TouchTwice ==
  ASSUME NEW p, NEW q, NEW s2, NEW k \in Key, NEW t, Touches(p, q, k, t), Touches(q, s2, k, t)
  PROVE  Touches(p, s2, k, t)
<1>1. Good(s2) /\ Told(p, s2)  BY ToldTwice DEF Touches
<1>2. Same(p, s2, {k})  BY Zenon DEF Touches, Same
<1>3. \/ V(s2, k) \in {V(p, k), Absent}
      \/ V(s2, k) \in Entries /\ V(s2, k).expiry > t
  <2>1. CASE V(s2, k) = V(q, k)  BY <2>1 DEF Touches
  <2>2. CASE V(s2, k) # V(q, k)  BY <2>2 DEF Touches
  <2> QED  BY <2>1, <2>2
<1> QED  BY <1>1, <1>2, <1>3 DEF Touches

\* NoExpiry is after any time.
LEMMA NeverDue ==
  ASSUME NEW t \in Time
  PROVE  NoExpiry > t /\ ~(NoExpiry <= t) /\ Absent.expiry = NoExpiry /\ t \in Nat
  BY Constants DEF Time, NoExpiry, Absent

\* Purging twice is purging.
LEMMA RestTwice ==
  ASSUME NEW a, NEW b, NEW c, NEW t \in Time, Rest(a, b, {}, t), Rest(b, c, {}, t)
  PROVE  Rest(a, c, {}, t)
<1> SUFFICES ASSUME NEW n \in Key  PROVE V(c, n) \in {V(a, n), Lives(a, n, t)}
  BY Zenon DEF Rest
<1>1. V(c, n) \in {V(b, n), Lives(b, n, t)} /\ V(b, n) \in {V(a, n), Lives(a, n, t)}
  BY DEF Rest
<1>2. CASE V(b, n) = V(a, n)  BY <1>1, <1>2 DEF Lives
<1>3. CASE V(b, n) = Lives(a, n, t)
  <2>1. CASE V(a, n).expiry <= t
    <3>1. V(b, n) = Absent /\ Lives(a, n, t) = Absent  BY <2>1, <1>3 DEF Lives
    <3>2. Lives(b, n, t) = Absent  BY <3>1 DEF Lives
    <3> QED  BY <1>1, <3>1, <3>2
  <2>2. CASE ~(V(a, n).expiry <= t)
    <3>1. V(b, n) = V(a, n)  BY <2>2, <1>3 DEF Lives
    <3> QED  BY <1>2, <3>1
  <2> QED  BY <2>1, <2>2
<1> QED  BY <1>1, <1>2, <1>3

\* A key is purged before a command looks at it (purge_if_expired).
LEMMA Purged ==
  ASSUME NEW st, Good(st), NEW k \in Key, NEW t \in Time
  PROVE  LET p == purge_if_expired(st, k, t)
         IN  /\ Good(p) /\ Told(st, p) /\ Rest(st, p, {}, t) /\ Same(st, p, {k})
             /\ V(p, k) = Lives(st, k, t) /\ V(p, k).expiry > t
             /\ exists(p, k) => p = st
<1> DEFINE p == purge_if_expired(st, k, t)
<1>1. /\ Good(p) /\ Same(st, p, {k})
      /\ V(st, k).expiry <= t => ~exists(p, k) /\ p.signals = st.signals \cup {k}
      /\ ~(V(st, k).expiry <= t) => p = st
  BY PurgeOp, ZenonT(30)
<1>2. V(st, k).expiry \in Nat /\ t \in Nat  BY Seen, Constants, ZenonT(30)
<1> HIDE DEF p
<1>3. \A n \in Key \ {k} : V(p, n) = V(st, n)  BY <1>1, Zenon DEF Same
<1>4. CASE V(st, k).expiry <= t
  <2>1. V(p, k) = Absent /\ ~exists(p, k)  BY <1>1, <1>4, Zenon DEF V
  <2>2. V(p, k) = Lives(st, k, t) /\ V(p, k).expiry > t  BY <1>4, <2>1, NeverDue DEF Lives
  <2>3. Told(st, p)  BY <1>1, <1>3, <1>4, Zenon DEF Told
  <2>4. Rest(st, p, {}, t)  BY <1>3, <2>2, Zenon DEF Rest
  <2> QED  BY <1>1, <2>1, <2>2, <2>3, <2>4, Zenon DEF p
<1>5. CASE ~(V(st, k).expiry <= t)
  <2>1. p = st  BY <1>1, <1>5
  <2>2. V(p, k) = Lives(st, k, t) /\ V(p, k).expiry > t  BY <1>2, <1>5, <2>1 DEF Lives
  <2>3. Told(st, p) /\ Rest(st, p, {}, t)  BY <2>1 DEF Told, Rest
  <2> QED  BY <1>1, <2>1, <2>2, <2>3 DEF p
<1> QED  BY <1>4, <1>5, Zenon

\* An entry made of its parts.
LEMMA PairEntry ==
  ASSUME NEW v \in Value, NEW when \in Time \cup {NoExpiry}
  PROVE  Pair(v, when) \in Entries /\ Pair(v, when).value = v /\ Pair(v, when).expiry = when
  BY DEF Pair, Entries
-----------------------------------------------------------------------------
(* The methods of the store, on a key that is not due. *)

\* Store::set.
LEMMA SetTouches ==
  ASSUME NEW p, Good(p), NEW k \in Key, NEW v \in Value, NEW t \in Time
  PROVE  Touches(p, set(p, k, v), k, t)
<1>1. CASE ~Storable(p, k)
  <2>1. set(p, k, v) = p  BY <1>1 DEF set
  <2> QED  BY <2>1, TouchNothing
<1>2. CASE Storable(p, k)
  <2> DEFINE a == set_string(p, k, v)
             c == ttl_clear(a, id_of(a, k))
  <2>1. /\ Good(a) /\ Same(p, a, {k}) /\ exists(a, k) /\ a.signals = p.signals
        /\ V(a, k) = Pair(v, V(p, k).expiry)
    BY <1>2, SetStringOp, Zenon
  <2>2. V(p, k).expiry \in Time \cup {NoExpiry}  BY Seen, Zenon
  <2>3. V(a, k).value = v  BY <2>1, <2>2, PairEntry
  <2>4. set(p, k, v) = signal(c, k)  BY <1>2 DEF set
  <2> HIDE DEF a
  <2>5. /\ Good(c) /\ Same(a, c, {k}) /\ c.signals = a.signals
        /\ V(c, k) = Pair(V(a, k).value, NoExpiry)
    BY <2>1, TtlClearOp, Zenon
  <2> HIDE DEF c
  <2>6. V(c, k) \in Entries /\ V(c, k).expiry = NoExpiry  BY <2>3, <2>5, PairEntry
  <2>7. V(c, k).expiry > t  BY <2>6, NeverDue
  <2>8. Same(p, c, {k})  BY <2>1, <2>5, Zenon DEF Same
  <2>9. Touches(p, signal(c, k), k, t)  BY <2>1, <2>5, <2>6, <2>7, <2>8, TouchSignal
  <2> QED  BY <2>4, <2>9
<1> QED  BY <1>1, <1>2

\* Store::set_keep_ttl.
LEMMA SetKeepTouches ==
  ASSUME NEW p, Good(p), NEW k \in Key, NEW v \in Value, NEW t \in Time, V(p, k).expiry > t
  PROVE  Touches(p, set_keep_ttl(p, k, v), k, t)
<1>1. CASE ~Storable(p, k)
  <2>1. set_keep_ttl(p, k, v) = p  BY <1>1 DEF set_keep_ttl
  <2> QED  BY <2>1, TouchNothing
<1>2. CASE Storable(p, k)
  <2> DEFINE a == set_string(p, k, v)
  <2>1. /\ Good(a) /\ Same(p, a, {k}) /\ a.signals = p.signals
        /\ V(a, k) = Pair(v, V(p, k).expiry)
    BY <1>2, SetStringOp, Zenon
  <2>2. V(p, k).expiry \in Time \cup {NoExpiry}  BY Seen, Zenon
  <2>3. set_keep_ttl(p, k, v) = signal(a, k)  BY <1>2 DEF set_keep_ttl
  <2> HIDE DEF a
  <2>4. V(a, k) \in Entries /\ V(a, k).expiry = V(p, k).expiry  BY <2>1, <2>2, PairEntry
  <2>5. Touches(p, signal(a, k), k, t)  BY <2>1, <2>4, TouchSignal
  <2> QED  BY <2>3, <2>5
<1> QED  BY <1>1, <1>2

\* Store::expire_at_ms.
LEMMA ExpireTouches ==
  ASSUME NEW p, Good(p), NEW k \in Key, NEW when \in Time, NEW t \in Time, NEW flags
  PROVE  Touches(p, expire_at_ms(p, k, when, t, flags), k, t)
<1> DEFINE s2 == expire_at_ms(p, k, when, t, flags)
<1>1. CASE ~exists(p, k) \/ ~Applies(p.due[id_of(p, k)], when, flags)
  <2>1. s2 = p  BY <1>1, Zenon DEF expire_at_ms
  <2> QED  BY <2>1, TouchNothing
<1>2. CASE exists(p, k) /\ Applies(p.due[id_of(p, k)], when, flags) /\ when <= t
  <2>1. s2 = erase_key(p, k)  BY <1>2 DEF expire_at_ms
  <2> QED  BY <2>1, TouchErase, Zenon
<1>3. CASE exists(p, k) /\ Applies(p.due[id_of(p, k)], when, flags) /\ ~(when <= t)
  <2> DEFINE a == ttl_set(p, id_of(p, k), when)
  <2>1. s2 = signal(a, k)  BY <1>3 DEF expire_at_ms
  <2>2. /\ Good(a) /\ Same(p, a, {k}) /\ a.signals = p.signals
        /\ V(a, k) = Pair(V(p, k).value, when)
    BY <1>3, TtlSetOp, Zenon
  <2>3. V(p, k).value \in Value  BY <1>3, Seen, Zenon
  <2> HIDE DEF a
  <2>4. V(a, k) \in Entries /\ V(a, k).expiry = when  BY <2>2, <2>3, PairEntry
  <2>5. V(a, k).expiry > t  BY <2>4, <1>3, Constants
  <2>6. Touches(p, signal(a, k), k, t)  BY <2>2, <2>4, <2>5, TouchSignal
  <2> QED  BY <2>1, <2>6
<1> QED  BY <1>1, <1>2, <1>3, Zenon

\* Store::persist.
LEMMA PersistTouches ==
  ASSUME NEW p, Good(p), NEW k \in Key, NEW t \in Time
  PROVE  Touches(p, persist(p, k), k, t)
<1>1. CASE ~(exists(p, k) /\ p.due[id_of(p, k)] # NoExpiry)
  <2>1. persist(p, k) = p  BY <1>1, Zenon DEF persist
  <2> QED  BY <2>1, TouchNothing
<1>2. CASE exists(p, k) /\ p.due[id_of(p, k)] # NoExpiry
  <2> DEFINE c == ttl_clear(p, id_of(p, k))
  <2>1. persist(p, k) = signal(c, k)  BY <1>2 DEF persist
  <2>2. /\ Good(c) /\ Same(p, c, {k}) /\ c.signals = p.signals
        /\ V(c, k) = Pair(V(p, k).value, NoExpiry)
    BY <1>2, TtlClearOp, Zenon
  <2>3. V(p, k).value \in Value  BY <1>2, Seen, Zenon
  <2> HIDE DEF c
  <2>4. V(c, k) \in Entries /\ V(c, k).expiry = NoExpiry  BY <2>2, <2>3, PairEntry
  <2>5. V(c, k).expiry > t  BY <2>4, NeverDue
  <2>6. Touches(p, signal(c, k), k, t)  BY <2>2, <2>4, <2>5, TouchSignal
  <2> QED  BY <2>1, <2>6
<1> QED  BY <1>1, <1>2, Zenon

\* rollback_created_key undoes push_back_key.
LEMMA RollbackTouches ==
  ASSUME NEW p, Good(p), NEW k \in Key, ~exists(p, k), p.size <= MaxKeyId, NEW v \in Value,
         NEW t \in Time
  PROVE  Touches(p, rollback_created_key(create_key(p, k, v)), k, t)
<1> DEFINE c == create_key(p, k, v)
           s2 == rollback_created_key(c)
           n0 == p.size
           slot2 == [i \in 0 .. n0 - 1 |-> c.slot[i]]
           where2 == [c.where EXCEPT ![k] = npos]
<1>1. /\ Good(c) /\ Same(p, c, {k}) /\ c.signals = p.signals
      /\ c.size = n0 + 1 /\ c.slot[n0].key = k /\ c.due[n0] = NoExpiry
  BY CreateOp, ZenonT(30)
<1> HIDE DEF c
<1>2. c \in Store /\ Named(c.size, c.slot, c.where) /\ Live(c.due, c.size)  BY <1>1 DEF Good
<1>3. /\ n0 \in Nat /\ n0 \in Id /\ n0 \in 0 .. c.size - 1
      /\ c.size - 1 = n0 /\ c.size - 2 = n0 - 1
  <2>1. p.size \in 0 .. MaxKeyId + 1  BY DEF Good, Store
  <2> QED  BY <2>1, <1>1, Constants DEF Id
<1>4. Named(n0, slot2, where2)
  <2>1. c.where \in [Key -> Id \cup {npos}]  BY <1>2 DEF Named
  <2>2. Named(c.size - 1,
              [i \in 0 .. c.size - 2 |-> IF i = n0 THEN c.slot[c.size - 1] ELSE c.slot[i]],
              [[c.where EXCEPT ![c.slot[c.size - 1].key] = n0] EXCEPT ![c.slot[n0].key] = npos])
    BY <1>2, <1>3, EraseNamed
  <2>3. [i \in 0 .. c.size - 2 |-> IF i = n0 THEN c.slot[c.size - 1] ELSE c.slot[i]] = slot2
    BY <1>3
  <2>4. [[c.where EXCEPT ![c.slot[c.size - 1].key] = n0] EXCEPT ![c.slot[n0].key] = npos] = where2
    BY <1>1, <1>3, <2>1
  <2> QED  BY <2>2, <2>3, <2>4, <1>3
<1>5. s2 = With(c, n0, slot2, where2)
  BY <1>1, <1>2, <1>3, Zenon DEF rollback_created_key, With, Store
<1>6. Live(c.due, n0)
  <2> SUFFICES ASSUME NEW i \in Id, c.due[i] # NoExpiry  PROVE i < n0
    BY DEF Live
  <2>1. i # n0 /\ i < c.size /\ i \in Nat  BY <1>1, <1>2, Constants DEF Live
  <2> QED  BY <2>1, <1>1, <1>3
<1>7. c.where \in [Key -> Id \cup {npos}]  BY <1>2 DEF Named
<1>8. where2[k] = npos /\ \A n \in Key \ {k} : where2[n] = c.where[n]  BY <1>7
<1>9. \A i \in 0 .. n0 - 1 : slot2[i] = c.slot[i]  OBVIOUS
<1> HIDE DEF s2, slot2, where2
<1>10. /\ Good(s2) /\ s2.signals = c.signals /\ s2.slot = slot2 /\ s2.where = where2
       /\ s2.due = c.due
  <2> HIDE DEF n0
  <2>1. Good(c) /\ n0 \in Nat  BY <1>1, <1>3
  <2> QED  BY <2>1, <1>4, <1>5, <1>6, Rebuilt
<1>11. Same(c, s2, {k})
  <2> SUFFICES ASSUME NEW n \in Key \ {k}
               PROVE  (exists(s2, n) <=> exists(c, n)) /\ V(s2, n) = V(c, n)
    BY Zenon DEF Same
  <2>1. s2.where[n] = c.where[n]  BY <1>8, <1>10
  <2>2. ASSUME exists(c, n)  PROVE slot2[id_of(c, n)] = c.slot[id_of(c, n)]
    <3>1. id_of(c, n) \in 0 .. c.size - 1 /\ c.slot[id_of(c, n)].key = n
      BY <1>1, <2>2, Found, Zenon
    <3>2. id_of(c, n) # n0  BY <3>1, <1>1
    <3>3. id_of(c, n) \in 0 .. n0 - 1  BY <3>1, <3>2, <1>3
    <3> QED  BY <3>3, <1>9
  <2> QED  BY <2>1, <2>2, <1>10 DEF exists, V, id_of
<1>12. Same(p, s2, {k})  BY <1>1, <1>11, Zenon DEF Same
<1>13. V(s2, k) = Absent /\ V(p, k) = Absent  BY <1>8, <1>10 DEF V, exists
<1>14. Told(p, s2)  BY <1>1, <1>10, <1>12, <1>13, Zenon DEF Told, Same
<1>15. Touches(p, s2, k, t)  BY <1>10, <1>12, <1>13, <1>14 DEF Touches
<1> QED  BY <1>15 DEF s2, c

\* RENAME and RENAMENX (Store::rename), which purge both keys first.
LEMMA RenameStep ==
  ASSUME NEW st, Good(st), NEW k \in Key, NEW d \in Key, NEW nx \in BOOLEAN, NEW t \in Time
  PROVE  Step(st, rename(st, k, d, nx, t), t)
<1> DEFINE s2 == rename(st, k, d, nx, t)
           source == purge_if_expired(st, k, t)
           both == purge_if_expired(source, d, t)
           e == erase_key(both, d)
           r == rename_key(e, k, d)
           s1 == signal(r, k)
<1>1. s2 = IF ~exists(source, k) \/ k = d THEN source
           ELSE IF nx /\ exists(both, d) THEN both
           ELSE signal(s1, d)
  BY DEF rename
<1>2. /\ Good(source) /\ Told(st, source) /\ Rest(st, source, {}, t) /\ Same(st, source, {k})
      /\ V(source, k) = Lives(st, k, t) /\ V(source, k).expiry > t
  BY Purged, Zenon
<1> HIDE DEF source
<1>3. /\ Good(both) /\ Told(source, both) /\ Rest(source, both, {}, t)
      /\ Same(source, both, {d})
  BY <1>2, Purged, Zenon
<1>4. Told(st, both) /\ Rest(st, both, {}, t)  BY <1>2, <1>3, ToldTwice, RestTwice
<1> HIDE DEF both
<1>5. CASE ~exists(source, k) \/ k = d  BY <1>1, <1>2, <1>5, Zenon DEF Step
<1>6. CASE exists(source, k) /\ k # d /\ nx /\ exists(both, d)
  BY <1>1, <1>3, <1>4, <1>6 DEF Step
<1>7. CASE exists(source, k) /\ k # d /\ ~(nx /\ exists(both, d))
  <2>1. Touches(both, e, d, t) /\ ~exists(e, d)  BY <1>3, TouchErase, Zenon
  <2>2. Good(e) /\ Same(both, e, {d}) /\ Told(both, e)  BY <2>1 DEF Touches
  <2> HIDE DEF e
  <2>3. exists(e, k) /\ V(e, k) = V(source, k)  BY <1>3, <1>7, <2>2, Zenon DEF Same
  <2>4. /\ Good(r) /\ Same(e, r, {k, d}) /\ ~exists(r, k)
        /\ V(r, d) = V(e, k) /\ r.signals = e.signals
    BY <1>7, <2>1, <2>2, <2>3, RenameKeyOp, Zenon
  <2> HIDE DEF r
  <2>5. Good(s1) /\ Same(r, s1, {}) /\ s1.signals = r.signals \cup {k}  BY <2>4, SignalOp
  <2> HIDE DEF s1
  <2>6. s2 = signal(s1, d)  BY <1>1, <1>7, Zenon
  <2> HIDE DEF s2
  <2>7. Good(s2) /\ Same(s1, s2, {}) /\ s2.signals = s1.signals \cup {d}
    BY <2>5, <2>6, SignalOp
  <2>8. Same(e, s2, {k, d}) /\ V(s2, k) = V(r, k) /\ V(s2, d) = V(r, d)
    BY <2>4, <2>5, <2>7, Zenon DEF Same
  <2>9. V(s2, k) = Absent /\ V(s2, d) = Lives(st, k, t)
    BY <1>2, <2>3, <2>4, <2>8, Zenon DEF V
  <2>10. Told(e, s2)
    <3>1. \A n \in Key \ {k, d} : V(s2, n) = V(e, n)  BY <2>8, Zenon DEF Same
    <3>2. s2.signals = e.signals \cup {k, d}  BY <2>4, <2>5, <2>7
    <3> QED  BY <3>1, <3>2 DEF Told
  <2>11. Told(st, s2)  BY <1>4, <2>2, <2>10, ToldTwice
  <2>12. Rest(st, s2, {k, d}, t)
    <3>1. \A n \in Key \ {k, d} : V(s2, n) = V(both, n)  BY <2>2, <2>8, ZenonT(30) DEF Same
    <3> QED  BY <3>1, <1>4, Zenon DEF Rest
  <2>13. Lives(st, k, t).value \in Value  BY <1>2, <1>7, Seen, Zenon
  <2>14. Renames(st, s2, k, d, t)  BY <1>7, <2>9, <2>12, <2>13, Zenon DEF Renames
  <2>15. Step(st, s2, t)  BY <2>7, <2>11, <2>14 DEF Step
  <2> QED  BY <2>15 DEF s2
<1> QED  BY <1>5, <1>6, <1>7, Zenon

\* The deadline COPY reads by an id it looked up before the destination was purged: the
\* id may be another key's by then or nobody's, but what it reads is the source's deadline
\* or none.
LEMMA StaleExpiry ==
  ASSUME NEW st, Good(st), NEW k \in Key, NEW d \in Key, k # d, exists(st, k), NEW t \in Time
  PROVE  purge_if_expired(st, d, t).due[id_of(st, k)] \in {V(st, k).expiry, NoExpiry}
<1> DEFINE both == purge_if_expired(st, d, t)
           id == id_of(st, k)
<1>1. st.due[id] = V(st, k).expiry /\ id \in Id  BY Seen, Found, Zenon
<1>2. CASE V(st, d).expiry <= t
  <2>1. exists(st, d)  BY <1>2, Seen, NeverDue, Zenon
  <2>2. id # id_of(st, d)  BY <2>1, Apart, Zenon
  <2>3. \A i \in Id \ {id_of(st, d)} : both.due[i] \in {st.due[i], NoExpiry}
    BY <2>1, PurgeOp, Zenon
  <2> HIDE DEF both, id
  <2>4. both.due[id] \in {st.due[id], NoExpiry}  BY <1>1, <2>2, <2>3
  <2>5. both.due[id] \in {V(st, k).expiry, NoExpiry}  BY <1>1, <2>4
  <2> QED  BY <2>5 DEF both, id
<1>3. CASE ~(V(st, d).expiry <= t)
  <2>1. both = st  BY <1>3, Seen, Zenon DEF purge_if_expired
  <2> QED  BY <1>1, <2>1
<1> QED  BY <1>2, <1>3

\* COPY (Store::copy) purges both keys and then changes at most the destination.
LEMMA CopyTouches ==
  ASSUME NEW st, Good(st), NEW k \in Key, NEW d \in Key, NEW replace \in BOOLEAN, NEW t \in Time
  PROVE  \E b : /\ Told(st, b) /\ Rest(st, b, {}, t)
                /\ Touches(b, copy(st, k, d, replace, t), d, t)
<1> DEFINE s2 == copy(st, k, d, replace, t)
           source == purge_if_expired(st, k, t)
           source_id == id_of(source, k)
           both == purge_if_expired(source, d, t)
           expiry == both.due[source_id]
           e == erase_key(both, d)
           val == both.slot[id_of(both, k)].value
           copied == set_string(e, d, val)
           q == ttl_set(copied, id_of(copied, d), expiry)
<1>1. s2 = IF k = d THEN st
           ELSE IF ~exists(source, k) THEN source
           ELSE IF (~replace /\ exists(both, d)) \/ ~Storable(both, d) THEN both
           ELSE IF expiry = NoExpiry THEN signal(copied, d)
           ELSE signal(q, d)
  BY Zenon DEF copy
<1> HIDE DEF s2
<1>2. Told(st, st) /\ Rest(st, st, {}, t)  BY DEF Told, Rest
<1>3. /\ Good(source) /\ Told(st, source) /\ Rest(st, source, {}, t)
      /\ V(source, k).expiry > t
  BY Purged, Zenon
<1>4. k # d /\ exists(source, k) => expiry \in {V(source, k).expiry, NoExpiry}
  BY <1>3, StaleExpiry, Zenon
<1> HIDE DEF source
<1>5. /\ Good(both) /\ Told(source, both) /\ Rest(source, both, {}, t)
      /\ Same(source, both, {d})
  BY <1>3, Purged, Zenon
<1>6. Told(st, both) /\ Rest(st, both, {}, t)  BY <1>3, <1>5, ToldTwice, RestTwice
<1> HIDE DEF both
<1>7. CASE k = d
  <2>1. Touches(st, s2, d, t)  BY <1>1, <1>7, TouchNothing
  <2> QED  BY <1>2, <2>1, Zenon DEF s2
<1>8. CASE k # d /\ ~exists(source, k)
  <2>1. Touches(source, s2, d, t)  BY <1>1, <1>3, <1>8, TouchNothing
  <2> QED  BY <1>3, <2>1, SMTT(30) DEF s2
<1>9. CASE k # d /\ exists(source, k) /\ ((~replace /\ exists(both, d)) \/ ~Storable(both, d))
  <2>1. Touches(both, s2, d, t)  BY <1>1, <1>5, <1>9, TouchNothing, Zenon
  <2> QED  BY <1>6, <2>1, SMTT(30) DEF s2
<1>10. CASE k # d /\ exists(source, k) /\ Storable(both, d) /\ (replace \/ ~exists(both, d))
  <2>1. /\ Touches(both, e, d, t) /\ ~exists(e, d)
    BY <1>5, TouchErase, Zenon
  <2>2. Good(e)  BY <2>1 DEF Touches
  <2>3. Storable(e, d)
    <3>1. /\ exists(both, d) => e.size = both.size - 1
          /\ ~exists(both, d) => e = both
      BY <1>5, EraseKeyOp, Zenon
    <3>2. both.size \in 0 .. MaxKeyId + 1  BY <1>5 DEF Good, Store
    <3>3. CASE exists(both, d)
      <4>1. e.size = both.size - 1  BY <3>1, <3>3
      <4>2. e.size <= MaxKeyId  BY <3>2, <4>1, Constants
      <4> QED  BY <4>2, Zenon DEF Storable
    <3>4. CASE ~exists(both, d)  BY <1>10, <3>1, <3>4
    <3> QED  BY <3>3, <3>4, Zenon
  <2>4. val \in Value
    <3>1. exists(both, k)  BY <1>5, <1>10, Zenon DEF Same
    <3> QED  BY <1>5, <3>1, Seen, Zenon
  <2>5. V(e, d) = Absent /\ V(e, d).expiry = NoExpiry  BY <2>1, <2>2, Seen, Zenon
  <2> HIDE DEF e, val
  <2>6. /\ Good(copied) /\ Same(e, copied, {d}) /\ exists(copied, d) /\ copied.signals = e.signals
        /\ V(copied, d) = Pair(val, NoExpiry)
    <3>1. V(copied, d) = Pair(val, V(e, d).expiry)  BY <2>2, <2>3, <2>4, SetStringOp, Zenon
    <3> QED  BY <2>2, <2>3, <2>4, <2>5, <3>1, SetStringOp, Zenon
  <2>7. V(copied, d).value = val  BY <2>4, <2>6, PairEntry
  <2> HIDE DEF copied
  <2>8. CASE expiry = NoExpiry
    <3>1. s2 = signal(copied, d)  BY <1>1, <1>10, <2>8, Zenon
    <3>2. V(copied, d) \in Entries /\ V(copied, d).expiry > t
      BY <2>4, <2>6, PairEntry, NeverDue, Zenon
    <3>3. Touches(e, s2, d, t)  BY <2>2, <2>6, <3>1, <3>2, TouchSignal
    <3>4. Touches(both, s2, d, t)  BY <2>1, <3>3, TouchTwice
    <3> QED  BY <1>6, <3>4 DEF s2
  <2>9. CASE expiry # NoExpiry
    <3>1. s2 = signal(q, d)  BY <1>1, <1>10, <2>9, Zenon
    <3>2. expiry = V(source, k).expiry  BY <1>4, <1>10, <2>9, Zenon
    <3>3. expiry \in Time /\ expiry > t
      <4>1. V(source, k).expiry \in Time \cup {NoExpiry}  BY <1>3, Seen, Zenon
      <4> QED  BY <1>3, <2>9, <3>2, <4>1
    <3> HIDE DEF expiry
    <3>4. /\ Good(q) /\ Same(copied, q, {d}) /\ q.signals = copied.signals
          /\ V(q, d) = Pair(V(copied, d).value, expiry)
      BY <2>6, <3>3, TtlSetOp, Zenon
    <3> HIDE DEF q
    <3>5. Same(e, q, {d})  BY <2>6, <3>4, Zenon DEF Same
    <3>6. V(q, d) = Pair(val, expiry)  BY <2>7, <3>4
    <3>7. V(q, d) \in Entries /\ V(q, d).expiry > t  BY <2>4, <3>3, <3>6, PairEntry, Zenon
    <3>8. Touches(e, s2, d, t)  BY <2>2, <2>6, <3>1, <3>4, <3>5, <3>7, TouchSignal, SMTT(30)
    <3>9. Touches(both, s2, d, t)  BY <2>1, <3>8, TouchTwice
    <3> QED  BY <1>6, <3>9 DEF s2
  <2> QED  BY <2>8, <2>9
<1> QED  BY <1>7, <1>8, <1>9, <1>10, Zenon

\* A store without keys (Store::clear), all of them reported.
LEMMA ClearOp == Good(clear) /\ clear.signals = Key /\ \A k \in Key : V(clear, k) = Absent
<1>1. [i \in {} |-> {}] \in [0 .. 0 - 1 -> Slot]
  <2>1. 0 .. 0 - 1 = {}  OBVIOUS
  <2> QED  BY <2>1
<1>2. /\ [k \in Key |-> npos] \in [Key -> Id \cup {npos}]
      /\ [i \in Id |-> NoExpiry] \in Due /\ [e \in Time \X Id |-> 0] \in Order
  BY DEF Due, Order
<1>3. [i \in {} |-> {}] \in Table  BY <1>1, TableType, Zenon
<1>4. 0 \in 0 .. MaxKeyId + 1  BY Constants
<1>5. clear \in Store  BY <1>2, <1>3, <1>4 DEF clear, Store
<1>6. Named(0, [i \in {} |-> {}], [k \in Key |-> npos])  BY <1>1, <1>2, <1>4 DEF Named
<1>7. Mirrors([i \in Id |-> NoExpiry], [e \in Time \X Id |-> 0])
  BY <1>2, Constants DEF Mirrors
<1>8. Live([i \in Id |-> NoExpiry], 0)  BY SMTT(30) DEF Live
<1>9. Good(clear)  BY <1>5, <1>6, <1>7, <1>8, Zenon DEF Good, clear
<1> QED  BY <1>9, Zenon DEF clear, V, exists

\* Every command starts from the same keys, with nothing reported.
LEMMA StartOp ==
  ASSUME Good(store)
  PROVE  Good(Start) /\ Start.signals = {} /\ \A n \in Key : V(Start, n) = V(store, n)
<1>1. store \in Store  BY DEF Good
<1>2. /\ Start \in Store /\ Start.signals = {} /\ Start.size = store.size
      /\ Start.slot = store.slot /\ Start.where = store.where
      /\ Start.due = store.due /\ Start.order = store.order
  BY <1>1 DEF Start, Store
<1>3. Good(Start)  BY <1>2 DEF Good
<1> QED  BY <1>2, <1>3 DEF V, exists, id_of
-----------------------------------------------------------------------------
(* The commands. *)

\* What a purge and then a change of one key make.
LEMMA PurgeTouch ==
  ASSUME NEW st, Good(st), NEW k \in Key, NEW t \in Time, NEW s2,
         Touches(purge_if_expired(st, k, t), s2, k, t)
  PROVE  Step(st, s2, t)
<1> DEFINE p == purge_if_expired(st, k, t)
<1>1. Told(st, p) /\ Rest(st, p, {}, t)  BY Purged, Zenon
<1>2. Touches(p, s2, k, t)  OBVIOUS
<1> HIDE DEF p
<1> QED  BY <1>1, <1>2, TouchStep

\* SET (set_command).
LEMMA SetStep ==
  ASSUME Good(store), clock \in Time, NEW k \in Key, NEW v \in Value,
         NEW nx \in BOOLEAN, NEW xx \in BOOLEAN, NEW keepttl \in BOOLEAN,
         NEW when \in Time \cup {NoExpiry}, set_command(k, v, nx, xx, keepttl, when)
  PROVE  Step(Start, store', clock)
<1> DEFINE p == purge_if_expired(Start, k, clock)
           stored == IF keepttl THEN set_keep_ttl(p, k, v) ELSE set(p, k, v)
           timed == expire_at_ms(stored, k, when, clock, {})
<1>1. Good(Start)  BY StartOp
<1>2. Good(p) /\ V(p, k).expiry > clock  BY <1>1, Purged, Zenon
<1>3. \/ store' = p \/ store' = stored
      \/ store' = timed /\ when # NoExpiry
  BY Zenon DEF set_command, Run
<1>4. Touches(p, stored, k, clock)
  <2> HIDE DEF p
  <2>1. CASE keepttl  BY <1>2, <2>1, SetKeepTouches
  <2>2. CASE ~keepttl  BY <1>2, <2>2, SetTouches
  <2> QED  BY <2>1, <2>2
<1> HIDE DEF stored
<1>5. Good(stored)  BY <1>4 DEF Touches
<1>6. CASE store' = p
  <2>1. Touches(p, store', k, clock)  BY <1>2, <1>6, TouchNothing
  <2> QED  BY <1>1, <2>1, PurgeTouch
<1>7. CASE store' = stored
  <2>1. Touches(p, store', k, clock)  BY <1>4, <1>7
  <2> QED  BY <1>1, <2>1, PurgeTouch
<1>8. CASE store' = timed /\ when # NoExpiry
  <2>1. when \in Time  BY <1>8
  <2>2. Touches(stored, store', k, clock)  BY <1>5, <1>8, <2>1, ExpireTouches
  <2>3. Touches(p, store', k, clock)  BY <1>4, <2>2, TouchTwice
  <2> QED  BY <1>1, <2>3, PurgeTouch
<1> QED  BY <1>3, <1>6, <1>7, <1>8

\* The commands that name one key.
LEMMA KeyStep ==
  ASSUME Good(store), clock \in Time, NEW k \in Key,
         \/ get_command(k) \/ del_command(k) \/ persist_command(k)
         \/ \E v \in Value : set_throws(k, v)
         \/ \E when \in Time, flags \in Flags : expire_command(k, when, flags)
  PROVE  Step(Start, store', clock)
<1> DEFINE p == purge_if_expired(Start, k, clock)
<1>1. Good(Start)  BY StartOp
<1>2. Good(p)  BY <1>1, Purged, Zenon
<1> SUFFICES Touches(p, store', k, clock)  BY <1>1, PurgeTouch
<1>3. CASE get_command(k)
  <2>1. store' = p  BY <1>3 DEF get_command, Run
  <2> QED  BY <1>2, <2>1, TouchNothing
<1>4. CASE del_command(k)
  <2>1. store' = erase_key(p, k)  BY <1>4 DEF del_command, Run
  <2> QED  BY <1>2, <2>1, TouchErase, Zenon
<1>5. CASE persist_command(k)
  <2>1. store' = persist(p, k)  BY <1>5 DEF persist_command, Run
  <2> QED  BY <1>2, <2>1, PersistTouches
<1>6. ASSUME NEW v \in Value, set_throws(k, v)  PROVE Touches(p, store', k, clock)
  <2>1. /\ store' = rollback_created_key(create_key(p, k, v))
        /\ ~exists(p, k) /\ Storable(p, k)
    BY <1>6, Zenon DEF set_throws, Run
  <2>2. p.size <= MaxKeyId  BY <2>1, Zenon DEF Storable
  <2> QED  BY <1>2, <2>1, <2>2, RollbackTouches, Zenon
<1>7. ASSUME NEW when \in Time, NEW flags \in Flags, expire_command(k, when, flags)
      PROVE  Touches(p, store', k, clock)
  <2>1. store' = expire_at_ms(p, k, when, clock, flags)  BY <1>7 DEF expire_command, Run
  <2> QED  BY <1>2, <2>1, ExpireTouches
<1> QED  BY <1>3, <1>4, <1>5, <1>6, <1>7, SMTT(30)

\* The commands that name two keys, and the load that clears them all.
LEMMA TwoKeyStep ==
  ASSUME Good(store), clock \in Time, NEW k \in Key, NEW d \in Key, NEW option \in BOOLEAN,
         rename_command(k, d, option) \/ rename_throws(k, d) \/ copy_command(k, d, option)
  PROVE  Step(Start, store', clock)
<1> DEFINE p == purge_if_expired(Start, k, clock)
           both == purge_if_expired(p, d, clock)
<1>1. Good(Start)  BY StartOp
<1>2. Good(p) /\ Told(Start, p) /\ Rest(Start, p, {}, clock)  BY <1>1, Purged, Zenon
<1>3. CASE rename_command(k, d, option)
  <2>1. store' = rename(Start, k, d, option, clock)  BY <1>3 DEF rename_command, Run
  <2> QED  BY <1>1, <2>1, RenameStep
<1>4. CASE rename_throws(k, d)
  <2>1. store' = erase_key(both, d)  BY <1>4 DEF rename_throws, Run
  <2>2. Good(both)  BY <1>2, Purged, Zenon
  <2>3. Touches(both, store', d, clock)  BY <2>1, <2>2, TouchErase, Zenon
  <2>4. Told(p, both) /\ Rest(p, both, {}, clock)  BY <1>2, Purged, Zenon
  <2> HIDE DEF p, both
  <2>5. Told(Start, both) /\ Rest(Start, both, {}, clock)  BY <1>2, <2>4, ToldTwice, RestTwice
  <2> QED  BY <2>3, <2>5, TouchStep
<1>5. CASE copy_command(k, d, option)
  <2>1. store' = copy(p, k, d, option, clock)  BY <1>5 DEF copy_command, Run
  <2>2. PICK b : /\ Told(p, b) /\ Rest(p, b, {}, clock)
                 /\ Touches(b, copy(p, k, d, option, clock), d, clock)
    BY <1>2, CopyTouches
  <2>3. Touches(b, store', d, clock)  BY <2>1, <2>2
  <2> HIDE DEF p
  <2>4. Told(Start, b) /\ Rest(Start, b, {}, clock)  BY <1>2, <2>2, ToldTwice, RestTwice
  <2> QED  BY <2>3, <2>4, TouchStep
<1> QED  BY <1>3, <1>4, <1>5

\* GOBLIN.LOAD of a damaged file (load_fails).
LEMMA LoadStep ==
  ASSUME Good(store), load_fails
  PROVE  Step(Start, store', clock)
<1>1. store' = clear  BY DEF load_fails, Run
<1>2. Good(Start)  BY StartOp
<1>3. Start.signals \subseteq Key  BY <1>2 DEF Good, Store
<1>4. Told(Start, store')  BY <1>1, <1>3, ClearOp DEF Told
<1>5. Good(store') /\ \A n \in Key : V(store', n) = Absent  BY <1>1, ClearOp
<1> QED  BY <1>4, <1>5 DEF Step
-----------------------------------------------------------------------------
(* expire_due. *)

\* The store when the front of the order has been taken out of TtlSet.
Popped(st, e) == [st EXCEPT !.order = erase_one(@, e), !.due[e[2]] = NoExpiry]

\* Its fields.
LEMMA PoppedFields ==
  ASSUME NEW st, Good(st), NEW id \in Id, st.due[id] # NoExpiry, NEW p,
         p = Popped(st, <<st.due[id], id>>)
  PROVE  /\ Good(p) /\ p.size = st.size /\ p.slot = st.slot /\ p.where = st.where
         /\ p.signals = st.signals /\ p.due[id] = NoExpiry
         /\ \A i \in Id : i # id => p.due[i] = st.due[i]
<1> DEFINE due2 == [st.due EXCEPT ![id] = NoExpiry]
           order2 == erase_one(st.order, <<st.due[id], id>>)
<1>1. st \in Store /\ Mirrors(st.due, st.order) /\ Live(st.due, st.size)  BY DEF Good
<1>2. Mirrors(due2, order2)  BY <1>1, EraseMirrors, Zenon
<1>3. due2 \in Due /\ order2 \in Order  BY <1>2 DEF Mirrors
<1>4. due2[id] = NoExpiry /\ \A i \in Id : i # id => due2[i] = st.due[i]
  BY <1>1 DEF Store, Due
<1>5. p = [st EXCEPT !.order = order2, !.due = due2]  BY <1>1 DEF Popped, Store
<1> HIDE DEF due2, order2
<1>6. /\ p \in Store /\ p.size = st.size /\ p.slot = st.slot /\ p.where = st.where
      /\ p.signals = st.signals /\ p.due = due2 /\ p.order = order2
  BY <1>1, <1>3, <1>5, ZenonT(30) DEF Store
<1>7. Live(p.due, p.size)  BY <1>1, <1>4, <1>6 DEF Live
<1>8. Good(p)  BY <1>2, <1>6, <1>7 DEF Good
<1> QED  BY <1>4, <1>6, <1>8

\* Once TtlSet does not hold a key, erasing its slot is erasing it.
LEMMA EraseFound ==
  ASSUME NEW p, Good(p), NEW k \in Key, exists(p, k), p.due[id_of(p, k)] = NoExpiry
  PROVE  erase_keyspace_at(p, id_of(p, k)) = erase_key(p, k)
  BY Zenon DEF erase_key, ttl_clear

\* One turn of expire_due erases one key, which is due.
LEMMA ExpireOp ==
  ASSUME NEW st, Good(st), NEW id \in Id, st.due[id] \in Time, NEW t \in Time, st.due[id] <= t,
         NEW p, p = Popped(st, <<st.due[id], id>>), NEW s2, s2 = erase_keyspace_at(p, id)
  PROVE  /\ Good(s2) /\ Told(st, s2) /\ Rest(st, s2, {}, t)
         /\ \E k \in Key : V(s2, k) # V(st, k)
<1>1. st.due[id] # NoExpiry  BY Constants, Zenon
<1>2. /\ Good(p) /\ p.size = st.size /\ p.slot = st.slot /\ p.where = st.where
      /\ p.signals = st.signals /\ p.due[id] = NoExpiry
      /\ \A i \in Id : i # id => p.due[i] = st.due[i]
  BY <1>1, PoppedFields, SMTT(30)
<1>3. id < st.size /\ st.size \in Nat
  BY <1>1 DEF Good, Live, Named
<1>4. id \in 0 .. st.size - 1  BY <1>3, Constants, SMTT(30) DEF Id
<1>5. PICK k \in Key : st.slot[id].key = k /\ st.where[k] = id
  BY <1>4, Zenon DEF Good, Named, Slot
<1>6. exists(st, k) /\ id_of(st, k) = id  BY <1>5, Constants, SMTT(30) DEF exists, id_of
<1>7. Same(st, p, {k}) /\ exists(p, k)  BY <1>2, <1>5, <1>6, SameElsewhere, ZenonT(30)
<1>8. Good(s2) /\ Same(p, s2, {k}) /\ ~exists(s2, k) /\ s2.signals = p.signals \cup {k}
  <2>1. id_of(p, k) = id  BY <1>2, <1>6 DEF id_of
  <2>2. Good(p) /\ p.due[id_of(p, k)] = NoExpiry /\ s2 = erase_keyspace_at(p, id_of(p, k))
    BY <1>2, <2>1
  <2>3. s2 = erase_key(p, k)  BY <1>7, <2>2, EraseFound, ZenonT(30)
  <2>4. Good(p) /\ exists(p, k)  BY <1>2, <1>7
  <2>5. LET r == erase_key(p, k)
        IN  Good(r) /\ Same(p, r, {k}) /\ ~exists(r, k) /\ r.signals = p.signals \cup {k}
    BY <2>4, EraseKeyOp, Zenon
  <2> QED  BY <2>3, <2>5, Zenon
<1>9. Same(st, s2, {k}) /\ s2.signals = st.signals \cup {k}  BY <1>2, <1>7, <1>8, Zenon DEF Same
<1>10. Told(st, s2)  BY <1>9, ZenonT(30) DEF Told, Same
<1>11. V(s2, k) = Absent /\ V(st, k).expiry = st.due[id]
  <2>1. V(s2, k) = Absent  BY <1>8, SMTT(30) DEF V
  <2>2. V(st, k).expiry = st.due[id_of(st, k)]  BY <1>5, <1>6, Seen, Zenon
  <2> QED  BY <1>6, <2>1, <2>2, Zenon
<1>12. V(s2, k) = Lives(st, k, t)  BY <1>11 DEF Lives
<1>13. Rest(st, s2, {}, t)  BY <1>9, <1>12, Zenon DEF Rest, Same
<1>14. V(s2, k) # V(st, k)
  <2>1. Absent.expiry = NoExpiry  BY NeverDue
  <2> QED  BY <1>1, <1>11, <2>1
<1> QED  BY <1>5, <1>8, <1>10, <1>13, <1>14, Zenon

\* The front of the order is a deadline of the index.
LEMMA SoonestDue ==
  ASSUME Good(store), NEW e \in Soonest
  PROVE  e[1] \in Time /\ e[2] \in Id /\ e = <<e[1], e[2]>> /\ store.due[e[2]] = e[1]
<1>1. e \in Time \X Id /\ store.order[e] > 0  BY DEF Soonest
<1>2. e[1] \in Time /\ e[2] \in Id /\ e = <<e[1], e[2]>>  BY <1>1
<1>3. store.order[<<e[1], e[2]>>] = IF store.due[e[2]] = e[1] THEN 1 ELSE 0
  BY <1>2 DEF Good, Mirrors
<1>4. store.order[<<e[1], e[2]>>] > 0  BY <1>1, <1>2, SMTT(30)
<1> QED  BY <1>2, <1>3, <1>4

\* A turn of active_expire's loop (expire_due).
LEMMA ExpireStep ==
  ASSUME Good(store), clock \in Time, now \in Time, now <= clock, expire_due
  PROVE  /\ Step(Start, store', clock)
         /\ \/ left' = 0 /\ store' = Start /\ \A e \in Soonest : e[1] > now
            \/ left' = left - 1 /\ \E k \in Key : V(store', k) # V(store, k)
<1>1. Good(Start) /\ \A n \in Key : V(Start, n) = V(store, n)  BY StartOp
<1>2. CASE (\A e \in Soonest : e[1] > now) /\ left' = 0 /\ store' = Start
  <2>1. Step(Start, Start, clock)  BY <1>1 DEF Step, Told, Rest
  <2> QED  BY <1>2, <2>1, Zenon
<1>3. CASE \E e \in Soonest :
             /\ e[1] <= now /\ left' = left - 1
             /\ store' = erase_keyspace_at(Popped(Start, e), e[2])
  <2>1. PICK e \in Soonest :
             /\ e[1] <= now /\ left' = left - 1
             /\ store' = erase_keyspace_at(Popped(Start, e), e[2])
    BY <1>3
  <2>2. e[1] \in Time /\ e[2] \in Id /\ e = <<e[1], e[2]>> /\ store.due[e[2]] = e[1]
    BY SoonestDue
  <2>3. Start.due = store.due
    <3>1. store \in Store  BY DEF Good
    <3> QED  BY <3>1 DEF Start, Store
  <2>4. Start.due[e[2]] = e[1] /\ e[1] <= clock
    <3>1. e[1] \in Nat /\ now \in Nat /\ clock \in Nat  BY <2>2, Constants
    <3> QED  BY <2>1, <2>2, <2>3, <3>1
  <2>5. store' = erase_keyspace_at(Popped(Start, <<Start.due[e[2]], e[2]>>), e[2])
    BY <2>1, <2>2, <2>4, Zenon
  <2>6. Start.due[e[2]] \in Time /\ Start.due[e[2]] <= clock  BY <2>2, <2>4
  <2>7. /\ Good(store') /\ Told(Start, store') /\ Rest(Start, store', {}, clock)
        /\ \E k \in Key : V(store', k) # V(Start, k)
    BY <1>1, <2>2, <2>5, <2>6, ExpireOp
  <2>8. \E k \in Key : V(store', k) # V(store, k)  BY <1>1, <2>7
  <2> QED  BY <2>1, <2>7, <2>8 DEF Step
<1> QED  BY <1>2, <1>3, Zenon DEF expire_due, Popped
-----------------------------------------------------------------------------
(* The invariant. *)

\* Besides the store: a sweep's time is not ahead of the clock, so that what it erases has
\* expired for the commands too.
KInv ==
  /\ Good(store)
  /\ clock \in Time /\ now \in Time /\ left \in Nat
  /\ now <= clock

\* The empty store the server starts with.
LEMMA InitInv == Init => KInv
<1> SUFFICES ASSUME Init  PROVE KInv
  OBVIOUS
<1>1. Good(clear)  BY ClearOp
<1>2. clear \in Store  BY <1>1, Zenon DEF Good
<1>3. /\ store.size = clear.size /\ store.slot = clear.slot /\ store.where = clear.where
      /\ store.due = clear.due /\ store.order = clear.order /\ store.signals = {}
  BY SMTT(30) DEF Init, clear
<1>4. store \in Store
  <2>1. /\ clear.size \in 0 .. MaxKeyId + 1 /\ clear.slot \in Table
        /\ clear.where \in [Key -> Id \cup {npos}] /\ clear.due \in Due /\ clear.order \in Order
    BY <1>2 DEF Store
  <2> QED  BY <2>1, Zenon DEF Init, clear, Store
<1>5. Good(store)  BY <1>1, <1>3, <1>4 DEF Good
<1>6. 0 \in Time  BY Constants DEF Time
<1> QED  BY <1>5, <1>6 DEF Init, KInv

\* A command runs when no sweep does, and leaves the clock alone.
Command == left = 0 /\ UNCHANGED <<clock, now, left>> /\ Step(Start, store', clock)

\* Every action is a command, a part of active_expire or the clock's.
LEMMA EveryStep ==
  ASSUME KInv, Next
  PROVE  Command \/ dbsize \/ network_iteration \/ expire_due \/ tick
<1> USE DEF KInv, Command
<1>1. ASSUME NEW k \in Key, NEW v \in Value, set_throws(k, v)  PROVE Command
  <2>1. left = 0 /\ UNCHANGED <<clock, now, left>>  BY <1>1 DEF set_throws, Run
  <2> QED  BY <1>1, <2>1, KeyStep
<1>2. ASSUME NEW k \in Key, NEW v \in Value, NEW nx \in BOOLEAN, NEW xx \in BOOLEAN,
             NEW keepttl \in BOOLEAN, NEW when \in Time \cup {NoExpiry},
             set_command(k, v, nx, xx, keepttl, when)
      PROVE  Command
  <2>1. left = 0 /\ UNCHANGED <<clock, now, left>>  BY <1>2 DEF set_command, Run
  <2> QED  BY <1>2, <2>1, SetStep
<1>3. ASSUME NEW k \in Key, get_command(k) \/ del_command(k) \/ persist_command(k)
      PROVE  Command
  <2>1. left = 0 /\ UNCHANGED <<clock, now, left>>
    BY <1>3 DEF get_command, del_command, persist_command, Run
  <2> QED  BY <1>3, <2>1, KeyStep
<1>4. ASSUME NEW k \in Key, NEW when \in Time, NEW flags \in Flags, expire_command(k, when, flags)
      PROVE  Command
  <2>1. left = 0 /\ UNCHANGED <<clock, now, left>>  BY <1>4 DEF expire_command, Run
  <2> QED  BY <1>4, <2>1, KeyStep
<1>5. ASSUME NEW k \in Key, NEW d \in Key, NEW option \in BOOLEAN,
             rename_command(k, d, option) \/ rename_throws(k, d) \/ copy_command(k, d, option)
      PROVE  Command
  <2>1. left = 0 /\ UNCHANGED <<clock, now, left>>
    BY <1>5, Zenon DEF rename_command, rename_throws, copy_command, Run
  <2> QED  BY <1>5, <2>1, TwoKeyStep
<1>6. CASE load_fails
  <2>1. left = 0 /\ UNCHANGED <<clock, now, left>>  BY <1>6 DEF load_fails, Run
  <2> QED  BY <1>6, <2>1, LoadStep
<1> HIDE DEF KInv, Command
<1> QED  BY <1>1, <1>2, <1>3, <1>4, <1>5, <1>6 DEF Next

\* What any of them makes of the store.
LEMMA StoreStep ==
  ASSUME KInv, Next
  PROVE  \/ clock' = clock /\ Step(Start, store', clock)
         \/ tick
<1>1. CASE Command  BY <1>1 DEF Command
<1>2. CASE dbsize \/ network_iteration
  <2>1. clock' = clock /\ store' = Start  BY <1>2 DEF dbsize, network_iteration, active_expire
  <2>2. Good(Start)  BY StartOp, SMTT(30) DEF KInv
  <2>3. Step(Start, Start, clock)  BY <2>2 DEF Step, Told, Rest
  <2> QED  BY <2>1, <2>3
<1>3. CASE expire_due
  <2>1. clock' = clock  BY <1>3, Zenon DEF expire_due
  <2> QED  BY <1>3, <2>1, ExpireStep, SMTT(30) DEF KInv
<1> QED  BY <1>1, <1>2, <1>3, EveryStep

\* The three fields beside the store.
LEMMA SweepStep ==
  ASSUME KInv, Next
  PROVE  clock' \in Time /\ now' \in Time /\ left' \in Nat /\ now' <= clock'
<1> USE DEF KInv
<1>1. /\ clock \in Nat /\ now \in Nat /\ 0 \in Time /\ MaxKeyId + 2 \in Nat /\ Budget \in Nat
  BY Constants DEF Time
<1>2. CASE Command  BY <1>2 DEF Command
<1>3. CASE dbsize \/ network_iteration
  BY <1>1, <1>3 DEF dbsize, network_iteration, active_expire
<1>4. CASE expire_due
  <2>1. /\ left > 0 /\ clock' = clock /\ (left' = 0 \/ left' = left - 1)
        /\ now' = 0 \/ now' = now
    BY <1>4, Zenon DEF expire_due
  <2> QED  BY <1>1, <2>1
<1>5. CASE tick
  <2>1. clock < MaxTime /\ clock' = clock + 1 /\ now' = now /\ left' = left  BY <1>5 DEF tick
  <2> QED  BY <1>1, <2>1, Constants DEF Time
<1> QED  BY <1>2, <1>3, <1>4, <1>5, EveryStep

\* The invariant is inductive.
LEMMA InvStep == KInv /\ [Next]_vars => KInv'
<1> SUFFICES ASSUME KInv, [Next]_vars  PROVE KInv'
  OBVIOUS
<1>1. CASE Next
  <2>1. Good(store')
    <3>1. CASE Step(Start, store', clock)  BY <3>1 DEF Step
    <3>2. CASE tick  BY <3>2 DEF tick, KInv
    <3> QED  BY <1>1, <3>1, <3>2, StoreStep
  <2> QED  BY <1>1, <2>1, SweepStep DEF KInv
<1>2. CASE UNCHANGED vars  BY <1>2 DEF KInv, vars
<1> QED  BY <1>1, <1>2

\* It always holds.
LEMMA Invariant == Spec => []KInv
  BY InitInv, InvStep, PTL DEF Spec
-----------------------------------------------------------------------------
(* The theorems. *)

\* The store has its type whatever is run on it (Store, Keyspace, TtlSet).
THEOREM TypeCorrect == Spec => []TypeOK
<1>1. KInv => TypeOK
  <2> SUFFICES ASSUME KInv  PROVE TypeOK
    OBVIOUS
  <2>1. /\ store \in Store /\ Named(store.size, store.slot, store.where)
        /\ clock \in Time /\ now \in Time /\ left \in Nat
    BY DEF KInv, Good
  <2>2. store.due \in Due /\ store.order \in Order /\ store.signals \subseteq Key
    BY <2>1 DEF Store
  <2> QED  BY <2>1, <2>2 DEF TypeOK, Named, Due, Order
<1> QED  BY <1>1, Invariant, PTL

\* However many keys, ids and deadlines there are: every key is in one slot, its name leads
\* there, and the two halves of TtlSet hold the same deadlines of the same live keys
\* (erase_at, rekey, rollback_created_key, rename_key).
THEOREM IndexesAlwaysAgree == Spec => []IndexesAgree
<1>1. KInv => IndexesAgree
  <2> SUFFICES ASSUME KInv  PROVE Agree(store)
    BY DEF IndexesAgree
  <2>1. Good(store)  BY DEF KInv
  <2>2. \A k \in Key : exists(store, k) =>
          id_of(store, k) < store.size /\ store.slot[id_of(store, k)].key = k
    BY <2>1, Found, Zenon
  <2>3. \A i \in 0 .. store.size - 1 : id_of(store, store.slot[i].key) = i
    BY <2>1 DEF Good, Named, id_of
  <2>4. \A i \in Id : store.due[i] # NoExpiry => i < store.size
    BY <2>1 DEF Good, Live
  <2>5. ASSUME NEW e \in Time \X Id
        PROVE  store.order[e] = IF store.due[e[2]] = e[1] THEN 1 ELSE 0
    <3>1. e = <<e[1], e[2]>> /\ e[1] \in Time /\ e[2] \in Id  OBVIOUS
    <3>2. store.order[<<e[1], e[2]>>] = IF store.due[e[2]] = e[1] THEN 1 ELSE 0
      BY <2>1, <3>1, Zenon DEF Good, Mirrors
    <3> QED  BY <3>1, <3>2
  <2> QED  BY <2>2, <2>3, <2>4, <2>5, Zenon DEF Agree
<1> QED  BY <1>1, Invariant, PTL

\* What a client sees is what the lemmas speak of.
LEMMA Entry ==
  /\ \A k \in Key : entry[k] = V(store, k)
  /\ \A k \in Key : entry'[k] = V(store', k)
  /\ DOMAIN entry = Key /\ DOMAIN entry' = Key
  BY DEF entry, View, V, Pair

\* Every key that a step changes is reported to the mutation observer (signal_key_modified
\* in erase_keyspace_at, set, expire_at_ms, persist, rename and copy).
THEOREM AlwaysTold == Spec => NothingSilent
<1>1. KInv /\ [Next]_vars =>
        [\A k \in Key : entry[k] # entry'[k] => k \in store'.signals]_vars
  <2> SUFFICES ASSUME KInv, Next, NEW k \in Key, entry[k] # entry'[k]
               PROVE  k \in store'.signals
    OBVIOUS
  <2>1. V(store', k) # V(store, k)  BY Entry
  <2>2. ~tick
    <3> SUFFICES ASSUME tick  PROVE FALSE
      OBVIOUS
    <3>1. store' = store  BY Zenon DEF tick
    <3> QED  BY <2>1, <3>1
  <2>3. Told(Start, store')  BY <2>2, StoreStep, Zenon DEF Step
  <2>4. V(Start, k) = V(store, k)  BY StartOp DEF KInv
  <2> QED  BY <2>1, <2>3, <2>4 DEF Told
<1> QED  BY <1>1, Invariant, PTL DEF Spec, NothingSilent

\* A command, seen as a step of the map.
LEMMA StepChanges ==
  ASSUME KInv, clock' = clock, Step(Start, store', clock), "absent" \notin Value
  PROVE  Map!Change
<1>1. Map!Absent = Absent /\ Map!Entry = Entries
  BY Zenon DEF Map!Absent, Absent, Map!NoExpiry, NoExpiry, Map!Entry, Entries, Map!Time, Time
<1>2. \A n \in Key : V(Start, n) = V(store, n)  BY StartOp, Zenon DEF KInv
<1>3. \A n \in Key : /\ entry[n] = V(Start, n) /\ entry'[n] = V(store', n)
                     /\ Map!Live(n) = Lives(Start, n, clock)
  BY <1>1, <1>2, Entry, Zenon DEF Map!Live, Lives
<1>4. ASSUME NEW K, Rest(Start, store', K, clock)  PROVE Map!Others(K)
  BY <1>3, <1>4 DEF Rest, Map!Others
<1>5. DOMAIN entry' = Key  BY Entry
<1>6. CASE Rest(Start, store', {}, clock)  BY <1>4, <1>5, <1>6, Zenon DEF Map!Change, Map!Expire
<1>7. CASE \A k \in Key : V(store', k) = Absent
  BY <1>1, <1>3, <1>5, <1>7 DEF Map!Change, Map!Clear
<1>8. ASSUME NEW k \in Key, Puts(Start, store', k, clock)  PROVE Map!Change
  <2>1. Map!Put(k)  BY <1>1, <1>3, <1>4, <1>8 DEF Puts, Map!Put
  <2> QED  BY <1>5, <2>1, Zenon DEF Map!Change
<1>9. ASSUME NEW k \in Key, Removes(Start, store', k, clock)  PROVE Map!Change
  <2>1. Map!Remove(k)  BY <1>1, <1>3, <1>4, <1>9 DEF Removes, Map!Remove
  <2> QED  BY <1>5, <2>1, Zenon DEF Map!Change
<1>10. ASSUME NEW k \in Key, NEW d \in Key, Renames(Start, store', k, d, clock)  PROVE Map!Change
  <2>1. Absent.value = "absent"  BY DEF Absent
  <2>2. Lives(Start, k, clock) # Absent  BY <1>10, <2>1, Zenon DEF Renames
  <2>3. Map!Rename(k, d)  BY <1>1, <1>3, <1>4, <1>10, <2>2 DEF Renames, Map!Rename
  <2> QED  BY <1>5, <2>3 DEF Map!Change
<1> QED  BY <1>6, <1>7, <1>8, <1>9, <1>10, Zenon DEF Step

\* The store implements a map from keys to values and deadlines: however the swap-removes
\* renumber the keys, a command changes the keys it names and nobody else's, and only keys
\* whose deadline has passed disappear by themselves (erase_at, rekey, expire_due).  No
\* value may be the one that stands for a missing key.
THEOREM StoreImplementsMap ==
  ASSUME "absent" \notin Value
  PROVE  Spec => MapSpec
<1>1. Init => Map!Init
  <2> SUFFICES ASSUME Init  PROVE Map!Init
    OBVIOUS
  <2>1. \A k \in Key : ~exists(store, k)  BY Zenon DEF Init, exists
  <2>2. entry = [k \in Key |-> Absent]  BY <2>1, Zenon DEF entry, View
  <2>3. Map!Absent = Absent  BY DEF Map!Absent, Absent, Map!NoExpiry, NoExpiry
  <2> QED  BY <2>2, <2>3 DEF Map!Init, Init
<1>2. KInv /\ [Next]_vars => [Map!Next]_<<entry, clock>>
  <2> SUFFICES ASSUME KInv, [Next]_vars  PROVE [Map!Next]_<<entry, clock>>
    OBVIOUS
  <2>1. CASE clock' = clock /\ Step(Start, store', clock)
    BY <2>1, StepChanges DEF Map!Next
  <2>2. CASE tick
    <3>1. entry' = entry  BY <2>2 DEF tick, entry, View, exists, id_of
    <3> QED  BY <2>2, <3>1, Zenon DEF tick, Map!Tick, Map!Next
  <2>3. CASE UNCHANGED vars
    <3>1. entry' = entry  BY <2>3 DEF vars, entry, View, exists, id_of
    <3> QED  BY <2>3, <3>1, SMTT(30) DEF vars
  <2> QED  BY <2>1, <2>2, <2>3, StoreStep
<1> QED  BY <1>1, <1>2, Invariant, PTL DEF Spec, MapSpec, Map!MapSpec
-----------------------------------------------------------------------------
(* A sweep that stops early. *)

Less == {ss \in Nat \X Nat : ss[1] < ss[2]}

\* The least of some numbers.
LEMMA Smallest ==
  ASSUME NEW T \in SUBSET Nat, T # {}
  PROVE  \E x \in T : \A y \in T : x <= y
<1>1. OpToRel(<, Nat) = Less  BY Zenon DEF OpToRel, Less
<1>2. IsWellFoundedOn(Less, Nat)  BY <1>1, NatLessThanWellFounded, Zenon
<1>3. PICK x \in T : \A y \in T : ~(<<y, x>> \in Less)  BY <1>2, WFMin, Zenon
<1>4. \A a, b \in Nat : a < b => <<a, b>> \in Less  BY DEF Less
<1>5. ASSUME NEW y \in T  PROVE x <= y
  <2>1. x \in Nat /\ y \in Nat  OBVIOUS
  <2>2. ~(y < x)  BY <1>3, <1>4, <2>1, Zenon
  <2> QED  BY <2>1, <2>2
<1> QED  BY <1>5

\* When some key is due by t, so is the front of the order.
LEMMA FrontDue ==
  ASSUME Good(store), NEW id \in Id, store.due[id] \in Time
  PROVE  \E e \in Soonest : e[1] <= store.due[id]
<1> DEFINE times == {t \in Time : \E i \in Id : store.due[i] = t}
<1>1. times \in SUBSET Nat /\ store.due[id] \in times  BY Constants
<1>2. PICK t \in times : \A u \in times : t <= u  BY <1>1, Smallest, Zenon
<1> DEFINE ids == {i \in Id : store.due[i] = t}
<1>3. ids \in SUBSET Nat /\ ids # {}  BY Constants
<1>4. PICK i \in ids : \A j \in ids : i <= j  BY <1>3, Smallest, Zenon
<1>5. t \in Time /\ i \in Id /\ store.due[i] = t  OBVIOUS
<1>6. \A u \in Time, j \in Id : store.order[<<u, j>>] = IF store.due[j] = u THEN 1 ELSE 0
  BY Zenon DEF Good, Mirrors
<1>7. store.order[<<t, i>>] > 0  BY <1>5, <1>6
<1>8. ASSUME NEW f \in Time \X Id, store.order[f] > 0
      PROVE  t < f[1] \/ (t = f[1] /\ i <= f[2])
  <2>1. f = <<f[1], f[2]>> /\ f[1] \in Time /\ f[2] \in Id  OBVIOUS
  <2>2. store.due[f[2]] = f[1]
    <3>1. store.order[<<f[1], f[2]>>] > 0  BY <1>8, <2>1, Zenon
    <3> QED  BY <1>6, <2>1, <3>1, SMTT(30)
  <2>3. f[1] \in times  BY <2>1, <2>2
  <2>4. t <= f[1]  BY <1>2, <2>3
  <2>5. t = f[1] => i <= f[2]  BY <1>4, <2>1, <2>2, Zenon
  <2>6. t \in Nat /\ f[1] \in Nat  BY <1>5, <2>1, Constants, Zenon
  <2> QED  BY <2>4, <2>5, <2>6
<1>9. <<t, i>> \in Soonest  BY <1>5, <1>7, <1>8, Zenon DEF Soonest
<1>10. t <= store.due[id]  BY <1>1, <1>2
<1> QED  BY <1>9, <1>10

\* A sweep that stops before its budget is used, and every one of DBSIZE's, leaves no key
\* that was due when it was called (expire_due): the front of the order is the first due.
THEOREM SweepDrains == Spec => DueDrained
<1>1. KInv /\ [Next]_vars =>
        [left > 0 /\ left' = 0 /\ (left > 1 \/ entry = entry') =>
           \A k \in Key : entry'[k].expiry > now]_vars
  <2> SUFFICES ASSUME KInv, Next, left > 0, left' = 0, left > 1 \/ entry = entry', NEW k \in Key
               PROVE  entry'[k].expiry > now
    OBVIOUS
  <2>1. left \in Nat /\ Good(store) /\ now \in Time  BY DEF KInv
  <2>2. expire_due
    <3>1. ~Command  BY <2>1 DEF Command
    <3>2. ~dbsize /\ ~network_iteration
      BY <2>1 DEF dbsize, network_iteration, active_expire
    <3>3. ~tick  BY <2>1 DEF tick
    <3> QED  BY <3>1, <3>2, <3>3, EveryStep, Zenon
  <2>3. \/ store' = Start /\ \A e \in Soonest : e[1] > now
        \/ left' = left - 1 /\ \E n \in Key : V(store', n) # V(store, n)
    BY <2>2, ExpireStep DEF KInv
  <2>4. ~(left' = left - 1 /\ \E n \in Key : V(store', n) # V(store, n))
    <3>1. left' = left - 1 => entry = entry'  BY <2>1
    <3> QED  BY <3>1, Entry
  <2>5. store' = Start /\ \A e \in Soonest : e[1] > now  BY <2>3, <2>4, Zenon
  <2>6. entry'[k] = V(store, k)  BY <2>1, <2>5, Entry, StartOp, Zenon
  <2>7. V(store, k).expiry \in Time => V(store, k).expiry > now
    <3> SUFFICES ASSUME V(store, k).expiry \in Time  PROVE V(store, k).expiry > now
      BY SMTT(30)
    <3>1. exists(store, k)  BY <2>1, Seen, Constants, Zenon
    <3>2. id_of(store, k) \in Id /\ V(store, k).expiry = store.due[id_of(store, k)]
      BY <2>1, <3>1, Found, Seen, Zenon
    <3>3. PICK e \in Soonest : e[1] <= store.due[id_of(store, k)]  BY <2>1, <3>2, FrontDue
    <3>4. e[1] \in Time /\ e[1] > now  BY <2>1, <2>5, SoonestDue
    <3>5. e[1] \in Nat /\ now \in Nat /\ V(store, k).expiry \in Nat
      BY <2>1, <3>4, Constants, SMTT(30)
    <3> QED  BY <3>2, <3>3, <3>4, <3>5
  <2>8. V(store, k).expiry \in Time \cup {NoExpiry}  BY <2>1, Seen, Zenon
  <2> QED  BY <2>1, <2>6, <2>7, <2>8, NeverDue, Zenon
<1> QED  BY <1>1, Invariant, PTL DEF Spec, DueDrained
=============================================================================
