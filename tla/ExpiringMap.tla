---------------------------- MODULE ExpiringMap ----------------------------
(***************************************************************************)
(* What the store promises about keys and expiry: a map from keys to       *)
(* values with deadlines.  A command changes the keys it names, and the    *)
(* other keys keep their value and their deadline until it passes.         *)
(***************************************************************************)
EXTENDS Integers

CONSTANTS Key, Value, MaxTime

VARIABLES entry, clock

Time == 0 .. MaxTime
NoExpiry == MaxTime + 1
Absent == [value |-> "absent", expiry |-> NoExpiry]
Entry == [value : Value, expiry : Time \cup {NoExpiry}]

Init == entry = [k \in Key |-> Absent] /\ clock = 0

\* What a command that names k finds there.
Live(k) == IF entry[k].expiry <= clock THEN Absent ELSE entry[k]

\* The keys that are not in K: each as it was, or gone if its deadline has passed.
Others(K) == \A k \in Key \ K : entry'[k] \in {entry[k], Live(k)}

Put(k) == Others({k}) /\ entry'[k] \in Entry /\ entry'[k].expiry > clock
Remove(k) == Others({k}) /\ entry'[k] = Absent
Rename(k, d) ==
  /\ k # d /\ Live(k) # Absent
  /\ Others({k, d}) /\ entry'[k] = Absent /\ entry'[d] = Live(k)
Expire == Others({})
Clear == \A k \in Key : entry'[k] = Absent

Change ==
  /\ UNCHANGED clock /\ DOMAIN entry' = Key
  /\ \/ Expire \/ Clear
     \/ \E k \in Key : Put(k) \/ Remove(k)
     \/ \E k, d \in Key : Rename(k, d)

Tick == clock' = clock + 1 /\ UNCHANGED entry

Next == Change \/ Tick

MapSpec == Init /\ [][Next]_<<entry, clock>>
=============================================================================
