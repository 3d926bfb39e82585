---------------------------- MODULE Transactions ----------------------------
(***************************************************************************)
(* MULTI, EXEC, DISCARD, WATCH and UNWATCH (src/transaction.cpp and the    *)
(* dispatch in src/server.cpp).  The registry maps a watched name to the   *)
(* transaction states interested in it, by address; the store reports      *)
(* every modified key to it, and EXEC runs the queue only if its state was *)
(* not marked.                                                             *)
(*                                                                         *)
(* Keys are present or absent, with a deadline; the values are left out.   *)
(* The clock is the store's now_ms().                                      *)
(***************************************************************************)
EXTENDS Integers, Sequences, SequencesExt

CONSTANTS
  Session, Key,
  Op,         \* the commands clients send: a subset of SET, DEL, PEXPIRE, GET, UNWATCH
  Capacity,   \* of a TransactionBuffer
  MaxTime     \* bound on the clock

ASSUME TransactionsAssumption == Capacity \in Nat /\ MaxTime \in Nat

VARIABLES
  key,        \* the store: what is at each name
  clock,
  state,      \* the TransactionState of each session
  watched,    \* WatchRegistry::watched_
  named,      \* (history) the keys a session has watched since its watches were released,
  changed,    \* ... those of them modified since they were watched,
  asked       \* ... and the number of commands it has sent since MULTI

vars == <<key, clock, state, watched, named, changed, asked>>
-----------------------------------------------------------------------------
Time == 0 .. MaxTime
NoExpiry == MaxTime + 1
Command == [op : Op \ {"UNWATCH"}, key : Key] \cup [op : Op \cap {"UNWATCH"}]

Size(c) == IF c.op = "SET" THEN 2 ELSE 1
used_bytes(queue) == FoldLeft(LAMBDA n, c : n + Size(c), 0, queue)

Absent == [there |-> FALSE, expiry |-> NoExpiry]
Fresh == [in_multi |-> FALSE, watch_dirty |-> FALSE, has_watches |-> FALSE,
          failure |-> "none", commands |-> <<>>]

Init ==
  /\ key = [k \in Key |-> Absent] /\ clock = 0
  /\ state = [s \in Session |-> Fresh] /\ watched = [k \in Key |-> {}]
  /\ named = [s \in Session |-> {}] /\ changed = [s \in Session |-> {}]
  /\ asked = [s \in Session |-> 0]

TypeOK ==
  /\ key \in [Key -> [there : BOOLEAN, expiry : Time \cup {NoExpiry}]]
  /\ clock \in Time
  /\ \A s \in Session :
       /\ DOMAIN state[s] = DOMAIN Fresh
       /\ {state[s].in_multi, state[s].watch_dirty, state[s].has_watches} \subseteq BOOLEAN
       /\ state[s].failure \in {"none", "command_error", "buffer_limit"}
       /\ state[s].commands \in Seq(Command) /\ used_bytes(state[s].commands) <= Capacity
  /\ watched \in [Key -> SUBSET Session]
-----------------------------------------------------------------------------
(* The store: an effect is the keys and the names reported modified. *)

purge_if_expired(st, k) ==
  IF st.key[k].expiry <= clock
  THEN [key |-> [st.key EXCEPT ![k] = Absent], modified |-> st.modified \cup {k}] ELSE st

Purged(K) ==
  LET due == {k \in K : key[k].expiry <= clock}
  IN  [key |-> [k \in Key |-> IF k \in due THEN Absent ELSE key[k]], modified |-> due]

Put(st, k, e) == [key |-> [st.key EXCEPT ![k] = e], modified |-> st.modified \cup {k}]

\* A command on its own: its key is purged, and reported if the command changes it.
execute_command(st, c) ==
  IF c.op = "UNWATCH" THEN st
  ELSE LET now == purge_if_expired(st, c.key)
       IN  CASE c.op = "SET" -> Put(now, c.key, [there |-> TRUE, expiry |-> NoExpiry])
             [] c.op = "DEL" /\ now.key[c.key].there -> Put(now, c.key, Absent)
             [] c.op = "PEXPIRE" /\ now.key[c.key].there /\ clock < MaxTime ->
                  Put(now, c.key, [there |-> TRUE, expiry |-> clock + 1])
             [] OTHER -> now

Store == [key |-> key, modified |-> {}]
-----------------------------------------------------------------------------
(* WatchRegistry. *)

remove(ss, reg, s) ==
  [state |-> [ss EXCEPT ![s].has_watches = FALSE, ![s].watch_dirty = FALSE],
   watched |-> IF ss[s].has_watches THEN [k \in Key |-> reg[k] \ {s}] ELSE reg]

\* modified, for each key of K in turn.
modified(ss, reg, K) ==
  [s \in Session |-> [ss[s] EXCEPT !.watch_dirty = @ \/ \E k \in Key : k \in K /\ s \in reg[k]]]
-----------------------------------------------------------------------------
(* The handlers.  After(effect, ss, reg) stores the effect and reports it to the registry. *)

After(effect, ss, reg) ==
  /\ key' = effect.key
  /\ state' = modified(ss, reg, effect.modified)
  /\ UNCHANGED clock

Note(effect, nm, ch) ==
  /\ named' = nm
  /\ changed' = [s \in Session |-> ch[s] \cup (nm[s] \cap effect.modified)]

Forget(h, s) == [h EXCEPT ![s] = {}]
finish(ss, s) == [ss EXCEPT ![s].commands = <<>>, ![s].in_multi = FALSE, ![s].failure = "none"]

multi(s) ==
  /\ ~state[s].in_multi
  /\ state' = [state EXCEPT ![s].in_multi = TRUE, ![s].failure = "none", ![s].commands = <<>>]
  /\ asked' = [asked EXCEPT ![s] = 0]
  /\ UNCHANGED <<key, clock, watched, named, changed>>

\* Whether EXEC would run the queue.
Runs(s) == state[s].in_multi /\ ~state[s].watch_dirty /\ state[s].failure = "none"

\* What the queued commands do, one after the other.
Executed(s) == FoldLeft(execute_command, Store, state[s].commands)

execute_queued_transaction(s) ==
  LET released == remove(state, watched, s)
      effect == IF Runs(s) THEN Executed(s) ELSE Store
  IN  /\ state[s].in_multi
      /\ watched' = released.watched
      /\ After(effect, finish(released.state, s), released.watched)
      /\ Note(effect, Forget(named, s), Forget(changed, s))
      /\ asked' = [asked EXCEPT ![s] = 0]

discard(s) ==
  LET released == remove(state, watched, s)
  IN  /\ state[s].in_multi
      /\ watched' = released.watched
      /\ After(Store, finish(released.state, s), released.watched)
      /\ Note(Store, Forget(named, s), Forget(changed, s))
      /\ asked' = [asked EXCEPT ![s] = 0]

\* (mutant of watch) a new WATCH forgets that an earlier one is dirty.
watch_anew(s, K) ==
  LET purged == Purged(K)
      told == modified(state, watched, purged.modified)
  IN  /\ ~state[s].in_multi
      /\ key' = purged.key
      /\ state' = [told EXCEPT ![s].has_watches = TRUE, ![s].watch_dirty = FALSE]
      /\ watched' = [k \in Key |-> IF k \in K THEN watched[k] \cup {s} ELSE watched[k]]
      /\ changed' = [r \in Session |-> changed[r] \cup (named[r] \cap purged.modified)]
      /\ named' = [named EXCEPT ![s] = @ \cup K]
      /\ UNCHANGED <<clock, asked>>
\* WATCH purges the keys that are due, so that their removal does not count, and registers.
watch(s, K) ==
  LET purged == Purged(K)
      told == modified(state, watched, purged.modified)
  IN  /\ ~state[s].in_multi
      /\ key' = purged.key
      /\ state' = [told EXCEPT ![s].has_watches = TRUE]
      /\ watched' = [k \in Key |-> IF k \in K THEN watched[k] \cup {s} ELSE watched[k]]
      /\ changed' = [r \in Session |-> changed[r] \cup (named[r] \cap purged.modified)]
      /\ named' = [named EXCEPT ![s] = @ \cup K]
      /\ UNCHANGED <<clock, asked>>

\* WATCH for which the registry cannot be extended; the earlier watches go as well.
watch_throws(s, K) ==
  LET purged == Purged(K)
      released == remove(modified(state, watched, purged.modified), watched, s)
  IN  /\ ~state[s].in_multi
      /\ watched' = released.watched
      /\ After(purged, released.state, released.watched)
      /\ Note(purged, Forget(named, s), Forget(changed, s))
      /\ UNCHANGED asked

unwatch(s) ==
  LET released == remove(state, watched, s)
  IN  /\ ~state[s].in_multi
      /\ watched' = released.watched
      /\ After(Store, released.state, released.watched)
      /\ Note(Store, Forget(named, s), Forget(changed, s))
      /\ UNCHANGED asked

\* (mutant of queue_command) the size of the record is left out of the test.
queue_unmeasured(s, c) ==
  /\ state[s].in_multi /\ asked[s] <= Capacity
  /\ state' = IF state[s].failure = "buffer_limit" THEN state
              ELSE IF used_bytes(state[s].commands) < Capacity
              THEN [state EXCEPT ![s].commands = Append(@, c)]
              ELSE [state EXCEPT ![s].failure = "buffer_limit"]
  /\ asked' = [asked EXCEPT ![s] = @ + 1]
  /\ UNCHANGED <<key, clock, watched, named, changed>>
\* A command inside MULTI; the first one that does not fit fails the transaction.
queue_command(s, c) ==
  LET fits == used_bytes(state[s].commands) + Size(c) <= Capacity
  IN  /\ state[s].in_multi /\ asked[s] <= Capacity
      /\ state' = IF state[s].failure = "buffer_limit" THEN state
                  ELSE IF fits THEN [state EXCEPT ![s].commands = Append(@, c)]
                  ELSE [state EXCEPT ![s].failure = "buffer_limit"]
      /\ asked' = [asked EXCEPT ![s] = @ + 1]
      /\ UNCHANGED <<key, clock, watched, named, changed>>

\* (mutant of refuse_command) the refusal is forgotten.
refuse_mildly(s) ==
  /\ state[s].in_multi /\ asked[s] <= Capacity
  /\ asked' = [asked EXCEPT ![s] = @ + 1]
  /\ UNCHANGED <<key, clock, state, watched, named, changed>>
\* An unknown command, or one with a wrong number of arguments, inside MULTI.
refuse_command(s) ==
  /\ state[s].in_multi /\ asked[s] <= Capacity
  /\ state' = IF state[s].failure = "buffer_limit" THEN state
              ELSE [state EXCEPT ![s].failure = "command_error"]
  /\ asked' = [asked EXCEPT ![s] = @ + 1]
  /\ UNCHANGED <<key, clock, watched, named, changed>>

direct_command(s, c) ==
  LET effect == execute_command(Store, c)
  IN  /\ ~state[s].in_multi /\ c.op # "UNWATCH"
      /\ After(effect, state, watched) /\ Note(effect, named, changed)
      /\ UNCHANGED <<watched, asked>>

\* The session ends, subscribes to the firehose or is taken over by another client.
reset_connection(s) ==
  LET released == remove(state, watched, s)
  IN  /\ watched' = released.watched
      /\ After(Store, [released.state EXCEPT ![s] = Fresh], released.watched)
      /\ Note(Store, Forget(named, s), Forget(changed, s))
      /\ asked' = [asked EXCEPT ![s] = 0]

\* GOBLIN.LOAD: everything is reported, present or not.
load ==
  LET effect == [key |-> [k \in Key |-> Absent], modified |-> Key]
  IN  After(effect, state, watched) /\ Note(effect, named, changed) /\ UNCHANGED <<watched, asked>>

active_expire(k) ==
  /\ key[k].expiry <= clock
  /\ After(Purged({k}), state, watched) /\ Note(Purged({k}), named, changed)
  /\ UNCHANGED <<watched, asked>>

tick == clock < MaxTime /\ clock' = clock + 1 /\ UNCHANGED <<key, state, watched, named, changed, asked>>
-----------------------------------------------------------------------------
Next ==
  \/ \E s \in Session :
       \/ multi(s) \/ execute_queued_transaction(s) \/ discard(s)
       \/ \E K \in SUBSET Key \ {{}} : watch(s, K) \/ watch_throws(s, K)
       \/ unwatch(s) \/ refuse_command(s) \/ reset_connection(s)
       \/ \E c \in Command : queue_command(s, c) \/ direct_command(s, c)
  \/ load
  \/ \E k \in Key : active_expire(k)
  \/ tick

Spec == Init /\ [][Next]_vars
-----------------------------------------------------------------------------
(* Properties. *)

\* A transaction is marked exactly when a key its session watches was modified after the
\* WATCH: by whom, in which order with other WATCHes, and through which path does not
\* matter, and no mark survives the release of the watches (WatchRegistry, dispatch).
WatchExact == \A s \in Session : state[s].watch_dirty <=> changed[s] # {}

\* The registry holds no address of a session that has released its watches: a session
\* that is reset or destroyed can never be written to by a later modification
\* (WatchRegistry::remove, has_watches).
NoStaleWatcher ==
  \A k \in Key, s \in Session :
    s \in watched[k] => state[s].has_watches /\ k \in named[s]

\* EXEC runs a queue only if it holds every command sent since MULTI: one that was refused,
\* or that did not fit, is never skipped over (failure, TransactionBuffer::append).
ExecComplete == \A s \in Session : Runs(s) => Len(state[s].commands) = asked[s]
=============================================================================
