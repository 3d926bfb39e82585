------------------------- MODULE TransactionsProofs -------------------------
(***************************************************************************)
(* WATCH marks exactly the transactions it should, the registry keeps no   *)
(* stale address, and EXEC runs complete queues only, for any numbers of   *)
(* sessions, keys and commands and any buffer capacity.                    *)
(***************************************************************************)
EXTENDS Transactions, WellFoundedInduction, TLAPS

StateShape == [in_multi : BOOLEAN, watch_dirty : BOOLEAN, has_watches : BOOLEAN,
               failure : {"none", "command_error", "buffer_limit"}, commands : Seq(Command)]

Shape ==
  /\ state \in [Session -> StateShape]
  /\ watched \in [Key -> SUBSET Session]
  /\ named \in [Session -> SUBSET Key]
  /\ changed \in [Session -> SUBSET Key]
  /\ asked \in [Session -> Nat]

\* What connects the flags of the transaction states (watch_dirty and has_watches), the
\* registry and the history: the registry names exactly the watched keys, a session that
\* watches says so, and a mark stands for a modified key.
Linked(ss, reg, nm, ch) ==
  /\ \A k \in Key, t \in Session : t \in reg[k] <=> k \in nm[t]
  /\ \A t \in Session : nm[t] # {} => ss[t].has_watches
  /\ \A t \in Session : ch[t] \subseteq nm[t]
  /\ \A t \in Session : ss[t].watch_dirty <=> ch[t] # {}

\* As long as nothing was refused, the queue holds every command sent since MULTI.
Complete(ss, n) ==
  \A t \in Session : ss[t].in_multi /\ ss[t].failure = "none" => Len(ss[t].commands) = n[t]

TransactionInv ==
  Shape /\ Linked(state, watched, named, changed) /\ Complete(state, asked)
-----------------------------------------------------------------------------
\* Typed(...) is the part of Shape that the registry's operations rely on.
Typed(ss, reg, nm, ch) ==
  /\ ss \in [Session -> StateShape] /\ reg \in [Key -> SUBSET Session]
  /\ nm \in [Session -> SUBSET Key] /\ ch \in [Session -> SUBSET Key]

\* Two vectors of transaction states that differ in the watch flags at most.
SameQueues(ss, tt) ==
  \A t \in Session : /\ tt[t].in_multi = ss[t].in_multi /\ tt[t].failure = ss[t].failure
                     /\ tt[t].commands = ss[t].commands

\* remove drops the registrations of a session with its flags; the others keep theirs
\* (WatchRegistry::remove, which does nothing to the table without has_watches).
LEMMA RemoveKeeps ==
  ASSUME NEW ss, NEW reg, NEW nm, NEW ch, NEW s \in Session,
         Typed(ss, reg, nm, ch), Linked(ss, reg, nm, ch)
  PROVE  LET r == remove(ss, reg, s)
         IN  /\ Typed(r.state, r.watched, Forget(nm, s), Forget(ch, s))
             /\ Linked(r.state, r.watched, Forget(nm, s), Forget(ch, s))
             /\ SameQueues(ss, r.state)
<1>. DEFINE tt == [ss EXCEPT ![s].has_watches = FALSE, ![s].watch_dirty = FALSE]
            rr == IF ss[s].has_watches THEN [k \in Key |-> reg[k] \ {s}] ELSE reg
<1>1. remove(ss, reg, s).state = tt /\ remove(ss, reg, s).watched = rr
  BY DEF remove
<1>2. /\ tt \in [Session -> StateShape]
      /\ \A t \in Session \ {s} : tt[t] = ss[t]
      /\ tt[s].has_watches = FALSE /\ tt[s].watch_dirty = FALSE
      /\ SameQueues(ss, tt)
  <2>. DEFINE u == [ss[s] EXCEPT !.has_watches = FALSE, !.watch_dirty = FALSE]
  <2>1. ss[s] \in StateShape /\ ss \in [Session -> StateShape]
    BY DEF Typed
  <2>2. /\ u \in StateShape /\ u.has_watches = FALSE /\ u.watch_dirty = FALSE
        /\ u.in_multi = ss[s].in_multi /\ u.failure = ss[s].failure
        /\ u.commands = ss[s].commands
    BY <2>1, Zenon DEF StateShape
  <2>3. tt = [ss EXCEPT ![s] = u]
    BY <2>1, Zenon
  <2>. HIDE DEF u, tt
  <2>4. tt[s] = u /\ \A t \in Session \ {s} : tt[t] = ss[t]
    BY <2>1, <2>3
  <2>5. tt \in [Session -> StateShape]
    BY <2>1, <2>2, <2>3
  <2>. QED  BY <2>2, <2>4, <2>5 DEF SameQueues
<1>3. rr \in [Key -> SUBSET Session]
  BY DEF Typed
<1>4. \A k \in Key : rr[k] = reg[k] \ {s}
  <2>1. CASE ss[s].has_watches
    BY <2>1
  <2>2. CASE ~ss[s].has_watches
    <3>1. \A k \in Key : s \notin reg[k]
      BY <2>2 DEF Linked
    <3>. QED  BY <2>2, <3>1 DEF Typed
  <2>. QED  BY <2>1, <2>2
<1>5. /\ Forget(nm, s) \in [Session -> SUBSET Key] /\ Forget(ch, s) \in [Session -> SUBSET Key]
      /\ \A t \in Session \ {s} : Forget(nm, s)[t] = nm[t] /\ Forget(ch, s)[t] = ch[t]
      /\ Forget(nm, s)[s] = {} /\ Forget(ch, s)[s] = {}
  BY DEF Forget, Typed
<1>. HIDE DEF tt, rr
<1>6. Linked(tt, rr, Forget(nm, s), Forget(ch, s))
  BY <1>2, <1>4, <1>5 DEF Linked
<1>7. Typed(tt, rr, Forget(nm, s), Forget(ch, s))
  BY <1>2, <1>3, <1>5 DEF Typed
<1>. QED  BY <1>1, <1>2, <1>6, <1>7, Zenon

\* modified marks the sessions that watch a reported key, as the history does
\* (WatchRegistry::modified, called by the store's observer).
LEMMA ModifiedKeeps ==
  ASSUME NEW ss, NEW reg, NEW nm, NEW ch, NEW M,
         Typed(ss, reg, nm, ch), Linked(ss, reg, nm, ch)
  PROVE  LET tt == modified(ss, reg, M)
             after == [s \in Session |-> ch[s] \cup (nm[s] \cap M)]
         IN  /\ Typed(tt, reg, nm, after)
             /\ Linked(tt, reg, nm, after)
             /\ SameQueues(ss, tt)
             /\ \A t \in Session : tt[t].has_watches = ss[t].has_watches
<1>. DEFINE tt == modified(ss, reg, M)
            after == [s \in Session |-> ch[s] \cup (nm[s] \cap M)]
            hit(t) == \E k \in Key : k \in M /\ t \in reg[k]
<1>1. \A t \in Session : tt[t] = [ss[t] EXCEPT !.watch_dirty = @ \/ hit(t)]
  BY DEF modified
<1>2. ASSUME NEW t \in Session
      PROVE  /\ tt[t] \in StateShape
             /\ tt[t].watch_dirty = (ss[t].watch_dirty \/ hit(t))
             /\ tt[t].has_watches = ss[t].has_watches /\ tt[t].in_multi = ss[t].in_multi
             /\ tt[t].failure = ss[t].failure /\ tt[t].commands = ss[t].commands
  <2>1. ss[t] \in StateShape
    BY DEF Typed
  <2>2. (ss[t].watch_dirty \/ hit(t)) \in BOOLEAN
    OBVIOUS
  <2>3. PICK b \in BOOLEAN : b = (ss[t].watch_dirty \/ hit(t))
    BY <2>2, Zenon
  <2>4. tt[t] = [ss[t] EXCEPT !.watch_dirty = b]
    BY <1>1, <2>3
  <2>5. /\ [ss[t] EXCEPT !.watch_dirty = b] \in StateShape
        /\ [ss[t] EXCEPT !.watch_dirty = b].watch_dirty = b
    BY <2>1 DEF StateShape
  <2>6. LET u == [ss[t] EXCEPT !.watch_dirty = b]
        IN  /\ u.has_watches = ss[t].has_watches /\ u.in_multi = ss[t].in_multi
            /\ u.failure = ss[t].failure /\ u.commands = ss[t].commands
    BY <2>1 DEF StateShape
  <2>. QED  BY <2>3, <2>4, <2>5, <2>6, Zenon
<1>3. tt \in [Session -> StateShape]
  <2>1. tt = [t \in Session |-> tt[t]]
    BY DEF modified
  <2>. HIDE DEF tt
  <2>. QED  BY <1>2, <2>1
<1>4. \A t \in Session : hit(t) <=> nm[t] \cap M # {}
  <2>. TAKE t \in Session
  <2>1. nm[t] \subseteq Key /\ \A k \in Key : t \in reg[k] <=> k \in nm[t]
    BY DEF Typed, Linked
  <2>. QED  BY <2>1
<1>5. /\ after \in [Session -> SUBSET Key]
      /\ \A t \in Session : after[t] = ch[t] \cup (nm[t] \cap M)
  BY DEF Typed
<1>. HIDE DEF tt, after, hit
<1>6. \A t \in Session : tt[t].watch_dirty <=> after[t] # {}
  <2>. TAKE t \in Session
  <2>1. ss[t].watch_dirty <=> ch[t] # {}
    BY DEF Linked
  <2>2. tt[t].watch_dirty <=> (ss[t].watch_dirty \/ hit(t))
    BY <1>2, Zenon
  <2>3. after[t] # {} <=> (ch[t] # {} \/ nm[t] \cap M # {})
    BY <1>5
  <2>. QED  BY <2>1, <2>2, <2>3, <1>4, Zenon
<1>7. Linked(tt, reg, nm, after)
  <2>1. \A t \in Session : nm[t] # {} => tt[t].has_watches
    BY <1>2 DEF Linked
  <2>2. \A t \in Session : after[t] \subseteq nm[t]
    BY <1>5 DEF Linked
  <2>. QED  BY <1>6, <2>1, <2>2, Zenon DEF Linked
<1>8. Typed(tt, reg, nm, after)
  BY <1>3, <1>5 DEF Typed
<1>9. SameQueues(ss, tt)
  BY <1>2 DEF SameQueues
<1>. QED  BY <1>2, <1>7, <1>8, <1>9 DEF tt, after

\* A step that reports an effect keeps the link and the queues it starts from (After, Note).
LEMMA Reported ==
  ASSUME NEW effect, NEW ss, NEW reg, NEW nm, NEW ch,
         Typed(ss, reg, nm, ch), Linked(ss, reg, nm, ch),
         After(effect, ss, reg), Note(effect, nm, ch), watched' = reg
  PROVE  /\ Typed(state', watched', named', changed')
         /\ Linked(state', watched', named', changed')
         /\ SameQueues(ss, state')
<1>1. /\ state' = modified(ss, reg, effect.modified) /\ named' = nm
      /\ changed' = [s \in Session |-> ch[s] \cup (nm[s] \cap effect.modified)]
  BY DEF After, Note
<1>. QED  BY <1>1, ModifiedKeeps

\* The same for the whole invariant, when the queues fit the counters.
LEMMA ReportedInv ==
  ASSUME NEW effect, NEW ss, NEW reg, NEW nm, NEW ch,
         Typed(ss, reg, nm, ch), Linked(ss, reg, nm, ch),
         After(effect, ss, reg), Note(effect, nm, ch), watched' = reg,
         asked' \in [Session -> Nat], Complete(ss, asked')
  PROVE  TransactionInv'
<1>1. /\ Typed(state', watched', named', changed')
      /\ Linked(state', watched', named', changed')
      /\ SameQueues(ss, state')
  BY Reported
<1>2. Complete(state', asked')
  BY <1>1 DEF SameQueues, Complete
<1>. QED  BY <1>1, <1>2 DEF TransactionInv, Shape, Typed

\* What the invariant says of the current state.
LEMMA Current ==
  ASSUME TransactionInv
  PROVE  /\ Typed(state, watched, named, changed) /\ Linked(state, watched, named, changed)
         /\ Complete(state, asked) /\ asked \in [Session -> Nat]
  BY DEF TransactionInv, Shape, Typed

\* A transaction state with an empty queue outside MULTI may replace that of a session
\* whose watches are released (finish, reset_connection).
LEMMA Emptied ==
  ASSUME NEW ss, NEW reg, NEW nm, NEW ch, NEW s \in Session, NEW u \in StateShape,
         Typed(ss, reg, nm, ch), Linked(ss, reg, nm, ch),
         nm[s] = {}, ch[s] = {}, u.watch_dirty = FALSE, u.in_multi = FALSE,
         NEW n, n \in [Session -> Nat], Complete(ss, n)
  PROVE  LET tt == [ss EXCEPT ![s] = u]
         IN  /\ Typed(tt, reg, nm, ch) /\ Linked(tt, reg, nm, ch)
             /\ Complete(tt, [n EXCEPT ![s] = 0])
<1>. DEFINE tt == [ss EXCEPT ![s] = u]
            m == [n EXCEPT ![s] = 0]
<1>1. /\ tt \in [Session -> StateShape] /\ tt[s] = u
      /\ \A t \in Session \ {s} : tt[t] = ss[t]
  BY DEF Typed
<1>2. \A t \in Session \ {s} : m[t] = n[t]
  OBVIOUS
<1>. HIDE DEF tt, m
<1>3. Typed(tt, reg, nm, ch)
  BY <1>1 DEF Typed
<1>4. Linked(tt, reg, nm, ch)
  BY <1>1 DEF Linked
<1>5. Complete(tt, m)
  BY <1>1, <1>2, Zenon DEF Complete
<1>. QED  BY <1>3, <1>4, <1>5, Zenon DEF tt, m

\* What is left of a session once its watches are released and its transaction is over.
LEMMA Released ==
  ASSUME TransactionInv, NEW s \in Session
  PROVE  LET r == remove(state, watched, s)
             nm == Forget(named, s)
             ch == Forget(changed, s)
         IN  /\ Typed(r.state, r.watched, nm, ch) /\ Linked(r.state, r.watched, nm, ch)
             /\ nm[s] = {} /\ ch[s] = {} /\ r.state[s] \in StateShape
             /\ r.state[s].watch_dirty = FALSE
             /\ Complete(r.state, asked) /\ SameQueues(state, r.state)
<1>. DEFINE r == remove(state, watched, s)
            nm == Forget(named, s)
            ch == Forget(changed, s)
<1>1. /\ Typed(r.state, r.watched, nm, ch) /\ Linked(r.state, r.watched, nm, ch)
      /\ SameQueues(state, r.state)
  BY Current, RemoveKeeps
<1>2. nm[s] = {} /\ ch[s] = {}
  BY Current DEF Typed, Forget
<1>. HIDE DEF r, nm, ch
<1>3. r.state[s] \in StateShape
  BY <1>1 DEF Typed
<1>4. r.state[s].watch_dirty = FALSE
  <2>1. ~r.state[s].watch_dirty
    BY <1>1, <1>2 DEF Linked
  <2>2. r.state[s].watch_dirty \in BOOLEAN
    BY <1>3 DEF StateShape
  <2>. QED  BY <2>1, <2>2
<1>5. Complete(r.state, asked)
  BY <1>1, Current DEF SameQueues, Complete
<1>. QED  BY <1>1, <1>2, <1>3, <1>4, <1>5, SMTT(30) DEF r, nm, ch
-----------------------------------------------------------------------------
\* The transaction is over: EXEC with any effect, or DISCARD with none.
LEMMA FinishStep ==
  ASSUME TransactionInv, NEW s \in Session, execute_queued_transaction(s) \/ discard(s)
  PROVE  TransactionInv'
<1>. DEFINE r == remove(state, watched, s)
            nm == Forget(named, s)
            ch == Forget(changed, s)
            u == [r.state[s] EXCEPT !.commands = <<>>, !.in_multi = FALSE, !.failure = "none"]
            tt == finish(r.state, s)
<1>1. PICK effect : /\ watched' = r.watched /\ After(effect, tt, r.watched)
                    /\ Note(effect, nm, ch) /\ asked' = [asked EXCEPT ![s] = 0]
  BY Zenon DEF execute_queued_transaction, discard
<1>2. /\ Typed(r.state, r.watched, nm, ch) /\ Linked(r.state, r.watched, nm, ch)
      /\ nm[s] = {} /\ ch[s] = {} /\ r.state[s] \in StateShape
      /\ r.state[s].watch_dirty = FALSE
      /\ Complete(r.state, asked)
  BY Released, Zenon
<1>3. tt = [r.state EXCEPT ![s] = u]
  BY <1>2, Zenon DEF finish, Typed
<1>. HIDE DEF r, nm, ch
<1>4. u \in StateShape /\ u.watch_dirty = FALSE /\ u.in_multi = FALSE
  <2>1. <<>> \in Seq(Command)  OBVIOUS
  <2>. QED  BY <1>2, <2>1, Zenon DEF StateShape
<1>. HIDE DEF u
<1>5. asked \in [Session -> Nat]
  BY Current
<1>. HIDE DEF tt
<1>6. /\ Typed(tt, r.watched, nm, ch) /\ Linked(tt, r.watched, nm, ch)
      /\ Complete(tt, asked')
  <2>1. LET vv == [r.state EXCEPT ![s] = u]
        IN  /\ Typed(vv, r.watched, nm, ch) /\ Linked(vv, r.watched, nm, ch)
            /\ Complete(vv, [asked EXCEPT ![s] = 0])
    BY <1>2, <1>4, <1>5, Emptied, Zenon
  <2>. QED  BY <1>1, <1>3, <2>1
<1>7. asked' \in [Session -> Nat]
  BY <1>1, <1>5
<1>. QED  BY <1>1, <1>6, <1>7, ReportedInv, Zenon

\* The session goes (reset_connection).
LEMMA ResetStep ==
  ASSUME TransactionInv, NEW s \in Session, reset_connection(s)
  PROVE  TransactionInv'
<1>. DEFINE r == remove(state, watched, s)
            nm == Forget(named, s)
            ch == Forget(changed, s)
            tt == [r.state EXCEPT ![s] = Fresh]
<1>1. /\ watched' = r.watched /\ After(Store, tt, r.watched)
      /\ Note(Store, nm, ch) /\ asked' = [asked EXCEPT ![s] = 0]
  BY DEF reset_connection
<1>2. /\ Typed(r.state, r.watched, nm, ch) /\ Linked(r.state, r.watched, nm, ch)
      /\ nm[s] = {} /\ ch[s] = {} /\ Complete(r.state, asked)
  BY Released, Zenon
<1>. HIDE DEF r, nm, ch
<1>3. Fresh \in StateShape /\ Fresh.watch_dirty = FALSE /\ Fresh.in_multi = FALSE
  BY DEF Fresh, StateShape
<1>4. asked \in [Session -> Nat] /\ asked' \in [Session -> Nat]
  BY <1>1, Current
<1>5. /\ Typed(tt, r.watched, nm, ch) /\ Linked(tt, r.watched, nm, ch)
      /\ Complete(tt, asked')
  BY <1>1, <1>2, <1>3, <1>4, Emptied, Zenon
<1>. HIDE DEF tt
<1>. QED  BY <1>1, <1>4, <1>5, ReportedInv, Zenon

\* UNWATCH outside MULTI.
LEMMA UnwatchStep ==
  ASSUME TransactionInv, NEW s \in Session, unwatch(s)
  PROVE  TransactionInv'
<1>. DEFINE r == remove(state, watched, s)
            nm == Forget(named, s)
            ch == Forget(changed, s)
<1>1. /\ watched' = r.watched /\ After(Store, r.state, r.watched)
      /\ Note(Store, nm, ch) /\ asked' = asked
  BY DEF unwatch
<1>2. /\ Typed(r.state, r.watched, nm, ch) /\ Linked(r.state, r.watched, nm, ch)
      /\ Complete(r.state, asked)
  BY Released, Zenon
<1>3. asked \in [Session -> Nat]
  BY Current
<1>. HIDE DEF r, nm, ch
<1>. QED  BY <1>1, <1>2, <1>3, ReportedInv, Zenon

\* WATCH that registers: the keys due were reported first, to those who watched before.
LEMMA WatchStep ==
  ASSUME TransactionInv, NEW s \in Session, NEW K \in SUBSET Key, watch(s, K)
  PROVE  TransactionInv'
<1>. DEFINE M == Purged(K).modified
            told == modified(state, watched, M)
            ch == [r \in Session |-> changed[r] \cup (named[r] \cap M)]
            u == [told[s] EXCEPT !.has_watches = TRUE]
<1>1. /\ state' = [told EXCEPT ![s].has_watches = TRUE]
      /\ watched' = [k \in Key |-> IF k \in K THEN watched[k] \cup {s} ELSE watched[k]]
      /\ changed' = ch
      /\ named' = [named EXCEPT ![s] = @ \cup K]
      /\ asked' = asked
  BY DEF watch
<1>2. Typed(state, watched, named, changed) /\ Linked(state, watched, named, changed)
  BY Current
<1>. HIDE DEF M
<1>3. Typed(told, watched, named, ch) /\ Linked(told, watched, named, ch) /\ SameQueues(state, told)
  BY <1>2, ModifiedKeeps
<1>. HIDE DEF told, ch
<1>4. /\ told[s] \in StateShape /\ told \in [Session -> StateShape]
      /\ named \in [Session -> SUBSET Key]
  BY <1>3 DEF Typed
<1>5. /\ u \in StateShape /\ u.has_watches = TRUE /\ u.watch_dirty = told[s].watch_dirty
      /\ u.in_multi = told[s].in_multi /\ u.failure = told[s].failure
      /\ u.commands = told[s].commands
  BY <1>4, Zenon DEF StateShape
<1>6. state' = [told EXCEPT ![s] = u]
  BY <1>1, <1>4
<1>. HIDE DEF u
<1>7. /\ state' \in [Session -> StateShape] /\ state'[s] = u
      /\ \A t \in Session \ {s} : state'[t] = told[t]
  BY <1>4, <1>5, <1>6
<1>8. /\ named' \in [Session -> SUBSET Key] /\ named'[s] = named[s] \cup K
      /\ \A t \in Session \ {s} : named'[t] = named[t]
  BY <1>1, <1>4
<1>9. /\ watched' \in [Key -> SUBSET Session]
      /\ \A k \in Key : watched'[k] = IF k \in K THEN watched[k] \cup {s} ELSE watched[k]
  BY <1>1, <1>2 DEF Typed
<1>10. Linked(state', watched', named', changed')
  <2>1. \A k \in Key, t \in Session : t \in watched'[k] <=> k \in named'[t]
    BY <1>3, <1>8, <1>9 DEF Linked
  <2>2. \A t \in Session : named'[t] # {} => state'[t].has_watches
    BY <1>3, <1>5, <1>7, <1>8, Zenon DEF Linked
  <2>3. \A t \in Session : changed'[t] \subseteq named'[t]
    BY <1>1, <1>3, <1>8, Zenon DEF Linked
  <2>4. \A t \in Session : state'[t].watch_dirty <=> changed'[t] # {}
    BY <1>1, <1>3, <1>5, <1>7, Zenon DEF Linked
  <2>. QED  BY <2>1, <2>2, <2>3, <2>4, Zenon DEF Linked
<1>11. SameQueues(state, state')
  BY <1>3, <1>5, <1>7, Zenon DEF SameQueues
<1>12. Complete(state', asked')
  BY <1>1, <1>11, Current, Zenon DEF Complete, SameQueues
<1>13. asked' \in [Session -> Nat] /\ changed' \in [Session -> SUBSET Key]
  BY <1>1, <1>3, Current, Zenon DEF Typed
<1>. QED  BY <1>7, <1>8, <1>9, <1>10, <1>12, <1>13 DEF TransactionInv, Shape

\* WATCH that fails: the keys due are reported, then every watch of the session goes.
LEMMA WatchThrowsStep ==
  ASSUME TransactionInv, NEW s \in Session, NEW K \in SUBSET Key, watch_throws(s, K)
  PROVE  TransactionInv'
<1>. DEFINE E == Purged(K)
            M == E.modified
            told == modified(state, watched, M)
            ch == [t \in Session |-> changed[t] \cup (named[t] \cap M)]
            r == remove(told, watched, s)
            nm == Forget(named, s)
<1>1. /\ watched' = r.watched /\ After(E, r.state, r.watched)
      /\ Note(E, nm, Forget(changed, s)) /\ asked' = asked
  BY Zenon DEF watch_throws
<1>2. Typed(state, watched, named, changed) /\ Linked(state, watched, named, changed)
  BY Current
<1>. HIDE DEF E, M
<1>3. Typed(told, watched, named, ch) /\ Linked(told, watched, named, ch) /\ SameQueues(state, told)
  BY <1>2, ModifiedKeeps
<1>. HIDE DEF told
<1>4. /\ ch \in [Session -> SUBSET Key]
      /\ \A t \in Session : ch[t] = changed[t] \cup (named[t] \cap M)
  BY <1>2 DEF Typed
<1>. HIDE DEF ch
<1>5. /\ Typed(r.state, r.watched, nm, Forget(ch, s))
      /\ Linked(r.state, r.watched, nm, Forget(ch, s))
      /\ SameQueues(told, r.state)
  BY <1>3, RemoveKeeps, Zenon
<1>. HIDE DEF r
<1>6. Note(E, nm, Forget(ch, s))
  <2>1. /\ named' = nm
        /\ changed' = [t \in Session |-> Forget(changed, s)[t] \cup (nm[t] \cap M)]
    BY <1>1 DEF Note, M
  <2>2. ASSUME NEW t \in Session
        PROVE  Forget(changed, s)[t] \cup (nm[t] \cap M)
                 = Forget(ch, s)[t] \cup (nm[t] \cap M)
    <3>1. CASE t = s
      BY <1>2, <1>4, <3>1, Zenon DEF Forget, Typed
    <3>2. CASE t # s
      BY <1>2, <1>4, <3>2, Zenon DEF Forget, Typed
    <3>. QED  BY <3>1, <3>2, Zenon
  <2>3. changed' = [t \in Session |-> Forget(ch, s)[t] \cup (nm[t] \cap M)]
    BY <2>1, <2>2, Zenon
  <2>. QED  BY <2>1, <2>3, Zenon DEF Note, M
<1>7. Complete(r.state, asked') /\ asked' \in [Session -> Nat]
  BY <1>1, <1>3, <1>5, Current, Zenon DEF SameQueues, Complete
<1>. HIDE DEF nm
<1>. QED  BY <1>1, <1>5, <1>6, <1>7, ReportedInv

\* A command outside MULTI, a load and the sweep report what they modify and touch nothing
\* else (direct_command, load, active_expire).
LEMMA EffectStep ==
  ASSUME TransactionInv,
         \/ \E s \in Session, c \in Command : direct_command(s, c)
         \/ load
         \/ \E k \in Key : active_expire(k)
  PROVE  TransactionInv'
<1>1. PICK effect : /\ After(effect, state, watched) /\ Note(effect, named, changed)
                    /\ watched' = watched /\ asked' = asked
  <2>1. CASE \E s \in Session, c \in Command : direct_command(s, c)
    BY <2>1, Zenon DEF direct_command
  <2>2. CASE load
    BY <2>2, Zenon DEF load
  <2>3. CASE \E k \in Key : active_expire(k)
    BY <2>3, Zenon DEF active_expire
  <2>. QED  BY <2>1, <2>2, <2>3, Zenon
<1>2. /\ Typed(state, watched, named, changed) /\ Linked(state, watched, named, changed)
      /\ Complete(state, asked) /\ asked \in [Session -> Nat]
  BY Current
<1>. QED  BY <1>1, <1>2, ReportedInv, Zenon

\* Steps that change one session's queue and not its watches.
LEMMA QueueStep ==
  ASSUME TransactionInv, NEW s \in Session, NEW u \in StateShape, NEW n \in Nat,
         u.watch_dirty = state[s].watch_dirty, u.has_watches = state[s].has_watches,
         u.in_multi /\ u.failure = "none" => Len(u.commands) = n,
         state' = [state EXCEPT ![s] = u], asked' = [asked EXCEPT ![s] = n],
         UNCHANGED <<watched, named, changed>>
  PROVE  TransactionInv'
<1>1. /\ state \in [Session -> StateShape] /\ asked \in [Session -> Nat]
      /\ Linked(state, watched, named, changed) /\ Complete(state, asked)
  BY Current DEF Typed
<1>2. /\ state' \in [Session -> StateShape] /\ state'[s] = u
      /\ \A t \in Session \ {s} : state'[t] = state[t]
  BY <1>1
<1>3. /\ asked' \in [Session -> Nat] /\ asked'[s] = n
      /\ \A t \in Session \ {s} : asked'[t] = asked[t]
  BY <1>1
<1>4. Linked(state', watched', named', changed')
  BY <1>1, <1>2, Zenon DEF Linked
<1>5. Complete(state', asked')
  BY <1>1, <1>2, <1>3, Zenon DEF Complete
<1>6. Shape'
  BY <1>2, <1>3 DEF TransactionInv, Shape
<1>. QED  BY <1>4, <1>5, <1>6, Zenon DEF TransactionInv

\* MULTI starts with an empty queue.
LEMMA MultiStep ==
  ASSUME TransactionInv, NEW s \in Session, multi(s)
  PROVE  TransactionInv'
<1>. DEFINE u == [state[s] EXCEPT !.in_multi = TRUE, !.failure = "none", !.commands = <<>>]
<1>1. state[s] \in StateShape /\ state \in [Session -> StateShape]
  BY Current DEF Typed
<1>2. /\ u \in StateShape /\ u.watch_dirty = state[s].watch_dirty
      /\ u.has_watches = state[s].has_watches /\ u.commands = <<>>
  <2>1. <<>> \in Seq(Command)  OBVIOUS
  <2>. QED  BY <1>1, <2>1, Zenon DEF StateShape
<1>3. /\ state' = [state EXCEPT ![s] = u] /\ asked' = [asked EXCEPT ![s] = 0]
      /\ UNCHANGED <<watched, named, changed>>
  BY <1>1, Zenon DEF multi
<1>. HIDE DEF u
<1>4. Len(u.commands) = 0
  BY <1>2
<1>. QED  BY <1>2, <1>3, <1>4, QueueStep, Zenon

\* A command inside MULTI is appended, or the transaction fails (queue_command).
LEMMA QueueCommandStep ==
  ASSUME TransactionInv, NEW s \in Session, NEW c \in Command, queue_command(s, c)
  PROVE  TransactionInv'
<1>. DEFINE n == asked[s] + 1
            q == Append(state[s].commands, c)
            fits == used_bytes(state[s].commands) + Size(c) <= Capacity
<1>1. /\ state[s] \in StateShape /\ state \in [Session -> StateShape]
      /\ asked \in [Session -> Nat] /\ Complete(state, asked)
  BY Current DEF Typed
<1>2. /\ n \in Nat /\ asked' = [asked EXCEPT ![s] = n]
      /\ UNCHANGED <<watched, named, changed>>
  BY <1>1 DEF queue_command
<1>3. CASE state[s].failure = "buffer_limit"
  <2>1. state' = [state EXCEPT ![s] = state[s]]
    BY <1>1, <1>3 DEF queue_command
  <2>. QED  BY <1>1, <1>2, <1>3, <2>1, QueueStep, Zenon
<1>4. CASE state[s].failure # "buffer_limit" /\ fits
  <2>. DEFINE u == [state[s] EXCEPT !.commands = q]
  <2>1. state' = [state EXCEPT ![s] = u]
    BY <1>1, <1>4 DEF queue_command
  <2>2. q \in Seq(Command) /\ Len(q) = Len(state[s].commands) + 1
    BY <1>1 DEF StateShape
  <2>. HIDE DEF q
  <2>3. /\ u \in StateShape /\ u.watch_dirty = state[s].watch_dirty
        /\ u.has_watches = state[s].has_watches /\ u.commands = q
        /\ u.in_multi = state[s].in_multi /\ u.failure = state[s].failure
    BY <1>1, <2>2, Zenon DEF StateShape
  <2>. HIDE DEF u
  <2>4. u.in_multi /\ u.failure = "none" => Len(u.commands) = n
    BY <1>1, <2>2, <2>3, Zenon DEF Complete
  <2>. QED  BY <1>2, <2>1, <2>3, <2>4, QueueStep, Zenon
<1>5. CASE state[s].failure # "buffer_limit" /\ ~fits
  <2>. DEFINE u == [state[s] EXCEPT !.failure = "buffer_limit"]
  <2>1. state' = [state EXCEPT ![s] = u]
    BY <1>1, <1>5 DEF queue_command
  <2>2. /\ u \in StateShape /\ u.watch_dirty = state[s].watch_dirty
        /\ u.has_watches = state[s].has_watches /\ u.failure # "none"
    BY <1>1, Zenon DEF StateShape
  <2>. HIDE DEF u
  <2>. QED  BY <1>2, <2>1, <2>2, QueueStep, Zenon
<1>. QED  BY <1>3, <1>4, <1>5, Zenon

\* A refused command fails the transaction (refuse_command).
LEMMA RefuseStep ==
  ASSUME TransactionInv, NEW s \in Session, refuse_command(s)
  PROVE  TransactionInv'
<1>. DEFINE n == asked[s] + 1
<1>1. /\ state[s] \in StateShape /\ state \in [Session -> StateShape]
      /\ asked \in [Session -> Nat]
  BY Current DEF Typed
<1>2. /\ n \in Nat /\ asked' = [asked EXCEPT ![s] = n]
      /\ UNCHANGED <<watched, named, changed>>
  BY <1>1 DEF refuse_command
<1>3. CASE state[s].failure = "buffer_limit"
  <2>1. state' = [state EXCEPT ![s] = state[s]]
    BY <1>1, <1>3 DEF refuse_command
  <2>. QED  BY <1>1, <1>2, <1>3, <2>1, QueueStep, Zenon
<1>4. CASE state[s].failure # "buffer_limit"
  <2>. DEFINE u == [state[s] EXCEPT !.failure = "command_error"]
  <2>1. state' = [state EXCEPT ![s] = u]
    BY <1>1, <1>4 DEF refuse_command
  <2>2. /\ u \in StateShape /\ u.watch_dirty = state[s].watch_dirty
        /\ u.has_watches = state[s].has_watches /\ u.failure # "none"
    BY <1>1, Zenon DEF StateShape
  <2>. HIDE DEF u
  <2>. QED  BY <1>2, <2>1, <2>2, QueueStep, Zenon
<1>. QED  BY <1>3, <1>4

\* Time, and steps that change nothing.
LEMMA TransactionsIdleStep == TransactionInv /\ (tick \/ UNCHANGED vars) => TransactionInv'
<1>. SUFFICES ASSUME TransactionInv, tick \/ UNCHANGED vars PROVE TransactionInv'
  OBVIOUS
<1>1. UNCHANGED <<state, watched, named, changed, asked>>
  BY DEF tick, vars
<1>. QED  BY <1>1 DEF TransactionInv, Shape, Linked, Complete
-----------------------------------------------------------------------------
\* Sessions start without watches and outside MULTI.
LEMMA TransactionInvInit == Init => TransactionInv
<1>. SUFFICES ASSUME Init PROVE TransactionInv
  OBVIOUS
<1>1. Fresh \in StateShape /\ ~Fresh.watch_dirty /\ ~Fresh.in_multi
  BY DEF Fresh, StateShape
<1>2. /\ state = [s \in Session |-> Fresh] /\ watched = [k \in Key |-> {}]
      /\ named = [s \in Session |-> {}] /\ changed = [s \in Session |-> {}]
      /\ asked = [s \in Session |-> 0]
  BY DEF Init
<1>3. Shape
  BY <1>1, <1>2 DEF Shape
<1>4. Linked(state, watched, named, changed)
  BY <1>1, <1>2 DEF Linked
<1>5. Complete(state, asked)
  BY <1>1, <1>2 DEF Complete
<1>. QED  BY <1>3, <1>4, <1>5 DEF TransactionInv

\* Every handler keeps the invariant.
LEMMA TransactionInvStep == TransactionInv /\ [Next]_vars => TransactionInv'
<1>. SUFFICES ASSUME TransactionInv, [Next]_vars PROVE TransactionInv'
  OBVIOUS
<1>1. ASSUME NEW s \in Session, multi(s) PROVE TransactionInv'
  BY <1>1, MultiStep
<1>2. ASSUME NEW s \in Session, execute_queued_transaction(s) \/ discard(s) PROVE TransactionInv'
  BY <1>2, FinishStep
<1>3. ASSUME NEW s \in Session, NEW K \in SUBSET Key, watch(s, K) PROVE TransactionInv'
  BY <1>3, WatchStep
<1>4. ASSUME NEW s \in Session, NEW K \in SUBSET Key, watch_throws(s, K) PROVE TransactionInv'
  BY <1>4, WatchThrowsStep, SMTT(30)
<1>5. ASSUME NEW s \in Session, unwatch(s) PROVE TransactionInv'
  BY <1>5, UnwatchStep
<1>6. ASSUME NEW s \in Session, refuse_command(s) PROVE TransactionInv'
  BY <1>6, RefuseStep
<1>7. ASSUME NEW s \in Session, reset_connection(s) PROVE TransactionInv'
  BY <1>7, ResetStep
<1>8. ASSUME NEW s \in Session, NEW c \in Command, queue_command(s, c) PROVE TransactionInv'
  BY <1>8, QueueCommandStep
<1>9. ASSUME \/ \E s \in Session, c \in Command : direct_command(s, c)
             \/ load
             \/ \E k \in Key : active_expire(k)
      PROVE  TransactionInv'
  BY <1>9, EffectStep
<1>10. ASSUME tick \/ UNCHANGED vars PROVE TransactionInv'
  BY <1>10, TransactionsIdleStep
<1>. QED
  BY <1>1, <1>2, <1>3, <1>4, <1>5, <1>6, <1>7, <1>8, <1>9, <1>10, SMTT(30) DEF Next

\* The inductive invariant holds in every reachable state.
LEMMA TransactionInvariant == Spec => []TransactionInv
  BY TransactionInvInit, TransactionInvStep, PTL DEF Spec

\* EXEC's mark is exact: set iff a watched key was modified since the WATCH (WatchExact).
THEOREM WatchIsExact == Spec => []WatchExact
<1>1. TransactionInv => WatchExact
  BY Zenon DEF TransactionInv, Linked, WatchExact
<1>. QED  BY <1>1, TransactionInvariant, PTL

\* The registry holds no address of a session without watches (NoStaleWatcher).
THEOREM RegistryIsFresh == Spec => []NoStaleWatcher
<1>1. TransactionInv => NoStaleWatcher
  BY DEF TransactionInv, Linked, NoStaleWatcher
<1>. QED  BY <1>1, TransactionInvariant, PTL

\* EXEC runs a queue only when every command since MULTI is in it (ExecComplete).
THEOREM ExecIsComplete == Spec => []ExecComplete
<1>1. TransactionInv => ExecComplete
  BY DEF TransactionInv, Complete, ExecComplete, Runs
<1>. QED  BY <1>1, TransactionInvariant, PTL
-----------------------------------------------------------------------------
(* Folds.  The library's folds are recursive functions on sets of positions; what they *)
(* compute is shown by induction over the positions.                                   *)

\* Every set of naturals has a least element.
LEMMA LeastNatural ==
  ASSUME NEW T, T \subseteq Nat, T # {}
  PROVE  \E x \in T : \A y \in T : x <= y
<1>. DEFINE R == OpToRel(<, Nat)
<1>1. IsWellFoundedOn(R, Nat)
  BY NatLessThanWellFounded, Zenon
<1>2. \A x, y \in Nat : <<x, y>> \in R <=> x < y
  BY DEF OpToRel
<1>. HIDE DEF R
<1>3. PICK x \in T : \A y \in T : <<y, x>> \notin R
  BY <1>1, WFMin, Zenon
<1>4. \A y \in T : ~(y < x) /\ x \in Nat /\ y \in Nat
  BY <1>2, <1>3, Zenon
<1>. QED  BY <1>4

\* Induction, for a set that holds 0 and every successor.
LEMMA Inductive ==
  ASSUME NEW S, 0 \in S, \A n \in S \cap Nat : n + 1 \in S
  PROVE  Nat \subseteq S
<1>. DEFINE T == Nat \ S
<1>1. SUFFICES ASSUME T # {} PROVE FALSE
  OBVIOUS
<1>2. PICK x \in T : \A y \in T : x <= y
  BY <1>1, LeastNatural, Zenon
<1>3. x # 0 /\ x - 1 \in Nat /\ x - 1 \notin T
  BY <1>2
<1>4. x - 1 + 1 = x
  BY <1>2
<1>. QED  BY <1>2, <1>3, <1>4, Zenon

\* The last position is the greatest.
LEMMA MaxIs ==
  ASSUME NEW n \in Nat, NEW s \in SUBSET (1 .. n), n \in s
  PROVE  Max(s) = n
<1>1. \A x \in s : (\A y \in s : x >= y) => x = n
  OBVIOUS
<1>2. \A y \in s : n >= y
  OBVIOUS
<1>. QED  BY <1>1, <1>2, Zenon DEF Max

\* g gives the bytes of the commands of q at any of its first n positions.
Sums(q, n, g) ==
  g = [s \in SUBSET (1 .. n) |->
         IF s = {} THEN 0 ELSE g[s \ {Max(s)}] + Size(q[Max(s)])]

\* There is such a function.
LEMMA SumsExist ==
  ASSUME NEW q
  PROVE  \A n \in Nat : \E g : Sums(q, n, g)
<1>. DEFINE S == {n \in Nat : \E g : Sums(q, n, g)}
<1>1. 0 \in S
  <2>1. SUBSET (1 .. 0) = {{}}
    OBVIOUS
  <2>. DEFINE g == [s \in SUBSET (1 .. 0) |-> 0]
  <2>2. Sums(q, 0, g)
    BY <2>1 DEF Sums
  <2>. QED  BY <2>2
<1>2. ASSUME NEW n \in S
      PROVE  n + 1 \in S
  <2>1. PICK g : Sums(q, n, g)
    OBVIOUS
  <2>2. n \in Nat
    OBVIOUS
  <2>. DEFINE h == [s \in SUBSET (1 .. n + 1) |->
                      IF n + 1 \in s THEN g[s \ {n + 1}] + Size(q[n + 1]) ELSE g[s]]
  <2>3. ASSUME NEW s \in SUBSET (1 .. n + 1)
        PROVE  h[s] = IF s = {} THEN 0 ELSE h[s \ {Max(s)}] + Size(q[Max(s)])
    <3>1. CASE n + 1 \in s
      <4>1. Max(s) = n + 1
        BY <2>2, <3>1, MaxIs
      <4>2. h[s \ {n + 1}] = g[s \ {n + 1}]
        BY <2>2, Zenon
      <4>. QED  BY <3>1, <4>1, <4>2
    <3>2. CASE n + 1 \notin s
      <4>1. s \in SUBSET (1 .. n)
        BY <2>2, <3>2
      <4>2. n + 1 \notin s \ {Max(s)} /\ s \ {Max(s)} \in SUBSET (1 .. n + 1)
        BY <3>2, Zenon
      <4>3. h[s] = g[s] /\ h[s \ {Max(s)}] = g[s \ {Max(s)}]
        BY <3>2, <4>2
      <4>. QED  BY <2>1, <4>1, <4>3, Zenon DEF Sums
    <3>. QED  BY <3>1, <3>2, Zenon
  <2>4. h = [s \in SUBSET (1 .. n + 1) |->
               IF s = {} THEN 0 ELSE h[s \ {Max(s)}] + Size(q[Max(s)])]
    <3>1. h = [s \in SUBSET (1 .. n + 1) |-> h[s]]
      OBVIOUS
    <3>. HIDE DEF h
    <3>. QED  BY <2>3, <3>1, Zenon
  <2>. HIDE DEF h
  <2>5. Sums(q, n + 1, h)
    BY <2>4, Zenon DEF Sums
  <2>. QED  BY <2>2, <2>5
<1>. HIDE DEF S
<1>3. Nat \subseteq S
  BY <1>1, <1>2, Inductive
<1>. QED  BY <1>3 DEF S

\* used_bytes counts the commands one after the other (TransactionBuffer::append).
LEMMA UsedTrace ==
  ASSUME NEW q \in Seq(Command)
  PROVE  \E r : /\ r[0] = 0 /\ used_bytes(q) = r[Len(q)]
                /\ \A i \in 1 .. Len(q) : r[i] = r[i - 1] + Size(q[i])
<1>. DEFINE n == Len(q)
            h == CHOOSE g : Sums(q, n, g)
            r == [i \in 0 .. n |-> h[1 .. i]]
<1>1. DOMAIN q = 1 .. n /\ n \in Nat
  OBVIOUS
<1>2. used_bytes(q) = h[1 .. n]
  BY <1>1, Zenon DEF used_bytes, FoldLeft, MapThenFoldSet, Sums
<1>3. Sums(q, n, h)
  BY <1>1, SumsExist, Zenon
<1>. HIDE DEF n, h
<1>4. \A s \in SUBSET (1 .. n) :
        h[s] = IF s = {} THEN 0 ELSE h[s \ {Max(s)}] + Size(q[Max(s)])
  BY <1>3, Zenon DEF Sums
<1>5. r[0] = 0
  <2>1. 1 .. 0 = {} /\ {} \in SUBSET (1 .. n) /\ 0 \in 0 .. n
    BY <1>1
  <2>2. h[{}] = 0
    BY <1>4, <2>1, Zenon
  <2>. QED  BY <2>1, <2>2
<1>6. ASSUME NEW i \in 1 .. n
      PROVE  r[i] = r[i - 1] + Size(q[i])
  <2>1. /\ i \in Nat /\ i \in 1 .. i /\ 1 .. i \in SUBSET (1 .. i)
        /\ 1 .. i \in SUBSET (1 .. n) /\ i \in 0 .. n /\ i - 1 \in 0 .. n
    BY <1>1
  <2>2. Max(1 .. i) = i /\ 1 .. i # {}
    BY <2>1, MaxIs, Zenon
  <2>3. \A j : j \in (1 .. i) \ {i} <=> j \in 1 .. i - 1
    OBVIOUS
  <2>4. (1 .. i) \ {i} = 1 .. i - 1
    BY <2>3, Zenon
  <2>5. h[1 .. i] = h[(1 .. i) \ {Max(1 .. i)}] + Size(q[Max(1 .. i)])
    BY <1>4, <2>1, <2>2, Zenon
  <2>6. h[1 .. i] = h[1 .. i - 1] + Size(q[i])
    BY <2>2, <2>4, <2>5, Zenon
  <2>7. r[i] = h[1 .. i] /\ r[i - 1] = h[1 .. i - 1]
    BY <2>1
  <2>. QED  BY <2>6, <2>7, Zenon
<1>7. r[n] = h[1 .. n]
  BY <1>1
<1>. HIDE DEF r
<1>. QED  BY <1>2, <1>5, <1>6, <1>7, Zenon DEF n

\* An empty buffer is unused, and a command adds its size (TransactionBuffer::append).
LEMMA UsedGrows ==
  /\ used_bytes(<<>>) = 0
  /\ \A q \in Seq(Command), c \in Command :
       used_bytes(Append(q, c)) = used_bytes(q) + Size(c)
<1>1. used_bytes(<<>>) = 0
  <2>1. <<>> \in Seq(Command) /\ Len(<<>>) = 0
    OBVIOUS
  <2>. QED  BY <2>1, UsedTrace, Zenon
<1>2. ASSUME NEW q \in Seq(Command), NEW c \in Command
      PROVE  used_bytes(Append(q, c)) = used_bytes(q) + Size(c)
  <2>. DEFINE p == Append(q, c)
              n == Len(q)
  <2>1. /\ p \in Seq(Command) /\ Len(p) = n + 1 /\ n \in Nat
        /\ p[n + 1] = c /\ \A i \in 1 .. n : p[i] = q[i]
    OBVIOUS
  <2>2. PICK r : /\ r[0] = 0 /\ used_bytes(q) = r[n]
                 /\ \A i \in 1 .. n : r[i] = r[i - 1] + Size(q[i])
    BY UsedTrace
  <2>. HIDE DEF p
  <2>3. PICK t : /\ t[0] = 0 /\ used_bytes(p) = t[Len(p)]
                 /\ \A i \in 1 .. Len(p) : t[i] = t[i - 1] + Size(p[i])
    BY <2>1, UsedTrace, Zenon
  <2>. HIDE DEF n
  <2>. DEFINE S == {m \in Nat : m <= n => t[m] = r[m]}
  <2>4. 0 \in S
    BY <2>2, <2>3, Zenon
  <2>5. ASSUME NEW m \in S
        PROVE  m + 1 \in S
    <3>1. SUFFICES ASSUME m + 1 <= n PROVE t[m + 1] = r[m + 1]
      OBVIOUS
    <3>2. /\ m \in Nat /\ t[m] = r[m] /\ m + 1 - 1 = m
          /\ m + 1 \in 1 .. n /\ m + 1 \in 1 .. n + 1
      BY <2>1, <3>1
    <3>3. t[m + 1] = t[m + 1 - 1] + Size(p[m + 1])
      BY <2>1, <2>3, <3>2
    <3>4. r[m + 1] = r[m + 1 - 1] + Size(q[m + 1]) /\ p[m + 1] = q[m + 1]
      BY <2>1, <2>2, <3>2
    <3>. QED  BY <3>2, <3>3, <3>4
  <2>. HIDE DEF S
  <2>6. n \in S
    BY <2>1, <2>4, <2>5, Inductive, Zenon
  <2>7. t[n] = r[n]
    BY <2>1, <2>6 DEF S
  <2>8. n + 1 \in 1 .. n + 1 /\ n + 1 - 1 = n
    BY <2>1
  <2>9. t[n + 1] = t[n + 1 - 1] + Size(p[n + 1])
    BY <2>1, <2>3, <2>8
  <2>10. used_bytes(p) = used_bytes(q) + Size(c)
    BY <2>1, <2>2, <2>3, <2>7, <2>8, <2>9, Zenon
  <2>. QED  BY <2>10 DEF p
<1>. QED  BY <1>1, <1>2, Zenon

\* g gives what the commands of q at any of its first n positions do to the store.
Effects(q, n, g) ==
  g = [s \in SUBSET (1 .. n) |->
         IF s = {} THEN Store ELSE execute_command(g[s \ {Max(s)}], q[Max(s)])]

\* There is such a function.
LEMMA EffectsExist ==
  ASSUME NEW q
  PROVE  \A n \in Nat : \E g : Effects(q, n, g)
<1>. DEFINE S == {n \in Nat : \E g : Effects(q, n, g)}
<1>1. 0 \in S
  <2>1. SUBSET (1 .. 0) = {{}}
    OBVIOUS
  <2>. DEFINE g == [s \in SUBSET (1 .. 0) |-> Store]
  <2>2. Effects(q, 0, g)
    BY <2>1 DEF Effects
  <2>. QED  BY <2>2
<1>2. ASSUME NEW n \in S
      PROVE  n + 1 \in S
  <2>1. PICK g : Effects(q, n, g)
    OBVIOUS
  <2>2. n \in Nat
    OBVIOUS
  <2>. DEFINE h == [s \in SUBSET (1 .. n + 1) |->
                      IF n + 1 \in s THEN execute_command(g[s \ {n + 1}], q[n + 1]) ELSE g[s]]
  <2>3. ASSUME NEW s \in SUBSET (1 .. n + 1)
        PROVE  h[s] = IF s = {} THEN Store ELSE execute_command(h[s \ {Max(s)}], q[Max(s)])
    <3>1. CASE n + 1 \in s
      <4>1. Max(s) = n + 1
        BY <2>2, <3>1, MaxIs
      <4>2. h[s \ {n + 1}] = g[s \ {n + 1}]
        BY <2>2, Zenon
      <4>. QED  BY <3>1, <4>1, <4>2
    <3>2. CASE n + 1 \notin s
      <4>1. s \in SUBSET (1 .. n)
        BY <2>2, <3>2
      <4>2. n + 1 \notin s \ {Max(s)} /\ s \ {Max(s)} \in SUBSET (1 .. n + 1)
        BY <3>2, Zenon
      <4>3. h[s] = g[s] /\ h[s \ {Max(s)}] = g[s \ {Max(s)}]
        BY <3>2, <4>2
      <4>. QED  BY <2>1, <4>1, <4>3, Zenon DEF Effects
    <3>. QED  BY <3>1, <3>2, Zenon
  <2>4. h = [s \in SUBSET (1 .. n + 1) |->
               IF s = {} THEN Store ELSE execute_command(h[s \ {Max(s)}], q[Max(s)])]
    <3>1. h = [s \in SUBSET (1 .. n + 1) |-> h[s]]
      OBVIOUS
    <3>. HIDE DEF h
    <3>. QED  BY <2>3, <3>1, Zenon
  <2>. HIDE DEF h
  <2>5. Effects(q, n + 1, h)
    BY <2>4, Zenon DEF Effects
  <2>. QED  BY <2>2, <2>5
<1>. HIDE DEF S
<1>3. Nat \subseteq S
  BY <1>1, <1>2, Inductive
<1>. QED  BY <1>3 DEF S

\* EXEC runs the queue one command after the other (execute_queued_transaction).
LEMMA ExecutedTrace ==
  ASSUME NEW q \in Seq(Command)
  PROVE  \E r : /\ r[0] = Store /\ FoldLeft(execute_command, Store, q) = r[Len(q)]
                /\ \A i \in 1 .. Len(q) : r[i] = execute_command(r[i - 1], q[i])
<1>. DEFINE n == Len(q)
            h == CHOOSE g : Effects(q, n, g)
            r == [i \in 0 .. n |-> h[1 .. i]]
<1>1. DOMAIN q = 1 .. n /\ n \in Nat
  OBVIOUS
<1>2. FoldLeft(execute_command, Store, q) = h[1 .. n]
  BY <1>1, Zenon DEF FoldLeft, MapThenFoldSet, Effects
<1>3. Effects(q, n, h)
  BY <1>1, EffectsExist, Zenon
<1>. HIDE DEF n, h
<1>4. \A s \in SUBSET (1 .. n) :
        h[s] = IF s = {} THEN Store ELSE execute_command(h[s \ {Max(s)}], q[Max(s)])
  BY <1>3, Zenon DEF Effects
<1>5. r[0] = Store
  <2>1. 1 .. 0 = {} /\ {} \in SUBSET (1 .. n) /\ 0 \in 0 .. n
    BY <1>1
  <2>2. h[{}] = Store
    BY <1>4, <2>1, Zenon
  <2>. QED  BY <2>1, <2>2
<1>6. ASSUME NEW i \in 1 .. n
      PROVE  r[i] = execute_command(r[i - 1], q[i])
  <2>1. /\ i \in Nat /\ i \in 1 .. i /\ 1 .. i \in SUBSET (1 .. i)
        /\ 1 .. i \in SUBSET (1 .. n) /\ i \in 0 .. n /\ i - 1 \in 0 .. n
    BY <1>1
  <2>2. Max(1 .. i) = i /\ 1 .. i # {}
    BY <2>1, MaxIs, Zenon
  <2>3. \A j : j \in (1 .. i) \ {i} <=> j \in 1 .. i - 1
    OBVIOUS
  <2>4. (1 .. i) \ {i} = 1 .. i - 1
    BY <2>3, Zenon
  <2>5. h[1 .. i] = execute_command(h[(1 .. i) \ {Max(1 .. i)}], q[Max(1 .. i)])
    BY <1>4, <2>1, <2>2, Zenon
  <2>6. h[1 .. i] = execute_command(h[1 .. i - 1], q[i])
    BY <2>2, <2>4, <2>5, Zenon
  <2>7. r[i] = h[1 .. i] /\ r[i - 1] = h[1 .. i - 1]
    BY <2>1
  <2>. QED  BY <2>6, <2>7, Zenon
<1>7. r[n] = h[1 .. n]
  BY <1>1
<1>. HIDE DEF r
<1>. QED  BY <1>2, <1>5, <1>6, <1>7, Zenon DEF n

-----------------------------------------------------------------------------
(* The types, and the capacity of the buffers. *)

KeyState == [there : BOOLEAN, expiry : Time \cup {NoExpiry}]

\* What TypeOK says beyond Shape: the keys, the clock, and that no buffer is over-full.
StoreInv ==
  /\ key \in [Key -> KeyState] /\ clock \in Time
  /\ \A s \in Session : used_bytes(state[s].commands) <= Capacity

LEMMA AbsentTyped == Absent \in KeyState /\ NoExpiry \in Time \cup {NoExpiry}
  BY DEF Absent, KeyState, NoExpiry

\* A command leaves every key present or absent, with a deadline or without (execute_command).
LEMMA ExecuteTyped ==
  ASSUME NEW st, st.key \in [Key -> KeyState], clock \in Time, NEW c \in Command
  PROVE  execute_command(st, c).key \in [Key -> KeyState]
<1>1. CASE c.op = "UNWATCH"
  BY <1>1 DEF execute_command
<1>2. CASE c.op # "UNWATCH"
  <2>. DEFINE now == purge_if_expired(st, c.key)
  <2>1. c.key \in Key
    BY <1>2 DEF Command
  <2>2. now.key \in [Key -> KeyState]
    BY AbsentTyped, Zenon DEF purge_if_expired
  <2>. HIDE DEF now
  <2>3. \A e \in KeyState : Put(now, c.key, e).key \in [Key -> KeyState]
    BY <2>1, <2>2 DEF Put
  <2>4. /\ [there |-> TRUE, expiry |-> NoExpiry] \in KeyState
        /\ clock < MaxTime => [there |-> TRUE, expiry |-> clock + 1] \in KeyState
    BY AbsentTyped, TransactionsAssumption DEF KeyState, Time
  <2>5. execute_command(st, c)
          \in {now, Put(now, c.key, [there |-> TRUE, expiry |-> NoExpiry]), Put(now, c.key, Absent)}
        \/ /\ clock < MaxTime
           /\ execute_command(st, c) = Put(now, c.key, [there |-> TRUE, expiry |-> clock + 1])
    BY <1>2 DEF execute_command, now
  <2>. QED  BY <2>2, <2>3, <2>4, <2>5, AbsentTyped
<1>. QED  BY <1>1, <1>2

\* So does a queue (execute_queued_transaction).
LEMMA ExecutedTyped ==
  ASSUME key \in [Key -> KeyState], clock \in Time, NEW q \in Seq(Command)
  PROVE  FoldLeft(execute_command, Store, q).key \in [Key -> KeyState]
<1>1. PICK r : /\ r[0] = Store /\ FoldLeft(execute_command, Store, q) = r[Len(q)]
               /\ \A i \in 1 .. Len(q) : r[i] = execute_command(r[i - 1], q[i])
  BY ExecutedTrace, Zenon
<1>. DEFINE S == {i \in Nat : i <= Len(q) => r[i].key \in [Key -> KeyState]}
<1>2. 0 \in S
  BY <1>1 DEF Store
<1>3. ASSUME NEW i \in S
      PROVE  i + 1 \in S
  <2>1. SUFFICES ASSUME i + 1 <= Len(q)
                 PROVE  r[i + 1].key \in [Key -> KeyState]
    OBVIOUS
  <2>2. /\ i + 1 \in 1 .. Len(q) /\ i + 1 - 1 = i /\ q[i + 1] \in Command
        /\ r[i].key \in [Key -> KeyState]
    BY <2>1
  <2>3. r[i + 1] = execute_command(r[i], q[i + 1])
    BY <1>1, <2>2
  <2>. QED  BY <2>2, <2>3, ExecuteTyped, Zenon
<1>. HIDE DEF S
<1>4. Len(q) \in S
  BY <1>2, <1>3, Inductive
<1>. QED  BY <1>1, <1>4 DEF S

\* Releasing and reporting leave the queues alone (WatchRegistry::remove, modified).
LEMMA RemoveQueues ==
  ASSUME NEW ss \in [Session -> StateShape], NEW reg, NEW s \in Session
  PROVE  /\ remove(ss, reg, s).state \in [Session -> StateShape]
         /\ SameQueues(ss, remove(ss, reg, s).state)
<1>. DEFINE u == [ss[s] EXCEPT !.has_watches = FALSE, !.watch_dirty = FALSE]
            tt == remove(ss, reg, s).state
<1>1. /\ u \in StateShape /\ u.in_multi = ss[s].in_multi /\ u.failure = ss[s].failure
      /\ u.commands = ss[s].commands
  BY Zenon DEF StateShape
<1>2. tt = [ss EXCEPT ![s] = u]
  BY Zenon DEF remove
<1>. HIDE DEF u, tt
<1>3. tt \in [Session -> StateShape] /\ SameQueues(ss, tt)
  BY <1>1, <1>2, Zenon DEF SameQueues
<1>. QED  BY <1>3 DEF tt

LEMMA ModifiedQueues ==
  ASSUME NEW ss \in [Session -> StateShape], NEW reg, NEW M
  PROVE  /\ modified(ss, reg, M) \in [Session -> StateShape]
         /\ SameQueues(ss, modified(ss, reg, M))
<1>. DEFINE tt == modified(ss, reg, M)
            hit(t) == \E k \in Key : k \in M /\ t \in reg[k]
<1>1. tt = [t \in Session |-> [ss[t] EXCEPT !.watch_dirty = @ \/ hit(t)]]
  BY DEF modified
<1>2. ASSUME NEW t \in Session
      PROVE  /\ tt[t] \in StateShape /\ tt[t].in_multi = ss[t].in_multi
             /\ tt[t].failure = ss[t].failure /\ tt[t].commands = ss[t].commands
  <2>1. (ss[t].watch_dirty \/ hit(t)) \in BOOLEAN
    OBVIOUS
  <2>2. PICK b \in BOOLEAN : b = (ss[t].watch_dirty \/ hit(t))
    BY <2>1, Zenon
  <2>3. tt[t] = [ss[t] EXCEPT !.watch_dirty = b]
    BY <1>1, <2>2, Zenon
  <2>4. LET u == [ss[t] EXCEPT !.watch_dirty = b]
        IN  /\ u \in StateShape /\ u.in_multi = ss[t].in_multi
            /\ u.failure = ss[t].failure /\ u.commands = ss[t].commands
    BY Zenon DEF StateShape
  <2>. QED  BY <2>3, <2>4, Zenon
<1>3. tt = [t \in Session |-> tt[t]]
  BY DEF modified
<1>. HIDE DEF tt
<1>4. tt \in [Session -> StateShape] /\ SameQueues(ss, tt)
  BY <1>2, <1>3, Zenon DEF SameQueues
<1>. QED  BY <1>4 DEF tt

\* A step that reports an effect keeps the types when the effect and the queues have them.
LEMMA AfterTyped ==
  ASSUME StoreInv, NEW effect, NEW ss, NEW reg, After(effect, ss, reg),
         effect.key \in [Key -> KeyState], ss \in [Session -> StateShape],
         \A t \in Session : ss[t].commands \in {state[t].commands, <<>>}
  PROVE  StoreInv'
<1>1. /\ key' = effect.key /\ state' = modified(ss, reg, effect.modified) /\ clock' = clock
  BY DEF After
<1>2. \A t \in Session : state'[t].commands = ss[t].commands
  BY <1>1, ModifiedQueues DEF SameQueues
<1>3. \A t \in Session : used_bytes(state'[t].commands) <= Capacity
  <2>1. 0 <= Capacity
    BY TransactionsAssumption
  <2>. QED  BY <1>2, <2>1, UsedGrows, Zenon DEF StoreInv
<1>. QED  BY <1>1, <1>3 DEF StoreInv

LEMMA PurgedTyped ==
  ASSUME StoreInv, NEW K
  PROVE  Purged(K).key \in [Key -> KeyState] /\ Store.key \in [Key -> KeyState]
  BY AbsentTyped, Zenon DEF Purged, Store, StoreInv

\* The handlers that end a transaction, and those that release watches.
LEMMA FinishTyped ==
  ASSUME TransactionInv, StoreInv, NEW s \in Session,
         \/ execute_queued_transaction(s) \/ discard(s) \/ unwatch(s) \/ reset_connection(s)
  PROVE  StoreInv'
<1>. DEFINE r == remove(state, watched, s)
            effect == IF Runs(s) THEN Executed(s) ELSE Store
            u == [r.state[s] EXCEPT !.commands = <<>>, !.in_multi = FALSE, !.failure = "none"]
<1>1. state \in [Session -> StateShape] /\ state[s].commands \in Seq(Command)
  BY DEF TransactionInv, Shape, StateShape
<1>2. r.state \in [Session -> StateShape] /\ SameQueues(state, r.state)
  BY <1>1, RemoveQueues
<1>3. \/ After(effect, finish(r.state, s), r.watched) \/ After(Store, finish(r.state, s), r.watched)
      \/ After(Store, r.state, r.watched) \/ After(Store, [r.state EXCEPT ![s] = Fresh], r.watched)
  BY Zenon DEF execute_queued_transaction, discard, unwatch, reset_connection
<1>4. Store.key \in [Key -> KeyState]
  BY PurgedTyped
<1>5. effect.key \in [Key -> KeyState]
  <2>1. Executed(s).key \in [Key -> KeyState]
    BY <1>1, ExecutedTyped DEF Executed, StoreInv
  <2>. QED  BY <1>4, <2>1, Zenon
<1>. HIDE DEF r, effect
<1>6. <<>> \in Seq(Command)
  OBVIOUS
<1>7. u \in StateShape /\ u.commands = <<>>
  <2>1. r.state[s] \in StateShape
    BY <1>2
  <2>. QED  BY <1>6, <2>1, Zenon DEF StateShape
<1>8. finish(r.state, s) = [r.state EXCEPT ![s] = u]
  BY <1>2, Zenon DEF finish
<1>. HIDE DEF u
<1>9. Fresh \in StateShape /\ Fresh.commands = <<>>
  BY <1>6, Zenon DEF Fresh, StateShape
<1>10. \A v \in StateShape :
         v.commands = <<>> =>
           /\ [r.state EXCEPT ![s] = v] \in [Session -> StateShape]
           /\ \A t \in Session :
                [r.state EXCEPT ![s] = v][t].commands \in {state[t].commands, <<>>}
  BY <1>2, Zenon DEF SameQueues
<1>11. \A t \in Session : r.state[t].commands \in {state[t].commands, <<>>}
  BY <1>2, Zenon DEF SameQueues
<1>12. /\ finish(r.state, s) \in [Session -> StateShape]
       /\ \A t \in Session : finish(r.state, s)[t].commands \in {state[t].commands, <<>>}
  BY <1>7, <1>8, <1>10
<1>13. /\ [r.state EXCEPT ![s] = Fresh] \in [Session -> StateShape]
       /\ \A t \in Session : [r.state EXCEPT ![s] = Fresh][t].commands \in {state[t].commands, <<>>}
  BY <1>9, <1>10, Zenon
<1>14. CASE After(effect, finish(r.state, s), r.watched)
  BY <1>5, <1>12, <1>14, AfterTyped
<1>15. CASE After(Store, finish(r.state, s), r.watched)
  BY <1>4, <1>12, <1>15, AfterTyped
<1>16. CASE After(Store, r.state, r.watched)
  BY <1>2, <1>4, <1>11, <1>16, AfterTyped
<1>17. CASE After(Store, [r.state EXCEPT ![s] = Fresh], r.watched)
  BY <1>4, <1>13, <1>17, AfterTyped
<1>. QED  BY <1>3, <1>14, <1>15, <1>16, <1>17, Zenon

\* WATCH, whether it registers or throws.
LEMMA WatchTyped ==
  ASSUME TransactionInv, StoreInv, NEW s \in Session, NEW K \in SUBSET Key,
         watch(s, K) \/ watch_throws(s, K)
  PROVE  StoreInv'
<1>. DEFINE purged == Purged(K)
            told == modified(state, watched, purged.modified)
            r == remove(told, watched, s)
            u == [told[s] EXCEPT !.has_watches = TRUE]
<1>1. state \in [Session -> StateShape]
  BY DEF TransactionInv, Shape
<1>2. told \in [Session -> StateShape] /\ SameQueues(state, told)
  BY <1>1, ModifiedQueues, Zenon
<1>3. purged.key \in [Key -> KeyState]
  BY PurgedTyped
<1>4. CASE watch(s, K)
  <2>1. /\ key' = purged.key /\ state' = [told EXCEPT ![s].has_watches = TRUE] /\ clock' = clock
    BY <1>4 DEF watch
  <2>. HIDE DEF purged, told
  <2>2. u.commands = told[s].commands
    BY <1>2 DEF StateShape
  <2>3. state' = [told EXCEPT ![s] = u]
    BY <1>2, <2>1, Zenon
  <2>. HIDE DEF u
  <2>4. \A t \in Session : state'[t].commands = state[t].commands
    BY <1>2, <2>2, <2>3 DEF SameQueues
  <2>. QED  BY <1>3, <2>1, <2>4 DEF StoreInv
<1>5. CASE watch_throws(s, K)
  <2>1. After(purged, r.state, r.watched)
    BY <1>5, Zenon DEF watch_throws
  <2>. HIDE DEF purged, told
  <2>2. r.state \in [Session -> StateShape] /\ SameQueues(told, r.state)
    BY <1>2, RemoveQueues, Zenon
  <2>3. \A t \in Session : r.state[t].commands \in {state[t].commands, <<>>}
    BY <1>2, <2>2, Zenon DEF SameQueues
  <2>. HIDE DEF r
  <2>. QED  BY <1>3, <2>1, <2>2, <2>3, AfterTyped
<1>. QED  BY <1>4, <1>5, Zenon

\* MULTI empties the queue, and a command is added only where it fits (queue_command).
LEMMA QueueTyped ==
  ASSUME TransactionInv, StoreInv, NEW s \in Session,
         multi(s) \/ refuse_command(s) \/ \E c \in Command : queue_command(s, c)
  PROVE  StoreInv'
<1>. DEFINE fits(c) == used_bytes(state[s].commands) + Size(c) <= Capacity
<1>1. state \in [Session -> StateShape] /\ state[s] \in StateShape
  BY Zenon DEF TransactionInv, Shape
<1>2. key' = key /\ clock' = clock
  BY Zenon DEF multi, refuse_command, queue_command
<1>3. PICK u : state' = [state EXCEPT ![s] = u]
               /\ \/ u.commands \in {state[s].commands, <<>>}
                  \/ \E c \in Command : u.commands = Append(state[s].commands, c) /\ fits(c)
  <2>1. CASE multi(s)
    <3>. DEFINE u == [state[s] EXCEPT !.in_multi = TRUE, !.failure = "none", !.commands = <<>>]
    <3>1. state' = [state EXCEPT ![s] = u]
      BY <1>1, <2>1, Zenon DEF multi
    <3>2. u.commands = <<>>
      BY <1>1, Zenon DEF StateShape
    <3>. HIDE DEF u
    <3>. QED  BY <3>1, <3>2, Zenon
  <2>2. ASSUME NEW f, state' = [state EXCEPT ![s].failure = f]
        PROVE  \E u : state' = [state EXCEPT ![s] = u] /\ u.commands = state[s].commands
    <3>. DEFINE u == [state[s] EXCEPT !.failure = f]
    <3>1. state' = [state EXCEPT ![s] = u]
      BY <1>1, <2>2
    <3>2. u.commands = state[s].commands
      BY <1>1 DEF StateShape
    <3>. HIDE DEF u
    <3>. QED  BY <3>1, <3>2, Zenon
  <2>3. CASE state' = state
    <3>1. state' = [state EXCEPT ![s] = state[s]]
      BY <1>1, <2>3
    <3>. QED  BY <3>1, Zenon
  <2>4. ASSUME NEW c \in Command, state' = [state EXCEPT ![s].commands = Append(@, c)]
        PROVE  \E u : state' = [state EXCEPT ![s] = u] /\ u.commands = Append(state[s].commands, c)
    <3>. DEFINE u == [state[s] EXCEPT !.commands = Append(state[s].commands, c)]
    <3>1. state' = [state EXCEPT ![s] = u]
      BY <1>1, <2>4, Zenon
    <3>2. u.commands = Append(state[s].commands, c)
      BY <1>1, Zenon DEF StateShape
    <3>. HIDE DEF u
    <3>. QED  BY <3>1, <3>2, Zenon
  <2>5. CASE refuse_command(s)
    BY <2>2, <2>3, <2>5, Zenon DEF refuse_command
  <2>6. ASSUME NEW c \in Command, queue_command(s, c)
        PROVE  \E u : state' = [state EXCEPT ![s] = u]
                      /\ \/ u.commands \in {state[s].commands, <<>>}
                         \/ \E d \in Command : u.commands = Append(state[s].commands, d) /\ fits(d)
    <3>1. \/ state' = state \/ state' = [state EXCEPT ![s].failure = "buffer_limit"]
          \/ fits(c) /\ state' = [state EXCEPT ![s].commands = Append(@, c)]
      BY <2>6, Zenon DEF queue_command
    <3>. HIDE DEF fits
    <3>2. CASE state' = state
      BY <2>3, <3>2, Zenon
    <3>3. CASE state' = [state EXCEPT ![s].failure = "buffer_limit"]
      BY <2>2, <3>3, Zenon
    <3>4. CASE fits(c) /\ state' = [state EXCEPT ![s].commands = Append(@, c)]
      BY <2>4, <3>4, Zenon
    <3>. QED  BY <3>1, <3>2, <3>3, <3>4
  <2>. QED  BY <2>1, <2>5, <2>6, Zenon
<1>4. used_bytes(u.commands) <= Capacity
  <2>1. 0 <= Capacity /\ state[s].commands \in Seq(Command)
    BY <1>1, TransactionsAssumption DEF StateShape
  <2>. QED  BY <1>3, <2>1, UsedGrows, Zenon DEF StoreInv
<1>5. \A t \in Session : state'[t] = IF t = s THEN u ELSE state[t]
  BY <1>1, <1>3
<1>. QED  BY <1>2, <1>4, <1>5, Zenon DEF StoreInv

\* Commands outside MULTI, loads, the sweep and the clock.
LEMMA EffectTyped ==
  ASSUME TransactionInv, StoreInv,
         \/ \E s \in Session, c \in Command : direct_command(s, c)
         \/ load \/ (\E k \in Key : active_expire(k)) \/ tick \/ UNCHANGED vars
  PROVE  StoreInv'
<1>1. /\ state \in [Session -> StateShape] /\ Store.key \in [Key -> KeyState]
      /\ key \in [Key -> KeyState] /\ clock \in Time
      /\ \A t \in Session : state[t].commands \in {state[t].commands, <<>>}
  BY PurgedTyped, Zenon DEF TransactionInv, Shape, StoreInv
<1>2. ASSUME NEW s \in Session, NEW c \in Command, direct_command(s, c)
      PROVE  StoreInv'
  <2>1. execute_command(Store, c).key \in [Key -> KeyState]
    BY <1>1, ExecuteTyped, Zenon
  <2>2. After(execute_command(Store, c), state, watched)
    BY <1>2, Zenon DEF direct_command
  <2>. QED  BY <1>1, <2>1, <2>2, AfterTyped
<1>3. CASE load
  <2>. DEFINE effect == [key |-> [k \in Key |-> Absent], modified |-> Key]
  <2>1. After(effect, state, watched) /\ effect.key \in [Key -> KeyState]
    BY <1>3, AbsentTyped, Zenon DEF load
  <2>. HIDE DEF effect
  <2>. QED  BY <1>1, <2>1, AfterTyped, Zenon
<1>4. ASSUME NEW k \in Key, active_expire(k)
      PROVE  StoreInv'
  <2>1. After(Purged({k}), state, watched) /\ Purged({k}).key \in [Key -> KeyState]
    BY <1>4, PurgedTyped, Zenon DEF active_expire
  <2>. QED  BY <1>1, <2>1, AfterTyped, Zenon
<1>5. CASE tick
  BY <1>5, TransactionsAssumption DEF tick, StoreInv, Time
<1>6. CASE UNCHANGED vars
  BY <1>6 DEF vars, StoreInv
<1>. QED  BY <1>2, <1>3, <1>4, <1>5, <1>6, Zenon

\* Sessions start with empty buffers.
LEMMA StoreInvInit == Init => StoreInv
<1>. SUFFICES ASSUME Init PROVE StoreInv
  OBVIOUS
<1>1. key \in [Key -> KeyState] /\ clock \in Time
  BY AbsentTyped, TransactionsAssumption DEF Init, Time
<1>2. Fresh.commands = <<>> /\ 0 <= Capacity
  BY TransactionsAssumption DEF Fresh
<1>. QED  BY <1>1, <1>2, UsedGrows, Zenon DEF Init, StoreInv

LEMMA StoreInvStep == TransactionInv /\ StoreInv /\ [Next]_vars => StoreInv'
<1>. SUFFICES ASSUME TransactionInv, StoreInv, [Next]_vars PROVE StoreInv'
  OBVIOUS
<1>1. ASSUME NEW s \in Session,
             \/ execute_queued_transaction(s) \/ discard(s) \/ unwatch(s) \/ reset_connection(s)
      PROVE  StoreInv'
  BY <1>1, FinishTyped
<1>2. ASSUME NEW s \in Session, NEW K \in SUBSET Key, watch(s, K) \/ watch_throws(s, K)
      PROVE  StoreInv'
  BY <1>2, WatchTyped, Zenon
<1>3. ASSUME NEW s \in Session,
             multi(s) \/ refuse_command(s) \/ \E c \in Command : queue_command(s, c)
      PROVE  StoreInv'
  BY <1>3, QueueTyped, Zenon
<1>4. ASSUME \/ \E s \in Session, c \in Command : direct_command(s, c)
             \/ load \/ (\E k \in Key : active_expire(k)) \/ tick \/ UNCHANGED vars
      PROVE  StoreInv'
  BY <1>4, EffectTyped
<1>. QED  BY <1>1, <1>2, <1>3, <1>4, Zenon DEF Next

\* The types hold, and no queue outgrows its buffer: what EXEC would run always fits the
\* memory the session was given (TransactionBuffer::append, failure).
THEOREM TransactionTypes == Spec => []TypeOK
<1>1. TransactionInv /\ StoreInv => TypeOK
  <2>. SUFFICES ASSUME TransactionInv, StoreInv PROVE TypeOK
    OBVIOUS
  <2>1. ASSUME NEW s \in Session
        PROVE  /\ DOMAIN state[s] = DOMAIN Fresh
               /\ {state[s].in_multi, state[s].watch_dirty, state[s].has_watches} \subseteq BOOLEAN
               /\ state[s].failure \in {"none", "command_error", "buffer_limit"}
               /\ state[s].commands \in Seq(Command)
    <3>1. state[s] \in StateShape
      BY DEF TransactionInv, Shape
    <3>2. DOMAIN state[s] = {"in_multi", "watch_dirty", "has_watches", "failure", "commands"}
      BY <3>1, Zenon DEF StateShape
    <3>3. DOMAIN Fresh = {"in_multi", "watch_dirty", "has_watches", "failure", "commands"}
      BY DEF Fresh
    <3>. QED  BY <3>1, <3>2, <3>3, Zenon DEF StateShape
  <2>. QED  BY <2>1 DEF TransactionInv, Shape, StoreInv, TypeOK, KeyState
<1>. QED  BY <1>1, StoreInvInit, StoreInvStep, TransactionInvariant, PTL DEF Spec
=============================================================================
