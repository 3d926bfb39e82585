------------------------ MODULE BlockingListsProofs ------------------------
(***************************************************************************)
(* Proofs about BlockingLists: whoever waits is not forgotten, is served   *)
(* in order, and is known to the registry exactly while it waits.          *)
(***************************************************************************)
EXTENDS BlockingLists, WellFoundedInduction, TLAPS

\* The waiters serve_ready has passed since its last restart cannot be answered.
Scanned == pc = "scan" => \A i \in 1..index - 1 : ~Ready(blocked[waiters[i]].cmd)

\* As long as the store has not changed since the last scan, no waiter can be answered.
Settled ==
  (pc = "idle" \/ (pc \in {"exec", "serve_ready"} /\ ~dirty)) =>
    \A c \in Clients : Blocked(c) => ~Ready(blocked[c].cmd)

\* waiters_ is in the order in which the sessions were parked.
Sorted ==
  /\ \A i, j \in DOMAIN waiters : i < j => blocked[waiters[i]].since < blocked[waiters[j]].since
  /\ \A c \in Clients : Blocked(c) => blocked[c].since < parked

\* No more commands are in the input than were sent.
Counted == \A c \in Clients : Len(inbox[c]) <= sent[c]

IInv == TypeOK /\ Counted /\ WaitersAgree /\ Sorted /\ Scanned /\ Settled
-----------------------------------------------------------------------------
(* Lemmas about data. *)

\* A function on 1 .. n with values in S is a sequence of n elements of S.
LEMMA SeqOfFunction ==
  ASSUME NEW S, NEW n \in Nat, NEW f \in [1 .. n -> S]
  PROVE  f \in Seq(S) /\ Len(f) = n /\ DOMAIN f = 1 .. n
  OBVIOUS

\* A nonempty set of numbers has a smallest element.
LEMMA Smallest ==
  ASSUME NEW T \in SUBSET Nat, T # {}
  PROVE  \E m \in T : \A n \in T : m <= n
<1>1. PICK x \in T : \A y \in T : ~(<<y, x>> \in OpToRel(<, Nat))
  BY NatLessThanWellFounded, WFMin, Zenon
<1>2. \A y \in T : ~(y < x)
  BY <1>1, Zenon DEF OpToRel
<1>. QED  BY <1>2

\* A pop that can be answered stops at one of its keys, which holds something, and of a
\* move it is the source (Store::lpop, Store::lmove).
LEMMA SourceHolds ==
  ASSUME NEW cmd \in Simple, Ready(cmd)
  PROVE  /\ Source(cmd) \in Keys /\ Holds(Source(cmd))
         /\ \E i \in Sources(cmd) : Source(cmd) = cmd.keys[i]
         /\ cmd.op = "blmove" => cmd.keys[2] \in Keys
<1>. DEFINE T == {i \in Sources(cmd) : Holds(cmd.keys[i])}
            Least(i) == Holds(cmd.keys[i]) /\ \A j \in Sources(cmd) : Holds(cmd.keys[j]) => i <= j
<1>1. cmd.keys \in Seq(Keys) /\ cmd.keys # <<>> /\ (cmd.op = "blmove" => Len(cmd.keys) = 2)
  BY DEF Simple
<1>2. Sources(cmd) \subseteq Nat /\ \A i \in Sources(cmd) : cmd.keys[i] \in Keys
  BY <1>1 DEF Sources
<1>3. T \subseteq Nat /\ T # {}
  BY <1>2 DEF Ready
<1>4. \E m \in T : \A n \in T : m <= n
  BY <1>3, Smallest, Zenon
<1>5. \E i \in Sources(cmd) : Least(i)
  BY <1>4
<1>6. LET i == CHOOSE i \in Sources(cmd) : Least(i) IN i \in Sources(cmd) /\ Least(i)
  BY <1>5
<1>7. Source(cmd) = cmd.keys[CHOOSE i \in Sources(cmd) : Least(i)]
  BY DEF Source
<1>8. cmd.op = "blmove" => cmd.keys[2] \in Keys
  BY <1>1
<1>. QED  BY <1>2, <1>6, <1>7, <1>8, Zenon

\* A session that waits has a request.
LEMMA HasRequest ==
  ASSUME TypeOK, NEW c \in Clients, Blocked(c)
  PROVE  blocked[c] \in Request /\ blocked[c].cmd \in Simple /\ blocked[c].since \in Nat
         /\ blocked[c].reply_to \in Nat
<1>1. blocked[c] \in {NoRequest} \cup Request
  BY DEF TypeOK
<1>2. NoRequest.waits = FALSE
  BY DEF NoRequest
<1>3. blocked[c] \in Request
  BY <1>1, <1>2 DEF Blocked
<1>. QED  BY <1>3, Zenon DEF Request

\* An entry of waiters_ is a client that waits (park, remove).
LEMMA WaiterWaits ==
  ASSUME TypeOK, WaitersAgree, NEW i \in DOMAIN waiters
  PROVE  waiters[i] \in Clients /\ Blocked(waiters[i])
  BY DEF TypeOK, WaitersAgree

StoreOK ==
  /\ lists \in [Keys -> Seq(Nat)] /\ strings \subseteq Keys /\ dirty \in BOOLEAN
  /\ got \subseteq Given /\ dropped \subseteq Nat /\ pushed \in Nat

\* The store is as it was, or serve_ready is told (signal_key_modified).
Told ==
  \/ dirty' = TRUE
  \/ lists' = lists /\ strings' = strings /\ dirty' = dirty /\ got' = got

\* What is handed out goes to client c, from a list that has an element.
GivenTo(c) ==
  \A g \in got' \ got : g.client = c /\ g.key \in Keys /\ lists[g.key] # <<>>

\* A pop that is answered keeps the types and tells the registry (Store::lpop, Store::lmove).
LEMMA TakeStore ==
  ASSUME StoreOK, NEW c \in Clients, NEW cmd \in Simple, Ready(cmd), Take(c, cmd)
  PROVE  StoreOK' /\ Told /\ GivenTo(c)
         /\ \A g \in got' \ got : \E i \in Sources(cmd) : g.key = cmd.keys[i]
<1>. DEFINE k == Source(cmd)
            d == cmd.keys[2]
            moves == cmd.op = "blmove"
            popped == [lists EXCEPT ![k] = Tail(@)]
            g == [client |-> c, key |-> k, value |-> Head(lists[k]), moved |-> moves]
<1>1. k \in Keys /\ Holds(k) /\ (\E i \in Sources(cmd) : k = cmd.keys[i])
      /\ (moves => d \in Keys)
  BY SourceHolds
<1>2. strings' = strings /\ dropped' = dropped /\ pushed' = pushed
  BY DEF Take
<1>3. CASE WrongType(cmd)
  <2>1. lists' = lists /\ dirty' = dirty /\ got' = got
    BY <1>3 DEF Take
  <2>. QED  BY <2>1, <1>2 DEF StoreOK, Told, GivenTo
<1>4. CASE ~WrongType(cmd)
  <2>1. /\ lists' = IF moves THEN Moved(k, d) ELSE popped
        /\ dirty' = TRUE /\ got' = got \cup {g}
    BY <1>4 DEF Take
  <2>2. k \notin strings
    BY <1>4 DEF WrongType
  <2>3. lists[k] # <<>> /\ lists[k] \in Seq(Nat)
    BY <1>1, <2>2 DEF Holds, StoreOK
  <2>4. Head(lists[k]) \in Nat /\ Tail(lists[k]) \in Seq(Nat)
    BY <2>3
  <2>5. popped \in [Keys -> Seq(Nat)]
    BY <2>4, Zenon DEF StoreOK
  <2>6. moves => Moved(k, d) \in [Keys -> Seq(Nat)]
    <3>1. Moved(k, d) = [popped EXCEPT ![d] = Append(@, Head(lists[k]))]
      BY DEF Moved
    <3>. HIDE DEF popped
    <3>2. moves => Append(popped[d], Head(lists[k])) \in Seq(Nat)
      BY <1>1, <2>4, <2>5
    <3>. QED  BY <3>1, <3>2, <2>5, Zenon
  <2>7. g \in Given
    BY <1>1, <2>4 DEF Given
  <2>8. StoreOK'
    BY <1>2, <2>1, <2>5, <2>6, <2>7 DEF StoreOK
  <2>9. g.client = c /\ g.key = k
    OBVIOUS
  <2>. HIDE DEF g
  <2>10. \A h \in got' \ got : h = g
    BY <2>1
  <2>11. GivenTo(c) /\ \A h \in got' \ got : \E i \in Sources(cmd) : h.key = cmd.keys[i]
    BY <2>9, <2>10, <2>3, <1>1 DEF GivenTo
  <2>. QED  BY <2>1, <2>8, <2>11 DEF Told
<1>. QED  BY <1>3, <1>4

\* SET, DEL and expiry keep the types (Replace).
LEMMA ReplaceStore ==
  ASSUME StoreOK, NEW k \in Keys, NEW others \in SUBSET Keys, Replace(k, others)
  PROVE  StoreOK' /\ dirty' = TRUE /\ got' = got
<1>1. lists' = [lists EXCEPT ![k] = <<>>] /\ dropped' = dropped \cup Elements(k)
      /\ strings' = others /\ dirty' = TRUE /\ got' = got /\ pushed' = pushed
  BY DEF Replace
<1>2. Elements(k) \subseteq Nat
  <2>1. lists[k] \in Seq(Nat)
    BY DEF StoreOK
  <2>. QED  BY <2>1 DEF Elements
<1>3. lists' \in [Keys -> Seq(Nat)]
  BY <1>1 DEF StoreOK
<1>. QED  BY <1>1, <1>2, <1>3, Zenon DEF StoreOK

\* Every command keeps the types of the store, and tells the registry when it changes it
\* (execute_command_into).
LEMMA ExecuteStore ==
  ASSUME StoreOK, NEW c \in Clients, NEW cmd \in Simple, execute_command_into(c, cmd)
  PROVE  /\ StoreOK' /\ Told /\ GivenTo(c)
         /\ Blocking(cmd) /\ ~Ready(cmd) => UNCHANGED storeVars
<1>. DEFINE k == cmd.keys[1]
<1>1. k \in Keys /\ cmd.n \in Nat
  BY DEF Simple
<1>2. CASE cmd.op = "rpush" /\ rpush(cmd)
  <2>1. ~Blocking(cmd)
    BY <1>2 DEF Blocking
  <2>2. CASE k \in strings
    BY <1>2, <2>1, <2>2 DEF rpush, storeVars, StoreOK, Told, GivenTo
  <2>3. CASE k \notin strings
    <3>. DEFINE new == [i \in 1..cmd.n |-> pushed + i]
    <3>1. /\ lists' = [lists EXCEPT ![k] = @ \o new]
          /\ pushed' = pushed + cmd.n /\ dirty' = TRUE
          /\ strings' = strings /\ got' = got /\ dropped' = dropped
      BY <1>2, <2>3, Zenon DEF rpush
    <3>2. new \in [1..cmd.n -> Nat]
      BY <1>1 DEF StoreOK
    <3>3. new \in Seq(Nat)
      BY <3>2, <1>1, SeqOfFunction
    <3>. HIDE DEF new
    <3>4. lists[k] \o new \in Seq(Nat)
      BY <1>1, <3>3 DEF StoreOK
    <3>5. lists' \in [Keys -> Seq(Nat)]
      BY <1>1, <3>1, <3>4 DEF StoreOK
    <3>. QED  BY <1>1, <2>1, <3>1, <3>5 DEF StoreOK, Told, GivenTo
  <2>. QED  BY <2>2, <2>3
<1>3. CASE cmd.op = "set" /\ Replace(k, strings \cup {k})
  <2>1. strings \cup {k} \in SUBSET Keys
    BY <1>1 DEF StoreOK
  <2>. QED  BY <1>1, <1>3, <2>1, ReplaceStore, Zenon DEF Told, GivenTo, Blocking
<1>4. CASE cmd.op = "del" /\ IF Holds(k) THEN Replace(k, strings \ {k}) ELSE UNCHANGED storeVars
  <2>1. strings \ {k} \in SUBSET Keys
    BY DEF StoreOK
  <2>2. CASE Holds(k)
    BY <1>1, <1>4, <2>1, <2>2, ReplaceStore, Zenon DEF Told, GivenTo, Blocking
  <2>3. CASE ~Holds(k)
    BY <1>4, <2>3, Zenon DEF storeVars, StoreOK, Told, GivenTo
  <2>. QED  BY <2>2, <2>3
<1>5. CASE Pops(cmd) /\ IF Ready(cmd) THEN Take(c, cmd) ELSE UNCHANGED storeVars
  <2>1. CASE Ready(cmd)
    BY <1>5, <2>1, TakeStore
  <2>2. CASE ~Ready(cmd)
    BY <1>5, <2>2, Zenon DEF storeVars, StoreOK, Told, GivenTo
  <2>. QED  BY <2>1, <2>2
<1>. QED  BY <1>2, <1>3, <1>4, <1>5 DEF execute_command_into
-----------------------------------------------------------------------------
(* Lemmas about the registry. *)

\* Erasing an entry shifts the later ones down.
LEMMA ErasedSeq ==
  ASSUME TypeOK, NEW i \in 1..Len(waiters)
  PROVE  /\ Erased(i) \in Seq(Clients) /\ Len(Erased(i)) = Len(waiters) - 1
         /\ DOMAIN Erased(i) = 1..Len(waiters) - 1
         /\ \A j \in 1..Len(waiters) - 1 : Erased(i)[j] = waiters[IF j < i THEN j ELSE j + 1]
<1>. DEFINE n == Len(waiters) - 1
<1>1. waiters \in Seq(Clients) /\ n \in Nat /\ DOMAIN waiters = 1..n + 1
  BY DEF TypeOK
<1>2. \A j \in 1..n : (IF j < i THEN j ELSE j + 1) \in 1..n + 1
  BY <1>1
<1>3. Erased(i) \in [1..n -> Clients]
  BY <1>1, <1>2 DEF Erased
<1>. QED  BY <1>1, <1>3, SeqOfFunction DEF Erased

\* A waiter that leaves keeps the registry in order (Release, remove).
LEMMA EraseAgrees ==
  ASSUME TypeOK, WaitersAgree, Sorted, NEW i \in 1..Len(waiters),
         waiters' = Erased(i), blocked' = [blocked EXCEPT ![waiters[i]] = NoRequest],
         parked' = parked, gone' \subseteq gone \cup {waiters[i]}
  PROVE  /\ WaitersAgree' /\ Sorted'
         /\ waiters' \in Seq(Clients) /\ blocked' \in [Clients -> {NoRequest} \cup Request]
         /\ \A x \in Clients :
              Blocked(x)' => x # waiters[i] /\ Blocked(x) /\ blocked'[x] = blocked[x]
         /\ Len(waiters') = Len(waiters) - 1
         /\ \A j \in 1..Len(waiters) - 1 : waiters'[j] = waiters[IF j < i THEN j ELSE j + 1]
<1>. DEFINE c == waiters[i]
            n == Len(waiters) - 1
            at(j) == IF j < i THEN j ELSE j + 1
<1>1. /\ waiters \in Seq(Clients) /\ n \in Nat /\ DOMAIN waiters = 1..n + 1 /\ c \in Clients
      /\ blocked \in [Clients -> {NoRequest} \cup Request]
  BY DEF TypeOK
<1>2. /\ waiters' \in Seq(Clients) /\ Len(waiters') = n /\ DOMAIN waiters' = 1..n
      /\ \A j \in 1..n : waiters'[j] = waiters[at(j)]
  BY ErasedSeq, Zenon
<1>3. \A j \in 1..n : at(j) \in 1..n + 1 /\ at(j) # i
  BY <1>1
<1>4. \A j, k \in 1..n : (at(j) = at(k) => j = k) /\ (j < k => at(j) < at(k))
  BY <1>1
<1>5. \A k \in 1..n + 1 : k # i => \E j \in 1..n : at(j) = k
  <2>. SUFFICES ASSUME NEW k \in 1..n + 1, k # i
                PROVE  \E j \in 1..n : at(j) = k
    OBVIOUS
  <2>1. CASE k < i
    <3>1. k \in 1..n /\ at(k) = k
      BY <2>1, <1>1
    <3>. QED  BY <3>1
  <2>2. CASE k > i
    <3>1. k - 1 \in 1..n /\ at(k - 1) = k
      BY <2>2, <1>1
    <3>. QED  BY <3>1
  <2>. QED  BY <2>1, <2>2, <1>1
<1>6. /\ NoRequest.waits = FALSE
      /\ blocked'[c] = NoRequest
      /\ \A x \in Clients : x # c => blocked'[x] = blocked[x]
      /\ blocked' \in [Clients -> {NoRequest} \cup Request]
  BY <1>1 DEF NoRequest
<1>7. \A x \in Clients : Blocked(x)' <=> (x # c /\ Blocked(x))
  BY <1>6 DEF Blocked
<1>8. \A j \in 1..n + 1 : j # i => waiters[j] # c
  BY <1>1 DEF WaitersAgree
<1>. HIDE DEF at, c, n
<1>9. WaitersAgree'
  <2>1. \A j, k \in 1..n : waiters'[j] = waiters'[k] => j = k
    BY <1>1, <1>2, <1>3, <1>4 DEF WaitersAgree
  <2>2. \A x \in Clients : Blocked(x)' <=> \E j \in 1..n : waiters'[j] = x
    <3>. SUFFICES ASSUME NEW x \in Clients
                  PROVE  Blocked(x)' <=> \E j \in 1..n : waiters'[j] = x
      OBVIOUS
    <3>1. CASE x = c
      BY <3>1, <1>2, <1>3, <1>7, <1>8
    <3>2. CASE x # c
      <4>1. Blocked(x) <=> \E k \in 1..n + 1 : waiters[k] = x
        BY <1>1 DEF WaitersAgree
      <4>2. \A k \in 1..n + 1 : waiters[k] = x => k # i
        BY <3>2 DEF c
      <4>3. ASSUME Blocked(x)  PROVE \E j \in 1..n : waiters'[j] = x
        <5>1. PICK k \in 1..n + 1 : waiters[k] = x
          BY <4>1, <4>3
        <5>2. PICK j \in 1..n : at(j) = k
          BY <5>1, <4>2, <1>5
        <5>. QED  BY <5>1, <5>2, <1>2
      <4>4. ASSUME NEW j \in 1..n, waiters'[j] = x  PROVE Blocked(x)
        <5>1. waiters[at(j)] = x /\ at(j) \in 1..n + 1
          BY <4>4, <1>2, <1>3
        <5>. QED  BY <5>1, <4>1
      <4>. QED  BY <4>3, <4>4, <3>2, <1>7
    <3>. QED  BY <3>1, <3>2
  <2>3. gone \subseteq Clients
    BY DEF TypeOK
  <2>4. \A x \in gone' : ~Blocked(x)'
    BY <2>3, <1>1, <1>7 DEF WaitersAgree, c
  <2>. QED  BY <2>1, <2>2, <2>4, <1>2 DEF WaitersAgree
<1>10. Sorted'
  <2>1. \A j \in 1..n : waiters'[j] \in Clients /\ waiters'[j] # c
    BY <1>1, <1>2, <1>3, <1>8
  <2>2. \A j \in 1..n : blocked'[waiters'[j]] = blocked[waiters[at(j)]]
    BY <2>1, <1>2, <1>6
  <2>3. \A j, k \in 1..n : j < k => blocked'[waiters'[j]].since < blocked'[waiters'[k]].since
    BY <2>2, <1>1, <1>3, <1>4 DEF Sorted
  <2>4. \A x \in Clients : Blocked(x)' => blocked'[x].since < parked'
    BY <1>6, <1>7 DEF Sorted
  <2>. QED  BY <2>3, <2>4, <1>2 DEF Sorted
<1>. QED  BY <1>1, <1>2, <1>6, <1>7, <1>9, <1>10 DEF c, n, at

\* A session that is parked comes last (park).
LEMMA ParkAgrees ==
  ASSUME TypeOK, WaitersAgree, Sorted, NEW c \in Clients, NEW cmd \in Simple,
         ~Blocked(c), c \notin gone, park(c, cmd), gone' = gone, Number(c) \in Nat
  PROVE  /\ WaitersAgree' /\ Sorted'
         /\ waiters' \in Seq(Clients) /\ blocked' \in [Clients -> {NoRequest} \cup Request]
         /\ parked' \in Nat /\ blocked'[c].cmd = cmd
         /\ \A x \in Clients : x # c => blocked'[x] = blocked[x]
<1>. DEFINE r == [waits |-> TRUE, cmd |-> cmd, reply_to |-> Number(c), since |-> parked,
                  deadline |-> IF cmd.timed THEN "ahead" ELSE "none"]
            n == Len(waiters)
<1>1. /\ blocked' = [blocked EXCEPT ![c] = r]
      /\ waiters' = Append(waiters, c) /\ parked' = parked + 1
  BY DEF park, Parked
<1>2. /\ waiters \in Seq(Clients) /\ n \in Nat /\ DOMAIN waiters = 1..n
      /\ blocked \in [Clients -> {NoRequest} \cup Request] /\ parked \in Nat
  BY DEF TypeOK
<1>3. /\ waiters' \in Seq(Clients) /\ DOMAIN waiters' = 1..n + 1 /\ waiters'[n + 1] = c
      /\ \A j \in 1..n : waiters'[j] = waiters[j]
  BY <1>1, <1>2
<1>4. r \in Request /\ r.waits = TRUE /\ r.since = parked /\ r.cmd = cmd
  BY <1>2 DEF Request
<1>. HIDE DEF r, n
<1>5. /\ blocked'[c] = r /\ (\A x \in Clients : x # c => blocked'[x] = blocked[x])
      /\ blocked' \in [Clients -> {NoRequest} \cup Request]
  BY <1>1, <1>2, <1>4
<1>6. \A j \in 1..n : waiters[j] # c /\ waiters[j] \in Clients /\ Blocked(waiters[j])
  BY <1>2 DEF WaitersAgree
<1>7. Blocked(c)' /\ \A x \in Clients : x # c => (Blocked(x)' <=> Blocked(x))
  BY <1>4, <1>5 DEF Blocked
<1>8. WaitersAgree'
  <2>1. ASSUME NEW j \in 1..n + 1, NEW k \in 1..n + 1, waiters'[j] = waiters'[k]  PROVE j = k
    <3>1. CASE j \in 1..n /\ k \in 1..n
      <4>1. waiters[j] = waiters[k]  BY <2>1, <3>1, <1>3
      <4>. QED  BY <4>1, <3>1, <1>2 DEF WaitersAgree
    <3>2. CASE j = n + 1 /\ k = n + 1
      BY <3>2
    <3>3. CASE j \in 1..n /\ k = n + 1
      BY <2>1, <3>3, <1>3, <1>6
    <3>4. CASE j = n + 1 /\ k \in 1..n
      BY <2>1, <3>4, <1>3, <1>6
    <3>. QED  BY <3>1, <3>2, <3>3, <3>4, <1>2
  <2>2. \A x \in Clients : Blocked(x)' <=> \E j \in 1..n + 1 : waiters'[j] = x
    <3>1. \A x \in Clients : Blocked(x) <=> \E j \in 1..n : waiters[j] = x
      BY <1>2 DEF WaitersAgree
    <3>. QED  BY <3>1, <1>2, <1>3, <1>6, <1>7
  <2>3. \A x \in gone' : ~Blocked(x)'
    BY <1>7 DEF WaitersAgree, TypeOK
  <2>. QED  BY <2>1, <2>2, <2>3, <1>3 DEF WaitersAgree
<1>9. Sorted'
  <2>1. \A j \in 1..n : blocked'[waiters'[j]] = blocked[waiters[j]]
                        /\ blocked[waiters[j]].since < parked
    BY <1>3, <1>5, <1>6 DEF Sorted
  <2>2. blocked'[waiters'[n + 1]].since = parked
    BY <1>3, <1>4, <1>5
  <2>3. \A j, k \in 1..n + 1 : j < k => blocked'[waiters'[j]].since < blocked'[waiters'[k]].since
    BY <2>1, <2>2, <1>2 DEF Sorted
  <2>4. \A x \in Clients : Blocked(x)' => blocked'[x].since < parked'
    <3>1. \A x \in Clients :
            x # c /\ Blocked(x)' => blocked'[x].since \in Nat /\ blocked'[x].since < parked
      BY <1>5, <1>7, HasRequest DEF Sorted
    <3>. QED  BY <3>1, <1>1, <1>2, <1>4, <1>5
  <2>. QED  BY <2>3, <2>4, <1>3 DEF Sorted
<1>. QED  BY <1>1, <1>2, <1>3, <1>4, <1>5, <1>8, <1>9
-----------------------------------------------------------------------------
(* Every step preserves IInv. *)

\* TypeOK without the store.
SessionsOK ==
  /\ pc \in {"idle", "exec", "serve_ready", "scan"}
  /\ cur \in Clients /\ rest \in Seq(Simple)
  /\ index \in Nat /\ (pc = "scan" => index \in 1..Len(waiters) + 1)
  /\ waiters \in Seq(Clients)
  /\ blocked \in [Clients -> {NoRequest} \cup Request]
  /\ inbox \in [Clients -> Seq(Command)]
  /\ sent \in [Clients -> Nat] /\ answered \in [Clients -> Seq(Nat)]
  /\ parked \in Nat /\ gone \subseteq Clients

\* TypeOK is about the store and the sessions.
LEMMA Types == TypeOK <=> StoreOK /\ SessionsOK
  BY Zenon DEF TypeOK, StoreOK, SessionsOK

\* The index of a scan is a place in waiters_, or the one behind the last.
LEMMA ScanTypes ==
  ASSUME SessionsOK, pc = "scan"
  PROVE  /\ index \in 1..Len(waiters) + 1 /\ Len(waiters) \in Nat
         /\ DOMAIN waiters = 1..Len(waiters)
  BY DEF SessionsOK

\* The initial state satisfies IInv.
LEMMA InitIInv ==
  ASSUME Init
  PROVE  IInv
<1>1. StoreOK
  <2>1. <<>> \in Seq(Nat)
    OBVIOUS
  <2>2. lists \in [Keys -> Seq(Nat)]
    BY <2>1 DEF Init
  <2>. QED  BY <2>2, Zenon DEF Init, StoreOK
<1>2. SessionsOK
  <2>1. cur \in Clients
    BY ClientsAssumption, Zenon DEF Init
  <2>2. Len(waiters) = 0 /\ waiters \in Seq(Clients)
    BY DEF Init
  <2>. QED  BY <2>1, <2>2 DEF Init, SessionsOK
<1>3. \A c \in Clients : ~Blocked(c)
  BY DEF Init, Blocked, NoRequest
<1>4. WaitersAgree /\ Sorted
  BY <1>3 DEF Init, WaitersAgree, Sorted
<1>5. Counted
  BY DEF Init, Counted
<1>. QED  BY <1>1, <1>2, <1>3, <1>4, <1>5, Types DEF Init, IInv, Scanned, Settled

\* An answer is a number appended to those of its client (record_reply).
LEMMA AnswerType ==
  ASSUME SessionsOK, NEW c \in Clients, NEW number \in Nat, Answer(c, number)
  PROVE  answered' \in [Clients -> Seq(Nat)]
<1>1. Append(answered[c], number) \in Seq(Nat)
  BY DEF SessionsOK
<1>. QED  BY <1>1 DEF SessionsOK, Answer

\* With the same lists, strings and requests the same waiters can be answered.
LEMMA SettledStays ==
  ASSUME TypeOK, NEW c \in Clients, Blocked(c) => ~Ready(blocked[c].cmd),
         lists' = lists, strings' = strings,
         Blocked(c)' => Blocked(c) /\ blocked'[c].cmd = blocked[c].cmd
  PROVE  Blocked(c)' => ~Ready(blocked[c].cmd)'
  BY DEF Ready, Holds, Sources

\* A command is dispatched: executed, parked, or a transaction begun.
LEMMA DispatchIInv ==
  ASSUME IInv, NEW c \in Clients, dispatch_resp_command(c)
  PROVE  IInv'
<1>. DEFINE cmd == Head(inbox[c])
<1>1. StoreOK /\ SessionsOK /\ TypeOK
  BY Types DEF IInv
<1>2. /\ pc = "idle" /\ c \notin gone /\ inbox[c] # <<>> /\ ~Blocked(c)
      /\ inbox' = [inbox EXCEPT ![c] = Tail(@)]
      /\ index' = index /\ sent' = sent /\ gone' = gone
  BY DEF dispatch_resp_command, Unblocked
<1>3. /\ inbox[c] \in Seq(Command) /\ cmd \in Command /\ Tail(inbox[c]) \in Seq(Command)
      /\ Len(Tail(inbox[c])) = Len(inbox[c]) - 1 /\ Len(inbox[c]) \in Nat
  BY <1>1, <1>2 DEF SessionsOK
<1>4. inbox' \in [Clients -> Seq(Command)] /\ Counted'
  <2>1. inbox' \in [Clients -> Seq(Command)]
    BY <1>1, <1>2, <1>3 DEF SessionsOK
  <2>2. \A x \in Clients : inbox'[x] = IF x = c THEN Tail(inbox[c]) ELSE inbox[x]
    BY <1>1, <1>2 DEF SessionsOK
  <2>3. \A x \in Clients : Len(inbox[x]) <= sent[x] /\ sent[x] \in Nat
    BY <1>1 DEF IInv, Counted, SessionsOK
  <2>. QED  BY <2>1, <2>2, <2>3, <1>2, <1>3 DEF Counted
<1>5. Number(c) \in Nat
  BY <1>1, <1>3 DEF Number, SessionsOK, IInv, Counted
<1>6. CASE cmd.op = "exec"
  <2>1. /\ pc' = "exec" /\ cur' = c /\ rest' = cmd.body
        /\ UNCHANGED <<storeVars, answered, blocked, waiters, parked>>
    BY <1>6 DEF dispatch_resp_command
  <2>2. cmd.body \in Seq(Simple)
    <3>1. cmd \notin Simple
      BY <1>6 DEF Simple, Ops
    <3>. QED  BY <3>1, <1>3 DEF Command, Exec
  <2>3. StoreOK' /\ SessionsOK'
    BY <2>1, <2>2, <1>1, <1>2, <1>4, Zenon DEF StoreOK, SessionsOK, storeVars
  <2>4. WaitersAgree' /\ Sorted'
    BY <2>1, <1>2 DEF IInv, WaitersAgree, Sorted, Blocked
  <2>5. \A x \in Clients : Blocked(x)' => ~Ready(blocked[x].cmd)'
    BY <2>1, <1>1, <1>2, SettledStays DEF IInv, Settled, Blocked, storeVars
  <2>6. TypeOK'
    BY <2>3 DEF TypeOK, StoreOK, SessionsOK
  <2>. QED  BY <2>1, <2>4, <2>5, <2>6, <1>4, Zenon DEF IInv, Scanned, Settled
<1>7. CASE cmd.op # "exec"
  <2>1. cmd \in Simple
    BY <1>3, <1>7 DEF Command, Exec
  <2>2. /\ pc' = "serve_ready" /\ cur' = cur /\ rest' = rest
        /\ execute_command_into(c, cmd)
        /\ IF Blocking(cmd) /\ ~Ready(cmd)
           THEN park(c, cmd) /\ answered' = answered
           ELSE Answer(c, Number(c)) /\ blocked' = blocked /\ waiters' = waiters /\ parked' = parked
    BY <1>7 DEF dispatch_resp_command
  <2>3. StoreOK' /\ Told /\ (Blocking(cmd) /\ ~Ready(cmd) => UNCHANGED storeVars)
    BY <2>1, <2>2, <1>1, ExecuteStore
  <2>. HIDE DEF cmd
  <2>4. \A x \in Clients : Blocked(x) => ~Ready(blocked[x].cmd)
    BY <1>2, Zenon DEF IInv, Settled
  <2>5. CASE Blocking(cmd) /\ ~Ready(cmd)
    <3>1. park(c, cmd) /\ answered' = answered /\ lists' = lists /\ strings' = strings
      BY <2>2, <2>3, <2>5 DEF storeVars
    <3>2. /\ WaitersAgree' /\ Sorted'
          /\ waiters' \in Seq(Clients) /\ blocked' \in [Clients -> {NoRequest} \cup Request]
          /\ parked' \in Nat /\ blocked'[c].cmd = cmd
          /\ \A x \in Clients : x # c => blocked'[x] = blocked[x]
      BY <3>1, <2>1, <1>1, <1>2, <1>5, ParkAgrees DEF IInv
    <3>3. SessionsOK'
      BY <3>1, <3>2, <2>2, <1>1, <1>2, <1>4 DEF SessionsOK
    <3>4. \A x \in Clients : Blocked(x)' => ~Ready(blocked[x].cmd)'
      <4>1. ~Ready(blocked[c].cmd)'
        BY <2>5, <3>1, <3>2 DEF Ready, Holds, Sources
      <4>2. \A x \in Clients : x # c => (Blocked(x)' => ~Ready(blocked[x].cmd)')
        BY <2>4, <3>1, <3>2, <1>1, SettledStays DEF Blocked
      <4>. QED  BY <4>1, <4>2
    <3>5. TypeOK'
      BY <2>3, <3>2, <3>3, Zenon DEF TypeOK, StoreOK, SessionsOK
    <3>. QED  BY <2>2, <3>2, <3>3, <3>4, <3>5, <1>4 DEF IInv, Scanned, Settled
  <2>6. CASE ~(Blocking(cmd) /\ ~Ready(cmd))
    <3>1. Answer(c, Number(c)) /\ blocked' = blocked /\ waiters' = waiters /\ parked' = parked
      BY <2>2, <2>6
    <3>2. SessionsOK'
      BY <3>1, <2>2, <1>1, <1>2, <1>4, <1>5, AnswerType, Zenon DEF SessionsOK
    <3>3. WaitersAgree' /\ Sorted'
      BY <3>1, <1>2 DEF IInv, WaitersAgree, Sorted, Blocked
    <3>4. ~dirty' => \A x \in Clients : Blocked(x)' => ~Ready(blocked[x].cmd)'
      BY <2>3, <2>4, <3>1, <1>1, SettledStays DEF Told, Blocked
    <3>5. TypeOK'
      BY <2>3, <3>2, <3>3, Zenon DEF TypeOK, StoreOK, SessionsOK
    <3>. QED  BY <2>2, <3>2, <3>3, <3>4, <3>5, <1>4 DEF IInv, Scanned, Settled
  <2>. QED  BY <2>5, <2>6
<1>. QED  BY <1>6, <1>7

\* A queued command is executed, or EXEC ends.
LEMMA ExecIInv ==
  ASSUME IInv, execute_queued_transaction
  PROVE  IInv'
<1>1. StoreOK /\ SessionsOK /\ TypeOK
  BY Types DEF IInv
<1>2. /\ pc = "exec" /\ cur' = cur /\ index' = index /\ waiters' = waiters /\ blocked' = blocked
      /\ parked' = parked /\ inbox' = inbox /\ sent' = sent /\ gone' = gone
  BY DEF execute_queued_transaction
<1>3. WaitersAgree' /\ Sorted' /\ Counted'
  BY <1>2 DEF IInv, WaitersAgree, Sorted, Counted, Blocked
<1>4. CASE rest # <<>>
  <2>1. /\ execute_command_into(cur, Head(rest)) /\ rest' = Tail(rest)
        /\ pc' = pc /\ answered' = answered
    BY <1>4 DEF execute_queued_transaction
  <2>2. cur \in Clients /\ Head(rest) \in Simple /\ Tail(rest) \in Seq(Simple)
    BY <1>1, <1>4 DEF SessionsOK
  <2>3. StoreOK' /\ Told
    BY <2>1, <2>2, <1>1, ExecuteStore
  <2>4. SessionsOK'
    BY <2>1, <2>2, <1>1, <1>2 DEF SessionsOK
  <2>5. TypeOK'
    BY <2>3, <2>4 DEF TypeOK, StoreOK, SessionsOK
  <2>6. ~dirty' => \A x \in Clients : Blocked(x)' => ~Ready(blocked[x].cmd)'
    <3>. SUFFICES ASSUME ~dirty', NEW x \in Clients
                  PROVE  Blocked(x)' => ~Ready(blocked[x].cmd)'
      OBVIOUS
    <3>1. lists' = lists /\ strings' = strings /\ ~dirty
      BY <2>3 DEF Told
    <3>2. Blocked(x) => ~Ready(blocked[x].cmd)
      BY <3>1, <1>2 DEF IInv, Settled
    <3>. QED  BY <3>1, <3>2, <1>1, <1>2, SettledStays DEF Blocked
  <2>. QED  BY <2>1, <2>5, <2>6, <1>2, <1>3 DEF IInv, Scanned, Settled
<1>5. CASE rest = <<>>
  <2>1. /\ Answer(cur, sent[cur] - Len(inbox[cur])) /\ pc' = "serve_ready"
        /\ rest' = rest /\ UNCHANGED storeVars
    BY <1>5 DEF execute_queued_transaction
  <2>2. cur \in Clients /\ sent[cur] - Len(inbox[cur]) \in Nat
    BY <1>1 DEF SessionsOK, IInv, Counted
  <2>3. answered' \in [Clients -> Seq(Nat)]
    BY <2>1, <2>2, <1>1, AnswerType
  <2>4. TypeOK'
    BY <2>1, <2>3, <1>1, <1>2 DEF TypeOK, StoreOK, SessionsOK, storeVars
  <2>5. ~dirty' => \A x \in Clients : Blocked(x)' => ~Ready(blocked[x].cmd)'
    <3>. SUFFICES ASSUME ~dirty', NEW x \in Clients
                  PROVE  Blocked(x)' => ~Ready(blocked[x].cmd)'
      OBVIOUS
    <3>1. lists' = lists /\ strings' = strings /\ ~dirty
      BY <2>1 DEF storeVars
    <3>2. Blocked(x) => ~Ready(blocked[x].cmd)
      BY <3>1, <1>2 DEF IInv, Settled
    <3>. QED  BY <3>1, <3>2, <1>1, <1>2, SettledStays DEF Blocked
  <2>. QED  BY <2>1, <2>4, <2>5, <1>3 DEF IInv, Scanned, Settled
<1>. QED  BY <1>4, <1>5

\* serve_ready starts a scan, or returns because nothing has changed.
LEMMA ServeIInv ==
  ASSUME IInv, serve_ready
  PROVE  IInv'
<1>1. /\ pc = "serve_ready" /\ cur' = cur /\ rest' = rest /\ lists' = lists /\ strings' = strings
      /\ got' = got /\ dropped' = dropped /\ pushed' = pushed /\ waiters' = waiters
      /\ blocked' = blocked /\ parked' = parked /\ inbox' = inbox /\ sent' = sent
      /\ answered' = answered /\ gone' = gone
  BY DEF serve_ready
<1>2. WaitersAgree' /\ Sorted' /\ Counted'
  BY <1>1 DEF IInv, WaitersAgree, Sorted, Counted, Blocked
<1>3. waiters \in Seq(Clients) /\ Len(waiters) \in Nat
  BY DEF IInv, TypeOK
<1>4. CASE dirty \/ deadline_due
  <2>1. pc' = "scan" /\ index' = 1 /\ dirty' = FALSE
    BY <1>4 DEF serve_ready, StartScan
  <2>2. TypeOK'
    <3>1. StoreOK'
      BY <2>1, <1>1, Zenon DEF IInv, TypeOK, StoreOK
    <3>2. SessionsOK'
      BY <2>1, <1>1, <1>3 DEF IInv, TypeOK, SessionsOK
    <3>. QED  BY <3>1, <3>2 DEF TypeOK, StoreOK, SessionsOK
  <2>. QED  BY <2>1, <2>2, <1>2 DEF IInv, Scanned, Settled
<1>5. CASE ~(dirty \/ deadline_due)
  <2>1. pc' = "idle" /\ index' = index /\ dirty' = dirty
    BY <1>5 DEF serve_ready
  <2>2. TypeOK'
    BY <2>1, <1>1 DEF IInv, TypeOK
  <2>3. \A x \in Clients : Blocked(x)' => ~Ready(blocked[x].cmd)'
    BY <1>1, <1>5, SettledStays DEF IInv, Settled, Blocked
  <2>. QED  BY <2>1, <2>2, <2>3, <1>2 DEF IInv, Scanned, Settled
<1>. QED  BY <1>4, <1>5

\* network_iteration starts a scan, or changes nothing.
LEMMA IterationIInv ==
  ASSUME IInv, network_iteration
  PROVE  IInv'
<1>1. CASE dirty \/ deadline_due
  <2>1. /\ pc' = "scan" /\ index' = 1 /\ dirty' = FALSE
        /\ cur' = cur /\ rest' = rest /\ lists' = lists /\ strings' = strings
        /\ got' = got /\ dropped' = dropped /\ pushed' = pushed /\ waiters' = waiters
        /\ blocked' = blocked /\ parked' = parked /\ inbox' = inbox /\ sent' = sent
        /\ answered' = answered /\ gone' = gone
    BY <1>1 DEF network_iteration, StartScan
  <2>2. WaitersAgree' /\ Sorted' /\ Counted'
    BY <2>1 DEF IInv, WaitersAgree, Sorted, Counted, Blocked
  <2>3. waiters \in Seq(Clients) /\ Len(waiters) \in Nat
    BY DEF IInv, TypeOK
  <2>4. TypeOK'
    <3>1. StoreOK'
      BY <2>1, Zenon DEF IInv, TypeOK, StoreOK
    <3>2. SessionsOK'
      BY <2>1, <2>3 DEF IInv, TypeOK, SessionsOK
    <3>. QED  BY <3>1, <3>2 DEF TypeOK, StoreOK, SessionsOK
  <2>. QED  BY <2>1, <2>2, <2>4 DEF IInv, Scanned, Settled
<1>2. CASE ~(dirty \/ deadline_due)
  <2>1. UNCHANGED vars
    BY <1>2 DEF network_iteration
  <2>2. TypeOK'
    BY <2>1, Zenon DEF vars, storeVars, IInv, TypeOK
  <2>3. WaitersAgree' /\ Sorted' /\ Counted'
    BY <2>1, Zenon DEF vars, storeVars, IInv, WaitersAgree, Sorted, Counted, Blocked
  <2>4. Scanned' /\ Settled'
    BY <2>1, Zenon DEF vars, storeVars, IInv, Scanned, Settled, Blocked, Ready, Holds, Sources
  <2>. QED  BY <2>2, <2>3, <2>4, Zenon DEF IInv
<1>. QED  BY <1>1, <1>2

\* One round of the scan: the waiter is answered, times out or is passed.
LEMMA ScanIInv ==
  ASSUME IInv, scan
  PROVE  IInv'
<1>. DEFINE c == waiters[index]
            cmd == blocked[c].cmd
<1>1. StoreOK /\ SessionsOK /\ TypeOK /\ WaitersAgree /\ Sorted
  BY Types DEF IInv
<1>2. /\ pc = "scan" /\ index \in 1..Len(waiters) /\ Len(waiters) \in Nat
      /\ DOMAIN waiters = 1..Len(waiters)
      /\ pc' = pc /\ cur' = cur /\ rest' = rest /\ parked' = parked /\ inbox' = inbox
      /\ sent' = sent /\ gone' = gone
  BY <1>1 DEF scan, SessionsOK
<1>3. c \in Clients /\ Blocked(c) /\ cmd \in Simple /\ blocked[c].reply_to \in Nat
  BY <1>1, <1>2, WaiterWaits, HasRequest
<1>4. Counted'
  BY <1>2 DEF IInv, Counted
<1>5. ASSUME Release(c)
      PROVE  /\ waiters' = Erased(index) /\ blocked' = [blocked EXCEPT ![c] = NoRequest]
             /\ answered' \in [Clients -> Seq(Nat)]
             /\ WaitersAgree' /\ Sorted'
             /\ waiters' \in Seq(Clients) /\ blocked' \in [Clients -> {NoRequest} \cup Request]
             /\ Len(waiters') = Len(waiters) - 1
             /\ \A j \in 1..Len(waiters) - 1 : waiters'[j] = waiters[IF j < index THEN j ELSE j + 1]
  <2>1. /\ waiters' = Erased(index) /\ blocked' = [blocked EXCEPT ![c] = NoRequest]
        /\ Answer(c, blocked[c].reply_to)
    BY <1>5 DEF Release
  <2>2. answered' \in [Clients -> Seq(Nat)]
    BY <2>1, <1>1, <1>3, AnswerType, Zenon
  <2>. QED  BY <2>1, <2>2, <1>1, <1>2, EraseAgrees, Zenon
<1>6. CASE Ready(cmd)
  <2>1. Take(c, cmd) /\ Release(c) /\ index' = 1
    BY <1>6 DEF scan, AfterServed
  <2>2. StoreOK'
    BY <2>1, <1>1, <1>3, <1>6, TakeStore
  <2>3. SessionsOK'
    <3>1. /\ waiters' \in Seq(Clients) /\ blocked' \in [Clients -> {NoRequest} \cup Request]
          /\ answered' \in [Clients -> Seq(Nat)] /\ Len(waiters') = Len(waiters) - 1
      BY <2>1, <1>5
    <3>2. index' \in Nat /\ index' \in 1..Len(waiters') + 1
      BY <2>1, <3>1, <1>2
    <3>. QED  BY <3>1, <3>2, <1>1, <1>2, Zenon DEF SessionsOK
  <2>4. TypeOK'
    BY <2>2, <2>3 DEF TypeOK, StoreOK, SessionsOK
  <2>. QED  BY <2>1, <2>4, <1>2, <1>4, <1>5 DEF IInv, Scanned, Settled
<1>7. CASE ~Ready(cmd) /\ blocked[c].deadline = "due"
  <2>1. UNCHANGED storeVars /\ Release(c) /\ index' = index
    BY <1>7 DEF scan, AfterTimeout
  <2>2. StoreOK' /\ lists' = lists /\ strings' = strings
    BY <2>1, <1>1, Zenon DEF storeVars, StoreOK
  <2>3. SessionsOK'
    <3>1. /\ waiters' \in Seq(Clients) /\ blocked' \in [Clients -> {NoRequest} \cup Request]
          /\ answered' \in [Clients -> Seq(Nat)] /\ Len(waiters') = Len(waiters) - 1
      BY <2>1, <1>5
    <3>2. index' \in Nat /\ index' \in 1..Len(waiters') + 1
      BY <2>1, <3>1, <1>2
    <3>. QED  BY <3>1, <3>2, <1>1, <1>2, Zenon DEF SessionsOK
  <2>4. TypeOK'
    BY <2>2, <2>3 DEF TypeOK, StoreOK, SessionsOK
  <2>5. \A i \in 1..index - 1 :
          waiters'[i] = waiters[i] /\ blocked'[waiters'[i]] = blocked[waiters[i]]
    <3>. SUFFICES ASSUME NEW i \in 1..index - 1
                  PROVE  waiters'[i] = waiters[i] /\ blocked'[waiters'[i]] = blocked[waiters[i]]
      OBVIOUS
    <3>0. i \in 1..Len(waiters) - 1 /\ i \in 1..Len(waiters) /\ i < index /\ i # index
      BY <1>2
    <3>1. waiters'[i] = waiters[i]
      <4>1. waiters'[i] = waiters[IF i < index THEN i ELSE i + 1]
        BY <2>1, <3>0, <1>5, Zenon
      <4>. QED  BY <4>1, <3>0
    <3>2. waiters[i] # c /\ waiters[i] \in Clients
      <4>1. i \in DOMAIN waiters /\ index \in DOMAIN waiters
        BY <3>0, <1>2
      <4>2. waiters[i] = waiters[index] => i = index
        BY <4>1, <1>1 DEF WaitersAgree
      <4>3. waiters[i] \in Clients
        BY <4>1, <1>1, WaiterWaits
      <4>. QED  BY <4>2, <4>3, <3>0
    <3>3. blocked'[waiters[i]] = blocked[waiters[i]]
      BY <2>1, <3>2, <1>1, <1>5, Zenon DEF SessionsOK
    <3>. QED  BY <3>1, <3>3
  <2>6. Scanned'
    <3>1. \A i \in 1..index - 1 : ~Ready(blocked[waiters[i]].cmd)
      BY <1>2 DEF IInv, Scanned
    <3>2. ASSUME NEW i \in 1..index' - 1  PROVE ~Ready(blocked[waiters[i]].cmd)'
      <4>1. ~Ready(blocked[waiters[i]].cmd) /\ (blocked[waiters[i]].cmd)' = blocked[waiters[i]].cmd
        BY <2>1, <2>5, <3>1, <3>2
      <4>2. lists' = lists /\ strings' = strings
        BY <2>1, <2>2 DEF storeVars
      <4>. QED  BY <4>1, <4>2, Zenon DEF Ready, Holds, Sources
    <3>. QED  BY <3>2 DEF Scanned
  <2>. QED  BY <2>1, <2>4, <2>6, <1>2, <1>4, <1>5 DEF IInv, Settled
<1>8. CASE ~Ready(cmd) /\ blocked[c].deadline # "due"
  <2>1. /\ UNCHANGED storeVars /\ index' = index + 1 /\ waiters' = waiters /\ blocked' = blocked
        /\ answered' = answered
    BY <1>8 DEF scan
  <2>2. TypeOK'
    <3>1. StoreOK'
      BY <2>1, <1>1 DEF storeVars, StoreOK
    <3>2. index' \in Nat /\ index' \in 1..Len(waiters) + 1
      BY <2>1, <1>2
    <3>3. SessionsOK'
      BY <2>1, <3>2, <1>1, <1>2, Zenon DEF SessionsOK
    <3>. QED  BY <3>1, <3>3 DEF TypeOK, StoreOK, SessionsOK
  <2>3. WaitersAgree' /\ Sorted'
    BY <2>1, <1>1, <1>2 DEF WaitersAgree, Sorted, Blocked
  <2>4. Scanned'
    <3>1. \A i \in 1..index : ~Ready(blocked[waiters[i]].cmd)
      BY <1>2, <1>8 DEF IInv, Scanned
    <3>2. \A i \in 1..index' - 1 : ~Ready(blocked[waiters[i]].cmd)'
      BY <2>1, <3>1, <1>2 DEF Ready, Holds, Sources, storeVars
    <3>. QED  BY <3>2 DEF Scanned
  <2>. QED  BY <2>2, <2>3, <2>4, <1>2, <1>4, Zenon DEF IInv, Settled
<1>. QED  BY <1>6, <1>7, <1>8

\* The scan ends when it has passed every waiter.
LEMMA ScanEndsIInv ==
  ASSUME IInv, scan_ends
  PROVE  IInv'
<1>1. /\ pc = "scan" /\ index > Len(waiters) /\ pc' = "idle" /\ index' = 1 /\ dirty' = FALSE
      /\ cur' = cur /\ rest' = rest /\ lists' = lists /\ strings' = strings
      /\ got' = got /\ dropped' = dropped /\ pushed' = pushed /\ waiters' = waiters
      /\ blocked' = blocked /\ parked' = parked /\ inbox' = inbox /\ sent' = sent
      /\ answered' = answered /\ gone' = gone
  BY DEF scan_ends
<1>2. WaitersAgree' /\ Sorted' /\ Counted'
  BY <1>1 DEF IInv, WaitersAgree, Sorted, Counted, Blocked
<1>3. TypeOK'
  <2>1. StoreOK'
    BY <1>1, Zenon DEF IInv, TypeOK, StoreOK
  <2>2. SessionsOK'
    BY <1>1 DEF IInv, TypeOK, SessionsOK
  <2>. QED  BY <2>1, <2>2 DEF TypeOK, StoreOK, SessionsOK
<1>4. \A x \in Clients : Blocked(x) => ~Ready(blocked[x].cmd)
  <2>1. \A i \in DOMAIN waiters : ~Ready(blocked[waiters[i]].cmd)
    <3>1. /\ index \in 1..Len(waiters) + 1 /\ Len(waiters) \in Nat
          /\ DOMAIN waiters = 1..Len(waiters)
      BY <1>1, Types, ScanTypes, Zenon DEF IInv
    <3>2. \A i \in DOMAIN waiters : i \in 1..index - 1
      BY <1>1, <3>1
    <3>. QED  BY <1>1, <3>2, Zenon DEF IInv, Scanned
  <2>. QED  BY <2>1 DEF IInv, WaitersAgree
<1>5. \A x \in Clients : Blocked(x)' => ~Ready(blocked[x].cmd)'
  BY <1>1, <1>4, SettledStays DEF IInv, Blocked
<1>. QED  BY <1>1, <1>2, <1>3, <1>5 DEF IInv, Scanned, Settled

\* A command arrives.
LEMMA SendIInv ==
  ASSUME IInv, NEW c \in Clients, Send(c)
  PROVE  IInv'
<1>1. PICK cmd \in Sends[c] : inbox' = [inbox EXCEPT ![c] = Append(@, cmd)]
  BY Zenon DEF Send
<1>2. /\ sent' = [sent EXCEPT ![c] = @ + 1]
      /\ pc' = pc /\ cur' = cur /\ rest' = rest /\ index' = index /\ UNCHANGED storeVars
      /\ waiters' = waiters /\ blocked' = blocked /\ parked' = parked /\ answered' = answered
      /\ gone' = gone
  BY DEF Send
<1>3. StoreOK /\ SessionsOK /\ TypeOK
  BY Types DEF IInv
<1>4. cmd \in Command
  BY SendsAssumption
<1>5. /\ inbox[c] \in Seq(Command) /\ Append(inbox[c], cmd) \in Seq(Command)
      /\ Len(Append(inbox[c], cmd)) = Len(inbox[c]) + 1 /\ Len(inbox[c]) \in Nat
  BY <1>3, <1>4 DEF SessionsOK
<1>6. /\ inbox' \in [Clients -> Seq(Command)] /\ sent' \in [Clients -> Nat]
      /\ \A x \in Clients : inbox'[x] = IF x = c THEN Append(inbox[c], cmd) ELSE inbox[x]
      /\ \A x \in Clients : sent'[x] = IF x = c THEN sent[c] + 1 ELSE sent[x]
  BY <1>1, <1>2, <1>3, <1>5 DEF SessionsOK
<1>7. Counted'
  <2>1. \A x \in Clients : Len(inbox[x]) <= sent[x] /\ sent[x] \in Nat
    BY <1>3 DEF IInv, Counted, SessionsOK
  <2>. QED  BY <2>1, <1>5, <1>6 DEF Counted
<1>8. TypeOK'
  <2>1. StoreOK'
    BY <1>2, <1>3 DEF storeVars, StoreOK
  <2>2. SessionsOK'
    BY <1>2, <1>3, <1>6, Zenon DEF SessionsOK
  <2>. QED  BY <2>1, <2>2, Zenon DEF TypeOK, StoreOK, SessionsOK
<1>9. WaitersAgree' /\ Sorted'
  BY <1>2, Zenon DEF IInv, WaitersAgree, Sorted, Blocked
<1>10. Scanned' /\ Settled'
  BY <1>2 DEF IInv, Scanned, Settled, Blocked, Ready, Holds, Sources, storeVars
<1>. QED  BY <1>7, <1>8, <1>9, <1>10 DEF IInv

\* A deadline passes: the requests stay what they are.
LEMMA TickIInv ==
  ASSUME IInv, NEW c \in Clients, Tick(c)
  PROVE  IInv'
<1>. DEFINE r == [blocked[c] EXCEPT !.deadline = "due"]
<1>1. /\ Blocked(c) /\ blocked' = [blocked EXCEPT ![c] = r]
      /\ pc' = pc /\ cur' = cur /\ rest' = rest /\ index' = index /\ UNCHANGED storeVars
      /\ waiters' = waiters /\ parked' = parked /\ inbox' = inbox /\ sent' = sent
      /\ answered' = answered /\ gone' = gone
  BY DEF Tick
<1>2. StoreOK /\ SessionsOK /\ TypeOK
  BY Types DEF IInv
<1>3. blocked[c] \in Request
  BY <1>1, <1>2, HasRequest
<1>4. /\ r \in Request /\ r.waits = blocked[c].waits /\ r.cmd = blocked[c].cmd
      /\ r.since = blocked[c].since
  BY <1>3, Zenon DEF Request
<1>. HIDE DEF r
<1>5. /\ blocked' \in [Clients -> {NoRequest} \cup Request]
      /\ \A x \in Clients : /\ blocked'[x].waits = blocked[x].waits
                            /\ blocked'[x].cmd = blocked[x].cmd
                            /\ blocked'[x].since = blocked[x].since
  <2>1. blocked \in [Clients -> {NoRequest} \cup Request]
    BY <1>2 DEF SessionsOK
  <2>. QED  BY <2>1, <1>1, <1>4
<1>6. TypeOK'
  <2>1. StoreOK'
    BY <1>1, <1>2 DEF storeVars, StoreOK
  <2>2. SessionsOK'
    BY <1>1, <1>2, <1>5 DEF SessionsOK
  <2>. QED  BY <2>1, <2>2 DEF TypeOK, StoreOK, SessionsOK
<1>7. \A i \in DOMAIN waiters : waiters[i] \in Clients
  BY <1>2, WaiterWaits DEF IInv
<1>8. WaitersAgree'
  <2>1. gone \subseteq Clients
    BY <1>2 DEF SessionsOK
  <2>. QED  BY <2>1, <1>1, <1>5 DEF IInv, WaitersAgree, Blocked
<1>9. Sorted'
  BY <1>1, <1>5, <1>7 DEF IInv, Sorted, Blocked
<1>10. Scanned'
  <2>1. CASE pc = "scan"
    <3>1. \A i \in 1..index - 1 : i \in DOMAIN waiters /\ ~Ready(blocked[waiters[i]].cmd)
      <4>1. /\ index \in 1..Len(waiters) + 1 /\ Len(waiters) \in Nat
            /\ DOMAIN waiters = 1..Len(waiters)
        BY <2>1, <1>2, ScanTypes, Zenon
      <4>2. \A i \in 1..index - 1 : i \in DOMAIN waiters
        BY <4>1
      <4>. QED  BY <2>1, <4>2, Zenon DEF IInv, Scanned
    <3>2. ASSUME NEW i \in 1..index - 1  PROVE ~Ready(blocked[waiters[i]].cmd)'
      <4>1. i \in DOMAIN waiters /\ waiters[i] \in Clients /\ ~Ready(blocked[waiters[i]].cmd)
        BY <3>1, <1>7
      <4>2. waiters' = waiters /\ lists' = lists /\ strings' = strings
        BY <1>1, Zenon DEF storeVars
      <4>3. (blocked[waiters[i]].cmd)' = blocked[waiters[i]].cmd
        BY <4>1, <4>2, <1>5
      <4>. QED  BY <4>1, <4>2, <4>3 DEF Ready, Holds, Sources
    <3>. QED  BY <3>2, <1>1 DEF Scanned
  <2>2. CASE pc # "scan"
    BY <2>2, <1>1, Zenon DEF Scanned
  <2>. QED  BY <2>1, <2>2
<1>11. Settled'
  <2>1. lists' = lists /\ strings' = strings /\ dirty' = dirty /\ pc' = pc
    BY <1>1 DEF storeVars
  <2>2. \A x \in Clients : Blocked(x)' => Blocked(x)
    BY <1>5, Zenon DEF Blocked
  <2>3. ASSUME NEW x \in Clients, ~Ready(blocked[x].cmd)  PROVE ~Ready(blocked[x].cmd)'
    <3>1. (blocked[x].cmd)' = blocked[x].cmd
      BY <1>5
    <3>. QED  BY <3>1, <2>1, <2>3 DEF Ready, Holds, Sources
  <2>. QED  BY <2>1, <2>2, <2>3 DEF IInv, Settled
<1>12. Counted'
  BY <1>1, Zenon DEF IInv, Counted
<1>. QED  BY <1>6, <1>8, <1>9, <1>10, <1>11, <1>12 DEF IInv

\* A client leaves, and the registry forgets it.
LEMMA CloseIInv ==
  ASSUME IInv, NEW c \in Clients, close_client(c)
  PROVE  IInv'
<1>1. /\ pc = "idle" /\ remove(c) /\ gone' = gone \cup {c}
      /\ inbox' = [inbox EXCEPT ![c] = <<>>] /\ sent' = [sent EXCEPT ![c] = 0]
      /\ answered' = [answered EXCEPT ![c] = <<>>]
      /\ pc' = pc /\ cur' = cur /\ rest' = rest /\ index' = index /\ UNCHANGED storeVars
      /\ parked' = parked
  BY DEF close_client
<1>2. StoreOK /\ SessionsOK /\ TypeOK /\ WaitersAgree /\ Sorted
  BY Types DEF IInv
<1>3. blocked' = [blocked EXCEPT ![c] = NoRequest]
  BY <1>1, Zenon DEF remove
<1>4. /\ WaitersAgree' /\ Sorted'
      /\ waiters' \in Seq(Clients) /\ blocked' \in [Clients -> {NoRequest} \cup Request]
      /\ \A x \in Clients : Blocked(x)' => Blocked(x) /\ blocked'[x] = blocked[x]
  <2>1. CASE \E i \in DOMAIN waiters : waiters[i] = c
    <3>. DEFINE at == CHOOSE i \in DOMAIN waiters : waiters[i] = c
    <3>1. at \in DOMAIN waiters /\ waiters[at] = c
      BY <2>1, Zenon
    <3>2. waiters' = Erased(at)
      BY <2>1, <1>1 DEF remove
    <3>. HIDE DEF at
    <3>3. at \in 1..Len(waiters)
      BY <3>1, <1>2 DEF SessionsOK
    <3>. QED  BY <3>1, <3>2, <3>3, <1>1, <1>2, <1>3, EraseAgrees, Zenon
  <2>2. CASE ~\E i \in DOMAIN waiters : waiters[i] = c
    <3>1. waiters' = waiters
      BY <2>2, <1>1 DEF remove
    <3>2. ~Blocked(c)
      BY <2>2, <1>2 DEF WaitersAgree
    <3>3. blocked \in [Clients -> {NoRequest} \cup Request] /\ NoRequest.waits = FALSE
      BY <1>2 DEF SessionsOK, NoRequest
    <3>4. /\ blocked' \in [Clients -> {NoRequest} \cup Request]
          /\ \A x \in Clients : Blocked(x)' <=> Blocked(x)
          /\ \A x \in Clients : x # c => blocked'[x] = blocked[x]
      BY <3>2, <3>3, <1>3, Zenon DEF Blocked
    <3>5. WaitersAgree'
      <4>1. gone \subseteq Clients
        BY <1>2, Zenon DEF SessionsOK
      <4>2. \A x \in gone' : ~Blocked(x)'
        BY <4>1, <3>2, <3>4, <1>1, <1>2 DEF WaitersAgree
      <4>. QED  BY <4>2, <3>1, <3>4, <1>2 DEF WaitersAgree
    <3>6. \A i \in DOMAIN waiters : waiters[i] \in Clients /\ waiters[i] # c
      BY <2>2, <1>2, WaiterWaits, Zenon
    <3>7. Sorted'
      BY <3>1, <3>2, <3>4, <3>6, <1>1, <1>2 DEF Sorted
    <3>. QED  BY <3>1, <3>2, <3>4, <3>5, <3>7, <1>2 DEF SessionsOK
  <2>. QED  BY <2>1, <2>2, Zenon
<1>5. inbox' \in [Clients -> Seq(Command)] /\ sent' \in [Clients -> Nat]
      /\ answered' \in [Clients -> Seq(Nat)]
  <2>1. <<>> \in Seq(Command) /\ <<>> \in Seq(Nat)
    OBVIOUS
  <2>. QED  BY <2>1, <1>1, <1>2 DEF SessionsOK
<1>6. Counted'
  <2>1. \A x \in Clients : /\ inbox'[x] = IF x = c THEN <<>> ELSE inbox[x]
                           /\ sent'[x] = IF x = c THEN 0 ELSE sent[x]
    BY <1>1, <1>2 DEF SessionsOK
  <2>2. Len(<<>>) = 0
    OBVIOUS
  <2>. QED  BY <2>1, <2>2 DEF IInv, Counted
<1>7. TypeOK'
  <2>1. StoreOK'
    BY <1>1, <1>2, Zenon DEF storeVars, StoreOK
  <2>2. SessionsOK'
    BY <1>1, <1>2, <1>4, <1>5, Zenon DEF SessionsOK
  <2>. QED  BY <2>1, <2>2 DEF TypeOK, StoreOK, SessionsOK
<1>8. \A x \in Clients : Blocked(x)' => ~Ready(blocked[x].cmd)'
  BY <1>1, <1>2, <1>4, SettledStays, Zenon DEF IInv, Settled, storeVars
<1>. QED  BY <1>1, <1>4, <1>6, <1>7, <1>8 DEF IInv, Scanned, Settled

\* A key expires: fewer requests can be answered than before.
LEMMA ExpireIInv ==
  ASSUME IInv, NEW k \in Keys, active_expire(k)
  PROVE  IInv'
<1>1. /\ pc = "idle" /\ Replace(k, strings \ {k})
      /\ pc' = pc /\ cur' = cur /\ rest' = rest /\ index' = index /\ waiters' = waiters
      /\ blocked' = blocked /\ parked' = parked /\ inbox' = inbox /\ sent' = sent
      /\ answered' = answered /\ gone' = gone
  BY DEF active_expire
<1>2. StoreOK /\ SessionsOK /\ TypeOK
  BY Types DEF IInv
<1>3. strings \ {k} \in SUBSET Keys
  BY <1>2 DEF StoreOK
<1>4. StoreOK'
  BY <1>1, <1>2, <1>3, ReplaceStore, Zenon
<1>5. TypeOK'
  <2>1. SessionsOK'
    BY <1>1, <1>2 DEF SessionsOK
  <2>. QED  BY <2>1, <1>4 DEF TypeOK, StoreOK, SessionsOK
<1>6. WaitersAgree' /\ Sorted' /\ Counted'
  BY <1>1 DEF IInv, WaitersAgree, Sorted, Counted, Blocked
<1>7. \A x \in Keys : (x \in strings' \/ lists'[x] # <<>>) => Holds(x)
  BY <1>1, <1>2, Zenon DEF Replace, Holds, StoreOK
<1>8. \A x \in Clients : Blocked(x)' => ~Ready(blocked[x].cmd)'
  <2>. SUFFICES ASSUME NEW x \in Clients, Blocked(x)
                PROVE  ~Ready(blocked[x].cmd)'
    BY <1>1 DEF Blocked
  <2>. DEFINE cmd == blocked[x].cmd
  <2>1. cmd \in Simple /\ ~Ready(cmd)
    BY <1>1, <1>2, HasRequest DEF IInv, Settled
  <2>2. \A i \in Sources(cmd) : cmd.keys[i] \in Keys /\ ~Holds(cmd.keys[i])
    BY <2>1 DEF Simple, Sources, Ready
  <2>3. \A i \in Sources(cmd) : ~(cmd.keys[i] \in strings' \/ lists'[cmd.keys[i]] # <<>>)
    BY <2>2, <1>7
  <2>4. blocked'[x].cmd = cmd
    BY <1>1
  <2>. QED  BY <2>3, <2>4, Zenon DEF Ready, Holds, Sources
<1>. QED  BY <1>1, <1>5, <1>6, <1>8, Zenon DEF IInv, Scanned, Settled

\* Every step preserves IInv.
LEMMA NextIInv ==
  ASSUME IInv, [Next]_vars
  PROVE  IInv'
<1>1. ASSUME NEW c \in Clients, dispatch_resp_command(c) PROVE IInv'
  BY <1>1, DispatchIInv
<1>2. ASSUME NEW c \in Clients, Send(c) PROVE IInv'
  BY <1>2, SendIInv
<1>3. ASSUME NEW c \in Clients, Tick(c) PROVE IInv'
  BY <1>3, TickIInv
<1>4. ASSUME NEW c \in Clients, close_client(c) PROVE IInv'
  BY <1>4, CloseIInv
<1>5. ASSUME NEW k \in Keys, active_expire(k) PROVE IInv'
  BY <1>5, ExpireIInv
<1>6. CASE execute_queued_transaction
  BY <1>6, ExecIInv
<1>7. CASE serve_ready
  BY <1>7, ServeIInv, Zenon
<1>8. CASE scan
  BY <1>8, ScanIInv
<1>9. CASE scan_ends
  BY <1>9, ScanEndsIInv
<1>10. CASE network_iteration
  BY <1>10, IterationIInv
<1>11. CASE UNCHANGED vars
  BY <1>11, Zenon DEF IInv, TypeOK, Counted, WaitersAgree, Sorted, Scanned, Settled, Blocked, Ready,
       Holds, Sources, vars, storeVars
<1>. QED
  BY <1>1, <1>2, <1>3, <1>4, <1>5, <1>6, <1>7, <1>8, <1>9, <1>10, <1>11 DEF Next

\* IInv holds in every reachable state.
LEMMA Inductive == Spec => []IInv
<1>1. Init => IInv
  BY InitIInv
<1>2. IInv /\ [Next]_vars => IInv'
  BY NextIInv
<1>. QED  BY <1>1, <1>2, PTL DEF Spec
-----------------------------------------------------------------------------
(* Who is given an element. *)

\* What a pop hands out goes to its client, from a key that held something.
LEMMA TakeGives ==
  ASSUME NEW c \in Clients, NEW cmd \in Simple, Ready(cmd), Take(c, cmd)
  PROVE  \A g \in got' \ got : g.client = c /\ Holds(g.key)
<1>1. Holds(Source(cmd))
  BY SourceHolds
<1>2. CASE WrongType(cmd)
  BY <1>2, Zenon DEF Take
<1>3. CASE ~WrongType(cmd)
  <2>1. got' = got \cup {[client |-> c, key |-> Source(cmd), value |-> Head(lists[Source(cmd)]),
                          moved |-> cmd.op = "blmove"]}
    BY <1>3, Zenon DEF Take
  <2>2. ASSUME NEW g \in got' \ got PROVE g.client = c /\ g.key = Source(cmd)
    <3>1. g = [client |-> c, key |-> Source(cmd), value |-> Head(lists[Source(cmd)]),
               moved |-> cmd.op = "blmove"]
      BY <2>1, <2>2, Zenon
    <3>. QED  BY <3>1
  <2>. QED  BY <2>2, <1>1, Zenon
<1>. QED  BY <1>2, <1>3

\* So does what a command hands out.
LEMMA ExecuteGives ==
  ASSUME NEW c \in Clients, NEW cmd \in Simple, execute_command_into(c, cmd)
  PROVE  \A g \in got' \ got : g.client = c /\ Holds(g.key)
<1>1. CASE cmd.op = "rpush" /\ rpush(cmd)
  BY <1>1, Zenon DEF rpush, storeVars
<1>2. CASE cmd.op = "set" /\ Replace(cmd.keys[1], strings \cup {cmd.keys[1]})
  BY <1>2, Zenon DEF Replace
<1>3. CASE /\ cmd.op = "del"
           /\ IF Holds(cmd.keys[1]) THEN Replace(cmd.keys[1], strings \ {cmd.keys[1]})
              ELSE UNCHANGED storeVars
  BY <1>3 DEF Replace, storeVars
<1>4. CASE Pops(cmd) /\ IF Ready(cmd) THEN Take(c, cmd) ELSE UNCHANGED storeVars
  BY <1>4, TakeGives DEF storeVars
<1>. QED  BY <1>1, <1>2, <1>3, <1>4, Zenon DEF execute_command_into

\* A waiter for a key that holds something can be answered.
LEMMA KeyReady ==
  ASSUME NEW c \in Clients, NEW k, Holds(k),
         \E i \in Sources(blocked[c].cmd) : blocked[c].cmd.keys[i] = k
  PROVE  Ready(blocked[c].cmd)
  BY Zenon DEF Ready

\* In a step that hands out g, whoever waits for that list came after the one who gets it.
Fair(g) ==
  \A c \in Clients \ {g.client} :
    /\ Blocked(c)
    /\ \E i \in Sources(blocked[c].cmd) : blocked[c].cmd.keys[i] = g.key
    => Blocked(g.client) /\ blocked[g.client].since < blocked[c].since

\* Every step outside a transaction is fair: between commands no waiter can be answered, and
\* the scan has passed only waiters that cannot (Settled, Scanned, Sorted).
LEMMA StepFair ==
  ASSUME IInv, [Next]_vars, pc # "exec"
  PROVE  \A g \in got' \ got : Fair(g)
<1>. SUFFICES ASSUME NEW g \in got' \ got, NEW x \in Clients \ {g.client}, Blocked(x),
                     \E i \in Sources(blocked[x].cmd) : blocked[x].cmd.keys[i] = g.key
              PROVE  Blocked(g.client) /\ blocked[g.client].since < blocked[x].since
  BY DEF Fair
<1>1. StoreOK /\ SessionsOK /\ TypeOK /\ WaitersAgree /\ Sorted
  BY Types, Zenon DEF IInv
<1>2. ASSUME NEW c \in Clients, dispatch_resp_command(c) PROVE FALSE
  <2>. DEFINE cmd == Head(inbox[c])
  <2>1. pc = "idle" /\ inbox[c] # <<>>
    BY <1>2, Zenon DEF dispatch_resp_command
  <2>2. cmd \in Command
    <3>1. inbox[c] \in Seq(Command)
      BY <1>1, Zenon DEF SessionsOK
    <3>. QED  BY <2>1, <3>1
  <2>3. cmd.op # "exec" /\ execute_command_into(c, cmd)
    <3>1. \/ cmd.op = "exec" /\ UNCHANGED storeVars
          \/ cmd.op # "exec" /\ execute_command_into(c, cmd)
      BY <1>2, Zenon DEF dispatch_resp_command
    <3>2. ~UNCHANGED storeVars
      BY DEF storeVars
    <3>. QED  BY <3>1, <3>2, Zenon
  <2>4. cmd \in Simple
    BY <2>2, <2>3, Zenon DEF Command, Exec
  <2>5. Holds(g.key)
    BY <2>3, <2>4, ExecuteGives, Zenon
  <2>6. Ready(blocked[x].cmd)
    BY <2>5, KeyReady, Zenon
  <2>. QED  BY <2>1, <2>6, Zenon DEF IInv, Settled
<1>3. CASE scan
  <2>. DEFINE c == waiters[index]
              cmd == blocked[c].cmd
  <2>1. pc = "scan" /\ index \in 1..Len(waiters) /\ index \in DOMAIN waiters /\ index \in Nat
        /\ DOMAIN waiters = 1..Len(waiters)
    <3>1. pc = "scan" /\ index <= Len(waiters)
      BY <1>3, Zenon DEF scan
    <3>2. /\ index \in 1..Len(waiters) + 1 /\ Len(waiters) \in Nat
          /\ DOMAIN waiters = 1..Len(waiters)
      BY <1>1, <3>1, ScanTypes, Zenon
    <3>. QED  BY <3>1, <3>2
  <2>2. c \in Clients /\ Blocked(c)
    BY <2>1, <1>1, WaiterWaits
  <2>3. cmd \in Simple
    BY <2>2, <1>1, HasRequest, Zenon
  <2>4. Ready(cmd) /\ Take(c, cmd)
    <3>1. \/ UNCHANGED storeVars
          \/ Ready(cmd) /\ Take(c, cmd)
      BY <1>3, Zenon DEF scan
    <3>2. ~UNCHANGED storeVars
      BY Zenon DEF storeVars
    <3>. QED  BY <3>1, <3>2
  <2>5. g.client = c /\ Holds(g.key)
    BY <2>2, <2>3, <2>4, TakeGives, Zenon
  <2>6. Ready(blocked[x].cmd)
    BY <2>5, KeyReady, Zenon
  <2>7. PICK j \in DOMAIN waiters : waiters[j] = x
    BY <1>1, Zenon DEF WaitersAgree
  <2>8. j \notin 1..index - 1
    BY <2>1, <2>6, <2>7, Zenon DEF IInv, Scanned
  <2>9. j # index
    BY <2>5, <2>7, Zenon
  <2>10. index < j
    BY <2>1, <2>7, <2>8, <2>9
  <2>11. blocked[c].since < blocked[x].since
    BY <2>1, <2>7, <2>10, <1>1, Zenon DEF Sorted
  <2>. QED  BY <2>2, <2>5, <2>11, Zenon
<1>4. CASE \/ \E c \in Clients : Send(c) \/ Tick(c) \/ close_client(c)
           \/ \E k \in Keys : active_expire(k)
           \/ serve_ready \/ scan_ends \/ network_iteration \/ UNCHANGED vars
  <2>1. got' = got
    BY <1>4, Zenon DEF Send, Tick, close_client, active_expire, Replace, serve_ready, scan_ends,
         network_iteration, vars, storeVars
  <2>. QED  BY <2>1
<1>5. ~execute_queued_transaction
  BY DEF execute_queued_transaction
<1>. QED  BY <1>2, <1>3, <1>4, <1>5 DEF Next
-----------------------------------------------------------------------------
(* Theorems. *)

\* The state keeps its types, and the scan its place among the waiters (serve_ready).
THEOREM BlockingTypes == Spec => []TypeOK
<1>1. IInv => TypeOK
  BY DEF IInv
<1>. QED  BY <1>1, Inductive, PTL

\* The registry knows exactly the sessions that wait, and no destroyed one (park, remove).
THEOREM RegistryAgrees == Spec => []WaitersAgree
<1>1. IInv => WaitersAgree
  BY DEF IInv
<1>. QED  BY <1>1, Inductive, PTL

\* Between commands nobody waits for a list that has elements (serve_ready).
THEOREM NobodyForgotten == Spec => []NoneForgotten
<1>1. IInv => NoneForgotten
  BY DEF IInv, Settled, NoneForgotten
<1>. QED  BY <1>1, Inductive, PTL

\* Nobody is given an element that someone who has waited longer waits for (serve_ready,
\* dispatch_resp_command).
THEOREM NobodyOvertakes == Spec => NoOvertaking
<1>1. IInv /\ [Next]_vars =>
        [pc # "exec" =>
           \A g \in got' \ got :
             \A c \in Clients \ {g.client} :
               /\ Blocked(c)
               /\ \E i \in Sources(blocked[c].cmd) : blocked[c].cmd.keys[i] = g.key
               => Blocked(g.client) /\ blocked[g.client].since < blocked[c].since]_vars
  BY StepFair DEF Fair
<1>. QED  BY <1>1, Inductive, PTL DEF Spec, NoOvertaking
=============================================================================
