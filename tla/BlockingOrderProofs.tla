------------------------ MODULE BlockingOrderProofs ------------------------
(***************************************************************************)
(* Proofs about what the clients of BlockingLists receive: every command   *)
(* is answered once and in the order it was sent, and every element pushed *)
(* stays in one place.                                                     *)
(***************************************************************************)
EXTENDS BlockingListsProofs

-----------------------------------------------------------------------------
(* One reply to each command, in order. *)

\* Of what a client has sent, the commands before the input are answered, but for one that
\* waits for a list or is the transaction being executed.
Waiting(c) == Blocked(c) \/ (pc = "exec" /\ cur = c)
InOrder(s) == s = [i \in 1..Len(s) |-> i]
Accounted(c) ==
  /\ InOrder(answered[c])
  /\ Waiting(c) => Len(answered[c]) + Len(inbox[c]) + 1 = sent[c]
  /\ ~Waiting(c) => Len(answered[c]) + Len(inbox[c]) = sent[c]
  /\ Blocked(c) => blocked[c].reply_to = Len(answered[c]) + 1
RepliesInv == (\A c \in Clients : Accounted(c)) /\ (pc = "exec" => ~Blocked(cur))

\* The reply after n replies has number n + 1 (record_reply).
LEMMA NextReply ==
  ASSUME SessionsOK, NEW c \in Clients, InOrder(answered[c]),
         Answer(c, Len(answered[c]) + 1)
  PROVE  /\ Len(answered'[c]) = Len(answered[c]) + 1
         /\ InOrder(answered'[c])
         /\ \A x \in Clients : x # c => answered'[x] = answered[x]
<1>. DEFINE n == Len(answered[c])
            s == answered[c]
            t == Append(s, n + 1)
            id == [i \in 1..n + 1 |-> i]
<1>1. s \in Seq(Nat) /\ n \in Nat
  BY DEF SessionsOK
<1>2. t \in Seq(Nat) /\ Len(t) = n + 1 /\ t[n + 1] = n + 1 /\ \A i \in 1..n : t[i] = s[i]
  BY <1>1
<1>3. \A i \in 1..n : s[i] = i
  BY DEF InOrder
<1>. HIDE DEF s, t, n
<1>4. \A i \in 1..n + 1 : t[i] = i
  BY <1>1, <1>2, <1>3
<1>5. t = id
  <2>1. DOMAIN t = 1..n + 1 /\ t = [i \in DOMAIN t |-> t[i]]
    BY <1>2
  <2>. QED  BY <1>4, <2>1
<1>6. answered' = [answered EXCEPT ![c] = t]
  BY DEF Answer, t, s, n
<1>7. answered'[c] = t /\ \A x \in Clients : x # c => answered'[x] = answered[x]
  BY <1>6 DEF SessionsOK
<1>. QED  BY <1>2, <1>5, <1>7 DEF n, InOrder

\* A client the step does not concern.
LEMMA AccountedStays ==
  ASSUME NEW c \in Clients, Accounted(c), answered'[c] = answered[c], inbox'[c] = inbox[c],
         sent'[c] = sent[c], blocked'[c] = blocked[c],
         pc' = "exec" /\ cur' = c <=> pc = "exec" /\ cur = c
  PROVE  Accounted(c)'
<1>1. Waiting(c)' <=> Waiting(c)
  BY DEF Waiting, Blocked
<1>. QED  BY <1>1, Zenon DEF Accounted, Blocked

\* A command is dispatched, its number is that of the next reply (dispatch_resp_command).
LEMMA DispatchReplies ==
  ASSUME IInv, IInv', RepliesInv, NEW c \in Clients, dispatch_resp_command(c)
  PROVE  RepliesInv'
<1>. DEFINE n == Len(answered[c])
<1>0. SessionsOK'
  BY Zenon DEF IInv, TypeOK, SessionsOK
<1>1. SessionsOK /\ Accounted(c)
  BY Types DEF IInv, RepliesInv
<1>2. /\ pc = "idle" /\ inbox[c] # <<>> /\ ~Blocked(c) /\ ~Waiting(c)
      /\ inbox' = [inbox EXCEPT ![c] = Tail(@)] /\ sent' = sent
  BY DEF dispatch_resp_command, Unblocked, Waiting
<1>3. /\ inbox'[c] = Tail(inbox[c]) /\ Len(Tail(inbox[c])) = Len(inbox[c]) - 1
      /\ Len(inbox[c]) \in Nat /\ n \in Nat /\ sent[c] \in Nat
      /\ \A x \in Clients : x # c => inbox'[x] = inbox[x]
  BY <1>1, <1>2 DEF SessionsOK
<1>4. n + Len(inbox[c]) = sent[c] /\ Number(c) = n + 1
  <2>1. n + Len(inbox[c]) = sent[c]
    BY <1>1, <1>2, Zenon DEF Accounted
  <2>. QED  BY <1>1, <1>2, <2>1 DEF Number, SessionsOK
<1>5. CASE /\ pc' = "exec" /\ cur' = c /\ answered' = answered /\ blocked' = blocked
  <2>1. Waiting(c)' /\ ~Blocked(c)'
    BY <1>2, <1>5 DEF Waiting, Blocked
  <2>2. Accounted(c)'
    BY <1>0, <1>1, <1>2, <1>3, <1>4, <1>5, <2>1 DEF Accounted, SessionsOK
  <2>3. \A x \in Clients : x # c => Accounted(x)'
    BY <1>2, <1>3, <1>5, AccountedStays DEF RepliesInv
  <2>. QED  BY <1>5, <2>1, <2>2, <2>3 DEF RepliesInv, Blocked
<1>6. CASE pc' = "serve_ready" /\ answered' = answered /\ \E cmd : park(c, cmd)
  <2>1. PICK r : blocked' = [blocked EXCEPT ![c] = r] /\ r.waits = TRUE /\ r.reply_to = n + 1
    <3>1. PICK cmd : park(c, cmd)
      BY <1>6
    <3>. DEFINE r == [waits |-> TRUE, cmd |-> cmd, reply_to |-> Number(c), since |-> parked,
                      deadline |-> IF cmd.timed THEN "ahead" ELSE "none"]
    <3>2. blocked' = [blocked EXCEPT ![c] = r]
      BY <1>2, <3>1 DEF park
    <3>3. r.waits = TRUE /\ r.reply_to = n + 1
      BY <1>4
    <3>. HIDE DEF r
    <3>. QED  BY <3>2, <3>3, Zenon
  <2>2. blocked'[c] = r /\ \A x \in Clients : x # c => blocked'[x] = blocked[x]
    BY <1>1, <2>1 DEF SessionsOK
  <2>3. Blocked(c)' /\ Waiting(c)'
    BY <2>1, <2>2 DEF Blocked, Waiting
  <2>4. Accounted(c)'
    BY <1>0, <1>1, <1>2, <1>3, <1>4, <1>6, <2>1, <2>2, <2>3 DEF Accounted, SessionsOK
  <2>5. \A x \in Clients : x # c => Accounted(x)'
    BY <1>2, <1>3, <1>6, <2>2, AccountedStays DEF RepliesInv
  <2>. QED  BY <1>6, <2>4, <2>5 DEF RepliesInv
<1>7. CASE pc' = "serve_ready" /\ Answer(c, Number(c)) /\ blocked' = blocked
  <2>1. /\ Len(answered'[c]) = n + 1 /\ InOrder(answered'[c])
        /\ \A x \in Clients : x # c => answered'[x] = answered[x]
    BY <1>1, <1>4, <1>7, NextReply DEF Accounted
  <2>2. ~Blocked(c)' /\ ~Waiting(c)'
    BY <1>2, <1>7 DEF Blocked, Waiting
  <2>3. Accounted(c)'
    BY <1>0, <1>1, <1>2, <1>3, <1>4, <2>1, <2>2 DEF Accounted, SessionsOK
  <2>4. \A x \in Clients : x # c => Accounted(x)'
    BY <1>2, <1>3, <1>7, <2>1, AccountedStays DEF RepliesInv
  <2>. QED  BY <1>7, <2>3, <2>4 DEF RepliesInv
<1>8. \/ pc' = "exec" /\ cur' = c /\ answered' = answered /\ blocked' = blocked
      \/ pc' = "serve_ready" /\ answered' = answered /\ \E cmd : park(c, cmd)
      \/ pc' = "serve_ready" /\ Answer(c, Number(c)) /\ blocked' = blocked
  BY Zenon DEF dispatch_resp_command
<1>. QED  BY <1>5, <1>6, <1>7, <1>8

\* A transaction ends with its own reply, and a waiter leaves with the one it was parked for.
LEMMA EndReplies ==
  ASSUME IInv, IInv', RepliesInv, execute_queued_transaction \/ scan
  PROVE  RepliesInv'
<1>0. SessionsOK'
  BY Zenon DEF IInv, TypeOK, SessionsOK
<1>1. SessionsOK /\ TypeOK /\ WaitersAgree /\ inbox' = inbox /\ sent' = sent
  BY Types DEF IInv, execute_queued_transaction, scan
<1>2. ASSUME answered' = answered, blocked' = blocked, pc' = pc, cur' = cur
      PROVE  RepliesInv'
  <2>1. \A x \in Clients : Accounted(x)'
    BY <1>1, <1>2, AccountedStays DEF RepliesInv
  <2>. QED  BY <1>2, <2>1 DEF RepliesInv, Blocked
<1>3. ASSUME NEW c \in Clients, NEW n, Answer(c, n), n = Len(answered[c]) + 1, Waiting(c),
             ~Waiting(c)', ~Blocked(c)', pc' # "exec",
             \A x \in Clients : x # c => blocked'[x] = blocked[x] /\ ~(pc = "exec" /\ cur = x)
      PROVE  RepliesInv'
  <2>1. /\ Len(answered'[c]) = Len(answered[c]) + 1
        /\ InOrder(answered'[c])
        /\ \A x \in Clients : x # c => answered'[x] = answered[x]
    BY <1>1, <1>3, NextReply, Zenon DEF RepliesInv, Accounted
  <2>2. Accounted(c)'
    <3>1. Accounted(c) /\ Len(answered[c]) \in Nat /\ Len(inbox[c]) \in Nat /\ sent[c] \in Nat
      BY <1>1 DEF RepliesInv, SessionsOK
    <3>. QED  BY <1>0, <1>1, <1>3, <2>1, <3>1 DEF Accounted, SessionsOK
  <2>3. \A x \in Clients : x # c => Accounted(x)'
    BY <1>1, <1>3, <2>1, AccountedStays DEF RepliesInv
  <2>. QED  BY <1>3, <2>2, <2>3 DEF RepliesInv
<1>4. CASE execute_queued_transaction
  <2>1. pc = "exec" /\ cur \in Clients /\ cur' = cur /\ blocked' = blocked /\ ~Blocked(cur)
    BY <1>1, <1>4 DEF execute_queued_transaction, SessionsOK, RepliesInv
  <2>2. CASE answered' = answered /\ pc' = pc
    BY <1>2, <2>1, <2>2
  <2>3. CASE Answer(cur, sent[cur] - Len(inbox[cur])) /\ pc' = "serve_ready"
    <3>1. Accounted(cur) /\ Waiting(cur) /\ ~Waiting(cur)' /\ ~Blocked(cur)'
      BY <2>1, <2>3 DEF RepliesInv, Waiting, Blocked
    <3>2. sent[cur] - Len(inbox[cur]) = Len(answered[cur]) + 1
      <4>1. Len(answered[cur]) \in Nat /\ Len(inbox[cur]) \in Nat /\ sent[cur] \in Nat
        BY <1>1, <2>1 DEF SessionsOK
      <4>. QED  BY <1>0, <1>1, <3>1, <4>1 DEF Accounted, SessionsOK
    <3>. QED  BY <1>3, <2>1, <2>3, <3>1, <3>2
  <2>. QED  BY <1>4, <2>2, <2>3, Zenon DEF execute_queued_transaction
<1>5. CASE scan
  <2>0. PICK c : c = waiters[index]
    OBVIOUS
  <2>1. pc = "scan" /\ pc' = pc /\ cur' = cur /\ index \in DOMAIN waiters
    BY <1>1, <1>5 DEF scan, SessionsOK
  <2>2. c \in Clients /\ Blocked(c)
    BY <1>1, <2>0, <2>1, WaiterWaits
  <2>3. CASE answered' = answered /\ blocked' = blocked
    BY <1>2, <2>1, <2>3
  <2>4. CASE Release(c)
    <3>1. Answer(c, blocked[c].reply_to) /\ blocked' = [blocked EXCEPT ![c] = NoRequest]
      BY <2>4 DEF Release
    <3>2. blocked'[c].waits = FALSE /\ \A x \in Clients : x # c => blocked'[x] = blocked[x]
      BY <1>1, <2>2, <3>1 DEF SessionsOK, NoRequest
    <3>3. blocked[c].reply_to = Len(answered[c]) + 1
      BY <2>2, Zenon DEF RepliesInv, Accounted
    <3>4. Waiting(c) /\ ~Waiting(c)' /\ ~Blocked(c)'
      BY <2>1, <2>2, <3>2 DEF Waiting, Blocked
    <3>. QED  BY <1>3, <2>1, <2>2, <3>1, <3>2, <3>3, <3>4
  <2>. QED  BY <1>5, <2>0, <2>3, <2>4, Zenon DEF scan
<1>. QED  BY <1>4, <1>5

\* A command arrives, a deadline passes, a client leaves.
LEMMA ClientReplies ==
  ASSUME IInv, IInv', RepliesInv, NEW c \in Clients, Send(c) \/ Tick(c) \/ close_client(c)
  PROVE  RepliesInv'
<1>0. SessionsOK'
  BY Zenon DEF IInv, TypeOK, SessionsOK
<1>1. SessionsOK /\ Accounted(c) /\ pc' = pc /\ cur' = cur
  BY Types DEF IInv, RepliesInv, Send, Tick, close_client
<1>2. Len(answered[c]) \in Nat /\ Len(inbox[c]) \in Nat /\ sent[c] \in Nat
  BY <1>1 DEF SessionsOK
<1>3. CASE Send(c)
  <2>1. /\ answered' = answered /\ blocked' = blocked /\ pc = "idle"
        /\ \E cmd \in Sends[c] : inbox' = [inbox EXCEPT ![c] = Append(@, cmd)]
        /\ sent' = [sent EXCEPT ![c] = @ + 1]
    BY <1>3, Zenon DEF Send
  <2>2. PICK cmd \in Sends[c] : inbox' = [inbox EXCEPT ![c] = Append(@, cmd)]
    BY <2>1, Zenon
  <2>3. /\ inbox'[c] = Append(inbox[c], cmd) /\ sent'[c] = sent[c] + 1
        /\ \A x \in Clients : x # c => inbox'[x] = inbox[x] /\ sent'[x] = sent[x]
    BY <1>1, <2>1, <2>2 DEF SessionsOK
  <2>4. Len(inbox'[c]) = Len(inbox[c]) + 1
    <3>1. cmd \in Command /\ inbox[c] \in Seq(Command)
      BY <1>1, SendsAssumption, Zenon DEF SessionsOK
    <3>. QED  BY <2>3, <3>1
  <2>5. Accounted(c)'
    <3>1. (Waiting(c)' <=> Waiting(c)) /\ (Blocked(c)' <=> Blocked(c))
      BY <1>1, <2>1, Zenon DEF Waiting, Blocked
    <3>2. Accounted(c) /\ answered'[c] = answered[c] /\ blocked'[c] = blocked[c]
      BY <1>1, <2>1, Zenon
    <3>3. \A a, i, n \in Nat :
            /\ a + i + 1 = n => a + (i + 1) + 1 = n + 1
            /\ a + i = n => a + (i + 1) = n + 1
      OBVIOUS
    <3>4. /\ Len(answered[c]) + Len(inbox[c]) + 1 = sent[c] =>
               Len(answered[c]) + Len(inbox'[c]) + 1 = sent'[c]
          /\ Len(answered[c]) + Len(inbox[c]) = sent[c] =>
               Len(answered[c]) + Len(inbox'[c]) = sent'[c]
      <4>1. /\ Len(answered[c]) + Len(inbox[c]) + 1 = sent[c] =>
                 Len(answered[c]) + (Len(inbox[c]) + 1) + 1 = sent[c] + 1
            /\ Len(answered[c]) + Len(inbox[c]) = sent[c] =>
                 Len(answered[c]) + (Len(inbox[c]) + 1) = sent[c] + 1
        BY <1>2, <3>3, Zenon
      <4>. QED  BY <4>1, <2>3, <2>4, Zenon
    <3>. QED  BY <3>1, <3>2, <3>4, Zenon DEF Accounted
  <2>6. \A x \in Clients : x # c => Accounted(x)'
    BY <1>1, <2>1, <2>3, AccountedStays DEF RepliesInv
  <2>. QED  BY <1>1, <2>1, <2>5, <2>6 DEF RepliesInv, Blocked
<1>4. CASE Tick(c)
  <2>. DEFINE r == [blocked[c] EXCEPT !.deadline = "due"]
  <2>1. /\ Blocked(c) /\ blocked' = [blocked EXCEPT ![c] = r] /\ inbox' = inbox
        /\ sent' = sent /\ answered' = answered
    BY <1>4 DEF Tick
  <2>2. blocked[c] \in Request
    BY <2>1, HasRequest DEF IInv
  <2>3. r.waits = blocked[c].waits /\ r.reply_to = blocked[c].reply_to
    BY <2>2 DEF Request
  <2>. HIDE DEF r
  <2>4. /\ blocked'[c].waits = blocked[c].waits /\ blocked'[c].reply_to = blocked[c].reply_to
        /\ \A x \in Clients : x # c => blocked'[x] = blocked[x]
    BY <1>1, <2>1, <2>3 DEF SessionsOK
  <2>5. Accounted(c)'
    <3>1. (Waiting(c)' <=> Waiting(c)) /\ (Blocked(c)' <=> Blocked(c))
      BY <1>1, <2>4 DEF Waiting, Blocked
    <3>. QED  BY <1>0, <1>1, <2>1, <2>4, <3>1 DEF Accounted, SessionsOK
  <2>6. \A x \in Clients : x # c => Accounted(x)'
    BY <1>1, <2>1, <2>4, AccountedStays DEF RepliesInv
  <2>7. pc = "exec" => ~Blocked(cur)'
    BY <1>1, <2>4, Zenon DEF RepliesInv, Blocked, SessionsOK
  <2>. QED  BY <1>1, <2>5, <2>6, <2>7 DEF RepliesInv, Blocked
<1>5. CASE close_client(c)
  <2>1. /\ pc = "idle" /\ blocked' = [blocked EXCEPT ![c] = NoRequest]
        /\ inbox' = [inbox EXCEPT ![c] = <<>>] /\ sent' = [sent EXCEPT ![c] = 0]
        /\ answered' = [answered EXCEPT ![c] = <<>>]
    BY <1>5 DEF close_client, remove
  <2>2. /\ blocked'[c].waits = FALSE /\ inbox'[c] = <<>> /\ sent'[c] = 0 /\ answered'[c] = <<>>
        /\ \A x \in Clients : x # c => /\ blocked'[x] = blocked[x] /\ inbox'[x] = inbox[x]
                                       /\ sent'[x] = sent[x] /\ answered'[x] = answered[x]
    BY <1>1, <2>1 DEF SessionsOK, NoRequest
  <2>3. ~Blocked(c)' /\ ~Waiting(c)'
    BY <1>1, <2>1, <2>2 DEF Blocked, Waiting
  <2>4. Accounted(c)'
    <3>1. Len(<<>>) = 0 /\ InOrder(<<>>)
      BY DEF InOrder
    <3>. QED  BY <1>0, <1>1, <2>2, <2>3, <3>1 DEF Accounted, SessionsOK
  <2>5. \A x \in Clients : x # c => Accounted(x)'
    BY <1>1, <2>2, AccountedStays DEF RepliesInv
  <2>. QED  BY <1>1, <2>1, <2>4, <2>5 DEF RepliesInv
<1>. QED  BY <1>3, <1>4, <1>5

\* Every step keeps the replies in step with the commands.
LEMMA NextReplies ==
  ASSUME IInv, IInv', RepliesInv, [Next]_vars
  PROVE  RepliesInv'
<1>1. ASSUME NEW c \in Clients, dispatch_resp_command(c) PROVE RepliesInv'
  BY <1>1, DispatchReplies
<1>2. ASSUME NEW c \in Clients, Send(c) \/ Tick(c) \/ close_client(c) PROVE RepliesInv'
  BY <1>2, ClientReplies
<1>3. CASE execute_queued_transaction \/ scan
  BY <1>3, EndReplies
<1>4. CASE \/ \E k \in Keys : active_expire(k)
           \/ serve_ready \/ scan_ends \/ network_iteration \/ UNCHANGED vars
  <2>1. /\ UNCHANGED <<answered, inbox, sent, blocked>>
        /\ pc' # "exec" \/ (pc' = pc /\ cur' = cur)
        /\ pc = "exec" => pc' = pc /\ cur' = cur
    BY <1>4, Zenon DEF active_expire, serve_ready, scan_ends, network_iteration, StartScan, vars
  <2>2. \A x \in Clients : Accounted(x)'
    BY <2>1, AccountedStays DEF RepliesInv
  <2>. QED  BY <2>1, <2>2 DEF RepliesInv, Blocked
<1>. QED  BY <1>1, <1>2, <1>3, <1>4 DEF Next

\* Each client is answered once for each command, in the order in which it sent them: a
\* command behind one that waits is not answered before it (process_buffered_commands).
THEOREM AnsweredInOrder == Spec => []RepliesInOrder
<1>1. Init => RepliesInv
  <2>. SUFFICES ASSUME Init PROVE RepliesInv
    OBVIOUS
  <2>1. \A c \in Clients : ~Blocked(c) /\ ~Waiting(c)
    BY DEF Init, Blocked, Waiting, NoRequest
  <2>2. Len(<<>>) = 0 /\ InOrder(<<>>)
    BY DEF InOrder
  <2>3. \A c \in Clients : answered[c] = <<>> /\ inbox[c] = <<>> /\ sent[c] = 0
    BY DEF Init
  <2>4. ASSUME NEW c \in Clients PROVE Accounted(c)
    <3>1. Len(answered[c]) = 0 /\ Len(inbox[c]) = 0 /\ sent[c] = 0 /\ InOrder(answered[c])
      BY <2>2, <2>3
    <3>2. 0 + 0 = 0
      OBVIOUS
    <3>. QED  BY <2>1, <3>1, <3>2, Zenon DEF Accounted
  <2>. QED  BY <2>4 DEF Init, RepliesInv
<1>2. IInv /\ RepliesInv /\ [Next]_vars => RepliesInv'
  BY NextReplies, NextIInv
<1>3. RepliesInv => RepliesInOrder
  BY Zenon DEF RepliesInv, Accounted, InOrder, RepliesInOrder
<1>. QED  BY <1>1, <1>2, <1>3, Inductive, PTL DEF Spec

-----------------------------------------------------------------------------
(* Every element is in one place. *)

El(s) == {s[i] : i \in DOMAIN s}
NoDup(s) == \A i, j \in DOMAIN s : s[i] = s[j] => i = j
Popped(v) == \E g \in got : ~g.moved /\ g.value = v

\* No value is twice in a list, in two lists, popped twice, or in a list, popped or dropped
\* at once; and the values in a place are exactly those ever pushed.
PlacesInv ==
  /\ \A k \in Keys : NoDup(lists[k])
  /\ \A j, k \in Keys : \A v : v \in El(lists[j]) /\ v \in El(lists[k]) => j = k
  /\ \A g, h \in got : ~g.moved /\ ~h.moved /\ g.value = h.value => g = h
  /\ \A k \in Keys : \A v \in El(lists[k]) : ~Popped(v) /\ v \notin dropped
  /\ \A v \in dropped : ~Popped(v)
  /\ \A v : v \in 1..pushed <=>
            (\E k \in Keys : v \in El(lists[k])) \/ Popped(v) \/ v \in dropped

\* The elements of a sequence whose first is taken off.
LEMMA TailElements ==
  ASSUME NEW s \in Seq(Nat), s # <<>>, NoDup(s)
  PROVE  /\ NoDup(Tail(s)) /\ Head(s) \in El(s) /\ Head(s) \notin El(Tail(s))
         /\ \A v : v \in El(Tail(s)) <=> v \in El(s) /\ v # Head(s)
<1>. DEFINE t == Tail(s)
            n == Len(s) - 1
<1>1. /\ n \in Nat /\ DOMAIN s = 1..n + 1 /\ t \in Seq(Nat) /\ DOMAIN t = 1..n /\ Head(s) = s[1]
      /\ \A i \in 1..n : t[i] = s[i + 1]
  OBVIOUS
<1>. HIDE DEF t, n
<1>2. NoDup(t)
  <2>. SUFFICES ASSUME NEW i \in 1..n, NEW j \in 1..n, t[i] = t[j] PROVE i = j
    BY <1>1 DEF NoDup
  <2>1. i + 1 \in 1..n + 1 /\ j + 1 \in 1..n + 1 /\ s[i + 1] = s[j + 1]
    BY <1>1
  <2>2. i + 1 = j + 1
    BY <1>1, <2>1, Zenon DEF NoDup
  <2>. QED  BY <2>2
<1>3. Head(s) \in El(s)
  <2>1. 1 \in 1..n + 1
    BY <1>1
  <2>. QED  BY <1>1, <2>1, Zenon DEF El
<1>4. ASSUME NEW v \in El(t) PROVE v \in El(s) /\ v # Head(s)
  <2>1. PICK i \in 1..n : v = t[i]
    BY <1>1, <1>4 DEF El
  <2>2. i + 1 \in 1..n + 1 /\ 1 \in 1..n + 1 /\ i + 1 # 1 /\ v = s[i + 1]
    BY <1>1, <2>1
  <2>3. s[i + 1] # s[1]
    BY <1>1, <2>2, Zenon DEF NoDup
  <2>. QED  BY <1>1, <2>2, <2>3, Zenon DEF El
<1>5. ASSUME NEW v \in El(s), v # Head(s) PROVE v \in El(t)
  <2>1. PICK i \in 1..n + 1 : v = s[i]
    BY <1>1, <1>5 DEF El
  <2>2. i # 1
    BY <1>1, <1>5, <2>1
  <2>3. i - 1 \in 1..n /\ i - 1 + 1 = i
    BY <1>1, <2>2
  <2>4. v = t[i - 1]
    BY <1>1, <2>1, <2>3
  <2>. QED  BY <1>1, <2>3, <2>4, Zenon DEF El
<1>. QED  BY <1>2, <1>3, <1>4, <1>5 DEF t

\* Appending an element is putting the sequence of that element behind.
LEMMA AppendIs ==
  ASSUME NEW S, NEW s \in Seq(S), NEW x \in S
  PROVE  Append(s, x) = s \o <<x>>
<1>. DEFINE n == Len(s)
            a == Append(s, x)
            b == s \o <<x>>
<1>1. n \in Nat /\ a \in Seq(S) /\ b \in Seq(S) /\ Len(a) = n + 1 /\ Len(b) = n + 1
  OBVIOUS
<1>2. \A i \in 1..n + 1 : a[i] = b[i]
  OBVIOUS
<1>. HIDE DEF a, b, n
<1>3. a = [i \in 1..n + 1 |-> a[i]] /\ b = [i \in 1..n + 1 |-> b[i]]
  BY <1>1
<1>4. a = b
  BY <1>2, <1>3
<1>. QED  BY <1>4 DEF a, b

\* The elements of two sequences behind each other.
LEMMA ConcatElements ==
  ASSUME NEW s \in Seq(Nat), NEW t \in Seq(Nat), NoDup(s), NoDup(t),
         \A v \in El(t) : v \notin El(s)
  PROVE  /\ NoDup(s \o t)
         /\ \A v : v \in El(s \o t) <=> v \in El(s) \/ v \in El(t)
<1>. DEFINE u == s \o t
            m == Len(s)
            n == Len(t)
<1>1. /\ m \in Nat /\ n \in Nat /\ DOMAIN s = 1..m /\ DOMAIN t = 1..n /\ DOMAIN u = 1..m + n
      /\ (\A i \in 1..m : u[i] = s[i]) /\ \A i \in 1..n : u[m + i] = t[i]
  OBVIOUS
<1>. HIDE DEF u, m, n
<1>2. \A i \in 1..m + n : i \in 1..m \/ (i - m \in 1..n /\ m + (i - m) = i)
  BY <1>1
<1>3. \A i \in 1..m + n : i \in 1..m \/ (i - m \in 1..n /\ u[i] = t[i - m])
  <2>. SUFFICES ASSUME NEW i \in 1..m + n, i - m \in 1..n, m + (i - m) = i
                PROVE  u[i] = t[i - m]
    BY <1>2
  <2>1. u[m + (i - m)] = t[i - m]
    BY <1>1, Zenon
  <2>. QED  BY <2>1
<1>4. (\A i \in 1..m : s[i] \in El(s)) /\ (\A i \in 1..n : t[i] \in El(t))
  BY <1>1, Zenon DEF El
<1>5. NoDup(u)
  <2>. SUFFICES ASSUME NEW i \in 1..m + n, NEW j \in 1..m + n, u[i] = u[j] PROVE i = j
    BY <1>1, Zenon DEF NoDup
  <2>1. CASE i \in 1..m /\ j \in 1..m
    <3>1. s[i] = s[j]
      BY <1>1, <2>1
    <3>. QED  BY <1>1, <2>1, <3>1, Zenon DEF NoDup
  <2>2. CASE i \notin 1..m /\ j \notin 1..m
    <3>1. i - m \in 1..n /\ j - m \in 1..n /\ t[i - m] = t[j - m]
      BY <1>3, <2>2, Zenon
    <3>2. i - m = j - m
      BY <1>1, <3>1, Zenon DEF NoDup
    <3>. QED  BY <1>1, <3>2
  <2>3. CASE i \in 1..m /\ j \notin 1..m
    <3>1. j - m \in 1..n /\ s[i] = t[j - m]
      BY <1>1, <1>3, <2>3, Zenon
    <3>. QED  BY <1>4, <2>3, <3>1, Zenon
  <2>4. CASE i \notin 1..m /\ j \in 1..m
    <3>1. i - m \in 1..n /\ s[j] = t[i - m]
      BY <1>1, <1>3, <2>4, Zenon
    <3>. QED  BY <1>4, <2>4, <3>1, Zenon
  <2>. QED  BY <2>1, <2>2, <2>3, <2>4
<1>6. ASSUME NEW v \in El(u) PROVE v \in El(s) \/ v \in El(t)
  <2>1. PICK i \in 1..m + n : v = u[i]
    BY <1>1, <1>6 DEF El
  <2>. QED  BY <1>1, <1>3, <1>4, <2>1, Zenon
<1>7. ASSUME NEW v \in El(s) PROVE v \in El(u)
  <2>1. PICK i \in 1..m : v = s[i]
    BY <1>1, <1>7 DEF El
  <2>2. i \in 1..m + n
    BY <1>1
  <2>. QED  BY <1>1, <2>1, <2>2, Zenon DEF El
<1>8. ASSUME NEW v \in El(t) PROVE v \in El(u)
  <2>1. PICK i \in 1..n : v = t[i]
    BY <1>1, <1>8 DEF El
  <2>2. m + i \in 1..m + n
    BY <1>1
  <2>. QED  BY <1>1, <2>1, <2>2, Zenon DEF El
<1>. QED  BY <1>5, <1>6, <1>7, <1>8 DEF u

\* An element goes from the head of a list to the end of one, the same or another
\* (Store::lmove), or to a client (Store::lpop).
LEMMA TakePlaces ==
  ASSUME StoreOK, PlacesInv, NEW c \in Clients, NEW cmd \in Simple, Ready(cmd), Take(c, cmd)
  PROVE  PlacesInv'
<1>. DEFINE k == Source(cmd)
            d == cmd.keys[2]
            x == Head(lists[k])
            popped == [lists EXCEPT ![k] = Tail(@)]
            g == [client |-> c, key |-> k, value |-> x, moved |-> cmd.op = "blmove"]
<1>1. k \in Keys /\ Holds(k) /\ (cmd.op = "blmove" => d \in Keys)
  BY SourceHolds
<1>2. dropped' = dropped /\ pushed' = pushed
  BY DEF Take
<1>3. CASE WrongType(cmd)
  <2>1. lists' = lists /\ got' = got
    BY <1>3 DEF Take
  <2>. QED  BY <1>2, <2>1, Zenon DEF PlacesInv, Popped
<1>4. CASE ~WrongType(cmd)
  <2>1. /\ lists' = IF cmd.op = "blmove" THEN Moved(k, d) ELSE popped
        /\ got' = got \cup {g}
    BY <1>4 DEF Take
  <2>2. lists[k] \in Seq(Nat) /\ lists[k] # <<>> /\ NoDup(lists[k])
    BY <1>1, <1>4 DEF Holds, WrongType, StoreOK, PlacesInv
  <2>3. /\ NoDup(Tail(lists[k])) /\ x \in El(lists[k]) /\ x \notin El(Tail(lists[k]))
        /\ \A v : v \in El(Tail(lists[k])) <=> v \in El(lists[k]) /\ v # x
    BY <2>2, TailElements, Zenon
  <2>4. /\ g.value = x /\ (g.moved <=> cmd.op = "blmove")
    BY Zenon
  <2>5. popped[k] = Tail(lists[k]) /\ \A j \in Keys : j # k => popped[j] = lists[j]
    BY <1>1 DEF StoreOK
  <2>6. /\ \A j \in Keys : NoDup(popped[j])
        /\ \A j \in Keys : \A v : v \in El(popped[j]) <=> v \in El(lists[j]) /\ v # x
    <3>1. \A j \in Keys : j # k => x \notin El(lists[j])
      BY <1>1, <2>3, Zenon DEF PlacesInv
    <3>. QED  BY <1>1, <2>3, <2>5, <3>1 DEF PlacesInv
  <2>7. \A j \in Keys : popped[j] \in Seq(Nat)
    BY <1>1, <2>2, <2>5 DEF StoreOK
  <2>. HIDE DEF popped, g, x
  <2>8. CASE cmd.op = "blmove"
    <3>1. lists' = [popped EXCEPT ![d] = Append(@, x)]
      BY <2>1, <2>8, Zenon DEF Moved, popped, x
    <3>2. lists'[d] = Append(popped[d], x) /\ \A j \in Keys : j # d => lists'[j] = popped[j]
      <4>1. popped = [j \in Keys |-> popped[j]]
        BY Zenon DEF popped, StoreOK
      <4>. QED  BY <1>1, <2>8, <3>1, <4>1
    <3>3. x \in Nat
      BY <2>2 DEF x
    <3>4. /\ NoDup(Append(popped[d], x))
          /\ \A v : v \in El(Append(popped[d], x)) <=> v \in El(popped[d]) \/ v = x
      <4>1. popped[d] \in Seq(Nat) /\ NoDup(popped[d]) /\ x \notin El(popped[d])
        BY <1>1, <2>6, <2>7, <2>8, Zenon
      <4>2. <<x>> \in Seq(Nat) /\ NoDup(<<x>>) /\ El(<<x>>) = {x}
        BY <3>3 DEF NoDup, El
      <4>3. Append(popped[d], x) = popped[d] \o <<x>>
        BY <3>3, <4>1, AppendIs, Zenon
      <4>4. \A v \in El(<<x>>) : v \notin El(popped[d])
        BY <4>1, <4>2
      <4>5. /\ NoDup(popped[d] \o <<x>>)
            /\ \A v : v \in El(popped[d] \o <<x>>) <=> v \in El(popped[d]) \/ v \in El(<<x>>)
        BY <4>1, <4>2, <4>4, ConcatElements, Zenon
      <4>. QED  BY <4>2, <4>3, <4>5
    <3>5. /\ \A j \in Keys : NoDup(lists'[j])
          /\ \A j \in Keys : \A v : v \in El(lists'[j])
                                      <=> (v \in El(lists[j]) /\ v # x) \/ (j = d /\ v = x)
      BY <1>1, <2>6, <2>8, <3>2, <3>4, Zenon
    <3>6. \A v : Popped(v)' <=> Popped(v)
      BY <2>1, <2>4, <2>8 DEF Popped
    <3>7. \A a, b \in got' : ~a.moved /\ ~b.moved /\ a.value = b.value => a = b
      BY <2>1, <2>4, <2>8 DEF PlacesInv
    <3>8. \A v : (\E j \in Keys : v \in El(lists'[j])) <=> (\E j \in Keys : v \in El(lists[j]))
      BY <1>1, <2>3, <2>8, <3>5 DEF x
    <3>9. \A i, j \in Keys : \A v : v \in El(lists'[i]) /\ v \in El(lists'[j]) => i = j
      BY <3>5, Zenon DEF PlacesInv
    <3>10. \A j \in Keys : \A v \in El(lists'[j]) : ~Popped(v)' /\ v \notin dropped'
      <4>1. \A j \in Keys : \A v \in El(lists[j]) : ~Popped(v) /\ v \notin dropped
        BY DEF PlacesInv
      <4>2. \A j \in Keys : \A v \in El(lists'[j]) : \E h \in Keys : v \in El(lists[h])
        BY <3>8, Zenon
      <4>. QED  BY <1>2, <3>6, <4>1, <4>2, Zenon
    <3>. QED  BY <1>2, <3>5, <3>6, <3>7, <3>8, <3>9, <3>10, Zenon DEF PlacesInv
  <2>9. CASE cmd.op # "blmove"
    <3>1. lists' = popped
      BY <2>1, <2>9
    <3>2. \A v : Popped(v)' <=> Popped(v) \/ v = x
      BY <2>1, <2>4, <2>9 DEF Popped
    <3>3. ~Popped(x) /\ x \notin dropped
      BY <1>1, <2>3 DEF PlacesInv, x
    <3>4. \A a, b \in got' : ~a.moved /\ ~b.moved /\ a.value = b.value => a = b
      BY <2>1, <2>4, <3>3, Zenon DEF PlacesInv, Popped
    <3>5. \A v : (\E j \in Keys : v \in El(lists'[j])) \/ v = x
                 <=> (\E j \in Keys : v \in El(lists[j]))
      BY <1>1, <2>3, <2>6, <3>1, Zenon DEF x
    <3>6. /\ \A i, j \in Keys : \A v : v \in El(lists'[i]) /\ v \in El(lists'[j]) => i = j
          /\ \A j \in Keys : \A v \in El(lists'[j]) : ~Popped(v)' /\ v \notin dropped'
      BY <1>2, <2>6, <3>1, <3>2, Zenon DEF PlacesInv
    <3>. QED  BY <1>2, <2>6, <3>1, <3>2, <3>3, <3>4, <3>5, <3>6, Zenon DEF PlacesInv
  <2>. QED  BY <2>8, <2>9, Zenon
<1>. QED  BY <1>3, <1>4

\* A key is deleted or overwritten, and its elements with it.
LEMMA ReplacePlaces ==
  ASSUME StoreOK, PlacesInv, NEW k \in Keys, NEW others, Replace(k, others)
  PROVE  PlacesInv'
<1>1. lists' = [lists EXCEPT ![k] = <<>>] /\ dropped' = dropped \cup El(lists[k])
      /\ got' = got /\ pushed' = pushed
  BY DEF Replace, Elements, El
<1>2. lists'[k] = <<>> /\ \A j \in Keys : j # k => lists'[j] = lists[j]
  BY <1>1 DEF StoreOK
<1>3. NoDup(<<>>) /\ \A v : v \notin El(<<>>)
  BY DEF NoDup, El
<1>4. /\ \A j \in Keys : NoDup(lists'[j])
      /\ \A j \in Keys : \A v : v \in El(lists'[j]) <=> j # k /\ v \in El(lists[j])
  BY <1>2, <1>3 DEF PlacesInv
<1>5. \A v : Popped(v)' <=> Popped(v)
  BY <1>1 DEF Popped
<1>6. /\ \A i, j \in Keys : \A v : v \in El(lists'[i]) /\ v \in El(lists'[j]) => i = j
      /\ \A j \in Keys : \A v \in El(lists'[j]) : ~Popped(v)' /\ v \notin dropped'
  BY <1>1, <1>4, <1>5, Zenon DEF PlacesInv
<1>7. \A v \in dropped' : ~Popped(v)'
  BY <1>1, <1>5 DEF PlacesInv
<1>8. \A v : v \in 1..pushed' <=>
               (\E j \in Keys : v \in El(lists'[j])) \/ Popped(v)' \/ v \in dropped'
  BY <1>1, <1>4, <1>5 DEF PlacesInv
<1>9. \A a, b \in got' : ~a.moved /\ ~b.moved /\ a.value = b.value => a = b
  BY <1>1 DEF PlacesInv
<1>. QED  BY <1>4, <1>6, <1>7, <1>8, <1>9 DEF PlacesInv

\* New elements are in the list they are pushed to.
LEMMA PushPlaces ==
  ASSUME StoreOK, PlacesInv, NEW cmd \in Simple, rpush(cmd)
  PROVE  PlacesInv'
<1>. DEFINE k == cmd.keys[1]
            n == cmd.n
            new == [i \in 1..n |-> pushed + i]
<1>1. k \in Keys /\ n \in Nat /\ pushed \in Nat
  BY DEF Simple, StoreOK
<1>2. CASE k \in strings
  BY <1>2, Zenon DEF rpush, storeVars, PlacesInv, Popped
<1>3. CASE k \notin strings
  <2>1. /\ lists' = [lists EXCEPT ![k] = @ \o new] /\ pushed' = pushed + n
        /\ got' = got /\ dropped' = dropped
    BY <1>3, Zenon DEF rpush
  <2>2. lists'[k] = lists[k] \o new /\ \A j \in Keys : j # k => lists'[j] = lists[j]
    BY <1>1, <2>1 DEF StoreOK
  <2>3. new \in [1..n -> Nat] /\ DOMAIN new = 1..n
    BY <1>1
  <2>4. new \in Seq(Nat)
    BY <1>1, <2>3, SeqOfFunction
  <2>5. NoDup(new)
    BY <1>1 DEF NoDup
  <2>6. \A v : v \in El(new) <=> v \in (pushed + 1)..(pushed + n)
    <3>1. ASSUME NEW v \in El(new) PROVE v \in (pushed + 1)..(pushed + n)
      <4>1. PICK i \in 1..n : v = pushed + i
        BY <3>1, Zenon DEF El
      <4>. QED  BY <1>1, <4>1
    <3>2. ASSUME NEW v \in (pushed + 1)..(pushed + n) PROVE v \in El(new)
      <4>1. v - pushed \in 1..n /\ v = pushed + (v - pushed)
        BY <1>1
      <4>2. new[v - pushed] = v
        BY <4>1
      <4>. QED  BY <2>3, <4>1, <4>2, Zenon DEF El
    <3>. QED  BY <3>1, <3>2
  <2>. HIDE DEF new
  <2>7. /\ \A v \in 1..pushed : v \notin (pushed + 1)..(pushed + n)
        /\ \A v : v \in 1..pushed + n <=> v \in 1..pushed \/ v \in (pushed + 1)..(pushed + n)
    BY <1>1
  <2>8. \A j \in Keys : \A v \in El(lists[j]) : v \in 1..pushed
    BY Zenon DEF PlacesInv
  <2>9. lists[k] \in Seq(Nat) /\ NoDup(lists[k]) /\ \A v \in El(new) : v \notin El(lists[k])
    BY <1>1, <2>6, <2>7, <2>8 DEF StoreOK, PlacesInv
  <2>10. /\ NoDup(lists[k] \o new)
         /\ \A v : v \in El(lists[k] \o new) <=> v \in El(lists[k]) \/ v \in El(new)
    BY <2>4, <2>5, <2>9, ConcatElements, Zenon
  <2>11. /\ \A j \in Keys : NoDup(lists'[j])
         /\ \A j \in Keys : \A v : v \in El(lists'[j])
                                     <=> v \in El(lists[j]) \/ (j = k /\ v \in El(new))
    BY <1>1, <2>2, <2>10, Zenon DEF PlacesInv
  <2>12. \A v : Popped(v)' <=> Popped(v)
    BY <2>1 DEF Popped
  <2>13. \A v : Popped(v) \/ v \in dropped => v \in 1..pushed
    BY Zenon DEF PlacesInv
  <2>14. \A v \in El(new) : v \notin 1..pushed
    BY <2>6, <2>7
  <2>15. \A i, j \in Keys : \A v : v \in El(lists'[i]) /\ v \in El(lists'[j]) => i = j
    BY <2>8, <2>11, <2>14 DEF PlacesInv
  <2>16. \A j \in Keys : \A v \in El(lists'[j]) : ~Popped(v)' /\ v \notin dropped'
    BY <2>1, <2>11, <2>12, <2>13, <2>14 DEF PlacesInv
  <2>17. \A v : v \in 1..pushed' <=>
                  (\E j \in Keys : v \in El(lists'[j])) \/ Popped(v)' \/ v \in dropped'
    <3>1. \A v : v \in 1..pushed' <=> v \in 1..pushed \/ v \in El(new)
      BY <2>1, <2>6, <2>7
    <3>2. \A v : (\E j \in Keys : v \in El(lists'[j]))
                   <=> (\E j \in Keys : v \in El(lists[j])) \/ v \in El(new)
      BY <1>1, <2>11, Zenon
    <3>. QED  BY <2>1, <2>12, <3>1, <3>2, Zenon DEF PlacesInv
  <2>18. /\ \A v \in dropped' : ~Popped(v)'
         /\ \A a, b \in got' : ~a.moved /\ ~b.moved /\ a.value = b.value => a = b
    BY <2>1, <2>12 DEF PlacesInv
  <2>. QED  BY <2>11, <2>15, <2>16, <2>17, <2>18, Zenon DEF PlacesInv
<1>. QED  BY <1>2, <1>3

\* Every command leaves every element in one place (execute_command_into).
LEMMA ExecutePlaces ==
  ASSUME StoreOK, PlacesInv, NEW c \in Clients, NEW cmd \in Simple, execute_command_into(c, cmd)
  PROVE  PlacesInv'
<1>1. cmd.keys[1] \in Keys
  BY DEF Simple
<1>2. CASE UNCHANGED storeVars
  BY <1>2 DEF storeVars, PlacesInv, Popped
<1>3. CASE rpush(cmd)
  BY <1>3, PushPlaces
<1>4. ASSUME NEW others, Replace(cmd.keys[1], others) PROVE PlacesInv'
  BY <1>1, <1>4, ReplacePlaces
<1>5. CASE Ready(cmd) /\ Take(c, cmd)
  BY <1>5, TakePlaces
<1>. QED  BY <1>2, <1>3, <1>4, <1>5, Zenon DEF execute_command_into

\* So does every step.
LEMMA NextPlaces ==
  ASSUME IInv, PlacesInv, [Next]_vars
  PROVE  PlacesInv'
<1>1. StoreOK /\ SessionsOK /\ TypeOK /\ WaitersAgree
  BY Types DEF IInv
<1>2. CASE UNCHANGED <<lists, got, dropped, pushed>>
  BY <1>2 DEF PlacesInv, Popped
<1>3. ASSUME NEW c \in Clients, dispatch_resp_command(c) PROVE PlacesInv'
  <2>. DEFINE cmd == Head(inbox[c])
  <2>1. inbox[c] # <<>>
    BY <1>3 DEF dispatch_resp_command
  <2>2. cmd \in Command
    BY <1>1, <2>1 DEF SessionsOK
  <2>3. cmd.op # "exec" => cmd \in Simple
    BY <2>2 DEF Command, Exec
  <2>4. UNCHANGED storeVars \/ (cmd.op # "exec" /\ execute_command_into(c, cmd))
    BY <1>3, Zenon DEF dispatch_resp_command
  <2>. HIDE DEF cmd
  <2>5. CASE UNCHANGED storeVars
    BY <1>2, <2>5 DEF storeVars
  <2>. QED  BY <1>1, <2>3, <2>4, <2>5, ExecutePlaces
<1>4. CASE execute_queued_transaction
  <2>1. cur \in Clients /\ (rest # <<>> => Head(rest) \in Simple)
    BY <1>1 DEF SessionsOK
  <2>2. UNCHANGED storeVars \/ (rest # <<>> /\ execute_command_into(cur, Head(rest)))
    BY <1>4, Zenon DEF execute_queued_transaction
  <2>3. CASE UNCHANGED storeVars
    BY <1>2, <2>3 DEF storeVars
  <2>. QED  BY <1>1, <2>1, <2>2, <2>3, ExecutePlaces
<1>5. CASE scan
  <2>1. PICK c : c = waiters[index]
    OBVIOUS
  <2>2. index \in DOMAIN waiters
    BY <1>1, <1>5 DEF scan, SessionsOK
  <2>3. c \in Clients /\ blocked[c].cmd \in Simple
    BY <1>1, <2>1, <2>2, WaiterWaits, HasRequest
  <2>4. UNCHANGED storeVars \/ (Ready(blocked[c].cmd) /\ Take(c, blocked[c].cmd))
    BY <1>5, <2>1, Zenon DEF scan
  <2>5. CASE UNCHANGED storeVars
    BY <1>2, <2>5 DEF storeVars
  <2>. QED  BY <1>1, <2>3, <2>4, <2>5, TakePlaces
<1>6. ASSUME NEW k \in Keys, active_expire(k) PROVE PlacesInv'
  BY <1>1, <1>6, ReplacePlaces DEF active_expire
<1>7. CASE \/ \E c \in Clients : Send(c) \/ Tick(c) \/ close_client(c)
           \/ serve_ready \/ scan_ends \/ network_iteration \/ UNCHANGED vars
  <2>1. UNCHANGED <<lists, got, dropped, pushed>>
    BY <1>7 DEF Send, Tick, close_client, serve_ready, scan_ends, network_iteration, vars,
                storeVars
  <2>. QED  BY <1>2, <2>1
<1>. QED  BY <1>3, <1>4, <1>5, <1>6, <1>7 DEF Next

\* A set of which all members are equal has at most one.
LEMMA OneOrNone ==
  ASSUME NEW S, \A a, b \in S : a = b
  PROVE  Cardinality(S) = IF S = {} THEN 0 ELSE 1
<1>. DEFINE Counts(f) ==
              f = [T \in SUBSET S |-> IF T = {} THEN 0 ELSE 1 + f[T \ {CHOOSE x : x \in T}]]
            g == [T \in SUBSET S |-> IF T = {} THEN 0 ELSE 1]
            f == CHOOSE h : Counts(h)
<1>1. \A T \in SUBSET S : T # {} => T \ {CHOOSE x : x \in T} = {} /\ T = S
  <2>. SUFFICES ASSUME NEW T \in SUBSET S, T # {}
                PROVE  T \ {CHOOSE x : x \in T} = {} /\ T = S
    OBVIOUS
  <2>1. (CHOOSE x : x \in T) \in T
    BY Zenon
  <2>. QED  BY <2>1
<1>2. {} \in SUBSET S /\ S \in SUBSET S
  OBVIOUS
<1>3. Counts(g)
  <2>1. g[{}] = 0
    BY <1>2
  <2>2. \A T \in SUBSET S : T # {} => g[T \ {CHOOSE x : x \in T}] = 0
    BY <1>1, <2>1
  <2>3. \A T \in SUBSET S :
          g[T] = IF T = {} THEN 0 ELSE 1 + g[T \ {CHOOSE x : x \in T}]
    BY <2>2
  <2>. QED  BY <2>3
<1>4. Counts(f)
  BY <1>3, Zenon
<1>5. Cardinality(S) = f[S]
  BY DEF Cardinality
<1>. HIDE DEF f
<1>6. f[{}] = 0
  BY <1>2, <1>4
<1>7. CASE S = {}
  BY <1>5, <1>6, <1>7
<1>8. CASE S # {}
  <2>1. f[S] = 1 + f[S \ {CHOOSE x : x \in S}]
    BY <1>2, <1>4, <1>8
  <2>2. S \ {CHOOSE x : x \in S} = {}
    BY <1>1, <1>2, <1>8
  <2>3. f[S] = 1 + 0
    BY <2>1, <2>2, <1>6
  <2>. QED  BY <1>5, <1>8, <2>3
<1>. QED  BY <1>7, <1>8

\* No element is lost, duplicated or handed out twice, whatever pushes, pops, moves,
\* deletions and timeouts come together (Store::lmove, serve_ready).
THEOREM ElementsConserved == Spec => []Conserved
<1>1. Init => PlacesInv
  <2>. SUFFICES ASSUME Init PROVE PlacesInv
    OBVIOUS
  <2>1. NoDup(<<>>) /\ (\A v : v \notin El(<<>>)) /\ \A v : v \notin 1..0
    BY DEF NoDup, El
  <2>2. /\ (\A k \in Keys : lists[k] = <<>>) /\ got = {} /\ dropped = {} /\ pushed = 0
    BY DEF Init
  <2>. QED  BY <2>1, <2>2 DEF PlacesInv, Popped
<1>2. IInv /\ PlacesInv /\ [Next]_vars => PlacesInv'
  BY NextPlaces
<1>3. StoreOK /\ PlacesInv => Conserved
  <2>. SUFFICES ASSUME StoreOK, PlacesInv, NEW v \in 1..pushed
                PROVE  Cardinality({at \in UNION {{k} \X DOMAIN lists[k] : k \in Keys} :
                                      lists[at[1]][at[2]] = v})
                       + Cardinality({g \in got : g.value = v /\ ~g.moved})
                       + Cardinality({v} \cap dropped) = 1
    BY DEF Conserved
  <2>. DEFINE A == {at \in UNION {{k} \X DOMAIN lists[k] : k \in Keys} : lists[at[1]][at[2]] = v}
              B == {g \in got : g.value = v /\ ~g.moved}
              C == {v} \cap dropped
  <2>1. \A a \in A : \E k \in Keys : \E i \in DOMAIN lists[k] : a = <<k, i>> /\ lists[k][i] = v
    OBVIOUS
  <2>2. \A k \in Keys : \A i \in DOMAIN lists[k] : lists[k][i] = v => <<k, i>> \in A
    OBVIOUS
  <2>3. (B # {} <=> Popped(v)) /\ (C # {} <=> v \in dropped)
    BY DEF Popped
  <2>4. \A a, b \in B : a = b
    BY DEF PlacesInv
  <2>5. \A a, b \in C : a = b
    OBVIOUS
  <2>. HIDE DEF A, B, C
  <2>6. \A a, b \in A : a = b
    <3>. SUFFICES ASSUME NEW a \in A, NEW b \in A PROVE a = b
      OBVIOUS
    <3>a. PICK k \in Keys : \E i \in DOMAIN lists[k] : a = <<k, i>> /\ lists[k][i] = v
      BY <2>1, Zenon
    <3>1. PICK i \in DOMAIN lists[k] : a = <<k, i>> /\ lists[k][i] = v
      BY <3>a, Zenon
    <3>b. PICK j \in Keys : \E h \in DOMAIN lists[j] : b = <<j, h>> /\ lists[j][h] = v
      BY <2>1, Zenon
    <3>2. PICK h \in DOMAIN lists[j] : b = <<j, h>> /\ lists[j][h] = v
      BY <3>b, Zenon
    <3>3. v \in El(lists[k]) /\ v \in El(lists[j])
      BY <3>1, <3>2 DEF El
    <3>4. k = j
      BY <3>3, Zenon DEF PlacesInv
    <3>5. i = h
      BY <3>1, <3>2, <3>4, Zenon DEF PlacesInv, NoDup
    <3>. QED  BY <3>1, <3>2, <3>4, <3>5
  <2>7. A # {} <=> \E k \in Keys : v \in El(lists[k])
    BY <2>1, <2>2, Zenon DEF El
  <2>8. /\ Cardinality(A) = IF A = {} THEN 0 ELSE 1
        /\ Cardinality(B) = IF B = {} THEN 0 ELSE 1
        /\ Cardinality(C) = IF C = {} THEN 0 ELSE 1
    BY <2>4, <2>5, <2>6, OneOrNone, Zenon
  <2>9. \/ A # {} /\ B = {} /\ C = {}
        \/ A = {} /\ B # {} /\ C = {}
        \/ A = {} /\ B = {} /\ C # {}
    BY <2>3, <2>7, Zenon DEF PlacesInv
  <2>10. Cardinality(A) + Cardinality(B) + Cardinality(C) = 1
    BY <2>8, <2>9
  <2>. QED  BY <2>10 DEF A, B, C
<1>4. IInv => StoreOK
  BY Types DEF IInv
<1>. QED  BY <1>1, <1>2, <1>3, <1>4, Inductive, PTL DEF Spec
=============================================================================
