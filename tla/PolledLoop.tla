----------------------------- MODULE PolledLoop -----------------------------
(***************************************************************************)
(* The busy-polled server: shared-memory rings in priority order, one ring *)
(* served per turn, sockets served when the rings are quiet, and the       *)
(* handshake by which a new client takes over a ring whose last client     *)
(* died (src/server.cpp: run_polled_targets, process_ring,                 *)
(* process_polled_endpoint; ring_buffer.hpp: Mapping; ring_client.hpp).    *)
(*                                                                         *)
(* The server and the client of each ring run concurrently.  A command is  *)
(* two halves of the byte stream, so a record may hold part of a command,  *)
(* one, or several.  A half, and the reply to its command, is tagged with  *)
(* the client's epoch and the command's number.                            *)
(***************************************************************************)
EXTENDS Integers, Sequences, SequencesExt, FiniteSets

CONSTANTS
  N,             \* number of rings; ring 1 has the highest priority
  Kinds,         \* the commands clients send: "ping", "push", "block", "quit"
  BrokerAck,     \* --kafka-ack-mode broker
  PendingLimit,  \* --kafka-pending-bytes, in mutations; 0 is no limit
  IdleSpins,     \* idle passes between two network passes (64 in the code)
  SqHalves,      \* room of the submission queue
  CqRecords,     \* room of the completion queue
  RecordHalves,  \* bound: halves in one record
  MaxCommands,   \* bound: commands of one client, for each ring
  MaxEpoch,      \* bound: clients, for each ring
  MaxItems       \* bound: values in the list when a socket client pushes another

ASSUME PolledAssumption ==
  /\ N \in Nat \ {0} /\ IdleSpins \in Nat \ {0} /\ PendingLimit \in Nat
  /\ Kinds \subseteq {"ping", "push", "block", "quit"} /\ BrokerAck \in BOOLEAN
  /\ SqHalves >= RecordHalves /\ RecordHalves \in Nat \ {0} /\ CqRecords \in Nat \ {0}

VARIABLES
  ring,      \* the mapped file of each ring
  ep,        \* the RingEndpoint of each ring
  user,      \* the client process of each ring
  items,     \* values in the list the blocking commands wait for
  waiters,   \* BlockingListRegistry::waiters_: a ring and its blocked command
  retained,  \* mutations whose acknowledgement is outstanding
  at,        \* the ring the scan has reached; N + 1 at the end of a pass
  step,      \* where the server is inside process_ring
  asked,     \* the epoch process_ring is acknowledging
  idle,      \* idle_spins
  net        \* a socket has something for network_iteration

server == <<items, waiters, retained, at, step, asked, idle>>
vars == <<ring, ep, user, server, net>>
-----------------------------------------------------------------------------
Rings == 1 .. N
Tag == [epoch : Nat, number : Nat]
Room(queue) == Len(FlattenSeq(queue))

\* sq holds the records from the server's local cursor on, of which the first skip are
\* behind the shared head; of cq, which ends at the server's local tail, the first
\* visible are before the shared tail.
Region == [epoch : Nat, epoch_ack : Nat, sq : Seq(Seq(Tag)), skip : Nat,
           cq : Seq(Tag), visible : Nat]
Reply == [tag : Tag, held : BOOLEAN]
Endpoint == [parser : Seq(Tag), replies : Seq(Reply), quit : BOOLEAN, close : BOOLEAN]
User == [state : {"none", "waiting", "open"}, epoch : Nat, sent : Nat, got : Nat]

reset_connection == [parser |-> <<>>, replies |-> <<>>, quit |-> FALSE, close |-> FALSE]

TypeOK ==
  /\ ring \in [Rings -> Region] /\ ep \in [Rings -> Endpoint] /\ user \in [Rings -> User]
  /\ items \in Nat /\ retained \in Nat /\ asked \in Nat /\ net \in BOOLEAN
  /\ waiters \in Seq([ring : Rings, tag : Tag])
  /\ at \in 1 .. N + 1 /\ idle \in 0 .. IdleSpins - 1
  /\ step \in {"scan", "ack", "rebind", "poll", "commands", "flush"}
  /\ \A r \in Rings : /\ ring[r].skip <= Len(ring[r].sq)
                      /\ ring[r].visible <= Len(ring[r].cq)
                      /\ ring[r].visible <= CqRecords

Init ==
  /\ ring = [r \in Rings |-> [epoch |-> 0, epoch_ack |-> 0, sq |-> <<>>, skip |-> 0,
                              cq |-> <<>>, visible |-> 0]]
  /\ ep = [r \in Rings |-> reset_connection]
  /\ user = [r \in Rings |-> [state |-> "none", epoch |-> 0, sent |-> 0, got |-> 0]]
  /\ items = 0 /\ waiters = <<>> /\ retained = 0
  /\ at = 1 /\ step = "scan" /\ asked = 0 /\ idle = 0 /\ net = FALSE
-----------------------------------------------------------------------------
(* The clients. *)

\* RingClient::open claims a fresh epoch ...
request_reconnect(r) ==
  /\ user[r].state = "none" /\ ring[r].epoch < MaxEpoch[r]
  /\ ring' = [ring EXCEPT ![r].epoch = @ + 1]
  /\ user' = [user EXCEPT ![r] = [state |-> "waiting", epoch |-> ring[r].epoch + 1,
                                  sent |-> 0, got |-> 0]]
  /\ UNCHANGED <<ep, server, net>>

\* ... and waits for the server's acknowledgement of it.
reconnect_acked(r) ==
  /\ user[r].state = "waiting" /\ ring[r].epoch_ack = user[r].epoch
  /\ user' = [user EXCEPT ![r].state = "open"]
  /\ UNCHANGED <<ring, ep, server, net>>

\* The client dies, or gives up waiting.
leave(r) ==
  /\ user[r].state # "none" /\ ring[r].epoch < MaxEpoch[r]
  /\ user' = [user EXCEPT ![r].state = "none"]
  /\ UNCHANGED <<ring, ep, server, net>>

\* The n-th half of the byte stream of client epoch e.
Half(e, n) == [epoch |-> e, number |-> (n + 1) \div 2]

\* One record of k halves on the submission queue.
send_raw(r, k) ==
  LET u == user[r]
  IN  /\ u.state = "open"
      /\ u.sent + k <= 2 * MaxCommands[r]
      /\ Room(SubSeq(ring[r].sq, ring[r].skip + 1, Len(ring[r].sq))) + k <= SqHalves
      /\ ring' = [ring EXCEPT ![r].sq =
                    Append(@, [i \in 1 .. k |-> Half(u.epoch, u.sent + i)])]
      /\ user' = [user EXCEPT ![r].sent = @ + k]
      /\ UNCHANGED <<ep, server, net>>

\* One reply from the completion queue.
read_reply(r) ==
  /\ user[r].state = "open" /\ ring[r].visible > 0
  /\ ring' = [ring EXCEPT ![r].cq = Tail(@), ![r].visible = @ - 1]
  /\ user' = [user EXCEPT ![r].got = @ + 1]
  /\ UNCHANGED <<ep, server, net>>
-----------------------------------------------------------------------------
(* process_ring: the server's side of the handshake. *)

At(r, s) == at = r /\ step = s

\* A new epoch: forget the old client, discard what it left and reset the endpoint.
drain_for_reconnect(r) ==
  /\ At(r, "scan") /\ ring[r].epoch # ring[r].epoch_ack
  /\ asked' = ring[r].epoch
  /\ waiters' = SelectSeq(waiters, LAMBDA w : w.ring # r)
  /\ ring' = [ring EXCEPT ![r].skip = Len(ring[r].sq), ![r].visible = 0]
  /\ ep' = [ep EXCEPT ![r] = reset_connection]
  /\ step' = "ack"
  /\ UNCHANGED <<user, items, retained, at, idle, net>>

\* (mutant of ack_epoch) the acknowledgement is never stored.
ack_nothing(r) ==
  /\ At(r, "ack")
  /\ step' = "rebind"
  /\ UNCHANGED <<ring, ep, user, items, waiters, retained, at, asked, idle, net>>
\* Release the waiting client.
ack_epoch(r) ==
  /\ At(r, "ack")
  /\ ring' = [ring EXCEPT ![r].epoch_ack = asked]
  /\ step' = "rebind"
  /\ UNCHANGED <<ep, user, items, waiters, retained, at, asked, idle, net>>

\* (mutant of rebind_ring_views) the local cursors stay where they were.
rebind_nothing(r) ==
  /\ At(r, "rebind")
  /\ step' = "poll"
  /\ UNCHANGED <<ring, ep, user, items, waiters, retained, at, asked, idle, net>>
\* The local cursors follow the shared indices.
rebind_ring_views(r) ==
  /\ At(r, "rebind")
  /\ ring' = [ring EXCEPT ![r].sq = SubSeq(@, ring[r].skip + 1, Len(@)), ![r].skip = 0,
                          ![r].cq = SubSeq(@, 1, ring[r].visible)]
  /\ step' = "poll"
  /\ UNCHANGED <<ep, user, items, waiters, retained, at, asked, idle, net>>
-----------------------------------------------------------------------------
(* process_polled_endpoint. *)

\* The first waiters take the n values there are; of the others, those of late, whose
\* deadline has passed, get null.
serve_ready(n, queue, late) ==
  LET k == IF n < Len(queue) THEN n ELSE Len(queue)
      rest == SubSeq(queue, k + 1, Len(queue))
  IN  [items |-> n - k, served |-> SubSeq(queue, 1, k),
       expired |-> SelectSeq(rest, LAMBDA w : w \in late),
       waiters |-> SelectSeq(rest, LAMBDA w : w \notin late)]

\* The endpoints with the replies of the waiters that serve_ready answered; a pop waits
\* for its acknowledgement, a null does not.
Answer(eps, ready) ==
  [r \in Rings |->
     LET value == SelectSeq(ready.served, LAMBDA w : w.ring = r)
         null == SelectSeq(ready.expired, LAMBDA w : w.ring = r)
     IN  [eps[r] EXCEPT !.replies = @
            \o [i \in DOMAIN value |-> [tag |-> value[i].tag, held |-> BrokerAck]]
            \o [i \in DOMAIN null |-> [tag |-> null[i].tag, held |-> FALSE]]]]

Blocked(r) == \E i \in DOMAIN waiters : waiters[i].ring = r
\* (mutant of input_backpressured) replies are held, input is not.
never_backpressured == FALSE
input_backpressured == BrokerAck /\ PendingLimit # 0 /\ retained >= PendingLimit

\* (mutant of Ready) the room of the completion queue is not looked at.
ready_roomless(r) ==
  LET held == {i \in DOMAIN ep[r].replies : ep[r].replies[i].held}
  IN  CHOOSE k \in 0 .. Len(ep[r].replies) :
        held \cap 1 .. k = {} /\ (k = Len(ep[r].replies) \/ k + 1 \in held)
\* How many replies flush_polled_output pushes: up to the first held one, while there is room.
Ready(r) ==
  LET held == {i \in DOMAIN ep[r].replies : ep[r].replies[i].held}
      free == CqRecords - ring[r].visible
  IN  CHOOSE k \in 0 .. Len(ep[r].replies) :
        /\ k <= free /\ held \cap 1 .. k = {}
        /\ k = Len(ep[r].replies) \/ k = free \/ k + 1 \in held
Unsent(r) == SubSeq(ep[r].replies, Ready(r) + 1, Len(ep[r].replies))
flush_polled_output(r) ==
  IF Ready(r) = 0 THEN ring[r]
  ELSE [ring[r] EXCEPT !.cq = @ \o [i \in 1 .. Ready(r) |-> ep[r].replies[i].tag],
                       !.visible = Len(ring[r].cq) + Ready(r)]

\* How a turn of the scan ends: restart when the ring progressed, else the next ring.
Return(progress) ==
  /\ step' = "scan"
  /\ at' = IF progress THEN 1 ELSE at + 1
  /\ idle' = IF progress THEN 0 ELSE idle

Enter(r) == at = r /\ (step = "poll" \/ (step = "scan" /\ ring[r].epoch = ring[r].epoch_ack))
Idle(r) == Unsent(r) = <<>> /\ ~ep[r].quit /\ ~ep[r].close /\ ~Blocked(r) /\ ~input_backpressured

\* The endpoint only has output to send, is closing, waits, or may not take input.
poll_output(r) ==
  /\ Enter(r) /\ ~Idle(r)
  /\ ring' = [ring EXCEPT ![r] = flush_polled_output(r)]
  /\ LET finished == ep[r].quit /\ Unsent(r) = <<>>
     IN  /\ ep' = [ep EXCEPT ![r].replies = Unsent(r), ![r].close = @ \/ finished]
         /\ Return(finished \/ Ready(r) > 0)
  /\ UNCHANGED <<user, items, waiters, retained, asked, net>>

\* (mutant of poll_empty) an empty ring counts as progress.
empty_progress(r) ==
  /\ Enter(r) /\ Idle(r) /\ ring[r].sq = <<>>
  /\ ring' = [ring EXCEPT ![r] = flush_polled_output(r)]
  /\ ep' = [ep EXCEPT ![r].replies = <<>>]
  /\ Return(TRUE)
  /\ UNCHANGED <<user, items, waiters, retained, asked, net>>
\* No record: not progress, even when output was sent.
poll_empty(r) ==
  /\ Enter(r) /\ Idle(r) /\ ring[r].sq = <<>>
  /\ ring' = [ring EXCEPT ![r] = flush_polled_output(r)]
  /\ ep' = [ep EXCEPT ![r].replies = <<>>]
  /\ Return(FALSE)
  /\ UNCHANGED <<user, items, waiters, retained, asked, net>>

\* One record goes to the parser.
HasCommand(parser) == Len(parser) >= 2
poll_record(r) ==
  /\ Enter(r) /\ Idle(r) /\ ring[r].sq # <<>>
  /\ ring' = [ring EXCEPT ![r] = [flush_polled_output(r) EXCEPT
                !.sq = Tail(@), !.skip = IF @ = 0 THEN 0 ELSE @ - 1]]
  /\ ep' = [ep EXCEPT ![r].replies = <<>>, ![r].parser = @ \o Head(ring[r].sq)]
  /\ step' = IF HasCommand(ep'[r].parser) THEN "commands" ELSE "flush"
  /\ UNCHANGED <<user, items, waiters, retained, at, asked, idle, net>>

\* One command of the record: its reply, unless it waits for a value, and serve_ready.
Dispatched(r, kind, late) ==
  LET tag == Head(ep[r].parser)
      pops == kind = "block" /\ items > 0
      parks == kind = "block" /\ items = 0
      writes == kind = "push" \/ pops
      ready == serve_ready(CASE kind = "push" -> items + 1 [] pops -> items - 1 [] OTHER -> items,
                           IF parks THEN Append(waiters, [ring |-> r, tag |-> tag]) ELSE waiters,
                           late)
      answered == [ep EXCEPT ![r].parser = SubSeq(@, 3, Len(@)),
                             ![r].quit = @ \/ kind = "quit",
                             ![r].replies = IF parks THEN @
                               ELSE Append(@, [tag |-> tag, held |-> BrokerAck /\ writes])]
  IN  [ep |-> Answer(answered, ready), items |-> ready.items, waiters |-> ready.waiters,
       retained |-> IF BrokerAck THEN Len(ready.served) + (IF writes THEN 1 ELSE 0) ELSE 0]

\* (mutant of dispatch_resp_command) the rest of the record waits in the parser.
dispatch_one(r, kind, late) ==
  LET d == Dispatched(r, kind, late)
  IN  /\ At(r, "commands")
      /\ items' = d.items /\ waiters' = d.waiters /\ ep' = d.ep
      /\ retained' = retained + d.retained
      /\ step' = "flush"
      /\ UNCHANGED <<ring, user, at, asked, idle, net>>
dispatch_resp_command(r, kind, late) ==
  LET d == Dispatched(r, kind, late)
      blocked == \E i \in DOMAIN d.waiters : d.waiters[i].ring = r
  IN  /\ At(r, "commands")
      /\ items' = d.items /\ waiters' = d.waiters /\ ep' = d.ep
      /\ retained' = retained + d.retained
      /\ step' = IF ~d.ep[r].quit /\ ~blocked /\ HasCommand(d.ep[r].parser)
                 THEN "commands" ELSE "flush"
      /\ UNCHANGED <<ring, user, at, asked, idle, net>>

polled_flush(r) ==
  /\ At(r, "flush")
  /\ ring' = [ring EXCEPT ![r] = flush_polled_output(r)]
  /\ ep' = [ep EXCEPT ![r].replies = Unsent(r)]
  /\ Return(TRUE)
  /\ UNCHANGED <<user, items, waiters, retained, asked, net>>
-----------------------------------------------------------------------------
(* The rest of the loop. *)

\* A pass without progress; sockets are served in one of IdleSpins of them.
idle_pass ==
  /\ at = N + 1 /\ (idle + 1) % IdleSpins # 0
  /\ at' = 1 /\ idle' = idle + 1
  /\ UNCHANGED <<ring, ep, user, items, waiters, retained, step, asked, net>>

\* Poll the journal, answer the waiters of late, and serve the sockets, whose clients may
\* push a value.
network_iteration(acked, late, pushes) ==
  LET left == IF acked THEN 0 ELSE retained
      freed == [r \in Rings |-> [ep[r] EXCEPT !.replies =
                  [i \in DOMAIN @ |-> [@[i] EXCEPT !.held = @ /\ ~acked]]]]
      due == serve_ready(items, waiters, late)
      ready == serve_ready(IF pushes THEN due.items + 1 ELSE due.items, due.waiters, {})
  IN  /\ at = N + 1 /\ (idle + 1) % IdleSpins = 0
      /\ at' = 1 /\ idle' = 0
      /\ pushes => net /\ items < MaxItems /\ (BrokerAck /\ PendingLimit # 0 => left < PendingLimit)
      /\ net' = FALSE
      /\ items' = ready.items /\ waiters' = ready.waiters
      /\ ep' = Answer(Answer(freed, due), ready)
      /\ retained' = IF BrokerAck
                     THEN left + Len(due.served \o ready.served) + (IF pushes THEN 1 ELSE 0)
                     ELSE 0
      /\ UNCHANGED <<ring, user, step, asked>>

socket_ready ==
  /\ ~net /\ net' = TRUE
  /\ UNCHANGED <<ring, ep, user, server>>
-----------------------------------------------------------------------------
ProcessRing(r) ==
  \/ drain_for_reconnect(r) \/ ack_epoch(r) \/ rebind_ring_views(r)
  \/ poll_output(r) \/ poll_empty(r) \/ poll_record(r) \/ polled_flush(r)
  \/ \E kind \in Kinds : \E late \in SUBSET ToSet(waiters) :
       dispatch_resp_command(r, kind, late)

Server ==
  \/ \E r \in Rings : ProcessRing(r)
  \/ idle_pass
  \/ \E acked, pushes \in BOOLEAN : \E late \in SUBSET ToSet(waiters) :
       network_iteration(acked, late, pushes)

Client(r) ==
  \/ request_reconnect(r) \/ reconnect_acked(r) \/ leave(r) \/ read_reply(r)
  \/ \E k \in 1 .. RecordHalves : send_raw(r, k)

Next == Server \/ (\E r \in Rings : Client(r)) \/ socket_ready

Spec == Init /\ [][Next]_vars

\* The server spins for ever; a live client keeps reading its completion queue and
\* waiting for its acknowledgement.
Fairness ==
  /\ WF_vars(Server)
  /\ \A r \in Rings : WF_vars(read_reply(r)) /\ WF_vars(reconnect_acked(r))
FairSpec == Spec /\ Fairness
-----------------------------------------------------------------------------
(* Properties. *)

\* Between a client and the server nothing is lost, repeated, reordered or left over from
\* an earlier client: after the replies it has read come, in order, the replies in the
\* completion queue, those unsent, the blocked command, and the rest of its byte stream
\* (process_ring, drain_for_reconnect, process_polled_endpoint, serve_ready).
Unanswered(r) ==
  LET mine == SelectSeq(waiters, LAMBDA w : w.ring = r)
  IN  SubSeq(ring[r].cq, 1, ring[r].visible)
        \o [i \in DOMAIN ep[r].replies |-> ep[r].replies[i].tag]
        \o [i \in DOMAIN mine |-> mine[i].tag]
Stream(r) ==
  ep[r].parser \o FlattenSeq(SubSeq(ring[r].sq, ring[r].skip + 1, Len(ring[r].sq)))
StreamConserved ==
  \A r \in Rings :
    LET u == user[r]
        k == Len(Unanswered(r))
    IN  u.state = "open" =>
          /\ Unanswered(r) = [i \in 1 .. k |-> [epoch |-> u.epoch, number |-> u.got + i]]
          /\ Stream(r) = [i \in 1 .. u.sent - 2 * (u.got + k) |->
                            Half(u.epoch, 2 * (u.got + k) + i)]

\* At the watermark command input pauses: a command, which writes at most twice (a push
\* and the blocked pop it serves), starts only below it (input_backpressured, tested in
\* process_polled_endpoint; docs/kafka.md).
WatermarkRespected ==
  BrokerAck /\ PendingLimit > 0 => retained <= PendingLimit + 1

\* A client that waits for a ring gets it (process_ring).
Connected ==
  \A r \in Rings : user[r].state = "waiting" ~> user[r].state # "waiting"

\* A command whose bytes are all sent is answered, unless it waits for a list or stands
\* behind QUIT (process_polled_endpoint).
CommandsAnswered ==
  \A r \in Rings : \A n \in 1 .. MaxCommands[r] :
    (user[r].state = "open" /\ user[r].sent >= 2 * n /\ ~Blocked(r))
      ~> (user[r].state # "open" \/ user[r].got >= n \/ Blocked(r) \/ ep[r].quit)

\* The sockets are served whenever the rings are quiet (network_iteration).
SocketsServed == net ~> ~net
=============================================================================
