------------------------- MODULE ReplicationRuntime -------------------------
(***************************************************************************)
(* The primary's side of replication: one atomic batch of mutations per    *)
(* command, journalled to Kafka and streamed to firehose subscribers, with *)
(* the replies held back until the brokers acknowledge the batch when      *)
(* --kafka-ack-mode is broker (src/server.cpp: ReplicationRuntime,         *)
(* EndpointSession, write_client; src/kafka_ingest.cpp: KafkaJournal).     *)
(*                                                                         *)
(* The server is one thread: an action is one call it makes from its loop. *)
(* A mutation is its logical offset.  A reply carries, as history, the     *)
(* last offset its command produced (upto; 0 for a read).  The producer    *)
(* queue of librdkafka holds the offsets reported + 1 .. offset.           *)
(***************************************************************************)
EXTENDS Integers, Sequences, FiniteSets

CONSTANTS
  Clients,       \* connections that send commands
  Followers,     \* connections that send GOBLIN.FIREHOSE
  BrokerAck,     \* broker_ack_: --kafka-ack-mode broker
  PendingLimit,  \* --kafka-pending-bytes, in mutations; 0 is no limit
  BufferFrames,  \* --replication-buffer-bytes, in frames
  MaxCommand,    \* bound: mutations of one command
  MaxOffset,     \* bound: mutations ever made
  MaxSequence    \* bound: items queued for one connection

ASSUME FiniteAssumption == IsFiniteSet(Clients) /\ IsFiniteSet(Followers)
ASSUME BrokerAckAssumption == BrokerAck \in BOOLEAN
ASSUME LimitAssumption == PendingLimit \in Nat /\ BufferFrames \in Nat \ {0}
ASSUME BoundAssumption == MaxCommand \in Nat /\ MaxOffset \in Nat /\ MaxSequence \in Nat

VARIABLES
  running,         \* running_
  pc,              \* "loop", or inside the loop of "release" (release_acknowledged)
                   \* or "serve" (serve_ready, after an SBE command)
  failed,          \* failed_
  offset,          \* the store's logical replication offset
  released,        \* released_offset_
  awaiting,        \* awaiting_ack_: batches held for their acknowledgement
  subscribers,     \* subscribers_
  reported,        \* delivery reports served; the later offsets are in flight
  acked,           \* acknowledged_logical_offset
  delivery_error,  \* a report failed and poll() has not seen it yet
  durable,         \* external: offsets the brokers hold
  session,         \* EndpointSession, for every connection
  told             \* history: upto of the write replies clients have received

journalVars == <<reported, acked, delivery_error, durable>>
vars == <<running, pc, failed, offset, released, awaiting, subscribers, journalVars,
          session, told>>
-----------------------------------------------------------------------------
Session == Clients \cup Followers
Never == MaxOffset + 1   \* numeric_limits<uint64_t>::max(): no acknowledgement reaches it
MaxOf(a, b) == IF a >= b THEN a ELSE b

\* One entry of replies; hello is the offset a firehose hello announces, or -1.
Reply == [seq : Nat, need : Nat, upto : Nat, hello : Int]
\* One frame of firehose_output: a batch first .. last, or the terminal error (0, 0).
Frame == [seq : Nat, first : Nat, last : Nat]
Batch == [first : Nat, last : Nat, waiters : SUBSET Session]

Fresh ==
  [status |-> "open", replies |-> <<>>, out |-> <<>>, next_seq |-> 1, next_need |-> 0,
   firehose |-> FALSE, blocked |-> FALSE, close_after_write |-> FALSE,
   quit_after_write |-> FALSE, seen |-> -1]

SessionState ==
  [status : {"absent", "open", "closed"}, replies : Seq(Reply), out : Seq(Frame),
   next_seq : Nat, next_need : Nat, firehose : BOOLEAN, blocked : BOOLEAN,
   close_after_write : BOOLEAN, quit_after_write : BOOLEAN, seen : Int]

TypeOK ==
  /\ pc \in {"loop", "release", "serve"}
  /\ running \in BOOLEAN /\ failed \in BOOLEAN /\ delivery_error \in BOOLEAN
  /\ offset \in Nat /\ released \in Nat /\ reported \in Nat /\ acked \in Nat
  /\ awaiting \in Seq(Batch)
  /\ subscribers \subseteq Session
  /\ durable \subseteq Nat /\ told \subseteq Nat
  /\ session \in [Session -> SessionState]

Init ==
  /\ running = TRUE /\ pc = "loop" /\ failed = FALSE
  /\ offset = 0 /\ released = 0 /\ awaiting = <<>> /\ subscribers = {}
  /\ reported = 0 /\ acked = 0 /\ delivery_error = FALSE /\ durable = {}
  /\ session = [s \in Session |-> [Fresh EXCEPT !.status = "absent"]]
  /\ told = {}
-----------------------------------------------------------------------------
(* EndpointSession. *)

record_reply(ss, upto, hello) ==
  [ss EXCEPT !.replies = Append(@, [seq |-> ss.next_seq, need |-> ss.next_need,
                                    upto |-> upto, hello |-> hello]),
             !.next_seq = @ + 1, !.next_need = 0]

HeldReplies(q, first_sequence, logical) ==
  [i \in DOMAIN q |-> IF q[i].seq >= first_sequence
                      THEN [q[i] EXCEPT !.need = MaxOf(q[i].need, logical)] ELSE q[i]]

\* (mutant of require_kafka_ack) a reply not recorded yet is not held.
require_found_only(ss, first_sequence, logical) ==
  [ss EXCEPT !.replies = HeldReplies(ss.replies, first_sequence, logical)]

\* Hold the replies from first_sequence on; if the command's reply is not recorded
\* yet (SBE records it after the batch is committed), hold the next one.
require_kafka_ack(ss, first_sequence, logical) ==
  IF \E i \in DOMAIN ss.replies : ss.replies[i].seq >= first_sequence
  THEN [ss EXCEPT !.replies = HeldReplies(ss.replies, first_sequence, logical)]
  ELSE [ss EXCEPT !.next_need = MaxOf(ss.next_need, logical)]

FreedReplies(q, logical) ==
  [i \in DOMAIN q |-> IF q[i].need <= logical THEN [q[i] EXCEPT !.need = 0] ELSE q[i]]

\* (mutant of release_kafka_ack) off by one at the acknowledged offset.
release_below(ss, logical) ==
  [ss EXCEPT !.replies = FreedReplies(ss.replies, logical - 1)]

release_kafka_ack(ss, logical) ==
  [ss EXCEPT !.replies = FreedReplies(ss.replies, logical),
             !.next_need = IF ss.next_need <= logical THEN 0 ELSE ss.next_need]

\* The item write_client sends next: replies and frames in sequence order.  A held
\* reply keeps everything behind it back.
PushFirst(ss) == ss.out # <<>> /\ (ss.replies # <<>> => ss.out[1].seq < ss.replies[1].seq)
has_writable_output(ss) ==
  IF ss.replies = <<>> THEN ss.out # <<>> ELSE PushFirst(ss) \/ ss.replies[1].need = 0
-----------------------------------------------------------------------------
(* Firehose output. *)

push(ss, first, last) ==
  [ss EXCEPT !.out = Append(@, [seq |-> ss.next_seq, first |-> first, last |-> last]),
             !.next_seq = @ + 1]
Full(ss) == Len(ss.out) >= BufferFrames

\* The terminal error frame replaces the queue when there is no room behind it.
terminate(ss) ==
  [push(IF Full(ss) THEN [ss EXCEPT !.out = <<>>] ELSE ss, 0, 0)
     EXCEPT !.quit_after_write = TRUE]

\* (mutant of broadcast) a follower that cannot take the frame just misses it.
broadcast_skip(sess, first, last) ==
  /\ session' = [t \in Session |->
       IF t \notin subscribers \/ Full(sess[t]) THEN sess[t]
       ELSE push(sess[t], first, last)]
  /\ UNCHANGED subscribers

broadcast(sess, first, last) ==
  /\ session' = [t \in Session |->
       IF t \notin subscribers THEN sess[t]
       ELSE IF Full(sess[t]) THEN terminate(sess[t])
       ELSE push(sess[t], first, last)]
  /\ subscribers' = {t \in subscribers : ~Full(sess[t])}
-----------------------------------------------------------------------------
(* KafkaJournal. *)

\* delivery_report, for the reports up to offset r; the offsets in bad failed.
delivery_reports(r, bad) ==
  LET good == (reported + 1 .. r) \ bad
  IN  /\ reported' = r
      /\ durable' = durable \cup good
      /\ \E high \in good \cup {acked} :
           high >= acked /\ (\A x \in good : x <= high) /\ acked' = high
      /\ delivery_error' = (delivery_error \/ bad # {})

\* publish() serves reports when librdkafka's queue is full, before it tries again;
\* j mutations of n are accepted, the next one (if j < n) is refused twice.
ReportsDuringPublish(n, j) ==
  \E r \in reported .. offset + (IF j = n THEN n - 1 ELSE j) :
    \E bad \in SUBSET (reported + 1 .. r) : delivery_reports(r, bad)
-----------------------------------------------------------------------------
(* ReplicationRuntime. *)

\* awaiting_ack_bytes_: the batches are contiguous, so their sizes add up to this.
awaiting_ack_bytes ==
  IF awaiting = <<>> THEN 0 ELSE awaiting[Len(awaiting)].last - awaiting[1].first + 1
input_backpressured == BrokerAck /\ PendingLimit # 0 /\ awaiting_ack_bytes >= PendingLimit

Firsts == [t \in Session |-> session[t].next_seq]   \* Scope::first_sequence_

\* The offset the history gives the reply to a command with n mutations in its batch.
Upto(n) == IF n = 0 THEN 0 ELSE IF failed THEN Never ELSE offset + n

\* (mutant of AtOnce) broker mode forwards before the acknowledgement too.
AlwaysAtOnce == TRUE
\* commit() forwards a batch to the followers at once when it does not wait for brokers.
AtOnce == ~BrokerAck

\* finish() of the outermost Scope, opened for session s, with n mutations pending, the
\* sessions of waiters waiting and their replies recorded in sess; s records its reply
\* after finish() when late.
finish(s, sess, n, waiters, late) ==
  LET Reply1(m) == IF late THEN [m EXCEPT ![s] = record_reply(@, Upto(n), -1)] ELSE m
  IN
  IF n = 0 \/ failed
  THEN /\ session' = Reply1(IF failed /\ BrokerAck
                            THEN [sess EXCEPT ![s] = require_kafka_ack(@, Firsts[s], Never)]
                            ELSE sess)
       /\ UNCHANGED <<failed, offset, released, awaiting, subscribers, journalVars>>
  ELSE \E j \in 0 .. n :
       LET last == offset + n
           held == Reply1([t \in Session |->
                     IF BrokerAck /\ t \in waiters
                     THEN require_kafka_ack(sess[t], Firsts[t], last)
                     ELSE sess[t]])
       IN  /\ ReportsDuringPublish(n, j)
           /\ offset' = offset + j
           /\ failed' = (j < n)
           /\ IF j = n /\ ~AtOnce
              THEN awaiting' = Append(awaiting, [first |-> offset + 1, last |-> last,
                                                 waiters |-> waiters])
              ELSE UNCHANGED awaiting
           /\ IF j = n /\ AtOnce
              THEN released' = last /\ broadcast(held, offset + 1, last)
              ELSE session' = held /\ UNCHANGED <<released, subscribers>>

\* remove(): forget the session's subscription and its place among the waiters.
RemoveWaiter(s) == [i \in DOMAIN awaiting |-> [awaiting[i] EXCEPT !.waiters = @ \ {s}]]
\* (mutant of Drop) only the subscription goes.
DropSubscription(s, after) ==
  /\ subscribers' = subscribers \ {s}
  /\ session' = [session EXCEPT ![s] = after]
  /\ UNCHANGED awaiting
Drop(s, after) ==
  /\ awaiting' = RemoveWaiter(s)
  /\ subscribers' = subscribers \ {s}
  /\ session' = [session EXCEPT ![s] = after]

Loop == running /\ pc = "loop"
\* process_buffered_commands takes the next command of s.
Accepts(s) ==
  /\ Loop
  /\ session[s].status = "open"
  /\ ~session[s].blocked /\ ~session[s].firehose
  /\ ~input_backpressured
  /\ session[s].next_seq <= MaxSequence
Blocked == {t \in Session : session[t].status = "open" /\ session[t].blocked}
-----------------------------------------------------------------------------
(* Actions: what the server's loop does. *)

accept(s) ==
  /\ Loop
  /\ session[s].status # "open"
  /\ session' = [session EXCEPT ![s] = Fresh]
  /\ UNCHANGED <<running, pc, failed, offset, released, awaiting, subscribers,
                 journalVars, told>>

\* A command of k mutations (0: a read), then serve_ready inside the same Scope, which
\* pops a value for each blocked session of T.
dispatch_resp_command(s, k, T) ==
  LET n == k + Cardinality(T)
      answered == [t \in Session |->
        IF t = s THEN record_reply(session[s], IF k = 0 THEN 0 ELSE Upto(n), -1)
        ELSE IF t \in T THEN [record_reply(session[t], Upto(n), -1) EXCEPT !.blocked = FALSE]
        ELSE session[t]]
  IN  /\ Accepts(s)
      /\ T \subseteq Blocked /\ (T # {} => k > 0)
      /\ offset + n <= MaxOffset
      /\ finish(s, answered, n, T \cup (IF k = 0 THEN {} ELSE {s}), FALSE)
      /\ UNCHANGED <<running, pc, told>>

\* The Scope closes before the reply is recorded; serve_ready follows, outside it.
dispatch_sbe_command(s, k) ==
  /\ Accepts(s)
  /\ offset + k <= MaxOffset
  /\ finish(s, session, k, IF k = 0 THEN {} ELSE {s}, TRUE)
  /\ pc' \in {"loop"} \cup (IF k > 0 /\ Blocked # {} /\ offset' < MaxOffset
                            THEN {"serve"} ELSE {})
  /\ UNCHANGED <<running, told>>

\* One turn of serve_ready's loop: t's list has a value, which it pops in its own Scope.
serve_ready(t) ==
  /\ running /\ pc = "serve"
  /\ t \in Blocked
  /\ offset + 1 <= MaxOffset
  /\ finish(t, [session EXCEPT ![t] = [record_reply(@, Upto(1), -1) EXCEPT !.blocked = FALSE]],
            1, {t}, FALSE)
  /\ pc' \in {"loop"} \cup (IF Blocked # {t} /\ offset' < MaxOffset THEN {"serve"} ELSE {})
  /\ UNCHANGED <<running, told>>

\* serve_ready answers a blocked session whose deadline has passed with a null.
blocked_deadline(t) ==
  /\ Loop
  /\ t \in Blocked
  /\ finish(t, [session EXCEPT ![t] = [record_reply(@, 0, -1) EXCEPT !.blocked = FALSE]],
            0, {}, FALSE)
  /\ UNCHANGED <<running, pc, told>>

park(s) ==
  /\ Accepts(s)
  /\ finish(s, [session EXCEPT ![s].blocked = TRUE], 0, {}, FALSE)
  /\ UNCHANGED <<running, pc, told>>

quit(s) ==
  /\ Accepts(s)
  /\ finish(s, [session EXCEPT ![s] = [record_reply(@, 0, -1) EXCEPT !.close_after_write = TRUE]],
            0, {}, FALSE)
  /\ UNCHANGED <<running, pc, told>>

\* The offset of the hello: what has been released, in broker mode.
Announced == IF BrokerAck THEN released ELSE offset

\* GOBLIN.FIREHOSE: subscribe() removes the session first, its waiters included.
subscribe(s) ==
  LET hello == [record_reply(session[s], 0, Announced) EXCEPT !.firehose = TRUE]
  IN  /\ Accepts(s)
      /\ session' = [session EXCEPT ![s] = IF failed /\ BrokerAck
                       THEN require_kafka_ack(hello, session[s].next_seq, Never) ELSE hello]
      /\ awaiting' = RemoveWaiter(s)
      /\ subscribers' = subscribers \cup {s}
      /\ UNCHANGED <<running, pc, failed, offset, released, journalVars, told>>

\* One turn of write_client's loop; the socket may block before the next turn.  The
\* session is closed when the loop ends after QUIT, or a terminated follower is drained.
Written(ss) ==
  IF PushFirst(ss)
  THEN [ss EXCEPT !.out = Tail(@), !.seen = MaxOf(@, ss.out[1].last)]
  ELSE [ss EXCEPT !.replies = Tail(@), !.seen = MaxOf(@, ss.replies[1].hello)]
Finished(ss) ==
  \/ ss.close_after_write /\ ~has_writable_output(ss)
  \/ ss.quit_after_write /\ ss.replies = <<>> /\ ss.out = <<>>
write_client(s) ==
  LET ss == session[s]
      after == Written(ss)
  IN  /\ Loop
      /\ ss.status = "open"
      /\ has_writable_output(ss)
      /\ told' = IF PushFirst(ss) \/ ss.replies[1].upto = 0 THEN told
                 ELSE told \cup {ss.replies[1].upto}
      /\ IF Finished(after)
         THEN Drop(s, [after EXCEPT !.status = "closed"])
         ELSE session' = [session EXCEPT ![s] = after] /\ UNCHANGED <<awaiting, subscribers>>
      /\ UNCHANGED <<running, pc, failed, offset, released, journalVars>>

\* The peer closes its end.
disconnect(s) ==
  /\ Loop
  /\ session[s].status = "open"
  /\ Drop(s, [Fresh EXCEPT !.status = "absent"])
  /\ UNCHANGED <<running, pc, failed, offset, released, journalVars, told>>

\* (mutant of AckedFront) the head goes as soon as one offset of it is acknowledged.
AckedFrontFirst(queue, upto) == queue # <<>> /\ queue[1].first <= upto
\* The test of release_acknowledged's loop.
AckedFront(queue, upto) == queue # <<>> /\ queue[1].last <= upto

\* Serve the reports up to r; a failed one stops the server, else release_acknowledged.
poll_kafka_journal(r, bad) ==
  /\ Loop
  /\ delivery_reports(r, bad)
  /\ running' = ~delivery_error'
  /\ pc' = IF BrokerAck /\ running' /\ AckedFront(awaiting, acked') THEN "release" ELSE "loop"
  /\ UNCHANGED <<failed, offset, released, awaiting, subscribers, session, told>>

\* One turn of release_acknowledged's loop.
release_acknowledged ==
  LET batch == Head(awaiting)
      freed == [t \in Session |-> IF t \in batch.waiters
                                  THEN release_kafka_ack(session[t], batch.last)
                                  ELSE session[t]]
  IN  /\ running /\ pc = "release"
      /\ awaiting' = Tail(awaiting)
      /\ released' = batch.last
      /\ broadcast(freed, batch.first, batch.last)
      /\ pc' = IF AckedFront(awaiting', acked) THEN "release" ELSE "loop"
      /\ UNCHANGED <<running, failed, offset, journalVars, told>>

\* network_iteration notices that replication failed.
stop ==
  /\ Loop /\ failed
  /\ running' = FALSE
  /\ UNCHANGED <<pc, failed, offset, released, awaiting, subscribers, journalVars,
                 session, told>>
-----------------------------------------------------------------------------
Client(s) ==
  \/ \E k \in 0 .. MaxCommand : \E T \in SUBSET Blocked : dispatch_resp_command(s, k, T)
  \/ \E k \in 0 .. MaxCommand : dispatch_sbe_command(s, k)
  \/ park(s)
  \/ quit(s)

Poll == \E r \in reported .. offset : \E bad \in SUBSET (reported + 1 .. r) :
          poll_kafka_journal(r, bad)

Next ==
  \/ \E s \in Clients : Client(s)
  \/ \E s \in Followers : subscribe(s)
  \/ \E s \in Session : accept(s) \/ write_client(s) \/ disconnect(s)
  \/ \E s \in Session : serve_ready(s) \/ blocked_deadline(s)
  \/ Poll
  \/ release_acknowledged
  \/ stop

Spec == Init /\ [][Next]_vars

\* Every pass of network_iteration polls the journal and offers every connection a
\* write; the brokers answer, and the peers read.
Fairness ==
  /\ WF_vars(poll_kafka_journal(offset, {}))
  /\ WF_vars(release_acknowledged)
  /\ \A s \in Session : WF_vars(write_client(s)) /\ WF_vars(serve_ready(s))
FairSpec == Spec /\ Fairness
-----------------------------------------------------------------------------
(* Properties. *)

Logged(u) == 1 .. u \subseteq durable

\* In broker mode a client has the reply to a journalled write only when the brokers
\* hold every mutation of that command and of every command before it
\* (require_kafka_ack, release_acknowledged, write_client).
ReplyDurable == BrokerAck => \A u \in told \ {Never} : Logged(u)

\* In broker mode a follower has heard, in its hello or in a frame, only of offsets the
\* brokers hold (subscribe, release_acknowledged).
FirehoseDurable == BrokerAck => \A s \in Session : session[s].seen > 0 => Logged(session[s].seen)

\* What a follower has received, with what is queued for it, is one stream without a gap
\* or a repetition, ending at the offset released (subscribe, broadcast, terminate).
HelloOf(ss) ==
  LET hellos == {i \in DOMAIN ss.replies : ss.replies[i].hello >= 0}
  IN  IF hellos = {} THEN ss.seen ELSE ss.replies[CHOOSE i \in hellos : TRUE].hello
StreamContiguous ==
  ~failed => \A s \in subscribers :
    LET ss == session[s]
    IN  /\ \A i \in DOMAIN ss.out :
             ss.out[i].first = (IF i = 1 THEN HelloOf(ss) ELSE ss.out[i - 1].last) + 1
        /\ released = IF ss.out = <<>> THEN HelloOf(ss) ELSE ss.out[Len(ss.out)].last

\* The raw session pointers the runtime keeps, of subscribers and of waiters, belong to
\* open connections (remove, called before every close).
NoDanglingSession ==
  /\ \A s \in subscribers : session[s].status = "open" /\ session[s].firehose
  /\ \A i \in DOMAIN awaiting : \A s \in awaiting[i].waiters : session[s].status = "open"

\* Every reply is written, unless the connection goes or replication fails
\* (release_acknowledged, write_client).
RepliesReleased ==
  \A s \in Session :
    session[s].replies # <<>> ~>
      (session[s].replies = <<>> \/ session[s].status # "open" \/ failed \/ ~running)
=============================================================================
