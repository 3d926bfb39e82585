------------------------------ MODULE Replica ------------------------------
(***************************************************************************)
(* A primary, its Kafka topic and a tree of read-only replicas: start-up   *)
(* from a snapshot and the topic, the hand-off to the firehose, following  *)
(* it, losing it, reconnecting with or without Kafka, and passing it on to *)
(* the replicas below (src/server.cpp: Server::run; src/replication.cpp:   *)
(* apply_firehose_batch; src/replication_follower.cpp; src/kafka_ingest    *)
(* .cpp: KafkaIngestor; src/main.cpp: the start-up positions).             *)
(*                                                                         *)
(* A write is a number, never used twice: hist is the sequence of writes a *)
(* store holds, off the offset it claims for them.  Kafka broker offsets   *)
(* count from 1 here, and 0 is the -1 of the code (none acknowledged);     *)
(* lineage 0 is a store without one (valid is false).                      *)
(***************************************************************************)
EXTENDS Integers, Sequences, SequencesExt

CONSTANTS
  Primary,       \* the node that takes writes
  Followers,     \* the nodes with a --replica-* source
  Upstream,      \* the source of each follower
  Journaled,     \* the followers with --kafka
  Savers,        \* the nodes whose operator takes snapshots
  BrokerAck,     \* --kafka-ack-mode broker
  BufferFrames,  \* --replication-buffer-bytes, in frames
  TimeBuffer,    \* --kafka-time-buffer, in writes
  MaxBatch,      \* bound: mutations of one command
  MaxWrites,     \* bound: mutations ever made
  MaxFaults,     \* bound: crashes, cut connections, refused mutations, stalls
  MaxSaves       \* bound: snapshots taken

ASSUME UpstreamAssumption == Upstream \in [Followers -> Followers \cup {Primary}]
ASSUME NodesAssumption == Primary \notin Followers /\ Journaled \subseteq Followers
ASSUME BoundAssumption == MaxBatch \in Nat \ {0} /\ BufferFrames \in Nat \ {0}

VARIABLES
  node,      \* the state of every process
  file,      \* the snapshot each would load (--load)
  queue,     \* external: the records in the primary's librdkafka queue
  topic,     \* external: the records the brokers hold
  awaiting,  \* awaiting_ack_ of the primary: frames not yet released
  released,  \* released_offset_ of the primary
  writes,    \* writes ever made
  faults,    \* faults so far
  saves,     \* snapshots so far
  lineages   \* replication ids drawn so far

vars == <<node, file, queue, topic, awaiting, released, writes, faults, saves, lineages>>
-----------------------------------------------------------------------------
Nodes == Followers \cup {Primary}
Below(n) == {m \in Followers : Upstream[m] = n}
Status == {"down", "connecting", "reconnecting", "replaying_kafka", "buffering_firehose",
           "live", "degraded"}

\* A firehose batch; End is the terminal error frame, or the end of the connection.
Frame == [first : Nat, muts : Seq(Nat)]
End == [first |-> 0, muts |-> <<>>]
LastOf(b) == b.first + Len(b.muts) - 1
Record == [id : Nat, off : Nat, w : Nat]
\* A snapshot; stamp is its file time, as the writes made before it (-1: no file).
NoFile == [id |-> 0, off |-> 0, hist |-> <<>>, ack |-> 0, stamp |-> -1]
Image == [id : Nat, off : Nat, hist : Seq(Nat), ack : Nat, stamp : Int]

\* boot: the listeners are not open yet.  id .. ack: the store and its ReplicationState;
\* stamp: start_timestamp_ms.  link: there is a
\* ReplicationFollowerRuntime; sub: the upstream still lists it in subscribers_;
\* wire: frames on the way to it; buffered: frames it has set aside; hello: the offset
\* of the hello, recovery_target_offset.  kafka: there is a KafkaIngestor, at next, of
\* a topic that ended before high when it was created.
Stopped ==
  [status |-> "down", boot |-> FALSE,
   id |-> 0, off |-> 0, hist |-> <<>>, ack |-> 0, stamp |-> -1,
   link |-> FALSE, sub |-> FALSE, wire |-> <<>>, buffered |-> <<>>, hello |-> 0,
   kafka |-> FALSE, next |-> 0, high |-> 0]

NodeState ==
  [status : Status, boot : BOOLEAN,
   id : Nat, off : Nat, hist : Seq(Nat), ack : Nat, stamp : Int,
   link : BOOLEAN, sub : BOOLEAN, wire : Seq(Frame), buffered : Seq(Frame), hello : Nat,
   kafka : BOOLEAN, next : Nat, high : Nat]

\* The types, with what bounds them: a queue of frames is at most full, but for the end of
\* its connection; a consumer is never past the topic.
TypeOK ==
  /\ node \in [Nodes -> NodeState] /\ file \in [Nodes -> Image]
  /\ \A n \in Nodes : /\ Len(node[n].wire) <= BufferFrames + 1
                      /\ Len(node[n].buffered) <= BufferFrames
                      /\ node[n].next <= Len(topic) + 1 /\ node[n].ack <= Len(topic)
  /\ queue \in Seq(Record) /\ topic \in Seq(Record) /\ awaiting \in Seq(Frame)
  /\ released \in Nat /\ writes \in Nat /\ faults \in Nat /\ saves \in Nat
  /\ lineages \in Nat

Init ==
  /\ node = [n \in Nodes |-> Stopped]
  /\ file = [n \in Nodes |-> NoFile]
  /\ queue = <<>> /\ topic = <<>> /\ awaiting = <<>> /\ released = 0
  /\ writes = 0 /\ faults = 0 /\ saves = 0 /\ lineages = 0

Fault == faults < MaxFaults /\ faults' = faults + 1
NoFault == UNCHANGED faults
PrimaryOnly == <<file, queue, topic, awaiting, released, writes, saves, lineages>>
-----------------------------------------------------------------------------
(* Firehose output: the subscribers of node n in the state nd of the nodes. *)

terminate(f) ==
  [f EXCEPT !.sub = FALSE, !.wire = Append(IF Len(@) >= BufferFrames THEN <<>> ELSE @, End)]

\* (mutant of SilenceBelow) the subscribers keep waiting for a source that lost its own.
SilenceNone(nd, n) == nd
\* set_firehose_available(false)
SilenceBelow(nd, n) ==
  [m \in Nodes |-> IF m \in Below(n) /\ nd[m].sub THEN terminate(nd[m]) ELSE nd[m]]

\* (mutant of broadcast) no bound on what a subscriber may leave unread.
broadcast_unbounded(nd, n, batch) ==
  [m \in Nodes |->
     IF m \notin Below(n) \/ ~nd[m].sub THEN nd[m] ELSE [nd[m] EXCEPT !.wire = Append(@, batch)]]
broadcast(nd, n, batch) ==
  [m \in Nodes |->
     IF m \notin Below(n) \/ ~nd[m].sub THEN nd[m]
     ELSE IF Len(nd[m].wire) >= BufferFrames THEN terminate(nd[m])
     ELSE [nd[m] EXCEPT !.wire = Append(@, batch)]]

\* The process of node n is gone: what was on the wire to its followers may be cut short.
CutShort(f, cut) ==
  [f EXCEPT !.sub = FALSE, !.wire = Append(SubSeq(@, 1, IF cut < Len(@) THEN cut ELSE Len(@)), End)]
HangUp(nd, n, cut) ==
  [m \in Nodes |-> IF m \in Below(n) /\ nd[m].sub THEN CutShort(nd[m], cut) ELSE nd[m]]
-----------------------------------------------------------------------------
(* The primary. *)

Up == node[Primary].status = "live"

\* ReplicationRuntime::commit: one command, one atomic batch.
Write ==
  /\ Up
  /\ \E k \in 1..MaxBatch :
       LET p == node[Primary]
           new == [i \in 1..k |-> writes + i]
           batch == [first |-> p.off + 1, muts |-> new]
           after == [node EXCEPT ![Primary].off = @ + k, ![Primary].hist = @ \o new]
       IN /\ writes + k <= MaxWrites
          /\ writes' = writes + k
          /\ queue' = queue \o [i \in 1..k |-> [id |-> p.id, off |-> p.off + i, w |-> writes + i]]
          /\ IF BrokerAck
             THEN /\ awaiting' = Append(awaiting, batch)
                  /\ node' = after
                  /\ UNCHANGED released
             ELSE /\ released' = p.off + k
                  /\ node' = broadcast(after, Primary, batch)
                  /\ UNCHANGED awaiting
  /\ UNCHANGED <<file, topic, faults, saves, lineages>>

\* The brokers take a record.
Deliver ==
  /\ Up /\ queue # <<>>
  /\ topic' = Append(topic, Head(queue)) /\ queue' = Tail(queue)
  /\ UNCHANGED <<node, file, awaiting, released, writes, faults, saves, lineages>>

\* poll_kafka_journal and release_acknowledged: reports up to record r have arrived.
PollJournal ==
  /\ Up
  /\ \E r \in node[Primary].ack + 1 .. Len(topic) :
       LET held == SelectSeq(awaiting, LAMBDA b : LastOf(b) > topic[r].off)
           freed == SubSeq(awaiting, 1, Len(awaiting) - Len(held))
       IN /\ node' = FoldLeft(LAMBDA nd, b : broadcast(nd, Primary, b),
                              [node EXCEPT ![Primary].ack = r], freed)
          /\ released' = IF freed = <<>> THEN released ELSE LastOf(freed[Len(freed)])
          /\ awaiting' = held
  /\ UNCHANGED <<file, queue, topic, writes, faults, saves, lineages>>

\* What is queued in the process is lost with it.
CrashPrimary ==
  /\ Up /\ Fault
  /\ \E cut \in 0..BufferFrames :
       node' = [HangUp(node, Primary, cut) EXCEPT ![Primary] = Stopped]
  /\ queue' = <<>> /\ awaiting' = <<>> /\ released' = 0
  /\ UNCHANGED <<file, topic, writes, saves, lineages>>
-----------------------------------------------------------------------------
(* KafkaIngestor, in the process state f. *)

\* handle_message and apply_kafka_replication_record: a record of another lineage or at
\* an offset the store has is skipped; any later offset is taken.
handle_message(f, i) ==
  LET r == topic[i]
      read == [f EXCEPT !.ack = i, !.next = i + 1]
  IN IF f.id # 0 /\ (r.id # f.id \/ r.off <= f.off) THEN read
     ELSE [read EXCEPT !.id = r.id, !.off = r.off, !.hist = Append(@, r.w)]

\* connect: from the acknowledged record, included; for a snapshot without one from its
\* file time; else from the first record.
StartOf(f) ==
  IF f.ack # 0 THEN f.ack
  ELSE IF f.stamp < 0 THEN 1
  ELSE 1 + Len(SelectSeq(topic, LAMBDA r : r.w <= f.stamp - TimeBuffer))

Ingest(f) == [f EXCEPT !.kafka = TRUE, !.next = StartOf(f), !.high = Len(topic) + 1]
\* (mutant of startup_complete) waits for the record after the last one.
startup_passed(f) == f.next > f.high
startup_complete(f) == f.next >= f.high

\* --load
Loaded(n) ==
  [Stopped EXCEPT !.id = file[n].id, !.off = file[n].off, !.hist = file[n].hist,
                  !.ack = file[n].ack, !.stamp = file[n].stamp]

\* main and Server::run on the primary: the snapshot, then the topic to its end; an
\* empty store draws a new lineage.
StartPrimary ==
  /\ ~Up
  /\ LET old == Ingest(Loaded(Primary))
         f == FoldLeft(handle_message, old, [i \in 1..(Len(topic) + 1 - old.next) |->
                                               old.next + i - 1])
         id == IF f.id = 0 THEN lineages + 1 ELSE f.id
     IN /\ node' = [node EXCEPT ![Primary] =
                      [Loaded(Primary) EXCEPT !.status = "live", !.id = id, !.off = f.off,
                                              !.hist = f.hist, !.ack = f.ack]]
        /\ lineages' = IF f.id = 0 THEN id ELSE lineages
        /\ released' = f.off
  /\ UNCHANGED <<file, queue, topic, awaiting, writes, faults, saves>>
-----------------------------------------------------------------------------
(* A follower: the pieces of its connection. *)

Drop(f) ==
  [f EXCEPT !.link = FALSE, !.sub = FALSE, !.wire = <<>>, !.buffered = <<>>, !.hello = 0,
            !.kafka = FALSE, !.next = 0, !.high = 0]

\* mark_replica_unavailable
mark_replica_unavailable(nd, n, status) ==
  SilenceBelow([nd EXCEPT ![n] = [Drop(nd[n]) EXCEPT !.status = status]], n)

\* The process exits during start-up, before it has any follower.
Exit(nd, n) == [nd EXCEPT ![n] = Stopped]

\* The constructor of ReplicationFollowerRuntime: the source takes the subscription only
\* while it is live; on a primary that waits for acknowledgements the hello is at the
\* released offset.
Serving(u) == node[u].status = "live"
HelloOffset(u) == IF u = Primary /\ BrokerAck THEN released ELSE node[u].off

\* A hello of another lineage is turned down; a store without one takes it, and forgets
\* its Kafka position.
Foreign(f, u) == f.id # 0 /\ f.id # node[u].id
Adopted(f, u) ==
  IF f.id # 0 THEN f ELSE [f EXCEPT !.id = node[u].id, !.off = 0, !.ack = 0]
Linked(f, u) ==
  [f EXCEPT !.link = TRUE, !.sub = TRUE, !.wire = <<>>, !.hello = HelloOffset(u)]

\* buffer_available: set aside every frame that has arrived.
buffer_available(f) ==
  End \notin Range(f.wire) /\ Len(f.buffered) + Len(f.wire) <= BufferFrames
Buffered(f) == [f EXCEPT !.buffered = @ \o f.wire, !.wire = <<>>]

\* try_next: frames set aside come first.
Pending(f) == f.buffered \o f.wire
Popped(f) ==
  IF f.buffered # <<>> THEN [f EXCEPT !.buffered = Tail(@)] ELSE [f EXCEPT !.wire = Tail(@)]

\* apply_firehose_batch: the store after the first k mutations of the batch; those it
\* has are skipped.
Gap(f, b) == b.first > f.off + 1
\* (mutant of Applied) the overlap with what the store has is applied again.
AppliedWhole(f, b, k) ==
  [f EXCEPT !.off = b.first + k - 1, !.hist = @ \o SubSeq(b.muts, 1, k)]
Applied(f, b, k) ==
  LET have == f.off - b.first + 1
  IN IF k <= have THEN f
     ELSE [f EXCEPT !.off = b.first + k - 1, !.hist = @ \o SubSeq(b.muts, have + 1, k)]
-----------------------------------------------------------------------------
(* A follower: start-up (boot), before its loop runs. *)

Step(n) == n \in Followers /\ UNCHANGED PrimaryOnly

\* The firehose is connected first, so that its frames are kept from the hello on; then
\* the Kafka consumer, if there is one and the brokers answer.
Start(n) ==
  /\ Step(n) /\ node[n].status = "down"
  /\ LET u == Upstream[n]
         f == [Loaded(n) EXCEPT !.boot = TRUE]
         g == IF ~Serving(u) THEN [f EXCEPT !.status = "reconnecting"]
              ELSE IF Foreign(f, u) THEN [f EXCEPT !.status = "degraded"]
              ELSE [Linked(Adopted(f, u), u) EXCEPT !.status = "connecting"]
     IN \/ /\ n \in Journaled /\ NoFault
           /\ node' = [node EXCEPT ![n] = Ingest(g)]
        \/ /\ IF n \in Journaled THEN Fault ELSE NoFault
           /\ node' = [node EXCEPT ![n] =
                IF g.link /\ g.off = g.hello THEN g
                ELSE IF g.link THEN [Drop(g) EXCEPT !.status = "degraded", !.boot = FALSE]
                ELSE [g EXCEPT !.boot = FALSE]]

\* Where start-up is: replaying the topic as it was, then on to the hello, then handing
\* off to the firehose.
CatchingUp(f) == f.boot /\ f.kafka /\ ~startup_complete(f)
Reaching(f) == f.boot /\ f.kafka /\ startup_complete(f) /\ f.link /\ f.off < f.hello
HandingOff(f) == f.status = "buffering_firehose" \/ (f.boot /\ f.link /\ ~f.kafka)
Replaying(f) == ~f.boot /\ f.status = "replaying_kafka"

\* Kafka or the connection fails: the replay is given up, start-up is given up, or the
\* replica tries again later.
Failed(nd, n, status) ==
  IF CatchingUp(nd[n]) THEN [nd EXCEPT ![n] = [Drop(@) EXCEPT !.status = "degraded", !.boot = FALSE]]
  ELSE IF nd[n].boot THEN Exit(nd, n)
  ELSE mark_replica_unavailable(nd, n, status)

\* The topic is replayed and there is no connection: open the listeners.  A store that is
\* still without a lineage draws one of its own.
OpenUnready(n) ==
  /\ n \in Followers /\ NoFault
  /\ node[n].boot /\ node[n].kafka /\ startup_complete(node[n]) /\ ~node[n].link
  /\ LET id == IF node[n].id = 0 THEN lineages + 1 ELSE node[n].id
     IN /\ node' = [node EXCEPT ![n] = [Drop(@) EXCEPT !.boot = FALSE, !.id = id]]
        /\ lineages' = IF node[n].id = 0 THEN id ELSE lineages
  /\ UNCHANGED <<file, queue, topic, awaiting, released, writes, saves>>
-----------------------------------------------------------------------------
(* A follower: Kafka, at start-up and in recovery. *)

\* One record of the consumer; a record the store refuses ends the replay.
Consume(n) ==
  /\ Step(n)
  /\ LET f == node[n]
     IN /\ CatchingUp(f) \/ Reaching(f) \/ Replaying(f)
        /\ f.next <= Len(topic)
        /\ \/ NoFault /\ node' = [node EXCEPT ![n] = handle_message(f, f.next)]
           \/ /\ handle_message(f, f.next).hist # f.hist /\ Fault
              /\ node' = Failed(node, n, "degraded")

\* Firehose frames are set aside meanwhile.
Buffer(n) ==
  /\ Step(n) /\ NoFault
  /\ LET f == node[n]
     IN /\ f.link /\ f.wire # <<>>
        /\ CatchingUp(f) \/ Reaching(f) \/ Replaying(f)
        /\ node' = IF buffer_available(f) THEN [node EXCEPT ![n] = Buffered(f)]
                   ELSE Failed(node, n, "reconnecting")

\* Thirty seconds without progress.
Stall(n) ==
  /\ Step(n) /\ Fault
  /\ LET f == node[n]
     IN \/ CatchingUp(f) \/ Reaching(f)
        \/ Replaying(f) /\ ~(startup_complete(f) /\ f.off >= f.hello)
  /\ node' = Failed(node, n, "degraded")

\* The topic has been read past the hello: finish_replica_handoff, or its start-up twin.
Reached(n) ==
  /\ Step(n) /\ NoFault
  /\ LET f == node[n]
     IN /\ f.kafka /\ f.link /\ startup_complete(f) /\ f.off >= f.hello
        /\ f.boot \/ Replaying(f)
        /\ node' = IF ~buffer_available(f) THEN Failed(node, n, "reconnecting")
                   ELSE [node EXCEPT ![n] =
                           [Buffered(f) EXCEPT
                              !.kafka = FALSE, !.next = 0, !.high = 0,
                              !.status = IF f.boot THEN @ ELSE "buffering_firehose"]]
-----------------------------------------------------------------------------
(* A follower: the firehose. *)

\* One frame, in the hand-off loop or in replica_iteration.  A frame that does not follow
\* on, or holds a mutation the store refuses, makes the replica unavailable; what was
\* applied before stays.
Receive(n) ==
  /\ Step(n)
  /\ LET f == node[n]
         b == Head(Pending(f))
         whole == Applied(Popped(f), b, Len(b.muts))
     IN /\ HandingOff(f) \/ f.status = "live"
        /\ Pending(f) # <<>>
        /\ \/ /\ NoFault /\ (b = End \/ Gap(f, b))
              /\ node' = Failed(node, n, IF b = End THEN "reconnecting" ELSE "degraded")
           \/ /\ NoFault /\ b # End /\ ~Gap(f, b)
              /\ node' = IF whole.off > f.off
                         THEN broadcast([node EXCEPT ![n] = whole], n, b)
                         ELSE [node EXCEPT ![n] = whole]
           \/ /\ b # End /\ ~Gap(f, b) /\ whole.off > f.off /\ Fault
              /\ \E k \in 0..Len(b.muts) - 1 :
                   /\ k >= f.off - b.first + 1
                   /\ node' = Failed([node EXCEPT ![n] = Applied(f, b, k)], n, "degraded")

\* Nothing left to apply: the replica is ready.
GoLive(n) ==
  /\ Step(n) /\ NoFault
  /\ HandingOff(node[n]) /\ Pending(node[n]) = <<>>
  /\ node' = [node EXCEPT ![n].status = "live", ![n].boot = FALSE]

\* begin_replica_reconnect, each time the back-off has passed.
Reconnect(n) ==
  /\ Step(n)
  /\ ~node[n].boot /\ node[n].status \in {"reconnecting", "degraded"}
  /\ LET u == Upstream[n]
         f == Adopted(node[n], u)
         g == Linked(f, u)
         Refused == Foreign(node[n], u)
         Bridge == Serving(u) /\ ~Refused /\ g.hello > f.off /\ n \in Journaled
     IN \/ /\ NoFault
           /\ node' = [node EXCEPT ![n] =
                IF ~Serving(u) THEN [@ EXCEPT !.status = "reconnecting"]
                ELSE IF Refused THEN [@ EXCEPT !.status = "degraded"]
                ELSE IF g.hello = f.off THEN [g EXCEPT !.status = "buffering_firehose"]
                ELSE IF Bridge THEN [Ingest(g) EXCEPT !.status = "replaying_kafka"]
                ELSE [f EXCEPT !.status = "degraded"]]
        \/ /\ Bridge /\ Fault
           /\ node' = [node EXCEPT ![n] = [f EXCEPT !.status = "degraded"]]
-----------------------------------------------------------------------------
(* Faults and snapshots. *)

\* The connection to the source breaks; frames not received yet may be lost with it.
Cut(n) ==
  /\ Step(n) /\ node[n].sub /\ Fault
  /\ \E cut \in 0..Len(node[n].wire) :
       node' = [node EXCEPT ![n] = CutShort(@, cut)]

Crash(n) ==
  /\ Step(n) /\ node[n].status # "down" /\ Fault
  /\ \E cut \in 0..BufferFrames :
       node' = [HangUp(node, n, cut) EXCEPT ![n] = Stopped]

\* SAVE: the store as it is, acknowledged or not.
Save(n) ==
  /\ n \in Savers /\ saves < MaxSaves
  /\ node[n].status \notin {"down", "buffering_firehose"} /\ ~node[n].boot
  /\ file' = [file EXCEPT ![n] = [id |-> node[n].id, off |-> node[n].off, hist |-> node[n].hist,
                                  ack |-> node[n].ack, stamp |-> writes]]
  /\ saves' = saves + 1
  /\ UNCHANGED <<node, queue, topic, awaiting, released, writes, faults, lineages>>
-----------------------------------------------------------------------------
Work(n) ==
  OpenUnready(n) \/ Consume(n) \/ Buffer(n) \/ Reached(n) \/ Receive(n) \/ GoLive(n)
    \/ Reconnect(n)

Next ==
  \/ Write \/ Deliver \/ PollJournal \/ CrashPrimary \/ StartPrimary
  \/ \E n \in Followers : Start(n) \/ Work(n) \/ Stall(n) \/ Cut(n) \/ Crash(n)
  \/ \E n \in Nodes : Save(n)

\* The loop of a running server goes round, and the brokers answer; nothing says that a
\* process that stopped is started again.
Fairness ==
  /\ WF_vars(Deliver) /\ WF_vars(PollJournal)
  /\ \A n \in Followers : WF_vars(NoFault /\ Work(n))
Spec == Init /\ [][Next]_vars /\ Fairness
-----------------------------------------------------------------------------
(* What the primary recovers to if it stops now, when it keeps no snapshot. *)
Durable == [i \in DOMAIN topic |-> topic[i].w]

\* In broker mode a replica never holds a write the brokers do not: what it has applied,
\* from Kafka and from the firehose, across overlaps, lost connections, refused mutations
\* and restarts of either side, is a gapless prefix of the topic, each write once and in
\* order, and its offset says how long it is.
FollowerPrefix ==
  \A n \in Followers :
    (\A i \in DOMAIN topic : topic[i].id = node[n].id) =>
      IsPrefix(node[n].hist, Durable) /\ node[n].off = Len(node[n].hist)

\* While a replica is live on a connection its source has not given up, the frames on
\* their way take it exactly to what the source has released, with no gap on the way:
\* also when the source is a replica that was itself reconnected or replayed Kafka.
ReachedBy(f, i) ==   \* the offset after the first i frames on the wire
  IF i = 0 \/ LastOf(f.wire[i]) < f.off THEN f.off ELSE LastOf(f.wire[i])

NothingMissed ==
  \A n \in Followers :
    node[n].status = "live" /\ node[n].sub =>
      LET f == node[n]
          u == Upstream[n]
      IN /\ Serving(u) /\ ReachedBy(f, Len(f.wire)) >= HelloOffset(u)
         /\ \A i \in DOMAIN f.wire : f.wire[i].first <= ReachedBy(f, i - 1) + 1

\* A live replica of a running primary holds a prefix of what the primary holds.
LiveAgrees ==
  \A n \in Followers :
    Up /\ node[n].status = "live" /\ node[n].sub =>
      IsPrefix(node[n].hist, node[Primary].hist)

\* Once no process stops any more and the lineages agree, every replica with Kafka ends
\* up live, with everything the primary holds.
AllUp == Up /\ \A n \in Followers : node[n].status # "down"
OneLineage == \A n \in Followers : node[n].id \in {0, node[Primary].id}
CaughtUp ==
  \A n \in Journaled : node[n].status = "live" /\ node[n].hist = node[Primary].hist
CatchesUp == <>[](AllUp /\ OneLineage) => <>[]CaughtUp
=============================================================================
