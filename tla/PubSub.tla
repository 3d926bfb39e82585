------------------------------- MODULE PubSub -------------------------------
(***************************************************************************)
(* Publish/subscribe over sockets: the registry of subscriptions            *)
(* (PubSubRegistry, src/pubsub.cpp), the byte ring that holds the messages  *)
(* a client has not read yet (UnsolicitedOutputQueue), and the code of      *)
(* src/server.cpp that merges them with the replies of the client's own     *)
(* commands and hands both to a socket that takes a few bytes at a time.    *)
(*                                                                          *)
(* A byte is identified by the output it belongs to, that output's length   *)
(* and its place in it.  Names of channels and of patterns are distinct     *)
(* values: the code keeps them in tables of their own.                      *)
(***************************************************************************)
EXTENDS Naturals, FiniteSetsExt, SequencesExt

CONSTANTS Session,      \* client connections
          Resp2,        \* the sessions that speak RESP2, the others RESP3 or SBE
          Channel, Pattern,
          Matches,      \* Pattern -> SUBSET Channel, the glob matcher
          Capacity,     \* bytes of a session's ring
          Header,       \* kRecordHeaderBytes
          Marker,       \* sizeof(kWrapRecord)
          Lengths,      \* bytes of a message
          Overhead,     \* Session -> what a session's protocol adds to a message
          ReplyBytes,   \* bytes of a serialized reply
          CompactThreshold,
          MaxOutputs,   \* bound: Session -> outputs made for one connection
          MaxWrite      \* bound: bytes a socket takes at once

ASSUME PubSubAssumption ==
  /\ Resp2 \subseteq Session /\ Channel \cap Pattern = {}
  /\ Marker <= Header /\ Header < Capacity /\ ReplyBytes > 0 /\ 0 \notin Lengths

Name == Channel \cup Pattern
Of(patterns) == IF patterns THEN Pattern ELSE Channel

VARIABLES session,          \* EndpointSession of each connection
          subscribers,      \* channels_ and patterns_; an absent entry is the empty set
          pattern_publish,  \* the patterns PUBLISH walks through, in order
          client            \* what each client asked for and has received

vars == <<session, subscribers, pattern_publish, client>>
-----------------------------------------------------------------------------
(* UnsolicitedOutputQueue: records of a header and a payload in a ring of bytes. *)

NoByte == [seq |-> 0, len |-> 0, at |-> 0]
Wrap == [seq |-> 0, len |-> Capacity + 1, at |-> 0]
Empty == [data |-> [o \in 0 .. Capacity - 1 |-> NoByte], read |-> 0, write |-> 0, used |-> 0]

wraps_into(q, record) ==
  /\ Capacity - q.used >= Capacity - q.write + record
  /\ q.read >= record

fits(q, record) ==
  /\ Capacity - q.used >= record
  /\ IF q.write >= q.read THEN Capacity - q.write >= record \/ wraps_into(q, record)
     ELSE q.read - q.write >= record

\* The tail that is too short for a record is marked, if the marker fits, and counted.
\* (mutant of skip_tail) it is not counted.
skip_tail_uncounted(q, record) ==
  IF q.write < q.read \/ Capacity - q.write >= record THEN q
  ELSE [q EXCEPT !.data = [o \in DOMAIN @ |->
                             IF o = q.write /\ Capacity - o >= Marker THEN Wrap ELSE @[o]],
                 !.write = 0]
skip_tail(q, record) ==
  IF q.write < q.read \/ Capacity - q.write >= record THEN q
  ELSE [q EXCEPT !.data = [o \in DOMAIN @ |->
                             IF o = q.write /\ Capacity - o >= Marker THEN Wrap ELSE @[o]],
                 !.used = @ + (Capacity - q.write),
                 !.write = 0]

rewind(q) == IF q.used = 0 THEN [q EXCEPT !.read = 0, !.write = 0] ELSE q

\* push, when fits(rewind(q), Header + len).
push(q, seq, len) ==
  LET record == Header + len
      r == skip_tail(rewind(q), record)
  IN  [data |-> [o \in DOMAIN r.data |->
                   IF o \in r.write .. r.write + record - 1
                   THEN [seq |-> seq, len |-> len, at |-> o - r.write] ELSE r.data[o]],
       read |-> r.read,
       write |-> (r.write + record) % Capacity,
       used |-> r.used + record]

\* The loop turns at most once: no record is skipped at offset 0.
\* (mutant of normalize_head) the bytes skipped at the end of the ring stay counted.
normalize_head_uncounted(q) ==
  IF q.used # 0 /\ (Capacity - q.read < Marker \/ q.data[q.read] = Wrap)
  THEN [q EXCEPT !.data[q.read] = NoByte, !.read = 0]
  ELSE q
normalize_head(q) ==
  IF q.used # 0 /\ (Capacity - q.read < Marker \/ q.data[q.read] = Wrap)
  THEN [q EXCEPT !.data[q.read] = NoByte, !.used = @ - (Capacity - q.read), !.read = 0]
  ELSE q

\* Bytes that have been taken hold nothing the code may rely on.
pop_front(q, len) ==
  rewind([q EXCEPT !.data = [o \in DOMAIN @ |->
                               IF o \in q.read .. q.read + Header + len - 1 THEN NoByte ELSE @[o]],
                   !.read = (@ + Header + len) % Capacity,
                   !.used = @ - (Header + len)])

clear(q) == Empty
-----------------------------------------------------------------------------
(* A session's output: replies in a buffer, messages in the ring, one numbering for both. *)

NoFront == [seq |-> 0, start |-> 0, len |-> 0, offset |-> 0]

\* names: channel_names and pattern_names; count: literal_subscriptions and
\* pattern_subscriptions; front: the cached head and unsolicited_front_offset; index: the
\* replies that are wholly sent; stream: GOBLIN.FIREHOSE or GOBLIN.DUMPWORLD took over.
Fresh == [open |-> TRUE, stream |-> FALSE, close_requested |-> FALSE,
          names |-> [patterns \in BOOLEAN |-> <<>>], count |-> [patterns \in BOOLEAN |-> 0],
          queue |-> Empty, front |-> NoFront, next |-> 1,
          output |-> <<>>, output_offset |-> 0, replies |-> <<>>, index |-> 0]
Closed == [Fresh EXCEPT !.open = FALSE]

subscription_count(st) == st.count[FALSE] + st.count[TRUE]

\* record_reply, after the command has appended its reply; held: until Kafka has it.
record_reply(st, held) ==
  [st EXCEPT
     !.output = @ \o [i \in 1 .. ReplyBytes |-> [seq |-> st.next, len |-> ReplyBytes, at |-> i]],
     !.replies = Append(@, [seq |-> st.next, end |-> Len(st.output) + ReplyBytes, held |-> held]),
     !.next = @ + 1]

\* (mutant of enqueue) a message that does not fit is dropped.
enqueue_or_drop(st, len) ==
  IF fits(rewind(st.queue), Header + len)
  THEN [st EXCEPT !.queue = push(@, st.next, len), !.next = @ + 1] ELSE st
enqueue(st, len) ==
  IF fits(rewind(st.queue), Header + len)
  THEN [st EXCEPT !.queue = push(@, st.next, len), !.next = @ + 1]
  ELSE [st EXCEPT !.close_requested = TRUE]

compact_output_if_needed(st) ==
  IF st.output_offset = 0 THEN st
  ELSE IF st.output_offset >= Len(st.output)
       THEN [st EXCEPT !.output = <<>>, !.output_offset = 0, !.replies = <<>>, !.index = 0]
  ELSE IF /\ st.output_offset >= CompactThreshold
          /\ st.output_offset >= Len(st.output) - st.output_offset
       THEN [st EXCEPT !.output = SubSeq(@, st.output_offset + 1, Len(@)),
                       !.replies = [i \in 1 .. Len(@) - st.index |->
                                      [@[st.index + i] EXCEPT !.end = @ - st.output_offset]],
                       !.index = 0, !.output_offset = 0]
  ELSE st

\* The head of the ring is looked up once and its place kept while it is sent in parts.
peek_unsolicited(st) ==
  LET q == normalize_head(st.queue)
      head == q.data[q.read]
  IN  IF st.front # NoFront THEN st
      ELSE IF q.used = 0 THEN [st EXCEPT !.queue = q]
      ELSE [st EXCEPT !.queue = q,
                      !.front = [seq |-> head.seq, start |-> q.read + Header,
                                 len |-> head.len, offset |-> 0]]

pending_regular(st) == st.index < Len(st.replies)
ready_regular(st) == pending_regular(st) /\ ~st.replies[st.index + 1].held

\* (mutant of write_push) a message goes first whenever there is one.
write_push_first(st) == st.front # NoFront
write_push(st) ==
  /\ st.front # NoFront
  /\ pending_regular(st) => st.front.seq < st.replies[st.index + 1].seq

\* (mutant of has_writable_output) a held reply stops the messages made before it.
replies_first(st) == IF pending_regular(st) THEN ready_regular(st) ELSE write_push(st)
has_writable_output(st) == write_push(st) \/ ready_regular(st)

\* The replies that go in one write: the ready ones before the message at the head.
last_reply(st) ==
  Max({i \in st.index + 1 .. Len(st.replies) :
         \A j \in st.index + 2 .. i :
           ~st.replies[j].held /\ (st.front = NoFront \/ st.replies[j].seq < st.front.seq)})

\* What write_client offers to the socket.
offered(st) ==
  IF write_push(st)
  THEN [i \in 1 .. st.front.len - st.front.offset |->
          LET b == st.queue.data[st.front.start + st.front.offset + i - 1]
          IN  [b EXCEPT !.at = @ - Header + 1]]
  ELSE SubSeq(st.output, st.output_offset + 1, st.replies[last_reply(st)].end)

\* The socket took n bytes.
sent(st, n) ==
  IF write_push(st)
  THEN IF st.front.offset + n = st.front.len
       THEN [st EXCEPT !.queue = pop_front(@, st.front.len), !.front = NoFront]
       ELSE [st EXCEPT !.front.offset = @ + n]
  ELSE [st EXCEPT !.output_offset = @ + n,
                  !.index = @ + Cardinality({i \in @ + 1 .. Len(st.replies) :
                                               st.output_offset + n >= st.replies[i].end})]
-----------------------------------------------------------------------------
(* PubSubRegistry.  w: the sessions, the subscriptions and the order of the patterns. *)

World == [session |-> session, subscribers |-> subscribers, pattern_publish |-> pattern_publish]

\* erase_name and erase_pattern_publish_entry: the last element fills the gap.
swap_remove(seq, x) ==
  IF \A i \in 1 .. Len(seq) : seq[i] # x THEN seq
  ELSE LET i == Min({j \in 1 .. Len(seq) : seq[j] = x})
       IN  Front([seq EXCEPT ![i] = seq[Len(seq)]])

\* One turn of the loop of subscribe.
subscribe_one(w, s, patterns, name) ==
  LET listed == IF patterns /\ w.subscribers[name] = {}
                THEN [w EXCEPT !.pattern_publish = Append(@, name)] ELSE w
  IN  IF s \in w.subscribers[name] THEN listed
      ELSE [listed EXCEPT !.subscribers[name] = @ \cup {s},
                          !.session[s].count[patterns] = @ + 1,
                          !.session[s].names[patterns] = Append(@, name)]

\* The session leaves one subscriber set, and an empty set goes with its pattern.
\* (mutant of leave) the pattern's entry for PUBLISH stays.
leave_listed(w, s, patterns, name) ==
  IF s \notin w.subscribers[name] THEN w
  ELSE [w EXCEPT !.subscribers[name] = @ \ {s}, !.session[s].count[patterns] = @ - 1]
leave(w, s, patterns, name) ==
  IF s \notin w.subscribers[name] THEN w
  ELSE [w EXCEPT !.subscribers[name] = @ \ {s},
                 !.session[s].count[patterns] = @ - 1,
                 !.pattern_publish = IF patterns /\ w.subscribers[name] = {s}
                                     THEN swap_remove(@, name) ELSE @]

unsubscribe_one(w, s, patterns, name) ==
  LET left == leave(w, s, patterns, name)
  IN  IF s \notin w.subscribers[name] THEN left
      ELSE [left EXCEPT !.session[s].names[patterns] = swap_remove(@, name)]

\* UNSUBSCRIBE without names works through the reverse index and then drops it.
unsubscribe_all(w, s, patterns) ==
  [FoldLeft(LAMBDA v, name : leave(v, s, patterns, name), w, w.session[s].names[patterns])
     EXCEPT !.session[s].names[patterns] = <<>>]

unsubscribe(w, s, patterns, names) ==
  IF names = <<>> THEN unsubscribe_all(w, s, patterns)
  ELSE FoldLeft(LAMBDA v, name : unsubscribe_one(v, s, patterns, name), w, names)

subscribe(w, s, patterns, names) ==
  FoldLeft(LAMBDA v, name : subscribe_one(v, s, patterns, name), w, names)

\* A session leaves the registry and loses the messages it has not been sent.
\* (mutant of remove) only the literal subscriptions are given up.
remove_literal(w, s) ==
  LET left == FoldLeft(LAMBDA v, name : leave(v, s, FALSE, name), w, w.session[s].names[FALSE])
  IN  [left EXCEPT !.session[s].names = Fresh.names, !.session[s].count = Fresh.count,
                   !.session[s].queue = clear(@), !.session[s].front = NoFront]
remove(w, s) ==
  LET literal == FoldLeft(LAMBDA v, name : leave(v, s, FALSE, name), w, w.session[s].names[FALSE])
      left == FoldLeft(LAMBDA v, name : leave(v, s, TRUE, name), literal, w.session[s].names[TRUE])
  IN  [left EXCEPT !.session[s].names = Fresh.names, !.session[s].count = Fresh.count,
                   !.session[s].queue = clear(@), !.session[s].front = NoFront]

\* The frames one publication makes for a session, in order: deliver_to_set for the channel,
\* then for each matching pattern, whose frame also names the pattern.
frames(w, s, channel, len) ==
  LET heard == SelectSeq(w.pattern_publish,
                         LAMBDA n : channel \in Matches[n] /\ s \in w.subscribers[n])
  IN  (IF s \in w.subscribers[channel] THEN <<len + Overhead[s]>> ELSE <<>>)
      \o [i \in DOMAIN heard |-> len + Overhead[s] + 1]

\* PUBLISH: every session gets its frames; then cleanup_overflowed removes the ones that
\* could not take one, which were not already on their way out.
publish(w, channel, len) ==
  LET delivered == [w EXCEPT !.session =
                      [s \in Session |-> FoldLeft(enqueue, @[s], frames(w, s, channel, len))]]
      overflowed == {s \in Session : delivered.session[s].close_requested
                                     /\ ~w.session[s].close_requested}
  IN  FoldLeft(remove, delivered, SetToSeq(overflowed))
-----------------------------------------------------------------------------
(* The server's loop. *)

\* wanted: the subscriptions the client has asked for; due: the outputs it is owed since it
\* connected; seq, at: the output and the byte it expects next; torn: it got another one;
\* gave_up: it has asked for a stream.
Caller == [wanted |-> {}, due |-> 0, seq |-> 1, at |-> 1, torn |-> FALSE, gave_up |-> FALSE]

receive(c, byte) ==
  IF c.torn \/ byte.seq # c.seq \/ byte.at # c.at THEN [c EXCEPT !.torn = TRUE]
  ELSE IF byte.at = byte.len THEN [c EXCEPT !.seq = @ + 1, !.at = 1]
  ELSE [c EXCEPT !.at = @ + 1]

Init ==
  /\ session = [s \in Session |-> Closed]
  /\ subscribers = [n \in Name |-> {}]
  /\ pattern_publish = <<>>
  /\ client = [s \in Session |-> Caller]

accept_client(s) ==
  /\ ~session[s].open
  /\ session' = [session EXCEPT ![s] = Fresh]
  /\ client' = [client EXCEPT ![s] = Caller]
  /\ UNCHANGED <<subscribers, pattern_publish>>

\* process_buffered_commands compacts the output before it dispatches a command.
Dispatches(s) == session[s].open /\ ~session[s].stream /\ session[s].next <= MaxOutputs[s]
Compacted(s) == [World EXCEPT !.session[s] = compact_output_if_needed(@)]
refused(s) == s \in Resp2 /\ subscription_count(session[s]) # 0

Becomes(w) ==
  /\ session' = w.session /\ subscribers' = w.subscribers /\ pattern_publish' = w.pattern_publish
  /\ \A s \in Session : w.session[s].next <= MaxOutputs[s] + 1

Replies(w, s, held) == Becomes([w EXCEPT !.session[s] = record_reply(@, held)])

subscribe_command(s, patterns, names) ==
  /\ Dispatches(s) /\ names # <<>>
  /\ Replies(subscribe(Compacted(s), s, patterns, names), s, FALSE)
  /\ client' = [client EXCEPT ![s].wanted = @ \cup ToSet(names), ![s].due = @ + 1]

unsubscribe_command(s, patterns, names) ==
  /\ Dispatches(s)
  /\ Replies(unsubscribe(Compacted(s), s, patterns, names), s, FALSE)
  /\ client' = [client EXCEPT ![s].wanted = @ \ (IF names = <<>> THEN Of(patterns) ELSE ToSet(names)),
                              ![s].due = @ + 1]

\* The messages a publication owes to a client.
Owed(c, channel) ==
  Cardinality({n \in c.wanted : IF n \in Pattern THEN channel \in Matches[n] ELSE n = channel})
Owing(channel) ==
  [s \in Session |-> IF session[s].close_requested THEN client[s]
                     ELSE [client[s] EXCEPT !.due = @ + Owed(client[s], channel)]]

publish_command(s, channel, len) ==
  /\ Dispatches(s) /\ ~refused(s)
  /\ Replies(publish(Compacted(s), channel, len), s, FALSE)
  /\ client' = [Owing(channel) EXCEPT ![s].due = @ + 1]

\* A publication that answers no client here: rebroadcast_one.
rebroadcast_one(channel, len) ==
  /\ Becomes(publish(World, channel, len))
  /\ client' = Owing(channel)

\* Any other command, or one refused; the reply of a write is held until Kafka has it.
other_command(s, held) ==
  /\ Dispatches(s) /\ (held => ~refused(s))
  /\ Replies(Compacted(s), s, held)
  /\ client' = [client EXCEPT ![s].due = @ + 1]

\* GOBLIN.FIREHOSE and GOBLIN.DUMPWORLD: the session leaves Pub/Sub, with what it has not
\* been sent, before the stream is started or turns out to be unavailable.
stream_command(s, started) ==
  /\ Dispatches(s) /\ ~refused(s)
  /\ Replies([remove(Compacted(s), s) EXCEPT !.session[s].stream = started], s, FALSE)
  /\ client' = [client EXCEPT ![s].wanted = {}, ![s].due = @ + 1, ![s].gave_up = TRUE]

release_kafka_ack(s) ==
  LET held == {i \in 1 .. Len(session[s].replies) : session[s].replies[i].held}
  IN  /\ held # {}
      /\ session' = [session EXCEPT ![s].replies[Min(held)].held = FALSE]
      /\ UNCHANGED <<subscribers, pattern_publish, client>>

\* network_iteration finds nothing it may write: a held reply is first.
holds_back(s) ==
  LET st == peek_unsolicited(session[s])
  IN  /\ st.open /\ ~st.close_requested
      /\ ~has_writable_output(st)
      /\ session' = [session EXCEPT ![s] = st]
      /\ UNCHANGED <<subscribers, pattern_publish, client>>

\* One turn of write_client's loop: the socket takes n of the bytes, and then it would block
\* or the loop goes on.  The loop ends when the socket blocks or nothing is left.
write_client(s, n, blocks) ==
  LET st == peek_unsolicited(session[s])
      bytes == offered(st)
      next == peek_unsolicited(sent(st, n))
  IN  /\ st.open /\ ~st.close_requested
      /\ has_writable_output(st)
      /\ n <= Len(bytes) /\ (n > 0 \/ blocks)
      /\ session' = [session EXCEPT ![s] =
                       IF blocks THEN compact_output_if_needed(IF n = 0 THEN st ELSE sent(st, n))
                       ELSE IF ~has_writable_output(next) THEN compact_output_if_needed(next)
                       ELSE next]
      /\ client' = [client EXCEPT ![s] = FoldLeft(receive, @, SubSeq(bytes, 1, n))]
      /\ UNCHANGED <<subscribers, pattern_publish>>

\* The client has gone, or a message did not fit: the session leaves the registry before it
\* is freed.
close_client(s) ==
  /\ session[s].open
  /\ Becomes([remove(World, s) EXCEPT !.session[s] = Closed])
  /\ client' = [client EXCEPT ![s] = Caller]

Requests(patterns) == {<<>>} \cup {<<n>> : n \in Of(patterns)} \cup {<<n, n>> : n \in Of(patterns)}

Next ==
  \/ \E s \in Session :
       \/ accept_client(s) \/ close_client(s) \/ release_kafka_ack(s)
       \/ \E patterns \in BOOLEAN : \E names \in Requests(patterns) :
            subscribe_command(s, patterns, names) \/ unsubscribe_command(s, patterns, names)
       \/ \E held \in BOOLEAN : other_command(s, held)
       \/ \E started \in BOOLEAN : stream_command(s, started)
       \/ \E channel \in Channel, len \in Lengths : publish_command(s, channel, len)
       \/ holds_back(s)
       \/ \E n \in 0 .. MaxWrite, blocks \in BOOLEAN : write_client(s, n, blocks)
  \/ \E channel \in Channel, len \in Lengths : rebroadcast_one(channel, len)

Spec == Init /\ [][Next]_vars
-----------------------------------------------------------------------------
(* Properties. *)

TypeOK ==
  \A s \in Session :
    LET st == session[s]
    IN  /\ st.next \in 1 .. MaxOutputs[s] + 1
        /\ st.queue.read \in 0 .. Capacity - 1 /\ st.queue.write \in 0 .. Capacity - 1
        /\ st.queue.used \in 0 .. Capacity
        /\ st.index <= Len(st.replies) /\ st.output_offset <= Len(st.output)
        /\ st.front # NoFront => st.front.start + st.front.len <= Capacity

\* The subscriber sets, the sessions' own lists and counts and the list of patterns that
\* PUBLISH walks all say the same, and for a session that is not being closed they say what
\* its client asked for; no set holds a session that is gone, whose pointer would dangle
\* (subscribe, unsubscribe, remove, cleanup_overflowed).
RegistryAgrees ==
  /\ \A s \in Session, patterns \in BOOLEAN :
       LET mine == {n \in Of(patterns) : s \in subscribers[n]}
           names == session[s].names[patterns]
       IN  /\ ToSet(names) = mine /\ Len(names) = Cardinality(mine)
           /\ session[s].count[patterns] = Cardinality(mine)
           /\ session[s].close_requested \/ mine = client[s].wanted \cap Of(patterns)
           /\ session[s].open \/ mine = {}
  /\ ToSet(pattern_publish) = {n \in Pattern : subscribers[n] # {}}
  /\ Len(pattern_publish) = Cardinality(ToSet(pattern_publish))

\* However the socket cuts the stream, whatever is published while a message is half sent
\* and wherever the ring wraps, a client receives its replies and its messages whole, byte
\* by byte and in the order in which the server made them (write_client, peek_unsolicited,
\* UnsolicitedOutputQueue).  A client that asks for a stream gives this up.
StreamWhole == \A s \in Session : client[s].gave_up \/ ~client[s].torn

\* A subscriber is sent every message of its channels and patterns, once for each, or its
\* connection is closed: none is dropped silently (enqueue, publish).
NoneDropped ==
  \A s \in Session : session[s].close_requested \/ session[s].next = client[s].due + 1

\* A ring whose messages have all been sent is empty, so that its whole capacity is free
\* for the next one: no byte is lost to wrapping (push, normalize_head, pop_front).
SpaceReturned ==
  \A s \in Session :
    LET unsent == client[s].seq .. session[s].next - 1
        replies == {session[s].replies[i].seq : i \in 1 .. Len(session[s].replies)}
    IN  session[s].queue.used = 0 \/ unsent \ replies # {}

\* Nothing is stuck: whatever a client has not received, the next of it is a reply that
\* still waits for Kafka or write_client finds it, so that a socket that keeps taking bytes
\* gets all of it; a held reply holds back no message made before it (has_writable_output,
\* peek_unsolicited, compact_output_if_needed).
NothingStuck ==
  \A s \in Session :
    LET st == session[s]
    IN  /\ st.open /\ ~st.close_requested /\ ~client[s].gave_up
        /\ client[s].seq < st.next
        /\ \A i \in 1 .. Len(st.replies) : st.replies[i].seq = client[s].seq => ~st.replies[i].held
        => has_writable_output(peek_unsolicited(st)) /\ offered(peek_unsolicited(st)) # <<>>
=============================================================================
