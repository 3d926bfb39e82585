---------------------- MODULE ReplicationStreamProofs ----------------------
(***************************************************************************)
(* Proofs about the followers of ReplicationRuntime: the streams they      *)
(* receive and the pointers the runtime keeps to their connections.        *)
(***************************************************************************)
EXTENDS ReplicationProofs

(* The followers' streams.  A connection that has not subscribed has no frames and no   *)
(* hello; one that has takes no more commands, so its hello is its last reply, and the   *)
(* frames behind the hello continue the offset it announces up to the one released.      *)

Numbered(ss) == \A i \in 1 .. Len(ss.replies) : ss.replies[i].seq < ss.next_seq
Plain(ss) ==
  /\ Numbered(ss)
  /\ ss.out = <<>> /\ ss.seen = -1
  /\ \A i \in 1 .. Len(ss.replies) : ss.replies[i].hello = -1
LinkOK(ss) == IF ss.firehose THEN ~ss.blocked ELSE Plain(ss)

\* The hello of a follower is still queued, or has been written.
HelloQueued(ss) ==
  /\ ss.seen = -1
  /\ ss.replies[Len(ss.replies)].hello >= 0
  /\ \A i \in 1 .. Len(ss.replies) - 1 : ss.replies[i].hello = -1
  /\ ss.out # <<>> => \A i \in 1 .. Len(ss.replies) : ss.replies[i].seq < ss.out[1].seq
Start(ss) == IF ss.replies = <<>> THEN ss.seen ELSE ss.replies[Len(ss.replies)].hello
StreamOK(ss, upto) ==
  /\ Numbered(ss)
  /\ ss.replies # <<>> => HelloQueued(ss)
  /\ \A i \in 1 .. Len(ss.out) : ss.out[i].first <= ss.out[i].last
  /\ \A i \in 1 .. Len(ss.out) :
       ss.out[i].first = (IF i = 1 THEN Start(ss) ELSE ss.out[i - 1].last) + 1
  /\ upto = IF ss.out = <<>> THEN Start(ss) ELSE ss.out[Len(ss.out)].last

\* The batches that await their acknowledgement continue the released offset up to the
\* last one given out.
QueueOK(first, queue, last) ==
  /\ \A i \in 1 .. Len(queue) : queue[i].first <= queue[i].last
  /\ \A i \in 1 .. Len(queue) :
       queue[i].first = (IF i = 1 THEN first ELSE queue[i - 1].last) + 1
  /\ last = IF queue = <<>> THEN first ELSE queue[Len(queue)].last

FlowInv ==
  /\ \A t \in Session : LinkOK(session[t])
  /\ \A t \in subscribers : session[t].status = "open" /\ session[t].firehose
  /\ \A i \in 1 .. Len(awaiting) : \A t \in awaiting[i].waiters :
       session[t].status = "open" /\ ~session[t].firehose
  /\ ~BrokerAck => awaiting = <<>>
  /\ ~failed => /\ QueueOK(released, awaiting, offset)
                /\ \A t \in subscribers : StreamOK(session[t], released)

\* tt differs from ss in what it still has to answer: a connection that has not
\* subscribed is still plain, and a follower is left alone.
Quiet(ss, tt) ==
  /\ tt \in SessionState
  /\ tt.status = ss.status /\ tt.firehose = ss.firehose
  /\ IF ss.firehose THEN tt = ss ELSE Plain(tt)

\* The fields of the entries of a session's queues.
LEMMA QueueFields ==
  ASSUME NEW ss \in SessionState
  PROVE  /\ ss.replies \in Seq(Reply) /\ ss.out \in Seq(Frame) /\ ss.next_seq \in Nat
         /\ ss.seen \in Int
         /\ \A i \in 1 .. Len(ss.replies) : ss.replies[i].seq \in Nat /\ ss.replies[i].hello \in Int
         /\ \A i \in 1 .. Len(ss.out) : /\ ss.out[i].seq \in Nat
                                        /\ ss.out[i].first \in Nat /\ ss.out[i].last \in Nat
<1>1. /\ ss.replies \in Seq(Reply) /\ ss.out \in Seq(Frame) /\ ss.next_seq \in Nat
      /\ ss.seen \in Int
  BY DEF SessionState
<1>2. /\ \A i \in 1 .. Len(ss.replies) : ss.replies[i] \in Reply
      /\ \A i \in 1 .. Len(ss.out) : ss.out[i] \in Frame
  BY <1>1
<1>3. /\ \A r \in Reply : r.seq \in Nat /\ r.hello \in Int
      /\ \A f \in Frame : f.seq \in Nat /\ f.first \in Nat /\ f.last \in Nat
  BY DEF Reply, Frame
<1>. QED  BY <1>1, <1>2, <1>3

\* Recording the reply to a command leaves a plain connection plain (record_reply).
LEMMA RecordPlain ==
  ASSUME NEW ss \in SessionState, NEW upto \in Nat, Plain(ss)
  PROVE  LET tt == record_reply(ss, upto, -1)
         IN  /\ tt \in SessionState /\ Plain(tt)
             /\ tt.status = ss.status /\ tt.firehose = ss.firehose
<1>. DEFINE r == [seq |-> ss.next_seq, need |-> ss.next_need, upto |-> upto, hello |-> -1]
            tt == record_reply(ss, upto, -1)
<1>1. /\ tt \in SessionState /\ tt.replies = Append(ss.replies, r) /\ r \in Reply
      /\ tt.next_seq = ss.next_seq + 1 /\ SameLink(ss, tt)
  BY RecordReply
<1>2. r.seq = ss.next_seq /\ r.hello = -1
  OBVIOUS
<1>3. ss.replies \in Seq(Reply) /\ ss.next_seq \in Nat
  BY DEF SessionState
<1>4. \A i \in 1 .. Len(ss.replies) : ss.replies[i].seq \in Nat
  BY QueueFields
<1>. HIDE DEF r, tt
<1>5. \A i \in 1 .. Len(tt.replies) : tt.replies[i].seq < tt.next_seq /\ tt.replies[i].hello = -1
  BY <1>1, <1>2, <1>3, <1>4, SMTT(30) DEF Plain, Numbered
<1>6. Plain(tt)
  BY <1>1, <1>5 DEF Plain, Numbered, SameLink
<1>. QED  BY <1>1, <1>6 DEF SameLink, tt

\* Replies that are held or freed keep their numbers, and announce what they announced.
LEMMA SameRepliesPlain ==
  ASSUME NEW ss \in SessionState, NEW tt \in SessionState, SameLink(ss, tt),
         tt.next_seq = ss.next_seq, Len(tt.replies) = Len(ss.replies),
         \A i \in 1 .. Len(ss.replies) : /\ tt.replies[i].seq = ss.replies[i].seq
                                         /\ tt.replies[i].hello = ss.replies[i].hello,
         Plain(ss)
  PROVE  Plain(tt)
  BY DEF Plain, Numbered, SameLink

\* Holding replies leaves a plain connection plain (require_kafka_ack).
LEMMA RequirePlain ==
  ASSUME NEW ss \in SessionState, NEW first \in Nat, NEW logical \in Nat, Plain(ss)
  PROVE  LET tt == require_kafka_ack(ss, first, logical)
         IN  /\ tt \in SessionState /\ Plain(tt)
             /\ tt.status = ss.status /\ tt.firehose = ss.firehose
<1>. DEFINE tt == require_kafka_ack(ss, first, logical)
            q == HeldReplies(ss.replies, first, logical)
<1>1. /\ tt \in SessionState /\ SameLink(ss, tt) /\ tt.next_seq = ss.next_seq
      /\ tt.replies = q \/ tt.replies = ss.replies
  BY RequireAck
<1>2. ss.replies \in Seq(Reply)
  BY DEF SessionState
<1>3. Len(q) = Len(ss.replies)
  BY <1>2, HeldRepliesType
<1>4. ASSUME NEW i \in 1 .. Len(ss.replies)
      PROVE  q[i].seq = ss.replies[i].seq /\ q[i].hello = ss.replies[i].hello
  <2>1. ss.replies[i] \in Reply
    BY <1>2
  <2>2. q[i] \in {ss.replies[i], [ss.replies[i] EXCEPT !.need = MaxOf(ss.replies[i].need, logical)]}
    BY <1>2 DEF HeldReplies
  <2>. QED  BY <2>1, <2>2, SMTT(30) DEF Reply
<1>. HIDE DEF tt, q
<1>5. Plain(tt)
  BY <1>1, <1>3, <1>4, SameRepliesPlain
<1>. QED  BY <1>1, <1>5 DEF SameLink, tt

\* Freeing replies leaves a plain connection plain (release_kafka_ack).
LEMMA ReleasePlain ==
  ASSUME NEW ss \in SessionState, NEW logical \in Nat, Plain(ss)
  PROVE  LET tt == release_kafka_ack(ss, logical)
         IN  /\ tt \in SessionState /\ Plain(tt)
             /\ tt.status = ss.status /\ tt.firehose = ss.firehose
<1>. DEFINE tt == release_kafka_ack(ss, logical)
            q == FreedReplies(ss.replies, logical)
<1>1. /\ tt \in SessionState /\ SameLink(ss, tt) /\ tt.next_seq = ss.next_seq
      /\ tt.replies = q /\ Len(tt.replies) = Len(ss.replies)
  BY ReleaseAck
<1>2. ss.replies \in Seq(Reply)
  BY DEF SessionState
<1>3. ASSUME NEW i \in 1 .. Len(ss.replies)
      PROVE  q[i].seq = ss.replies[i].seq /\ q[i].hello = ss.replies[i].hello
  <2>1. ss.replies[i] \in Reply
    BY <1>2
  <2>2. q[i] \in {ss.replies[i], [ss.replies[i] EXCEPT !.need = 0]}
    BY <1>2 DEF FreedReplies
  <2>. QED  BY <2>1, <2>2 DEF Reply
<1>. HIDE DEF tt, q
<1>4. Plain(tt)
  BY <1>1, <1>3, SameRepliesPlain
<1>. QED  BY <1>1, <1>4 DEF SameLink, tt

\* The flags of blocking and of QUIT are no part of the stream.
LEMMA FlagPlain ==
  ASSUME NEW ss \in SessionState, NEW b \in BOOLEAN, Plain(ss)
  PROVE  /\ [ss EXCEPT !.blocked = b] \in SessionState
         /\ [ss EXCEPT !.close_after_write = b] \in SessionState
         /\ Plain([ss EXCEPT !.blocked = b]) /\ Plain([ss EXCEPT !.close_after_write = b])
         /\ [ss EXCEPT !.blocked = b].status = ss.status
         /\ [ss EXCEPT !.blocked = b].firehose = ss.firehose
         /\ [ss EXCEPT !.close_after_write = b].status = ss.status
         /\ [ss EXCEPT !.close_after_write = b].firehose = ss.firehose
<1>. DEFINE tt == [ss EXCEPT !.blocked = b]
            uu == [ss EXCEPT !.close_after_write = b]
<1>1. /\ tt \in SessionState /\ uu \in SessionState
      /\ tt.status = ss.status /\ tt.firehose = ss.firehose
      /\ uu.status = ss.status /\ uu.firehose = ss.firehose
  BY Zenon DEF SessionState
<1>2. /\ tt.replies = ss.replies /\ tt.out = ss.out
      /\ tt.seen = ss.seen /\ tt.next_seq = ss.next_seq
      /\ uu.replies = ss.replies /\ uu.out = ss.out
      /\ uu.seen = ss.seen /\ uu.next_seq = ss.next_seq
  BY DEF SessionState
<1>. HIDE DEF tt, uu
<1>3. Plain(tt) /\ Plain(uu)
  BY <1>2 DEF Plain, Numbered
<1>. QED  BY <1>1, <1>3 DEF tt, uu

\* A batch that continues the stream of a follower with room for it is its new end
\* (push, broadcast).
LEMMA PushStream ==
  ASSUME NEW ss \in SessionState, NEW upto \in Nat, NEW last \in Nat, upto < last,
         StreamOK(ss, upto)
  PROVE  StreamOK(push(ss, upto + 1, last), last)
<1>. DEFINE tt == push(ss, upto + 1, last)
            f == [seq |-> ss.next_seq, first |-> upto + 1, last |-> last]
<1>1. /\ tt \in SessionState /\ f \in Frame
      /\ tt.out = Append(ss.out, f) /\ tt.next_seq = ss.next_seq + 1
      /\ tt.replies = ss.replies /\ tt.seen = ss.seen
  BY Push
<1>2. f.seq = ss.next_seq /\ f.first = upto + 1 /\ f.last = last
  OBVIOUS
<1>. HIDE DEF tt, f
<1>3. /\ ss.out \in Seq(Frame) /\ ss.replies \in Seq(Reply) /\ ss.next_seq \in Nat
      /\ Start(tt) = Start(ss)
  BY <1>1 DEF SessionState, Start
<1>4. \A i \in 1 .. Len(ss.replies) : ss.replies[i].seq \in Nat
  BY QueueFields
<1>5. /\ tt.out # <<>> /\ Len(tt.out) = Len(ss.out) + 1 /\ tt.out[Len(tt.out)] = f
      /\ \A i \in 1 .. Len(ss.out) : tt.out[i] = ss.out[i]
  <2>1. tt.out = Append(ss.out, f) /\ ss.out \in Seq(Frame) /\ f \in Frame
    BY <1>1, <1>3
  <2>. QED  BY <2>1
<1>6. Numbered(tt)
  BY <1>1, <1>3, <1>4 DEF StreamOK, Numbered
<1>7. ASSUME tt.replies # <<>>
      PROVE  HelloQueued(tt)
  <2>1. HelloQueued(ss)
    BY <1>1, <1>7 DEF StreamOK
  <2>2. CASE ss.out = <<>>
    BY <1>1, <1>2, <1>5, <2>1, <2>2 DEF HelloQueued, StreamOK, Numbered
  <2>3. CASE ss.out # <<>>
    <3>1. tt.out[1] = ss.out[1]
      BY <1>3, <1>5, <2>3
    <3>. QED  BY <1>1, <2>1, <2>3, <3>1 DEF HelloQueued
  <2>. QED  BY <2>2, <2>3
<1>8. ASSUME NEW i \in 1 .. Len(tt.out)
      PROVE  /\ tt.out[i].first <= tt.out[i].last
             /\ tt.out[i].first = (IF i = 1 THEN Start(tt) ELSE tt.out[i - 1].last) + 1
  <2>1. CASE i <= Len(ss.out)
    <3>1. i \in 1 .. Len(ss.out) /\ (i # 1 => i - 1 \in 1 .. Len(ss.out))
      BY <1>3, <1>5, <2>1
    <3>. QED  BY <1>3, <1>5, <3>1, Zenon DEF StreamOK
  <2>2. CASE i = Len(ss.out) + 1
    <3>1. /\ tt.out[i] = f /\ (i = 1 <=> ss.out = <<>>)
          /\ i # 1 => i - 1 = Len(ss.out) /\ i - 1 \in 1 .. Len(ss.out)
      BY <1>3, <1>5, <2>2
    <3>2. upto = IF i = 1 THEN Start(tt) ELSE tt.out[i - 1].last
      BY <1>3, <1>5, <3>1, SMTT(30) DEF StreamOK
    <3>. QED  BY <1>2, <3>1, <3>2
  <2>. QED  BY <1>3, <1>5, <2>1, <2>2
<1>9. last = IF tt.out = <<>> THEN Start(tt) ELSE tt.out[Len(tt.out)].last
  BY <1>2, <1>5
<1>10. StreamOK(tt, last)
  BY <1>6, <1>7, <1>8, <1>9 DEF StreamOK
<1>. QED  BY <1>10 DEF tt

\* What one turn of write_client does to the queues.
LEMMA WrittenFields ==
  ASSUME NEW ss \in SessionState, has_writable_output(ss)
  PROVE  LET tt == Written(ss)
         IN  /\ tt.status = ss.status /\ tt.firehose = ss.firehose /\ tt.blocked = ss.blocked
             /\ tt.next_seq = ss.next_seq
             /\ PushFirst(ss) => /\ ss.out # <<>> /\ tt.out = Tail(ss.out)
                                 /\ tt.replies = ss.replies
                                 /\ tt.seen = MaxOf(ss.seen, ss.out[1].last)
             /\ ~PushFirst(ss) => /\ ss.replies # <<>> /\ tt.replies = Tail(ss.replies)
                                  /\ tt.out = ss.out
                                  /\ tt.seen = MaxOf(ss.seen, ss.replies[1].hello)
<1>. DEFINE x == MaxOf(ss.seen, ss.out[1].last)
            y == MaxOf(ss.seen, ss.replies[1].hello)
            o == Tail(ss.out)
            q == Tail(ss.replies)
<1>1. CASE PushFirst(ss)
  <2>1. Written(ss) = [ss EXCEPT !.out = o, !.seen = x]
    BY <1>1 DEF Written
  <2>2. ss.out # <<>>
    BY <1>1 DEF PushFirst
  <2>. HIDE DEF o, x
  <2>. QED  BY <1>1, <2>1, <2>2 DEF SessionState, o, x
<1>2. CASE ~PushFirst(ss)
  <2>1. Written(ss) = [ss EXCEPT !.replies = q, !.seen = y]
    BY <1>2 DEF Written
  <2>2. ss.replies # <<>>
    BY <1>2 DEF PushFirst, has_writable_output
  <2>. HIDE DEF q, y
  <2>. QED  BY <1>2, <2>1, <2>2 DEF SessionState, q, y
<1>. QED  BY <1>1, <1>2

\* Writing a reply of a plain connection leaves it plain (write_client).
LEMMA WrittenPlain ==
  ASSUME NEW ss \in SessionState, has_writable_output(ss), Plain(ss)
  PROVE  Plain(Written(ss))
<1>. DEFINE tt == Written(ss)
<1>1. ~PushFirst(ss)
  BY DEF PushFirst, Plain
<1>2. /\ tt.next_seq = ss.next_seq /\ ss.replies # <<>> /\ tt.replies = Tail(ss.replies)
      /\ tt.out = ss.out /\ tt.seen = MaxOf(ss.seen, ss.replies[1].hello)
  BY <1>1, WrittenFields
<1>. HIDE DEF tt
<1>3. ss.replies \in Seq(Reply)
  BY QueueFields
<1>4. tt.seen = -1
  BY <1>2, <1>3 DEF Plain, MaxOf
<1>5. \A i \in 1 .. Len(tt.replies) : i + 1 \in 1 .. Len(ss.replies)
                                      /\ tt.replies[i] = ss.replies[i + 1]
  BY <1>2, <1>3
<1>. QED  BY <1>2, <1>4, <1>5 DEF Plain, Numbered, tt

\* Writing to a follower keeps its stream: the hello goes first, and then its frames
\* (write_client).
LEMMA WrittenStream ==
  ASSUME NEW ss \in SessionState, has_writable_output(ss), NEW upto \in Nat, StreamOK(ss, upto)
  PROVE  StreamOK(Written(ss), upto)
<1>. DEFINE tt == Written(ss)
<1>1. /\ tt.next_seq = ss.next_seq
      /\ PushFirst(ss) => /\ ss.out # <<>> /\ tt.out = Tail(ss.out) /\ tt.replies = ss.replies
                          /\ tt.seen = MaxOf(ss.seen, ss.out[1].last)
      /\ ~PushFirst(ss) => /\ ss.replies # <<>> /\ tt.replies = Tail(ss.replies)
                           /\ tt.out = ss.out /\ tt.seen = MaxOf(ss.seen, ss.replies[1].hello)
  BY WrittenFields
<1>. HIDE DEF tt
<1>2. /\ ss.replies \in Seq(Reply) /\ ss.out \in Seq(Frame) /\ ss.next_seq \in Nat
      /\ ss.seen \in Int
      /\ \A i \in 1 .. Len(ss.replies) : ss.replies[i].seq \in Nat /\ ss.replies[i].hello \in Int
      /\ \A i \in 1 .. Len(ss.out) : /\ ss.out[i].seq \in Nat
                                     /\ ss.out[i].first \in Nat /\ ss.out[i].last \in Nat
  BY QueueFields
<1>3. ASSUME PushFirst(ss)
      PROVE  StreamOK(tt, upto)
  <2>1. ss.replies = <<>>
    <3>. SUFFICES ASSUME ss.replies # <<>> PROVE FALSE
      OBVIOUS
    <3>1. HelloQueued(ss) /\ ss.out # <<>> /\ ss.out[1].seq < ss.replies[1].seq
      BY <1>3 DEF StreamOK, PushFirst
    <3>2. 1 \in 1 .. Len(ss.replies) /\ 1 \in 1 .. Len(ss.out)
      BY <1>2, <3>1
    <3>3. ss.replies[1].seq < ss.out[1].seq
      BY <3>1, <3>2 DEF HelloQueued
    <3>4. ss.replies[1].seq \in Nat /\ ss.out[1].seq \in Nat
      BY <1>2, <3>2
    <3>. QED  BY <3>1, <3>3, <3>4
  <2>2. 1 \in 1 .. Len(ss.out) /\ ss.out # <<>>
    BY <1>1, <1>2, <1>3
  <2>3. ss.out[1].first = ss.seen + 1 /\ ss.out[1].first <= ss.out[1].last
    BY <2>1, <2>2 DEF StreamOK, Start
  <2>4. tt.seen = ss.out[1].last /\ tt.replies = <<>>
    BY <1>1, <1>2, <1>3, <2>1, <2>2, <2>3, SMTT(30) DEF MaxOf
  <2>5. Len(tt.out) = Len(ss.out) - 1 /\ tt.out \in Seq(Frame)
        /\ \A i \in 1 .. Len(tt.out) : i + 1 \in 1 .. Len(ss.out) /\ tt.out[i] = ss.out[i + 1]
    <3>1. tt.out = Tail(ss.out) /\ ss.out \in Seq(Frame)
      BY <1>1, <1>2, <1>3, Zenon
    <3>. QED  BY <2>2, <3>1
  <2>6. ASSUME NEW i \in 1 .. Len(tt.out)
        PROVE  /\ tt.out[i].first <= tt.out[i].last
               /\ tt.out[i].first = (IF i = 1 THEN Start(tt) ELSE tt.out[i - 1].last) + 1
    <3>1. i + 1 \in 1 .. Len(ss.out) /\ tt.out[i] = ss.out[i + 1] /\ i + 1 # 1 /\ (i + 1) - 1 = i
      BY <2>5
    <3>2. /\ ss.out[i + 1].first <= ss.out[i + 1].last
          /\ ss.out[i + 1].first = ss.out[(i + 1) - 1].last + 1
      BY <3>1 DEF StreamOK
    <3>3. ss.out[i] = ss.out[(i + 1) - 1]
      BY <3>1
    <3>4. CASE i = 1
      BY <2>4, <3>1, <3>2, <3>3, <3>4, Zenon DEF Start
    <3>5. CASE i # 1
      <4>1. i - 1 \in 1 .. Len(tt.out) /\ (i - 1) + 1 = i
        BY <3>5
      <4>2. tt.out[i - 1] = ss.out[i]
        BY <2>5, <4>1
      <4>. QED  BY <3>1, <3>2, <3>3, <3>5, <4>2, Zenon
    <3>. QED  BY <3>4, <3>5
  <2>7. upto = IF tt.out = <<>> THEN Start(tt) ELSE tt.out[Len(tt.out)].last
    <3>1. upto = ss.out[Len(ss.out)].last
      BY <2>2 DEF StreamOK
    <3>2. CASE tt.out = <<>>
      <4>1. Len(ss.out) = 1
        BY <1>2, <2>2, <2>5, <3>2
      <4>. QED  BY <2>4, <3>1, <3>2, <4>1, Zenon DEF Start
    <3>3. CASE tt.out # <<>>
      <4>1. Len(tt.out) \in 1 .. Len(tt.out) /\ Len(tt.out) + 1 = Len(ss.out)
        BY <1>2, <2>5, <3>3
      <4>2. tt.out[Len(tt.out)] = ss.out[Len(ss.out)]
        BY <2>5, <4>1, Zenon
      <4>. QED  BY <3>1, <3>3, <4>2, Zenon
    <3>. QED  BY <3>2, <3>3
  <2>8. Numbered(tt)
    BY <2>4 DEF Numbered
  <2>. QED  BY <2>4, <2>6, <2>7, <2>8 DEF StreamOK
<1>4. ASSUME ~PushFirst(ss)
      PROVE  StreamOK(tt, upto)
  <2>1. /\ ss.replies # <<>> /\ tt.replies = Tail(ss.replies) /\ tt.out = ss.out
        /\ tt.seen = MaxOf(ss.seen, ss.replies[1].hello) /\ HelloQueued(ss)
    BY <1>1, <1>4 DEF StreamOK
  <2>2. 1 \in 1 .. Len(ss.replies) /\ Len(ss.replies) \in 1 .. Len(ss.replies)
        /\ Len(tt.replies) = Len(ss.replies) - 1 /\ tt.replies \in Seq(Reply)
        /\ \A i \in 1 .. Len(tt.replies) : i + 1 \in 1 .. Len(ss.replies)
                                           /\ tt.replies[i] = ss.replies[i + 1]
    BY <1>2, <2>1
  <2>3. Numbered(tt)
    BY <1>1, <2>2, Zenon DEF StreamOK, Numbered
  <2>4. Start(tt) = Start(ss) /\ (tt.replies # <<>> => HelloQueued(tt))
    <3>1. CASE tt.replies = <<>>
      <4>1. Len(ss.replies) = 1
        BY <1>2, <2>2, <3>1
      <4>2. ss.replies[1].hello >= 0 /\ ss.seen = -1
        BY <2>1, <4>1 DEF HelloQueued
      <4>3. tt.seen = ss.replies[1].hello
        BY <1>2, <2>1, <2>2, <4>2 DEF MaxOf
      <4>. QED  BY <2>1, <3>1, <4>1, <4>3, Zenon DEF Start
    <3>2. CASE tt.replies # <<>>
      <4>1. 1 \in 1 .. Len(ss.replies) - 1 /\ Len(tt.replies) \in 1 .. Len(tt.replies)
            /\ Len(tt.replies) + 1 = Len(ss.replies)
        BY <1>2, <2>2, <3>2, SMTT(30)
      <4>2. ss.replies[1].hello = -1 /\ ss.seen = -1
        BY <2>1, <4>1 DEF HelloQueued
      <4>3. tt.seen = -1
        BY <2>1, <4>2 DEF MaxOf
      <4>4. tt.replies[Len(tt.replies)] = ss.replies[Len(ss.replies)]
        BY <2>2, <4>1, SMTT(30)
      <4>5. \A i \in 1 .. Len(tt.replies) - 1 : tt.replies[i].hello = -1
        <5>1. \A i \in 1 .. Len(tt.replies) - 1 : /\ tt.replies[i] = ss.replies[i + 1]
                                                  /\ i + 1 \in 1 .. Len(ss.replies) - 1
          BY <2>2
        <5>. QED  BY <2>1, <5>1 DEF HelloQueued
      <4>6. tt.out # <<>> => \A i \in 1 .. Len(tt.replies) : tt.replies[i].seq < tt.out[1].seq
        BY <2>1, <2>2 DEF HelloQueued
      <4>7. HelloQueued(tt)
        BY <2>1, <4>3, <4>4, <4>5, <4>6, Zenon DEF HelloQueued
      <4>. QED  BY <2>1, <3>2, <4>4, <4>7, Zenon DEF Start
    <3>. QED  BY <3>1, <3>2
  <2>. QED  BY <2>1, <2>3, <2>4, Zenon DEF StreamOK
<1>. QED  BY <1>3, <1>4 DEF tt

\* A frame, or the terminal error, leaves the connection open and a follower.
LEMMA FrameLink ==
  ASSUME NEW ss \in SessionState, NEW first \in Nat, NEW last \in Nat
  PROVE  /\ LET tt == push(ss, first, last)
            IN  tt.status = ss.status /\ tt.firehose = ss.firehose /\ tt.blocked = ss.blocked
         /\ LET tt == terminate(ss)
            IN  tt.status = ss.status /\ tt.firehose = ss.firehose /\ tt.blocked = ss.blocked
<1>1. ASSUME NEW uu \in SessionState, NEW a \in Nat, NEW b \in Nat
      PROVE  LET tt == push(uu, a, b)
             IN  /\ tt \in SessionState
                 /\ tt.status = uu.status /\ tt.firehose = uu.firehose /\ tt.blocked = uu.blocked
  <2>1. push(uu, a, b) \in SessionState
    BY Push, Zenon
  <2>2. PICK q, n : push(uu, a, b) = [uu EXCEPT !.out = q, !.next_seq = n]
    BY Zenon DEF push
  <2>3. LET tt == [uu EXCEPT !.out = q, !.next_seq = n]
        IN  tt.status = uu.status /\ tt.firehose = uu.firehose /\ tt.blocked = uu.blocked
    BY DEF SessionState
  <2>. QED  BY <2>1, <2>2, <2>3
<1>2. PICK uu \in SessionState :
        /\ uu.status = ss.status /\ uu.firehose = ss.firehose /\ uu.blocked = ss.blocked
        /\ terminate(ss) = [push(uu, 0, 0) EXCEPT !.quit_after_write = TRUE]
  <2>. DEFINE vv == [ss EXCEPT !.out = <<>>]
              uu == IF Full(ss) THEN vv ELSE ss
  <2>1. vv \in SessionState /\ vv.status = ss.status /\ vv.firehose = ss.firehose
        /\ vv.blocked = ss.blocked
    <3>1. <<>> \in Seq(Frame)
      OBVIOUS
    <3>. QED  BY <3>1, Zenon DEF SessionState
  <2>2. terminate(ss) = [push(uu, 0, 0) EXCEPT !.quit_after_write = TRUE]
    BY DEF terminate
  <2>. HIDE DEF vv
  <2>. QED  BY <2>1, <2>2, Zenon
<1>3. \A vv \in SessionState : LET tt == [vv EXCEPT !.quit_after_write = TRUE]
        IN  tt.status = vv.status /\ tt.firehose = vv.firehose /\ tt.blocked = vv.blocked
  BY DEF SessionState
<1>4. LET tt == push(uu, 0, 0)
      IN  /\ tt \in SessionState
          /\ tt.status = uu.status /\ tt.firehose = uu.firehose /\ tt.blocked = uu.blocked
  BY <1>1
<1>. QED  BY <1>1, <1>2, <1>3, <1>4

\* Every connection is as a Scope may leave it.
AllQuiet(sess) ==
  sess \in [Session -> SessionState] /\ \A t \in Session : Quiet(session[t], sess[t])

\* What a step leaves of the connections: open or closed as they were, following or not.
LinksKept ==
  \A t \in Session : /\ LinkOK(session'[t])
                     /\ session'[t].status = session[t].status
                     /\ session'[t].firehose = session[t].firehose

\* A quiet change keeps the connections, and the streams.
LEMMA QuietLinks ==
  ASSUME FlowInv, NEW sess, AllQuiet(sess), session' = sess, NEW upto
  PROVE  LinksKept /\ \A t \in Session : session[t].firehose /\ StreamOK(session[t], upto)
                                         => StreamOK(session'[t], upto)
<1>1. ASSUME NEW t \in Session
      PROVE  /\ LinkOK(session'[t])
             /\ session'[t].status = session[t].status
             /\ session'[t].firehose = session[t].firehose
             /\ session[t].firehose => session'[t] = session[t]
  BY DEF FlowInv, AllQuiet, Quiet, LinkOK
<1>. QED  BY <1>1 DEF LinksKept

\* broadcast keeps the connections, and continues the streams of those it does not end.
LEMMA BroadcastFlow ==
  ASSUME TypeOK, FlowInv, NEW sess, AllQuiet(sess), NEW first \in Nat, NEW last \in Nat,
         broadcast(sess, first, last)
  PROVE  /\ LinksKept
         /\ subscribers' \subseteq subscribers
         /\ \A upto \in Nat : upto < last /\ first = upto + 1
              => \A t \in subscribers' : StreamOK(session[t], upto) => StreamOK(session'[t], last)
<1>1. /\ session' = [t \in Session |-> IF t \notin subscribers THEN sess[t]
                                       ELSE IF Full(sess[t]) THEN terminate(sess[t])
                                       ELSE push(sess[t], first, last)]
      /\ subscribers' = {t \in subscribers : ~Full(sess[t])}
  BY DEF broadcast
<1>2. \A t \in subscribers : t \in Session /\ session[t].firehose /\ session[t] \in SessionState
                             /\ sess[t] = session[t] /\ ~session[t].blocked
  BY DEF TypeOK, FlowInv, AllQuiet, Quiet, LinkOK
<1>3. ASSUME NEW t \in Session
      PROVE  /\ LinkOK(session'[t])
             /\ session'[t].status = session[t].status
             /\ session'[t].firehose = session[t].firehose
  <2>1. CASE t \notin subscribers
    <3>1. session'[t] = sess[t] /\ LinkOK(session[t]) /\ Quiet(session[t], sess[t])
      BY <1>1, <2>1 DEF FlowInv, AllQuiet
    <3>. QED  BY <3>1 DEF Quiet, LinkOK
  <2>2. CASE t \in subscribers
    <3>1. session'[t] \in {terminate(session[t]), push(session[t], first, last)}
      BY <1>1, <1>2, <2>2, Zenon
    <3>2. /\ session'[t].status = session[t].status /\ session'[t].firehose = session[t].firehose
          /\ session'[t].blocked = session[t].blocked
      BY <1>2, <2>2, <3>1, FrameLink
    <3>. QED  BY <1>2, <2>2, <3>2, Zenon DEF LinkOK
  <2>. QED  BY <2>1, <2>2
<1>4. subscribers' \subseteq subscribers
  BY <1>1
<1>5. ASSUME NEW upto \in Nat, upto < last, first = upto + 1, NEW t \in subscribers',
             StreamOK(session[t], upto)
      PROVE  StreamOK(session'[t], last)
  <2>1. t \in subscribers /\ ~Full(sess[t])
    BY <1>1
  <2>2. session'[t] = push(session[t], upto + 1, last)
    BY <1>1, <1>2, <1>5, <2>1, Zenon
  <2>. QED  BY <1>2, <1>5, <2>1, <2>2, PushStream
<1>. QED  BY <1>3, <1>4, <1>5, Zenon DEF LinksKept

\* A batch that continues the queue is its new end (commit).
LEMMA QueueAppend ==
  ASSUME NEW first \in Nat, NEW last \in Nat, NEW upto \in Nat, last < upto,
         NEW queue \in Seq(Batch), QueueOK(first, queue, last),
         NEW b \in Batch, b.first = last + 1, b.last = upto
  PROVE  QueueOK(first, Append(queue, b), upto)
<1>. DEFINE q == Append(queue, b)
<1>1. /\ q # <<>> /\ Len(q) = Len(queue) + 1 /\ q[Len(q)] = b /\ Len(queue) \in Nat
      /\ \A i \in 1 .. Len(queue) : q[i] = queue[i]
      /\ queue = <<>> <=> Len(queue) = 0
  OBVIOUS
<1>. HIDE DEF q
<1>2. ASSUME NEW i \in 1 .. Len(q)
      PROVE  /\ q[i].first <= q[i].last
             /\ q[i].first = (IF i = 1 THEN first ELSE q[i - 1].last) + 1
  <2>1. CASE i <= Len(queue)
    <3>1. i \in 1 .. Len(queue) /\ (i # 1 => i - 1 \in 1 .. Len(queue))
      BY <1>1, <2>1
    <3>. QED  BY <1>1, <3>1, SMTT(30) DEF QueueOK
  <2>2. CASE i = Len(queue) + 1
    <3>1. /\ q[i] = b /\ (i = 1 <=> queue = <<>>)
          /\ i # 1 => i - 1 = Len(queue) /\ i - 1 \in 1 .. Len(queue)
      BY <1>1, <2>2
    <3>2. last = IF i = 1 THEN first ELSE q[i - 1].last
      BY <1>1, <3>1 DEF QueueOK
    <3>. QED  BY <3>1, <3>2
  <2>. QED  BY <1>1, <2>1, <2>2
<1>. QED  BY <1>1, <1>2, Zenon DEF QueueOK, q

\* When the first batch goes, the others continue it (release_acknowledged).
LEMMA QueueTail ==
  ASSUME NEW first \in Nat, NEW last \in Nat, NEW queue \in Seq(Batch), queue # <<>>,
         QueueOK(first, queue, last)
  PROVE  /\ queue[1].first = first + 1 /\ queue[1].first <= queue[1].last
         /\ QueueOK(queue[1].last, Tail(queue), last)
<1>. DEFINE q == Tail(queue)
<1>1. /\ 1 \in 1 .. Len(queue) /\ Len(q) = Len(queue) - 1 /\ q \in Seq(Batch)
      /\ \A i \in 1 .. Len(q) : i + 1 \in 1 .. Len(queue) /\ q[i] = queue[i + 1]
  OBVIOUS
<1>. HIDE DEF q
<1>2. queue[1].first = first + 1 /\ queue[1].first <= queue[1].last
  BY <1>1 DEF QueueOK
<1>3. ASSUME NEW i \in 1 .. Len(q)
      PROVE  /\ q[i].first <= q[i].last
             /\ q[i].first = (IF i = 1 THEN queue[1].last ELSE q[i - 1].last) + 1
  <2>1. i + 1 \in 1 .. Len(queue) /\ q[i] = queue[i + 1] /\ i + 1 # 1 /\ (i + 1) - 1 = i
    BY <1>1
  <2>2. queue[i + 1].first <= queue[i + 1].last /\ queue[i + 1].first = queue[(i + 1) - 1].last + 1
    BY <2>1 DEF QueueOK
  <2>3. queue[(i + 1) - 1] = queue[i]
    BY <2>1
  <2>4. i # 1 => q[i - 1] = queue[i]
    <3>1. i # 1 => i - 1 \in 1 .. Len(q) /\ (i - 1) + 1 = i
      BY <1>1
    <3>. QED  BY <1>1, <3>1
  <2>. QED  BY <2>1, <2>2, <2>3, <2>4, Zenon
<1>4. last = IF q = <<>> THEN queue[1].last ELSE q[Len(q)].last
  <2>1. last = queue[Len(queue)].last
    BY DEF QueueOK
  <2>2. q = <<>> => Len(queue) = 1
    BY <1>1
  <2>3. q # <<>> => Len(q) \in 1 .. Len(q) /\ Len(q) + 1 = Len(queue)
    BY <1>1
  <2>4. q # <<>> => q[Len(q)] = queue[Len(queue)]
    BY <1>1, <2>3
  <2>. QED  BY <2>1, <2>2, <2>4
<1>. QED  BY <1>2, <1>3, <1>4 DEF QueueOK, q

\* One connection that has not subscribed may change its queue of replies.
LEMMA QuietExcept ==
  ASSUME NEW s \in Session, NEW sess, AllQuiet(sess), ~session[s].firehose,
         NEW tt \in SessionState, Plain(tt), tt.status = session[s].status,
         tt.firehose = session[s].firehose
  PROVE  AllQuiet([sess EXCEPT ![s] = tt])
  BY DEF AllQuiet, Quiet

\* Doing nothing is quiet.
LEMMA QuietSame ==
  ASSUME TypeOK, FlowInv
  PROVE  AllQuiet(session)
  BY DEF TypeOK, FlowInv, AllQuiet, Quiet, LinkOK

\* The fields of the queued batches.
LEMMA BatchFields ==
  ASSUME NEW q \in Seq(Batch)
  PROVE  \A i \in 1 .. Len(q) : /\ q[i].waiters \subseteq Session
                                 /\ q[i].first \in Nat /\ q[i].last \in Nat
<1>1. \A i \in 1 .. Len(q) : q[i] \in Batch
  OBVIOUS
<1>. QED  BY <1>1 DEF Batch

\* finish() keeps the connections; it queues the batch behind the last one, or forwards
\* it to followers that have everything before it.
LEMMA FinishFlow ==
  ASSUME TypeOK, FlowInv, NEW s \in Session, NEW sess, AllQuiet(sess), ~session[s].firehose,
         NEW n \in Nat, NEW waiters \in SUBSET Session,
         \A t \in waiters : session[t].status = "open" /\ ~session[t].firehose,
         NEW late \in BOOLEAN, finish(s, sess, n, waiters, late)
  PROVE  FlowInv'
<1>. DEFINE Replied(m) == IF late THEN [m EXCEPT ![s] = record_reply(m[s], Upto(n), -1)] ELSE m
            held == [t \in Session |-> IF BrokerAck /\ t \in waiters
                       THEN require_kafka_ack(sess[t], session[t].next_seq, offset + n)
                       ELSE sess[t]]
            kept == IF failed /\ BrokerAck
                    THEN [sess EXCEPT ![s] = require_kafka_ack(sess[s], session[s].next_seq, Never)]
                    ELSE sess
<1>1. /\ offset \in Nat /\ offset + n \in Nat /\ Never \in Nat /\ Upto(n) \in Nat
      /\ \A t \in Session : session[t].next_seq \in Nat
  BY NeverNat, QueueFields DEF TypeOK, Upto
<1>2. \A t \in Session : /\ sess[t] \in SessionState
                         /\ sess[t].status = session[t].status
                         /\ sess[t].firehose = session[t].firehose
                         /\ ~session[t].firehose => Plain(sess[t])
  BY DEF AllQuiet, Quiet
<1>3. ASSUME NEW m, AllQuiet(m)
      PROVE  AllQuiet(Replied(m))
  <2>1. m[s] \in SessionState /\ Plain(m[s]) /\ m[s].status = session[s].status
        /\ m[s].firehose = session[s].firehose
    BY <1>3, Zenon DEF AllQuiet, Quiet
  <2>. DEFINE tt == record_reply(m[s], Upto(n), -1)
  <2>2. /\ tt \in SessionState /\ Plain(tt)
        /\ tt.status = session[s].status /\ tt.firehose = session[s].firehose
    BY <1>1, <2>1, RecordPlain, Zenon
  <2>3. Replied(m) = IF late THEN [m EXCEPT ![s] = tt] ELSE m
    OBVIOUS
  <2>. HIDE DEF tt, Replied
  <2>4. AllQuiet([m EXCEPT ![s] = tt])
    BY <1>3, <2>2, QuietExcept
  <2>. QED  BY <1>3, <2>3, <2>4, Zenon
<1>4. AllQuiet(Replied(kept))
  <2>. DEFINE tt == require_kafka_ack(sess[s], session[s].next_seq, Never)
  <2>1. /\ tt \in SessionState /\ Plain(tt)
        /\ tt.status = session[s].status /\ tt.firehose = session[s].firehose
    <3>1. sess[s] \in SessionState /\ Plain(sess[s]) /\ session[s].next_seq \in Nat
      BY <1>1, <1>2
    <3>2. Plain(tt) /\ tt \in SessionState /\ tt.status = sess[s].status
          /\ tt.firehose = sess[s].firehose
      BY <1>1, <3>1, RequirePlain, ZenonT(30)
    <3>. QED  BY <1>2, <3>2
  <2>. HIDE DEF tt
  <2>2. AllQuiet([sess EXCEPT ![s] = tt])
    BY <2>1, QuietExcept
  <2>3. AllQuiet(kept)
    BY <2>2 DEF tt
  <2>. HIDE DEF kept, Replied
  <2>. QED  BY <1>3, <2>3, Zenon
<1>5. AllQuiet(Replied(held))
  <2>1. ASSUME NEW t \in Session
        PROVE  held[t] \in SessionState /\ Quiet(session[t], held[t])
    <3>1. CASE BrokerAck /\ t \in waiters
      <4>. DEFINE tt == require_kafka_ack(sess[t], session[t].next_seq, offset + n)
      <4>1. /\ tt \in SessionState /\ Plain(tt)
            /\ tt.status = session[t].status /\ tt.firehose = session[t].firehose
            /\ ~session[t].firehose
        <5>1. /\ sess[t] \in SessionState /\ Plain(sess[t]) /\ session[t].next_seq \in Nat
              /\ ~session[t].firehose
          BY <1>1, <1>2, <3>1
        <5>2. Plain(tt) /\ tt \in SessionState /\ tt.status = sess[t].status
              /\ tt.firehose = sess[t].firehose
          BY <1>1, <5>1, RequirePlain, ZenonT(30)
        <5>. QED  BY <1>2, <5>1, <5>2, SMTT(30)
      <4>2. held[t] = tt
        BY <3>1
      <4>. QED  BY <4>1, <4>2, Zenon DEF Quiet
    <3>2. CASE ~(BrokerAck /\ t \in waiters)
      BY <3>2 DEF AllQuiet
    <3>. QED  BY <3>1, <3>2
  <2>2. held \in [Session -> SessionState]
    BY <2>1
  <2>3. AllQuiet(held)
    BY <2>1, <2>2 DEF AllQuiet
  <2>. HIDE DEF held, Replied
  <2>. QED  BY <1>3, <2>3
<1>6. CASE n = 0 \/ failed
  <2>1. /\ session' = Replied(kept)
        /\ UNCHANGED <<failed, offset, released, awaiting, subscribers>>
    BY <1>6, Zenon DEF finish, Firsts
  <2>. HIDE DEF kept, Replied
  <2>2. LinksKept /\ \A t \in Session : session[t].firehose /\ StreamOK(session[t], released)
                                        => StreamOK(session'[t], released)
    BY <1>4, <2>1, QuietLinks, Zenon
  <2>3. subscribers \subseteq Session /\ awaiting \in Seq(Batch)
    BY DEF TypeOK
  <2>4. \A i \in 1 .. Len(awaiting) : awaiting[i].waiters \subseteq Session
    BY <2>3, BatchFields, Zenon
  <2>. QED  BY <2>1, <2>2, <2>3, <2>4, SMTT(30) DEF FlowInv, LinksKept
<1>7. CASE ~(n = 0 \/ failed)
  <2>. DEFINE b == [first |-> offset + 1, last |-> offset + n, waiters |-> waiters]
  <2>1. PICK j \in 0 .. n :
          /\ offset' = offset + j /\ failed' = (j < n)
          /\ awaiting' = IF j = n /\ BrokerAck THEN Append(awaiting, b) ELSE awaiting
          /\ IF j = n /\ ~BrokerAck
             THEN released' = offset + n /\ broadcast(Replied(held), offset + 1, offset + n)
             ELSE session' = Replied(held) /\ released' = released /\ subscribers' = subscribers
    <3>1. [t \in Session |-> IF BrokerAck /\ t \in waiters
                             THEN require_kafka_ack(sess[t], Firsts[t], offset + n)
                             ELSE sess[t]] = held
      BY Zenon DEF Firsts
    <3>. QED  BY <1>7, <3>1, ZenonT(30) DEF finish, AtOnce
  <2>2. 0 < n /\ ~failed
    BY <1>7
  <2>3. /\ b \in Batch /\ b.first = offset + 1 /\ b.last = offset + n /\ b.waiters = waiters
    BY <1>1 DEF Batch
  <2>. HIDE DEF held, Replied, b
  <2>4. /\ subscribers \subseteq Session /\ awaiting \in Seq(Batch)
        /\ released \in Nat /\ QueueOK(released, awaiting, offset)
        /\ \A t \in subscribers : session[t].firehose /\ StreamOK(session[t], released)
    BY <2>2, Zenon DEF TypeOK, FlowInv
  <2>5. \A i \in 1 .. Len(awaiting) : awaiting[i].waiters \subseteq Session
    BY <2>4, BatchFields, Zenon
  <2>6. /\ LinksKept /\ subscribers' \subseteq subscribers
        /\ ~failed' => \A t \in subscribers' : StreamOK(session'[t], released')
    <3>1. CASE j = n /\ ~BrokerAck
      <4>1. released = offset
        BY <2>4, <3>1, Zenon DEF FlowInv, QueueOK
      <4>2. /\ broadcast(Replied(held), offset + 1, offset + n) /\ released' = offset + n
            /\ offset + 1 \in Nat /\ offset < offset + n
        BY <1>1, <2>1, <2>2, <3>1, SMTT(30)
      <4>3. /\ LinksKept /\ subscribers' \subseteq subscribers
            /\ \A upto \in Nat : upto < offset + n /\ offset + 1 = upto + 1
                 => \A t \in subscribers' : StreamOK(session[t], upto)
                                            => StreamOK(session'[t], offset + n)
        BY <1>1, <1>5, <4>2, BroadcastFlow, Zenon
      <4>. QED  BY <1>1, <2>4, <4>1, <4>2, <4>3, Zenon
    <3>2. CASE ~(j = n /\ ~BrokerAck)
      <4>1. session' = Replied(held) /\ released' = released /\ subscribers' = subscribers
        BY <2>1, <3>2, Zenon
      <4>2. LinksKept /\ \A t \in Session : session[t].firehose /\ StreamOK(session[t], released)
                                            => StreamOK(session'[t], released)
        BY <1>5, <4>1, QuietLinks, Zenon
      <4>. QED  BY <2>4, <4>1, <4>2, Zenon
    <3>. QED  BY <3>1, <3>2, Zenon
  <2>7. ~failed' => QueueOK(released', awaiting', offset')
    <3>. SUFFICES ASSUME ~failed' PROVE QueueOK(released', awaiting', offset')
      OBVIOUS
    <3>1. j = n
      <4>1. ~(j < n)
        BY <2>1, Zenon
      <4>. QED  BY <4>1
    <3>2. CASE BrokerAck
      <4>1. /\ awaiting' = Append(awaiting, b) /\ released' = released /\ offset' = offset + n
            /\ offset < offset + n
        BY <1>1, <2>1, <2>2, <3>1, <3>2, SMTT(30)
      <4>. QED  BY <1>1, <2>3, <2>4, <4>1, QueueAppend, Zenon
    <3>3. CASE ~BrokerAck
      <4>1. awaiting' = <<>> /\ released' = offset'
        BY <2>1, <3>1, <3>3, Zenon DEF FlowInv
      <4>. QED  BY <4>1, SMTT(30) DEF QueueOK
    <3>. QED  BY <3>2, <3>3, BrokerAckAssumption, Zenon
  <2>8. \A i \in 1 .. Len(awaiting') : \A t \in awaiting'[i].waiters :
          session'[t].status = "open" /\ ~session'[t].firehose
    <3>1. ASSUME NEW i \in 1 .. Len(awaiting')
          PROVE  (i \in 1 .. Len(awaiting) /\ awaiting'[i] = awaiting[i]) \/ awaiting'[i] = b
      BY <2>1, <2>4, SMTT(30)
    <3>. QED  BY <2>3, <2>5, <2>6, <3>1, Zenon DEF FlowInv, LinksKept
  <2>. QED  BY <2>1, <2>4, <2>6, <2>7, <2>8, Zenon DEF FlowInv, LinksKept
<1>. QED  BY <1>6, <1>7

\* A connection that takes commands, or is blocked on one, has not subscribed.
LEMMA NotFollowing ==
  ASSUME TypeOK, FlowInv, NEW s \in Session, Accepts(s) \/ s \in Blocked
  PROVE  /\ session[s].status = "open" /\ ~session[s].firehose
         /\ session[s] \in SessionState /\ Plain(session[s])
  BY DEF TypeOK, FlowInv, LinkOK, Accepts, Blocked

\* A reply to a command that may also unblock its connection or end it.
LEMMA AnswerPlain ==
  ASSUME NEW ss \in SessionState, Plain(ss), NEW upto \in Nat, NEW b \in BOOLEAN
  PROVE  /\ LET tt == [record_reply(ss, upto, -1) EXCEPT !.blocked = b]
            IN  /\ tt \in SessionState /\ Plain(tt)
                /\ tt.status = ss.status /\ tt.firehose = ss.firehose
         /\ LET tt == [record_reply(ss, upto, -1) EXCEPT !.close_after_write = b]
            IN  /\ tt \in SessionState /\ Plain(tt)
                /\ tt.status = ss.status /\ tt.firehose = ss.firehose
<1>. DEFINE uu == record_reply(ss, upto, -1)
<1>1. uu \in SessionState /\ Plain(uu) /\ uu.status = ss.status /\ uu.firehose = ss.firehose
  BY RecordPlain
<1>. HIDE DEF uu
<1>2. /\ LET tt == [uu EXCEPT !.blocked = b]
         IN  tt \in SessionState /\ Plain(tt) /\ tt.status = ss.status /\ tt.firehose = ss.firehose
      /\ LET tt == [uu EXCEPT !.close_after_write = b]
         IN  tt \in SessionState /\ Plain(tt) /\ tt.status = ss.status /\ tt.firehose = ss.firehose
  BY <1>1, FlagPlain, Zenon
<1>. QED  BY <1>2 DEF uu

\* A command over RESP answers its connection and the blocked ones it serves.
LEMMA RespFlow ==
  ASSUME TypeOK, FlowInv, NEW s \in Session, NEW k \in Nat, NEW T \in SUBSET Blocked,
         dispatch_resp_command(s, k, T)
  PROVE  FlowInv'
<1>. DEFINE n == k + Cardinality(T)
            answered == [t \in Session |->
              IF t = s THEN record_reply(session[s], IF k = 0 THEN 0 ELSE Upto(n), -1)
              ELSE IF t \in T THEN [record_reply(session[t], Upto(n), -1) EXCEPT !.blocked = FALSE]
              ELSE session[t]]
            waiters == T \cup (IF k = 0 THEN {} ELSE {s})
<1>1. Accepts(s) /\ finish(s, answered, n, waiters, FALSE)
  BY Zenon DEF dispatch_resp_command
<1>2. /\ session[s].status = "open" /\ ~session[s].firehose
      /\ session[s] \in SessionState /\ Plain(session[s])
  BY <1>1, NotFollowing, Zenon
<1>3. T \subseteq Session
  BY DEF Blocked
<1>4. \A t \in T : /\ session[t].status = "open" /\ ~session[t].firehose
                   /\ session[t] \in SessionState /\ Plain(session[t])
  BY <1>3, NotFollowing, Zenon
<1>5. n \in Nat
  BY <1>3, SessionFinite, FS_Subset, FS_CardinalityType, SMTT(30)
<1>. HIDE DEF n
<1>6. Upto(n) \in Nat
  BY <1>5, NeverNat DEF TypeOK, Upto
<1>7. ASSUME NEW t \in Session
      PROVE  answered[t] \in SessionState /\ Quiet(session[t], answered[t])
  <2>1. CASE t = s
    <3>. DEFINE u == IF k = 0 THEN 0 ELSE Upto(n)
                tt == record_reply(session[s], u, -1)
    <3>1. answered[t] = tt /\ u \in Nat
      BY <1>6, <2>1
    <3>. HIDE DEF u
    <3>2. tt \in SessionState /\ Plain(tt) /\ tt.status = session[s].status
          /\ tt.firehose = session[s].firehose
      BY <1>2, <3>1, RecordPlain, Zenon
    <3>. HIDE DEF tt, answered
    <3>. QED  BY <1>2, <2>1, <3>1, <3>2, Zenon DEF Quiet
  <2>2. CASE t # s /\ t \in T
    <3>. DEFINE tt == [record_reply(session[t], Upto(n), -1) EXCEPT !.blocked = FALSE]
    <3>1. answered[t] = tt
      BY <2>2
    <3>2. tt \in SessionState /\ Plain(tt) /\ tt.status = session[t].status
          /\ tt.firehose = session[t].firehose
      BY <1>4, <1>6, <2>2, AnswerPlain, Zenon
    <3>. HIDE DEF tt, answered
    <3>. QED  BY <1>4, <2>2, <3>1, <3>2 DEF Quiet
  <2>3. CASE t # s /\ t \notin T
    <3>1. answered[t] = session[t]
      BY <2>3
    <3>2. AllQuiet(session)
      BY QuietSame
    <3>. QED  BY <3>1, <3>2, Zenon DEF AllQuiet
  <2>. QED  BY <2>1, <2>2, <2>3, Zenon
<1>8. AllQuiet(answered)
  <2>1. answered \in [Session -> SessionState]
    BY <1>7, Zenon
  <2>. QED  BY <1>7, <2>1 DEF AllQuiet
<1>9. /\ waiters \in SUBSET Session
      /\ \A t \in waiters : session[t].status = "open" /\ ~session[t].firehose
  BY <1>2, <1>3, <1>4, Zenon
<1>. HIDE DEF answered, waiters
<1>. QED  BY <1>1, <1>2, <1>5, <1>8, <1>9, FinishFlow, ZenonT(30)

\* A command over SBE.
LEMMA SbeFlow ==
  ASSUME TypeOK, FlowInv, NEW s \in Session, NEW k \in Nat, dispatch_sbe_command(s, k)
  PROVE  FlowInv'
<1>. DEFINE waiters == IF k = 0 THEN {} ELSE {s}
<1>1. Accepts(s) /\ finish(s, session, k, waiters, TRUE)
  BY ZenonT(30) DEF dispatch_sbe_command
<1>2. session[s].status = "open" /\ ~session[s].firehose
  BY <1>1, NotFollowing
<1>3. /\ waiters \in SUBSET Session
      /\ \A t \in waiters : session[t].status = "open" /\ ~session[t].firehose
  BY <1>2
<1>. HIDE DEF waiters
<1>. QED  BY <1>1, <1>2, <1>3, QuietSame, FinishFlow, Zenon

\* The Scopes that change one connection: a blocked one is served or times out, a
\* command parks its connection or ends it.
LEMMA OneFlow ==
  ASSUME TypeOK, FlowInv, NEW s \in Session,
         serve_ready(s) \/ blocked_deadline(s) \/ park(s) \/ quit(s)
  PROVE  FlowInv'
<1>1. /\ session[s].status = "open" /\ ~session[s].firehose
      /\ session[s] \in SessionState /\ Plain(session[s])
  BY NotFollowing, Zenon DEF serve_ready, blocked_deadline, park, quit
<1>2. Upto(1) \in Nat
  BY NeverNat DEF TypeOK, Upto
<1>3. PICK tt \in SessionState, n \in {0, 1}, waiters \in SUBSET {s} :
        /\ Plain(tt) /\ tt.status = session[s].status /\ tt.firehose = session[s].firehose
        /\ finish(s, [session EXCEPT ![s] = tt], n, waiters, FALSE)
  <2>1. CASE serve_ready(s)
    <3>. DEFINE tt == [record_reply(session[s], Upto(1), -1) EXCEPT !.blocked = FALSE]
    <3>1. finish(s, [session EXCEPT ![s] = tt], 1, {s}, FALSE)
      BY <2>1, Zenon DEF serve_ready
    <3>2. /\ tt \in SessionState /\ Plain(tt) /\ tt.status = session[s].status
          /\ tt.firehose = session[s].firehose
      BY <1>1, <1>2, AnswerPlain, Zenon
    <3>. HIDE DEF tt
    <3>. QED  BY <3>1, <3>2, Zenon
  <2>2. CASE blocked_deadline(s)
    <3>. DEFINE tt == [record_reply(session[s], 0, -1) EXCEPT !.blocked = FALSE]
    <3>1. finish(s, [session EXCEPT ![s] = tt], 0, {}, FALSE)
      BY <2>2, Zenon DEF blocked_deadline
    <3>2. /\ tt \in SessionState /\ Plain(tt) /\ tt.status = session[s].status
          /\ tt.firehose = session[s].firehose
      BY <1>1, AnswerPlain, Zenon
    <3>. HIDE DEF tt
    <3>. QED  BY <3>1, <3>2, Zenon
  <2>3. CASE park(s)
    <3>. DEFINE tt == [session[s] EXCEPT !.blocked = TRUE]
    <3>1. finish(s, [session EXCEPT ![s] = tt], 0, {}, FALSE)
      BY <2>3, Zenon DEF park
    <3>2. /\ tt \in SessionState /\ Plain(tt) /\ tt.status = session[s].status
          /\ tt.firehose = session[s].firehose
      BY <1>1, FlagPlain, Zenon
    <3>. HIDE DEF tt
    <3>. QED  BY <3>1, <3>2, Zenon
  <2>4. CASE quit(s)
    <3>. DEFINE tt == [record_reply(session[s], 0, -1) EXCEPT !.close_after_write = TRUE]
    <3>1. finish(s, [session EXCEPT ![s] = tt], 0, {}, FALSE)
      BY <2>4, Zenon DEF quit
    <3>2. /\ tt \in SessionState /\ Plain(tt) /\ tt.status = session[s].status
          /\ tt.firehose = session[s].firehose
      BY <1>1, AnswerPlain, ZenonT(30)
    <3>. HIDE DEF tt
    <3>. QED  BY <3>1, <3>2, Zenon
  <2>. QED  BY <2>1, <2>2, <2>3, <2>4, Zenon
<1>4. AllQuiet([session EXCEPT ![s] = tt])
  BY <1>1, <1>3, QuietSame, QuietExcept, Zenon
<1>5. n \in Nat /\ waiters \in SUBSET Session
      /\ \A t \in waiters : session[t].status = "open" /\ ~session[t].firehose
  BY <1>1
<1>. QED  BY <1>1, <1>3, <1>4, <1>5, FinishFlow, Zenon

\* Forgetting a connection leaves the batches contiguous, and without it (remove).
LEMMA RemoveFlow ==
  ASSUME TypeOK, NEW s
  PROVE  /\ \A first, last : QueueOK(first, awaiting, last) => QueueOK(first, RemoveWaiter(s), last)
         /\ Len(RemoveWaiter(s)) = Len(awaiting)
         /\ \A i \in 1 .. Len(awaiting) : RemoveWaiter(s)[i].waiters = awaiting[i].waiters \ {s}
         /\ awaiting = <<>> => RemoveWaiter(s) = <<>>
<1>. DEFINE q == RemoveWaiter(s)
<1>1. /\ q \in Seq(Batch) /\ Len(q) = Len(awaiting) /\ awaiting \in Seq(Batch)
      /\ \A i \in 1 .. Len(awaiting) : /\ q[i].first = awaiting[i].first
                                       /\ q[i].last = awaiting[i].last
                                       /\ q[i].waiters = awaiting[i].waiters \ {s}
  BY RemoveWaiterType DEF TypeOK
<1>. HIDE DEF q
<1>2. (q = <<>> <=> awaiting = <<>>) /\ (q # <<>> => Len(q) \in 1 .. Len(q))
  BY <1>1
<1>3. ASSUME NEW first, NEW last, QueueOK(first, awaiting, last)
      PROVE  QueueOK(first, q, last)
  <2>1. ASSUME NEW i \in 1 .. Len(q)
        PROVE  /\ q[i].first <= q[i].last
               /\ q[i].first = (IF i = 1 THEN first ELSE q[i - 1].last) + 1
    <3>1. i \in 1 .. Len(awaiting) /\ (i # 1 => i - 1 \in 1 .. Len(awaiting))
      BY <1>1
    <3>2. /\ awaiting[i].first <= awaiting[i].last
          /\ awaiting[i].first = (IF i = 1 THEN first ELSE awaiting[i - 1].last) + 1
      BY <1>3, <3>1, Zenon DEF QueueOK
    <3>. QED  BY <1>1, <3>1, <3>2, Zenon
  <2>2. last = IF q = <<>> THEN first ELSE q[Len(q)].last
    BY <1>1, <1>2, <1>3, Zenon DEF QueueOK
  <2>. QED  BY <2>1, <2>2, Zenon DEF QueueOK
<1>. QED  BY <1>1, <1>2, <1>3, Zenon DEF q

\* The connection s becomes tt: its places among the waiters go, or stay as they were.
KeepsPlaces(s, tt) ==
  \/ awaiting' = RemoveWaiter(s)
  \/ /\ awaiting' = awaiting
     /\ \/ tt.status = session[s].status /\ tt.firehose = session[s].firehose
        \/ session[s].status # "open"
\* Its subscription goes too, or it follows what has been released.
KeepsStream(s, tt) ==
  \/ subscribers' = subscribers \ {s}
  \/ /\ subscribers' \in {subscribers, subscribers \cup {s}}
     /\ s \in subscribers' => /\ tt.status = "open" /\ tt.firehose
                              /\ ~failed => StreamOK(tt, released)

\* An action that changes one connection, and forgets it or leaves it its places.
LEMMA OneLinkFlow ==
  ASSUME TypeOK, FlowInv, NEW s \in Session, NEW tt, LinkOK(tt),
         session' = [session EXCEPT ![s] = tt],
         UNCHANGED <<failed, offset, released>>, KeepsPlaces(s, tt), KeepsStream(s, tt)
  PROVE  FlowInv'
<1>1. /\ subscribers \subseteq Session /\ session \in [Session -> SessionState]
      /\ awaiting \in Seq(Batch)
  BY DEF TypeOK
<1>2. \A t \in Session : session'[t] = IF t = s THEN tt ELSE session[t]
  BY <1>1, Zenon
<1>3. \A t \in Session : LinkOK(session'[t])
  BY <1>2 DEF FlowInv
<1>4. ASSUME NEW t \in subscribers'
      PROVE  /\ session'[t].status = "open" /\ session'[t].firehose
             /\ ~failed' => StreamOK(session'[t], released')
  <2>1. CASE t = s
    BY <1>2, <2>1, Zenon DEF KeepsStream
  <2>2. CASE t # s
    <3>1. t \in subscribers /\ t \in Session
      BY <1>1, <2>2, Zenon DEF KeepsStream
    <3>. QED  BY <1>2, <2>2, <3>1 DEF FlowInv
  <2>. QED  BY <2>1, <2>2, Zenon
<1>5. /\ \A i \in 1 .. Len(awaiting') : \A t \in awaiting'[i].waiters :
           session'[t].status = "open" /\ ~session'[t].firehose
      /\ ~BrokerAck => awaiting' = <<>>
      /\ ~failed' => QueueOK(released', awaiting', offset')
  <2>1. \A i \in 1 .. Len(awaiting) : awaiting[i].waiters \subseteq Session
    BY <1>1, BatchFields, Zenon
  <2>2. CASE awaiting' = RemoveWaiter(s)
    <3>1. /\ \A first, last : QueueOK(first, awaiting, last) => QueueOK(first, awaiting', last)
          /\ Len(awaiting') = Len(awaiting)
          /\ \A i \in 1 .. Len(awaiting) : awaiting'[i].waiters = awaiting[i].waiters \ {s}
          /\ awaiting = <<>> => awaiting' = <<>>
      BY <2>2, RemoveFlow, ZenonT(30)
    <3>2. \A i \in 1 .. Len(awaiting') : \A t \in awaiting'[i].waiters :
            t \in Session /\ t # s /\ session[t].status = "open" /\ ~session[t].firehose
      BY <2>1, <3>1, Zenon DEF FlowInv
    <3>3. ~BrokerAck => awaiting' = <<>>
      BY <3>1, Zenon DEF FlowInv
    <3>4. ~failed' => QueueOK(released', awaiting', offset')
      BY <3>1, Zenon DEF FlowInv
    <3>. QED  BY <1>2, <3>2, <3>3, <3>4
  <2>3. CASE /\ awaiting' = awaiting
             /\ \/ tt.status = session[s].status /\ tt.firehose = session[s].firehose
                \/ session[s].status # "open"
    <3>1. \A i \in 1 .. Len(awaiting') : \A t \in awaiting'[i].waiters :
            t \in Session /\ session[t].status = "open" /\ ~session[t].firehose
      BY <2>1, <2>3, Zenon DEF FlowInv
    <3>2. ~BrokerAck => awaiting' = <<>>
      BY <2>3, Zenon DEF FlowInv
    <3>3. ~failed' => QueueOK(released', awaiting', offset')
      BY <2>3 DEF FlowInv
    <3>. QED  BY <1>2, <2>3, <3>1, <3>2, <3>3, SMTT(30)
  <2>. QED  BY <2>2, <2>3, Zenon DEF KeepsPlaces
<1>. QED  BY <1>3, <1>4, <1>5, Zenon DEF FlowInv

\* A connection that is new, or gone, has nothing queued.
LEMMA FreshPlain ==
  LET gone == [Fresh EXCEPT !.status = "absent"]
  IN  /\ LinkOK(Fresh) /\ Fresh.status = "open" /\ LinkOK(gone)
<1>1. LinkOK(Fresh) /\ Fresh.status = "open"
  BY DEF LinkOK, Plain, Numbered, Fresh
<1>2. LinkOK([Fresh EXCEPT !.status = "absent"])
  BY DEF LinkOK, Plain, Numbered, Fresh
<1>. QED  BY <1>1, <1>2, Zenon

\* A connection is accepted, or its peer closes it.
LEMMA AcceptFlow ==
  ASSUME TypeOK, FlowInv, NEW s \in Session, accept(s) \/ disconnect(s)
  PROVE  FlowInv'
<1>. DEFINE gone == [Fresh EXCEPT !.status = "absent"]
<1>1. LinkOK(Fresh) /\ LinkOK(gone)
  BY FreshPlain
<1>2. CASE accept(s)
  <2>1. /\ session[s].status # "open" /\ session' = [session EXCEPT ![s] = Fresh]
        /\ UNCHANGED <<failed, offset, released, awaiting, subscribers>>
    BY <1>2, Zenon DEF accept
  <2>2. s \notin subscribers'
    BY <2>1 DEF FlowInv
  <2>3. KeepsPlaces(s, Fresh) /\ KeepsStream(s, Fresh)
    BY <2>1, <2>2 DEF KeepsPlaces, KeepsStream
  <2>. QED  BY <1>1, <2>1, <2>3, OneLinkFlow, ZenonT(30)
<1>3. CASE disconnect(s)
  <2>1. /\ session' = [session EXCEPT ![s] = gone] /\ awaiting' = RemoveWaiter(s)
        /\ subscribers' = subscribers \ {s} /\ UNCHANGED <<failed, offset, released>>
    BY <1>3 DEF disconnect, Drop
  <2>. HIDE DEF gone
  <2>2. KeepsPlaces(s, gone) /\ KeepsStream(s, gone)
    BY <2>1, Zenon DEF KeepsPlaces, KeepsStream
  <2>. QED  BY <1>1, <2>1, <2>2, OneLinkFlow, Zenon
<1>. QED  BY <1>2, <1>3

\* The hello is the last reply of a follower, and announces where its stream starts.
LEMMA SubscribeFlow ==
  ASSUME TypeOK, FlowInv, NEW s \in Session, subscribe(s)
  PROVE  FlowInv'
<1>. DEFINE r == [seq |-> session[s].next_seq, need |-> session[s].next_need, upto |-> 0,
                  hello |-> Announced]
            uu == record_reply(session[s], 0, Announced)
            vv == [uu EXCEPT !.firehose = TRUE]
            tt == IF failed /\ BrokerAck
                  THEN require_kafka_ack(vv, session[s].next_seq, Never) ELSE vv
<1>1. /\ session' = [session EXCEPT ![s] = tt] /\ awaiting' = RemoveWaiter(s)
      /\ subscribers' = subscribers \cup {s} /\ Accepts(s)
      /\ UNCHANGED <<failed, offset, released>>
  BY DEF subscribe
<1>2. /\ session[s].status = "open" /\ ~session[s].firehose /\ ~session[s].blocked
      /\ session[s] \in SessionState /\ Plain(session[s])
  BY <1>1, NotFollowing DEF Accepts
<1>3. Announced \in Nat /\ Announced \in Int /\ (~failed => released = Announced)
  BY DEF Announced, TypeOK, FlowInv, QueueOK
<1>4. /\ uu \in SessionState /\ uu.replies = Append(session[s].replies, r) /\ r \in Reply
      /\ uu.next_seq = session[s].next_seq + 1 /\ SameLink(session[s], uu)
  BY <1>2, <1>3, RecordReply, ZenonT(30)
<1>5. r.seq = session[s].next_seq /\ r.hello = Announced
  OBVIOUS
<1>6. uu.blocked = session[s].blocked
  <2>1. PICK q, n : uu = [session[s] EXCEPT !.replies = q, !.next_seq = n, !.next_need = 0]
    BY Zenon DEF record_reply
  <2>2. [session[s] EXCEPT !.replies = q, !.next_seq = n, !.next_need = 0].blocked
          = session[s].blocked
    BY <1>2 DEF SessionState
  <2>. QED  BY <2>1, <2>2, Zenon
<1>. HIDE DEF uu, r
<1>7. /\ vv \in SessionState /\ vv.replies = uu.replies /\ vv.next_seq = uu.next_seq
      /\ vv.out = uu.out /\ vv.seen = uu.seen /\ vv.status = uu.status
      /\ vv.firehose /\ vv.blocked = uu.blocked
  BY <1>4, Zenon DEF SessionState
<1>. HIDE DEF vv
<1>8. tt.status = "open" /\ tt.firehose /\ ~tt.blocked
  <2>1. vv.status = "open" /\ vv.firehose /\ ~vv.blocked
    BY <1>2, <1>4, <1>6, <1>7 DEF SameLink
  <2>2. LET ww == require_kafka_ack(vv, session[s].next_seq, Never)
        IN  ww.status = vv.status /\ ww.firehose = vv.firehose /\ ww.blocked = vv.blocked
    <3>1. PICK q, n : require_kafka_ack(vv, session[s].next_seq, Never)
                        \in {[vv EXCEPT !.replies = q], [vv EXCEPT !.next_need = n]}
      BY Zenon DEF require_kafka_ack
    <3>2. LET ww == [vv EXCEPT !.replies = q]
          IN  ww.status = vv.status /\ ww.firehose = vv.firehose /\ ww.blocked = vv.blocked
      BY <1>7, Zenon DEF SessionState
    <3>3. LET ww == [vv EXCEPT !.next_need = n]
          IN  ww.status = vv.status /\ ww.firehose = vv.firehose /\ ww.blocked = vv.blocked
      BY <1>7, Zenon DEF SessionState
    <3>. QED  BY <3>1, <3>2, <3>3, Zenon
  <2>. QED  BY <2>1, <2>2, ZenonT(30)
<1>9. ASSUME ~failed
      PROVE  StreamOK(tt, released)
  <2>1. tt = vv /\ released = Announced
    BY <1>3, <1>9, Zenon
  <2>2. /\ vv.replies = Append(session[s].replies, r) /\ vv.next_seq = session[s].next_seq + 1
        /\ vv.out = <<>> /\ vv.seen = -1
        /\ session[s].replies \in Seq(Reply) /\ session[s].next_seq \in Nat
        /\ \A i \in 1 .. Len(session[s].replies) : session[s].replies[i].seq \in Nat
    <3>1. /\ session[s].replies \in Seq(Reply) /\ session[s].next_seq \in Nat
          /\ \A i \in 1 .. Len(session[s].replies) : session[s].replies[i].seq \in Nat
      BY <1>2, QueueFields, Zenon
    <3>. QED  BY <1>2, <1>4, <1>7, <3>1, Zenon DEF SameLink, Plain
  <2>3. /\ vv.replies # <<>> /\ Len(vv.replies) = Len(session[s].replies) + 1
        /\ vv.replies[Len(vv.replies)] = r
        /\ \A i \in 1 .. Len(session[s].replies) : vv.replies[i] = session[s].replies[i]
    BY <2>2
  <2>4. Numbered(vv)
    <3>1. ASSUME NEW i \in 1 .. Len(vv.replies)
          PROVE  vv.replies[i].seq < vv.next_seq
      <4>1. CASE i = Len(vv.replies)
        BY <1>5, <2>2, <2>3, <4>1, SMTT(30)
      <4>2. CASE i # Len(vv.replies)
        <5>1. i \in 1 .. Len(session[s].replies)
          BY <2>2, <2>3, <4>2, SMTT(30)
        <5>2. session[s].replies[i].seq < session[s].next_seq
          BY <1>2, <5>1, Zenon DEF Plain, Numbered
        <5>3. session[s].replies[i].seq \in Nat /\ vv.replies[i] = session[s].replies[i]
          BY <2>2, <2>3, <5>1, Zenon
        <5>. QED  BY <2>2, <5>2, <5>3, SMTT(30)
      <4>. QED  BY <4>1, <4>2, Zenon
    <3>. QED  BY <3>1 DEF Numbered
  <2>5. HelloQueued(vv)
    BY <1>2, <1>3, <1>5, <2>2, <2>3, SMTT(30) DEF HelloQueued, Plain
  <2>6. StreamOK(vv, Announced)
    BY <1>5, <2>2, <2>3, <2>4, <2>5, SMTT(30) DEF StreamOK, Start
  <2>. QED  BY <2>1, <2>6, Zenon
<1>10. LinkOK(tt)
  BY <1>8 DEF LinkOK
<1>. HIDE DEF tt
<1>11. KeepsPlaces(s, tt) /\ KeepsStream(s, tt)
  BY <1>1, <1>8, <1>9, ZenonT(30) DEF KeepsPlaces, KeepsStream
<1>. QED  BY <1>1, <1>10, <1>11, OneLinkFlow, Zenon

\* A write, after which the connection may be closed.
LEMMA WriteFlow ==
  ASSUME TypeOK, FlowInv, NEW s \in Session, write_client(s)
  PROVE  FlowInv'
<1>. DEFINE ss == session[s]
            after == Written(ss)
            closed == [after EXCEPT !.status = "closed"]
<1>1. /\ has_writable_output(ss)
      /\ \/ session' = [session EXCEPT ![s] = closed] /\ awaiting' = RemoveWaiter(s)
            /\ subscribers' = subscribers \ {s}
         \/ session' = [session EXCEPT ![s] = after] /\ awaiting' = awaiting
            /\ subscribers' = subscribers
      /\ UNCHANGED <<failed, offset, released>>
  BY Zenon DEF write_client, Drop
<1>2. ss \in SessionState /\ LinkOK(ss) /\ released \in Nat
  BY Zenon DEF TypeOK, FlowInv
<1>3. s \in subscribers => /\ ss.status = "open" /\ ss.firehose
                           /\ ~failed => StreamOK(ss, released)
  BY DEF FlowInv
<1>. HIDE DEF ss
<1>4. after \in SessionState
  BY <1>1, <1>2, WrittenHeld, Zenon
<1>5. /\ after.status = ss.status /\ after.firehose = ss.firehose
      /\ after.blocked = ss.blocked
  BY <1>1, <1>2, WrittenFields, Zenon
<1>6. LinkOK(after)
  BY <1>1, <1>2, <1>5, WrittenPlain, Zenon DEF LinkOK
<1>7. s \in subscribers /\ ~failed => StreamOK(after, released)
  BY <1>1, <1>2, <1>3, WrittenStream, SMTT(30)
<1>. HIDE DEF after
<1>8. LinkOK(closed)
  <2>1. /\ closed.firehose = after.firehose /\ closed.blocked = after.blocked
        /\ closed.replies = after.replies /\ closed.next_seq = after.next_seq
        /\ closed.out = after.out /\ closed.seen = after.seen
    BY <1>4 DEF SessionState
  <2>. HIDE DEF closed
  <2>. QED  BY <1>6, <2>1 DEF LinkOK, Plain, Numbered
<1>. HIDE DEF closed
<1>9. CASE /\ session' = [session EXCEPT ![s] = closed] /\ awaiting' = RemoveWaiter(s)
           /\ subscribers' = subscribers \ {s}
  <2>1. KeepsPlaces(s, closed) /\ KeepsStream(s, closed)
    BY <1>9, Zenon DEF KeepsPlaces, KeepsStream
  <2>. QED  BY <1>1, <1>8, <1>9, <2>1, OneLinkFlow, Zenon
<1>10. CASE /\ session' = [session EXCEPT ![s] = after] /\ awaiting' = awaiting
            /\ subscribers' = subscribers
  <2>1. KeepsPlaces(s, after)
    BY <1>5, <1>10, Zenon DEF KeepsPlaces, ss
  <2>2. KeepsStream(s, after)
    BY <1>3, <1>5, <1>7, <1>10, ZenonT(30) DEF KeepsStream
  <2>. QED  BY <1>1, <1>6, <1>10, <2>1, <2>2, OneLinkFlow, ZenonT(30)
<1>. QED  BY <1>1, <1>9, <1>10, Zenon

\* The first batch is released: it continues every follower's stream.
LEMMA ReleaseFlow ==
  ASSUME TypeOK, FlowInv, BrokerAck, awaiting # <<>>, release_acknowledged
  PROVE  FlowInv'
<1>. DEFINE batch == awaiting[1]
            freed == [t \in Session |-> IF t \in batch.waiters
                                        THEN release_kafka_ack(session[t], batch.last)
                                        ELSE session[t]]
<1>1. /\ awaiting' = Tail(awaiting) /\ released' = batch.last
      /\ broadcast(freed, batch.first, batch.last)
      /\ failed' = failed /\ offset' = offset
  <2>1. Head(awaiting) = batch
    BY DEF TypeOK
  <2>. HIDE DEF batch
  <2>. QED  BY <2>1 DEF release_acknowledged
<1>2. /\ awaiting \in Seq(Batch) /\ session \in [Session -> SessionState] /\ released \in Nat
      /\ offset \in Nat /\ subscribers \subseteq Session
  BY DEF TypeOK
<1>3. /\ 1 \in 1 .. Len(awaiting) /\ Len(Tail(awaiting)) = Len(awaiting) - 1
      /\ \A i \in 1 .. Len(Tail(awaiting)) : i + 1 \in 1 .. Len(awaiting)
                                             /\ Tail(awaiting)[i] = awaiting[i + 1]
  BY <1>2
<1>4. \A i \in 1 .. Len(awaiting) : /\ awaiting[i].waiters \subseteq Session
                                    /\ awaiting[i].first \in Nat /\ awaiting[i].last \in Nat
  BY <1>2, BatchFields, Zenon
<1>5. batch.first \in Nat /\ batch.last \in Nat /\ batch.waiters \subseteq Session
      /\ \A t \in batch.waiters : session[t].status = "open" /\ ~session[t].firehose
  BY <1>3, <1>4, Zenon DEF FlowInv
<1>. HIDE DEF batch
<1>6. AllQuiet(freed)
  <2>0. AllQuiet(session)
    BY QuietSame, Zenon
  <2>1. ASSUME NEW t \in Session
        PROVE  freed[t] \in SessionState /\ Quiet(session[t], freed[t])
    <3>1. CASE t \in batch.waiters
      <4>. DEFINE tt == release_kafka_ack(session[t], batch.last)
      <4>1. session[t] \in SessionState /\ ~session[t].firehose /\ Plain(session[t])
        BY <1>2, <1>5, <3>1, Zenon DEF FlowInv, LinkOK
      <4>2. /\ tt \in SessionState /\ Plain(tt)
            /\ tt.status = session[t].status /\ tt.firehose = session[t].firehose
        BY <1>5, <4>1, ReleasePlain, ZenonT(30)
      <4>3. freed[t] = tt
        BY <3>1, Zenon
      <4>. QED  BY <4>1, <4>2, <4>3, Zenon DEF Quiet
    <3>2. CASE t \notin batch.waiters
      BY <2>0, <3>2, Zenon DEF AllQuiet
    <3>. QED  BY <3>1, <3>2, Zenon
  <2>2. freed \in [Session -> SessionState]
    BY <2>1, Zenon
  <2>. QED  BY <2>1, <2>2, Zenon DEF AllQuiet
<1>. HIDE DEF freed
<1>7. /\ LinksKept
      /\ subscribers' \subseteq subscribers
      /\ \A upto \in Nat : upto < batch.last /\ batch.first = upto + 1
           => \A t \in subscribers' : StreamOK(session[t], upto)
                                      => StreamOK(session'[t], batch.last)
  BY <1>1, <1>5, <1>6, BroadcastFlow, Zenon
<1>8. \A t \in subscribers' : session'[t].status = "open" /\ session'[t].firehose
  BY <1>2, <1>7, Zenon DEF FlowInv, LinksKept
<1>9. \A i \in 1 .. Len(awaiting') : \A t \in awaiting'[i].waiters :
        session'[t].status = "open" /\ ~session'[t].firehose
  <2>1. ASSUME NEW i \in 1 .. Len(awaiting'), NEW t \in awaiting'[i].waiters
        PROVE  t \in Session /\ session[t].status = "open" /\ ~session[t].firehose
    <3>1. i + 1 \in 1 .. Len(awaiting) /\ t \in awaiting[i + 1].waiters
      BY <1>1, <1>3, Zenon
    <3>. QED  BY <1>4, <3>1, Zenon DEF FlowInv
  <2>. QED  BY <1>7, <2>1, Zenon DEF LinksKept
<1>10. ASSUME ~failed'
       PROVE  /\ QueueOK(released', awaiting', offset')
              /\ \A t \in subscribers' : StreamOK(session'[t], released')
  <2>1. /\ batch.first = released + 1 /\ batch.first <= batch.last
        /\ QueueOK(batch.last, Tail(awaiting), offset)
    BY <1>1, <1>2, <1>10, QueueTail, Zenon DEF FlowInv, batch
  <2>2. released < batch.last
    BY <1>2, <1>5, <2>1, SMTT(30)
  <2>. QED  BY <1>1, <1>2, <1>7, <1>10, <2>1, <2>2, Zenon DEF FlowInv
<1>. QED  BY <1>7, <1>8, <1>9, <1>10, Zenon DEF FlowInv, LinksKept

\* A poll, a stop and a stutter touch neither the connections nor the queue.
LEMMA IdleFlow ==
  ASSUME FlowInv, Poll \/ stop \/ UNCHANGED vars
  PROVE  FlowInv'
<1>1. UNCHANGED <<failed, offset, released, awaiting, subscribers, session>>
  BY DEF Poll, poll_kafka_journal, stop, vars
<1>. QED  BY <1>1, Zenon DEF FlowInv

\* No connection and no batch when the runtime starts.
LEMMA FlowInit == Init => FlowInv
<1>. SUFFICES ASSUME Init PROVE FlowInv
  OBVIOUS
<1>. DEFINE gone == [Fresh EXCEPT !.status = "absent"]
<1>1. LinkOK(gone) /\ session = [t \in Session |-> gone]
  BY FreshPlain, Zenon DEF Init
<1>. HIDE DEF gone
<1>. QED  BY <1>1 DEF Init, FlowInv, QueueOK

\* No step of the server breaks a follower's stream or leaves a pointer behind (Next).
LEMMA FlowStep == DurableInv /\ FlowInv /\ [Next]_vars => FlowInv'
<1>. SUFFICES ASSUME DurableInv, FlowInv, [Next]_vars PROVE FlowInv'
  OBVIOUS
<1>1. TypeOK /\ \A k \in 0 .. MaxCommand : k \in Nat
  BY BoundAssumption DEF DurableInv
<1>2. ASSUME NEW s \in Clients, Client(s) PROVE FlowInv'
  <2>. s \in Session
    BY DEF Session
  <2>1. ASSUME NEW k \in 0 .. MaxCommand, NEW T \in SUBSET Blocked,
               dispatch_resp_command(s, k, T)
        PROVE  FlowInv'
    BY <1>1, <2>1, RespFlow, Zenon
  <2>2. ASSUME NEW k \in 0 .. MaxCommand, dispatch_sbe_command(s, k)
        PROVE  FlowInv'
    BY <1>1, <2>2, SbeFlow, Zenon
  <2>3. CASE park(s) \/ quit(s)
    BY <1>1, <2>3, OneFlow, Zenon
  <2>. QED  BY <1>2, <2>1, <2>2, <2>3, Zenon DEF Client
<1>3. ASSUME NEW s \in Followers, subscribe(s) PROVE FlowInv'
  BY <1>1, <1>3, SubscribeFlow, Zenon DEF Session
<1>4. ASSUME NEW s \in Session, accept(s) \/ write_client(s) \/ disconnect(s)
      PROVE  FlowInv'
  BY <1>1, <1>4, AcceptFlow, WriteFlow, Zenon
<1>5. ASSUME NEW s \in Session, serve_ready(s) \/ blocked_deadline(s)
      PROVE  FlowInv'
  BY <1>1, <1>5, OneFlow, Zenon
<1>6. CASE release_acknowledged
  <2>1. BrokerAck /\ awaiting # <<>>
    BY <1>6 DEF DurableInv, JournalInv, release_acknowledged, AckedFront
  <2>. QED  BY <1>1, <1>6, <2>1, ReleaseFlow, SMTT(30)
<1>. QED
  BY <1>2, <1>3, <1>4, <1>5, <1>6, IdleFlow, Zenon DEF Next

\* The connections and the streams are in order in every reachable state.
THEOREM FlowInvariant == Spec => []FlowInv
<1>1. Init => FlowInv
  BY FlowInit
<1>2. DurableInv /\ FlowInv /\ [Next]_vars => FlowInv'
  BY FlowStep
<1>. QED  BY <1>1, <1>2, DurableInvariant, PTL DEF Spec

\* For any number of clients and followers: the runtime never keeps a pointer to a closed
\* connection, as a subscriber or as a waiter (remove).
THEOREM NoSessionDangles == Spec => []NoDanglingSession
<1>1. TypeOK /\ FlowInv => NoDanglingSession
  <2>1. TypeOK => DOMAIN awaiting = 1 .. Len(awaiting)
    BY DEF TypeOK
  <2>. QED  BY <2>1 DEF FlowInv, NoDanglingSession
<1>. QED  BY <1>1, TypeCorrect, FlowInvariant, PTL

\* The hello of a follower starts its stream.
LEMMA StartIsHello ==
  ASSUME NEW ss \in SessionState, NEW upto, StreamOK(ss, upto)
  PROVE  HelloOf(ss) = Start(ss)
<1>. DEFINE hellos == {i \in DOMAIN ss.replies : ss.replies[i].hello >= 0}
<1>1. ss.replies \in Seq(Reply) /\ DOMAIN ss.replies = 1 .. Len(ss.replies)
  BY QueueFields
<1>2. CASE ss.replies = <<>>
  <2>1. hellos = {}
    BY <1>2
  <2>. QED  BY <1>2, <2>1 DEF HelloOf, Start
<1>3. CASE ss.replies # <<>>
  <2>. DEFINE n == Len(ss.replies)
  <2>1. n \in 1 .. n
    BY <1>1, <1>3, SMTT(30)
  <2>2. /\ ss.replies[n].hello >= 0
        /\ \A i \in 1 .. n - 1 : ss.replies[i].hello = -1
    BY <1>3 DEF StreamOK, HelloQueued
  <2>3. hellos = {n}
    <3>1. \A i \in 1 .. n : i # n => i \in 1 .. n - 1
      OBVIOUS
    <3>. HIDE DEF n
    <3>. QED  BY <1>1, <2>1, <2>2, <3>1, SMTT(30) DEF n
  <2>4. (CHOOSE i \in hellos : TRUE) = n /\ hellos # {}
    <3>. HIDE DEF hellos, n
    <3>. QED  BY <2>3
  <2>5. HelloOf(ss) = ss.replies[n].hello
    BY <2>4, ZenonT(30) DEF HelloOf
  <2>. QED  BY <1>3, <2>5 DEF Start
<1>. QED  BY <1>2, <1>3, Zenon

\* For any number of followers, queue size and acknowledgement mode: as long as
\* replication has not failed, what a follower has received and what is queued for it is
\* one stream without a gap or a repetition, up to the offset released (subscribe,
\* broadcast, terminate, release_acknowledged).
THEOREM StreamsAreContiguous == Spec => []StreamContiguous
<1>1. TypeOK /\ FlowInv => StreamContiguous
  <2>. SUFFICES ASSUME TypeOK, FlowInv, ~failed, NEW s \in subscribers
       PROVE  LET ss == session[s]
              IN  /\ \A i \in DOMAIN ss.out :
                       ss.out[i].first = (IF i = 1 THEN HelloOf(ss) ELSE ss.out[i - 1].last) + 1
                  /\ released = IF ss.out = <<>> THEN HelloOf(ss) ELSE ss.out[Len(ss.out)].last
    BY Zenon DEF StreamContiguous
  <2>. DEFINE ss == session[s]
  <2>1. ss \in SessionState /\ StreamOK(ss, released)
    BY Zenon DEF TypeOK, FlowInv
  <2>. HIDE DEF ss
  <2>2. HelloOf(ss) = Start(ss) /\ DOMAIN ss.out = 1 .. Len(ss.out)
    BY <2>1, StartIsHello, QueueFields, SMTT(30)
  <2>3. /\ \A i \in DOMAIN ss.out :
             ss.out[i].first = (IF i = 1 THEN HelloOf(ss) ELSE ss.out[i - 1].last) + 1
        /\ released = IF ss.out = <<>> THEN HelloOf(ss) ELSE ss.out[Len(ss.out)].last
    BY <2>1, <2>2 DEF StreamOK
  <2>. QED  BY <2>3, Zenon DEF ss
<1>. QED  BY <1>1, TypeCorrect, FlowInvariant, PTL
=============================================================================
