------------------------- MODULE ReplicationProofs -------------------------
(***************************************************************************)
(* Proofs about ReplicationRuntime.                                        *)
(***************************************************************************)
EXTENDS ReplicationRuntime, FiniteSetTheorems, TLAPS

\* A function on 1 .. n with values in S is a sequence of n elements of S.
LEMMA SeqIntro ==
  ASSUME NEW S, NEW n \in Nat, NEW f \in [1 .. n -> S]
  PROVE  f \in Seq(S) /\ Len(f) = n /\ DOMAIN f = 1 .. n
  OBVIOUS

\* The offset that is never acknowledged is a number.
LEMMA NeverNat == Never \in Nat
  BY BoundAssumption DEF Never

\* MaxOf is an upper bound of its arguments and one of them.
LEMMA MaxOfNat ==
  ASSUME NEW a \in Int, NEW b \in Int
  PROVE  /\ MaxOf(a, b) \in {a, b}
         /\ MaxOf(a, b) >= a /\ MaxOf(a, b) >= b
  BY DEF MaxOf

\* What a change to the replies of a session leaves alone.
SameLink(ss, tt) ==
  tt.status = ss.status /\ tt.firehose = ss.firehose /\ tt.out = ss.out /\ tt.seen = ss.seen

\* record_reply appends one reply with the next sequence number (EndpointSession).
LEMMA RecordReply ==
  ASSUME NEW ss \in SessionState, NEW upto \in Nat, NEW hello \in Int
  PROVE  LET r == [seq |-> ss.next_seq, need |-> ss.next_need, upto |-> upto, hello |-> hello]
             tt == record_reply(ss, upto, hello)
         IN  /\ tt \in SessionState
             /\ tt.replies = Append(ss.replies, r) /\ r \in Reply
             /\ tt.next_seq = ss.next_seq + 1
             /\ SameLink(ss, tt)
<1>. DEFINE r == [seq |-> ss.next_seq, need |-> ss.next_need, upto |-> upto, hello |-> hello]
            q == Append(ss.replies, r)
            n == ss.next_seq + 1
<1>1. r \in Reply
  BY DEF Reply, SessionState
<1>2. q \in Seq(Reply) /\ n \in Nat
  BY <1>1 DEF SessionState
<1>3. record_reply(ss, upto, hello) = [ss EXCEPT !.replies = q, !.next_seq = n, !.next_need = 0]
  BY DEF record_reply
<1>. HIDE DEF q, n
<1>4. [ss EXCEPT !.replies = q, !.next_seq = n, !.next_need = 0] \in SessionState
  BY <1>2, Zenon DEF SessionState
<1>5. LET tt == [ss EXCEPT !.replies = q, !.next_seq = n, !.next_need = 0]
      IN tt.replies = q /\ tt.next_seq = n /\ SameLink(ss, tt)
  BY DEF SessionState, SameLink
<1>. QED  BY <1>1, <1>3, <1>4, <1>5 DEF q, n

\* Holding replies keeps their number, their sequence numbers and their histories.
LEMMA HeldRepliesType ==
  ASSUME NEW q \in Seq(Reply), NEW first \in Nat, NEW logical \in Nat
  PROVE  /\ HeldReplies(q, first, logical) \in Seq(Reply)
         /\ Len(HeldReplies(q, first, logical)) = Len(q)
<1>1. \A i \in 1 .. Len(q) : q[i] \in Reply
  OBVIOUS
<1>2. ASSUME NEW r \in Reply
      PROVE  [r EXCEPT !.need = MaxOf(r.need, logical)] \in Reply
  <2>1. MaxOf(r.need, logical) \in Nat
    BY MaxOfNat DEF Reply, MaxOf
  <2>. QED  BY <2>1 DEF Reply
<1>3. HeldReplies(q, first, logical) \in [1 .. Len(q) -> Reply]
  BY <1>1, <1>2 DEF HeldReplies
<1>. QED  BY <1>3, SeqIntro

\* require_kafka_ack raises the replies from first on, or the reply to come.
LEMMA RequireAck ==
  ASSUME NEW ss \in SessionState, NEW first \in Nat, NEW logical \in Nat
  PROVE  LET tt == require_kafka_ack(ss, first, logical)
             found == \E i \in DOMAIN ss.replies : ss.replies[i].seq >= first
         IN  /\ tt \in SessionState
             /\ SameLink(ss, tt) /\ tt.next_seq = ss.next_seq
             /\ found => tt.replies = HeldReplies(ss.replies, first, logical)
             /\ ~found => tt.replies = ss.replies /\ tt.next_need = MaxOf(ss.next_need, logical)
<1>. DEFINE found == \E i \in DOMAIN ss.replies : ss.replies[i].seq >= first
            q == HeldReplies(ss.replies, first, logical)
            n == MaxOf(ss.next_need, logical)
<1>1. q \in Seq(Reply)
  BY HeldRepliesType DEF SessionState
<1>2. n \in Nat
  BY MaxOfNat DEF SessionState
<1>3. require_kafka_ack(ss, first, logical) =
        IF found THEN [ss EXCEPT !.replies = q] ELSE [ss EXCEPT !.next_need = n]
  BY DEF require_kafka_ack
<1>. HIDE DEF q, n, found
<1>4. LET tt == [ss EXCEPT !.replies = q]
      IN  tt \in SessionState /\ SameLink(ss, tt) /\ tt.next_seq = ss.next_seq /\ tt.replies = q
  BY <1>1, Zenon DEF SessionState, SameLink
<1>5. LET tt == [ss EXCEPT !.next_need = n]
      IN  /\ tt \in SessionState /\ SameLink(ss, tt) /\ tt.next_seq = ss.next_seq
          /\ tt.replies = ss.replies /\ tt.next_need = n
  BY <1>2 DEF SessionState, SameLink
<1>6. CASE found
  BY <1>3, <1>4, <1>6 DEF q, found
<1>7. CASE ~found
  BY <1>3, <1>5, <1>7 DEF n, found
<1>. QED  BY <1>6, <1>7

\* release_kafka_ack frees the replies held for logical or less.
LEMMA ReleaseAck ==
  ASSUME NEW ss \in SessionState, NEW logical \in Nat
  PROVE  LET tt == release_kafka_ack(ss, logical)
         IN  /\ tt \in SessionState
             /\ SameLink(ss, tt) /\ tt.next_seq = ss.next_seq
             /\ tt.replies = FreedReplies(ss.replies, logical)
             /\ Len(tt.replies) = Len(ss.replies)
<1>. DEFINE q == FreedReplies(ss.replies, logical)
            n == IF ss.next_need <= logical THEN 0 ELSE ss.next_need
<1>1. \A i \in 1 .. Len(ss.replies) : ss.replies[i] \in Reply
  BY DEF SessionState
<1>2. \A r \in Reply : [r EXCEPT !.need = 0] \in Reply
  BY DEF Reply
<1>3. q \in [1 .. Len(ss.replies) -> Reply] /\ Len(ss.replies) \in Nat
  BY <1>1, <1>2 DEF FreedReplies, SessionState
<1>4. q \in Seq(Reply) /\ Len(q) = Len(ss.replies)
  <2>. HIDE DEF q
  <2>. QED  BY <1>3, SeqIntro
<1>5. n \in Nat
  BY DEF SessionState
<1>6. release_kafka_ack(ss, logical) = [ss EXCEPT !.replies = q, !.next_need = n]
  BY DEF release_kafka_ack
<1>. HIDE DEF q, n
<1>. QED  BY <1>4, <1>5, <1>6, Zenon DEF SessionState, SameLink, q

\* push appends one frame with the next sequence number.
LEMMA Push ==
  ASSUME NEW ss \in SessionState, NEW first \in Nat, NEW last \in Nat
  PROVE  LET tt == push(ss, first, last)
             f == [seq |-> ss.next_seq, first |-> first, last |-> last]
         IN  /\ tt \in SessionState /\ f \in Frame
             /\ tt.out = Append(ss.out, f) /\ tt.next_seq = ss.next_seq + 1
             /\ tt.replies = ss.replies /\ tt.seen = ss.seen
             /\ tt.status = ss.status /\ tt.firehose = ss.firehose
<1>. DEFINE f == [seq |-> ss.next_seq, first |-> first, last |-> last]
            q == Append(ss.out, f)
            n == ss.next_seq + 1
<1>1. f \in Frame /\ n \in Nat
  BY DEF Frame, SessionState
<1>2. q \in Seq(Frame)
  BY <1>1 DEF SessionState
<1>3. push(ss, first, last) = [ss EXCEPT !.out = q, !.next_seq = n]
  BY DEF push
<1>. HIDE DEF q, n
<1>. QED  BY <1>1, <1>2, <1>3, Zenon DEF SessionState, q, n
-----------------------------------------------------------------------------
(* What a session may hold, D being what the brokers hold: a reply is either held for an *)
(* offset that covers it or covered by D, and so is everything its follower hears of.    *)

Covered(u, D) == 1 .. u \subseteq D
ReplyHeld(r, D) ==
  /\ r.upto <= Never
  /\ r.upto \notin {0, Never} => IF r.need = 0 THEN Covered(r.upto, D) ELSE r.upto <= r.need
  /\ r.hello > 0 => Covered(r.hello, D)
RepliesHeld(q, n, D) == \A i \in 1 .. Len(q) : q[i].seq < n /\ ReplyHeld(q[i], D)
FramesHeld(q, D) == \A i \in 1 .. Len(q) : Covered(q[i].last, D)
SessionHeld(ss, D) ==
  /\ RepliesHeld(ss.replies, ss.next_seq, D)
  /\ FramesHeld(ss.out, D)
  /\ ss.seen > 0 => Covered(ss.seen, D)

\* Nothing is uncovered when the brokers hold more.
LEMMA HeldMono ==
  ASSUME NEW ss \in SessionState, NEW D, NEW E, D \subseteq E, SessionHeld(ss, D)
  PROVE  SessionHeld(ss, E)
<1>1. \A u : Covered(u, D) => Covered(u, E)
  BY DEF Covered
<1>2. \A r : ReplyHeld(r, D) => ReplyHeld(r, E)
  BY <1>1 DEF ReplyHeld
<1>. QED  BY <1>1, <1>2 DEF SessionHeld, RepliesHeld, FramesHeld

\* tt is ss with one more reply, of history upto.
Answered(ss, tt, upto) ==
  /\ tt \in SessionState
  /\ tt.next_seq = ss.next_seq + 1
  /\ tt.out = ss.out /\ tt.seen = ss.seen
  /\ \E r \in Reply : /\ tt.replies = Append(ss.replies, r)
                      /\ r.seq = ss.next_seq /\ r.upto = upto /\ r.hello <= 0

\* The replies of a session with one more, all held, are held.
LEMMA AppendHeld ==
  ASSUME NEW q \in Seq(Reply), NEW r \in Reply, NEW n \in Nat, NEW D,
         RepliesHeld(q, n, D), r.seq = n, ReplyHeld(r, D)
  PROVE  RepliesHeld(Append(q, r), n + 1, D)
<1>1. \A i \in 1 .. Len(q) : q[i] \in Reply
  OBVIOUS
<1>2. \A i \in 1 .. Len(q) : q[i].seq \in Nat
  BY <1>1, Zenon DEF Reply
<1>3. ASSUME NEW i \in 1 .. Len(Append(q, r))
      PROVE  Append(q, r)[i].seq < n + 1 /\ ReplyHeld(Append(q, r)[i], D)
  <2>1. CASE i <= Len(q)
    BY <1>2, <2>1 DEF RepliesHeld
  <2>2. CASE i = Len(q) + 1
    BY <2>2 DEF RepliesHeld
  <2>. QED  BY <2>1, <2>2
<1>. QED  BY <1>3 DEF RepliesHeld

\* A reply without mutations in the log needs no holding.
LEMMA AnsweredHeld ==
  ASSUME NEW ss \in SessionState, NEW tt, NEW upto \in {0, Never}, NEW D,
         SessionHeld(ss, D), Answered(ss, tt, upto)
  PROVE  SessionHeld(tt, D)
<1>1. PICK r \in Reply : /\ tt.replies = Append(ss.replies, r)
                         /\ r.seq = ss.next_seq /\ r.upto = upto /\ r.hello <= 0
  BY DEF Answered
<1>2. ReplyHeld(r, D)
  BY <1>1, NeverNat DEF ReplyHeld, Reply
<1>3. ss.replies \in Seq(Reply) /\ ss.next_seq \in Nat
  BY DEF SessionState
<1>4. RepliesHeld(tt.replies, tt.next_seq, D)
  BY <1>1, <1>2, <1>3, AppendHeld DEF Answered, SessionHeld
<1>. QED  BY <1>4 DEF SessionHeld, Answered

\* record_reply answers.
LEMMA RecordAnswers ==
  ASSUME NEW ss \in SessionState, NEW upto \in Nat
  PROVE  Answered(ss, record_reply(ss, upto, -1), upto)
<1>. DEFINE r == [seq |-> ss.next_seq, need |-> ss.next_need, upto |-> upto, hello |-> -1]
            tt == record_reply(ss, upto, -1)
<1>1. /\ tt \in SessionState /\ tt.replies = Append(ss.replies, r) /\ r \in Reply
      /\ tt.next_seq = ss.next_seq + 1 /\ SameLink(ss, tt)
  BY RecordReply
<1>2. r.seq = ss.next_seq /\ r.upto = upto /\ r.hello <= 0
  OBVIOUS
<1>. HIDE DEF r, tt
<1>3. Answered(ss, tt, upto)
  BY <1>1, <1>2 DEF Answered, SameLink
<1>. QED  BY <1>3 DEF tt

\* An answered session that only changes its flags is still answered.
LEMMA FlagAnswers ==
  ASSUME NEW ss \in SessionState, NEW upto \in Nat, NEW b \in BOOLEAN
  PROVE  /\ Answered(ss, [record_reply(ss, upto, -1) EXCEPT !.blocked = b], upto)
         /\ Answered(ss, [record_reply(ss, upto, -1) EXCEPT !.close_after_write = b], upto)
<1>. DEFINE tt == record_reply(ss, upto, -1)
<1>1. Answered(ss, tt, upto)
  BY RecordAnswers
<1>. HIDE DEF tt
<1>2. LET xx == [tt EXCEPT !.blocked = b]
      IN  /\ xx \in SessionState /\ xx.replies = tt.replies /\ xx.next_seq = tt.next_seq
          /\ xx.out = tt.out /\ xx.seen = tt.seen
  BY <1>1, Zenon DEF Answered, SessionState
<1>3. LET xx == [tt EXCEPT !.close_after_write = b]
      IN  /\ xx \in SessionState /\ xx.replies = tt.replies /\ xx.next_seq = tt.next_seq
          /\ xx.out = tt.out /\ xx.seen = tt.seen
  BY <1>1, Zenon DEF Answered, SessionState
<1>4. Answered(ss, [tt EXCEPT !.blocked = b], upto)
  BY <1>1, <1>2 DEF Answered
<1>5. Answered(ss, [tt EXCEPT !.close_after_write = b], upto)
  BY <1>1, <1>3 DEF Answered
<1>. QED  BY <1>4, <1>5 DEF tt

\* A reply that is held once its need is at least logical.
MayRaise(r, logical, D) ==
  /\ r.upto <= Never
  /\ r.hello > 0 => Covered(r.hello, D)
  /\ r.upto \notin {0, Never} => 0 < logical /\ r.upto <= logical

\* Raising the need of replies to a bound of their histories keeps them held.
LEMMA RaisedHeld ==
  ASSUME NEW q \in Seq(Reply), NEW n \in Nat, NEW first \in Nat, NEW logical \in Nat, NEW D,
         \A i \in 1 .. Len(q) : q[i].seq < n,
         \A i \in 1 .. Len(q) : IF q[i].seq >= first THEN MayRaise(q[i], logical, D)
                                ELSE ReplyHeld(q[i], D)
  PROVE  RepliesHeld(HeldReplies(q, first, logical), n, D)
<1>. DEFINE h == HeldReplies(q, first, logical)
<1>1. Len(h) = Len(q)
  BY HeldRepliesType
<1>2. ASSUME NEW i \in 1 .. Len(q)
      PROVE  h[i].seq < n /\ ReplyHeld(h[i], D)
  <2>1. /\ q[i] \in Reply /\ q[i].seq < n
        /\ IF q[i].seq >= first THEN MayRaise(q[i], logical, D) ELSE ReplyHeld(q[i], D)
    OBVIOUS
  <2>5. q[i].seq \in Nat /\ q[i].need \in Nat /\ q[i].upto \in Nat
    <3>1. q[i] \in Reply
      BY <2>1
    <3>. QED  BY ONLY <3>1, Zenon DEF Reply
  <2>2. h[i] = IF q[i].seq >= first THEN [q[i] EXCEPT !.need = MaxOf(q[i].need, logical)] ELSE q[i]
    BY DEF HeldReplies
  <2>3. CASE ~(q[i].seq >= first)
    <3>1. h[i] = q[i]
      BY <2>2, <2>3
    <3>. HIDE DEF h
    <3>. QED  BY <2>1, <2>3, <3>1
  <2>4. CASE q[i].seq >= first
    <3>. DEFINE m == MaxOf(q[i].need, logical)
    <3>1. m \in Nat /\ m >= logical
      BY ONLY <2>5, logical \in Nat DEF MaxOf
    <3>2. MayRaise(q[i], logical, D)
      BY <2>1, <2>4
    <3>. HIDE DEF m
    <3>3. h[i] = [q[i] EXCEPT !.need = m]
      BY <2>2, <2>4 DEF m
    <3>4. /\ h[i].seq = q[i].seq /\ h[i].need = m
          /\ h[i].upto = q[i].upto /\ h[i].hello = q[i].hello
      <4>. HIDE DEF h
      <4>. QED  BY <2>1, <3>3 DEF Reply
    <3>. HIDE DEF h
    <3>6. ReplyHeld(h[i], D)
      BY <2>5, <3>1, <3>2, <3>4, NeverNat DEF ReplyHeld, MayRaise
    <3>. QED  BY <2>1, <3>4, <3>6
  <2>. QED  BY <2>3, <2>4
<1>. QED
  <2>. HIDE DEF h
  <2>1. RepliesHeld(h, n, D)
    BY <1>1, <1>2 DEF RepliesHeld
  <2>. QED  BY <2>1 DEF h

\* A reply recorded inside its Scope is held for the batch (finish, require_kafka_ack).
LEMMA AnsweredRequired ==
  ASSUME NEW ss \in SessionState, NEW uu, NEW upto \in Nat, NEW logical \in Nat, NEW D,
         SessionHeld(ss, D), Answered(ss, uu, upto), 0 < logical, upto <= logical,
         logical <= Never
  PROVE  LET tt == require_kafka_ack(uu, ss.next_seq, logical)
         IN  tt \in SessionState /\ SessionHeld(tt, D)
<1>1. PICK r \in Reply : /\ uu.replies = Append(ss.replies, r)
                         /\ r.seq = ss.next_seq /\ r.upto = upto /\ r.hello <= 0
  BY DEF Answered
<1>2. /\ uu \in SessionState /\ uu.next_seq = ss.next_seq + 1
      /\ uu.out = ss.out /\ uu.seen = ss.seen
  BY DEF Answered
<1>3. ss.replies \in Seq(Reply) /\ ss.next_seq \in Nat
  BY DEF SessionState
<1>. DEFINE q == uu.replies
            n == ss.next_seq
<1>4. \A i \in 1 .. Len(ss.replies) : ss.replies[i] \in Reply /\ ss.replies[i].seq < n
  BY <1>3 DEF SessionHeld, RepliesHeld
<1>5. /\ q \in Seq(Reply) /\ Len(q) = Len(ss.replies) + 1 /\ q[Len(ss.replies) + 1] = r
      /\ \A i \in 1 .. Len(ss.replies) : q[i] = ss.replies[i]
  <2>1. Append(ss.replies, r) \in Seq(Reply)
    BY <1>3
  <2>. QED  BY <1>1, <1>3, <2>1
<1>12. \A i \in 1 .. Len(ss.replies) : q[i].seq < n /\ q[i].seq \in Nat
  BY <1>4, <1>5, Zenon DEF Reply
<1>13. Len(q) = Len(ss.replies) + 1 /\ Len(ss.replies) \in Nat
  BY <1>3, <1>5
<1>7. \A i \in 1 .. Len(q) : q[i].seq < n + 1
  <2>. SUFFICES ASSUME NEW i \in 1 .. Len(q)
                PROVE  q[i].seq < n + 1
    OBVIOUS
  <2>1. CASE i \in 1 .. Len(ss.replies)
    <3>. HIDE DEF q
    <3>. QED  BY <1>3, <1>12, <2>1
  <2>2. CASE i = Len(ss.replies) + 1
    <3>1. q[i].seq = n
      BY <1>1, <1>5, <2>2
    <3>. HIDE DEF q
    <3>. QED  BY <1>3, <3>1
  <2>. QED
    <3>. HIDE DEF q
    <3>. QED  BY <1>13, <2>1, <2>2
<1>8. ASSUME NEW i \in 1 .. Len(q)
      PROVE  IF q[i].seq >= n THEN MayRaise(q[i], logical, D) ELSE ReplyHeld(q[i], D)
  <2>1. CASE i \in 1 .. Len(ss.replies)
    <3>1. q[i].seq \in Nat /\ q[i].seq < n /\ ReplyHeld(q[i], D)
      BY <1>4, <1>5, <2>1, Zenon DEF SessionHeld, RepliesHeld, Reply
    <3>. QED  BY <1>3, <3>1
  <2>2. CASE i = Len(ss.replies) + 1
    <3>1. q[i].seq >= n /\ q[i].upto = upto /\ q[i].hello <= 0 /\ q[i].hello \in Int
      BY <1>1, <1>3, <1>5, <2>2 DEF Reply
    <3>. QED  BY NeverNat, <3>1 DEF MayRaise
  <2>. QED
    <3>. HIDE DEF q
    <3>. QED  BY <1>13, <2>1, <2>2
<1>9. RepliesHeld(HeldReplies(q, n, logical), n + 1, D)
  <2>. HIDE DEF q
  <2>1. n \in Nat /\ n + 1 \in Nat /\ q \in Seq(Reply)
    BY <1>3, <1>5
  <2>. HIDE DEF n
  <2>. QED  BY <2>1, <1>7, <1>8, RaisedHeld
<1>10. \E i \in DOMAIN q : q[i].seq >= n
  <2>1. Len(q) \in DOMAIN q /\ q[Len(q)].seq = n
    BY <1>1, <1>5, <1>13
  <2>. QED  BY <1>3, <2>1
<1>. DEFINE tt == require_kafka_ack(uu, n, logical)
<1>11. /\ tt \in SessionState /\ tt.replies = HeldReplies(q, n, logical)
       /\ tt.next_seq = n + 1 /\ tt.out = ss.out /\ tt.seen = ss.seen
  <2>1. n \in Nat
    BY <1>3
  <2>2. uu.next_seq = n + 1
    BY <1>2
  <2>. HIDE DEF n
  <2>3. /\ tt \in SessionState /\ tt.replies = HeldReplies(q, n, logical)
        /\ SameLink(uu, tt) /\ tt.next_seq = uu.next_seq
    BY <1>2, <1>10, <2>1, RequireAck, ZenonT(30)
  <2>. QED  BY <1>2, <2>2, <2>3 DEF SameLink
<1>. HIDE DEF tt, q
<1>14. SessionHeld(tt, D)
  BY <1>9, <1>11 DEF SessionHeld
<1>. QED  BY <1>11, <1>14 DEF tt

\* Holding replies for ever keeps a session held (finish, once replication has failed).
LEMMA RequiredNever ==
  ASSUME NEW ss \in SessionState, NEW first \in Nat, NEW D, SessionHeld(ss, D)
  PROVE  LET tt == require_kafka_ack(ss, first, Never)
         IN  tt \in SessionState /\ SessionHeld(tt, D)
<1>. DEFINE q == ss.replies
            n == ss.next_seq
            tt == require_kafka_ack(ss, first, Never)
<1>1. q \in Seq(Reply) /\ n \in Nat /\ Never \in Nat /\ 0 < Never
  BY BoundAssumption DEF SessionState, Never
<1>2. \A i \in 1 .. Len(q) : q[i] \in Reply /\ q[i].seq < n /\ ReplyHeld(q[i], D)
  BY <1>1 DEF SessionHeld, RepliesHeld
<1>3. \A r \in Reply : ReplyHeld(r, D) => MayRaise(r, Never, D)
  BY <1>1 DEF ReplyHeld, MayRaise
<1>4. RepliesHeld(HeldReplies(q, first, Never), n, D)
  <2>. HIDE DEF q, n
  <2>. QED  BY <1>1, <1>2, <1>3, RaisedHeld
<1>5. /\ tt \in SessionState /\ tt.next_seq = n /\ SameLink(ss, tt)
      /\ tt.replies \in {q, HeldReplies(q, first, Never)}
  BY <1>1, RequireAck, Zenon
<1>6. RepliesHeld(q, n, D)
  BY DEF SessionHeld
<1>. HIDE DEF tt, q, n
<1>7. SessionHeld(tt, D)
  BY <1>4, <1>5, <1>6 DEF SessionHeld, SameLink
<1>. QED  BY <1>5, <1>7 DEF tt

\* A reply recorded after its Scope is held for the batch (dispatch_sbe_command).
LEMMA LateAnswer ==
  ASSUME NEW ss \in SessionState, NEW upto \in Nat, NEW logical \in Nat, NEW D,
         SessionHeld(ss, D), 0 < logical, upto <= logical, upto <= Never
  PROVE  LET tt == record_reply(require_kafka_ack(ss, ss.next_seq, logical), upto, -1)
         IN  tt \in SessionState /\ SessionHeld(tt, D)
<1>. DEFINE uu == require_kafka_ack(ss, ss.next_seq, logical)
            tt == record_reply(uu, upto, -1)
            r == [seq |-> uu.next_seq, need |-> uu.next_need, upto |-> upto, hello |-> -1]
<1>1. ss.replies \in Seq(Reply) /\ ss.next_seq \in Nat /\ ss.next_need \in Nat
  BY DEF SessionState
<1>2. \A i \in 1 .. Len(ss.replies) : ss.replies[i] \in Reply /\ ss.replies[i].seq < ss.next_seq
  BY <1>1 DEF SessionHeld, RepliesHeld
<1>3. ~\E i \in DOMAIN ss.replies : ss.replies[i].seq >= ss.next_seq
  <2>1. \A i \in 1 .. Len(ss.replies) : ss.replies[i].seq \in Nat
    BY <1>2 DEF Reply
  <2>. QED  BY <1>1, <1>2, <2>1
<1>4. /\ uu \in SessionState /\ SameLink(ss, uu) /\ uu.next_seq = ss.next_seq
      /\ uu.replies = ss.replies /\ uu.next_need = MaxOf(ss.next_need, logical)
  <2>. DEFINE n == ss.next_seq
  <2>1. n \in Nat /\ ~\E i \in DOMAIN ss.replies : ss.replies[i].seq >= n
    BY <1>1, <1>3
  <2>2. LET vv == require_kafka_ack(ss, n, logical)
        IN  /\ vv \in SessionState /\ SameLink(ss, vv) /\ vv.next_seq = ss.next_seq
            /\ vv.replies = ss.replies /\ vv.next_need = MaxOf(ss.next_need, logical)
    <3>. HIDE DEF n
    <3>. QED  BY <2>1, RequireAck, Zenon
  <2>. QED  BY <2>2
<1>5. MaxOf(ss.next_need, logical) \in Nat /\ MaxOf(ss.next_need, logical) >= logical
  BY <1>1 DEF MaxOf
<1>. HIDE DEF uu
<1>6. ReplyHeld(r, D)
  BY <1>4, <1>5 DEF ReplyHeld
<1>7. /\ tt \in SessionState /\ tt.replies = Append(uu.replies, r) /\ r \in Reply
      /\ tt.next_seq = uu.next_seq + 1 /\ SameLink(uu, tt)
  BY <1>4, RecordReply
<1>8. r.seq = ss.next_seq
  BY <1>4
<1>. HIDE DEF tt, r
<1>9. RepliesHeld(tt.replies, tt.next_seq, D)
  BY <1>1, <1>4, <1>6, <1>7, <1>8, AppendHeld DEF SessionHeld
<1>10. SessionHeld(tt, D)
  BY <1>4, <1>7, <1>9 DEF SessionHeld, SameLink
<1>. QED  BY <1>7, <1>10 DEF tt, uu

\* An acknowledged batch frees only replies it covers (release_kafka_ack).
LEMMA ReleasedHeld ==
  ASSUME NEW ss \in SessionState, NEW logical \in Nat, NEW D,
         SessionHeld(ss, D), Covered(logical, D)
  PROVE  LET tt == release_kafka_ack(ss, logical)
         IN  tt \in SessionState /\ SessionHeld(tt, D)
<1>. DEFINE q == ss.replies
            h == FreedReplies(q, logical)
            tt == release_kafka_ack(ss, logical)
<1>1. /\ tt \in SessionState /\ SameLink(ss, tt) /\ tt.next_seq = ss.next_seq
      /\ tt.replies = h /\ Len(h) = Len(q)
  BY ReleaseAck, Zenon
<1>2. ASSUME NEW i \in 1 .. Len(q)
      PROVE  h[i].seq < ss.next_seq /\ ReplyHeld(h[i], D)
  <2>1. q[i] \in Reply /\ q[i].seq < ss.next_seq /\ ReplyHeld(q[i], D)
    BY DEF SessionHeld, RepliesHeld, SessionState
  <2>2. h[i] = IF q[i].need <= logical THEN [q[i] EXCEPT !.need = 0] ELSE q[i]
    <3>1. q \in Seq(Reply)
      BY DEF SessionState
    <3>. HIDE DEF q
    <3>2. i \in DOMAIN q
      BY <3>1
    <3>. QED  BY <3>2 DEF FreedReplies
  <2>3. q[i].need \in Nat /\ q[i].upto \in Nat
    BY ONLY <2>1 DEF Reply
  <2>. HIDE DEF q, h
  <2>4. CASE q[i].need <= logical
    <3>1. /\ h[i].seq = q[i].seq /\ h[i].need = 0
          /\ h[i].upto = q[i].upto /\ h[i].hello = q[i].hello
      BY <2>1, <2>2, <2>4 DEF Reply
    <3>2. q[i].upto <= logical => Covered(q[i].upto, D)
      BY <2>3 DEF Covered
    <3>3. ReplyHeld(h[i], D)
      BY <2>1, <2>3, <2>4, <3>1, <3>2, NeverNat DEF ReplyHeld
    <3>. QED  BY <2>1, <3>1, <3>3
  <2>. QED  BY <2>1, <2>2, <2>4
<1>. HIDE DEF q, h, tt
<1>3. RepliesHeld(tt.replies, tt.next_seq, D)
  BY <1>1, <1>2 DEF RepliesHeld
<1>4. SessionHeld(tt, D)
  BY <1>1, <1>3 DEF SessionHeld, SameLink
<1>. QED  BY <1>1, <1>4 DEF tt

\* A frame of covered offsets may be queued (broadcast).
LEMMA PushHeld ==
  ASSUME NEW ss \in SessionState, NEW first \in Nat, NEW last \in Nat, NEW D,
         SessionHeld(ss, D), Covered(last, D)
  PROVE  LET tt == push(ss, first, last)
         IN  tt \in SessionState /\ SessionHeld(tt, D)
<1>. DEFINE f == [seq |-> ss.next_seq, first |-> first, last |-> last]
            tt == push(ss, first, last)
<1>1. /\ tt \in SessionState /\ f \in Frame /\ tt.out = Append(ss.out, f)
      /\ tt.next_seq = ss.next_seq + 1 /\ tt.replies = ss.replies /\ tt.seen = ss.seen
  BY Push
<1>2. f.last = last
  OBVIOUS
<1>3. ss.out \in Seq(Frame) /\ ss.replies \in Seq(Reply) /\ ss.next_seq \in Nat
  BY DEF SessionState
<1>. HIDE DEF f, tt
<1>4. FramesHeld(tt.out, D)
  BY <1>1, <1>2, <1>3 DEF SessionHeld, FramesHeld
<1>5. \A i \in 1 .. Len(ss.replies) : ss.replies[i] \in Reply
  BY <1>3
<1>6. \A i \in 1 .. Len(ss.replies) : ss.replies[i].seq \in Nat
  BY <1>5 DEF Reply
<1>7. RepliesHeld(tt.replies, tt.next_seq, D)
  BY <1>1, <1>3, <1>6 DEF SessionHeld, RepliesHeld
<1>8. SessionHeld(tt, D)
  BY <1>1, <1>4, <1>7 DEF SessionHeld
<1>. QED  BY <1>1, <1>8 DEF tt

\* So may the terminal frame (terminate).
LEMMA TerminateHeld ==
  ASSUME NEW ss \in SessionState, NEW D
  PROVE  LET tt == terminate(ss)
         IN  tt \in SessionState /\ (SessionHeld(ss, D) => SessionHeld(tt, D))
<1>. DEFINE uu == IF Full(ss) THEN [ss EXCEPT !.out = <<>>] ELSE ss
            vv == push(uu, 0, 0)
            tt == [vv EXCEPT !.quit_after_write = TRUE]
<1>4. terminate(ss) = tt
  BY DEF terminate
<1>1. /\ uu \in SessionState /\ uu.replies = ss.replies /\ uu.next_seq = ss.next_seq
      /\ uu.seen = ss.seen /\ uu.out \in {ss.out, <<>>}
  <2>1. <<>> \in Seq(Frame)
    OBVIOUS
  <2>2. LET xx == [ss EXCEPT !.out = <<>>]
        IN  /\ xx \in SessionState /\ xx.replies = ss.replies /\ xx.next_seq = ss.next_seq
            /\ xx.seen = ss.seen /\ xx.out = <<>>
    BY <2>1, Zenon DEF SessionState
  <2>3. CASE Full(ss)
    BY <2>2, <2>3
  <2>4. CASE ~Full(ss)
    BY <2>4
  <2>. QED  BY <2>3, <2>4
<1>2. SessionHeld(ss, D) => SessionHeld(uu, D)
  <2>. HIDE DEF uu
  <2>1. FramesHeld(<<>>, D)
    BY DEF FramesHeld
  <2>. QED  BY <1>1, <2>1 DEF SessionHeld
<1>3. vv \in SessionState /\ (SessionHeld(uu, D) => SessionHeld(vv, D))
  <2>. HIDE DEF uu
  <2>1. Covered(0, D)
    BY DEF Covered
  <2>. QED  BY <1>1, <2>1, Push, PushHeld, Zenon
<1>. HIDE DEF uu, vv
<1>5. /\ tt \in SessionState /\ tt.replies = vv.replies /\ tt.next_seq = vv.next_seq
      /\ tt.seen = vv.seen /\ tt.out = vv.out
  BY <1>3, Zenon DEF SessionState
<1>. HIDE DEF tt
<1>6. SessionHeld(vv, D) => SessionHeld(tt, D)
  BY <1>5 DEF SessionHeld
<1>. QED  BY <1>2, <1>3, <1>4, <1>5, <1>6

\* What write_client sends is covered, and what it leaves is held.
LEMMA WrittenHeld ==
  ASSUME NEW ss \in SessionState, NEW D, has_writable_output(ss)
  PROVE  /\ Written(ss) \in SessionState
         /\ Written(ss).status = ss.status /\ Written(ss).firehose = ss.firehose
         /\ SessionHeld(ss, D) => SessionHeld(Written(ss), D)
         /\ ~PushFirst(ss) => ss.replies # <<>> /\ ss.replies[1] \in Reply
         /\ ~PushFirst(ss) /\ SessionHeld(ss, D) /\ ss.replies[1].upto \notin {0, Never}
              => Covered(ss.replies[1].upto, D)
<1>1. /\ ss.out \in Seq(Frame) /\ ss.replies \in Seq(Reply)
      /\ ss.next_seq \in Nat /\ ss.seen \in Int
  BY DEF SessionState
<1>2. CASE PushFirst(ss)
  <2>. DEFINE q == Tail(ss.out)
              n == MaxOf(ss.seen, ss.out[1].last)
              tt == [ss EXCEPT !.out = q, !.seen = n]
  <2>1. ss.out # <<>>
    BY <1>2 DEF PushFirst
  <2>2. ss.out[1] \in Frame /\ 1 \in 1 .. Len(ss.out)
    BY <1>1, <2>1
  <2>3. q \in Seq(Frame) /\ n \in Int /\ n \in {ss.seen, ss.out[1].last}
    BY <1>1, <2>1, <2>2 DEF MaxOf, Frame
  <2>4. \A i \in 1 .. Len(q) : q[i] = ss.out[i + 1] /\ i + 1 \in 1 .. Len(ss.out)
    BY <1>1, <2>1
  <2>5. Written(ss) = tt
    BY <1>2 DEF Written
  <2>. HIDE DEF q, n
  <2>6. /\ tt \in SessionState /\ tt.status = ss.status /\ tt.firehose = ss.firehose
        /\ tt.replies = ss.replies /\ tt.next_seq = ss.next_seq /\ tt.out = q /\ tt.seen = n
    BY <2>3, Zenon DEF SessionState
  <2>. HIDE DEF tt
  <2>7. SessionHeld(ss, D) => SessionHeld(tt, D)
    BY <2>2, <2>3, <2>4, <2>6, Zenon DEF SessionHeld, FramesHeld
  <2>. QED  BY <1>2, <2>5, <2>6, <2>7
<1>3. CASE ~PushFirst(ss)
  <2>. DEFINE q == Tail(ss.replies)
              n == MaxOf(ss.seen, ss.replies[1].hello)
              tt == [ss EXCEPT !.replies = q, !.seen = n]
  <2>1. ss.replies # <<>> /\ ss.replies[1].need = 0
    BY <1>3 DEF PushFirst, has_writable_output
  <2>2. ss.replies[1] \in Reply /\ 1 \in 1 .. Len(ss.replies)
    BY <1>1, <2>1
  <2>3. q \in Seq(Reply) /\ n \in Int /\ n \in {ss.seen, ss.replies[1].hello}
    BY <1>1, <2>1, <2>2 DEF MaxOf, Reply
  <2>4. \A i \in 1 .. Len(q) : q[i] = ss.replies[i + 1] /\ i + 1 \in 1 .. Len(ss.replies)
    BY <1>1, <2>1
  <2>5. Written(ss) = tt
    BY <1>3 DEF Written
  <2>. HIDE DEF q, n
  <2>6. /\ tt \in SessionState /\ tt.status = ss.status /\ tt.firehose = ss.firehose
        /\ tt.replies = q /\ tt.next_seq = ss.next_seq /\ tt.out = ss.out /\ tt.seen = n
    BY <2>3, Zenon DEF SessionState
  <2>. HIDE DEF tt
  <2>7. SessionHeld(ss, D) => ReplyHeld(ss.replies[1], D)
    BY <2>2 DEF SessionHeld, RepliesHeld
  <2>8. SessionHeld(ss, D) => SessionHeld(tt, D)
    BY <2>3, <2>4, <2>6, <2>7 DEF SessionHeld, RepliesHeld, ReplyHeld
  <2>. QED  BY <1>3, <2>1, <2>2, <2>5, <2>6, <2>7, <2>8 DEF ReplyHeld
<1>. QED  BY <1>2, <1>3
-----------------------------------------------------------------------------
(* The inductive invariant. *)

\* The journal has no report of an offset it was not given; without a failed report the
\* brokers hold all that was reported; the loop of release_acknowledged runs only then.
JournalInv ==
  /\ reported <= offset /\ offset <= MaxOffset /\ acked <= reported
  /\ ~delivery_error => Covered(reported, durable)
  /\ pc = "release" => BrokerAck /\ ~delivery_error /\ AckedFront(awaiting, acked)
HeldInv ==
  BrokerAck => /\ Covered(released, durable)
               /\ \A t \in Session : SessionHeld(session[t], durable)
               /\ \A u \in told \ {Never} : Covered(u, durable)
DurableInv == TypeOK /\ JournalInv /\ HeldInv

\* Every session is well formed and, in broker mode, held.
SessionsHeld(sess, D) ==
  /\ sess \in [Session -> SessionState]
  /\ BrokerAck => \A t \in Session : SessionHeld(sess[t], D)

\* Serving delivery reports keeps the account of what the brokers hold (delivery_report).
LEMMA Reports ==
  ASSUME TypeOK, JournalInv, NEW r \in Nat, r >= reported, NEW bad,
         delivery_reports(r, bad)
  PROVE  /\ reported' = r /\ acked' \in Nat /\ acked' <= r /\ delivery_error' \in BOOLEAN
         /\ durable' \subseteq Nat /\ durable \subseteq durable'
         /\ ~delivery_error' => Covered(r, durable')
<1>1. reported \in Nat /\ acked \in Nat /\ durable \subseteq Nat /\ acked <= reported
  BY DEF TypeOK, JournalInv
<1>2. acked' \in ((reported + 1 .. r) \ bad) \cup {acked}
  BY DEF delivery_reports
<1>3. acked' \in Nat /\ acked' <= r
  BY <1>1, <1>2
<1>4. delivery_error' \in BOOLEAN /\ durable' \subseteq Nat /\ durable \subseteq durable'
  <2>1. delivery_error' \in BOOLEAN
    BY Zenon DEF delivery_reports
  <2>2. durable' = durable \cup ((reported + 1 .. r) \ bad)
    BY DEF delivery_reports
  <2>3. \A x \in (reported + 1 .. r) \ bad : x \in Nat
    BY <1>1
  <2>4. durable' \subseteq Nat /\ durable \subseteq durable'
    BY <1>1, <2>2, <2>3, Zenon
  <2>. QED  BY <2>1, <2>4
<1>5. ASSUME ~delivery_error'
      PROVE  Covered(r, durable')
  <2>1. bad = {} /\ ~delivery_error
    BY <1>5, Zenon DEF delivery_reports, TypeOK
  <2>2. Covered(reported, durable) /\ durable' = durable \cup (reported + 1 .. r)
    BY <2>1 DEF JournalInv, delivery_reports
  <2>. QED  BY <1>1, <2>2 DEF Covered
<1>. QED  BY <1>3, <1>4, <1>5 DEF delivery_reports

\* A batch of covered offsets may be broadcast.
LEMMA BroadcastHeld ==
  ASSUME TypeOK, NEW sess, NEW D, NEW first \in Nat, NEW last \in Nat,
         SessionsHeld(sess, D), BrokerAck => Covered(last, D), broadcast(sess, first, last)
  PROVE  SessionsHeld(session', D) /\ subscribers' \subseteq Session
<1>1. \A t \in Session : sess[t] \in SessionState
  BY DEF SessionsHeld
<1>2. session' = [t \in Session |-> IF t \notin subscribers THEN sess[t]
                                    ELSE IF Full(sess[t]) THEN terminate(sess[t])
                                    ELSE push(sess[t], first, last)]
  BY DEF broadcast
<1>3. ASSUME NEW t \in Session
      PROVE  /\ session'[t] \in SessionState
             /\ BrokerAck => SessionHeld(session'[t], D)
  <2>1. session'[t] \in {sess[t], terminate(sess[t]), push(sess[t], first, last)}
    BY <1>2
  <2>2. sess[t] \in SessionState /\ (BrokerAck => SessionHeld(sess[t], D))
    BY SMTT(30) DEF SessionsHeld
  <2>3. push(sess[t], first, last) \in SessionState
        /\ (BrokerAck => SessionHeld(push(sess[t], first, last), D))
    BY <2>2, Push, PushHeld, Zenon
  <2>4. terminate(sess[t]) \in SessionState
        /\ (BrokerAck => SessionHeld(terminate(sess[t]), D))
    BY <2>2, TerminateHeld
  <2>. QED  BY <2>1, <2>2, <2>3, <2>4
<1>4. session' \in [Session -> SessionState]
  BY <1>2, <1>3
<1>5. subscribers' \subseteq Session
  BY DEF broadcast, TypeOK
<1>. QED  BY <1>3, <1>4, <1>5 DEF SessionsHeld

\* What finish() guarantees.
FinishInv ==
  /\ failed' \in BOOLEAN /\ offset' \in Nat /\ released' \in Nat
  /\ reported' \in Nat /\ acked' \in Nat /\ delivery_error' \in BOOLEAN
  /\ awaiting' \in Seq(Batch) /\ subscribers' \subseteq Session
  /\ durable' \subseteq Nat /\ durable \subseteq durable'
  /\ reported' <= offset' /\ offset' <= MaxOffset /\ acked' <= reported'
  /\ ~delivery_error' => Covered(reported', durable')
  /\ BrokerAck => released' = released
  /\ SessionsHeld(session', durable')

\* The reports served inside publish() are of offsets already accepted.
LEMMA PublishReports ==
  ASSUME TypeOK, JournalInv, NEW n \in Nat, NEW j \in 0 .. n, 0 < n, offset + n <= MaxOffset,
         ReportsDuringPublish(n, j), offset' = offset + j
  PROVE  /\ reported' \in Nat /\ acked' \in Nat /\ delivery_error' \in BOOLEAN
         /\ durable' \subseteq Nat /\ durable \subseteq durable'
         /\ offset' \in Nat /\ reported' <= offset' /\ offset' <= MaxOffset
         /\ acked' <= reported' /\ (~delivery_error' => Covered(reported', durable'))
<1>. DEFINE m == offset + (IF j = n THEN n - 1 ELSE j)
<1>1. PICK r \in reported .. m : \E bad \in SUBSET (reported + 1 .. r) : delivery_reports(r, bad)
  BY DEF ReportsDuringPublish
<1>2. PICK bad : delivery_reports(r, bad)
  BY <1>1
<1>3. reported \in Nat /\ offset \in Nat /\ MaxOffset \in Nat
  BY BoundAssumption DEF TypeOK
<1>4. r \in Nat /\ r >= reported /\ r <= offset + j
  BY <1>1, <1>3
<1>5. offset' \in Nat /\ offset' <= MaxOffset
  BY <1>3
<1>. QED  BY <1>2, <1>3, <1>4, <1>5, Reports

\* The sessions a Scope leaves for finish(): a waiter has its reply recorded, the others
\* are held already.
Ready(sess, n, waiters) ==
  /\ sess \in [Session -> SessionState]
  /\ \A t \in Session :
       IF t \in waiters /\ n > 0 /\ ~failed THEN Answered(session[t], sess[t], offset + n)
       ELSE BrokerAck => SessionHeld(sess[t], durable)

\* finish() without a batch: nothing pending, or replication has failed.
LEMMA FinishNothing ==
  ASSUME DurableInv, NEW s \in Session, NEW sess, NEW n \in Nat, NEW waiters \in SUBSET Session,
         Ready(sess, n, waiters), n = 0 \/ failed, finish(s, sess, n, waiters, FALSE)
  PROVE  FinishInv
<1>1. /\ session' = IF failed /\ BrokerAck
                    THEN [sess EXCEPT ![s] = require_kafka_ack(sess[s], session[s].next_seq, Never)]
                    ELSE sess
      /\ UNCHANGED <<failed, offset, released, awaiting, subscribers, reported, acked,
                     delivery_error, durable>>
  BY DEF finish, AtOnce, journalVars, Firsts
<1>2. /\ sess \in [Session -> SessionState]
      /\ \A t \in Session : BrokerAck => SessionHeld(sess[t], durable)
  BY DEF Ready
<1>3. session[s].next_seq \in Nat
  BY SMTT(30) DEF DurableInv, TypeOK, SessionState
<1>. DEFINE tt == require_kafka_ack(sess[s], session[s].next_seq, Never)
<1>4. BrokerAck => tt \in SessionState /\ SessionHeld(tt, durable)
  BY <1>2, <1>3, RequiredNever
<1>. HIDE DEF tt
<1>5. SessionsHeld(session', durable)
  <2>1. CASE failed /\ BrokerAck
    <3>1. session' = [sess EXCEPT ![s] = tt]
      BY <1>1, <2>1 DEF tt
    <3>. QED  BY <1>2, <1>4, <2>1, <3>1 DEF SessionsHeld
  <2>2. CASE ~(failed /\ BrokerAck)
    <3>1. session' = sess
      BY <1>1, <2>2
    <3>. QED  BY <1>2, <3>1 DEF SessionsHeld
  <2>. QED  BY <2>1, <2>2
<1>. QED  BY <1>1, <1>5, Zenon DEF FinishInv, DurableInv, TypeOK, JournalInv

\* The sessions commit() leaves: in broker mode the waiters' replies are held.
Committed(sess, n, waiters) ==
  [t \in Session |-> IF BrokerAck /\ t \in waiters
                     THEN require_kafka_ack(sess[t], session[t].next_seq, offset + n)
                     ELSE sess[t]]

\* The rest of commit(), from the sessions it leaves: the batch is published, queued for
\* its acknowledgement or broadcast, or a mutation is refused.
LEMMA CommitRest ==
  ASSUME DurableInv, NEW n \in Nat, 0 < n, offset + n <= MaxOffset, NEW j \in 0 .. n,
         NEW waiters \in SUBSET Session, NEW held, SessionsHeld(held, durable),
         ReportsDuringPublish(n, j), offset' = offset + j, failed' = (j < n),
         IF j = n /\ BrokerAck
         THEN awaiting' = Append(awaiting, [first |-> offset + 1, last |-> offset + n,
                                            waiters |-> waiters])
         ELSE awaiting' = awaiting,
         IF j = n /\ ~BrokerAck
         THEN released' = offset + n /\ broadcast(held, offset + 1, offset + n)
         ELSE session' = held /\ released' = released /\ subscribers' = subscribers
  PROVE  FinishInv
<1>1. TypeOK /\ JournalInv /\ offset \in Nat
  BY DEF DurableInv, TypeOK
<1>2. /\ reported' \in Nat /\ acked' \in Nat /\ delivery_error' \in BOOLEAN
      /\ durable' \subseteq Nat /\ durable \subseteq durable'
      /\ offset' \in Nat /\ reported' <= offset' /\ offset' <= MaxOffset
      /\ acked' <= reported' /\ (~delivery_error' => Covered(reported', durable'))
  BY <1>1, PublishReports
<1>3. SessionsHeld(held, durable')
  <2>1. \A t \in Session : held[t] \in SessionState
    BY DEF SessionsHeld
  <2>. QED  BY <1>2, <2>1, HeldMono, Zenon DEF SessionsHeld
<1>4. offset + 1 \in Nat /\ offset + n \in Nat
  BY <1>1
<1>5. SessionsHeld(session', durable') /\ subscribers' \subseteq Session
  <2>1. CASE j = n /\ ~BrokerAck
    BY <1>1, <1>3, <1>4, <2>1, BroadcastHeld
  <2>2. CASE ~(j = n /\ ~BrokerAck)
    BY <1>1, <1>3, <2>2 DEF TypeOK
  <2>. QED  BY <2>1, <2>2
<1>6. awaiting' \in Seq(Batch)
  <2>1. awaiting \in Seq(Batch)
    BY <1>1 DEF TypeOK
  <2>2. [first |-> offset + 1, last |-> offset + n, waiters |-> waiters] \in Batch
    BY <1>4 DEF Batch
  <2>3. Append(awaiting, [first |-> offset + 1, last |-> offset + n, waiters |-> waiters])
          \in Seq(Batch)
    BY <2>1, <2>2
  <2>. QED  BY <2>1, <2>3, Zenon
<1>7. failed' \in BOOLEAN
  OBVIOUS
<1>8. released' \in Nat /\ (BrokerAck => released' = released)
  BY <1>1, <1>4 DEF TypeOK
<1>. QED  BY <1>2, <1>5, <1>6, <1>7, <1>8 DEF FinishInv

\* commit() holds every reply of the batch.
LEMMA CommittedHeld ==
  ASSUME DurableInv, NEW n \in Nat, 0 < n, offset + n <= MaxOffset, ~failed,
         NEW waiters \in SUBSET Session, NEW sess, Ready(sess, n, waiters)
  PROVE  SessionsHeld(Committed(sess, n, waiters), durable)
<1>1. offset + n \in Nat /\ 0 < offset + n /\ offset + n <= Never
  BY BoundAssumption DEF DurableInv, TypeOK, Never
<1>2. ASSUME NEW t \in Session
      PROVE  LET tt == Committed(sess, n, waiters)[t]
             IN  tt \in SessionState /\ (BrokerAck => SessionHeld(tt, durable))
  <2>1. session[t] \in SessionState /\ (BrokerAck => SessionHeld(session[t], durable))
    BY SMTT(30) DEF DurableInv, TypeOK, HeldInv
  <2>2. CASE BrokerAck /\ t \in waiters
    <3>1. Answered(session[t], sess[t], offset + n)
      BY <2>2, SMTT(30) DEF Ready
    <3>2. Committed(sess, n, waiters)[t] =
            require_kafka_ack(sess[t], session[t].next_seq, offset + n)
      BY <2>2 DEF Committed
    <3>. DEFINE m == offset + n
    <3>3. m \in Nat /\ 0 < m /\ m <= Never
      BY <1>1, Zenon
    <3>4. LET tt == require_kafka_ack(sess[t], session[t].next_seq, m)
          IN  tt \in SessionState /\ SessionHeld(tt, durable)
      <4>1. Answered(session[t], sess[t], m) /\ m <= m
        BY <3>1, <3>3
      <4>. HIDE DEF m
      <4>. QED  BY <2>1, <2>2, <3>3, <4>1, AnsweredRequired, SMTT(30)
    <3>. QED  BY <3>2, <3>4
  <2>3. CASE ~(BrokerAck /\ t \in waiters)
    <3>1. Committed(sess, n, waiters)[t] = sess[t]
      BY <2>3 DEF Committed
    <3>2. sess[t] \in SessionState /\ (BrokerAck => SessionHeld(sess[t], durable))
      BY <2>3, SMTT(30) DEF Ready
    <3>. QED  BY <3>1, <3>2
  <2>. QED  BY <2>2, <2>3
<1>3. Committed(sess, n, waiters) \in [Session -> SessionState]
  BY <1>2 DEF Committed
<1>. QED  BY <1>2, <1>3 DEF SessionsHeld

\* finish() of a Scope whose replies are recorded inside it.
LEMMA Finish ==
  ASSUME DurableInv, NEW s \in Session, NEW sess, NEW n \in Nat, offset + n <= MaxOffset,
         NEW waiters \in SUBSET Session, Ready(sess, n, waiters),
         finish(s, sess, n, waiters, FALSE)
  PROVE  FinishInv
<1>1. CASE n = 0 \/ failed
  BY <1>1, FinishNothing, Zenon
<1>2. CASE ~(n = 0 \/ failed)
  <2>1. PICK j \in 0 .. n :
          /\ ReportsDuringPublish(n, j) /\ offset' = offset + j /\ failed' = (j < n)
          /\ IF j = n /\ BrokerAck
             THEN awaiting' = Append(awaiting, [first |-> offset + 1, last |-> offset + n,
                                                waiters |-> waiters])
             ELSE awaiting' = awaiting
          /\ IF j = n /\ ~BrokerAck
             THEN /\ released' = offset + n
                  /\ broadcast(Committed(sess, n, waiters), offset + 1, offset + n)
             ELSE /\ session' = Committed(sess, n, waiters)
                  /\ released' = released /\ subscribers' = subscribers
    <3>1. [t \in Session |-> IF BrokerAck /\ t \in waiters
                             THEN require_kafka_ack(sess[t], Firsts[t], offset + n)
                             ELSE sess[t]] = Committed(sess, n, waiters)
      BY SMTT(30) DEF Committed, Firsts
    <3>. QED  BY <1>2, <3>1, ZenonT(30) DEF finish, AtOnce
  <2>2. SessionsHeld(Committed(sess, n, waiters), durable)
    BY <1>2, CommittedHeld
  <2>3. 0 < n
    BY <1>2
  <2>. QED  BY <2>1, <2>2, <2>3, CommitRest
<1>. QED  BY <1>1, <1>2

\* finish() of the Scope of an SBE command, whose reply is recorded after it.
LEMMA FinishLate ==
  ASSUME DurableInv, NEW s \in Session, NEW n \in Nat, offset + n <= MaxOffset,
         finish(s, session, n, IF n = 0 THEN {} ELSE {s}, TRUE)
  PROVE  FinishInv
<1>1. /\ session \in [Session -> SessionState]
      /\ \A t \in Session : session[t] \in SessionState
      /\ \A t \in Session : BrokerAck => SessionHeld(session[t], durable)
  BY DEF DurableInv, TypeOK, HeldInv
<1>2. session[s].next_seq \in Nat /\ Never \in Nat /\ 0 < Never /\ offset \in Nat
  BY <1>1, BoundAssumption DEF DurableInv, TypeOK, SessionState, Never
<1>3. CASE n = 0 \/ failed
  <2>1. Upto(n) \in {0, Never} /\ Upto(n) \in Nat
    BY <1>2, <1>3 DEF Upto
  <2>. DEFINE uu == IF failed /\ BrokerAck
                    THEN require_kafka_ack(session[s], session[s].next_seq, Never)
                    ELSE session[s]
              tt == record_reply(uu, Upto(n), -1)
  <2>2. tt \in SessionState /\ (BrokerAck => SessionHeld(tt, durable))
    <3>1. CASE failed /\ BrokerAck
      BY <1>1, <1>2, <2>1, <3>1, LateAnswer, SMTT(30)
    <3>2. CASE ~(failed /\ BrokerAck)
      <4>1. Answered(session[s], record_reply(session[s], Upto(n), -1), Upto(n))
        BY <1>1, <2>1, RecordAnswers
      <4>2. BrokerAck => SessionHeld(record_reply(session[s], Upto(n), -1), durable)
        BY <1>1, <2>1, <4>1, AnsweredHeld, SMTT(30)
      <4>. QED  BY <3>2, <4>1, <4>2 DEF Answered
    <3>. QED  BY <3>1, <3>2
  <2>3. /\ session' = [session EXCEPT ![s] = tt]
        /\ UNCHANGED <<failed, offset, released, awaiting, subscribers, reported, acked,
                       delivery_error, durable>>
    BY <1>1, <1>3 DEF finish, AtOnce, journalVars, Firsts
  <2>. HIDE DEF tt
  <2>4. SessionsHeld(session', durable)
    BY <1>1, <2>2, <2>3, Zenon DEF SessionsHeld
  <2>. QED  BY <2>3, <2>4 DEF FinishInv, DurableInv, TypeOK, JournalInv
<1>4. CASE ~(n = 0 \/ failed)
  <2>. DEFINE last == offset + n
              uu == IF BrokerAck
                    THEN require_kafka_ack(session[s], session[s].next_seq, last)
                    ELSE session[s]
              tt == record_reply(uu, last, -1)
              held == [session EXCEPT ![s] = tt]
  <2>1. last \in Nat /\ 0 < last /\ last <= Never /\ Upto(n) = last
    <3>1. Upto(n) = last
      BY <1>4 DEF Upto
    <3>2. 0 < n
      BY <1>4
    <3>3. last \in Nat /\ 0 < last /\ last <= Never
      BY <1>2, <3>2, BoundAssumption DEF Never
    <3>. QED  BY <3>1, <3>3
  <2>2. tt \in SessionState /\ (BrokerAck => SessionHeld(tt, durable))
    <3>. HIDE DEF last
    <3>1. CASE BrokerAck
      BY <1>1, <1>2, <2>1, <3>1, LateAnswer, SMTT(30)
    <3>2. CASE ~BrokerAck
      <4>1. tt = record_reply(session[s], last, -1)
        BY <3>2
      <4>2. -1 \in Int
        OBVIOUS
      <4>. QED  BY <1>1, <2>1, <3>2, <4>1, <4>2, RecordReply, Zenon
    <3>. QED  BY <3>1, <3>2
  <2>3. SessionsHeld(held, durable)
    <3>. HIDE DEF tt
    <3>. QED  BY <1>1, <2>2 DEF SessionsHeld
  <2>4. [[t \in Session |-> IF BrokerAck /\ t \in {s}
                            THEN require_kafka_ack(session[t], Firsts[t], last)
                            ELSE session[t]] EXCEPT ![s] = record_reply(@, Upto(n), -1)] = held
    BY <1>1, <2>1, Zenon DEF Firsts
  <2>. HIDE DEF held
  <2>5. PICK j \in 0 .. n :
          /\ ReportsDuringPublish(n, j) /\ offset' = offset + j /\ failed' = (j < n)
          /\ IF j = n /\ BrokerAck
             THEN awaiting' = Append(awaiting, [first |-> offset + 1, last |-> offset + n,
                                                waiters |-> {s}])
             ELSE awaiting' = awaiting
          /\ IF j = n /\ ~BrokerAck
             THEN /\ released' = offset + n
                  /\ broadcast(held, offset + 1, offset + n)
             ELSE /\ session' = held
                  /\ released' = released /\ subscribers' = subscribers
    BY <1>4, <2>4, Zenon DEF finish, AtOnce
  <2>6. 0 < n /\ {s} \in SUBSET Session
    BY <1>4
  <2>. QED  BY <2>3, <2>5, <2>6, CommitRest
<1>. QED  BY <1>3, <1>4
-----------------------------------------------------------------------------
(* The invariant is preserved, action by action. *)

\* An action that runs finish() and leaves the rest alone.
LEMMA FinishPreserves ==
  ASSUME DurableInv, FinishInv, running' = running, pc' \in {"loop", "serve"}, told' = told
  PROVE  DurableInv'
<1>1. TypeOK'
  BY DEF DurableInv, FinishInv, TypeOK, SessionsHeld
<1>2. JournalInv'
  BY DEF FinishInv, JournalInv
<1>3. ASSUME BrokerAck
      PROVE  /\ Covered(released', durable')
             /\ \A t \in Session : SessionHeld(session'[t], durable')
             /\ \A u \in told' \ {Never} : Covered(u, durable')
  <2>1. \A u : Covered(u, durable) => Covered(u, durable')
    BY DEF FinishInv, Covered
  <2>2. Covered(released, durable) /\ \A u \in told \ {Never} : Covered(u, durable)
    BY <1>3 DEF DurableInv, HeldInv
  <2>3. released' = released /\ \A t \in Session : SessionHeld(session'[t], durable')
    BY <1>3 DEF FinishInv, SessionsHeld
  <2>. QED  BY <2>1, <2>2, <2>3
<1>4. HeldInv'
  BY <1>3 DEF HeldInv
<1>. QED  BY <1>1, <1>2, <1>4 DEF DurableInv

\* The sessions of a batch are a finite set.
LEMMA SessionFinite == IsFiniteSet(Session)
  BY FiniteAssumption, FS_Union, Zenon DEF Session

\* A RESP command and the blocked sessions it serves.
LEMMA RespStep ==
  ASSUME DurableInv, NEW s \in Session, NEW k \in Nat, NEW T \in SUBSET Blocked,
         dispatch_resp_command(s, k, T)
  PROVE  DurableInv'
<1>. DEFINE n == k + Cardinality(T)
            answered == [t \in Session |->
              IF t = s THEN record_reply(session[s], IF k = 0 THEN 0 ELSE Upto(n), -1)
              ELSE IF t \in T THEN [record_reply(session[t], Upto(n), -1) EXCEPT !.blocked = FALSE]
              ELSE session[t]]
            waiters == T \cup (IF k = 0 THEN {} ELSE {s})
<1>1. /\ running' = running /\ pc' = pc /\ told' = told /\ pc = "loop"
      /\ T # {} => k > 0
      /\ offset + n <= MaxOffset
      /\ finish(s, answered, n, waiters, FALSE)
      /\ ~session[s].blocked
  BY Zenon DEF dispatch_resp_command, Accepts, Loop
<1>2. T \subseteq Session /\ s \notin T
  BY <1>1 DEF Blocked
<1>3. IsFiniteSet(T) /\ Cardinality(T) \in Nat
  BY <1>2, SessionFinite, FS_Subset, FS_CardinalityType
<1>4. n \in Nat /\ (k = 0 => T = {} /\ n = 0) /\ (k > 0 => n > 0)
  BY <1>1, <1>3, FS_EmptySet
<1>5. waiters \in SUBSET Session
  BY <1>2
<1>6. offset \in Nat /\ Never \in Nat
  BY NeverNat DEF DurableInv, TypeOK
<1>7. Upto(n) \in Nat /\ (k > 0 /\ ~failed => Upto(n) = offset + n)
      /\ (k > 0 /\ failed => Upto(n) = Never)
  <2>. HIDE DEF n
  <2>. QED  BY <1>4, <1>6 DEF Upto
<1>. HIDE DEF n
<1>8. ASSUME NEW t \in Session
      PROVE  /\ answered[t] \in SessionState
             /\ IF t \in waiters /\ n > 0 /\ ~failed
                THEN Answered(session[t], answered[t], offset + n)
                ELSE BrokerAck => SessionHeld(answered[t], durable)
  <2>1. session[t] \in SessionState /\ (BrokerAck => SessionHeld(session[t], durable))
    BY Zenon DEF DurableInv, TypeOK, HeldInv
  <2>2. CASE t = s
    <3>. DEFINE u == IF k = 0 THEN 0 ELSE Upto(n)
    <3>1. answered[t] = record_reply(session[t], u, -1)
      BY <2>2
    <3>2. u \in Nat
      BY <1>7
    <3>3. t \in waiters /\ n > 0 /\ ~failed => u = offset + n
      BY <1>2, <1>4, <1>7, <2>2
    <3>4. ~(t \in waiters /\ n > 0 /\ ~failed) => u \in {0, Never}
      BY <1>2, <1>4, <1>7, <2>2
    <3>. HIDE DEF u, answered, waiters
    <3>5. Answered(session[t], answered[t], u)
      BY <2>1, <3>1, <3>2, RecordAnswers, Zenon
    <3>6. u \in {0, Never} /\ BrokerAck => SessionHeld(answered[t], durable)
      BY <2>1, <3>5, AnsweredHeld, SMTT(30)
    <3>. QED  BY <3>3, <3>4, <3>5, <3>6 DEF Answered
  <2>3. CASE t # s /\ t \in T
    <3>1. answered[t] = [record_reply(session[t], Upto(n), -1) EXCEPT !.blocked = FALSE]
      BY <2>3
    <3>2. t \in waiters /\ n > 0 /\ k > 0
      BY <1>1, <1>4, <2>3
    <3>. HIDE DEF answered, waiters
    <3>3. Answered(session[t], answered[t], Upto(n))
      BY <1>7, <2>1, <3>1, FlagAnswers, Zenon
    <3>4. Upto(n) \in {0, Never} /\ BrokerAck => SessionHeld(answered[t], durable)
      BY <2>1, <3>3, AnsweredHeld
    <3>. QED  BY <1>7, <3>2, <3>3, <3>4 DEF Answered
  <2>4. CASE t # s /\ t \notin T
    BY <2>1, <2>4
  <2>. QED  BY <2>2, <2>3, <2>4
<1>9. answered \in [Session -> SessionState]
  BY <1>8
<1>. HIDE DEF answered, waiters
<1>10. Ready(answered, n, waiters)
  BY <1>8, <1>9 DEF Ready
<1>11. FinishInv
  BY <1>1, <1>4, <1>5, <1>10, Finish, Zenon
<1>. QED  BY <1>1, <1>11, FinishPreserves

\* A session that only changes one of its flags is as held as it was.
LEMMA FlagHeld ==
  ASSUME NEW ss \in SessionState, NEW b \in BOOLEAN, NEW D
  PROVE  LET tt == [ss EXCEPT !.blocked = b]
         IN  tt \in SessionState /\ (SessionHeld(ss, D) => SessionHeld(tt, D))
<1>. DEFINE tt == [ss EXCEPT !.blocked = b]
<1>1. /\ tt \in SessionState /\ tt.replies = ss.replies /\ tt.next_seq = ss.next_seq
      /\ tt.out = ss.out /\ tt.seen = ss.seen
  BY DEF SessionState
<1>. HIDE DEF tt
<1>2. SessionHeld(ss, D) => SessionHeld(tt, D)
  BY <1>1 DEF SessionHeld
<1>. QED  BY <1>1, <1>2 DEF tt

\* A Scope that changes one session, held when it ends, and has no batch to commit.
LEMMA QuietReady ==
  ASSUME DurableInv, NEW s \in Session, NEW tt \in SessionState,
         BrokerAck => SessionHeld(tt, durable)
  PROVE  Ready([session EXCEPT ![s] = tt], 0, {})
  BY DEF Ready, DurableInv, TypeOK, HeldInv

\* Commands without mutations: park, quit and the deadline of a blocked session.
LEMMA QuietStep ==
  ASSUME DurableInv, NEW s \in Session,
         park(s) \/ quit(s) \/ blocked_deadline(s)
  PROVE  DurableInv'
<1>1. session[s] \in SessionState /\ (BrokerAck => SessionHeld(session[s], durable))
  BY DEF DurableInv, TypeOK, HeldInv
<1>3. \E tt \in SessionState : /\ BrokerAck => SessionHeld(tt, durable)
                               /\ finish(s, [session EXCEPT ![s] = tt], 0, {}, FALSE)
                               /\ running' = running /\ pc' = pc /\ pc = "loop" /\ told' = told
  <2>1. CASE park(s)
    <3>. DEFINE tt == [session[s] EXCEPT !.blocked = TRUE]
    <3>1. tt \in SessionState /\ (BrokerAck => SessionHeld(tt, durable))
      BY <1>1, FlagHeld, Zenon
    <3>2. finish(s, [session EXCEPT ![s] = tt], 0, {}, FALSE)
          /\ running' = running /\ pc' = pc /\ pc = "loop" /\ told' = told
      BY <2>1, Zenon DEF park, Accepts, Loop
    <3>. HIDE DEF tt
    <3>. QED  BY <3>1, <3>2, Zenon
  <2>2. CASE quit(s)
    <3>. DEFINE tt == [record_reply(session[s], 0, -1) EXCEPT !.close_after_write = TRUE]
    <3>1. Answered(session[s], tt, 0)
      BY <1>1, FlagAnswers, Zenon
    <3>2. finish(s, [session EXCEPT ![s] = tt], 0, {}, FALSE)
          /\ running' = running /\ pc' = pc /\ pc = "loop" /\ told' = told
      BY <2>2, Zenon DEF quit, Accepts, Loop
    <3>. HIDE DEF tt
    <3>3. tt \in SessionState /\ (BrokerAck => SessionHeld(tt, durable))
      BY <1>1, <3>1, AnsweredHeld DEF Answered
    <3>. QED  BY <3>2, <3>3, Zenon
  <2>3. CASE blocked_deadline(s)
    <3>. DEFINE tt == [record_reply(session[s], 0, -1) EXCEPT !.blocked = FALSE]
    <3>1. Answered(session[s], tt, 0)
      BY <1>1, FlagAnswers, Zenon
    <3>2. finish(s, [session EXCEPT ![s] = tt], 0, {}, FALSE)
          /\ running' = running /\ pc' = pc /\ pc = "loop" /\ told' = told
      BY <2>3, Zenon DEF blocked_deadline, Loop
    <3>. HIDE DEF tt
    <3>3. tt \in SessionState /\ (BrokerAck => SessionHeld(tt, durable))
      BY <1>1, <3>1, AnsweredHeld DEF Answered
    <3>. QED  BY <3>2, <3>3, Zenon
  <2>. QED  BY <2>1, <2>2, <2>3, Zenon
<1>4. PICK tt \in SessionState : /\ BrokerAck => SessionHeld(tt, durable)
                                 /\ finish(s, [session EXCEPT ![s] = tt], 0, {}, FALSE)
                                 /\ running' = running /\ pc' = pc /\ pc = "loop" /\ told' = told
  BY <1>3, Zenon
<1>5. Ready([session EXCEPT ![s] = tt], 0, {})
  BY <1>4, QuietReady
<1>6. FinishInv
  <2>. DEFINE sess == [session EXCEPT ![s] = tt]
              n == 0
              waiters == {}
  <2>1. /\ n \in Nat /\ n = 0 /\ waiters \in SUBSET Session
        /\ Ready(sess, n, waiters) /\ finish(s, sess, n, waiters, FALSE)
    BY <1>4, <1>5, Zenon
  <2>. HIDE DEF sess, n, waiters
  <2>. QED  BY <2>1, FinishNothing, Zenon
<1>. QED  BY <1>4, <1>6, FinishPreserves

\* An SBE command.
LEMMA SbeStep ==
  ASSUME DurableInv, NEW s \in Session, NEW k \in Nat, dispatch_sbe_command(s, k)
  PROVE  DurableInv'
<1>3. offset + k <= MaxOffset /\ finish(s, session, k, IF k = 0 THEN {} ELSE {s}, TRUE)
  BY Zenon DEF dispatch_sbe_command
<1>1. FinishInv
  BY <1>3, FinishLate, Zenon
<1>2. running' = running /\ told' = told /\ pc' \in {"loop", "serve"}
  BY DEF dispatch_sbe_command
<1>. QED  BY <1>1, <1>2, FinishPreserves

\* A blocked session served after an SBE command.
LEMMA ServeStep ==
  ASSUME DurableInv, NEW t \in Session, serve_ready(t)
  PROVE  DurableInv'
<1>. DEFINE tt == [record_reply(session[t], Upto(1), -1) EXCEPT !.blocked = FALSE]
            sess == [session EXCEPT ![t] = tt]
<1>1. session \in [Session -> SessionState] /\ offset \in Nat /\ Never \in Nat
  BY NeverNat DEF DurableInv, TypeOK
<1>2. /\ Upto(1) \in Nat /\ (failed => Upto(1) = Never) /\ (~failed => Upto(1) = offset + 1)
  BY <1>1 DEF Upto
<1>3. Answered(session[t], tt, Upto(1))
  BY <1>1, <1>2, FlagAnswers, Zenon
<1>4. /\ finish(t, sess, 1, {t}, FALSE) /\ running' = running /\ told' = told
      /\ pc' \in {"loop", "serve"} /\ offset + 1 <= MaxOffset
  BY ZenonT(30) DEF serve_ready
<1>. HIDE DEF tt
<1>5. \A u \in Session : BrokerAck => SessionHeld(session[u], durable)
  BY DEF DurableInv, HeldInv
<1>6. failed /\ BrokerAck => SessionHeld(tt, durable)
  BY <1>1, <1>2, <1>3, <1>5, AnsweredHeld
<1>7. Ready(sess, 1, {t})
  BY <1>1, <1>2, <1>3, <1>5, <1>6 DEF Ready, Answered
<1>. HIDE DEF sess
<1>8. FinishInv
  BY <1>4, <1>7, Finish, Zenon
<1>. QED  BY <1>4, <1>8, FinishPreserves

\* Forgetting a session in the queue of batches keeps the queue's shape (remove).
LEMMA RemoveWaiterType ==
  ASSUME awaiting \in Seq(Batch), NEW s
  PROVE  /\ RemoveWaiter(s) \in Seq(Batch) /\ Len(RemoveWaiter(s)) = Len(awaiting)
         /\ \A i \in 1 .. Len(awaiting) : /\ RemoveWaiter(s)[i].first = awaiting[i].first
                                          /\ RemoveWaiter(s)[i].last = awaiting[i].last
                                          /\ RemoveWaiter(s)[i].waiters = awaiting[i].waiters \ {s}
<1>1. \A i \in 1 .. Len(awaiting) : awaiting[i] \in Batch
  OBVIOUS
<1>2. ASSUME NEW b \in Batch
      PROVE  LET c == [b EXCEPT !.waiters = b.waiters \ {s}]
             IN  c \in Batch /\ c.first = b.first /\ c.last = b.last /\ c.waiters = b.waiters \ {s}
  BY DEF Batch
<1>3. RemoveWaiter(s) = [i \in 1 .. Len(awaiting) |->
                           [awaiting[i] EXCEPT !.waiters = awaiting[i].waiters \ {s}]]
  BY DEF RemoveWaiter
<1>4. RemoveWaiter(s) \in [1 .. Len(awaiting) -> Batch]
  BY <1>1, <1>2, <1>3
<1>5. RemoveWaiter(s) \in Seq(Batch) /\ Len(RemoveWaiter(s)) = Len(awaiting)
  BY <1>4, SeqIntro
<1>6. ASSUME NEW i \in 1 .. Len(awaiting)
      PROVE  /\ RemoveWaiter(s)[i].first = awaiting[i].first
             /\ RemoveWaiter(s)[i].last = awaiting[i].last
             /\ RemoveWaiter(s)[i].waiters = awaiting[i].waiters \ {s}
  <2>1. RemoveWaiter(s)[i] = [awaiting[i] EXCEPT !.waiters = awaiting[i].waiters \ {s}]
    BY <1>3
  <2>. QED  BY <1>1, <1>2, <2>1
<1>. QED  BY <1>5, <1>6

\* An action that changes one session and touches neither the journal nor the offsets.
LEMMA LinkStep ==
  ASSUME DurableInv, NEW s \in Session, NEW tt \in SessionState,
         BrokerAck => SessionHeld(tt, durable),
         session' = [session EXCEPT ![s] = tt],
         awaiting' \in {awaiting, RemoveWaiter(s)}, subscribers' \subseteq Session,
         told' \subseteq Nat, BrokerAck => \A u \in told' \ {Never} : Covered(u, durable),
         pc = "loop", UNCHANGED <<running, pc, failed, offset, released, journalVars>>
  PROVE  DurableInv'
<1>1. awaiting' \in Seq(Batch)
  BY RemoveWaiterType DEF DurableInv, TypeOK
<1>2. session' \in [Session -> SessionState]
  BY DEF DurableInv, TypeOK
<1>3. TypeOK'
  BY <1>1, <1>2 DEF DurableInv, TypeOK, journalVars
<1>4. JournalInv'
  BY DEF DurableInv, JournalInv, journalVars
<1>5. ASSUME BrokerAck
      PROVE  \A t \in Session : SessionHeld(session'[t], durable)
  BY <1>5 DEF DurableInv, TypeOK, HeldInv
<1>6. HeldInv'
  BY <1>5 DEF DurableInv, HeldInv, journalVars
<1>. QED  BY <1>3, <1>4, <1>6, Zenon DEF DurableInv

\* A session that was never opened, or has just been accepted, holds nothing.
LEMMA FreshHeld ==
  /\ Fresh \in SessionState /\ [Fresh EXCEPT !.status = "absent"] \in SessionState
  /\ \A D : SessionHeld(Fresh, D) /\ SessionHeld([Fresh EXCEPT !.status = "absent"], D)
<1>1. Fresh \in SessionState
  <2>1. <<>> \in Seq(Reply) /\ <<>> \in Seq(Frame) /\ -1 \in Int
    OBVIOUS
  <2>. QED  BY <2>1 DEF Fresh, SessionState
<1>2. \A ss \in SessionState : [ss EXCEPT !.status = "absent"] \in SessionState
  BY Zenon DEF SessionState
<1>3. \A D : SessionHeld(Fresh, D) /\ SessionHeld([Fresh EXCEPT !.status = "absent"], D)
  BY DEF SessionHeld, RepliesHeld, FramesHeld, Fresh
<1>. QED  BY <1>1, <1>2, <1>3, Zenon

\* A connection is accepted, or its peer closes it.
LEMMA AcceptStep ==
  ASSUME DurableInv, NEW s \in Session, accept(s) \/ disconnect(s)
  PROVE  DurableInv'
<1>. DEFINE gone == [Fresh EXCEPT !.status = "absent"]
<1>1. \A D : SessionHeld(Fresh, D) /\ SessionHeld(gone, D)
  BY FreshHeld
<1>2. Fresh \in SessionState /\ gone \in SessionState
  BY FreshHeld
<1>3. subscribers \subseteq Session /\ told \subseteq Nat
      /\ (BrokerAck => \A u \in told \ {Never} : Covered(u, durable))
  BY DEF DurableInv, TypeOK, HeldInv
<1>. HIDE DEF gone
<1>4. CASE accept(s)
  BY <1>1, <1>2, <1>3, <1>4, LinkStep, Zenon DEF accept, Loop
<1>5. CASE disconnect(s)
  BY <1>1, <1>2, <1>3, <1>5, LinkStep, ZenonT(30) DEF disconnect, Loop, Drop, gone
<1>. QED  BY <1>4, <1>5

\* A follower subscribes: the hello announces covered offsets.
LEMMA SubscribeStep ==
  ASSUME DurableInv, NEW s \in Session, subscribe(s)
  PROVE  DurableInv'
<1>. DEFINE r == [seq |-> session[s].next_seq, need |-> session[s].next_need, upto |-> 0,
                  hello |-> Announced]
            uu == record_reply(session[s], 0, Announced)
            vv == [uu EXCEPT !.firehose = TRUE]
            tt == IF failed /\ BrokerAck
                  THEN require_kafka_ack(vv, session[s].next_seq, Never) ELSE vv
<1>1. session[s] \in SessionState /\ (BrokerAck => SessionHeld(session[s], durable))
  BY DEF DurableInv, TypeOK, HeldInv
<1>2. Announced \in Int /\ Announced \in Nat /\ (BrokerAck => Covered(Announced, durable))
  BY DEF DurableInv, TypeOK, HeldInv, Announced
<1>3. /\ uu \in SessionState /\ uu.replies = Append(session[s].replies, r) /\ r \in Reply
      /\ uu.next_seq = session[s].next_seq + 1 /\ SameLink(session[s], uu)
  BY <1>1, <1>2, RecordReply, ZenonT(30)
<1>4. r.seq = session[s].next_seq /\ (BrokerAck => ReplyHeld(r, durable))
  <2>1. r.seq = session[s].next_seq /\ r.upto = 0 /\ r.hello = Announced
    OBVIOUS
  <2>. HIDE DEF r
  <2>2. 0 <= Never
    BY NeverNat
  <2>. QED  BY <1>2, <2>1, <2>2 DEF ReplyHeld
<1>. HIDE DEF uu, r
<1>5. /\ vv \in SessionState /\ vv.replies = uu.replies /\ vv.next_seq = uu.next_seq
      /\ vv.out = uu.out /\ vv.seen = uu.seen
  BY <1>3, ZenonT(30) DEF SessionState
<1>. HIDE DEF vv
<1>6. session[s].replies \in Seq(Reply) /\ session[s].next_seq \in Nat
  BY <1>1, Zenon DEF SessionState
<1>7. BrokerAck => SessionHeld(vv, durable)
  <2>1. BrokerAck => RepliesHeld(vv.replies, vv.next_seq, durable)
    BY <1>1, <1>3, <1>4, <1>5, <1>6, AppendHeld, Zenon DEF SessionHeld
  <2>. QED  BY <1>1, <1>3, <1>5, <2>1, Zenon DEF SessionHeld, SameLink
<1>8. tt \in SessionState /\ (BrokerAck => SessionHeld(tt, durable))
  <2>1. CASE failed /\ BrokerAck
    BY <1>5, <1>6, <1>7, <2>1, RequiredNever, Zenon
  <2>2. CASE ~(failed /\ BrokerAck)
    BY <1>5, <1>7, <2>2
  <2>. QED  BY <2>1, <2>2, Zenon
<1>9. /\ session' = [session EXCEPT ![s] = tt] /\ awaiting' = RemoveWaiter(s)
      /\ subscribers' = subscribers \cup {s} /\ pc = "loop" /\ told' = told
      /\ UNCHANGED <<running, pc, failed, offset, released, journalVars>>
  BY DEF subscribe, Accepts, Loop, uu, vv
<1>. HIDE DEF tt
<1>10. subscribers' \subseteq Session /\ told' \subseteq Nat
       /\ (BrokerAck => \A u \in told' \ {Never} : Covered(u, durable))
  BY <1>9, Zenon DEF DurableInv, TypeOK, HeldInv
<1>. QED  BY <1>8, <1>9, <1>10, LinkStep, Zenon

\* A write: what the client hears is covered.
LEMMA WriteStep ==
  ASSUME DurableInv, NEW s \in Session, write_client(s)
  PROVE  DurableInv'
<1>. DEFINE ss == session[s]
            after == Written(ss)
            closed == [after EXCEPT !.status = "closed"]
<1>1. ss \in SessionState /\ (BrokerAck => SessionHeld(ss, durable)) /\ has_writable_output(ss)
  BY Zenon DEF DurableInv, TypeOK, HeldInv, write_client
<1>2. /\ after \in SessionState /\ (BrokerAck => SessionHeld(after, durable))
      /\ ~PushFirst(ss) => ss.replies # <<>> /\ ss.replies[1] \in Reply
      /\ ~PushFirst(ss) /\ BrokerAck /\ ss.replies[1].upto \notin {0, Never}
           => Covered(ss.replies[1].upto, durable)
  <2>. HIDE DEF ss
  <2>. QED  BY <1>1, WrittenHeld
<1>3. /\ told' = IF PushFirst(ss) \/ ss.replies[1].upto = 0 THEN told
                 ELSE told \cup {ss.replies[1].upto}
      /\ \/ session' = [session EXCEPT ![s] = closed] /\ awaiting' = RemoveWaiter(s)
            /\ subscribers' = subscribers \ {s}
         \/ session' = [session EXCEPT ![s] = after] /\ awaiting' = awaiting
            /\ subscribers' = subscribers
      /\ pc = "loop" /\ UNCHANGED <<running, pc, failed, offset, released, journalVars>>
  BY SMTT(30) DEF write_client, Loop, Drop
<1>. HIDE DEF after
<1>4. closed \in SessionState /\ (BrokerAck => SessionHeld(closed, durable))
  <2>1. /\ closed \in SessionState /\ closed.replies = after.replies
        /\ closed.next_seq = after.next_seq /\ closed.out = after.out /\ closed.seen = after.seen
    BY <1>2, SMTT(30) DEF SessionState
  <2>. HIDE DEF closed
  <2>. QED  BY <1>2, <2>1, Zenon DEF SessionHeld
<1>. HIDE DEF ss, closed
<1>5. told \subseteq Nat /\ subscribers \subseteq Session
      /\ (BrokerAck => \A u \in told \ {Never} : Covered(u, durable))
  BY DEF DurableInv, TypeOK, HeldInv
<1>6. ~PushFirst(ss) => ss.replies[1].upto \in Nat
  BY <1>2, SMTT(30) DEF Reply
<1>7. told' \subseteq Nat /\ (BrokerAck => \A u \in told' \ {Never} : Covered(u, durable))
  BY <1>2, <1>3, <1>5, <1>6, Zenon
<1>8. subscribers' \subseteq Session
  BY <1>3, <1>5, Zenon
<1>. QED  BY <1>2, <1>3, <1>4, <1>7, <1>8, LinkStep, Zenon

\* A successful poll starts the release of acknowledged batches; a failed one stops.
LEMMA PollStep ==
  ASSUME DurableInv, Poll
  PROVE  DurableInv'
<1>1. PICK r \in reported .. offset : \E bad \in SUBSET (reported + 1 .. r) :
        poll_kafka_journal(r, bad)
  BY DEF Poll
<1>2. PICK bad : poll_kafka_journal(r, bad)
  BY <1>1
<1>3. reported \in Nat /\ offset \in Nat /\ offset <= MaxOffset
  BY DEF DurableInv, TypeOK, JournalInv
<1>4. r \in Nat /\ r >= reported /\ r <= offset
  BY <1>1, <1>3
<1>5. delivery_reports(r, bad)
  BY <1>2 DEF poll_kafka_journal
<1>6. /\ reported' = r /\ acked' \in Nat /\ acked' <= r /\ delivery_error' \in BOOLEAN
      /\ durable' \subseteq Nat /\ durable \subseteq durable'
      /\ ~delivery_error' => Covered(r, durable')
  BY <1>4, <1>5, Reports, Zenon DEF DurableInv
<1>7. /\ running' = ~delivery_error'
      /\ pc' = IF BrokerAck /\ running' /\ AckedFront(awaiting, acked') THEN "release" ELSE "loop"
      /\ UNCHANGED <<failed, offset, released, awaiting, subscribers, session, told>>
  BY <1>2, Zenon DEF poll_kafka_journal
<1>8. TypeOK'
  BY <1>4, <1>6, <1>7 DEF DurableInv, TypeOK
<1>9. JournalInv'
  BY <1>3, <1>4, <1>6, <1>7, Zenon DEF JournalInv
<1>10. HeldInv'
  <2>. SUFFICES ASSUME BrokerAck
                PROVE  /\ Covered(released', durable')
                       /\ \A t \in Session : SessionHeld(session'[t], durable')
                       /\ \A u \in told' \ {Never} : Covered(u, durable')
    BY DEF HeldInv
  <2>1. \A u : Covered(u, durable) => Covered(u, durable')
    BY <1>6 DEF Covered
  <2>2. Covered(released, durable) /\ \A u \in told \ {Never} : Covered(u, durable)
    BY DEF DurableInv, HeldInv
  <2>3. \A t \in Session : session[t] \in SessionState /\ SessionHeld(session[t], durable)
    BY DEF DurableInv, TypeOK, HeldInv
  <2>4. \A t \in Session : SessionHeld(session[t], durable')
    BY <1>6, <2>3, HeldMono, Zenon
  <2>. QED  BY <1>7, <2>1, <2>2, <2>4, Zenon
<1>. QED  BY <1>8, <1>9, <1>10 DEF DurableInv

\* A batch is released when the brokers hold all of it.
LEMMA ReleaseStep ==
  ASSUME DurableInv, release_acknowledged
  PROVE  DurableInv'
<1>. DEFINE batch == Head(awaiting)
            freed == [t \in Session |-> IF t \in batch.waiters
                                        THEN release_kafka_ack(session[t], batch.last)
                                        ELSE session[t]]
<1>1. /\ pc = "release" /\ BrokerAck /\ ~delivery_error
      /\ awaiting # <<>> /\ awaiting[1].last <= acked
  BY DEF DurableInv, JournalInv, release_acknowledged, AckedFront
<1>2. awaiting \in Seq(Batch)
  BY DEF DurableInv, TypeOK
<1>3. batch = awaiting[1] /\ batch \in Batch /\ Tail(awaiting) \in Seq(Batch)
  BY <1>1, <1>2
<1>4. batch.last \in Nat /\ batch.first \in Nat
  BY <1>3 DEF Batch
<1>5. Covered(batch.last, durable)
  <2>1. Covered(reported, durable) /\ acked <= reported /\ reported \in Nat /\ acked \in Nat
    BY <1>1 DEF DurableInv, JournalInv, TypeOK
  <2>2. batch.last <= reported
    BY <1>1, <1>3, <1>4, <2>1, SMTT(30)
  <2>. QED  BY <1>4, <2>1, <2>2, SMTT(30) DEF Covered
<1>6. /\ awaiting' = Tail(awaiting) /\ released' = batch.last
      /\ broadcast(freed, batch.first, batch.last)
      /\ pc' = IF AckedFront(awaiting', acked) THEN "release" ELSE "loop"
      /\ UNCHANGED <<running, failed, offset, reported, acked, delivery_error, durable, told>>
  BY Zenon DEF release_acknowledged, journalVars
<1>. HIDE DEF batch
<1>7. SessionsHeld(freed, durable)
  <2>1. \A t \in Session : session[t] \in SessionState /\ SessionHeld(session[t], durable)
    BY <1>1, Zenon DEF DurableInv, TypeOK, HeldInv
  <2>2. \A t \in Session : freed[t] \in SessionState /\ SessionHeld(freed[t], durable)
    BY <1>4, <1>5, <2>1, ReleasedHeld, Zenon
  <2>. QED  BY <2>2, Zenon DEF SessionsHeld
<1>. HIDE DEF freed
<1>8. SessionsHeld(session', durable) /\ subscribers' \subseteq Session
  BY <1>4, <1>5, <1>6, <1>7, BroadcastHeld, Zenon DEF DurableInv
<1>9. TypeOK'
  BY <1>3, <1>4, <1>6, <1>8, Zenon DEF DurableInv, TypeOK, SessionsHeld
<1>10. JournalInv'
  BY <1>1, <1>6, SMTT(30) DEF DurableInv, JournalInv
<1>11. HeldInv'
  BY <1>1, <1>5, <1>6, <1>8 DEF DurableInv, HeldInv, SessionsHeld
<1>. QED  BY <1>9, <1>10, <1>11, Zenon DEF DurableInv

\* The runtime starts with nothing to hold (Init).
LEMMA DurableInit == Init => DurableInv
<1>. SUFFICES ASSUME Init PROVE DurableInv
  OBVIOUS
<1>. DEFINE gone == [Fresh EXCEPT !.status = "absent"]
<1>1. gone \in SessionState /\ \A D : SessionHeld(gone, D)
  BY FreshHeld
<1>3. session = [t \in Session |-> gone]
  BY DEF Init
<1>. HIDE DEF gone
<1>4. <<>> \in Seq(Batch)
  OBVIOUS
<1>5. TypeOK
  BY <1>1, <1>3, <1>4, Zenon DEF Init, TypeOK
<1>6. JournalInv
  BY BoundAssumption DEF Init, JournalInv, Covered
<1>7. HeldInv
  BY <1>1, <1>3 DEF Init, HeldInv, Covered
<1>. QED  BY <1>5, <1>6, <1>7 DEF DurableInv

\* Stopping, and doing nothing, keep everything (network_iteration's failed check).
LEMMA IdleStep == DurableInv /\ (stop \/ UNCHANGED vars) => DurableInv'
<1>. SUFFICES ASSUME DurableInv, stop \/ UNCHANGED vars PROVE DurableInv'
  OBVIOUS
<1>1. /\ running' \in BOOLEAN
      /\ UNCHANGED <<pc, failed, offset, released, awaiting, subscribers, journalVars,
                     session, told>>
  BY Zenon DEF DurableInv, TypeOK, stop, vars
<1>2. TypeOK'
  BY <1>1, Zenon DEF DurableInv, TypeOK, journalVars
<1>3. JournalInv' /\ HeldInv'
  BY <1>1, Zenon DEF DurableInv, JournalInv, HeldInv, journalVars, AckedFront
<1>. QED  BY <1>2, <1>3 DEF DurableInv

\* No step of the server breaks the account of what is held (Next).
LEMMA DurableStep == DurableInv /\ [Next]_vars => DurableInv'
<1>. SUFFICES ASSUME DurableInv, [Next]_vars PROVE DurableInv'
  OBVIOUS
<1>1. \A k \in 0 .. MaxCommand : k \in Nat
  BY BoundAssumption
<1>2. ASSUME NEW s \in Clients, Client(s) PROVE DurableInv'
  <2>. s \in Session
    BY DEF Session
  <2>1. ASSUME NEW k \in 0 .. MaxCommand, NEW T \in SUBSET Blocked,
               dispatch_resp_command(s, k, T)
        PROVE  DurableInv'
    BY <1>1, <2>1, RespStep
  <2>2. ASSUME NEW k \in 0 .. MaxCommand, dispatch_sbe_command(s, k)
        PROVE  DurableInv'
    BY <1>1, <2>2, SbeStep
  <2>3. CASE park(s) \/ quit(s)
    BY <2>3, QuietStep
  <2>. QED  BY <1>2, <2>1, <2>2, <2>3 DEF Client
<1>3. ASSUME NEW s \in Followers, subscribe(s) PROVE DurableInv'
  BY <1>3, SubscribeStep DEF Session
<1>4. ASSUME NEW s \in Session, accept(s) \/ write_client(s) \/ disconnect(s)
      PROVE  DurableInv'
  BY <1>4, AcceptStep, WriteStep
<1>5. ASSUME NEW s \in Session, serve_ready(s) \/ blocked_deadline(s)
      PROVE  DurableInv'
  BY <1>5, ServeStep, QuietStep
<1>. QED
  BY <1>2, <1>3, <1>4, <1>5, PollStep, ReleaseStep, IdleStep DEF Next
-----------------------------------------------------------------------------
\* The account of what the brokers hold is kept in every reachable state.
THEOREM DurableInvariant == Spec => []DurableInv
<1>1. Init => DurableInv
  BY DurableInit
<1>2. DurableInv /\ [Next]_vars => DurableInv'
  BY DurableStep
<1>. QED  BY <1>1, <1>2, PTL DEF Spec

\* The runtime's state is always well formed (ReplicationRuntime, EndpointSession).
THEOREM TypeCorrect == Spec => []TypeOK
<1>1. DurableInv => TypeOK
  BY DEF DurableInv
<1>. QED  BY <1>1, DurableInvariant, PTL

\* For any number of clients and followers, any watermark and any queue size: a client
\* never has a reply whose mutations, or an earlier command's, the brokers may lose
\* (require_kafka_ack, release_acknowledged, write_client).
THEOREM RepliesAreDurable == Spec => []ReplyDurable
<1>1. DurableInv => ReplyDurable
  BY Zenon DEF DurableInv, HeldInv, ReplyDurable, Logged, Covered
<1>. QED  BY <1>1, DurableInvariant, PTL

\* For any number of clients and followers: a follower never hears of an offset the
\* brokers may lose (subscribe, release_acknowledged).
THEOREM FirehoseIsDurable == Spec => []FirehoseDurable
<1>1. DurableInv => FirehoseDurable
  BY DEF DurableInv, HeldInv, SessionHeld, FirehoseDurable, Logged, Covered
<1>. QED  BY <1>1, DurableInvariant, PTL
=============================================================================
