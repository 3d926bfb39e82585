-------------------------------- MODULE Ring --------------------------------
(***************************************************************************)
(* One direction (SQ or CQ) of a shared-memory ring: one Producer and one  *)
(* Consumer in different processes that share two indices and a region of  *)
(* Capacity cache lines (include/goblin/core/ring_buffer.hpp).             *)
(*                                                                         *)
(* Sizes and positions are counted in 64-byte cache lines.  A record is a  *)
(* control line followed by its payload lines.  Positions only grow; a     *)
(* position p lives in line p % Capacity of the region.                    *)
(*                                                                         *)
(* A step is one access to shared memory: loading the other side's index,  *)
(* writing the record's lines, the release store of an index.  The lines   *)
(* of a record are written in one step because nobody may read them before *)
(* the tail is stored; that nobody does is what InFlightIntact checks.     *)
(***************************************************************************)
EXTENDS Integers, Sequences

CONSTANTS
  Capacity,     \* lines of the data region
  Mirror,       \* TRUE iff the region is mapped twice, back to back
  MaxMessage,   \* bound: lines of the largest message handed to send()
  MaxMessages   \* bound: number of messages ever handed to the producer

ASSUME CapacityAssumption == Capacity \in Nat /\ Capacity >= 2 /\ Capacity % 2 = 0
ASSUME MirrorAssumption == Mirror \in BOOLEAN
ASSUME BoundAssumption == MaxMessage \in Nat /\ MaxMessages \in Nat

VARIABLES
  head,         \* shared: stored by the consumer
  tail,         \* shared: stored by the producer
  data,         \* shared: the lines of the region
  cached_head,  \* producer: its last load of head
  ppc,          \* producer: idle, try, full, write, publish
  msg,          \* producer: number of the message being sent
  first,        \* producer: lines of it already published
  rest,         \* producer: lines of it still to publish
  cpc,          \* consumer: idle, or holding a peek()ed view
  inflight      \* history: records published and not yet popped

producerVars == <<tail, data, cached_head, ppc, msg, first, rest>>
vars == <<head, producerVars, cpc, inflight>>
-----------------------------------------------------------------------------
Lines == 0 .. Capacity - 1
PayloadLine(m, k) == [kind |-> "payload", msg |-> m, line |-> k]
DataControl(n) == [kind |-> "data", len |-> n]
WrapControl == [kind |-> "wrap"]
Blank == [kind |-> "blank"]
Line == [kind : {"payload"}, msg : Nat, line : Nat]
          \cup [kind : {"data"}, len : Nat] \cup [kind : {"wrap", "blank"}]
\* A record: where it starts, and which lines of which message it carries.
Record == [pos : Nat, msg : Nat, first : Nat, len : Nat]

\* (mutant of max_payload) the control line is forgotten.
max_payload_no_control == Capacity \div 2

\* The largest payload of one record: half the region less its control line.
max_payload == Capacity \div 2 - 1

Padded(n) == 1 + n
Slot(p) == p % Capacity                      \* the line position p lives in
Gap(l, m) == (l + Capacity - m) % Capacity   \* lines from m round to l
ToEnd(p) == Capacity - Slot(p)
At(p) == data[Slot(p)]

\* The lines try_push must find free to store n payload lines at position t.
Straddles(t, n) == ~Mirror /\ Padded(n) > ToEnd(t)

Need(t, n) == IF Straddles(t, n) THEN ToEnd(t) + Padded(n) ELSE Padded(n)
Start(t, n) == IF Straddles(t, n) THEN t + ToEnd(t) ELSE t

Fits(t, h, n) == Capacity - (t - h) >= Need(t, n)

\* The size of the next record: send() cuts pieces of at most max_payload.
chunk == IF rest < max_payload THEN rest ELSE max_payload

TypeOK ==
  /\ head \in Nat /\ tail \in Nat /\ cached_head \in Nat
  /\ data \in [Lines -> Line]
  /\ ppc \in {"idle", "try", "full", "write", "publish"}
  /\ msg \in Nat /\ first \in Nat /\ rest \in Nat
  /\ cpc \in {"idle", "peeked"}
  /\ inflight \in Seq(Record)

Init ==
  /\ head = 0 /\ tail = 0 /\ cached_head = 0
  /\ data = [l \in Lines |-> Blank]
  /\ ppc = "idle" /\ msg = 0 /\ first = 0 /\ rest = 0
  /\ cpc = "idle"
  /\ inflight = <<>>
-----------------------------------------------------------------------------
(* The producer. *)

\* send(payload) takes any size and splits it into records; send_record(payload)
\* is the same loop restricted to n <= max_payload (else length_error, no effect).
send(n) ==
  /\ ppc = "idle" /\ msg < MaxMessages
  /\ ppc' = "try" /\ msg' = msg + 1 /\ first' = 0 /\ rest' = n
  /\ UNCHANGED <<head, tail, data, cached_head, cpc, inflight>>

\* try_push finds room against the cached head: the consumer is not read.
try_push_cached ==
  /\ ppc = "try"
  /\ Fits(tail, cached_head, chunk)
  /\ ppc' = "write"
  /\ UNCHANGED <<head, tail, data, cached_head, msg, first, rest, cpc, inflight>>

\* It does not: reload the consumer's head and check again.
try_push_reload ==
  /\ ppc = "try"
  /\ ~Fits(tail, cached_head, chunk)
  /\ cached_head' = head
  /\ ppc' = IF Fits(tail, head, chunk) THEN "write" ELSE "full"
  /\ UNCHANGED <<head, tail, data, msg, first, rest, cpc, inflight>>

\* try_push returned false: wait a little and try again ...
wait_while_equal ==
  /\ ppc = "full"
  /\ ppc' = "try"
  /\ UNCHANGED <<head, tail, data, cached_head, msg, first, rest, cpc, inflight>>

\* ... unless stop() says so: the rest of the message is never sent.
stop ==
  /\ ppc = "full"
  /\ ppc' = "idle" /\ rest' = 0
  /\ UNCHANGED <<head, tail, data, cached_head, msg, first, cpc, inflight>>

\* The lines after the payload writes: the WRAP filler, if the record would
\* straddle the end of a region mapped once, the control line, the payload.
Written(t, n) ==
  [l \in Lines |->
     LET k == Gap(l, Slot(Start(t, n)))
     IN  IF Straddles(t, n) /\ l = Slot(t) THEN WrapControl
         ELSE IF k = 0 THEN DataControl(n)
         ELSE IF k <= n THEN PayloadLine(msg, first + k)
         ELSE data[l]]

write_record ==
  /\ ppc = "write"
  /\ data' = Written(tail, chunk)
  /\ ppc' = "publish"
  /\ UNCHANGED <<head, tail, cached_head, msg, first, rest, cpc, inflight>>

\* The release store of tail publishes filler and record together.
publish ==
  /\ ppc = "publish"
  /\ tail' = Start(tail, chunk) + Padded(chunk)
  /\ inflight' = Append(inflight, [pos |-> Start(tail, chunk), msg |-> msg,
                                   first |-> first, len |-> chunk])
  /\ first' = first + chunk
  /\ rest' = rest - chunk
  /\ ppc' = IF rest' = 0 THEN "idle" ELSE "try"
  /\ UNCHANGED <<head, data, cached_head, msg, cpc>>
-----------------------------------------------------------------------------
(* The consumer. *)

\* advance_to_record: one turn of its loop, past a WRAP filler.
skip_wrap ==
  /\ cpc = "idle" /\ head # tail
  /\ ~Mirror /\ At(head) = WrapControl
  /\ head' = head + ToEnd(head)
  /\ UNCHANGED <<producerVars, cpc, inflight>>

\* peek: a data record sits at head; the view stays valid until pop.
peek ==
  /\ cpc = "idle" /\ head # tail
  /\ Mirror \/ At(head) # WrapControl
  /\ cpc' = "peeked"
  /\ UNCHANGED <<head, producerVars, inflight>>

\* (mutant of pop) everything published is freed, not the record that was read.
pop_to_tail ==
  /\ cpc = "peeked"
  /\ head' = tail
  /\ cpc' = "idle"
  /\ inflight' = Tail(inflight)
  /\ UNCHANGED producerVars

\* pop: read the length again and free the record with a release store.
pop ==
  /\ cpc = "peeked"
  /\ head' = head + Padded(At(head).len)
  /\ cpc' = "idle"
  /\ inflight' = Tail(inflight)
  /\ UNCHANGED producerVars

Next ==
  \/ \E n \in 1 .. MaxMessage : send(n)
  \/ try_push_cached \/ try_push_reload \/ wait_while_equal \/ stop
  \/ write_record \/ publish
  \/ skip_wrap \/ peek \/ pop

Spec == Init /\ [][Next]_vars

\* Both processes keep running: the consumer polls and the producer's send loop
\* spins.  Nothing forces a client to send, nor stop() to fire.
Fairness ==
  /\ WF_vars(try_push_cached \/ try_push_reload \/ wait_while_equal
             \/ write_record \/ publish)
  /\ WF_vars(skip_wrap \/ peek \/ pop)
FairSpec == Spec /\ Fairness
-----------------------------------------------------------------------------
(* Properties. *)

\* The free-space arithmetic never goes wrong: the producer's stale copy of head
\* is behind the real one, the consumer never overtakes the tail, and the
\* published records never exceed the region, so the unsigned subtraction
\* capacity_ - (t - cached_head_) in try_push never wraps below zero.
IndexOrder ==
  /\ cached_head <= head
  /\ head <= tail
  /\ tail <= cached_head + Capacity

\* Line l holds what record r has at position p.
Holds(r, p) ==
  At(p) = IF p = r.pos THEN DataControl(r.len)
                       ELSE PayloadLine(r.msg, r.first + (p - r.pos))

\* A published record stays in place, whole, until the consumer pops it: neither
\* a later record nor a WRAP filler overwrites a line of it, although the
\* producer only looks at a stale copy of head, and although the next record is
\* being written while the consumer reads the view peek() returned.
InFlightIntact ==
  \A i \in DOMAIN inflight :
    \A p \in inflight[i].pos .. inflight[i].pos + inflight[i].len : Holds(inflight[i], p)

\* When the consumer holds a view, it is the oldest record in flight: no filler
\* is taken for data, no record skipped.
ViewIsOldest ==
  cpc = "peeked" => inflight # <<>> /\ head = inflight[1].pos

\* The queue a reader of the shared region sees between head and tail.
RecordAt(p) == [msg |-> At(p + 1).msg, first |-> At(p + 1).line - 1, len |-> At(p).len]
queue ==
  LET From[p \in Nat] ==
        IF p >= tail THEN <<>>
        ELSE IF At(p).kind = "data" THEN <<RecordAt(p)>> \o From[p + Padded(At(p).len)]
        ELSE From[p + ToEnd(p)]
  IN  From[head]

\* The bytes in the mapped region, decoded from head to tail, behave as the FIFO
\* of module RingFifo: the WRAP fillers, the stale head and the order in which
\* indices and lines are stored are invisible to the ring's users.
Fifo == INSTANCE RingFifo WITH
          Piece <- [msg : 1 .. MaxMessages, first : 0 .. MaxMessage, len : 1 .. max_payload]
FifoSpec == Fifo!Spec

\* A sender that is not told to stop gets its whole message onto the ring: every
\* record send() cuts fits a drained ring, wherever the tail happens to stand.
MessageSent == ppc = "try" ~> ppc = "idle"
=============================================================================
