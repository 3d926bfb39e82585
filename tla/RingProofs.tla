----------------------------- MODULE RingProofs -----------------------------
(***************************************************************************)
(* The safety of the shared-memory ring for every capacity, mapping mode   *)
(* and message size: the indices stay in order, a record in flight is      *)
(* never overwritten, and the consumer's view is always the oldest record. *)
(***************************************************************************)
EXTENDS Ring, TLAPS

End(r) == r.pos + Padded(r.len)

\* A consumer standing at p finds its next data record at q.
Reaches(p, q) ==
  \/ p = q
  \/ ~Mirror /\ At(p) = WrapControl /\ p < q /\ q = p + ToEnd(p)

\* The record the producer is writing.
Pending == [pos |-> Start(tail, chunk), msg |-> msg, first |-> first, len |-> chunk]

\* The records in flight lie one after the other between head and tail ...
InWindow ==
  \A i \in DOMAIN inflight : head <= inflight[i].pos /\ End(inflight[i]) <= tail
Ordered ==
  \A i, j \in DOMAIN inflight : i < j => End(inflight[i]) <= inflight[j].pos

\* ... separated by nothing but WRAP fillers.
Chained ==
  /\ inflight = <<>> => head = tail
  /\ inflight # <<>> => /\ Reaches(head, inflight[1].pos)
                        /\ End(inflight[Len(inflight)]) = tail
  /\ \A i \in 1 .. Len(inflight) - 1 : Reaches(End(inflight[i]), inflight[i + 1].pos)

\* A producer past its free-space check still has the room it found, and once
\* it has written, the lines are the pending record's.
RoomKept == ppc \in {"write", "publish"} => Fits(tail, cached_head, chunk)
PendingWritten ==
  ppc = "publish" =>
    /\ \A p \in Pending.pos .. Pending.pos + Pending.len : Holds(Pending, p)
    /\ Straddles(tail, chunk) => At(tail) = WrapControl

RingInv ==
  /\ TypeOK /\ IndexOrder /\ InFlightIntact /\ ViewIsOldest
  /\ InWindow /\ Ordered /\ Chained /\ RoomKept /\ PendingWritten
-----------------------------------------------------------------------------
(* Arithmetic modulo the capacity. *)

\* A remainder is smaller than the divisor.
LEMMA ModRange ==
  ASSUME NEW C \in Nat, C > 0, NEW a \in Nat
  PROVE  a % C \in 0 .. (C - 1)
  OBVIOUS

\* Quotient and remainder give the number back.
LEMMA DivMod ==
  ASSUME NEW C \in Nat, C > 0, NEW a \in Nat
  PROVE  a = C * (a \div C) + (a % C) /\ a \div C \in Nat
  OBVIOUS

\* Quotient and remainder are unique.
LEMMA DivModUnique ==
  ASSUME NEW C \in Nat, C > 0, NEW q \in Int, NEW r \in 0 .. (C - 1),
         NEW p \in Int, NEW s \in 0 .. (C - 1), C * q + r = C * p + s
  PROVE  q = p /\ r = s
<1>1. C * (q - p) = s - r
  OBVIOUS
<1>2. CASE q - p >= 1
  <2>1. C * (q - p) >= C  BY <1>2
  <2> QED  BY <2>1, <1>1
<1>3. CASE q - p <= -1
  <2>1. C * (q - p) <= -C  BY <1>3
  <2> QED  BY <2>1, <1>1
<1>4. CASE q = p  BY <1>1, <1>4
<1> QED  BY <1>2, <1>3, <1>4

\* The remainder of a number a known distance above a multiple.
LEMMA ModOf ==
  ASSUME NEW C \in Nat, C > 0, NEW a \in Nat, NEW q \in Int, NEW r \in 0 .. (C - 1),
         a = C * q + r
  PROVE  a % C = r
<1>1. a = C * (a \div C) + (a % C) /\ a \div C \in Nat  BY DivMod
<1>2. a % C \in 0 .. (C - 1)  BY ModRange
<1> QED  BY <1>1, <1>2, DivModUnique

\* Two positions less than a region apart lie in different lines, and the
\* distance between their lines, going round, is the distance between them.
LEMMA ModDiff ==
  ASSUME NEW C \in Nat, C > 0, NEW a \in Nat, NEW b \in Nat, a <= b, b < a + C
  PROVE  /\ ((b % C) + C - (a % C)) % C = b - a
         /\ a # b => ((a % C) + C - (b % C)) % C = C - (b - a)
         /\ a # b => a % C # b % C
<1> DEFINE x == a % C  y == b % C  qa == a \div C  qb == b \div C
<1>a. x \in 0 .. (C - 1) /\ y \in 0 .. (C - 1)  BY ModRange
<1>b. a = C * qa + x /\ qa \in Nat  BY DivMod
<1>c. b = C * qb + y /\ qb \in Nat  BY DivMod
<1> HIDE DEF x, y, qa, qb
<1>d. C * (qb - qa) = (b - a) + (x - y)  BY <1>a, <1>b, <1>c
<1>e. qb - qa = 0 \/ qb - qa = 1
  <2>1. CASE qb - qa >= 2
    <3>1. C * (qb - qa) >= C * 2  BY <2>1, <1>b, <1>c
    <3> QED  BY <3>1, <1>d, <1>a
  <2>2. CASE qb - qa <= -1
    <3>1. C * (qb - qa) <= -C  BY <2>2, <1>b, <1>c
    <3> QED  BY <3>1, <1>d, <1>a
  <2> QED  BY <2>1, <2>2, <1>b, <1>c
<1>f. CASE qb - qa = 0
  <2>1. y - x = b - a  BY <1>f, <1>d, <1>a
  <2>2. (y + C - x) = C * 1 + (b - a) /\ b - a \in 0 .. (C - 1) /\ (y + C - x) \in Nat
    BY <2>1, <1>a
  <2>3. (y + C - x) % C = b - a  BY <2>2, ModOf
  <2>4. ASSUME a # b PROVE (x + C - y) % C = C - (b - a) /\ x # y
    <3>1. (x + C - y) = C * 0 + (C - (b - a)) /\ C - (b - a) \in 0 .. (C - 1) /\ (x + C - y) \in Nat
      BY <2>1, <2>4, <1>a
    <3> QED  BY <3>1, <2>1, <2>4, <1>a, ModOf
  <2> QED  BY <2>3, <2>4 DEF x, y
<1>g. CASE qb - qa = 1
  <2>1. y + C - x = b - a  BY <1>g, <1>d, <1>a
  <2>2. (y + C - x) = C * 0 + (b - a) /\ b - a \in 0 .. (C - 1) /\ (y + C - x) \in Nat
    BY <2>1, <1>a
  <2>3. (y + C - x) % C = b - a  BY <2>2, ModOf
  <2>4. ASSUME a # b PROVE (x + C - y) % C = C - (b - a) /\ x # y
    <3>1. (x + C - y) = C * 1 + (C - (b - a)) /\ C - (b - a) \in 0 .. (C - 1) /\ (x + C - y) \in Nat
      BY <2>1, <2>4, <1>a
    <3> QED  BY <3>1, <2>1, <2>4, <1>a, ModOf
  <2> QED  BY <2>3, <2>4 DEF x, y
<1> QED  BY <1>e, <1>f, <1>g
-----------------------------------------------------------------------------
(* The operators of the ring. *)

\* to_end is between one line and the whole ring (Producer::try_push).
LEMMA ToEndRange ==
  ASSUME NEW p \in Nat
  PROVE  /\ Slot(p) \in Lines
         /\ ToEnd(p) \in 1 .. Capacity
<1>1. Slot(p) \in 0 .. (Capacity - 1)  BY ModRange, CapacityAssumption DEF Slot
<1> QED  BY <1>1, CapacityAssumption DEF Slot, ToEnd, Lines

\* Positions a and b less than a region apart, a before b.
LEMMA SlotDiff ==
  ASSUME NEW a \in Nat, NEW b \in Nat, a < b, b < a + Capacity
  PROVE  /\ Slot(a) # Slot(b)
         /\ Gap(Slot(b), Slot(a)) = b - a
         /\ Gap(Slot(a), Slot(b)) = Capacity - (b - a)
<1>1. /\ ((b % Capacity) + Capacity - (a % Capacity)) % Capacity = b - a
      /\ a # b => ((a % Capacity) + Capacity - (b % Capacity)) % Capacity
                    = Capacity - (b - a)
      /\ a # b => a % Capacity # b % Capacity
  <2>1. a <= b /\ Capacity \in Nat /\ Capacity > 0  BY CapacityAssumption
  <2> QED  BY <2>1, ModDiff, ZenonT(40)
<1>2. a # b  OBVIOUS
<1> QED  BY <1>1, <1>2, Zenon DEF Slot, Gap

\* A line is at no distance from itself.
LEMMA GapSelf ==
  ASSUME NEW a \in Nat
  PROVE  Gap(Slot(a), Slot(a)) = 0
<1>1. a <= a /\ a < a + Capacity  BY CapacityAssumption
<1>2. ((a % Capacity) + Capacity - (a % Capacity)) % Capacity = a - a
  BY <1>1, ModDiff, CapacityAssumption
<1> QED  BY <1>2 DEF Slot, Gap

\* A chunk of a message has at least one line and fits max_payload (Producer::send).
LEMMA ChunkRange ==
  ASSUME rest \in Nat
  PROVE  chunk \in Nat /\ chunk <= rest /\ chunk <= max_payload /\ max_payload \in Nat
<1>1. Capacity \div 2 \in Nat /\ Capacity \div 2 >= 1  BY CapacityAssumption
<1> QED  BY <1>1 DEF chunk, max_payload

\* The record starts at or after t and ends Need lines after it.
LEMMA StartNeed ==
  ASSUME NEW t \in Nat, NEW n \in Nat
  PROVE  /\ Start(t, n) \in Nat /\ Need(t, n) \in Nat
         /\ t <= Start(t, n)
         /\ Straddles(t, n) => t < Start(t, n) /\ Start(t, n) = t + ToEnd(t)
         /\ ~Straddles(t, n) => Start(t, n) = t
         /\ Start(t, n) + Padded(n) = t + Need(t, n)
  BY ToEndRange DEF Start, Need, Padded

\* The facts about the pending record that every writing step relies on.
LEMMA PendingRoom ==
  ASSUME TypeOK, IndexOrder, Fits(tail, cached_head, chunk)
  PROVE  /\ chunk \in Nat
         /\ Start(tail, chunk) \in Nat
         /\ tail <= Start(tail, chunk)
         /\ Start(tail, chunk) + chunk < cached_head + Capacity
         /\ Start(tail, chunk) + chunk < head + Capacity
<1>1. chunk \in Nat  BY ChunkRange DEF TypeOK
<1>2. /\ Start(tail, chunk) \in Nat /\ tail <= Start(tail, chunk)
      /\ Start(tail, chunk) + Padded(chunk) = tail + Need(tail, chunk)
      /\ Need(tail, chunk) \in Nat
  BY <1>1, StartNeed DEF TypeOK
<1>3. Capacity - (tail - cached_head) >= Need(tail, chunk)  BY DEF Fits
<1>4. head \in Nat /\ tail \in Nat /\ cached_head \in Nat /\ cached_head <= head
  BY DEF TypeOK, IndexOrder
<1> QED  BY <1>1, <1>2, <1>3, <1>4, CapacityAssumption DEF Padded

\* Writing a record changes only the lines of its filler and its own (Producer::try_push).
LEMMA WrittenAt ==
  ASSUME NEW t, NEW n, NEW s, s = Start(t, n), NEW l \in Lines,
         NEW k, k = Gap(l, Slot(s))
  PROVE  Written(t, n)[l] =
           IF Straddles(t, n) /\ l = Slot(t) THEN WrapControl
           ELSE IF k = 0 THEN DataControl(n)
           ELSE IF k <= n THEN PayloadLine(msg, first + k)
           ELSE data[l]
  BY DEF Written

\* Writing the pending record changes no line between head and tail.
LEMMA WritesOutsideWindow ==
  ASSUME TypeOK, IndexOrder, Fits(tail, cached_head, chunk),
         NEW p \in Nat, head <= p, p < tail
  PROVE  Written(tail, chunk)[Slot(p)] = data[Slot(p)]
<1> DEFINE s == Start(tail, chunk)
           l == Slot(p)
           k == Gap(l, Slot(s))
<1>1. /\ chunk \in Nat /\ s \in Nat /\ tail <= s
      /\ s + chunk < head + Capacity
  BY PendingRoom
<1>2. head \in Nat /\ tail \in Nat /\ Capacity \in Nat /\ Capacity > 0
  BY CapacityAssumption DEF TypeOK
<1>3. l \in Lines  BY ToEndRange
<1>4. l # Slot(tail)
  <2>1. p < tail /\ tail < p + Capacity  BY <1>1, <1>2
  <2> QED  BY <2>1, <1>2, SlotDiff
<1>5. k = Capacity - (s - p)
  <2>1. p < s /\ s < p + Capacity  BY <1>1, <1>2
  <2> QED  BY <2>1, <1>1, <1>2, SlotDiff
<1>6. k # 0 /\ ~(k <= chunk)  BY <1>1, <1>2, <1>5
<1> HIDE DEF s, l, k
<1>7. s = Start(tail, chunk) /\ k = Gap(l, Slot(s))  BY DEF s, k
<1>8. Written(tail, chunk)[l] = data[l]  BY <1>3, <1>4, <1>6, <1>7, WrittenAt
<1> QED  BY <1>8 DEF l

\* ... and puts the pending record in its lines.
LEMMA WritesRecord ==
  ASSUME TypeOK, IndexOrder, Fits(tail, cached_head, chunk),
         NEW p \in Start(tail, chunk) .. Start(tail, chunk) + chunk
  PROVE  Written(tail, chunk)[Slot(p)]
           = IF p = Start(tail, chunk) THEN DataControl(chunk)
             ELSE PayloadLine(msg, first + (p - Start(tail, chunk)))
<1> DEFINE s == Start(tail, chunk)
           l == Slot(p)
           k == Gap(l, Slot(s))
<1>1. /\ chunk \in Nat /\ s \in Nat /\ tail <= s
      /\ s + chunk < cached_head + Capacity /\ cached_head <= tail
  BY PendingRoom DEF IndexOrder, TypeOK
<1>2. p \in Nat /\ tail \in Nat /\ cached_head \in Nat /\ Capacity \in Nat /\ Capacity > 0
  BY <1>1, CapacityAssumption DEF TypeOK
<1>3. l \in Lines  BY <1>2, ToEndRange
<1>4. Straddles(tail, chunk) => l # Slot(tail)
  <2>1. ASSUME Straddles(tail, chunk)  PROVE tail < p /\ p < tail + Capacity
    BY <2>1, <1>1, <1>2, StartNeed
  <2> QED  BY <2>1, <1>2, SlotDiff
<1>5. k = p - s
  <2>1. s <= p /\ p < s + Capacity  BY <1>1, <1>2
  <2>2. CASE p = s  BY <2>2, <1>1, GapSelf
  <2>3. CASE p # s
    <3>1. s < p  BY <2>1, <2>3, <1>1, <1>2
    <3> QED  BY <3>1, <2>1, <1>1, <1>2, SlotDiff
  <2> QED  BY <2>2, <2>3
<1>6. k \in Nat /\ k <= chunk /\ (k = 0 <=> p = s)  BY <1>1, <1>2, <1>5
<1> HIDE DEF s, l, k
<1>8. s = Start(tail, chunk) /\ k = Gap(l, Slot(s))  BY DEF s, k
<1>7. Written(tail, chunk)[l] = IF k = 0 THEN DataControl(chunk)
                                ELSE PayloadLine(msg, first + k)
  BY <1>3, <1>4, <1>6, <1>8, WrittenAt
<1> QED  BY <1>5, <1>6, <1>7 DEF l, s
-----------------------------------------------------------------------------
(* The inductive invariant. *)

\* The facts about records in flight that mention only memory, head and tail.
Layout == InFlightIntact /\ ViewIsOldest /\ InWindow /\ Ordered /\ Chained

\* An empty ring satisfies the invariant.
LEMMA RingInvInit == Init => RingInv
<1> SUFFICES ASSUME Init  PROVE RingInv
  OBVIOUS
<1>1. TypeOK  BY DEF Init, TypeOK, Line, Blank
<1>2. IndexOrder  BY CapacityAssumption DEF Init, IndexOrder
<1>3. inflight = <<>> /\ DOMAIN inflight = {} /\ Len(inflight) = 0 /\ head = tail
      /\ ppc = "idle" /\ cpc = "idle"
  BY DEF Init
<1>4. InFlightIntact /\ ViewIsOldest /\ InWindow /\ Ordered /\ Chained
  BY <1>3 DEF InFlightIntact, ViewIsOldest, InWindow, Ordered, Chained
<1>5. RoomKept /\ PendingWritten  BY <1>3 DEF RoomKept, PendingWritten
<1> QED  BY <1>1, <1>2, <1>4, <1>5 DEF RingInv

\* A step that leaves the region, the indices, the records in flight and the
\* consumer alone keeps the layout.
LEMMA LayoutKept ==
  ASSUME Layout, UNCHANGED <<head, tail, data, cpc, inflight>>
  PROVE  Layout'
  BY DEF Layout, InFlightIntact, ViewIsOldest, InWindow, Ordered, Chained,
         Reaches, Holds, At, End, ToEnd

\* A step that leaves the producer's variables alone keeps its claims.
LEMMA PendingKept ==
  ASSUME RoomKept, PendingWritten,
         UNCHANGED <<tail, data, cached_head, ppc, msg, first, rest>>
  PROVE  RoomKept' /\ PendingWritten'
<1>1. chunk' = chunk  BY DEF chunk
<1>2. Straddles(tail, chunk)' = Straddles(tail, chunk)  BY <1>1 DEF Straddles
<1>3. Fits(tail, cached_head, chunk)' = Fits(tail, cached_head, chunk)
  BY <1>1 DEF Fits, Need, Straddles
<1>4. Pending' = Pending  BY <1>1 DEF Pending, Start, Straddles
<1>5. \A p : Holds(Pending, p)' = Holds(Pending, p)  BY <1>4 DEF Holds, At
<1>6. At(tail)' = At(tail)  BY DEF At
<1> QED  BY <1>2, <1>3, <1>4, <1>5, <1>6 DEF RoomKept, PendingWritten

\* The steps of the producer before it writes.
LEMMA CheckStep ==
  ASSUME RingInv,
         \/ \E n \in 1 .. MaxMessage : send(n)
         \/ try_push_cached \/ try_push_reload \/ wait_while_equal \/ stop
  PROVE  RingInv'
<1>1. UNCHANGED <<head, tail, data, cpc, inflight>>
  BY DEF send, try_push_cached, try_push_reload, wait_while_equal, stop
<1>2. Layout'  BY <1>1, LayoutKept DEF RingInv, Layout
<1>3. TypeOK'
  BY <1>1, BoundAssumption
  DEF RingInv, TypeOK, send, try_push_cached, try_push_reload, wait_while_equal, stop
<1>4. cached_head' \in {cached_head, head}
  BY DEF send, try_push_cached, try_push_reload, wait_while_equal, stop
<1>5. IndexOrder'
  <2>1. head \in Nat /\ tail \in Nat /\ cached_head \in Nat /\ Capacity \in Nat
    BY CapacityAssumption DEF RingInv, TypeOK
  <2>2. cached_head <= head /\ head <= tail /\ tail <= cached_head + Capacity
    BY DEF RingInv, IndexOrder
  <2>3. cached_head' <= head /\ tail <= cached_head' + Capacity
    <3>1. CASE cached_head' = cached_head  BY <3>1, <2>2
    <3>2. CASE cached_head' = head
      <4>1. head <= head /\ tail <= head + Capacity  BY <2>1, <2>2
      <4> QED  BY <4>1, <3>2
    <3> QED  BY <1>4, <3>1, <3>2
  <2> QED  BY <1>1, <2>2, <2>3 DEF IndexOrder
<1>6. ppc' # "publish"
  BY DEF send, try_push_cached, try_push_reload, wait_while_equal, stop
<1>7. RoomKept'
  BY <1>1
  DEF RoomKept, send, try_push_cached, try_push_reload, wait_while_equal, stop,
      Fits, Need, Straddles, ToEnd, Padded, chunk
<1> QED  BY <1>2, <1>3, <1>5, <1>6, <1>7 DEF RingInv, Layout, PendingWritten

\* A record in flight lies in the window.
LEMMA InFlightRecord ==
  ASSUME TypeOK, InWindow, NEW i \in DOMAIN inflight
  PROVE  /\ inflight[i].pos \in Nat /\ inflight[i].len \in Nat
         /\ End(inflight[i]) \in Nat
         /\ End(inflight[i]) = inflight[i].pos + 1 + inflight[i].len
         /\ head <= inflight[i].pos
         /\ inflight[i].pos + inflight[i].len < tail
<1>1. inflight \in Seq(Record) /\ tail \in Nat  BY DEF TypeOK
<1>2. inflight[i] \in Record  BY <1>1
<1>3. inflight[i].pos \in Nat /\ inflight[i].len \in Nat  BY <1>2 DEF Record
<1>4. head <= inflight[i].pos /\ End(inflight[i]) <= tail  BY DEF InWindow
<1>5. End(inflight[i]) = inflight[i].pos + (1 + inflight[i].len)  BY DEF End, Padded
<1>6. \A a, b, t \in Nat : /\ a + (1 + b) \in Nat /\ a + (1 + b) = a + 1 + b
                           /\ a + (1 + b) <= t => a + b < t
  OBVIOUS
<1> DEFINE a == inflight[i].pos
           b == inflight[i].len
<1>7. a \in Nat /\ b \in Nat /\ End(inflight[i]) = a + (1 + b)  BY <1>3, <1>5
<1> HIDE DEF a, b
<1>8. /\ a + (1 + b) \in Nat /\ a + (1 + b) = a + 1 + b
      /\ a + (1 + b) <= tail => a + b < tail
  BY <1>1, <1>6, <1>7
<1> QED  BY <1>4, <1>7, <1>8 DEF a, b

\* Writing the pending record: no line of the window changes.
LEMMA WriteStep ==
  ASSUME RingInv, write_record
  PROVE  RingInv'
<1> USE DEF write_record
<1>1. TypeOK /\ IndexOrder /\ Fits(tail, cached_head, chunk)  BY DEF RingInv, RoomKept
<1>2. UNCHANGED <<head, tail, cached_head, msg, first, rest, cpc, inflight>> /\ chunk' = chunk
  BY DEF chunk
<1>3. ASSUME NEW p \in Nat, head <= p, p < tail  PROVE At(p)' = At(p)
  BY <1>1, <1>3, WritesOutsideWindow DEF At
<1>4. chunk \in Nat /\ head \in Nat /\ tail \in Nat /\ Start(tail, chunk) \in Nat
  BY <1>1, PendingRoom DEF TypeOK
<1>5. \A i \in DOMAIN inflight : /\ inflight[i].pos \in Nat /\ inflight[i].len \in Nat
                                 /\ End(inflight[i]) \in Nat
                                 /\ End(inflight[i]) = inflight[i].pos + 1 + inflight[i].len
                                 /\ head <= inflight[i].pos
                                 /\ inflight[i].pos + inflight[i].len < tail
  BY <1>1, InFlightRecord DEF RingInv
<1>6. TypeOK'
  <2>1. data' \in [Lines -> Line]
    <3> SUFFICES ASSUME NEW l \in Lines  PROVE Written(tail, chunk)[l] \in Line
      BY DEF Written
    <3> DEFINE s == Start(tail, chunk)
               k == Gap(l, Slot(s))
    <3>1. k \in Nat
      <4>1. Slot(s) \in 0 .. Capacity - 1  BY <1>4, ToEndRange DEF Lines
      <4>2. l + Capacity - Slot(s) \in Nat  BY <4>1, CapacityAssumption DEF Lines
      <4> QED  BY <4>2, ModRange, CapacityAssumption DEF Gap
    <3>2. s = Start(tail, chunk) /\ k = Gap(l, Slot(s))  OBVIOUS
    <3> HIDE DEF s, k
    <3>3. Written(tail, chunk)[l] \in {WrapControl, DataControl(chunk),
                                       PayloadLine(msg, first + k), data[l]}
      BY <3>2, WrittenAt
    <3> QED  BY <3>1, <3>3, <1>1, <1>4 DEF TypeOK, Line, WrapControl, DataControl, PayloadLine
  <2> QED  BY <2>1, <1>1, <1>2 DEF TypeOK
<1>7. InFlightIntact'
  <2> SUFFICES ASSUME NEW i \in DOMAIN inflight,
                      NEW p \in inflight[i].pos .. inflight[i].pos + inflight[i].len
               PROVE  Holds(inflight[i], p)'
    BY <1>2 DEF InFlightIntact
  <2>1. p \in Nat /\ head <= p /\ p < tail  BY <1>4, <1>5
  <2> QED  BY <2>1, <1>2, <1>3 DEF RingInv, InFlightIntact, Holds
<1>8. Chained'
  <2>1. ASSUME NEW p \in Nat, head <= p, p < tail, NEW q, Reaches(p, q)
        PROVE  Reaches(p, q)'
    BY <2>1, <1>3 DEF Reaches, ToEnd
  <2>2. inflight # <<>> => Reaches(head, inflight[1].pos)'
    <3> SUFFICES ASSUME inflight # <<>>  PROVE Reaches(head, inflight[1].pos)'
      OBVIOUS
    <3>1. 1 \in DOMAIN inflight  BY <1>1 DEF TypeOK
    <3>2. head < tail  BY <3>1, <1>4, <1>5
    <3>3. Reaches(head, inflight[1].pos)  BY DEF RingInv, Chained
    <3> QED  BY <3>2, <3>3, <2>1, <1>2, <1>4 DEF Reaches
  <2>3. ASSUME NEW i \in 1 .. Len(inflight) - 1
        PROVE  Reaches(End(inflight[i]), inflight[i + 1].pos)'
    <3>1. i \in DOMAIN inflight /\ i + 1 \in DOMAIN inflight /\ i < i + 1
      BY <1>1 DEF TypeOK
    <3>2. /\ End(inflight[i]) \in Nat /\ head <= End(inflight[i])
          /\ End(inflight[i]) <= inflight[i + 1].pos
          /\ inflight[i + 1].pos < tail
      <4>1. End(inflight[i]) <= inflight[i + 1].pos  BY <3>1 DEF RingInv, Ordered
      <4>2. /\ End(inflight[i]) \in Nat /\ head <= inflight[i].pos
            /\ inflight[i].pos \in Nat /\ inflight[i].len \in Nat
            /\ End(inflight[i]) = inflight[i].pos + 1 + inflight[i].len
        BY <3>1, <1>5
      <4>3. /\ inflight[i + 1].pos \in Nat /\ inflight[i + 1].len \in Nat
            /\ inflight[i + 1].pos + inflight[i + 1].len < tail
        BY <3>1, <1>5
      <4>4. head <= End(inflight[i])
        <5>1. \A h, p, n \in Nat : h <= p => h <= p + 1 + n  OBVIOUS
        <5> QED  BY <5>1, <4>2, <1>4, Zenon
      <4>5. inflight[i + 1].pos < tail  BY <4>3, <1>4
      <4> QED  BY <4>1, <4>2, <4>4, <4>5
    <3>3. Reaches(End(inflight[i]), inflight[i + 1].pos)  BY DEF RingInv, Chained
    <3>4. End(inflight[i]) < tail  BY <3>1, <3>2, <1>4, <1>5
    <3> QED  BY <3>2, <3>3, <3>4, <2>1, <1>2 DEF Reaches, End, Padded
  <2> QED  BY <2>2, <2>3, <1>2 DEF RingInv, Chained, End
<1>9. PendingWritten'
  <2>1. ASSUME NEW p \in Start(tail, chunk) .. Start(tail, chunk) + chunk
        PROVE  Holds(Pending, p)'
    BY <1>1, <1>2, WritesRecord DEF Holds, Pending, At, Start, Straddles
  <2>2. Straddles(tail, chunk) => At(tail)' = WrapControl
    <3>1. Slot(tail) \in Lines  BY <1>4, ToEndRange
    <3> QED  BY <3>1, <1>2 DEF At, Written
  <2> QED  BY <2>1, <2>2, <1>2 DEF PendingWritten, Pending, Start, Straddles
<1>10. RoomKept'  BY <1>1, <1>2 DEF RoomKept, Fits, Need, Straddles
<1>11. IndexOrder' /\ ViewIsOldest' /\ InWindow' /\ Ordered'
  BY <1>2 DEF RingInv, IndexOrder, ViewIsOldest, InWindow, Ordered, End
<1> QED  BY <1>6, <1>7, <1>8, <1>9, <1>10, <1>11 DEF RingInv

\* Publishing: the pending record joins the chain at its end.
LEMMA PublishStep ==
  ASSUME RingInv, publish
  PROVE  RingInv'
<1> DEFINE n == Len(inflight)
<1>1. TypeOK /\ IndexOrder /\ Fits(tail, cached_head, chunk) /\ PendingWritten
  BY DEF RingInv, RoomKept, publish
<1>2. /\ UNCHANGED <<head, data, cached_head, msg, cpc>>
      /\ inflight' = Append(inflight, Pending)
      /\ tail' = End(Pending)
      /\ ppc' \in {"idle", "try"}
  BY DEF publish, Pending, End
<1>3. /\ head \in Nat /\ tail \in Nat /\ cached_head \in Nat /\ chunk \in Nat
      /\ msg \in Nat /\ first \in Nat /\ rest \in Nat /\ chunk <= rest
      /\ inflight \in Seq(Record) /\ n \in Nat
  BY <1>1, ChunkRange DEF TypeOK
<1>4. /\ Pending.pos \in Nat /\ Pending.len \in Nat /\ Pending \in Record
      /\ Pending.pos = Start(tail, chunk) /\ Pending.len = chunk
      /\ End(Pending) \in Nat /\ End(Pending) = Start(tail, chunk) + 1 + chunk
      /\ tail <= Pending.pos /\ Pending.pos < End(Pending)
  <2>1. Start(tail, chunk) \in Nat /\ tail <= Start(tail, chunk)  BY <1>1, PendingRoom
  <2>2. Pending.pos = Start(tail, chunk) /\ Pending.len = chunk  BY DEF Pending
  <2>3. Pending \in Record  BY <2>1, <1>3 DEF Pending, Record
  <2> QED  BY <2>1, <2>2, <2>3, <1>3 DEF End, Padded
<1>5. /\ DOMAIN inflight = 1 .. n /\ DOMAIN inflight' = 1 .. n + 1
      /\ Len(inflight') = n + 1
      /\ \A i \in 1 .. n : inflight'[i] = inflight[i]
      /\ inflight'[n + 1] = Pending
  BY <1>2, <1>3
<1> HIDE DEF n
<1>6. \A i \in 1 .. n : /\ inflight[i].pos \in Nat /\ inflight[i].len \in Nat
                        /\ End(inflight[i]) \in Nat
                        /\ head <= inflight[i].pos /\ End(inflight[i]) <= tail
  <2> SUFFICES ASSUME NEW i \in 1 .. n
               PROVE  /\ inflight[i].pos \in Nat /\ inflight[i].len \in Nat
                      /\ End(inflight[i]) \in Nat
                      /\ head <= inflight[i].pos /\ End(inflight[i]) <= tail
    OBVIOUS
  <2>1. i \in DOMAIN inflight  BY <1>5
  <2>2. InWindow  BY DEF RingInv
  <2> QED  BY <2>1, <2>2, <1>1, InFlightRecord DEF InWindow
<1>7. TypeOK'
  <2>1. inflight' \in Seq(Record)  BY <1>2, <1>3, <1>4
  <2>2. first' \in Nat /\ rest' \in Nat  BY <1>3 DEF publish
  <2> QED  BY <2>1, <2>2, <1>1, <1>2, <1>4 DEF TypeOK
<1>8. IndexOrder'
  <2>1. Start(tail, chunk) \in Nat /\ Start(tail, chunk) + chunk < cached_head + Capacity
    BY <1>1, PendingRoom
  <2>2. head <= End(Pending)  BY <1>1, <1>3, <1>4 DEF IndexOrder
  <2>3. End(Pending) <= cached_head + Capacity  BY <2>1, <1>3, <1>4, CapacityAssumption
  <2> QED  BY <2>2, <2>3, <1>1, <1>2 DEF IndexOrder
<1>9. InFlightIntact'
  <2>1. ASSUME NEW i \in 1 .. n, NEW p \in inflight[i].pos .. inflight[i].pos + inflight[i].len
        PROVE  Holds(inflight[i], p)'
    <3>1. Holds(inflight[i], p)  BY <1>5 DEF RingInv, InFlightIntact
    <3> QED  BY <3>1, <1>2, <1>5, Zenon DEF Holds, At
  <2>2. ASSUME NEW p \in Pending.pos .. Pending.pos + Pending.len
        PROVE  At(p) = IF p = Pending.pos THEN DataControl(Pending.len)
                       ELSE PayloadLine(Pending.msg, Pending.first + (p - Pending.pos))
    BY <1>1 DEF PendingWritten, Holds, publish
  <2>3. ASSUME NEW i \in 1 .. n + 1,
               NEW p \in inflight'[i].pos .. inflight'[i].pos + inflight'[i].len
        PROVE  Holds(inflight[i], p)'
    <3>1. CASE i \in 1 .. n  BY <3>1, <2>1, <2>3, <1>5
    <3>2. CASE i = n + 1  BY <3>2, <2>2, <2>3, <1>2, <1>5 DEF Holds, At
    <3> QED  BY <3>1, <3>2, <1>3 DEF n
  <2> QED  BY <2>3, <1>5 DEF InFlightIntact
<1>10. ViewIsOldest'
  <2> SUFFICES ASSUME cpc = "peeked"  PROVE inflight' # <<>> /\ head = inflight'[1].pos
    BY <1>2 DEF ViewIsOldest
  <2>1. inflight # <<>> /\ head = inflight[1].pos  BY DEF RingInv, ViewIsOldest
  <2>2. 1 \in 1 .. n  BY <2>1, <1>3 DEF n
  <2>3. inflight' # <<>>  BY <1>2, <1>3
  <2> QED  BY <2>1, <2>2, <2>3, <1>5
<1>11. InWindow'
  <2> SUFFICES ASSUME NEW i \in 1 .. n + 1
               PROVE  head <= inflight'[i].pos /\ End(inflight'[i]) <= End(Pending)
    BY <1>2, <1>5 DEF InWindow, End
  <2>1. CASE i \in 1 .. n
    <3>1. head <= inflight[i].pos /\ End(inflight[i]) <= tail /\ End(inflight[i]) \in Nat
      BY <2>1, <1>6
    <3>2. End(inflight[i]) <= End(Pending)  BY <3>1, <1>3, <1>4
    <3> QED  BY <3>1, <3>2, <2>1, <1>5
  <2>2. CASE i = n + 1
    <3>1. head <= Pending.pos  BY <1>1, <1>3, <1>4 DEF IndexOrder
    <3> QED  BY <3>1, <2>2, <1>4, <1>5
  <2> QED  BY <2>1, <2>2, <1>3 DEF n
<1>12. Ordered'
  <2> SUFFICES ASSUME NEW i \in 1 .. n + 1, NEW j \in 1 .. n + 1, i < j
               PROVE  End(inflight'[i]) <= inflight'[j].pos
    BY <1>5 DEF Ordered, End
  <2>1. i \in 1 .. n  BY <1>3 DEF n
  <2>2. CASE j \in 1 .. n  BY <2>1, <2>2, <1>5 DEF RingInv, Ordered
  <2>3. CASE j = n + 1
    <3>1. End(inflight[i]) <= Pending.pos  BY <2>1, <1>3, <1>4, <1>6
    <3> QED  BY <3>1, <2>1, <2>3, <1>5
  <2> QED  BY <2>2, <2>3, <1>3 DEF n
<1>13. Chained'
  <2>1. \A p, q : Reaches(p, q) => Reaches(p, q)'  BY <1>2 DEF Reaches, At
  <2>2. Reaches(tail, Pending.pos)
    <3>1. CASE Straddles(tail, chunk)
      <4>1. ~Mirror  BY <3>1 DEF Straddles
      <4>2. At(tail) = WrapControl  BY <3>1, <1>1 DEF PendingWritten, publish
      <4>3. tail < Pending.pos /\ Pending.pos = tail + ToEnd(tail)
        BY <3>1, <1>3, <1>4, StartNeed
      <4> QED  BY <4>1, <4>2, <4>3 DEF Reaches
    <3>2. CASE ~Straddles(tail, chunk)
      BY <3>2, <1>4 DEF Reaches, Start
    <3> QED  BY <3>1, <3>2
  <2>3. inflight' # <<>> /\ End(inflight'[Len(inflight')]) = tail'  BY <1>2, <1>3, <1>5 DEF n
  <2>4. CASE n = 0
    <3>1. head = tail /\ inflight'[1] = Pending
      BY <2>4, <1>3, <1>5 DEF RingInv, Chained, n
    <3>2. Reaches(head, inflight'[1].pos)  BY <3>1, <2>2
    <3>3. 1 .. Len(inflight') - 1 = {}  BY <2>4, <1>5
    <3> QED  BY <3>2, <3>3, <2>1, <2>3, <1>2 DEF Chained, End, Reaches, At
  <2>5. CASE n # 0
    <3>1. inflight # <<>> /\ 1 \in 1 .. n /\ n \in 1 .. n  BY <2>5, <1>3 DEF n
    <3>2. Reaches(head, inflight[1].pos) /\ End(inflight[n]) = tail
      BY <3>1 DEF RingInv, Chained, n
    <3>3. Reaches(head, inflight'[1].pos)  BY <3>1, <3>2, <1>5
    <3>4. ASSUME NEW i \in 1 .. n  PROVE Reaches(End(inflight'[i]), inflight'[i + 1].pos)
      <4>1. CASE i = n  BY <4>1, <3>2, <2>2, <1>5
      <4>2. CASE i # n
        <5>1. i \in 1 .. Len(inflight) - 1 /\ i + 1 \in 1 .. n  BY <4>2, <1>3 DEF n
        <5>2. Reaches(End(inflight[i]), inflight[i + 1].pos)  BY <5>1 DEF RingInv, Chained
        <5> QED  BY <5>1, <5>2, <1>5
      <4> QED  BY <4>1, <4>2
    <3>5. 1 .. Len(inflight') - 1 = 1 .. n  BY <1>3, <1>5
    <3> QED  BY <3>3, <3>4, <3>5, <2>1, <2>3, <1>2, Zenon DEF Chained, End, Reaches, At
  <2> QED  BY <2>4, <2>5
<1>14. RoomKept' /\ PendingWritten'  BY <1>2 DEF RoomKept, PendingWritten
<1> QED  BY <1>7, <1>8, <1>9, <1>10, <1>11, <1>12, <1>13, <1>14 DEF RingInv

\* Past a WRAP filler: the record behind it is the oldest in flight.
LEMMA SkipWrapStep ==
  ASSUME RingInv, skip_wrap
  PROVE  RingInv'
<1>1. UNCHANGED <<tail, data, cached_head, ppc, msg, first, rest, cpc, inflight>>
  BY DEF skip_wrap, producerVars
<1>2. /\ TypeOK /\ IndexOrder /\ InWindow /\ Ordered /\ Chained /\ InFlightIntact
      /\ head # tail /\ At(head) = WrapControl /\ cpc = "idle"
      /\ head' = head + ToEnd(head)
  BY DEF RingInv, skip_wrap
<1>3. inflight # <<>> /\ 1 \in DOMAIN inflight  BY <1>2 DEF Chained, TypeOK
<1>4. /\ inflight[1].pos \in Nat /\ inflight[1].len \in Nat /\ head <= inflight[1].pos
      /\ inflight[1].pos + inflight[1].len < tail /\ head \in Nat /\ tail \in Nat
      /\ cached_head \in Nat
  BY <1>2, <1>3, InFlightRecord DEF TypeOK
<1>5. head # inflight[1].pos
  <2>1. Holds(inflight[1], inflight[1].pos)  BY <1>2, <1>3, <1>4 DEF InFlightIntact
  <2> QED  BY <2>1, <1>2 DEF Holds, DataControl, WrapControl
<1>6. head' = inflight[1].pos  BY <1>2, <1>3, <1>5 DEF Chained, Reaches
<1>7. TypeOK'  BY <1>1, <1>2, <1>4, <1>6 DEF TypeOK
<1>8. IndexOrder'
  <2>1. cached_head <= inflight[1].pos /\ inflight[1].pos <= tail
    BY <1>2, <1>4 DEF IndexOrder
  <2> QED  BY <2>1, <1>1, <1>2, <1>6 DEF IndexOrder
<1>9. InWindow'
  <2> SUFFICES ASSUME NEW i \in DOMAIN inflight
               PROVE  inflight[1].pos <= inflight[i].pos /\ End(inflight[i]) <= tail
    BY <1>1, <1>6 DEF InWindow, End
  <2>1. End(inflight[i]) <= tail  BY <1>2 DEF InWindow
  <2>2. CASE i = 1  BY <2>1, <2>2, <1>4
  <2>3. CASE i # 1
    <3>1. 1 < i  BY <2>3, <1>2 DEF TypeOK
    <3>2. End(inflight[1]) <= inflight[i].pos  BY <3>1, <1>2, <1>3 DEF Ordered
    <3>3. inflight[i].pos \in Nat  BY <1>2, InFlightRecord
    <3>4. End(inflight[1]) = inflight[1].pos + 1 + inflight[1].len
      BY <1>2, <1>3, InFlightRecord
    <3>5. \A a, b, c \in Nat : a + 1 + b <= c => a <= c  OBVIOUS
    <3> QED  BY <2>1, <3>2, <3>3, <3>4, <3>5, <1>4
  <2> QED  BY <2>2, <2>3
<1>10. Chained'
  <2>1. \A p, q : Reaches(p, q) => Reaches(p, q)'  BY <1>1 DEF Reaches, At
  <2> QED  BY <2>1, <1>1, <1>2, <1>3, <1>6 DEF Chained, End, Reaches, At
<1>11. InFlightIntact' /\ Ordered' /\ ViewIsOldest'
  BY <1>1, <1>2 DEF InFlightIntact, Holds, At, Ordered, End, ViewIsOldest
<1>12. RoomKept' /\ PendingWritten'
  BY <1>1, PendingKept DEF RingInv
<1> QED  BY <1>7, <1>8, <1>9, <1>10, <1>11, <1>12 DEF RingInv

\* peek: the record at head is the oldest in flight.
LEMMA PeekStep ==
  ASSUME RingInv, peek
  PROVE  RingInv'
<1>1. UNCHANGED <<head, tail, data, cached_head, ppc, msg, first, rest, inflight>>
  BY DEF peek, producerVars
<1>2. TypeOK /\ Chained /\ head # tail  BY DEF RingInv, peek
<1>3. inflight # <<>>  BY <1>2 DEF Chained
<1>4. head = inflight[1].pos  BY <1>2, <1>3 DEF Chained, Reaches, peek
<1>5. ViewIsOldest'  BY <1>1, <1>3, <1>4 DEF ViewIsOldest
<1>6. TypeOK'  BY <1>1, <1>2, Zenon DEF TypeOK, peek
<1>7. IndexOrder' /\ InFlightIntact' /\ InWindow' /\ Ordered' /\ Chained'
  BY <1>1 DEF RingInv, IndexOrder, InFlightIntact, InWindow, Ordered, Chained,
              Reaches, Holds, At, End, ToEnd
<1>8. RoomKept' /\ PendingWritten'
  BY <1>1, PendingKept DEF RingInv
<1> QED  BY <1>5, <1>6, <1>7, <1>8 DEF RingInv

\* pop: head moves to the end of the oldest record, which leaves the chain.
LEMMA PopStep ==
  ASSUME RingInv, pop
  PROVE  RingInv'
<1> DEFINE n == Len(inflight)
<1>1. UNCHANGED <<tail, data, cached_head, ppc, msg, first, rest>> /\ cpc' = "idle"
  BY DEF pop, producerVars
<1>2. /\ TypeOK /\ IndexOrder /\ InWindow /\ Ordered /\ Chained /\ InFlightIntact
      /\ inflight # <<>> /\ head = inflight[1].pos
      /\ head' = head + Padded(At(head).len) /\ inflight' = Tail(inflight)
  BY DEF RingInv, pop, ViewIsOldest
<1>3. inflight \in Seq(Record) /\ n \in Nat /\ n >= 1 /\ DOMAIN inflight = 1 .. n
  BY <1>2 DEF TypeOK
<1>4. /\ inflight' \in Seq(Record) /\ Len(inflight') = n - 1
      /\ DOMAIN inflight' = 1 .. n - 1
      /\ \A i \in 1 .. n - 1 : inflight'[i] = inflight[i + 1]
      /\ \A i \in 1 .. n - 1 : i + 1 \in 1 .. n
  BY <1>2, <1>3
<1> HIDE DEF n
<1>5. \A i \in 1 .. n : /\ inflight[i].pos \in Nat /\ inflight[i].len \in Nat
                        /\ End(inflight[i]) \in Nat
                        /\ End(inflight[i]) = inflight[i].pos + 1 + inflight[i].len
                        /\ head <= inflight[i].pos /\ End(inflight[i]) <= tail
  <2> SUFFICES ASSUME NEW i \in 1 .. n
               PROVE  /\ inflight[i].pos \in Nat /\ inflight[i].len \in Nat
                      /\ End(inflight[i]) \in Nat
                      /\ End(inflight[i]) = inflight[i].pos + 1 + inflight[i].len
                      /\ head <= inflight[i].pos /\ End(inflight[i]) <= tail
    OBVIOUS
  <2>1. i \in DOMAIN inflight  BY <1>3
  <2> QED  BY <2>1, <1>2, InFlightRecord DEF InWindow
<1>6. 1 \in 1 .. n  BY <1>3
<1>7. head' = End(inflight[1])
  <2>1. Holds(inflight[1], inflight[1].pos)
    <3>1. 1 \in DOMAIN inflight  BY <1>3, <1>6
    <3>2. inflight[1].pos \in Nat /\ inflight[1].len \in Nat  BY <1>5, <1>6
    <3>3. inflight[1].pos \in inflight[1].pos .. inflight[1].pos + inflight[1].len  BY <3>2
    <3> QED  BY <3>1, <3>3, <1>2 DEF InFlightIntact
  <2>2. At(head).len = inflight[1].len  BY <2>1, <1>2 DEF Holds, DataControl
  <2> QED  BY <2>2, <1>2 DEF End
<1>8. TypeOK'  BY <1>1, <1>2, <1>4, <1>5, <1>6, <1>7, Zenon DEF TypeOK
<1>9. IndexOrder'
  <2>1. head \in Nat /\ tail \in Nat /\ cached_head \in Nat /\ cached_head <= head
    BY <1>2 DEF TypeOK, IndexOrder
  <2>2. End(inflight[1]) = head + 1 + inflight[1].len /\ inflight[1].len \in Nat
    BY <1>2, <1>5, <1>6
  <2>3. cached_head <= End(inflight[1])
    <3>1. \A a, b, c \in Nat : a <= b => a <= b + 1 + c  OBVIOUS
    <3> QED  BY <3>1, <2>1, <2>2
  <2>4. End(inflight[1]) <= tail  BY <1>5, <1>6
  <2> QED  BY <2>3, <2>4, <1>1, <1>2, <1>7 DEF IndexOrder
<1>10. InWindow'
  <2> SUFFICES ASSUME NEW i \in 1 .. n - 1
               PROVE  /\ End(inflight[1]) <= inflight[i + 1].pos
                      /\ End(inflight[i + 1]) <= tail
    BY <1>1, <1>4, <1>7 DEF InWindow, End
  <2>1. i + 1 \in 1 .. n /\ 1 < i + 1  BY <1>4, <1>3
  <2> QED  BY <2>1, <1>2, <1>3, <1>5, <1>6, Zenon DEF Ordered
<1>11. Ordered'
  <2> SUFFICES ASSUME NEW i \in 1 .. n - 1, NEW j \in 1 .. n - 1, i < j
               PROVE  End(inflight[i + 1]) <= inflight[j + 1].pos
    BY <1>4 DEF Ordered, End
  <2>1. i + 1 \in 1 .. n /\ j + 1 \in 1 .. n /\ i + 1 < j + 1  BY <1>4
  <2> QED  BY <2>1, <1>2, <1>3 DEF Ordered
<1>12. InFlightIntact'
  <2> SUFFICES ASSUME NEW i \in 1 .. n - 1,
                      NEW p \in inflight'[i].pos .. inflight'[i].pos + inflight'[i].len
               PROVE  Holds(inflight[i], p)'
    BY <1>4 DEF InFlightIntact
  <2>1. i + 1 \in DOMAIN inflight /\ inflight'[i] = inflight[i + 1]  BY <1>3, <1>4
  <2>2. Holds(inflight[i + 1], p)  BY <2>1, <1>2 DEF InFlightIntact
  <2> QED  BY <2>1, <2>2, <1>1 DEF Holds, At
<1>13. Chained'
  <2>1. \A p, q : Reaches(p, q) => Reaches(p, q)'  BY <1>1 DEF Reaches, At
  <2>2. CASE n = 1
    <3>1. inflight' = <<>> /\ End(inflight[1]) = tail
      BY <2>2, <1>2, <1>3, <1>4 DEF Chained, n
    <3>2. 1 .. Len(inflight') - 1 = {}  BY <2>2, <1>4
    <3> QED  BY <3>1, <3>2, <1>1, <1>7 DEF Chained
  <2>3. CASE n # 1
    <3>1. /\ 1 \in 1 .. n - 1 /\ n - 1 \in 1 .. n - 1 /\ (n - 1) + 1 = n /\ 1 + 1 = 2
          /\ inflight' # <<>>
      BY <2>3, <1>3, <1>4
    <3>2. Reaches(End(inflight[1]), inflight[2].pos) /\ End(inflight[n]) = tail
      BY <3>1, <1>2 DEF Chained, n
    <3>3. ASSUME NEW i \in 1 .. (n - 1) - 1
          PROVE  Reaches(End(inflight'[i]), inflight'[i + 1].pos)
      <4>1. i \in 1 .. n - 1 /\ i + 1 \in 1 .. n - 1 /\ i + 1 \in 1 .. Len(inflight) - 1
        BY <1>3 DEF n
      <4>2. Reaches(End(inflight[i + 1]), inflight[(i + 1) + 1].pos)  BY <4>1, <1>2 DEF Chained
      <4> QED  BY <4>1, <4>2, <1>4
    <3>4. /\ inflight'[1] = inflight[2] /\ inflight'[Len(inflight')] = inflight[n]
          /\ Len(inflight') - 1 = (n - 1) - 1
      BY <3>1, <1>4
    <3> QED  BY <3>1, <3>2, <3>3, <3>4, <2>1, <1>1, <1>7, Zenon DEF Chained, End, Reaches, At
  <2> QED  BY <2>2, <2>3
<1>14. RoomKept' /\ PendingWritten'
  BY <1>1, PendingKept DEF RingInv
<1>15. ViewIsOldest'  BY <1>1 DEF ViewIsOldest
<1> QED  BY <1>8, <1>9, <1>10, <1>11, <1>12, <1>13, <1>14, <1>15 DEF RingInv
-----------------------------------------------------------------------------
\* Every access of the producer and of the consumer keeps the invariant.
LEMMA RingInvStep == RingInv /\ [Next]_vars => RingInv'
<1> SUFFICES ASSUME RingInv, [Next]_vars  PROVE RingInv'
  OBVIOUS
<1>1. CASE UNCHANGED vars
  <2>1. UNCHANGED <<head, tail, data, cached_head, ppc, msg, first, rest, cpc, inflight>>
    BY <1>1 DEF vars, producerVars
  <2>2. Layout'  BY <2>1, LayoutKept DEF RingInv, Layout
  <2>3. TypeOK' /\ IndexOrder'  BY <2>1 DEF RingInv, TypeOK, IndexOrder
  <2>4. RoomKept' /\ PendingWritten'
    BY <2>1, PendingKept DEF RingInv
  <2> QED  BY <2>2, <2>3, <2>4 DEF RingInv, Layout
<1>2. CASE Next
  BY <1>2, CheckStep, WriteStep, PublishStep, SkipWrapStep, PeekStep, PopStep DEF Next
<1> QED  BY <1>1, <1>2

\* The inductive invariant holds in every reachable state.
LEMMA RingInvariant == Spec => []RingInv
  BY RingInvInit, RingInvStep, PTL DEF Spec

\* Every variable keeps its type.
THEOREM RingTypeOK == Spec => []TypeOK
<1>1. RingInv => TypeOK  BY DEF RingInv
<1> QED  BY <1>1, RingInvariant, PTL

\* The free-space arithmetic of try_push never underflows (IndexOrder).
THEOREM RingIndexOrder == Spec => []IndexOrder
<1>1. RingInv => IndexOrder  BY DEF RingInv
<1> QED  BY <1>1, RingInvariant, PTL

\* No record in flight is overwritten before it is popped (InFlightIntact).
THEOREM RingInFlightIntact == Spec => []InFlightIntact
<1>1. RingInv => InFlightIntact  BY DEF RingInv
<1> QED  BY <1>1, RingInvariant, PTL

\* The view peek() returns is the oldest record in flight (ViewIsOldest).
THEOREM RingViewIsOldest == Spec => []ViewIsOldest
<1>1. RingInv => ViewIsOldest  BY DEF RingInv
<1> QED  BY <1>1, RingInvariant, PTL
-----------------------------------------------------------------------------
(* Ring implements RingFifo.  The queue is the pieces in flight: by InFlightIntact *)
(* and Chained they are what a reader finds between head and tail.                 *)

PieceOf(r) == [msg |-> r.msg, first |-> r.first, len |-> r.len]
pieces == [i \in 1 .. Len(inflight) |-> PieceOf(inflight[i])]
Sent == INSTANCE RingFifo WITH
          Piece <- [msg : 1 .. MaxMessages, first : 0 .. MaxMessage, len : 1 .. max_payload],
          queue <- pieces

\* The loop of send is within a message, and the last piece in flight is the one before the
\* piece it is about to cut.
Latest == inflight[Len(inflight)]
Cut ==
  /\ msg <= MaxMessages /\ first + rest <= MaxMessage
  /\ ppc # "idle" => msg >= 1 /\ rest >= 1
  /\ inflight # <<>> =>
       \/ Latest.msg < msg /\ first = 0
       \/ Latest.msg = msg /\ first = Latest.first + Latest.len

\* Nothing is being sent at first.
LEMMA CutInit == Init => Cut
  BY BoundAssumption DEF Init, Cut

\* Popping the oldest piece leaves the latest one, if any is left.
LEMMA LatestStays ==
  ASSUME TypeOK, inflight # <<>>, inflight' = Tail(inflight), inflight' # <<>>
  PROVE  Latest' = Latest
<1>1. inflight \in Seq(Record)  BY DEF TypeOK
<1>2. Len(inflight) \in Nat /\ Len(inflight) >= 2
      /\ Len(inflight') = Len(inflight) - 1
  BY <1>1
<1>3. inflight'[Len(inflight')] = inflight[Len(inflight') + 1]  BY <1>1, <1>2
<1> QED  BY <1>2, <1>3 DEF Latest

\* The latest piece in flight is a record.
LEMMA LatestRecord ==
  ASSUME TypeOK, inflight # <<>>
  PROVE  Latest \in Record
  BY DEF TypeOK, Latest

\* Every step keeps the place of send within its message (Producer::send).
LEMMA CutStep == RingInv /\ Cut /\ [Next]_vars => Cut'
<1> SUFFICES ASSUME RingInv, Cut, [Next]_vars  PROVE Cut'
  OBVIOUS
<1>1. TypeOK /\ ViewIsOldest  BY DEF RingInv
<1>2. msg \in Nat /\ first \in Nat /\ rest \in Nat /\ inflight \in Seq(Record)
  BY <1>1 DEF TypeOK
<1>3. inflight # <<>> => Latest.msg \in Nat /\ Latest.first \in Nat /\ Latest.len \in Nat
  BY <1>1, LatestRecord DEF Record
<1>4. ASSUME NEW n \in 1 .. MaxMessage, send(n)  PROVE Cut'
  <2>1. n \in Nat /\ n >= 1 /\ n <= MaxMessage  BY BoundAssumption
  <2>2. inflight' = inflight /\ Latest' = Latest  BY <1>4 DEF send, Latest
  <2>3. inflight # <<>> => Latest.msg < msg + 1  BY <1>2, <1>3 DEF Cut
  <2>4. msg < MaxMessages /\ msg' = msg + 1 /\ first' = 0 /\ rest' = n  BY <1>4 DEF send
  <2> QED  BY <2>1, <2>2, <2>3, <2>4, <1>2, BoundAssumption DEF Cut
<1>5. ASSUME UNCHANGED <<msg, first, rest, inflight>>, ppc' # "idle" => ppc # "idle"  PROVE Cut'
  <2>1. Latest' = Latest  BY <1>5 DEF Latest
  <2> QED  BY <1>5, <2>1 DEF Cut
<1>6. CASE stop
  <2>1. Latest' = Latest /\ inflight' = inflight  BY <1>6 DEF stop, Latest
  <2>2. msg' = msg /\ first' = first /\ rest' = 0 /\ ppc' = "idle"  BY <1>6 DEF stop
  <2> QED  BY <2>1, <2>2, <1>2, BoundAssumption DEF Cut
<1>7. CASE publish
  <2>1. chunk \in Nat /\ chunk <= rest  BY <1>2, ChunkRange
  <2>2. /\ inflight' = Append(inflight, Pending) /\ msg' = msg
        /\ first' = first + chunk /\ rest' = rest - chunk
        /\ ppc' # "idle" => rest' # 0
        /\ ppc # "idle"
    BY <1>7 DEF publish, Pending
  <2>3. Latest' = Pending  BY <2>2, <1>2 DEF Latest
  <2>4. Latest'.msg = msg /\ Latest'.first = first /\ Latest'.len = chunk
    BY <2>3 DEF Pending
  <2> QED  BY <2>1, <2>2, <2>4, <1>2, BoundAssumption DEF Cut
<1>8. CASE pop
  <2>1. inflight # <<>> /\ inflight' = Tail(inflight)  BY <1>8, <1>1 DEF pop, ViewIsOldest
  <2>2. inflight' # <<>> => Latest' = Latest  BY <1>1, <2>1, LatestStays
  <2>3. UNCHANGED <<ppc, msg, first, rest>>  BY <1>8 DEF pop, producerVars
  <2> QED  BY <2>1, <2>2, <2>3 DEF Cut
<1>9. CASE try_push_cached \/ try_push_reload \/ wait_while_equal \/ write_record
  BY <1>5, <1>9 DEF try_push_cached, try_push_reload, wait_while_equal, write_record
<1>10. CASE skip_wrap \/ peek \/ UNCHANGED vars
  BY <1>5, <1>10 DEF skip_wrap, peek, vars, producerVars
<1> QED  BY <1>4, <1>6, <1>7, <1>8, <1>9, <1>10 DEF Next

\* The place of send within its message is kept in every reachable state.
LEMMA CutInvariant == Spec => []Cut
  BY CutInit, CutStep, RingInvariant, PTL DEF Spec

\* A chunk of something has a line, if a record has room for one (Producer::send).
LEMMA ChunkPositive ==
  ASSUME Capacity >= 4, rest \in Nat, rest >= 1
  PROVE  chunk \in 1 .. max_payload
<1>1. Capacity \div 2 \in Nat /\ Capacity \div 2 >= 2  BY CapacityAssumption
<1> QED  BY <1>1 DEF chunk, max_payload

\* The pieces in flight form a sequence as long as the records in flight.
LEMMA PiecesSeq ==
  ASSUME inflight \in Seq(Record)
  PROVE  /\ pieces \in Seq([msg : Nat, first : Nat, len : Nat])
         /\ Len(pieces) = Len(inflight)
<1>1. Len(inflight) \in Nat  OBVIOUS
<1>2. \A i \in 1 .. Len(inflight) : PieceOf(inflight[i]) \in [msg : Nat, first : Nat, len : Nat]
  <2> TAKE i \in 1 .. Len(inflight)
  <2>1. inflight[i] \in Record  OBVIOUS
  <2> QED  BY <2>1, Zenon DEF PieceOf, Record
<1> QED  BY <1>1, <1>2 DEF pieces

\* Storing the tail puts the next piece of the message into the queue (Producer::try_push).
LEMMA PublishPuts ==
  ASSUME Capacity >= 4, RingInv, Cut, publish
  PROVE  Sent!Next
<1> DEFINE piece == [msg |-> msg, first |-> first, len |-> chunk]
<1>1. TypeOK /\ ppc = "publish" /\ inflight' = Append(inflight, Pending)
  BY DEF RingInv, publish, Pending
<1>2. msg \in Nat /\ first \in Nat /\ rest \in Nat /\ inflight \in Seq(Record)
  BY <1>1 DEF TypeOK
<1>3. msg >= 1 /\ rest >= 1 /\ msg <= MaxMessages /\ first + rest <= MaxMessage
  BY <1>1 DEF Cut
<1>4. chunk \in 1 .. max_payload  BY <1>2, <1>3, ChunkPositive
<1>5. piece \in [msg : 1 .. MaxMessages, first : 0 .. MaxMessage, len : 1 .. max_payload]
  BY <1>2, <1>3, <1>4, BoundAssumption
<1>6. /\ Len(inflight') = Len(inflight) + 1 /\ Len(inflight) \in Nat
      /\ \A i \in 1 .. Len(inflight) : inflight'[i] = inflight[i]
      /\ inflight'[Len(inflight) + 1] = Pending
  BY <1>1, <1>2
<1>7. Len(pieces) = Len(inflight) /\ pieces \in Seq([msg : Nat, first : Nat, len : Nat])
  BY <1>2, PiecesSeq
<1>8. pieces' = Append(pieces, piece)
  <2>1. pieces' = [i \in 1 .. Len(inflight) + 1 |-> PieceOf(inflight'[i])]
    BY <1>6 DEF pieces
  <2>2. Append(pieces, piece) =
          [i \in 1 .. Len(inflight) + 1 |-> IF i = Len(inflight) + 1 THEN piece ELSE pieces[i]]
    BY <1>6, <1>7
  <2>3. ASSUME NEW i \in 1 .. Len(inflight) + 1
        PROVE  PieceOf(inflight'[i]) = (IF i = Len(inflight) + 1 THEN piece ELSE pieces[i])
    <3>1. CASE i = Len(inflight) + 1
      <4>1. PieceOf(Pending) = piece  BY DEF PieceOf, Pending
      <4>2. inflight'[i] = Pending  BY <3>1, <1>6, Zenon
      <4> QED  BY <3>1, <4>1, <4>2, Zenon
    <3>2. CASE i # Len(inflight) + 1
      <4>1. i \in 1 .. Len(inflight)  BY <3>2, <1>6
      <4> QED  BY <4>1, <3>2, <1>6 DEF pieces
    <3> QED  BY <3>1, <3>2
  <2> QED  BY <2>1, <2>2, <2>3, Zenon
<1>9. pieces # <<>> => Sent!Continues(pieces[Len(pieces)], piece)
  <2> SUFFICES ASSUME pieces # <<>>  PROVE Sent!Continues(pieces[Len(pieces)], piece)
    OBVIOUS
  <2>1. inflight # <<>> /\ Len(inflight) \in 1 .. Len(inflight)  BY <1>2, <1>7, <1>6
  <2>2. pieces[Len(pieces)] = [msg |-> Latest.msg, first |-> Latest.first, len |-> Latest.len]
    BY <1>7, <2>1 DEF pieces, PieceOf, Latest
  <2>3. \/ Latest.msg < msg /\ first = 0
        \/ Latest.msg = msg /\ first = Latest.first + Latest.len
    BY <2>1 DEF Cut
  <2>4. Latest.msg \in Nat  BY <1>1, <2>1, LatestRecord DEF Record
  <2> QED  BY <2>2, <2>3, <2>4, <1>2 DEF Sent!Continues
<1> QED  BY <1>5, <1>8, <1>9 DEF Sent!Next, Sent!Put

\* Storing the head takes the oldest piece out of the queue (Consumer::pop).
LEMMA PopTakes ==
  ASSUME RingInv, pop
  PROVE  Sent!Next
<1>1. inflight \in Seq(Record) /\ inflight # <<>> /\ inflight' = Tail(inflight)
  BY DEF RingInv, TypeOK, pop, ViewIsOldest
<1>2. Len(inflight) \in Nat /\ Len(inflight) >= 1 /\ Len(inflight') = Len(inflight) - 1
      /\ \A i \in 1 .. Len(inflight) - 1 : inflight'[i] = inflight[i + 1]
  BY <1>1
<1>3. Len(pieces) = Len(inflight) /\ pieces \in Seq([msg : Nat, first : Nat, len : Nat])
  BY <1>1, PiecesSeq
<1>4. pieces # <<>>  BY <1>2, <1>3
<1>5. Tail(pieces) = [i \in 1 .. Len(inflight) - 1 |-> pieces[i + 1]]
  <2> DEFINE others == Tail(pieces)
  <2>1. /\ others \in Seq([msg : Nat, first : Nat, len : Nat])
        /\ Len(others) = Len(inflight) - 1
        /\ \A i \in 1 .. Len(inflight) - 1 : others[i] = pieces[i + 1]
    BY <1>2, <1>3, <1>4
  <2> HIDE DEF others
  <2>2. others = [i \in 1 .. Len(others) |-> others[i]]  BY <2>1
  <2>3. others = [i \in 1 .. Len(inflight) - 1 |-> pieces[i + 1]]  BY <2>1, <2>2
  <2> QED  BY <2>3 DEF others
<1>6. pieces' = [i \in 1 .. Len(inflight) - 1 |-> PieceOf(inflight'[i])]
  BY <1>2 DEF pieces
<1>7. \A i \in 1 .. Len(inflight) - 1 : pieces[i + 1] = PieceOf(inflight'[i])
  BY <1>2 DEF pieces
<1>8. pieces' = Tail(pieces)  BY <1>5, <1>6, <1>7
<1> QED  BY <1>4, <1>8 DEF Sent!Next, Sent!Take

\* The ring implements the queue of RingFifo for every capacity that leaves a record room
\* for a payload line, whatever the interleaving of Producer and Consumer: a release store
\* of tail is a Put, one of head after a record a Take, and nothing else shows.
THEOREM RingImplementsFifo ==
  ASSUME Capacity >= 4
  PROVE  Spec => Sent!Spec
<1>1. Init => Sent!Init
  BY DEF Init, Sent!Init, pieces
<1>2. RingInv /\ Cut /\ [Next]_vars => [Sent!Next]_pieces
  <2> SUFFICES ASSUME RingInv, Cut, [Next]_vars  PROVE [Sent!Next]_pieces
    OBVIOUS
  <2>1. inflight' = inflight => pieces' = pieces  BY DEF pieces
  <2>2. CASE publish  BY <2>2, PublishPuts
  <2>3. CASE pop  BY <2>3, PopTakes
  <2>4. CASE \/ \E n \in 1 .. MaxMessage : send(n)
             \/ try_push_cached \/ try_push_reload \/ wait_while_equal \/ stop
             \/ write_record \/ skip_wrap \/ peek \/ UNCHANGED vars
    BY <2>1, <2>4, Zenon DEF send, try_push_cached, try_push_reload, wait_while_equal, stop,
       write_record, skip_wrap, peek, vars
  <2> QED  BY <2>2, <2>3, <2>4 DEF Next
<1> QED  BY <1>1, <1>2, RingInvariant, CutInvariant, PTL DEF Spec, Sent!Spec

\* What a reader of the region makes of it: the records are found by following the control
\* lines and fillers from head to tail, and their lines decode to the pieces of the queue.
Filled == \A i \in DOMAIN inflight : inflight[i].len >= 1
Decoded ==
  /\ Chained
  /\ \A i \in DOMAIN inflight :
       At(inflight[i].pos).kind = "data" /\ RecordAt(inflight[i].pos) = pieces[i]

\* A record has at least one payload line (Producer::send).
LEMMA FilledStep ==
  ASSUME Capacity >= 4, RingInv, Cut, Filled, [Next]_vars
  PROVE  Filled'
<1>1. inflight \in Seq(Record) /\ rest \in Nat  BY DEF RingInv, TypeOK
<1>2. CASE publish
  <2>1. chunk \in 1 .. max_payload
    BY <1>1, <1>2, ChunkPositive DEF Cut, publish
  <2>2. inflight' = Append(inflight, Pending) /\ Pending.len = chunk
    BY <1>2 DEF publish, Pending
  <2>3. Len(inflight) \in Nat /\ Len(inflight') = Len(inflight) + 1  BY <1>1, <2>2
  <2>4. max_payload \in Nat  BY <1>1, ChunkRange
  <2> SUFFICES ASSUME NEW i \in DOMAIN inflight'  PROVE inflight'[i].len >= 1
    BY DEF Filled
  <2>5. CASE i \in 1 .. Len(inflight)
    BY <1>1, <2>2, <2>5 DEF Filled
  <2>6. CASE i = Len(inflight) + 1
    <3>1. inflight'[i] = Pending  BY <1>1, <2>2, <2>6
    <3> QED  BY <3>1, <2>1, <2>2, <2>4
  <2> QED  BY <1>1, <2>2, <2>3, <2>5, <2>6
<1>3. CASE pop
  <2>1. inflight # <<>> /\ inflight' = Tail(inflight)
    BY <1>3 DEF RingInv, pop, ViewIsOldest
  <2> QED  BY <1>1, <2>1 DEF Filled
<1>4. CASE inflight' = inflight  BY <1>4 DEF Filled
<1> QED
  BY <1>2, <1>3, <1>4 DEF Next, send, try_push_cached, try_push_reload, wait_while_equal,
     stop, write_record, skip_wrap, peek, vars

\* At every moment the region between head and tail decodes to the queue that
\* RingImplementsFifo speaks of: the refinement is about the bytes in the mapped file
\* (Consumer::peek, advance_to_record) and not about the history variable alone.
THEOREM RingDecodes ==
  ASSUME Capacity >= 4
  PROVE  Spec => []Decoded
<1>1. Init => Filled  BY DEF Init, Filled
<1>2. RingInv /\ Cut /\ Filled /\ [Next]_vars => Filled'  BY FilledStep
<1>3. RingInv /\ Filled => Decoded
  <2> SUFFICES ASSUME RingInv, Filled, NEW i \in DOMAIN inflight
               PROVE  At(inflight[i].pos).kind = "data" /\ RecordAt(inflight[i].pos) = pieces[i]
    BY DEF RingInv, Decoded
  <2> DEFINE r == inflight[i]
  <2>1. inflight \in Seq(Record)  BY DEF RingInv, TypeOK
  <2>2. r \in Record /\ i \in 1 .. Len(inflight)  BY <2>1
  <2>3. r.pos \in Nat /\ r.len \in Nat /\ r.first \in Nat /\ r.len >= 1
    BY <2>2 DEF Record, Filled
  <2>4. \A p \in r.pos .. r.pos + r.len : Holds(r, p)  BY DEF RingInv, InFlightIntact
  <2>5. pieces[i] = PieceOf(r)  BY <2>2 DEF pieces
  <2> HIDE DEF r
  <2>6. r.pos \in r.pos .. r.pos + r.len /\ r.pos + 1 \in r.pos .. r.pos + r.len
        /\ r.pos + 1 # r.pos /\ (r.pos + 1) - r.pos = 1
    BY <2>3
  <2>7. At(r.pos) = DataControl(r.len)  BY <2>4, <2>6 DEF Holds
  <2>8. At(r.pos + 1) = PayloadLine(r.msg, r.first + 1)
    <3>1. Holds(r, r.pos + 1)  BY <2>4, <2>6
    <3> QED  BY <3>1, <2>6 DEF Holds
  <2>9. (r.first + 1) - 1 = r.first  BY <2>3
  <2>10. At(r.pos).kind = "data" /\ RecordAt(r.pos) = PieceOf(r)
    BY <2>7, <2>8, <2>9 DEF DataControl, PayloadLine, RecordAt, PieceOf
  <2> QED  BY <2>5, <2>10 DEF r
<1> QED  BY <1>1, <1>2, <1>3, RingInvariant, CutInvariant, PTL DEF Spec
=============================================================================
