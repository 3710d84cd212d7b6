-------------------------- MODULE RingLoops_proofs --------------------------
(***************************************************************************)
(* The loops of push_item and pop_item amount to the operators of          *)
(* CircularBuffer, and these make a fifo of messages, for a ring of any    *)
(* size and messages of any length: after i turns the ring is what it was  *)
(* at the call with the first i bytes pushed, or with the first i drained. *)
(***************************************************************************)
EXTENDS RingLoops, CircularBuffer_proofs

LEMMA Constants ==
  /\ MaxLen \in Nat \ {0} /\ HeaderSize \in Nat \ {0}
  /\ \A data \in Message : Sendable(data)
  BY RingAssumption, ByteAssumption DEF Sendable

(* Rings with the same fields are the same. *)
LEMMA SameRing ==
  ASSUME NEW a, NEW b, NEW m, IsRing(a, m), IsRing(b, m),
         a.buffer = b.buffer, a.head = b.head, a.tail = b.tail
  PROVE  a = b
  BY DEF IsRing

(* The fields of a ring in the middle of a call. *)
LEMMA PushedFields ==
  ASSUME NEW r, NEW m, IsRing(r, m), NEW b \in Seq(Bytes), NEW n \in 0..Free(r)
  PROVE  /\ Pushed(r, b, n).buffer = Written(r, b, n)
         /\ Pushed(r, b, n).head = On(r.head, n, m)
         /\ Pushed(r, b, n).tail = r.tail
<1>1. /\ m \in Nat \ {0} /\ r.maxLen = m /\ r.head \in 0..(m - 1) /\ Free(r) \in 0..(m - 1)
  BY RingFacts
<1>2. n \in 0..m
  BY <1>1
<1>3. (r.head + n) % m = On(r.head, n, m)
  BY <1>1, <1>2, PlusIsOn
<1> QED BY <1>1, <1>3 DEF Pushed, IsRing

LEMMA DrainedFields ==
  ASSUME NEW r, NEW m, IsRing(r, m), NEW n \in 0..Used(r)
  PROVE  /\ Drained(r, n).buffer = [k \in 0..(m - 1) |->
              IF Way(r.tail, k, m) < n THEN 0 ELSE r.buffer[k]]
         /\ Drained(r, n).head = r.head
         /\ Drained(r, n).tail = On(r.tail, n, m)
<1>1. /\ m \in Nat \ {0} /\ r.maxLen = m /\ r.tail \in 0..(m - 1) /\ Used(r) \in 0..(m - 1)
  BY RingFacts
<1>2. n \in 0..m
  BY <1>1
<1>3. (r.tail + n) % m = On(r.tail, n, m)
  BY <1>1, <1>2, PlusIsOn
<1>4. \A k \in 0..(m - 1) : Ahead(r, r.tail, k) = Way(r.tail, k, m)
  BY <1>1, AheadIsWay
<1>5. [k \in 0..(r.maxLen - 1) |-> IF Ahead(r, r.tail, k) < n THEN 0 ELSE r.buffer[k]]
        = [k \in 0..(m - 1) |-> IF Way(r.tail, k, m) < n THEN 0 ELSE r.buffer[k]]
  BY <1>1, <1>4
<1> QED BY <1>1, <1>3, <1>5 DEF Drained, IsRing

(* No byte pushed, and none drained, is no change. *)
LEMMA PushedNone ==
  ASSUME NEW r, NEW m, IsRing(r, m), NEW b \in Seq(Bytes)
  PROVE  Pushed(r, b, 0) = r
<1>1. /\ m \in Nat \ {0} /\ r.head \in 0..(m - 1) /\ Free(r) \in 0..(m - 1)
      /\ r.buffer \in [0..(m - 1) -> Bytes]
  BY RingFacts
<1>2. 0 \in 0..Free(r) /\ 0 <= Len(b)
  BY <1>1, LenProperties
<1>3. \A k \in 0..(m - 1) : Way(r.head, k, m) \in 0..(m - 1)
  BY <1>1, AheadIsWay
<1>4. Written(r, b, 0) = r.buffer
  <2>1. /\ Written(r, b, 0) \in [0..(m - 1) -> Bytes]
        /\ \A k \in 0..(m - 1) :
              Written(r, b, 0)[k] =
                IF Way(r.head, k, m) < 0 THEN b[Way(r.head, k, m) + 1] ELSE r.buffer[k]
    BY <1>2, WrittenFacts
  <2>2. \A k \in 0..(m - 1) : ~(Way(r.head, k, m) < 0)
    BY <1>1, <1>3
  <2> QED BY <1>1, <2>1, <2>2
<1>5. On(r.head, 0, m) = r.head
  BY <1>1 DEF On
<1>6. /\ IsRing(Pushed(r, b, 0), m) /\ Pushed(r, b, 0).buffer = r.buffer
      /\ Pushed(r, b, 0).head = r.head /\ Pushed(r, b, 0).tail = r.tail
  BY <1>2, <1>4, <1>5, PushedFacts, PushedFields
<1> QED BY <1>6, SameRing

LEMMA DrainedNone ==
  ASSUME NEW r, NEW m, IsRing(r, m)
  PROVE  Drained(r, 0) = r
<1>1. /\ m \in Nat \ {0} /\ r.tail \in 0..(m - 1) /\ Used(r) \in 0..(m - 1)
      /\ r.buffer \in [0..(m - 1) -> Bytes]
  BY RingFacts
<1>2. 0 \in 0..Used(r)
  BY <1>1
<1>3. \A k \in 0..(m - 1) : ~(Way(r.tail, k, m) < 0)
  <2>1. \A k \in 0..(m - 1) : Way(r.tail, k, m) \in 0..(m - 1)
    BY <1>1, AheadIsWay
  <2> QED BY <1>1, <2>1
<1>4. On(r.tail, 0, m) = r.tail
  BY <1>1 DEF On
<1>5. [k \in 0..(m - 1) |-> IF Way(r.tail, k, m) < 0 THEN 0 ELSE r.buffer[k]] = r.buffer
  BY <1>1, <1>3
<1>6. /\ IsRing(Drained(r, 0), m) /\ Drained(r, 0).buffer = r.buffer
      /\ Drained(r, 0).head = r.head /\ Drained(r, 0).tail = r.tail
  BY <1>2, <1>4, <1>5, DrainedFacts, DrainedFields
<1> QED BY <1>6, SameRing

(* One byte pushed and one popped, as the loops do it. *)
ByteIn(d, byte, m) == [d EXCEPT !.buffer[d.head] = byte, !.head = On(d.head, 1, m)]
ByteOut(d, m) == [d EXCEPT !.buffer[d.tail] = 0, !.tail = On(d.tail, 1, m)]

LEMMA PushedOneMore ==
  ASSUME NEW r, NEW m, IsRing(r, m), NEW b \in Seq(Bytes),
         NEW n \in Nat, n < Free(r), n < Len(b), NEW d, d = Pushed(r, b, n)
  PROVE  ByteIn(d, b[n + 1], m) = Pushed(r, b, n + 1)
<1> DEFINE e == [d EXCEPT !.buffer[d.head] = b[n + 1], !.head = On(d.head, 1, m)]
           f == Pushed(r, b, n + 1)
           h == r.head
<1>1. /\ m \in Nat \ {0} /\ h \in 0..(m - 1) /\ Free(r) \in 0..(m - 1)
      /\ Used(r) \in 0..(m - 1)
  BY RingFacts
<1>2. /\ n \in 0..Free(r) /\ n <= Len(b) /\ n + 1 \in 0..Free(r) /\ n + 1 <= Len(b)
      /\ n \in 0..(m - 1) /\ 1 + n < m /\ Len(b) \in Nat
  BY <1>1, LenProperties
<1>3. /\ IsRing(d, m) /\ d.head = On(h, n, m) /\ d.tail = r.tail
      /\ d.buffer = Written(r, b, n)
  BY <1>2, PushedFacts, PushedFields
<1>4. /\ IsRing(f, m) /\ f.head = On(h, n + 1, m) /\ f.tail = r.tail
      /\ f.buffer = Written(r, b, n + 1)
  BY <1>2, PushedFacts, PushedFields
<1> HIDE DEF f, h
<1>5. On(d.head, 1, m) = On(h, n + 1, m)
  BY <1>1, <1>2, <1>3, OnOn
<1>6. d.head \in 0..(m - 1) /\ On(d.head, 1, m) \in 0..(m - 1)
      /\ d.buffer \in [0..(m - 1) -> Bytes]
  <2>1. d.head \in 0..(m - 1) /\ f.head \in 0..(m - 1) /\ d.buffer \in [0..(m - 1) -> Bytes]
    BY <1>3, <1>4, RingFacts
  <2> QED BY <1>4, <1>5, <2>1
<1>7. b[n + 1] \in Bytes
  <2>1. n + 1 \in 1..Len(b)
    BY <1>2
  <2> QED BY <2>1, ElementOfSeq
<1>8. /\ IsRing(e, m) /\ e.head = On(d.head, 1, m) /\ e.tail = d.tail
      /\ e.buffer = [d.buffer EXCEPT ![d.head] = b[n + 1]]
  BY <1>3, <1>6, <1>7 DEF IsRing
<1>9. [d.buffer EXCEPT ![d.head] = b[n + 1]] = f.buffer
  <2> DEFINE w == d.buffer
             x == f.buffer
  <2>1. /\ w \in [0..(m - 1) -> Bytes]
        /\ \A k \in 0..(m - 1) :
             w[k] = IF Way(h, k, m) < n THEN b[Way(h, k, m) + 1] ELSE r.buffer[k]
    BY <1>2, <1>3, WrittenFacts DEF h
  <2>2. /\ x \in [0..(m - 1) -> Bytes]
        /\ \A k \in 0..(m - 1) :
             x[k] = IF Way(h, k, m) < n + 1 THEN b[Way(h, k, m) + 1] ELSE r.buffer[k]
    BY <1>2, <1>4, WrittenFacts DEF h
  <2> HIDE DEF w, x
  <2>3. ASSUME NEW k \in 0..(m - 1)
        PROVE  x[k] = IF k = d.head THEN b[n + 1] ELSE w[k]
    <3>1. Way(h, k, m) \in 0..(m - 1)
      BY <1>1, AheadIsWay DEF h
    <3>2. CASE k = d.head
      <4>1. Way(h, k, m) = n
        BY <1>1, <1>2, <1>3, <3>2, WayThere
      <4>2. n < n + 1
        BY <1>2
      <4> QED BY <2>2, <3>2, <4>1, <4>2
    <3>3. CASE k # d.head
      <4>1. Way(h, k, m) # n
        BY <1>1, <1>3, <3>3, OnThere
      <4>2. Way(h, k, m) < n + 1 <=> Way(h, k, m) < n
        BY <1>2, <3>1, <4>1
      <4> QED BY <2>1, <2>2, <3>3, <4>2
    <3> QED BY <3>2, <3>3
  <2>4. [w EXCEPT ![d.head] = b[n + 1]] = x
    BY <1>6, <2>1, <2>2, <2>3
  <2> QED BY <2>4 DEF w, x
<1>10. e.buffer = f.buffer /\ e.head = f.head /\ e.tail = f.tail
  BY <1>3, <1>4, <1>5, <1>8, <1>9
<1> HIDE DEF e
<1>11. e = f
  BY <1>4, <1>8, <1>10, SameRing
<1> QED BY <1>11 DEF ByteIn, e, f

LEMMA DrainedOneMore ==
  ASSUME NEW r, NEW m, IsRing(r, m), NEW n \in Nat, n < Used(r),
         NEW d, d = Drained(r, n)
  PROVE  /\ ByteOut(d, m) = Drained(r, n + 1)
         /\ d.buffer[d.tail] = Stored(r)[n + 1]
<1> DEFINE e == [d EXCEPT !.buffer[d.tail] = 0, !.tail = On(d.tail, 1, m)]
           f == Drained(r, n + 1)
           t == r.tail
<1>1. /\ m \in Nat \ {0} /\ t \in 0..(m - 1) /\ Used(r) \in 0..(m - 1)
      /\ r.buffer \in [0..(m - 1) -> Bytes]
  BY RingFacts
<1>2. /\ n \in 0..Used(r) /\ n + 1 \in 0..Used(r) /\ n + 1 \in 1..Used(r)
      /\ n \in 0..(m - 1) /\ 1 + n < m /\ (n + 1) - 1 = n
  BY <1>1
<1>3. /\ IsRing(d, m) /\ d.tail = On(t, n, m) /\ d.head = r.head
      /\ d.buffer = [k \in 0..(m - 1) |-> IF Way(t, k, m) < n THEN 0 ELSE r.buffer[k]]
  BY <1>2, DrainedFacts, DrainedFields
<1>4. /\ IsRing(f, m) /\ f.tail = On(t, n + 1, m) /\ f.head = r.head
      /\ f.buffer = [k \in 0..(m - 1) |-> IF Way(t, k, m) < n + 1 THEN 0 ELSE r.buffer[k]]
  BY <1>2, DrainedFacts, DrainedFields
<1>5. On(t, n, m) \in 0..(m - 1) /\ Stored(r)[n + 1] = r.buffer[On(t, n, m)]
  BY <1>2, StoredFacts
<1> HIDE DEF f, t
<1>6. On(d.tail, 1, m) = On(t, n + 1, m)
  BY <1>1, <1>2, <1>3, OnOn
<1>7. d.tail \in 0..(m - 1) /\ On(d.tail, 1, m) \in 0..(m - 1)
      /\ d.buffer \in [0..(m - 1) -> Bytes]
  <2>1. d.tail \in 0..(m - 1) /\ f.tail \in 0..(m - 1) /\ d.buffer \in [0..(m - 1) -> Bytes]
    BY <1>3, <1>4, RingFacts
  <2> QED BY <1>4, <1>6, <2>1
<1>8. Way(t, d.tail, m) = n
  BY <1>1, <1>2, <1>3, WayThere
<1>9. /\ IsRing(e, m) /\ e.tail = On(d.tail, 1, m) /\ e.head = d.head
      /\ e.buffer = [d.buffer EXCEPT ![d.tail] = 0]
  <2>1. 0 \in Bytes
    BY ByteAssumption DEF Bytes
  <2> QED BY <1>3, <1>7, <2>1 DEF IsRing
<1>10. [d.buffer EXCEPT ![d.tail] = 0] = f.buffer
  <2>1. ASSUME NEW k \in 0..(m - 1)
        PROVE  f.buffer[k] = IF k = d.tail THEN 0 ELSE d.buffer[k]
    <3>1. Way(t, k, m) \in 0..(m - 1)
      BY <1>1, AheadIsWay DEF t
    <3>2. CASE k = d.tail
      <4>1. n < n + 1
        BY <1>2
      <4> QED BY <1>4, <1>8, <3>2, <4>1
    <3>3. CASE k # d.tail
      <4>1. Way(t, k, m) # n
        BY <1>1, <1>3, <3>3, OnThere
      <4>2. Way(t, k, m) < n + 1 <=> Way(t, k, m) < n
        BY <1>2, <3>1, <4>1
      <4> QED BY <1>3, <1>4, <3>3, <4>2
    <3> QED BY <3>2, <3>3
  <2>2. f.buffer \in [0..(m - 1) -> Bytes]
    BY <1>4, RingFacts
  <2> QED BY <1>7, <2>1, <2>2
<1>11. e.buffer = f.buffer /\ e.head = f.head /\ e.tail = f.tail
  BY <1>3, <1>4, <1>6, <1>9, <1>10
<1>12. d.buffer[d.tail] = r.buffer[d.tail]
  <2>1. ~(n < n)
    BY <1>2
  <2> QED BY <1>3, <1>7, <1>8, <2>1
<1>13. e = f
  <2> HIDE DEF e
  <2> QED BY <1>4, <1>9, <1>11, SameRing
<1> QED BY <1>3, <1>5, <1>12, <1>13 DEF f, ByteOut

(* ------------------------- the inductive invariant --------------------- *)

(* The ring at the last call held whole messages, and what was pushed is   *)
(* one.                                                                    *)
CallInv ==
  /\ IsRing(called.ring, MaxLen) /\ Whole(Stored(called.ring))
  /\ called.name \in {"push_item", "pop_item"}
  /\ called.name = "push_item" => called.data \in Message

(* In the middle of a push the first i bytes are in. *)
Pushing ==
  pc = "push_item" =>
    /\ called.name = "push_item"
    /\ bytes = Item(called.data)
    /\ saved_head = called.ring.head
    /\ i \in 0..Free(called.ring) /\ i <= Len(bytes)
    /\ c = Pushed(called.ring, bytes, i)

(* In the middle of a pop the first i bytes are out, and here. *)
Popping ==
  pc = "pop_item" =>
    /\ called.name = "pop_item"
    /\ i \in 0..Used(called.ring) /\ i <= Wanted(called.ring)
    /\ bytes = SubSeq(Stored(called.ring), 1, i)
    /\ c = Drained(called.ring, i)

IInv ==
  /\ pc \in {"push_item", "pop_item", "returned"}
  /\ CallInv /\ Pushing /\ Popping /\ PushLoopsAgree /\ PopLoopsAgree

LEMMA FullAndEmpty ==
  ASSUME NEW d, NEW m, IsRing(d, m)
  PROVE  /\ On(d.head, 1, m) = d.tail <=> Free(d) = 0
         /\ d.head = d.tail <=> Used(d) = 0
<1>1. /\ m \in Nat \ {0} /\ d.head \in 0..(m - 1) /\ d.tail \in 0..(m - 1)
      /\ Used(d) = Way(d.tail, d.head, m) /\ Free(d) = m - 1 - Used(d)
  BY RingFacts
<1>2. CASE d.tail <= d.head
  BY <1>1, <1>2 DEF On, Way
<1>3. CASE ~(d.tail <= d.head)
  BY <1>1, <1>3 DEF On, Way
<1> QED BY <1>2, <1>3

LEMMA AfterIsOn ==
  ASSUME IsRing(c, MaxLen), NEW k \in 0..(MaxLen - 1)
  PROVE  After(k) = On(k, 1, MaxLen)
<1>1. MaxLen \in Nat \ {0} /\ c.maxLen = MaxLen
  BY RingFacts
<1> QED BY <1>1 DEF After, On

(* The beginning of a beginning. *)
LEMMA SliceOfPrefix ==
  ASSUME NEW S, NEW s \in Seq(S), NEW n \in Nat, n <= Len(s),
         NEW k \in Nat, k <= n
  PROVE  SubSeq(SubSeq(s, 1, n), 1, k) = SubSeq(s, 1, k)
<1> DEFINE u == SubSeq(s, 1, n)
           v == SubSeq(s, n + 1, Len(s))
<1>1. Len(s) \in Nat
  BY LenProperties
<1>2. u \in Seq(S) /\ Len(u) = n
  <2>1. Len(u) = IF 1 <= n THEN n - 1 + 1 ELSE 0
    BY Slice
  <2> QED BY <2>1, Slice
<1>3. v \in Seq(S)
  BY <1>1, Slice
<1>4. u \o v = s
  <2>1. 1 \in 1..(Len(s) + 1) /\ n \in (1 - 1)..Len(s) /\ Len(s) \in n..Len(s)
    BY <1>1
  <2>2. u \o v = SubSeq(s, 1, Len(s))
    BY <2>1, ConcatAdjacentSubSeq
  <2> QED BY <2>2, SubSeqFull
<1> HIDE DEF u, v
<1>5. SubSeq(u \o v, 1, k) = SubSeq(u, 1, k)
  BY <1>2, <1>3, SliceOfConcat
<1> QED BY <1>4, <1>5 DEF u

(* While a pop runs, the bound of its loops is what the ring says. *)
LEMMA BoundIsWanted ==
  ASSUME CallInv, Popping, pc = "pop_item"
  PROVE  /\ i < Bound <=> i < Wanted(called.ring)
         /\ Wanted(called.ring) \in Nat
<1> DEFINE s == Stored(called.ring)
           u == Used(called.ring)
<1>1. /\ IsRing(called.ring, MaxLen) /\ i \in 0..u /\ bytes = SubSeq(s, 1, i)
  BY DEF CallInv, Popping
<1>2. u \in Nat /\ HeaderSize \in Nat \ {0} /\ i \in Nat
  BY <1>1, RingFacts, Constants
<1>3. s \in Seq(Bytes) /\ Len(s) = u
  BY <1>1, StoredFacts
<1> HIDE DEF s
<1>4. CASE i < HeaderSize
  <2>1. Bound = HeaderSize
    BY <1>2, <1>4 DEF Bound
  <2>2. Wanted(called.ring) \in Nat /\ Wanted(called.ring) >= HeaderSize
    <3>1. CASE u < HeaderSize
      BY <1>2, <3>1 DEF Wanted
    <3>2. CASE ~(u < HeaderSize)
      <4>1. SubSeq(s, 1, HeaderSize) \in Seq(Bytes)
        BY <1>2, <1>3, <3>2, Slice
      <4>2. LengthOf[SubSeq(s, 1, HeaderSize)] \in Nat
        BY <4>1, LengthOfFacts
      <4>3. Wanted(called.ring) = HeaderSize + LengthOf[SubSeq(s, 1, HeaderSize)]
        BY <3>2 DEF Wanted, s
      <4> QED BY <1>2, <4>2, <4>3
    <3> QED BY <3>1, <3>2
  <2> QED BY <1>2, <1>4, <2>1, <2>2
<1>5. CASE ~(i < HeaderSize)
  <2>1. HeaderSize <= i /\ i <= Len(s)
    BY <1>1, <1>2, <1>3, <1>5
  <2>2. SubSeq(bytes, 1, HeaderSize) = SubSeq(s, 1, HeaderSize)
    BY <1>1, <1>2, <1>3, <2>1, SliceOfPrefix
  <2>3. ~(u < HeaderSize)
    BY <1>2, <1>3, <2>1
  <2>4. Bound = Wanted(called.ring)
    BY <1>5, <2>2, <2>3 DEF Bound, Wanted, s
  <2>5. SubSeq(s, 1, HeaderSize) \in Seq(Bytes)
    BY <1>2, <1>3, <2>3, Slice
  <2>6. LengthOf[SubSeq(s, 1, HeaderSize)] \in Nat
    BY <2>5, LengthOfFacts
  <2>7. Wanted(called.ring) = HeaderSize + LengthOf[SubSeq(s, 1, HeaderSize)]
    BY <2>3 DEF Wanted, s
  <2> QED BY <1>2, <2>4, <2>6, <2>7
<1> QED BY <1>4, <1>5

(* Between calls the ring holds whole messages. *)
LEMMA ReturnedRing ==
  ASSUME IInv, pc = "returned"
  PROVE  IsRing(c, MaxLen) /\ Whole(Stored(c))
<1>1. IsRing(called.ring, MaxLen) /\ Whole(Stored(called.ring))
  BY DEF IInv, CallInv
<1>2. CASE called.name = "push_item"
  <2>1. c = push_item(called.ring, called.data).ring /\ Sendable(called.data)
    BY <1>2, Constants DEF IInv, CallInv, PushLoopsAgree
  <2> QED BY <1>1, <2>1, PushMessages
<1>3. CASE called.name = "pop_item"
  <2>1. c = pop_item(called.ring).ring
    BY <1>3 DEF IInv, PopLoopsAgree
  <2> QED BY <1>1, <2>1, PopMessages
<1> QED BY <1>2, <1>3 DEF IInv, CallInv

(* ------------------------------- the steps ----------------------------- *)

LEMMA InitIInv == Init => IInv
<1> SUFFICES ASSUME Init PROVE IInv
  OBVIOUS
<1>1. /\ c = CircBuf(MaxLen) /\ pc = "returned" /\ ret = -1
      /\ called.name = "pop_item" /\ called.ring = c
  BY DEF Init
<1>2. /\ IsRing(c, MaxLen) /\ Used(c) = 0 /\ Whole(Stored(c))
  BY <1>1, Constants, EmptyRing
<1>3. pop_item(c).ret = -1 /\ pop_item(c).ring = Drained(c, 0)
  <2>1. HeaderSize \in Nat \ {0}
    BY Constants
  <2>2. Wanted(c) = HeaderSize + 0
    BY <1>2, <2>1 DEF Wanted
  <2>3. ~(Wanted(c) <= Used(c))
    BY <1>2, <2>1, <2>2
  <2> QED BY <1>2, <2>3 DEF pop_item
<1>4. Drained(c, 0) = c
  BY <1>2, DrainedNone
<1>5. CallInv
  BY <1>1, <1>2 DEF CallInv
<1>6. PopLoopsAgree
  <2>1. -1 # 0
    OBVIOUS
  <2> QED BY <1>1, <1>3, <1>4, <2>1 DEF PopLoopsAgree
<1> QED BY <1>1, <1>5, <1>6 DEF IInv, Pushing, Popping, PushLoopsAgree

LEMMA CallPushStep ==
  ASSUME IInv, NEW data \in Message, CallPush(data)
  PROVE  IInv'
<1>1. /\ pc = "returned" /\ pc' = "push_item" /\ bytes' = Item(data) /\ i' = 0
      /\ saved_head' = c.head /\ c' = c
      /\ called' = [name |-> "push_item", ring |-> c, data |-> data]
  BY DEF CallPush
<1>2. IsRing(c, MaxLen) /\ Whole(Stored(c))
  BY <1>1, ReturnedRing
<1>3. Item(data) \in Seq(Bytes) /\ Len(Item(data)) \in Nat
  BY Constants, ItemType DEF Sendable
<1>4. Free(c) \in Nat
  BY <1>2, RingFacts
<1>5. Pushed(c, Item(data), 0) = c
  BY <1>2, <1>3, PushedNone
<1>6. CallInv'
  BY <1>1, <1>2 DEF CallInv
<1>7. Pushing'
  BY <1>1, <1>3, <1>4, <1>5 DEF Pushing
<1> QED BY <1>1, <1>6, <1>7 DEF IInv, Popping, PushLoopsAgree, PopLoopsAgree

LEMMA CallPopStep ==
  ASSUME IInv, CallPop
  PROVE  IInv'
<1>1. /\ pc = "returned" /\ pc' = "pop_item" /\ bytes' = <<>> /\ i' = 0 /\ c' = c
      /\ called' = [name |-> "pop_item", ring |-> c, data |-> <<>>]
  BY DEF CallPop
<1>2. IsRing(c, MaxLen) /\ Whole(Stored(c))
  BY <1>1, ReturnedRing
<1>3. Used(c) \in Nat /\ Stored(c) \in Seq(Bytes) /\ Len(Stored(c)) = Used(c)
  BY <1>2, RingFacts, StoredFacts
<1>4. Wanted(c) \in Nat
  <2>1. HeaderSize \in Nat \ {0}
    BY Constants
  <2>2. CASE Used(c) < HeaderSize
    BY <2>1, <2>2 DEF Wanted
  <2>3. CASE ~(Used(c) < HeaderSize)
    <3>1. SubSeq(Stored(c), 1, HeaderSize) \in Seq(Bytes)
      BY <1>3, <2>1, <2>3, Slice
    <3>2. LengthOf[SubSeq(Stored(c), 1, HeaderSize)] \in Nat
      BY <3>1, LengthOfFacts
    <3> QED BY <2>1, <2>3, <3>2 DEF Wanted
  <2> QED BY <2>2, <2>3
<1>5. SubSeq(Stored(c), 1, 0) = <<>> /\ Drained(c, 0) = c
  BY <1>2, SubSeqEmpty, DrainedNone
<1>6. CallInv'
  BY <1>1, <1>2 DEF CallInv
<1>7. Popping'
  BY <1>1, <1>3, <1>4, <1>5 DEF Popping
<1> QED BY <1>1, <1>6, <1>7 DEF IInv, Pushing, PushLoopsAgree, PopLoopsAgree

(* What is known while a push runs. *)
LEMMA PushRuns ==
  ASSUME IInv, pc = "push_item"
  PROVE  /\ IsRing(called.ring, MaxLen) /\ called.name = "push_item"
         /\ bytes = Item(called.data) /\ bytes \in Seq(Bytes) /\ Len(bytes) \in Nat
         /\ saved_head = called.ring.head
         /\ i \in 0..Free(called.ring) /\ i <= Len(bytes)
         /\ Free(called.ring) \in Nat /\ i \in Nat
         /\ c = Pushed(called.ring, bytes, i)
         /\ IsRing(c, MaxLen) /\ Free(c) = Free(called.ring) - i
<1>1. /\ IsRing(called.ring, MaxLen) /\ called.name = "push_item"
      /\ called.data \in Message /\ bytes = Item(called.data)
      /\ saved_head = called.ring.head
      /\ i \in 0..Free(called.ring) /\ i <= Len(bytes)
      /\ c = Pushed(called.ring, bytes, i)
  BY DEF IInv, CallInv, Pushing
<1>2. bytes \in Seq(Bytes) /\ Len(bytes) \in Nat
  BY <1>1, Constants, ItemType DEF Sendable
<1>3. /\ Free(called.ring) \in Nat /\ Used(called.ring) \in Nat /\ MaxLen \in Nat
      /\ Free(called.ring) = MaxLen - 1 - Used(called.ring)
  BY <1>1, RingFacts
<1>4. i \in Nat
  BY <1>1, <1>3
<1>5. IsRing(c, MaxLen) /\ Used(c) = Used(called.ring) + i
  BY <1>1, <1>2, PushedFacts
<1>6. Free(c) = MaxLen - 1 - Used(c)
  BY <1>5, RingFacts
<1>7. Free(c) = Free(called.ring) - i
  BY <1>3, <1>4, <1>5, <1>6
<1> QED BY <1>1, <1>2, <1>3, <1>4, <1>5, <1>7

LEMMA PushByteStep ==
  ASSUME IInv, PushByte
  PROVE  IInv'
<1> DEFINE r == called.ring
<1>1. pc = "push_item" /\ i < Len(bytes) /\ UNCHANGED <<bytes, saved_head, called>>
  BY DEF PushByte
<1>2. /\ IsRing(r, MaxLen) /\ called.name = "push_item"
      /\ bytes = Item(called.data) /\ bytes \in Seq(Bytes) /\ Len(bytes) \in Nat
      /\ saved_head = r.head
      /\ i \in 0..Free(r) /\ i <= Len(bytes) /\ Free(r) \in Nat /\ i \in Nat
      /\ c = Pushed(r, bytes, i)
      /\ IsRing(c, MaxLen) /\ Free(c) = Free(r) - i
  BY <1>1, PushRuns
<1>3. /\ MaxLen \in Nat \ {0} /\ c.head \in 0..(MaxLen - 1)
  BY <1>2, RingFacts
<1>4. After(c.head) = On(c.head, 1, MaxLen)
  BY <1>2, <1>3, AfterIsOn
<1>5. CallInv'
  BY <1>1 DEF CallInv, IInv
<1>6. CASE After(c.head) = c.tail
  <2>1. /\ c' = [c EXCEPT !.head = saved_head] /\ pc' = "returned" /\ ret' = -1
    BY <1>6 DEF PushByte, Return
  <2>2. i = Free(r)
    <3>1. Free(c) = 0
      BY <1>2, <1>4, <1>6, FullAndEmpty
    <3> QED BY <1>2, <3>1
  <2>3. ~(Len(Item(called.data)) <= Free(r))
    BY <1>1, <1>2, <2>2
  <2>4. /\ push_item(r, called.data).ret = -1
        /\ push_item(r, called.data).ring = PutBack(r, bytes, Free(r))
    BY <1>2, <2>3 DEF push_item, PutBack
  <2>5. c' = PutBack(r, bytes, i)
    BY <1>2, <2>1 DEF Pushed, PutBack, IsRing
  <2>6. PushLoopsAgree'
    BY <1>1, <2>1, <2>2, <2>4, <2>5 DEF PushLoopsAgree
  <2> QED BY <1>1, <1>2, <1>5, <2>1, <2>6 DEF IInv, Pushing, Popping, PopLoopsAgree
<1>7. CASE After(c.head) # c.tail
  <2>1. /\ c' = [c EXCEPT !.buffer[c.head] = bytes[i + 1], !.head = After(c.head)]
        /\ i' = i + 1 /\ pc' = pc
    BY <1>7 DEF PushByte
  <2>2. i < Free(r)
    <3>1. Free(c) # 0
      BY <1>2, <1>4, <1>7, FullAndEmpty
    <3> QED BY <1>2, <3>1
  <2>3. c' = Pushed(r, bytes, i + 1)
    <3>1. c' = ByteIn(c, bytes[i + 1], MaxLen)
      BY <1>4, <2>1 DEF ByteIn
    <3> HIDE DEF r
    <3>2. ByteIn(c, bytes[i + 1], MaxLen) = Pushed(r, bytes, i + 1)
      BY <1>1, <1>2, <2>2, PushedOneMore
    <3> QED BY <3>1, <3>2
  <2>4. i + 1 \in 0..Free(r) /\ i + 1 <= Len(bytes)
    BY <1>1, <1>2, <2>2
  <2>5. Pushing'
    BY <1>1, <1>2, <2>1, <2>3, <2>4 DEF Pushing
  <2> QED BY <1>1, <1>5, <2>1, <2>5 DEF IInv, Popping, PushLoopsAgree, PopLoopsAgree
<1> QED BY <1>6, <1>7

LEMMA PushDoneStep ==
  ASSUME IInv, PushDone
  PROVE  IInv'
<1> DEFINE r == called.ring
<1>1. /\ pc = "push_item" /\ i >= Len(bytes) /\ pc' = "returned" /\ ret' = 0
      /\ UNCHANGED <<c, bytes, i, saved_head, called>>
  BY DEF PushDone, Return
<1>2. /\ called.name = "push_item" /\ bytes = Item(called.data) /\ Len(bytes) \in Nat
      /\ i \in 0..Free(r) /\ i <= Len(bytes) /\ Free(r) \in Nat
      /\ c = Pushed(r, bytes, i)
  BY <1>1, PushRuns
<1>3. i = Len(bytes) /\ Len(bytes) <= Free(r)
  BY <1>1, <1>2
<1>4. /\ push_item(r, called.data).ret = 0
      /\ push_item(r, called.data).ring = Pushed(r, bytes, Len(bytes))
  BY <1>2, <1>3 DEF push_item, Pushed
<1>5. PushLoopsAgree'
  BY <1>1, <1>2, <1>3, <1>4 DEF PushLoopsAgree
<1>6. CallInv'
  BY <1>1 DEF CallInv, IInv
<1> QED BY <1>1, <1>2, <1>5, <1>6 DEF IInv, Pushing, Popping, PopLoopsAgree

(* What is known while a pop runs. *)
LEMMA PopRuns ==
  ASSUME IInv, pc = "pop_item"
  PROVE  /\ IsRing(called.ring, MaxLen) /\ called.name = "pop_item"
         /\ i \in 0..Used(called.ring) /\ i <= Wanted(called.ring)
         /\ i \in Nat /\ Used(called.ring) \in Nat /\ Wanted(called.ring) \in Nat
         /\ i < Bound <=> i < Wanted(called.ring)
         /\ bytes = SubSeq(Stored(called.ring), 1, i)
         /\ c = Drained(called.ring, i)
         /\ IsRing(c, MaxLen) /\ Used(c) = Used(called.ring) - i
<1>1. /\ IsRing(called.ring, MaxLen) /\ called.name = "pop_item"
      /\ i \in 0..Used(called.ring) /\ i <= Wanted(called.ring)
      /\ bytes = SubSeq(Stored(called.ring), 1, i)
      /\ c = Drained(called.ring, i)
  BY DEF IInv, CallInv, Popping
<1>2. Used(called.ring) \in Nat
  BY <1>1, RingFacts
<1>3. i \in Nat
  BY <1>1, <1>2
<1>4. Wanted(called.ring) \in Nat /\ (i < Bound <=> i < Wanted(called.ring))
  BY BoundIsWanted DEF IInv
<1>5. IsRing(c, MaxLen) /\ Used(c) = Used(called.ring) - i
  BY <1>1, DrainedFacts
<1> QED BY <1>1, <1>2, <1>3, <1>4, <1>5

LEMMA PopByteStep ==
  ASSUME IInv, PopByte
  PROVE  IInv'
<1> DEFINE r == called.ring
           s == Stored(r)
<1>1. pc = "pop_item" /\ i < Bound /\ UNCHANGED <<saved_head, called>>
  BY DEF PopByte
<1>2. /\ IsRing(r, MaxLen) /\ called.name = "pop_item"
      /\ i \in 0..Used(r) /\ i \in Nat /\ Used(r) \in Nat /\ Wanted(r) \in Nat
      /\ i < Wanted(r)
      /\ bytes = SubSeq(s, 1, i)
      /\ c = Drained(r, i)
      /\ IsRing(c, MaxLen) /\ Used(c) = Used(r) - i
  BY <1>1, PopRuns
<1>3. /\ MaxLen \in Nat \ {0} /\ c.tail \in 0..(MaxLen - 1)
  BY <1>2, RingFacts
<1>4. s \in Seq(Bytes) /\ Len(s) = Used(r)
  BY <1>2, StoredFacts
<1>5. CallInv'
  BY <1>1 DEF CallInv, IInv
<1> HIDE DEF s
<1>6. CASE c.head = c.tail
  <2>1. pc' = "returned" /\ ret' = -1 /\ UNCHANGED <<c, bytes, i>>
    BY <1>6 DEF PopByte, Return
  <2>2. i = Used(r)
    <3>1. Used(c) = 0
      BY <1>2, <1>6, FullAndEmpty
    <3> QED BY <1>2, <3>1
  <2>3. ~(Wanted(r) <= Used(r))
    BY <1>2, <2>2
  <2>4. pop_item(r).ret = -1 /\ pop_item(r).ring = Drained(r, Used(r))
    BY <2>3 DEF pop_item
  <2>5. PopLoopsAgree'
    <3>1. -1 # 0
      OBVIOUS
    <3> QED BY <1>1, <1>2, <2>1, <2>2, <2>4, <3>1 DEF PopLoopsAgree
  <2> QED BY <1>1, <1>2, <1>5, <2>1, <2>5 DEF IInv, Pushing, Popping, PushLoopsAgree
<1>7. CASE c.head # c.tail
  <2>1. /\ bytes' = Append(bytes, c.buffer[c.tail])
        /\ c' = [c EXCEPT !.buffer[c.tail] = 0, !.tail = After(c.tail)]
        /\ i' = i + 1 /\ pc' = pc
    BY <1>7 DEF PopByte
  <2>2. i < Used(r)
    <3>1. Used(c) # 0
      BY <1>2, <1>7, FullAndEmpty
    <3> QED BY <1>2, <3>1
  <2>3. c' = Drained(r, i + 1) /\ c.buffer[c.tail] = s[i + 1]
    <3>1. After(c.tail) = On(c.tail, 1, MaxLen)
      BY <1>2, <1>3, AfterIsOn
    <3>2. c' = ByteOut(c, MaxLen)
      BY <2>1, <3>1 DEF ByteOut
    <3> HIDE DEF r
    <3>3. /\ ByteOut(c, MaxLen) = Drained(r, i + 1)
          /\ c.buffer[c.tail] = Stored(r)[i + 1]
      BY <1>2, <2>2, DrainedOneMore
    <3> QED BY <3>2, <3>3 DEF s
  <2>4. bytes' = SubSeq(s, 1, i + 1)
    <3>1. 1 \in 1..Len(s) /\ i + 1 \in 1..Len(s) /\ (i + 1) - 1 = i
      BY <1>2, <1>4, <2>2
    <3>2. SubSeq(s, 1, i + 1) = SubSeq(s, 1, i) \o <<s[i + 1]>>
      BY <1>4, <3>1, SubSeqRecursiveSecond
    <3>3. SubSeq(s, 1, i) \in Seq(Bytes) /\ s[i + 1] \in Bytes
      <4>1. i <= Len(s) /\ 1 \in Nat \ {0}
        BY <1>2, <1>4, <2>2
      <4> QED BY <1>2, <1>4, <3>1, <4>1, Slice, ElementOfSeq
    <3>4. Append(SubSeq(s, 1, i), s[i + 1]) = SubSeq(s, 1, i) \o <<s[i + 1]>>
      BY <3>3, AppendIsConcat
    <3> QED BY <1>2, <2>1, <2>3, <3>2, <3>4
  <2>5. i + 1 \in 0..Used(r) /\ i + 1 <= Wanted(r)
    BY <1>2, <2>2
  <2>6. Popping'
    BY <1>1, <1>2, <2>1, <2>3, <2>4, <2>5 DEF Popping, s
  <2> QED BY <1>1, <1>5, <2>1, <2>6 DEF IInv, Pushing, PushLoopsAgree, PopLoopsAgree
<1> QED BY <1>6, <1>7

LEMMA PopDoneStep ==
  ASSUME IInv, PopDone
  PROVE  IInv'
<1> DEFINE r == called.ring
           s == Stored(r)
           w == Wanted(r)
<1>1. /\ pc = "pop_item" /\ i >= Bound /\ pc' = "returned" /\ ret' = 0
      /\ UNCHANGED <<c, bytes, i, saved_head, called>>
  BY DEF PopDone, Return
<1>2. /\ IsRing(r, MaxLen) /\ called.name = "pop_item"
      /\ i \in 0..Used(r) /\ i <= w
      /\ i \in Nat /\ Used(r) \in Nat /\ w \in Nat
      /\ i < Bound <=> i < w
      /\ bytes = SubSeq(s, 1, i) /\ c = Drained(r, i)
  BY <1>1, PopRuns
<1>3. HeaderSize \in Nat \ {0} /\ s \in Seq(Bytes) /\ Len(s) = Used(r)
  BY <1>2, Constants, StoredFacts
<1>4. ~(i < Bound)
  <2>1. Bound \in Int
    <3>1. CASE i < HeaderSize
      BY <1>3, <3>1 DEF Bound
    <3>2. CASE ~(i < HeaderSize)
      <4>1. HeaderSize <= i /\ i <= Len(s)
        BY <1>2, <1>3, <3>2
      <4> HIDE DEF s
      <4>2. SubSeq(bytes, 1, HeaderSize) = SubSeq(s, 1, HeaderSize)
        BY <1>2, <1>3, <4>1, SliceOfPrefix
      <4>3. SubSeq(s, 1, HeaderSize) \in Seq(Bytes)
        <5>1. HeaderSize <= Len(s) /\ 1 \in Nat \ {0} /\ HeaderSize \in Nat
          BY <1>2, <1>3, <4>1
        <5> QED BY <1>3, <5>1, Slice
      <4>4. LengthOf[SubSeq(bytes, 1, HeaderSize)] \in Nat
        BY <4>2, <4>3, LengthOfFacts
      <4> QED BY <1>3, <3>2, <4>4 DEF Bound
    <3> QED BY <3>1, <3>2
  <2> QED BY <1>1, <1>2, <2>1
<1>5. i = w /\ w <= Used(r)
  BY <1>2, <1>4
<1>6. /\ pop_item(r).ret = 0 /\ pop_item(r).ring = Drained(r, w)
      /\ pop_item(r).data = SubSeq(s, HeaderSize + 1, w)
  BY <1>5 DEF pop_item
<1>7. SubSeq(bytes, HeaderSize + 1, Len(bytes)) = SubSeq(s, HeaderSize + 1, w)
  <2> DEFINE rest == SubSeq(s, w + 1, Len(s))
  <2> HIDE DEF s, w
  <2>0. Len(s) \in Nat /\ w <= Len(s) /\ 1 \in Nat \ {0} /\ w + 1 \in Nat \ {0}
        /\ Len(s) <= Len(s) /\ HeaderSize + 1 \in Nat \ {0}
    BY <1>2, <1>3, <1>5
  <2>1. bytes \in Seq(Bytes) /\ Len(bytes) = w /\ bytes = SubSeq(s, 1, w)
    <3>1. Len(SubSeq(s, 1, w)) = (IF 1 <= w THEN w - 1 + 1 ELSE 0)
          /\ SubSeq(s, 1, w) \in Seq(Bytes)
      BY <1>2, <1>3, <2>0, Slice
    <3>2. (IF 1 <= w THEN w - 1 + 1 ELSE 0) = w
      BY <1>2
    <3> QED BY <1>2, <1>5, <3>1, <3>2
  <2>2. rest \in Seq(Bytes)
    BY <1>3, <2>0, Slice
  <2>3. bytes \o rest = s
    <3>1. 1 \in 1..(Len(s) + 1) /\ w \in (1 - 1)..Len(s) /\ Len(s) \in w..Len(s)
      BY <1>2, <2>0
    <3>2. SubSeq(s, 1, w) \o rest = SubSeq(s, 1, Len(s))
      BY <1>3, <3>1, ConcatAdjacentSubSeq
    <3> QED BY <1>3, <2>1, <3>2, SubSeqFull
  <2> HIDE DEF rest
  <2>4. SubSeq(bytes \o rest, HeaderSize + 1, w) = SubSeq(bytes, HeaderSize + 1, w)
    <3>1. w <= Len(bytes) /\ w \in Nat
      BY <1>2, <2>1
    <3>2. bytes \in Seq(Bytes)
      BY <2>1
    <3> QED BY <2>0, <2>2, <3>1, <3>2, SliceOfConcat
  <2> QED BY <2>1, <2>3, <2>4
<1>8. PopLoopsAgree'
  BY <1>1, <1>2, <1>5, <1>6, <1>7 DEF PopLoopsAgree
<1>9. CallInv'
  BY <1>1 DEF CallInv, IInv
<1> QED BY <1>1, <1>2, <1>8, <1>9 DEF IInv, Pushing, Popping, PushLoopsAgree

LEMMA NextIInv == IInv /\ [Next]_vars => IInv'
<1> SUFFICES ASSUME IInv, [Next]_vars PROVE IInv'
  OBVIOUS
<1>1. CASE \E data \in Message : CallPush(data)
  BY <1>1, CallPushStep
<1>2. CASE PushByte
  BY <1>2, PushByteStep
<1>3. CASE PushDone
  BY <1>3, PushDoneStep
<1>4. CASE CallPop
  BY <1>4, CallPopStep
<1>5. CASE PopByte
  BY <1>5, PopByteStep
<1>6. CASE PopDone
  BY <1>6, PopDoneStep
<1>7. CASE UNCHANGED vars
  BY <1>7 DEF vars, IInv, CallInv, Pushing, Popping, PushLoopsAgree, PopLoopsAgree,
              Free, Used, Ahead, Wanted, Stored
<1> QED BY <1>1, <1>2, <1>3, <1>4, <1>5, <1>6, <1>7 DEF Next

LEMMA InvariantIInv == Spec => []IInv
  BY InitIInv, NextIInv, PTL DEF Spec

LEMMA FifoFromIInv == IInv => ItemsAreFifo
<1> SUFFICES ASSUME IInv, pc = "returned"
             PROVE  Messages(c) = IF ret = -1 THEN Messages(called.ring)
                                  ELSE IF called.name = "push_item"
                                    THEN Append(Messages(called.ring), called.data)
                                  ELSE Tail(Messages(called.ring))
  BY DEF ItemsAreFifo
<1> DEFINE r == called.ring
<1>1. IsRing(r, MaxLen) /\ Whole(Stored(r)) /\ -1 # 0
  BY DEF IInv, CallInv
<1>2. CASE called.name = "push_item"
  <2>1. Sendable(called.data)
    BY <1>2, Constants DEF IInv, CallInv
  <2>2. /\ ret = push_item(r, called.data).ret
        /\ c = push_item(r, called.data).ring
    BY <1>2 DEF IInv, PushLoopsAgree
  <2>3. /\ ret \in {0, -1}
        /\ ret = 0 => Messages(c) = Append(Messages(r), called.data)
        /\ ret # 0 => Messages(c) = Messages(r)
    <3> HIDE DEF r
    <3> QED BY <1>1, <2>1, <2>2, PushMessages
  <2> QED BY <1>1, <1>2, <2>3
<1>3. CASE called.name = "pop_item"
  <2>1. ret = pop_item(r).ret /\ c = pop_item(r).ring
    BY <1>3 DEF IInv, PopLoopsAgree
  <2>2. /\ Messages(r) = <<>> => ret = -1 /\ Messages(c) = <<>>
        /\ Messages(r) # <<>> => /\ ret = 0
                                 /\ pop_item(r).data \in Seq(Bytes)
                                 /\ Messages(r) = <<pop_item(r).data>> \o Messages(c)
        /\ IsRing(c, MaxLen)
    <3> HIDE DEF r
    <3> QED BY <1>1, <2>1, PopMessages
  <2>3. CASE Messages(r) = <<>>
    BY <2>2, <2>3
  <2>4. CASE Messages(r) # <<>>
    <3>1. Messages(c) \in Seq(Seq(Nat))
      <4>1. Stored(c) \in Seq(Bytes)
        BY <2>2, StoredFacts
      <4> QED BY <4>1, ParsedFacts DEF Messages
    <3>2. pop_item(r).data \in Seq(Nat)
      <4>1. Bytes \subseteq Nat
        BY ByteAssumption DEF Bytes
      <4> QED BY <2>2, <2>4, <4>1, SeqMonotonic
    <3>3. Tail(Messages(r)) = Messages(c)
      BY <2>2, <2>4, <3>1, <3>2, TailOfFirst
    <3> QED BY <1>1, <1>3, <2>2, <2>4, <3>3
  <2> QED BY <2>3, <2>4
<1> QED BY <1>2, <1>3 DEF IInv, CallInv

(* push_item's loops return what push_item says and leave the ring as it   *)
(* says, for every ring and message (circular_buffer.c:56-77).             *)
THEOREM PushLoopsAgreeTheorem == Spec => []PushLoopsAgree
<1>1. IInv => PushLoopsAgree
  BY DEF IInv
<1> QED BY <1>1, InvariantIInv, PTL

(* pop_item's loops return what pop_item says, with the message it says    *)
(* (circular_buffer.c:84-102).                                             *)
THEOREM PopLoopsAgreeTheorem == Spec => []PopLoopsAgree
<1>1. IInv => PopLoopsAgree
  BY DEF IInv
<1> QED BY <1>1, InvariantIInv, PTL

(* The calls are those of a fifo of whole messages, whatever has gone      *)
(* through the ring before (circular_buffer.c:56-102).                     *)
THEOREM ItemsAreFifoTheorem == Spec => []ItemsAreFifo
  BY FifoFromIInv, InvariantIInv, PTL
=============================================================================
