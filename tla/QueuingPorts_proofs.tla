------------------------ MODULE QueuingPorts_proofs ------------------------
(***************************************************************************)
(* Proofs about QueuingPorts: for all tables of ports and channels, all    *)
(* sizes and messages, and bytes and headers of any width, every port is   *)
(* a fifo of whole messages that takes what fits; its count is right; a    *)
(* sender is told the truth.                                               *)
(***************************************************************************)
EXTENDS QueuingPorts, CircularBuffer_proofs

(* The greatest of numbers that have a bound. *)
LEMMA MaxOfBounded ==
  ASSUME NEW n \in Nat, NEW S \in SUBSET (0..n), S # {}
  PROVE  Max(S) \in S /\ \A y \in S : Max(S) >= y
<1> DEFINE R == {n - x : x \in S}
<1>0. \A x \in S : x \in Int /\ x >= 0 /\ n - x \in Nat
  OBVIOUS
<1>1. R \in SUBSET Nat /\ R # {}
  BY <1>0
<1>2. PICK r \in R : \A y \in R : r <= y
  <2> HIDE DEF R
  <2> QED BY <1>1, MinOfNaturals
<1>3. PICK x \in S : r = n - x
  BY <1>2
<1>4. ASSUME NEW y \in S PROVE x >= y
  <2>1. n - y \in R
    OBVIOUS
  <2>2. n - x <= n - y
    BY <1>2, <1>3, <2>1
  <2>3. x \in Int /\ y \in Int
    BY <1>0
  <2> QED BY <2>2, <2>3
<1>5. \E z \in S : \A y \in S : z >= y
  BY <1>4
<1> QED BY <1>5 DEF Max

-----------------------------------------------------------------------------
(* The bytes that messages need: a natural number, those of the first and  *)
(* those of the others.                                                    *)
LEMMA NeededFacts ==
  /\ Needed \in [Seq(Seq(Nat)) -> Nat]
  /\ Needed[<<>>] = 0
  /\ \A s \in Seq(Seq(Nat)) : s # <<>> =>
        Needed[s] = HeaderSize + Len(Head(s)) + Needed[Tail(s)]
<1> DEFINE D == Seq(Seq(Nat))
           measure == [s \in D |-> Len(s)]
           Step == [z \in D \X [D -> Nat] |->
                      IF z[1] = <<>> THEN 0
                      ELSE HeaderSize + Len(Head(z[1])) + z[2][Tail(z[1])]]
<1>0. HeaderSize \in Nat
  BY ByteAssumption
<1>1. ASSUME NEW s \in D, NEW f \in [D -> Nat]
      PROVE  Step[<<s, f>>] =
               IF s = <<>> THEN 0 ELSE HeaderSize + Len(Head(s)) + f[Tail(s)]
  OBVIOUS
<1>2. \A s \in D : s # <<>> =>
         /\ Tail(s) \in D /\ Len(Head(s)) \in Nat
         /\ measure[Tail(s)] < measure[s]
  <2> SUFFICES ASSUME NEW s \in D, s # <<>>
               PROVE  /\ Tail(s) \in D /\ Len(Head(s)) \in Nat
                      /\ measure[Tail(s)] < measure[s]
    OBVIOUS
  <2>1. Tail(s) \in D /\ Head(s) \in Seq(Nat) /\ Len(Tail(s)) = Len(s) - 1
    BY HeadTailProperties
  <2>2. Len(s) \in Nat /\ measure[s] = Len(s) /\ measure[Tail(s)] = Len(Tail(s))
    BY <2>1, LenProperties
  <2>3. Len(Head(s)) \in Nat
    BY <2>1, LenProperties
  <2> HIDE DEF measure, D
  <2>4. Len(Tail(s)) < Len(s)
    BY <2>1, <2>2
  <2> QED BY <2>1, <2>2, <2>3, <2>4
<1>3. Step \in [D \X [D -> Nat] -> Nat]
  <2>1. ASSUME NEW s \in D, NEW f \in [D -> Nat]
        PROVE  (IF s = <<>> THEN 0
                ELSE HeaderSize + Len(Head(s)) + f[Tail(s)]) \in Nat
    <3>1. s # <<>> => Len(Head(s)) \in Nat /\ f[Tail(s)] \in Nat
      BY <1>2
    <3> QED BY <1>0, <3>1
  <2> HIDE DEF D
  <2> QED BY <2>1
<1>4. measure \in [D -> Nat] /\ Nat # {}
  BY LenProperties
<1> HIDE DEF measure
<1>5. LooksBelow(D, Nat, measure, Step)
  <2> SUFFICES ASSUME NEW s \in D, NEW f \in [D -> Nat], NEW g \in [D -> Nat],
                      \A y \in D : measure[y] < measure[s] => f[y] = g[y]
               PROVE  Step[<<s, f>>] = Step[<<s, g>>]
    BY DEF LooksBelow
  <2>1. s # <<>> => f[Tail(s)] = g[Tail(s)]
    BY <1>2
  <2> HIDE DEF Step, D
  <2> QED BY <1>1, <2>1
<1>6. PICK F \in [D -> Nat] : \A s \in D : F[s] = Step[<<s, F>>]
  <2> HIDE DEF Step, D
  <2>1. HasRecursion(D, Nat, Step)
    BY <1>3, <1>4, <1>5, RecursionByMeasure
  <2> QED BY <2>1 DEF HasRecursion
<1>7. F = [s \in Seq(Seq(Nat)) |->
             IF s = <<>> THEN 0 ELSE HeaderSize + Len(Head(s)) + F[Tail(s)]]
  <2> HIDE DEF Step
  <2> QED BY <1>1, <1>6
<1>8. Needed = [s \in Seq(Seq(Nat)) |->
                  IF s = <<>> THEN 0 ELSE HeaderSize + Len(Head(s)) + Needed[Tail(s)]]
  BY <1>7 DEF Needed
<1> HIDE DEF Step
<1>9. Needed = F
  <2> DEFINE S == {s \in D : Needed[s] = F[s]}
  <2>1. Inductive(D, measure, S)
    <3> SUFFICES ASSUME NEW s \in D, \A j \in D : measure[j] < measure[s] => j \in S
                 PROVE  s \in S
      BY DEF Inductive
    <3>1. s # <<>> => Needed[Tail(s)] = F[Tail(s)]
      BY <1>2
    <3> QED BY <1>7, <1>8, <3>1
  <2>2. D \subseteq S
    <3> HIDE DEF D, S
    <3> QED BY <1>4, <2>1, InductionByMeasure
  <2> QED BY <1>7, <1>8, <2>2
<1>10. Needed \in [D -> Nat] /\ <<>> \in D
  BY <1>6, <1>9
<1> QED BY <1>8, <1>10

(* What a first message and others begin with and go on with. *)
LEMMA HeadAndTail ==
  ASSUME NEW S, NEW a \in S, NEW q \in Seq(S)
  PROVE  /\ Head(<<a>> \o q) = a /\ Tail(<<a>> \o q) = q
         /\ <<a>> \o q # <<>>
<1>1. <<a>> \in Seq(S) /\ Len(<<a>>) = 1 /\ <<a>>[1] = a /\ Len(q) \in Nat
  BY LenProperties
<1>2. /\ <<a>> \o q \in Seq(S)
      /\ Len(<<a>> \o q) = Len(<<a>>) + Len(q)
      /\ \A i \in 1..(Len(<<a>>) + Len(q)) :
           (<<a>> \o q)[i] = IF i <= Len(<<a>>) THEN <<a>>[i] ELSE q[i - Len(<<a>>)]
  BY <1>1, ConcatProperties
<1>3. <<a>> \o q # <<>> /\ (<<a>> \o q)[1] = a
  BY <1>1, <1>2, EmptySeq
<1>4. Head(<<a>> \o q) = a
  BY <1>2, <1>3, HeadTailProperties
<1> QED BY <1>3, <1>4, TailOfFirst

(* Bytes that are whole messages are as many as the messages need. *)
LEMMA NeededIsStored ==
  ASSUME NEW b \in Seq(Bytes), Whole(b)
  PROVE  Needed[Parsed[b]] = Len(b)
<1> DEFINE D == Seq(Bytes)
           measure == [x \in D |-> Len(x)]
           S == {x \in D : Whole(x) => Needed[Parsed[x]] = Len(x)}
<1>1. HeaderSize \in Nat \ {0} /\ Bytes \subseteq Nat
  BY ByteAssumption DEF Bytes
<1>2. ASSUME NEW x \in D, \A y \in D : measure[y] < measure[x] => y \in S, Whole(x)
      PROVE  Needed[Parsed[x]] = Len(x)
  <2>1. CASE x = <<>>
    BY <2>1, NothingIsWhole, NeededFacts, EmptySeq
  <2>2. CASE x # <<>>
    <3> DEFINE last == HeaderSize + LengthOf[SubSeq(x, 1, HeaderSize)]
               first == SubSeq(x, HeaderSize + 1, last)
               rest == SubSeq(x, last + 1, Len(x))
    <3>1. /\ Len(x) >= HeaderSize
          /\ last \in HeaderSize..Len(x)
          /\ first \in Seq(Bytes)
          /\ rest \in Seq(Bytes)
          /\ Len(rest) < Len(x)
          /\ Parsed[x] = <<first>> \o Parsed[rest]
          /\ Whole(rest)
      <4> HIDE DEF last
      <4>1. x # <<>> /\ Whole(x) /\ x \in Seq(Bytes)
        BY <1>2, <2>2
      <4> QED BY <4>1, FirstMessage DEF last
    <3>2. Len(x) \in Nat /\ last \in Nat /\ last >= HeaderSize /\ last <= Len(x)
      BY <1>1, <3>1, LenProperties
    <3>3. Needed[Parsed[rest]] = Len(rest)
      <4>1. measure[rest] < measure[x]
        BY <3>1
      <4>2. rest \in S
        BY <1>2, <3>1, <4>1
      <4> HIDE DEF rest
      <4> QED BY <3>1, <4>2
    <3>4. Len(first) = last - HeaderSize
      <4>1. Len(first) = IF HeaderSize + 1 <= last THEN last - (HeaderSize + 1) + 1 ELSE 0
        <5>1. HeaderSize + 1 \in Nat \ {0}
          BY <1>1
        <5> HIDE DEF last
        <5> QED BY <3>2, <5>1, Slice
      <4> HIDE DEF last, first
      <4> QED BY <1>1, <3>2, <4>1
    <3>5. Len(rest) = Len(x) - last
      <4>1. Len(rest) = IF last + 1 <= Len(x) THEN Len(x) - (last + 1) + 1 ELSE 0
        <5>1. last + 1 \in Nat \ {0}
          BY <3>2
        <5> HIDE DEF last
        <5> QED BY <3>2, <5>1, Slice
      <4> HIDE DEF last, rest
      <4> QED BY <3>2, <4>1
    <3>6. /\ first \in Seq(Nat) /\ Parsed[rest] \in Seq(Seq(Nat))
          /\ Parsed[x] \in Seq(Seq(Nat))
      <4> HIDE DEF first, rest
      <4>1. first \in Seq(Nat)
        BY <1>1, <3>1, SeqMonotonic
      <4>2. Parsed[rest] \in Seq(Seq(Nat)) /\ Parsed[x] \in Seq(Seq(Nat))
        BY <3>1, ParsedFacts
      <4> QED BY <4>1, <4>2
    <3>7. Tail(Parsed[x]) = Parsed[rest] /\ Head(Parsed[x]) = first /\ Parsed[x] # <<>>
      <4> DEFINE p == Parsed[rest]
                 V == Seq(Nat)
      <4> HIDE DEF first, rest, p, V
      <4>1. first \in V /\ p \in Seq(V)
        BY <3>6 DEF V, p
      <4> QED BY <3>1, <4>1, HeadAndTail DEF p
    <3>8. Needed[Parsed[x]] = HeaderSize + Len(first) + Needed[Parsed[rest]]
      <4> HIDE DEF first, rest
      <4> QED BY <3>6, <3>7, NeededFacts
    <3> HIDE DEF first, rest, last
    <3> QED BY <1>1, <3>2, <3>3, <3>4, <3>5, <3>8
  <2> QED BY <2>1, <2>2
<1>3. measure \in [D -> Nat]
  BY LenProperties
<1>4. D \subseteq S
  <2>1. Inductive(D, measure, S)
    <3> SUFFICES ASSUME NEW x \in D, \A y \in D : measure[y] < measure[x] => y \in S
                 PROVE  x \in S
      BY DEF Inductive
    <3>1. Whole(x) => Needed[Parsed[x]] = Len(x)
      BY <1>2
    <3> QED BY <3>1
  <2> HIDE DEF D, S, measure
  <2> QED BY <1>3, <2>1, InductionByMeasure
<1> QED BY <1>4

-----------------------------------------------------------------------------
(* What is known of the tables. *)
LEMMA TableFacts ==
  /\ \A p \in DOMAIN partitions :
       DOMAIN partitions[p] = 1..Len(partitions[p]) /\ Len(partitions[p]) \in Nat
  /\ \A q \in Ports : \E p \in DOMAIN partitions : \E n \in DOMAIN partitions[p] :
       q = <<p, n>>
  /\ \A p \in DOMAIN partitions : \A n \in DOMAIN partitions[p] : <<p, n>> \in Ports
  /\ \A q \in Ports : /\ Config(q).MAX_NB_MESSAGE \in Nat \ {0}
                      /\ BufferLen(q) \in Nat \ {0}
  /\ \A m \in Message : Sendable(m)
<1>1. ASSUME NEW p \in DOMAIN partitions
      PROVE  DOMAIN partitions[p] = 1..Len(partitions[p]) /\ Len(partitions[p]) \in Nat
  <2> DEFINE S == Range(partitions[p])
  <2>1. partitions[p] \in Seq(S)
    BY PortsAssumption DEF PortsAssumption
  <2> HIDE DEF S
  <2> QED BY <2>1, LenProperties
<1>2. /\ \A q \in Ports : \E p \in DOMAIN partitions : \E n \in DOMAIN partitions[p] :
           q = <<p, n>>
      /\ \A p \in DOMAIN partitions : \A n \in DOMAIN partitions[p] : <<p, n>> \in Ports
  BY <1>1 DEF Ports
<1>3. ASSUME NEW q \in Ports
      PROVE  /\ Config(q).MAX_NB_MESSAGE \in Nat \ {0}
             /\ BufferLen(q) \in Nat \ {0}
  <2> DEFINE s == Config(q).MAX_MESSAGE_SIZE
             d == Config(q).MAX_NB_MESSAGE
  <2>1. s \in Nat \ {0} /\ d \in Nat \ {0} /\ HeaderSize \in Nat \ {0}
    BY PortsAssumption, DepthAssumption, ByteAssumption DEF PortsAssumption, DepthAssumption
  <2> HIDE DEF s, d
  <2>2. s * d \in Nat \ {0} /\ s * HeaderSize \in Nat
    BY <2>1
  <2>3. s * d + s * HeaderSize \in Nat \ {0}
    BY <2>2
  <2> QED BY <2>1, <2>3 DEF BufferLen, s, d
<1>4. \A m \in Message : Sendable(m)
  BY MessageAssumption DEF MessageAssumption, Sendable
<1> QED BY <1>1, <1>2, <1>3, <1>4

(* The port list of a channel lists first ports. *)
LEMMA PortListFacts ==
  ASSUME NEW ch \in Channels
  PROVE  /\ DOMAIN port_list(ch) = 1..Len(port_list(ch))
         /\ DOMAIN port_list(ch) = DOMAIN ConnectionTable[ch]
         /\ \A i \in DOMAIN port_list(ch) :
              /\ port_list(ch)[i] = <<ConnectionTable[ch][i][1], 1>>
              /\ port_list(ch)[i] \in Ports
<1> DEFINE t == ConnectionTable[ch]
           l == port_list(ch)
<1>1. DOMAIN t = 1..Len(t) /\ Len(t) \in Nat
  <2> DEFINE S == Range(t)
  <2>1. t \in Seq(S)
    BY PortsAssumption DEF PortsAssumption
  <2> HIDE DEF S, t
  <2> QED BY <2>1, LenProperties
<1>2. l = [i \in 1..Len(t) |-> <<t[i][1], 1>>]
  BY <1>1 DEF port_list
<1>3. DOMAIN l = 1..Len(l) /\ DOMAIN l = DOMAIN t
  <2> HIDE DEF t, l
  <2>1. l \in [1..Len(t) -> Range(l)]
    BY <1>2 DEF Range
  <2>2. Len(l) = Len(t)
    BY <1>1, <1>2
  <2> QED BY <1>1, <1>2, <2>2
<1>4. ASSUME NEW i \in DOMAIN l PROVE <<t[i][1], 1>> \in Ports
  <2>1. PICK q \in Ports : q[1] = t[i][1]
    BY <1>3, PortsAssumption DEF PortsAssumption
  <2>2. PICK p \in DOMAIN partitions : \E n \in DOMAIN partitions[p] : q = <<p, n>>
    BY TableFacts
  <2>3. 1 \in DOMAIN partitions[p]
    BY <2>2, TableFacts
  <2> QED BY <2>1, <2>2, <2>3, TableFacts
<1> QED BY <1>1, <1>2, <1>3, <1>4

(* A port is linked to a channel that lists it, if there is one. *)
LEMMA LinkFacts ==
  ASSUME NEW q
  PROVE  /\ channel_link(q) # NULL => /\ channel_link(q) \in Channels
                                     /\ Contains(port_list(channel_link(q)), q)
         /\ channel_link(q) = NULL => \A ch \in Channels : ~Contains(port_list(ch), q)
<1> DEFINE C == {ch \in Channels : Contains(port_list(ch), q)}
           S == {NULL} \cup C
<1>1. Channels = 1..Len(ConnectionTable) /\ Len(ConnectionTable) \in Nat
  <2> DEFINE V == Range(ConnectionTable)
  <2>1. ConnectionTable \in Seq(V)
    BY PortsAssumption DEF PortsAssumption
  <2> HIDE DEF V
  <2> QED BY <2>1, LenProperties DEF Channels
<1>2. C \subseteq 1..Len(ConnectionTable)
  BY <1>1
<1>3. channel_link(q) = Max(S)
  BY DEF channel_link
<1>4. Max(S) \in S /\ \A y \in S : Max(S) >= y
  <2> HIDE DEF C
  <2>1. S \in SUBSET (0..Len(ConnectionTable)) /\ S # {}
    BY <1>1, <1>2 DEF NULL
  <2> HIDE DEF S
  <2> QED BY <1>1, <2>1, MaxOfBounded
<1>5. Max(S) = NULL => C = {}
  <2> SUFFICES ASSUME Max(S) = NULL, NEW ch \in C PROVE FALSE
    OBVIOUS
  <2> HIDE DEF C
  <2>1. ch \in 1..Len(ConnectionTable)
    BY <1>2
  <2>2. 0 >= ch
    BY <1>4 DEF NULL
  <2> QED BY <1>1, <2>1, <2>2
<1> QED BY <1>3, <1>4, <1>5

-----------------------------------------------------------------------------
(* The inductive invariant: the ring of a port holds whole messages, as    *)
(* many as the port counts, and they are messages that were sent.          *)
Rings(m) == [buffer : [0..(m - 1) -> Bytes], head : 0..(m - 1),
             tail : 0..(m - 1), maxLen : {m}]

PortOK(q, r) ==
    /\ r \in [activated : BOOLEAN, NB_MESSAGE : 0..Config(q).MAX_NB_MESSAGE,
              circ_buf : Rings(BufferLen(q))]
    /\ Whole(Stored(r.circ_buf))
    /\ Messages(r.circ_buf) \in Seq(Message)
    /\ r.NB_MESSAGE = Len(Messages(r.circ_buf))

IInv ==
    /\ DOMAIN port = Ports
    /\ \A q \in Ports : PortOK(q, port[q])
    /\ delivered \in [Ports -> Message \cup {<<>>}]
    /\ RETURN_CODE \in {"NO_ERROR", "NO_ACTION", "INVALID_PARAM"}
    /\ undefined \in BOOLEAN

(* Every port's fifo takes a step, or none. *)
PortSteps == \A q \in Ports : UNCHANGED Fifo(q)!fifo \/ Fifo(q)!Next

LEMMA RingOfPort ==
  ASSUME NEW q \in Ports, NEW r, PortOK(q, r)
  PROVE  /\ IsRing(r.circ_buf, BufferLen(q))
         /\ Whole(Stored(r.circ_buf))
         /\ Messages(r.circ_buf) \in Seq(Message)
         /\ r.NB_MESSAGE = Len(Messages(r.circ_buf))
         /\ r.NB_MESSAGE \in 0..Config(q).MAX_NB_MESSAGE
         /\ Config(q).MAX_NB_MESSAGE \in Nat
<1>1. BufferLen(q) \in Nat \ {0} /\ Config(q).MAX_NB_MESSAGE \in Nat
  BY TableFacts
<1> QED BY <1>1 DEF PortOK, IsRing, Rings

(* A port with another ring and another count. *)
Changed(r, c, n) == [r EXCEPT !.circ_buf = c, !.NB_MESSAGE = n]

LEMMA ChangedPort ==
  ASSUME NEW q \in Ports, NEW r, PortOK(q, r),
         NEW c, IsRing(c, BufferLen(q)), Whole(Stored(c)),
         Messages(c) \in Seq(Message),
         NEW n \in 0..Config(q).MAX_NB_MESSAGE, n = Len(Messages(c))
  PROVE  /\ PortOK(q, Changed(r, c, n))
         /\ Changed(r, c, n).circ_buf = c /\ Changed(r, c, n).NB_MESSAGE = n
<1> DEFINE new == Changed(r, c, n)
<1>1. c \in Rings(BufferLen(q))
  BY DEF IsRing, Rings
<1>2. r \in [activated : BOOLEAN, NB_MESSAGE : 0..Config(q).MAX_NB_MESSAGE,
             circ_buf : Rings(BufferLen(q))]
  BY DEF PortOK
<1>3. new.circ_buf = c /\ new.NB_MESSAGE = n
  BY <1>2 DEF Changed
<1>4. new \in [activated : BOOLEAN, NB_MESSAGE : 0..Config(q).MAX_NB_MESSAGE,
               circ_buf : Rings(BufferLen(q))]
  BY <1>1, <1>2 DEF Changed
<1> HIDE DEF new
<1> QED BY <1>3, <1>4 DEF PortOK, new

(* A message offered is the last of those waiting, or leaves no trace. *)
LEMMA OfferedFacts ==
  ASSUME NEW q \in Ports, NEW r, PortOK(q, r), NEW m \in Message, Takes(q, r, m)
  PROVE  /\ PortOK(q, Offered(r, m))
         /\ push_item(r.circ_buf, m).ret = 0 =>
              /\ Messages(Offered(r, m).circ_buf) = Append(Messages(r.circ_buf), m)
              /\ Offered(r, m).NB_MESSAGE = r.NB_MESSAGE + 1
         /\ push_item(r.circ_buf, m).ret # 0 =>
              /\ Messages(Offered(r, m).circ_buf) = Messages(r.circ_buf)
              /\ Offered(r, m).NB_MESSAGE = r.NB_MESSAGE
<1> DEFINE c == r.circ_buf
           nb == r.NB_MESSAGE
           max == Config(q).MAX_NB_MESSAGE
           pushed == push_item(c, m)
           n == IF pushed.ret = 0 THEN nb + 1 ELSE nb
<1>1. /\ IsRing(c, BufferLen(q)) /\ Whole(Stored(c)) /\ Messages(c) \in Seq(Message)
      /\ nb = Len(Messages(c)) /\ nb \in 0..max /\ max \in Nat
  BY RingOfPort
<1>2. Sendable(m) /\ nb < max
  BY TableFacts DEF Takes
<1>3. /\ IsRing(pushed.ring, BufferLen(q)) /\ Whole(Stored(pushed.ring))
      /\ pushed.ret = 0 => Messages(pushed.ring) = Append(Messages(c), m)
      /\ pushed.ret # 0 => Messages(pushed.ring) = Messages(c)
  <2> HIDE DEF c
  <2> QED BY <1>1, <1>2, PushMessages
<1>4. Offered(r, m) = Changed(r, pushed.ring, n)
  BY DEF Offered, Changed
<1> HIDE DEF c, nb, max, pushed
<1>5. /\ Messages(pushed.ring) \in Seq(Message) /\ n = Len(Messages(pushed.ring))
      /\ n \in 0..max
  <2>1. CASE pushed.ret = 0
    <3>1. /\ Append(Messages(c), m) \in Seq(Message)
          /\ Len(Append(Messages(c), m)) = Len(Messages(c)) + 1
      BY <1>1, AppendProperties
    <3> QED BY <1>1, <1>2, <1>3, <2>1, <3>1
  <2>2. CASE pushed.ret # 0
    BY <1>1, <1>3, <2>2
  <2> QED BY <2>1, <2>2
<1> HIDE DEF n
<1>6. /\ PortOK(q, Offered(r, m)) /\ Offered(r, m).circ_buf = pushed.ring
      /\ Offered(r, m).NB_MESSAGE = n
  BY <1>3, <1>4, <1>5, ChangedPort DEF max
<1> QED BY <1>3, <1>6 DEF n, c, nb, pushed

(* A message so many times. *)
Copied(m, j) == [i \in 1..j |-> m]

LEMMA CopiedFacts ==
  ASSUME NEW m \in Message, NEW w \in Seq(Message), NEW j \in Nat
  PROVE  /\ w \o Copied(m, j) \in Seq(Message)
         /\ Len(w \o Copied(m, j)) = Len(w) + j
         /\ j = 0 => w \o Copied(m, j) = w
         /\ j > 0 => Last(w \o Copied(m, j)) = m
         /\ Append(w \o Copied(m, j), m) = w \o Copied(m, j + 1)
<1> DEFINE c == Copied(m, j)
           d == Copied(m, j + 1)
<1>1. /\ c \in Seq(Message) /\ Len(c) = j /\ \A i \in 1..j : c[i] = m
      /\ d \in Seq(Message) /\ Len(d) = j + 1 /\ \A i \in 1..(j + 1) : d[i] = m
  BY DEF Copied
<1> HIDE DEF c, d
<1>2. /\ w \o c \in Seq(Message) /\ Len(w \o c) = Len(w) + j
      /\ \A i \in 1..(Len(w) + j) :
           (w \o c)[i] = IF i <= Len(w) THEN w[i] ELSE c[i - Len(w)]
  BY <1>1, ConcatProperties
<1>3. /\ w \o d \in Seq(Message) /\ Len(w \o d) = Len(w) + (j + 1)
      /\ \A i \in 1..(Len(w) + (j + 1)) :
           (w \o d)[i] = IF i <= Len(w) THEN w[i] ELSE d[i - Len(w)]
  <2>1. /\ w \o d \in Seq(Message) /\ Len(w \o d) = Len(w) + Len(d)
        /\ \A i \in 1..(Len(w) + Len(d)) :
             (w \o d)[i] = IF i <= Len(w) THEN w[i] ELSE d[i - Len(w)]
    BY <1>1, ConcatProperties
  <2>2. Len(d) = j + 1
    BY <1>1
  <2> QED BY <2>1, <2>2, Zenon
<1>4. Len(w) \in Nat /\ w = [i \in 1..Len(w) |-> w[i]]
  BY LenProperties
<1>5. j = 0 => w \o c = w
  <2> SUFFICES ASSUME j = 0 PROVE w \o c = w
    OBVIOUS
  <2>1. Len(w \o c) = Len(w) /\ \A i \in 1..Len(w) : (w \o c)[i] = w[i]
    BY <1>2, <1>4
  <2> QED BY <1>2, <2>1, SeqEqual
<1>6. j > 0 => Last(w \o c) = m
  <2> SUFFICES ASSUME j > 0 PROVE Last(w \o c) = m
    OBVIOUS
  <2>1. Len(w) + j \in 1..(Len(w) + j) /\ ~(Len(w) + j <= Len(w))
        /\ (Len(w) + j) - Len(w) = j /\ j \in 1..j
    BY <1>4
  <2>2. (w \o c)[Len(w) + j] = c[(Len(w) + j) - Len(w)]
    BY <1>2, <2>1
  <2> QED BY <1>1, <1>2, <2>1, <2>2 DEF Last
<1>7. Append(w \o c, m) = w \o d
  <2>1. /\ Append(w \o c, m) \in Seq(Message)
        /\ Len(Append(w \o c, m)) = Len(w) + j + 1
        /\ \A i \in 1..(Len(w) + j) : Append(w \o c, m)[i] = (w \o c)[i]
        /\ Append(w \o c, m)[Len(w) + j + 1] = m
    BY <1>2, AppendProperties
  <2>2. ASSUME NEW i \in 1..(Len(w) + (j + 1))
        PROVE  Append(w \o c, m)[i] = (w \o d)[i]
    <3>1. CASE i <= Len(w)
      <4>1. i \in 1..(Len(w) + j)
        BY <1>4, <3>1
      <4> QED BY <1>2, <1>3, <2>1, <3>1, <4>1
    <3>2. CASE ~(i <= Len(w)) /\ i # Len(w) + j + 1
      <4>1. i \in 1..(Len(w) + j) /\ i - Len(w) \in 1..j /\ i - Len(w) \in 1..(j + 1)
        BY <1>4, <3>2
      <4> QED BY <1>1, <1>2, <1>3, <2>1, <3>2, <4>1
    <3>3. CASE i = Len(w) + j + 1
      <4>1. ~(i <= Len(w)) /\ i - Len(w) \in 1..(j + 1)
        BY <1>4, <3>3
      <4> QED BY <1>1, <1>3, <2>1, <3>3, <4>1
    <3> QED BY <3>1, <3>2, <3>3
  <2>3. Len(Append(w \o c, m)) = Len(w \o d) /\ Len(w \o d) = Len(w) + (j + 1)
    BY <1>3, <1>4, <2>1
  <2> QED BY <1>3, <2>1, <2>2, <2>3, SeqEqual
<1> QED BY <1>2, <1>5, <1>6, <1>7 DEF c, d

(* The message finds a port ready for it and room in its ring. *)
Fits(q, m) == Takes(q, port[q], m) /\ push_item(port[q].circ_buf, m).ret = 0

(* A port after n turns: it has up to n copies of the message more, and    *)
(* one at least if it took the first.                                      *)
Grown(q, m, r, n) ==
    /\ PortOK(q, r)
    /\ n = 0 => r = port[q]
    /\ \E j \in 0..n : /\ Messages(r.circ_buf) = Waiting(q) \o Copied(m, j)
                       /\ Fits(q, m) /\ n > 0 => j > 0

LEMMA TurnGrows ==
  ASSUME NEW q \in Ports, PortOK(q, port[q]), NEW m \in Message,
         NEW n \in Nat, NEW r, Grown(q, m, r, n)
  PROVE  Grown(q, m, Turn(q, r, m), n + 1)
<1> DEFINE w == Waiting(q)
           t == Turn(q, r, m)
<1>1. PortOK(q, r) /\ w \in Seq(Message)
  BY DEF Grown, PortOK, Waiting
<1>2. PICK j \in 0..n : /\ Messages(r.circ_buf) = w \o Copied(m, j)
                        /\ Fits(q, m) /\ n > 0 => j > 0
  BY DEF Grown
<1>3. n + 1 # 0 /\ n + 1 > 0 /\ j \in Nat
  OBVIOUS
<1>4. CASE Takes(q, r, m) /\ push_item(r.circ_buf, m).ret = 0
  <2>1. PortOK(q, t) /\ Messages(t.circ_buf) = Append(w \o Copied(m, j), m)
    BY <1>1, <1>2, <1>4, OfferedFacts DEF Turn
  <2>2. Messages(t.circ_buf) = w \o Copied(m, j + 1)
    <3> HIDE DEF w, t
    <3> QED BY <1>1, <1>3, <2>1, CopiedFacts
  <2>3. j + 1 \in 0..(n + 1) /\ j + 1 > 0
    BY <1>3
  <2> HIDE DEF t, w
  <2>4. \E i \in 0..(n + 1) : /\ Messages(t.circ_buf) = w \o Copied(m, i)
                              /\ Fits(q, m) /\ n + 1 > 0 => i > 0
    BY <2>2, <2>3, Zenon
  <2> QED BY <1>3, <2>1, <2>4, Zenon DEF Grown, t, w
<1>5. CASE ~(Takes(q, r, m) /\ push_item(r.circ_buf, m).ret = 0)
  <2>1. PortOK(q, t) /\ Messages(t.circ_buf) = w \o Copied(m, j)
    BY <1>1, <1>2, <1>5, OfferedFacts DEF Turn
  <2>2. Fits(q, m) => j > 0
    <3>1. CASE n = 0
      <4>1. r = port[q]
        BY <3>1 DEF Grown
      <4> QED BY <1>5, <4>1 DEF Fits
    <3>2. CASE n # 0
      BY <1>2, <3>2
    <3> QED BY <3>1, <3>2
  <2>3. j \in 0..(n + 1)
    BY <1>3
  <2> HIDE DEF t, w
  <2>4. \E i \in 0..(n + 1) : /\ Messages(t.circ_buf) = w \o Copied(m, i)
                              /\ Fits(q, m) /\ n + 1 > 0 => i > 0
    BY <2>1, <2>2, <2>3, Zenon
  <2> QED BY <1>3, <2>1, <2>4, Zenon DEF Grown, t, w
<1> QED BY <1>4, <1>5

(* The turns of the send loop. *)
LEMMA TurnsGrow ==
  ASSUME NEW q \in Ports, PortOK(q, port[q]), NEW m \in Message, NEW n \in Nat
  PROVE  Grown(q, m, AfterTurns(q, m, n), n)
<1> DEFINE D == 0..n
           T == [activated : BOOLEAN, NB_MESSAGE : 0..Config(q).MAX_NB_MESSAGE,
                 circ_buf : Rings(BufferLen(q))]
           V == {r \in T : PortOK(q, r)}
           measure == [k \in D |-> k]
           Step == [z \in D \X [D -> V] |->
                      IF z[1] = 0 THEN port[q] ELSE Turn(q, z[2][z[1] - 1], m)]
           IsTurns(f) == f = [k \in D |-> IF k = 0 THEN port[q] ELSE Turn(q, f[k - 1], m)]
           G == CHOOSE f : IsTurns(f)
<1>1. port[q] \in V
  BY DEF PortOK
<1>2. ASSUME NEW r \in V PROVE Turn(q, r, m) \in V
  <2>1. PortOK(q, r)
    OBVIOUS
  <2>2. PortOK(q, Turn(q, r, m))
    BY <2>1, OfferedFacts DEF Turn
  <2> QED BY <2>2 DEF PortOK
<1>3. \A k \in D : k \in Nat /\ (k # 0 => k - 1 \in D /\ measure[k - 1] < measure[k])
  OBVIOUS
<1>4. measure \in [D -> Nat] /\ V # {}
  BY <1>1
<1> HIDE DEF V, measure
<1>5. ASSUME NEW k \in D, NEW f \in [D -> V]
      PROVE  Step[<<k, f>>] = IF k = 0 THEN port[q] ELSE Turn(q, f[k - 1], m)
  OBVIOUS
<1>6. Step \in [D \X [D -> V] -> V]
  <2>1. ASSUME NEW k \in D, NEW f \in [D -> V]
        PROVE  (IF k = 0 THEN port[q] ELSE Turn(q, f[k - 1], m)) \in V
    BY <1>1, <1>2, <1>3
  <2> HIDE DEF D
  <2> QED BY <2>1
<1>7. LooksBelow(D, V, measure, Step)
  <2> SUFFICES ASSUME NEW k \in D, NEW f \in [D -> V], NEW g \in [D -> V],
                      \A y \in D : measure[y] < measure[k] => f[y] = g[y]
               PROVE  Step[<<k, f>>] = Step[<<k, g>>]
    BY DEF LooksBelow
  <2>1. k # 0 => f[k - 1] = g[k - 1]
    BY <1>3
  <2> HIDE DEF Step, D
  <2> QED BY <1>5, <2>1
<1>8. PICK F \in [D -> V] : \A k \in D : F[k] = Step[<<k, F>>]
  <2> HIDE DEF Step, D
  <2>1. HasRecursion(D, V, Step)
    BY <1>4, <1>6, <1>7, RecursionByMeasure
  <2> QED BY <2>1 DEF HasRecursion
<1>9. IsTurns(F)
  <2> HIDE DEF Step
  <2> QED BY <1>5, <1>8
<1>10. IsTurns(G)
  BY <1>9
<1> HIDE DEF Step
<1>11. AfterTurns(q, m, n) = G[n]
  BY DEF AfterTurns
<1> HIDE DEF G
<1>12. ASSUME NEW k \in D
       PROVE  G[k] = IF k = 0 THEN port[q] ELSE Turn(q, G[k - 1], m)
  BY <1>10
<1> DEFINE S == {k \in D : Grown(q, m, G[k], k)}
<1>13. Grown(q, m, port[q], 0)
  <2>1. Waiting(q) \in Seq(Message) /\ Messages(port[q].circ_buf) = Waiting(q)
    BY DEF PortOK, Waiting
  <2>2. Waiting(q) = Waiting(q) \o Copied(m, 0)
    BY <2>1, CopiedFacts
  <2>3. 0 \in 0..0 /\ ~(0 > 0)
    OBVIOUS
  <2> QED BY <2>1, <2>2, <2>3 DEF Grown
<1>14. Inductive(D, measure, S)
  <2> SUFFICES ASSUME NEW k \in D, \A y \in D : measure[y] < measure[k] => y \in S
               PROVE  Grown(q, m, G[k], k)
    BY DEF Inductive
  <2>1. CASE k = 0
    BY <1>12, <1>13, <2>1
  <2>2. CASE k # 0
    <3>1. k - 1 \in Nat /\ Grown(q, m, G[k - 1], k - 1) /\ (k - 1) + 1 = k
      BY <1>3, <2>2
    <3>2. Grown(q, m, Turn(q, G[k - 1], m), (k - 1) + 1)
      BY <3>1, TurnGrows
    <3> QED BY <1>12, <2>2, <3>1, <3>2
  <2> QED BY <2>1, <2>2
<1>15. n \in S
  <2>1. n \in D
    OBVIOUS
  <2> HIDE DEF D, S
  <2> QED BY <1>4, <1>14, <2>1, InductionByMeasure
<1> QED BY <1>11, <1>15

(* The places of a port in the list of a channel. *)
LEMMA PlacesFacts ==
  ASSUME NEW ch \in Channels, NEW q
  PROVE  /\ Places(ch, q) \in Nat
         /\ Places(ch, q) > 0 <=> q \in Range(port_list(ch))
<1> DEFINE l == port_list(ch)
           S == {i \in DOMAIN l : l[i] = q}
<1>1. IsFiniteSet(DOMAIN l)
  <2>1. DOMAIN l = 1..Len(ConnectionTable[ch]) /\ Len(ConnectionTable[ch]) \in Nat
    <3> DEFINE t == ConnectionTable[ch]
               V == Range(t)
    <3>1. t \in Seq(V)
      BY PortsAssumption DEF PortsAssumption
    <3>2. DOMAIN l = DOMAIN t
      BY PortListFacts
    <3> HIDE DEF V, t, l
    <3> QED BY <3>1, <3>2, LenProperties DEF t
  <2> QED BY <2>1, FS_Interval
<1>2. IsFiniteSet(S)
  <2> HIDE DEF l
  <2> QED BY <1>1, FS_Subset
<1>3. Cardinality(S) \in Nat /\ (Cardinality(S) = 0 <=> S = {})
  <2> HIDE DEF S
  <2> QED BY <1>2, FS_CardinalityType, FS_EmptySet
<1>4. S # {} <=> q \in Range(l)
  BY DEF Range
<1>5. Places(ch, q) = Cardinality(S)
  BY DEF Places
<1> HIDE DEF S, l
<1> QED BY <1>3, <1>4, <1>5 DEF l

-----------------------------------------------------------------------------
(* Every call keeps the invariant, and is a step of every port's fifo or   *)
(* leaves it alone.                                                        *)
LEMMA CreateKeeps ==
  ASSUME IInv, NEW p \in DOMAIN partitions, NEW asked,
         create_queuing_port(p, asked)
  PROVE  IInv' /\ PortSteps
<1>1. ASSUME NEW q \in Ports
      PROVE  PortOK(q, port'[q]) /\ port'[q].circ_buf = port[q].circ_buf
  <2>1. PortOK(q, port[q]) /\ q \in DOMAIN port
    BY DEF IInv
  <2>2. port'[q] = port[q] \/ port'[q] = [port[q] EXCEPT !.activated = TRUE]
    BY <2>1 DEF create_queuing_port
  <2> QED BY <2>1, <2>2 DEF PortOK
<1>2. /\ DOMAIN port' = Ports /\ delivered' = delivered /\ undefined' = undefined
      /\ RETURN_CODE' \in {"NO_ERROR", "NO_ACTION", "INVALID_PARAM"}
  BY DEF IInv, create_queuing_port
<1>3. IInv'
  BY <1>1, <1>2 DEF IInv, PortOK
<1>4. PortSteps
  BY <1>1, <1>2 DEF PortSteps, Waiting, Fifo!fifo
<1> QED BY <1>3, <1>4

LEMMA SendKeeps ==
  ASSUME IInv, NEW p \in DOMAIN partitions,
         NEW n \in 1..(Len(partitions[p]) + 1), NEW m \in Message,
         send_queuing_message(p, n, m)
  PROVE  IInv' /\ PortSteps
<1> DEFINE chan == channel_link(<<p, n>>)
<1>1. /\ delivered' = delivered /\ undefined' \in BOOLEAN
      /\ RETURN_CODE' \in {"NO_ERROR", "NO_ACTION", "INVALID_PARAM"}
  BY DEF IInv, send_queuing_message, send_over
<1>2. \/ port' = port
      \/ /\ port' = [q \in Ports |-> AfterTurns(q, m, Places(chan, q))]
         /\ chan \in Channels
  <2>1. chan # NULL => chan \in Channels
    BY LinkFacts
  <2> QED BY <2>1 DEF send_queuing_message, send_over
<1> HIDE DEF chan
<1>3. DOMAIN port' = Ports
  BY <1>2 DEF IInv
<1>4. ASSUME NEW q \in Ports
      PROVE  /\ PortOK(q, port'[q])
             /\ UNCHANGED Fifo(q)!fifo \/ Fifo(q)!Next
  <2>1. PortOK(q, port[q]) /\ delivered'[q] = delivered[q]
    BY <1>1 DEF IInv
  <2>2. CASE port' = port
    <3>1. Waiting(q)' = Waiting(q) /\ PortOK(q, port'[q])
      BY <2>1, <2>2 DEF Waiting
    <3> QED BY <2>1, <3>1 DEF Fifo!fifo
  <2>3. CASE chan \in Channels /\ port'[q] = AfterTurns(q, m, Places(chan, q))
    <3> DEFINE w == Waiting(q)
               places == Places(chan, q)
    <3>1. places \in Nat
      BY <2>3, PlacesFacts
    <3>2. Grown(q, m, port'[q], places)
      BY <2>1, <2>3, <3>1, TurnsGrow
    <3>3. PortOK(q, port'[q])
      BY <3>2 DEF Grown
    <3>4. PICK j \in 0..places : Waiting(q)' = w \o Copied(m, j)
      BY <3>2 DEF Grown, Waiting
    <3>5. w \in Seq(Message) /\ j \in Nat
      BY <2>1, <3>1 DEF PortOK, Waiting
    <3> HIDE DEF w
    <3>6. CASE j = 0
      <4>1. Waiting(q)' = w
        BY <3>4, <3>5, <3>6, CopiedFacts
      <4> QED BY <2>1, <3>3, <4>1 DEF Fifo!fifo, w
    <3>7. CASE j # 0
      <4>1. Len(w) + j <= Config(q).MAX_NB_MESSAGE
        <5>1. port'[q].NB_MESSAGE = Len(Waiting(q)')
              /\ port'[q].NB_MESSAGE \in 0..Config(q).MAX_NB_MESSAGE
          BY <3>3 DEF PortOK, Waiting
        <5>2. Len(Waiting(q)') = Len(w) + j
          BY <3>4, <3>5, CopiedFacts
        <5>3. Config(q).MAX_NB_MESSAGE \in Nat
          BY TableFacts
        <5> QED BY <5>1, <5>2, <5>3
      <4>2. j \in 1..places /\ places \in {Places(ch, q) : ch \in Channels}
        BY <2>3, <3>1, <3>7
      <4>3. Fifo(q)!Accept(m)
        <5> HIDE DEF places
        <5> QED BY <2>1, <3>4, <4>1, <4>2 DEF Fifo!Accept, Copied, w
      <4> QED BY <3>3, <4>3 DEF Fifo!Next
    <3> QED BY <3>6, <3>7
  <2> QED BY <1>2, <2>2, <2>3
<1>5. IInv'
  BY <1>1, <1>3, <1>4 DEF IInv, PortOK
<1> QED BY <1>4, <1>5 DEF PortSteps

LEMMA ReceiveKeeps ==
  ASSUME IInv, NEW p \in DOMAIN partitions,
         NEW n \in 1..(Len(partitions[p]) + 1),
         recieve_queuing_message(p, n)
  PROVE  IInv' /\ PortSteps
<1> DEFINE r == <<p, n>>
           c == port[r].circ_buf
           popped == pop_item(c)
<1>1. /\ undefined' = undefined
      /\ RETURN_CODE' \in {"NO_ERROR", "NO_ACTION", "INVALID_PARAM"}
  BY DEF recieve_queuing_message
<1>2. CASE n > Len(partitions[p])
  <2>1. port' = port /\ delivered' = delivered
    BY <1>2 DEF recieve_queuing_message
  <2>2. IInv'
    BY <1>1, <2>1 DEF IInv
  <2>3. PortSteps
    BY <2>1 DEF PortSteps, Waiting, Fifo!fifo
  <2> QED BY <2>2, <2>3
<1>3. CASE ~(n > Len(partitions[p]))
  <2>1. r \in Ports
    <3>1. n \in DOMAIN partitions[p]
      BY <1>3, TableFacts
    <3> QED BY <3>1, TableFacts
  <2>2. PortOK(r, port[r]) /\ DOMAIN port = Ports
        /\ delivered \in [Ports -> Message \cup {<<>>}]
    BY <2>1 DEF IInv
  <2>3. /\ IsRing(c, BufferLen(r)) /\ Whole(Stored(c)) /\ Messages(c) \in Seq(Message)
        /\ port[r].NB_MESSAGE = Len(Messages(c))
        /\ port[r].NB_MESSAGE \in 0..Config(r).MAX_NB_MESSAGE
        /\ Config(r).MAX_NB_MESSAGE \in Nat
    <3> HIDE DEF r
    <3> QED BY <2>1, <2>2, RingOfPort
  <2>4. /\ IsRing(popped.ring, BufferLen(r)) /\ Whole(Stored(popped.ring))
        /\ Messages(c) = <<>> => popped.ret = -1 /\ Messages(popped.ring) = <<>>
        /\ Messages(c) # <<>> => /\ popped.ret = 0 /\ popped.data \in Seq(Bytes)
                                 /\ Messages(c) = <<popped.data>> \o Messages(popped.ring)
    <3> HIDE DEF c, r
    <3> QED BY <2>3, PopMessages
  <2>5. /\ popped.ret = -1 =>
             /\ port' = [port EXCEPT ![r].circ_buf = popped.ring]
             /\ delivered' = delivered
        /\ popped.ret # -1 =>
             /\ port' = [port EXCEPT ![r].circ_buf = popped.ring, ![r].NB_MESSAGE = @ - 1]
             /\ delivered' = [delivered EXCEPT ![r] = popped.data]
    BY <1>3 DEF recieve_queuing_message
  <2> HIDE DEF popped, r
  <2>6. ASSUME NEW q \in Ports, q # r
        PROVE  port'[q] = port[q] /\ delivered'[q] = delivered[q]
    BY <2>2, <2>5, <2>6
  <2>7. DOMAIN port' = Ports /\ DOMAIN delivered' = Ports
    BY <2>2, <2>5
  <2>8. /\ PortOK(r, port'[r])
        /\ delivered'[r] \in Message \cup {<<>>}
        /\ UNCHANGED Fifo(r)!fifo \/ Fifo(r)!Deliver
    <3>1. CASE Messages(c) = <<>>
      <4>1. popped.ret = -1 /\ Messages(popped.ring) = <<>>
        BY <2>4, <3>1
      <4>2. port[r].NB_MESSAGE = 0
        BY <2>3, <3>1
      <4>3. port'[r] = Changed(port[r], popped.ring, 0)
        <5>1. port'[r] = [port[r] EXCEPT !.circ_buf = popped.ring]
          BY <2>1, <2>2, <2>5, <4>1
        <5>2. port[r] = [port[r] EXCEPT !.NB_MESSAGE = 0]
          BY <2>2, <4>2 DEF PortOK
        <5> QED BY <2>2, <5>1, <5>2 DEF PortOK, Changed
      <4>4. PortOK(r, port'[r]) /\ port'[r].circ_buf = popped.ring
        <5>1. /\ Messages(popped.ring) \in Seq(Message) /\ 0 = Len(Messages(popped.ring))
              /\ 0 \in 0..Config(r).MAX_NB_MESSAGE
          BY <2>3, <3>1, <4>1
        <5> QED BY <2>1, <2>2, <2>4, <4>3, <5>1, ChangedPort
      <4>5. delivered' = delivered
        BY <2>5, <4>1
      <4>6. Waiting(r)' = Waiting(r)
        BY <3>1, <4>1, <4>4 DEF Waiting, c
      <4>7. UNCHANGED Fifo(r)!fifo
        BY <4>5, <4>6 DEF Fifo!fifo
      <4> QED BY <2>1, <2>2, <4>4, <4>5, <4>7
    <3>2. CASE Messages(c) # <<>>
      <4> DEFINE old == Messages(c)
                 new == Messages(popped.ring)
                 nb == port[r].NB_MESSAGE
      <4>1. popped.ret = 0 /\ old = <<popped.data>> \o new
        BY <2>4, <3>2
      <4>2. Tail(old) = new /\ Head(old) = popped.data
        <5>1. new \in Seq(Seq(Nat)) /\ popped.data \in Seq(Nat)
          <6>1. Stored(popped.ring) \in Seq(Bytes)
            BY <2>4, StoredFacts
          <6>2. Bytes \subseteq Nat
            BY ByteAssumption DEF Bytes
          <6> QED BY <2>4, <3>2, <6>1, <6>2, ParsedFacts, SeqMonotonic DEF Messages
        <5> HIDE DEF new, old
        <5> QED BY <4>1, <5>1, HeadAndTail
      <4>3. /\ new \in Seq(Message) /\ popped.data \in Message
            /\ Len(new) = Len(old) - 1 /\ Len(old) \in Nat /\ Len(old) > 0
        <5> HIDE DEF new, old
        <5>1. old \in Seq(Message) /\ old # <<>>
          BY <2>3, <3>2 DEF old
        <5>2. /\ Tail(old) \in Seq(Message) /\ Head(old) \in Message
              /\ Len(Tail(old)) = Len(old) - 1
          BY <5>1, HeadTailProperties
        <5>3. Len(old) \in Nat /\ Len(old) # 0
          BY <5>1, LenProperties, EmptySeq
        <5>4. Len(old) > 0
          BY <5>3
        <5>5. new \in Seq(Message) /\ popped.data \in Message /\ Len(new) = Len(old) - 1
          BY <4>2, <5>2, Zenon
        <5> QED BY <5>3, <5>4, <5>5
      <4>4. port'[r] = Changed(port[r], popped.ring, nb - 1)
        <5>1. port' = [port EXCEPT ![r].circ_buf = popped.ring, ![r].NB_MESSAGE = @ - 1]
          <6>1. popped.ret # -1
            BY <4>1
          <6> QED BY <2>5, <6>1
        <5>2. port[r] \in [activated : BOOLEAN,
                           NB_MESSAGE : 0..Config(r).MAX_NB_MESSAGE,
                           circ_buf : Rings(BufferLen(r))]
          BY <2>2 DEF PortOK
        <5>3. port'[r] = [[port[r] EXCEPT !.circ_buf = popped.ring] EXCEPT
                             !.NB_MESSAGE = nb - 1]
          BY <2>1, <2>2, <5>1, <5>2
        <5> QED BY <5>2, <5>3 DEF Changed
      <4>5. PortOK(r, port'[r]) /\ port'[r].circ_buf = popped.ring
        <5>1. nb - 1 \in 0..Config(r).MAX_NB_MESSAGE /\ nb - 1 = Len(new)
          <6> HIDE DEF old, new, nb
          <6>1. nb = Len(old)
            BY <2>3 DEF old, nb
          <6> QED BY <2>3, <4>3, <6>1 DEF nb
        <5> HIDE DEF nb
        <5> QED BY <2>1, <2>2, <2>4, <4>3, <4>4, <5>1, ChangedPort
      <4>6. delivered'[r] = popped.data
        BY <2>1, <2>2, <2>5, <4>1
      <4>7. Waiting(r)' = new /\ Waiting(r) = old
        BY <4>5 DEF Waiting, c
      <4>8. Fifo(r)!Deliver
        <5> HIDE DEF old, new
        <5> QED BY <3>2, <4>2, <4>6, <4>7 DEF Fifo!Deliver, old
      <4> QED BY <4>3, <4>5, <4>6, <4>8
    <3> QED BY <3>1, <3>2
  <2>9. ASSUME NEW q \in Ports
        PROVE  /\ PortOK(q, port'[q])
               /\ delivered'[q] \in Message \cup {<<>>}
               /\ UNCHANGED Fifo(q)!fifo \/ Fifo(q)!Next
    <3>1. CASE q = r
      BY <2>8, <3>1 DEF Fifo!Next
    <3>2. CASE q # r
      <4>1. Waiting(q)' = Waiting(q) /\ PortOK(q, port'[q])
        BY <2>6, <3>2 DEF Waiting, IInv
      <4> QED BY <2>2, <2>6, <3>2, <4>1 DEF Fifo!fifo
    <3> QED BY <3>1, <3>2
  <2>10. delivered' \in [Ports -> Message \cup {<<>>}]
    BY <2>2, <2>5, <2>7, <2>9
  <2>11. IInv'
    BY <1>1, <2>7, <2>9, <2>10 DEF IInv, PortOK
  <2> QED BY <2>9, <2>11 DEF PortSteps
<1> QED BY <1>2, <1>3

LEMMA QueuingStarts ==
  ASSUME Init
  PROVE  IInv /\ \A q \in Ports : Fifo(q)!Init
<1>1. ASSUME NEW q \in Ports
      PROVE  PortOK(q, port[q]) /\ Waiting(q) = <<>> /\ delivered[q] = <<>>
  <2> DEFINE c == CircBuf(BufferLen(q))
  <2>1. BufferLen(q) \in Nat \ {0} /\ Config(q).MAX_NB_MESSAGE \in Nat
    BY TableFacts
  <2>2. port[q] = [activated |-> FALSE, NB_MESSAGE |-> 0, circ_buf |-> c]
        /\ delivered[q] = <<>>
    BY DEF Init
  <2>3. IsRing(c, BufferLen(q)) /\ Messages(c) = <<>> /\ Whole(Stored(c))
    BY <2>1, EmptyRing
  <2> HIDE DEF c
  <2>4. /\ Messages(c) \in Seq(Message) /\ 0 = Len(Messages(c))
        /\ 0 \in 0..Config(q).MAX_NB_MESSAGE
    BY <2>1, <2>3
  <2>5. c \in Rings(BufferLen(q))
    BY <2>3 DEF IsRing, Rings
  <2>6. PortOK(q, port[q])
    BY <2>2, <2>3, <2>4, <2>5 DEF PortOK
  <2> QED BY <2>2, <2>3, <2>6 DEF Waiting
<1>2. /\ DOMAIN port = Ports /\ delivered \in [Ports -> Message \cup {<<>>}]
      /\ RETURN_CODE = "NO_ERROR" /\ undefined = FALSE
  BY DEF Init
<1> QED BY <1>1, <1>2 DEF IInv, Fifo!Init

LEMMA QueuingSteps ==
  ASSUME IInv, [Next]_vars
  PROVE  IInv' /\ (Next => PortSteps)
<1>1. CASE UNCHANGED vars
  <2>1. UNCHANGED <<port, delivered, RETURN_CODE, undefined>>
    BY <1>1 DEF vars
  <2>2. IInv'
    BY <2>1 DEF IInv
  <2>3. PortSteps
    BY <2>1 DEF PortSteps, Waiting, Fifo!fifo
  <2> QED BY <2>2, <2>3
<1>2. CASE Next
  <2> PICK p \in DOMAIN partitions :
        \/ \E asked \in Asked(p) : create_queuing_port(p, asked)
        \/ \E n \in 1..(Len(partitions[p]) + 1) :
             \/ \E m \in Message : send_queuing_message(p, n, m)
             \/ recieve_queuing_message(p, n)
    BY <1>2 DEF Next
  <2> QED BY CreateKeeps, SendKeeps, ReceiveKeeps
<1> QED BY <1>1, <1>2

LEMMA QueuingInvariance == Spec => []IInv
<1>1. Init => IInv
  BY QueuingStarts
<1>2. IInv /\ [Next]_vars => IInv'
  BY QueuingSteps
<1> QED BY <1>1, <1>2, PTL DEF Spec

-----------------------------------------------------------------------------
(* A send counts a message just if the port waits with it as the last one; *)
(* it does if the port was ready and its ring had room.                    *)
LEMMA Arrives ==
  ASSUME IInv, NEW chan \in Channels, NEW m \in Message, Sends(chan, m),
         NEW q \in Ports
  PROVE  /\ Got(q) <=> Len(Waiting(q)') > Len(Waiting(q)) /\ Last(Waiting(q)') = m
         /\ Got(q) => q \in Range(port_list(chan))
         /\ Fits(q, m) /\ q \in Range(port_list(chan)) => Got(q)
<1> DEFINE w == Waiting(q)
           places == Places(chan, q)
<1>1. PortOK(q, port[q])
  BY DEF IInv
<1>2. w \in Seq(Message) /\ port[q].NB_MESSAGE = Len(w) /\ Len(w) \in Nat
  BY <1>1, LenProperties DEF PortOK, Waiting
<1>3. port'[q] = AfterTurns(q, m, places)
  BY DEF Sends, send_over
<1>4. places \in Nat /\ (places > 0 <=> q \in Range(port_list(chan)))
  BY PlacesFacts
<1>5. Grown(q, m, port'[q], places)
  BY <1>1, <1>3, <1>4, TurnsGrow
<1>6. PICK j \in 0..places : /\ Waiting(q)' = w \o Copied(m, j)
                             /\ Fits(q, m) /\ places > 0 => j > 0
  BY <1>5 DEF Grown, Waiting
<1>7. port'[q].NB_MESSAGE = Len(Waiting(q)')
  BY <1>5 DEF Grown, PortOK, Waiting
<1>8. j \in Nat
  BY <1>4
<1> HIDE DEF w, places
<1>9. Len(Waiting(q)') = Len(w) + j /\ (j > 0 => Last(Waiting(q)') = m)
  BY <1>2, <1>6, <1>8, CopiedFacts
<1>10. Got(q) <=> Len(w) + j > Len(w)
  BY <1>2, <1>7, <1>9 DEF Got
<1>11. Got(q) <=> j > 0
  BY <1>2, <1>8, <1>10
<1>12. j > 0 => places > 0
  BY <1>4
<1>13. Len(Waiting(q)') > Len(w) <=> j > 0
  BY <1>2, <1>8, <1>9
<1> QED BY <1>4, <1>6, <1>9, <1>11, <1>12, <1>13 DEF w

(* The ports of a channel's list. *)
LEMMA ListedPorts ==
  ASSUME NEW chan \in Channels
  PROVE  Range(port_list(chan)) \subseteq Ports
<1>1. \A i \in DOMAIN port_list(chan) : port_list(chan)[i] \in Ports
  BY PortListFacts
<1> QED BY <1>1 DEF Range

-----------------------------------------------------------------------------

(* For all tables, sizes, messages and bytes: every variable keeps its     *)
(* type; no index leaves its buffer and no count passes MAX_NB_MESSAGE     *)
(* (circular_buffer.c:13-54, queuing_port.c:107).                          *)
THEOREM QueuingTypeTheorem == Spec => []TypeOK
<1>1. IInv => TypeOK
  <2> SUFFICES ASSUME IInv PROVE TypeOK
    OBVIOUS
  <2>1. ASSUME NEW q \in Ports
        PROVE  /\ port[q].activated \in BOOLEAN
               /\ port[q].NB_MESSAGE \in 0..Config(q).MAX_NB_MESSAGE
               /\ port[q].circ_buf \in Rings(BufferLen(q))
    BY DEF IInv, PortOK
  <2> QED BY <2>1 DEF IInv, TypeOK, Rings
<1> QED BY <1>1, QueuingInvariance, PTL

(* ... the number of messages a port counts is the number its ring holds,  *)
(* and none of them is torn (queuing_port.c:125, 160).                     *)
THEOREM CountIsMessagesTheorem == Spec => []CountIsMessages
<1>1. IInv => CountIsMessages
  BY DEF IInv, PortOK, CountIsMessages, Waiting, Whole, Contains, Messages
<1> QED BY <1>1, QueuingInvariance, PTL

(* ... and every port implements the fifo of MessageFifo                   *)
(* (circular_buffer.c:56-102).                                             *)
THEOREM ImplementsFifoTheorem == Spec => ImplementsFifo
<1>1. Init => \A q \in Ports : Fifo(q)!Init
  BY QueuingStarts
<1>2. IInv /\ [Next]_vars =>
        [\A q \in Ports : UNCHANGED Fifo(q)!fifo \/ Fifo(q)!Next]_vars
  BY QueuingSteps DEF PortSteps
<1> QED BY <1>1, <1>2, QueuingInvariance, PTL DEF Spec, ImplementsFifo

(* ... and a sender is told NO_ERROR if and only if a port has got its     *)
(* message (queuing_port.c:93-135).                                        *)
THEOREM ReportsDeliveryTheorem == Spec => ReportsDelivery
<1>1. ASSUME IInv, NEW chan \in Channels, NEW m \in Message,
             Sends(chan, m)
      PROVE  RETURN_CODE' = "NO_ERROR" <=>
               \E q \in Ports : /\ Len(Waiting(q)') > Len(Waiting(q))
                                /\ Last(Waiting(q)') = m
  <2> DEFINE Has(q) == Len(Waiting(q)') > Len(Waiting(q)) /\ Last(Waiting(q)') = m
  <2>1. /\ RETURN_CODE' = "NO_ERROR" <=> message_sent(chan, m)
        /\ \A q \in Ports : port'[q] = AfterTurns(q, m, Places(chan, q))
    BY <1>1 DEF Sends, send_over
  <2>2. Range(port_list(chan)) \subseteq Ports
    BY <1>1, ListedPorts
  <2>3. \A q \in Ports : /\ Got(q) <=> Has(q)
                         /\ Got(q) => q \in Range(port_list(chan))
    BY <1>1, Arrives
  <2>4. message_sent(chan, m) <=> \E q \in Range(port_list(chan)) : Got(q)
    BY <2>1, <2>2 DEF message_sent, Got
  <2> HIDE DEF Has
  <2>5. RETURN_CODE' = "NO_ERROR" <=> \E q \in Ports : Has(q)
    BY <2>1, <2>2, <2>3, <2>4
  <2> QED BY <2>5 DEF Has
<1>2. IInv => [\A chan \in Channels, m \in Message :
                 Sends(chan, m) =>
                   (RETURN_CODE' = "NO_ERROR" <=>
                      \E q \in Ports : /\ Len(Waiting(q)') > Len(Waiting(q))
                                       /\ Last(Waiting(q)') = m)]_vars
  BY <1>1
<1> QED BY <1>2, QueuingInvariance, PTL DEF ReportsDelivery

(* ... and a port that is activated takes every message that there is room *)
(* for (queuing_port.c:101-125, circular_buffer.c:13-20).                  *)
THEOREM TakesWhatFitsTheorem == Spec => TakesWhatFits
<1>1. ASSUME IInv, NEW chan \in Channels, NEW m \in Message,
             Sends(chan, m),
             NEW i \in DOMAIN port_list(chan),
             NEW q, q = port_list(chan)[i],
             Config(q).PORT_DIRECTION = "DESTINATION", port[q].activated,
             Len(m) <= Config(q).MAX_MESSAGE_SIZE, HasRoom(q, m)
      PROVE  Got(q)
  <2> DEFINE c == port[q].circ_buf
  <2>1. q \in Ports /\ q \in Range(port_list(chan))
    <3>1. q \in Range(port_list(chan))
      BY <1>1 DEF Range
    <3> QED BY <1>1, <3>1, ListedPorts
  <2>2. PortOK(q, port[q])
    BY <1>1, <2>1 DEF IInv
  <2>3. /\ IsRing(c, BufferLen(q)) /\ Whole(Stored(c))
        /\ port[q].NB_MESSAGE = Len(Messages(c))
    BY <2>1, <2>2, RingOfPort
  <2>4. Takes(q, port[q], m)
    BY <1>1, <2>3 DEF Takes, HasRoom, Waiting
  <2>5. m \in Seq(Bytes) /\ Len(m) \in Nat /\ HeaderSize \in Nat
    BY TableFacts, ByteAssumption, LenProperties DEF Sendable
  <2>6. Needed[Waiting(q)] = Used(c)
    <3>1. Stored(c) \in Seq(Bytes) /\ Len(Stored(c)) = Used(c)
      BY <2>3, StoredFacts
    <3> QED BY <2>3, <3>1, NeededIsStored DEF Waiting, Messages
  <2>7. Len(Item(m)) <= Free(c)
    <3>1. Len(Item(m)) = HeaderSize + Len(m)
      BY <2>5, ItemType
    <3>2. /\ BufferLen(q) \in Nat /\ Free(c) = BufferLen(q) - 1 - Used(c)
          /\ Used(c) \in 0..(BufferLen(q) - 1)
      BY <2>3, RingFacts
    <3>3. Used(c) + HeaderSize + Len(m) < BufferLen(q)
      BY <1>1, <2>6 DEF HasRoom
    <3> HIDE DEF c
    <3> QED BY <2>5, <3>1, <3>2, <3>3
  <2>8. push_item(c, m).ret = 0
    <3> HIDE DEF c
    <3> QED BY <2>3, <2>5, <2>7, PushItem
  <2> QED BY <1>1, <2>1, <2>4, <2>8, Arrives DEF Fits
<1>2. IInv => [TakesAll(HasRoom)]_vars
  BY <1>1 DEF TakesAll
<1> QED BY <1>2, QueuingInvariance, PTL DEF TakesWhatFits

=============================================================================
