----------------------- MODULE SamplingPorts_proofs -----------------------
(***************************************************************************)
(* Proofs about SamplingPorts: for all tables of ports and channels, all   *)
(* sizes and messages, a port keeps inside its buffer and is a register    *)
(* of whole messages.                                                      *)
(***************************************************************************)
EXTENDS SamplingPorts, Integers, SequenceTheorems, FiniteSetTheorems, WellFoundedInduction, TLAPS

(* A nonempty set of naturals has the minimum Min chooses. *)
LEMMA MinOfNaturals ==
  ASSUME NEW S \in SUBSET Nat, S # {}
  PROVE  Min(S) \in S /\ \A y \in S : Min(S) <= y
<1> DEFINE I == {1..n : n \in S}
           R == StrictSubsetOrdering(Nat)
<1>1. I \subseteq FiniteSubsetsOf(Nat) /\ I # {}
  <2>1. \A n \in S : IsFiniteSet(1..n) /\ 1..n \subseteq Nat
    BY FS_Interval
  <2> QED BY <2>1 DEF FiniteSubsetsOf
<1>2. PICK X \in I : \A Y \in I : ~(<<Y, X>> \in R)
  <2> HIDE DEF I, R
  <2>1. IsWellFoundedOn(R, FiniteSubsetsOf(Nat))
    BY FS_StrictSubsetOrderingWellFounded DEF R
  <2> QED BY <1>1, <2>1, WFMin
<1>3. PICK x \in S : X = 1..x
  OBVIOUS
<1>4. ASSUME NEW y \in S, ~(x <= y) PROVE FALSE
  <2>1. 1..y \subseteq 1..x /\ 1..y # 1..x
    <3>1. x \in 1..x /\ x \notin 1..y
      BY <1>4
    <3> QED BY <1>4, <3>1
  <2>2. 1..y \in SUBSET Nat /\ 1..x \in SUBSET Nat
    OBVIOUS
  <2>3. <<1..y, 1..x>> \in R
    BY <2>1, <2>2 DEF StrictSubsetOrdering
  <2> QED BY <1>2, <1>3, <2>3
<1> QED BY <1>3, <1>4 DEF Min

-----------------------------------------------------------------------------
(* What is known of the tables. *)
LEMMA TableFacts ==
  /\ \A p \in DOMAIN partitions :
       DOMAIN partitions[p] = 1..Len(partitions[p]) /\ Len(partitions[p]) \in Nat
  /\ \A p \in DOMAIN partitions : \A n \in DOMAIN partitions[p] : <<p, n>> \in Ports
  /\ \A q \in Sampling : Size(q) \in Nat \ {0}
<1>1. ASSUME NEW p \in DOMAIN partitions
      PROVE  DOMAIN partitions[p] = 1..Len(partitions[p]) /\ Len(partitions[p]) \in Nat
  <2> DEFINE S == Range(partitions[p])
  <2>1. partitions[p] \in Seq(S)
    BY PortsAssumption DEF PortsAssumption
  <2> HIDE DEF S
  <2> QED BY <2>1, LenProperties
<1>2. ASSUME NEW p \in DOMAIN partitions, NEW n \in DOMAIN partitions[p]
      PROVE  <<p, n>> \in Ports
  BY <1>1 DEF Ports
<1>3. \A q \in Sampling : Size(q) \in Nat \ {0}
  BY PortsAssumption DEF PortsAssumption, Sampling, Size
<1> QED BY <1>1, <1>2, <1>3

(* The ids a process passes name sampling ports, or none. *)
LEMMA IdFacts ==
  ASSUME NEW p \in DOMAIN partitions, NEW n \in Ids(p)
  PROVE  n > Len(partitions[p]) \/ <<p, n>> \in Sampling
BY TableFacts DEF Ids

(* The port that is found is one of the partition's sampling ports. *)
LEMMA FoundIsSampling ==
  ASSUME NEW p \in DOMAIN partitions, NEW asked, Matching(p, asked) # {}
  PROVE  <<p, Min(Matching(p, asked))>> \in Sampling
<1> DEFINE M == Matching(p, asked)
<1>1. M \in SUBSET Nat /\ M # {}
  <2>1. M \subseteq DOMAIN partitions[p]
    BY DEF Matching
  <2>2. DOMAIN partitions[p] \subseteq Nat
    BY TableFacts
  <2> HIDE DEF M
  <2>3. M \in SUBSET Nat
    BY <2>1, <2>2
  <2> QED BY <2>3 DEF M
<1>2. Min(M) \in M
  <2> HIDE DEF M
  <2> QED BY <1>1, MinOfNaturals
<1> QED BY <1>2 DEF Matching

(* A port of its type holds a message of the length its size now is. *)
LEMMA ValueIsMessage ==
  ASSUME TypeOK, NEW q \in Sampling
  PROVE  /\ Value(q) \in Seq(Byte)
         /\ Len(Value(q)) = port[q].MAX_MESSAGE_SIZE
<1>1. /\ port[q].MAX_MESSAGE_SIZE \in 0..Size(q)
      /\ port[q].buffer \in [1..Size(q) -> Byte]
      /\ Size(q) \in Nat
  BY TableFacts DEF TypeOK
<1> DEFINE k == port[q].MAX_MESSAGE_SIZE
           b == port[q].buffer
<1>2. [i \in 1..k |-> b[i]] \in Seq(Byte) /\ Len([i \in 1..k |-> b[i]]) = k
  <2>1. k \in 0..Size(q) /\ b \in [1..Size(q) -> Byte]
    BY <1>1
  <2> HIDE DEF k, b
  <2>2. \A i \in 1..k : b[i] \in Byte
    BY <1>1, <2>1
  <2> QED BY <1>1, <2>1, <2>2
<1> QED BY <1>2 DEF Value

(* A port of its type. *)
PortType(q) == [activated : BOOLEAN, MAX_MESSAGE_SIZE : 0..Size(q),
                buffer : [1..Size(q) -> Byte]]

(* A port that takes a message holds that message. *)
LEMMA FilledHolds ==
  ASSUME TypeOK, NEW q \in Sampling, NEW m \in Message, Takes(q, m),
         port'[q] = Filled(q, m)
  PROVE  /\ port'[q] \in PortType(q)
         /\ Value(q)' = m
         /\ Len(m) <= Len(Value(q))
<1> DEFINE k == port[q].MAX_MESSAGE_SIZE
           b == port[q].buffer
           c == [i \in DOMAIN b |-> IF i <= Len(m) THEN m[i] ELSE b[i]]
<1>1. /\ port[q] \in PortType(q)
      /\ k \in 0..Size(q) /\ b \in [1..Size(q) -> Byte] /\ Size(q) \in Nat
  BY TableFacts DEF TypeOK, PortType
<1>2. m \in Seq(Byte) /\ Len(m) \in Nat /\ DOMAIN m = 1..Len(m)
      /\ \A i \in 1..Len(m) : m[i] \in Byte
  BY MessageAssumption
<1>3. Len(m) <= k
  BY DEF Takes
<1>4. Len(m) \in 0..Size(q)
  <2> HIDE DEF k
  <2> QED BY <1>1, <1>2, <1>3
<1>5. port'[q] = [port[q] EXCEPT !.MAX_MESSAGE_SIZE = Len(m), !.buffer = c]
  BY DEF Filled
<1>6. c \in [1..Size(q) -> Byte] /\ \A i \in 1..Len(m) : c[i] = m[i]
  <2> DEFINE e(i) == IF i <= Len(m) THEN m[i] ELSE b[i]
  <2>1. c = [i \in 1..Size(q) |-> e(i)]
    BY <1>1
  <2>2. \A i \in 1..Size(q) : e(i) \in Byte
    <3> HIDE DEF b
    <3> QED BY <1>1, <1>2
  <2>3. \A i \in 1..Len(m) : e(i) = m[i] /\ i \in 1..Size(q)
    BY <1>1, <1>2, <1>4
  <2> HIDE DEF b, c, e
  <2> QED BY <2>1, <2>2, <2>3
<1>7. /\ port'[q] \in PortType(q)
      /\ port'[q].MAX_MESSAGE_SIZE = Len(m) /\ port'[q].buffer = c
  <2> HIDE DEF c
  <2> QED BY <1>1, <1>4, <1>5, <1>6 DEF PortType
<1>8. Value(q)' = m
  <2>1. Value(q)' = [i \in 1..Len(m) |-> c[i]]
    <3> HIDE DEF c
    <3> QED BY <1>7 DEF Value
  <2>2. [i \in 1..Len(m) |-> c[i]] = [i \in 1..Len(m) |-> m[i]]
    <3> HIDE DEF c
    <3> QED BY <1>6
  <2>3. m = [i \in 1..Len(m) |-> m[i]]
    BY <1>2
  <2> QED BY <2>1, <2>2, <2>3
<1> QED BY <1>3, <1>7, <1>8, ValueIsMessage

-----------------------------------------------------------------------------
(* Every call keeps the types, and is a step of every port's register or   *)
(* leaves it alone.                                                        *)
RegisterSteps ==
    \A q \in Sampling : UNCHANGED Register(q)!register \/ Register(q)!Next

LEMMA CreateKeeps ==
  ASSUME TypeOK, NEW p \in DOMAIN partitions, NEW asked,
         create_sampling_port(p, asked)
  PROVE  TypeOK' /\ RegisterSteps
<1>1. ASSUME NEW q \in Sampling
      PROVE  /\ port'[q] \in PortType(q)
             /\ port'[q].MAX_MESSAGE_SIZE = port[q].MAX_MESSAGE_SIZE
             /\ port'[q].buffer = port[q].buffer
  <2>1. port[q] \in PortType(q) /\ q \in DOMAIN port
    BY DEF TypeOK, PortType
  <2>2. port'[q] = port[q] \/ port'[q] = [port[q] EXCEPT !.activated = TRUE]
    BY <2>1 DEF create_sampling_port
  <2> QED BY <2>1, <2>2 DEF PortType
<1>2. /\ DOMAIN port' = Sampling /\ got' = got /\ undefined' = undefined
      /\ RETURN_CODE' \in {"NO_ERROR", "NO_ACTION", "INVALID_PARAM"}
  BY DEF TypeOK, create_sampling_port
<1>3. TypeOK'
  BY <1>1, <1>2 DEF TypeOK, PortType
<1>4. RegisterSteps
  <2> SUFFICES ASSUME NEW q \in Sampling PROVE UNCHANGED Register(q)!register
    BY DEF RegisterSteps
  <2>1. Value(q)' = Value(q)
    BY <1>1 DEF Value
  <2> QED BY <1>2, <2>1 DEF Register!register
<1> QED BY <1>3, <1>4

LEMMA WriteKeeps ==
  ASSUME TypeOK, NEW p \in DOMAIN partitions, NEW n \in Ids(p),
         NEW m \in Message, write_sampling_message(p, n, m)
  PROVE  TypeOK' /\ RegisterSteps
<1> DEFINE chan == channel_link(<<p, n>>)
           Taken(q) == Contains(port_list(chan), q) /\ Takes(q, m)
<1>1. \/ port' = port
      \/ port' = [q \in Sampling |-> IF Taken(q) THEN Filled(q, m) ELSE port[q]]
  BY DEF write_sampling_message
<1>2. /\ got' = got /\ undefined' \in BOOLEAN
      /\ RETURN_CODE' \in {"NO_ERROR", "NO_ACTION", "INVALID_PARAM"}
  BY DEF TypeOK, write_sampling_message
<1>3. ASSUME NEW q \in Sampling
      PROVE  \/ port'[q] = port[q]
             \/ Takes(q, m) /\ port'[q] = Filled(q, m)
  <2> HIDE DEF chan
  <2> QED BY <1>1
<1>4. DOMAIN port' = Sampling
  <2> HIDE DEF Taken
  <2> QED BY <1>1 DEF TypeOK
<1>5. ASSUME NEW q \in Sampling
      PROVE  /\ port'[q] \in PortType(q)
             /\ UNCHANGED Register(q)!register \/ Register(q)!Next
  <2>1. CASE port'[q] = port[q]
    <3>1. Value(q)' = Value(q) /\ port'[q] \in PortType(q)
      BY <2>1 DEF Value, TypeOK, PortType
    <3> QED BY <1>2, <3>1 DEF Register!register
  <2>2. CASE Takes(q, m) /\ port'[q] = Filled(q, m)
    <3>1. /\ port'[q] \in PortType(q)
          /\ Value(q)' = m /\ Len(m) <= Len(Value(q))
      BY <2>2, FilledHolds
    <3>2. Register(q)!Write(m)
      BY <1>2, <3>1 DEF Register!Write
    <3> QED BY <3>1, <3>2 DEF Register!Next
  <2> QED BY <1>3, <2>1, <2>2
<1>6. TypeOK'
  BY <1>2, <1>4, <1>5 DEF TypeOK, PortType
<1> QED BY <1>5, <1>6 DEF RegisterSteps

LEMMA ReadKeeps ==
  ASSUME TypeOK, NEW p \in DOMAIN partitions, NEW n \in Ids(p),
         read_sampling_message(p, n)
  PROVE  TypeOK' /\ RegisterSteps
<1>1. /\ port' = port /\ undefined' = undefined
      /\ RETURN_CODE' \in {"NO_ERROR", "NO_ACTION", "INVALID_PARAM"}
      /\ \A q \in Sampling : Value(q)' = Value(q)
  BY DEF read_sampling_message, Value
<1>2. CASE n > Len(partitions[p])
  <2>1. got' = got
    BY <1>2 DEF read_sampling_message
  <2>2. TypeOK'
    BY <1>1, <2>1 DEF TypeOK
  <2> QED BY <1>1, <2>1, <2>2 DEF RegisterSteps, Register!register
<1>3. CASE ~(n > Len(partitions[p]))
  <2> DEFINE r == <<p, n>>
  <2>1. r \in Sampling
    BY <1>3, IdFacts
  <2>2. got' = [got EXCEPT ![r] = Value(r)] /\ got \in [Sampling -> Seq(Byte)]
    BY <1>3 DEF read_sampling_message, TypeOK
  <2>3. Value(r) \in Seq(Byte)
    BY <2>1, ValueIsMessage
  <2> HIDE DEF r
  <2>4. TypeOK'
    <3>1. got' \in [Sampling -> Seq(Byte)]
      BY <2>1, <2>2, <2>3
    <3> QED BY <1>1, <3>1 DEF TypeOK
  <2>5. ASSUME NEW q \in Sampling
        PROVE  UNCHANGED Register(q)!register \/ Register(q)!Next
    <3>1. CASE q = r
      <4>1. got'[q] = Value(q)
        BY <2>2, <3>1
      <4> QED BY <1>1, <4>1 DEF Register!Next, Register!Read
    <3>2. CASE q # r
      <4>1. got'[q] = got[q]
        BY <2>2, <3>2
      <4> QED BY <1>1, <4>1 DEF Register!register
    <3> QED BY <3>1, <3>2
  <2> QED BY <2>4, <2>5 DEF RegisterSteps
<1> QED BY <1>2, <1>3

LEMMA SamplingStarts ==
  ASSUME Init
  PROVE  /\ TypeOK
         /\ \A q \in Sampling : Register(q)!Init(Size(q))
<1>1. ASSUME NEW q \in Sampling
      PROVE  /\ port[q] \in PortType(q)
             /\ Value(q) = [i \in 1..Size(q) |-> 0]
             /\ got[q] = <<>>
  <2> DEFINE z == [i \in 1..Size(q) |-> 0]
  <2>1. Size(q) \in Nat \ {0} /\ 0 \in Byte
    BY TableFacts, MessageAssumption
  <2>2. port[q] = [activated |-> FALSE, MAX_MESSAGE_SIZE |-> Size(q), buffer |-> z]
    BY DEF Init
  <2>3. z \in [1..Size(q) -> Byte] /\ \A i \in 1..Size(q) : z[i] = 0
    BY <2>1
  <2> HIDE DEF z
  <2>4. port[q] \in PortType(q)
    BY <2>1, <2>2, <2>3 DEF PortType
  <2>5. Value(q) = [i \in 1..Size(q) |-> z[i]]
    BY <2>2 DEF Value
  <2>6. got[q] = <<>>
    BY DEF Init
  <2> QED BY <2>3, <2>4, <2>5, <2>6
<1>2. got \in [Sampling -> Seq(Byte)]
  <2>1. <<>> \in Seq(Byte)
    OBVIOUS
  <2> QED BY <2>1 DEF Init
<1>3. TypeOK
  <2>1. DOMAIN port = Sampling
    BY DEF Init
  <2>2. RETURN_CODE = "NO_ERROR" /\ undefined = FALSE
    BY DEF Init
  <2> QED BY <1>1, <1>2, <2>1, <2>2 DEF TypeOK, PortType
<1> QED BY <1>1, <1>3 DEF Register!Init

LEMMA SamplingSteps ==
  ASSUME TypeOK, [Next]_vars
  PROVE  TypeOK' /\ (Next => RegisterSteps)
<1>1. CASE UNCHANGED vars
  <2>1. UNCHANGED <<port, got, RETURN_CODE, undefined>>
    BY <1>1 DEF vars
  <2>2. TypeOK'
    BY <2>1 DEF TypeOK
  <2>3. \A q \in Sampling : Value(q)' = Value(q)
    BY <2>1 DEF Value
  <2> QED BY <2>1, <2>2, <2>3 DEF RegisterSteps, Register!register
<1>2. CASE Next
  <2> PICK p \in DOMAIN partitions :
        \/ \E asked \in Range(partitions[p]) : create_sampling_port(p, asked)
        \/ \E n \in Ids(p) : \/ \E m \in Message : write_sampling_message(p, n, m)
                             \/ read_sampling_message(p, n)
    BY <1>2 DEF Next
  <2> QED BY CreateKeeps, WriteKeeps, ReadKeeps
<1> QED BY <1>1, <1>2

-----------------------------------------------------------------------------

(* For all tables, sizes and messages: every variable keeps its type; in   *)
(* particular no port's size passes its buffer (sampling_port.c:93, 127).  *)
THEOREM SamplingTypeTheorem == Spec => []TypeOK
<1>1. Init => TypeOK
  BY SamplingStarts
<1>2. TypeOK /\ [Next]_vars => TypeOK'
  BY SamplingSteps
<1> QED BY <1>1, <1>2, PTL DEF Spec

(* ... and every port implements the register of MessageRegister.          *)
THEOREM ImplementsRegisterTheorem == Spec => ImplementsRegister
<1>1. Init => \A q \in Sampling : Register(q)!Init(Size(q))
  BY SamplingStarts
<1>2. TypeOK /\ [Next]_vars =>
        [\A q \in Sampling : UNCHANGED Register(q)!register
                               \/ Register(q)!Next]_vars
  BY SamplingSteps DEF RegisterSteps
<1> QED BY <1>1, <1>2, SamplingTypeTheorem, PTL DEF Spec, ImplementsRegister

-----------------------------------------------------------------------------
(* What a write does that follows a link, and what the sender is told. *)
LEMMA WriteFacts ==
  ASSUME NEW s \in Senders \cap Sampling, NEW m \in Message,
         write_sampling_message(s[1], s[2], m), ~undefined'
  PROVE  /\ RETURN_CODE' = "NO_ERROR" <=> Takers(channel_link(s), m) # {}
         /\ \A q \in Sampling :
              IF Contains(port_list(channel_link(s)), q) /\ Takes(q, m)
                THEN port'[q] = Filled(q, m) ELSE port'[q] = port[q]
<1> DEFINE chan == channel_link(s)
<1>1. /\ s = <<s[1], s[2]>> /\ s[1] \in DOMAIN partitions
      /\ s[2] \in DOMAIN partitions[s[1]] /\ ~(s[2] > Len(partitions[s[1]]))
  BY TableFacts DEF Senders, Ports
<1>2. chan # NULL
  BY <1>1 DEF write_sampling_message
<1>3. /\ port' = [q \in Sampling |-> IF Contains(port_list(chan), q) /\ Takes(q, m)
                                      THEN Filled(q, m) ELSE port[q]]
      /\ RETURN_CODE' = IF Takers(chan, m) # {} THEN "NO_ERROR" ELSE "NO_ACTION"
  BY <1>1, <1>2 DEF write_sampling_message
<1> HIDE DEF chan
<1>4. RETURN_CODE' = "NO_ERROR" <=> Takers(chan, m) # {}
  BY <1>3
<1>5. \A q \in Sampling :
        IF Contains(port_list(chan), q) /\ Takes(q, m)
          THEN port'[q] = Filled(q, m) ELSE port'[q] = port[q]
  BY <1>3
<1> QED BY <1>4, <1>5 DEF chan

(* ... and a sender is told NO_ERROR if and only if a destination of its   *)
(* channel, created and large enough, now holds its message                *)
(* (sampling_port.c:71-105).                                               *)
THEOREM ReportsDeliveryTheorem == Spec => ReportsDelivery
<1>1. ASSUME TypeOK, NEW s \in Senders \cap Sampling, NEW m \in Message,
             write_sampling_message(s[1], s[2], m), ~undefined'
      PROVE  RETURN_CODE' = "NO_ERROR" <=>
               \E q \in Sampling : /\ Contains(port_list(channel_link(s)), q)
                                   /\ port[q].activated
                                   /\ Config(q).PORT_DIRECTION = "DESTINATION"
                                   /\ Len(m) <= Len(Value(q))
                                   /\ Value(q)' = m
  <2> DEFINE chan == channel_link(s)
  <2>1. RETURN_CODE' = "NO_ERROR" <=> Takers(chan, m) # {}
    BY <1>1, WriteFacts
  <2>2. ASSUME NEW q \in Sampling, Contains(port_list(chan), q), Takes(q, m)
        PROVE  Value(q)' = m
    <3>1. port'[q] = Filled(q, m)
      BY <1>1, <2>2, WriteFacts
    <3> QED BY <1>1, <2>2, <3>1, FilledHolds
  <2>3. ASSUME NEW q \in Sampling
        PROVE  Takes(q, m) <=> /\ port[q].activated
                               /\ Config(q).PORT_DIRECTION = "DESTINATION"
                               /\ Len(m) <= Len(Value(q))
    BY <1>1, ValueIsMessage DEF Takes
  <2> HIDE DEF chan
  <2>4. Takers(chan, m) # {} <=>
          \E q \in Sampling : Contains(port_list(chan), q) /\ Takes(q, m)
    BY DEF Takers
  <2> QED BY <2>1, <2>2, <2>3, <2>4 DEF chan
<1>2. TypeOK => [\A s \in Senders \cap Sampling, m \in Message :
                   write_sampling_message(s[1], s[2], m) /\ ~undefined' =>
                     (RETURN_CODE' = "NO_ERROR" <=>
                        \E q \in Sampling :
                           /\ Contains(port_list(channel_link(s)), q)
                           /\ port[q].activated
                           /\ Config(q).PORT_DIRECTION = "DESTINATION"
                           /\ Len(m) <= Len(Value(q))
                           /\ Value(q)' = m)]_vars
  BY <1>1
<1> QED BY <1>2, SamplingTypeTheorem, PTL DEF ReportsDelivery

(* No two ports of a partition have the same name. *)
NamesDiffer ==
    \A p \in DOMAIN partitions : \A i, k \in DOMAIN partitions[p] :
      partitions[p][i].portname = partitions[p][k].portname => i = k

(* If the names of a partition's ports differ, a port is found by its      *)
(* attributes until a shorter message has come, and no longer              *)
(* (sampling_port.c:39, 92).                                               *)
THEOREM FoundUntilShrunkTheorem ==
  ASSUME NamesDiffer
  PROVE  Spec => FoundUntilShrunk
<1>1. ASSUME TypeOK, NEW q \in Sampling, create_sampling_port(q[1], Config(q))
      PROVE  RETURN_CODE' = "NO_ERROR" <=> Len(Value(q)) = Size(q)
  <2>1. /\ q = <<q[1], q[2]>> /\ q[1] \in DOMAIN partitions
        /\ q[2] \in DOMAIN partitions[q[1]]
    BY TableFacts DEF Sampling, Ports
  <2>2. Len(Value(q)) = port[q].MAX_MESSAGE_SIZE
    BY <1>1, ValueIsMessage
  <2>3. RETURN_CODE' = "NO_ERROR" <=> Matching(q[1], Config(q)) # {}
    BY <1>1 DEF create_sampling_port
  <2>4. port[q].MAX_MESSAGE_SIZE = Size(q) => q[2] \in Matching(q[1], Config(q))
    BY <2>1 DEF Matching, Config, Size
  <2>5. ASSUME NEW n \in Matching(q[1], Config(q))
        PROVE  port[q].MAX_MESSAGE_SIZE = Size(q)
    <3>1. /\ n \in DOMAIN partitions[q[1]]
          /\ partitions[q[1]][n].portname = Config(q).portname
          /\ port[<<q[1], n>>].MAX_MESSAGE_SIZE = Config(q).MAX_MESSAGE_SIZE
      BY DEF Matching
    <3>2. n = q[2]
      BY <2>1, <3>1 DEF NamesDiffer, Config
    <3> QED BY <2>1, <3>1, <3>2 DEF Size
  <2> QED BY <2>2, <2>3, <2>4, <2>5
<1>2. TypeOK => [\A q \in Sampling :
                   create_sampling_port(q[1], Config(q)) =>
                     (RETURN_CODE' = "NO_ERROR" <=> Len(Value(q)) = Size(q))]_vars
  BY <1>1
<1> QED BY <1>2, SamplingTypeTheorem, PTL DEF FoundUntilShrunk
=============================================================================
