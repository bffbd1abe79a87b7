---------------------- MODULE TalkspurtEvaluationProofs ----------------------
(***************************************************************************)
(* What the loop of evaluateTalkspurt computes, for every sequence of      *)
(* packets, playout delay and buffer: the losses add up to the expected    *)
(* packets that were not played, a timely packet is played unless the      *)
(* buffer was full, and the lateness found is that of the latest packet.   *)
(*                                                                         *)
(* The library's induction theorems take an operator; here induction is    *)
(* over sets of numbers (NaturalInduction).  With it the fold is shown to  *)
(* be a loop (EvaluationIsLoop), and the loop to have an invariant.        *)
(***************************************************************************)
EXTENDS TalkspurtEvaluation, FiniteSetTheorems, WellFoundedInduction, TLAPS

\* Induction, over a set of numbers.
LEMMA NaturalInduction ==
  ASSUME NEW X \in SUBSET Nat, 0 \in X, \A n \in X : n + 1 \in X
  PROVE  \A n \in Nat : n \in X
<1> SUFFICES ASSUME Nat \ X # {} PROVE FALSE
  OBVIOUS
<1>1. PICK m \in Nat \ X : \A y \in Nat \ X : ~(<<y, m>> \in OpToRel(<, Nat))
  <2>1. Nat \ X \subseteq Nat
    OBVIOUS
  <2> QED BY <2>1, WFMin, NatLessThanWellFounded
<1>2. m \in Nat /\ m # 0 /\ m \notin X
  BY <1>1
<1>3. m - 1 \in Nat /\ m - 1 < m /\ m = (m - 1) + 1
  BY <1>2
<1>4. m - 1 \in X
  BY <1>1, <1>3 DEF OpToRel
<1> QED BY <1>2, <1>3, <1>4

\* f is the recursive function that the fold is defined by.
Folds(f, pks, delay, start, S) ==
    f = [s \in SUBSET S |->
           IF s = {} THEN start
           ELSE LET x == Max(s) IN Place(pks, delay, f[s \ {x}], pks[x])]

\* The variables before the loop.
LoopStart(pks, numPackets, delay, finish) ==
    [channelLoss |-> UInt(ExpectedPackets(pks, numPackets, finish) - Len(pks)),
     playoutLoss |-> 0, tailDropLoss |-> 0,
     maxLateness |-> -delay, arrived |-> {}, queue |-> {}]

\* The fold takes the packets off from the last one.
LEMMA MaxOfInitial ==
  ASSUME NEW n \in Nat \ {0}, NEW s \in SUBSET (1 .. n), n \in s
  PROVE  Max(s) = n
<1>1. \A y \in s : n >= y
  OBVIOUS
<1>2. \A x \in s : (\A y \in s : x >= y) => x = n
  BY SMT
<1> QED BY <1>1, <1>2 DEF Max

\* The function the fold is defined by exists, for every number of packets.
LEMMA FoldExists ==
  ASSUME NEW pks, NEW delay, NEW start
  PROVE  \A n \in Nat : \E f : Folds(f, pks, delay, start, 1 .. n)
<1> DEFINE X == {n \in Nat : \E f : Folds(f, pks, delay, start, 1 .. n)}
<1>1. 0 \in X
  <2> DEFINE f == [s \in SUBSET (1 .. 0) |-> start]
  <2>1. \A s \in SUBSET (1 .. 0) : s = {}
    BY SMT
  <2>2. Folds(f, pks, delay, start, 1 .. 0)
    BY <2>1 DEF Folds
  <2> QED BY <2>2
<1>2. ASSUME NEW n \in X PROVE n + 1 \in X
  <2> DEFINE m == n + 1
  <2>1. n \in Nat /\ m \in Nat \ {0} /\ n = m - 1
    OBVIOUS
  <2>2. PICK g : Folds(g, pks, delay, start, 1 .. n)
    OBVIOUS
  <2> HIDE DEF m
  <2> DEFINE f == [s \in SUBSET (1 .. m) |->
                     IF m \in s THEN Place(pks, delay, g[s \ {m}], pks[m]) ELSE g[s]]
  <2>3. \A s \in SUBSET (1 .. m) : s \ {m} \in SUBSET (1 .. n) /\ (m \notin s => s \in SUBSET (1 .. n))
    <3>1. \A i \in 1 .. m : i # m => i \in 1 .. n
      BY <2>1
    <3> QED BY <3>1
  <2>4. ASSUME NEW s \in SUBSET (1 .. m)
        PROVE  f[s] = IF s = {} THEN start
                      ELSE LET x == Max(s) IN Place(pks, delay, f[s \ {x}], pks[x])
    <3>1. CASE m \in s
      <4>1. Max(s) = m
        BY <2>1, <3>1, MaxOfInitial
      <4>2. m \notin s \ {m} /\ s \ {m} \in SUBSET (1 .. m)
        OBVIOUS
      <4>3. f[s \ {m}] = g[s \ {m}]
        BY <4>2
      <4> QED BY <3>1, <4>1, <4>3
    <3>2. CASE m \notin s
      <4>1. s \in SUBSET (1 .. n) /\ f[s] = g[s]
        BY <2>3, <3>2
      <4>2. g[s] = IF s = {} THEN start
                   ELSE LET x == Max(s) IN Place(pks, delay, g[s \ {x}], pks[x])
        BY <2>2, <4>1 DEF Folds
      <4>3. \A x : f[s \ {x}] = g[s \ {x}]
        <5> TAKE x
        <5>1. s \ {x} \in SUBSET (1 .. m) /\ m \notin s \ {x}
          BY <3>2
        <5> QED BY <5>1
      <4> HIDE DEF f
      <4> QED BY <4>1, <4>2, <4>3
    <3> QED BY <3>1, <3>2
  <2>5. Folds(f, pks, delay, start, 1 .. m)
    <3>1. f = [s \in SUBSET (1 .. m) |-> f[s]]
      OBVIOUS
    <3> HIDE DEF f
    <3> QED BY <2>4, <3>1 DEF Folds
  <2> QED BY <2>1, <2>5 DEF m
<1> HIDE DEF X
<1>3. X \in SUBSET Nat
  BY DEF X
<1>4. \A n \in Nat : n \in X
  BY <1>1, <1>2, <1>3, NaturalInduction
<1> QED BY <1>4 DEF X

\* What the evaluation takes from the state after the loop.
Summary(start, end) ==
    [emittedLoss |-> start.channelLoss, channelLoss |-> end.channelLoss,
     playoutLoss |-> end.playoutLoss, tailDropLoss |-> end.tailDropLoss,
     maxLateness |-> end.maxLateness, played |-> end.arrived]

\* The loop as a sequence of steps
Loop(acc, pks, delay, start) ==
    /\ acc[0] = start
    /\ \A k \in 1 .. Len(pks) : acc[k] = Place(pks, delay, acc[k - 1], pks[k])

\* The evaluation is the loop of the code, packet after packet.
LEMMA EvaluationIsLoop ==
  ASSUME NEW X, NEW pks \in Seq(X), NEW n, NEW delay, NEW finish
  PROVE  \E acc :
            /\ Loop(acc, pks, delay, LoopStart(pks, n, delay, finish))
            /\ Evaluation(pks, n, delay, finish)
                  = Summary(LoopStart(pks, n, delay, finish), acc[Len(pks)])
<1> DEFINE start == LoopStart(pks, n, delay, finish)
           iter == CHOOSE f : Folds(f, pks, delay, start, DOMAIN pks)
           stop == iter[DOMAIN pks]
           l == Len(pks)
           acc == [k \in 0 .. l |-> iter[1 .. k]]
<1>1. Evaluation(pks, n, delay, finish) = Summary(start, stop)
  BY DEF Evaluation, LoopStart, Folds, FoldLeft, MapThenFoldSet, Summary
<1>2. DOMAIN pks = 1 .. l /\ l \in Nat
   OBVIOUS
<1> HIDE DEF start, l
<1>3. Folds(iter, pks, delay, start, 1 .. l)
   BY <1>2, FoldExists
<1> HIDE DEF iter
<1>4. acc[0] = start
  <2>1. 0 \in 0 .. l /\ 1 .. 0 = {}
    BY <1>2
  <2> QED BY <1>3, <2>1 DEF Folds
<1>5. ASSUME NEW k \in 1 .. l PROVE acc[k] = Place(pks, delay, acc[k - 1], pks[k])
  <2>1. k \in Nat \ {0} /\ k \in 0 .. l /\ k - 1 \in 0 .. l /\ k \in 1 .. k
    BY <1>2
  <2>2. 1 .. k \in SUBSET (1 .. l) /\ 1 .. k # {}
    BY <1>2, <2>1
  <2>5. (1 .. k) \ {k} = 1 .. k - 1
    <3>1. \A i : i \in (1 .. k) \ {k} <=> i \in 1 .. k - 1
      BY <2>1
    <3> QED BY <3>1
  <2>3. Max(1 .. k) = k
    BY <2>1, MaxOfInitial
  <2>4. iter[1 .. k] = Place(pks, delay, iter[(1 .. k) \ {k}], pks[k])
    BY <1>3, <2>2, <2>3 DEF Folds
  <2> QED BY <2>1, <2>2, <2>4, <2>5
<1>6. acc[l] = stop
  BY <1>2
<1>7. Loop(acc, pks, delay, start)
  BY <1>4, <1>5 DEF Loop, l
<1> HIDE DEF acc, stop
<1> QED BY <1>1, <1>6, <1>7 DEF start, l

-----------------------------------------------------------------------------
\* Arithmetic of the unsigned fields.
LEMMA UIntRemainder ==
  ASSUME NEW a \in Int
  PROVE  UInt(a) \in 0 .. UIntSize - 1 /\ \E k \in Int : UInt(a) = a - k * UIntSize
<1>1. a % UIntSize \in 0 .. UIntSize - 1
  BY EvaluationAssumption, SMT
<1>2. \E k \in Int : a % UIntSize = a - k * UIntSize
  BY EvaluationAssumption, SMTT(30)
<1> QED BY <1>1, <1>2 DEF UInt

\* A remainder of UIntSize is the one of the division.
LEMMA UIntUnique ==
  ASSUME NEW a \in Int, NEW k \in Int, NEW r \in 0 .. UIntSize - 1, a = k * UIntSize + r
  PROVE  UInt(a) = r
<1>1. a % UIntSize = r
  BY EvaluationAssumption, SMTT(30)
<1> QED BY <1>1 DEF UInt

\* A wrapped summand does not change a wrapped sum.
LEMMA UIntSum ==
  ASSUME NEW a \in Int, NEW b \in Int
  PROVE  UInt(a + UInt(b)) = UInt(a + b)
<1> DEFINE c == a + b
           r == UInt(c)
<1>1. PICK k \in Int : UInt(b) = b - k * UIntSize
  BY UIntRemainder
<1>2. c \in Int
  OBVIOUS
<1> HIDE DEF c
<1>3. r \in 0 .. UIntSize - 1 /\ \E m \in Int : r = c - m * UIntSize
  BY <1>2, UIntRemainder
<1>4. PICK m \in Int : r = c - m * UIntSize
  BY <1>3
<1> HIDE DEF r
<1>5. m - k \in Int /\ (m - k) * UIntSize = m * UIntSize - k * UIntSize
      /\ m * UIntSize \in Int /\ k * UIntSize \in Int
  BY EvaluationAssumption, SMTT(30)
<1>6. r \in Int
  BY <1>3, EvaluationAssumption
<1>7. a + UInt(b) = (m - k) * UIntSize + r /\ a + UInt(b) \in Int
  <2> DEFINE x == m * UIntSize
             y == k * UIntSize
             z == (m - k) * UIntSize
  <2>1. x \in Int /\ y \in Int /\ z = x - y /\ r = c - x /\ UInt(b) = b - y
    BY <1>1, <1>4, <1>5
  <2> HIDE DEF x, y
  <2>2. a + UInt(b) = z + r /\ a + UInt(b) \in Int
    <3> HIDE DEF z
    <3> QED BY <1>6, <2>1 DEF c
  <2> QED BY <2>2
<1>8. UInt(a + UInt(b)) = r
  BY <1>3, <1>5, <1>7, UIntUnique
<1> QED BY <1>8 DEF r, c

\* Counting on keeps two counters equal.
LEMMA UIntOfNext ==
  ASSUME NEW a \in Int, NEW b \in Int, UInt(a) = UInt(b)
  PROVE  UInt(a + 1) = UInt(b + 1)
<1>1. a + 1 = 1 + a /\ b + 1 = 1 + b
  OBVIOUS
<1>2. UInt(1 + UInt(a)) = UInt(1 + a)
  BY UIntSum
<1>3. UInt(1 + UInt(b)) = UInt(1 + b)
  BY UIntSum
<1> QED BY <1>1, <1>2, <1>3

\* A number that fits is stored as it is.
LEMMA UIntSmall ==
  ASSUME NEW a \in 0 .. UIntSize - 1
  PROVE  UInt(a) = a
BY EvaluationAssumption, SMT DEF UInt

-----------------------------------------------------------------------------
\* What the receiver keeps of a packet.
PacketInfo(numPackets) ==
    [packetID : 0 .. numPackets - 1, creationTime : Int, arrivalTime : Nat]

\* The variables of the loop.
LoopState(numPackets) ==
    [channelLoss : Nat, playoutLoss : Nat, tailDropLoss : Nat, maxLateness : Int,
     arrived : SUBSET (0 .. numPackets - 1), queue : SUBSET (0 .. numPackets - 1)]

\* The three losses that go into the MOS.
Lost(a) == a.tailDropLoss + a.playoutLoss + a.channelLoss

\* How late a packet is for its playout; negative when it is early.
Lateness(pks, delay, p) == p.arrivalTime - PlayoutTime(pks, delay, p.packetID)

\* The larger of two numbers.
LEMMA LargerOfTwo ==
  ASSUME NEW a \in Int, NEW b \in Int
  PROVE  Max({a, b}) \in {a, b} /\ Max({a, b}) >= a /\ Max({a, b}) >= b
<1>1. \E x \in {a, b} : \A y \in {a, b} : x >= y
  BY SMT
<1>2. Max({a, b}) \in {a, b} /\ \A y \in {a, b} : Max({a, b}) >= y
  BY <1>1 DEF Max
<1> QED BY <1>2

\* The playout time of a packet is a time.
LEMMA PlayoutTimeType ==
  ASSUME NEW n \in Nat, NEW pks \in Seq(PacketInfo(n)), pks # <<>>,
         NEW delay \in Int, NEW id \in Int
  PROVE  PlayoutTime(pks, delay, id) \in Int
<1>1. pks[1] \in PacketInfo(n)
  OBVIOUS
<1>2. pks[1].arrivalTime \in Nat /\ pks[1].packetID \in Int
  BY <1>1 DEF PacketInfo
<1>3. (id - pks[1].packetID) * VoiceDuration \in Int
  <2>1. id - pks[1].packetID \in Int
    BY <1>2
  <2> QED BY <2>1, EvaluationAssumption
<1> QED BY <1>2, <1>3 DEF PlayoutTime

\* A record of the right fields is a state of the loop.
LEMMA StateOfFields ==
  ASSUME NEW n, NEW b,
         b = [channelLoss |-> b.channelLoss, playoutLoss |-> b.playoutLoss,
              tailDropLoss |-> b.tailDropLoss, maxLateness |-> b.maxLateness,
              arrived |-> b.arrived, queue |-> b.queue],
         b.channelLoss \in Nat, b.playoutLoss \in Nat, b.tailDropLoss \in Nat,
         b.maxLateness \in Int,
         b.arrived \in SUBSET (0 .. n - 1), b.queue \in SUBSET (0 .. n - 1)
  PROVE  b \in LoopState(n)
BY DEF LoopState

\* One packet of the loop: what it adds to what arrived or was lost, and why.
PlaceEffect(pks, n, delay, a, p, b) ==
    /\ b \in LoopState(n) /\ b.queue \subseteq b.arrived
    /\ b.maxLateness >= a.maxLateness /\ b.maxLateness >= Lateness(pks, delay, p)
    /\ \/ b.arrived = a.arrived /\ b.channelLoss = a.channelLoss /\ Lost(b) = Lost(a) + 1
       \/ /\ b.arrived = a.arrived /\ p.packetID \in a.arrived
          /\ b.channelLoss = UInt(a.channelLoss + 1)
          /\ b.tailDropLoss = a.tailDropLoss /\ b.playoutLoss = a.playoutLoss
       \/ /\ b.arrived = a.arrived \cup {p.packetID} /\ p.packetID \notin a.arrived
          /\ b.channelLoss = a.channelLoss /\ Lost(b) = Lost(a)
    /\ \/ Lateness(pks, delay, p) > 0
       \/ p.packetID \in b.arrived
       \/ Cardinality({i \in a.queue : PlayoutTime(pks, delay, i) >= p.arrivalTime}) >= BufferSpace

\* There are finitely many packet numbers.
LEMMA NumbersFinite ==
  ASSUME NEW n \in Nat
  PROVE  IsFiniteSet(0 .. n - 1)
BY FS_Interval

\* Each pass through the loop has such an effect.
LEMMA PlaceStep ==
  ASSUME NEW n \in Nat, NEW pks \in Seq(PacketInfo(n)), pks # <<>>, NEW delay \in Nat,
         NEW a \in LoopState(n), a.queue \subseteq a.arrived, NEW p \in PacketInfo(n),
         NEW b, b = Place(pks, delay, a, p)
  PROVE  PlaceEffect(pks, n, delay, a, p, b)
<1> USE DEF PlaceEffect
<1> DEFINE late == Lateness(pks, delay, p)
           seen == [a EXCEPT !.maxLateness = Max({@, late})]
           queue == {i \in a.queue : PlayoutTime(pks, delay, i) >= p.arrivalTime}
<1>1. p.packetID \in 0 .. n - 1 /\ p.packetID \in Int /\ p.arrivalTime \in Nat
  BY DEF PacketInfo
<1>2. late \in Int
  <2>1. PlayoutTime(pks, delay, p.packetID) \in Int
    BY <1>1, PlayoutTimeType
  <2> QED BY <1>1, <2>1 DEF Lateness
<1>3. /\ a.maxLateness \in Int /\ a.channelLoss \in Nat /\ a.playoutLoss \in Nat
      /\ a.tailDropLoss \in Nat
      /\ a.arrived \in SUBSET (0 .. n - 1) /\ a.queue \in SUBSET (0 .. n - 1)
  BY DEF LoopState
<1>4. b = IF p.packetID \in a.arrived THEN [seen EXCEPT !.channelLoss = UInt(@ + 1)]
          ELSE IF late > 0 THEN [seen EXCEPT !.playoutLoss = @ + 1]
          ELSE IF Cardinality(queue) < BufferSpace
               THEN [seen EXCEPT !.arrived = @ \cup {p.packetID}, !.queue = queue \cup {p.packetID}]
               ELSE [seen EXCEPT !.tailDropLoss = @ + 1, !.queue = queue]
  BY DEF Place, Buffer, Lateness, LoopState
<1> DEFINE m == Max({a.maxLateness, late})
<1>5. m \in Int /\ m >= a.maxLateness /\ m >= late
  BY <1>2, <1>3, LargerOfTwo
<1>6. /\ seen \in LoopState(n) /\ seen.maxLateness = m
      /\ seen.channelLoss = a.channelLoss /\ seen.playoutLoss = a.playoutLoss
      /\ seen.tailDropLoss = a.tailDropLoss /\ seen.arrived = a.arrived /\ seen.queue = a.queue
  <2> HIDE DEF late
  <2> QED BY <1>5 DEF LoopState
<1>7. queue \in SUBSET (0 .. n - 1) /\ queue \subseteq a.arrived
  BY <1>3
<1> HIDE DEF seen, m, late, queue
<1>8. CASE p.packetID \in a.arrived
  <2>1. b = [seen EXCEPT !.channelLoss = UInt(@ + 1)]
    BY <1>4, <1>8
  <2>2. UInt(a.channelLoss + 1) \in Nat
    <3>1. a.channelLoss + 1 \in Int
      BY <1>3
    <3>2. UInt(a.channelLoss + 1) \in 0 .. UIntSize - 1
      BY <3>1, UIntRemainder
    <3> QED BY <3>2, EvaluationAssumption
  <2>3. /\ b \in LoopState(n) /\ b.maxLateness = m /\ b.arrived = a.arrived /\ b.queue = a.queue
        /\ b.channelLoss = UInt(a.channelLoss + 1)
        /\ b.tailDropLoss = a.tailDropLoss /\ b.playoutLoss = a.playoutLoss
    BY <1>6, <2>1, <2>2 DEF LoopState
  <2> QED BY <1>5, <1>8, <2>3 DEF late
<1>9. CASE p.packetID \notin a.arrived /\ late > 0
  <2>1. b = [seen EXCEPT !.playoutLoss = @ + 1]
    BY <1>4, <1>9
  <2>2. /\ b \in LoopState(n) /\ b.maxLateness = m /\ b.arrived = a.arrived /\ b.queue = a.queue
        /\ b.channelLoss = a.channelLoss
        /\ b.tailDropLoss = a.tailDropLoss /\ b.playoutLoss = a.playoutLoss + 1
    BY <1>3, <1>6, <2>1 DEF LoopState
  <2> QED BY <1>3, <1>5, <1>9, <2>2 DEF late, Lost
<1>10. CASE p.packetID \notin a.arrived /\ ~(late > 0) /\ Cardinality(queue) < BufferSpace
  <2>1. b = [seen EXCEPT !.arrived = @ \cup {p.packetID}, !.queue = queue \cup {p.packetID}]
    BY <1>4, <1>10
  <2>2. /\ b.maxLateness = m
        /\ b.arrived = a.arrived \cup {p.packetID} /\ b.queue = queue \cup {p.packetID}
        /\ b.channelLoss = a.channelLoss
        /\ b.tailDropLoss = a.tailDropLoss /\ b.playoutLoss = a.playoutLoss
    BY <1>6, <2>1 DEF LoopState
  <2>3. b = [channelLoss |-> b.channelLoss, playoutLoss |-> b.playoutLoss,
             tailDropLoss |-> b.tailDropLoss, maxLateness |-> b.maxLateness,
             arrived |-> b.arrived, queue |-> b.queue]
    BY <1>6, <2>1 DEF LoopState
  <2>4. b.arrived \in SUBSET (0 .. n - 1) /\ b.queue \in SUBSET (0 .. n - 1)
    BY <1>1, <1>3, <1>7, <2>2
  <2>5. b \in LoopState(n)
    BY <1>3, <1>5, <2>2, <2>3, <2>4, StateOfFields
  <2> QED BY <1>3, <1>5, <1>7, <1>10, <2>2, <2>5 DEF late, Lost
<1>11. CASE p.packetID \notin a.arrived /\ ~(late > 0) /\ ~(Cardinality(queue) < BufferSpace)
  <2>1. b = [seen EXCEPT !.tailDropLoss = @ + 1, !.queue = queue]
    BY <1>4, <1>11
  <2>2. /\ b.maxLateness = m /\ b.arrived = a.arrived /\ b.queue = queue
        /\ b.channelLoss = a.channelLoss
        /\ b.tailDropLoss = a.tailDropLoss + 1 /\ b.playoutLoss = a.playoutLoss
    BY <1>6, <2>1 DEF LoopState
  <2>6. b = [channelLoss |-> b.channelLoss, playoutLoss |-> b.playoutLoss,
             tailDropLoss |-> b.tailDropLoss, maxLateness |-> b.maxLateness,
             arrived |-> b.arrived, queue |-> b.queue]
    BY <1>6, <2>1 DEF LoopState
  <2>7. b.arrived \in SUBSET (0 .. n - 1) /\ b.queue \in SUBSET (0 .. n - 1)
    BY <1>3, <1>7, <2>2
  <2>8. b \in LoopState(n)
    BY <1>3, <1>5, <2>2, <2>6, <2>7, StateOfFields
  <2>3. IsFiniteSet(queue)
    <3>1. IsFiniteSet(0 .. n - 1)
      BY NumbersFinite
    <3> QED BY <1>7, <3>1, FS_Subset
  <2>4. Cardinality(queue) \in Nat
    BY <2>3, FS_CardinalityType
  <2>5. Cardinality(queue) >= BufferSpace
    BY <1>11, <2>4, EvaluationAssumption
  <2>9. Lost(b) = Lost(a) + 1
    BY <1>3, <2>2 DEF Lost
  <2>10. b.maxLateness >= a.maxLateness /\ b.maxLateness >= late
    BY <1>5, <2>2
  <2> QED BY <1>7, <2>2, <2>5, <2>8, <2>9, <2>10 DEF late, queue
<1> QED BY <1>8, <1>9, <1>10, <1>11

-----------------------------------------------------------------------------
\* A set grows by one.
LEMMA CardinalityOfAdded ==
  ASSUME NEW S, IsFiniteSet(S), NEW x, x \notin S
  PROVE  Cardinality(S \cup {x}) = Cardinality(S) + 1 /\ IsFiniteSet(S \cup {x})
BY FS_AddElement

\* What holds of the loop after k packets.
LoopInvariant(acc, pks, n, delay, loss, k) ==
    LET a == acc[k]
    IN  /\ a \in LoopState(n)
        /\ a.queue \subseteq a.arrived
        /\ a.arrived \subseteq {pks[i].packetID : i \in 1 .. k}
        /\ UInt(Lost(a)) = UInt(loss + k - Cardinality(a.arrived))
        /\ \A i \in 1 .. k :
              /\ a.maxLateness >= Lateness(pks, delay, pks[i])
              /\ \/ Lateness(pks, delay, pks[i]) > 0
                 \/ pks[i].packetID \in a.arrived
                 \/ Cardinality({id \in {pks[j].packetID : j \in 1 .. i - 1} \cap a.arrived :
                                    PlayoutTime(pks, delay, id) >= pks[i].arrivalTime})
                       >= BufferSpace

\* It holds after any number of packets, by induction.
LEMMA LoopInvariantHolds ==
  ASSUME NEW n \in Nat, NEW pks \in Seq(PacketInfo(n)), pks # <<>>, NEW delay \in Nat,
         NEW loss \in Int, NEW start \in LoopState(n), start.arrived = {}, start.queue = {},
         UInt(Lost(start)) = UInt(loss),
         NEW acc, Loop(acc, pks, delay, start)
  PROVE  \A k \in 0 .. Len(pks) : LoopInvariant(acc, pks, n, delay, loss, k)
<1> DEFINE X == {k \in Nat : k =< Len(pks) => LoopInvariant(acc, pks, n, delay, loss, k)}
<1>0. Len(pks) \in Nat
  OBVIOUS
<1>1. 0 \in X
  <2>1. acc[0] = start
    BY DEF Loop
  <2>2. Cardinality({}) = 0
    BY FS_EmptySet
  <2>3. \A i : i \notin 1 .. 0
    OBVIOUS
  <2>4. loss + 0 - Cardinality({}) = loss
    BY <2>2
  <2>5. LoopInvariant(acc, pks, n, delay, loss, 0)
    BY <2>1, <2>3, <2>4 DEF LoopInvariant
  <2> QED BY <2>5
<1>2. ASSUME NEW m \in X PROVE m + 1 \in X
  <2> DEFINE k == m + 1
  <2> SUFFICES ASSUME k =< Len(pks) PROVE LoopInvariant(acc, pks, n, delay, loss, k)
    OBVIOUS
  <2>1. m \in Nat /\ k \in 1 .. Len(pks) /\ k \in Nat /\ m = k - 1 /\ m =< Len(pks)
    BY <1>0
  <2>2. LoopInvariant(acc, pks, n, delay, loss, m)
    BY <2>1
  <2> DEFINE a == acc[m]
             b == acc[k]
             p == pks[k]
             waiting(i, S) == {id \in {pks[j].packetID : j \in 1 .. i - 1} \cap S :
                                 PlayoutTime(pks, delay, id) >= pks[i].arrivalTime}
             queue == {i \in a.queue : PlayoutTime(pks, delay, i) >= p.arrivalTime}
             heard(i) == {pks[j].packetID : j \in 1 .. i}
  <2>3. b = Place(pks, delay, a, p)
    BY <2>1 DEF Loop
  <2>4. p \in PacketInfo(n)
    BY <2>1
  <2>5. /\ a \in LoopState(n) /\ a.queue \subseteq a.arrived /\ a.arrived \subseteq heard(m)
        /\ UInt(Lost(a)) = UInt(loss + m - Cardinality(a.arrived))
    BY <2>2 DEF LoopInvariant
  <2>6. \A i \in 1 .. m :
           /\ a.maxLateness >= Lateness(pks, delay, pks[i])
           /\ \/ Lateness(pks, delay, pks[i]) > 0
              \/ pks[i].packetID \in a.arrived
              \/ Cardinality(waiting(i, a.arrived)) >= BufferSpace
    BY <2>2 DEF LoopInvariant
  <2> HIDE DEF k
  <2>15. PlaceEffect(pks, n, delay, a, p, b)
    BY <2>3, <2>4, <2>5, PlaceStep
  <2> HIDE DEF a, b, p
  <2>7. /\ b \in LoopState(n) /\ b.queue \subseteq b.arrived
        /\ b.maxLateness >= a.maxLateness /\ b.maxLateness >= Lateness(pks, delay, p)
        /\ \/ b.arrived = a.arrived /\ b.channelLoss = a.channelLoss /\ Lost(b) = Lost(a) + 1
           \/ /\ b.arrived = a.arrived /\ p.packetID \in a.arrived
              /\ b.channelLoss = UInt(a.channelLoss + 1)
              /\ b.tailDropLoss = a.tailDropLoss /\ b.playoutLoss = a.playoutLoss
           \/ /\ b.arrived = a.arrived \cup {p.packetID} /\ p.packetID \notin a.arrived
              /\ b.channelLoss = a.channelLoss /\ Lost(b) = Lost(a)
        /\ \/ Lateness(pks, delay, p) > 0
           \/ p.packetID \in b.arrived
           \/ Cardinality(queue) >= BufferSpace
    BY <2>15 DEF PlaceEffect
  <2>8. a.arrived \subseteq b.arrived /\ b.arrived \subseteq a.arrived \cup {p.packetID}
    BY <2>7
  <2>9. b.arrived \subseteq heard(k)
    <3>1. 1 .. m \subseteq 1 .. k /\ k \in 1 .. k
      BY <2>1
    <3>2. heard(m) \subseteq heard(k) /\ p.packetID \in heard(k)
      BY <3>1 DEF p
    <3> QED BY <2>5, <2>8, <3>2
  <2>10. IsFiniteSet(a.arrived) /\ IsFiniteSet(b.arrived)
    <3>1. IsFiniteSet(0 .. n - 1)
      BY NumbersFinite
    <3>2. a.arrived \subseteq 0 .. n - 1 /\ b.arrived \subseteq 0 .. n - 1
      BY <2>5, <2>7 DEF LoopState
    <3> QED BY <3>1, <3>2, FS_Subset
  <2>11. UInt(Lost(b)) = UInt(loss + k - Cardinality(b.arrived))
    <3> DEFINE ca == Cardinality(a.arrived)
               cb == Cardinality(b.arrived)
               u == loss + m - ca
    <3>1. ca \in Nat /\ cb \in Nat
      BY <2>10, FS_CardinalityType
    <3>2. /\ a.channelLoss \in Nat /\ a.tailDropLoss \in Nat /\ a.playoutLoss \in Nat
          /\ b.channelLoss \in Nat /\ b.tailDropLoss \in Nat /\ b.playoutLoss \in Nat
      BY <2>5, <2>7 DEF LoopState
    <3>3. Lost(a) \in Int /\ Lost(b) \in Int
      BY <3>2 DEF Lost
    <3>4. UInt(Lost(a)) = UInt(u)
      BY <2>5
    <3>5. p.packetID \notin a.arrived /\ b.arrived = a.arrived \cup {p.packetID} => cb = ca + 1
      BY <2>10, CardinalityOfAdded
    <3>6. b.arrived = a.arrived => cb = ca
      OBVIOUS
    <3> HIDE DEF ca, cb
    <3>7. u \in Int
      BY <2>1, <3>1
    <3>8. UInt(Lost(a) + 1) = UInt(u + 1)
      BY <3>3, <3>4, <3>7, UIntOfNext
    <3>9. u + 1 = loss + k - ca
      BY <2>1, <3>1
    <3>10. CASE b.arrived = a.arrived /\ Lost(b) = Lost(a) + 1
      BY <3>6, <3>8, <3>9, <3>10 DEF cb
    <3>11. CASE /\ b.arrived = a.arrived /\ b.channelLoss = UInt(a.channelLoss + 1)
                /\ b.tailDropLoss = a.tailDropLoss /\ b.playoutLoss = a.playoutLoss
      <4> DEFINE c == a.channelLoss + 1
                 r == a.tailDropLoss + a.playoutLoss
      <4>1. c \in Int /\ r \in Int
        BY <3>2
      <4>4. Lost(a) = r + a.channelLoss
        BY <3>2 DEF Lost
      <4>5. r + c = Lost(a) + 1
        BY <3>2, <4>4
      <4>2. Lost(b) = r + UInt(c)
        BY <3>11 DEF Lost
      <4> HIDE DEF c, r
      <4>3. UInt(Lost(b)) = UInt(Lost(a) + 1)
        BY <4>1, <4>2, <4>5, UIntSum
      <4> QED BY <3>6, <3>8, <3>9, <3>11, <4>3 DEF cb
    <3>12. CASE /\ b.arrived = a.arrived \cup {p.packetID} /\ p.packetID \notin a.arrived
                /\ Lost(b) = Lost(a)
      <4>1. loss + k - cb = u
        BY <2>1, <3>1, <3>5, <3>12
      <4> QED BY <3>4, <3>12, <4>1 DEF cb
    <3> QED BY <2>7, <3>10, <3>11, <3>12
  <2>12. ASSUME NEW i \in 1 .. k
         PROVE  /\ b.maxLateness >= Lateness(pks, delay, pks[i])
                /\ \/ Lateness(pks, delay, pks[i]) > 0
                   \/ pks[i].packetID \in b.arrived
                   \/ Cardinality(waiting(i, b.arrived)) >= BufferSpace
    <3>1. IsFiniteSet(waiting(i, b.arrived))
      BY <2>10, FS_Subset
    <3>2. CASE i = k
      <4>1. queue \subseteq waiting(k, b.arrived) /\ IsFiniteSet(waiting(k, b.arrived))
        <5>1. queue \subseteq b.arrived
          BY <2>5, <2>8
        <5>2. queue \subseteq heard(m)
          BY <2>5
        <5>3. heard(m) = {pks[j].packetID : j \in 1 .. k - 1}
          BY <2>1
        <5> QED BY <3>1, <3>2, <5>1, <5>2, <5>3 DEF p
      <4>2. /\ Cardinality(queue) \in Nat /\ Cardinality(waiting(k, b.arrived)) \in Nat
            /\ Cardinality(queue) =< Cardinality(waiting(k, b.arrived))
        BY <4>1, FS_Subset, FS_CardinalityType
      <4> HIDE DEF queue, waiting
      <4>3. Cardinality(queue) >= BufferSpace => Cardinality(waiting(k, b.arrived)) >= BufferSpace
        BY <4>2, EvaluationAssumption
      <4> QED BY <2>7, <3>2, <4>3 DEF p
    <3>3. CASE i # k
      <4>1. i \in 1 .. m
        BY <2>1, <3>3
      <4>2. /\ a.maxLateness >= Lateness(pks, delay, pks[i])
            /\ \/ Lateness(pks, delay, pks[i]) > 0
               \/ pks[i].packetID \in a.arrived
               \/ Cardinality(waiting(i, a.arrived)) >= BufferSpace
        BY <2>6, <4>1
      <4>3. waiting(i, a.arrived) \subseteq waiting(i, b.arrived)
        BY <2>8
      <4>4. /\ Cardinality(waiting(i, a.arrived)) \in Nat
            /\ Cardinality(waiting(i, b.arrived)) \in Nat
            /\ Cardinality(waiting(i, a.arrived)) =< Cardinality(waiting(i, b.arrived))
        BY <3>1, <4>3, FS_Subset, FS_CardinalityType
      <4>5. pks[i] \in PacketInfo(n)
        BY <2>1, <4>1
      <4>6. /\ Lateness(pks, delay, pks[i]) \in Int
            /\ a.maxLateness \in Int /\ b.maxLateness \in Int
        <5>1. pks[i].packetID \in Int /\ pks[i].arrivalTime \in Int
          BY <4>5 DEF PacketInfo
        <5>2. PlayoutTime(pks, delay, pks[i].packetID) \in Int
          BY <5>1, PlayoutTimeType
        <5>3. a.maxLateness \in Int /\ b.maxLateness \in Int
          BY <2>5, <2>7 DEF LoopState
        <5> QED BY <5>1, <5>2, <5>3 DEF Lateness
      <4> HIDE DEF waiting
      <4>7. b.maxLateness >= Lateness(pks, delay, pks[i])
        BY <2>7, <4>2, <4>6
      <4>8. Cardinality(waiting(i, a.arrived)) >= BufferSpace
               => Cardinality(waiting(i, b.arrived)) >= BufferSpace
        BY <4>4, EvaluationAssumption
      <4> QED BY <2>8, <4>2, <4>7, <4>8
    <3> QED BY <3>2, <3>3
  <2>13. LoopInvariant(acc, pks, n, delay, loss, k)
    BY <2>7, <2>9, <2>11, <2>12 DEF LoopInvariant, b
  <2> QED BY <2>13
<1> HIDE DEF X
<1>3. X \in SUBSET Nat
  BY DEF X
<1>4. \A k \in Nat : k \in X
  BY <1>1, <1>2, <1>3, NaturalInduction
<1> QED BY <1>0, <1>4 DEF X

-----------------------------------------------------------------------------
\* A set of packet numbers has a largest one.
LEMMA MaxOfBounded ==
  ASSUME NEW n \in Nat, NEW S \in SUBSET (0 .. n - 1), S # {}
  PROVE  Max(S) \in S /\ \A y \in S : Max(S) >= y
<1> DEFINE X == {m \in Nat : \A T \in SUBSET (0 .. m - 1) :
                                T # {} => \E x \in T : \A y \in T : x >= y}
<1>1. 0 \in X
  <2>1. \A i : i \notin 0 .. 0 - 1
    OBVIOUS
  <2> QED BY <2>1
<1>2. ASSUME NEW m \in X PROVE m + 1 \in X
  <2> SUFFICES ASSUME NEW T \in SUBSET (0 .. (m + 1) - 1), T # {}
               PROVE  \E x \in T : \A y \in T : x >= y
    OBVIOUS
  <2>1. m \in Nat /\ \A i \in T : i \in 0 .. m
    OBVIOUS
  <2>2. CASE m \in T
    <3>1. \A y \in T : m >= y
      BY <2>1
    <3> QED BY <2>2, <3>1
  <2>3. CASE m \notin T
    <3>1. \A i \in T : i \in 0 .. m - 1
      BY <2>1, <2>3
    <3> QED BY <3>1
  <2> QED BY <2>2, <2>3
<1> HIDE DEF X
<1>3. X \in SUBSET Nat
  BY DEF X
<1>4. n \in X
  <2>1. \A k \in Nat : k \in X
    BY <1>1, <1>2, <1>3, NaturalInduction
  <2> QED BY <2>1
<1>5. \E x \in S : \A y \in S : x >= y
  BY <1>4 DEF X
<1> QED BY <1>5 DEF Max

\* The numbers of the packets that arrived.
LEMMA PacketIDsRange ==
  ASSUME NEW n \in Nat, NEW pks \in Seq(PacketInfo(n)), pks # <<>>
  PROVE  /\ PacketIDs(pks) \in SUBSET (0 .. n - 1) /\ PacketIDs(pks) # {}
         /\ Max(PacketIDs(pks)) \in PacketIDs(pks) /\ Max(PacketIDs(pks)) \in 0 .. n - 1
         /\ \A y \in PacketIDs(pks) : Max(PacketIDs(pks)) >= y
<1>1. DOMAIN pks = 1 .. Len(pks) /\ 1 \in 1 .. Len(pks)
  OBVIOUS
<1>2. \A i \in 1 .. Len(pks) : pks[i].packetID \in 0 .. n - 1
  <2> TAKE i \in 1 .. Len(pks)
  <2>1. pks[i] \in PacketInfo(n)
    OBVIOUS
  <2> QED BY <2>1 DEF PacketInfo
<1>3. PacketIDs(pks) \in SUBSET (0 .. n - 1)
  BY <1>1, <1>2 DEF PacketIDs
<1>4. PacketIDs(pks) # {}
  BY <1>1 DEF PacketIDs
<1>5. Max(PacketIDs(pks)) \in PacketIDs(pks) /\ \A y \in PacketIDs(pks) : Max(PacketIDs(pks)) >= y
  BY <1>3, <1>4, MaxOfBounded
<1> QED BY <1>3, <1>4, <1>5

\* The numbers of those that arrived before packet i.
LEMMA FirstPacketIDs ==
  ASSUME NEW X, NEW pks \in Seq(X), NEW i \in 1 .. Len(pks)
  PROVE  PacketIDs(SubSeq(pks, 1, i - 1)) = {pks[j].packetID : j \in 1 .. i - 1}
<1> DEFINE s == SubSeq(pks, 1, i - 1)
<1>1. DOMAIN s = 1 .. i - 1 /\ \A j \in 1 .. i - 1 : s[j] = pks[j]
  OBVIOUS
<1> HIDE DEF s
<1> QED BY <1>1 DEF PacketIDs, s

\* The i-th packet was late, is played, or found the buffer full.
PlayedUnlessFull(pks, delay, played, i) ==
    \/ Lateness(pks, delay, pks[i]) > 0
    \/ pks[i].packetID \in played
    \/ Cardinality({id \in {pks[j].packetID : j \in 1 .. i - 1} \cap played :
                       PlayoutTime(pks, delay, id) >= pks[i].arrivalTime}) >= BufferSpace

\* The loop of the code, and what holds of it after every packet.
LEMMA EvaluationRuns ==
  ASSUME NEW n \in Nat, NEW pks \in Seq(PacketInfo(n)), pks # <<>>, NEW delay \in Nat,
         NEW finish \in BOOLEAN
  PROVE  LET loss  == ExpectedPackets(pks, n, finish) - Len(pks)
             start == LoopStart(pks, n, delay, finish)
         IN  /\ ExpectedPackets(pks, n, finish) \in Int
             /\ start.channelLoss = UInt(loss)
             /\ \E acc :
                   /\ Loop(acc, pks, delay, start)
                   /\ Evaluation(pks, n, delay, finish) = Summary(start, acc[Len(pks)])
                   /\ \A k \in 0 .. Len(pks) : LoopInvariant(acc, pks, n, delay, loss, k)
<1> DEFINE start == LoopStart(pks, n, delay, finish)
           l == Len(pks)
           expected == ExpectedPackets(pks, n, finish)
           loss == expected - l
<1>1. l \in Nat /\ l > 0 /\ DOMAIN pks = 1 .. l
  OBVIOUS
<1>2. PacketIDs(pks) \in SUBSET (0 .. n - 1) /\ Max(PacketIDs(pks)) \in 0 .. n - 1
  BY PacketIDsRange
<1>3. expected \in Int
  <2>1. Max(PacketIDs(pks)) \in Int
    BY <1>2
  <2> QED BY <2>1 DEF ExpectedPackets
<1>4. loss \in Int
  BY <1>1, <1>3
<1> HIDE DEF loss, l
<1>5. UInt(loss) \in Nat /\ UInt(UInt(loss)) = UInt(loss)
  <2>1. UInt(loss) \in 0 .. UIntSize - 1
    BY <1>4, UIntRemainder
  <2> QED BY <2>1, EvaluationAssumption, UIntSmall
<1>6. start = [channelLoss |-> UInt(loss), playoutLoss |-> 0, tailDropLoss |-> 0,
               maxLateness |-> -delay, arrived |-> {}, queue |-> {}]
  BY DEF LoopStart, loss, l
<1> HIDE DEF start
<1>7. start \in LoopState(n) /\ start.arrived = {} /\ start.queue = {}
  <2> HIDE DEF loss
  <2> QED BY <1>5, <1>6 DEF LoopState
<1>8. UInt(Lost(start)) = UInt(loss)
  <2>1. Lost(start) = UInt(loss)
    BY <1>5, <1>6 DEF Lost
  <2> QED BY <1>5, <2>1
<1>9. PICK acc : Loop(acc, pks, delay, start)
                 /\ Evaluation(pks, n, delay, finish) = Summary(start, acc[Len(pks)])
  BY EvaluationIsLoop DEF start
<1>10. \A k \in 0 .. Len(pks) : LoopInvariant(acc, pks, n, delay, loss, k)
  BY <1>4, <1>7, <1>8, <1>9, LoopInvariantHolds
<1> QED BY <1>3, <1>6, <1>9, <1>10 DEF start, loss, l

\* What the evaluation finds, whatever arrived and in whatever order.
LEMMA EvaluationFinds ==
  ASSUME NEW n \in Nat, NEW pks \in Seq(PacketInfo(n)), pks # <<>>, NEW delay \in Nat,
         NEW finish \in BOOLEAN
  PROVE  LET r == Evaluation(pks, n, delay, finish)
         IN  /\ r.maxLateness \in Int
             /\ r.channelLoss \in Nat /\ r.playoutLoss \in Nat /\ r.tailDropLoss \in Nat
             /\ r.played \subseteq PacketIDs(pks)
             /\ UInt(r.tailDropLoss + r.playoutLoss + r.channelLoss)
                   = UInt(ExpectedPackets(pks, n, finish) - Cardinality(r.played))
             /\ \A i \in 1 .. Len(pks) :
                   /\ r.maxLateness >= Lateness(pks, delay, pks[i])
                   /\ PlayedUnlessFull(pks, delay, r.played, i)
<1> DEFINE l == Len(pks)
           expected == ExpectedPackets(pks, n, finish)
           loss == expected - l
<1>1. l \in Nat /\ l > 0 /\ DOMAIN pks = 1 .. l
  OBVIOUS
<1>2. PacketIDs(pks) \in SUBSET (0 .. n - 1)
  BY PacketIDsRange
<1>3. expected \in Int
  BY EvaluationRuns
<1>9. PICK acc : /\ Evaluation(pks, n, delay, finish)
                       = Summary(LoopStart(pks, n, delay, finish), acc[Len(pks)])
                 /\ \A k \in 0 .. Len(pks) : LoopInvariant(acc, pks, n, delay, loss, k)
  BY EvaluationRuns
<1>10. \A k \in 0 .. Len(pks) : LoopInvariant(acc, pks, n, delay, loss, k)
  BY <1>9
<1> HIDE DEF loss, l
<1> DEFINE a == acc[Len(pks)]
           r == Evaluation(pks, n, delay, finish)
<1>11. LoopInvariant(acc, pks, n, delay, loss, Len(pks))
  BY <1>1, <1>10 DEF l
<1>12. /\ r.channelLoss = a.channelLoss /\ r.playoutLoss = a.playoutLoss
       /\ r.tailDropLoss = a.tailDropLoss /\ r.maxLateness = a.maxLateness
       /\ r.played = a.arrived
  BY <1>9 DEF Summary
<1>13. /\ a \in LoopState(n)
       /\ a.arrived \subseteq {pks[i].packetID : i \in 1 .. Len(pks)}
       /\ UInt(Lost(a)) = UInt(loss + Len(pks) - Cardinality(a.arrived))
       /\ \A i \in 1 .. Len(pks) :
             /\ a.maxLateness >= Lateness(pks, delay, pks[i])
             /\ PlayedUnlessFull(pks, delay, a.arrived, i)
  BY <1>11 DEF LoopInvariant, PlayedUnlessFull
<1> HIDE DEF a, r
<1>14. r.maxLateness \in Int /\ r.channelLoss \in Nat /\ r.playoutLoss \in Nat /\ r.tailDropLoss \in Nat
  BY <1>12, <1>13 DEF LoopState
<1>15. r.played \subseteq PacketIDs(pks)
  BY <1>1, <1>12, <1>13 DEF PacketIDs, l
<1>16. UInt(r.tailDropLoss + r.playoutLoss + r.channelLoss) = UInt(expected - Cardinality(r.played))
  <2>1. r.tailDropLoss + r.playoutLoss + r.channelLoss = Lost(a)
    BY <1>12 DEF Lost
  <2>2. Cardinality(r.played) \in Nat
    <3>1. IsFiniteSet(0 .. n - 1)
      BY NumbersFinite
    <3>2. r.played \in SUBSET (0 .. n - 1)
      BY <1>2, <1>15
    <3> QED BY <3>1, <3>2, FS_Subset, FS_CardinalityType
  <2>3. loss + Len(pks) - Cardinality(r.played) = expected - Cardinality(r.played)
    <3> HIDE DEF expected
    <3> QED BY <1>1, <1>3, <2>2 DEF loss, l
  <2> QED BY <1>12, <1>13, <2>1, <2>3
<1> QED BY <1>12, <1>13, <1>14, <1>15, <1>16 DEF r

\* The packets expected include those that arrived.
LEMMA ExpectedCovers ==
  ASSUME NEW n \in Nat, NEW pks \in Seq(PacketInfo(n)), pks # <<>>, NEW finish \in BOOLEAN
  PROVE  /\ ExpectedPackets(pks, n, finish) \in 0 .. n
         /\ PacketIDs(pks) \subseteq 0 .. ExpectedPackets(pks, n, finish) - 1
<1> DEFINE expected == ExpectedPackets(pks, n, finish)
           ids == PacketIDs(pks)
<1>1. /\ ids \in SUBSET (0 .. n - 1) /\ Max(ids) \in 0 .. n - 1
      /\ \A y \in ids : Max(ids) >= y
  BY PacketIDsRange
<1>2. CASE finish
  <2> DEFINE m == Max(ids)
  <2>2. expected = m + 1
    BY <1>2 DEF ExpectedPackets
  <2> HIDE DEF ids, expected, m
  <2>3. expected \in 0 .. n
    BY <1>1, <2>2 DEF m
  <2>4. \A y \in ids : y \in 0 .. expected - 1
    <3> TAKE y \in ids
    <3>1. y \in 0 .. n - 1 /\ m \in 0 .. n - 1 /\ m >= y
      BY <1>1 DEF m
    <3> QED BY <2>2, <3>1
  <2> QED BY <2>3, <2>4 DEF ids, expected
<1>3. CASE ~finish
  <2>1. expected = n
    BY <1>3 DEF ExpectedPackets
  <2> QED BY <1>1, <2>1
<1> QED BY <1>2, <1>3

\* The losses add up to the expected packets that were not played, modulo the
\* width of the counters; a single loss may count a packet and its duplicate.
THEOREM EvaluationAccountsForEveryPacket ==
  ASSUME NEW n \in Nat, n < UIntSize, NEW pks \in Seq(PacketInfo(n)), pks # <<>>,
         NEW delay \in Nat, NEW finish \in BOOLEAN
  PROVE  LET r == Evaluation(pks, n, delay, finish)
         IN  UInt(r.tailDropLoss + r.playoutLoss + r.channelLoss)
               = ExpectedPackets(pks, n, finish) - Cardinality(r.played)
<1> DEFINE r == Evaluation(pks, n, delay, finish)
           expected == ExpectedPackets(pks, n, finish)
           ids == PacketIDs(pks)
<1>1. /\ ids \in SUBSET (0 .. n - 1) /\ Max(ids) \in 0 .. n - 1
      /\ \A y \in ids : Max(ids) >= y
  BY PacketIDsRange
<1>2. /\ r.played \subseteq ids
      /\ UInt(r.tailDropLoss + r.playoutLoss + r.channelLoss) = UInt(expected - Cardinality(r.played))
  BY EvaluationFinds
<1> HIDE DEF r
<1>3. expected \in 0 .. n /\ ids \subseteq 0 .. expected - 1
  BY ExpectedCovers
<1> HIDE DEF expected
<1>4. Cardinality(r.played) \in 0 .. expected
  <2>1. IsFiniteSet(0 .. expected - 1) /\ Cardinality(0 .. expected - 1) = expected
    BY <1>3, FS_Interval
  <2>2. r.played \subseteq 0 .. expected - 1
    BY <1>2, <1>3
  <2>3. Cardinality(r.played) \in Nat /\ Cardinality(r.played) =< expected
    BY <2>1, <2>2, FS_Subset, FS_CardinalityType
  <2> QED BY <1>3, <2>3
<1>5. expected - Cardinality(r.played) \in 0 .. UIntSize - 1
  BY <1>3, <1>4, EvaluationAssumption
<1>6. UInt(expected - Cardinality(r.played)) = expected - Cardinality(r.played)
  BY <1>5, UIntSmall
<1> QED BY <1>2, <1>6 DEF r, expected

\* Without duplicates the channel loss is what did not arrive of what was expected.
LEMMA NothingDoubled ==
  ASSUME NEW n \in Nat, n < UIntSize, NEW pks \in Seq(PacketInfo(n)), pks # <<>>,
         NEW delay \in Nat, NEW finish \in BOOLEAN,
         \A i, j \in 1 .. Len(pks) : pks[i].packetID = pks[j].packetID => i = j
  PROVE  /\ Cardinality(PacketIDs(pks)) = Len(pks)
         /\ Evaluation(pks, n, delay, finish).channelLoss
               = ExpectedPackets(pks, n, finish) - Len(pks)
<1> DEFINE l == Len(pks)
           expected == ExpectedPackets(pks, n, finish)
           ids == PacketIDs(pks)
           start == LoopStart(pks, n, delay, finish)
<1>1. l \in Nat /\ DOMAIN pks = 1 .. l
  OBVIOUS
<1>2. IsFiniteSet(ids) /\ Cardinality(ids) = l
  <2> DEFINE f == [i \in 1 .. l |-> pks[i].packetID]
  <2>1. ids = {pks[i].packetID : i \in 1 .. l}
    BY <1>1 DEF PacketIDs
  <2>2. f \in Bijection(1 .. l, ids)
    <3>1. \A i \in 1 .. l : f[i] = pks[i].packetID
      OBVIOUS
    <3>2. f \in [1 .. l -> ids] /\ \A x \in ids : \E i \in 1 .. l : f[i] = x
      BY <2>1
    <3>3. \A i, j \in 1 .. l : f[i] = f[j] => i = j
      BY <3>1
    <3> HIDE DEF f, ids, l
    <3> QED BY <3>2, <3>3 DEF Bijection, Injection, Surjection, IsInjective
  <2>3. IsFiniteSet(1 .. l) /\ Cardinality(1 .. l) = l
    BY <1>1, FS_Interval
  <2> HIDE DEF ids, l, f
  <2>4. ExistsBijection(1 .. l, ids)
    BY <2>2 DEF ExistsBijection
  <2> QED BY <2>3, <2>4, FS_Bijection
<1>3. expected \in 0 .. n /\ ids \subseteq 0 .. expected - 1
  BY ExpectedCovers
<1> HIDE DEF ids
<1>4. UInt(expected - l) = expected - l
  <2> HIDE DEF expected, l
  <2>1. IsFiniteSet(0 .. expected - 1) /\ Cardinality(0 .. expected - 1) = expected
    BY <1>3, FS_Interval
  <2>2. l =< expected
    <3>1. ids \in SUBSET (0 .. expected - 1)
      BY <1>3
    <3>2. Cardinality(ids) =< Cardinality(0 .. expected - 1)
      BY <2>1, <3>1, FS_Subset
    <3> QED BY <1>2, <2>1, <3>2
  <2>3. expected - l \in 0 .. UIntSize - 1
    BY <1>1, <1>3, <2>2, EvaluationAssumption
  <2> QED BY <2>3, UIntSmall
<1>5. PICK acc : /\ Loop(acc, pks, delay, start)
                 /\ Evaluation(pks, n, delay, finish) = Summary(start, acc[l])
                 /\ \A k \in 0 .. l : LoopInvariant(acc, pks, n, delay, expected - l, k)
  BY EvaluationRuns
<1>6. start.channelLoss = UInt(expected - l)
  BY EvaluationRuns
<1> HIDE DEF start, expected, l
<1> DEFINE X == {k \in Nat : k =< l => acc[k].channelLoss = start.channelLoss}
<1>7. 0 \in X
  BY <1>5 DEF Loop
<1>8. ASSUME NEW m \in X PROVE m + 1 \in X
  <2> DEFINE k == m + 1
             a == acc[m]
             b == acc[k]
             p == pks[k]
  <2> SUFFICES ASSUME k =< l PROVE b.channelLoss = start.channelLoss
    OBVIOUS
  <2>1. m \in 0 .. l /\ k \in 1 .. l /\ m = k - 1 /\ a.channelLoss = start.channelLoss
    BY <1>1
  <2> HIDE DEF k
  <2>2. b = Place(pks, delay, a, p)
    BY <1>5, <2>1 DEF Loop, l
  <2>3. p \in PacketInfo(n)
    BY <1>1, <2>1 DEF l
  <2>4. /\ a \in LoopState(n) /\ a.queue \subseteq a.arrived
        /\ a.arrived \subseteq {pks[i].packetID : i \in 1 .. m}
    BY <1>5, <2>1 DEF LoopInvariant
  <2>5. p.packetID \notin a.arrived
    <3>1. \A i \in 1 .. m : i \in 1 .. l /\ i # k
      BY <1>1, <2>1
    <3>2. \A i \in 1 .. m : pks[i].packetID # p.packetID
      BY <2>1, <3>1 DEF l
    <3> QED BY <2>4, <3>2
  <2> HIDE DEF a, b, p
  <2>6. PlaceEffect(pks, n, delay, a, p, b)
    BY <2>2, <2>3, <2>4, PlaceStep
  <2>7. b.channelLoss = a.channelLoss
    BY <2>5, <2>6 DEF PlaceEffect
  <2> QED BY <2>1, <2>7
<1>9. l \in X
  <2>1. X \in SUBSET Nat
    OBVIOUS
  <2> HIDE DEF X
  <2>2. \A k \in Nat : k \in X
    BY <1>7, <1>8, <2>1, NaturalInduction
  <2> QED BY <1>1, <2>2 DEF l
<1>10. acc[l].channelLoss = start.channelLoss
  BY <1>1, <1>9 DEF l
<1>11. Evaluation(pks, n, delay, finish).channelLoss = acc[l].channelLoss
  BY <1>5 DEF Summary
<1> QED BY <1>2, <1>4, <1>6, <1>10, <1>11 DEF l, ids, expected
=============================================================================
