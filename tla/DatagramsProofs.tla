----------------------------- MODULE DatagramsProofs -----------------------------
(***************************************************************************)
(* Proofs about Datagrams and DatagramExchange: for every MTU, header      *)
(* size, window and sequence of calls, no datagram is empty or longer than *)
(* the MTU, and no flush() leaves a segment in the buffer.  With bytes, a  *)
(* peer and counters added, flush() still does what Datagrams says, so     *)
(* that holds whatever the transport cuts and the peer drops.              *)
(***************************************************************************)
EXTENDS DatagramExchange, NumberLemmas, SequenceTheorems, FiniteSetTheorems

LEMMA Sizes ==
  /\ HEADER \in Nat \ {0} /\ MSS \in Nat \ {0} /\ MTU = MSS + HEADER
  /\ MTU \in Nat /\ MaxMessage \in Nat /\ RcvWnd \in Nat /\ MaxFragments \in Nat
BY SizeAssumption DEF MSS

\* send() cuts a message into payloads that are neither empty nor too long.
LEMMA PayloadSizes ==
  ASSUME NEW size \in Nat \ {0}
  PROVE  Payloads(size) \in Seq(1..MSS)
<1> DEFINE q == (size + MSS - 1) \div MSS
           count == EstimateSegmentsCount(size)
<1>1. q \in Nat /\ q * MSS <= size + MSS - 1
  BY Sizes, Quotient
<1>2. count \in {1, q} /\ count \in Nat
  <2>1. 1 \in Int /\ q \in Int BY <1>1
  <2>2. Max({1, q}) \in {1, q}
    <3> HIDE DEF q
    <3> QED BY <2>1, MaxOfTwo, Zenon
  <2>3. QED BY <2>2, <1>1 DEF EstimateSegmentsCount
<1> HIDE DEF count
<1>3. ASSUME NEW i \in 1..count
      PROVE  Min({size - (i - 1) * MSS, MSS}) \in 1..MSS
  <2> DEFINE rest == size - (i - 1) * MSS
  <2>1. i \in Nat \ {0} /\ (i = 1 \/ i <= q)
    BY <1>1, <1>2
  <2>2. rest \in Int /\ rest >= 1
    <3>1. CASE i = 1
      <4>1. (i - 1) * MSS = 0 BY <3>1, Sizes
      <4>2. QED BY <4>1
    <3>2. CASE i # 1
      <4> HIDE DEF q
      <4>1. i <= q BY <2>1, <3>2
      <4>2. i * MSS <= q * MSS BY <4>1, <2>1, <1>1, Sizes
      <4>3. (i - 1) * MSS = i * MSS - MSS /\ (i - 1) * MSS \in Int
        BY <2>1, Sizes, ProductSteps
      <4>4. i * MSS \in Int /\ q * MSS \in Int BY <2>1, <1>1, Sizes
      <4>5. QED BY <4>2, <4>3, <4>4, <1>1, Sizes
    <3>3. QED BY <3>1, <3>2
  <2> HIDE DEF rest
  <2>3. MSS \in Int /\ rest \in Int
    BY Sizes, <2>2
  <2>4. Min({rest, MSS}) \in {rest, MSS} /\ Min({rest, MSS}) <= MSS
    BY <2>3, MinOfTwo, Zenon
  <2>5. Min({rest, MSS}) \in 1..MSS
    BY <2>2, <2>3, <2>4, Sizes
  <2>6. QED BY <2>5 DEF rest
<1>4. [i \in 1..count |-> Min({size - (i - 1) * MSS, MSS})] \in [1..count -> 1..MSS]
  BY <1>3
<1>5. Payloads(size) \in [1..count -> 1..MSS]
  BY <1>4, Zenon DEF Payloads, count
<1>6. QED BY <1>2, <1>5, SeqDef

\* A message needs no more than m payloads when it has no more than m * MSS
\* bytes, and only then.
LEMMA CountOfSize ==
  ASSUME NEW size \in Nat \ {0}, NEW m \in Nat
  PROVE  EstimateSegmentsCount(size) <= m <=> size <= MSS * m
<1> DEFINE q == (size + MSS - 1) \div MSS
<1>1. q \in Nat /\ q * MSS <= size + MSS - 1 /\ size + MSS - 1 < q * MSS + MSS
  BY Sizes, Quotient
<1> HIDE DEF q
<1>2. q >= 1 /\ q \in Int /\ 1 \in Int
  <2>1. q = 0 => q * MSS = 0 BY Sizes
  <2>2. QED BY <2>1, <1>1, Sizes
<1>3. EstimateSegmentsCount(size) = q
  <2>1. Max({1, q}) \in {1, q} /\ Max({1, q}) >= q
    BY <1>2, MaxOfTwo, Zenon
  <2>2. Max({1, q}) = q BY <2>1, <1>2
  <2>3. QED BY <2>2 DEF EstimateSegmentsCount, q
<1>4. q * MSS \in Int /\ m * MSS \in Int /\ MSS * m = m * MSS
  BY <1>1, Sizes
<1>5. ASSUME q <= m PROVE size <= MSS * m
  <2>1. q * MSS <= m * MSS BY <1>5, <1>1, Sizes
  <2>2. QED BY <2>1, <1>1, <1>4, Sizes
<1>6. ASSUME ~(q <= m) PROVE ~(size <= MSS * m)
  <2>1. m + 1 <= q BY <1>6, <1>1
  <2>2. (m + 1) * MSS <= q * MSS BY <2>1, <1>1, Sizes
  <2>3. (m + 1) * MSS = m * MSS + MSS BY Sizes, ProductSteps
  <2>4. QED BY <2>2, <2>3, <1>1, <1>4, Sizes
<1>7. QED BY <1>3, <1>5, <1>6

LEMMA LimitIsExact == EstimateIsExact
<1> SUFFICES ASSUME NEW size \in 1..MaxMessage
             PROVE  Accepts(size) <=> size <= EstimateMaxPayloadSize
  BY DEF EstimateIsExact
<1> DEFINE m == Min({RcvWnd, MaxFragments})
           count == EstimateSegmentsCount(size)
<1>1. size \in Nat \ {0} /\ RcvWnd \in Int /\ MaxFragments \in Int
  BY Sizes
<1>2. m \in {RcvWnd, MaxFragments} /\ m <= RcvWnd /\ m <= MaxFragments
  BY <1>1, MinOfTwo, Zenon
<1> HIDE DEF m
<1>3. m \in Nat BY <1>2, Sizes
<1>4. count <= m <=> size <= MSS * m
  BY <1>1, <1>3, CountOfSize
<1>5. count \in Int
  <2>1. 1 \in Int /\ (size + MSS - 1) \div MSS \in Int BY <1>1, Sizes
  <2>2. count \in {1, (size + MSS - 1) \div MSS}
    BY <2>1, MaxOfTwo, Zenon DEF EstimateSegmentsCount
  <2>3. QED BY <2>1, <2>2
<1> HIDE DEF count
<1>6. count <= MaxFragments /\ count <= RcvWnd <=> count <= m
  BY <1>1, <1>2, <1>5
<1>7. Accepts(size) <=> size > 0 /\ count <= MaxFragments /\ count <= RcvWnd
  BY DEF Accepts, count
<1>8. size > 0 BY <1>1
<1>9. QED BY <1>4, <1>6, <1>7, <1>8 DEF EstimateMaxPayloadSize, m

\* estimate_max_payload_size() is the exact limit of send().
THEOREM EstimateIsAlwaysExact == Spec => []EstimateIsExact
<1>1. EstimateIsExact BY LimitIsExact
<1>2. QED BY <1>1, PTL

\* The invariant of the proofs.  That the buffer never overflows needs the
\* type of data: no payload is longer than MSS.
Idle == ~flushing => offset = 0 /\ acks = 0 /\ probes = 0 /\ data = <<>>

Packed == TypeOK /\ DatagramsFit /\ Idle

\* A segment that is written after the test of its caller fits.
LEMMA EmplaceFits ==
  ASSUME Packed, NEW size \in 0..MSS, NEW first \in BOOLEAN,
         first => offset # 0, ~first => offset + size <= MSS,
         Emplace(size, first)
  PROVE  /\ offset' \in Nat /\ offset' <= MTU /\ payload' \in Nat
         /\ datagram' \in Nat /\ datagram' <= MTU /\ empties' = 0
         /\ delivered' \in Nat
<1>1. offset \in Nat /\ offset <= MTU /\ payload \in Nat /\ empties = 0
      /\ datagram \in Nat /\ datagram <= MTU /\ delivered \in Nat
  BY DEF Packed, TypeOK, DatagramsFit
<1>2. CASE first BY <1>1, <1>2, Sizes DEF Emplace
<1>3. CASE ~first BY <1>1, <1>3, Sizes DEF Emplace
<1>4. QED BY <1>2, <1>3

LEMMA InitIsPacked == Init => Packed
<1> SUFFICES ASSUME Init PROVE Packed
  OBVIOUS
<1>1. snd_queue \in Seq(1..MSS) /\ data \in Seq(1..MSS)
  BY EmptySeq DEF Init
<1>2. TypeOK BY <1>1 DEF Init, TypeOK
<1>3. DatagramsFit
  <2>1. offset = 0 /\ datagram = 0 /\ empties = 0 BY DEF Init
  <2>2. QED BY <2>1, Sizes DEF DatagramsFit
<1>4. Idle BY DEF Init, Idle
<1>5. QED BY <1>2, <1>3, <1>4 DEF Packed

LEMMA StepKeepsPacked == Packed /\ [Next]_vars => Packed'
<1> SUFFICES ASSUME Packed, [Next]_vars PROVE Packed'
  OBVIOUS
<1> USE DEF flusherVars
<1>0. TypeOK /\ DatagramsFit /\ Idle
  BY DEF Packed
<1>1. ASSUME NEW size \in 1..MaxMessage, Send(size) PROVE Packed'
  <2>1. size \in Nat \ {0} BY Sizes
  <2>2. Payloads(size) \in Seq(1..MSS) BY <2>1, PayloadSizes
  <2>3. snd_queue' \in Seq(1..MSS)
    BY <1>0, <1>1, <2>2 DEF Send, TypeOK
  <2>4. accepted' \in Nat BY <1>0, <1>1, <2>1 DEF Send, TypeOK
  <2>5. QED
    BY <1>0, <1>1, <2>3, <2>4 DEF Send, Packed, TypeOK, DatagramsFit, Idle
<1>2. CASE Begin
  <2>1. PICK n \in 0..Len(snd_queue) :
          /\ data' = SubSeq(snd_queue, 1, n)
          /\ snd_queue' = SubSeq(snd_queue, n + 1, Len(snd_queue))
    BY <1>2 DEF Begin
  <2>2. snd_queue \in Seq(1..MSS) BY <1>0 DEF TypeOK
  <2>3. \A i \in 1..Len(snd_queue) : snd_queue[i] \in 1..MSS
    BY <2>2, ElementOfSeq
  <2>4. Len(snd_queue) \in Nat /\ n \in Nat /\ n <= Len(snd_queue)
    BY <2>2
  <2>5. data' \in Seq(1..MSS)
    <3>1. \A i \in 1..n : snd_queue[i] \in 1..MSS BY <2>3, <2>4
    <3>2. SubSeq(snd_queue, 1, n) \in Seq(1..MSS)
      BY <2>4, <3>1, SubSeqProperties
    <3>3. QED BY <2>1, <3>2
  <2>6. snd_queue' \in Seq(1..MSS)
    <3>1. \A i \in (n + 1)..Len(snd_queue) : snd_queue[i] \in 1..MSS
      BY <2>3, <2>4
    <3>2. SubSeq(snd_queue, n + 1, Len(snd_queue)) \in Seq(1..MSS)
      BY <2>4, <3>1, SubSeqProperties
    <3>3. QED BY <2>1, <3>2
  <2>7. acks' \in Nat /\ probes' \in Nat
    BY <1>2, SizeAssumption DEF Begin
  <2>8. QED
    BY <1>0, <1>2, <2>5, <2>6, <2>7
       DEF Begin, Packed, TypeOK, DatagramsFit, Idle
<1>3. CASE FlushAck
  <2>1. IsFull \in BOOLEAN /\ (IsFull => offset # 0) /\ (~IsFull => offset + 0 <= MSS)
    BY <1>0, Sizes DEF IsFull, TypeOK
  <2>2. Emplace(0, IsFull) /\ 0 \in 0..MSS BY <1>3, Sizes DEF FlushAck
  <2>3. /\ offset' \in Nat /\ offset' <= MTU /\ payload' \in Nat
        /\ datagram' \in Nat /\ datagram' <= MTU /\ empties' = 0
        /\ delivered' \in Nat
    BY <2>1, <2>2, EmplaceFits
  <2>4. QED
    BY <1>0, <1>3, <2>3 DEF FlushAck, Packed, TypeOK, DatagramsFit, Idle
<1>4. CASE FlushProbe
  <2>1. IsFull \in BOOLEAN /\ (IsFull => offset # 0) /\ (~IsFull => offset + 0 <= MSS)
    BY <1>0, Sizes DEF IsFull, TypeOK
  <2>2. Emplace(0, IsFull) /\ 0 \in 0..MSS BY <1>4, Sizes DEF FlushProbe
  <2>3. /\ offset' \in Nat /\ offset' <= MTU /\ payload' \in Nat
        /\ datagram' \in Nat /\ datagram' <= MTU /\ empties' = 0
        /\ delivered' \in Nat
    BY <2>1, <2>2, EmplaceFits
  <2>4. QED
    BY <1>0, <1>4, <2>3 DEF FlushProbe, Packed, TypeOK, DatagramsFit, Idle
<1>5. CASE FlushData
  <2>1. data \in Seq(1..MSS) /\ data # <<>> BY <1>0, <1>5 DEF FlushData, TypeOK
  <2>2. Head(data) \in 1..MSS /\ data' \in Seq(1..MSS)
    BY <1>5, <2>1, HeadTailProperties DEF FlushData
  <2>3. /\ DoesNotFit(Head(data)) \in BOOLEAN
        /\ DoesNotFit(Head(data)) => offset # 0
        /\ ~DoesNotFit(Head(data)) => offset + Head(data) <= MSS
    BY <1>0, <2>2, Sizes DEF DoesNotFit, TypeOK
  <2>4. Head(data) \in 0..MSS BY <2>2, Sizes
  <2>5. Emplace(Head(data), DoesNotFit(Head(data))) BY <1>5 DEF FlushData
  <2>6. /\ offset' \in Nat /\ offset' <= MTU /\ payload' \in Nat
        /\ datagram' \in Nat /\ datagram' <= MTU /\ empties' = 0
        /\ delivered' \in Nat
    BY <2>3, <2>4, <2>5, EmplaceFits
  <2>7. QED
    BY <1>0, <1>5, <2>2, <2>6
       DEF FlushData, Packed, TypeOK, DatagramsFit, Idle
<1>6. CASE FlushRest
  <2>1. datagram' \in Nat /\ datagram' <= MTU
    BY <1>0, <1>6, Sizes DEF FlushRest, TypeOK, DatagramsFit
  <2>2. delivered' \in Nat /\ empties' = 0
    BY <1>0, <1>6 DEF FlushRest, TypeOK, DatagramsFit
  <2>3. TypeOK' BY <1>0, <1>6, <2>1, <2>2 DEF FlushRest, TypeOK
  <2>4. DatagramsFit'
    <3>1. offset' = 0 BY <1>6 DEF FlushRest
    <3>2. QED BY <3>1, <2>1, <2>2, Sizes DEF DatagramsFit
  <2>5. Idle' BY <1>6 DEF FlushRest, Idle
  <2>6. QED BY <2>3, <2>4, <2>5 DEF Packed
<1>7. CASE UNCHANGED vars
  BY <1>0, <1>7 DEF vars, Packed, TypeOK, DatagramsFit, Idle
<1>8. QED BY <1>1, <1>2, <1>3, <1>4, <1>5, <1>6, <1>7 DEF Next

LEMMA PackedHolds == Spec => []Packed
BY InitIsPacked, StepKeepsPacked, PTL DEF Spec

\* Payloads are never empty and never longer than MSS, wherever they are.
THEOREM DatagramTypes == Spec => []TypeOK
<1>1. Packed => TypeOK BY DEF Packed
<1>2. QED BY <1>1, PackedHolds, PTL

\* The buffer of Flusher never overflows, and the output callback gets no
\* datagram that is empty or longer than the MTU.
THEOREM DatagramsAlwaysFit == Spec => []DatagramsFit
<1>1. Packed => DatagramsFit BY DEF Packed
<1>2. QED BY <1>1, PackedHolds, PTL

-----------------------------------------------------------------------------
(* Sums of sizes.  Induction is a least counterexample (MinOfNaturals).    *)

\* f holds the sums of the beginnings of s.
Sums(f, s) ==
  /\ f \in [0..Len(s) -> Nat] /\ f[0] = 0
  /\ \A i \in 1..Len(s) : f[i] = f[i - 1] + s[i]

LEMMA SumsExist ==
  ASSUME NEW s \in Seq(Nat)
  PROVE  \E f : Sums(f, s)
<1> DEFINE UpTo(n) == \E f \in [0..n -> Nat] :
                        f[0] = 0 /\ \A i \in 1..n : f[i] = f[i - 1] + s[i]
           D == {n \in 0..Len(s) : ~UpTo(n)}
<1>1. Len(s) \in Nat /\ \A i \in 1..Len(s) : s[i] \in Nat
  BY ElementOfSeq
<1>2. UpTo(0)
  <2> DEFINE f == [i \in 0..0 |-> 0]
  <2>1. f \in [0..0 -> Nat] /\ f[0] = 0 /\ \A i \in 1..0 : f[i] = f[i - 1] + s[i]
    OBVIOUS
  <2>2. QED BY <2>1
<1>3. ASSUME NEW n \in 1..Len(s), UpTo(n - 1) PROVE UpTo(n)
  <2>1. PICK f \in [0..(n - 1) -> Nat] :
          f[0] = 0 /\ \A i \in 1..(n - 1) : f[i] = f[i - 1] + s[i]
    BY <1>3
  <2> DEFINE g == [i \in 0..n |-> IF i = n THEN f[n - 1] + s[n] ELSE f[i]]
  <2>2. n \in Nat /\ n # 0 /\ f[n - 1] \in Nat /\ s[n] \in Nat /\ n \notin 0..(n - 1)
    BY <1>1
  <2>3. \A i \in 0..n : i # n => i \in 0..(n - 1) /\ f[i] \in Nat
    BY <2>2
  <2>4. g \in [0..n -> Nat] /\ g[0] = 0
    BY <2>1, <2>2, <2>3
  <2>5. ASSUME NEW i \in 1..n PROVE g[i] = g[i - 1] + s[i]
    <3>1. i - 1 # n /\ i - 1 \in 0..n /\ i \in 0..n BY <2>2
    <3>2. g[i - 1] = f[i - 1] BY <3>1
    <3>3. CASE i = n BY <3>1, <3>2, <3>3
    <3>4. CASE i # n
      <4>1. i \in 1..(n - 1) BY <2>2, <3>4
      <4>2. g[i] = f[i] BY <3>1, <3>4
      <4>3. QED BY <2>1, <3>2, <4>1, <4>2
    <3>5. QED BY <3>3, <3>4
  <2> HIDE DEF g
  <2>6. QED BY <2>4, <2>5
<1> HIDE DEF UpTo
<1>4. ASSUME D # {} PROVE FALSE
  <2> DEFINE n == Min(D)
  <2>1. D \in SUBSET Nat BY <1>1
  <2>2. n \in D /\ \A x \in D : n =< x
    <3> HIDE DEF D
    <3>1. QED BY <1>4, <2>1, MinOfNaturals
  <2> HIDE DEF n
  <2>3. n \in 0..Len(s) /\ ~UpTo(n) BY <2>2
  <2>4. n # 0 BY <1>2, <2>3
  <2>5. n \in 1..Len(s) /\ n - 1 \in 0..Len(s) /\ ~(n =< n - 1) BY <1>1, <2>3, <2>4
  <2>6. UpTo(n - 1) BY <2>2, <2>5
  <2>7. QED BY <1>3, <2>3, <2>5, <2>6
<1>5. UpTo(Len(s)) BY <1>1, <1>4
<1>6. QED BY <1>5 DEF UpTo, Sums

LEMMA TotalIs ==
  ASSUME NEW s \in Seq(Nat), NEW f, Sums(f, s)
  PROVE  Total(s) = f[Len(s)] /\ Total(s) \in Nat
<1> DEFINE L == Len(s)
           Next1(g) == [i \in 0..L |-> IF i = 0 THEN 0 ELSE g[i - 1] + s[i]]
           sum == CHOOSE g : g = Next1(g)
<1>1. L \in Nat OBVIOUS
<1>2. Total(s) = sum[L]
  BY DEF Total
<1>3. f = Next1(f)
  <2>1. f \in [0..L -> Nat] /\ f[0] = 0 /\ \A i \in 1..L : f[i] = f[i - 1] + s[i]
    BY DEF Sums
  <2>2. \A i \in 0..L : i # 0 => i \in 1..L BY <1>1
  <2>3. \A i \in 0..L : f[i] = IF i = 0 THEN 0 ELSE f[i - 1] + s[i]
    BY <2>1, <2>2
  <2>4. f = [i \in 0..L |-> f[i]] BY <2>1
  <2>5. QED BY <2>3, <2>4
<1>4. sum = Next1(sum)
  <2> HIDE DEF Next1
  <2>1. \E g : g = Next1(g) BY <1>3
  <2>2. QED BY <2>1, Zenon
<1> HIDE DEF sum, L
<1> DEFINE D == {i \in 0..L : f[i] # sum[i]}
<1>5. ASSUME D # {} PROVE FALSE
  <2> DEFINE n == Min(D)
  <2>1. D \in SUBSET Nat BY <1>1
  <2>2. n \in D /\ \A x \in D : n =< x
    <3> HIDE DEF D
    <3>1. QED BY <1>5, <2>1, MinOfNaturals
  <2> HIDE DEF n
  <2>3. n \in 0..L /\ f[n] # sum[n] BY <2>2
  <2>4. f[n] = IF n = 0 THEN 0 ELSE f[n - 1] + s[n] BY <1>3, <2>3
  <2>5. sum[n] = IF n = 0 THEN 0 ELSE sum[n - 1] + s[n] BY <1>4, <2>3
  <2>6. n # 0 BY <2>3, <2>4, <2>5
  <2>7. n - 1 \in 0..L /\ ~(n =< n - 1) BY <1>1, <2>3, <2>6
  <2>8. f[n - 1] = sum[n - 1] BY <2>2, <2>7
  <2>9. QED BY <2>3, <2>4, <2>5, <2>6, <2>8
<1>6. f[L] = sum[L] BY <1>1, <1>5
<1>7. f[L] \in Nat BY <1>1 DEF Sums, L
<1>8. QED BY <1>2, <1>6, <1>7 DEF L

LEMMA TotalOfConcat ==
  ASSUME NEW s \in Seq(Nat), NEW t \in Seq(Nat)
  PROVE  Total(s \o t) = Total(s) + Total(t)
<1>1. PICK f : Sums(f, s) BY SumsExist
<1>2. PICK g : Sums(g, t) BY SumsExist
<1> DEFINE m == Len(s)
           n == Len(t)
           h == [i \in 0..(m + n) |-> IF i <= m THEN f[i] ELSE f[m] + g[i - m]]
<1>3. m \in Nat /\ n \in Nat OBVIOUS
<1>4. /\ s \o t \in Seq(Nat) /\ Len(s \o t) = m + n
      /\ \A i \in 1..(m + n) : (s \o t)[i] = IF i <= m THEN s[i] ELSE t[i - m]
  BY ConcatProperties
<1>5. /\ f \in [0..m -> Nat] /\ f[0] = 0 /\ \A i \in 1..m : f[i] = f[i - 1] + s[i]
      /\ g \in [0..n -> Nat] /\ g[0] = 0 /\ \A i \in 1..n : g[i] = g[i - 1] + t[i]
  BY <1>1, <1>2 DEF Sums
<1>6. Total(s) = f[m] /\ Total(t) = g[n] /\ f[m] \in Nat /\ g[n] \in Nat
  BY <1>1, <1>2, TotalIs
<1> HIDE DEF m, n
<1>7. h \in [0..(m + n) -> Nat] /\ h[0] = 0
  <2>1. ASSUME NEW i \in 0..(m + n)
        PROVE  (IF i <= m THEN f[i] ELSE f[m] + g[i - m]) \in Nat
    <3>1. CASE i <= m
      <4>1. i \in 0..m BY <1>3, <3>1
      <4>2. QED BY <1>5, <3>1, <4>1
    <3>2. CASE ~(i <= m)
      <4>1. i - m \in 0..n BY <1>3, <3>2
      <4>2. g[i - m] \in Nat BY <1>5, <4>1
      <4>3. QED BY <1>6, <3>2, <4>2
    <3>3. QED BY <3>1, <3>2
  <2>2. h[0] = 0
    <3>1. 0 \in 0..(m + n) /\ 0 <= m BY <1>3
    <3>2. QED BY <1>5, <3>1
  <2>3. QED BY <2>1, <2>2
<1>8. ASSUME NEW i \in 1..(m + n) PROVE h[i] = h[i - 1] + (s \o t)[i]
  <2>1. i \in 0..(m + n) /\ i - 1 \in 0..(m + n) BY <1>3
  <2>2. CASE i <= m
    <3>1. i \in 1..m /\ i - 1 <= m BY <1>3, <2>2
    <3>2. h[i] = f[i] /\ h[i - 1] = f[i - 1] BY <2>1, <2>2, <3>1
    <3>3. (s \o t)[i] = s[i] BY <1>4, <2>2
    <3>4. QED BY <1>5, <3>1, <3>2, <3>3
  <2>3. CASE ~(i <= m)
    <3> DEFINE k == i - m
    <3>1. k \in 1..n /\ k - 1 \in 0..n /\ k \in 0..n BY <1>3, <2>3
    <3>2. h[i] = f[m] + g[k] /\ (s \o t)[i] = t[k] BY <1>4, <2>1, <2>3
    <3>3. g[k] = g[k - 1] + t[k] /\ g[k - 1] \in Nat
      <4> HIDE DEF k
      <4>1. QED BY <1>5, <3>1
    <3>4. h[i - 1] = f[m] + g[k - 1]
      <4>1. CASE i - 1 <= m
        <5>1. i - 1 = m /\ k - 1 = 0 BY <1>3, <2>3, <4>1
        <5>2. h[i - 1] = f[m] BY <2>1, <5>1
        <5>3. g[k - 1] = 0 BY <1>5, <5>1
        <5>4. QED BY <1>6, <5>2, <5>3
      <4>2. CASE ~(i - 1 <= m)
        <5>1. (i - 1) - m = k - 1 BY <1>3
        <5>2. h[i - 1] = f[m] + g[(i - 1) - m] BY <2>1, <4>2
        <5>3. QED BY <5>1, <5>2
      <4>3. QED BY <4>1, <4>2
    <3>5. t[k] \in Nat
      <4>1. \A j \in 1..n : t[j] \in Nat BY ElementOfSeq DEF n
      <4>2. QED BY <3>1, <4>1
    <3> HIDE DEF k, h
    <3>6. QED BY <1>6, <3>2, <3>3, <3>4, <3>5
  <2>4. QED BY <2>2, <2>3
<1> HIDE DEF h
<1>9. Sums(h, s \o t) BY <1>4, <1>7, <1>8 DEF Sums
<1>10. Total(s \o t) = h[m + n] BY <1>4, <1>9, TotalIs
<1>11. h[m + n] = f[m] + g[n]
  <2>1. m + n \in 0..(m + n) /\ (m + n) - m = n BY <1>3
  <2>2. CASE n = 0
    <3>1. m + n = m BY <1>3, <2>2
    <3>2. h[m + n] = f[m] BY <1>3, <2>1, <3>1 DEF h
    <3>3. g[n] = 0 BY <1>5, <2>2
    <3>4. QED BY <1>6, <3>2, <3>3
  <2>3. CASE n # 0
    <3>1. ~(m + n <= m) BY <1>3, <2>3
    <3>2. h[m + n] = f[m] + g[(m + n) - m] BY <2>1, <3>1 DEF h
    <3>3. QED BY <2>1, <3>2
  <2>4. QED BY <2>2, <2>3
<1>12. QED BY <1>6, <1>10, <1>11

LEMMA TotalOfNone == Total(<<>>) = 0
<1> DEFINE f == [i \in 0..0 |-> 0]
<1>1. <<>> \in Seq(Nat) /\ Len(<<>>) = 0 BY EmptySeq
<1>2. f \in [0..0 -> Nat] /\ f[0] = 0 OBVIOUS
<1> HIDE DEF f
<1>3. Sums(f, <<>>) BY <1>1, <1>2 DEF Sums
<1>4. QED BY <1>1, <1>2, <1>3, TotalIs

LEMMA TotalOfOne ==
  ASSUME NEW x \in Nat
  PROVE  Total(<<x>>) = x
<1> DEFINE f == [i \in 0..1 |-> IF i = 0 THEN 0 ELSE x]
<1>1. <<x>> \in Seq(Nat) /\ Len(<<x>>) = 1 /\ <<x>>[1] = x OBVIOUS
<1>2. f \in [0..1 -> Nat] /\ f[0] = 0 /\ f[1] = x OBVIOUS
<1> HIDE DEF f
<1>3. \A i \in 1..1 : f[i] = f[i - 1] + <<x>>[i]
  <2> TAKE i \in 1..1
  <2>1. i = 1 /\ i - 1 = 0 OBVIOUS
  <2>2. f[i] = x /\ f[i - 1] = 0 /\ <<x>>[i] = x BY <1>1, <1>2, <2>1
  <2>3. QED BY <2>2
<1>4. Sums(f, <<x>>) BY <1>1, <1>2, <1>3 DEF Sums
<1>5. QED BY <1>1, <1>2, <1>4, TotalIs

LEMMA TotalOfTail ==
  ASSUME NEW s \in Seq(Nat), s # <<>>
  PROVE  Total(s) = Head(s) + Total(Tail(s))
<1>1. Head(s) \in Nat /\ Tail(s) \in Seq(Nat) BY HeadTailProperties
<1>2. s = <<Head(s)>> \o Tail(s) OBVIOUS
<1>3. <<Head(s)>> \in Seq(Nat) BY <1>1
<1>4. Total(<<Head(s)>> \o Tail(s)) = Total(<<Head(s)>>) + Total(Tail(s))
  BY <1>1, <1>3, TotalOfConcat
<1>5. Total(<<Head(s)>>) = Head(s) BY <1>1, TotalOfOne
<1>6. QED BY <1>2, <1>4, <1>5, Zenon

LEMMA TotalOfParts ==
  ASSUME NEW s \in Seq(Nat), NEW n \in 0..Len(s)
  PROVE  Total(s) = Total(SubSeq(s, 1, n)) + Total(SubSeq(s, n + 1, Len(s)))
<1> DEFINE m == n + 1
           a == SubSeq(s, 1, n)
           b == SubSeq(s, m, Len(s))
<1>1. /\ Len(s) \in Nat /\ n \in Nat /\ m \in Int /\ m = n + 1
      /\ \A i \in 1..Len(s) : s[i] \in Nat
  BY ElementOfSeq
<1> HIDE DEF m
<1>2. a \in Seq(Nat) /\ Len(a) = n /\ \A i \in 1..n : a[i] = s[i]
  <2>1. \A i \in 1..n : s[i] \in Nat BY <1>1
  <2>2. /\ SubSeq(s, 1, n) \in Seq(Nat)
        /\ Len(SubSeq(s, 1, n)) = IF 1 <= n THEN n - 1 + 1 ELSE 0
        /\ \A i \in 1..(n - 1 + 1) : SubSeq(s, 1, n)[i] = s[1 + i - 1]
    BY <1>1, <2>1, SubSeqProperties
  <2>3. n - 1 + 1 = n /\ \A i \in 1..n : 1 + i - 1 = i BY <1>1
  <2>4. QED BY <1>1, <2>2, <2>3
<1>3. /\ b \in Seq(Nat) /\ Len(b) = Len(s) - n
      /\ \A i \in 1..(Len(s) - n) : b[i] = s[n + i]
  <2>1. \A i \in m..Len(s) : s[i] \in Nat BY <1>1
  <2>2. /\ SubSeq(s, m, Len(s)) \in Seq(Nat)
        /\ Len(SubSeq(s, m, Len(s))) = IF m <= Len(s) THEN Len(s) - m + 1 ELSE 0
        /\ \A i \in 1..(Len(s) - m + 1) : SubSeq(s, m, Len(s))[i] = s[m + i - 1]
    BY <1>1, <2>1, SubSeqProperties
  <2>3. Len(s) - m + 1 = Len(s) - n /\ \A i \in 1..(Len(s) - n) : m + i - 1 = n + i
    BY <1>1
  <2>4. m <= Len(s) \/ Len(s) - n = 0 BY <1>1
  <2>5. Len(b) = Len(s) - n
    <3>1. ~(m <= Len(s)) => Len(s) - n = 0 BY <2>4
    <3>2. QED BY <2>2, <2>3, <3>1
  <2>6. QED BY <2>2, <2>3, <2>5
<1> HIDE DEF a, b
<1>4. /\ a \o b \in Seq(Nat) /\ Len(a \o b) = Len(a) + Len(b)
      /\ \A i \in 1..Len(a) + Len(b) : (a \o b)[i] = IF i <= Len(a) THEN a[i] ELSE b[i - Len(a)]
  BY <1>2, <1>3, ConcatProperties
<1>5. Len(a \o b) = Len(s) BY <1>1, <1>2, <1>3, <1>4
<1>6. ASSUME NEW i \in 1..Len(s) PROVE (a \o b)[i] = s[i]
  <2>1. (a \o b)[i] = IF i <= n THEN a[i] ELSE b[i - n]
    BY <1>2, <1>4, <1>5
  <2>2. CASE i <= n
    <3>1. i \in 1..n BY <1>1, <2>2
    <3>2. QED BY <1>2, <2>1, <2>2, <3>1
  <2>3. CASE ~(i <= n)
    <3>1. i - n \in 1..(Len(s) - n) /\ n + (i - n) = i BY <1>1, <2>3
    <3>2. b[i - n] = s[n + (i - n)] BY <1>3, <3>1
    <3>3. QED BY <2>1, <2>3, <3>1, <3>2
  <2>4. QED BY <2>2, <2>3
<1>7. a \o b = s
  <2> DEFINE c == a \o b
  <2>1. Len(c) = Len(s) /\ c \in Seq(Nat) BY <1>4, <1>5
  <2>2. \A i \in 1..Len(s) : c[i] = s[i] BY <1>6
  <2> HIDE DEF c
  <2>3. c \in [1..Len(s) -> Nat] BY <2>1, LenProperties
  <2>4. s \in [1..Len(s) -> Nat] BY LenProperties
  <2>5. DOMAIN c = 1..Len(s) /\ DOMAIN s = 1..Len(s) BY <2>3, <2>4
  <2>6. c = [i \in 1..Len(s) |-> c[i]] BY <2>3
  <2>7. s = [i \in 1..Len(s) |-> s[i]] BY <2>4
  <2>8. c = s BY <2>2, <2>6, <2>7
  <2>9. QED BY <2>8 DEF c
<1>8. Total(a \o b) = Total(a) + Total(b) BY <1>2, <1>3, TotalOfConcat
<1>9. QED BY <1>7, <1>8 DEF a, b, m

\* send() cuts a message without losing or repeating a byte.
LEMMA PayloadsAddUp ==
  ASSUME NEW size \in Nat \ {0}
  PROVE  Total(Payloads(size)) = size
<1> DEFINE count == EstimateSegmentsCount(size)
           q == (size + MSS - 1) \div MSS
           s == Payloads(size)
           f == [i \in 0..count |-> IF i * MSS <= size THEN i * MSS ELSE size]
<1>1. MSS \in Nat \ {0} /\ size + MSS - 1 \in Nat BY Sizes
<1>2. q \in Nat /\ q * MSS <= size + MSS - 1 /\ size + MSS - 1 < q * MSS + MSS
  BY <1>1, Quotient
<1>3. count \in {1, q} /\ count >= 1 /\ count >= q
  <2>1. 1 \in Int /\ q \in Int BY <1>2
  <2> HIDE DEF q
  <2>2. Max({1, q}) \in {1, q} /\ Max({1, q}) >= 1 /\ Max({1, q}) >= q
    BY <2>1, MaxOfTwo, Zenon
  <2>3. QED BY <2>2 DEF EstimateSegmentsCount, q
<1> HIDE DEF q
<1>4. count \in Nat \ {0} BY <1>2, <1>3
<1>5. s = [i \in 1..count |-> Min({size - (i - 1) * MSS, MSS})]
  BY DEF Payloads
<1>6. s \in Seq(Nat) /\ Len(s) = count
  <2>1. s \in Seq(1..MSS) BY PayloadSizes
  <2>2. 1..MSS \subseteq Nat BY <1>1
  <2>3. DOMAIN s = 1..count BY <1>5
  <2>4. Len(s) \in Nat /\ DOMAIN s = 1..Len(s) /\ s \in [1..Len(s) -> 1..MSS]
    BY <2>1, LenProperties
  <2> HIDE DEF s, count
  <2>5. s \in [1..Len(s) -> Nat] BY <2>2, <2>4
  <2>6. s \in Seq(Nat) BY <2>4, <2>5, SeqDef
  <2>7. Len(s) = count BY <1>4, <2>3, <2>4
  <2>8. QED BY <2>6, <2>7
<1> HIDE DEF count, s
<1>7. size <= count * MSS
  <2>1. q * MSS \in Int /\ count * MSS \in Int BY <1>1, <1>2, <1>4
  <2>2. q * MSS <= count * MSS BY <1>1, <1>2, <1>3, <1>4
  <2>3. size <= q * MSS BY <1>1, <1>2, <2>1
  <2>4. QED BY <2>1, <2>2, <2>3
<1>8. ASSUME NEW i \in 1..count PROVE (i - 1) * MSS < size /\ (i - 1) * MSS \in Nat
  <2>1. i - 1 \in Nat /\ i \in Nat BY <1>4
  <2>2. (i - 1) * MSS \in Nat BY <1>1, <2>1, ProductOfNaturals
  <2>3. CASE i = 1
    <3>1. (i - 1) * MSS = 0 BY <1>1, <2>3
    <3>2. QED BY <2>2, <3>1
  <2>4. CASE i # 1
    <3>1. i <= q BY <1>2, <1>3, <1>4, <2>1, <2>4
    <3>2. i * MSS <= q * MSS BY <1>1, <1>2, <2>1, <3>1
    <3>3. (i - 1) * MSS = i * MSS - MSS /\ i * MSS \in Int BY <1>1, <2>1, ProductSteps
    <3>4. q * MSS \in Int BY <1>1, <1>2
    <3>5. QED BY <1>1, <1>2, <2>2, <3>2, <3>3, <3>4
  <2>5. QED BY <2>3, <2>4
<1>9. f \in [0..count -> Nat] /\ f[0] = 0
  <2>1. \A i \in 0..count : (IF i * MSS <= size THEN i * MSS ELSE size) \in Nat
    <3> TAKE i \in 0..count
    <3>1. i \in Nat BY <1>4
    <3>2. i * MSS \in Nat BY <1>1, <3>1, ProductOfNaturals
    <3>3. QED BY <3>2
  <2>2. f[0] = 0
    <3>1. 0 \in 0..count /\ 0 * MSS = 0 BY <1>1, <1>4
    <3>2. QED BY <3>1
  <2>3. QED BY <2>1, <2>2
<1>10. ASSUME NEW i \in 1..count PROVE f[i] = f[i - 1] + s[i]
  <2> DEFINE p == (i - 1) * MSS
  <2>1. p < size /\ p \in Nat BY <1>8
  <2>2. i \in 0..count /\ i - 1 \in 0..count /\ i \in Int BY <1>4
  <2>3. i * MSS = p + MSS
    <3>1. p = i * MSS - MSS /\ i * MSS \in Int BY <1>1, <2>2, ProductSteps
    <3>2. QED BY <1>1, <3>1
  <2>4. f[i] = IF i * MSS <= size THEN i * MSS ELSE size BY <2>2
  <2>5. f[i - 1] = p BY <2>1, <2>2
  <2> DEFINE rest == size - p
  <2>6. s[i] = Min({rest, MSS}) BY <1>5
  <2> HIDE DEF p, f
  <2>7. rest \in Int /\ MSS \in Int BY <1>1, <2>1
  <2> HIDE DEF rest
  <2>8. /\ Min({rest, MSS}) \in {rest, MSS} /\ Min({rest, MSS}) <= rest
        /\ Min({rest, MSS}) <= MSS
    BY <2>7, MinOfTwo, Zenon
  <2>9. CASE p + MSS <= size
    <3>1. Min({rest, MSS}) = MSS BY <1>1, <2>1, <2>7, <2>8, <2>9 DEF rest
    <3>2. QED BY <2>3, <2>4, <2>5, <2>6, <2>9, <3>1
  <2>10. CASE ~(p + MSS <= size)
    <3>1. Min({rest, MSS}) = rest BY <1>1, <2>1, <2>7, <2>8, <2>10 DEF rest
    <3>2. f[i] = size BY <2>3, <2>4, <2>10
    <3>3. p + rest = size BY <2>1 DEF rest
    <3>4. QED BY <2>5, <2>6, <3>1, <3>2, <3>3
  <2>11. QED BY <2>9, <2>10
<1>11. f[count] = size
  <2>1. count \in 0..count /\ count * MSS \in Nat BY <1>1, <1>4, ProductOfNaturals
  <2>2. f[count] = IF count * MSS <= size THEN count * MSS ELSE size BY <2>1
  <2> HIDE DEF f
  <2>3. QED BY <1>7, <2>1, <2>2
<1> HIDE DEF f
<1>12. Sums(f, s) BY <1>6, <1>9, <1>10 DEF Sums
<1>13. QED BY <1>6, <1>11, <1>12, TotalIs DEF s

LEMMA SizesAreNaturals ==
  ASSUME NEW s \in Seq(1..MSS)
  PROVE  s \in Seq(Nat) /\ Total(s) \in Nat
<1>1. 1..MSS \subseteq Nat BY Sizes
<1>2. s \in [1..Len(s) -> 1..MSS] /\ Len(s) \in Nat BY LenProperties
<1>3. s \in [1..Len(s) -> Nat] BY <1>1, <1>2
<1>4. s \in Seq(Nat) BY <1>2, <1>3, SeqDef
<1>5. PICK f : Sums(f, s) BY <1>4, SumsExist
<1>6. QED BY <1>4, <1>5, TotalIs

LEMMA StepConserves == Packed /\ BytesAreConserved /\ [Next]_vars => BytesAreConserved'
<1> SUFFICES ASSUME Packed, BytesAreConserved, [Next]_vars
             PROVE  BytesAreConserved'
  OBVIOUS
<1> DEFINE Q == Total(snd_queue)
           D == Total(data)
<1>1. /\ snd_queue \in Seq(Nat) /\ data \in Seq(Nat) /\ Q \in Nat /\ D \in Nat
      /\ payload \in Nat /\ delivered \in Nat /\ accepted \in Nat
  BY SizesAreNaturals DEF Packed, TypeOK
<1>2. accepted = Q + D + payload + delivered
  BY DEF BytesAreConserved
<1>3. ASSUME NEW size \in 1..MaxMessage, Send(size) PROVE BytesAreConserved'
  <2>1. size \in Nat \ {0} BY Sizes
  <2>2. /\ snd_queue' = snd_queue \o Payloads(size) /\ accepted' = accepted + size
        /\ data' = data /\ payload' = payload /\ delivered' = delivered
    BY <1>3 DEF Send, flusherVars
  <2>3. Payloads(size) \in Seq(Nat) BY <2>1, PayloadSizes, SizesAreNaturals
  <2>4. Total(snd_queue \o Payloads(size)) = Q + size
    BY <1>1, <2>1, <2>3, TotalOfConcat, PayloadsAddUp
  <2>5. Total(snd_queue') = Q + size /\ Total(data') = D BY <2>2, <2>4
  <2> HIDE DEF Q, D
  <2>6. accepted + size = (Q + size) + D + payload + delivered BY <1>1, <1>2, <2>1
  <2>7. QED BY <2>2, <2>5, <2>6 DEF BytesAreConserved
<1>4. CASE Begin
  <2>1. PICK n \in 0..Len(snd_queue) :
          /\ data' = SubSeq(snd_queue, 1, n)
          /\ snd_queue' = SubSeq(snd_queue, n + 1, Len(snd_queue))
    BY <1>4 DEF Begin
  <2>2. Q = Total(SubSeq(snd_queue, 1, n)) + Total(SubSeq(snd_queue, n + 1, Len(snd_queue)))
    BY <1>1, TotalOfParts
  <2>3. Q = Total(data') + Total(snd_queue') BY <2>1, <2>2
  <2>4. accepted' = accepted /\ payload' = payload /\ delivered' = delivered
    BY <1>4 DEF Begin, flusherVars
  <2>5. data = <<>> BY <1>4 DEF Begin, Packed, Idle
  <2>6. D = 0 BY <2>5, TotalOfNone
  <2>7. Total(data') \in Nat /\ Total(snd_queue') \in Nat
    <3>1. Packed' BY <1>4, StepKeepsPacked DEF Next
    <3>2. data' \in Seq(1..MSS) /\ snd_queue' \in Seq(1..MSS) BY <3>1 DEF Packed, TypeOK
    <3>3. QED BY <3>2, SizesAreNaturals
  <2> HIDE DEF Q, D
  <2> DEFINE d == Total(data')
             q == Total(snd_queue')
  <2>8. Q = d + q /\ d \in Nat /\ q \in Nat BY <2>3, <2>7
  <2> HIDE DEF d, q
  <2>9. accepted = q + d + payload + delivered BY <1>1, <1>2, <2>6, <2>8
  <2>10. QED BY <2>4, <2>9 DEF BytesAreConserved, d, q
<1>5. ASSUME NEW size \in Nat, NEW first \in BOOLEAN, Emplace(size, first),
             Total(data) = size + Total(data'), Total(data') \in Nat,
             UNCHANGED <<snd_queue, accepted>>
      PROVE  BytesAreConserved'
  <2>1. /\ payload' = (IF first THEN 0 ELSE payload) + size
        /\ delivered' = delivered + (IF first THEN payload ELSE 0)
    BY <1>5 DEF Emplace
  <2> DEFINE d == Total(data')
  <2>2. D = size + d /\ d \in Nat BY <1>5
  <2> HIDE DEF Q, D, d
  <2>3. payload' + delivered' = payload + delivered + size
        /\ payload' \in Nat /\ delivered' \in Nat
    <3>1. CASE first BY <1>1, <1>5, <2>1, <3>1
    <3>2. CASE ~first BY <1>1, <1>5, <2>1, <3>2
    <3>3. QED BY <3>1, <3>2
  <2>4. accepted = Q + d + payload' + delivered'
    <3> DEFINE p == payload'
               t == delivered'
    <3>1. p + t = payload + delivered + size /\ p \in Nat /\ t \in Nat BY <2>3
    <3>2. /\ Q \in Nat /\ payload \in Nat /\ delivered \in Nat /\ d \in Nat /\ size \in Nat
      BY <1>1, <2>2
    <3>3. accepted = Q + (size + d) + payload + delivered BY <1>2, <2>2
    <3> HIDE DEF p, t
    <3>4. accepted = Q + d + p + t BY <3>1, <3>2, <3>3
    <3>5. QED BY <3>4 DEF p, t
  <2>5. Total(snd_queue') = Q BY <1>5 DEF Q
  <2>6. QED BY <1>5, <2>4, <2>5 DEF BytesAreConserved, d
<1>6. CASE FlushAck \/ FlushProbe
  <2>1. Emplace(0, IsFull) /\ UNCHANGED <<snd_queue, accepted, data>>
    BY <1>6 DEF FlushAck, FlushProbe
  <2>2. IsFull \in BOOLEAN BY DEF IsFull
  <2>3. Total(data') = D BY <2>1
  <2>4. Total(data) = 0 + Total(data') /\ Total(data') \in Nat BY <1>1, <2>3
  <2>5. QED BY <1>5, <2>1, <2>2, <2>4
<1>7. CASE FlushData
  <2>1. /\ data # <<>> /\ data' = Tail(data) /\ UNCHANGED <<snd_queue, accepted>>
        /\ Emplace(Head(data), DoesNotFit(Head(data)))
    BY <1>7 DEF FlushData
  <2>2. Total(data) = Head(data) + Total(Tail(data)) BY <1>1, <2>1, TotalOfTail
  <2>3. Head(data) \in Nat /\ Tail(data) \in Seq(Nat) BY <1>1, <2>1, HeadTailProperties
  <2>4. Total(Tail(data)) \in Nat
    <3>1. PICK f : Sums(f, Tail(data)) BY <2>3, SumsExist
    <3>2. QED BY <2>3, <3>1, TotalIs
  <2>5. DoesNotFit(Head(data)) \in BOOLEAN BY DEF DoesNotFit
  <2>6. Total(data) = Head(data) + Total(data') /\ Total(data') \in Nat
    BY <2>1, <2>2, <2>4
  <2>7. QED BY <1>5, <2>1, <2>3, <2>5, <2>6
<1>8. CASE FlushRest
  <2>1. /\ payload' = 0 /\ delivered' = delivered + payload
        /\ snd_queue' = snd_queue /\ data' = data /\ accepted' = accepted
    BY <1>8 DEF FlushRest
  <2>2. Total(snd_queue') = Q /\ Total(data') = D BY <2>1
  <2> HIDE DEF Q, D
  <2>3. accepted = Q + D + 0 + (delivered + payload) BY <1>1, <1>2
  <2>4. QED BY <2>1, <2>2, <2>3 DEF BytesAreConserved
<1>9. CASE UNCHANGED vars
  BY <1>9 DEF vars, flusherVars, BytesAreConserved
<1>10. QED BY <1>3, <1>4, <1>6, <1>7, <1>8, <1>9 DEF Next

\* Every byte send() has accepted is in a queue, in the buffer or passed to
\* the output callback, and in one of them only.
THEOREM BytesAlwaysConserved == Spec => []BytesAreConserved
<1>1. Init => BytesAreConserved
  BY TotalOfNone DEF Init, BytesAreConserved
<1>2. QED BY <1>1, StepConserves, PackedHolds, PTL DEF Spec

-----------------------------------------------------------------------------
(* The exchange of bytes.                                                  *)

LEMMA StepIsDatagramsStep == [ExchangeNext]_exchangeVars => [Next]_vars
<1> SUFFICES ASSUME [ExchangeNext]_exchangeVars PROVE [Next]_vars
  OBVIOUS
<1>1. CASE AppSend BY <1>1 DEF AppSend, Next
<1>2. CASE StartFlush BY <1>2 DEF StartFlush, Next
<1>3. CASE PutAck BY <1>3 DEF PutAck, Next
<1>4. CASE PutProbe BY <1>4 DEF PutProbe, Next
<1>5. CASE PutData BY <1>5 DEF PutData, Next
<1>6. CASE EndFlush BY <1>6 DEF EndFlush, Next
<1>7. ASSUME NEW taken \in BOOLEAN, ReadPush(taken) PROVE UNCHANGED vars
  BY <1>7 DEF ReadPush
<1>8. CASE ReadService BY <1>8 DEF ReadService
<1>9. CASE ReadRefused BY <1>9 DEF ReadRefused
<1>10. CASE ReadEnds BY <1>10 DEF ReadEnds
<1>11. CASE UNCHANGED exchangeVars BY <1>11 DEF exchangeVars
<1>12. QED
  BY <1>1, <1>2, <1>3, <1>4, <1>5, <1>6, <1>7, <1>8, <1>9, <1>10, <1>11
     DEF ExchangeNext

\* The exchange of bytes implements the packing of sizes.
THEOREM ExchangeImplementsDatagrams == ExchangeSpec => Spec
<1>1. ExchangeInit => Init BY DEF ExchangeInit
<1>2. QED BY <1>1, StepIsDatagramsStep, PTL DEF ExchangeSpec, Spec

\* The datagrams the peer gets to read fit and are not empty.
THEOREM ExchangedDatagramsFit == ExchangeSpec => []DatagramsFit
BY ExchangeImplementsDatagrams, DatagramsAlwaysFit, PTL

-----------------------------------------------------------------------------
(* What input() reads.  The segments of a datagram are laid one behind the *)
(* other, so the lengths lead from each to the next, whatever is cut off.  *)

\* What the buffer may hold: a segment, or what follows its first byte.
Segments == [cmd : Commands, len : Nat]
Cells == [cmd : Commands \union {"header", "payload"}, len : Nat]

\* The segments segs were laid one behind the other over size bytes, pos says
\* where each starts, and bytes is all of that or its beginning.
LaidAt(pos, bytes, size, segs) ==
  /\ pos \in [1..(Len(segs) + 1) -> 0..size]
  /\ pos[1] = 0 /\ pos[Len(segs) + 1] = size
  /\ \A i \in 1..Len(segs) :
       /\ pos[i + 1] = pos[i] + HEADER + segs[i].len
       /\ pos[i] < Len(bytes) => bytes[pos[i] + 1] = segs[i]

\* Service segments carry no payload.
ServiceIsEmpty(segs) ==
  \A i \in 1..Len(segs) : segs[i].cmd \in Service => segs[i].len = 0

BufferIsLaid ==
  /\ buffer \in Seq(Cells) /\ packed \in Seq(Segments) /\ Len(buffer) = offset
  /\ ServiceIsEmpty(packed)
  /\ \E pos : LaidAt(pos, buffer, offset, packed)

\* The offset of input() is where the first segment starts that is not read.
WireIsRead ==
  /\ wire \in Seq(Cells) /\ held \in Seq(Segments) /\ read \in Seq(Segments)
  /\ cut \in Nat /\ at \in 0..Len(wire) /\ reading \in BOOLEAN /\ failed \in BOOLEAN
  /\ ServiceIsEmpty(held)
  /\ Len(read) <= Len(held) /\ \A i \in 1..Len(read) : read[i] = held[i]
  /\ \E pos : LaidAt(pos, wire, Len(wire) + cut, held) /\ at = pos[Len(read) + 1]
  /\ cut = 0 => ~failed /\ (~reading => Len(read) = Len(held))

\* How many of segs have command cmd.
Number(segs, cmd) == Cardinality({i \in 1..Len(segs) : segs[i].cmd = cmd})

Results == [count : [Commands -> Nat], dropped : Nat, bytes : Nat]

\* What the ends have counted of command cmd differs by what is on its way.
OnItsWay(cmd) == Number(packed, cmd) + (IF reading THEN Number(held, cmd) ELSE 0)

Counted ==
  /\ {sent, result, received} \subseteq Results /\ whole \in BOOLEAN
  /\ whole => cut = 0
  /\ \A cmd \in Service : result.count[cmd] = Number(read, cmd)
  /\ result.dropped <= Number(read, "PUSH")
  /\ whole =>
       /\ \A cmd \in Service : received.count[cmd] + OnItsWay(cmd) = sent.count[cmd]
       /\ received.dropped + OnItsWay("PUSH") <= sent.count["PUSH"]
       /\ received.bytes + (IF reading THEN Len(wire) ELSE 0) = sent.bytes

LEMMA RepeatedBytes ==
  ASSUME NEW what \in {"header", "payload"}, NEW n \in Nat
  PROVE  Repeated(what, n) \in Seq(Cells) /\ Len(Repeated(what, n)) = n
<1>1. Byte(what) \in Cells BY DEF Byte, Cells
<1>2. Repeated(what, n) \in [1..n -> Cells] BY <1>1 DEF Repeated
<1> DEFINE s == Repeated(what, n)
<1>3. DOMAIN s = 1..n BY <1>2
<1>4. s \in Seq(Cells) BY <1>2, SeqDef
<1> HIDE DEF s
<1>5. Len(s) \in Nat /\ DOMAIN s = 1..Len(s) BY <1>4, LenProperties
<1>6. Len(s) = n BY <1>3, <1>5
<1>7. QED BY <1>4, <1>6 DEF s

LEMMA BytesOfSegment ==
  ASSUME NEW seg \in Segments
  PROVE  /\ Bytes(seg) \in Seq(Cells) /\ Len(Bytes(seg)) = HEADER + seg.len
         /\ Bytes(seg)[1] = seg /\ seg.len \in Nat /\ seg.cmd \in Commands
<1>1. seg \in Cells /\ seg.len \in Nat /\ seg.cmd \in Commands BY DEF Segments, Cells
<1>2. HEADER \in Nat \ {0} /\ HEADER - 1 \in Nat BY Sizes
<1> DEFINE a == <<seg>>
           h == Repeated("header", HEADER - 1)
           p == Repeated("payload", seg.len)
<1>3. /\ h \in Seq(Cells) /\ Len(h) = HEADER - 1
      /\ p \in Seq(Cells) /\ Len(p) = seg.len
  BY <1>1, <1>2, RepeatedBytes
<1>4. a \in Seq(Cells) /\ Len(a) = 1 /\ a[1] = seg BY <1>1
<1> HIDE DEF a, h, p
<1>5. /\ a \o h \in Seq(Cells) /\ Len(a \o h) = Len(a) + Len(h)
      /\ \A i \in 1..Len(a) + Len(h) : (a \o h)[i] = IF i <= Len(a) THEN a[i] ELSE h[i - Len(a)]
  BY <1>3, <1>4, ConcatProperties
<1>6. Len(a \o h) = HEADER /\ (a \o h)[1] = seg
  BY <1>2, <1>3, <1>4, <1>5
<1> DEFINE ah == a \o h
<1>7. ah \in Seq(Cells) /\ Len(ah) = HEADER /\ ah[1] = seg BY <1>5, <1>6
<1> HIDE DEF ah
<1>8. /\ ah \o p \in Seq(Cells) /\ Len(ah \o p) = Len(ah) + Len(p)
      /\ \A i \in 1..Len(ah) + Len(p) : (ah \o p)[i] = IF i <= Len(ah) THEN ah[i] ELSE p[i - Len(ah)]
  BY <1>3, <1>7, ConcatProperties
<1>9. (ah \o p)[1] = seg BY <1>1, <1>2, <1>3, <1>7, <1>8
<1>10. Bytes(seg) = ah \o p BY DEF Bytes, ah, a, h, p
<1>11. QED BY <1>1, <1>3, <1>7, <1>8, <1>9, <1>10

LEMMA NothingLaid ==
  \A bytes : \E pos : LaidAt(pos, bytes, 0, <<>>) /\ pos[1] = 0
<1> TAKE bytes
<1> DEFINE pos == [i \in 1..1 |-> 0]
<1>1. Len(<<>>) = 0 OBVIOUS
<1>2. pos \in [1..(0 + 1) -> 0..0] /\ pos[1] = 0 OBVIOUS
<1> HIDE DEF pos
<1>3. LaidAt(pos, bytes, 0, <<>>) BY <1>1, <1>2 DEF LaidAt
<1>4. QED BY <1>2, <1>3

\* One more segment is laid behind the last one.
LEMMA OneMoreLaid ==
  ASSUME NEW bytes \in Seq(Cells), NEW segs \in Seq(Segments), NEW seg \in Segments,
         NEW pos, LaidAt(pos, bytes, Len(bytes), segs)
  PROVE  \E p : LaidAt(p, bytes \o Bytes(seg), Len(bytes) + HEADER + seg.len,
                       Append(segs, seg))
<1> DEFINE n == Len(segs)
           size == Len(bytes)
           end == size + HEADER + seg.len
           more == Append(segs, seg)
           all == bytes \o Bytes(seg)
           p == [i \in 1..(n + 1 + 1) |-> IF i <= n + 1 THEN pos[i] ELSE end]
<1>1. n \in Nat /\ size \in Nat /\ HEADER \in Nat \ {0} /\ seg.len \in Nat
  BY Sizes, BytesOfSegment
<1>2. /\ pos \in [1..(n + 1) -> 0..size] /\ pos[1] = 0 /\ pos[n + 1] = size
      /\ \A i \in 1..n : /\ pos[i + 1] = pos[i] + HEADER + segs[i].len
                         /\ pos[i] < size => bytes[pos[i] + 1] = segs[i]
  BY DEF LaidAt
<1>3. /\ Len(more) = n + 1 /\ more[n + 1] = seg
      /\ \A i \in 1..n : more[i] = segs[i]
  BY AppendProperties
<1>4. /\ all \in Seq(Cells) /\ Len(all) = size + Len(Bytes(seg))
      /\ \A i \in 1..size + Len(Bytes(seg)) :
           all[i] = IF i <= size THEN bytes[i] ELSE Bytes(seg)[i - size]
  BY BytesOfSegment, ConcatProperties
<1>5. Len(Bytes(seg)) = HEADER + seg.len /\ Bytes(seg)[1] = seg BY BytesOfSegment
<1>6. end \in Nat /\ end = size + HEADER + seg.len /\ size <= end /\ size < end
  BY <1>1
<1> HIDE DEF n, size, end, more, all
<1>7. /\ \A i \in 1..size : all[i] = bytes[i]
      /\ all[size + 1] = seg
  <2> DEFINE b == Bytes(seg)
             l == seg.len
  <2>1. Len(b) = HEADER + l /\ b[1] = seg /\ l \in Nat BY <1>1, <1>5
  <2>2. \A i \in 1..size + Len(b) : all[i] = IF i <= size THEN bytes[i] ELSE b[i - size]
    BY <1>4
  <2> HIDE DEF b, l
  <2>3. \A i \in 1..size : i \in 1..size + Len(b) /\ i <= size BY <1>1, <2>1
  <2>4. size + 1 \in 1..size + Len(b) /\ ~(size + 1 <= size) /\ (size + 1) - size = 1
    BY <1>1, <2>1
  <2>5. all[size + 1] = b[(size + 1) - size]
    <3> DEFINE j == size + 1
    <3>1. j \in 1..size + Len(b) /\ ~(j <= size) BY <2>4
    <3> HIDE DEF j
    <3>2. all[j] = b[j - size] BY <2>2, <3>1
    <3>3. QED BY <3>2 DEF j
  <2>6. QED BY <2>1, <2>2, <2>3, <2>4, <2>5
<1>8. p \in [1..(n + 1 + 1) -> 0..end]
  <2>1. \A i \in 1..(n + 1 + 1) : (IF i <= n + 1 THEN pos[i] ELSE end) \in 0..end
    <3> TAKE i \in 1..(n + 1 + 1)
    <3>1. CASE i <= n + 1
      <4>1. i \in 1..(n + 1) BY <1>1, <3>1
      <4>2. pos[i] \in 0..size BY <1>2, <4>1
      <4>3. QED BY <1>1, <1>6, <3>1, <4>2
    <3>2. CASE ~(i <= n + 1) BY <1>6, <3>2
    <3>3. QED BY <3>1, <3>2
  <2>2. QED BY <2>1
<1>9. /\ \A i \in 1..(n + 1) : p[i] = pos[i]
      /\ p[n + 1 + 1] = end
  BY <1>1
<1> HIDE DEF p
<1>10. ASSUME NEW i \in 1..(n + 1)
       PROVE  /\ p[i + 1] = p[i] + HEADER + more[i].len
              /\ p[i] < Len(all) => all[p[i] + 1] = more[i]
  <2>1. CASE i = n + 1
    <3>1. p[i] = size /\ p[i + 1] = end /\ more[i] = seg
      BY <1>1, <1>2, <1>3, <1>9, <2>1
    <3>2. QED BY <1>6, <1>7, <3>1
  <2>2. CASE i # n + 1
    <3>1. i \in 1..n /\ i \in 1..(n + 1) /\ i + 1 \in 1..(n + 1) BY <1>1, <2>2
    <3>2. p[i] = pos[i] /\ p[i + 1] = pos[i + 1] /\ more[i] = segs[i]
      BY <1>3, <1>9, <3>1
    <3>3. pos[i + 1] = pos[i] + HEADER + segs[i].len BY <1>2, <3>1
    <3>4. pos[i] \in 0..size /\ pos[i + 1] \in 0..size BY <1>2, <3>1
    <3>5. segs[i].len \in Nat
      <4>1. segs[i] \in Segments BY <3>1, ElementOfSeq DEF n
      <4>2. QED BY <4>1 DEF Segments
    <3>6. pos[i] < size
      <4> DEFINE x == pos[i]
                 y == pos[i + 1]
                 l == segs[i].len
      <4>1. y = x + HEADER + l /\ x \in Nat /\ y \in Nat /\ y <= size /\ l \in Nat
        BY <1>1, <3>3, <3>4, <3>5
      <4> HIDE DEF x, y, l
      <4>2. x < size BY <1>1, <4>1
      <4>3. QED BY <4>2 DEF x
    <3>7. bytes[pos[i] + 1] = segs[i] BY <1>2, <3>1, <3>6
    <3>8. pos[i] + 1 \in 1..size BY <1>1, <3>4, <3>6
    <3>9. all[pos[i] + 1] = segs[i] BY <1>7, <3>7, <3>8
    <3>10. QED BY <3>2, <3>3, <3>9
  <2>3. QED BY <2>1, <2>2
<1>11. p[1] = 0
  <2>1. 1 \in 1..(n + 1) BY <1>1
  <2>2. QED BY <1>2, <1>9, <2>1
<1>12. LaidAt(p, all, end, more)
  BY <1>3, <1>8, <1>9, <1>10, <1>11 DEF LaidAt
<1>13. QED BY <1>12 DEF all, end, more, size

\* What is left of a datagram that has been cut still begins as it did.
LEMMA CutLaid ==
  ASSUME NEW bytes \in Seq(Cells), NEW segs \in Seq(Segments), NEW pos,
         LaidAt(pos, bytes, Len(bytes), segs), NEW lost \in 0..Len(bytes)
  PROVE  LET rest == SubSeq(bytes, 1, Len(bytes) - lost)
         IN  /\ rest \in Seq(Cells) /\ Len(rest) + lost = Len(bytes)
             /\ LaidAt(pos, rest, Len(rest) + lost, segs)
<1> DEFINE size == Len(bytes)
           k == size - lost
           rest == SubSeq(bytes, 1, k)
<1>1. size \in Nat /\ lost \in Nat /\ k \in Nat /\ k <= size /\ k + lost = size
  BY LenProperties
<1>2. \A i \in 1..size : bytes[i] \in Cells BY ElementOfSeq
<1> HIDE DEF k
<1>3. \A i \in 1..k : bytes[i] \in Cells BY <1>1, <1>2
<1>4. /\ rest \in Seq(Cells) /\ Len(rest) = IF 1 <= k THEN k - 1 + 1 ELSE 0
      /\ \A i \in 1..(k - 1 + 1) : rest[i] = bytes[1 + i - 1]
  BY <1>1, <1>3, SubSeqProperties
<1>5. k - 1 + 1 = k /\ \A i \in 1..k : 1 + i - 1 = i BY <1>1
<1>6. Len(rest) = k /\ \A i \in 1..k : rest[i] = bytes[i]
  BY <1>1, <1>4, <1>5
<1> HIDE DEF rest
<1>7. /\ pos \in [1..(Len(segs) + 1) -> 0..size] /\ pos[1] = 0 /\ pos[Len(segs) + 1] = size
      /\ \A i \in 1..Len(segs) : /\ pos[i + 1] = pos[i] + HEADER + segs[i].len
                                 /\ pos[i] < size => bytes[pos[i] + 1] = segs[i]
  BY DEF LaidAt
<1> HIDE DEF size
<1>8. ASSUME NEW i \in 1..Len(segs), pos[i] < k PROVE rest[pos[i] + 1] = segs[i]
  <2>1. i \in 1..(Len(segs) + 1) BY LenProperties
  <2>2. pos[i] \in 0..size BY <1>7, <2>1
  <2>3. pos[i] + 1 \in 1..k /\ pos[i] < size BY <1>1, <1>8, <2>2
  <2>4. QED BY <1>6, <1>7, <2>3
<1>9. LaidAt(pos, rest, size, segs) BY <1>6, <1>7, <1>8 DEF LaidAt
<1>10. Len(rest) + lost = size BY <1>1, <1>6
<1>11. QED BY <1>4, <1>9, <1>10 DEF rest, k, size

LEMMA NumberOfNone ==
  \A cmd : Number(<<>>, cmd) = 0
<1> TAKE cmd
<1>1. {i \in 1..Len(<<>>) : <<>>[i].cmd = cmd} = {} OBVIOUS
<1>2. QED BY <1>1, FS_EmptySet DEF Number

LEMMA NumberWithOneMore ==
  ASSUME NEW segs \in Seq(Segments), NEW seg \in Segments, NEW cmd
  PROVE  /\ Number(segs, cmd) \in Nat
         /\ Number(Append(segs, seg), cmd) =
              Number(segs, cmd) + (IF seg.cmd = cmd THEN 1 ELSE 0)
<1> DEFINE n == Len(segs)
           A == {i \in 1..n : segs[i].cmd = cmd}
           more == Append(segs, seg)
           B == {i \in 1..Len(more) : more[i].cmd = cmd}
<1>1. n \in Nat /\ Len(more) = n + 1 /\ more[n + 1] = seg
      /\ \A i \in 1..n : more[i] = segs[i]
  BY AppendProperties, LenProperties
<1>2. IsFiniteSet(A) /\ n + 1 \notin A
  <2>1. IsFiniteSet(1..n) BY <1>1, FS_Interval
  <2>2. A \subseteq 1..n OBVIOUS
  <2>3. IsFiniteSet(A) BY <2>1, <2>2, FS_Subset
  <2>4. n + 1 \notin A BY <1>1
  <2>5. QED BY <2>3, <2>4
<1>3. B = IF seg.cmd = cmd THEN A \union {n + 1} ELSE A
  <2> HIDE DEF more, n
  <2>1. 1..(n + 1) = (1..n) \union {n + 1} BY <1>1
  <2>2. \A i \in 1..(n + 1) : i \in B <=> more[i].cmd = cmd BY <1>1
  <2>3. \A i \in 1..n : i \in B <=> i \in A BY <1>1, <2>1, <2>2
  <2>4. n + 1 \in B <=> seg.cmd = cmd BY <1>1, <2>1, <2>2
  <2>5. B \subseteq (1..n) \union {n + 1} /\ A \subseteq 1..n BY <1>1, <2>1
  <2> DEFINE j == n + 1
  <2>6. B \subseteq (1..n) \union {j} /\ A \subseteq 1..n BY <2>5
  <2>7. j \in B <=> seg.cmd = cmd BY <2>4
  <2> HIDE DEF A, B, j
  <2>8. CASE seg.cmd = cmd
    <3>1. B = A \union {j} BY <2>3, <2>6, <2>7, <2>8
    <3>2. QED BY <2>8, <3>1 DEF j
  <2>9. CASE seg.cmd # cmd
    <3>1. B = A BY <2>3, <2>6, <2>7, <2>9
    <3>2. QED BY <2>9, <3>1
  <2>10. QED BY <2>8, <2>9
<1>4. Number(segs, cmd) = Cardinality(A) /\ Number(more, cmd) = Cardinality(B)
  BY DEF Number
<1> HIDE DEF A, B, more, n
<1>5. Cardinality(A) \in Nat BY <1>2, FS_CardinalityType
<1>6. Cardinality(A \union {n + 1}) = Cardinality(A) + 1 BY <1>2, FS_AddElement
<1>7. CASE seg.cmd = cmd BY <1>3, <1>4, <1>5, <1>6, <1>7 DEF more
<1>8. CASE seg.cmd # cmd BY <1>3, <1>4, <1>5, <1>8 DEF more
<1>9. QED BY <1>7, <1>8

LEMMA OneMoreCounted ==
  ASSUME NEW r \in Results, NEW cmd \in Commands
  PROVE  LET q == [r EXCEPT !.count[cmd] = @ + 1]
         IN  /\ q \in Results /\ q.dropped = r.dropped /\ q.bytes = r.bytes
             /\ \A c \in Commands : q.count[c] = r.count[c] + (IF cmd = c THEN 1 ELSE 0)
<1> DEFINE q == [r EXCEPT !.count[cmd] = @ + 1]
           more == [r.count EXCEPT ![cmd] = r.count[cmd] + 1]
<1>1. /\ r = [count |-> r.count, dropped |-> r.dropped, bytes |-> r.bytes]
      /\ r.count \in [Commands -> Nat] /\ r.dropped \in Nat /\ r.bytes \in Nat
  BY DEF Results
<1>2. q = [count |-> more, dropped |-> r.dropped, bytes |-> r.bytes]
  <2>1. r = [count |-> r.count, dropped |-> r.dropped, bytes |-> r.bytes] BY <1>1
  <2>2. QED BY <2>1
<1>3. more \in [Commands -> Nat] BY <1>1
<1>4. \A c \in Commands : more[c] = r.count[c] + (IF cmd = c THEN 1 ELSE 0)
  <2> TAKE c \in Commands
  <2>1. CASE cmd = c BY <1>1, <2>1
  <2>2. CASE cmd # c BY <1>1, <2>2
  <2>3. QED BY <2>1, <2>2
<1> HIDE DEF q, more
<1>5. q.count = more /\ q.dropped = r.dropped /\ q.bytes = r.bytes BY <1>2
<1>6. q \in Results BY <1>1, <1>2, <1>3 DEF Results
<1>7. QED BY <1>4, <1>5, <1>6 DEF q

LEMMA MoreBytes ==
  ASSUME NEW r \in Results, NEW b \in Nat
  PROVE  LET q == [r EXCEPT !.bytes = @ + b]
         IN  /\ q \in Results /\ q.dropped = r.dropped /\ q.bytes = r.bytes + b
             /\ q.count = r.count
<1> DEFINE q == [r EXCEPT !.bytes = @ + b]
<1>1. /\ r = [count |-> r.count, dropped |-> r.dropped, bytes |-> r.bytes]
      /\ r.count \in [Commands -> Nat] /\ r.dropped \in Nat /\ r.bytes \in Nat
  BY DEF Results
<1>2. q = [count |-> r.count, dropped |-> r.dropped, bytes |-> r.bytes + b]
  <2>1. r = [count |-> r.count, dropped |-> r.dropped, bytes |-> r.bytes] BY <1>1
  <2>2. QED BY <2>1
<1> HIDE DEF q
<1>3. q.count = r.count /\ q.dropped = r.dropped /\ q.bytes = r.bytes + b BY <1>2
<1>4. r.bytes + b \in Nat BY <1>1
<1>5. q \in Results BY <1>1, <1>2, <1>4 DEF Results
<1>6. QED BY <1>3, <1>5 DEF q

LEMMA OneMoreWithBytes ==
  ASSUME NEW r \in Results, NEW cmd \in Commands, NEW b \in Nat
  PROVE  LET q == [r EXCEPT !.count[cmd] = @ + 1, !.bytes = @ + b]
         IN  /\ q \in Results /\ q.dropped = r.dropped /\ q.bytes = r.bytes + b
             /\ \A c \in Commands : q.count[c] = r.count[c] + (IF cmd = c THEN 1 ELSE 0)
<1> DEFINE w == [r EXCEPT !.count[cmd] = @ + 1]
           q == [r EXCEPT !.count[cmd] = @ + 1, !.bytes = @ + b]
           v == [w EXCEPT !.bytes = @ + b]
<1>1. /\ w \in Results /\ w.dropped = r.dropped /\ w.bytes = r.bytes
      /\ \A c \in Commands : w.count[c] = r.count[c] + (IF cmd = c THEN 1 ELSE 0)
  BY OneMoreCounted
<1>2. q = v
  <2>1. w.bytes = r.bytes BY <1>1
  <2>2. QED BY <2>1
<1> HIDE DEF w, q
<1>3. v \in Results /\ v.dropped = w.dropped /\ v.bytes = w.bytes + b /\ v.count = w.count
  BY <1>1, MoreBytes
<1>4. QED BY <1>1, <1>2, <1>3 DEF q

LEMMA NothingIsCounted ==
  /\ Nothing \in Results /\ Nothing.dropped = 0 /\ Nothing.bytes = 0
  /\ \A c \in Commands : Nothing.count[c] = 0
BY DEF Nothing, NoCount, Results

\* The buffer is empty when nothing is packed, and then only.
LEMMA LaidIsLong ==
  ASSUME BufferIsLaid
  PROVE  (offset = 0 <=> packed = <<>>) /\ (offset # 0 => offset >= HEADER) /\ offset \in Nat
<1>1. PICK pos : LaidAt(pos, buffer, offset, packed) BY DEF BufferIsLaid
<1>2. /\ pos \in [1..(Len(packed) + 1) -> 0..offset]
      /\ pos[1] = 0 /\ pos[Len(packed) + 1] = offset
      /\ \A i \in 1..Len(packed) : pos[i + 1] = pos[i] + HEADER + packed[i].len
  BY <1>1 DEF LaidAt
<1>3. offset \in Nat /\ packed \in Seq(Segments) /\ Len(packed) \in Nat
  BY LenProperties DEF BufferIsLaid
<1>4. CASE packed = <<>>
  <2>1. Len(packed) = 0 BY <1>4
  <2>2. offset = 0 BY <1>2, <2>1
  <2>3. QED BY <1>3, <1>4, <2>2
<1>5. CASE packed # <<>>
  <2>1. Len(packed) # 0 BY <1>3, <1>5, EmptySeq
  <2>2. 1 \in 1..Len(packed) /\ 1 + 1 \in 1..(Len(packed) + 1) BY <1>3, <2>1
  <2>3. packed[1] \in Segments BY <1>3, <2>2, ElementOfSeq
  <2>4. packed[1].len \in Nat BY <2>3, BytesOfSegment
  <2>5. pos[1 + 1] = 0 + HEADER + packed[1].len /\ pos[1 + 1] \in 0..offset
    BY <1>2, <2>2
  <2>6. HEADER \in Nat \ {0} BY Sizes
  <2>7. offset >= HEADER /\ offset # 0
    <3> DEFINE l == packed[1].len
               e == pos[1 + 1]
    <3>1. l \in Nat /\ e = 0 + HEADER + l /\ e \in 0..offset BY <2>4, <2>5
    <3> HIDE DEF l, e
    <3>2. QED BY <1>3, <2>6, <3>1
  <2>8. QED BY <1>3, <1>5, <2>7
<1>6. QED BY <1>4, <1>5

\* The segments that are in the buffer once it has been emptied, if it must be.
LEMMA PutKeepsLaid ==
  ASSUME BufferIsLaid, NEW seg \in Segments, seg.cmd \in Service => seg.len = 0,
         NEW first \in BOOLEAN,
         buffer' = (IF first THEN <<>> ELSE buffer) \o Bytes(seg),
         packed' = Append(IF first THEN <<>> ELSE packed, seg),
         offset' = (IF first THEN 0 ELSE offset) + HEADER + seg.len
  PROVE  BufferIsLaid'
<1> DEFINE b == IF first THEN <<>> ELSE buffer
           s == IF first THEN <<>> ELSE packed
<1>1. /\ b \in Seq(Cells) /\ s \in Seq(Segments) /\ ServiceIsEmpty(s)
      /\ Len(b) = IF first THEN 0 ELSE offset
      /\ \E pos : LaidAt(pos, b, Len(b), s)
  <2>1. CASE first
    <3>1. b = <<>> /\ s = <<>> /\ Len(<<>>) = 0 BY <2>1
    <3>2. <<>> \in Seq(Cells) /\ <<>> \in Seq(Segments) BY EmptySeq
    <3>3. \E pos : LaidAt(pos, <<>>, 0, <<>>) BY NothingLaid
    <3>4. ServiceIsEmpty(<<>>) BY <3>1 DEF ServiceIsEmpty
    <3>5. QED BY <2>1, <3>1, <3>2, <3>3, <3>4
  <2>2. CASE ~first BY <2>2 DEF BufferIsLaid
  <2>3. QED BY <2>1, <2>2
<1>2. buffer' = b \o Bytes(seg) /\ packed' = Append(s, seg)
      /\ offset' = Len(b) + HEADER + seg.len
  BY <1>1
<1> HIDE DEF b, s
<1>3. PICK pos : LaidAt(pos, b, Len(b), s) BY <1>1
<1>4. \E p : LaidAt(p, b \o Bytes(seg), Len(b) + HEADER + seg.len, Append(s, seg))
  BY <1>1, <1>3, OneMoreLaid
<1>5. \E p : LaidAt(p, buffer', offset', packed') BY <1>2, <1>4
<1>6. buffer' \in Seq(Cells) /\ Len(buffer') = Len(b) + Len(Bytes(seg))
  <2>1. Bytes(seg) \in Seq(Cells) BY BytesOfSegment
  <2>2. b \o Bytes(seg) \in Seq(Cells) /\ Len(b \o Bytes(seg)) = Len(b) + Len(Bytes(seg))
    BY <1>1, <2>1, ConcatProperties
  <2>3. QED BY <1>2, <2>2
<1>7. Len(buffer') = offset'
  <2>1. Len(Bytes(seg)) = HEADER + seg.len /\ seg.len \in Nat BY BytesOfSegment
  <2>2. Len(b) \in Nat /\ HEADER \in Nat BY <1>1, LenProperties, Sizes
  <2>3. QED BY <1>2, <1>6, <2>1, <2>2
<1>8. /\ packed' \in Seq(Segments) /\ Len(packed') = Len(s) + 1
      /\ packed'[Len(s) + 1] = seg /\ \A i \in 1..Len(s) : packed'[i] = s[i]
  <2> DEFINE t == Append(s, seg)
  <2>1. /\ t \in Seq(Segments) /\ Len(t) = Len(s) + 1
        /\ t[Len(s) + 1] = seg /\ \A i \in 1..Len(s) : t[i] = s[i]
    BY <1>1, AppendProperties
  <2> HIDE DEF t
  <2>2. packed' = t BY <1>2 DEF t
  <2>3. QED BY <2>1, <2>2
<1>9. ServiceIsEmpty(packed)'
  <2>1. SUFFICES ASSUME NEW i \in 1..Len(packed'), packed'[i].cmd \in Service
                 PROVE  packed'[i].len = 0
    BY DEF ServiceIsEmpty, Service
  <2>2. Len(s) \in Nat BY <1>1, LenProperties
  <2>3. CASE i = Len(s) + 1 BY <1>8, <2>1, <2>3
  <2>4. CASE i # Len(s) + 1
    <3>1. i \in 1..Len(s) BY <1>8, <2>2, <2>4
    <3>2. QED BY <1>1, <1>8, <2>1, <3>1 DEF ServiceIsEmpty
  <2>5. QED BY <2>3, <2>4
<1>10. QED BY <1>5, <1>6, <1>7, <1>8, <1>9 DEF BufferIsLaid

\* input() starts with a datagram of which it has read nothing.
LEMMA CallbackIsRead ==
  ASSUME BufferIsLaid, offset # 0, NEW lost \in 0..offset, Callback(lost)
  PROVE  /\ WireIsRead' /\ cut' = lost /\ whole' = (whole /\ lost = 0)
         /\ held' = packed /\ read' = <<>> /\ result' = Nothing /\ received' = received
         /\ lost = 0 => reading' /\ Len(wire') = offset
<1>1. /\ buffer \in Seq(Cells) /\ packed \in Seq(Segments) /\ Len(buffer) = offset
      /\ ServiceIsEmpty(packed)
  BY DEF BufferIsLaid
<1>2. PICK pos : LaidAt(pos, buffer, offset, packed) BY DEF BufferIsLaid
<1>3. offset \in Nat /\ offset >= HEADER /\ HEADER \in Nat BY LaidIsLong, Sizes
<1>4. /\ wire' = SubSeq(buffer, 1, Len(buffer) - lost) /\ held' = packed /\ cut' = lost
      /\ whole' = (whole /\ lost = 0) /\ at' = 0 /\ result' = Nothing /\ read' = <<>>
      /\ reading' = (Len(wire') >= HEADER) /\ failed' = (Len(wire') < HEADER)
      /\ received' = received
  BY DEF Callback
<1>5. /\ wire' \in Seq(Cells) /\ Len(wire') + lost = offset
      /\ LaidAt(pos, wire', Len(wire') + lost, packed)
  BY <1>1, <1>2, <1>4, CutLaid
<1>6. Len(wire') \in Nat BY <1>5, LenProperties
<1>7. lost = 0 => reading' /\ ~failed' /\ Len(wire') = offset
  <2> DEFINE l == Len(wire')
  <2>1. l \in Nat /\ l + lost = offset BY <1>5, <1>6
  <2> HIDE DEF l
  <2>2. lost = 0 => l = offset /\ l >= HEADER /\ ~(l < HEADER) BY <1>3, <2>1
  <2>3. QED BY <1>4, <2>2 DEF l
<1>8. <<>> \in Seq(Segments) /\ Len(<<>>) = 0 BY EmptySeq
<1>9. pos[0 + 1] = 0 BY <1>2 DEF LaidAt
<1>10. reading' \in BOOLEAN /\ failed' \in BOOLEAN BY <1>4
<1>11. Len(packed) \in Nat BY <1>1, LenProperties
<1>12. WireIsRead'
  <2>1. /\ wire' \in Seq(Cells) /\ held' \in Seq(Segments) /\ read' \in Seq(Segments)
        /\ cut' \in Nat /\ at' \in 0..Len(wire') /\ reading' \in BOOLEAN /\ failed' \in BOOLEAN
    BY <1>1, <1>3, <1>4, <1>5, <1>6, <1>8, <1>10
  <2>2. ServiceIsEmpty(held)' BY <1>1, <1>4 DEF ServiceIsEmpty, Service
  <2>3. Len(read') <= Len(held') /\ \A i \in 1..Len(read') : read'[i] = held'[i]
    BY <1>4, <1>8, <1>11
  <2>4. \E p : LaidAt(p, wire', Len(wire') + cut', held') /\ at' = p[Len(read') + 1]
    BY <1>4, <1>5, <1>8, <1>9
  <2>5. cut' = 0 => ~failed' /\ (~reading' => Len(read') = Len(held'))
    BY <1>4, <1>7
  <2>6. QED BY <2>1, <2>2, <2>3, <2>4, <2>5 DEF WireIsRead
<1>13. QED BY <1>4, <1>7, <1>12

\* While the rest is long enough for a header, its first byte is the header of
\* the next segment, and what is cut off is the end of that segment at most.
LEMMA NextSegment ==
  ASSUME WireIsRead, HasHeader, NEW pos, LaidAt(pos, wire, Len(wire) + cut, held),
         at = pos[Len(read) + 1]
  PROVE  /\ Len(read) + 1 \in 1..Len(held) /\ header = held[Len(read) + 1]
         /\ header \in Segments
         /\ header.cmd \in Service => header.len = 0
         /\ pos[Len(read) + 1 + 1] = at + HEADER + header.len
         /\ at + HEADER + header.len <= Len(wire) + cut
<1> DEFINE n == Len(held)
           k == Len(read)
           size == Len(wire) + cut
<1>1. /\ n \in Nat /\ k \in Nat /\ k <= n /\ Len(wire) \in Nat /\ cut \in Nat
      /\ at \in 0..Len(wire) /\ held \in Seq(Segments) /\ ServiceIsEmpty(held)
  BY LenProperties DEF WireIsRead
<1>2. /\ pos \in [1..(n + 1) -> 0..size] /\ pos[n + 1] = size
      /\ \A i \in 1..n : /\ pos[i + 1] = pos[i] + HEADER + held[i].len
                         /\ pos[i] < Len(wire) => wire[pos[i] + 1] = held[i]
  BY DEF LaidAt
<1>3. Len(wire) - at >= HEADER /\ HEADER \in Nat \ {0} BY Sizes DEF HasHeader, Rest
<1>4. at < Len(wire) /\ at + HEADER <= Len(wire) /\ at \in Nat
  <2> DEFINE l == Len(wire)
  <2>1. l \in Nat /\ at \in 0..l /\ l - at >= HEADER BY <1>1, <1>3
  <2> HIDE DEF l
  <2>2. at < l /\ at + HEADER <= l /\ at \in Nat BY <1>3, <2>1
  <2>3. QED BY <2>2 DEF l
<1>5. k # n
  <2>1. SUFFICES ASSUME k = n PROVE FALSE OBVIOUS
  <2>2. at = Len(wire) + cut BY <1>2, <2>1
  <2>3. QED BY <1>1, <1>4, <2>2
<1>6. k + 1 \in 1..n /\ k + 1 + 1 \in 1..(n + 1) BY <1>1, <1>5
<1>7. header = held[k + 1] BY <1>2, <1>4, <1>6 DEF header
<1>8. header \in Segments BY <1>1, <1>6, <1>7, ElementOfSeq
<1>9. header.cmd \in Service => header.len = 0 BY <1>1, <1>6, <1>7 DEF ServiceIsEmpty
<1>10. pos[k + 1 + 1] = at + HEADER + header.len BY <1>2, <1>6, <1>7
<1>11. pos[k + 1 + 1] \in 0..size /\ size \in Nat BY <1>1, <1>2, <1>6
<1>12. at + HEADER + header.len <= size BY <1>10, <1>11
<1>13. QED BY <1>6, <1>7, <1>8, <1>9, <1>10, <1>12

\* input() steps over a segment that is all there.
LEMMA ReadOneMore ==
  ASSUME WireIsRead, HasHeader, ~Refused, at' = at + HEADER + header.len,
         read' = Append(read, header), wire' = wire, held' = held, cut' = cut,
         reading' = reading, failed' = failed
  PROVE  WireIsRead'
<1>1. PICK pos : LaidAt(pos, wire, Len(wire) + cut, held) /\ at = pos[Len(read) + 1]
  BY DEF WireIsRead
<1> DEFINE k == Len(read)
           s == Append(read, header)
<1>2. /\ k + 1 \in 1..Len(held) /\ header = held[k + 1] /\ header \in Segments
      /\ pos[k + 1 + 1] = at + HEADER + header.len
  BY <1>1, NextSegment
<1>3. /\ wire \in Seq(Cells) /\ held \in Seq(Segments) /\ read \in Seq(Segments)
      /\ cut \in Nat /\ at \in 0..Len(wire) /\ reading = TRUE /\ failed \in BOOLEAN
      /\ ServiceIsEmpty(held) /\ k \in Nat /\ \A i \in 1..k : read[i] = held[i]
      /\ cut = 0 => ~failed
  BY LenProperties DEF WireIsRead, HasHeader
<1>4. /\ s \in Seq(Segments) /\ Len(s) = k + 1 /\ s[k + 1] = header
      /\ \A i \in 1..k : s[i] = read[i]
  BY <1>2, <1>3, AppendProperties
<1> HIDE DEF k, s
<1>5. \A i \in 1..(k + 1) : s[i] = held[i]
  <2> TAKE i \in 1..(k + 1)
  <2>1. CASE i = k + 1 BY <1>2, <1>4, <2>1
  <2>2. CASE i # k + 1
    <3>1. i \in 1..k BY <1>3, <2>2
    <3>2. QED BY <1>3, <1>4, <3>1
  <2>3. QED BY <2>1, <2>2
<1>6. read' = s BY DEF s
<1>7. at' \in 0..Len(wire)
  <2> DEFINE l == Len(wire)
             h == header.len
  <2>1. l \in Nat /\ at \in 0..l /\ h \in Nat /\ HEADER \in Nat /\ h <= l - at - HEADER
    <3>1. header.len \in Nat BY <1>2, BytesOfSegment
    <3>2. Len(wire) \in Nat /\ HEADER \in Nat BY <1>3, LenProperties, Sizes
    <3>3. ~(header.len > Rest - HEADER) BY DEF Refused
    <3>4. Rest = Len(wire) - at BY DEF Rest
    <3> DEFINE r == Rest
    <3>5. r \in Int BY <1>3, <3>2, <3>4
    <3> HIDE DEF r
    <3>6. h <= r - HEADER
      <4> HIDE DEF h
      <4>1. h \in Nat /\ ~(h > r - HEADER) BY <3>1, <3>3 DEF h, r
      <4>2. QED BY <3>2, <3>5, <4>1
    <3>7. QED BY <1>3, <3>1, <3>2, <3>4, <3>6 DEF r
  <2> HIDE DEF l, h
  <2>2. at + HEADER + h \in 0..l BY <2>1
  <2>3. QED BY <2>2 DEF l, h
<1>8. at' = pos[k + 1 + 1] BY <1>2
<1>9. \E p : LaidAt(p, wire', Len(wire') + cut', held') /\ at' = p[Len(read') + 1]
  BY <1>1, <1>4, <1>6, <1>8
<1>10. Len(read') <= Len(held') /\ \A i \in 1..Len(read') : read'[i] = held'[i]
  BY <1>2, <1>4, <1>5, <1>6
<1>11. ServiceIsEmpty(held)' BY <1>3 DEF ServiceIsEmpty, Service
<1>12. cut' = 0 => ~failed' /\ (~reading' => Len(read') = Len(held')) BY <1>3
<1>13. at' \in 0..Len(wire') /\ read' \in Seq(Segments) BY <1>4, <1>6, <1>7
<1>14. QED BY <1>3, <1>9, <1>10, <1>11, <1>12, <1>13 DEF WireIsRead

\* A whole datagram is never refused.
LEMMA RefusedIsCut ==
  ASSUME WireIsRead, HasHeader, Refused
  PROVE  cut # 0
<1>1. PICK pos : LaidAt(pos, wire, Len(wire) + cut, held) /\ at = pos[Len(read) + 1]
  BY DEF WireIsRead
<1>2. header \in Segments /\ at + HEADER + header.len <= Len(wire) + cut
  BY <1>1, NextSegment
<1>3. header.cmd \in Commands /\ header.len \in Nat BY <1>2, BytesOfSegment
<1>4. header.len > Rest - HEADER /\ Rest = Len(wire) - at BY <1>3 DEF Refused, Rest
<1> DEFINE l == Len(wire)
           h == header.len
<1>5. /\ l \in Nat /\ h \in Nat /\ HEADER \in Nat /\ cut \in Nat /\ at \in 0..l
      /\ at + HEADER + h <= l + cut /\ h > l - at - HEADER
  <2>1. l \in Nat /\ HEADER \in Nat /\ cut \in Nat /\ at \in 0..l
    BY LenProperties, Sizes DEF WireIsRead
  <2> DEFINE r == Rest
  <2>2. r = l - at /\ h > r - HEADER BY <1>4
  <2> HIDE DEF r, l, h
  <2>3. h > l - at - HEADER BY <2>1, <2>2
  <2>4. QED BY <1>2, <1>3, <2>1, <2>3 DEF l, h
<1> HIDE DEF l, h
<1>6. QED BY <1>5

\* When too little is left for a header, a whole datagram has been read.
LEMMA ReadToTheEnd ==
  ASSUME WireIsRead, reading, Rest < HEADER, cut = 0
  PROVE  Len(read) = Len(held) /\ at = Len(wire)
<1>1. PICK pos : LaidAt(pos, wire, Len(wire) + cut, held) /\ at = pos[Len(read) + 1]
  BY DEF WireIsRead
<1> DEFINE n == Len(held)
           k == Len(read)
           l == Len(wire)
<1>2. /\ n \in Nat /\ k \in Nat /\ k <= n /\ l \in Nat /\ at \in 0..l
      /\ held \in Seq(Segments) /\ HEADER \in Nat
  BY LenProperties, Sizes DEF WireIsRead
<1>3. /\ pos \in [1..(n + 1) -> 0..l] /\ pos[n + 1] = l
      /\ \A i \in 1..n : pos[i + 1] = pos[i] + HEADER + held[i].len
  <2>1. l + cut = l BY <1>2
  <2>2. QED BY <1>1, <2>1 DEF LaidAt
<1>4. l - at < HEADER BY DEF Rest
<1>5. k = n
  <2>1. SUFFICES ASSUME k # n PROVE FALSE OBVIOUS
  <2> DEFINE h == held[k + 1].len
             e == pos[k + 1 + 1]
  <2>2. k + 1 \in 1..n /\ k + 1 + 1 \in 1..(n + 1) BY <1>2, <2>1
  <2>3. held[k + 1] \in Segments BY <1>2, <2>2, ElementOfSeq
  <2>4. h \in Nat BY <2>3, BytesOfSegment
  <2>5. e = at + HEADER + h /\ e \in 0..l BY <1>1, <1>3, <2>2
  <2> HIDE DEF h, e, l
  <2>6. QED BY <1>2, <1>4, <2>4, <2>5
<1>6. QED BY <1>1, <1>3, <1>5

LEMMA SameBuffer ==
  ASSUME BufferIsLaid, buffer' = buffer, packed' = packed, offset' = offset
  PROVE  BufferIsLaid'
BY DEF BufferIsLaid

LEMMA SameWire ==
  ASSUME WireIsRead, UNCHANGED inputVars
  PROVE  WireIsRead'
BY DEF WireIsRead, inputVars

\* Datagrams are laid and read as the invariant says.
Exchanged == BufferIsLaid /\ WireIsRead

LEMMA PutKeepsExchanged ==
  ASSUME Exchanged, NEW seg \in Segments, seg.cmd \in Service => seg.len = 0,
         NEW first \in BOOLEAN, first => offset # 0,
         Emplace(seg.len, first), Put(seg, first)
  PROVE  Exchanged'
<1>1. BufferIsLaid'
  BY PutKeepsLaid DEF Exchanged, Emplace, Put
<1>2. WireIsRead'
  <2>1. CASE first
    <3>1. PICK lost \in 0..offset : Callback(lost) BY <2>1 DEF Put, AfterCallback
    <3>2. QED BY <2>1, <3>1, CallbackIsRead DEF Exchanged
  <2>2. CASE ~first
    <3>1. UNCHANGED inputVars BY <2>2 DEF Put, AfterCallback
    <3>2. QED BY <3>1, SameWire DEF Exchanged
  <2>3. QED BY <2>1, <2>2
<1>3. QED BY <1>1, <1>2 DEF Exchanged

\* What each of the three kinds of segment that are put is.
LEMMA PutIs ==
  ASSUME Packed, PutAck \/ PutProbe \/ PutData
  PROVE  \E seg \in Segments, first \in BOOLEAN :
           /\ seg.cmd \in Service => seg.len = 0
           /\ first => offset # 0
           /\ Emplace(seg.len, first) /\ Put(seg, first) /\ ~reading
<1>1. /\ offset \in Nat /\ MSS \in Nat \ {0} /\ data \in Seq(1..MSS)
  BY Sizes DEF Packed, TypeOK
<1>2. IsFull \in BOOLEAN /\ (IsFull => offset # 0) BY <1>1 DEF IsFull
<1>3. CASE PutAck
  <2> DEFINE seg == [cmd |-> "ACK", len |-> 0]
  <2>1. seg \in Segments /\ seg.len = 0 BY DEF Segments, Commands, Service
  <2>2. Emplace(0, IsFull) /\ Put(seg, IsFull) /\ ~reading BY <1>3 DEF PutAck, FlushAck
  <2> HIDE DEF seg
  <2>3. QED BY <1>2, <2>1, <2>2
<1>4. CASE PutProbe
  <2>1. PICK cmd \in {"WASK", "WINS"} : Put([cmd |-> cmd, len |-> 0], IsFull)
    BY <1>4 DEF PutProbe
  <2> DEFINE seg == [cmd |-> cmd, len |-> 0]
  <2>2. seg \in Segments /\ seg.len = 0 BY DEF Segments, Commands, Service
  <2>3. Emplace(0, IsFull) /\ Put(seg, IsFull) /\ ~reading
    BY <1>4, <2>1 DEF PutProbe, FlushProbe
  <2> HIDE DEF seg
  <2>4. QED BY <1>2, <2>2, <2>3
<1>5. CASE PutData
  <2> DEFINE size == Head(data)
             seg == [cmd |-> "PUSH", len |-> size]
             first == DoesNotFit(size)
  <2>1. /\ data # <<>> /\ Emplace(size, first) /\ Put(seg, first) /\ ~reading
    BY <1>5 DEF PutData, FlushData
  <2>2. size \in 1..MSS BY <1>1, <2>1, HeadTailProperties
  <2>3. first \in BOOLEAN /\ (first => offset # 0) BY <1>1, <2>2 DEF DoesNotFit
  <2> HIDE DEF size, first
  <2>4. size \in Nat BY <1>1, <2>2
  <2>5. seg \in Segments /\ seg.len = size /\ seg.cmd \notin Service
    BY <2>4 DEF Segments, Commands, Service
  <2> HIDE DEF seg
  <2>6. QED BY <2>1, <2>3, <2>5
<1>6. QED BY <1>3, <1>4, <1>5

LEMMA ExchangeStarts == ExchangeInit => Exchanged
<1> SUFFICES ASSUME ExchangeInit PROVE Exchanged
  OBVIOUS
<1>1. /\ offset = 0 /\ buffer = <<>> /\ packed = <<>> /\ wire = <<>> /\ held = <<>>
      /\ cut = 0 /\ reading = FALSE /\ failed = FALSE /\ at = 0 /\ read = <<>>
  BY DEF ExchangeInit, Init
<1>2. <<>> \in Seq(Cells) /\ <<>> \in Seq(Segments) /\ Len(<<>>) = 0 BY EmptySeq
<1>3. ServiceIsEmpty(<<>>) BY <1>2 DEF ServiceIsEmpty
<1>4. PICK pos : LaidAt(pos, <<>>, 0, <<>>) /\ pos[1] = 0 BY NothingLaid
<1>5. BufferIsLaid BY <1>1, <1>2, <1>3, <1>4 DEF BufferIsLaid
<1>6. WireIsRead
  <2>1. Len(wire) + cut = 0 /\ Len(read) + 1 = 1 BY <1>1, <1>2
  <2>2. LaidAt(pos, wire, Len(wire) + cut, held) /\ at = pos[Len(read) + 1]
    BY <1>1, <1>4, <2>1
  <2>3. /\ wire \in Seq(Cells) /\ held \in Seq(Segments) /\ read \in Seq(Segments)
        /\ cut \in Nat /\ at \in 0..Len(wire) /\ reading \in BOOLEAN /\ failed \in BOOLEAN
        /\ ServiceIsEmpty(held) /\ Len(read) = 0 /\ Len(held) = 0 /\ ~failed
    <3>1. wire \in Seq(Cells) /\ held \in Seq(Segments) /\ read \in Seq(Segments)
      BY <1>1, <1>2
    <3>2. ServiceIsEmpty(held) BY <1>1, <1>3
    <3>3. Len(wire) = 0 /\ Len(read) = 0 /\ Len(held) = 0 BY <1>1, <1>2
    <3>4. cut \in Nat /\ reading \in BOOLEAN /\ failed \in BOOLEAN /\ ~failed BY <1>1
    <3>5. at \in 0..Len(wire) BY <1>1, <3>3
    <3>6. QED BY <3>1, <3>2, <3>3, <3>4, <3>5
  <2>4. QED BY <2>2, <2>3 DEF WireIsRead
<1>7. QED BY <1>5, <1>6 DEF Exchanged

LEMMA StepKeepsExchanged ==
  Packed /\ Exchanged /\ [ExchangeNext]_exchangeVars => Exchanged'
<1> SUFFICES ASSUME Packed, Exchanged, [ExchangeNext]_exchangeVars PROVE Exchanged'
  OBVIOUS
<1>1. BufferIsLaid /\ WireIsRead BY DEF Exchanged
<1>2. <<>> \in Seq(Cells) /\ <<>> \in Seq(Segments) /\ Len(<<>>) = 0 BY EmptySeq
<1>3. ServiceIsEmpty(<<>>) BY <1>2 DEF ServiceIsEmpty
<1>4. PICK pos : LaidAt(pos, <<>>, 0, <<>>) /\ pos[1] = 0 BY NothingLaid
<1>5. CASE AppSend
  <2>1. buffer' = buffer /\ packed' = packed /\ offset' = offset /\ UNCHANGED inputVars
    BY <1>5 DEF AppSend, Send, bufferVars, flusherVars
  <2>2. QED BY <1>1, <2>1, SameBuffer, SameWire DEF Exchanged
<1>6. CASE StartFlush
  <2>1. /\ buffer' = buffer /\ packed' = packed /\ offset' = offset
        /\ wire' = <<>> /\ held' = <<>> /\ cut' = 0 /\ reading' = FALSE
        /\ failed' = FALSE /\ at' = 0 /\ read' = <<>>
    BY <1>6 DEF StartFlush, Begin, flusherVars
  <2>2. BufferIsLaid' BY <1>1, <2>1, SameBuffer
  <2>3. WireIsRead'
    <3>1. Len(wire') + cut' = 0 /\ Len(read') + 1 = 1 BY <1>2, <2>1
    <3>2. LaidAt(pos, wire', Len(wire') + cut', held') /\ at' = pos[Len(read') + 1]
      BY <1>4, <2>1, <3>1
    <3>3. /\ wire' \in Seq(Cells) /\ held' \in Seq(Segments) /\ read' \in Seq(Segments)
          /\ cut' \in Nat /\ at' \in 0..Len(wire') /\ reading' \in BOOLEAN
          /\ failed' \in BOOLEAN /\ ServiceIsEmpty(held') /\ Len(read') = 0
          /\ Len(held') = 0 /\ ~failed'
      <4>1. wire' \in Seq(Cells) /\ held' \in Seq(Segments) /\ read' \in Seq(Segments)
        BY <1>2, <2>1
      <4>2. ServiceIsEmpty(held') BY <1>3, <2>1
      <4>3. Len(wire') = 0 /\ Len(read') = 0 /\ Len(held') = 0 BY <1>2, <2>1
      <4>4. cut' \in Nat /\ reading' \in BOOLEAN /\ failed' \in BOOLEAN /\ ~failed'
        BY <2>1
      <4>5. at' \in 0..Len(wire') BY <2>1, <4>3
      <4>6. QED BY <4>1, <4>2, <4>3, <4>4, <4>5
    <3>4. QED BY <3>2, <3>3 DEF WireIsRead
  <2>4. QED BY <2>2, <2>3 DEF Exchanged
<1>7. CASE PutAck \/ PutProbe \/ PutData
  <2>1. PICK seg \in Segments, first \in BOOLEAN :
          /\ seg.cmd \in Service => seg.len = 0
          /\ first => offset # 0
          /\ Emplace(seg.len, first) /\ Put(seg, first)
    BY <1>7, PutIs
  <2>2. QED BY <2>1, PutKeepsExchanged
<1>8. CASE EndFlush
  <2>1. /\ offset' = 0 /\ buffer' = <<>> /\ packed' = <<>> /\ AfterCallback(offset # 0)
    BY <1>8 DEF EndFlush, FlushRest
  <2>2. BufferIsLaid' BY <1>2, <1>3, <1>4, <2>1 DEF BufferIsLaid
  <2>3. CASE offset # 0
    <3>1. PICK lost \in 0..offset : Callback(lost) BY <2>1, <2>3 DEF AfterCallback
    <3>2. WireIsRead' BY <1>1, <2>3, <3>1, CallbackIsRead
    <3>3. QED BY <2>2, <3>2 DEF Exchanged
  <2>4. CASE offset = 0
    <3>1. UNCHANGED inputVars BY <2>1, <2>4 DEF AfterCallback
    <3>2. QED BY <1>1, <2>2, <3>1, SameWire DEF Exchanged
  <2>5. QED BY <2>3, <2>4
<1>9. ASSUME NEW taken \in BOOLEAN, ReadPush(taken) PROVE Exchanged'
  <2>1. /\ HasHeader /\ ~Refused /\ at' = at + HEADER + header.len
        /\ read' = Append(read, header) /\ wire' = wire /\ held' = held /\ cut' = cut
        /\ reading' = reading /\ failed' = failed
        /\ buffer' = buffer /\ packed' = packed /\ offset' = offset
    BY <1>9 DEF ReadPush, Skipped, vars, flusherVars, bufferVars
  <2>2. BufferIsLaid' BY <1>1, <2>1, SameBuffer
  <2>3. WireIsRead' BY <1>1, <2>1, ReadOneMore
  <2>4. QED BY <2>2, <2>3 DEF Exchanged
<1>10. CASE ReadService
  <2>1. /\ HasHeader /\ ~Refused /\ header.cmd \in Service /\ at' = at + HEADER
        /\ read' = Append(read, header) /\ wire' = wire /\ held' = held /\ cut' = cut
        /\ reading' = reading /\ failed' = failed
        /\ buffer' = buffer /\ packed' = packed /\ offset' = offset
    BY <1>10 DEF ReadService, vars, flusherVars, bufferVars
  <2>2. BufferIsLaid' BY <1>1, <2>1, SameBuffer
  <2>3. header.len = 0
    <3>1. PICK p : LaidAt(p, wire, Len(wire) + cut, held) /\ at = p[Len(read) + 1]
      BY <1>1 DEF WireIsRead
    <3>2. QED BY <1>1, <2>1, <3>1, NextSegment
  <2>4. at' = at + HEADER + header.len
    <3>1. at \in Int /\ HEADER \in Int
      <4>1. Len(wire) \in Nat /\ at \in 0..Len(wire) BY <1>1, LenProperties DEF WireIsRead
      <4>2. QED BY <4>1, Sizes
    <3>2. QED BY <2>1, <2>3, <3>1
  <2>5. WireIsRead' BY <1>1, <2>1, <2>4, ReadOneMore
  <2>6. QED BY <2>2, <2>5 DEF Exchanged
<1>11. CASE ReadRefused \/ ReadEnds
  <2>1. /\ reading' = FALSE /\ wire' = wire /\ held' = held /\ cut' = cut
        /\ at' = at /\ read' = read
        /\ buffer' = buffer /\ packed' = packed /\ offset' = offset
    BY <1>11 DEF ReadRefused, ReadEnds, vars, flusherVars, bufferVars
  <2>2. failed' \in BOOLEAN
    BY <1>1, <1>11 DEF ReadRefused, ReadEnds, WireIsRead
  <2>3. cut = 0 => ~failed' /\ Len(read) = Len(held)
    <3>1. SUFFICES ASSUME cut = 0 PROVE ~failed' /\ Len(read) = Len(held)
      OBVIOUS
    <3>2. ~ReadRefused BY <1>1, <3>1, RefusedIsCut DEF ReadRefused
    <3>3. ReadEnds BY <1>11, <3>2
    <3>4. reading /\ Rest < HEADER /\ failed' = failed BY <3>3 DEF ReadEnds
    <3>5. ~failed BY <1>1, <3>1 DEF WireIsRead
    <3>6. Len(read) = Len(held) BY <1>1, <3>1, <3>4, ReadToTheEnd
    <3>7. QED BY <3>4, <3>5, <3>6
  <2>4. WireIsRead' BY <1>1, <2>1, <2>2, <2>3 DEF WireIsRead
  <2>5. QED BY <1>1, <2>1, <2>4, SameBuffer DEF Exchanged
<1>12. CASE UNCHANGED exchangeVars
  <2>1. buffer' = buffer /\ packed' = packed /\ offset' = offset /\ UNCHANGED inputVars
    BY <1>12 DEF exchangeVars, vars, flusherVars, bufferVars
  <2>2. QED BY <1>1, <2>1, SameBuffer, SameWire DEF Exchanged
<1>13. QED
  BY <1>5, <1>6, <1>7, <1>8, <1>9, <1>10, <1>11, <1>12 DEF ExchangeNext

LEMMA ExchangedHolds == ExchangeSpec => []Exchanged
<1>1. ExchangeSpec => []Packed BY ExchangeImplementsDatagrams, PackedHolds, PTL
<1>2. QED BY <1>1, ExchangeStarts, StepKeepsExchanged, PTL DEF ExchangeSpec

\* What input() has found in a datagram are the segments that flush() has
\* packed into it, in their order: all of them when nothing has been cut off.
THEOREM DatagramsParseBack == ExchangeSpec => []ParsesBack
<1>1. Exchanged => ParsesBack
  <2> SUFFICES ASSUME Exchanged PROVE ParsesBack
    OBVIOUS
  <2> DEFINE k == Len(read)
  <2>1. /\ at \in 0..Len(wire) /\ held \in Seq(Segments) /\ read \in Seq(Segments)
        /\ k <= Len(held) /\ \A i \in 1..k : read[i] = held[i]
        /\ cut = 0 => ~failed /\ (~reading => k = Len(held))
    BY DEF Exchanged, WireIsRead
  <2>2. k \in Nat /\ Len(held) \in Nat /\ Len(wire) \in Nat
    BY <2>1, LenProperties DEF Exchanged, WireIsRead
  <2>3. read = [i \in 1..k |-> read[i]] BY <2>1, LenProperties
  <2>4. SubSeq(held, 1, k) = [i \in 1..k |-> held[i]]
    <3> HIDE DEF k
    <3>1. \A i \in 1..k : held[i] \in Segments
      <4>1. \A i \in 1..k : i \in 1..Len(held) BY <2>1, <2>2
      <4>2. QED BY <2>1, <4>1, ElementOfSeq
    <3>2. /\ SubSeq(held, 1, k) \in Seq(Segments)
          /\ Len(SubSeq(held, 1, k)) = IF 1 <= k THEN k - 1 + 1 ELSE 0
          /\ \A i \in 1..(k - 1 + 1) : SubSeq(held, 1, k)[i] = held[1 + i - 1]
      BY <2>1, <2>2, <3>1, SubSeqProperties
    <3>3. k - 1 + 1 = k /\ \A i \in 1..k : 1 + i - 1 = i BY <2>2
    <3> DEFINE s == SubSeq(held, 1, k)
    <3>4. s \in Seq(Segments) /\ Len(s) = k /\ \A i \in 1..k : s[i] = held[i]
      BY <2>2, <3>2, <3>3
    <3> HIDE DEF s
    <3>5. s = [i \in 1..k |-> s[i]] BY <3>4, LenProperties
    <3>6. s = [i \in 1..k |-> held[i]] BY <3>4, <3>5
    <3>7. QED BY <3>6 DEF s
  <2>5. read = SubSeq(held, 1, k) BY <2>1, <2>3, <2>4
  <2>6. cut = 0 /\ ~reading => read = held
    <3>1. SUFFICES ASSUME cut = 0, ~reading PROVE read = held OBVIOUS
    <3>2. k = Len(held) BY <2>1, <3>1
    <3>3. SubSeq(held, 1, Len(held)) = held BY <2>1, SubSeqFull
    <3>4. QED BY <2>5, <3>2, <3>3
  <2>7. at <= Len(wire) BY <2>1, <2>2
  <2>8. QED BY <2>1, <2>5, <2>6, <2>7 DEF ParsesBack
<1>2. QED BY <1>1, ExchangedHolds, PTL

-----------------------------------------------------------------------------
(* What both ends count.                                                   *)

LEMMA NumberIsNatural ==
  ASSUME NEW segs \in Seq(Segments), NEW cmd
  PROVE  Number(segs, cmd) \in Nat
<1> DEFINE seg == [cmd |-> "ACK", len |-> 0]
<1>1. seg \in Segments BY DEF Segments, Commands, Service
<1> HIDE DEF seg
<1>2. QED BY <1>1, NumberWithOneMore

\* What is known of the counters, command by command.
LEMMA CountsAre ==
  ASSUME Counted
  PROVE  /\ sent \in Results /\ result \in Results /\ received \in Results
         /\ \A c \in Commands : /\ sent.count[c] \in Nat /\ result.count[c] \in Nat
                                /\ received.count[c] \in Nat
         /\ sent.bytes \in Nat /\ received.bytes \in Nat
         /\ received.dropped \in Nat /\ result.dropped \in Nat
<1>1. sent \in Results /\ result \in Results /\ received \in Results BY DEF Counted
<1>2. QED BY <1>1 DEF Results

LEMMA PutKeepsCounted ==
  ASSUME Exchanged, Counted, ~reading, NEW seg \in Segments, NEW first \in BOOLEAN,
         first => offset # 0, Put(seg, first)
  PROVE  Counted'
<1> DEFINE b == IF first THEN offset ELSE 0
           s == IF first THEN <<>> ELSE packed
           one(c) == IF seg.cmd = c THEN 1 ELSE 0
<1>1. seg.cmd \in Commands BY BytesOfSegment
<1>2. offset \in Nat /\ b \in Nat /\ packed \in Seq(Segments)
  BY LaidIsLong DEF Exchanged, BufferIsLaid
<1>3. sent' = [sent EXCEPT !.count[seg.cmd] = @ + 1, !.bytes = @ + b]
  BY DEF Put
<1>4. /\ sent' \in Results /\ sent'.dropped = sent.dropped /\ sent'.bytes = sent.bytes + b
      /\ \A c \in Commands : sent'.count[c] = sent.count[c] + one(c)
  <2> HIDE DEF b
  <2>1. sent \in Results BY CountsAre
  <2> DEFINE q == [sent EXCEPT !.count[seg.cmd] = @ + 1, !.bytes = @ + b]
  <2>2. b \in Nat BY <1>2
  <2>3. /\ q \in Results /\ q.dropped = sent.dropped /\ q.bytes = sent.bytes + b
        /\ \A c \in Commands : q.count[c] = sent.count[c] + (IF seg.cmd = c THEN 1 ELSE 0)
    BY <1>1, <2>1, <2>2, OneMoreWithBytes
  <2>4. sent' = q BY <1>3
  <2> HIDE DEF q
  <2>5. QED BY <2>3, <2>4
<1>5. s \in Seq(Segments)
  <2>1. <<>> \in Seq(Segments) BY EmptySeq
  <2>2. QED BY <1>2, <2>1
<1>6. packed' = Append(s, seg) BY DEF Put
<1>7. \A c \in Commands : /\ Number(packed', c) = Number(s, c) + one(c)
                          /\ Number(s, c) \in Nat
  BY <1>5, <1>6, NumberWithOneMore
\* Until the callback is called, only what is packed is on its way.
<1>8. whole => /\ \A c \in Service : received.count[c] + Number(packed, c) = sent.count[c]
               /\ received.dropped + Number(packed, "PUSH") <= sent.count["PUSH"]
               /\ received.bytes = sent.bytes
  <2>1. \A c \in Commands : OnItsWay(c) = Number(packed, c)
    <3> TAKE c \in Commands
    <3>1. Number(packed, c) \in Nat BY <1>2, NumberIsNatural
    <3>2. QED BY <3>1 DEF OnItsWay
  <2>2. Service \subseteq Commands /\ "PUSH" \in Commands BY DEF Commands
  <2>3. received.bytes + 0 = received.bytes BY CountsAre
  <2>4. QED BY <2>1, <2>2, <2>3 DEF Counted
<1>9. /\ whole' \in BOOLEAN /\ received' = received /\ result' \in Results
      /\ whole' => whole /\ cut' = 0
      /\ \A c \in Service : result'.count[c] = Number(read', c)
      /\ result'.dropped <= Number(read', "PUSH")
      /\ whole' => /\ \A c \in Commands : OnItsWay(c)' = Number(packed, c) + one(c)
                   /\ (IF reading' THEN Len(wire') ELSE 0) = b
  <2>1. CASE first
    <3>1. PICK lost \in 0..offset : Callback(lost) BY <2>1 DEF Put, AfterCallback
    <3>2. /\ cut' = lost /\ whole' = (whole /\ lost = 0)
          /\ held' = packed /\ read' = <<>> /\ result' = Nothing /\ received' = received
          /\ lost = 0 => reading' /\ Len(wire') = offset
      BY <2>1, <3>1, CallbackIsRead DEF Exchanged
    <3>3. whole \in BOOLEAN BY DEF Counted
    <3>4. /\ \A c \in Service : result'.count[c] = Number(read', c)
          /\ result'.dropped <= Number(read', "PUSH") /\ result' \in Results
      <4>1. \A c : Number(read', c) = 0 BY <3>2, NumberOfNone
      <4>2. Service \subseteq Commands BY DEF Commands
      <4>3. QED BY <3>2, <4>1, <4>2, NothingIsCounted
    <3>5. ASSUME whole' PROVE \A c \in Commands : OnItsWay(c)' = Number(packed, c) + one(c)
      <4> TAKE c \in Commands
      <4>1. reading' /\ held' = packed BY <3>2, <3>5
      <4>2. Number(s, c) = 0 BY <2>1, NumberOfNone
      <4>3. Number(packed', c) = one(c) BY <1>7, <4>2
      <4>4. Number(held', c) = Number(packed, c) /\ Number(packed, c) \in Nat
        BY <1>2, <4>1, NumberIsNatural
      <4>5. OnItsWay(c)' = Number(packed', c) + Number(held', c) BY <4>1 DEF OnItsWay
      <4>6. QED BY <4>3, <4>4, <4>5
    <3>6. whole' => (IF reading' THEN Len(wire') ELSE 0) = b BY <2>1, <3>2
    <3>7. QED BY <3>2, <3>3, <3>4, <3>5, <3>6
  <2>2. CASE ~first
    <3>1. UNCHANGED inputVars BY <2>2 DEF Put, AfterCallback
    <3>2. /\ whole' = whole /\ received' = received /\ result' = result /\ cut' = cut
          /\ read' = read /\ reading' = reading
      BY <3>1 DEF inputVars
    <3>3. \A c \in Commands : OnItsWay(c)' = Number(packed, c) + one(c)
      <4> TAKE c \in Commands
      <4>1. Number(packed', c) = Number(packed, c) + one(c) /\ Number(packed, c) \in Nat
        BY <1>7, <2>2
      <4>2. OnItsWay(c)' = Number(packed', c) + 0 BY <3>2 DEF OnItsWay
      <4>3. QED BY <4>1, <4>2
    <3>4. (IF reading' THEN Len(wire') ELSE 0) = b BY <2>2, <3>2
    <3>5. QED BY <3>2, <3>3, <3>4, CountsAre DEF Counted
  <2>3. QED BY <2>1, <2>2
<1>10. ASSUME whole'
       PROVE  /\ \A c \in Service : received'.count[c] + OnItsWay(c)' = sent'.count[c]
              /\ received'.dropped + OnItsWay("PUSH")' <= sent'.count["PUSH"]
              /\ received'.bytes + (IF reading' THEN Len(wire') ELSE 0) = sent'.bytes
  <2>1. whole /\ received' = received BY <1>9, <1>10
  <2>2. Service \subseteq Commands /\ "PUSH" \in Commands BY DEF Commands
  <2>3. ASSUME NEW c \in Service PROVE received'.count[c] + OnItsWay(c)' = sent'.count[c]
    <3>1. c \in Commands BY <2>2
    <3>2. /\ OnItsWay(c)' = Number(packed, c) + one(c)
          /\ sent'.count[c] = sent.count[c] + one(c)
          /\ received.count[c] + Number(packed, c) = sent.count[c]
      BY <1>4, <1>8, <1>9, <1>10, <2>1, <3>1
    <3>3. Number(packed, c) \in Nat /\ received.count[c] \in Nat /\ one(c) \in Nat
      BY <1>2, <3>1, NumberIsNatural, CountsAre
    <3> DEFINE way == OnItsWay(c)'
               total == sent'.count[c]
               r == received.count[c]
               n == Number(packed, c)
               t == sent.count[c]
               o == one(c)
    <3>4. /\ way = n + o /\ total = t + o /\ r + n = t /\ n \in Nat /\ r \in Nat /\ o \in Nat
      BY <3>2, <3>3
    <3>5. received'.count[c] = r BY <2>1
    <3> HIDE DEF way, total, r, n, t, o
    <3>6. r + way = total BY <3>4
    <3>7. QED BY <3>5, <3>6 DEF way, total
  <2>4. received'.dropped + OnItsWay("PUSH")' <= sent'.count["PUSH"]
    <3>1. /\ OnItsWay("PUSH")' = Number(packed, "PUSH") + one("PUSH")
          /\ sent'.count["PUSH"] = sent.count["PUSH"] + one("PUSH")
          /\ received.dropped + Number(packed, "PUSH") <= sent.count["PUSH"]
      BY <1>4, <1>8, <1>9, <1>10, <2>1, <2>2
    <3>2. /\ Number(packed, "PUSH") \in Nat /\ received.dropped \in Nat
          /\ one("PUSH") \in Nat /\ sent.count["PUSH"] \in Nat
      BY <1>2, <2>2, NumberIsNatural, CountsAre
    <3> DEFINE way == OnItsWay("PUSH")'
               total == sent'.count["PUSH"]
               r == received.dropped
               n == Number(packed, "PUSH")
               t == sent.count["PUSH"]
               o == one("PUSH")
    <3>3. /\ way = n + o /\ total = t + o /\ r + n <= t
          /\ n \in Nat /\ r \in Nat /\ o \in Nat /\ t \in Nat
      BY <3>1, <3>2
    <3>4. received'.dropped = r BY <2>1
    <3> HIDE DEF way, total, r, n, t, o
    <3>5. r + way <= total BY <3>3
    <3>6. QED BY <3>4, <3>5 DEF way, total
  <2>5. received'.bytes + (IF reading' THEN Len(wire') ELSE 0) = sent'.bytes
    BY <1>4, <1>8, <1>9, <1>10, <2>1
  <2>6. QED BY <2>3, <2>4, <2>5
<1>11. {sent, result, received}' \subseteq Results
  <2>1. received' \in Results BY <1>9, CountsAre
  <2>2. QED BY <1>4, <1>9, <2>1
<1> HIDE DEF b, s, one
<1>12. QED BY <1>9, <1>10, <1>11 DEF Counted

\* The last datagram of a flush(), if the buffer holds one.
LEMMA EndKeepsCounted ==
  ASSUME Exchanged, Counted, EndFlush
  PROVE  Counted'
<1>1. /\ packed' = <<>> /\ AfterCallback(offset # 0) /\ ~reading
      /\ sent' = [sent EXCEPT !.bytes = @ + offset]
  BY DEF EndFlush
<1>2. offset \in Nat /\ packed \in Seq(Segments) /\ (offset = 0 => packed = <<>>)
  BY LaidIsLong DEF Exchanged, BufferIsLaid
<1>3. /\ sent' \in Results /\ sent'.dropped = sent.dropped
      /\ sent'.bytes = sent.bytes + offset /\ sent'.count = sent.count
  <2> DEFINE q == [sent EXCEPT !.bytes = @ + offset]
  <2>1. sent \in Results BY CountsAre
  <2>2. q \in Results /\ q.dropped = sent.dropped /\ q.bytes = sent.bytes + offset
        /\ q.count = sent.count
    BY <1>2, <2>1, MoreBytes
  <2>3. sent' = q BY <1>1
  <2> HIDE DEF q
  <2>4. QED BY <2>2, <2>3
<1>4. Service \subseteq Commands /\ "PUSH" \in Commands BY DEF Commands
<1>5. \A c : Number(packed', c) = 0 BY <1>1, NumberOfNone
<1>6. \A c \in Commands : OnItsWay(c) = Number(packed, c) /\ Number(packed, c) \in Nat
  <2> TAKE c \in Commands
  <2>1. Number(packed, c) \in Nat BY <1>2, NumberIsNatural
  <2>2. QED BY <1>1, <2>1 DEF OnItsWay
<1>7. whole => /\ \A c \in Service : received.count[c] + Number(packed, c) = sent.count[c]
               /\ received.dropped + Number(packed, "PUSH") <= sent.count["PUSH"]
               /\ received.bytes = sent.bytes
  <2>1. received.bytes + 0 = received.bytes BY CountsAre
  <2>2. QED BY <1>1, <1>4, <1>6, <2>1 DEF Counted
<1>8. CASE offset # 0
  <2>1. PICK lost \in 0..offset : Callback(lost) BY <1>1, <1>8 DEF AfterCallback
  <2>2. /\ cut' = lost /\ whole' = (whole /\ lost = 0)
        /\ held' = packed /\ read' = <<>> /\ result' = Nothing /\ received' = received
        /\ lost = 0 => reading' /\ Len(wire') = offset
    BY <1>8, <2>1, CallbackIsRead DEF Exchanged
  <2>3. whole \in BOOLEAN BY DEF Counted
  <2>4. /\ \A c \in Service : result'.count[c] = Number(read', c)
        /\ result'.dropped <= Number(read', "PUSH") /\ result' \in Results
    <3>1. \A c : Number(read', c) = 0 BY <2>2, NumberOfNone
    <3>2. QED BY <1>4, <2>2, <3>1, NothingIsCounted
  <2>5. ASSUME whole'
        PROVE  /\ \A c \in Service : received'.count[c] + OnItsWay(c)' = sent'.count[c]
               /\ received'.dropped + OnItsWay("PUSH")' <= sent'.count["PUSH"]
               /\ received'.bytes + (IF reading' THEN Len(wire') ELSE 0) = sent'.bytes
    <3>1. whole /\ reading' /\ held' = packed /\ Len(wire') = offset BY <2>2, <2>5
    <3>2. \A c \in Commands : OnItsWay(c)' = Number(packed, c)
      <4> TAKE c \in Commands
      <4>1. OnItsWay(c)' = 0 + Number(packed, c) BY <1>5, <3>1 DEF OnItsWay
      <4>2. QED BY <1>6, <4>1
    <3>3. QED BY <1>3, <1>4, <1>7, <2>2, <3>1, <3>2
  <2>6. {sent, result, received}' \subseteq Results BY <1>3, <2>2, <2>4, CountsAre
  <2>7. QED BY <2>2, <2>3, <2>4, <2>5, <2>6 DEF Counted
<1>9. CASE offset = 0
  <2>1. UNCHANGED inputVars BY <1>1, <1>9 DEF AfterCallback
  <2>2. /\ whole' = whole /\ received' = received /\ result' = result /\ cut' = cut
        /\ read' = read /\ reading' = reading /\ wire' = wire /\ held' = held
    BY <2>1 DEF inputVars
  <2>3. packed' = packed BY <1>1, <1>2, <1>9
  <2>4. sent'.bytes = sent.bytes /\ sent'.count = sent.count /\ sent' \in Results
    <3>1. sent.bytes + 0 = sent.bytes BY CountsAre
    <3>2. QED BY <1>3, <1>9, <3>1
  <2>5. \A c : OnItsWay(c)' = OnItsWay(c) BY <2>2, <2>3 DEF OnItsWay
  <2>6. {sent, result, received}' \subseteq Results BY <2>2, <2>4, CountsAre
  <2>7. QED BY <2>2, <2>4, <2>5, <2>6 DEF Counted
<1>10. QED BY <1>8, <1>9

\* One more segment is read and counted: sums are left alone.
LEMMA ReadKeepsCounted ==
  ASSUME Exchanged, Counted, (\E taken \in BOOLEAN : ReadPush(taken)) \/ ReadService
  PROVE  Counted'
<1>1. /\ HasHeader /\ read' = Append(read, header) /\ header.cmd \in Commands
      /\ whole' = whole /\ received' = received /\ cut' = cut /\ sent' = sent
      /\ reading' = reading /\ wire' = wire /\ held' = held /\ packed' = packed
  BY DEF ReadPush, ReadService, bufferVars, Commands
<1>2. PICK pos : LaidAt(pos, wire, Len(wire) + cut, held) /\ at = pos[Len(read) + 1]
  BY DEF Exchanged, WireIsRead
<1>3. header \in Segments /\ read \in Seq(Segments)
  BY <1>1, <1>2, NextSegment DEF Exchanged, WireIsRead
<1>4. \A c : /\ Number(read', c) = Number(read, c) + (IF header.cmd = c THEN 1 ELSE 0)
             /\ Number(read, c) \in Nat
  BY <1>1, <1>3, NumberWithOneMore
<1>5. Service \subseteq Commands /\ "PUSH" \in Commands /\ "PUSH" \notin Service
  BY DEF Commands, Service
<1>6. /\ \A c \in Service : result.count[c] = Number(read, c) /\ result.count[c] \in Nat
      /\ result.dropped <= Number(read, "PUSH") /\ result.dropped \in Nat
      /\ result \in Results
  BY <1>5, CountsAre DEF Counted
<1>7. /\ \A c \in Service : result'.count[c] = Number(read', c)
      /\ result'.dropped <= Number(read', "PUSH") /\ result' \in Results
  <2>1. ASSUME NEW taken \in BOOLEAN, ReadPush(taken)
        PROVE  /\ \A c \in Service : result'.count[c] = Number(read', c)
               /\ result'.dropped <= Number(read', "PUSH") /\ result' \in Results
    <3> DEFINE d == IF taken THEN 0 ELSE 1
    <3>1. result' = [result EXCEPT !.dropped = @ + d] /\ header.cmd = "PUSH"
      BY <2>1 DEF ReadPush
    <3>2. d \in {0, 1} OBVIOUS
    <3> HIDE DEF d
    <3>3. result' = [count |-> result.count, dropped |-> result.dropped + d,
                     bytes |-> result.bytes]
      <4>1. result = [count |-> result.count, dropped |-> result.dropped,
                      bytes |-> result.bytes]
        BY <1>6 DEF Results
      <4>2. QED BY <3>1, <4>1
    <3>4. result'.count = result.count /\ result'.dropped = result.dropped + d
      BY <3>3
    <3>5. result' \in Results
      <4>1. result.dropped + d \in Nat BY <1>6, <3>2
      <4>2. QED BY <1>6, <3>3, <4>1 DEF Results
    <3>6. \A c \in Service : result'.count[c] = Number(read', c)
      <4> TAKE c \in Service
      <4>1. header.cmd # c BY <1>5, <3>1
      <4>2. Number(read', c) = Number(read, c) BY <1>4, <4>1
      <4>3. QED BY <1>6, <3>4, <4>2
    <3>7. result'.dropped <= Number(read', "PUSH")
      <4>1. Number(read', "PUSH") = Number(read, "PUSH") + 1 BY <1>4, <3>1
      <4> DEFINE n == Number(read, "PUSH")
                 o == result.dropped
      <4>2. n \in Nat /\ o \in Nat /\ o <= n BY <1>4, <1>6
      <4> HIDE DEF n, o
      <4>3. o + d <= n + 1 BY <3>2, <4>2
      <4>4. QED BY <3>4, <4>1, <4>3 DEF n, o
    <3>8. QED BY <3>5, <3>6, <3>7
  <2>2. CASE ReadService
    <3>1. result' = [result EXCEPT !.count[header.cmd] = @ + 1] /\ header.cmd \in Service
      BY <2>2 DEF ReadService
    <3> DEFINE q == [result EXCEPT !.count[header.cmd] = @ + 1]
    <3>2. /\ q \in Results /\ q.dropped = result.dropped
          /\ \A c \in Commands :
               q.count[c] = result.count[c] + (IF header.cmd = c THEN 1 ELSE 0)
      BY <1>1, <1>6, OneMoreCounted
    <3>3. result' = q BY <3>1
    <3> HIDE DEF q
    <3>4. \A c \in Service : q.count[c] = Number(read', c)
      <4> TAKE c \in Service
      <4>1. q.count[c] = result.count[c] + (IF header.cmd = c THEN 1 ELSE 0)
        BY <1>5, <3>2
      <4>2. QED BY <1>4, <1>6, <4>1
    <3>5. header.cmd # "PUSH" BY <1>5, <3>1
    <3>6. Number(read', "PUSH") = Number(read, "PUSH") BY <1>4, <3>5
    <3>7. QED BY <1>6, <3>2, <3>3, <3>4, <3>6
  <2>3. QED BY <2>1, <2>2
<1>8. \A c : OnItsWay(c)' = OnItsWay(c) BY <1>1 DEF OnItsWay
<1>9. {sent, result, received}' \subseteq Results BY <1>1, <1>7, CountsAre
<1>10. QED BY <1>1, <1>7, <1>8, <1>9 DEF Counted

\* A datagram has been read to its end, and its result is added to the others.
LEMMA SumKeepsCounted ==
  ASSUME Exchanged, Counted, ReadEnds
  PROVE  Counted'
<1> DEFINE last == [result EXCEPT !.bytes = at]
<1>1. /\ reading /\ Rest < HEADER /\ reading' = FALSE /\ received' = Sum2(received, last)
      /\ whole' = whole /\ cut' = cut /\ sent' = sent /\ result' = result
      /\ read' = read /\ packed' = packed
  BY DEF ReadEnds, bufferVars
<1>2. /\ result \in Results /\ received \in Results /\ at \in Nat
      /\ read \in Seq(Segments) /\ held \in Seq(Segments) /\ packed \in Seq(Segments)
      /\ \A i \in 1..Len(read) : read[i] = held[i]
  <2>1. at \in 0..Len(wire) /\ Len(wire) \in Nat
    BY LenProperties DEF Exchanged, WireIsRead
  <2>2. at \in Nat BY <2>1
  <2>3. QED BY <2>2, CountsAre DEF Exchanged, WireIsRead, BufferIsLaid
<1>3. /\ last.count = result.count /\ last.dropped = result.dropped /\ last.bytes = at
  <2>1. result = [count |-> result.count, dropped |-> result.dropped, bytes |-> result.bytes]
    BY <1>2 DEF Results
  <2>2. last = [count |-> result.count, dropped |-> result.dropped, bytes |-> at] BY <2>1
  <2> HIDE DEF last
  <2>3. QED BY <2>2
<1> HIDE DEF last
<1>4. /\ \A c \in Commands : received'.count[c] = received.count[c] + result.count[c]
      /\ received'.dropped = received.dropped + result.dropped
      /\ received'.bytes = received.bytes + at
      /\ received' \in Results
  <2> DEFINE sum == [c \in Commands |-> received.count[c] + result.count[c]]
  <2>1. received' = [count |-> sum, dropped |-> received.dropped + result.dropped,
                     bytes |-> received.bytes + at]
    BY <1>1, <1>3 DEF Sum2
  <2>2. sum \in [Commands -> Nat] BY CountsAre
  <2>3. \A c \in Commands : sum[c] = received.count[c] + result.count[c] OBVIOUS
  <2> HIDE DEF sum
  <2>4. /\ received'.count = sum /\ received'.dropped = received.dropped + result.dropped
        /\ received'.bytes = received.bytes + at
    BY <2>1
  <2>5. received.dropped + result.dropped \in Nat /\ received.bytes + at \in Nat
    BY <1>2, CountsAre
  <2>6. received' \in Results BY <2>1, <2>2, <2>5 DEF Results
  <2>7. QED BY <2>3, <2>4, <2>6
<1>5. Service \subseteq Commands /\ "PUSH" \in Commands BY DEF Commands
<1>6. \A c : Number(held, c) \in Nat /\ Number(packed, c) \in Nat
  BY <1>2, NumberIsNatural
<1>7. \A c : /\ OnItsWay(c) = Number(packed, c) + Number(held, c)
             /\ OnItsWay(c)' = Number(packed, c)
  <2> TAKE c
  <2>1. OnItsWay(c)' = Number(packed, c) + 0 BY <1>1 DEF OnItsWay
  <2>2. OnItsWay(c) = Number(packed, c) + Number(held, c) BY <1>1 DEF OnItsWay
  <2>3. QED BY <1>6, <2>1, <2>2
<1>8. ASSUME whole
      PROVE  /\ \A c \in Service : received'.count[c] + OnItsWay(c)' = sent'.count[c]
             /\ received'.dropped + OnItsWay("PUSH")' <= sent'.count["PUSH"]
             /\ received'.bytes + (IF reading' THEN Len(wire') ELSE 0) = sent'.bytes
  <2>1. cut = 0 BY <1>8 DEF Counted
  <2>2. Len(read) = Len(held) /\ at = Len(wire)
    BY <1>1, <2>1, ReadToTheEnd DEF Exchanged
  <2>3. \A c : Number(read, c) = Number(held, c)
    <3> TAKE c
    <3>1. {i \in 1..Len(read) : read[i].cmd = c} = {i \in 1..Len(held) : held[i].cmd = c}
      BY <1>2, <2>2
    <3>2. QED BY <3>1 DEF Number
  <2>4. /\ \A c \in Service : received.count[c] + OnItsWay(c) = sent.count[c]
        /\ received.dropped + OnItsWay("PUSH") <= sent.count["PUSH"]
        /\ received.bytes + Len(wire) = sent.bytes
        /\ \A c \in Service : result.count[c] = Number(read, c)
        /\ result.dropped <= Number(read, "PUSH")
    BY <1>1, <1>8 DEF Counted
  <2>5. ASSUME NEW c \in Service PROVE received'.count[c] + OnItsWay(c)' = sent'.count[c]
    <3> DEFINE h == Number(held, c)
               n == Number(packed, c)
               r == received.count[c]
    <3>1. h \in Nat /\ n \in Nat /\ r \in Nat BY <1>5, <1>6, CountsAre
    <3>2. received'.count[c] = r + h BY <1>4, <1>5, <2>3, <2>4
    <3>3. r + (n + h) = sent.count[c] /\ OnItsWay(c)' = n BY <1>7, <2>4
    <3> HIDE DEF h, n, r
    <3>4. (r + h) + n = sent.count[c] BY <3>1, <3>3
    <3>5. QED BY <1>1, <3>2, <3>3, <3>4
  <2>6. received'.dropped + OnItsWay("PUSH")' <= sent'.count["PUSH"]
    <3> DEFINE h == Number(held, "PUSH")
               n == Number(packed, "PUSH")
               r == received.dropped
               d == result.dropped
               t == sent.count["PUSH"]
    <3>1. h \in Nat /\ n \in Nat /\ r \in Nat /\ d \in Nat /\ t \in Nat
      BY <1>5, <1>6, CountsAre
    <3>2. received'.dropped = r + d /\ d <= h BY <1>4, <2>3, <2>4
    <3>3. r + (n + h) <= t /\ OnItsWay("PUSH")' = n BY <1>7, <2>4
    <3> HIDE DEF h, n, r, d
    <3>4. (r + d) + n <= t
      <4> HIDE DEF t
      <4>1. QED BY <3>1, <3>2, <3>3
    <3>5. QED BY <1>1, <3>2, <3>3, <3>4
  <2>7. received'.bytes + (IF reading' THEN Len(wire') ELSE 0) = sent'.bytes
    <3>1. received'.bytes = received.bytes + at BY <1>4
    <3>2. received.bytes + at = sent.bytes BY <2>2, <2>4
    <3>3. sent.bytes + 0 = sent.bytes BY CountsAre
    <3>4. QED BY <1>1, <3>1, <3>2, <3>3
  <2>8. QED BY <2>5, <2>6, <2>7
<1>9. {sent, result, received}' \subseteq Results BY <1>1, <1>4, CountsAre
<1>10. QED BY <1>1, <1>8, <1>9 DEF Counted

LEMMA StepKeepsCounted ==
  Packed /\ Exchanged /\ Counted /\ [ExchangeNext]_exchangeVars => Counted'
<1> SUFFICES ASSUME Packed, Exchanged, Counted, [ExchangeNext]_exchangeVars
             PROVE  Counted'
  OBVIOUS
<1>1. ASSUME UNCHANGED <<packed, sent, inputVars>> PROVE Counted'
  <2>1. /\ packed' = packed /\ sent' = sent /\ received' = received /\ result' = result
        /\ read' = read /\ held' = held /\ wire' = wire /\ reading' = reading
        /\ whole' = whole /\ cut' = cut
    BY <1>1 DEF inputVars
  <2>2. \A c : OnItsWay(c)' = OnItsWay(c) BY <2>1 DEF OnItsWay
  <2>3. QED BY <2>1, <2>2 DEF Counted
<1>2. CASE AppSend BY <1>1, <1>2 DEF AppSend, bufferVars
<1>3. CASE StartFlush
  <2>1. /\ ~flushing /\ packed' = packed /\ sent' = Nothing /\ received' = Nothing
        /\ held' = <<>> /\ cut' = 0 /\ whole' = TRUE /\ reading' = FALSE
        /\ result' = Nothing /\ read' = <<>>
    BY <1>3 DEF StartFlush, Begin
  <2>2. offset = 0 BY <2>1 DEF Packed, Idle
  <2>3. packed' = <<>> BY <2>1, <2>2, LaidIsLong DEF Exchanged
  <2>4. \A c : OnItsWay(c)' = 0
    <3> TAKE c
    <3>1. Number(packed', c) = 0 BY <2>3, NumberOfNone
    <3>2. QED BY <2>1, <3>1 DEF OnItsWay
  <2>5. \A c : Number(read', c) = 0 BY <2>1, NumberOfNone
  <2>6. Service \subseteq Commands /\ "PUSH" \in Commands BY DEF Commands
  <2>7. /\ \A c \in Service : received'.count[c] + OnItsWay(c)' = sent'.count[c]
        /\ received'.dropped + OnItsWay("PUSH")' <= sent'.count["PUSH"]
        /\ received'.bytes + (IF reading' THEN Len(wire') ELSE 0) = sent'.bytes
    BY <2>1, <2>4, <2>6, NothingIsCounted
  <2>8. /\ \A c \in Service : result'.count[c] = Number(read', c)
        /\ result'.dropped <= Number(read', "PUSH")
    BY <2>1, <2>5, <2>6, NothingIsCounted
  <2>9. {sent, result, received}' \subseteq Results BY <2>1, NothingIsCounted
  <2>10. QED BY <2>1, <2>7, <2>8, <2>9 DEF Counted
<1>4. CASE PutAck \/ PutProbe \/ PutData
  <2>1. PICK seg \in Segments, first \in BOOLEAN :
          /\ first => offset # 0
          /\ Put(seg, first) /\ ~reading
    BY <1>4, PutIs
  <2>2. QED BY <2>1, PutKeepsCounted
<1>5. CASE EndFlush BY <1>5, EndKeepsCounted
<1>6. CASE (\E taken \in BOOLEAN : ReadPush(taken)) \/ ReadService
  BY <1>6, ReadKeepsCounted
<1>7. CASE ReadRefused
  <2>1. cut # 0 BY <1>7, RefusedIsCut DEF ReadRefused, Exchanged
  <2>2. ~whole BY <2>1 DEF Counted
  <2>3. /\ packed' = packed /\ sent' = sent /\ received' = received /\ result' = result
        /\ read' = read /\ whole' = whole
    BY <1>7 DEF ReadRefused, bufferVars
  <2>4. QED BY <2>2, <2>3 DEF Counted
<1>8. CASE ReadEnds BY <1>8, SumKeepsCounted
<1>9. CASE UNCHANGED exchangeVars BY <1>1, <1>9 DEF exchangeVars, bufferVars
<1>10. QED
  BY <1>2, <1>3, <1>4, <1>5, <1>6, <1>7, <1>8, <1>9 DEF ExchangeNext

\* When a flush has ended and every datagram has come whole, the counters that
\* input() has returned add up to those that flush() has returned.
THEOREM CountsAlwaysAgree == ExchangeSpec => []CountsAgree
<1>1. ExchangeInit => Counted
  <2> SUFFICES ASSUME ExchangeInit PROVE Counted
    OBVIOUS
  <2>1. /\ packed = <<>> /\ sent = Nothing /\ received = Nothing /\ held = <<>>
        /\ cut = 0 /\ whole = TRUE /\ reading = FALSE /\ result = Nothing /\ read = <<>>
    BY DEF ExchangeInit
  <2>2. \A c : OnItsWay(c) = 0 /\ Number(read, c) = 0
    <3> TAKE c
    <3>1. Number(packed, c) = 0 /\ Number(read, c) = 0 BY <2>1, NumberOfNone
    <3>2. QED BY <2>1, <3>1 DEF OnItsWay
  <2>3. Service \subseteq Commands /\ "PUSH" \in Commands BY DEF Commands
  <2>4. /\ \A c \in Service : received.count[c] + OnItsWay(c) = sent.count[c]
        /\ received.dropped + OnItsWay("PUSH") <= sent.count["PUSH"]
        /\ received.bytes + (IF reading THEN Len(wire) ELSE 0) = sent.bytes
        /\ \A c \in Service : result.count[c] = Number(read, c)
        /\ result.dropped <= Number(read, "PUSH")
    BY <2>1, <2>2, <2>3, NothingIsCounted
  <2>5. {sent, result, received} \subseteq Results BY <2>1, NothingIsCounted
  <2>6. QED BY <2>1, <2>4, <2>5 DEF Counted
<1>2. Packed /\ Exchanged /\ Counted => CountsAgree
  <2> SUFFICES ASSUME Packed, Exchanged, Counted, ~flushing, ~reading, whole
               PROVE  /\ received.bytes = sent.bytes
                      /\ \A c \in Service : received.count[c] = sent.count[c]
                      /\ received.dropped <= sent.count["PUSH"]
    BY DEF CountsAgree
  <2>1. offset = 0 BY DEF Packed, Idle
  <2>2. packed = <<>> BY <2>1, LaidIsLong DEF Exchanged
  <2>3. \A c : OnItsWay(c) = 0
    <3> TAKE c
    <3>1. Number(packed, c) = 0 BY <2>2, NumberOfNone
    <3>2. QED BY <3>1 DEF OnItsWay
  <2>4. Service \subseteq Commands BY DEF Commands
  <2>5. /\ \A c \in Service : received.count[c] + 0 = sent.count[c]
        /\ received.dropped + 0 <= sent.count["PUSH"] /\ received.bytes + 0 = sent.bytes
    BY <2>3 DEF Counted
  <2>6. QED BY <2>4, <2>5, CountsAre
<1>3. ExchangeSpec => []Packed BY ExchangeImplementsDatagrams, PackedHolds, PTL
<1>4. QED BY <1>1, <1>2, <1>3, ExchangedHolds, StepKeepsCounted, PTL DEF ExchangeSpec

=============================================================================
