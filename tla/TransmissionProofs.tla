--------------------------- MODULE TransmissionProofs ---------------------------
(***************************************************************************)
(* Proofs about Transmission: for every number of segments, every limit    *)
(* and every timeout, the deque stays in order, what has been answered is  *)
(* never sent again, fast retransmissions are earned and limited, timeouts *)
(* are waited for, and a dead link is remembered.                          *)
(***************************************************************************)
EXTENDS Transmission, NumberLemmas, SequenceTheorems

\* A fast retransmission was paid for, and what counts towards the next one
\* has not been counted for the last.
Earned(s) ==
  IF fast[s.sn] = 0 THEN s.fastack <= passed[s.sn]
  ELSE fast[s.sn] * (Min(FastResend \ {0}) + 1) + s.fastack <= passed[s.sn]

\* What the history says of a segment in flight.
Accounted(s) ==
  /\ s.sn < snd_nxt
  /\ sent[s.sn] = s.xmit
  /\ Earned(s)
  /\ s.rto <= s.resend_in + age[s.sn]

\* What the history says of the numbers that are not in use yet.
Unused ==
  /\ \A sn \in got : sn < snd_nxt
  /\ \A sn \in Sn : sn >= snd_nxt => sent[sn] = 0 /\ fast[sn] = 0
  /\ \A sn \in Sn : fast[sn] = 0 \/ FastResend \ {0} # {}

Bookkeeping ==
  /\ TypeOK
  /\ BufferInOrder
  /\ NothingAnsweredStays
  /\ FastResendsAreEarned
  /\ DeadLinkIsRemembered
  /\ queued + snd_nxt <= MaxSn
  /\ \A i \in DOMAIN snd_buf : Accounted(snd_buf[i])
  /\ Unused

-----------------------------------------------------------------------------
(* The deque.                                                              *)

Ordered(buf) == \A i, j \in DOMAIN buf : i < j => buf[i].sn < buf[j].sn

\* r holds the segments of buf with these numbers, in the same order.
Holds(r, buf, sns) ==
  /\ r \in Seq(InFlight) /\ Ordered(r)
  /\ \A i \in DOMAIN r : \E j \in DOMAIN buf : r[i] = buf[j]
  /\ Sns(r) = sns

LEMMA Domain ==
  ASSUME NEW S, NEW buf \in Seq(S)
  PROVE  /\ Len(buf) \in Nat /\ DOMAIN buf = 1..Len(buf)
         /\ \A i \in 1..Len(buf) : buf[i] \in S
BY LenProperties, ElementOfSeq

LEMMA SnsAreNaturals ==
  ASSUME NEW buf \in Seq(InFlight)
  PROVE  /\ Len(buf) \in Nat /\ DOMAIN buf = 1..Len(buf)
         /\ \A i \in 1..Len(buf) : buf[i] \in InFlight /\ buf[i].sn \in Nat
<1>1. /\ Len(buf) \in Nat /\ DOMAIN buf = 1..Len(buf)
      /\ \A i \in 1..Len(buf) : buf[i] \in InFlight
  BY Domain
<1>2. MaxSn \in Nat
  BY TransmissionAssumption
<1>3. \A s \in InFlight : s.sn \in Nat
  BY <1>2 DEF InFlight, Sn
<1>4. QED BY <1>1, <1>3

\* The loops stop exactly at the first number that is not below sn.
LEMMA PrefixIs ==
  ASSUME NEW buf \in Seq(InFlight), NEW sn \in Nat
  PROVE  LET n == PrefixBelow(buf, sn) IN
         /\ n \in 0..Len(buf)
         /\ \A i \in 1..n : buf[i].sn < sn
         /\ n < Len(buf) => buf[n + 1].sn >= sn
<1> DEFINE D == {n \in 0..Len(buf) : \A i \in 1..n : buf[i].sn < sn}
           n == PrefixBelow(buf, sn)
<1>1. Len(buf) \in Nat /\ \A i \in 1..Len(buf) : buf[i].sn \in Nat
  BY SnsAreNaturals
<1>2. D \in SUBSET Nat /\ D # {} /\ \A x \in D : x =< Len(buf)
  <2>1. 0 \in D BY <1>1
  <2>2. QED BY <1>1, <2>1
<1>3. n = Max(D)
  BY DEF PrefixBelow
<1>4. n \in D /\ \A x \in D : n >= x
  <2> HIDE DEF D, n
  <2>1. QED BY <1>1, <1>2, <1>3, MaxOfNaturals
<1>5. n \in 0..Len(buf) /\ \A i \in 1..n : buf[i].sn < sn
  BY <1>4
<1> HIDE DEF n
<1>6. ASSUME n < Len(buf), buf[n + 1].sn < sn PROVE FALSE
  <2>1. n + 1 \in 0..Len(buf)
    BY <1>1, <1>5, <1>6
  <2>2. ASSUME NEW i \in 1..(n + 1) PROVE buf[i].sn < sn
    <3>1. i \in 1..n \/ i = n + 1 BY <1>5
    <3>2. QED BY <1>5, <1>6, <3>1
  <2>3. n + 1 \in D
    BY <2>1, <2>2
  <2>4. QED BY <1>4, <1>5, <2>3
<1>7. n < Len(buf) => buf[n + 1].sn >= sn
  <2>1. n < Len(buf) => n + 1 \in 1..Len(buf)
    BY <1>1, <1>5
  <2>2. QED BY <1>1, <1>6, <2>1
<1>8. QED BY <1>5, <1>7 DEF n

\* In an ordered deque that point divides the smaller numbers from the rest.
LEMMA PrefixDivides ==
  ASSUME NEW buf \in Seq(InFlight), Ordered(buf), NEW sn \in Nat
  PROVE  LET n == PrefixBelow(buf, sn) IN
         /\ n \in 0..Len(buf)
         /\ \A i \in 1..Len(buf) : i <= n <=> buf[i].sn < sn
         /\ \A i \in 1..Len(buf) : i > n + 1 => buf[i].sn > sn
<1> DEFINE n == PrefixBelow(buf, sn)
<1>1. /\ n \in 0..Len(buf) /\ \A i \in 1..n : buf[i].sn < sn
      /\ n < Len(buf) => buf[n + 1].sn >= sn
  BY PrefixIs
<1>2. /\ Len(buf) \in Nat /\ DOMAIN buf = 1..Len(buf)
      /\ \A i \in 1..Len(buf) : buf[i].sn \in Nat
  BY SnsAreNaturals
<1> HIDE DEF n
<1>3. ASSUME NEW i \in 1..Len(buf), i > n
      PROVE  buf[i].sn >= sn /\ (i > n + 1 => buf[i].sn > sn)
  <2>1. n + 1 \in 1..Len(buf) /\ n < Len(buf)
    BY <1>1, <1>2, <1>3
  <2>2. i > n + 1 => buf[n + 1].sn < buf[i].sn
    BY <1>2, <2>1 DEF Ordered
  <2>3. i = n + 1 \/ i > n + 1
    BY <1>1, <1>3
  <2>4. buf[n + 1].sn \in Nat /\ buf[i].sn \in Nat /\ buf[n + 1].sn >= sn
    BY <1>1, <1>2, <2>1
  <2>5. QED BY <2>2, <2>3, <2>4
<1>4. \A i \in 1..Len(buf) : i <= n => buf[i].sn < sn
  BY <1>1
<1>5. ASSUME NEW i \in 1..Len(buf)
      PROVE  i <= n <=> buf[i].sn < sn
  <2>1. i > n \/ i <= n BY <1>1
  <2>2. buf[i].sn \in Nat BY <1>2
  <2>3. QED BY <1>3, <1>4, <2>1, <2>2
<1>6. \A i \in 1..Len(buf) : i > n + 1 => buf[i].sn > sn
  BY <1>1, <1>3
<1>7. QED BY <1>1, <1>5, <1>6 DEF n

LEMMA EraseBeforeHolds ==
  ASSUME NEW buf \in Seq(InFlight), Ordered(buf), NEW una \in Nat
  PROVE  Holds(EraseBefore(buf, una), buf, {sn \in Sns(buf) : sn >= una})
<1> DEFINE n == PrefixBelow(buf, una)
           r == EraseBefore(buf, una)
<1>1. n \in 0..Len(buf) /\ \A i \in 1..Len(buf) : i <= n <=> buf[i].sn < una
  BY PrefixDivides
<1>2. /\ Len(buf) \in Nat /\ DOMAIN buf = 1..Len(buf)
      /\ \A i \in 1..Len(buf) : buf[i] \in InFlight /\ buf[i].sn \in Nat
  BY SnsAreNaturals
<1>3. r = SubSeq(buf, n + 1, Len(buf))
  BY DEF EraseBefore
<1> HIDE DEF n, r
<1>4. /\ r \in Seq(InFlight) /\ Len(r) = Len(buf) - n
      /\ \A i \in 1..Len(r) : r[i] = buf[n + i]
  <2>1. n + 1 \in Int /\ Len(buf) \in Int /\ \A i \in (n + 1)..Len(buf) : buf[i] \in InFlight
    BY <1>1, <1>2
  <2> DEFINE m == n + 1
  <2> HIDE DEF m
  <2>2. m \in Int /\ Len(buf) \in Int /\ \A i \in m..Len(buf) : buf[i] \in InFlight
    BY <2>1 DEF m
  <2>3. /\ SubSeq(buf, m, Len(buf)) \in Seq(InFlight)
        /\ Len(SubSeq(buf, m, Len(buf))) = IF m <= Len(buf) THEN Len(buf) - m + 1 ELSE 0
        /\ \A i \in 1..(Len(buf) - m + 1) : SubSeq(buf, m, Len(buf))[i] = buf[m + i - 1]
    BY <2>2, SubSeqProperties
  <2>7. r = SubSeq(buf, m, Len(buf))
    BY <1>3 DEF m
  <2>4. r \in Seq(InFlight) /\ Len(r) = Len(buf) - n
    <3>1. Len(r) = IF m <= Len(buf) THEN Len(buf) - m + 1 ELSE 0
      BY <2>3, <2>7
    <3>2. Len(buf) \in Nat /\ n \in 0..Len(buf) /\ m = n + 1
      BY <1>1, <1>2 DEF m
    <3>3. Len(r) = Len(buf) - n BY <3>1, <3>2
    <3>4. QED BY <2>3, <2>7, <3>3
  <2>5. ASSUME NEW i \in 1..Len(r) PROVE r[i] = buf[n + i]
    <3>1. i \in 1..(Len(buf) - m + 1) /\ m + i - 1 = n + i
      BY <1>1, <1>2, <2>4 DEF m
    <3>2. r[i] = buf[m + i - 1] BY <2>3, <2>7, <3>1
    <3>3. QED BY <3>1, <3>2
  <2>6. QED BY <2>4, <2>5
<1>5. DOMAIN r = 1..Len(r) /\ Len(r) \in Nat
  BY <1>4, Domain
<1>6. \A i \in DOMAIN r : n + i \in DOMAIN buf /\ n + i > n /\ r[i] = buf[n + i]
  BY <1>1, <1>2, <1>4, <1>5
<1>7. Ordered(r)
  <2> SUFFICES ASSUME NEW i \in DOMAIN r, NEW j \in DOMAIN r, i < j
               PROVE  r[i].sn < r[j].sn
    BY DEF Ordered
  <2>1. n + i < n + j BY <1>1, <1>5
  <2>2. buf[n + i].sn < buf[n + j].sn
    BY <1>6, <2>1 DEF Ordered
  <2>3. QED BY <1>6, <2>2
<1>8. Sns(r) = {sn \in Sns(buf) : sn >= una}
  <2>1. ASSUME NEW i \in DOMAIN r PROVE r[i].sn \in Sns(buf) /\ r[i].sn >= una
    <3> DEFINE j == n + i
    <3>1. j \in DOMAIN buf /\ ~(j <= n) /\ r[i] = buf[j]
      BY <1>1, <1>5, <1>6
    <3> HIDE DEF j
    <3>2. ~(buf[j].sn < una) /\ buf[j].sn \in Nat
      BY <1>1, <1>2, <3>1
    <3>3. QED BY <3>1, <3>2 DEF Sns
  <2>2. ASSUME NEW j \in DOMAIN buf, buf[j].sn >= una
        PROVE  buf[j].sn \in Sns(r)
    <3>1. buf[j].sn \in Nat BY <1>2
    <3>2. j > n BY <1>1, <1>2, <2>2, <3>1
    <3>3. j - n \in DOMAIN r /\ n + (j - n) = j BY <1>1, <1>2, <1>4, <1>5, <3>2
    <3>4. r[j - n] = buf[j] BY <1>6, <3>3
    <3>5. QED BY <3>3, <3>4 DEF Sns
  <2>3. QED BY <2>1, <2>2 DEF Sns
<1>9. QED BY <1>4, <1>6, <1>7, <1>8 DEF Holds, r

LEMMA EraseHolds ==
  ASSUME NEW buf \in Seq(InFlight), Ordered(buf), NEW sn \in Nat
  PROVE  Holds(Erase(buf, sn), buf, Sns(buf) \ {sn})
<1> DEFINE n == PrefixBelow(buf, sn)
           k == n + 1
<1>1. /\ n \in 0..Len(buf)
      /\ \A i \in 1..Len(buf) : i <= n <=> buf[i].sn < sn
      /\ \A i \in 1..Len(buf) : i > k => buf[i].sn > sn
  BY PrefixDivides
<1>2. /\ Len(buf) \in Nat /\ DOMAIN buf = 1..Len(buf)
      /\ \A i \in 1..Len(buf) : buf[i] \in InFlight /\ buf[i].sn \in Nat
  BY SnsAreNaturals
<1>3. Erase(buf, sn) = IF n < Len(buf) /\ buf[k].sn = sn
                       THEN RemoveAt(buf, k) ELSE buf
  BY DEF Erase
<1>4. k \in 1..(Len(buf) + 1) /\ n = k - 1
  BY <1>1, <1>2
<1> HIDE DEF n, k
<1>5. ASSUME ~(n < Len(buf) /\ buf[k].sn = sn)
      PROVE  Holds(Erase(buf, sn), buf, Sns(buf) \ {sn})
  <2>1. ASSUME NEW i \in DOMAIN buf PROVE buf[i].sn # sn
    <3>1. i <= n \/ i = k \/ i > k BY <1>2, <1>4
    <3>2. buf[i].sn \in Nat BY <1>2
    <3>3. i = k => n < Len(buf) BY <1>2, <1>4
    <3>4. QED BY <1>1, <1>2, <1>5, <3>1, <3>2, <3>3
  <2>2. Sns(buf) \ {sn} = Sns(buf) BY <2>1 DEF Sns
  <2>3. QED BY <1>3, <1>5, <2>2 DEF Holds
<1>6. ASSUME n < Len(buf), buf[k].sn = sn
      PROVE  Holds(Erase(buf, sn), buf, Sns(buf) \ {sn})
  <2> DEFINE r == SubSeq(buf, 1, k - 1) \o SubSeq(buf, k + 1, Len(buf))
             at(i) == IF i < k THEN i ELSE i + 1
  <2>1. k \in DOMAIN buf BY <1>2, <1>4, <1>6
  <2>2. /\ r \in Seq(InFlight) /\ Len(r) = Len(buf) - 1
        /\ \A i \in 1..Len(r) : r[i] = buf[at(i)]
    <3> DEFINE a == SubSeq(buf, 1, k - 1)
               b == SubSeq(buf, k + 1, Len(buf))
    <3>1. /\ a \in Seq(InFlight) /\ Len(a) = k - 1
          /\ \A i \in 1..(k - 1) : a[i] = buf[i]
      BY <1>2, <2>1, SubSeqProperties
    <3>2. /\ b \in Seq(InFlight) /\ Len(b) = Len(buf) - k
          /\ \A i \in 1..(Len(buf) - k) : b[i] = buf[k + i]
      <4> DEFINE m == k + 1
      <4>1. m \in Int /\ Len(buf) \in Int /\ \A i \in m..Len(buf) : buf[i] \in InFlight
        BY <1>2, <2>1
      <4> HIDE DEF m
      <4>2. /\ SubSeq(buf, m, Len(buf)) \in Seq(InFlight)
            /\ Len(SubSeq(buf, m, Len(buf))) = IF m <= Len(buf) THEN Len(buf) - m + 1 ELSE 0
            /\ \A i \in 1..(Len(buf) - m + 1) : SubSeq(buf, m, Len(buf))[i] = buf[m + i - 1]
        BY <4>1, SubSeqProperties
      <4>3. b = SubSeq(buf, m, Len(buf)) BY DEF m
      <4> HIDE DEF b
      <4>4. b \in Seq(InFlight) /\ Len(b) = Len(buf) - k
        BY <1>2, <2>1, <4>2, <4>3 DEF m
      <4>5. ASSUME NEW i \in 1..(Len(buf) - k) PROVE b[i] = buf[k + i]
        <5>1. i \in 1..(Len(buf) - m + 1) /\ m + i - 1 = k + i
          BY <1>2, <2>1 DEF m
        <5>2. b[i] = buf[m + i - 1] BY <4>2, <4>3, <5>1
        <5>3. QED BY <5>1, <5>2
      <4>6. QED BY <4>4, <4>5
    <3>3. r = a \o b OBVIOUS
    <3> HIDE DEF a, b, r, at
    <3>4. /\ r \in Seq(InFlight) /\ Len(r) = Len(a) + Len(b)
          /\ \A i \in 1..Len(a) + Len(b) : r[i] = IF i <= Len(a) THEN a[i] ELSE b[i - Len(a)]
      BY <3>1, <3>2, <3>3, ConcatProperties
    <3>5. Len(r) = Len(buf) - 1 BY <1>2, <2>1, <3>1, <3>2, <3>4
    <3>6. ASSUME NEW i \in 1..Len(r) PROVE r[i] = buf[at(i)]
      <4>1. r[i] = IF i <= Len(a) THEN a[i] ELSE b[i - Len(a)]
        BY <3>4
      <4>2. CASE i < k
        <5>1. i <= Len(a) /\ i \in 1..(k - 1) BY <1>2, <2>1, <3>1, <4>2
        <5>2. QED BY <3>1, <4>1, <4>2, <5>1 DEF at
      <4>3. CASE ~(i < k)
        <5>1. ~(i <= Len(a)) /\ i - Len(a) \in 1..(Len(buf) - k) /\ k + (i - Len(a)) = i + 1
          BY <1>2, <2>1, <3>1, <3>5, <4>3
        <5>2. b[i - Len(a)] = buf[k + (i - Len(a))] BY <3>2, <5>1
        <5>3. QED BY <4>1, <4>3, <5>1, <5>2 DEF at
      <4>4. QED BY <4>2, <4>3
    <3>7. QED BY <3>4, <3>5, <3>6
  <2>3. Erase(buf, sn) = r BY <1>3, <1>6 DEF RemoveAt
  <2> HIDE DEF r
  <2>4. DOMAIN r = 1..Len(r) /\ Len(r) \in Nat BY <2>2, Domain
  <2>5. \A i \in DOMAIN r : at(i) \in DOMAIN buf /\ at(i) # k
    BY <1>2, <2>1, <2>2, <2>4
  <2>6. \A i, j \in DOMAIN r : i < j => at(i) < at(j)
    BY <1>2, <2>1, <2>2, <2>4
  <2>7. \A j \in DOMAIN buf : j # k => \E i \in DOMAIN r : at(i) = j
    <3> SUFFICES ASSUME NEW j \in DOMAIN buf, j # k
                 PROVE  \E i \in DOMAIN r : at(i) = j
      OBVIOUS
    <3>1. CASE j < k
      <4>1. j \in DOMAIN r /\ at(j) = j BY <1>2, <2>1, <2>2, <2>4, <3>1
      <4>2. QED BY <4>1
    <3>2. CASE ~(j < k)
      <4>1. j - 1 \in DOMAIN r /\ at(j - 1) = j BY <1>2, <2>1, <2>2, <2>4, <3>2
      <4>2. QED BY <4>1
    <3>3. QED BY <3>1, <3>2
  <2> HIDE DEF at
  <2>8. Ordered(r)
    BY <2>2, <2>4, <2>5, <2>6 DEF Ordered
  <2>9. Sns(r) = Sns(buf) \ {sn}
    <3>1. ASSUME NEW j \in DOMAIN buf, j # k PROVE buf[j].sn # sn
      <4>1. j < k \/ k < j BY <1>2, <2>1, <3>1
      <4>2. buf[j].sn < buf[k].sn \/ buf[k].sn < buf[j].sn
        BY <2>1, <4>1 DEF Ordered
      <4>3. buf[j].sn \in Nat /\ buf[k].sn \in Nat BY <1>2, <2>1
      <4>4. QED BY <1>6, <4>2, <4>3
    <3>2. ASSUME NEW i \in DOMAIN r PROVE r[i].sn \in Sns(buf) \ {sn}
      <4>1. r[i] = buf[at(i)] /\ at(i) \in DOMAIN buf /\ at(i) # k
        BY <2>2, <2>4, <2>5
      <4>2. QED BY <3>1, <4>1 DEF Sns
    <3>3. ASSUME NEW j \in DOMAIN buf, buf[j].sn # sn PROVE buf[j].sn \in Sns(r)
      <4>1. PICK i \in DOMAIN r : at(i) = j BY <1>6, <2>7, <3>3
      <4>2. r[i] = buf[j] BY <2>2, <2>4, <4>1
      <4>3. QED BY <4>2 DEF Sns
    <3>4. QED BY <3>2, <3>3 DEF Sns
  <2>10. \A i \in DOMAIN r : \E j \in DOMAIN buf : r[i] = buf[j]
    BY <2>2, <2>4, <2>5
  <2>11. QED BY <2>2, <2>3, <2>8, <2>9, <2>10 DEF Holds
<1>7. QED BY <1>5, <1>6

LEMMA RemoteUnaIs ==
  ASSUME NEW buf \in Seq(InFlight), Ordered(buf), NEW nxt \in Nat,
         \A sn \in Sns(buf) : sn < nxt
  PROVE  /\ RemoteUna(buf, nxt) \in 0..nxt
         /\ \A sn \in Sns(buf) : RemoteUna(buf, nxt) <= sn
         /\ buf = <<>> => RemoteUna(buf, nxt) = nxt
         /\ buf # <<>> => RemoteUna(buf, nxt) \in Sns(buf)
<1>1. /\ Len(buf) \in Nat /\ DOMAIN buf = 1..Len(buf)
      /\ \A i \in 1..Len(buf) : buf[i] \in InFlight /\ buf[i].sn \in Nat
  BY SnsAreNaturals
<1>2. CASE buf = <<>>
  <2>1. RemoteUna(buf, nxt) = nxt BY <1>2 DEF RemoteUna
  <2>2. Sns(buf) = {} BY <1>2 DEF Sns
  <2>3. QED BY <1>2, <2>1, <2>2
<1>3. CASE buf # <<>>
  <2>1. 1 \in DOMAIN buf BY <1>1, <1>3, EmptySeq
  <2>2. RemoteUna(buf, nxt) = buf[1].sn
    BY <1>3 DEF RemoteUna
  <2>3. buf[1].sn \in Sns(buf) /\ buf[1].sn \in Nat BY <1>1, <2>1 DEF Sns
  <2>4. \A i \in DOMAIN buf : buf[1].sn <= buf[i].sn
    <3> TAKE i \in DOMAIN buf
    <3>1. i = 1 \/ 1 < i BY <1>1
    <3>2. 1 < i => buf[1].sn < buf[i].sn BY <2>1 DEF Ordered
    <3>3. buf[i].sn \in Nat BY <1>1
    <3>4. QED BY <2>3, <3>1, <3>2, <3>3
  <2>5. \A sn \in Sns(buf) : buf[1].sn <= sn BY <2>4 DEF Sns
  <2>6. QED BY <1>3, <2>2, <2>3, <2>5
<1>4. QED BY <1>2, <1>3

\* Taking segments out of the deque never moves snd_una back.
LEMMA RemoteUnaGrows ==
  ASSUME NEW buf \in Seq(InFlight), Ordered(buf), NEW nxt \in Nat,
         \A sn \in Sns(buf) : sn < nxt,
         NEW r, NEW sns \in SUBSET Sns(buf), Holds(r, buf, sns)
  PROVE  RemoteUna(r, nxt) \in Nat /\ RemoteUna(buf, nxt) <= RemoteUna(r, nxt)
<1>1. r \in Seq(InFlight) /\ Ordered(r) /\ \A sn \in Sns(r) : sn < nxt
  BY DEF Holds
<1>2. /\ RemoteUna(r, nxt) \in 0..nxt
      /\ r = <<>> => RemoteUna(r, nxt) = nxt
      /\ r # <<>> => RemoteUna(r, nxt) \in Sns(r)
  BY <1>1, RemoteUnaIs
<1>3. /\ RemoteUna(buf, nxt) \in 0..nxt
      /\ \A sn \in Sns(buf) : RemoteUna(buf, nxt) <= sn
  BY RemoteUnaIs
<1>4. Sns(r) \subseteq Sns(buf) BY DEF Holds
<1>5. QED BY <1>2, <1>3, <1>4

LEMMA AckReceivedHolds ==
  ASSUME NEW buf \in Seq(InFlight), Ordered(buf), NEW nxt \in Nat,
         \A x \in Sns(buf) : x < nxt, NEW sn \in Nat
  PROVE  Holds(AckReceived(buf, nxt, sn), buf, Sns(buf) \ {sn})
<1>1. CASE ShouldAcknowledge(RemoteUna(buf, nxt), nxt, sn)
  BY <1>1, EraseHolds DEF AckReceived
<1>2. CASE ~ShouldAcknowledge(RemoteUna(buf, nxt), nxt, sn)
  <2>1. sn \notin Sns(buf)
    BY <1>2, RemoteUnaIs DEF ShouldAcknowledge
  <2>2. Sns(buf) \ {sn} = Sns(buf) BY <2>1
  <2>3. AckReceived(buf, nxt, sn) = buf BY <1>2 DEF AckReceived
  <2>4. QED BY <2>2, <2>3 DEF Holds
<1>3. QED BY <1>1, <1>2

LEMMA HoldsIsTransitive ==
  ASSUME NEW a, NEW b, NEW c, NEW x, NEW y, Holds(b, a, x), Holds(c, b, y)
  PROVE  Holds(c, a, y)
<1>1. \A i \in DOMAIN c : \E j \in DOMAIN a : c[i] = a[j]
  <2> TAKE i \in DOMAIN c
  <2>1. PICK j \in DOMAIN b : c[i] = b[j] BY DEF Holds
  <2>2. PICK k \in DOMAIN a : b[j] = a[k] BY DEF Holds
  <2>3. QED BY <2>1, <2>2
<1>2. QED BY <1>1 DEF Holds

-----------------------------------------------------------------------------
(* Types.                                                                  *)

LEMMA Limits ==
  /\ SndWnd \in Nat \ {0} /\ MaxSn \in Nat /\ MaxXmit \in Nat
  /\ Elapse \in Nat \ {0} /\ CongestionWindow \in BOOLEAN
  /\ FastResend \subseteq Nat /\ FastLimit \subseteq Nat /\ NoDelay \subseteq Nat
  /\ DeadLink \subseteq Nat \ {0} /\ Rto \subseteq Nat \ {0} /\ RemoteWindow \subseteq Nat
  /\ Sn \subseteq Nat
BY TransmissionAssumption DEF Sn

LEMMA Types ==
  ASSUME TypeOK
  PROVE  /\ fastresend \in Nat /\ fastlimit \in Nat /\ nodelay \in Nat /\ dead_link \in Nat
         /\ queued \in Nat /\ snd_una \in Nat /\ snd_nxt \in Nat /\ rmt_wnd \in Nat
         /\ snd_buf \in Seq(InFlight) /\ rx_rto \in Nat \ {0} /\ cc \in Congestion
         /\ got \subseteq Sn /\ answered \subseteq got
<1>1. \A x \in 0..MaxSn : x \in Nat BY Limits
<1>2. QED BY <1>1, Limits DEF TypeOK

\* Types of a segment and of what the history says of it.
LEMMA SegmentTypes ==
  ASSUME TypeOK, NEW s \in InFlight
  PROVE  /\ s.sn \in Sn /\ s.sn \in Nat /\ s.xmit \in Nat \ {0} /\ s.fastack \in Nat
         /\ s.rto \in Nat /\ s.resend_in \in Nat
         /\ s = [sn |-> s.sn, xmit |-> s.xmit, fastack |-> s.fastack, rto |-> s.rto,
                 resend_in |-> s.resend_in]
         /\ sent[s.sn] \in Nat /\ fast[s.sn] \in Nat /\ passed[s.sn] \in Nat
         /\ age[s.sn] \in Nat
<1>1. /\ s.sn \in Sn /\ s.xmit \in 1..MaxXmit /\ s.fastack \in Nat
      /\ s.rto \in Nat /\ s.resend_in \in Nat
      /\ s = [sn |-> s.sn, xmit |-> s.xmit, fastack |-> s.fastack, rto |-> s.rto,
              resend_in |-> s.resend_in]
  BY DEF InFlight
<1>2. s.sn \in Nat /\ s.xmit \in Nat \ {0} BY <1>1, Limits
<1>3. {sent, fast, passed, age} \subseteq [Sn -> Nat] BY DEF TypeOK
<1>4. QED BY <1>1, <1>2, <1>3

LEMMA FirstMissingIs ==
  ASSUME Bookkeeping
  PROVE  /\ FirstMissing \in 0..snd_nxt
         /\ 0..(FirstMissing - 1) \subseteq got
<1> DEFINE D == (0..snd_nxt) \ got
<1>1. snd_nxt \in Nat BY Types DEF Bookkeeping
<1>2. D \in SUBSET Nat /\ snd_nxt \in D
  BY <1>1 DEF Bookkeeping, Unused
<1>3. Min(D) \in D /\ \A x \in D : Min(D) =< x
  BY <1>2, MinOfNaturals
<1>4. FirstMissing = Min(D) BY DEF FirstMissing
<1>5. QED BY <1>1, <1>3, <1>4

-----------------------------------------------------------------------------
(* A datagram that is read.                                                *)

LEMMA BufferFacts ==
  ASSUME Bookkeeping
  PROVE  /\ snd_buf \in Seq(InFlight) /\ Ordered(snd_buf) /\ snd_nxt \in Nat
         /\ \A sn \in Sns(snd_buf) : sn < snd_nxt
<1>1. snd_buf \in Seq(InFlight) /\ snd_nxt \in Nat
  BY Types DEF Bookkeeping
<1>2. Ordered(snd_buf)
  BY DEF Bookkeeping, BufferInOrder, Ordered
<1>3. \A i \in DOMAIN snd_buf : snd_buf[i].sn < snd_nxt
  BY DEF Bookkeeping, Accounted
<1>4. QED BY <1>1, <1>2, <1>3 DEF Sns

\* The header of a segment, whatever it acknowledges besides una.
LEMMA ReadKeepsBooks ==
  ASSUME Bookkeeping,
         NEW wnd \in RemoteWindow, NEW una \in 0..FirstMissing,
         NEW gone \in SUBSET got, NEW buf,
         Holds(buf, snd_buf, {x \in Sns(snd_buf) : x >= una} \ gone),
         ReadHeader(wnd, buf),
         answered' = answered \union (0..(una - 1)) \union gone,
         maxack' \in got \union {Invalid},
         rx_rto' \in Rto
  PROVE  Bookkeeping'
<1> DEFINE kept == {x \in Sns(snd_buf) : x >= una} \ gone
<1>1. /\ buf \in Seq(InFlight) /\ Ordered(buf) /\ Sns(buf) = kept
      /\ \A i \in DOMAIN buf : \E j \in DOMAIN snd_buf : buf[i] = snd_buf[j]
  BY DEF Holds
<1>2. /\ snd_buf \in Seq(InFlight) /\ Ordered(snd_buf) /\ snd_nxt \in Nat
      /\ \A sn \in Sns(snd_buf) : sn < snd_nxt
  BY BufferFacts
<1>3. FirstMissing \in 0..snd_nxt /\ 0..(FirstMissing - 1) \subseteq got
  BY FirstMissingIs
<1>4. una \in Nat /\ 0..(una - 1) \subseteq got
  BY <1>2, <1>3
<1>5. /\ snd_buf' = buf /\ snd_una' = RemoteUna(buf, snd_nxt) /\ rmt_wnd' = wnd
      /\ reading' = TRUE /\ prev_una' = IF reading THEN prev_una ELSE snd_una
      /\ UNCHANGED <<configVars, queued, snd_nxt, cc, dead, got, sent, fast, passed,
                     age>>
  BY DEF ReadHeader
<1>6. /\ RemoteUna(buf, snd_nxt) \in 0..snd_nxt
      /\ RemoteUna(snd_buf, snd_nxt) <= RemoteUna(buf, snd_nxt)
  <2>1. kept \in SUBSET Sns(snd_buf) OBVIOUS
  <2>2. Holds(buf, snd_buf, kept) OBVIOUS
  <2>3. \A sn \in Sns(buf) : sn < snd_nxt BY <1>1, <1>2
  <2> HIDE DEF kept
  <2>4. RemoteUna(snd_buf, snd_nxt) <= RemoteUna(buf, snd_nxt)
    BY <1>2, <2>1, <2>2, RemoteUnaGrows
  <2>5. RemoteUna(buf, snd_nxt) \in 0..snd_nxt
    BY <1>1, <1>2, <2>3, RemoteUnaIs
  <2>6. QED BY <2>4, <2>5
<1>7. TypeOK'
  <2>1. snd_una' \in 0..MaxSn
    <3>1. snd_nxt \in 0..MaxSn BY DEF Bookkeeping, TypeOK
    <3>2. QED BY <1>5, <1>6, <3>1, Limits
  <2>2. prev_una' \in 0..snd_una'
    <3>1. snd_una = RemoteUna(snd_buf, snd_nxt) /\ prev_una \in 0..snd_una
      BY DEF Bookkeeping, BufferInOrder, TypeOK
    <3>2. snd_una \in Nat BY Types DEF Bookkeeping
    <3>3. snd_una' \in Nat /\ snd_una <= snd_una' BY <1>2, <1>5, <1>6, <3>1
    <3>4. prev_una' \in {prev_una, snd_una} BY <1>5
    <3>5. QED BY <3>1, <3>2, <3>3, <3>4
  <2>3. answered' \subseteq got'
    <3>1. answered \subseteq got BY DEF Bookkeeping, TypeOK
    <3>2. QED BY <1>4, <1>5, <3>1
  <2>4. TypeOK BY DEF Bookkeeping
  <2>5. snd_buf' \in Seq(InFlight) BY <1>1, <1>5
  <2>6. QED BY <1>5, <2>1, <2>2, <2>3, <2>4, <2>5 DEF TypeOK, configVars
<1>8. BufferInOrder'
  <2>1. \A i, j \in DOMAIN buf : i < j => buf[i].sn < buf[j].sn
    BY <1>1 DEF Ordered
  <2>2. (0..(snd_nxt - 1)) \ got \subseteq Sns(buf)
    <3>1. SUFFICES ASSUME NEW x \in 0..(snd_nxt - 1), x \notin got PROVE x \in kept
      BY <1>1
    <3>2. x \in Sns(snd_buf) BY <3>1 DEF Bookkeeping, BufferInOrder
    <3>3. x \notin 0..(una - 1) /\ x \in Nat BY <1>4, <3>1
    <3>4. QED BY <1>4, <3>1, <3>2, <3>3
  <2>3. QED BY <1>5, <2>1, <2>2 DEF BufferInOrder
<1>9. NothingAnsweredStays'
  <2>1. Sns(snd_buf) \intersect answered = {}
    BY DEF Bookkeeping, NothingAnsweredStays
  <2>2. \A x \in kept : x \notin answered' 
    <3> TAKE x \in kept
    <3>1. x \notin 0..(una - 1) BY <1>4
    <3>2. QED BY <2>1, <3>1
  <2>3. Sns(snd_buf)' = kept BY <1>1, <1>5 DEF Sns
  <2>4. QED BY <2>2, <2>3 DEF NothingAnsweredStays
<1>10. \A i \in DOMAIN snd_buf' : Accounted(snd_buf[i])'
  <2> SUFFICES ASSUME NEW i \in DOMAIN buf PROVE Accounted(snd_buf[i])'
    BY <1>5
  <2>1. PICK j \in DOMAIN snd_buf : buf[i] = snd_buf[j] BY <1>1
  <2>2. Accounted(snd_buf[j]) BY DEF Bookkeeping
  <2>3. QED BY <1>5, <2>1, <2>2 DEF Accounted, Earned
<1>11. FastResendsAreEarned' /\ DeadLinkIsRemembered'
  BY <1>5 DEF Bookkeeping, FastResendsAreEarned, DeadLinkIsRemembered
<1>12. (queued + snd_nxt <= MaxSn)' /\ Unused'
  BY <1>5 DEF Bookkeeping, Unused
<1>13. QED
  BY <1>7, <1>8, <1>9, <1>10, <1>11, <1>12 DEF Bookkeeping

LEMMA ReadOtherKeepsBooks ==
  ASSUME Bookkeeping, NEW wnd \in RemoteWindow, NEW una \in 0..FirstMissing,
         ReadOther(wnd, una)
  PROVE  Bookkeeping'
<1> DEFINE buf == EraseBefore(snd_buf, una)
<1>1. snd_buf \in Seq(InFlight) /\ Ordered(snd_buf) /\ snd_nxt \in Nat
  BY BufferFacts
<1>2. una \in Nat BY <1>1, FirstMissingIs
<1>3. Holds(buf, snd_buf, {x \in Sns(snd_buf) : x >= una} \ {})
  BY <1>1, <1>2, EraseBeforeHolds
<1>4. /\ ReadHeader(wnd, buf)
      /\ answered' = answered \union (0..(una - 1)) \union {}
      /\ maxack' = IF reading THEN maxack ELSE Invalid
      /\ rx_rto' = rx_rto
  BY DEF ReadOther
<1>5. maxack' \in got \union {Invalid} /\ rx_rto' \in Rto
  BY <1>4 DEF Bookkeeping, TypeOK
<1>6. {} \in SUBSET got OBVIOUS
<1> HIDE DEF buf
<1>7. QED BY <1>3, <1>4, <1>5, <1>6, ReadKeepsBooks

LEMMA ReadAckKeepsBooks ==
  ASSUME Bookkeeping, NEW wnd \in RemoteWindow, NEW una \in 0..FirstMissing,
         NEW sn \in got, ReadAck(wnd, una, sn)
  PROVE  Bookkeeping'
<1> DEFINE a == EraseBefore(snd_buf, una)
           b == AckReceived(a, snd_nxt, sn)
           kept == {x \in Sns(snd_buf) : x >= una}
<1>1. /\ snd_buf \in Seq(InFlight) /\ Ordered(snd_buf) /\ snd_nxt \in Nat
      /\ \A x \in Sns(snd_buf) : x < snd_nxt
  BY BufferFacts
<1>2. una \in Nat BY <1>1, FirstMissingIs
<1>3. Holds(a, snd_buf, kept)
  BY <1>1, <1>2, EraseBeforeHolds
<1>4. sn \in Nat
  BY Types, Limits DEF Bookkeeping
<1>5. /\ ReadHeader(wnd, b)
      /\ answered' = answered \union (0..(una - 1)) \union {sn}
      /\ maxack' \in {maxack, sn} /\ rx_rto' \in Rto
  BY DEF ReadAck
<1> HIDE DEF a
<1>6. a \in Seq(InFlight) /\ Ordered(a) /\ Sns(a) = kept
  BY <1>3 DEF Holds
<1>7. Holds(b, a, Sns(a) \ {sn})
  BY <1>1, <1>4, <1>6, AckReceivedHolds
<1> HIDE DEF b, kept
<1>8. Holds(b, snd_buf, kept \ {sn})
  BY <1>3, <1>6, <1>7, HoldsIsTransitive
<1>9. maxack' \in got \union {Invalid}
  BY <1>5 DEF Bookkeeping, TypeOK
<1>10. {sn} \in SUBSET got OBVIOUS
<1>11. QED
  BY <1>5, <1>8, <1>9, <1>10, ReadKeepsBooks DEF kept

-----------------------------------------------------------------------------
(* The congestion window stays one.                                        *)

LEMMA OpenedIsCongestion ==
  ASSUME NEW c \in Congestion, NEW w \in Nat
  PROVE  Opened(c, w) \in Congestion
<1>1. w * MSS \in Nat BY CongestionAssumption, ProductOfNaturals
<1>2. QED BY <1>1 DEF Opened, Congestion

LEMMA HalfIsNatural ==
  ASSUME NEW n \in Nat
  PROVE  Max({n \div 2, IKCP_THRESH_MIN}) \in Nat
<1>1. n \div 2 \in Nat /\ IKCP_THRESH_MIN \in Nat BY CongestionAssumption
<1>2. n \div 2 \in Int /\ IKCP_THRESH_MIN \in Int BY <1>1
<1>3. Max({n \div 2, IKCP_THRESH_MIN}) \in {n \div 2, IKCP_THRESH_MIN}
  BY <1>2, MaxOfTwo, Zenon
<1>4. QED BY <1>1, <1>3

LEMMA ResentIsCongestion ==
  ASSUME NEW c \in Congestion, NEW n \in Nat, NEW resent \in Nat
  PROVE  PacketsResent(c, n, resent) \in Congestion
<1> DEFINE half == Max({n \div 2, IKCP_THRESH_MIN})
<1>1. half \in Nat BY HalfIsNatural
<1>2. PacketsResent(c, n, resent) = Opened([c EXCEPT !.ssthresh = half], half + resent)
  BY DEF PacketsResent
<1> HIDE DEF half
<1>3. [c EXCEPT !.ssthresh = half] \in Congestion /\ half + resent \in Nat
  BY <1>1 DEF Congestion
<1>4. QED BY <1>2, <1>3, OpenedIsCongestion

LEMMA LostIsCongestion ==
  ASSUME NEW c \in Congestion
  PROVE  PacketLost(c) \in Congestion
<1> DEFINE half == Max({c.cwnd \div 2, IKCP_THRESH_MIN})
<1>1. half \in Nat BY HalfIsNatural DEF Congestion
<1>2. PacketLost(c) = Opened([c EXCEPT !.ssthresh = half], 1)
  BY DEF PacketLost
<1> HIDE DEF half
<1>3. [c EXCEPT !.ssthresh = half] \in Congestion
  BY <1>1 DEF Congestion
<1>4. QED BY <1>2, <1>3, OpenedIsCongestion

LEMMA AvoidanceIsCongestion ==
  ASSUME NEW c \in Congestion
  PROVE  CongestionAvoidance(c) \in Congestion
<1> DEFINE base == Max({c.incr, MSS})
           incr == base + (MSS * MSS) \div base + MSS \div 16
           cwnd == IF (c.cwnd + 1) * MSS <= incr
                   THEN (incr + MSS - 1) \div MSS ELSE c.cwnd
<1>1. MSS \in Nat \ {0} /\ c.cwnd \in Nat /\ c.incr \in Nat
  BY CongestionAssumption DEF Congestion
<1>2. base \in Nat \ {0}
  <2>1. c.incr \in Int /\ MSS \in Int BY <1>1
  <2>2. base \in {c.incr, MSS} /\ base >= MSS
    BY <2>1, MaxOfTwo, Zenon
  <2>3. QED BY <1>1, <2>2
<1>3. CongestionAvoidance(c) = [c EXCEPT !.incr = incr, !.cwnd = cwnd]
  BY <1>1 DEF CongestionAvoidance, Congestion
<1> HIDE DEF base
<1>4. incr \in Nat
  <2>1. MSS * MSS \in Nat BY <1>1, ProductOfNaturals
  <2>2. (MSS * MSS) \div base \in Nat BY <1>2, <2>1, Quotient
  <2>3. MSS \div 16 \in Nat BY <1>1
  <2>4. QED BY <1>2, <2>2, <2>3
<1>5. cwnd \in Nat
  <2> HIDE DEF incr
  <2>1. incr + MSS - 1 \in Nat BY <1>1, <1>4
  <2>2. (incr + MSS - 1) \div MSS \in Nat BY <1>1, <2>1, Quotient
  <2>3. QED BY <1>1, <2>2
<1> HIDE DEF incr, cwnd
<1>6. QED BY <1>3, <1>4, <1>5 DEF Congestion

LEMMA AdjustedIsCongestion ==
  ASSUME NEW c \in Congestion, NEW rmt \in Nat
  PROVE  AdjustParameters(c, rmt) \in Congestion
<1>1. SlowStart(c) \in Congestion
  <2>1. MSS \in Nat BY CongestionAssumption
  <2>2. c.cwnd + 1 \in Nat /\ c.incr + MSS \in Nat BY <2>1 DEF Congestion
  <2>3. SlowStart(c) = [c EXCEPT !.cwnd = c.cwnd + 1, !.incr = c.incr + MSS]
    BY DEF SlowStart, Congestion
  <2>4. QED BY <2>2, <2>3 DEF Congestion
<1> DEFINE grown == IF c.cwnd < c.ssthresh THEN SlowStart(c)
                    ELSE CongestionAvoidance(c)
<1>2. grown \in Congestion BY <1>1, AvoidanceIsCongestion
<1>3. AdjustParameters(c, rmt) \in {c, Opened(grown, rmt), grown}
  BY DEF AdjustParameters
<1> HIDE DEF grown
<1>4. QED BY <1>2, <1>3, OpenedIsCongestion

LEMMA OpenIsCongestion ==
  ASSUME NEW c \in Congestion
  PROVE  EnsureAtLeastOne(c) \in Congestion
BY OpenedIsCongestion DEF EnsureAtLeastOne

-----------------------------------------------------------------------------
(* Steps that change the segments in flight where they are.                *)

LEMMA InPlace ==
  ASSUME NEW S, NEW buf \in Seq(S), NEW new,
         new = [i \in DOMAIN buf |-> new[i]],
         \A i \in DOMAIN buf : new[i] \in InFlight /\ new[i].sn = buf[i].sn
  PROVE  /\ new \in Seq(InFlight) /\ DOMAIN new = DOMAIN buf
         /\ Sns(new) = Sns(buf)
         /\ Ordered(buf) => Ordered(new)
         /\ \A nxt : RemoteUna(new, nxt) = RemoteUna(buf, nxt)
<1>1. Len(buf) \in Nat /\ DOMAIN buf = 1..Len(buf) BY Domain
<1>2. DOMAIN new = DOMAIN buf OBVIOUS
<1>3. new \in [1..Len(buf) -> InFlight] BY <1>1
<1>4. new \in Seq(InFlight) BY <1>1, <1>3, SeqDef
<1>5. Sns(new) = Sns(buf) BY <1>2 DEF Sns
<1>6. Ordered(buf) => Ordered(new) BY <1>2 DEF Ordered
<1>7. ASSUME NEW nxt PROVE RemoteUna(new, nxt) = RemoteUna(buf, nxt)
  <2>1. CASE buf = <<>>
    <3>1. new = <<>> BY <2>1
    <3>2. QED BY <2>1, <3>1
  <2>2. CASE buf # <<>>
    <3>1. 1 \in DOMAIN buf BY <1>1, <2>2, EmptySeq
    <3>2. new # <<>> BY <1>2, <3>1
    <3>3. new[1].sn = buf[1].sn BY <3>1
    <3>4. QED BY <2>2, <3>2, <3>3 DEF RemoteUna
  <2>3. QED BY <2>1, <2>2
<1>8. QED BY <1>2, <1>4, <1>5, <1>6, <1>7

\* What does not touch the segments, the receiver or the history.
LEMMA OtherStepsKeepBooks ==
  ASSUME Bookkeeping, TypeOK',
         UNCHANGED <<trackerVars, dead, got, historyVars>>,
         (queued + snd_nxt <= MaxSn)'
  PROVE  Bookkeeping'
<1>1. BufferInOrder' /\ NothingAnsweredStays'
  BY DEF Bookkeeping, BufferInOrder, NothingAnsweredStays, trackerVars, historyVars, Sns
<1>2. FastResendsAreEarned' /\ DeadLinkIsRemembered' /\ Unused'
  BY DEF Bookkeeping, FastResendsAreEarned, DeadLinkIsRemembered, Unused, trackerVars,
         historyVars
<1>3. \A i \in DOMAIN snd_buf' : Accounted(snd_buf[i])'
  BY DEF Bookkeeping, Accounted, Earned, trackerVars, historyVars
<1>4. QED BY <1>1, <1>2, <1>3 DEF Bookkeeping

LEMMA SetUpKeepsBooks ==
  ASSUME Bookkeeping, Configure \/ Send \/ ReadError \/ UNCHANGED vars
  PROVE  Bookkeeping'
<1>1. TypeOK /\ queued + snd_nxt <= MaxSn BY DEF Bookkeeping
<1>2. ASSUME UNCHANGED connectionVars,
             fastresend' \in FastResend, fastlimit' \in FastLimit,
             nodelay' \in NoDelay, dead_link' \in DeadLink
      PROVE  Bookkeeping'
  <2>1. TypeOK' BY <1>1, <1>2 DEF TypeOK, connectionVars, trackerVars, inputVars, historyVars
  <2>2. UNCHANGED <<trackerVars, dead, got, historyVars>> /\ (queued + snd_nxt <= MaxSn)'
    BY <1>1, <1>2 DEF connectionVars, trackerVars, inputVars, historyVars
  <2>3. QED BY <2>1, <2>2, OtherStepsKeepBooks
<1>3. CASE Configure
  <2>1. UNCHANGED connectionVars
    BY <1>3 DEF Configure, SetFastResend, SetFastLimit, SetNoDelay, SetDeadLink
  <2>2. /\ fastresend' \in FastResend /\ fastlimit' \in FastLimit
        /\ nodelay' \in NoDelay /\ dead_link' \in DeadLink
    BY <1>1, <1>3
       DEF Configure, SetFastResend, SetFastLimit, SetNoDelay, SetDeadLink, TypeOK
  <2>3. QED BY <1>2, <2>1, <2>2
<1>4. CASE Send
  <2>1. /\ queued' = queued + 1 /\ queued + snd_nxt < MaxSn
        /\ UNCHANGED <<configVars, trackerVars, rmt_wnd, cc, rx_rto, dead, inputVars,
                       got, historyVars>>
    BY <1>4 DEF Send
  <2>2. queued \in Nat /\ snd_nxt \in Nat BY <1>1, Types
  <2>3. queued' \in 0..MaxSn /\ (queued + snd_nxt <= MaxSn)'
    BY <2>1, <2>2, Limits DEF trackerVars
  <2>4. TypeOK' BY <1>1, <2>1, <2>3 DEF TypeOK, configVars, trackerVars, inputVars, historyVars
  <2>5. QED BY <2>1, <2>3, <2>4, OtherStepsKeepBooks
<1>5. CASE ReadError
  <2>1. /\ reading' = FALSE /\ prev_una' = 0 /\ maxack' = Invalid
        /\ UNCHANGED <<configVars, queued, trackerVars, rmt_wnd, cc, rx_rto, dead, got,
                       historyVars>>
    BY <1>5 DEF ReadError
  <2>2. snd_una \in Nat BY <1>1, Types
  <2>3. prev_una' \in 0..snd_una' BY <2>1, <2>2 DEF trackerVars
  <2>4. TypeOK' BY <1>1, <2>1, <2>3 DEF TypeOK, configVars, trackerVars, historyVars
  <2>5. (queued + snd_nxt <= MaxSn)' BY <1>1, <2>1 DEF trackerVars
  <2>6. QED BY <2>1, <2>4, <2>5, OtherStepsKeepBooks
<1>6. CASE UNCHANGED vars
  <2>1. UNCHANGED connectionVars /\ UNCHANGED configVars BY <1>6 DEF vars
  <2>2. QED BY <1>1, <1>2, <2>1 DEF configVars, TypeOK
<1>7. QED BY <1>3, <1>4, <1>5, <1>6

\* The receiver gets a segment that it has not got.
LEMMA GetKeepsBooks ==
  ASSUME Bookkeeping, Get
  PROVE  Bookkeeping'
<1>1. PICK sn \in 0..(snd_nxt - 1) : sn \notin got /\ got' = got \union {sn}
  BY DEF Get
<1>2. UNCHANGED <<configVars, queued, trackerVars, rmt_wnd, cc, rx_rto, dead,
                  inputVars, historyVars>>
  BY DEF Get
<1>3. TypeOK /\ snd_nxt \in Nat /\ snd_nxt \in 0..MaxSn
  BY Types DEF Bookkeeping, TypeOK
<1>4. sn \in Sn /\ sn < snd_nxt
  BY <1>1, <1>3, Limits DEF Sn
<1>5. TypeOK'
  BY <1>1, <1>2, <1>3, <1>4
     DEF TypeOK, configVars, trackerVars, inputVars, historyVars
<1>6. BufferInOrder'
  BY <1>1, <1>2 DEF Bookkeeping, BufferInOrder, trackerVars, Sns
<1>7. NothingAnsweredStays'
  BY <1>2 DEF Bookkeeping, NothingAnsweredStays, trackerVars, historyVars, Sns
<1>8. FastResendsAreEarned' /\ DeadLinkIsRemembered' /\ (queued + snd_nxt <= MaxSn)'
  BY <1>2 DEF Bookkeeping, FastResendsAreEarned, DeadLinkIsRemembered, trackerVars,
              historyVars
<1>9. Unused'
  BY <1>1, <1>2, <1>4 DEF Bookkeeping, Unused, trackerVars, historyVars
<1>10. \A i \in DOMAIN snd_buf' : Accounted(snd_buf[i])'
  BY <1>2 DEF Bookkeeping, Accounted, Earned, trackerVars, historyVars
<1>11. QED
  BY <1>5, <1>6, <1>7, <1>8, <1>9, <1>10 DEF Bookkeeping

\* Only the timers move.
LEMMA TickKeepsBooks ==
  ASSUME Bookkeeping, Tick
  PROVE  Bookkeeping'
<1> DEFINE less(s) == Max({s.resend_in - Elapse, 0})
<1>1. /\ snd_buf' = [i \in DOMAIN snd_buf |-> [snd_buf[i] EXCEPT !.resend_in = less(snd_buf[i])]]
      /\ age' = [sn \in Sn |-> IF sn \in Sns(snd_buf) THEN age[sn] + Elapse ELSE age[sn]]
      /\ UNCHANGED <<configVars, queued, snd_una, snd_nxt, rmt_wnd, cc, rx_rto, dead,
                     inputVars, got, answered, sent, fast, passed>>
  BY DEF Tick
<1>2. TypeOK /\ snd_buf \in Seq(InFlight) /\ Elapse \in Nat
  BY Types, Limits DEF Bookkeeping
<1>3. ASSUME NEW s \in InFlight
      PROVE  /\ less(s) \in Nat /\ s.resend_in - Elapse <= less(s)
             /\ [s EXCEPT !.resend_in = less(s)] \in InFlight
  <2>1. s.resend_in \in Nat BY DEF InFlight
  <2>2. s.resend_in - Elapse \in Int /\ 0 \in Int BY <1>2, <2>1
  <2>3. /\ less(s) \in {s.resend_in - Elapse, 0}
        /\ less(s) >= s.resend_in - Elapse /\ less(s) >= 0
    BY <2>2, MaxOfTwo, Zenon
  <2> HIDE DEF less
  <2>4. less(s) \in Nat /\ s.resend_in - Elapse <= less(s)
    BY <2>2, <2>3
  <2>5. QED BY <2>4 DEF InFlight
<1> HIDE DEF less
<1>4. \A i \in DOMAIN snd_buf :
        /\ snd_buf[i] \in InFlight
        /\ snd_buf'[i] = [snd_buf[i] EXCEPT !.resend_in = less(snd_buf[i])]
  BY <1>1, <1>2, Domain
<1>5. \A i \in DOMAIN snd_buf :
        snd_buf'[i] \in InFlight /\ snd_buf'[i].sn = snd_buf[i].sn
  <2> TAKE i \in DOMAIN snd_buf
  <2>1. snd_buf[i] \in InFlight BY <1>4
  <2>2. [snd_buf[i] EXCEPT !.resend_in = less(snd_buf[i])].sn = snd_buf[i].sn
    BY <2>1 DEF InFlight
  <2>3. QED BY <1>3, <1>4, <2>1, <2>2
<1>6. /\ snd_buf' \in Seq(InFlight) /\ DOMAIN snd_buf' = DOMAIN snd_buf
      /\ Sns(snd_buf') = Sns(snd_buf)
      /\ Ordered(snd_buf) => Ordered(snd_buf')
      /\ RemoteUna(snd_buf', snd_nxt) = RemoteUna(snd_buf, snd_nxt)
  <2>1. snd_buf' = [i \in DOMAIN snd_buf |-> snd_buf'[i]] BY <1>1
  <2>2. QED BY <1>2, <1>5, <2>1, InPlace
<1>7. age' \in [Sn -> Nat]
  <2>1. age \in [Sn -> Nat] BY <1>2 DEF TypeOK
  <2>2. \A sn \in Sn : age[sn] \in Nat /\ age[sn] + Elapse \in Nat BY <1>2, <2>1
  <2>3. QED BY <1>1, <2>2
<1>8. TypeOK'
  BY <1>1, <1>2, <1>6, <1>7 DEF TypeOK, configVars, inputVars
<1>9. BufferInOrder' /\ NothingAnsweredStays'
  <2>1. Ordered(snd_buf') BY <1>6, BufferFacts
  <2>2. BufferInOrder /\ NothingAnsweredStays BY DEF Bookkeeping
  <2>3. NothingAnsweredStays' BY <1>1, <1>6, <2>2 DEF NothingAnsweredStays
  <2>4. BufferInOrder' BY <1>1, <1>6, <2>1, <2>2 DEF BufferInOrder, Ordered
  <2>5. QED BY <2>3, <2>4
<1>10. FastResendsAreEarned' /\ DeadLinkIsRemembered' /\ (queued + snd_nxt <= MaxSn)'
       /\ Unused'
  BY <1>1 DEF Bookkeeping, FastResendsAreEarned, DeadLinkIsRemembered, Unused
<1>11. \A i \in DOMAIN snd_buf' : Accounted(snd_buf[i])'
  <2> SUFFICES ASSUME NEW i \in DOMAIN snd_buf PROVE Accounted(snd_buf[i])'
    BY <1>6
  <2> DEFINE s == snd_buf[i]
             t == snd_buf'[i]
  <2>1. Accounted(s) BY DEF Bookkeeping
  <2>2. s \in InFlight /\ t = [s EXCEPT !.resend_in = less(s)] BY <1>4
  <2>3. /\ s.sn \in Sn /\ s.resend_in \in Nat /\ s.rto \in Nat /\ age[s.sn] \in Nat
    BY <1>2, <2>2, SegmentTypes
  <2>4. /\ t.sn = s.sn /\ t.xmit = s.xmit /\ t.fastack = s.fastack /\ t.rto = s.rto
        /\ t.resend_in = less(s)
    BY <2>2 DEF InFlight
  <2>5. age'[s.sn] = age[s.sn] + Elapse
    BY <1>1, <2>3 DEF Sns
  <2> HIDE DEF s, t
  <2>6. s.rto <= less(s) + (age[s.sn] + Elapse)
    BY <1>2, <1>3, <2>1, <2>2, <2>3 DEF Accounted
  <2>7. /\ t.sn < snd_nxt' /\ sent'[t.sn] = t.xmit
        /\ t.rto <= t.resend_in + age'[t.sn]
    BY <1>1, <2>1, <2>4, <2>5, <2>6 DEF Accounted
  <2>8. IF fast'[t.sn] = 0 THEN t.fastack <= passed'[t.sn]
        ELSE fast'[t.sn] * (Min(FastResend \ {0}) + 1) + t.fastack <= passed'[t.sn]
    BY <1>1, <2>1, <2>4 DEF Accounted, Earned
  <2>9. QED BY <2>7, <2>8 DEF Accounted, Earned, t
<1>12. QED
  BY <1>8, <1>9, <1>10, <1>11 DEF Bookkeeping

\* What the fast retransmissions of a segment cost is a number.
LEMMA Price ==
  ASSUME Bookkeeping, NEW sn \in Sn, fast[sn] # 0
  PROVE  /\ Min(FastResend \ {0}) \in Nat
         /\ \A x \in FastResend \ {0} : Min(FastResend \ {0}) <= x
         /\ fast[sn] * (Min(FastResend \ {0}) + 1) \in Nat
<1>1. FastResend \ {0} # {} BY DEF Bookkeeping, Unused
<1>2. FastResend \ {0} \in SUBSET Nat BY Limits
<1>3. /\ Min(FastResend \ {0}) \in Nat
      /\ \A x \in FastResend \ {0} : Min(FastResend \ {0}) <= x
  BY <1>1, <1>2, MinOfNaturals
<1>4. fast[sn] \in Nat BY DEF Bookkeeping, TypeOK
<1>5. QED BY <1>3, <1>4, ProductOfNaturals

\* The end of input() counts once for every segment it passes.
LEMMA EndInputKeepsBooks ==
  ASSUME Bookkeeping, EndInput
  PROVE  Bookkeeping'
<1> DEFINE counts == /\ maxack # Invalid
                     /\ ShouldAcknowledge(snd_una, snd_nxt, maxack)
           n == PrefixBelow(snd_buf, maxack)
           past(sn) == counts /\ sn \in Sns(snd_buf) /\ sn < maxack
<1>1. /\ reading' = FALSE /\ prev_una' = 0 /\ maxack' = Invalid
      /\ snd_buf' = IF counts THEN IncrementFastackBefore(snd_buf, maxack) ELSE snd_buf
      /\ cc' = IF snd_una > prev_una THEN AdjustParameters(cc, rmt_wnd) ELSE cc
      /\ passed' = [sn \in Sn |-> IF past(sn) THEN passed[sn] + 1 ELSE passed[sn]]
      /\ UNCHANGED <<configVars, queued, snd_una, snd_nxt, rmt_wnd, rx_rto, dead, got,
                     answered, sent, fast, age>>
  BY DEF EndInput
<1>2. TypeOK /\ snd_buf \in Seq(InFlight) /\ cc \in Congestion /\ rmt_wnd \in Nat
      /\ snd_una \in Nat
  BY Types DEF Bookkeeping
<1>3. ASSUME counts
      PROVE  \A i \in DOMAIN snd_buf : i <= n => snd_buf[i].sn < maxack
  <2>1. maxack \in Nat
    BY <1>2, <1>3, Limits, Types DEF TypeOK
  <2>2. n \in 0..Len(snd_buf) /\ \A i \in 1..n : snd_buf[i].sn < maxack
    BY <1>2, <2>1, PrefixIs
  <2>3. Len(snd_buf) \in Nat /\ DOMAIN snd_buf = 1..Len(snd_buf) BY <1>2, Domain
  <2> HIDE DEF n
  <2>4. \A i \in DOMAIN snd_buf : i <= n => i \in 1..n BY <2>2, <2>3
  <2>5. QED BY <2>2, <2>4
<1>4. \A i \in DOMAIN snd_buf :
        /\ snd_buf[i] \in InFlight
        /\ snd_buf'[i] = IF counts /\ i <= n
                         THEN [snd_buf[i] EXCEPT !.fastack = snd_buf[i].fastack + 1]
                         ELSE snd_buf[i]
  BY <1>1, <1>2, Domain DEF IncrementFastackBefore
<1>5. snd_buf' = [i \in DOMAIN snd_buf |-> snd_buf'[i]]
  <2>1. CASE counts
    <3>1. snd_buf' = IncrementFastackBefore(snd_buf, maxack) BY <1>1, <2>1
    <3>2. QED BY <3>1 DEF IncrementFastackBefore
  <2>2. CASE ~counts
    <3>1. snd_buf' = snd_buf BY <1>1, <2>2
    <3>2. snd_buf = [i \in DOMAIN snd_buf |-> snd_buf[i]]
      BY <1>2, Domain, LenProperties
    <3>3. QED BY <3>1, <3>2
  <2>3. QED BY <2>1, <2>2
<1> HIDE DEF counts, n
<1>6. \A i \in DOMAIN snd_buf :
        snd_buf'[i] \in InFlight /\ snd_buf'[i].sn = snd_buf[i].sn
  <2> TAKE i \in DOMAIN snd_buf
  <2>1. snd_buf[i] \in InFlight BY <1>4
  <2>2. [snd_buf[i] EXCEPT !.fastack = snd_buf[i].fastack + 1] \in InFlight
    BY <2>1 DEF InFlight
  <2>3. [snd_buf[i] EXCEPT !.fastack = snd_buf[i].fastack + 1].sn = snd_buf[i].sn
    BY <2>1 DEF InFlight
  <2>4. QED BY <1>4, <2>1, <2>2, <2>3
<1>7. /\ snd_buf' \in Seq(InFlight) /\ DOMAIN snd_buf' = DOMAIN snd_buf
      /\ Sns(snd_buf') = Sns(snd_buf)
      /\ Ordered(snd_buf) => Ordered(snd_buf')
      /\ RemoteUna(snd_buf', snd_nxt) = RemoteUna(snd_buf, snd_nxt)
  BY <1>2, <1>5, <1>6, InPlace
<1>8. passed \in [Sn -> Nat] /\ passed' \in [Sn -> Nat]
      /\ \A sn \in Sn : passed[sn] <= passed'[sn]
  <2>1. passed \in [Sn -> Nat] BY <1>2 DEF TypeOK
  <2>2. \A sn \in Sn : passed[sn] \in Nat /\ passed[sn] + 1 \in Nat BY <2>1
  <2> HIDE DEF past
  <2>3. QED BY <1>1, <2>1, <2>2
<1>9. cc' \in Congestion
  <2>1. AdjustParameters(cc, rmt_wnd) \in Congestion BY <1>2, AdjustedIsCongestion
  <2>2. QED BY <1>1, <1>2, <2>1
<1>10. TypeOK'
  <2>1. prev_una' \in 0..snd_una' BY <1>1, <1>2
  <2>2. QED BY <1>1, <1>2, <1>7, <1>8, <1>9, <2>1 DEF TypeOK, configVars
<1>11. BufferInOrder' /\ NothingAnsweredStays'
  <2>1. Ordered(snd_buf') BY <1>7, BufferFacts
  <2>2. BufferInOrder /\ NothingAnsweredStays BY DEF Bookkeeping
  <2>3. NothingAnsweredStays' BY <1>1, <1>7, <2>2 DEF NothingAnsweredStays
  <2>4. BufferInOrder' BY <1>1, <1>7, <2>1, <2>2 DEF BufferInOrder, Ordered
  <2>5. QED BY <2>3, <2>4
<1>12. FastResendsAreEarned'
  <2>1. SUFFICES ASSUME NEW sn \in Sn, fast[sn] # 0
                 PROVE  fast[sn] * (Min(FastResend \ {0}) + 1) <= passed'[sn]
    BY <1>1 DEF FastResendsAreEarned
  <2> DEFINE cost == fast[sn] * (Min(FastResend \ {0}) + 1)
  <2>2. cost <= passed[sn] BY <2>1 DEF Bookkeeping, FastResendsAreEarned
  <2>3. cost \in Nat BY <2>1, Price
  <2> HIDE DEF cost
  <2>4. passed[sn] \in Nat /\ passed'[sn] \in Nat /\ passed[sn] <= passed'[sn] BY <1>8
  <2>5. cost <= passed'[sn] BY <2>2, <2>3, <2>4
  <2>6. QED BY <2>5 DEF cost
<1>13. DeadLinkIsRemembered' /\ (queued + snd_nxt <= MaxSn)' /\ Unused'
  BY <1>1 DEF Bookkeeping, DeadLinkIsRemembered, Unused
<1>14. \A i \in DOMAIN snd_buf' : Accounted(snd_buf[i])'
  <2> SUFFICES ASSUME NEW i \in DOMAIN snd_buf PROVE Accounted(snd_buf[i])'
    BY <1>7
  <2> DEFINE s == snd_buf[i]
             t == snd_buf'[i]
             cost == fast[s.sn] * (Min(FastResend \ {0}) + 1)
  <2>1. Accounted(s) BY DEF Bookkeeping
  <2>2. s \in InFlight BY <1>4
  <2>3. s.sn \in Sn /\ s.fastack \in Nat /\ passed[s.sn] \in Nat /\ fast[s.sn] \in Nat
    BY <1>2, <2>2, SegmentTypes
  <2>4. /\ t.sn = s.sn /\ t.xmit = s.xmit /\ t.rto = s.rto /\ t.resend_in = s.resend_in
        /\ t.fastack = IF counts /\ i <= n THEN s.fastack + 1 ELSE s.fastack
    BY <1>4, <2>2 DEF InFlight
  <2>5. counts /\ i <= n => passed'[s.sn] = passed[s.sn] + 1
    <3>1. counts /\ i <= n => past(s.sn) BY <1>3 DEF Sns
    <3>2. QED BY <1>1, <2>3, <3>1
  <2>6. passed'[s.sn] \in Nat /\ passed[s.sn] <= passed'[s.sn] BY <1>8, <2>3
  <2>7. fast[s.sn] # 0 => cost \in Nat BY <2>3, Price
  <2>8. IF fast[s.sn] = 0 THEN s.fastack <= passed[s.sn]
        ELSE cost + s.fastack <= passed[s.sn]
    BY <2>1 DEF Accounted, Earned
  <2> HIDE DEF cost, s, t
  <2>9. IF fast[s.sn] = 0 THEN t.fastack <= passed'[s.sn]
        ELSE cost + t.fastack <= passed'[s.sn]
    <3>1. CASE counts /\ i <= n
      BY <2>3, <2>4, <2>5, <2>7, <2>8, <3>1
    <3>2. CASE ~(counts /\ i <= n)
      BY <2>3, <2>4, <2>6, <2>7, <2>8, <3>2
    <3>3. QED BY <3>1, <3>2
  <2>10. IF fast'[t.sn] = 0 THEN t.fastack <= passed'[t.sn]
         ELSE fast'[t.sn] * (Min(FastResend \ {0}) + 1) + t.fastack <= passed'[t.sn]
    BY <1>1, <2>4, <2>9 DEF cost
  <2>11. /\ t.sn < snd_nxt' /\ sent'[t.sn] = t.xmit
         /\ t.rto <= t.resend_in + age'[t.sn]
    BY <1>1, <2>1, <2>4 DEF Accounted
  <2>12. QED BY <2>10, <2>11 DEF Accounted, Earned, t
<1>15. QED
  BY <1>10, <1>11, <1>12, <1>13, <1>14 DEF Bookkeeping

-----------------------------------------------------------------------------
(* flush().                                                                *)

\* A segment in flight, or one that has only got its number.
Numbered == [sn : Sn, xmit : Nat, fastack : Nat, rto : Nat, resend_in : Nat]

\* What the history says of a segment when flush() comes to it.
Outstanding(s) ==
  /\ s \in Numbered
  /\ s.sn < snd_nxt + MoveCount
  /\ sent[s.sn] = s.xmit
  /\ Earned(s)
  /\ s.xmit > 0 => s.rto <= s.resend_in + age[s.sn]

LEMMA MoveCountIs ==
  ASSUME TypeOK
  PROVE  MoveCount \in 0..queued
<1> DEFINE windows == {SndWnd, rmt_wnd} \union {w \in {cc.cwnd} : CongestionWindow}
           cwnd == Min(windows)
           room == snd_una + cwnd - snd_nxt
           low == Min({queued, room})
<1>1. /\ queued \in Nat /\ snd_una \in Nat /\ snd_nxt \in Nat /\ rmt_wnd \in Nat
      /\ SndWnd \in Nat /\ cc.cwnd \in Nat
  BY Types, Limits DEF Congestion
<1>2. windows \in SUBSET Nat /\ windows # {} BY <1>1
<1>3. cwnd \in Nat
  <2> HIDE DEF windows
  <2>1. QED BY <1>2, MinOfNaturals
<1>4. CalculateCongestionWindow(cc, SndWnd, rmt_wnd, CongestionWindow) = cwnd
  BY DEF CalculateCongestionWindow
<1>5. MoveCount = Max({0, low})
  BY <1>4 DEF MoveCount
<1> HIDE DEF cwnd
<1>6. queued \in Int /\ room \in Int BY <1>1, <1>3
<1> HIDE DEF room
<1>7. low \in {queued, room} /\ low <= queued BY <1>6, MinOfTwo, Zenon
<1>8. 0 \in Int /\ low \in Int BY <1>6, <1>7
<1> HIDE DEF low
<1>9. Max({0, low}) \in {0, low} /\ Max({0, low}) >= 0 BY <1>8, MaxOfTwo, Zenon
<1>10. QED BY <1>1, <1>5, <1>7, <1>8, <1>9

\* The fragments that get a number enter at the end of the deque.
LEMMA FilledIs ==
  ASSUME Bookkeeping
  PROVE  /\ Filled \in Seq(Numbered) /\ Ordered(Filled)
         /\ Len(Filled) = Len(snd_buf) + MoveCount
         /\ \A i \in DOMAIN snd_buf : i \in DOMAIN Filled /\ Filled[i] = snd_buf[i]
         /\ \A i \in DOMAIN Filled : i \notin DOMAIN snd_buf => Filled[i].xmit = 0
         /\ \A i \in DOMAIN Filled : Outstanding(Filled[i])
         /\ Sns(Filled) = Sns(snd_buf) \union (snd_nxt..(snd_nxt + MoveCount - 1))
         /\ RemoteUna(Filled, snd_nxt + MoveCount) = snd_una
<1> DEFINE m == MoveCount
           L == Len(snd_buf)
           fresh == [i \in 1..m |->
                       [sn |-> snd_nxt + i - 1, xmit |-> 0, fastack |-> 0,
                        rto |-> rx_rto, resend_in |-> 0]]
<1>1. /\ TypeOK /\ snd_buf \in Seq(InFlight) /\ snd_nxt \in Nat /\ queued \in Nat
      /\ rx_rto \in Nat /\ snd_una \in Nat
  BY Types DEF Bookkeeping
<1>2. m \in 0..queued /\ m \in Nat
  <2>1. m \in 0..queued BY <1>1, MoveCountIs
  <2>2. QED BY <1>1, <2>1
<1>3. /\ L \in Nat /\ DOMAIN snd_buf = 1..L
      /\ \A i \in 1..L : snd_buf[i] \in InFlight /\ snd_buf[i].sn \in Nat
  BY <1>1, SnsAreNaturals
<1>4. Filled = snd_buf \o fresh
  BY DEF Filled
<1> HIDE DEF m, L
<1>5. snd_nxt + m <= MaxSn
  BY <1>1, <1>2, Limits DEF Bookkeeping
<1>6. ASSUME NEW i \in 1..m
      PROVE  /\ snd_nxt + i - 1 \in Sn /\ snd_nxt <= snd_nxt + i - 1
             /\ fresh[i] = [sn |-> snd_nxt + i - 1, xmit |-> 0, fastack |-> 0,
                            rto |-> rx_rto, resend_in |-> 0]
             /\ fresh[i] \in Numbered
  <2>1. snd_nxt + i - 1 \in Sn /\ snd_nxt <= snd_nxt + i - 1
    BY <1>1, <1>2, <1>5, Limits DEF Sn
  <2>2. QED BY <1>1, <2>1 DEF Numbered
<1>7. fresh \in Seq(Numbered) /\ Len(fresh) = m
  <2>1. fresh \in [1..m -> Numbered] BY <1>6
  <2> HIDE DEF fresh
  <2>2. fresh \in Seq(Numbered) BY <1>2, <2>1, SeqDef
  <2>3. DOMAIN fresh = 1..m /\ DOMAIN fresh = 1..Len(fresh) /\ Len(fresh) \in Nat
    BY <2>1, <2>2, Domain
  <2>4. QED BY <1>2, <2>2, <2>3
<1>8. snd_buf \in Seq(Numbered)
  <2>1. InFlight \subseteq Numbered
    <3>1. 1..MaxXmit \subseteq Nat BY Limits
    <3>2. QED BY <3>1 DEF InFlight, Numbered
  <2>2. snd_buf \in [1..L -> InFlight] BY <1>1, LenProperties DEF L
  <2>3. snd_buf \in [1..L -> Numbered] BY <2>1, <2>2
  <2>4. QED BY <1>3, <2>3, SeqDef
<1> HIDE DEF fresh
<1>9. /\ Filled \in Seq(Numbered) /\ Len(Filled) = L + m
      /\ \A i \in 1..(L + m) : Filled[i] = IF i <= L THEN snd_buf[i] ELSE fresh[i - L]
  <2>1. /\ snd_buf \o fresh \in Seq(Numbered)
        /\ Len(snd_buf \o fresh) = Len(snd_buf) + Len(fresh)
        /\ \A i \in 1..Len(snd_buf) + Len(fresh) :
             (snd_buf \o fresh)[i] = IF i <= Len(snd_buf) THEN snd_buf[i]
                                     ELSE fresh[i - Len(snd_buf)]
    BY <1>7, <1>8, ConcatProperties
  <2>2. QED BY <1>4, <1>7, <2>1 DEF L
<1>10. DOMAIN Filled = 1..(L + m)
  BY <1>9, Domain
<1>11. \A i \in DOMAIN snd_buf : i \in DOMAIN Filled /\ Filled[i] = snd_buf[i]
  BY <1>2, <1>3, <1>9, <1>10
<1>12. ASSUME NEW i \in DOMAIN Filled, i \notin DOMAIN snd_buf
       PROVE  /\ i > L /\ i - L \in 1..m /\ i - L \in Int
              /\ Filled[i] = [sn |-> snd_nxt + (i - L) - 1, xmit |-> 0, fastack |-> 0,
                              rto |-> rx_rto, resend_in |-> 0]
  <2>1. i > L /\ i - L \in 1..m BY <1>2, <1>3, <1>10, <1>12
  <2>2. ~(i <= L) /\ i \in 1..(L + m) BY <1>3, <1>10, <2>1
  <2>3. Filled[i] = fresh[i - L] BY <1>9, <2>2
  <2> DEFINE k == i - L
  <2>4. k \in 1..m BY <2>1
  <2> HIDE DEF k
  <2>5. fresh[k] = [sn |-> snd_nxt + k - 1, xmit |-> 0, fastack |-> 0,
                    rto |-> rx_rto, resend_in |-> 0]
    BY <1>6, <2>4
  <2>6. QED BY <1>3, <1>10, <2>1, <2>3, <2>5 DEF k
<1>13. \A i \in DOMAIN Filled : i \notin DOMAIN snd_buf =>
          /\ i > L /\ Filled[i].xmit = 0 /\ Filled[i].sn = snd_nxt + (i - L) - 1
          /\ Filled[i].sn \in snd_nxt..(snd_nxt + m - 1)
  <2> SUFFICES ASSUME NEW i \in DOMAIN Filled, i \notin DOMAIN snd_buf
               PROVE  /\ i > L /\ Filled[i].xmit = 0
                      /\ Filled[i].sn = snd_nxt + (i - L) - 1
                      /\ Filled[i].sn \in snd_nxt..(snd_nxt + m - 1)
    OBVIOUS
  <2>1. i > L /\ i - L \in 1..m /\ i - L \in Int BY <1>12
  <2>2. Filled[i].xmit = 0 /\ Filled[i].sn = snd_nxt + (i - L) - 1 BY <1>12
  <2>3. snd_nxt + (i - L) - 1 \in snd_nxt..(snd_nxt + m - 1)
    BY <1>1, <1>2, <2>1
  <2>4. QED BY <2>1, <2>2, <2>3
<1>14. \A sn \in Sns(snd_buf) : sn < snd_nxt /\ sn \in Nat
  BY <1>3, BufferFacts DEF Sns
<1>15. Ordered(Filled)
  <2> SUFFICES ASSUME NEW i \in DOMAIN Filled, NEW j \in DOMAIN Filled, i < j
               PROVE  Filled[i].sn < Filled[j].sn
    BY DEF Ordered
  <2>1. CASE i \in DOMAIN snd_buf /\ j \in DOMAIN snd_buf
    <3>1. snd_buf[i].sn < snd_buf[j].sn BY <2>1, BufferFacts DEF Ordered
    <3>2. QED BY <1>11, <2>1, <3>1
  <2>2. CASE i \in DOMAIN snd_buf /\ j \notin DOMAIN snd_buf
    <3>1. snd_buf[i].sn < snd_nxt /\ snd_buf[i].sn \in Nat BY <1>14, <2>2 DEF Sns
    <3>2. Filled[j].sn \in snd_nxt..(snd_nxt + m - 1) BY <1>13, <2>2
    <3>3. Filled[i].sn = snd_buf[i].sn BY <1>11, <2>2
    <3>4. QED BY <1>1, <1>2, <3>1, <3>2, <3>3
  <2>3. CASE i \notin DOMAIN snd_buf
    <3>1. i > L BY <1>13, <2>3
    <3>2. j \notin DOMAIN snd_buf BY <1>3, <1>10, <3>1
    <3>3. Filled[i].sn = snd_nxt + (i - L) - 1 /\ Filled[j].sn = snd_nxt + (j - L) - 1
      BY <1>13, <2>3, <3>2
    <3>4. i \in Int /\ j \in Int BY <1>10
    <3>5. QED BY <1>1, <1>3, <3>3, <3>4
  <2>4. QED BY <2>1, <2>2, <2>3
<1>16. Sns(Filled) = Sns(snd_buf) \union (snd_nxt..(snd_nxt + m - 1))
  <2>1. \A i \in DOMAIN Filled :
          Filled[i].sn \in Sns(snd_buf) \union (snd_nxt..(snd_nxt + m - 1))
    BY <1>11, <1>13 DEF Sns
  <2>2. Sns(snd_buf) \subseteq Sns(Filled)
    BY <1>11 DEF Sns
  <2>3. ASSUME NEW x \in snd_nxt..(snd_nxt + m - 1) PROVE x \in Sns(Filled)
    <3> DEFINE i == L + (x - snd_nxt) + 1
    <3>1. /\ i \in DOMAIN Filled /\ i \notin DOMAIN snd_buf
          /\ snd_nxt + (i - L) - 1 = x
      BY <1>1, <1>2, <1>3, <1>10
    <3> HIDE DEF i
    <3>2. Filled[i].sn = x BY <1>13, <3>1
    <3>3. QED BY <3>1, <3>2 DEF Sns
  <2>4. QED BY <2>1, <2>2, <2>3 DEF Sns
<1>17. RemoteUna(Filled, snd_nxt + m) = snd_una
  <2>1. snd_una = RemoteUna(snd_buf, snd_nxt) BY DEF Bookkeeping, BufferInOrder
  <2>2. CASE snd_buf = <<>> /\ m = 0
    <3>1. L = 0 BY <2>2 DEF L
    <3>2. DOMAIN Filled = {} BY <1>10, <2>2, <3>1
    <3>3. Filled = <<>> BY <1>9, <2>2, <3>1, EmptySeq
    <3>4. QED BY <1>1, <2>1, <2>2, <3>3 DEF RemoteUna
  <2>3. CASE snd_buf = <<>> /\ m # 0
    <3>1. L = 0 BY <2>3 DEF L
    <3>2. 1 \in DOMAIN Filled /\ 1 \notin DOMAIN snd_buf
      BY <1>2, <1>3, <1>10, <2>3, <3>1
    <3>3. Filled # <<>> BY <3>2
    <3>4. Filled[1].sn = snd_nxt BY <1>1, <1>13, <3>1, <3>2
    <3>5. QED BY <2>1, <2>3, <3>3, <3>4 DEF RemoteUna
  <2>4. CASE snd_buf # <<>>
    <3>1. 1 \in DOMAIN snd_buf BY <1>1, <1>3, <2>4, EmptySeq DEF L
    <3>2. Filled # <<>> /\ Filled[1] = snd_buf[1] BY <1>11, <3>1
    <3>3. QED BY <2>1, <2>4, <3>2 DEF RemoteUna
  <2>5. QED BY <2>2, <2>3, <2>4
<1>18. ASSUME NEW i \in DOMAIN Filled PROVE Outstanding(Filled[i])
  <2>1. Filled[i] \in Numbered BY <1>9, <1>10
  <2>2. CASE i \in DOMAIN snd_buf
    <3>1. Accounted(snd_buf[i]) BY <2>2 DEF Bookkeeping
    <3>2. snd_buf[i].sn \in Nat BY <1>3, <2>2
    <3>3. snd_buf[i].sn < snd_nxt + m BY <1>1, <1>2, <3>1, <3>2 DEF Accounted
    <3>4. Filled[i] = snd_buf[i] BY <1>11, <2>2
    <3>5. QED BY <2>1, <3>1, <3>3, <3>4 DEF Accounted, Outstanding, m
  <2>3. CASE i \notin DOMAIN snd_buf
    <3> DEFINE s == Filled[i]
    <3>1. /\ s.sn \in snd_nxt..(snd_nxt + m - 1) /\ s.xmit = 0
      BY <1>13, <2>3
    <3>2. s.fastack = 0 BY <1>12, <2>3
    <3>3. s.sn \in Sn BY <2>1 DEF Numbered
    <3> HIDE DEF s
    <3>4. s.sn >= snd_nxt /\ s.sn < snd_nxt + m BY <1>1, <1>2, <3>1
    <3>5. sent[s.sn] = 0 /\ fast[s.sn] = 0
      BY <3>3, <3>4 DEF Bookkeeping, Unused
    <3>6. 0 <= passed[s.sn]
      <4>1. passed \in [Sn -> Nat] BY <1>1 DEF TypeOK
      <4>2. passed[s.sn] \in Nat BY <3>3, <4>1
      <4>3. QED BY <4>2
    <3>7. s \in Numbered /\ ~(s.xmit > 0) BY <2>1, <3>1 DEF s
    <3>8. Outstanding(s)
      BY <3>1, <3>2, <3>4, <3>5, <3>6, <3>7 DEF Outstanding, Earned, m
    <3>9. QED BY <3>8 DEF s
  <2>4. QED BY <2>2, <2>3
<1>19. QED
  BY <1>9, <1>11, <1>13, <1>15, <1>16, <1>17, <1>18 DEF m, L

\* What becomes of one segment: it is counted when it is sent, and the timer
\* of a segment that is sent starts again.
LEMMA ProcessedIs ==
  ASSUME TypeOK, NEW s \in Numbered
  PROVE  LET t == Processed(s) IN
         /\ t \in Numbered /\ t.sn = s.sn /\ t.xmit \in Nat \ {0}
         /\ t.xmit = IF NeedsSend(s) THEN s.xmit + 1 ELSE s.xmit
         /\ t.fastack = IF NeedsFast(s) THEN 0 ELSE s.fastack
         /\ NeedsSend(s) => t.rto <= t.resend_in
         /\ ~NeedsSend(s) => t = s /\ s.xmit > 0
<1> DEFINE t == Processed(s)
<1>1. /\ s.sn \in Sn /\ s.xmit \in Nat /\ s.fastack \in Nat /\ s.rto \in Nat
      /\ s.resend_in \in Nat
      /\ s = [sn |-> s.sn, xmit |-> s.xmit, fastack |-> s.fastack, rto |-> s.rto,
              resend_in |-> s.resend_in]
  BY DEF Numbered
<1>2. rx_rto \in Nat /\ nodelay \in Nat BY Types
<1>3. CASE NeedsFirst(s)
  <2> DEFINE extra == IF nodelay = 0 THEN rx_rto \div 8 ELSE 0
  <2>1. extra \in Nat BY <1>2
  <2>2. t = [s EXCEPT !.xmit = 1, !.rto = rx_rto, !.resend_in = rx_rto + extra]
    BY <1>3 DEF Processed, FirstSend
  <2> HIDE DEF extra, t
  <2>3. t = [sn |-> s.sn, xmit |-> 1, fastack |-> s.fastack, rto |-> rx_rto,
             resend_in |-> rx_rto + extra]
    BY <1>1, <2>2
  <2>4. rx_rto + extra \in Nat /\ rx_rto <= rx_rto + extra BY <1>2, <2>1
  <2>5. t \in Numbered BY <1>1, <1>2, <2>3, <2>4 DEF Numbered
  <2>6. s.xmit = 0 /\ NeedsSend(s) /\ ~NeedsFast(s)
    BY <1>1, <1>3 DEF NeedsFirst, NeedsSend, NeedsFast
  <2>7. QED BY <2>3, <2>4, <2>5, <2>6 DEF t
<1>4. CASE NeedsTimeout(s)
  <2> DEFINE rto == Backoff(s.rto)
  <2>1. ~NeedsFirst(s) /\ ~NeedsFast(s) /\ NeedsSend(s)
    BY <1>1, <1>4 DEF NeedsFirst, NeedsFast, NeedsTimeout, NeedsSend
  <2>2. rto \in Nat
    <3>1. s.rto \in Int /\ rx_rto \in Int BY <1>1, <1>2
    <3>2. Max({s.rto, rx_rto}) \in {s.rto, rx_rto} BY <3>1, MaxOfTwo, Zenon
    <3>3. s.rto \div 2 \in Nat /\ rx_rto \div 2 \in Nat BY <1>1, <1>2
    <3>4. rto \in {s.rto + Max({s.rto, rx_rto}), s.rto + s.rto \div 2,
                   s.rto + rx_rto \div 2}
      BY DEF Backoff
    <3>5. QED BY <1>1, <1>2, <3>2, <3>3, <3>4
  <2>3. t = [s EXCEPT !.xmit = s.xmit + 1, !.rto = rto, !.resend_in = rto]
    BY <1>1, <1>4, <2>1 DEF Processed, Resend
  <2> HIDE DEF rto, t
  <2>4. t = [sn |-> s.sn, xmit |-> s.xmit + 1, fastack |-> s.fastack, rto |-> rto,
             resend_in |-> rto]
    BY <1>1, <2>3
  <2>5. s.xmit + 1 \in Nat \ {0} BY <1>1
  <2>6. t \in Numbered BY <1>1, <2>2, <2>4, <2>5 DEF Numbered
  <2>7. QED BY <2>1, <2>2, <2>4, <2>5, <2>6 DEF t
<1>5. CASE NeedsFast(s)
  <2>1. ~NeedsFirst(s) /\ ~NeedsTimeout(s) /\ NeedsSend(s)
    BY <1>1, <1>5 DEF NeedsFirst, NeedsFast, NeedsTimeout, NeedsSend
  <2>2. t = [s EXCEPT !.xmit = s.xmit + 1, !.fastack = 0, !.resend_in = s.rto]
    BY <1>1, <1>5, <2>1 DEF Processed, FastSend
  <2> HIDE DEF t
  <2>3. t = [sn |-> s.sn, xmit |-> s.xmit + 1, fastack |-> 0, rto |-> s.rto,
             resend_in |-> s.rto]
    BY <1>1, <2>2
  <2>4. s.xmit + 1 \in Nat \ {0} BY <1>1
  <2>5. t \in Numbered BY <1>1, <2>3, <2>4 DEF Numbered
  <2>6. QED BY <1>1, <1>5, <2>1, <2>3, <2>4, <2>5 DEF t
<1>6. CASE ~NeedsSend(s)
  <2>1. t = s /\ s.xmit # 0 /\ ~NeedsFast(s)
    BY <1>6 DEF Processed, NeedsSend, NeedsFirst
  <2>2. s.xmit \in Nat \ {0} BY <1>1, <2>1
  <2> HIDE DEF t
  <2>3. QED BY <1>6, <2>1, <2>2 DEF t
<1>7. QED BY <1>3, <1>4, <1>5, <1>6 DEF NeedsSend

\* In an ordered deque a number belongs to one segment.
LEMMA OneSegment ==
  ASSUME NEW buf \in Seq(Numbered), Ordered(buf),
         NEW i \in DOMAIN buf, NEW j \in DOMAIN buf, buf[i].sn = buf[j].sn
  PROVE  i = j
<1>1. /\ i \in Nat /\ j \in Nat /\ buf[i] \in Numbered /\ buf[j] \in Numbered
  BY Domain
<1>2. buf[i].sn \in Nat /\ buf[j].sn \in Nat BY <1>1, Limits DEF Numbered
<1>3. ~(i < j) /\ ~(j < i) BY <1>2 DEF Ordered
<1>4. QED BY <1>1, <1>3

\* What flush() adds to the history: one for each segment it sends.
LEMMA FlushCounts ==
  ASSUME Bookkeeping, Flush
  PROVE  /\ \A i \in DOMAIN Filled :
              LET s == Filled[i] IN
              /\ sent'[s.sn] = IF NeedsSend(s) THEN sent[s.sn] + 1 ELSE sent[s.sn]
              /\ fast'[s.sn] = IF NeedsFast(s) THEN fast[s.sn] + 1 ELSE fast[s.sn]
              /\ age'[s.sn] = IF NeedsSend(s) THEN 0 ELSE age[s.sn]
         /\ \A sn \in Sn \ Sns(Filled) :
              sent'[sn] = sent[sn] /\ fast'[sn] = fast[sn] /\ age'[sn] = age[sn]
         /\ sent' \in [Sn -> Nat] /\ fast' \in [Sn -> Nat] /\ age' \in [Sn -> Nat]
         /\ \A sn \in Sn : sent[sn] <= sent'[sn]
<1> DEFINE buf == Filled
<1>1. /\ sent' = [sn \in Sn |-> IF \E i \in DOMAIN buf : buf[i].sn = sn /\ NeedsSend(buf[i])
                                THEN sent[sn] + 1 ELSE sent[sn]]
      /\ fast' = [sn \in Sn |-> IF \E i \in DOMAIN buf : buf[i].sn = sn /\ NeedsFast(buf[i])
                                THEN fast[sn] + 1 ELSE fast[sn]]
      /\ age' = [sn \in Sn |-> IF \E i \in DOMAIN buf : NeedsSend(buf[i]) /\ buf[i].sn = sn
                               THEN 0 ELSE age[sn]]
  <2>1. /\ sent' = Count(buf, NeedsSend, sent) /\ fast' = Count(buf, NeedsFast, fast)
        /\ age' = [sn \in Sn |->
             IF \E i \in {k \in DOMAIN buf : NeedsSend(buf[k])} : buf[i].sn = sn
             THEN 0 ELSE age[sn]]
    BY DEF Flush
  <2> HIDE DEF buf
  <2>2. age' = [sn \in Sn |->
           IF \E i \in DOMAIN buf : NeedsSend(buf[i]) /\ buf[i].sn = sn
           THEN 0 ELSE age[sn]]
    BY <2>1
  <2>3. QED BY <2>1, <2>2 DEF Count
<1>2. buf \in Seq(Numbered) /\ Ordered(buf) BY FilledIs
<1>3. sent \in [Sn -> Nat] /\ fast \in [Sn -> Nat] /\ age \in [Sn -> Nat]
  BY DEF Bookkeeping, TypeOK
<1> HIDE DEF buf
<1>4. ASSUME NEW i \in DOMAIN buf
      PROVE  LET s == buf[i] IN
             /\ sent'[s.sn] = IF NeedsSend(s) THEN sent[s.sn] + 1 ELSE sent[s.sn]
             /\ fast'[s.sn] = IF NeedsFast(s) THEN fast[s.sn] + 1 ELSE fast[s.sn]
             /\ age'[s.sn] = IF NeedsSend(s) THEN 0 ELSE age[s.sn]
  <2>1. \A j \in DOMAIN buf : buf[j].sn = buf[i].sn => j = i BY <1>2, OneSegment
  <2>2. buf[i] \in Numbered BY <1>2, Domain
  <2>3. buf[i].sn \in Sn BY <2>2 DEF Numbered
  <2>4. QED BY <1>1, <2>1, <2>3
<1>5. \A sn \in Sn \ Sns(buf) :
        sent'[sn] = sent[sn] /\ fast'[sn] = fast[sn] /\ age'[sn] = age[sn]
  BY <1>1 DEF Sns
<1>6. \A sn \in Sn : /\ sent[sn] \in Nat /\ sent[sn] + 1 \in Nat /\ sent[sn] <= sent[sn] + 1
                     /\ fast[sn] + 1 \in Nat /\ sent[sn] <= sent[sn]
  BY <1>3
<1>7. sent' \in [Sn -> Nat] /\ fast' \in [Sn -> Nat] /\ age' \in [Sn -> Nat]
  BY <1>1, <1>3, <1>6
<1>8. \A sn \in Sn : sent'[sn] \in {sent[sn], sent[sn] + 1} BY <1>1
<1>9. \A sn \in Sn : sent[sn] <= sent'[sn] BY <1>6, <1>8
<1>10. QED BY <1>4, <1>5, <1>7, <1>9 DEF buf

\* After flush() the history agrees with every segment again.
LEMMA FlushAccounts ==
  ASSUME Bookkeeping, Flush, NEW i \in DOMAIN Filled
  PROVE  /\ snd_buf'[i] = Processed(Filled[i])
         /\ snd_buf'[i] \in InFlight /\ snd_buf'[i].sn = Filled[i].sn
         /\ sent'[Filled[i].sn] = snd_buf'[i].xmit
         /\ Accounted(snd_buf[i])'
<1> DEFINE s == Filled[i]
           t == Processed(s)
<1>1. /\ snd_buf'[i] = t /\ snd_buf'[i].xmit <= MaxXmit /\ snd_nxt' = snd_nxt + MoveCount
      /\ passed' = passed
  BY DEF Flush
<1>2. TypeOK BY DEF Bookkeeping
<1>3. Outstanding(s) BY FilledIs
<1>4. /\ s \in Numbered /\ s.sn < snd_nxt + MoveCount /\ sent[s.sn] = s.xmit
      /\ Earned(s) /\ (s.xmit > 0 => s.rto <= s.resend_in + age[s.sn])
  BY <1>3 DEF Outstanding
<1>5. /\ t \in Numbered /\ t.sn = s.sn /\ t.xmit \in Nat \ {0}
      /\ t.xmit = IF NeedsSend(s) THEN s.xmit + 1 ELSE s.xmit
      /\ t.fastack = IF NeedsFast(s) THEN 0 ELSE s.fastack
      /\ NeedsSend(s) => t.rto <= t.resend_in
      /\ ~NeedsSend(s) => t = s /\ s.xmit > 0
  BY <1>2, <1>4, ProcessedIs
<1>6. /\ sent'[s.sn] = IF NeedsSend(s) THEN sent[s.sn] + 1 ELSE sent[s.sn]
      /\ fast'[s.sn] = IF NeedsFast(s) THEN fast[s.sn] + 1 ELSE fast[s.sn]
      /\ age'[s.sn] = IF NeedsSend(s) THEN 0 ELSE age[s.sn]
  BY FlushCounts
<1>7. /\ s.sn \in Sn /\ s.fastack \in Nat /\ s.rto \in Nat /\ s.resend_in \in Nat
      /\ s.xmit \in Nat /\ t.rto \in Nat /\ t.resend_in \in Nat
  BY <1>4, <1>5 DEF Numbered
<1>8. fast[s.sn] \in Nat /\ passed[s.sn] \in Nat /\ age[s.sn] \in Nat
  <2>1. fast \in [Sn -> Nat] /\ passed \in [Sn -> Nat] /\ age \in [Sn -> Nat]
    BY <1>2 DEF TypeOK
  <2>2. QED BY <1>7, <2>1
<1> HIDE DEF t
<1>9. t \in InFlight
  <2>1. t.xmit \in 1..MaxXmit BY <1>1, <1>5, Limits
  <2>2. t = [sn |-> t.sn, xmit |-> t.xmit, fastack |-> t.fastack, rto |-> t.rto,
             resend_in |-> t.resend_in]
        /\ t.sn \in Sn /\ t.fastack \in Nat /\ t.rto \in Nat /\ t.resend_in \in Nat
    BY <1>5 DEF Numbered
  <2>3. QED BY <2>1, <2>2 DEF InFlight
<1>10. sent'[s.sn] = t.xmit
  BY <1>4, <1>5, <1>6
<1>11. t.rto <= t.resend_in + age'[s.sn]
  <2>1. CASE NeedsSend(s) BY <1>5, <1>6, <1>7, <2>1
  <2>2. CASE ~NeedsSend(s) BY <1>4, <1>5, <1>6, <2>2
  <2>3. QED BY <2>1, <2>2
<1>12. IF fast'[s.sn] = 0 THEN t.fastack <= passed[s.sn]
       ELSE fast'[s.sn] * (Min(FastResend \ {0}) + 1) + t.fastack <= passed[s.sn]
  <2> DEFINE K == Min(FastResend \ {0})
             f == fast[s.sn]
             p == passed[s.sn]
  <2>0. IF f = 0 THEN s.fastack <= p ELSE f * (K + 1) + s.fastack <= p
    BY <1>4 DEF Earned
  <2>1. CASE ~NeedsFast(s)
    BY <1>5, <1>6, <2>0, <2>1
  <2>2. CASE NeedsFast(s)
    <3>1. fastresend > 0 /\ fastresend < s.fastack BY <2>2 DEF NeedsFast, CanFastResend
    <3>2. fastresend \in FastResend \ {0} /\ fastresend \in Nat
      BY <1>2, <3>1, Types DEF TypeOK
    <3>3. FastResend \ {0} \in SUBSET Nat BY Limits
    <3>4. K \in Nat /\ K <= fastresend BY <3>2, <3>3, MinOfNaturals
    <3>5. t.fastack = 0 /\ fast'[s.sn] = f + 1 BY <1>5, <1>6, <2>2
    <3>6. f \in Nat /\ p \in Nat BY <1>8
    <3> HIDE DEF K, f, p
    <3>7. K + 1 <= s.fastack BY <1>7, <3>1, <3>2, <3>4
    <3>8. (f + 1) * (K + 1) <= p
      <4> DEFINE c == K + 1
      <4>1. c \in Nat BY <3>4
      <4>2. c <= s.fastack BY <3>7
      <4>3. IF f = 0 THEN s.fastack <= p ELSE f * c + s.fastack <= p BY <2>0
      <4> HIDE DEF c
      <4>4. f * c \in Nat BY <3>6, <4>1, ProductOfNaturals
      <4>5. (f + 1) * c = f * c + c BY <3>6, <4>1, ProductSteps
      <4>6. CASE f = 0
        <5>1. f * c = 0 BY <4>1, <4>6
        <5>2. QED BY <1>7, <3>6, <4>1, <4>2, <4>3, <4>5, <4>6, <5>1 DEF c
      <4>7. CASE f # 0
        <5>1. f * c + s.fastack <= p BY <4>3, <4>7
        <5>2. f * c + c <= p BY <1>7, <3>6, <4>1, <4>2, <4>4, <5>1
        <5>3. QED BY <4>5, <5>2 DEF c
      <4>8. QED BY <4>6, <4>7
    <3>9. f + 1 # 0 BY <3>6
    <3>10. (f + 1) * (K + 1) + 0 <= p
      <4>1. (f + 1) * (K + 1) \in Nat
        <5>1. f + 1 \in Nat /\ K + 1 \in Nat BY <3>4, <3>6
        <5>2. QED BY <5>1, ProductOfNaturals
      <4>2. QED BY <3>8, <4>1
    <3>11. QED BY <3>5, <3>9, <3>10 DEF K, f, p
  <2>3. QED BY <2>1, <2>2
<1>13. Accounted(snd_buf[i])'
  <2>1. t.sn = s.sn /\ s.sn < snd_nxt' BY <1>1, <1>4, <1>5
  <2>2. snd_buf'[i].sn < snd_nxt' /\ sent'[snd_buf'[i].sn] = snd_buf'[i].xmit
    BY <1>1, <1>10, <2>1
  <2>3. snd_buf'[i].rto <= snd_buf'[i].resend_in + age'[snd_buf'[i].sn]
    BY <1>1, <1>11, <2>1
  <2>4. IF fast'[snd_buf'[i].sn] = 0 THEN snd_buf'[i].fastack <= passed'[snd_buf'[i].sn]
        ELSE fast'[snd_buf'[i].sn] * (Min(FastResend \ {0}) + 1) + snd_buf'[i].fastack
               <= passed'[snd_buf'[i].sn]
    BY <1>1, <1>12, <2>1
  <2>5. QED BY <2>2, <2>3, <2>4 DEF Accounted, Earned
<1>14. QED BY <1>1, <1>5, <1>9, <1>10, <1>13 DEF t

LEMMA CongestionAfterIs ==
  ASSUME TypeOK, NEW buf, NEW nxt \in Nat, nxt - snd_una \in Nat
  PROVE  CongestionAfter(buf, nxt) \in Congestion
<1> DEFINE resent == IF \E i \in DOMAIN buf : NeedsFast(buf[i])
                     THEN PacketsResent(cc, nxt - snd_una, fastresend) ELSE cc
           lost == IF \E i \in DOMAIN buf : NeedsTimeout(buf[i])
                   THEN PacketLost(resent) ELSE resent
<1>1. CongestionAfter(buf, nxt) = EnsureAtLeastOne(lost)
  BY Zenon DEF CongestionAfter
<1>2. cc \in Congestion /\ fastresend \in Nat BY Types
<1>3. PacketsResent(cc, nxt - snd_una, fastresend) \in Congestion
  BY <1>2, ResentIsCongestion
<1>4. resent \in Congestion BY <1>2, <1>3, Zenon
<1> HIDE DEF resent
<1>5. lost \in Congestion BY <1>4, LostIsCongestion, Zenon
<1> HIDE DEF lost
<1>6. QED BY <1>1, <1>5, OpenIsCongestion

LEMMA FlushKeepsBooks ==
  ASSUME Bookkeeping, Flush
  PROVE  Bookkeeping'
<1> DEFINE m == MoveCount
           buf == Filled
<1>1. /\ queued' = queued - m /\ snd_nxt' = snd_nxt + m
      /\ snd_buf' = [i \in DOMAIN buf |-> Processed(buf[i])]
      /\ cc' = CongestionAfter(buf, snd_nxt + m)
      /\ UNCHANGED <<configVars, snd_una, rmt_wnd, rx_rto, inputVars, got, answered,
                     passed>>
  BY DEF Flush
<1>2. dead' = (dead \/ \E i \in DOMAIN buf :
                         NeedsSend(buf[i]) /\ Processed(buf[i]).xmit >= dead_link)
  <2>1. dead' = (dead \/ \E s \in {Processed(buf[i]) : i \in {k \in DOMAIN buf : NeedsSend(buf[k])}} :
                           s.xmit >= dead_link)
    BY DEF Flush, DeadAfter
  <2> HIDE DEF buf
  <2>2. QED BY <2>1
<1>3. /\ buf \in Seq(Numbered) /\ Ordered(buf)
      /\ \A i \in DOMAIN buf : Outstanding(buf[i])
      /\ Sns(buf) = Sns(snd_buf) \union (snd_nxt..(snd_nxt + m - 1))
      /\ RemoteUna(buf, snd_nxt + m) = snd_una
  BY FilledIs
<1>4. /\ \A i \in DOMAIN buf :
           /\ sent'[buf[i].sn] = IF NeedsSend(buf[i]) THEN sent[buf[i].sn] + 1
                                 ELSE sent[buf[i].sn]
           /\ fast'[buf[i].sn] = IF NeedsFast(buf[i]) THEN fast[buf[i].sn] + 1
                                 ELSE fast[buf[i].sn]
      /\ \A sn \in Sn \ Sns(buf) :
           sent'[sn] = sent[sn] /\ fast'[sn] = fast[sn] /\ age'[sn] = age[sn]
      /\ sent' \in [Sn -> Nat] /\ fast' \in [Sn -> Nat] /\ age' \in [Sn -> Nat]
      /\ \A sn \in Sn : sent[sn] <= sent'[sn]
  BY FlushCounts
<1>5. \A i \in DOMAIN buf :
        /\ snd_buf'[i] = Processed(buf[i])
        /\ snd_buf'[i] \in InFlight /\ snd_buf'[i].sn = buf[i].sn
        /\ sent'[buf[i].sn] = snd_buf'[i].xmit
        /\ Accounted(snd_buf[i])'
  BY FlushAccounts
<1>6. /\ TypeOK /\ queued \in Nat /\ snd_nxt \in Nat /\ snd_una \in Nat
      /\ cc \in Congestion /\ fastresend \in Nat /\ dead_link \in Nat
  BY Types DEF Bookkeeping
<1>7. m \in 0..queued /\ m \in Nat
  <2>1. m \in 0..queued BY <1>6, MoveCountIs
  <2>2. QED BY <1>6, <2>1
<1> HIDE DEF m, buf
<1>8. /\ snd_buf' \in Seq(InFlight) /\ DOMAIN snd_buf' = DOMAIN buf
      /\ Sns(snd_buf') = Sns(buf) /\ Ordered(snd_buf')
      /\ RemoteUna(snd_buf', snd_nxt + m) = RemoteUna(buf, snd_nxt + m)
  <2>1. snd_buf' = [i \in DOMAIN buf |-> snd_buf'[i]] BY <1>1
  <2>2. QED BY <1>3, <1>5, <2>1, InPlace
<1>9. cc' \in Congestion
  <2>1. snd_nxt + m - snd_una \in Nat
    <3>1. snd_una = RemoteUna(snd_buf, snd_nxt) BY DEF Bookkeeping, BufferInOrder
    <3>2. RemoteUna(snd_buf, snd_nxt) \in 0..snd_nxt BY BufferFacts, RemoteUnaIs
    <3>3. QED BY <1>6, <1>7, <3>1, <3>2
  <2>2. snd_nxt + m \in Nat BY <1>6, <1>7
  <2> DEFINE nxt == snd_nxt + m
  <2>3. nxt \in Nat BY <2>2
  <2>5. nxt - snd_una \in Nat BY <1>6, <1>7, <2>1
  <2>6. cc' = CongestionAfter(buf, nxt) BY <1>1
  <2> HIDE DEF nxt
  <2>4. QED BY <1>6, <2>3, <2>5, <2>6, CongestionAfterIs
<1>10. (queued + snd_nxt <= MaxSn)' /\ queued' \in Nat /\ snd_nxt' \in Nat
  <2>1. queued + snd_nxt <= MaxSn BY DEF Bookkeeping
  <2>2. QED BY <1>1, <1>6, <1>7, <2>1, Limits
<1>11. TypeOK'
  <2>1. queued' \in 0..MaxSn /\ snd_nxt' \in 0..MaxSn
    <3>1. queued' \in Nat /\ snd_nxt' \in Nat /\ MaxSn \in Nat BY <1>10, Limits
    <3>2. queued' + snd_nxt' <= MaxSn BY <1>10
    <3> DEFINE q == queued'
               n == snd_nxt'
    <3>3. q \in Nat /\ n \in Nat /\ MaxSn \in Nat /\ q + n <= MaxSn BY <3>1, <3>2
    <3> HIDE DEF q, n
    <3>4. q \in 0..MaxSn /\ n \in 0..MaxSn BY <3>3
    <3>5. QED BY <3>4 DEF q, n
  <2>2. snd_una' \in 0..MaxSn BY <1>1, <1>6 DEF TypeOK
  <2>3. dead' \in BOOLEAN BY <1>2, Zenon
  <2>4. QED BY <1>1, <1>4, <1>6, <1>8, <1>9, <2>1, <2>2, <2>3
        DEF TypeOK, configVars, inputVars
<1>12. BufferInOrder'
  <2>1. snd_una' = RemoteUna(snd_buf', snd_nxt') BY <1>1, <1>3, <1>8
  <2>2. \A i, j \in DOMAIN snd_buf' : i < j => snd_buf'[i].sn < snd_buf'[j].sn
    BY <1>8 DEF Ordered
  <2>3. (0..(snd_nxt' - 1)) \ got' \subseteq Sns(snd_buf')
    <3>1. (0..(snd_nxt + m - 1)) \ got
            \subseteq Sns(snd_buf) \union (snd_nxt..(snd_nxt + m - 1))
      <4>1. SUFFICES ASSUME NEW x \in 0..(snd_nxt + m - 1), x \notin got
                     PROVE  x \in Sns(snd_buf) \union (snd_nxt..(snd_nxt + m - 1))
        OBVIOUS
      <4>2. x \in 0..(snd_nxt - 1) \/ x \in snd_nxt..(snd_nxt + m - 1)
        BY <1>6, <1>7
      <4>3. (0..(snd_nxt - 1)) \ got \subseteq Sns(snd_buf)
        BY DEF Bookkeeping, BufferInOrder
      <4>4. QED BY <4>1, <4>2, <4>3
    <3>2. got' = got /\ snd_nxt' = snd_nxt + m BY <1>1
    <3>3. Sns(snd_buf') = Sns(snd_buf) \union (snd_nxt..(snd_nxt + m - 1))
      BY <1>3, <1>8
    <3> DEFINE D == (0..(snd_nxt + m - 1)) \ got
               T == Sns(snd_buf) \union (snd_nxt..(snd_nxt + m - 1))
    <3>4. (0..(snd_nxt' - 1)) \ got' = D
      <4>1. snd_nxt' - 1 = snd_nxt + m - 1 BY <1>6, <1>7, <3>2
      <4>2. 0..(snd_nxt' - 1) = 0..(snd_nxt + m - 1) BY <4>1
      <4>3. QED BY <3>2, <4>2
    <3>5. D \subseteq T BY <3>1
    <3> HIDE DEF D, T
    <3>6. Sns(snd_buf') = T BY <3>3 DEF T
    <3>7. QED BY <3>4, <3>5, <3>6
  <2>4. QED BY <2>1, <2>2, <2>3 DEF BufferInOrder
<1>13. NothingAnsweredStays'
  <2>1. Sns(snd_buf) \intersect answered = {} /\ answered \subseteq got
    BY <1>6 DEF Bookkeeping, NothingAnsweredStays, TypeOK
  <2>2. \A x \in got : x < snd_nxt BY DEF Bookkeeping, Unused
  <2>3. \A x \in snd_nxt..(snd_nxt + m - 1) : ~(x < snd_nxt) BY <1>6, <1>7
  <2>4. QED BY <1>1, <1>3, <1>8, <2>1, <2>2, <2>3 DEF NothingAnsweredStays
<1>14. FastResendsAreEarned'
  <2> SUFFICES ASSUME NEW sn \in Sn, fast'[sn] # 0
               PROVE  fast'[sn] * (Min(FastResend \ {0}) + 1) <= passed'[sn]
    BY DEF FastResendsAreEarned
  <2>1. CASE sn \in Sns(buf)
    <3>1. PICK i \in DOMAIN buf : buf[i].sn = sn BY <2>1 DEF Sns
    <3>2. Accounted(snd_buf[i])' /\ snd_buf'[i].sn = sn BY <1>5, <3>1
    <3>3. fast'[sn] * (Min(FastResend \ {0}) + 1) + snd_buf'[i].fastack <= passed'[sn]
      BY <3>2 DEF Accounted, Earned
    <3>4. snd_buf'[i].fastack \in Nat /\ fast'[sn] \in Nat /\ passed'[sn] \in Nat
      <4>1. snd_buf'[i] \in InFlight BY <1>5
      <4>2. passed' \in [Sn -> Nat] BY <1>1, <1>6 DEF TypeOK
      <4>3. QED BY <1>4, <4>1, <4>2 DEF InFlight
    <3>5. Min(FastResend \ {0}) \in Nat
      <4>1. FastResend \ {0} # {}
        <5>1. CASE fast[sn] # 0 BY <5>1 DEF Bookkeeping, Unused
        <5>2. CASE fast[sn] = 0
          <6>1. NeedsFast(buf[i]) BY <1>4, <3>1, <5>2
          <6>2. fastresend > 0 BY <6>1 DEF NeedsFast, CanFastResend
          <6>3. QED BY <1>6, <6>2 DEF TypeOK
        <5>3. QED BY <5>1, <5>2
      <4>2. FastResend \ {0} \in SUBSET Nat BY Limits
      <4>3. QED BY <4>1, <4>2, MinOfNaturals
    <3> DEFINE cost == fast'[sn] * (Min(FastResend \ {0}) + 1)
    <3>6. cost \in Nat BY <3>4, <3>5, ProductOfNaturals
    <3>7. cost + snd_buf'[i].fastack <= passed'[sn] BY <3>3
    <3> HIDE DEF cost
    <3>8. cost <= passed'[sn] BY <3>4, <3>6, <3>7
    <3>9. QED BY <3>8 DEF cost
  <2>2. CASE sn \notin Sns(buf)
    <3>1. fast'[sn] = fast[sn] BY <1>4, <2>2
    <3>2. QED BY <1>1, <3>1 DEF Bookkeeping, FastResendsAreEarned
  <2>3. QED BY <2>1, <2>2
<1>15. DeadLinkIsRemembered'
  <2>1. DeadLinkIsRemembered /\ dead_link \in DeadLink
    BY <1>6 DEF Bookkeeping, TypeOK
  <2>2. sent \in [Sn -> Nat] /\ \A limit \in DeadLink : limit \in Nat
    BY <1>6, Limits DEF TypeOK
  <2>3. ASSUME NEW sn \in Sn, \A limit \in DeadLink : sent'[sn] >= limit
        PROVE  dead'
    <3>1. CASE sent'[sn] = sent[sn]
      BY <1>2, <2>1, <2>3, <3>1 DEF DeadLinkIsRemembered
    <3>2. CASE sent'[sn] # sent[sn]
      <4>1. PICK i \in DOMAIN buf : buf[i].sn = sn
        <5>1. sn \in Sns(buf) BY <1>4, <3>2
        <5>2. QED BY <5>1 DEF Sns
      <4>2. NeedsSend(buf[i]) BY <1>4, <3>2, <4>1
      <4>3. Processed(buf[i]).xmit = sent'[sn] BY <1>5, <4>1
      <4>4. QED BY <1>2, <2>1, <2>3, <4>2, <4>3
    <3>3. QED BY <3>1, <3>2
  <2>4. ASSUME dead'
        PROVE  \E sn \in Sn : \E limit \in DeadLink : sent'[sn] >= limit
    <3>1. CASE dead
      <4>1. PICK sn \in Sn, limit \in DeadLink : sent[sn] >= limit
        BY <2>1, <3>1 DEF DeadLinkIsRemembered
      <4>2. sent[sn] \in Nat /\ sent'[sn] \in Nat /\ limit \in Nat /\ sent[sn] <= sent'[sn]
        BY <1>4, <2>2
      <4>3. sent'[sn] >= limit BY <4>1, <4>2
      <4>4. QED BY <4>3
    <3>2. CASE ~dead
      <4>1. PICK i \in DOMAIN buf : NeedsSend(buf[i]) /\ Processed(buf[i]).xmit >= dead_link
        BY <1>2, <2>4, <3>2
      <4>2. sent'[buf[i].sn] >= dead_link BY <1>5, <4>1
      <4>3. buf[i].sn \in Sn BY <1>3 DEF Outstanding, Numbered
      <4>4. QED BY <2>1, <4>2, <4>3
    <3>3. QED BY <3>1, <3>2
  <2>5. QED BY <1>1, <2>3, <2>4 DEF DeadLinkIsRemembered
<1>16. Unused'
  <2>1. \A sn \in got : sn < snd_nxt' 
    <3> TAKE sn \in got
    <3>1. sn < snd_nxt /\ sn \in Nat
      BY <1>6, Types, Limits DEF Bookkeeping, Unused
    <3>2. QED BY <1>1, <1>6, <1>7, <3>1
  <2>2. ASSUME NEW sn \in Sn, sn >= snd_nxt'
        PROVE  sent'[sn] = 0 /\ fast'[sn] = 0
    <3>1. sn \in Nat /\ sn >= snd_nxt + m BY <1>1, <2>2, Limits
    <3>2. sn >= snd_nxt BY <1>6, <1>7, <3>1
    <3>3. sn \notin Sns(buf)
      <4>1. \A x \in Sns(snd_buf) : x < snd_nxt BY BufferFacts
      <4>2. sn \notin Sns(snd_buf) BY <1>6, <3>1, <3>2, <4>1
      <4>3. QED BY <1>3, <1>6, <1>7, <3>1, <4>2
    <3>4. sent[sn] = 0 /\ fast[sn] = 0 BY <3>2 DEF Bookkeeping, Unused
    <3>5. QED BY <1>4, <3>3, <3>4
  <2>3. ASSUME NEW sn \in Sn, fast'[sn] # 0
        PROVE  FastResend \ {0} # {}
    <3>1. CASE fast[sn] # 0 BY <3>1 DEF Bookkeeping, Unused
    <3>2. CASE fast[sn] = 0
      <4>1. PICK i \in DOMAIN buf : buf[i].sn = sn
        <5>1. sn \in Sns(buf) BY <1>4, <2>3, <3>2
        <5>2. QED BY <5>1 DEF Sns
      <4>2. NeedsFast(buf[i]) BY <1>4, <2>3, <3>2, <4>1
      <4>3. fastresend > 0 BY <4>2 DEF NeedsFast, CanFastResend
      <4>4. QED BY <1>6, <4>3 DEF TypeOK
    <3>3. QED BY <3>1, <3>2
  <2>4. QED BY <1>1, <2>1, <2>2, <2>3 DEF Unused
<1>17. \A i \in DOMAIN snd_buf' : Accounted(snd_buf[i])'
  BY <1>5, <1>8
<1>18. QED
  BY <1>10, <1>11, <1>12, <1>13, <1>14, <1>15, <1>16, <1>17 DEF Bookkeeping

-----------------------------------------------------------------------------
(* Theorems.                                                               *)

LEMMA InitKeepsBooks == Init => Bookkeeping
<1> SUFFICES ASSUME Init PROVE Bookkeeping
  OBVIOUS
<1>1. /\ queued = 0 /\ snd_buf = <<>> /\ snd_una = 0 /\ snd_nxt = 0
      /\ rmt_wnd = SndWnd /\ cc = InitialCongestion /\ rx_rto \in Rto
      /\ dead = FALSE /\ got = {} /\ answered = {}
      /\ reading = FALSE /\ prev_una = 0 /\ maxack = Invalid
      /\ sent = [sn \in Sn |-> 0] /\ fast = [sn \in Sn |-> 0]
      /\ passed = [sn \in Sn |-> 0] /\ age = [sn \in Sn |-> 0]
      /\ fastresend \in FastResend /\ fastlimit \in FastLimit
      /\ nodelay \in NoDelay /\ dead_link \in DeadLink
  BY DEF Init
<1>2. TypeOK
  <2>1. 0 \in 0..MaxSn /\ 0 \in 0..0 BY Limits
  <2>2. InitialCongestion \in Congestion
    BY CongestionAssumption DEF InitialCongestion, Congestion
  <2>3. <<>> \in Seq(InFlight) BY EmptySeq
  <2>4. sent \in [Sn -> Nat] /\ fast \in [Sn -> Nat] /\ passed \in [Sn -> Nat]
        /\ age \in [Sn -> Nat]
    BY <1>1
  <2>5. QED BY <1>1, <2>1, <2>2, <2>3, <2>4 DEF TypeOK
<1>3. Sns(snd_buf) = {} /\ DOMAIN snd_buf = {} BY <1>1 DEF Sns
<1>4. BufferInOrder
  <2>1. RemoteUna(snd_buf, snd_nxt) = snd_una BY <1>1 DEF RemoteUna
  <2>2. 0..(snd_nxt - 1) = {} BY <1>1
  <2>3. QED BY <1>3, <2>1, <2>2 DEF BufferInOrder
<1>5. NothingAnsweredStays BY <1>3 DEF NothingAnsweredStays
<1>6. FastResendsAreEarned BY <1>1 DEF FastResendsAreEarned
<1>7. DeadLinkIsRemembered
  <2>1. \A sn \in Sn : ~(sent[sn] >= dead_link)
    <3>1. dead_link \in Nat \ {0} BY <1>1, Limits
    <3>2. QED BY <1>1, <3>1
  <2>2. QED BY <1>1, <2>1 DEF DeadLinkIsRemembered
<1>8. Unused BY <1>1 DEF Unused
<1>9. queued + snd_nxt <= MaxSn BY <1>1, Limits
<1>10. QED
  BY <1>2, <1>3, <1>4, <1>5, <1>6, <1>7, <1>8, <1>9 DEF Bookkeeping

\* The history and the deque agree in every state.
LEMMA BooksAreKept == Spec => []Bookkeeping
<1>1. ASSUME Bookkeeping, [Next]_vars PROVE Bookkeeping'
  <2>1. CASE Configure \/ Send \/ UNCHANGED vars BY <1>1, <2>1, SetUpKeepsBooks
  <2>2. CASE Tick BY <1>1, <2>2, TickKeepsBooks
  <2>3. CASE Get BY <1>1, <2>3, GetKeepsBooks
  <2>4. CASE Flush BY <1>1, <2>4, FlushKeepsBooks
  <2>5. CASE Input
    <3>1. ASSUME NEW wnd \in RemoteWindow, NEW una \in 0..FirstMissing,
                 ReadOther(wnd, una) \/ \E sn \in got : ReadAck(wnd, una, sn)
          PROVE  Bookkeeping'
      BY <1>1, <3>1, ReadOtherKeepsBooks, ReadAckKeepsBooks
    <3>2. CASE ReadError BY <1>1, <3>2, SetUpKeepsBooks
    <3>3. CASE EndInput BY <1>1, <3>3, EndInputKeepsBooks
    <3>4. QED BY <2>5, <3>1, <3>2, <3>3 DEF Input
  <2>6. QED BY <1>1, <2>1, <2>2, <2>3, <2>4, <2>5 DEF Next
<1>2. QED BY <1>1, InitKeepsBooks, PTL DEF Spec

\* Every variable of the sending half keeps its type; in particular the
\* acknowledgements it has read are of segments the receiver has got.
THEOREM TransmissionTypes == Spec => []TypeOK
<1>1. Bookkeeping => TypeOK BY DEF Bookkeeping
<1>2. QED BY <1>1, BooksAreKept, PTL

\* The deque is sorted, starts at snd_una and misses nothing that the receiver
\* has not got, so that the loops that stop early find what they look for.
THEOREM DequeStaysInOrder == Spec => []BufferInOrder
<1>1. Bookkeeping => BufferInOrder BY DEF Bookkeeping
<1>2. QED BY <1>1, BooksAreKept, PTL

\* No segment is sent again once its acknowledgement has been read.
THEOREM AnsweredSegmentsLeave == Spec => []NothingAnsweredStays
<1>1. Bookkeeping => NothingAnsweredStays BY DEF Bookkeeping
<1>2. QED BY <1>1, BooksAreKept, PTL

\* Each fast retransmission is paid for by datagrams that acknowledged past
\* the segment, and none of them pays twice.
THEOREM FastResendsEarned == Spec => []FastResendsAreEarned
<1>1. Bookkeeping => FastResendsAreEarned BY DEF Bookkeeping
<1>2. QED BY <1>1, BooksAreKept, PTL

\* A dead link is found out when its threshold is reached, and stays dead.
THEOREM DeadLinkRemembered == Spec => []DeadLinkIsRemembered
<1>1. Bookkeeping => DeadLinkIsRemembered BY DEF Bookkeeping
<1>2. QED BY <1>1, BooksAreKept, PTL

\* Only flush() sends.
LEMMA OnlyFlushSends ==
  ASSUME TypeOK, [Next]_vars, ~Flush
  PROVE  sent' = sent /\ fast' = fast
<1>1. CASE Configure
  BY <1>1 DEF Configure, SetFastResend, SetFastLimit, SetNoDelay, SetDeadLink,
              connectionVars, historyVars
<1>2. CASE Send \/ Tick \/ Get BY <1>2 DEF Send, Tick, Get, historyVars
<1>3. CASE Input
  BY <1>3 DEF Input, ReadOther, ReadAck, ReadHeader, ReadError, EndInput, historyVars
<1>4. CASE UNCHANGED vars BY <1>4 DEF vars, connectionVars, historyVars
<1>5. QED BY <1>1, <1>2, <1>3, <1>4 DEF Next

\* What is sent fast has been sent before.
FirstIsNotFast == \A sn \in Sn : fast[sn] = 0 \/ fast[sn] < sent[sn]

LEMMA FastCountsBelow ==
  ASSUME Bookkeeping, [Next]_vars, FirstIsNotFast, NEW sn \in Sn
  PROVE  /\ fast'[sn] = 0 \/ fast'[sn] < sent'[sn]
         /\ fastlimit > 0 /\ fast'[sn] > fast[sn] => fast'[sn] < fastlimit
<1>1. /\ fast \in [Sn -> Nat] /\ sent \in [Sn -> Nat] /\ TypeOK /\ fastlimit \in Nat
  BY Types DEF Bookkeeping, TypeOK
<1>2. fast[sn] \in Nat /\ sent[sn] \in Nat BY <1>1
<1>3. fast[sn] = 0 \/ fast[sn] < sent[sn] BY DEF FirstIsNotFast
<1>4. CASE fast'[sn] = fast[sn] /\ sent'[sn] >= sent[sn] /\ sent'[sn] \in Nat
  BY <1>2, <1>3, <1>4
<1>5. CASE ~Flush
  <2>1. fast'[sn] = fast[sn] /\ sent'[sn] = sent[sn] BY <1>1, <1>5, OnlyFlushSends
  <2>2. QED BY <1>2, <1>4, <2>1
<1>6. CASE Flush
  <2>1. CASE sn \notin Sns(Filled)
    <3>1. fast'[sn] = fast[sn] /\ sent'[sn] = sent[sn] BY <1>6, <2>1, FlushCounts
    <3>2. QED BY <1>2, <1>4, <3>1
  <2>2. CASE sn \in Sns(Filled)
    <3>1. PICK i \in DOMAIN Filled : Filled[i].sn = sn BY <2>2 DEF Sns
    <3> DEFINE s == Filled[i]
    <3>2. /\ sent'[sn] = IF NeedsSend(s) THEN sent[sn] + 1 ELSE sent[sn]
          /\ fast'[sn] = IF NeedsFast(s) THEN fast[sn] + 1 ELSE fast[sn]
      BY <1>6, <3>1, FlushCounts
    <3>3. s.xmit \in Nat /\ sent[sn] = s.xmit
      <4>1. Outstanding(s) BY <1>6, FilledIs
      <4>2. s.sn = sn BY <3>1
      <4> HIDE DEF s
      <4>3. QED BY <4>1, <4>2 DEF Outstanding, Numbered
    <3> HIDE DEF s
    <3>4. CASE NeedsFast(s)
      <4>1. s.xmit > 0 /\ (fastlimit > 0 => s.xmit < fastlimit) /\ NeedsSend(s)
        BY <1>1, <3>4 DEF NeedsFast, CanFastResend, NeedsSend
      <4>2. fast'[sn] = fast[sn] + 1 /\ sent'[sn] = sent[sn] + 1 BY <3>2, <3>4, <4>1
      <4>3. fast[sn] + 1 <= sent[sn] /\ (fastlimit > 0 => sent[sn] < fastlimit)
        BY <1>2, <1>3, <3>3, <4>1
      <4>4. QED BY <1>1, <1>2, <4>2, <4>3
    <3>5. CASE ~NeedsFast(s)
      <4>1. fast'[sn] = fast[sn] /\ sent'[sn] \in {sent[sn], sent[sn] + 1}
        BY <3>2, <3>5
      <4>2. QED BY <1>2, <1>4, <4>1
    <3>6. QED BY <3>4, <3>5
  <2>3. QED BY <2>1, <2>2
<1>7. QED BY <1>5, <1>6

\* set_fastlimit(): with a limit no segment is sent again fast as often as the
\* limit says, whatever the limits before, the timeouts and the losses were.
\* The code compares the transmissions of a segment with it: each that was fast
\* is one, and so is the first, which is not.
THEOREM FastResendsLimited == Spec => FastResendsAreLimited
<1>1. Init => FirstIsNotFast BY DEF Init, FirstIsNotFast
<1>2. Bookkeeping /\ FirstIsNotFast /\ [Next]_vars => FirstIsNotFast'
  BY FastCountsBelow DEF FirstIsNotFast
<1>3. Bookkeeping /\ FirstIsNotFast /\ [Next]_vars =>
        [fastlimit > 0 =>
           \A sn \in Sn : fast'[sn] > fast[sn] => fast'[sn] < fastlimit]_vars
  BY FastCountsBelow
<1>4. QED BY <1>1, <1>2, <1>3, BooksAreKept, PTL DEF Spec, FastResendsAreLimited

\* A segment is sent again only when its own timeout has run out, or fast.
THEOREM TimeoutsWaitedFor == Spec => TimeoutsAreWaitedFor
<1>1. ASSUME Bookkeeping, [Next]_vars, NEW i \in DOMAIN snd_buf,
             sent'[snd_buf[i].sn] > sent[snd_buf[i].sn],
             fast'[snd_buf[i].sn] = fast[snd_buf[i].sn]
      PROVE  age[snd_buf[i].sn] >= snd_buf[i].rto
  <2> DEFINE s == snd_buf[i]
  <2>1. TypeOK /\ s \in InFlight
    BY <1>1, BufferFacts, Domain DEF Bookkeeping
  <2>2. /\ s.sn \in Sn /\ s.xmit \in Nat \ {0} /\ s.rto \in Nat
        /\ sent[s.sn] \in Nat /\ fast[s.sn] \in Nat /\ age[s.sn] \in Nat
    BY <2>1, SegmentTypes
  <2>3. ~(sent'[s.sn] = sent[s.sn])
    <3>1. sent'[s.sn] > sent[s.sn] BY <1>1
    <3> HIDE DEF s
    <3>2. QED BY <2>2, <3>1
  <2>4. Flush BY <1>1, <2>1, <2>3, OnlyFlushSends
  <2>5. i \in DOMAIN Filled /\ Filled[i] = s BY <1>1, FilledIs
  <2>6. /\ sent'[s.sn] = IF NeedsSend(s) THEN sent[s.sn] + 1 ELSE sent[s.sn]
        /\ fast'[s.sn] = IF NeedsFast(s) THEN fast[s.sn] + 1 ELSE fast[s.sn]
    BY <1>1, <2>4, <2>5, FlushCounts
  <2>7. fast'[s.sn] = fast[s.sn] BY <1>1
  <2>8. Accounted(s) BY <1>1 DEF Bookkeeping
  <2> HIDE DEF s
  <2>9. NeedsSend(s) BY <2>3, <2>6
  <2>10. ~NeedsFast(s) BY <2>2, <2>6, <2>7
  <2>11. ~NeedsFirst(s) BY <2>2 DEF NeedsFirst
  <2>12. s.resend_in = 0 BY <2>9, <2>10, <2>11 DEF NeedsSend, NeedsTimeout, TimedOut
  <2>13. s.rto <= s.resend_in + age[s.sn] BY <2>8 DEF Accounted
  <2>14. age[s.sn] >= s.rto BY <2>2, <2>12, <2>13
  <2>15. QED BY <2>14 DEF s
<1>2. Bookkeeping /\ [Next]_vars =>
        [\A i \in DOMAIN snd_buf :
           LET sn == snd_buf[i].sn IN
           sent'[sn] > sent[sn] /\ fast'[sn] = fast[sn] => age[sn] >= snd_buf[i].rto]_vars
  BY <1>1
<1>3. QED BY <1>2, BooksAreKept, PTL DEF Spec, TimeoutsAreWaitedFor

=============================================================================
