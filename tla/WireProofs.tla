-------------------------------- MODULE WireProofs --------------------------------
(***************************************************************************)
(* Proofs about Wire: between two hosts whose bytes come in the same order *)
(* on the wire, every header is read as it was written, whatever its       *)
(* fields hold.                                                            *)
(***************************************************************************)
EXTENDS Wire, SequenceTheorems, TLAPS

LEMMA BelowEight ==
  ASSUME NEW n \in Nat, n < 8
  PROVE  n \in 0..7
OBVIOUS

LEMMA SwappedLength ==
  ASSUME NEW S, NEW x \in Seq(S)
  PROVE  Swapped(x) \in Seq(S) /\ Len(Swapped(x)) = Len(x)
<1>1. Len(x) \in Nat /\ \A i \in 1..Len(x) : x[i] \in S
  BY ElementOfSeq
<1>2. \A i \in 1..Len(x) : Len(x) + 1 - i \in 1..Len(x)
  BY <1>1
<1>3. [i \in 1..Len(x) |-> x[Len(x) + 1 - i]] \in Seq(S)
  BY <1>1, <1>2, IsASeq
<1>4. QED BY <1>1, <1>3 DEF Swapped

LEMMA SwappedTwice ==
  ASSUME NEW S, NEW x \in Seq(S)
  PROVE  Swapped(Swapped(x)) = x
<1> DEFINE y == Swapped(x)
<1>1. y \in Seq(S) /\ Len(y) = Len(x) /\ Len(x) \in Nat
  BY SwappedLength
<1>2. y = [i \in 1..Len(x) |-> x[Len(x) + 1 - i]]
  BY DEF Swapped
<1>3. ASSUME NEW i \in 1..Len(x) PROVE y[Len(x) + 1 - i] = x[i]
  <2>1. Len(x) + 1 - i \in 1..Len(x) BY <1>1
  <2>2. y[Len(x) + 1 - i] = x[Len(x) + 1 - (Len(x) + 1 - i)] BY <1>2, <2>1
  <2>3. Len(x) + 1 - (Len(x) + 1 - i) = i BY <1>1
  <2>4. QED BY <2>2, <2>3
<1>4. Swapped(y) = [i \in 1..Len(y) |-> y[Len(y) + 1 - i]]
  BY DEF Swapped
<1> HIDE DEF y
<1>5. Swapped(y) = [i \in 1..Len(x) |-> x[i]]
  BY <1>1, <1>3, <1>4
<1>6. x = [i \in 1..Len(x) |-> x[i]] BY SeqDef
<1>7. QED BY <1>5, <1>6 DEF y

\* What a host writes: every host but the little-endian ones that must align
\* writes the most significant byte first.
LEMMA WrittenOrder ==
  ASSUME NEW S, NEW x \in Seq(S), NEW host \in Hosts
  PROVE  /\ Serialized(host, x) = IF host = "little" THEN Swapped(x) ELSE x
         /\ Deserialized(host, x) = IF host = "little" THEN Swapped(x) ELSE x
<1>1. CASE host = "x86"
  BY <1>1, SwappedTwice
     DEF Serialized, Deserialized, Memory, NetworkOrder, BigEndian, MustAlign
<1>2. CASE host = "little"
  BY <1>2 DEF Serialized, Deserialized, Memory, NetworkOrder, BigEndian, MustAlign
<1>3. CASE host = "big"
  BY <1>3 DEF Serialized, Deserialized, Memory, NetworkOrder, BigEndian, MustAlign
<1>4. QED BY <1>1, <1>2, <1>3 DEF Hosts

LEMMA FieldRoundTrip ==
  ASSUME NEW S, NEW x \in Seq(S), NEW a \in Hosts, NEW b \in Hosts, SameOrder(a, b)
  PROVE  Deserialized(b, Serialized(a, x)) = x
<1>1. Serialized(a, x) \in Seq(S) BY WrittenOrder, SwappedLength
<1>2. CASE a = "little"
  BY <1>1, <1>2, WrittenOrder, SwappedTwice DEF SameOrder
<1>3. CASE a # "little"
  BY <1>1, <1>3, WrittenOrder DEF SameOrder
<1>4. QED BY <1>2, <1>3

\* The fields lie one after the other.
LEMMA LayoutIsTight ==
  /\ Len(Widths) = 8
  /\ \A i \in 1..8 : Widths[i] \in Nat /\ Starts[i] \in Nat
                     /\ Starts[i + 1] = Starts[i] + Widths[i]
  /\ \A i, j \in 1..9 : i <= j => Starts[i] <= Starts[j]
  /\ Starts[1] = 0
BY DEF Widths, Starts

-----------------------------------------------------------------------------
(* Pieces of sequences.                                                    *)

LEMMA AppendKeepsPieces ==
  ASSUME NEW S, NEW s \in Seq(S), NEW t \in Seq(S),
         NEW a \in Nat, NEW b \in Nat, b <= Len(s)
  PROVE  SubSeq(s \o t, a + 1, b) = SubSeq(s, a + 1, b)
<1>1. Len(s) \in Nat /\ \A i \in (a + 1)..b : (s \o t)[i] = s[i]
  BY ConcatProperties
<1>2. SubSeq(s \o t, a + 1, b) = [i \in 1..(b - a) |-> (s \o t)[a + i]]
  BY DEF SubSeq
<1>3. SubSeq(s, a + 1, b) = [i \in 1..(b - a) |-> s[a + i]]
  BY DEF SubSeq
<1>4. \A i \in 1..(b - a) : a + i \in (a + 1)..b
  OBVIOUS
<1>5. QED BY <1>1, <1>2, <1>3, <1>4

LEMMA AppendedPiece ==
  ASSUME NEW S, NEW s \in Seq(S), NEW t \in Seq(S)
  PROVE  SubSeq(s \o t, Len(s) + 1, Len(s) + Len(t)) = t
<1>1. Len(s) \in Nat /\ Len(t) \in Nat
  OBVIOUS
<1>2. \A i \in 1..Len(t) : (s \o t)[Len(s) + i] = t[i]
  <2>1. \A i \in 1..Len(t) :
          /\ Len(s) + i \in 1..(Len(s) + Len(t))
          /\ ~(Len(s) + i <= Len(s)) /\ Len(s) + i - Len(s) = i
    BY <1>1
  <2>2. QED BY <2>1, ConcatProperties
<1>3. SubSeq(s \o t, Len(s) + 1, Len(s) + Len(t))
        = [i \in 1..Len(t) |-> (s \o t)[Len(s) + i]]
  BY <1>1 DEF SubSeq
<1>4. t = [i \in 1..Len(t) |-> t[i]] BY SeqDef
<1>5. QED BY <1>2, <1>3, <1>4

-----------------------------------------------------------------------------
(* The invariant: each field lies on the wire at its place, as its writer  *)
(* writes it, and has been read as the reader reads these bytes.           *)

Numbers == Seq(Byte)

WrittenInPlace ==
  /\ header \in Seq(Numbers) /\ Len(header) <= 8
  /\ wire \in Numbers /\ Len(wire) = Starts[Len(header) + 1]
  /\ \A i \in 1..Len(header) :
       SubSeq(wire, Starts[i] + 1, Starts[i + 1]) = Serialized(writer, header[i])

ReadInPlace ==
  /\ got \in Seq(Numbers) /\ Len(got) <= 8
  /\ offset = Starts[Len(got) + 1]
  /\ Len(got) > 0 => Len(header) = 8
  /\ \A i \in 1..Len(got) :
       got[i] = Deserialized(reader, Serialized(writer, header[i]))

WireInv == {writer, reader} \subseteq Hosts /\ WrittenInPlace /\ ReadInPlace

LEMMA InitInPlace == Init => WireInv
<1> SUFFICES ASSUME Init PROVE WireInv
  OBVIOUS
<1>1. header = <<>> /\ wire = <<>> /\ got = <<>> /\ offset = 0
      /\ {writer, reader} \subseteq Hosts
  BY DEF Init
<1>2. WrittenInPlace
  BY <1>1, EmptySeq, LayoutIsTight DEF WrittenInPlace, Numbers
<1>3. ReadInPlace
  BY <1>1, EmptySeq, LayoutIsTight DEF ReadInPlace, Numbers
<1>4. QED BY <1>1, <1>2, <1>3 DEF WireInv

LEMMA SerializeInPlace == WireInv /\ Serialize => WireInv'
<1> SUFFICES ASSUME WireInv, Serialize PROVE WireInv'
  OBVIOUS
<1> DEFINE n == Len(header)
<1>1. /\ {writer, reader} \subseteq Hosts
      /\ header \in Seq(Numbers) /\ n \in 0..7
      /\ wire \in Numbers /\ Len(wire) = Starts[n + 1]
  <2>1. header \in Seq(Numbers) /\ Len(header) < Len(Widths) /\ wire \in Numbers
        /\ {writer, reader} \subseteq Hosts /\ Len(wire) = Starts[Len(header) + 1]
    BY DEF WireInv, WrittenInPlace, Serialize
  <2>2. Len(header) \in Nat BY <2>1, LenProperties
  <2>3. Len(header) < 8 BY <2>1, LayoutIsTight
  <2>4. Len(header) \in 0..7 BY <2>2, <2>3, BelowEight
  <2>5. QED BY <2>1, <2>4
<1>2. PICK x \in [1..Widths[n + 1] -> Byte] :
        /\ header' = Append(header, x)
        /\ wire' = wire \o Serialized(writer, x)
  BY DEF Serialize
<1> DEFINE w == Serialized(writer, x)
<1>3. n + 1 \in 1..8 /\ Widths[n + 1] \in Nat
      /\ Starts[n + 2] = Starts[n + 1] + Widths[n + 1]
  <2> HIDE DEF n
  <2>1. n + 1 \in 1..8 /\ (n + 1) + 1 = n + 2 BY <1>1
  <2>2. QED BY <2>1, LayoutIsTight
<1>4. x \in Numbers /\ Len(x) = Widths[n + 1]
  BY <1>3, SeqDef DEF Numbers
<1>5. w \in Numbers /\ Len(w) = Widths[n + 1]
  <2>1. writer \in Hosts /\ x \in Seq(Byte) BY <1>1, <1>4 DEF Numbers
  <2>2. w = IF writer = "little" THEN Swapped(x) ELSE x
    BY <2>1, WrittenOrder
  <2>3. Swapped(x) \in Seq(Byte) /\ Len(Swapped(x)) = Len(x)
    BY <2>1, SwappedLength
  <2>4. QED BY <2>1, <2>2, <2>3, <1>4 DEF Numbers
<1>6. /\ header' \in Seq(Numbers) /\ Len(header') = n + 1
      /\ header'[n + 1] = x /\ \A i \in 1..n : header'[i] = header[i]
  BY <1>1, <1>2, <1>4, AppendProperties
<1> HIDE DEF w
<1>7. wire' \in Numbers /\ Len(wire') = Starts[n + 2]
  <2>1. wire' = wire \o w BY <1>2 DEF w
  <2>2. wire \o w \in Seq(Byte) /\ Len(wire \o w) = Len(wire) + Len(w)
    BY <1>1, <1>5, ConcatProperties DEF Numbers
  <2>3. QED BY <2>1, <2>2, <1>1, <1>3, <1>5 DEF Numbers
<1>8. ASSUME NEW i \in 1..n
      PROVE  SubSeq(wire', Starts[i] + 1, Starts[i + 1])
               = Serialized(writer, header'[i])
  <2>1. i \in 1..9 /\ i + 1 \in 1..9 /\ n + 1 \in 1..9 /\ i + 1 <= n + 1 /\ i \in 1..8
    <3> HIDE DEF n
    <3>1. QED BY <1>1
  <2>2. Starts[i + 1] <= Len(wire) /\ Starts[i] \in Nat /\ Starts[i + 1] \in Nat
    <3>1. Starts[i] \in Nat /\ Widths[i] \in Nat /\ Starts[i + 1] = Starts[i] + Widths[i]
      BY <2>1, LayoutIsTight
    <3>2. Starts[i + 1] <= Starts[n + 1] BY <2>1, LayoutIsTight
    <3>3. QED BY <3>1, <3>2, <1>1
  <2>3. SubSeq(wire \o w, Starts[i] + 1, Starts[i + 1])
          = SubSeq(wire, Starts[i] + 1, Starts[i + 1])
    BY <2>2, <1>1, <1>5, AppendKeepsPieces DEF Numbers
  <2>4. SubSeq(wire, Starts[i] + 1, Starts[i + 1]) = Serialized(writer, header[i])
    BY DEF WireInv, WrittenInPlace
  <2>5. QED BY <2>3, <2>4, <1>2, <1>6 DEF w
<1>9. SubSeq(wire', Starts[n + 1] + 1, Starts[n + 2]) = Serialized(writer, header'[n + 1])
  <2>1. SubSeq(wire \o w, Len(wire) + 1, Len(wire) + Len(w)) = w
    BY <1>1, <1>5, AppendedPiece DEF Numbers
  <2>2. QED BY <2>1, <1>1, <1>2, <1>3, <1>5, <1>6 DEF w
<1>10. UNCHANGED <<writer, reader, offset, got>> BY DEF Serialize
<1>11. WrittenInPlace'
  <2>1. \A i \in 1..Len(header') :
          SubSeq(wire', Starts[i] + 1, Starts[i + 1]) = Serialized(writer, header'[i])
    <3>1. \A i \in 1..(n + 1) : i \in 1..n \/ i = n + 1
      BY <1>1
    <3>2. (n + 1) + 1 = n + 2 BY <1>1
    <3>3. QED BY <3>1, <3>2, <1>6, <1>8, <1>9
  <2>2. Len(header') + 1 = n + 2 /\ Len(header') <= 8
    <3> HIDE DEF n
    <3>1. QED BY <1>1, <1>6
  <2>3. QED BY <2>1, <2>2, <1>6, <1>7, <1>10 DEF WrittenInPlace
<1>12. ReadInPlace'
  <2>1. got = <<>> /\ Len(got) = 0
    <3>1. ~(Len(got) > 0) /\ got \in Seq(Numbers)
      <4>1. got \in Seq(Numbers) /\ (Len(got) > 0 => Len(header) = 8)
        BY DEF WireInv, ReadInPlace
      <4>2. Len(header) # 8
        <5>1. n # 8
          <6> HIDE DEF n
          <6>1. QED BY <1>1
        <5>2. QED BY <5>1
      <4>3. QED BY <4>1, <4>2
    <3>2. QED BY <3>1, EmptySeq
  <2>2. offset = Starts[Len(got) + 1] BY DEF WireInv, ReadInPlace
  <2>3. QED BY <2>1, <2>2, <1>10, EmptySeq DEF ReadInPlace
<1>13. QED BY <1>1, <1>10, <1>11, <1>12 DEF WireInv

LEMMA DeserializeInPlace == WireInv /\ Deserialize => WireInv'
<1> SUFFICES ASSUME WireInv, Deserialize PROVE WireInv'
  OBVIOUS
<1> DEFINE n == Len(got)
           piece == SubSeq(wire, Starts[n + 1] + 1, Starts[n + 2])
           x == Deserialized(reader, piece)
<1>1. /\ {writer, reader} \subseteq Hosts
      /\ header \in Seq(Numbers) /\ Len(header) = 8
      /\ got \in Seq(Numbers) /\ n \in 0..7 /\ offset = Starts[n + 1]
  <2>1. /\ {writer, reader} \subseteq Hosts
        /\ header \in Seq(Numbers) /\ Len(header) = Len(Widths)
        /\ got \in Seq(Numbers) /\ Len(got) < Len(Widths)
        /\ offset = Starts[Len(got) + 1]
    BY DEF WireInv, WrittenInPlace, ReadInPlace, Deserialize
  <2>2. Len(got) \in Nat BY <2>1, LenProperties
  <2>3. Len(got) < 8 /\ Len(header) = 8 BY <2>1, LayoutIsTight
  <2>4. Len(got) \in 0..7 BY <2>2, <2>3, BelowEight
  <2>5. QED BY <2>1, <2>3, <2>4
<1>2. n + 1 \in 1..8 /\ Starts[n + 2] = Starts[n + 1] + Widths[n + 1]
  <2> HIDE DEF n
  <2>1. n + 1 \in 1..8 /\ (n + 1) + 1 = n + 2 BY <1>1
  <2>2. QED BY <2>1, LayoutIsTight
<1>3. got' = Append(got, x) /\ offset' = Starts[n + 2]
      /\ UNCHANGED <<writer, reader, header, wire>>
  BY <1>1, <1>2 DEF Deserialize
<1>4. piece = Serialized(writer, header[n + 1])
  <2>1. (n + 1) + 1 = n + 2 /\ n + 1 \in 1..Len(header) BY <1>1, <1>2
  <2>2. QED BY <2>1 DEF WireInv, WrittenInPlace
<1>5. x \in Numbers
  <2>1. header[n + 1] \in Seq(Byte) BY <1>1, <1>2, ElementOfSeq DEF Numbers
  <2>2. reader \in Hosts /\ writer \in Hosts BY <1>1
  <2> DEFINE h == header[n + 1]
  <2> HIDE DEF h
  <2>3. h \in Seq(Byte) /\ piece = Serialized(writer, h) BY <1>4, <2>1 DEF h
  <2> HIDE DEF piece
  <2>4. piece \in Seq(Byte) BY <2>2, <2>3, WrittenOrder, SwappedLength
  <2>5. x \in Seq(Byte) BY <2>2, <2>4, WrittenOrder, SwappedLength
  <2>6. QED BY <2>5 DEF Numbers
<1>6. /\ got' \in Seq(Numbers) /\ Len(got') = n + 1
      /\ got'[n + 1] = x /\ \A i \in 1..n : got'[i] = got[i]
  <2> HIDE DEF x
  <2>1. QED BY <1>1, <1>3, <1>5, AppendProperties
<1>7. WrittenInPlace'
  BY <1>3 DEF WireInv, WrittenInPlace
<1>8. ReadInPlace'
  <2>1. \A i \in 1..n : got[i] = Deserialized(reader, Serialized(writer, header[i]))
    BY DEF WireInv, ReadInPlace
  <2>2. x = Deserialized(reader, Serialized(writer, header[n + 1]))
    BY <1>4
  <2> HIDE DEF x
  <2>3. \A i \in 1..(n + 1) : i \in 1..n \/ i = n + 1
    BY <1>1
  <2>4. \A i \in 1..Len(got') :
          got'[i] = Deserialized(reader, Serialized(writer, header[i]))
    BY <1>6, <2>1, <2>2, <2>3
  <2>5. Len(got') + 1 = n + 2 /\ Len(got') <= 8
    <3> HIDE DEF n
    <3>1. QED BY <1>1, <1>6
  <2>6. QED BY <1>1, <1>3, <1>6, <2>4, <2>5 DEF ReadInPlace
<1>9. QED BY <1>1, <1>3, <1>7, <1>8 DEF WireInv

LEMMA WireInvHolds == Spec => []WireInv
<1>1. WireInv /\ UNCHANGED vars => WireInv'
  BY DEF vars, WireInv, WrittenInPlace, ReadInPlace
<1>2. WireInv /\ [Next]_vars => WireInv'
  BY <1>1, SerializeInPlace, DeserializeInPlace DEF Next
<1>3. QED BY <1>2, InitInPlace, PTL DEF Spec

\* Hosts whose bytes come in the same order read each field as it was
\* written: swapping and copying undo each other, and the reader looks for
\* every field where the writer has put it.
THEOREM HeadersReadBack == Spec => []FieldsReadBack
<1>1. WireInv => FieldsReadBack
  <2> SUFFICES ASSUME WireInv, SameOrder(writer, reader), NEW i \in 1..Len(got)
               PROVE  i <= Len(header) /\ got[i] = header[i]
    BY DEF FieldsReadBack
  <2>1. writer \in Hosts /\ reader \in Hosts /\ header \in Seq(Numbers)
        /\ got \in Seq(Numbers) /\ Len(got) <= 8
        /\ (Len(got) > 0 => Len(header) = 8)
        /\ got[i] = Deserialized(reader, Serialized(writer, header[i]))
    BY DEF WireInv, WrittenInPlace, ReadInPlace
  <2>2. i \in 1..Len(header) BY <2>1
  <2>3. header[i] \in Seq(Byte) BY <2>1, <2>2, ElementOfSeq DEF Numbers
  <2>4. QED BY <2>1, <2>2, <2>3, FieldRoundTrip
<1>2. QED BY <1>1, WireInvHolds, PTL

=============================================================================
