----------------------------------- MODULE Wire -----------------------------------
(***************************************************************************)
(* The bytes of a segment header: Serializer, the types that it writes and *)
(* the byte order of endian.hpp.  One host writes a header field by field, *)
(* another one reads it.                                                   *)
(*                                                                         *)
(* An unsigned integer is the sequence of its bytes, the most significant  *)
(* one first.                                                              *)
(***************************************************************************)
EXTENDS Integers, Sequences

CONSTANTS
  Byte      \* values of a byte

VARIABLES
  writer, reader,   \* the kinds of the two hosts
  header,           \* the fields that have been written
  wire,             \* the bytes that have been written
  offset,           \* the bytes that have been read
  got               \* the fields that have been read

vars == <<writer, reader, header, wire, offset, got>>

\* Intel processors, others with the least significant byte first, and those
\* with the most significant byte first.
Hosts == {"x86", "little", "big"}

-----------------------------------------------------------------------------
(* Layout of a header: conv, cmd, frg, wnd, ts, sn, una and len.           *)

Widths == <<4, 1, 1, 2, 4, 4, 4, 4>>

\* Where each field starts, and the size of the header.
Starts == <<0, 4, 5, 6, 8, 12, 16, 20, 24>>

-----------------------------------------------------------------------------
(* Byte order.                                                             *)

BigEndian(host) == host = "big"

MustAlign(host) == host # "x86"

Swapped(x) == [i \in 1..Len(x) |-> x[Len(x) + 1 - i]]

\* htons(), htonl() and their inverses, which are the same functions.
NetworkOrder(host, x) ==
  IF BigEndian(host) \/ MustAlign(host) THEN x ELSE Swapped(x)

\* memcpy() between an integer and the buffer.
Memory(host, x) == IF BigEndian(host) THEN x ELSE Swapped(x)

Serialized(host, x) == Memory(host, NetworkOrder(host, x))

Deserialized(host, bytes) == NetworkOrder(host, Memory(host, bytes))

-----------------------------------------------------------------------------

Serialize ==
  /\ Len(header) < Len(Widths)
  /\ \E x \in [1..Widths[Len(header) + 1] -> Byte] :
       /\ header' = Append(header, x)
       /\ wire' = wire \o Serialized(writer, x)
  /\ UNCHANGED <<writer, reader, offset, got>>

Deserialize ==
  /\ Len(header) = Len(Widths) /\ Len(got) < Len(Widths)
  /\ LET width == Widths[Len(got) + 1] IN
       /\ got' = Append(got, Deserialized(reader,
                               SubSeq(wire, offset + 1, offset + width)))
       /\ offset' = offset + width
  /\ UNCHANGED <<writer, reader, header, wire>>

Init ==
  /\ writer \in Hosts /\ reader \in Hosts
  /\ header = <<>> /\ wire = <<>> /\ offset = 0 /\ got = <<>>

Next == Serialize \/ Deserialize

Spec == Init /\ [][Next]_vars

-----------------------------------------------------------------------------

\* Hosts whose bytes come in the same order on the wire.
SameOrder(a, b) == (a = "little") = (b = "little")

\* Between hosts of the same order, every field is read as it was written.
FieldsReadBack ==
  SameOrder(writer, reader) =>
    \A i \in 1..Len(got) : i <= Len(header) /\ got[i] = header[i]

\* "Compatible with original KCP on the byte level": ikcp_encode16u() and
\* ikcp_encode32u() write the least significant byte first on every host.
OriginalBytes(x) == Swapped(x)

CompatibleWithOriginal ==
  \A i \in 1..Len(header) :
    SubSeq(wire, Starts[i] + 1, Starts[i + 1]) = OriginalBytes(header[i])

=============================================================================
