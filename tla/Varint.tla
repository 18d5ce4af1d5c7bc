------------------------------- MODULE Varint -------------------------------
(***************************************************************************)
(* Integers on the wire: what the driver writes and how it computes the    *)
(* size of that beforehand (encode.h), what it reads back (decode.h), and  *)
(* the encoder of the card (varint.scala).  A 64-bit integer is a sequence *)
(* of ten 7-bit chunks, the least significant first, of which the last has *)
(* one bit; a 32-bit integer has five, of which the last has four bits.    *)
(***************************************************************************)
EXTENDS Integers, Sequences, FiniteSets, FiniteSetsExt

(* static_cast<uint32_t> of a 64-bit integer, and of a small number.        *)
Uint32(v) == SubSeq(v, 1, 4) \o <<v[5] % 16>>
Chunks(n) == <<n % 128, (n \div 128) % 128, (n \div 16384) % 128, n \div 2097152, 0>>
Number(v) == v[1] + 128 * v[2] + 16384 * v[3]

(* static_cast<uint64_t>(int64_t{value}): bit 31 fills the upper half.      *)
SignExtended(v) ==
    IF v[5] >= 8 THEN SubSeq(v, 1, 4) \o <<v[5] + 112, 127, 127, 127, 127, 1>>
    ELSE v \o <<0, 0, 0, 0, 0>>

(* The highest chunk that is not 0, or the first.                           *)
TopChunk(v) == LET t[k \in 1..Len(v)] == IF k = 1 \/ v[k] # 0 THEN k ELSE t[k-1]
               IN  t[Len(v)]

-----------------------------------------------------------------------------
(* floor(log2(value | 1)).                                                  *)
Log2FloorNonZero(v) ==
    LET k == TopChunk(v)
    IN  7 * (k - 1) + Cardinality({b \in 1..6 : v[k] >= 2^b})

SizeOfLog2(log2value) == (log2value * 9 + 73) \div 64

VarintSize(v) == SizeOfLog2(Log2FloorNonZero(v))

(* static_cast<uint8_t>(value) once value was shifted k - 1 times, and that *)
(* byte with the continuation bit.                                          *)
LowByte(v, k) == v[k] + IF k < Len(v) THEN 128 * (v[k+1] % 2) ELSE 0
Continued(b) == 128 + (b % 128)

(* Written until the value is below 0x80.                                   *)
UnsafeVarint(v) ==
    LET n == TopChunk(v)
    IN  [k \in 1..n |-> IF k < n THEN Continued(LowByte(v, k)) ELSE LowByte(v, k)]

(* (field_number << 3) | type, as a uint32_t.                               *)
TagOf(id, type) == Chunks(8 * id + type)

-----------------------------------------------------------------------------
(* The bytes a reader takes: up to one without the continuation bit.        *)
Used(b) == LET t[k \in 1..Len(b)] == IF b[k] < 128 THEN k ELSE t[k+1] IN t[1]

(* The continuation bit of the byte before left in.                         *)
DigitPlain(b, i) == b[i]

(* res += (byte - 1) << 7 i: the 1 takes away the continuation bit of the   *)
(* byte before.                                                             *)
Digit(b, i) == IF i = 1 THEN b[1] ELSE b[i] - 1

(* The sum of the digits modulo 2^32 or 2^64: n chunks, the last below top. *)
(* A carry goes into the next chunk.                                        *)
VarintParse(b, n, top) ==
    LET used == Used(b)
        sum[k \in 0..n] ==
            IF k = 0 THEN [out |-> <<>>, carry |-> 0]
            ELSE LET below == sum[k-1]
                     t == below.carry + IF k <= used THEN Digit(b, k) ELSE 0
                 IN  [out |-> Append(below.out, t % (IF k = n THEN top ELSE 128)),
                      carry |-> t \div 128]
    IN  sum[n].out

(* Bytes 6 to 10 of a 32-bit integer are accepted and left out.             *)
ReadVarint32(b) == VarintParse(b, 5, 16)
ReadVarint64(b) == VarintParse(b, 10, 2)

-----------------------------------------------------------------------------
(* varint.scala: a chunk is followed by another if a later one is not 0.    *)
IncludeBit(v, k) == \E j \in (k + 1)..Len(v) : v[j] # 0

outputBytes(v) == 1 + Cardinality({k \in 1..(Len(v) - 1) : IncludeBit(v, k)})
=============================================================================
