------------------------------- MODULE SerMod -------------------------------
(* How the app takes the numbers out of the structs it receives              *)
(* (SerMod.java, the constructor from bytes).                                *)
(*                                                                           *)
(* A number is the set of its bits in two's complement, of which the highest *)
(* is the sign.  The operators of Java on numbers of a width are operators   *)
(* on such sets, and no width is too large for them.                         *)
EXTENDS Integers

CONSTANT ByteBits  \* the bits of a byte

ASSUME ByteAssumption == ByteBits \in Nat \ {0}

IntBits == 4 * ByteBits
LongBits == 8 * ByteBits

Ints == SUBSET (0..(IntBits - 1))
Longs == SUBSET (0..(LongBits - 1))

(* What the server's struct has in its bytes, the lowest one first.          *)
ByteAt(v, n) == {k \in 0..(ByteBits - 1) : ByteBits * n + k \in v}

Bytes(v) == [n \in 0..7 |-> ByteAt(v, n)]

(* Java's promotion of a number of w bits to one of u bits repeats the sign. *)
Promote(x, w, u) == x \cup {k \in w..(u - 1) : w - 1 \in x}

(* x << (8 * n), where what leaves the w bits is lost.                       *)
Shift(x, n, w) == {k \in 0..(w - 1) : k - ByteBits * n \in x}

(* tmp[0] | tmp[1] << 8 | tmp[2] << 16 | tmp[3] << 24                        *)
ToInt(tmp) == UNION {Shift(Promote(tmp[n], ByteBits, IntBits), n, IntBits) : n \in 0..3}

(* Mutant: without the casts every byte is shifted as an int, whose shift    *)
(* counts are taken modulo its width.                                        *)
ToLongUncast(tmp) ==
  Promote(UNION {Shift(Promote(tmp[n], ByteBits, IntBits), n % 4, IntBits) : n \in 0..7}, IntBits, LongBits)

(* The first three bytes of a long are put together as an int.               *)
ToLong(tmp) ==
  Promote(UNION {Shift(Promote(tmp[n], ByteBits, IntBits), n, IntBits) : n \in 0..2}, IntBits, LongBits)
    \cup UNION {Shift(Promote(tmp[n], ByteBits, LongBits), n, LongBits) : n \in 3..7}

(* bytes2Double masks the sign: the bits of a double.                        *)
ToDouble(tmp) == UNION {Shift(tmp[n], n, LongBits) : n \in 0..7}

-----------------------------------------------------------------------------
(* A whole number that is not negative is decoded as itself or as a negative *)
(* one, never as another number the user would believe: 64543 (MEM_total)    *)
(* is shown as -993 (SerMod.java:82-87, 116-119).  Doubles are always right. *)
NeverQuietlyWrong ==
  /\ \A v \in Ints : IntBits - 1 \notin v => ToInt(Bytes(v)) = v \/ IntBits - 1 \in ToInt(Bytes(v))
  /\ \A v \in Longs : LongBits - 1 \notin v => ToLong(Bytes(v)) = v \/ LongBits - 1 \in ToLong(Bytes(v))
  /\ \A v \in Longs : ToDouble(Bytes(v)) = v
=============================================================================
