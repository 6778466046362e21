--------------------------- MODULE RSSCodec_proofs ---------------------------
EXTENDS RSSCodec, TLAPS, SequenceTheorems

-----------------------------------------------------------------------------
(* Numbers in memory.                                                      *)

LEMMA Quotients ==
  ASSUME NEW n \in Nat
  PROVE  /\ n \div ByteBase \in Nat /\ n % ByteBase \in Byte
         /\ n = ByteBase * (n \div ByteBase) + (n % ByteBase)
<1>1. n \div ByteBase \in Nat
  BY ByteAssumption
<1>2. n % ByteBase \in Byte
  BY ByteAssumption DEF Byte
<1>3. n = ByteBase * (n \div ByteBase) + (n % ByteBase)
  BY ByteAssumption
<1> QED BY <1>1, <1>2, <1>3

LEMMA QuotientIsUnique ==
  ASSUME NEW q \in Nat, NEW r \in Byte
  PROVE  /\ (ByteBase * q + r) \div ByteBase = q
         /\ (ByteBase * q + r) % ByteBase = r
  BY ByteAssumption DEF Byte

LEMMA QuotientBelow ==
  ASSUME NEW n \in Nat, NEW m \in Nat, n < ByteBase * m
  PROVE  n \div ByteBase < m
<1> DEFINE q == n \div ByteBase
<1>1. q \in Nat /\ n >= ByteBase * q
  BY Quotients, ByteAssumption DEF Byte
<1> HIDE DEF q
<1>2. ASSUME q >= m PROVE FALSE
  <2>1. ByteBase * q >= ByteBase * m
    BY <1>1, <1>2, ByteAssumption
  <2> QED BY <1>1, <2>1, ByteAssumption
<1>3. q < m
  BY <1>1, <1>2
<1> QED BY <1>3 DEF q

LEMMA Widths == /\ ByteBase \in Nat /\ ByteBase > 1
                /\ B2 \in Nat /\ B2 = ByteBase * ByteBase /\ B2 > 1
                /\ B4 \in Nat /\ B4 = ByteBase * (ByteBase * (ByteBase * ByteBase)) /\ B4 > 1
<1>1. ByteBase \in Nat /\ ByteBase > 1
  BY ByteAssumption
<1>2. \A x \in Nat, y \in Nat : x > 1 /\ y > 1 => x * y \in Nat /\ x * y > 1
  OBVIOUS
<1>3. B2 \in Nat /\ B2 > 1 /\ B2 = ByteBase * ByteBase
  BY <1>1, <1>2 DEF B2
<1>4. B4 \in Nat /\ B4 > 1
  BY <1>2, <1>3 DEF B4
<1>5. B4 = ByteBase * (ByteBase * (ByteBase * ByteBase))
  BY <1>1 DEF B4, B2
<1> QED BY <1>1, <1>3, <1>4, <1>5

\* How many numbers fit into size bytes.
Width(size) == IF size = 1 THEN ByteBase ELSE IF size = 2 THEN B2 ELSE B4

\* The digits of a number, and what is left of it.
Second(n) == n \div ByteBase
Third(n) == Second(n) \div ByteBase
Fourth(n) == Third(n) \div ByteBase
Digits(n) ==
  <<n % ByteBase, Second(n) % ByteBase, Third(n) % ByteBase, Fourth(n) % ByteBase>>

LEMMA DigitsAreBytes ==
  ASSUME NEW n \in Nat
  PROVE  /\ Second(n) \in Nat /\ Third(n) \in Nat /\ Fourth(n) \in Nat
         /\ \A k \in 1 .. 4 : Digits(n)[k] \in Byte
<1>1. Second(n) \in Nat /\ n % ByteBase \in Byte
  BY Quotients DEF Second
<1>2. Third(n) \in Nat /\ Second(n) % ByteBase \in Byte
  BY <1>1, Quotients DEF Third
<1>3. Fourth(n) \in Nat /\ Third(n) % ByteBase \in Byte
  BY <1>2, Quotients DEF Fourth
<1>4. Fourth(n) % ByteBase \in Byte
  BY <1>3, Quotients
<1>5. /\ Digits(n)[1] = n % ByteBase /\ Digits(n)[2] = Second(n) % ByteBase
      /\ Digits(n)[3] = Third(n) % ByteBase /\ Digits(n)[4] = Fourth(n) % ByteBase
  BY DEF Digits
<1>6. \A k \in 1 .. 4 : k = 1 \/ k = 2 \/ k = 3 \/ k = 4
  OBVIOUS
<1> QED BY <1>1, <1>2, <1>3, <1>4, <1>5, <1>6

(* Bytes() gives the first digits of a number.                             *)
LEMMA BytesShape ==
  ASSUME NEW n \in Nat, NEW size \in {1, 2, 4}
  PROVE  /\ Bytes(n, size) \in Seq(Byte) /\ Len(Bytes(n, size)) = size
         /\ \A k \in 1 .. size : Bytes(n, size)[k] = Digits(n)[k]
<1>1. Bytes(n, size) = SubSeq(Digits(n), 1, size)
  BY DEF Bytes, Digits, Second, Third, Fourth
<1>2. \A k \in 1 .. size : Digits(n)[k] \in Byte
  <2>1. \A k \in 1 .. size : k \in 1 .. 4
    OBVIOUS
  <2> QED BY <2>1, DigitsAreBytes
<1>3. /\ SubSeq(Digits(n), 1, size) \in Seq(Byte)
      /\ Len(SubSeq(Digits(n), 1, size)) = IF 1 <= size THEN size - 1 + 1 ELSE 0
      /\ \A k \in 1 .. size - 1 + 1 : SubSeq(Digits(n), 1, size)[k] = Digits(n)[1 + k - 1]
  <2>1. 1 \in Int /\ size \in Int
    OBVIOUS
  <2> QED BY <1>2, <2>1, SubSeqProperties
<1>4. size - 1 + 1 = size /\ 1 <= size
  OBVIOUS
<1>5. ASSUME NEW k \in 1 .. size PROVE Bytes(n, size)[k] = Digits(n)[k]
  <2>1. 1 + k - 1 = k /\ k \in 1 .. size - 1 + 1
    OBVIOUS
  <2> QED BY <1>1, <1>3, <2>1
<1> QED BY <1>1, <1>3, <1>4, <1>5

(* A number is read as it was written.                                     *)
LEMMA ReadBack ==
  ASSUME NEW size \in {1, 2, 4}, NEW n \in 0 .. Width(size) - 1
  PROVE  UInt(Bytes(n, size)) = n
<1> DEFINE b == Bytes(n, size)
           B == ByteBase
<1>1. n \in Nat /\ n < Width(size)
  BY Widths DEF Width
<1>2. /\ Len(b) = size /\ b[1] = n % B
      /\ size > 1 => b[2] = Second(n) % B
      /\ size > 2 => b[3] = Third(n) % B /\ b[4] = Fourth(n) % B
  <2>1. \A k \in 1 .. size : b[k] = Digits(n)[k]
    BY <1>1, BytesShape
  <2>2. Len(b) = size
    BY <1>1, BytesShape
  <2>3. 1 \in 1 .. size /\ (size > 1 => 2 \in 1 .. size)
        /\ (size > 2 => 3 \in 1 .. size /\ 4 \in 1 .. size)
    OBVIOUS
  <2> HIDE DEF b
  <2> QED BY <2>1, <2>2, <2>3 DEF Digits
<1>3. /\ n % B \in Byte /\ Second(n) \in Nat /\ n = B * Second(n) + (n % B)
      /\ Second(n) % B \in Byte /\ Third(n) \in Nat
      /\ Second(n) = B * Third(n) + (Second(n) % B)
      /\ Third(n) % B \in Byte /\ Fourth(n) \in Nat
      /\ Third(n) = B * Fourth(n) + (Third(n) % B)
      /\ Fourth(n) % B \in Byte /\ Fourth(n) = B * (Fourth(n) \div B) + (Fourth(n) % B)
      /\ Fourth(n) \div B \in Nat
  <2>1. n % B \in Byte /\ Second(n) \in Nat /\ n = B * Second(n) + (n % B)
    BY <1>1, Quotients DEF Second
  <2>2. /\ Second(n) % B \in Byte /\ Third(n) \in Nat
        /\ Second(n) = B * Third(n) + (Second(n) % B)
    BY <2>1, Quotients DEF Third
  <2>3. /\ Third(n) % B \in Byte /\ Fourth(n) \in Nat
        /\ Third(n) = B * Fourth(n) + (Third(n) % B)
    BY <2>2, Quotients DEF Fourth
  <2>4. /\ Fourth(n) % B \in Byte /\ Fourth(n) = B * (Fourth(n) \div B) + (Fourth(n) % B)
        /\ Fourth(n) \div B \in Nat
    BY <2>3, Quotients
  <2> QED BY <2>1, <2>2, <2>3, <2>4
<1>4. B \in Nat /\ B > 1
  BY Widths
<1>5. CASE size = 1
  <2>1. n < B * 1
    BY <1>1, <1>4, <1>5 DEF Width
  <2>2. Second(n) < 1
    BY <1>1, <2>1, QuotientBelow DEF Second
  <2>3. Second(n) = 0
    BY <1>3, <2>2
  <2>4. UInt(b) = b[1] + B * (0 + B * (0 + B * 0))
    BY <1>2, <1>5 DEF UInt
  <2> HIDE DEF b, B
  <2> QED BY <1>2, <1>3, <1>4, <2>3, <2>4 DEF b, Byte
<1>6. CASE size = 2
  <2>1. n < B * B
    BY <1>1, <1>6, Widths DEF Width
  <2>2. Second(n) < B * 1
    BY <1>1, <1>4, <2>1, QuotientBelow DEF Second
  <2>3. Third(n) < 1
    BY <1>3, <2>2, QuotientBelow DEF Third
  <2>4. Third(n) = 0
    BY <1>3, <2>3
  <2>5. UInt(b) = b[1] + B * (b[2] + B * (0 + B * 0))
    BY <1>2, <1>6 DEF UInt
  <2> DEFINE s == Second(n)
             x == n % B
             y == s % B
  <2>6. /\ UInt(b) = x + B * (y + B * (0 + B * 0))
        /\ n = B * s + x /\ s = B * 0 + y /\ x \in Nat /\ y \in Nat /\ s \in Nat
    BY <1>2, <1>3, <1>4, <1>6, <2>4, <2>5 DEF Byte
  <2> HIDE DEF b, B, s, x, y
  <2>7. UInt(b) = n
    BY <1>4, <2>6
  <2> QED BY <2>7 DEF b
<1>7. CASE size = 4
  <2> DEFINE s == Second(n)
             t == Third(n)
             u == Fourth(n)
             x == n % B
             y == s % B
             z == t % B
             w == u % B
  <2>1. n < B * (B * (B * B))
    BY <1>1, <1>7, Widths DEF Width
  <2>2. s < B * (B * B) /\ B * B \in Nat /\ B * (B * B) \in Nat
    BY <1>1, <1>4, <2>1, QuotientBelow DEF Second
  <2>3. t < B * B
    BY <1>3, <2>2, QuotientBelow DEF Third
  <2>4. u < B * 1
    BY <1>3, <1>4, <2>3, QuotientBelow DEF Fourth
  <2>5. u \div B < 1
    BY <1>3, <1>4, <2>4, QuotientBelow
  <2>6. u \div B = 0
    BY <1>3, <2>5
  <2>7. UInt(b) = x + B * (y + B * (z + B * w))
    BY <1>2, <1>7 DEF UInt
  <2>8. /\ n = B * s + x /\ s = B * t + y /\ t = B * u + z /\ u = B * 0 + w
        /\ s \in Nat /\ t \in Nat /\ u \in Nat
        /\ x \in Nat /\ y \in Nat /\ z \in Nat /\ w \in Nat
    BY <1>3, <1>4, <2>6 DEF Byte
  <2> HIDE DEF b, B, s, t, u, x, y, z, w
  <2>9. u = w
    BY <1>4, <2>8
  <2>10. n = x + B * (y + B * (z + B * w))
    BY <1>4, <2>8, <2>9
  <2> QED BY <2>7, <2>10 DEF b
<1> QED BY <1>5, <1>6, <1>7

(* The bytes of an int do not tell whether it has been sign-extended.      *)
LEMMA SignIsLost ==
  ASSUME NEW n \in 0 .. B4 - 1
  PROVE  SignExtended(n) \in Nat /\ Bytes(SignExtended(n), 4) = Bytes(n, 4)
<1>1. n \in Nat
  BY Widths
<1>2. CASE SignExtended(n) = n
  BY <1>1, <1>2
<1>3. CASE SignExtended(n) # n
  <2> DEFINE B == ByteBase
             c == B4 - 1
             m == n + B4 * c
             s == Second(n)
             t == Third(n)
             u == Fourth(n)
  <2>1. SignExtended(n) = m
    BY <1>3 DEF SignExtended
  <2>2. /\ B \in Nat /\ B > 1 /\ B4 = B * (B * (B * B)) /\ c \in Nat
        /\ s \in Nat /\ t \in Nat /\ u \in Nat
        /\ n % B \in Byte /\ s % B \in Byte /\ t % B \in Byte /\ u % B \in Byte
        /\ n = B * s + (n % B) /\ s = B * t + (s % B) /\ t = B * u + (t % B)
        /\ u = B * (u \div B) + (u % B) /\ u \div B \in Nat
    <3>1. /\ n % B \in Byte /\ s \in Nat /\ n = B * s + (n % B)
      BY <1>1, Quotients DEF Second
    <3>2. /\ s % B \in Byte /\ t \in Nat /\ s = B * t + (s % B)
      BY <3>1, Quotients DEF Third
    <3>3. /\ t % B \in Byte /\ u \in Nat /\ t = B * u + (t % B)
      BY <3>2, Quotients DEF Fourth
    <3>4. u % B \in Byte /\ u = B * (u \div B) + (u % B) /\ u \div B \in Nat
      BY <3>3, Quotients
    <3> QED BY <3>1, <3>2, <3>3, <3>4, Widths
  <2> DEFINE x == n % B
             y == s % B
             z == t % B
             w == u % B
             v == u \div B
  <2>3. /\ n = B * s + x /\ s = B * t + y /\ t = B * u + z /\ u = B * v + w
        /\ x \in Byte /\ y \in Byte /\ z \in Byte /\ w \in Byte
        /\ x \in Nat /\ y \in Nat /\ z \in Nat /\ w \in Nat /\ v \in Nat
    BY <2>2 DEF Byte
  <2> HIDE DEF s, t, u, x, y, z, w, v, c, m
  <2> DEFINE c1 == B * c
             c2 == B * c1
             c3 == B * c2
  <2>4. c1 \in Nat /\ c2 \in Nat /\ c3 \in Nat /\ B4 * c = B * c3
    <3>1. \A k \in Nat, l \in Nat : k * l \in Nat
      OBVIOUS
    <3>2. c1 \in Nat /\ c2 \in Nat /\ c3 \in Nat
      BY <2>2, <3>1
    <3>3. \A k \in Nat, l \in Nat : (k * (k * (k * k))) * l = k * (k * (k * (k * l)))
      OBVIOUS
    <3> QED BY <2>2, <3>2, <3>3
  <2>5. m = B * (s + c3) + x /\ s + c3 \in Nat
    <3> HIDE DEF c1, c2, c3
    <3>1. m = n + B * c3
      BY <2>4 DEF m
    <3> QED BY <2>2, <2>3, <2>4, <3>1
  <2>6. Second(m) = s + c3 /\ m % B = x
    BY <2>3, <2>5, QuotientIsUnique DEF Second
  <2>7. Second(m) = B * (t + c2) + y /\ t + c2 \in Nat
    <3> HIDE DEF c1, c2
    <3> QED BY <2>2, <2>3, <2>4, <2>6
  <2>8. Third(m) = t + c2 /\ Second(m) % B = y
    BY <2>3, <2>7, QuotientIsUnique DEF Third
  <2>9. Third(m) = B * (u + c1) + z /\ u + c1 \in Nat
    <3> HIDE DEF c1
    <3> QED BY <2>2, <2>3, <2>4, <2>8
  <2>10. Fourth(m) = u + c1 /\ Third(m) % B = z
    BY <2>3, <2>9, QuotientIsUnique DEF Fourth
  <2>11. Fourth(m) = B * (v + c) + w /\ v + c \in Nat
    BY <2>2, <2>3, <2>10
  <2>12. Fourth(m) % B = w
    BY <2>3, <2>11, QuotientIsUnique
  <2>13. Digits(m) = Digits(n)
    BY <2>6, <2>8, <2>10, <2>12 DEF Digits, s, t, u, x, y, z, w
  <2>14. Bytes(m, 4) = SubSeq(Digits(m), 1, 4) /\ Bytes(n, 4) = SubSeq(Digits(n), 1, 4)
    BY DEF Bytes, Digits, Second, Third, Fourth
  <2>15. m \in Nat
    <3> HIDE DEF c1, c2, c3
    <3> QED BY <2>2, <2>3, <2>4, <2>5
  <2>16. SignExtended(n) = m
    BY <2>1 DEF m, c
  <2> QED BY <2>13, <2>14, <2>15, <2>16
<1> QED BY <1>2, <1>3

-----------------------------------------------------------------------------
(* One field.                                                              *)

Plain == {char, word, dyn}
Rows == {row \in Seq(Plain) : row # << >>}
Field == {char, word, int, dyn} \cup {array(row) : row \in Rows}

\* What the bytes of a field can hold.
IsValue(f, v) ==
  IF f.kind = "dyn" THEN v \in Seq(Byte) /\ Len(v) < B4 ELSE v \in 0 .. Width(f.size) - 1

LEMMA FieldShape ==
  ASSUME NEW f \in Field
  PROVE  /\ f.size \in {1, 2, 4} /\ f.kind \in {"char", "word", "int", "dyn", "array"}
         /\ f.kind = "int" <=> f = int
         /\ f.kind \in {"dyn", "int", "array"} => f.size = 4
         /\ f.kind = "array" => f.row \in Rows
         /\ f \in Plain => f # int
<1>1. CASE f \in {char, word, int, dyn}
  BY <1>1 DEF char, word, int, dyn, Plain
<1>2. CASE \E row \in Rows : f = array(row)
  BY <1>2 DEF array, char, word, int, dyn, Plain
<1> QED BY <1>1, <1>2 DEF Field

LEMMA EncodedShape ==
  ASSUME NEW f \in Field, NEW v, IsValue(f, v)
  PROVE  /\ EncodeField(f, v) \in Seq(Byte) /\ Len(EncodeField(f, v)) \in Nat \ {0}
         /\ f.kind # "dyn" => /\ EncodeField(f, v) = Bytes(v, f.size)
                              /\ Len(EncodeField(f, v)) = f.size
         /\ f.kind = "dyn" =>
              /\ Len(v) \in 0 .. Width(4) - 1 /\ Len(EncodeField(f, v)) = 4 + Len(v)
              /\ \A j \in 1 .. 4 : EncodeField(f, v)[j] = Bytes(Len(v), 4)[j]
              /\ \A j \in 1 .. Len(v) : EncodeField(f, v)[4 + j] = v[j]
<1>1. CASE f.kind # "dyn"
  <2>1. v \in Nat /\ f.size \in {1, 2, 4} /\ EncodeField(f, v) = Bytes(v, f.size)
    BY <1>1, FieldShape, Widths DEF IsValue, EncodeField, Width
  <2>2. Bytes(v, f.size) \in Seq(Byte) /\ Len(Bytes(v, f.size)) = f.size
    BY <2>1, BytesShape
  <2> QED BY <1>1, <2>1, <2>2
<1>2. CASE f.kind = "dyn"
  <2> DEFINE b == Bytes(Len(v), 4)
  <2>1. v \in Seq(Byte) /\ Len(v) \in Nat /\ Len(v) \in 0 .. Width(4) - 1
    BY <1>2, LenProperties, Widths DEF IsValue, Width
  <2>2. EncodeField(f, v) = b \o v
    BY <1>2, FieldShape DEF EncodeField
  <2>3. b \in Seq(Byte) /\ Len(b) = 4
    BY <2>1, BytesShape
  <2> HIDE DEF b
  <2>4. /\ b \o v \in Seq(Byte) /\ Len(b \o v) = 4 + Len(v)
        /\ \A i \in 1 .. 4 + Len(v) : (b \o v)[i] = IF i <= 4 THEN b[i] ELSE v[i - 4]
    <3>1. /\ b \o v \in Seq(Byte) /\ Len(b \o v) = Len(b) + Len(v)
          /\ \A i \in 1 .. Len(b) + Len(v) :
               (b \o v)[i] = IF i <= Len(b) THEN b[i] ELSE v[i - Len(b)]
      BY <2>1, <2>3, ConcatProperties
    <3> QED BY <2>3, <3>1
  <2>5. \A j \in 1 .. 4 : (b \o v)[j] = b[j]
    BY <2>1, <2>4
  <2>6. ASSUME NEW j \in 1 .. Len(v) PROVE (b \o v)[4 + j] = v[j]
    <3>1. 4 + j \in 1 .. 4 + Len(v) /\ ~(4 + j <= 4) /\ (4 + j) - 4 = j
      BY <2>1
    <3> QED BY <2>4, <3>1
  <2> QED BY <1>2, <2>1, <2>2, <2>4, <2>5, <2>6 DEF b
<1> QED BY <1>1, <1>2

LEMMA ParsedParts ==
  ASSUME NEW pos, NEW n, NEW v
  PROVE  /\ Parsed(pos, n, v).status = "ok" /\ Parsed(pos, n, v).pos = pos
         /\ Parsed(pos, n, v).len = n /\ Parsed(pos, n, v).value = v
BY DEF Parsed

LEMMA FailedParts == Failed.status = "error"
BY DEF Failed

\* The n bytes at a place, and what a parse is that has taken them, or the
\* number they are.
AreBytes(b, s, pos, n) ==
  b \in Seq(Byte) /\ Len(b) = n /\ \A j \in 1 .. n : b[j] = s[pos + j]
TookBytes(q, s, pos, left, n) ==
  /\ left < n => q = Failed
  /\ left >= n => \E b : AreBytes(b, s, pos, n) /\ q = Parsed(pos + n, left - n, b)
TookNumber(q, s, pos, left, n) ==
  /\ left < n => q = Failed
  /\ left >= n => \E b : /\ AreBytes(b, s, pos, n) /\ UInt(b) \in Nat
                         /\ q = Parsed(pos + n, left - n, UInt(b))

\* The part of s from lo to hi.
IsPart(b, s, lo, hi) ==
  /\ b \in Seq(Byte) /\ Len(b) = IF lo <= hi THEN hi - lo + 1 ELSE 0
  /\ \A j \in 1 .. hi - lo + 1 : b[j] = s[lo + j - 1]

LEMMA BytesOfPart ==
  ASSUME NEW s, NEW lo \in Int, NEW hi \in Int, \A i \in lo .. hi : s[i] \in Byte
  PROVE  IsPart(SubSeq(s, lo, hi), s, lo, hi)
<1> HIDE DEF Byte
<1> QED BY SubSeqProperties DEF IsPart

(* Taking n bytes.                                                         *)
LEMMA TakenAny ==
  ASSUME NEW s \in Seq(Byte), NEW pos \in Nat, NEW left \in Nat, NEW x, NEW n \in Nat,
         pos + left <= Len(s)
  PROVE  TookBytes(Take(s, Parsed(pos, left, x), n), s, pos, left, n)
<1>1. Len(s) \in Nat
  BY LenProperties
<1>2. CASE left < n
  <2>1. Take(s, Parsed(pos, left, x), n) = Failed /\ ~(left >= n)
    BY <1>2, ParsedParts DEF Take
  <2> QED BY <2>1 DEF TookBytes
<1>3. CASE left >= n
  <2> DEFINE b == SubSeq(s, pos + 1, pos + n)
  <2>1. Take(s, Parsed(pos, left, x), n) = Parsed(pos + n, left - n, b)
    BY <1>3, ParsedParts DEF Take
  <2>2. \A i \in pos + 1 .. pos + n : s[i] \in Byte
    <3>1. \A i \in pos + 1 .. pos + n : i \in 1 .. Len(s)
      BY <1>1, <1>3
    <3> QED BY <3>1, ElementOfSeq
  <2>3. pos + 1 \in Int /\ pos + n \in Int
    OBVIOUS
  <2>4. /\ b \in Seq(Byte)
        /\ Len(b) = IF pos + 1 <= pos + n THEN (pos + n) - (pos + 1) + 1 ELSE 0
        /\ \A j \in 1 .. (pos + n) - (pos + 1) + 1 : b[j] = s[(pos + 1) + j - 1]
    BY <2>2, <2>3, BytesOfPart DEF IsPart
  <2> HIDE DEF b
  <2>5. Len(b) = n
    BY <2>4
  <2>6. ASSUME NEW j \in 1 .. n PROVE b[j] = s[pos + j]
    <3>1. j \in 1 .. (pos + n) - (pos + 1) + 1 /\ (pos + 1) + j - 1 = pos + j
      OBVIOUS
    <3> QED BY <2>4, <3>1
  <2>7. ~(left < n)
    BY <1>3
  <2>8. AreBytes(b, s, pos, n)
    BY <2>4, <2>5, <2>6 DEF AreBytes
  <2> QED BY <2>1, <2>7, <2>8 DEF TookBytes, b
<1> QED BY <1>2, <1>3

LEMMA UIntIsNat ==
  ASSUME NEW b \in Seq(Byte)
  PROVE  UInt(b) \in Nat
<1> DEFINE byte(k) == IF k <= Len(b) THEN b[k] ELSE 0
<1>1. ASSUME NEW k \in Nat \ {0} PROVE byte(k) \in Nat
  <2>1. CASE k <= Len(b)
    <3>1. k \in 1 .. Len(b)
      BY <2>1, LenProperties
    <3>2. b[k] \in Byte
      BY <3>1, ElementOfSeq
    <3> QED BY <2>1, <3>2 DEF Byte
  <2>2. CASE ~(k <= Len(b))
    BY <2>2
  <2> QED BY <2>1, <2>2
<1>2. byte(1) \in Nat /\ byte(2) \in Nat /\ byte(3) \in Nat /\ byte(4) \in Nat
  BY <1>1
<1>3. \A k \in Nat, m \in Nat : k + ByteBase * m \in Nat
  BY ByteAssumption
<1>4. UInt(b) = byte(1) + ByteBase * (byte(2) + ByteBase * (byte(3) + ByteBase * byte(4)))
  BY DEF UInt
<1> HIDE DEF byte
<1>5. byte(3) + ByteBase * byte(4) \in Nat
  BY <1>2, <1>3
<1>6. byte(2) + ByteBase * (byte(3) + ByteBase * byte(4)) \in Nat
  BY <1>2, <1>3, <1>5
<1> QED BY <1>2, <1>3, <1>4, <1>6

LEMMA NumberAny ==
  ASSUME NEW s \in Seq(Byte), NEW pos \in Nat, NEW left \in Nat, NEW x,
         pos + left <= Len(s), NEW size \in Nat
  PROVE  TookNumber(TakeNumber(s, Parsed(pos, left, x), size), s, pos, left, size)
<1> DEFINE p == Parsed(pos, left, x)
           q == Take(s, p, size)
           r == TakeNumber(s, p, size)
<1>1. TookBytes(q, s, pos, left, size)
  BY TakenAny
<1>2. r = Then(q, Parsed(q.pos, q.len, UInt(q.value)))
  BY DEF TakeNumber
<1> HIDE DEF p, q, r
<1>3. ASSUME left < size PROVE r = Failed /\ ~(left >= size)
  BY <1>1, <1>2, <1>3, FailedParts DEF Then, TookBytes
<1>4. ASSUME left >= size
      PROVE  \E b : /\ AreBytes(b, s, pos, size) /\ UInt(b) \in Nat
                    /\ r = Parsed(pos + size, left - size, UInt(b))
  <2>1. PICK b : AreBytes(b, s, pos, size) /\ q = Parsed(pos + size, left - size, b)
    BY <1>1, <1>4 DEF TookBytes
  <2>2. r = Parsed(pos + size, left - size, UInt(b))
    BY <1>2, <2>1, ParsedParts DEF Then
  <2>3. UInt(b) \in Nat
    BY <2>1, UIntIsNat DEF AreBytes
  <2> QED BY <2>1, <2>2, <2>3
<1> QED BY <1>3, <1>4 DEF TookNumber, p, r

Value == Nat \cup Seq(Byte)

\* Whatever the bytes are, a turn of parse() goes on within those it believes
\* are left, and takes what it passes from them, unless it is an int.
Advanced(q, f, pos, left) ==
  \E p \in Nat, l \in Nat, v \in Value :
    /\ q = Parsed(p, l, v) /\ pos < p /\ p <= pos + left
    /\ p + l = pos + left + (IF f = int THEN 4 ELSE 0)
    /\ f.kind = "array" => v \in Nat

LEMMA FieldAny ==
  ASSUME NEW f \in Field, NEW old,
         NEW s \in Seq(Byte), NEW pos \in Nat, NEW left \in Nat, NEW x,
         pos + left <= Len(s)
  PROVE  LET q == ParseField(f, old, s, Parsed(pos, left, x))
         IN q = Failed \/ Advanced(q, f, pos, left)
<1> DEFINE p == Parsed(pos, left, x)
           q == ParseField(f, old, s, p)
<1>1. CASE f.kind \in {"char", "word", "array"}
  <2>1. q = TakeNumber(s, p, f.size) /\ f # int /\ f.size \in {1, 2, 4} /\ f.size \in Nat \ {0}
    BY <1>1, FieldShape DEF ParseField, int
  <2> DEFINE n == f.size
  <2>2. TookNumber(q, s, pos, left, n)
    BY <2>1, NumberAny
  <2>3. n \in Nat \ {0}
    BY <2>1
  <2> HIDE DEF q, n
  <2>4. ASSUME left >= n PROVE Advanced(q, f, pos, left)
    <3>1. PICK b : UInt(b) \in Nat /\ q = Parsed(pos + n, left - n, UInt(b))
      BY <2>2, <2>4 DEF TookNumber
    <3>2. /\ pos + n \in Nat /\ left - n \in Nat /\ UInt(b) \in Value
          /\ pos < pos + n /\ pos + n <= pos + left /\ (pos + n) + (left - n) = pos + left + 0
      BY <2>3, <2>4, <3>1 DEF Value
    <3> QED BY <2>1, <3>1, <3>2 DEF Advanced
  <2>5. left < n \/ left >= n
    BY <2>3
  <2> QED BY <2>2, <2>4, <2>5 DEF TookNumber, q
<1>2. CASE f.kind = "int"
  <2> DEFINE r == TakeNumber(s, p, 4)
  <2>1. /\ f = int /\ f.kind # "array"
        /\ q = Then(r, Parsed(r.pos, left, SignExtended(r.value)))
    BY <1>2, FieldShape, ParsedParts DEF ParseField, TakeInt
  <2>2. TookNumber(r, s, pos, left, 4)
    BY NumberAny
  <2> HIDE DEF p, q, r
  <2>3. left < 4 => q = Failed
    BY <2>1, <2>2, FailedParts DEF Then, TookNumber
  <2>4. ASSUME left >= 4 PROVE Advanced(q, f, pos, left)
    <3>0. PICK b : UInt(b) \in Nat /\ r = Parsed(pos + 4, left - 4, UInt(b))
      BY <2>2, <2>4 DEF TookNumber
    <3> DEFINE u == UInt(b)
    <3> HIDE DEF u
    <3>1. q = Parsed(pos + 4, left, SignExtended(u)) /\ u \in Nat
      BY <2>1, <3>0, ParsedParts DEF Then, u
    <3>2. SignExtended(u) \in Value
      <4>1. B4 \in Nat /\ B4 - 1 \in Nat
        BY Widths
      <4>2. \A k \in Nat, m \in Nat : k * m \in Nat
        OBVIOUS
      <4>3. B4 * (B4 - 1) \in Nat
        BY <4>1, <4>2
      <4> QED BY <3>1, <4>3 DEF SignExtended, Value
    <3>3. pos + 4 \in Nat /\ pos < pos + 4 /\ pos + 4 <= pos + left
          /\ (pos + 4) + left = pos + left + 4
      BY <2>4
    <3> QED BY <2>1, <3>1, <3>2, <3>3 DEF Advanced
  <2> QED BY <2>3, <2>4 DEF q, p
<1>3. CASE f.kind = "dyn"
  <2> DEFINE r == TakeNumber(s, p, 4)
             d == Take(s, r, r.value)
             last == Then(r, d)
  <2>1. /\ f # int /\ f.kind # "array"
        /\ q = Then(last, Parsed(last.pos, last.len, last.value))
    BY <1>3, FieldShape DEF ParseField, TakeDyn, Replaced, int
  <2>2. TookNumber(r, s, pos, left, 4)
    BY NumberAny
  <2> HIDE DEF p, q, r
  <2>3. left < 4 => q = Failed
    BY <2>1, <2>2, FailedParts DEF Then, TookNumber
  <2>4. ASSUME left >= 4 PROVE q = Failed \/ Advanced(q, f, pos, left)
    <3>0. PICK c : UInt(c) \in Nat /\ r = Parsed(pos + 4, left - 4, UInt(c))
      BY <2>2, <2>4 DEF TookNumber
    <3> DEFINE u == UInt(c)
    <3>1. /\ pos + 4 \in Nat /\ left - 4 \in Nat /\ u \in Nat
          /\ (pos + 4) + (left - 4) <= Len(s)
      BY <2>4, <3>0, LenProperties
    <3>2. last = d /\ d = Take(s, Parsed(pos + 4, left - 4, u), u)
      BY <3>0, ParsedParts DEF Then
    <3> HIDE DEF d, last, u
    <3>3. TookBytes(d, s, pos + 4, left - 4, u)
      BY <3>1, <3>2, TakenAny
    <3>4. left - 4 < u => q = Failed
      BY <2>1, <3>2, <3>3, FailedParts DEF Then, TookBytes
    <3>5. ASSUME left - 4 >= u PROVE Advanced(q, f, pos, left)
      <4>1. PICK b : b \in Seq(Byte) /\ d = Parsed((pos + 4) + u, (left - 4) - u, b)
        BY <3>3, <3>5 DEF TookBytes, AreBytes
      <4>2. q = Parsed((pos + 4) + u, (left - 4) - u, b) /\ b \in Value
        BY <2>1, <3>2, <4>1, ParsedParts DEF Then, Value
      <4>3. /\ (pos + 4) + u \in Nat /\ (left - 4) - u \in Nat /\ pos < (pos + 4) + u
            /\ (pos + 4) + u <= pos + left
            /\ ((pos + 4) + u) + ((left - 4) - u) = pos + left + 0
        BY <3>1, <3>5
      <4> QED BY <2>1, <4>2, <4>3 DEF Advanced
    <3> QED BY <3>1, <3>4, <3>5
  <2> QED BY <2>3, <2>4 DEF q, p
<1> QED BY <1>1, <1>2, <1>3, FieldShape

\* The parse has failed, or gone on behind the place l, where the data end.
Spent(q, l) == q = Failed \/ (q.status = "ok" /\ q.pos > l)

\* The number n has been taken.
TookThis(q, l, pos, left, size, n) ==
  /\ pos + size <= l => q = Parsed(pos + size, left - size, n)
  /\ pos + size > l => Spent(q, l)

(* A number that has been written at this place, where the memory is known *)
(* as far as the place l.                                                  *)
LEMMA TakenNumber ==
  ASSUME NEW s \in Seq(Byte), NEW l \in Nat, NEW pos \in Nat, NEW left \in Nat, NEW x,
         pos + left <= Len(s), pos + left >= l,
         NEW size \in {1, 2, 4}, NEW n \in 0 .. Width(size) - 1,
         \A j \in 1 .. size : pos + j <= l => s[pos + j] = Bytes(n, size)[j]
  PROVE  TookThis(TakeNumber(s, Parsed(pos, left, x), size), l, pos, left, size, n)
<1> DEFINE q == TakeNumber(s, Parsed(pos, left, x), size)
<1>1. size \in Nat /\ n \in Nat
  BY Widths DEF Width
<1>2. TookNumber(q, s, pos, left, size)
  BY <1>1, NumberAny
<1> HIDE DEF q
<1>3. ASSUME pos + size <= l PROVE q = Parsed(pos + size, left - size, n)
  <2>1. left >= size
    BY <1>1, <1>3
  <2>2. PICK b : AreBytes(b, s, pos, size) /\ q = Parsed(pos + size, left - size, UInt(b))
    BY <1>2, <2>1 DEF TookNumber
  <2>3. \A j \in 1 .. size : pos + j <= l
    BY <1>1, <1>3
  <2>4. b = Bytes(n, size)
    <3>1. Bytes(n, size) \in Seq(Byte) /\ Len(Bytes(n, size)) = size
      BY <1>1, BytesShape
    <3>2. b \in Seq(Byte) /\ Len(b) = size /\ \A j \in 1 .. size : b[j] = Bytes(n, size)[j]
      BY <2>2, <2>3 DEF AreBytes
    <3> QED BY <3>1, <3>2, SeqEqual
  <2>5. UInt(b) = n
    BY <2>4, ReadBack
  <2> QED BY <2>2, <2>5
<1>4. ASSUME pos + size > l PROVE Spent(q, l)
  <2>1. CASE left < size
    BY <1>2, <2>1 DEF Spent, TookNumber
  <2>2. CASE left >= size
    <3>1. PICK b : q = Parsed(pos + size, left - size, UInt(b))
      BY <1>2, <2>2 DEF TookNumber
    <3> QED BY <1>4, <3>1, ParsedParts DEF Spent
  <2> QED BY <1>1, <2>1, <2>2
<1> QED BY <1>3, <1>4 DEF TookThis, q

\* A whole field has been taken: the place moves behind it, and the count of
\* the bytes left stays right unless the field is an int.
Taken(q, f, v, l, pos, left, size) ==
  \E m \in Nat : /\ q = Parsed(pos + size, m, SignExtendedValue(f, v))
                 /\ m >= l - (pos + size)
                 /\ f # int /\ left = l - pos => m = l - (pos + size)

(* A field that has been encoded at this place, of whatever type, is taken *)
(* as it was; when the data end in it, the parse fails or goes past them.  *)
LEMMA ParsedField ==
  ASSUME NEW f \in Field, NEW v, IsValue(f, v), NEW old,
         NEW s \in Seq(Byte), NEW l \in Nat, NEW pos \in Nat, NEW left \in Nat, NEW x,
         pos + left <= Len(s), pos + left >= l,
         \A j \in 1 .. Len(EncodeField(f, v)) :
           pos + j <= l => s[pos + j] = EncodeField(f, v)[j]
  PROVE  LET q == ParseField(f, old, s, Parsed(pos, left, x))
             size == Len(EncodeField(f, v))
         IN /\ pos + size <= l => Taken(q, f, v, l, pos, left, size)
            /\ pos + size > l => Spent(q, l)
<1> DEFINE e == EncodeField(f, v)
           size == Len(e)
           p == Parsed(pos, left, x)
           q == ParseField(f, old, s, p)
<1>1. Len(s) \in Nat /\ size \in Nat /\ \A j \in 1 .. size : pos + j <= l => s[pos + j] = e[j]
  BY LenProperties, EncodedShape
<1>2. ASSUME f.kind # "dyn"
      PROVE  /\ f.size = size /\ v \in 0 .. Width(f.size) - 1
             /\ TookThis(TakeNumber(s, p, f.size), l, pos, left, size, v)
  <2>1. f.size = size /\ e = Bytes(v, f.size) /\ v \in 0 .. Width(f.size) - 1
        /\ f.size \in {1, 2, 4}
    <3>1. f.size \in {1, 2, 4}
      BY <1>2, FieldShape
    <3>2. v \in 0 .. Width(f.size) - 1
      BY <1>2 DEF IsValue
    <3>3. e = Bytes(v, f.size) /\ size = f.size
      BY <1>2, EncodedShape
    <3> QED BY <3>1, <3>2, <3>3
  <2>2. \A j \in 1 .. f.size : pos + j <= l => s[pos + j] = Bytes(v, f.size)[j]
    BY <1>1, <2>1
  <2> HIDE DEF e, size, p, q
  <2>3. CASE size = 1
    <3>1. /\ v \in 0 .. Width(1) - 1 /\ f.size = 1
          /\ \A j \in 1 .. 1 : pos + j <= l => s[pos + j] = Bytes(v, 1)[j]
      BY <2>1, <2>2, <2>3
    <3>2. TookThis(TakeNumber(s, p, 1), l, pos, left, 1, v)
      BY <3>1, TakenNumber DEF p
    <3> QED BY <2>3, <3>1, <3>2
  <2>4. CASE size = 2
    <3>1. /\ v \in 0 .. Width(2) - 1 /\ f.size = 2
          /\ \A j \in 1 .. 2 : pos + j <= l => s[pos + j] = Bytes(v, 2)[j]
      BY <2>1, <2>2, <2>4
    <3>2. TookThis(TakeNumber(s, p, 2), l, pos, left, 2, v)
      BY <3>1, TakenNumber DEF p
    <3> QED BY <2>4, <3>1, <3>2
  <2>5. CASE size = 4
    <3>1. /\ v \in 0 .. Width(4) - 1 /\ f.size = 4
          /\ \A j \in 1 .. 4 : pos + j <= l => s[pos + j] = Bytes(v, 4)[j]
      BY <2>1, <2>2, <2>5
    <3>2. TookThis(TakeNumber(s, p, 4), l, pos, left, 4, v)
      BY <3>1, TakenNumber DEF p
    <3> QED BY <2>5, <3>1, <3>2
  <2> QED BY <2>1, <2>3, <2>4, <2>5
<1>3. pos + size <= l => left - size \in Nat /\ left - size >= l - (pos + size)
                         /\ (left = l - pos => left - size = l - (pos + size))
  <2> HIDE DEF size
  <2> QED BY <1>1
<1>4. CASE f.kind \in {"char", "word", "array"}
  <2>1. f.kind # "dyn" /\ q = TakeNumber(s, p, f.size) /\ SignExtendedValue(f, v) = v
    BY <1>4 DEF ParseField, SignExtendedValue
  <2>2. /\ pos + size <= l => q = Parsed(pos + size, left - size, v)
        /\ pos + size > l => Spent(q, l)
    BY <1>2, <2>1 DEF TookThis
  <2> HIDE DEF e, size, p, q
  <2>3. pos + size <= l => Taken(q, f, v, l, pos, left, size)
    BY <1>3, <2>1, <2>2 DEF Taken
  <2> QED BY <2>2, <2>3 DEF e, size, p, q
<1>5. CASE f.kind = "int"
  <2> DEFINE r == TakeNumber(s, p, 4)
  <2>1. /\ f.kind # "dyn" /\ f.size = 4 /\ f = int
        /\ q = Then(r, Parsed(r.pos, p.len, SignExtended(r.value)))
        /\ SignExtendedValue(f, v) = SignExtended(v) /\ p.len = left
    BY <1>5, FieldShape, ParsedParts DEF ParseField, SignExtendedValue, TakeInt
  <2>2. /\ pos + size <= l => r = Parsed(pos + size, left - size, v)
        /\ pos + size > l => Spent(r, l)
    BY <1>2, <2>1 DEF TookThis
  <2> HIDE DEF e, size, p, q, r
  <2>3. ASSUME pos + size <= l PROVE Taken(q, f, v, l, pos, left, size)
    <3>1. q = Parsed(pos + size, left, SignExtendedValue(f, v))
      BY <2>1, <2>2, <2>3, ParsedParts DEF Then
    <3>2. left >= l - (pos + size)
      BY <1>1
    <3> QED BY <2>1, <3>1, <3>2 DEF Taken
  <2>4. ASSUME pos + size > l PROVE Spent(q, l)
    BY <2>1, <2>2, <2>4, ParsedParts, FailedParts DEF Spent, Then
  <2> QED BY <2>3, <2>4 DEF e, size, p, q
<1>6. CASE f.kind = "dyn"
  <2> DEFINE m == Len(v)
             r == TakeNumber(s, p, 4)
             d == Take(s, r, r.value)
             last == Then(r, d)
  <2>1. /\ f # int /\ SignExtendedValue(f, v) = v /\ v \in Seq(Byte)
        /\ m \in 0 .. Width(4) - 1 /\ size = 4 + m
        /\ \A j \in 1 .. 4 : e[j] = Bytes(m, 4)[j]
        /\ \A j \in 1 .. m : e[4 + j] = v[j]
        /\ q = Then(last, Parsed(last.pos, last.len, last.value))
    BY <1>6, FieldShape, EncodedShape
       DEF ParseField, SignExtendedValue, TakeDyn, Replaced, IsValue
  <2>2. m \in Nat
    BY <2>1, LenProperties
  <2>3. \A j \in 1 .. 4 : pos + j <= l => s[pos + j] = Bytes(m, 4)[j]
    <3>1. \A j \in 1 .. 4 : j \in 1 .. size
      <4> HIDE DEF size, m
      <4> QED BY <2>1, <2>2
    <3> QED BY <1>1, <2>1, <3>1
  <2> HIDE DEF e, size, q, m, last, d
  <2>4. pos + 4 <= l => r = Parsed(pos + 4, left - 4, m)
    <3>1. m \in 0 .. Width(4) - 1
      BY <2>1
    <3> HIDE DEF m
    <3>2. TookThis(r, l, pos, left, 4, m)
      BY <2>3, <3>1, TakenNumber
    <3> QED BY <3>2 DEF TookThis
  <2>5. TookNumber(r, s, pos, left, 4)
    BY NumberAny
  <2> HIDE DEF p, r
  <2>6. left < 4 => q = Failed
    BY <2>1, <2>5, FailedParts DEF Then, last, TookNumber
  <2>7. ASSUME left >= 4, NEW u \in Nat, r = Parsed(pos + 4, left - 4, u)
        PROVE  /\ left - 4 < u => q = Failed
               /\ left - 4 >= u => /\ q = Parsed((pos + 4) + u, (left - 4) - u, q.value)
                                   /\ AreBytes(q.value, s, pos + 4, u)
    <3>1. /\ pos + 4 \in Nat /\ left - 4 \in Nat
          /\ (pos + 4) + (left - 4) <= Len(s)
      BY <1>1, <2>7
    <3>2. last = d /\ d = Take(s, Parsed(pos + 4, left - 4, u), u)
      BY <2>7, ParsedParts DEF Then, last, d
    <3>3. TookBytes(d, s, pos + 4, left - 4, u)
      BY <3>1, <3>2, TakenAny
    <3>4. left - 4 < u => q = Failed
      BY <2>1, <3>2, <3>3, FailedParts DEF Then, TookBytes
    <3>5. ASSUME left - 4 >= u
          PROVE  /\ q = Parsed((pos + 4) + u, (left - 4) - u, q.value)
                 /\ AreBytes(q.value, s, pos + 4, u)
      <4>1. PICK b : AreBytes(b, s, pos + 4, u) /\ d = Parsed((pos + 4) + u, (left - 4) - u, b)
        BY <3>3, <3>5 DEF TookBytes
      <4>2. q = Parsed((pos + 4) + u, (left - 4) - u, b)
        BY <2>1, <3>2, <4>1, ParsedParts DEF Then
      <4>3. q.value = b
        BY <4>2, ParsedParts
      <4> QED BY <4>1, <4>2, <4>3
    <3> QED BY <3>4, <3>5
  <2>8. CASE pos + 4 > l
    <3>1. ASSUME left >= 4 PROVE Spent(q, l)
      <4>1. PICK b : UInt(b) \in Nat /\ r = Parsed(pos + 4, left - 4, UInt(b))
        BY <2>5, <3>1 DEF TookNumber
      <4> DEFINE u == UInt(b)
      <4> HIDE DEF u
      <4>2. u \in Nat /\ r = Parsed(pos + 4, left - 4, u)
        BY <4>1 DEF u
      <4>3. (left - 4 < u \/ left - 4 >= u) /\ (pos + 4) + u > l
        BY <2>8, <4>2
      <4>4. left - 4 >= u => q.status = "ok" /\ q.pos = (pos + 4) + u
        BY <2>7, <3>1, <4>2, ParsedParts
      <4>5. left - 4 < u => q = Failed
        BY <2>7, <3>1, <4>2
      <4> QED BY <4>3, <4>4, <4>5 DEF Spent
    <3>2. left < 4 \/ left >= 4
      OBVIOUS
    <3>3. ~(pos + size <= l)
      BY <2>1, <2>2, <2>8
    <3> QED BY <2>6, <3>1, <3>2, <3>3 DEF Spent, e, size, p, q
  <2>9. CASE pos + 4 <= l
    <3>1. left >= 4 /\ r = Parsed(pos + 4, left - 4, m)
      BY <2>4, <2>9
    <3>2. /\ left - 4 < m => q = Failed
          /\ left - 4 >= m => /\ q = Parsed((pos + 4) + m, (left - 4) - m, q.value)
                              /\ q.value \in Seq(Byte) /\ Len(q.value) = m
                              /\ \A j \in 1 .. m : q.value[j] = s[(pos + 4) + j]
      BY <2>2, <2>7, <3>1 DEF AreBytes
    <3>3. ASSUME pos + size > l PROVE Spent(q, l)
      <4>1. left - 4 < m \/ left - 4 >= m
        BY <2>2
      <4>2. (pos + 4) + m > l
        BY <2>1, <2>2, <3>3
      <4>3. left - 4 >= m => q.status = "ok" /\ q.pos = (pos + 4) + m
        BY <3>2, ParsedParts
      <4> QED BY <3>2, <4>1, <4>2, <4>3 DEF Spent
    <3>4. ASSUME pos + size <= l PROVE Taken(q, f, v, l, pos, left, size)
      <4>0. size = 4 + m
        BY <2>1
      <4>1. /\ left - 4 >= m /\ (pos + 4) + m = pos + size
            /\ (left - 4) - m = left - size
        BY <2>2, <3>4, <4>0
      <4>2. q.value = v
        <5>1. ASSUME NEW j \in 1 .. m PROVE q.value[j] = v[j]
          <6>1. /\ (pos + 4) + j = pos + (4 + j) /\ 4 + j \in 1 .. size
                /\ pos + (4 + j) <= l
            BY <2>1, <2>2, <3>4
          <6>2. q.value[j] = s[pos + (4 + j)]
            BY <3>2, <4>1, <6>1
          <6>3. s[pos + (4 + j)] = e[4 + j]
            BY <1>1, <6>1
          <6> QED BY <2>1, <6>2, <6>3
        <5>2. Len(q.value) = Len(v)
          BY <3>2, <4>1 DEF m
        <5> QED BY <2>1, <3>2, <4>1, <5>1, <5>2, SeqEqual DEF m
      <4>3. q = Parsed(pos + size, left - size, v)
        BY <3>2, <4>1, <4>2
      <4> QED BY <1>3, <2>1, <3>4, <4>3 DEF Taken
    <3> QED BY <3>3, <3>4 DEF e, size, p, q
  <2> QED BY <1>1, <2>8, <2>9
<1> QED BY <1>4, <1>5, <1>6, FieldShape

-----------------------------------------------------------------------------
(* The fields to come.                                                     *)

\* The fields that parse() takes from len, and how many others there are.
Counted == Field \ {int}
NoInt(fields) == \A i \in 1 .. Len(fields) : fields[i] # int
OneInt(fields) ==
  \A i, j \in 1 .. Len(fields) : fields[i] = int /\ fields[j] = int => i = j

LEMMA PlainIsCounted == Plain \subseteq Counted
BY FieldShape DEF Plain, Counted, Field

LEMMA SubsetOfFields ==
  ASSUME NEW S, NEW T, S \subseteq T, NEW u \in Seq(S)
  PROVE  u \in Seq(T)
<1>1. \A i \in 1 .. Len(u) : u[i] \in T
  BY ElementOfSeq
<1>2. Len(u) \in Nat /\ u = [i \in 1 .. Len(u) |-> u[i]]
  BY SeqDef, LenProperties
<1> QED BY <1>1, <1>2

LEMMA CountedHasNoInt ==
  ASSUME NEW u \in Seq(Counted)
  PROVE  NoInt(u) /\ OneInt(u)
<1>1. \A i \in 1 .. Len(u) : u[i] # int
  BY ElementOfSeq DEF Counted
<1> QED BY <1>1 DEF NoInt, OneInt

LEMMA RowsOfTypes ==
  /\ address_t \in Seq(Plain) /\ encrypted_packet_t \in Seq(Plain)
  /\ chain_row \in Rows /\ address_t \in Rows /\ chains_t \in Seq(Counted)
<1>1. address_t \in Seq(Plain) /\ encrypted_packet_t \in Seq(Plain)
  BY DEF address_t, encrypted_packet_t, Plain
<1>2. chain_row \in Seq(Plain)
  BY <1>1, ConcatProperties DEF chain_row
<1>3. Len(address_t) = 2 /\ Len(encrypted_packet_t) = 2
  BY DEF address_t, encrypted_packet_t
<1>4. Len(chain_row) = 4
  <2>1. Len(address_t \o encrypted_packet_t) = Len(address_t) + Len(encrypted_packet_t)
    BY <1>1, ConcatProperties
  <2> QED BY <1>3, <2>1 DEF chain_row
<1>5. chain_row # << >> /\ address_t # << >>
  <2>1. \A u \in Seq(Plain) : Len(u) > 0 => u # << >>
    BY EmptySeq
  <2>2. Len(chain_row) > 0 /\ Len(address_t) > 0
    BY <1>3, <1>4
  <2> QED BY <1>1, <1>2, <2>1, <2>2
<1>6. array(chain_row) \in Counted
  <2>1. array(chain_row) \in Field
    BY <1>2, <1>5 DEF Field, Rows
  <2> QED BY <2>1 DEF Counted, array, int
<1>7. chains_t \in Seq(Counted)
  <2> HIDE DEF Counted
  <2> QED BY <1>6 DEF chains_t
<1> QED BY <1>1, <1>2, <1>5, <1>7 DEF Rows

\* The types that have an int.
Uncounted == {<<int>>, <<word, word, int>>, <<int, array(address_t)>>}

LEMMA StructsAreCounted ==
  ASSUME NEW t \in DOMAIN structs
  PROVE  structs[t] \in Seq(Counted) \cup Uncounted
<1>1. /\ address_t \in Seq(Counted) /\ encrypted_packet_t \in Seq(Counted)
      /\ chain_row \in Seq(Counted) /\ chains_t \in Seq(Counted)
  BY RowsOfTypes, PlainIsCounted, SubsetOfFields DEF Rows
<1>2. char \in Counted /\ dyn \in Counted
  BY PlainIsCounted DEF Plain
<1> HIDE DEF Counted
<1>3. /\ <<char, dyn, char>> \in Seq(Counted) /\ <<dyn, char>> \in Seq(Counted)
      /\ <<dyn>> \in Seq(Counted) /\ <<char>> \in Seq(Counted)
  BY <1>2
<1>4. \A x, y \in Seq(Counted) : x \o y \in Seq(Counted)
  BY ConcatProperties
<1>5. /\ <<char, dyn, char>> \o address_t \o chain_row \in Seq(Counted)
      /\ address_t \o <<dyn, char>> \o chains_t \o <<dyn>> \in Seq(Counted)
      /\ <<char>> \o address_t \in Seq(Counted)
      /\ chain_row \o <<dyn>> \in Seq(Counted)
      /\ address_t \o <<dyn, char>> \in Seq(Counted)
  <2>1. <<char, dyn, char>> \o address_t \in Seq(Counted)
    BY <1>1, <1>3, <1>4
  <2>2. (<<char, dyn, char>> \o address_t) \o chain_row \in Seq(Counted)
    BY <1>1, <1>4, <2>1
  <2>3. address_t \o <<dyn, char>> \in Seq(Counted)
    BY <1>1, <1>3, <1>4
  <2>4. (address_t \o <<dyn, char>>) \o chains_t \in Seq(Counted)
    BY <1>1, <1>4, <2>3
  <2>5. ((address_t \o <<dyn, char>>) \o chains_t) \o <<dyn>> \in Seq(Counted)
    BY <1>3, <1>4, <2>4
  <2>6. <<char>> \o address_t \in Seq(Counted)
    BY <1>1, <1>3, <1>4
  <2>7. chain_row \o <<dyn>> \in Seq(Counted)
    BY <1>1, <1>3, <1>4
  <2> QED BY <2>2, <2>3, <2>5, <2>6, <2>7
<1> DEFINE legal == Seq(Counted) \cup Uncounted
           request == address_t \o <<dyn, char>> \o chains_t \o <<dyn>>
           response == <<char, dyn, char>> \o address_t \o chain_row
           answer == <<char>> \o address_t
           packet == chain_row \o <<dyn>>
           plain == address_t \o <<dyn, char>>
           devices == <<int, array(address_t)>>
           wanted == <<word, word, int>>
           connect == <<int>>
<1>6. /\ address_t \in legal /\ encrypted_packet_t \in legal /\ chain_row \in legal
      /\ chains_t \in legal /\ request \in legal /\ response \in legal
      /\ answer \in legal /\ packet \in legal /\ plain \in legal
      /\ devices \in legal /\ wanted \in legal /\ connect \in legal
  BY <1>1, <1>5 DEF Uncounted
<1>7. structs =
        [address_t |-> address_t, encrypted_packet_t |-> encrypted_packet_t,
         chain_row |-> chain_row, chains_t |-> chains_t,
         getChainsRequest |-> address_t, getChainsResponse |-> response,
         setChainsRequest |-> request, setChainsResponse |-> answer,
         onDeviceConnectRequest |-> connect, onDeviceConnectResponse |-> answer,
         getDevicesRequest |-> wanted, getDevicesResponse |-> devices,
         data_packet_t |-> packet, data_packet_encrypted_data |-> plain]
  BY DEF structs
<1> HIDE DEF legal, request, response, answer, packet, plain, devices, wanted, connect
<1>8. structs[t] \in legal
  BY <1>6, <1>7
<1> QED BY <1>8 DEF legal

LEMMA StructsAreFields ==
  ASSUME NEW t \in DOMAIN structs
  PROVE  structs[t] \in Seq(Field) /\ OneInt(structs[t])
<1>1. CASE structs[t] \in Seq(Counted)
  <2>1. Counted \subseteq Field
    BY DEF Counted
  <2> QED BY <1>1, <2>1, SubsetOfFields, CountedHasNoInt
<1>2. CASE structs[t] \in Uncounted
  <2>1. /\ word \in Field /\ int \in Field /\ array(address_t) \in Field
    BY RowsOfTypes DEF Field
  <2> HIDE DEF Field
  <2>2. structs[t] \in Seq(Field)
    <3>1. /\ <<int>> \in Seq(Field) /\ <<word, word, int>> \in Seq(Field)
          /\ <<int, array(address_t)>> \in Seq(Field)
      BY <2>1
    <3> QED BY <1>2, <3>1 DEF Uncounted
  <2>3. word # int /\ array(address_t) # int
    BY DEF word, int, array
  <2>4. ASSUME structs[t] = <<int>> PROVE OneInt(structs[t])
    BY <2>4 DEF OneInt
  <2>5. ASSUME structs[t] = <<word, word, int>> PROVE OneInt(structs[t])
    BY <2>3, <2>5 DEF OneInt
  <2>6. ASSUME structs[t] = <<int, array(address_t)>> PROVE OneInt(structs[t])
    BY <2>3, <2>6 DEF OneInt
  <2> QED BY <1>2, <2>2, <2>4, <2>5, <2>6 DEF Uncounted
<1> QED BY <1>1, <1>2, StructsAreCounted

LEMMA RepeatedRow ==
  ASSUME NEW row \in Rows, NEW n \in Nat
  PROVE  Repeated(row, n) \in Seq(Plain)
<1> DEFINE l == Len(row)
           m == n * l
<1>1. l \in Nat /\ l > 0 /\ row \in Seq(Plain)
  BY LenProperties, EmptySeq DEF Rows
<1>2. m \in Nat
  BY <1>1
<1>3. \A k \in 1 .. m : row[((k - 1) % l) + 1] \in Plain
  <2>1. ASSUME NEW k \in 1 .. m PROVE ((k - 1) % l) + 1 \in 1 .. l
    <3>1. k - 1 \in Nat
      BY <1>2
    <3> HIDE DEF l
    <3> QED BY <1>1, <3>1
  <2> QED BY <1>1, <2>1, ElementOfSeq
<1>4. Repeated(row, n) = [k \in 1 .. m |-> row[((k - 1) % l) + 1]]
  BY DEF Repeated
<1> HIDE DEF l, m
<1> QED BY <1>2, <1>3, <1>4

LEMMA RestFields ==
  ASSUME NEW fields \in Seq(Field), fields # << >>, NEW v,
         Head(fields).kind = "array" => v \in Nat
  PROVE  /\ Head(fields) \in Field /\ Head(fields) = fields[1]
         /\ Rest(fields, v) \in Seq(Field)
         /\ IntIsLast(fields) => /\ IntIsLast(Rest(fields, v))
                                 /\ Head(fields) = int => Rest(fields, v) = << >>
         /\ OneInt(fields) => /\ OneInt(Rest(fields, v))
                              /\ Head(fields) = int => NoInt(Rest(fields, v))
         /\ NoInt(fields) => NoInt(Rest(fields, v)) /\ Head(fields) # int
<1> DEFINE f == Head(fields)
           rest == Tail(fields)
           l == Len(rest)
<1>1. Len(fields) \in Nat \ {0}
  BY EmptySeq, LenProperties
<1>2. f \in Field /\ f = fields[1]
  BY HeadTailProperties
<1>3. /\ rest \in Seq(Field) /\ Len(fields) = l + 1 /\ l \in Nat
      /\ \A i \in 1 .. l : rest[i] = fields[i + 1]
  <2>1. /\ rest \in Seq(Field) /\ Len(rest) = Len(fields) - 1
        /\ \A i \in 1 .. Len(rest) : rest[i] = fields[i + 1]
    BY HeadTailProperties
  <2> HIDE DEF rest
  <2> QED BY <1>1, <2>1
<1> HIDE DEF rest, f
<1>4. ASSUME IntIsLast(fields)
      PROVE  IntIsLast(rest) /\ (f = int => rest = << >>)
  <2>1. \A i \in 1 .. l : fields[i] # int
    BY <1>3, <1>4 DEF IntIsLast
  <2>2. \A i \in 1 .. l - 1 : i \in 1 .. l /\ i + 1 \in 1 .. l
    BY <1>3
  <2>3. IntIsLast(rest)
    BY <1>3, <2>1, <2>2 DEF IntIsLast
  <2>4. ASSUME f = int PROVE rest = << >>
    <3>1. ~(1 \in 1 .. l)
      BY <1>2, <2>1, <2>4
    <3>2. Len(rest) = 0
      BY <1>3, <3>1
    <3> QED BY <1>3, <3>2, EmptySeq
  <2> QED BY <2>3, <2>4
<1>5. ASSUME OneInt(fields)
      PROVE  OneInt(rest) /\ (f = int => NoInt(rest))
  <2>1. \A i, j \in 1 .. l + 1 : fields[i] = int /\ fields[j] = int => i = j
    BY <1>3, <1>5 DEF OneInt
  <2>2. \A i \in 1 .. l : i + 1 \in 1 .. l + 1 /\ i + 1 # 1
    BY <1>3
  <2>3. ASSUME NEW i \in 1 .. l, NEW j \in 1 .. l, rest[i] = int, rest[j] = int PROVE i = j
    <3>1. i + 1 = j + 1
      BY <1>3, <2>1, <2>2, <2>3
    <3> QED BY <3>1
  <2>4. ASSUME f = int, NEW i \in 1 .. l PROVE rest[i] # int
    <3>1. 1 \in 1 .. l + 1 /\ i + 1 \in 1 .. l + 1 /\ i + 1 # 1
      BY <1>3, <2>2
    <3> QED BY <1>2, <1>3, <2>1, <2>4, <3>1
  <2> QED BY <2>3, <2>4 DEF OneInt, NoInt
<1>6. ASSUME NoInt(fields)
      PROVE  NoInt(rest) /\ f # int
  <2>1. \A i \in 1 .. l + 1 : fields[i] # int
    BY <1>3, <1>6 DEF NoInt
  <2>2. 1 \in 1 .. l + 1 /\ \A i \in 1 .. l : i + 1 \in 1 .. l + 1
    BY <1>3
  <2>3. \A i \in 1 .. l : rest[i] # int
    BY <1>3, <2>1, <2>2
  <2> QED BY <1>2, <2>1, <2>2, <2>3 DEF NoInt
<1>7. CASE f.kind # "array"
  <2>1. Rest(fields, v) = rest
    BY <1>7 DEF Rest, f, rest
  <2> QED BY <1>2, <1>3, <1>4, <1>5, <1>6, <2>1 DEF f
<1>8. CASE f.kind = "array"
  <2> DEFINE rows == Repeated(f.row, v)
             r == rows \o rest
             n == Len(rows)
  <2>1. f.row \in Rows /\ v \in Nat /\ f # int
    BY <1>2, <1>8, FieldShape DEF int, f
  <2>2. rows \in Seq(Field) /\ n \in Nat /\ \A i \in 1 .. n : rows[i] # int
    <3>1. rows \in Seq(Plain)
      BY <2>1, RepeatedRow
    <3> HIDE DEF rows
    <3>2. rows \in Seq(Counted)
      BY <3>1, PlainIsCounted, SubsetOfFields
    <3>3. rows \in Seq(Field)
      <4>1. Counted \subseteq Field
        BY DEF Counted
      <4> QED BY <3>2, <4>1, SubsetOfFields
    <3> QED BY <3>2, <3>3, CountedHasNoInt, LenProperties DEF NoInt
  <2>3. Rest(fields, v) = r
    BY <1>8 DEF Rest, f, rest
  <2> HIDE DEF rows, Field
  <2>4. /\ r \in Seq(Field) /\ Len(r) = n + l
        /\ \A i \in 1 .. n + l : r[i] = IF i <= n THEN rows[i] ELSE rest[i - n]
    BY <1>3, <2>2, ConcatProperties
  <2> HIDE DEF r, n, l
  <2>5. ASSUME NEW i \in 1 .. n + l, r[i] = int
        PROVE  i - n \in 1 .. l /\ rest[i - n] = int
    <3>1. ~(i <= n)
      <4>1. i <= n => i \in 1 .. n
        OBVIOUS
      <4> QED BY <2>2, <2>4, <2>5, <4>1
    <3>2. i - n \in 1 .. l
      BY <1>3, <2>2, <3>1
    <3> QED BY <2>4, <2>5, <3>1, <3>2
  <2>6. ASSUME IntIsLast(fields) PROVE IntIsLast(r)
    <3>1. \A i \in 1 .. l - 1 : rest[i] # int
      BY <1>4, <2>6 DEF IntIsLast, l
    <3>2. ASSUME NEW i \in 1 .. (n + l) - 1, r[i] = int PROVE FALSE
      <4>1. i \in 1 .. n + l
        BY <1>3, <2>2
      <4>2. i - n \in 1 .. l /\ rest[i - n] = int
        BY <2>5, <3>2, <4>1
      <4>3. i - n \in 1 .. l - 1
        BY <1>3, <2>2, <4>2
      <4> QED BY <3>1, <4>2, <4>3
    <3> QED BY <2>4, <3>2 DEF IntIsLast
  <2>7. ASSUME OneInt(fields) PROVE OneInt(r)
    <3>1. \A i, j \in 1 .. l : rest[i] = int /\ rest[j] = int => i = j
      BY <1>5, <2>7 DEF OneInt, l
    <3>2. ASSUME NEW i \in 1 .. n + l, NEW j \in 1 .. n + l, r[i] = int, r[j] = int
          PROVE  i = j
      <4>1. i - n \in 1 .. l /\ rest[i - n] = int /\ j - n \in 1 .. l /\ rest[j - n] = int
        BY <2>5, <3>2
      <4>2. i - n = j - n
        BY <3>1, <4>1
      <4> QED BY <1>3, <2>2, <4>2
    <3> QED BY <2>4, <3>2 DEF OneInt
  <2>8. ASSUME NoInt(fields) PROVE NoInt(r)
    <3>1. \A i \in 1 .. l : rest[i] # int
      BY <1>6, <2>8 DEF NoInt, l
    <3> QED BY <2>4, <2>5, <3>1 DEF NoInt
  <2> QED BY <1>2, <1>6, <2>1, <2>3, <2>4, <2>6, <2>7, <2>8 DEF f
<1> QED BY <1>7, <1>8

-----------------------------------------------------------------------------
(* The packet_t around a message.                                          *)

LEMMA FramedShape ==
  ASSUME NEW cmd \in Chars, NEW s \in Seq(Byte)
  PROVE  /\ Framed(cmd, s) \in Seq(Byte) /\ Len(Framed(cmd, s)) = 5 + Len(s)
         /\ \A i \in 1 .. 1 : Framed(cmd, s)[i] = EncodeField(char, cmd)[i]
         /\ \A i \in 1 .. 4 + Len(s) : Framed(cmd, s)[1 + i] = EncodeField(dyn, s)[i]
<1> DEFINE a == EncodeField(char, cmd)
           b == EncodeField(dyn, s)
           l == Len(s)
<1>1. l \in Nat
  BY LenProperties
<1>2. a \in Seq(Byte) /\ Len(a) = 1
  <2>1. cmd \in Nat /\ a = Bytes(cmd, 1)
    BY ValueAssumption, Widths DEF EncodeField, char, Byte
  <2> QED BY <2>1, BytesShape
<1>3. b \in Seq(Byte) /\ Len(b) = 4 + l
  <2>1. b = Bytes(l, 4) \o s
    BY DEF EncodeField, dyn
  <2>2. Bytes(l, 4) \in Seq(Byte) /\ Len(Bytes(l, 4)) = 4
    BY <1>1, BytesShape
  <2>3. Bytes(l, 4) \o s \in Seq(Byte) /\ Len(Bytes(l, 4) \o s) = Len(Bytes(l, 4)) + Len(s)
    BY <2>2, ConcatProperties
  <2> QED BY <2>1, <2>2, <2>3
<1>4. Framed(cmd, s) = a \o b
  BY DEF Framed
<1> HIDE DEF a, b, l
<1> DEFINE m == Len(b)
           w == a \o b
<1>5. w \in Seq(Byte) /\ Len(w) = 1 + m
      /\ \A i \in 1 .. 1 + m : w[i] = IF i <= 1 THEN a[i] ELSE b[i - 1]
  <2>1. /\ w \in Seq(Byte) /\ Len(w) = Len(a) + Len(b)
        /\ \A i \in 1 .. Len(a) + Len(b) : w[i] = IF i <= Len(a) THEN a[i] ELSE b[i - Len(a)]
    BY <1>2, <1>3, ConcatProperties
  <2> QED BY <1>2, <2>1
<1> HIDE DEF w
<1>6. \A i \in 1 .. 1 : w[i] = a[i]
  BY <1>1, <1>3, <1>5
<1>7. \A i \in 1 .. m : w[1 + i] = b[i]
  <2>1. \A i \in 1 .. m : 1 + i \in 1 .. 1 + m /\ ~(1 + i <= 1) /\ (1 + i) - 1 = i
    BY <1>1, <1>3
  <2> QED BY <1>5, <2>1
<1>8. Len(w) = 5 + l
  BY <1>1, <1>3, <1>5
<1> QED BY <1>3, <1>4, <1>5, <1>6, <1>7, <1>8 DEF a, b, w, l

(* The message is found in the packet_t.                                   *)
LEMMA UnframedFrame ==
  ASSUME NEW cmd \in Chars, NEW s \in Seq(Byte), Len(s) < B4,
         NEW c, c = Framed(cmd, s)
  PROVE  Unframed(c).status = "ok" /\ Unframed(c).value = s
<1> DEFINE w == Framed(cmd, s)
           l == Len(c)
           a == EncodeField(char, cmd)
           b == EncodeField(dyn, s)
           q == ParseField(char, << >>, c, Parsed(0, l, << >>))
           r == ParseField(dyn, << >>, c, q)
<1>1. l \in Nat /\ Len(s) \in Nat /\ c \in Seq(Byte)
  BY LenProperties, FramedShape
<1>2. Unframed(c) = Then(q, r)
  BY DEF Unframed, Begin
<1>3. char \in Field /\ IsValue(char, cmd) /\ char # int
  BY ValueAssumption, Widths DEF Field, char, int, IsValue, Width, Byte
<1>4. dyn \in Field /\ IsValue(dyn, s)
  BY DEF Field, dyn, IsValue
<1>5. Len(a) = 1 /\ Len(b) = 4 + Len(s)
  <2>1. char.kind = "char" /\ char.size = 1 /\ dyn.kind = "dyn"
    BY DEF char, dyn
  <2> QED BY <1>3, <1>4, <2>1, EncodedShape
<1>6. \A i \in 1 .. Len(a) : 0 + i <= l => c[0 + i] = a[i]
  <2>1. w[1] = a[1]
    BY FramedShape
  <2> HIDE DEF a, w
  <2> QED BY <1>1, <1>5, <2>1 DEF w
<1>7. \A i \in 1 .. Len(b) : 1 + i <= l => c[1 + i] = b[i]
  <2>1. \A i \in 1 .. Len(b) : w[1 + i] = b[i]
    BY <1>5, FramedShape, SMTT(30)
  <2> QED BY <2>1
<1>8. l = 1 + Len(b)
  BY <1>1, <1>5, FramedShape
<1>9. Taken(q, char, cmd, l, 0, l, 1)
  <2>1. 0 \in Nat /\ 0 + l <= Len(c) /\ 0 + l >= l /\ 0 + Len(a) <= l /\ Len(a) = 1
    BY <1>1, <1>5, <1>8
  <2>2. 0 + Len(a) <= l => Taken(q, char, cmd, l, 0, l, Len(a))
    <3> HIDE DEF a, l
    <3> QED BY <1>1, <1>3, <1>6, <2>1, ParsedField DEF a
  <2> QED BY <2>1, <2>2
<1>10. PICK k \in Nat : q = Parsed(0 + 1, k, cmd) /\ k = l - (0 + 1)
  <2>1. SignExtendedValue(char, cmd) = cmd /\ l = l - 0
    BY <1>1 DEF SignExtendedValue, char
  <2> QED BY <1>1, <1>3, <1>9, <2>1 DEF Taken
<1>11. q = Parsed(1, k, cmd) /\ q.status = "ok" /\ k = l - 1
  BY <1>1, <1>10, ParsedParts
<1>12. Unframed(c) = r /\ r = ParseField(dyn, << >>, c, Parsed(1, k, cmd))
  BY <1>2, <1>11 DEF Then
<1>13. Taken(r, dyn, s, l, 1, k, Len(b))
  <2>1. 1 \in Nat /\ 1 + k <= Len(c) /\ 1 + k >= l /\ 1 + Len(b) <= l
    BY <1>1, <1>5, <1>8, <1>11
  <2> HIDE DEF b, r, l
  <2> QED BY <1>1, <1>4, <1>7, <1>12, <2>1, ParsedField DEF b
<1>14. SignExtendedValue(dyn, s) = s
  BY DEF SignExtendedValue, dyn
<1> HIDE DEF b, r
<1> QED BY <1>12, <1>13, <1>14, ParsedParts DEF Taken

-----------------------------------------------------------------------------
(* The invariant.                                                          *)

TodoAt(k) == script[k].todo
PlaceAt(k) == script[k].pos
Piece(k) == EncodeField(FieldAt(k), message[k])

Typed ==
  /\ type \in DOMAIN structs
  /\ phase \in {"encode", "sent", "received", "dropped", "parse", "null",
                "unpacked", "copy"}
  /\ todo \in Seq(Field) /\ script \in Seq([todo : Seq(Field), pos : Nat])
  /\ wire \in Seq(Byte) /\ payload \in Seq(Byte) /\ data \in Seq(Byte)
  /\ message \in Seq(Value) /\ object \in Seq(Value) /\ source \in Seq(Value)
  /\ Len(script) = Len(message) + 1

\* The k-th value stands on the wire at its place, as its field says.
Encoded(k) ==
  /\ TodoAt(k) # << >> /\ IsValue(FieldAt(k), message[k])
  /\ TodoAt(k + 1) = Rest(TodoAt(k), message[k])
  /\ PlaceAt(k + 1) = PlaceAt(k) + Len(Piece(k)) /\ PlaceAt(k + 1) <= Len(wire)
  /\ \A j \in 1 .. Len(Piece(k)) : wire[PlaceAt(k) + j] = Piece(k)[j]

Scripted ==
  /\ TodoAt(1) = structs[type] /\ PlaceAt(1) = 0
  /\ \A k \in 1 .. Len(message) : Encoded(k)
  /\ PlaceAt(Len(script)) = Len(wire)
  /\ TodoAt(Len(script)) = IF phase = "encode" THEN todo ELSE << >>

\* s is where the wire begins.
IsStart(s) == Len(s) <= Len(wire) /\ \A i \in 1 .. Len(s) : s[i] = wire[i]

Delivered ==
  /\ phase # "encode" => IsStart(payload)
  /\ phase = "sent" =>
       Len(data) <= MaxDatagram /\ \E cmd \in Chars : data = Framed(cmd, payload)
  /\ phase \in {"received", "parse", "unpacked"} => data = payload

\* The values of the object are those of the message.
Faithful ==
  /\ Len(object) <= Len(message)
  /\ \A j \in 1 .. Len(object) : object[j] = SignExtendedValue(FieldAt(j), message[j])

\* As long as it is in the data, parse() is where encode() was when it wrote
\* the next value.
Parsing ==
  phase = "parse" /\ ~Overrun =>
    LET k == Len(object) + 1
        pos == PlaceAt(k)
    IN /\ Faithful /\ todo = TodoAt(k)
       /\ parser.pos = pos /\ parser.len >= Len(data) - pos
       /\ IntIsLast(structs[type]) =>
            IntIsLast(todo) /\ (todo # << >> => parser.len = Len(data) - pos)

\* Wherever it is, the bytes it believes are left end with the data until an
\* int is parsed, and four bytes behind them after that.
Reaching ==
  phase \in {"parse", "unpacked"} =>
    /\ parser = Parsed(parser.pos, parser.len, parser.value)
    /\ parser.pos \in Nat /\ parser.len \in Nat
    /\ parser.pos + parser.len <= Len(data) + 4 /\ OneInt(todo)
    /\ NoInt(todo) \/ parser.pos + parser.len <= Len(data)

\* It leaves the data only when they end too early for a type that goes on
\* after its int.
Leaving ==
  phase \in {"parse", "unpacked"} /\ Overrun => Short /\ ~IntIsLast(structs[type])

\* The encoding of a copy is where the first one was, too.
Copying ==
  /\ (phase = "unpacked" /\ ~Overrun) \/ phase = "copy" =>
       Faithful /\ Len(object) = Len(message) /\ ~Short
  /\ phase = "copy" =>
       LET k == Len(message) - Len(source) + 1
       IN /\ Len(source) <= Len(message) /\ todo = TodoAt(k)
          /\ \A j \in 1 .. Len(source) : source[j] = object[k - 1 + j]
          /\ IsStart(data) /\ Len(data) = PlaceAt(k)

Ended == phase = "null" => Short

CodecInv ==
  Typed /\ Scripted /\ Delivered /\ Parsing /\ Reaching /\ Leaving /\ Copying /\ Ended

-----------------------------------------------------------------------------
(* The values of an object.                                                *)

LEMMA LegalValues ==
  ASSUME NEW f \in Field, NEW v \in Values(f)
  PROVE  IsValue(f, v)
<1>1. CASE f \in {char, word, int, dyn}
  <2>1. CASE f = char
    <3>1. v \in 0 .. ByteBase - 1
      BY <2>1, ValueAssumption DEF Values, char, Byte
    <3> QED BY <2>1, <3>1 DEF IsValue, Width, char
  <2>2. CASE f = word
    <3>1. v \in 0 .. B2 - 1
      BY <2>2, ValueAssumption DEF Values, word
    <3> QED BY <2>2, <3>1 DEF IsValue, Width, word
  <2>3. CASE f = int
    <3>1. v \in 0 .. B4 - 1
      BY <2>3, ValueAssumption DEF Values, int
    <3> QED BY <2>3, <3>1 DEF IsValue, Width, int
  <2>4. CASE f = dyn
    BY <2>4, ValueAssumption DEF Values, IsValue, char, word, int, dyn, Byte
  <2> QED BY <1>1, <2>1, <2>2, <2>3, <2>4
<1>2. CASE \E row \in Rows : f = array(row)
  BY <1>2, ValueAssumption, Widths DEF Values, IsValue, Width, array
<1> QED BY <1>1, <1>2 DEF Field

LEMMA ArrayValue ==
  ASSUME NEW f \in Field, NEW v, IsValue(f, v)
  PROVE  f.kind = "array" => v \in Nat
<1>1. f.kind = "array" => v \in 0 .. Width(4) - 1
  BY FieldShape DEF IsValue
<1> QED BY <1>1, Widths DEF Width

(* The sign of an int makes no difference to its encoding, and none to the *)
(* fields that come after it.                                              *)
LEMMA SignMakesNoDifference ==
  ASSUME NEW f \in Field, NEW v, IsValue(f, v)
  PROVE  /\ v \in Value /\ SignExtendedValue(f, v) \in Value
         /\ EncodeField(f, SignExtendedValue(f, v)) = EncodeField(f, v)
         /\ \A fields : Head(fields) = f => Rest(fields, SignExtendedValue(f, v)) = Rest(fields, v)
<1>1. CASE f.kind = "int"
  <2>1. f.size = 4 /\ v \in 0 .. B4 - 1 /\ v \in Nat
    BY <1>1, FieldShape, Widths DEF IsValue, Width
  <2>2. SignExtended(v) \in Nat /\ Bytes(SignExtended(v), 4) = Bytes(v, 4)
    BY <2>1, SignIsLost
  <2> QED BY <1>1, <2>1, <2>2 DEF SignExtendedValue, EncodeField, Rest, Value
<1>2. CASE f.kind = "dyn"
  BY <1>2 DEF SignExtendedValue, IsValue, Value
<1>3. CASE f.kind # "int" /\ f.kind # "dyn"
  <2>1. v \in Nat
    BY <1>3, FieldShape, Widths DEF IsValue, Width
  <2> QED BY <1>3, <2>1 DEF SignExtendedValue, Value
<1> QED BY <1>1, <1>2, <1>3

-----------------------------------------------------------------------------
(* The invariant holds at first and after every step.                      *)

LEMMA InitInv == Init => CodecInv
<1> SUFFICES ASSUME Init PROVE CodecInv
  OBVIOUS
<1>1. type \in DOMAIN structs /\ structs[type] \in Seq(Field)
  BY TypeAssumption, StructsAreFields DEF Init
<1> HIDE DEF Field
<1> DEFINE step == [todo |-> structs[type], pos |-> 0]
<1>2. /\ step \in [todo : Seq(Field), pos : Nat] /\ script = <<step>> /\ phase = "encode"
      /\ todo = structs[type] /\ message = << >> /\ wire = << >>
      /\ payload = << >> /\ data = << >> /\ object = << >> /\ source = << >>
  BY <1>1 DEF Init
<1>3. step.todo = structs[type] /\ step.pos = 0
  OBVIOUS
<1> HIDE DEF step
<1>4. Typed
  <2>1. Len(message) = 0 /\ Len(script) = 1
    BY <1>2
  <2>2. \A S : << >> \in Seq(S)
    BY EmptySeq
  <2>3. script \in Seq([todo : Seq(Field), pos : Nat])
    BY <1>2
  <2> QED BY <1>1, <1>2, <2>1, <2>2, <2>3 DEF Typed
<1>5. Scripted
  BY <1>2, <1>3 DEF Scripted, TodoAt, PlaceAt
<1>6. Delivered /\ Parsing /\ Reaching /\ Leaving /\ Copying /\ Ended
  BY <1>2 DEF Delivered, Parsing, Reaching, Leaving, Copying, Ended
<1> QED BY <1>4, <1>5, <1>6 DEF CodecInv

LEMMA EncodeInv ==
  ASSUME CodecInv, NEW v, todo # << >>, v \in Values(Head(todo)), Encode(v)
  PROVE  CodecInv'
<1>0. PICK n \in Nat : n = Len(message)
  BY LenProperties DEF CodecInv, Typed
<1> DEFINE f == Head(todo)
           e == EncodeField(f, v)
           step == [todo |-> todo', pos |-> Len(wire')]
           Steps == [todo : Seq(Field), pos : Nat]
<1>1. /\ phase = "encode" /\ message' = Append(message, v) /\ wire' = wire \o e
      /\ todo' = Rest(todo, v) /\ script' = Append(script, step)
      /\ type' = type /\ phase' = phase /\ payload' = payload /\ data' = data
      /\ parser' = parser /\ object' = object /\ source' = source
  BY DEF Encode
<1>2. Typed /\ Scripted
  BY DEF CodecInv
<1>3. /\ todo \in Seq(Field) /\ script \in Seq(Steps) /\ wire \in Seq(Byte)
      /\ message \in Seq(Value) /\ Len(script) = n + 1
      /\ n \in Nat /\ Len(wire) \in Nat /\ Len(script) \in Nat
  BY <1>0, <1>2, LenProperties DEF Typed
<1>4. f \in Field /\ IsValue(f, v) /\ todo' \in Seq(Field)
  <2>1. f \in Field
    BY <1>3, HeadTailProperties
  <2>2. IsValue(f, v)
    BY <2>1, LegalValues
  <2>3. f.kind = "array" => v \in Nat
    BY <2>1, <2>2, ArrayValue
  <2> QED BY <1>1, <1>3, <2>1, <2>2, <2>3, RestFields
<1>5. v \in Value /\ e \in Seq(Byte) /\ Len(e) \in Nat
  BY <1>4, SignMakesNoDifference, EncodedShape
<1> HIDE DEF e, f
<1>6. /\ wire' \in Seq(Byte) /\ Len(wire') = Len(wire) + Len(e) /\ Len(wire') \in Nat
      /\ \A i \in 1 .. Len(wire) : wire'[i] = wire[i]
      /\ \A j \in 1 .. Len(e) : wire'[Len(wire) + j] = e[j]
  <2>1. /\ wire \o e \in Seq(Byte) /\ Len(wire \o e) = Len(wire) + Len(e)
        /\ \A i \in 1 .. Len(wire) + Len(e) :
             (wire \o e)[i] = IF i <= Len(wire) THEN wire[i] ELSE e[i - Len(wire)]
    BY <1>3, <1>5, ConcatProperties
  <2> DEFINE w == wire \o e
             l == Len(wire)
             m == Len(e)
  <2>2. l \in Nat /\ m \in Nat
    BY <1>3, <1>5
  <2> HIDE DEF w, l, m
  <2>3. \A i \in 1 .. l + m : w[i] = IF i <= l THEN wire[i] ELSE e[i - l]
    BY <2>1 DEF w, l, m
  <2>4. \A i \in 1 .. l : w[i] = wire[i]
    <3>1. \A i \in 1 .. l : i \in 1 .. l + m /\ i <= l
      BY <2>2
    <3> QED BY <2>3, <3>1
  <2>5. \A j \in 1 .. m : w[l + j] = e[j]
    <3>1. \A j \in 1 .. m : l + j \in 1 .. l + m /\ ~(l + j <= l) /\ (l + j) - l = j
      BY <2>2
    <3> QED BY <2>3, <3>1
  <2> QED BY <1>1, <1>3, <1>5, <2>1, <2>4, <2>5 DEF w, l, m
<1>7. step \in Steps /\ step.todo = todo' /\ step.pos = Len(wire')
  BY <1>4, <1>6
<1> HIDE DEF step, Steps
<1>8. /\ script' \in Seq(Steps) /\ Len(script') = n + 2
      /\ script'[n + 2] = step /\ \A k \in 1 .. n + 1 : script'[k] = script[k]
  <2>1. /\ script' \in Seq(Steps) /\ Len(script') = Len(script) + 1
        /\ \A k \in 1 .. Len(script) : script'[k] = script[k]
        /\ script'[Len(script) + 1] = step
    BY <1>1, <1>3, <1>7, AppendProperties
  <2>2. (n + 1) + 1 = n + 2
    BY <1>3
  <2> QED BY <1>3, <2>1, <2>2
<1>9. /\ message' \in Seq(Value) /\ Len(message') = n + 1
      /\ message'[n + 1] = v /\ \A k \in 1 .. n : message'[k] = message[k]
  BY <1>0, <1>1, <1>3, <1>5, AppendProperties
<1>10. Typed'
  <2>1. Len(script') = Len(message') + 1
    BY <1>3, <1>8, <1>9
  <2> QED BY <1>1, <1>2, <1>4, <1>6, <1>8, <1>9, <2>1 DEF Typed, Steps
<1>11. Scripted'
  <2>1. /\ \A k \in 1 .. n + 1 : TodoAt(k)' = TodoAt(k) /\ PlaceAt(k)' = PlaceAt(k)
                                 /\ FieldAt(k)' = FieldAt(k)
        /\ TodoAt(n + 2)' = todo' /\ PlaceAt(n + 2)' = Len(wire')
    BY <1>3, <1>7, <1>8 DEF TodoAt, PlaceAt, FieldAt
  <2>2. /\ TodoAt(1) = structs[type] /\ PlaceAt(1) = 0
        /\ \A k \in 1 .. n : Encoded(k)
        /\ PlaceAt(n + 1) = Len(wire) /\ TodoAt(n + 1) = todo
    BY <1>0, <1>1, <1>2, <1>3 DEF Scripted
  <2>3. TodoAt(1)' = structs[type'] /\ PlaceAt(1)' = 0
    <3>1. 1 \in 1 .. n + 1
      BY <1>3
    <3> QED BY <1>1, <2>1, <2>2, <3>1
  <2>4. ASSUME NEW k \in 1 .. n PROVE Encoded(k)'
    <3>1. k \in 1 .. n + 1 /\ k + 1 \in 1 .. n + 1
      BY <1>3
    <3>2. Encoded(k) /\ FieldAt(k) \in Field /\ PlaceAt(k) \in Nat
      <4>1. script[k] \in Steps
        BY <1>3, <3>1, ElementOfSeq
      <4>2. TodoAt(k) \in Seq(Field) /\ PlaceAt(k) \in Nat /\ TodoAt(k) # << >>
        BY <2>2, <4>1 DEF Steps, TodoAt, PlaceAt, Encoded
      <4>3. FieldAt(k) \in Field
        BY <4>2, HeadTailProperties DEF FieldAt, TodoAt
      <4> QED BY <2>2, <4>2, <4>3
    <3>3. Piece(k)' = Piece(k) /\ message'[k] = message[k]
      BY <1>9, <2>1, <3>1 DEF Piece
    <3>4. \A j \in 1 .. Len(Piece(k)) : wire'[PlaceAt(k) + j] = Piece(k)[j]
      <4> DEFINE p == PlaceAt(k)
                 q == PlaceAt(k + 1)
                 m == Len(Piece(k))
                 l == Len(wire)
      <4>1. p \in Nat /\ m \in Nat /\ q = p + m /\ q <= l /\ l \in Nat
            /\ \A j \in 1 .. m : wire[p + j] = Piece(k)[j]
        BY <1>3, <3>2, EncodedShape DEF Encoded, Piece
      <4>2. \A i \in 1 .. l : wire'[i] = wire[i]
        BY <1>6
      <4> HIDE DEF p, q, m, l
      <4>3. \A j \in 1 .. m : p + j \in 1 .. l
        BY <4>1
      <4>4. \A j \in 1 .. m : wire'[p + j] = Piece(k)[j]
        BY <4>1, <4>2, <4>3
      <4> QED BY <4>4 DEF p, m
    <3>5. PlaceAt(k + 1) <= Len(wire')
      <4>1. PlaceAt(k + 1) = PlaceAt(k) + Len(Piece(k)) /\ Len(Piece(k)) \in Nat
        BY <3>2, EncodedShape DEF Encoded, Piece
      <4>2. PlaceAt(k + 1) \in Nat /\ PlaceAt(k + 1) <= Len(wire)
        BY <3>2, <4>1 DEF Encoded
      <4> HIDE DEF PlaceAt
      <4> QED BY <1>3, <1>5, <1>6, <4>2
    <3> QED BY <2>1, <3>1, <3>2, <3>3, <3>4, <3>5 DEF Encoded
  <2>5. Encoded(n + 1)'
    <3>1. n + 1 \in 1 .. n + 1 /\ (n + 1) + 1 = n + 2
      BY <1>3
    <3>2. /\ TodoAt(n + 1)' = todo /\ FieldAt(n + 1)' = f /\ PlaceAt(n + 1)' = Len(wire)
          /\ TodoAt((n + 1) + 1)' = Rest(todo, v) /\ PlaceAt((n + 1) + 1)' = Len(wire')
      BY <1>1, <2>1, <2>2, <3>1 DEF f, FieldAt, TodoAt
    <3>3. Piece(n + 1)' = e
      BY <1>9, <3>2 DEF Piece, e
    <3>4. Len(wire') <= Len(wire')
      BY <1>6
    <3>5. /\ TodoAt(n + 1)' # << >> /\ IsValue(FieldAt(n + 1)', message'[n + 1])
          /\ TodoAt((n + 1) + 1)' = Rest(TodoAt(n + 1)', message'[n + 1])
      BY <1>4, <1>9, <3>2
    <3>6. /\ PlaceAt((n + 1) + 1)' = PlaceAt(n + 1)' + Len(Piece(n + 1)')
          /\ PlaceAt((n + 1) + 1)' <= Len(wire')
          /\ \A j \in 1 .. Len(Piece(n + 1)') : wire'[PlaceAt(n + 1)' + j] = Piece(n + 1)'[j]
      <4> HIDE DEF PlaceAt, Piece, TodoAt, FieldAt
      <4> QED BY <1>6, <3>2, <3>3, <3>4
    <3> QED BY <3>5, <3>6 DEF Encoded
  <2>6. \A k \in 1 .. n + 1 : Encoded(k)'
    <3>1. \A k \in 1 .. n + 1 : k \in 1 .. n \/ k = n + 1
      BY <1>3
    <3> QED BY <2>4, <2>5, <3>1
  <2>7. Len(script') = n + 2 /\ Len(message') = n + 1
    BY <1>8, <1>9
  <2> QED BY <1>1, <2>1, <2>3, <2>6, <2>7 DEF Scripted, TodoAt, PlaceAt
<1>12. Delivered' /\ Parsing' /\ Reaching' /\ Leaving' /\ Copying' /\ Ended'
  BY <1>1 DEF Delivered, Parsing, Reaching, Leaving, Copying, Ended
<1> QED BY <1>10, <1>11, <1>12 DEF CodecInv


LEMMA ScriptStays ==
  ASSUME Scripted, UNCHANGED <<type, message, wire, script>>, phase' # "encode",
         phase = "encode" => todo = << >>
  PROVE  Scripted'
<1>1. \A k : TodoAt(k)' = TodoAt(k) /\ PlaceAt(k)' = PlaceAt(k) /\ FieldAt(k)' = FieldAt(k)
             /\ Piece(k)' = Piece(k)
  BY DEF TodoAt, PlaceAt, FieldAt, Piece
<1>2. \A k : Encoded(k) => Encoded(k)'
  BY <1>1 DEF Encoded
<1> QED BY <1>1, <1>2 DEF Scripted, TodoAt, PlaceAt

LEMMA StartIsWhole ==
  ASSUME Typed, NEW s \in Seq(Byte), IsStart(s), Len(s) >= Len(wire)
  PROVE  s = wire
<1>1. wire \in Seq(Byte) /\ Len(wire) \in Nat /\ Len(s) \in Nat
  BY LenProperties DEF Typed
<1>2. Len(s) = Len(wire) /\ \A i \in 1 .. Len(s) : s[i] = wire[i]
  BY <1>1 DEF IsStart
<1> QED BY <1>1, <1>2, SeqEqual

(* The script ends where no field is to come.                              *)
LEMMA ScriptEnd ==
  ASSUME Typed, Scripted, phase # "encode", NEW k \in 1 .. Len(message) + 1
  PROVE  /\ TodoAt(k) # << >> => k \in 1 .. Len(message) /\ Encoded(k)
         /\ TodoAt(k) = << >> => k = Len(message) + 1 /\ PlaceAt(k) = Len(wire)
<1>1. Len(message) \in Nat /\ Len(script) = Len(message) + 1
  BY LenProperties DEF Typed
<1>2. k \in 1 .. Len(message) \/ k = Len(message) + 1
  BY <1>1
<1>3. k = Len(message) + 1 => TodoAt(k) = << >> /\ PlaceAt(k) = Len(wire)
  BY <1>1 DEF Scripted
<1>4. k \in 1 .. Len(message) => Encoded(k) /\ TodoAt(k) # << >>
  BY DEF Scripted, Encoded
<1> QED BY <1>2, <1>3, <1>4

LEMMA StepShape ==
  ASSUME Typed, NEW k \in 1 .. Len(message) + 1
  PROVE  TodoAt(k) \in Seq(Field) /\ PlaceAt(k) \in Nat
<1>1. k \in 1 .. Len(script) /\ script \in Seq([todo : Seq(Field), pos : Nat])
  BY DEF Typed
<1>2. script[k] \in [todo : Seq(Field), pos : Nat]
  BY <1>1, ElementOfSeq
<1> QED BY <1>2 DEF TodoAt, PlaceAt

LEMMA TransmitInv ==
  ASSUME CodecInv, NEW cmd \in Chars, phase = "encode", todo = << >>,
         payload' \in Seq(Byte), IsStart(payload'), Transmit(Framed(cmd, payload')),
         UNCHANGED <<type, todo, message, wire, script, parser, object, source>>
  PROVE  CodecInv'
<1>1. Typed /\ Scripted
  BY DEF CodecInv
<1>2. phase' \in {"sent", "dropped"}
  BY DEF Transmit
<1>3. Framed(cmd, payload') \in Seq(Byte)
  BY FramedShape
<1>4. Typed'
  BY <1>1, <1>2, <1>3 DEF Typed, Transmit
<1>5. Scripted'
  BY <1>1, <1>2, ScriptStays
<1>6. Delivered'
  <2>1. phase' = "sent" => Len(data') <= MaxDatagram /\ data' = Framed(cmd, payload')
    BY DEF Transmit
  <2>2. IsStart(payload)'
    BY DEF IsStart
  <2> QED BY <1>2, <2>1, <2>2 DEF Delivered
<1>7. Parsing' /\ Reaching' /\ Leaving' /\ Copying' /\ Ended'
  BY <1>2 DEF Parsing, Reaching, Leaving, Copying, Ended
<1> QED BY <1>4, <1>5, <1>6, <1>7 DEF CodecInv

LEMMA SendInv ==
  ASSUME CodecInv, NEW cmd \in Chars, Send(cmd)
  PROVE  CodecInv'
<1>1. wire \in Seq(Byte) /\ Len(wire) \in Nat
  BY LenProperties DEF CodecInv, Typed
<1>2. payload' \in Seq(Byte) /\ IsStart(payload')
  BY <1>1 DEF Send, IsStart
<1>3. Transmit(Framed(cmd, payload'))
  BY DEF Send
<1> QED BY <1>2, <1>3, TransmitInv DEF Send

LEMMA SendShortInv ==
  ASSUME CodecInv, NEW cmd \in Chars, NEW n \in 0 .. Len(wire) - 1, SendShort(cmd, n)
  PROVE  CodecInv'
<1>1. wire \in Seq(Byte) /\ Len(wire) \in Nat
  BY LenProperties DEF CodecInv, Typed
<1>2. payload' \in Seq(Byte) /\ IsStart(payload')
  <2> DEFINE b == SubSeq(wire, 1, n)
  <2>1. \A i \in 1 .. n : i \in 1 .. Len(wire)
    BY <1>1
  <2>2. \A i \in 1 .. n : wire[i] \in Byte
    BY <1>1, <2>1, ElementOfSeq
  <2>3. 1 \in Int /\ n \in Int
    BY <1>1
  <2>4. /\ b \in Seq(Byte) /\ Len(b) = IF 1 <= n THEN n - 1 + 1 ELSE 0
        /\ \A i \in 1 .. n - 1 + 1 : b[i] = wire[1 + i - 1]
    BY <1>1, <2>2, <2>3, SubSeqProperties
  <2>5. payload' = b
    BY DEF SendShort
  <2> HIDE DEF b
  <2>6. Len(b) = n /\ n <= Len(wire) /\ \A i \in 1 .. n : i \in 1 .. n - 1 + 1 /\ 1 + i - 1 = i
    BY <1>1, <2>4
  <2> QED BY <2>4, <2>5, <2>6 DEF IsStart
<1>3. Transmit(Framed(cmd, payload'))
  BY DEF SendShort
<1> QED BY <1>2, <1>3, TransmitInv DEF SendShort

LEMMA ReceivePacketInv ==
  ASSUME CodecInv, ReceivePacket
  PROVE  CodecInv'
<1>1. /\ phase = "sent" /\ phase' \in {"received", "dropped"}
      /\ phase' = "received" => Unframed(data).status = "ok" /\ data' = Unframed(data).value
      /\ phase' = "dropped" => data' = data
      /\ UNCHANGED <<type, todo, message, wire, script, payload, parser, object, source>>
  BY DEF ReceivePacket
<1>2. Typed /\ Scripted /\ Delivered
  BY DEF CodecInv
<1>3. data \in Seq(Byte) /\ payload \in Seq(Byte) /\ Len(data) \in Nat /\ Len(payload) \in Nat
  BY <1>2, LenProperties DEF Typed
<1>4. PICK cmd \in Chars : data = Framed(cmd, payload) /\ Len(data) <= MaxDatagram
  BY <1>1, <1>2 DEF Delivered
<1>5. Len(payload) < B4
  <2>1. Len(data) = 5 + Len(payload)
    BY <1>3, <1>4, FramedShape
  <2> QED BY <1>3, <1>4, <2>1, ValueAssumption, Widths
<1>6. phase' = "received" => data' = payload
  BY <1>1, <1>3, <1>4, <1>5, UnframedFrame
<1>7. Typed'
  BY <1>1, <1>2, <1>3, <1>6 DEF Typed
<1>8. Scripted'
  BY <1>1, <1>2, ScriptStays
<1>9. Delivered'
  <2>1. IsStart(payload)'
    BY <1>1, <1>2 DEF Delivered, IsStart
  <2> QED BY <1>1, <1>6, <2>1 DEF Delivered
<1>10. Parsing' /\ Reaching' /\ Leaving' /\ Copying' /\ Ended'
  BY <1>1 DEF Parsing, Reaching, Leaving, Copying, Ended
<1> QED BY <1>7, <1>8, <1>9, <1>10 DEF CodecInv

LEMMA ParseBeginInv ==
  ASSUME CodecInv, phase # "encode", data = payload, ParseBegin,
         UNCHANGED <<type, message, wire, script, payload, data, source>>
  PROVE  CodecInv'
<1>1. Typed /\ Scripted /\ Delivered
  BY DEF CodecInv
<1>2. /\ phase' = "parse" /\ todo' = structs[type] /\ object' = << >>
      /\ parser' = Parsed(0, Len(data), << >>)
  BY DEF ParseBegin, Begin
<1>3. structs[type] \in Seq(Field) /\ OneInt(structs[type])
  BY <1>1, StructsAreFields DEF Typed
<1>4. Len(data) \in Nat /\ Len(message) \in Nat /\ Len(object') = 0
  BY <1>1, <1>2, LenProperties DEF Typed
<1>5. Typed'
  BY <1>1, <1>2, <1>3, EmptySeq DEF Typed
<1>6. Scripted'
  BY <1>1, <1>2, ScriptStays
<1>7. Delivered'
  BY <1>1, <1>2 DEF Delivered, IsStart
<1>8. Parsing'
  <2>1. TodoAt(1)' = structs[type] /\ PlaceAt(1)' = 0
    BY <1>1 DEF Scripted, TodoAt, PlaceAt
  <2>2. Faithful'
    BY <1>4 DEF Faithful
  <2>3. Len(object') + 1 = 1
    BY <1>4
  <2>4. /\ todo' = TodoAt(1)' /\ parser'.pos = PlaceAt(1)'
        /\ parser'.len = Len(data') - PlaceAt(1)'
    BY <1>2, <1>4, <2>1, ParsedParts
  <2>5. /\ todo' = structs[type'] /\ parser'.len >= Len(data') - PlaceAt(1)'
    BY <1>2, <1>4, <2>1, <2>4
  <2> QED BY <2>2, <2>3, <2>4, <2>5 DEF Parsing, TodoAt, PlaceAt
<1>9. parser'.pos = 0 /\ parser'.len = Len(data') /\ Len(data') \in Nat
      /\ parser' = Parsed(parser'.pos, parser'.len, parser'.value)
  BY <1>2, <1>4, ParsedParts
<1>10. Reaching'
  <2>1. parser'.pos + parser'.len <= Len(data') + 4 /\ parser'.pos + parser'.len <= Len(data')
        /\ parser'.pos \in Nat /\ parser'.len \in Nat
    BY <1>9
  <2>2. OneInt(todo')
    BY <1>2, <1>3
  <2> QED BY <1>9, <2>1, <2>2 DEF Reaching, OneInt
<1>11. Leaving'
  <2>1. ~(parser'.pos > Len(data'))
    BY <1>9
  <2> QED BY <2>1 DEF Leaving, Overrun
<1>12. Copying' /\ Ended'
  BY <1>2 DEF Copying, Ended
<1> QED BY <1>5, <1>6, <1>7, <1>8, <1>10, <1>11, <1>12 DEF CodecInv

LEMMA UnpackInv ==
  ASSUME CodecInv, Unpack
  PROVE  CodecInv'
<1>1. phase = "received" /\ data = payload
  BY DEF Unpack, CodecInv, Delivered
<1> QED BY <1>1, ParseBeginInv DEF Unpack

LEMMA ParseCopyInv ==
  ASSUME CodecInv, ParseCopy
  PROVE  CodecInv'
<1>1. Typed /\ Scripted /\ phase = "copy" /\ todo = << >> /\ payload = wire
  BY DEF ParseCopy, CodecInv, Copying, Short
<1> DEFINE k == Len(message) - Len(source) + 1
<1>2. /\ Len(source) <= Len(message) /\ todo = TodoAt(k) /\ IsStart(data)
      /\ Len(data) = PlaceAt(k)
  BY <1>1 DEF CodecInv, Copying
<1>3. k \in 1 .. Len(message) + 1
  BY <1>1, <1>2, LenProperties DEF Typed
<1>4. Len(data) = Len(wire)
  <2> HIDE DEF k
  <2> QED BY <1>1, <1>2, <1>3, ScriptEnd
<1>5. data = wire
  BY <1>1, <1>2, <1>4, StartIsWhole, LenProperties DEF Typed
<1> QED BY <1>1, <1>5, ParseBeginInv DEF ParseCopy


(* The data, and the memory behind.                                        *)
LEMMA Memory ==
  ASSUME CodecInv, NEW behind \in Beyond
  PROVE  /\ data \o behind \in Seq(Byte) /\ Len(data) \in Nat
         /\ Len(data \o behind) >= Len(data) + 4
         /\ \A i \in 1 .. Len(data) : (data \o behind)[i] = data[i]
<1>1. data \in Seq(Byte) /\ behind \in Seq(Byte) /\ Len(behind) >= 4
  BY BeyondAssumption DEF CodecInv, Typed
<1> DEFINE l == Len(data)
           m == Len(behind)
           s == data \o behind
<1>2. l \in Nat /\ m \in Nat /\ m >= 4
  BY <1>1, LenProperties
<1>3. /\ s \in Seq(Byte) /\ Len(s) = l + m
      /\ \A i \in 1 .. l + m : s[i] = IF i <= l THEN data[i] ELSE behind[i - l]
  BY <1>1, ConcatProperties
<1> HIDE DEF s, l, m
<1>4. \A i \in 1 .. l : s[i] = data[i]
  <2>1. \A i \in 1 .. l : i \in 1 .. l + m /\ i <= l
    BY <1>2
  <2> QED BY <1>3, <2>1
<1>5. Len(s) >= l + 4
  BY <1>2, <1>3
<1> QED BY <1>2, <1>3, <1>4, <1>5 DEF s, l

(* What a turn of parse() finds, wherever it is.                           *)
LEMMA ParseGoesOn ==
  ASSUME CodecInv, NEW old, NEW behind \in Beyond, phase = "parse", todo # << >>
  PROVE  LET q == ParseField(Head(todo), old, data \o behind, parser)
         IN /\ Head(todo) \in Field
            /\ q = Failed \/ Advanced(q, Head(todo), parser.pos, parser.len)
<1> DEFINE s == data \o behind
           pos == parser.pos
           left == parser.len
           f == Head(todo)
<1>1. f \in Field
  BY HeadTailProperties DEF CodecInv, Typed
<1>2. /\ parser = Parsed(pos, left, parser.value) /\ pos \in Nat /\ left \in Nat
      /\ pos + left <= Len(data) + 4
  BY DEF CodecInv, Reaching
<1>3. s \in Seq(Byte) /\ Len(data) \in Nat /\ Len(s) >= Len(data) + 4 /\ Len(s) \in Nat
  <2>1. s \in Seq(Byte) /\ Len(data) \in Nat /\ Len(s) >= Len(data) + 4
    BY Memory
  <2> QED BY <2>1, LenProperties
<1> DEFINE x == parser.value
           q == ParseField(f, old, s, Parsed(pos, left, x))
<1> HIDE DEF s, pos, left, f, x, q
<1>4. pos + left <= Len(s)
  BY <1>2, <1>3
<1>5. q = Failed \/ Advanced(q, f, pos, left)
  BY <1>1, <1>2, <1>3, <1>4, FieldAny DEF q
<1> QED BY <1>1, <1>2, <1>5 DEF s, pos, left, f, x, q

(* What it finds in the data: the next value, or too few bytes.            *)
LEMMA ParseFinds ==
  ASSUME CodecInv, NEW old, NEW behind \in Beyond, phase = "parse", todo # << >>, ~Overrun,
         NEW k \in Nat, k = Len(object) + 1
  PROVE  LET q == ParseField(Head(todo), old, data \o behind, parser)
             size == Len(Piece(k))
         IN /\ k \in 1 .. Len(message) /\ Encoded(k) /\ todo = TodoAt(k)
            /\ FieldAt(k) \in Field /\ PlaceAt(k) \in Nat
            /\ PlaceAt(k) + size <= Len(data) =>
                 Taken(q, FieldAt(k), message[k], Len(data), PlaceAt(k), parser.len, size)
            /\ PlaceAt(k) + size > Len(data) => Spent(q, Len(data))
<1>1. Typed /\ Scripted /\ Delivered /\ Parsing /\ Reaching
  BY DEF CodecInv
<1>2. /\ Faithful /\ todo = TodoAt(k) /\ PlaceAt(k) = parser.pos /\ parser.len \in Nat
      /\ parser = Parsed(PlaceAt(k), parser.len, parser.value)
      /\ parser.len >= Len(data) - PlaceAt(k) /\ PlaceAt(k) + parser.len <= Len(data) + 4
  BY <1>1 DEF Parsing, Reaching
<1>3. k \in 1 .. Len(message) + 1
  BY <1>1, <1>2, LenProperties DEF Faithful, Typed
<1>4. k \in 1 .. Len(message) /\ Encoded(k)
  BY <1>1, <1>2, <1>3, ScriptEnd
<1>5. TodoAt(k) \in Seq(Field) /\ PlaceAt(k) \in Nat
  BY <1>1, <1>3, StepShape
<1>6. Head(todo) = FieldAt(k) /\ FieldAt(k) \in Field
  BY <1>2, <1>4, <1>5, HeadTailProperties DEF FieldAt, TodoAt, Encoded
<1> DEFINE f == FieldAt(k)
           v == message[k]
           pos == PlaceAt(k)
           size == Len(Piece(k))
           left == parser.len
           l == Len(data)
           w == Len(wire)
           s == data \o behind
<1>7. IsValue(f, v) /\ Piece(k) = EncodeField(f, v) /\ size \in Nat
      /\ pos + size <= Len(wire)
  BY <1>4, <1>6, EncodedShape DEF Encoded, Piece
<1>8. data \in Seq(Byte) /\ l \in Nat /\ l <= w /\ \A i \in 1 .. l : data[i] = wire[i]
  <2>1. data = payload /\ IsStart(payload)
    BY <1>1 DEF Delivered
  <2> QED BY <1>1, <2>1, LenProperties DEF Typed, IsStart
<1>9. s \in Seq(Byte) /\ Len(s) \in Nat /\ Len(s) >= l + 4 /\ \A i \in 1 .. l : s[i] = wire[i]
  <2>1. s \in Seq(Byte) /\ Len(s) >= l + 4 /\ \A i \in 1 .. l : s[i] = data[i]
    BY Memory
  <2> HIDE DEF s, l
  <2> QED BY <1>8, <2>1, LenProperties
<1> HIDE DEF s
<1>10. \A j \in 1 .. size : pos + j <= l => s[pos + j] = EncodeField(f, v)[j]
  <2>1. \A j \in 1 .. size : wire[pos + j] = Piece(k)[j]
    BY <1>4 DEF Encoded
  <2>2. pos \in Nat
    BY <1>5
  <2> HIDE DEF pos, size, l
  <2>3. \A j \in 1 .. size : pos + j <= l => pos + j \in 1 .. l
    BY <1>7, <1>8, <2>2
  <2> QED BY <1>7, <1>9, <2>1, <2>3
<1>11. /\ pos \in Nat /\ left \in Nat /\ left >= l - pos /\ pos + left <= l + 4
       /\ parser = Parsed(pos, left, parser.value) /\ size = Len(EncodeField(f, v))
  BY <1>2, <1>5, <1>7
<1> DEFINE x == parser.value
           q == ParseField(f, old, s, Parsed(pos, left, x))
           e == EncodeField(f, v)
<1>12. /\ f \in Field /\ IsValue(f, v) /\ size = Len(e)
       /\ parser = Parsed(pos, left, x) /\ Head(todo) = f
  BY <1>6, <1>7, <1>11
<1> HIDE DEF f, v, pos, size, left, x, q, l
<1>13. /\ pos + Len(e) <= l => Taken(q, f, v, l, pos, left, Len(e))
       /\ pos + Len(e) > l => Spent(q, l)
  <2>1. \A j \in 1 .. Len(e) : pos + j <= l => s[pos + j] = e[j]
    BY <1>10, <1>12
  <2>2. pos + left <= Len(s) /\ pos + left >= l
    BY <1>8, <1>9, <1>11
  <2> QED BY <1>8, <1>9, <1>11, <1>12, <2>1, <2>2, ParsedField DEF q
<1>14. q = ParseField(Head(todo), old, s, parser)
  BY <1>12 DEF q
<1> HIDE DEF e
<1>15. /\ pos + size <= l => Taken(q, f, v, l, pos, left, size)
       /\ pos + size > l => Spent(q, l)
  BY <1>12, <1>13
<1> QED BY <1>2, <1>4, <1>5, <1>6, <1>14, <1>15 DEF f, v, pos, size, left, l, s

(* The data end in the k-th value, so that the message is short.           *)
LEMMA EndsShort ==
  ASSUME CodecInv, phase = "parse", NEW k \in 1 .. Len(message), Encoded(k),
         PlaceAt(k) + Len(Piece(k)) > Len(data)
  PROVE  Short
<1>1. Typed /\ Delivered
  BY DEF CodecInv
<1>2. data = payload /\ IsStart(payload)
  BY <1>1 DEF Delivered
<1>3. Len(wire) \in Nat /\ Len(payload) \in Nat
  BY <1>1, LenProperties DEF Typed
<1>4. PlaceAt(k + 1) <= Len(wire) /\ PlaceAt(k + 1) = PlaceAt(k) + Len(Piece(k))
  BY DEF Encoded
<1>5. PlaceAt(k) + Len(Piece(k)) <= Len(wire)
  BY <1>4
<1>6. payload # wire
  <2>1. /\ PlaceAt(k) + Len(Piece(k)) > Len(payload)
        /\ PlaceAt(k) + Len(Piece(k)) <= Len(wire)
    BY <1>2, <1>5
  <2>2. PlaceAt(k) + Len(Piece(k)) \in Nat
    <3>1. script[k] \in [todo : Seq(Field), pos : Nat]
          /\ script[k + 1] \in [todo : Seq(Field), pos : Nat]
      <4>1. Len(message) \in Nat /\ Len(script) = Len(message) + 1
        BY <1>1, LenProperties DEF Typed
      <4>2. k \in 1 .. Len(script) /\ k + 1 \in 1 .. Len(script)
        BY <4>1
      <4> QED BY <1>1, <4>2, ElementOfSeq DEF Typed
    <3> QED BY <1>4, <3>1 DEF PlaceAt
  <2> HIDE DEF PlaceAt, Piece
  <2> QED BY <1>3, <2>1, <2>2
<1> QED BY <1>6 DEF Short

LEMMA ParseInv ==
  ASSUME CodecInv, NEW old, NEW behind \in Beyond, Parse(old, behind)
  PROVE  CodecInv'
<1>1. PICK k \in Nat : k = Len(object) + 1
  BY LenProperties DEF CodecInv, Typed
<1> DEFINE q == ParseField(Head(todo), old, data \o behind, parser)
           g == Head(todo)
           f == FieldAt(k)
           v == message[k]
           size == Len(Piece(k))
           l == Len(data)
           here == parser.pos
           left == parser.len
<1>2. /\ phase = "parse" /\ todo # << >> /\ parser' = q
      /\ UNCHANGED <<type, message, wire, script, payload, data, source>>
  BY DEF Parse
<1>3. g \in Field /\ (q = Failed \/ Advanced(q, g, here, left))
  BY <1>2, ParseGoesOn
<1>4. ASSUME ~Overrun
      PROVE  /\ k \in 1 .. Len(message) /\ Encoded(k) /\ todo = TodoAt(k)
             /\ f \in Field /\ PlaceAt(k) \in Nat
             /\ PlaceAt(k) + size <= l => Taken(q, f, v, l, PlaceAt(k), left, size)
             /\ PlaceAt(k) + size > l => Spent(q, l)
  BY <1>1, <1>2, <1>4, ParseFinds
<1>5. Typed /\ Scripted /\ Delivered /\ Parsing /\ Reaching /\ Leaving
  BY DEF CodecInv
<1>6. ASSUME ~Overrun
      PROVE  /\ size \in Nat /\ PlaceAt(k + 1) = PlaceAt(k) + size /\ here = PlaceAt(k)
             /\ IsValue(f, v) /\ g = f /\ TodoAt(k + 1) = Rest(todo, v)
  <2>1. here = PlaceAt(k)
    BY <1>1, <1>2, <1>5, <1>6 DEF Parsing
  <2>2. IsValue(f, v) /\ PlaceAt(k + 1) = PlaceAt(k) + size /\ TodoAt(k + 1) = Rest(todo, v)
    BY <1>4, <1>6 DEF Encoded
  <2>3. g = f
    BY <1>4, <1>6 DEF FieldAt, TodoAt
  <2>4. size \in Nat
    BY <1>4, <1>6, <2>2, EncodedShape DEF Piece
  <2> QED BY <2>1, <2>2, <2>3, <2>4
<1>7. /\ l \in Nat /\ here \in Nat /\ left \in Nat /\ here + left <= l + 4
      /\ OneInt(todo) /\ (NoInt(todo) \/ here + left <= l)
  BY <1>2, <1>5, LenProperties DEF Reaching, Typed
<1>8. ASSUME ~Overrun, PlaceAt(k) + size > l PROVE Short
  BY <1>2, <1>4, <1>8, EndsShort
<1> HIDE DEF q, f, g, v, size, l, here, left
<1>9. CASE q = Failed
  <2>1. phase' = "null" /\ UNCHANGED <<object, todo>>
    BY <1>2, <1>9, FailedParts DEF Parse
  <2>2. Short
    <3>1. CASE Overrun
      BY <1>2, <1>5, <3>1 DEF Leaving
    <3>2. CASE ~Overrun
      <4>1. ASSUME PlaceAt(k) + size <= l PROVE FALSE
        BY <1>4, <1>9, <3>2, <4>1, ParsedParts, FailedParts DEF Taken
      <4>2. PlaceAt(k) + size > l
        BY <1>4, <1>6, <1>7, <3>2, <4>1
      <4> QED BY <1>8, <3>2, <4>2
    <3> QED BY <3>1, <3>2
  <2>3. Typed'
    BY <1>2, <1>5, <2>1 DEF Typed
  <2>4. Scripted'
    BY <1>2, <1>5, <2>1, ScriptStays
  <2>5. Delivered'
    BY <1>2, <1>5, <2>1 DEF Delivered, IsStart
  <2>6. Ended'
    BY <1>2, <2>2 DEF Ended, Short
  <2>7. Parsing' /\ Reaching' /\ Leaving' /\ Copying'
    BY <2>1 DEF Parsing, Reaching, Leaving, Copying
  <2> QED BY <2>3, <2>4, <2>5, <2>6, <2>7 DEF CodecInv
<1>10. CASE Advanced(q, g, here, left)
  <2>1. PICK p \in Nat, m \in Nat, x \in Value :
           /\ q = Parsed(p, m, x) /\ here < p /\ p <= here + left
           /\ p + m = here + left + (IF g = int THEN 4 ELSE 0)
           /\ g.kind = "array" => x \in Nat
    BY <1>10 DEF Advanced
  <2>2. q.status = "ok" /\ q.pos = p /\ q.len = m /\ q.value = x
    BY <2>1, ParsedParts
  <2>3. /\ phase' = "parse" /\ object' = Append(object, x) /\ todo' = Rest(todo, x)
        /\ parser' = Parsed(p, m, x) /\ parser'.pos = p /\ parser'.len = m
    BY <1>2, <2>1, <2>2 DEF Parse
  <2>4. todo \in Seq(Field) /\ object \in Seq(Value)
    BY <1>5 DEF Typed
  <2>5. /\ todo' \in Seq(Field)
        /\ IntIsLast(todo) => IntIsLast(todo') /\ (g = int => todo' = << >>)
        /\ OneInt(todo) => OneInt(todo') /\ (g = int => NoInt(todo'))
        /\ NoInt(todo) => NoInt(todo') /\ g # int
    BY <1>2, <2>1, <2>3, <2>4, RestFields DEF g
  <2>6. /\ object' \in Seq(Value) /\ Len(object') = k /\ object'[k] = x
        /\ \A j \in 1 .. k - 1 : object'[j] = object[j]
    <3>1. /\ object' \in Seq(Value) /\ Len(object') = Len(object) + 1
          /\ \A j \in 1 .. Len(object) : object'[j] = object[j]
          /\ object'[Len(object) + 1] = x
      BY <2>1, <2>3, <2>4, AppendProperties
    <3>2. Len(object) = k - 1 /\ Len(object) + 1 = k
      BY <1>1, <2>4, LenProperties
    <3> QED BY <3>1, <3>2
  <2>7. Typed'
    BY <1>2, <1>5, <2>3, <2>5, <2>6 DEF Typed
  <2>8. Scripted'
    BY <1>2, <1>5, <2>3, ScriptStays
  <2>9. Delivered'
    BY <1>2, <1>5, <2>3 DEF Delivered, IsStart
  <2>10. Reaching'
    <3>1. parser' = Parsed(parser'.pos, parser'.len, parser'.value)
      BY <2>3, ParsedParts
    <3>2. OneInt(todo')
      BY <1>7, <2>5
    <3>3. /\ p + m <= l + 4 /\ (NoInt(todo') \/ p + m <= l)
      <4>1. CASE g = int
        <5>1. ~NoInt(todo) /\ NoInt(todo')
          BY <1>7, <2>5, <4>1
        <5>2. here + left <= l /\ p + m = here + left + 4
          BY <1>7, <2>1, <4>1, <5>1
        <5> QED BY <1>7, <2>1, <5>1, <5>2
      <4>2. CASE g # int
        <5>1. p + m = here + left
          BY <1>7, <2>1, <4>2
        <5> QED BY <1>7, <2>1, <2>5, <5>1
      <4> QED BY <4>1, <4>2
    <3>4. l' = l /\ parser'.pos \in Nat /\ parser'.len \in Nat
      BY <1>2, <2>1, <2>3 DEF l
    <3>5. parser'.pos + parser'.len <= Len(data') + 4
          /\ (NoInt(todo') \/ parser'.pos + parser'.len <= Len(data'))
      BY <1>2, <2>3, <3>3 DEF l
    <3> QED BY <3>1, <3>2, <3>4, <3>5 DEF Reaching, OneInt, NoInt
  <2>11. ASSUME ~Overrun, p > l PROVE PlaceAt(k) + size > l
    <3>1. ASSUME PlaceAt(k) + size <= l PROVE FALSE
      <4>1. Taken(q, f, v, l, PlaceAt(k), left, size)
        BY <1>4, <2>11, <3>1
      <4>2. q.pos = PlaceAt(k) + size
        BY <4>1, ParsedParts DEF Taken
      <4> QED BY <1>4, <1>6, <1>7, <2>1, <2>2, <2>11, <3>1, <4>2
    <3> QED BY <1>4, <1>6, <1>7, <2>11, <3>1
  <2>12. Leaving'
    <3>1. Short' <=> Short
      BY <1>2 DEF Short
    <3>2. ASSUME Overrun' PROVE Short /\ ~IntIsLast(structs[type])
      <4>1. p > l
        BY <1>2, <2>3, <3>2 DEF Overrun, l
      <4>2. CASE Overrun
        BY <1>2, <1>5, <4>2 DEF Leaving
      <4>3. CASE ~Overrun
        <5>1. Short
          BY <1>8, <2>11, <4>1, <4>3
        <5>2. ASSUME IntIsLast(structs[type]) PROVE FALSE
          <6>1. left = l - PlaceAt(k)
            BY <1>1, <1>2, <1>5, <4>3, <5>2 DEF Parsing, left, l
          <6> QED BY <1>4, <1>6, <1>7, <2>1, <4>1, <4>3, <6>1
        <5> QED BY <5>1, <5>2
      <4> QED BY <4>2, <4>3
    <3> QED BY <1>2, <3>1, <3>2 DEF Leaving
  <2>13. Parsing'
    <3> SUFFICES ASSUME ~Overrun' PROVE Parsing'
      BY DEF Parsing
    <3>1. p <= l /\ ~Overrun
      <4>1. p <= l
        BY <1>2, <1>7, <2>1, <2>3 DEF Overrun, l
      <4> QED BY <1>7, <2>1, <4>1 DEF Overrun, here, l
    <3>2. PlaceAt(k) + size <= l
      <4>1. ASSUME PlaceAt(k) + size > l PROVE FALSE
        BY <1>4, <1>7, <2>1, <2>2, <3>1, <4>1, FailedParts DEF Spent
      <4> QED BY <1>4, <1>6, <1>7, <3>1, <4>1
    <3>3. PICK n \in Nat : /\ q = Parsed(PlaceAt(k) + size, n, SignExtendedValue(f, v))
                           /\ n >= l - (PlaceAt(k) + size)
                           /\ f # int /\ left = l - PlaceAt(k) => n = l - (PlaceAt(k) + size)
      BY <1>4, <3>1, <3>2 DEF Taken
    <3>4. p = PlaceAt(k) + size /\ m = n /\ x = SignExtendedValue(f, v)
      BY <2>2, <3>3, ParsedParts
    <3>5. todo' = TodoAt(k + 1) /\ p = PlaceAt(k + 1)
      <4>1. Rest(todo, SignExtendedValue(f, v)) = Rest(todo, v)
        BY <1>4, <1>6, <3>1, SignMakesNoDifference DEF g
      <4> QED BY <1>6, <2>3, <3>1, <3>4, <4>1
    <3>6. Faithful'
      <4>1. \A j \in 1 .. k - 1 : object[j] = SignExtendedValue(FieldAt(j), message[j])
        <5>1. Len(object) = k - 1
          BY <1>1, <2>4, LenProperties
        <5> QED BY <1>1, <1>2, <1>5, <3>1, <5>1 DEF Parsing, Faithful
      <4>2. \A j \in 1 .. k : j \in 1 .. k - 1 \/ j = k
        OBVIOUS
      <4>3. \A j \in 1 .. k : object'[j] = SignExtendedValue(FieldAt(j), message[j])
        BY <2>6, <3>4, <4>1, <4>2 DEF f, v
      <4>4. Len(object') <= Len(message')
        BY <1>2, <1>4, <2>6, <3>1
      <4> QED BY <1>2, <2>6, <4>3, <4>4 DEF Faithful, FieldAt
    <3>7. /\ TodoAt(k + 1)' = TodoAt(k + 1) /\ PlaceAt(k + 1)' = PlaceAt(k + 1)
      BY <1>2 DEF TodoAt, PlaceAt
    <3>8. ASSUME IntIsLast(structs[type])
          PROVE  IntIsLast(todo') /\ (todo' # << >> => m = l - p)
      <4>1. IntIsLast(todo) /\ left = l - PlaceAt(k)
        BY <1>1, <1>2, <1>5, <3>1, <3>8 DEF Parsing, left, l
      <4>2. g = f
        BY <1>6, <3>1
      <4> QED BY <2>5, <3>3, <3>4, <4>1, <4>2
    <3>9. Len(object') + 1 = k + 1 /\ m >= l - p
      BY <2>6, <3>3, <3>4
    <3>10. parser'.pos = p /\ parser'.len = m /\ Len(data') = l /\ type' = type
      BY <1>2, <2>3 DEF l
    <3> HIDE DEF PlaceAt, TodoAt
    <3>11. /\ Faithful' /\ todo' = TodoAt(k + 1)'
           /\ parser'.pos = PlaceAt(k + 1)' /\ parser'.len >= Len(data') - PlaceAt(k + 1)'
           /\ IntIsLast(structs[type']) =>
                IntIsLast(todo') /\ (todo' # << >> => parser'.len = Len(data') - PlaceAt(k + 1)')
      BY <3>5, <3>6, <3>7, <3>8, <3>9, <3>10
    <3> QED BY <3>9, <3>11 DEF Parsing, PlaceAt, TodoAt
  <2>14. Copying' /\ Ended'
    BY <2>3 DEF Copying, Ended
  <2> QED BY <2>7, <2>8, <2>9, <2>10, <2>12, <2>13, <2>14 DEF CodecInv
<1> QED BY <1>3, <1>9, <1>10

LEMMA UnpackedInv ==
  ASSUME CodecInv, Unpacked
  PROVE  CodecInv'
<1>1. /\ phase = "parse" /\ todo = << >> /\ phase' = "unpacked"
      /\ UNCHANGED <<type, todo, message, wire, script, payload, data, parser, object, source>>
  BY DEF Unpacked
<1>2. Typed /\ Scripted /\ Delivered /\ Parsing /\ Reaching /\ Leaving
  BY DEF CodecInv
<1>3. ASSUME ~Overrun PROVE Faithful /\ Len(object) = Len(message) /\ ~Short
  <2>1. PICK k \in Nat : k = Len(object) + 1
    BY <1>2, LenProperties DEF Typed
  <2>2. Faithful /\ TodoAt(k) = << >> /\ PlaceAt(k) = parser.pos
    BY <1>1, <1>2, <1>3, <2>1 DEF Parsing
  <2>3. k \in 1 .. Len(message) + 1
    BY <1>2, <2>1, <2>2, LenProperties DEF Typed, Faithful
  <2>4. k = Len(message) + 1 /\ PlaceAt(k) = Len(wire)
    BY <1>1, <1>2, <2>2, <2>3, ScriptEnd
  <2>5. Len(data) >= Len(wire)
    <3>1. parser.pos \in Nat /\ Len(data) \in Nat
      BY <1>1, <1>2, LenProperties DEF Reaching, Typed
    <3> QED BY <1>3, <2>2, <2>4, <3>1 DEF Overrun
  <2>6. payload = wire
    BY <1>1, <1>2, <2>5, StartIsWhole DEF Delivered, Typed
  <2> QED BY <1>2, <2>1, <2>2, <2>4, <2>6, LenProperties DEF Typed, Short
<1>4. Typed'
  BY <1>1, <1>2 DEF Typed
<1>5. Scripted'
  BY <1>1, <1>2, ScriptStays
<1>6. Delivered'
  BY <1>1, <1>2 DEF Delivered, IsStart
<1>7. Reaching' /\ Leaving'
  BY <1>1, <1>2 DEF Reaching, Leaving, Overrun, Short, OneInt, NoInt
<1>8. Copying'
  BY <1>1, <1>3 DEF Copying, Faithful, FieldAt, Short, Overrun
<1>9. Parsing' /\ Ended'
  BY <1>1 DEF Parsing, Ended
<1> QED BY <1>4, <1>5, <1>6, <1>7, <1>8, <1>9 DEF CodecInv

LEMMA CopyBeginInv ==
  ASSUME CodecInv, NEW intoUsed, CopyBegin(intoUsed)
  PROVE  CodecInv'
<1>1. /\ phase = "unpacked" /\ ~Overrun /\ phase' = "copy" /\ todo' = structs[type] /\ source' = object
      /\ data' = << >> /\ UNCHANGED <<type, message, wire, script, payload, parser, object>>
  BY DEF CopyBegin
<1>2. Typed /\ Scripted /\ Delivered /\ Copying
  BY DEF CodecInv
<1>3. Faithful /\ Len(object) = Len(message) /\ ~Short
  BY <1>1, <1>2 DEF Copying
<1>4. structs[type] \in Seq(Field) /\ Len(message) \in Nat /\ Len(data') = 0
  BY <1>1, <1>2, StructsAreFields, LenProperties DEF Typed
<1>5. Typed'
  BY <1>1, <1>2, <1>4, EmptySeq DEF Typed
<1>6. Scripted'
  BY <1>1, <1>2, ScriptStays
<1>7. Delivered'
  BY <1>1, <1>2 DEF Delivered, IsStart
<1>8. Copying'
  <2>1. Faithful' /\ Len(object') = Len(message') /\ ~Short'
    BY <1>1, <1>3 DEF Faithful, FieldAt, Short
  <2>2. Len(source') <= Len(message') /\ Len(message') - Len(source') + 1 = 1
    BY <1>1, <1>3, <1>4
  <2>3. TodoAt(1)' = structs[type] /\ PlaceAt(1)' = 0
    BY <1>1, <1>2 DEF Scripted, TodoAt, PlaceAt
  <2>4. \A j \in 1 .. Len(source') : source'[j] = object'[1 - 1 + j]
    <3>1. \A j \in 1 .. Len(source') : 1 - 1 + j = j
      BY <1>3, <1>4
    <3> QED BY <1>1, <3>1
  <2>5. IsStart(data)'
    <3>1. Len(wire') \in Nat /\ 0 <= Len(wire')
      BY <1>5, LenProperties DEF Typed
    <3> QED BY <1>4, <3>1 DEF IsStart
  <2> QED BY <1>1, <1>4, <2>1, <2>2, <2>3, <2>4, <2>5 DEF Copying, TodoAt, PlaceAt
<1>9. Parsing' /\ Reaching' /\ Leaving' /\ Ended'
  BY <1>1 DEF Parsing, Reaching, Leaving, Ended
<1> QED BY <1>5, <1>6, <1>7, <1>8, <1>9 DEF CodecInv

LEMMA EncodeCopyInv ==
  ASSUME CodecInv, EncodeCopy
  PROVE  CodecInv'
<1>1. Typed /\ Scripted /\ Delivered /\ Copying
  BY DEF CodecInv
<1>2. /\ phase = "copy" /\ todo # << >> /\ phase' = phase
      /\ data' = data \o EncodeField(Head(todo), Head(source))
      /\ todo' = Rest(todo, Head(source)) /\ source' = Tail(source)
      /\ UNCHANGED <<type, message, wire, script, payload, parser, object>>
  BY DEF EncodeCopy
<1>3. /\ Len(message) \in Nat /\ Len(source) \in Nat /\ Len(source) <= Len(message)
      /\ Len(object) = Len(message) /\ Faithful /\ ~Short
  BY <1>1, <1>2, LenProperties DEF Typed, Copying
<1>4. PICK k \in Nat : k = Len(message) - Len(source) + 1
  BY <1>3
<1>5. /\ todo = TodoAt(k) /\ IsStart(data) /\ Len(data) = PlaceAt(k)
      /\ \A j \in 1 .. Len(source) : source[j] = object[k - 1 + j]
  BY <1>1, <1>2, <1>4 DEF Copying
<1>6. k \in 1 .. Len(message) /\ Encoded(k)
  <2>1. k \in 1 .. Len(message) + 1
    BY <1>3, <1>4
  <2> QED BY <1>1, <1>2, <1>5, <2>1, ScriptEnd
<1> DEFINE f == FieldAt(k)
           v == message[k]
           e == Piece(k)
           pos == PlaceAt(k)
<1>7. todo \in Seq(Field) /\ source \in Seq(Value) /\ data \in Seq(Byte) /\ wire \in Seq(Byte)
      /\ Len(data) \in Nat /\ Len(wire) \in Nat
  BY <1>1, LenProperties DEF Typed
<1>8. f \in Field /\ Head(todo) = f /\ IsValue(f, v) /\ pos \in Nat
  <2>1. Head(todo) = f
    BY <1>5 DEF FieldAt, TodoAt
  <2>2. f \in Field
    BY <1>2, <1>7, <2>1, HeadTailProperties
  <2> QED BY <1>5, <1>6, <1>7, <2>1, <2>2 DEF Encoded
<1>9. Len(source) > 0 /\ source # << >> /\ Head(source) = SignExtendedValue(f, v)
  <2>1. Len(source) > 0
    BY <1>3, <1>4, <1>6
  <2>2. source # << >>
    BY <1>7, <2>1, EmptySeq
  <2>3. Head(source) = source[1] /\ 1 \in 1 .. Len(source)
    BY <1>3, <1>7, <2>1, <2>2, HeadTailProperties
  <2>4. source[1] = object[k]
    <3>1. k - 1 + 1 = k
      OBVIOUS
    <3> QED BY <1>5, <2>3, <3>1
  <2>5. object[k] = SignExtendedValue(f, v)
    BY <1>3, <1>6 DEF Faithful
  <2> QED BY <2>1, <2>2, <2>3, <2>4, <2>5
<1>10. /\ data' = data \o e /\ todo' = Rest(todo, v)
  <2>1. EncodeField(f, SignExtendedValue(f, v)) = EncodeField(f, v)
        /\ Rest(todo, SignExtendedValue(f, v)) = Rest(todo, v)
    BY <1>8, SignMakesNoDifference
  <2> QED BY <1>2, <1>8, <1>9, <2>1 DEF Piece
<1>11. /\ e \in Seq(Byte) /\ Len(e) \in Nat /\ pos + Len(e) <= Len(wire)
       /\ PlaceAt(k + 1) = pos + Len(e) /\ TodoAt(k + 1) = Rest(todo, v)
       /\ \A j \in 1 .. Len(e) : wire[pos + j] = e[j]
  BY <1>5, <1>6, <1>8, EncodedShape DEF Encoded, Piece
<1> HIDE DEF f, v, e, pos
<1>12. /\ data' \in Seq(Byte) /\ Len(data') = pos + Len(e)
       /\ \A i \in 1 .. Len(data') : data'[i] = wire[i]
  <2> DEFINE d == data \o e
             m == Len(e)
  <2>1. /\ d \in Seq(Byte) /\ Len(d) = Len(data) + Len(e)
        /\ \A i \in 1 .. Len(data) + Len(e) :
             d[i] = IF i <= Len(data) THEN data[i] ELSE e[i - Len(data)]
    BY <1>7, <1>11, ConcatProperties
  <2>2. Len(data) = pos /\ m \in Nat
    BY <1>5, <1>11 DEF pos
  <2> HIDE DEF d, m
  <2>3. \A i \in 1 .. pos + m : d[i] = IF i <= pos THEN data[i] ELSE e[i - pos]
    BY <2>1, <2>2 DEF m
  <2>4. ASSUME NEW i \in 1 .. pos + m PROVE d[i] = wire[i]
    <3>1. CASE i <= pos
      <4>1. i \in 1 .. Len(data)
        BY <1>8, <2>2, <3>1
      <4> QED BY <1>5, <2>3, <3>1, <4>1 DEF IsStart
    <3>2. CASE ~(i <= pos)
      <4>1. i - pos \in 1 .. m /\ pos + (i - pos) = i
        BY <1>8, <2>2, <3>2
      <4> QED BY <1>11, <2>3, <3>2, <4>1 DEF m
    <3> QED BY <3>1, <3>2
  <2> QED BY <1>10, <2>1, <2>2, <2>4 DEF d, m
<1>13. todo' \in Seq(Field) /\ source' \in Seq(Value) /\ Len(source') = Len(source) - 1
       /\ \A j \in 1 .. Len(source') : source'[j] = source[j + 1]
  <2>1. Rest(todo, v) \in Seq(Field)
    BY <1>2, <1>7, <1>8, ArrayValue, RestFields
  <2>2. /\ Tail(source) \in Seq(Value) /\ Len(Tail(source)) = Len(source) - 1
        /\ \A j \in 1 .. Len(Tail(source)) : Tail(source)[j] = source[j + 1]
    BY <1>7, <1>9, HeadTailProperties
  <2> QED BY <1>2, <1>10, <2>1, <2>2
<1>14. Typed'
  BY <1>1, <1>2, <1>12, <1>13 DEF Typed
<1>15. Scripted'
  BY <1>1, <1>2, ScriptStays
<1>16. Delivered'
  BY <1>1, <1>2 DEF Delivered, IsStart
<1>17. Copying'
  <2>1. Faithful' /\ Len(object') = Len(message') /\ ~Short'
    BY <1>2, <1>3 DEF Faithful, FieldAt, Short
  <2>2. Len(source') <= Len(message') /\ Len(message') - Len(source') + 1 = k + 1
    BY <1>2, <1>3, <1>4, <1>9, <1>13
  <2>3. TodoAt(k + 1)' = TodoAt(k + 1) /\ PlaceAt(k + 1)' = PlaceAt(k + 1)
    BY <1>2 DEF TodoAt, PlaceAt
  <2>4. \A j \in 1 .. Len(source') : source'[j] = object'[(k + 1) - 1 + j]
    <3>1. \A j \in 1 .. Len(source') : j + 1 \in 1 .. Len(source)
                                       /\ k - 1 + (j + 1) = (k + 1) - 1 + j
      BY <1>3, <1>13
    <3> QED BY <1>2, <1>5, <1>13, <3>1
  <2>5. IsStart(data)'
    BY <1>2, <1>11, <1>12 DEF IsStart
  <2>6. todo' = TodoAt(k + 1)' /\ Len(data') = PlaceAt(k + 1)'
    BY <1>10, <1>11, <1>12, <2>3
  <2> HIDE DEF TodoAt, PlaceAt
  <2> QED BY <1>2, <2>1, <2>2, <2>4, <2>5, <2>6 DEF Copying, TodoAt, PlaceAt
<1>18. Parsing' /\ Reaching' /\ Leaving' /\ Ended'
  BY <1>2 DEF Parsing, Reaching, Leaving, Ended
<1> QED BY <1>14, <1>15, <1>16, <1>17, <1>18 DEF CodecInv

LEMMA StutterInv ==
  ASSUME CodecInv, UNCHANGED vars
  PROVE  CodecInv'
<1> USE DEF vars
<1>1. Typed'
  BY DEF CodecInv, Typed
<1>2. Scripted'
  <2>1. \A k : TodoAt(k)' = TodoAt(k) /\ PlaceAt(k)' = PlaceAt(k) /\ FieldAt(k)' = FieldAt(k)
               /\ Piece(k)' = Piece(k)
    BY DEF TodoAt, PlaceAt, FieldAt, Piece
  <2>2. \A k : Encoded(k) => Encoded(k)'
    BY <2>1 DEF Encoded
  <2> QED BY <2>1, <2>2 DEF CodecInv, Scripted, TodoAt, PlaceAt
<1>3. Delivered' /\ Ended'
  BY DEF CodecInv, Delivered, IsStart, Ended, Short
<1>4. Parsing' /\ Copying'
  BY DEF CodecInv, Parsing, Copying, Faithful, FieldAt, TodoAt, PlaceAt, IsStart, Short, Overrun
<1>5. Reaching' /\ Leaving'
  BY DEF CodecInv, Reaching, Leaving, OneInt, NoInt, Short, Overrun
<1> QED BY <1>1, <1>2, <1>3, <1>4, <1>5 DEF CodecInv

LEMMA NextInv == CodecInv /\ [Next]_vars => CodecInv'
<1> SUFFICES ASSUME CodecInv, [Next]_vars PROVE CodecInv'
  OBVIOUS
<1>1. ASSUME todo # << >>, NEW v \in Values(Head(todo)), Encode(v) PROVE CodecInv'
  BY <1>1, EncodeInv
<1>2. ASSUME NEW cmd \in Chars, Send(cmd) PROVE CodecInv'
  BY <1>2, SendInv
<1>3. ASSUME NEW cmd \in Chars, NEW n \in 0 .. Len(wire) - 1, SendShort(cmd, n)
      PROVE  CodecInv'
  BY <1>3, SendShortInv
<1>4. CASE ReceivePacket
  BY <1>4, ReceivePacketInv
<1>5. CASE Unpack
  BY <1>5, UnpackInv
<1>6. ASSUME NEW old, NEW behind \in Beyond, Parse(old, behind) PROVE CodecInv'
  BY <1>6, ParseInv
<1>7. CASE Unpacked
  BY <1>7, UnpackedInv
<1>8. CASE Keep \/ Peel
  BY <1>8, CopyBeginInv DEF Keep, Peel
<1>9. CASE EncodeCopy
  BY <1>9, EncodeCopyInv
<1>10. CASE ParseCopy
  BY <1>10, ParseCopyInv
<1>11. CASE UNCHANGED vars
  BY <1>11, StutterInv
<1> QED BY <1>1, <1>2, <1>3, <1>4, <1>5, <1>6, <1>7, <1>8, <1>9, <1>10, <1>11 DEF Next

THEOREM CodecInvariant == Spec => []CodecInv
BY InitInv, NextInv, PTL DEF Spec

-----------------------------------------------------------------------------
(* What follows.                                                           *)

(* A message that arrives is the message that was sent, through parse(),   *)
(* encode() and every copy the program makes of it, and none that arrives  *)
(* whole is refused or read past its end, whatever lies behind it.         *)
THEOREM ArrivesAsSentCorrect == Spec => []ArrivesAsSent
<1>1. CodecInv => ArrivesAsSent
  <2> SUFFICES ASSUME CodecInv PROVE ArrivesAsSent
    OBVIOUS
  <2>1. Typed /\ Scripted /\ Leaving /\ Copying /\ Ended
    BY DEF CodecInv
  <2>2. ASSUME phase = "unpacked", ~Short
        PROVE  object = [i \in 1 .. Len(message) |-> SignExtendedValue(FieldAt(i), message[i])]
    <3>0. ~Overrun
      BY <2>1, <2>2 DEF Leaving
    <3>1. Len(object) = Len(message) /\ object \in Seq(Value) /\ Len(message) \in Nat
      BY <2>1, <2>2, <3>0, LenProperties DEF Copying, Typed
    <3>2. \A i \in 1 .. Len(message) : object[i] = SignExtendedValue(FieldAt(i), message[i])
      BY <2>1, <2>2, <3>0, <3>1 DEF Copying, Faithful
    <3>3. object = [i \in 1 .. Len(message) |-> object[i]]
      BY <3>1, SeqDef
    <3> QED BY <3>2, <3>3
  <2>3. ASSUME phase = "copy", todo = << >> PROVE data = wire
    <3> DEFINE k == Len(message) - Len(source) + 1
    <3>1. /\ Len(source) <= Len(message) /\ TodoAt(k) = << >> /\ IsStart(data)
          /\ Len(data) = PlaceAt(k)
      BY <2>1, <2>3 DEF Copying
    <3>2. k \in 1 .. Len(message) + 1
      BY <2>1, <3>1, LenProperties DEF Typed
    <3> HIDE DEF k
    <3>3. Len(data) = Len(wire)
      BY <2>1, <2>3, <3>1, <3>2, ScriptEnd
    <3> QED BY <2>1, <3>1, <3>3, StartIsWhole, LenProperties DEF Typed
  <2>4. phase = "null" \/ (phase \in {"parse", "unpacked"} /\ Overrun) => Short
    BY <2>1 DEF Leaving, Ended
  <2> QED BY <2>2, <2>3, <2>4 DEF ArrivesAsSent
<1> QED BY <1>1, CodecInvariant, PTL

(* A message that ends early becomes an object only when parse() has gone  *)
(* past its end, and parse() goes there only for a type whose int is not   *)
(* its last field, whatever lies behind the data.                          *)
THEOREM ShortIsRefusedCorrect == Spec => []ShortIsRefused
<1>1. CodecInv => ShortIsRefused
  BY DEF CodecInv, Copying, Leaving, ShortIsRefused
<1> QED BY <1>1, CodecInvariant, PTL

(* parse() reads at most four bytes past the end of the data, whatever     *)
(* lengths and sizes it finds there.                                       *)
THEOREM OverrunIsBoundedCorrect == Spec => []OverrunIsBounded
<1>1. CodecInv => OverrunIsBounded
  <2> SUFFICES ASSUME CodecInv, phase \in {"parse", "unpacked"}
               PROVE  parser.pos <= Len(data) + 4
    BY DEF OverrunIsBounded
  <2>1. /\ parser.pos \in Nat /\ parser.len \in Nat /\ Len(data) \in Nat
        /\ parser.pos + parser.len <= Len(data) + 4
    BY LenProperties DEF CodecInv, Reaching, Typed
  <2> QED BY <2>1
<1> QED BY <1>1, CodecInvariant, PTL
=============================================================================
