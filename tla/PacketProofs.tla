---------------------------- MODULE PacketProofs ----------------------------
(***************************************************************************)
(* What the packet codec guarantees, whatever the size of a payload, of a  *)
(* window and of a byte.                                                   *)
(***************************************************************************)
EXTENDS PacketOps, Integers, SequenceTheorems, TLAPS

(***************************************************************************)
(* Arithmetic                                                              *)
(***************************************************************************)

\* A product that exceeds a factor's negation has no negative factor.
LEMMA NoNegative ==
  ASSUME NEW d \in Nat, NEW q \in Int, d * q + d > 0
  PROVE  q \in Nat
<1>1. SUFFICES ASSUME q + 1 <= 0 PROVE FALSE
  OBVIOUS
<1>2. d * (q + 1) <= 0
  BY <1>1
<1>3. d * (q + 1) = d * q + d
  OBVIOUS
<1> QED
  BY <1>2, <1>3

\* Division.
LEMMA Division ==
  ASSUME NEW a \in Int, NEW d \in Nat, d > 0
  PROVE  a \div d \in Int /\ a = d * (a \div d) + (a % d)
OBVIOUS

\* Quotient and remainder.
LEMMA DivMod ==
  ASSUME NEW n \in Nat, NEW d \in Nat, d > 0
  PROVE  /\ n \div d \in Nat /\ n % d \in 0 .. d - 1
         /\ n = d * (n \div d) + (n % d)
<1>1. n % d \in 0 .. d - 1
  OBVIOUS
<1>2. n \div d \in Int /\ n = d * (n \div d) + (n % d)
  BY Division
<1> DEFINE q == n \div d
           r == n % d
<1> HIDE DEF q, r
<1>3. d * q \in Int /\ d * q + d > 0
  BY <1>1, <1>2 DEF q, r
<1> QED
  BY <1>1, <1>2, <1>3, NoNegative DEF q, r

\* They are unique.
LEMMA DivModUnique ==
  ASSUME NEW d \in Nat, NEW q \in Nat, NEW r \in 0 .. d - 1
  PROVE  (d * q + r) % d = r /\ (d * q + r) \div d = q
<1>1. (d * q + r) % d = r
  OBVIOUS
<1>2. (d * q + r) \div d = q
  OBVIOUS
<1> QED
  BY <1>1, <1>2

\* What the window field can hold.
Windows == 0 .. MAX_WINDOW_SIZE

\* The first byte of a header with these fields.
FlagByte(type, tr, window) == window + (MAX_WINDOW_SIZE + 1) * (tr + 2 * type)

\* The flags share the first byte: what is put together is taken apart.
LEMMA FlagsApart ==
  ASSUME NEW type \in Nat, NEW tr \in 0 .. 1, NEW window \in Windows
  PROVE  LET v == FlagByte(type, tr, window)
         IN  /\ v \in Nat
             /\ v % (MAX_WINDOW_SIZE + 1) = window
             /\ (v \div (MAX_WINDOW_SIZE + 1)) % 2 = tr
             /\ v \div (2 * (MAX_WINDOW_SIZE + 1)) = type
             /\ type < 4 => v \in 0 .. 8 * (MAX_WINDOW_SIZE + 1) - 1
<1> DEFINE K == MAX_WINDOW_SIZE + 1
           t == tr + 2 * type
           v == window + K * t
<1>1. K \in Nat /\ K > 0 /\ window \in 0 .. K - 1 /\ t \in Nat
  BY PacketAssumption DEF Windows
<1>2. t % 2 = tr
  OBVIOUS
<1> HIDE DEF K
<1>3. v = K * t + window /\ K * t \in Nat
  BY <1>1
<1>4. v % K = window /\ v \div K = t
  <2> HIDE DEF t
  <2> QED
    BY <1>1, <1>3, DivModUnique
<1>5. v = (2 * K) * type + (window + K * tr) /\ window + K * tr \in 0 .. (2 * K) - 1
  <2>1. K * t = K * tr + (2 * K) * type
    BY <1>1
  <2>2. K * tr = 0 \/ K * tr = K
    BY <1>1
  <2> QED
    BY <1>1, <1>3, <2>1, <2>2
<1>6. v \div (2 * K) = type
  <2>1. 2 * K \in Nat
    BY <1>1
  <2> QED
    BY <1>5, <2>1, DivModUnique
<1>7. type < 4 => v \in 0 .. 8 * K - 1
  <2>1. SUFFICES ASSUME type < 4 PROVE v < 8 * K
    BY <1>1, <1>3
  <2>2. t <= 7
    BY <2>1
  <2>3. K * t <= K * 7
    BY <1>1, <2>2
  <2> QED
    BY <1>1, <1>3, <2>3
<1>8. v \in Nat
  BY <1>1, <1>3
<1> HIDE DEF v
<1>9. /\ v \in Nat /\ v % K = window /\ (v \div K) % 2 = tr /\ v \div (2 * K) = type
      /\ type < 4 => v \in 0 .. 8 * K - 1
  BY <1>2, <1>4, <1>6, <1>7, <1>8
<1> QED
  BY <1>9 DEF K, v, t, FlagByte

\* Lengths fit two bytes.
Lengths == 0 .. Byte * Byte - 1

\* A length is two bytes, and htons swaps them.
LEMMA LengthApart ==
  ASSUME NEW n \in Lengths
  PROVE  /\ n % Byte \in 0 .. Byte - 1 /\ n \div Byte \in 0 .. Byte - 1
         /\ (n % Byte) + Byte * (n \div Byte) = n
         /\ htons(n) \in Lengths
         /\ htons(n) % Byte = n \div Byte /\ htons(n) \div Byte = n % Byte
         /\ htons(htons(n)) = n
         /\ htons(n) = 0 <=> n = 0
<1> DEFINE r == n % Byte
           q == n \div Byte
<1>1. Byte \in Nat /\ Byte > 1 /\ Byte * Byte \in Nat
  BY PacketAssumption
<1>2. n \in Nat /\ n < Byte * Byte
  BY <1>1 DEF Lengths
<1>3. q \in Nat /\ r \in 0 .. Byte - 1 /\ n = Byte * q + r
  BY <1>1, <1>2, DivMod
<1>4. htons(n) = Byte * r + q
  BY <1>1, <1>3 DEF htons
<1> HIDE DEF q, r
<1>5. q \in 0 .. Byte - 1
  <2>1. SUFFICES ASSUME q >= Byte PROVE FALSE
    BY <1>1, <1>3
  <2>2. Byte * q >= Byte * Byte
    BY <1>1, <1>3, <2>1
  <2> QED
    BY <1>1, <1>2, <1>3, <2>2
<1>6. (Byte * r + q) % Byte = q /\ (Byte * r + q) \div Byte = r
  BY <1>1, <1>3, <1>5, DivModUnique
<1>7. Byte * r + q \in Lengths
  <2>1. Byte * r <= Byte * (Byte - 1) /\ Byte * r \in Nat
    BY <1>1, <1>3
  <2>2. Byte * (Byte - 1) = Byte * Byte - Byte
    BY <1>1
  <2> QED
    BY <1>1, <1>5, <2>1, <2>2 DEF Lengths
<1>8. htons(Byte * r + q) = n
  <2>1. htons(Byte * r + q) = q * Byte + r
    BY <1>6 DEF htons
  <2> QED
    BY <1>1, <1>3, <2>1
<1>9. (n % Byte) + Byte * (n \div Byte) = n
  BY <1>1, <1>3 DEF q, r
<1>10. Byte * r + q = 0 <=> n = 0
  <2>1. Byte * r \in Nat /\ (Byte * r = 0 <=> r = 0)
    BY <1>1, <1>3
  <2>2. Byte * q \in Nat /\ (Byte * q = 0 <=> q = 0)
    BY <1>1, <1>3
  <2> QED
    BY <1>3, <2>1, <2>2
<1> QED
  BY <1>3, <1>4, <1>5, <1>6, <1>7, <1>8, <1>9, <1>10 DEF q, r

\* The flags of a first byte.
LEMMA FlagsRead ==
  ASSUME NEW v \in Nat
  PROVE  /\ v % (MAX_WINDOW_SIZE + 1) \in Windows
         /\ (v \div (MAX_WINDOW_SIZE + 1)) % 2 \in 0 .. 1
         /\ v \div (2 * (MAX_WINDOW_SIZE + 1)) \in Nat
         /\ v < 8 * (MAX_WINDOW_SIZE + 1) => v \div (2 * (MAX_WINDOW_SIZE + 1)) < 4
<1> DEFINE K == MAX_WINDOW_SIZE + 1
           q == v \div (2 * K)
<1>1. K \in Nat /\ K > 0 /\ 0 .. K - 1 = Windows /\ 2 * K \in Nat
  BY PacketAssumption DEF Windows
<1> HIDE DEF K
<1>2. v % K \in Windows /\ v \div K \in Nat
  BY <1>1, DivMod
<1>3. (v \div K) % 2 \in 0 .. 1
  BY <1>2, DivMod
<1>4. q \in Nat /\ v = (2 * K) * q + (v % (2 * K)) /\ v % (2 * K) \in 0 .. (2 * K) - 1
  BY <1>1, DivMod
<1>5. v < 8 * K => q < 4
  <2> DEFINE r == v % (2 * K)
  <2> HIDE DEF q, r
  <2>1. SUFFICES ASSUME v < 8 * K, q >= 4 PROVE FALSE
    BY <1>4
  <2>2. (2 * K) * q >= (2 * K) * 4
    BY <1>1, <1>4, <2>1
  <2>3. v >= (2 * K) * 4
    BY <1>1, <1>4, <2>2 DEF r
  <2> QED
    BY <1>1, <2>1, <2>3
<1> QED
  BY <1>2, <1>3, <1>4, <1>5 DEF K

(***************************************************************************)
(* Memory                                                                  *)
(***************************************************************************)

\* A byte that is no CRC, a cell, and a struct pkt.
Plain == [value : Nat, of : {<< >>}]
Cells == [value : Nat, of : Seq(Plain)]
Memory == {m \in Seq(Cells) : Len(m) = PktSize}

LEMMA Sizes ==
  /\ MAX_PAYLOAD_SIZE \in Nat /\ MAX_PAYLOAD_SIZE \in Lengths
  /\ PktSize = 9 + MAX_PAYLOAD_SIZE
  /\ PKT_HEADERLEN = 7 /\ PKT_FOOTERLEN = 2 /\ PKT_CRC1LEN = 2 /\ PKT_MIN_LEN = 7
  /\ 0 .. MAX_PAYLOAD_SIZE \subseteq Lengths
<1>1. Byte * Byte \in Nat /\ MAX_PAYLOAD_SIZE \in 1 .. Byte * Byte - 1
  BY PacketAssumption
<1> QED
  BY <1>1 DEF Lengths, PktSize, PKT_HEADERLEN, PKT_FOOTERLEN, PKT_CRC1LEN, PKT_MIN_LEN

LEMMA PlainCell ==
  /\ \A n \in Nat : Cell(n) \in Plain /\ Cell(n).value = n /\ Cell(n).of = << >>
  /\ Plain \subseteq Cells
<1>1. << >> \in Seq(Plain)
  BY EmptySeq
<1> QED
  BY <1>1 DEF Cell, Plain, Cells

\* The cells of a CRC.
LEMMA CrcCells ==
  ASSUME NEW cells \in Seq(Plain)
  PROVE  /\ crc_of(cells) \in Seq(Cells) /\ Len(crc_of(cells)) = 2
         /\ crc_of(cells)[1] \in Cells /\ crc_of(cells)[2] \in Cells
<1>1. crc_of(cells)[1] \in Cells /\ crc_of(cells)[2] \in Cells
  BY DEF crc_of, Cells
<1> QED
  BY <1>1 DEF crc_of

\* n cells of memory.
LEMMA BytesAre ==
  ASSUME NEW s, NEW offset \in Nat, NEW n \in Nat
  PROVE  \A i \in 1 .. n : Bytes(s, offset, n)[i] = s[offset + i]
BY DEF Bytes

LEMMA FirstBytesAre ==
  ASSUME NEW s, NEW n \in Nat
  PROVE  \A i \in 1 .. n : Bytes(s, 0, n)[i] = s[i]
BY DEF Bytes

LEMMA BytesSeq ==
  ASSUME NEW T, NEW s, NEW offset \in Nat, NEW n \in Nat,
         \A i \in 1 .. n : s[offset + i] \in T
  PROVE  Bytes(s, offset, n) \in Seq(T) /\ Len(Bytes(s, offset, n)) = n
BY DEF Bytes

LEMMA FirstBytesSeq ==
  ASSUME NEW T, NEW s, NEW n \in Nat, \A i \in 1 .. n : s[i] \in T
  PROVE  Bytes(s, 0, n) \in Seq(T) /\ Len(Bytes(s, 0, n)) = n
BY DEF Bytes

\* Copying changes the cells that are copied to and nothing else.
LEMMA CopyIs ==
  ASSUME NEW m \in Seq(Cells), NEW offset \in Nat, NEW cells \in Seq(Cells),
         offset + Len(cells) <= Len(m)
  PROVE  /\ Copy(m, offset, cells) \in Seq(Cells)
         /\ Len(Copy(m, offset, cells)) = Len(m)
         /\ \A i \in 1 .. Len(m) :
              Copy(m, offset, cells)[i] =
                IF i \in offset + 1 .. offset + Len(cells) THEN cells[i - offset] ELSE m[i]
<1> DEFINE a == SubSeq(m, 1, offset)
           b == SubSeq(m, offset + Len(cells) + 1, Len(m))
<1>1. Len(m) \in Nat /\ Len(cells) \in Nat
  BY LenProperties
<1>2. \A i \in 1 .. Len(m) : m[i] \in Cells
  BY ElementOfSeq
<1>3. a \in Seq(Cells) /\ Len(a) = offset /\ \A i \in 1 .. offset : a[i] = m[i]
  <2>1. /\ a \in Seq(Cells)
        /\ Len(a) = IF 1 <= offset THEN offset - 1 + 1 ELSE 0
        /\ \A i \in 1 .. offset - 1 + 1 : a[i] = m[1 + i - 1]
    <3>1. \A i \in 1 .. offset : m[i] \in Cells
      BY <1>1, <1>2
    <3> QED
      BY <3>1, SubSeqProperties
  <2> QED
    BY <2>1
<1>4. /\ b \in Seq(Cells) /\ Len(b) = Len(m) - offset - Len(cells)
      /\ \A i \in 1 .. Len(b) : b[i] = m[offset + Len(cells) + i]
  <2> DEFINE m1 == offset + Len(cells) + 1
  <2>1. /\ b \in Seq(Cells)
        /\ Len(b) = IF m1 <= Len(m) THEN Len(m) - m1 + 1 ELSE 0
        /\ \A i \in 1 .. Len(m) - m1 + 1 : b[i] = m[m1 + i - 1]
    <3>1. \A i \in m1 .. Len(m) : m[i] \in Cells
      BY <1>1, <1>2
    <3>2. m1 \in Int /\ Len(m) \in Int
      BY <1>1
    <3> QED
      BY <3>1, <3>2, SubSeqProperties
  <2> QED
    BY <1>1, <2>1
<1> HIDE DEF a, b
<1> DEFINE ac == a \o cells
<1>5. /\ ac \in Seq(Cells) /\ Len(ac) = offset + Len(cells)
      /\ \A i \in 1 .. offset + Len(cells) :
           ac[i] = IF i <= offset THEN a[i] ELSE cells[i - offset]
  BY <1>3, ConcatProperties
<1> HIDE DEF ac
<1>6. /\ ac \o b \in Seq(Cells) /\ Len(ac \o b) = Len(m)
      /\ \A i \in 1 .. Len(m) :
           (ac \o b)[i] = IF i <= Len(ac) THEN ac[i] ELSE b[i - Len(ac)]
  <2>1. Len(ac) + Len(b) = Len(m)
    BY <1>1, <1>4, <1>5
  <2> QED
    BY <1>4, <1>5, <2>1, ConcatProperties
<1>7. Copy(m, offset, cells) = ac \o b
  BY DEF Copy, ac, a, b
<1>8. ASSUME NEW i \in 1 .. Len(m)
      PROVE  (ac \o b)[i] = IF i \in offset + 1 .. offset + Len(cells)
                            THEN cells[i - offset] ELSE m[i]
  <2>1. CASE i <= offset
    BY <1>1, <1>3, <1>5, <1>6, <2>1
  <2>2. CASE i > offset /\ i <= offset + Len(cells)
    BY <1>1, <1>5, <1>6, <2>2
  <2>3. CASE i > offset + Len(cells)
    <3>1. i - Len(ac) \in 1 .. Len(b) /\ offset + Len(cells) + (i - Len(ac)) = i
      BY <1>1, <1>4, <1>5, <2>3
    <3>2. (ac \o b)[i] = b[i - Len(ac)]
      BY <1>1, <1>5, <1>6, <2>3
    <3>3. b[i - Len(ac)] = m[offset + Len(cells) + (i - Len(ac))]
      BY <1>4, <3>1
    <3>4. b[i - Len(ac)] = m[i]
      BY <3>1, <3>3
    <3>5. i \notin offset + 1 .. offset + Len(cells)
      BY <1>1, <2>3
    <3> QED
      BY <3>2, <3>4, <3>5
  <2>4. i <= offset \/ (i > offset /\ i <= offset + Len(cells)) \/ i > offset + Len(cells)
    BY <1>1
  <2> QED
    BY <2>1, <2>2, <2>3, <2>4
<1> QED
  BY <1>6, <1>7, <1>8

-----------------------------------------------------------------------------
\* A cell is a record, and a number.
LEMMA CellValues ==
  ASSUME NEW m \in Seq(Cells), NEW i \in 1 .. Len(m)
  PROVE  m[i] \in Cells /\ m[i].value \in Nat
<1>1. m[i] \in Cells
  BY ElementOfSeq
<1> QED
  BY <1>1 DEF Cells

\* What memory says of its flags.
LEMMA FlagsOf ==
  ASSUME NEW m, m[1].value \in Nat
  PROVE  /\ pkt_get_window(m) \in Windows
         /\ pkt_get_tr(m) \in 0 .. 1
         /\ pkt_get_type(m) \in Nat
         /\ m[1].value < 8 * (MAX_WINDOW_SIZE + 1) => pkt_get_type(m) < 4
<1> DEFINE v == m[1].value
<1> HIDE DEF v
<1>1. v \in Nat
  BY DEF v
<1>2. /\ v % (MAX_WINDOW_SIZE + 1) \in Windows
      /\ (v \div (MAX_WINDOW_SIZE + 1)) % 2 \in 0 .. 1
      /\ v \div (2 * (MAX_WINDOW_SIZE + 1)) \in Nat
      /\ v < 8 * (MAX_WINDOW_SIZE + 1) => v \div (2 * (MAX_WINDOW_SIZE + 1)) < 4
  BY <1>1, FlagsRead
<1> QED
  BY <1>2 DEF v, pkt_get_window, pkt_get_tr, pkt_get_type

\* Setting the flags sets them, and nothing else.
LEMMA PutFlagsIs ==
  ASSUME NEW m \in Seq(Cells), Len(m) >= 1,
         NEW type \in Nat, NEW tr \in 0 .. 1, NEW window \in Windows
  PROVE  LET p == PutFlags(m, type, tr, window)
         IN  /\ p \in Seq(Cells) /\ Len(p) = Len(m)
             /\ p[1] = Cell(window + (MAX_WINDOW_SIZE + 1) * (tr + 2 * type))
             /\ p[1] \in Plain
             /\ \A i \in 2 .. Len(m) : p[i] = m[i]
             /\ pkt_get_type(p) = type /\ pkt_get_tr(p) = tr /\ pkt_get_window(p) = window
             /\ type < 4 => p[1].value \in 0 .. 8 * (MAX_WINDOW_SIZE + 1) - 1
<1> DEFINE v == window + (MAX_WINDOW_SIZE + 1) * (tr + 2 * type)
           p == PutFlags(m, type, tr, window)
<1> HIDE DEF v
<1>1. /\ v \in Nat
      /\ v % (MAX_WINDOW_SIZE + 1) = window
      /\ (v \div (MAX_WINDOW_SIZE + 1)) % 2 = tr
      /\ v \div (2 * (MAX_WINDOW_SIZE + 1)) = type
      /\ type < 4 => v \in 0 .. 8 * (MAX_WINDOW_SIZE + 1) - 1
  BY FlagsApart DEF v, FlagByte
<1>2. Cell(v) \in Plain /\ Cell(v) \in Cells /\ Cell(v).value = v
  BY <1>1, PlainCell
<1>3. p = [m EXCEPT ![1] = Cell(v)]
  BY DEF PutFlags, v
<1>4. 1 \in 1 .. Len(m) /\ Len(m) \in Nat
  BY LenProperties
<1>5. /\ p \in Seq(Cells) /\ Len(p) = Len(m)
      /\ \A i \in 1 .. Len(m) : p[i] = IF i = 1 THEN Cell(v) ELSE m[i]
  BY <1>2, <1>3, <1>4, ExceptSeq
<1> HIDE DEF p
<1>6. p[1] = Cell(v) /\ \A i \in 2 .. Len(m) : p[i] = m[i]
  BY <1>4, <1>5
<1>7. pkt_get_type(p) = type /\ pkt_get_tr(p) = tr /\ pkt_get_window(p) = window
  BY <1>1, <1>2, <1>6 DEF pkt_get_window, pkt_get_tr, pkt_get_type
<1> QED
  BY <1>1, <1>2, <1>5, <1>6, <1>7 DEF v, p

LEMMA PutTrIs ==
  ASSUME NEW m \in Seq(Cells), Len(m) >= 1, NEW tr \in 0 .. 1
  PROVE  LET p == PutTr(m, tr)
         IN  /\ p \in Seq(Cells) /\ Len(p) = Len(m)
             /\ p[1] = Cell(pkt_get_window(m) + (MAX_WINDOW_SIZE + 1) * (tr + 2 * pkt_get_type(m)))
             /\ p[1] \in Plain
             /\ \A i \in 2 .. Len(m) : p[i] = m[i]
             /\ pkt_get_type(p) = pkt_get_type(m) /\ pkt_get_tr(p) = tr
             /\ pkt_get_window(p) = pkt_get_window(m)
             /\ m[1].value < 8 * (MAX_WINDOW_SIZE + 1) =>
                  p[1].value \in 0 .. 8 * (MAX_WINDOW_SIZE + 1) - 1
<1>1. m[1].value \in Nat
  BY CellValues, LenProperties
<1>2. /\ pkt_get_window(m) \in Windows /\ pkt_get_type(m) \in Nat
      /\ m[1].value < 8 * (MAX_WINDOW_SIZE + 1) => pkt_get_type(m) < 4
  BY <1>1, FlagsOf
<1> DEFINE type == pkt_get_type(m)
           window == pkt_get_window(m)
<1> HIDE DEF type, window
<1>3. /\ window \in Windows /\ type \in Nat
      /\ m[1].value < 8 * (MAX_WINDOW_SIZE + 1) => type < 4
  BY <1>2 DEF type, window
<1>4. PutTr(m, tr) = PutFlags(m, type, tr, window)
  BY DEF PutTr, type, window
<1>5. LET p == PutFlags(m, type, tr, window)
      IN  /\ p \in Seq(Cells) /\ Len(p) = Len(m)
          /\ p[1] = Cell(window + (MAX_WINDOW_SIZE + 1) * (tr + 2 * type))
          /\ p[1] \in Plain
          /\ \A i \in 2 .. Len(m) : p[i] = m[i]
          /\ pkt_get_type(p) = type /\ pkt_get_tr(p) = tr /\ pkt_get_window(p) = window
          /\ type < 4 => p[1].value \in 0 .. 8 * (MAX_WINDOW_SIZE + 1) - 1
  BY <1>3, PutFlagsIs
<1> QED
  BY <1>3, <1>4, <1>5 DEF type, window

\* A length that is stored is read back, and nothing else changes.
LEMMA PutLengthIs ==
  ASSUME NEW m \in Seq(Cells), Len(m) >= 4, NEW n \in Nat
  PROVE  LET p == PutLength(m, n)
         IN  /\ p \in Seq(Cells) /\ Len(p) = Len(m)
             /\ p[3] = Cell(n % Byte) /\ p[4] = Cell(n \div Byte)
             /\ p[3] \in Plain /\ p[4] \in Plain
             /\ \A i \in 1 .. Len(m) : i \notin {3, 4} => p[i] = m[i]
             /\ pkt_get_length(p) = n
<1> DEFINE p == PutLength(m, n)
           a == n % Byte
           b == n \div Byte
<1>1. a \in Nat /\ b \in Nat /\ n = Byte * b + a /\ Byte \in Nat
  BY PacketAssumption, DivMod
<1> HIDE DEF a, b
<1>2. /\ Cell(a) \in Plain /\ Cell(a) \in Cells /\ Cell(a).value = a
      /\ Cell(b) \in Plain /\ Cell(b) \in Cells /\ Cell(b).value = b
  BY <1>1, PlainCell
<1> DEFINE p3 == [m EXCEPT ![3] = Cell(a)]
<1>3. Len(m) \in Nat /\ 3 \in 1 .. Len(m) /\ 4 \in 1 .. Len(m)
  BY LenProperties
<1>4. /\ p3 \in Seq(Cells) /\ Len(p3) = Len(m)
      /\ \A i \in 1 .. Len(m) : p3[i] = IF i = 3 THEN Cell(a) ELSE m[i]
  BY <1>2, <1>3, ExceptSeq
<1>5. p = [p3 EXCEPT ![4] = Cell(b)]
  BY DEF PutLength, a, b
<1> HIDE DEF p3
<1>6. /\ p \in Seq(Cells) /\ Len(p) = Len(m)
      /\ \A i \in 1 .. Len(m) : p[i] = IF i = 4 THEN Cell(b) ELSE p3[i]
  BY <1>2, <1>3, <1>4, <1>5, ExceptSeq
<1> HIDE DEF p
<1>7. /\ p[3] = Cell(a) /\ p[4] = Cell(b)
      /\ \A i \in 1 .. Len(m) : i \notin {3, 4} => p[i] = m[i]
  BY <1>3, <1>4, <1>6
<1>8. pkt_get_length(p) = n
  BY <1>1, <1>2, <1>7 DEF pkt_get_length
<1> QED
  BY <1>2, <1>6, <1>7, <1>8 DEF p, a, b

\* htons of a number.
LEMMA HtonsNat ==
  ASSUME NEW n \in Nat
  PROVE  htons(n) \in Nat
<1>1. Byte \in Nat /\ n % Byte \in Nat /\ n \div Byte \in Nat
  BY PacketAssumption, DivMod
<1> DEFINE a == n % Byte
           b == n \div Byte
<1> HIDE DEF a, b
<1>2. a * Byte + b \in Nat
  BY <1>1 DEF a, b
<1> QED
  BY <1>2 DEF htons, a, b

(***************************************************************************)
(* The CRCs                                                                *)
(***************************************************************************)

\* What CRC1 covers: the header with TR at 0.
HeaderCells(m) == Bytes(PutTr(m, 0), 0, PKT_HEADERLEN - PKT_CRC1LEN)

LEMMA HeaderIs ==
  ASSUME NEW m \in Seq(Cells), Len(m) >= 5
  PROVE  /\ HeaderCrc(m) = crc_of(HeaderCells(m))
         /\ HeaderCells(m) \in Seq(Cells) /\ Len(HeaderCells(m)) = 5
         /\ HeaderCells(m)[1] = PutTr(m, 0)[1]
         /\ \A i \in 2 .. 5 : HeaderCells(m)[i] = m[i]
         /\ (\A i \in 2 .. 5 : m[i] \in Plain) => HeaderCells(m) \in Seq(Plain)
<1> DEFINE p == PutTr(m, 0)
<1>1. Len(m) \in Nat
  BY LenProperties
<1>2. /\ p \in Seq(Cells) /\ Len(p) = Len(m) /\ p[1] \in Plain
      /\ \A i \in 2 .. Len(m) : p[i] = m[i]
  <2>1. 0 \in 0 .. 1 /\ Len(m) >= 1
    BY <1>1
  <2> QED
    BY <2>1, PutTrIs, Zenon
<1> HIDE DEF p
<1>3. \A i \in 1 .. 5 : p[i] \in Cells
  BY <1>1, <1>2, ElementOfSeq
<1>4. HeaderCells(m) = Bytes(p, 0, 5)
  BY Sizes DEF HeaderCells, p
<1>5. /\ Bytes(p, 0, 5) \in Seq(Cells) /\ Len(Bytes(p, 0, 5)) = 5
      /\ \A i \in 1 .. 5 : Bytes(p, 0, 5)[i] = p[i]
  <2> DEFINE n == 5
  <2>1. n \in Nat /\ \A i \in 1 .. n : p[i] \in Cells
    BY <1>3
  <2> HIDE DEF n
  <2>2. Bytes(p, 0, n) \in Seq(Cells) /\ Len(Bytes(p, 0, n)) = n
    BY <2>1, FirstBytesSeq
  <2>3. \A i \in 1 .. 5 : Bytes(p, 0, 5)[i] = p[i]
    BY FirstBytesAre
  <2> QED
    BY <2>2, <2>3 DEF n
<1>6. ASSUME \A i \in 2 .. 5 : m[i] \in Plain
      PROVE  Bytes(p, 0, 5) \in Seq(Plain)
  <2>1. \A i \in 1 .. 5 : p[i] \in Plain
    BY <1>1, <1>2, <1>6
  <2> QED
    BY <2>1, FirstBytesSeq
<1> QED
  BY <1>1, <1>2, <1>4, <1>5, <1>6 DEF HeaderCrc, HeaderCells, p

\* Two headers are covered by the same CRC exactly if they differ in TR alone.
LEMMA SameHeaderCells ==
  ASSUME NEW m \in Seq(Cells), Len(m) >= 5, NEW n \in Seq(Cells), Len(n) >= 5
  PROVE  HeaderCells(m) = HeaderCells(n) <=>
           /\ pkt_get_type(m) = pkt_get_type(n) /\ pkt_get_window(m) = pkt_get_window(n)
           /\ \A i \in 2 .. 5 : m[i] = n[i]
<1> DEFINE Flags(p) == FlagByte(pkt_get_type(p), 0, pkt_get_window(p))
<1>1. ASSUME NEW p \in Seq(Cells), Len(p) >= 5
      PROVE  /\ HeaderCells(p)[1] = Cell(Flags(p))
             /\ \A i \in 2 .. 5 : HeaderCells(p)[i] = p[i]
             /\ Flags(p) \div (2 * (MAX_WINDOW_SIZE + 1)) = pkt_get_type(p)
             /\ Flags(p) % (MAX_WINDOW_SIZE + 1) = pkt_get_window(p)
             /\ HeaderCells(p) \in Seq(Cells) /\ Len(HeaderCells(p)) = 5
  <2>1. p[1].value \in Nat
    BY <1>1, CellValues, LenProperties
  <2>2. pkt_get_window(p) \in Windows /\ pkt_get_type(p) \in Nat
    BY <2>1, FlagsOf
  <2>3. /\ Flags(p) \div (2 * (MAX_WINDOW_SIZE + 1)) = pkt_get_type(p)
        /\ Flags(p) % (MAX_WINDOW_SIZE + 1) = pkt_get_window(p)
    BY <2>2, FlagsApart
  <2>4. PutTr(p, 0)[1] = Cell(Flags(p))
    <3>1. Len(p) >= 1 /\ 0 \in 0 .. 1
      BY <1>1, LenProperties
    <3>2. PutTr(p, 0)[1] =
            Cell(pkt_get_window(p) + (MAX_WINDOW_SIZE + 1) * (0 + 2 * pkt_get_type(p)))
      BY <1>1, <3>1, PutTrIs, Zenon
    <3> QED
      BY <3>2 DEF FlagByte
  <2> HIDE DEF Flags
  <2> QED
    BY <1>1, <2>3, <2>4, HeaderIs
<1> HIDE DEF Flags
<1>2. ASSUME HeaderCells(m) = HeaderCells(n)
      PROVE  /\ pkt_get_type(m) = pkt_get_type(n) /\ pkt_get_window(m) = pkt_get_window(n)
             /\ \A i \in 2 .. 5 : m[i] = n[i]
  <2>1. Cell(Flags(m)) = Cell(Flags(n))
    BY <1>1, <1>2
  <2>2. Flags(m) = Flags(n)
    BY <2>1 DEF Cell
  <2> QED
    BY <1>1, <1>2, <2>2
<1>3. ASSUME /\ pkt_get_type(m) = pkt_get_type(n) /\ pkt_get_window(m) = pkt_get_window(n)
             /\ \A i \in 2 .. 5 : m[i] = n[i]
      PROVE  HeaderCells(m) = HeaderCells(n)
  <2>1. Flags(m) = Flags(n)
    BY <1>3 DEF Flags
  <2>2. \A i \in 1 .. 5 : HeaderCells(m)[i] = HeaderCells(n)[i]
    BY <1>1, <1>3, <2>1
  <2> DEFINE a == HeaderCells(m)
             b == HeaderCells(n)
  <2>3. a \in Seq(Cells) /\ b \in Seq(Cells) /\ Len(a) = 5 /\ Len(b) = Len(a)
    BY <1>1
  <2>4. \A i \in 1 .. Len(a) : a[i] = b[i]
    BY <2>2, <2>3
  <2> HIDE DEF a, b
  <2>5. a = b
    BY <2>3, <2>4, SeqEqual
  <2> QED
    BY <2>5 DEF a, b
<1> QED
  BY <1>2, <1>3

\* Two cells of memory, as a CRC in the host's order and in the network's.
LEMMA CrcAt ==
  ASSUME NEW m \in Seq(Cells), NEW offset \in Nat, offset + 2 <= Len(m)
  PROVE  LET found == Stored(Bytes(m, offset, 2))
         IN  /\ found = <<m[offset + 2], m[offset + 1]>>
             /\ htonl(found) = <<m[offset + 1], m[offset + 2]>>
             /\ found \in Seq(Cells) /\ Len(found) = 2
<1>1. Len(m) \in Nat
  BY LenProperties
<1>2. m[offset + 1] \in Cells /\ m[offset + 2] \in Cells
  BY <1>1, ElementOfSeq
<1> DEFINE n == 2
<1>3. n \in Nat /\ 1 \in 1 .. n /\ 2 \in 1 .. n /\ \A i \in 1 .. n : m[offset + i] \in Cells
  BY <1>2
<1> HIDE DEF n
<1>4. \A i \in 1 .. n : Bytes(m, offset, n)[i] = m[offset + i]
  BY <1>3, BytesAre
<1>5. Bytes(m, offset, 2)[1] = m[offset + 1] /\ Bytes(m, offset, 2)[2] = m[offset + 2]
  BY <1>3, <1>4 DEF n
<1> QED
  BY <1>2, <1>5 DEF Stored, htonl

\* CRC1 is good exactly if its two halves are those of the header's CRC.
LEMMA GoodCrc1Is ==
  ASSUME NEW m \in Seq(Cells), Len(m) >= 7
  PROVE  /\ pkt_get_crc1(m) = <<m[7], m[6]>>
         /\ htonl(pkt_get_crc1(m)) = <<m[6], m[7]>>
         /\ GoodCrc1(m) <=> /\ m[6] = [value |-> 1, of |-> HeaderCells(m)]
                            /\ m[7] = [value |-> 0, of |-> HeaderCells(m)]
<1>1. Len(m) \in Nat /\ 5 + 2 <= Len(m)
  BY LenProperties
<1>2. LET found == Stored(Bytes(m, 5, 2))
      IN  found = <<m[5 + 2], m[5 + 1]>> /\ htonl(found) = <<m[5 + 1], m[5 + 2]>>
  BY <1>1, CrcAt
<1>3. pkt_get_crc1(m) = Stored(Bytes(m, 5, 2))
  BY Sizes DEF pkt_get_crc1
<1>4. pkt_get_crc1(m) = <<m[7], m[6]>> /\ htonl(pkt_get_crc1(m)) = <<m[6], m[7]>>
  BY <1>2, <1>3
<1>5. HeaderCrc(m) = crc_of(HeaderCells(m))
  BY DEF HeaderCrc, HeaderCells
<1> QED
  BY <1>4, <1>5 DEF GoodCrc1, crc_of

\* Both CRCs are stored with their most significant half first.
LEMMA StoredCrc ==
  ASSUME NEW cells
  PROVE  Stored(htonl(crc_of(cells))) = crc_of(cells)
BY DEF Stored, htonl, crc_of

(***************************************************************************)
(* The encoder                                                             *)
(***************************************************************************)

\* A packet that is built: no CRC yet, and a length that was validated.
Built == {m \in Seq(Plain) : Len(m) = PktSize /\ valid_length(pkt_get_length(m))}

LEMMA BuiltIs ==
  ASSUME NEW m \in Built
  PROVE  /\ m \in Seq(Cells) /\ m \in Memory /\ Len(m) = 9 + MAX_PAYLOAD_SIZE
         /\ \A i \in 1 .. 9 + MAX_PAYLOAD_SIZE : m[i] \in Plain
         /\ pkt_get_length(m) \in 0 .. MAX_PAYLOAD_SIZE
         /\ pkt_get_length(m) \in Lengths
<1>1. m \in Seq(Plain) /\ Len(m) = 9 + MAX_PAYLOAD_SIZE /\ Len(m) = PktSize
  BY Sizes DEF Built
<1>2. \A i \in 1 .. 9 + MAX_PAYLOAD_SIZE : m[i] \in Plain
  BY <1>1, ElementOfSeq
<1>3. m \in Seq(Cells)
  BY <1>1, PlainCell, SeqMonotonic
<1>4. m[3].value \in Nat /\ m[4].value \in Nat
  BY <1>1, <1>3, Sizes, CellValues
<1>5. pkt_get_length(m) \in Nat
  BY <1>4, PacketAssumption DEF pkt_get_length
<1>6. pkt_get_length(m) <= MAX_PAYLOAD_SIZE
  BY DEF Built, valid_length
<1> QED
  BY <1>1, <1>2, <1>3, <1>5, <1>6, Sizes DEF Memory

\* The header's cells are kept, but for the length that is swapped; each CRC is
\* that of the cells before it, where they are on the wire.
LEMMA EncodeIs ==
  ASSUME NEW m \in Built
  PROVE  LET e == pkt_encode_inline(m)
             plen == pkt_get_length(m)
         IN  /\ e \in Memory /\ e \in Seq(Cells) /\ Len(e) = 9 + MAX_PAYLOAD_SIZE
             /\ \A i \in 1 .. 7 + plen : i \notin {3, 4, 6, 7} => e[i] = m[i]
             /\ pkt_get_length(e) = htons(plen)
             /\ e[3] = Cell(htons(plen) % Byte) /\ e[4] = Cell(htons(plen) \div Byte)
             /\ HeaderCells(e) \in Seq(Plain) /\ Len(HeaderCells(e)) = 5
             /\ e[6] = [value |-> 1, of |-> HeaderCells(e)]
             /\ e[7] = [value |-> 0, of |-> HeaderCells(e)]
             /\ plen # 0 =>
                  /\ Bytes(m, 7, plen) \in Seq(Plain) /\ Len(Bytes(m, 7, plen)) = plen
                  /\ e[8 + plen] = [value |-> 1, of |-> Bytes(m, 7, plen)]
                  /\ e[9 + plen] = [value |-> 0, of |-> Bytes(m, 7, plen)]
<1> DEFINE plen == pkt_get_length(m)
           n == htons(plen)
           swapped == PutLength(m, n)
           crc1 == crc_of(HeaderCells(swapped))
           headed == Copy(swapped, 5, crc1)
           crc2 == crc_of(Bytes(headed, 7, plen))
           e == pkt_encode_inline(m)
<1>1. /\ m \in Seq(Cells) /\ Len(m) = 9 + MAX_PAYLOAD_SIZE
      /\ \A i \in 1 .. 9 + MAX_PAYLOAD_SIZE : m[i] \in Plain
      /\ plen \in 0 .. MAX_PAYLOAD_SIZE /\ plen \in Lengths /\ MAX_PAYLOAD_SIZE \in Nat
  BY BuiltIs, Sizes
<1>2. n \in Nat
  BY <1>1, HtonsNat
<1> HIDE DEF n, plen
<1>3. /\ swapped \in Seq(Cells) /\ Len(swapped) = Len(m)
      /\ swapped[3] = Cell(n % Byte) /\ swapped[4] = Cell(n \div Byte)
      /\ swapped[3] \in Plain /\ swapped[4] \in Plain
      /\ \A i \in 1 .. Len(m) : i \notin {3, 4} => swapped[i] = m[i]
      /\ pkt_get_length(swapped) = n
  <2>1. Len(m) >= 4
    BY <1>1
  <2> QED
    BY <1>1, <1>2, <2>1, PutLengthIs
<1>4. \A i \in 1 .. 9 + MAX_PAYLOAD_SIZE : swapped[i] \in Plain
  BY <1>1, <1>3
<1> HIDE DEF swapped
<1>5. /\ HeaderCells(swapped) \in Seq(Plain) /\ Len(HeaderCells(swapped)) = 5
      /\ HeaderCrc(swapped) = crc1
  BY <1>1, <1>3, <1>4, HeaderIs
<1>6. /\ crc1 \in Seq(Cells) /\ Len(crc1) = 2
      /\ crc1[1] = [value |-> 1, of |-> HeaderCells(swapped)]
      /\ crc1[2] = [value |-> 0, of |-> HeaderCells(swapped)]
  BY <1>5, CrcCells DEF crc_of
<1>7. PutCrc1(swapped, htonl(HeaderCrc(swapped))) = headed
  BY <1>5, StoredCrc, Sizes DEF PutCrc1
<1> HIDE DEF crc1
<1>8. /\ headed \in Seq(Cells) /\ Len(headed) = Len(swapped)
      /\ \A i \in 1 .. Len(swapped) :
           headed[i] = IF i \in 5 + 1 .. 5 + Len(crc1) THEN crc1[i - 5] ELSE swapped[i]
  <2> DEFINE offset == 5
  <2>1. offset \in Nat /\ offset + Len(crc1) <= Len(swapped)
    BY <1>1, <1>3, <1>6
  <2> HIDE DEF offset
  <2>2. /\ Copy(swapped, offset, crc1) \in Seq(Cells)
        /\ Len(Copy(swapped, offset, crc1)) = Len(swapped)
        /\ \A i \in 1 .. Len(swapped) :
             Copy(swapped, offset, crc1)[i] =
               IF i \in offset + 1 .. offset + Len(crc1) THEN crc1[i - offset] ELSE swapped[i]
    BY <1>3, <1>6, <2>1, CopyIs
  <2> QED
    BY <2>2 DEF offset
<1> HIDE DEF headed
<1>9. /\ headed[6] = [value |-> 1, of |-> HeaderCells(swapped)]
      /\ headed[7] = [value |-> 0, of |-> HeaderCells(swapped)]
      /\ \A i \in 1 .. Len(m) : i \notin {6, 7} => headed[i] = swapped[i]
  BY <1>1, <1>3, <1>6, <1>8
<1>10. e = IF plen = 0 THEN headed
           ELSE Copy(headed, 7 + plen, Stored(htonl(crc_of(Bytes(headed, 7, plen)))))
  BY <1>7, Sizes DEF pkt_encode_inline, plen, n, swapped
<1>11. e = IF plen = 0 THEN headed ELSE Copy(headed, 7 + plen, crc2)
  BY <1>10, StoredCrc
<1>12. Bytes(headed, 7, plen) = Bytes(m, 7, plen) /\ Bytes(m, 7, plen) \in Seq(Plain)
       /\ Len(Bytes(m, 7, plen)) = plen
  <2>1. ASSUME NEW i \in 1 .. plen
        PROVE  headed[7 + i] = m[7 + i] /\ m[7 + i] \in Plain
    <3>1. /\ 7 + i \in 1 .. Len(m) /\ 7 + i \in 1 .. 9 + MAX_PAYLOAD_SIZE
          /\ 7 + i \notin {3, 4} /\ 7 + i \notin {6, 7}
      BY <1>1
    <3> QED
      BY <1>1, <1>3, <1>9, <3>1
  <2>2. Bytes(headed, 7, plen) = Bytes(m, 7, plen)
    BY <1>1, <2>1 DEF Bytes
  <2>3. /\ 7 \in Nat /\ plen \in Nat
        /\ \A i \in 1 .. plen : m[7 + i] \in Plain
    BY <1>1, <2>1
  <2>4. Bytes(m, 7, plen) \in Seq(Plain) /\ Len(Bytes(m, 7, plen)) = plen
    BY <2>3 DEF Bytes
  <2> QED
    BY <2>2, <2>4
<1>13. /\ crc2 \in Seq(Cells) /\ Len(crc2) = 2
       /\ crc2[1] = [value |-> 1, of |-> Bytes(m, 7, plen)]
       /\ crc2[2] = [value |-> 0, of |-> Bytes(m, 7, plen)]
  BY <1>12, CrcCells DEF crc_of
<1> HIDE DEF crc2, e
<1>14. /\ e \in Seq(Cells) /\ Len(e) = Len(m)
       /\ \A i \in 1 .. 7 + plen : e[i] = headed[i]
       /\ plen # 0 => e[8 + plen] = crc2[1] /\ e[9 + plen] = crc2[2]
  <2>1. CASE plen = 0
    BY <1>1, <1>3, <1>8, <1>11, <2>1
  <2>2. CASE plen # 0
    <3> DEFINE offset == 7 + plen
    <3>1. offset \in Nat /\ offset + Len(crc2) <= Len(headed) /\ e = Copy(headed, offset, crc2)
      BY <1>1, <1>3, <1>8, <1>11, <1>13, <2>2
    <3> HIDE DEF offset
    <3>2. /\ Copy(headed, offset, crc2) \in Seq(Cells)
          /\ Len(Copy(headed, offset, crc2)) = Len(headed)
          /\ \A i \in 1 .. Len(headed) :
               Copy(headed, offset, crc2)[i] =
                 IF i \in offset + 1 .. offset + Len(crc2) THEN crc2[i - offset] ELSE headed[i]
      BY <1>8, <1>13, <3>1, CopyIs
    <3> QED
      BY <1>1, <1>3, <1>8, <1>13, <2>2, <3>1, <3>2 DEF offset
  <2> QED
    BY <2>1, <2>2
<1>15. ASSUME NEW i \in 1 .. 7 + plen, i \notin {3, 4, 6, 7}
       PROVE  e[i] = m[i]
  <2>1. i \in 1 .. Len(m) /\ i \notin {3, 4} /\ i \notin {6, 7}
    BY <1>1, <1>15
  <2> QED
    BY <1>3, <1>9, <1>14, <2>1
<1>16. e[3] = swapped[3] /\ e[4] = swapped[4] /\ pkt_get_length(e) = n
  <2>1. e[3] = swapped[3] /\ e[4] = swapped[4]
    BY <1>1, <1>9, <1>14
  <2> QED
    BY <1>3, <2>1 DEF pkt_get_length
<1>17. HeaderCells(e) = HeaderCells(swapped)
  <2>1. e[1] = swapped[1]
    BY <1>1, <1>9, <1>14
  <2>2. pkt_get_type(e) = pkt_get_type(swapped) /\ pkt_get_window(e) = pkt_get_window(swapped)
    BY <2>1 DEF pkt_get_type, pkt_get_window
  <2>3. \A i \in 2 .. 5 : e[i] = swapped[i]
    BY <1>1, <1>9, <1>14
  <2> QED
    BY <1>1, <1>3, <1>14, <2>2, <2>3, SameHeaderCells
<1>18. e[6] = headed[6] /\ e[7] = headed[7]
  BY <1>1, <1>14
<1>19. e \in Memory
  BY <1>1, <1>14, Sizes DEF Memory
<1> QED
  BY <1>1, <1>3, <1>5, <1>9, <1>12, <1>13, <1>14, <1>15, <1>16, <1>17, <1>18, <1>19
     DEF e, n, plen

(***************************************************************************)
(* The decoder                                                             *)
(***************************************************************************)

\* A datagram with less than a CRC behind its header seems to have a payload
\* that is larger than any.
LEMMA PayloadLenIs ==
  ASSUME NEW rlen \in 7 .. PktSize
  PROVE  /\ rlen = 7 => PayloadLen(rlen) = 0
         /\ rlen = 8 => PayloadLen(rlen) > MAX_PAYLOAD_SIZE
         /\ rlen >= 9 => PayloadLen(rlen) = rlen - 9
         /\ PayloadLen(rlen) \in Nat
<1>1. SizeSpace = 2 * PktSize /\ PktSize = 9 + MAX_PAYLOAD_SIZE /\ MAX_PAYLOAD_SIZE \in Nat
  BY Sizes DEF SizeSpace
<1>2. PayloadLen(rlen) = IF rlen = 7 THEN 0 ELSE (rlen - 7 + SizeSpace - 2) % SizeSpace
  BY Sizes DEF PayloadLen
<1>3. ASSUME rlen = 8
      PROVE  PayloadLen(rlen) = SizeSpace - 1
  <2> DEFINE r == SizeSpace - 1
  <2>1. rlen - 7 + SizeSpace - 2 = SizeSpace * 0 + r /\ r \in 0 .. SizeSpace - 1 /\ SizeSpace \in Nat
    BY <1>1, <1>3
  <2> HIDE DEF r
  <2>2. (SizeSpace * 0 + r) % SizeSpace = r
    BY <2>1, DivModUnique
  <2> QED
    BY <1>2, <1>3, <2>1, <2>2 DEF r
<1>4. ASSUME rlen >= 9
      PROVE  PayloadLen(rlen) = rlen - 9
  <2> DEFINE r == rlen - 9
  <2>1. rlen - 7 + SizeSpace - 2 = SizeSpace * 1 + r /\ r \in 0 .. SizeSpace - 1 /\ SizeSpace \in Nat
    BY <1>1, <1>4
  <2> HIDE DEF r
  <2>2. (SizeSpace * 1 + r) % SizeSpace = r
    BY <2>1, DivModUnique
  <2> QED
    BY <1>2, <1>4, <2>1, <2>2 DEF r
<1> QED
  BY <1>1, <1>2, <1>3, <1>4

\* What is accepted.
LEMMA Accepted ==
  ASSUME NEW m, NEW rlen
  PROVE  /\ DecodeError(m, rlen) \in Codes
         /\ DecodeError(m, rlen) = "PKT_OK" <=>
              /\ ~(rlen < PKT_MIN_LEN)
              /\ valid_type(pkt_get_type(m)) /\ valid_tr(pkt_get_type(m), pkt_get_tr(m))
              /\ valid_length(htons(pkt_get_length(m)))
              /\ GoodCrc1(m) /\ Consistent(m, rlen)
              /\ PayloadLen(rlen) # 0 => GoodCrc2(m, rlen)
BY DEF DecodeError, Codes

\* The two cells that CRC2 is read from.
LEMMA FoundCrc2Is ==
  ASSUME NEW m \in Memory, NEW rlen \in 7 .. PktSize
  PROVE  /\ FoundCrc2(m, rlen) = <<m[rlen - 1], m[rlen]>>
         /\ Stored(FoundCrc2(m, rlen)) \in Seq(Cells) /\ Len(Stored(FoundCrc2(m, rlen))) = 2
<1> DEFINE offset == rlen - 2
<1>1. /\ m \in Seq(Cells) /\ offset \in Nat /\ offset + 2 <= Len(m) /\ Len(m) = PktSize
      /\ offset + 1 = rlen - 1 /\ offset + 2 = rlen /\ PktSize \in Nat
  BY Sizes DEF Memory
<1>2. FoundCrc2(m, rlen) = htonl(Stored(Bytes(m, offset, 2)))
  BY Sizes DEF FoundCrc2
<1> HIDE DEF offset
<1>3. FoundCrc2(m, rlen) = <<m[offset + 1], m[offset + 2]>>
  BY <1>1, <1>2, CrcAt
<1>4. m[offset + 1] \in Cells /\ m[offset + 2] \in Cells
  BY <1>1, CellValues
<1> QED
  BY <1>1, <1>3, <1>4 DEF Stored

\* Decoding leaves memory, and what is accepted keeps its cells, but for the
\* halves of CRC1 and the length that are swapped.
LEMMA DecodeIs ==
  ASSUME NEW m \in Memory, NEW rlen \in 0 .. PktSize
  PROVE  LET d == pkt_decode_inline(m, rlen)
         IN  /\ d.code = DecodeError(m, rlen)
             /\ d.pkt \in Memory
             /\ d.code = "PKT_OK" =>
                  /\ \A i \in 1 .. 7 + MAX_PAYLOAD_SIZE : i \notin {3, 4, 6, 7} => d.pkt[i] = m[i]
                  /\ pkt_get_length(d.pkt) = htons(pkt_get_length(m))
                  /\ d.pkt[6] = m[7] /\ d.pkt[7] = m[6]
<1> DEFINE error == DecodeError(m, rlen)
           crc1 == <<m[7], m[6]>>
           converted == Copy(m, 5, crc1)
           crc2 == Stored(FoundCrc2(m, rlen))
           with_crc2 == IF PayloadLen(rlen) = 0 THEN converted
                        ELSE Copy(converted, 7 + MAX_PAYLOAD_SIZE, crc2)
           n == htons(pkt_get_length(m))
           decoded == PutLength(with_crc2, n)
           d == pkt_decode_inline(m, rlen)
<1>1. /\ m \in Seq(Cells) /\ Len(m) = PktSize /\ PktSize = 9 + MAX_PAYLOAD_SIZE
      /\ MAX_PAYLOAD_SIZE \in Nat
  BY Sizes DEF Memory
<1>2. crc1 \in Seq(Cells) /\ Len(crc1) = 2 /\ crc1[1] = m[7] /\ crc1[2] = m[6]
  <2>1. m[6] \in Cells /\ m[7] \in Cells
    BY <1>1, CellValues
  <2> QED
    BY <2>1
<1>3. PutCrc1(m, htonl(pkt_get_crc1(m))) = converted
  <2>1. Len(m) >= 7
    BY <1>1
  <2>2. htonl(pkt_get_crc1(m)) = <<m[6], m[7]>>
    BY <1>1, <2>1, GoodCrc1Is
  <2> QED
    BY <2>2, Sizes DEF PutCrc1, Stored
<1>4. d = Returns(error,
            CASE error = "PKT_OK" -> decoded
              [] error \in {"E_NOHEADER", "E_TYPE", "E_TR", "E_LENGTH"} -> m
              [] error = "E_CRC" /\ ~GoodCrc1(m) -> PutTr(m, 0)
              [] OTHER -> converted)
  BY <1>3, Sizes DEF pkt_decode_inline
<1> HIDE DEF crc1
<1>5. /\ converted \in Seq(Cells) /\ Len(converted) = PktSize
      /\ converted[6] = m[7] /\ converted[7] = m[6]
      /\ \A i \in 1 .. PktSize : i \notin {6, 7} => converted[i] = m[i]
  <2> DEFINE offset == 5
  <2>1. /\ m \in Seq(Cells) /\ crc1 \in Seq(Cells)
        /\ offset \in Nat /\ offset + Len(crc1) <= Len(m)
    BY <1>1, <1>2
  <2> HIDE DEF offset
  <2>2. /\ Copy(m, offset, crc1) \in Seq(Cells) /\ Len(Copy(m, offset, crc1)) = Len(m)
        /\ \A i \in 1 .. Len(m) :
             Copy(m, offset, crc1)[i] =
               IF i \in offset + 1 .. offset + Len(crc1) THEN crc1[i - offset] ELSE m[i]
    BY <2>1, CopyIs, Zenon
  <2> QED
    BY <1>1, <1>2, <2>2 DEF offset
<1> HIDE DEF converted
<1>6. n \in Nat
  <2>1. m[3].value \in Nat /\ m[4].value \in Nat
    BY <1>1, CellValues
  <2>2. pkt_get_length(m) \in Nat
    BY <2>1, PacketAssumption DEF pkt_get_length
  <2> QED
    BY <2>2, HtonsNat
<1> HIDE DEF n
<1>7. ASSUME error = "PKT_OK"
      PROVE  /\ with_crc2 \in Seq(Cells) /\ Len(with_crc2) = PktSize
             /\ \A i \in 1 .. 7 + MAX_PAYLOAD_SIZE : with_crc2[i] = converted[i]
  <2>1. rlen \in 7 .. PktSize
    BY <1>1, <1>7, Accepted, Sizes
  <2>2. crc2 \in Seq(Cells) /\ Len(crc2) = 2
    BY <2>1, FoundCrc2Is
  <2> HIDE DEF crc2
  <2>3. CASE PayloadLen(rlen) = 0
    BY <1>1, <1>5, <2>3
  <2>4. CASE PayloadLen(rlen) # 0
    <3> DEFINE offset == 7 + MAX_PAYLOAD_SIZE
    <3>1. offset \in Nat /\ offset + Len(crc2) <= Len(converted)
      BY <1>1, <1>5, <2>2
    <3>2. with_crc2 = Copy(converted, offset, crc2)
      BY <2>4
    <3> HIDE DEF offset
    <3>3. /\ Copy(converted, offset, crc2) \in Seq(Cells)
          /\ Len(Copy(converted, offset, crc2)) = Len(converted)
          /\ \A i \in 1 .. Len(converted) :
               Copy(converted, offset, crc2)[i] =
                 IF i \in offset + 1 .. offset + Len(crc2) THEN crc2[i - offset] ELSE converted[i]
      BY <1>5, <2>2, <3>1, CopyIs
    <3> HIDE DEF with_crc2
    <3> QED
      BY <1>1, <1>5, <2>2, <3>2, <3>3 DEF offset
  <2> QED
    BY <2>3, <2>4
<1> HIDE DEF with_crc2
<1>8. ASSUME error = "PKT_OK"
      PROVE  /\ decoded \in Memory
             /\ \A i \in 1 .. 7 + MAX_PAYLOAD_SIZE : i \notin {3, 4} => decoded[i] = converted[i]
             /\ pkt_get_length(decoded) = n
  <2>1. with_crc2 \in Seq(Cells) /\ Len(with_crc2) >= 4 /\ Len(with_crc2) = PktSize
    BY <1>1, <1>7, <1>8
  <2>2. /\ decoded \in Seq(Cells) /\ Len(decoded) = Len(with_crc2)
        /\ \A i \in 1 .. Len(with_crc2) : i \notin {3, 4} => decoded[i] = with_crc2[i]
        /\ pkt_get_length(decoded) = n
    BY <1>6, <2>1, PutLengthIs
  <2> HIDE DEF decoded
  <2>3. ASSUME NEW i \in 1 .. 7 + MAX_PAYLOAD_SIZE, i \notin {3, 4}
        PROVE  decoded[i] = converted[i]
    <3>1. i \in 1 .. Len(with_crc2)
      BY <1>1, <2>1
    <3> QED
      BY <1>7, <1>8, <2>2, <2>3, <3>1
  <2> QED
    BY <2>1, <2>2, <2>3 DEF Memory
<1> HIDE DEF decoded
<1>9. PutTr(m, 0) \in Memory /\ converted \in Memory
  BY <1>1, <1>5, PutTrIs DEF Memory
<1>10. d.code = error /\ d.pkt \in Memory /\ (error = "PKT_OK" => d.pkt = decoded)
  <2> HIDE DEF error, d
  <2>1. CASE error = "PKT_OK"
    BY <1>4, <1>8, <2>1 DEF Returns
  <2>2. CASE error \in {"E_NOHEADER", "E_TYPE", "E_TR", "E_LENGTH"}
    BY <1>4, <2>2 DEF Returns
  <2>3. CASE error = "E_CRC" /\ ~GoodCrc1(m)
    BY <1>4, <1>9, <2>3 DEF Returns
  <2>4. CASE /\ error # "PKT_OK" /\ error \notin {"E_NOHEADER", "E_TYPE", "E_TR", "E_LENGTH"}
             /\ ~(error = "E_CRC" /\ ~GoodCrc1(m))
    BY <1>4, <1>9, <2>4 DEF Returns
  <2> QED
    BY <2>1, <2>2, <2>3, <2>4
<1>11. ASSUME error = "PKT_OK", NEW i \in 1 .. 7 + MAX_PAYLOAD_SIZE, i \notin {3, 4, 6, 7}
       PROVE  d.pkt[i] = m[i]
  <2>1. i \in 1 .. PktSize /\ i \notin {6, 7} /\ i \notin {3, 4}
    BY <1>1, <1>11
  <2> QED
    BY <1>5, <1>8, <1>10, <1>11, <2>1
<1>12. ASSUME error = "PKT_OK"
       PROVE  d.pkt[6] = m[7] /\ d.pkt[7] = m[6]
  <2>1. decoded[6] = converted[6] /\ decoded[7] = converted[7]
    BY <1>1, <1>8, <1>12
  <2> QED
    BY <1>5, <1>10, <1>12, <2>1
<1> QED
  BY <1>8, <1>10, <1>11, <1>12 DEF n

(***************************************************************************)
(* Building a packet                                                       *)
(***************************************************************************)

\* Every cell fits a byte; the first one holds three fields.
CellLimit(i) == IF i = 1 THEN 8 * (MAX_WINDOW_SIZE + 1) ELSE Byte

Small(s) == \A i \in DOMAIN s : s[i].value \in 0 .. CellLimit(i) - 1

BuildOk(m) == m \in Built /\ Small(m)

LEMMA Limits ==
  /\ MAX_WINDOW_SIZE \in Nat /\ Byte \in Nat /\ Byte > 1
  /\ CellLimit(1) = 8 * (MAX_WINDOW_SIZE + 1)
  /\ \A i : CellLimit(i) \in Nat /\ CellLimit(i) > 1
  /\ \A i : i # 1 => CellLimit(i) = Byte
BY PacketAssumption DEF CellLimit

\* A packet is built by writing cells and keeping a length that is valid.
LEMMA StaysBuilt ==
  ASSUME NEW m, BuildOk(m),
         NEW p \in Seq(Cells), Len(p) = Len(m), valid_length(pkt_get_length(p)),
         \A i \in 1 .. Len(m) :
           p[i] = m[i] \/ (p[i] \in Plain /\ p[i].value \in 0 .. CellLimit(i) - 1)
  PROVE  BuildOk(p)
<1>1. /\ m \in Seq(Cells) /\ Len(m) = PktSize /\ PktSize = 9 + MAX_PAYLOAD_SIZE
      /\ \A i \in 1 .. Len(m) : m[i] \in Plain
      /\ DOMAIN m = 1 .. Len(m) /\ DOMAIN p = 1 .. Len(m)
  BY BuiltIs, Sizes, LenProperties DEF BuildOk
<1>2. \A i \in 1 .. Len(m) : m[i].value \in 0 .. CellLimit(i) - 1
  BY <1>1 DEF BuildOk, Small
<1>3. \A i \in 1 .. Len(m) : p[i] \in Plain /\ p[i].value \in 0 .. CellLimit(i) - 1
  BY <1>1, <1>2
<1>4. p \in Seq(Plain)
  BY <1>1, <1>3
<1> QED
  BY <1>1, <1>3, <1>4 DEF BuildOk, Built, Small

LEMMA NewIsBuilt == BuildOk(pkt_new)
<1>1. Cell(0) \in Plain /\ Cell(0) \in Cells /\ Cell(0).value = 0
  BY PlainCell
<1>2. PktSize \in Nat /\ PktSize >= 9 /\ MAX_PAYLOAD_SIZE \in Nat
  BY Sizes
<1>3. /\ pkt_new \in Seq(Plain) /\ Len(pkt_new) = PktSize /\ DOMAIN pkt_new = 1 .. PktSize
      /\ \A i \in 1 .. PktSize : pkt_new[i] = Cell(0)
  BY <1>1, <1>2 DEF pkt_new
<1>4. pkt_get_length(pkt_new) = 0
  <2>1. pkt_new[3].value = 0 /\ pkt_new[4].value = 0
    BY <1>1, <1>2, <1>3
  <2> QED
    BY <2>1, Limits DEF pkt_get_length
<1>5. Small(pkt_new)
  BY <1>1, <1>3, Limits DEF Small
<1> QED
  BY <1>2, <1>3, <1>4, <1>5 DEF BuildOk, Built, valid_length

\* One cell that is not part of the length.
LEMMA CellIsSet ==
  ASSUME NEW m, BuildOk(m), NEW i \in {1, 2, 5}, NEW c \in Plain,
         c.value \in 0 .. CellLimit(i) - 1
  PROVE  BuildOk([m EXCEPT ![i] = c])
<1> DEFINE p == [m EXCEPT ![i] = c]
<1>1. m \in Seq(Cells) /\ Len(m) = 9 + MAX_PAYLOAD_SIZE /\ MAX_PAYLOAD_SIZE \in Nat
  BY BuiltIs, Sizes DEF BuildOk
<1>2. i \in 1 .. Len(m) /\ c \in Cells
  BY <1>1, PlainCell
<1>3. /\ p \in Seq(Cells) /\ Len(p) = Len(m)
      /\ \A j \in 1 .. Len(m) : p[j] = IF j = i THEN c ELSE m[j]
  BY <1>1, <1>2, ExceptSeq
<1> HIDE DEF p
<1>4. valid_length(pkt_get_length(p))
  <2>1. p[3] = m[3] /\ p[4] = m[4]
    BY <1>1, <1>3
  <2> QED
    BY <2>1 DEF BuildOk, Built, pkt_get_length
<1>5. BuildOk(p)
  BY <1>3, <1>4, StaysBuilt
<1> QED
  BY <1>5 DEF p

LEMMA FlagsAreSet ==
  ASSUME NEW m, BuildOk(m), NEW type \in 0 .. 3, NEW tr \in 0 .. 1, NEW window \in Windows
  PROVE  BuildOk(PutFlags(m, type, tr, window))
<1>1. m \in Seq(Cells) /\ Len(m) >= 1 /\ type \in Nat /\ type < 4
  BY BuiltIs, Sizes DEF BuildOk
<1> DEFINE c == Cell(window + (MAX_WINDOW_SIZE + 1) * (tr + 2 * type))
<1>2. LET p == PutFlags(m, type, tr, window)
      IN  /\ p[1] = c /\ p[1] \in Plain
          /\ type < 4 => p[1].value \in 0 .. 8 * (MAX_WINDOW_SIZE + 1) - 1
  BY <1>1, PutFlagsIs
<1>3. PutFlags(m, type, tr, window) = [m EXCEPT ![1] = c]
  BY DEF PutFlags
<1>4. c \in Plain /\ c.value \in 0 .. CellLimit(1) - 1
  BY <1>1, <1>2, Limits
<1> DEFINE i == 1
<1>5. i \in {1, 2, 5} /\ c.value \in 0 .. CellLimit(i) - 1
  BY <1>4
<1> HIDE DEF c, i
<1>6. BuildOk([m EXCEPT ![i] = c])
  BY <1>4, <1>5, CellIsSet
<1> QED
  BY <1>3, <1>6 DEF i

LEMMA LengthIsSet ==
  ASSUME NEW m, BuildOk(m), NEW n \in 0 .. MAX_PAYLOAD_SIZE
  PROVE  BuildOk(PutLength(m, n)) /\ pkt_get_length(PutLength(m, n)) = n
<1> DEFINE p == PutLength(m, n)
<1>1. m \in Seq(Cells) /\ Len(m) >= 4 /\ n \in Nat /\ n \in Lengths
  BY BuiltIs, Sizes DEF BuildOk
<1>2. /\ p \in Seq(Cells) /\ Len(p) = Len(m)
      /\ p[3] = Cell(n % Byte) /\ p[4] = Cell(n \div Byte)
      /\ p[3] \in Plain /\ p[4] \in Plain
      /\ \A i \in 1 .. Len(m) : i \notin {3, 4} => p[i] = m[i]
      /\ pkt_get_length(p) = n
  BY <1>1, PutLengthIs
<1> HIDE DEF p
<1>3. n % Byte \in 0 .. Byte - 1 /\ n \div Byte \in 0 .. Byte - 1
  BY <1>1, LengthApart
<1>4. p[3].value \in 0 .. CellLimit(3) - 1 /\ p[4].value \in 0 .. CellLimit(4) - 1
  BY <1>2, <1>3 DEF Cell, CellLimit
<1>5. valid_length(pkt_get_length(p))
  BY <1>2, Sizes DEF valid_length
<1>6. BuildOk(p)
  BY <1>2, <1>4, <1>5, StaysBuilt
<1> QED
  BY <1>2, <1>6 DEF p

\* The payload is behind the header.
LEMMA PayloadIsSet ==
  ASSUME NEW m, BuildOk(m), NEW data \in Seq(Plain), Len(data) <= MAX_PAYLOAD_SIZE,
         \A i \in 1 .. Len(data) : data[i].value \in Values
  PROVE  BuildOk(pkt_set_payload(m, data).pkt)
<1> DEFINE sized == PutLength(m, Len(data))
           p == Copy(sized, 7, data)
<1>1. data \in Seq(Cells) /\ Len(data) \in 0 .. MAX_PAYLOAD_SIZE /\ MAX_PAYLOAD_SIZE \in Nat
  BY LenProperties, PlainCell, SeqMonotonic, Sizes
<1>2. BuildOk(sized)
  BY <1>1, LengthIsSet
<1>3. pkt_set_payload(m, data).pkt = p
  BY Sizes DEF pkt_set_payload, pkt_set_length, Checked, Returns, valid_length
<1> HIDE DEF sized
<1>4. sized \in Seq(Cells) /\ Len(sized) = 9 + MAX_PAYLOAD_SIZE
  BY <1>2, BuiltIs DEF BuildOk
<1>5. /\ p \in Seq(Cells) /\ Len(p) = Len(sized)
      /\ \A i \in 1 .. Len(sized) :
           p[i] = IF i \in 7 + 1 .. 7 + Len(data) THEN data[i - 7] ELSE sized[i]
  <2> DEFINE offset == 7
  <2>1. offset \in Nat /\ offset + Len(data) <= Len(sized)
    BY <1>1, <1>4
  <2> HIDE DEF offset
  <2>2. /\ Copy(sized, offset, data) \in Seq(Cells) /\ Len(Copy(sized, offset, data)) = Len(sized)
        /\ \A i \in 1 .. Len(sized) :
             Copy(sized, offset, data)[i] =
               IF i \in offset + 1 .. offset + Len(data) THEN data[i - offset] ELSE sized[i]
    BY <1>1, <1>4, <2>1, CopyIs
  <2> QED
    BY <2>2 DEF offset
<1> HIDE DEF p
<1>6. ASSUME NEW i \in 1 .. Len(sized)
      PROVE  p[i] = sized[i] \/ (p[i] \in Plain /\ p[i].value \in 0 .. CellLimit(i) - 1)
  <2>1. CASE i \notin 7 + 1 .. 7 + Len(data)
    BY <1>5, <2>1
  <2>2. CASE i \in 7 + 1 .. 7 + Len(data)
    <3>1. i - 7 \in 1 .. Len(data) /\ p[i] = data[i - 7]
      BY <1>1, <1>4, <1>5, <2>2
    <3>2. data[i - 7] \in Plain /\ data[i - 7].value \in Values
      BY <3>1, ElementOfSeq
    <3>3. CellLimit(i) = Byte
      BY <1>1, <1>4, <2>2, Limits
    <3> QED
      BY <3>1, <3>2, <3>3 DEF Values
  <2> QED
    BY <2>1, <2>2
<1>7. valid_length(pkt_get_length(p))
  <2>1. p[3] = sized[3] /\ p[4] = sized[4]
    BY <1>1, <1>4, <1>5
  <2> QED
    BY <1>2, <2>1 DEF BuildOk, Built, pkt_get_length
<1>8. BuildOk(p)
  BY <1>2, <1>5, <1>6, <1>7, StaysBuilt
<1> QED
  BY <1>3, <1>8

LEMMA BuiltFlags ==
  ASSUME NEW m, BuildOk(m)
  PROVE  /\ pkt_get_type(m) \in 0 .. 3 /\ pkt_get_tr(m) \in 0 .. 1
         /\ pkt_get_window(m) \in Windows
<1>1. m[1].value \in 0 .. CellLimit(1) - 1
  <2>1. 1 \in DOMAIN m
    BY BuiltIs, LenProperties, Sizes DEF BuildOk
  <2> QED
    BY <2>1 DEF BuildOk, Small
<1>2. m[1].value \in Nat /\ m[1].value < 8 * (MAX_WINDOW_SIZE + 1)
  BY <1>1, Limits
<1> QED
  BY <1>2, FlagsOf

LEMMA SetKeepsBuilt ==
  ASSUME BuildOk(pkt), SetField
  PROVE  BuildOk(pkt')
<1>1. /\ pkt_get_type(pkt) \in 0 .. 3 /\ pkt_get_tr(pkt) \in 0 .. 1
      /\ pkt_get_window(pkt) \in Windows
  BY BuiltFlags
<1>2. ASSUME NEW type \in 0 .. 3, Set(pkt_set_type(pkt, type))
      PROVE  BuildOk(pkt')
  <2>1. pkt' = pkt \/ pkt' = PutFlags(pkt, type, pkt_get_tr(pkt), pkt_get_window(pkt))
    BY <1>2 DEF Set, pkt_set_type, Checked, Returns
  <2> QED
    BY <1>1, <2>1, FlagsAreSet
<1>3. ASSUME NEW tr \in 0 .. 1, Set(pkt_set_tr(pkt, tr))
      PROVE  BuildOk(pkt')
  <2>1. pkt' = pkt \/ pkt' = PutFlags(pkt, pkt_get_type(pkt), tr, pkt_get_window(pkt))
    BY <1>3 DEF Set, pkt_set_tr, PutTr, Checked, Returns
  <2> QED
    BY <1>1, <2>1, FlagsAreSet
<1>4. ASSUME NEW window \in 0 .. MAX_WINDOW_SIZE + 1, Set(pkt_set_window(pkt, window))
      PROVE  BuildOk(pkt')
  <2>1. CASE pkt' = pkt
    BY <2>1
  <2>2. CASE /\ valid_window(window)
             /\ pkt' = PutFlags(pkt, pkt_get_type(pkt), pkt_get_tr(pkt), window)
    <3>1. window \in Windows
      BY <2>2, Limits DEF valid_window, Windows
    <3> QED
      BY <1>1, <2>2, <3>1, FlagsAreSet
  <2> QED
    BY <1>4, <2>1, <2>2 DEF Set, pkt_set_window, Checked, Returns
<1>5. ASSUME NEW seqnum \in Values, Set(pkt_set_seqnum(pkt, seqnum))
      PROVE  BuildOk(pkt')
  <2> DEFINE c == Cell(seqnum)
             i == 2
  <2>1. pkt' = [pkt EXCEPT ![i] = c]
    BY <1>5 DEF Set, pkt_set_seqnum, Returns
  <2>2. c \in Plain /\ c.value \in 0 .. CellLimit(i) - 1 /\ i \in {1, 2, 5}
    BY PlainCell, Limits DEF CellLimit, Values
  <2> HIDE DEF c, i
  <2> QED
    BY <2>1, <2>2, CellIsSet
<1>6. ASSUME NEW length \in 0 .. MAX_PAYLOAD_SIZE + 1, Set(pkt_set_length(pkt, length))
      PROVE  BuildOk(pkt')
  <2>1. CASE pkt' = pkt
    BY <2>1
  <2>2. CASE valid_length(length) /\ pkt' = PutLength(pkt, length)
    <3>1. length \in 0 .. MAX_PAYLOAD_SIZE
      BY <2>2, Sizes DEF valid_length
    <3> QED
      BY <2>2, <3>1, LengthIsSet
  <2> QED
    BY <1>6, <2>1, <2>2 DEF Set, pkt_set_length, Checked, Returns
<1>7. ASSUME NEW data \in Payloads, Set(pkt_set_payload(pkt, data))
      PROVE  BuildOk(pkt')
  <2>1. PICK n \in 0 .. MAX_PAYLOAD_SIZE : data \in [1 .. n -> {Cell(b) : b \in Values}]
    BY DEF Payloads
  <2>2. \A b \in Values : Cell(b) \in Plain /\ Cell(b).value = b
    BY PlainCell, Limits DEF Values
  <2>3. n \in Nat /\ n <= MAX_PAYLOAD_SIZE
    BY Sizes
  <2>4. \A i \in 1 .. n : data[i] \in Plain /\ data[i].value \in Values
    <3> HIDE DEF Cell
    <3> QED
      BY <2>1, <2>2
  <2>5. data \in Seq(Plain) /\ Len(data) = n
    BY <2>1, <2>3, <2>4
  <2>6. BuildOk(pkt_set_payload(pkt, data).pkt)
    BY <2>3, <2>4, <2>5, PayloadIsSet
  <2> QED
    BY <1>7, <2>6 DEF Set
<1>8. ASSUME NEW ts \in Values, Set(pkt_set_timestamp(pkt, ts))
      PROVE  BuildOk(pkt')
  <2> DEFINE c == Cell(ts)
             i == 5
  <2>1. pkt' = [pkt EXCEPT ![i] = c]
    BY <1>8 DEF Set, pkt_set_timestamp, Returns
  <2>2. c \in Plain /\ c.value \in 0 .. CellLimit(i) - 1 /\ i \in {1, 2, 5}
    BY PlainCell, Limits DEF CellLimit, Values
  <2> HIDE DEF c, i
  <2> QED
    BY <2>1, <2>2, CellIsSet
<1> QED
  BY <1>2, <1>3, <1>4, <1>5, <1>6, <1>7, <1>8 DEF SetField

\* What the largest packet leaves in the slot it is decoded in.
LEMMA LeftoverIs == Leftover \in Memory
<1> DEFINE typed == pkt_set_type(pkt_new, PTYPE_DATA).pkt
           data == [i \in 1 .. MAX_PAYLOAD_SIZE |-> Cell(1)]
<1>1. BuildOk(typed)
  <2>1. BuildOk(pkt_new)
    BY NewIsBuilt
  <2>2. pkt_get_tr(pkt_new) \in 0 .. 1 /\ pkt_get_window(pkt_new) \in Windows
    BY <2>1, BuiltFlags
  <2>3. typed = PutFlags(pkt_new, 1, pkt_get_tr(pkt_new), pkt_get_window(pkt_new))
    BY DEF pkt_set_type, valid_type, Checked, Returns, PTYPE_DATA
  <2> HIDE DEF typed
  <2>4. \A type \in 0 .. 3 :
          BuildOk(PutFlags(pkt_new, type, pkt_get_tr(pkt_new), pkt_get_window(pkt_new)))
    BY <2>1, <2>2, FlagsAreSet
  <2> QED
    BY <2>3, <2>4
<1>2. /\ data \in Seq(Plain) /\ Len(data) = MAX_PAYLOAD_SIZE
      /\ \A i \in 1 .. Len(data) : data[i].value \in Values
  <2>1. Cell(1) \in Plain /\ Cell(1).value = 1 /\ 1 \in Values /\ MAX_PAYLOAD_SIZE \in Nat
    BY PlainCell, Sizes, Limits DEF Values
  <2> QED
    BY <2>1
<1>3. Largest = pkt_set_payload(typed, data).pkt
  BY DEF Largest
<1> HIDE DEF typed, data
<1>4. BuildOk(Largest)
  BY <1>1, <1>2, <1>3, Sizes, PayloadIsSet
<1>5. pkt_encode_inline(Largest) \in Memory
  BY <1>4, EncodeIs DEF BuildOk
<1>6. PktSize \in 0 .. PktSize
  BY Sizes
<1> QED
  BY <1>5, <1>6, DecodeIs DEF Leftover

(***************************************************************************)
(* The wire                                                                *)
(***************************************************************************)

\* A packet without payload is its header, any other has a CRC behind it.
LEMMA SerialLength ==
  ASSUME NEW m, BuildOk(m)
  PROVE  LET plen == pkt_get_length(m)
             n == pkt_len_serial(pkt_encode_inline(m))
         IN  /\ plen \in 0 .. MAX_PAYLOAD_SIZE
             /\ plen = 0 => n = 7
             /\ plen # 0 => n = 9 + plen
             /\ n \in 7 .. PktSize
             /\ htons(pkt_get_length(pkt_encode_inline(m))) = plen
<1> DEFINE plen == pkt_get_length(m)
           e == pkt_encode_inline(m)
<1>1. plen \in 0 .. MAX_PAYLOAD_SIZE /\ plen \in Lengths
  BY BuiltIs DEF BuildOk
<1>2. pkt_get_length(e) = htons(plen)
  BY EncodeIs DEF BuildOk
<1> HIDE DEF plen, e
<1>3. htons(htons(plen)) = plen /\ (htons(plen) = 0 <=> plen = 0)
  BY <1>1, LengthApart
<1>4. pkt_len_serial(e) = IF plen # 0 THEN 9 + plen ELSE 7
  BY <1>1, <1>2, <1>3, Sizes DEF pkt_len_serial
<1> QED
  BY <1>1, <1>2, <1>3, <1>4, Sizes DEF plen, e

\* The cells of a datagram come from the packet or hold no CRC.
OnWire(w, e) ==
  /\ w \in Seq(Cells) /\ Len(w) <= pkt_len_serial(e)
  /\ Small(w)
  /\ \A i \in 1 .. Len(w) : w[i] = e[i] \/ w[i].of = << >>

\* The datagram that is sent, and what is left of it when it is cut.
Datagram(e) == Bytes(e, 0, pkt_len_serial(e))
CutOf(w) == Bytes(PutTr(w, 1), 0, PKT_HEADERLEN)

LEMMA EncodedIsSmall ==
  ASSUME NEW m, BuildOk(m),
         NEW i \in 1 .. pkt_len_serial(pkt_encode_inline(m))
  PROVE  pkt_encode_inline(m)[i].value \in 0 .. CellLimit(i) - 1
<1> DEFINE plen == pkt_get_length(m)
           e == pkt_encode_inline(m)
           header == HeaderCells(e)
           payload == Bytes(m, 7, plen)
<1>1. /\ plen \in 0 .. MAX_PAYLOAD_SIZE /\ plen \in Lengths /\ m \in Seq(Plain)
      /\ DOMAIN m = 1 .. 9 + MAX_PAYLOAD_SIZE
  BY BuiltIs, LenProperties DEF BuildOk, Built
<1>2. /\ \A j \in 1 .. 7 + plen : j \notin {3, 4, 6, 7} => e[j] = m[j]
      /\ e[3] = Cell(htons(plen) % Byte) /\ e[4] = Cell(htons(plen) \div Byte)
      /\ e[6] = [value |-> 1, of |-> header] /\ e[7] = [value |-> 0, of |-> header]
      /\ plen # 0 => /\ e[8 + plen] = [value |-> 1, of |-> payload]
                     /\ e[9 + plen] = [value |-> 0, of |-> payload]
  BY EncodeIs DEF BuildOk
<1>3. i \in 1 .. 7 + plen \/ (plen # 0 /\ i \in {8 + plen, 9 + plen})
  <2>1. i \in 1 .. (IF plen = 0 THEN 7 ELSE 9 + plen)
    BY SerialLength
  <2> QED
    BY <1>1, <2>1
<1>4. m[i].value \in 0 .. CellLimit(i) - 1 \/ i > 7 + plen
  <2>1. i \in DOMAIN m \/ i > 7 + plen
    BY <1>1, <1>3, Sizes
  <2> QED
    BY <2>1 DEF BuildOk, Small
<1>5. /\ e[3].value \in 0 .. Byte - 1 /\ e[4].value \in 0 .. Byte - 1
      /\ e[6].value \in 0 .. 1 /\ e[7].value \in 0 .. 1
      /\ plen # 0 => e[8 + plen].value \in 0 .. 1 /\ e[9 + plen].value \in 0 .. 1
  <2>1. htons(plen) % Byte \in 0 .. Byte - 1 /\ htons(plen) \div Byte \in 0 .. Byte - 1
    BY <1>1, LengthApart
  <2> QED
    BY <1>2, <2>1 DEF Cell
<1> HIDE DEF e, plen
<1>6. CASE i \in 1 .. 7 + plen /\ i \notin {3, 4, 6, 7}
  <2>1. e[i] = m[i] /\ m[i].value \in 0 .. CellLimit(i) - 1
    BY <1>1, <1>2, <1>4, <1>6
  <2> QED
    BY <2>1 DEF e
<1>7. CASE i \in {3, 4, 6, 7}
  <2>1. e[i].value \in 0 .. Byte - 1 /\ CellLimit(i) = Byte
    BY <1>5, <1>7, Limits
  <2> QED
    BY <2>1 DEF e
<1>8. CASE plen # 0 /\ i \in {8 + plen, 9 + plen}
  <2>1. CellLimit(i) = Byte
    BY <1>1, <1>8, Limits
  <2>2. e[i].value \in 0 .. Byte - 1
    BY <1>5, <1>8, Limits
  <2> QED
    BY <2>1, <2>2 DEF e
<1> QED
  BY <1>3, <1>6, <1>7, <1>8

\* What is sent is on the wire.
LEMMA SentOnWire ==
  ASSUME NEW m, BuildOk(m)
  PROVE  LET e == pkt_encode_inline(m)
         IN  /\ OnWire(Datagram(e), e) /\ Len(Datagram(e)) = pkt_len_serial(e)
             /\ \A i \in 1 .. pkt_len_serial(e) : Datagram(e)[i] = e[i]
<1> DEFINE e == pkt_encode_inline(m)
           n == pkt_len_serial(e)
           w == Datagram(e)
<1>1. n \in 7 .. PktSize
  BY SerialLength
<1>2. e \in Seq(Cells) /\ Len(e) = PktSize
  BY EncodeIs, Sizes DEF BuildOk
<1>3. \A i \in 1 .. n : e[i].value \in 0 .. CellLimit(i) - 1
  BY EncodedIsSmall
<1> HIDE DEF e
<1>4. n \in Nat /\ \A i \in 1 .. n : e[i] \in Cells
  BY <1>1, <1>2, Sizes, ElementOfSeq
<1>5. w = Bytes(e, 0, n)
  BY DEF Datagram
<1> HIDE DEF n, w
<1>6. w \in Seq(Cells) /\ Len(w) = n
  BY <1>4, <1>5, FirstBytesSeq
<1>7. \A i \in 1 .. n : w[i] = e[i]
  BY <1>4, <1>5, FirstBytesAre
<1>8. Small(w)
  BY <1>3, <1>6, <1>7, LenProperties DEF Small
<1>9. OnWire(w, e)
  BY <1>4, <1>6, <1>7, <1>8 DEF OnWire, n
<1> QED
  BY <1>6, <1>7, <1>9 DEF w, n, e

\* A part of a datagram.
LEMMA PartOnWire ==
  ASSUME NEW e, NEW w, OnWire(w, e), pkt_len_serial(e) \in Nat, NEW n \in 0 .. Len(w)
  PROVE  OnWire(Bytes(w, 0, n), e) /\ Len(Bytes(w, 0, n)) = n
<1> DEFINE p == Bytes(w, 0, n)
<1>1. w \in Seq(Cells) /\ Len(w) \in Nat /\ DOMAIN w = 1 .. Len(w)
  BY LenProperties DEF OnWire
<1>2. n \in Nat /\ \A i \in 1 .. n : i \in 1 .. Len(w) /\ w[i] \in Cells
  BY <1>1, ElementOfSeq
<1>3. p \in Seq(Cells) /\ Len(p) = n
  BY <1>2, FirstBytesSeq
<1>4. \A i \in 1 .. n : p[i] = w[i]
  BY <1>2, FirstBytesAre
<1> HIDE DEF p
<1>5. Small(p)
  BY <1>1, <1>2, <1>3, <1>4, LenProperties DEF Small, OnWire
<1>6. Len(p) <= pkt_len_serial(e)
  BY <1>1, <1>3 DEF OnWire
<1>7. \A i \in 1 .. Len(p) : p[i] = e[i] \/ p[i].of = << >>
  BY <1>2, <1>3, <1>4 DEF OnWire
<1> QED
  BY <1>3, <1>5, <1>6, <1>7 DEF OnWire, p

\* A cell of it that is written over.
LEMMA DamagedOnWire ==
  ASSUME NEW e, NEW w, OnWire(w, e), NEW i \in 1 .. Len(w), NEW c \in Plain,
         c.value \in 0 .. CellLimit(i) - 1
  PROVE  OnWire([w EXCEPT ![i] = c], e) /\ Len([w EXCEPT ![i] = c]) = Len(w)
<1> DEFINE p == [w EXCEPT ![i] = c]
<1>1. w \in Seq(Cells) /\ DOMAIN w = 1 .. Len(w) /\ c \in Cells /\ c.of = << >>
  BY LenProperties, PlainCell DEF OnWire, Plain
<1>2. /\ p \in Seq(Cells) /\ Len(p) = Len(w) /\ DOMAIN p = 1 .. Len(w)
      /\ \A j \in 1 .. Len(w) : p[j] = IF j = i THEN c ELSE w[j]
  BY <1>1, ExceptSeq
<1> HIDE DEF p
<1>3. Small(p)
  BY <1>1, <1>2 DEF Small, OnWire
<1>4. \A j \in 1 .. Len(w) : p[j] = e[j] \/ p[j].of = << >>
  BY <1>1, <1>2 DEF OnWire
<1> QED
  BY <1>2, <1>3, <1>4 DEF OnWire, p

(***************************************************************************)
(* What the receiver finds                                                 *)
(***************************************************************************)

LEMMA PayloadIs ==
  ASSUME NEW p, pkt_get_length(p) \in 0 .. MAX_PAYLOAD_SIZE
  PROVE  Payload(p) = Bytes(p, 7, pkt_get_length(p))
<1> DEFINE n == pkt_get_length(p)
           b == Bytes(p, 7, MAX_PAYLOAD_SIZE)
<1>1. n \in Nat /\ n <= MAX_PAYLOAD_SIZE /\ MAX_PAYLOAD_SIZE \in Nat
  BY Sizes
<1>2. Payload(p) = SubSeq(b, 1, n)
  BY Sizes DEF Payload, pkt_get_payload
<1> HIDE DEF n
<1>3. \A i \in 1 .. n : b[i] = p[7 + i]
  BY <1>1, BytesAre
<1> HIDE DEF b
<1>4. SubSeq(b, 1, n) = Bytes(p, 7, n)
  BY <1>1, <1>3 DEF Bytes
<1> QED
  BY <1>2, <1>4 DEF n

\* A datagram is read over what was in the slot.
LEMMA Received ==
  ASSUME NEW w \in Seq(Cells), Len(w) <= PktSize, NEW old \in Memory
  PROVE  LET m == Copy(old, 0, w)
         IN  /\ m \in Memory /\ m \in Seq(Cells) /\ Len(m) = PktSize
             /\ \A i \in 1 .. Len(w) : m[i] = w[i]
             /\ Len(w) \in 0 .. PktSize
             /\ pkt_decode(w, old) = pkt_decode_inline(m, Len(w))
<1>1. old \in Seq(Cells) /\ Len(old) = PktSize /\ PktSize \in Nat /\ Len(w) \in Nat
  BY Sizes, LenProperties DEF Memory
<1> DEFINE offset == 0
<1>2. offset \in Nat /\ offset + Len(w) <= Len(old)
  BY <1>1
<1> HIDE DEF offset
<1>3. /\ Copy(old, offset, w) \in Seq(Cells) /\ Len(Copy(old, offset, w)) = Len(old)
      /\ \A i \in 1 .. Len(old) :
           Copy(old, offset, w)[i] =
             IF i \in offset + 1 .. offset + Len(w) THEN w[i - offset] ELSE old[i]
  BY <1>1, <1>2, CopyIs
<1>4. \A i \in 1 .. Len(w) : Copy(old, 0, w)[i] = w[i]
  BY <1>1, <1>3 DEF offset
<1>5. pkt_decode(w, old) = pkt_decode_inline(Copy(old, 0, w), Len(w))
  BY <1>1 DEF pkt_decode
<1> QED
  BY <1>1, <1>3, <1>4, <1>5 DEF Memory, offset

\* A CRC is not empty, so that one that is found good is the one that was sent.
LEMMA GoodMeansSent ==
  ASSUME NEW e, NEW w, OnWire(w, e), NEW i \in 1 .. Len(w),
         NEW cells, cells # << >>, w[i].of = cells
  PROVE  w[i] = e[i]
BY DEF OnWire

\* Whatever happens to a datagram, a header that is accepted is the one that was
\* sent, and so is a payload.
LEMMA AcceptedIsSent ==
  ASSUME NEW p, BuildOk(p),
         NEW w, OnWire(w, pkt_encode_inline(p)), NEW old \in Memory,
         pkt_decode(w, old).code = "PKT_OK"
  PROVE  LET d == pkt_decode(w, old)
         IN  /\ SameHeader(d.pkt, p)
             /\ pkt_get_tr(d.pkt) = 0 => Payload(d.pkt) = Payload(p)
             /\ pkt_get_tr(d.pkt) = 1 => pkt_get_type(d.pkt) = PTYPE_DATA
<1> DEFINE e == pkt_encode_inline(p)
           plen == pkt_get_length(p)
           m == Copy(old, 0, w)
           rlen == Len(w)
           d == pkt_decode(w, old)
<1>1. /\ p \in Seq(Cells) /\ Len(p) = 9 + MAX_PAYLOAD_SIZE /\ MAX_PAYLOAD_SIZE \in Nat
      /\ plen \in 0 .. MAX_PAYLOAD_SIZE /\ PktSize = 9 + MAX_PAYLOAD_SIZE
  BY BuiltIs, Sizes DEF BuildOk
<1>2. /\ e \in Seq(Cells) /\ Len(e) = 9 + MAX_PAYLOAD_SIZE
      /\ \A i \in 1 .. 7 + plen : i \notin {3, 4, 6, 7} => e[i] = p[i]
      /\ HeaderCells(e) \in Seq(Plain) /\ Len(HeaderCells(e)) = 5
      /\ e[6] = [value |-> 1, of |-> HeaderCells(e)]
      /\ e[7] = [value |-> 0, of |-> HeaderCells(e)]
      /\ plen # 0 =>
           /\ Bytes(p, 7, plen) \in Seq(Plain) /\ Len(Bytes(p, 7, plen)) = plen
           /\ e[8 + plen] = [value |-> 1, of |-> Bytes(p, 7, plen)]
           /\ e[9 + plen] = [value |-> 0, of |-> Bytes(p, 7, plen)]
  BY EncodeIs DEF BuildOk
<1>3. /\ plen = 0 => pkt_len_serial(e) = 7
      /\ plen # 0 => pkt_len_serial(e) = 9 + plen
      /\ pkt_len_serial(e) \in 7 .. PktSize
      /\ htons(pkt_get_length(e)) = plen
  BY SerialLength
<1> HIDE DEF e
<1>4. /\ w \in Seq(Cells) /\ rlen <= PktSize /\ OnWire(w, e)
  BY <1>1, <1>3, LenProperties DEF OnWire, e
<1>5. /\ m \in Memory /\ m \in Seq(Cells) /\ Len(m) = PktSize
      /\ \A i \in 1 .. rlen : m[i] = w[i]
      /\ rlen \in 0 .. PktSize
      /\ d = pkt_decode_inline(m, rlen)
  BY <1>4, Received
<1> HIDE DEF m, rlen, d, plen
<1>6. /\ DecodeError(m, rlen) = "PKT_OK"
      /\ \A i \in 1 .. 7 + MAX_PAYLOAD_SIZE : i \notin {3, 4, 6, 7} => d.pkt[i] = m[i]
      /\ pkt_get_length(d.pkt) = htons(pkt_get_length(m))
  BY <1>5, DecodeIs DEF d
<1>7. /\ ~(rlen < 7) /\ valid_type(pkt_get_type(m)) /\ valid_tr(pkt_get_type(m), pkt_get_tr(m))
      /\ GoodCrc1(m) /\ Consistent(m, rlen)
      /\ PayloadLen(rlen) # 0 => GoodCrc2(m, rlen)
  BY <1>6, Accepted, Sizes
<1>8. rlen \in 7 .. PktSize
  BY <1>1, <1>5, <1>7
<1>9. HeaderCells(m) = HeaderCells(e)
  <2>1. m[6].of = HeaderCells(m)
    <3>1. Len(m) >= 7
      BY <1>1, <1>5
    <3>2. m[6] = [value |-> 1, of |-> HeaderCells(m)]
      BY <1>5, <1>7, <3>1, GoodCrc1Is
    <3> QED
      BY <3>2
  <2>2. HeaderCells(m) # << >>
    <3>1. Len(HeaderCells(m)) = 5
      BY <1>1, <1>5, HeaderIs
    <3> QED
      BY <3>1, EmptySeq
  <2>3. 6 \in 1 .. Len(w) /\ m[6] = w[6]
    BY <1>5, <1>8 DEF rlen
  <2> DEFINE i == 6
             cells == HeaderCells(m)
  <2>4. i \in 1 .. Len(w) /\ cells # << >> /\ w[i].of = cells
    BY <2>1, <2>2, <2>3
  <2> HIDE DEF i, cells
  <2>5. w[i] = e[i]
    BY <1>4, <2>4, GoodMeansSent
  <2> QED
    BY <1>2, <2>1, <2>3, <2>5 DEF i
<1>10. /\ pkt_get_type(m) = pkt_get_type(e) /\ pkt_get_window(m) = pkt_get_window(e)
       /\ \A i \in 2 .. 5 : m[i] = e[i]
  <2>1. Len(m) >= 5 /\ Len(e) >= 5
    BY <1>1, <1>2, <1>5
  <2> QED
    BY <1>2, <1>5, <1>9, <2>1, SameHeaderCells
<1>11. pkt_get_length(m) = pkt_get_length(e)
  BY <1>10 DEF pkt_get_length
<1>12. pkt_get_length(d.pkt) = plen
  BY <1>3, <1>6, <1>11
<1>13. d.pkt[1] = m[1] /\ d.pkt[2] = m[2] /\ d.pkt[5] = m[5]
  BY <1>1, <1>6
<1>14. e[1] = p[1] /\ e[2] = p[2] /\ e[5] = p[5]
  BY <1>1, <1>2
<1>15. /\ pkt_get_type(d.pkt) = pkt_get_type(m) /\ pkt_get_type(e) = pkt_get_type(p)
       /\ pkt_get_window(d.pkt) = pkt_get_window(m) /\ pkt_get_window(e) = pkt_get_window(p)
       /\ pkt_get_tr(d.pkt) = pkt_get_tr(m)
  BY <1>13, <1>14 DEF pkt_get_type, pkt_get_window, pkt_get_tr
<1>16. SameHeader(d.pkt, p)
  <2>1. pkt_get_seqnum(d.pkt) = pkt_get_seqnum(p) /\ pkt_get_timestamp(d.pkt) = pkt_get_timestamp(p)
    BY <1>10, <1>13, <1>14 DEF pkt_get_seqnum, pkt_get_timestamp
  <2> QED
    BY <1>10, <1>12, <1>15, <2>1 DEF SameHeader, plen
<1>17. ASSUME pkt_get_tr(d.pkt) = 1
       PROVE  pkt_get_type(d.pkt) = PTYPE_DATA
  BY <1>7, <1>15, <1>17 DEF valid_tr
<1>18. ASSUME pkt_get_tr(d.pkt) = 0
       PROVE  Bytes(d.pkt, 7, plen) = Bytes(p, 7, plen)
  <2>1. CASE plen = 0
    BY <2>1 DEF Bytes
  <2>2. CASE plen # 0
    <3>1. plen \in Nat /\ plen > 0
      BY <1>1, <2>2
    <3>2. PayloadLen(rlen) = plen
      BY <1>3, <1>7, <1>11, <1>15, <1>18, <2>2 DEF Consistent
    <3>3. rlen = 9 + plen
      BY <1>1, <1>8, <2>2, <3>2, PayloadLenIs
    <3>4. FoundCrc2(m, rlen) = crc_of(Bytes(m, 7, plen))
      BY <1>7, <2>2, <3>2, Sizes DEF GoodCrc2
    <3>5. m[rlen].of = Bytes(m, 7, plen)
      <4>1. FoundCrc2(m, rlen) = <<m[rlen - 1], m[rlen]>>
        BY <1>5, <1>8, FoundCrc2Is
      <4> QED
        BY <3>4, <4>1 DEF crc_of
    <3>6. Bytes(m, 7, plen) # << >>
      <4>1. Len(Bytes(m, 7, plen)) = plen
        BY <3>1 DEF Bytes
      <4> QED
        BY <3>1, <4>1, EmptySeq
    <3> DEFINE i == rlen
               cells == Bytes(m, 7, plen)
    <3>7. i \in 1 .. Len(w) /\ cells # << >> /\ w[i].of = cells
      BY <1>5, <1>8, <3>5, <3>6 DEF rlen
    <3>8. w[i] = e[i]
      <4> HIDE DEF i, cells
      <4> QED
        BY <1>4, <3>7, GoodMeansSent
    <3>9. Bytes(m, 7, plen) = Bytes(p, 7, plen)
      BY <1>2, <2>2, <3>3, <3>7, <3>8
    <3>10. Bytes(d.pkt, 7, plen) = Bytes(m, 7, plen)
      <4>1. \A j \in 1 .. plen : d.pkt[7 + j] = m[7 + j]
        BY <1>1, <1>6
      <4> QED
        BY <3>1, <4>1 DEF Bytes
    <3> QED
      BY <3>9, <3>10
  <2> QED
    BY <2>1, <2>2
<1>19. Payload(p) = Bytes(p, 7, plen) /\ Payload(d.pkt) = Bytes(d.pkt, 7, plen)
  BY <1>1, <1>12, PayloadIs DEF plen
<1> QED
  BY <1>16, <1>17, <1>18, <1>19 DEF d

\* A header that differs from the one that was sent in TR at most passes the
\* checks of the decoder.
LEMMA HeaderPasses ==
  ASSUME NEW p, BuildOk(p), WellFormed(p), NEW m \in Memory,
         pkt_get_type(m) = pkt_get_type(p), pkt_get_window(m) = pkt_get_window(p),
         \A i \in 2 .. 7 : m[i] = pkt_encode_inline(p)[i]
  PROVE  /\ GoodCrc1(m)
         /\ htons(pkt_get_length(m)) = pkt_get_length(p)
         /\ valid_type(pkt_get_type(m)) /\ valid_length(htons(pkt_get_length(m)))
         /\ HeaderCrc(m) = HeaderCrc(pkt_encode_inline(p))
<1> DEFINE e == pkt_encode_inline(p)
<1>1. /\ e \in Seq(Cells) /\ Len(e) = 9 + MAX_PAYLOAD_SIZE
      /\ e[1] = p[1]
      /\ e[6] = [value |-> 1, of |-> HeaderCells(e)]
      /\ e[7] = [value |-> 0, of |-> HeaderCells(e)]
  <2>1. 1 \in 1 .. 7 + pkt_get_length(p) /\ 1 \notin {3, 4, 6, 7}
    BY BuiltIs, Sizes DEF BuildOk
  <2> QED
    BY <2>1, EncodeIs DEF BuildOk
<1>2. /\ pkt_get_length(p) \in 0 .. MAX_PAYLOAD_SIZE
      /\ htons(pkt_get_length(e)) = pkt_get_length(p)
  BY SerialLength
<1> HIDE DEF e
<1>3. m \in Seq(Cells) /\ Len(m) >= 7 /\ Len(m) >= 5 /\ Len(e) >= 5
  BY <1>1, Sizes DEF Memory
<1>4. \A i \in 2 .. 7 : m[i] = e[i]
  BY DEF e
<1>5. HeaderCells(m) = HeaderCells(e)
  <2>1. pkt_get_type(e) = pkt_get_type(p) /\ pkt_get_window(e) = pkt_get_window(p)
    BY <1>1 DEF pkt_get_type, pkt_get_window
  <2>2. \A i \in 2 .. 5 : m[i] = e[i]
    BY <1>4
  <2>3. pkt_get_type(m) = pkt_get_type(e) /\ pkt_get_window(m) = pkt_get_window(e)
    BY <2>1
  <2> QED
    BY <1>1, <1>3, <2>2, <2>3, SameHeaderCells, Zenon
<1>6. GoodCrc1(m)
  <2>1. m[6] = e[6] /\ m[7] = e[7]
    BY <1>4
  <2>2. m[6] = [value |-> 1, of |-> HeaderCells(m)] /\ m[7] = [value |-> 0, of |-> HeaderCells(m)]
    BY <1>1, <1>5, <2>1
  <2> QED
    BY <1>3, <2>2, GoodCrc1Is
<1>7. htons(pkt_get_length(m)) = pkt_get_length(p)
  <2>1. m[3] = e[3] /\ m[4] = e[4]
    BY <1>4
  <2> QED
    BY <1>2, <2>1 DEF pkt_get_length
<1>8. HeaderCrc(m) = HeaderCrc(e)
  BY <1>5 DEF HeaderCrc, HeaderCells
<1>9. valid_length(htons(pkt_get_length(m)))
  BY <1>2, <1>7, Sizes DEF valid_length
<1> QED
  BY <1>6, <1>7, <1>8, <1>9 DEF WellFormed, e

\* A datagram that arrives as it was sent is accepted.
LEMMA WholeIsAccepted ==
  ASSUME NEW p, BuildOk(p), WellFormed(p), NEW old \in Memory
  PROVE  LET e == pkt_encode_inline(p)
             d == pkt_decode(Datagram(e), old)
         IN  /\ d.code = "PKT_OK" /\ pkt_get_tr(d.pkt) = 0
             /\ pkt_get_crc1(d.pkt) = HeaderCrc(e)
<1> DEFINE e == pkt_encode_inline(p)
           plen == pkt_get_length(p)
           w == Datagram(e)
           m == Copy(old, 0, w)
           rlen == Len(w)
           d == pkt_decode(w, old)
<1>1. /\ p \in Seq(Cells) /\ Len(p) = 9 + MAX_PAYLOAD_SIZE /\ MAX_PAYLOAD_SIZE \in Nat
      /\ plen \in 0 .. MAX_PAYLOAD_SIZE /\ PktSize = 9 + MAX_PAYLOAD_SIZE
  BY BuiltIs, Sizes DEF BuildOk
<1>2. /\ e \in Seq(Cells) /\ Len(e) = 9 + MAX_PAYLOAD_SIZE
      /\ \A i \in 1 .. 7 + plen : i \notin {3, 4, 6, 7} => e[i] = p[i]
      /\ plen # 0 =>
           /\ e[8 + plen] = [value |-> 1, of |-> Bytes(p, 7, plen)]
           /\ e[9 + plen] = [value |-> 0, of |-> Bytes(p, 7, plen)]
  BY EncodeIs DEF BuildOk
<1>3. /\ plen = 0 => rlen = 7
      /\ plen # 0 => rlen = 9 + plen
      /\ rlen \in 7 .. PktSize
      /\ OnWire(w, e)
      /\ \A i \in 1 .. rlen : w[i] = e[i]
  BY SerialLength, SentOnWire
<1>4. \A q \in Memory :
        (/\ pkt_get_type(q) = pkt_get_type(p) /\ pkt_get_window(q) = pkt_get_window(p)
         /\ \A i \in 2 .. 7 : q[i] = e[i])
        => /\ GoodCrc1(q) /\ htons(pkt_get_length(q)) = plen
           /\ valid_type(pkt_get_type(q)) /\ valid_length(htons(pkt_get_length(q)))
           /\ HeaderCrc(q) = HeaderCrc(e)
  BY HeaderPasses
<1> HIDE DEF e, w
<1>5. /\ m \in Memory /\ m \in Seq(Cells) /\ Len(m) = PktSize
      /\ \A i \in 1 .. rlen : m[i] = w[i]
      /\ d = pkt_decode_inline(m, rlen)
  <2>1. w \in Seq(Cells) /\ Len(w) <= PktSize
    BY <1>1, <1>3 DEF OnWire
  <2> QED
    BY <2>1, Received
<1> HIDE DEF m, rlen, d, plen
<1>6. \A i \in 1 .. rlen : m[i] = e[i]
  BY <1>3, <1>5
<1>7. m[1] = p[1]
  <2>1. m[1] = e[1] /\ e[1] = p[1]
    BY <1>1, <1>2, <1>3, <1>6
  <2> QED
    BY <2>1
<1>8. /\ pkt_get_type(m) = pkt_get_type(p) /\ pkt_get_window(m) = pkt_get_window(p)
      /\ pkt_get_tr(m) = 0
  BY <1>7 DEF pkt_get_type, pkt_get_window, pkt_get_tr, WellFormed
<1>9. /\ GoodCrc1(m) /\ htons(pkt_get_length(m)) = plen
      /\ valid_type(pkt_get_type(m)) /\ valid_length(htons(pkt_get_length(m)))
      /\ HeaderCrc(m) = HeaderCrc(e)
  <2>1. \A i \in 2 .. 7 : m[i] = e[i]
    BY <1>1, <1>3, <1>6
  <2> QED
    BY <1>4, <1>5, <1>8, <2>1
<1>10. PayloadLen(rlen) = plen
  <2>1. plen \in Nat
    BY <1>1
  <2> QED
    BY <1>3, <2>1, PayloadLenIs
<1>11. Consistent(m, rlen)
  BY <1>8, <1>9, <1>10 DEF Consistent, WellFormed, plen
<1>12. ASSUME plen # 0
       PROVE  GoodCrc2(m, rlen)
  <2>1. plen \in Nat /\ plen > 0 /\ rlen = 9 + plen
    BY <1>1, <1>3, <1>12
  <2>2. FoundCrc2(m, rlen) = <<m[rlen - 1], m[rlen]>>
    BY <1>3, <1>5, FoundCrc2Is
  <2>3. m[rlen - 1] = e[8 + plen] /\ m[rlen] = e[9 + plen]
    BY <1>6, <2>1
  <2>4. FoundCrc2(m, rlen) = crc_of(Bytes(p, 7, plen))
    BY <1>2, <1>12, <2>2, <2>3 DEF crc_of
  <2>5. Bytes(m, 7, plen) = Bytes(p, 7, plen)
    <3>1. ASSUME NEW j \in 1 .. plen
          PROVE  m[7 + j] = p[7 + j]
      <4>1. 7 + j \in 1 .. rlen /\ 7 + j \in 1 .. 7 + plen /\ 7 + j \notin {3, 4, 6, 7}
        BY <2>1
      <4> QED
        BY <1>2, <1>6, <4>1
    <3> QED
      BY <2>1, <3>1 DEF Bytes
  <2> QED
    BY <1>10, <2>4, <2>5, Sizes DEF GoodCrc2
<1>13. valid_tr(pkt_get_type(m), pkt_get_tr(m))
  BY <1>8 DEF valid_tr
<1>14. ~(rlen < 7)
  BY <1>1, <1>3
<1>15. DecodeError(m, rlen) = "PKT_OK"
  BY <1>9, <1>10, <1>11, <1>12, <1>13, <1>14, Accepted, Sizes
<1>16. rlen \in 0 .. PktSize
  BY <1>1, <1>3
<1>17. /\ d.code = "PKT_OK" /\ d.pkt \in Memory
       /\ \A i \in 1 .. 7 + MAX_PAYLOAD_SIZE : i \notin {3, 4, 6, 7} => d.pkt[i] = m[i]
       /\ d.pkt[6] = m[7] /\ d.pkt[7] = m[6]
  BY <1>5, <1>15, <1>16, DecodeIs
<1>18. pkt_get_tr(d.pkt) = 0
  <2>1. d.pkt[1] = m[1]
    BY <1>1, <1>17
  <2> QED
    BY <1>8, <2>1 DEF pkt_get_tr
<1>19. pkt_get_crc1(d.pkt) = HeaderCrc(e)
  <2>1. d.pkt \in Seq(Cells) /\ Len(d.pkt) >= 7 /\ Len(m) >= 7
    BY <1>1, <1>5, <1>17 DEF Memory
  <2>2. pkt_get_crc1(d.pkt) = <<m[6], m[7]>>
    BY <1>17, <2>1, GoodCrc1Is
  <2>3. htonl(pkt_get_crc1(m)) = <<m[6], m[7]>>
    BY <1>5, <2>1, GoodCrc1Is
  <2> QED
    BY <1>9, <2>2, <2>3 DEF GoodCrc1
<1> QED
  BY <1>17, <1>18, <1>19 DEF d, w, e

\* What is left of a datagram that was cut.
LEMMA CutIs ==
  ASSUME NEW e, NEW w, OnWire(w, e), pkt_len_serial(e) \in Nat, Len(w) >= 7
  PROVE  /\ OnWire(CutOf(w), e) /\ Len(CutOf(w)) = 7
         /\ pkt_get_type(CutOf(w)) = pkt_get_type(w)
         /\ pkt_get_window(CutOf(w)) = pkt_get_window(w)
         /\ pkt_get_tr(CutOf(w)) = 1
         /\ \A i \in 2 .. 7 : CutOf(w)[i] = w[i]
<1>1. /\ w \in Seq(Cells) /\ Len(w) \in Nat /\ DOMAIN w = 1 .. Len(w)
      /\ w[1].value \in 0 .. CellLimit(1) - 1
  <2>1. w \in Seq(Cells) /\ Len(w) \in Nat /\ DOMAIN w = 1 .. Len(w)
    BY LenProperties DEF OnWire
  <2>2. 1 \in DOMAIN w
    BY <2>1
  <2> QED
    BY <2>1, <2>2 DEF OnWire, Small
<1> DEFINE c == Cell(pkt_get_window(w) + (MAX_WINDOW_SIZE + 1) * (1 + 2 * pkt_get_type(w)))
           p == PutTr(w, 1)
           q == CutOf(w)
<1>2. /\ p \in Seq(Cells) /\ Len(p) = Len(w) /\ p[1] \in Plain
      /\ p[1].value \in 0 .. CellLimit(1) - 1
      /\ \A i \in 2 .. Len(w) : p[i] = w[i]
      /\ pkt_get_type(p) = pkt_get_type(w) /\ pkt_get_tr(p) = 1
      /\ pkt_get_window(p) = pkt_get_window(w)
  <2> DEFINE tr == 1
  <2>1. tr \in 0 .. 1 /\ Len(w) >= 1
    BY <1>1
  <2> HIDE DEF tr
  <2>2. LET r == PutTr(w, tr)
        IN  /\ r \in Seq(Cells) /\ Len(r) = Len(w) /\ r[1] \in Plain
            /\ \A i \in 2 .. Len(w) : r[i] = w[i]
            /\ pkt_get_type(r) = pkt_get_type(w) /\ pkt_get_tr(r) = tr
            /\ pkt_get_window(r) = pkt_get_window(w)
            /\ w[1].value < 8 * (MAX_WINDOW_SIZE + 1) =>
                 r[1].value \in 0 .. 8 * (MAX_WINDOW_SIZE + 1) - 1
    BY <1>1, <2>1, PutTrIs
  <2> QED
    BY <1>1, <2>2, Limits DEF tr
<1>3. p = [w EXCEPT ![1] = c]
  BY DEF PutTr, PutFlags
<1>4. p[1] = c
  BY <1>1, <1>3
<1> HIDE DEF c
<1>5. OnWire(p, e)
  <2> DEFINE i == 1
  <2>1. i \in 1 .. Len(w) /\ c \in Plain /\ c.value \in 0 .. CellLimit(i) - 1
    BY <1>1, <1>2, <1>4
  <2> HIDE DEF i
  <2>2. OnWire([w EXCEPT ![i] = c], e)
    BY <2>1, DamagedOnWire
  <2> QED
    BY <1>3, <2>2 DEF i
<1> HIDE DEF p
<1>6. q = Bytes(p, 0, 7)
  BY Sizes DEF CutOf, p
<1> HIDE DEF q
<1>7. OnWire(q, e) /\ Len(q) = 7
  <2> DEFINE n == 7
  <2>1. n \in 0 .. Len(p)
    BY <1>1, <1>2
  <2> HIDE DEF n
  <2>2. OnWire(Bytes(p, 0, n), e) /\ Len(Bytes(p, 0, n)) = n
    BY <1>5, <2>1, PartOnWire
  <2> QED
    BY <1>6, <2>2 DEF n
<1>8. \A i \in 1 .. 7 : q[i] = p[i]
  BY <1>6, FirstBytesAre
<1>9. /\ pkt_get_type(q) = pkt_get_type(p) /\ pkt_get_tr(q) = pkt_get_tr(p)
      /\ pkt_get_window(q) = pkt_get_window(p)
  <2>1. q[1] = p[1]
    BY <1>8
  <2> QED
    BY <2>1 DEF pkt_get_type, pkt_get_tr, pkt_get_window
<1>10. \A i \in 2 .. 7 : q[i] = w[i]
  BY <1>1, <1>2, <1>8
<1> QED
  BY <1>2, <1>7, <1>9, <1>10 DEF q

\* A DATA packet that was cut is accepted.
LEMMA CutIsAccepted ==
  ASSUME NEW p, BuildOk(p), WellFormed(p), pkt_get_type(p) = PTYPE_DATA, NEW old \in Memory
  PROVE  LET d == pkt_decode(CutOf(Datagram(pkt_encode_inline(p))), old)
         IN  d.code = "PKT_OK" /\ pkt_get_tr(d.pkt) = 1
<1> DEFINE e == pkt_encode_inline(p)
           w == Datagram(e)
           q == CutOf(w)
           m == Copy(old, 0, q)
           d == pkt_decode(q, old)
<1>1. e[1] = p[1]
  <2>1. 1 \in 1 .. 7 + pkt_get_length(p) /\ 1 \notin {3, 4, 6, 7}
    BY BuiltIs, Sizes DEF BuildOk
  <2> QED
    BY <2>1, EncodeIs DEF BuildOk
<1>2. /\ OnWire(w, e) /\ Len(w) \in 7 .. PktSize /\ pkt_len_serial(e) \in 7 .. PktSize
      /\ \A i \in 1 .. Len(w) : w[i] = e[i]
  BY SerialLength, SentOnWire
<1>3. \A r \in Memory :
        (/\ pkt_get_type(r) = pkt_get_type(p) /\ pkt_get_window(r) = pkt_get_window(p)
         /\ \A i \in 2 .. 7 : r[i] = e[i])
        => /\ GoodCrc1(r) /\ valid_type(pkt_get_type(r)) /\ valid_length(htons(pkt_get_length(r)))
  BY HeaderPasses
<1> HIDE DEF e, w
<1>4. PktSize \in Nat /\ pkt_len_serial(e) \in Nat /\ Len(w) >= 7 /\ Len(w) \in Nat /\ 7 <= PktSize
  BY <1>2, Sizes
<1>5. /\ OnWire(q, e) /\ Len(q) = 7
      /\ pkt_get_type(q) = pkt_get_type(w) /\ pkt_get_window(q) = pkt_get_window(w)
      /\ pkt_get_tr(q) = 1
      /\ \A i \in 2 .. 7 : q[i] = w[i]
  BY <1>2, <1>4, CutIs
<1>6. w[1] = p[1]
  BY <1>1, <1>2, <1>4
<1>7. pkt_get_type(w) = pkt_get_type(p) /\ pkt_get_window(w) = pkt_get_window(p)
  BY <1>6 DEF pkt_get_type, pkt_get_window
<1> HIDE DEF q
<1>8. /\ m \in Memory /\ \A i \in 1 .. 7 : m[i] = q[i]
      /\ d = pkt_decode_inline(m, 7)
  <2>1. q \in Seq(Cells) /\ Len(q) <= PktSize
    BY <1>4, <1>5 DEF OnWire
  <2>2. /\ m \in Memory /\ \A i \in 1 .. Len(q) : m[i] = q[i]
        /\ d = pkt_decode_inline(m, Len(q))
    BY <2>1, Received
  <2> QED
    BY <1>5, <2>2
<1> HIDE DEF m, d
<1>9. m[1] = q[1]
  BY <1>8
<1>10. /\ pkt_get_type(m) = PTYPE_DATA /\ pkt_get_type(m) = pkt_get_type(p)
       /\ pkt_get_window(m) = pkt_get_window(p) /\ pkt_get_tr(m) = 1
  <2>1. /\ pkt_get_type(m) = pkt_get_type(q) /\ pkt_get_window(m) = pkt_get_window(q)
        /\ pkt_get_tr(m) = pkt_get_tr(q)
    BY <1>9 DEF pkt_get_type, pkt_get_window, pkt_get_tr
  <2> QED
    BY <1>5, <1>7, <2>1
<1>11. \A i \in 2 .. 7 : m[i] = e[i]
  BY <1>2, <1>4, <1>5, <1>8
<1>12. GoodCrc1(m) /\ valid_type(pkt_get_type(m)) /\ valid_length(htons(pkt_get_length(m)))
  BY <1>3, <1>8, <1>10, <1>11
<1>13. PayloadLen(7) = 0
  BY <1>4, Sizes DEF PayloadLen
<1>14. Consistent(m, 7)
  BY <1>10, <1>13 DEF Consistent
<1>15. valid_tr(pkt_get_type(m), pkt_get_tr(m))
  BY <1>10 DEF valid_tr
<1>16. DecodeError(m, 7) = "PKT_OK"
  BY <1>12, <1>13, <1>14, <1>15, Accepted, Sizes
<1>17. /\ d.code = "PKT_OK"
       /\ \A i \in 1 .. 7 + MAX_PAYLOAD_SIZE : i \notin {3, 4, 6, 7} => d.pkt[i] = m[i]
  <2> DEFINE rlen == 7
  <2>1. rlen \in 0 .. PktSize /\ d = pkt_decode_inline(m, rlen) /\ DecodeError(m, rlen) = "PKT_OK"
    BY <1>4, <1>8, <1>16
  <2> HIDE DEF rlen
  <2> QED
    BY <1>8, <2>1, DecodeIs
<1>18. pkt_get_tr(d.pkt) = 1
  <2>1. d.pkt[1] = m[1]
    BY <1>17, Sizes
  <2> QED
    BY <1>10, <2>1 DEF pkt_get_tr
<1> QED
  BY <1>17, <1>18 DEF d, q, w, e

(***************************************************************************)
(* The two encoders                                                        *)
(***************************************************************************)

\* What is encoded depends on the header's first cells and the payload alone.
LEMMA EncoderReads ==
  ASSUME NEW p, BuildOk(p), NEW q, BuildOk(q),
         pkt_get_length(q) = pkt_get_length(p),
         \A i \in 1 .. 7 + pkt_get_length(p) : i \notin {6, 7} => q[i] = p[i]
  PROVE  \A i \in 1 .. pkt_len_serial(pkt_encode_inline(p)) :
           pkt_encode_inline(q)[i] = pkt_encode_inline(p)[i]
<1> DEFINE plen == pkt_get_length(p)
           e == pkt_encode_inline(p)
           f == pkt_encode_inline(q)
<1>1. /\ plen \in 0 .. MAX_PAYLOAD_SIZE /\ plen \in Nat
      /\ plen = 0 => pkt_len_serial(e) = 7
      /\ plen # 0 => pkt_len_serial(e) = 9 + plen
  BY SerialLength, Sizes
<1>2. /\ e \in Seq(Cells) /\ Len(e) = 9 + MAX_PAYLOAD_SIZE
      /\ \A i \in 1 .. 7 + plen : i \notin {3, 4, 6, 7} => e[i] = p[i]
      /\ e[3] = Cell(htons(plen) % Byte) /\ e[4] = Cell(htons(plen) \div Byte)
      /\ e[6] = [value |-> 1, of |-> HeaderCells(e)]
      /\ e[7] = [value |-> 0, of |-> HeaderCells(e)]
      /\ plen # 0 => /\ e[8 + plen] = [value |-> 1, of |-> Bytes(p, 7, plen)]
                     /\ e[9 + plen] = [value |-> 0, of |-> Bytes(p, 7, plen)]
  BY EncodeIs DEF BuildOk
<1>3. /\ f \in Seq(Cells) /\ Len(f) = 9 + MAX_PAYLOAD_SIZE
      /\ \A i \in 1 .. 7 + plen : i \notin {3, 4, 6, 7} => f[i] = q[i]
      /\ f[3] = Cell(htons(plen) % Byte) /\ f[4] = Cell(htons(plen) \div Byte)
      /\ f[6] = [value |-> 1, of |-> HeaderCells(f)]
      /\ f[7] = [value |-> 0, of |-> HeaderCells(f)]
      /\ plen # 0 => /\ f[8 + plen] = [value |-> 1, of |-> Bytes(q, 7, plen)]
                     /\ f[9 + plen] = [value |-> 0, of |-> Bytes(q, 7, plen)]
  BY EncodeIs DEF BuildOk
<1>4. \A i \in 1 .. 7 + plen : i \notin {6, 7} => q[i] = p[i]
  OBVIOUS
<1> HIDE DEF e, f, plen
<1>5. ASSUME NEW i \in 1 .. 7 + plen, i \notin {6, 7}
      PROVE  f[i] = e[i]
  BY <1>2, <1>3, <1>4, <1>5
<1>6. HeaderCells(f) = HeaderCells(e)
  <2>1. \A i \in 1 .. 5 : f[i] = e[i]
    BY <1>1, <1>5
  <2>2. pkt_get_type(f) = pkt_get_type(e) /\ pkt_get_window(f) = pkt_get_window(e)
    <3>1. f[1] = e[1]
      BY <2>1
    <3> QED
      BY <3>1 DEF pkt_get_type, pkt_get_window
  <2>3. Len(e) >= 5 /\ Len(f) >= 5 /\ \A i \in 2 .. 5 : f[i] = e[i]
    BY <1>2, <1>3, <2>1, Sizes
  <2> QED
    BY <1>2, <1>3, <2>2, <2>3, SameHeaderCells
<1>7. Bytes(q, 7, plen) = Bytes(p, 7, plen)
  <2>1. \A j \in 1 .. plen : q[7 + j] = p[7 + j]
    BY <1>1, <1>4
  <2> QED
    BY <1>1, <2>1 DEF Bytes
<1>8. f[6] = e[6] /\ f[7] = e[7] /\ (plen # 0 => f[8 + plen] = e[8 + plen] /\ f[9 + plen] = e[9 + plen])
  BY <1>2, <1>3, <1>6, <1>7
<1>9. ASSUME NEW i \in 1 .. pkt_len_serial(e)
      PROVE  f[i] = e[i]
  <2>1. \/ i \in 1 .. 7 + plen /\ i \notin {6, 7}
        \/ i \in {6, 7}
        \/ plen # 0 /\ i \in {8 + plen, 9 + plen}
    BY <1>1
  <2> QED
    BY <1>5, <1>8, <2>1
<1> QED
  BY <1>9 DEF e, f

\* pkt_encode copies what the encoder reads.
LEMMA EncodersAgreeOn ==
  ASSUME NEW p, BuildOk(p)
  PROVE  LET encoded == pkt_encode(p, pkt_new, PktSize)
             inline == pkt_encode_inline(p)
         IN  /\ encoded.code = "PKT_OK"
             /\ encoded.len = pkt_len_serial(inline)
             /\ Bytes(encoded.buf, 0, encoded.len) = Bytes(inline, 0, encoded.len)
<1> DEFINE plen == pkt_get_length(p)
           n == pkt_len(p)
           cells == Bytes(p, 0, n - PKT_FOOTERLEN)
           q == Copy(pkt_new, 0, cells)
           e == pkt_encode_inline(p)
           encoded == pkt_encode(p, pkt_new, PktSize)
<1>1. /\ p \in Seq(Plain) /\ p \in Seq(Cells) /\ Len(p) = 9 + MAX_PAYLOAD_SIZE
      /\ MAX_PAYLOAD_SIZE \in Nat /\ PktSize = 9 + MAX_PAYLOAD_SIZE
      /\ plen \in 0 .. MAX_PAYLOAD_SIZE
      /\ \A i \in 1 .. 9 + MAX_PAYLOAD_SIZE : p[i] \in Plain
      /\ DOMAIN p = 1 .. 9 + MAX_PAYLOAD_SIZE
  BY BuiltIs, Sizes, LenProperties DEF BuildOk, Built
<1>2. /\ plen = 0 => n = 7 /\ pkt_len_serial(e) = 7
      /\ plen # 0 => n = 9 + plen /\ pkt_len_serial(e) = 9 + plen
  <2>1. n = IF plen # 0 THEN 9 + plen ELSE 7
    BY <1>1, Sizes DEF pkt_len
  <2> QED
    BY <1>1, <2>1, SerialLength
<1>3. n \in Nat /\ n <= PktSize /\ pkt_len_serial(e) = n
  BY <1>1, <1>2
<1>4. /\ encoded.code = "PKT_OK" /\ encoded.len = n
      /\ encoded.buf = pkt_encode_inline(q)
  <2>1. ~(PktSize < n)
    BY <1>1, <1>3
  <2> QED
    BY <2>1 DEF pkt_encode
<1> HIDE DEF n, plen, encoded
<1> DEFINE k == n - 2
<1>5. k \in Nat /\ k <= 7 + plen /\ k >= 5 /\ cells = Bytes(p, 0, k)
      /\ (plen # 0 => k = 7 + plen) /\ k <= PktSize
  BY <1>1, <1>2, Sizes
<1> HIDE DEF k, cells
<1>6. /\ cells \in Seq(Plain) /\ cells \in Seq(Cells) /\ Len(cells) = k
      /\ \A i \in 1 .. k : cells[i] = p[i]
  <2>1. \A i \in 1 .. k : p[i] \in Plain
    BY <1>1, <1>5
  <2>2. cells \in Seq(Plain) /\ Len(cells) = k
    BY <1>5, <2>1, FirstBytesSeq
  <2>3. cells \in Seq(Cells)
    BY <2>2, PlainCell, SeqMonotonic
  <2>4. \A i \in 1 .. k : Bytes(p, 0, k)[i] = p[i]
    BY <1>5, FirstBytesAre
  <2> QED
    BY <1>5, <2>2, <2>3, <2>4
<1>7. /\ BuildOk(pkt_new) /\ pkt_new \in Memory
      /\ \A i \in 1 .. PktSize : pkt_new[i] = Cell(0)
  BY NewIsBuilt, BuiltIs DEF BuildOk, pkt_new
<1>8. /\ q \in Seq(Cells) /\ Len(q) = PktSize
      /\ \A i \in 1 .. PktSize : q[i] = IF i <= k THEN p[i] ELSE pkt_new[i]
  <2> DEFINE offset == 0
  <2>1. offset \in Nat /\ offset + Len(cells) <= Len(pkt_new) /\ pkt_new \in Seq(Cells)
        /\ Len(pkt_new) = PktSize
    BY <1>5, <1>6, <1>7 DEF Memory
  <2> HIDE DEF offset
  <2>2. /\ Copy(pkt_new, offset, cells) \in Seq(Cells)
        /\ Len(Copy(pkt_new, offset, cells)) = Len(pkt_new)
        /\ \A i \in 1 .. Len(pkt_new) :
             Copy(pkt_new, offset, cells)[i] =
               IF i \in offset + 1 .. offset + Len(cells) THEN cells[i - offset] ELSE pkt_new[i]
    BY <1>6, <2>1, CopyIs
  <2>3. ASSUME NEW i \in 1 .. PktSize
        PROVE  q[i] = IF i <= k THEN p[i] ELSE pkt_new[i]
    <3>1. q[i] = IF i \in 1 .. k THEN cells[i - 0] ELSE pkt_new[i]
      BY <1>6, <2>1, <2>2 DEF offset
    <3>2. PktSize \in Nat /\ i \in Nat /\ i >= 1 /\ i - 0 = i
      BY <1>1
    <3> QED
      BY <1>5, <1>6, <3>1, <3>2
  <2> QED
    BY <2>1, <2>2, <2>3 DEF offset
<1> HIDE DEF q
<1>9. pkt_get_length(q) = plen
  <2>1. q[3] = p[3] /\ q[4] = p[4]
    BY <1>1, <1>5, <1>8
  <2> QED
    BY <2>1 DEF pkt_get_length, plen
<1>10. BuildOk(q)
  <2>1. ASSUME NEW i \in 1 .. Len(p)
        PROVE  q[i] = p[i] \/ (q[i] \in Plain /\ q[i].value \in 0 .. CellLimit(i) - 1)
    <3>1. q[i] = p[i] \/ q[i] = Cell(0)
      BY <1>1, <1>7, <1>8
    <3>2. Cell(0) \in Plain /\ Cell(0).value \in 0 .. CellLimit(i) - 1
      BY PlainCell, Limits
    <3> QED
      BY <3>1, <3>2
  <2>2. valid_length(pkt_get_length(q)) /\ Len(q) = Len(p)
    BY <1>1, <1>8, <1>9 DEF valid_length
  <2> QED
    BY <1>8, <2>1, <2>2, StaysBuilt
<1>11. ASSUME NEW i \in 1 .. 7 + plen, i \notin {6, 7}
       PROVE  q[i] = p[i]
  <2>1. i <= k /\ i \in 1 .. PktSize
    BY <1>1, <1>5, <1>11
  <2> QED
    BY <1>8, <2>1
<1>12. \A i \in 1 .. n : pkt_encode_inline(q)[i] = e[i]
  <2>1. pkt_get_length(q) = pkt_get_length(p)
    BY <1>9 DEF plen
  <2>2. \A i \in 1 .. 7 + pkt_get_length(p) : i \notin {6, 7} => q[i] = p[i]
    BY <1>11 DEF plen
  <2> QED
    BY <1>3, <1>10, <2>1, <2>2, EncoderReads
<1> DEFINE f == pkt_encode_inline(q)
<1> HIDE DEF e, f
<1>13. Bytes(f, 0, n) = Bytes(e, 0, n)
  <2>1. \A i \in 1 .. n : f[0 + i] = e[0 + i]
    BY <1>3, <1>12 DEF f
  <2> QED
    BY <1>3, <2>1 DEF Bytes
<1> QED
  BY <1>3, <1>4, <1>13 DEF e, f, encoded

(***************************************************************************)
(* The inductive invariant                                                 *)
(***************************************************************************)

Phases == {"build", "sent", "decoded"}
Kinds == {"cut", "damage", "chop"}

\* What is on the wire comes from the packet that was sent; before the first
\* fault, and after a cut that is the only one, it is known exactly.
InTransit ==
  /\ BuildOk(sent)
  /\ pkt = pkt_encode_inline(sent)
  /\ OnWire(wire, pkt)
  /\ faults = << >> => wire = Datagram(pkt)
  /\ faults = <<"cut">> =>
       wire = CutOf(Datagram(pkt)) /\ pkt_get_type(sent) = PTYPE_DATA

\* What was decoded was the datagram, in a slot that was fresh or used.
FromWire ==
  \E old \in {pkt_new, Leftover} :
    slot = pkt_decode(wire, old).pkt /\ status = pkt_decode(wire, old).code

IInv ==
  /\ phase \in Phases
  /\ faults \in Seq(Kinds) /\ Len(faults) <= MaxFaults
  /\ status \in Codes \cup {"none"}
  /\ phase = "build" => BuildOk(pkt) /\ BuildOk(sent) /\ wire = << >> /\ faults = << >>
  /\ phase # "build" => InTransit
  /\ IF phase = "decoded" THEN FromWire ELSE slot \in {pkt_new, Leftover}

LEMMA OldIsMemory == pkt_new \in Memory /\ Leftover \in Memory
BY LeftoverIs, NewIsBuilt, BuiltIs DEF BuildOk

LEMMA InitInvariant ==
  ASSUME Init
  PROVE  IInv
<1>1. << >> \in Seq(Kinds) /\ Len(<< >>) = 0 /\ MaxFaults \in Nat
  BY EmptySeq, FaultsAssumption
<1> QED
  BY <1>1, NewIsBuilt DEF Init, IInv, Phases

LEMMA SendKeeps ==
  ASSUME IInv, Send
  PROVE  IInv'
<1>1. /\ BuildOk(pkt) /\ faults = << >> /\ sent' = pkt /\ pkt' = pkt_encode_inline(pkt)
      /\ wire' = Datagram(pkt') /\ faults' = faults
  BY DEF IInv, Send, Datagram
<1>2. OnWire(Datagram(pkt'), pkt')
  BY <1>1, SentOnWire
<1>3. InTransit'
  <2>1. faults' # <<"cut">>
    BY <1>1
  <2> QED
    BY <1>1, <1>2, <2>1 DEF InTransit
<1> QED
  BY <1>3 DEF IInv, Send, Phases

\* A fault leaves what comes from the packet that was sent.
LEMMA FaultKeeps ==
  ASSUME IInv, NEW kind \in Kinds, NEW datagram, Fault(kind, datagram),
         OnWire(datagram, pkt),
         kind = "cut" /\ faults = << >> =>
           datagram = CutOf(Datagram(pkt)) /\ pkt_get_type(sent) = PTYPE_DATA
  PROVE  IInv'
<1>1. /\ phase = "sent" /\ Len(faults) < MaxFaults /\ faults' = Append(faults, kind)
      /\ wire' = datagram /\ faults \in Seq(Kinds) /\ InTransit
      /\ UNCHANGED <<phase, pkt, sent, slot, status>>
  BY DEF IInv, Fault
<1>2. faults' \in Seq(Kinds) /\ Len(faults') <= MaxFaults /\ faults' # << >>
  <2>1. Len(faults) \in Nat /\ MaxFaults \in Nat
    BY <1>1, LenProperties, FaultsAssumption
  <2>2. faults' \in Seq(Kinds) /\ Len(faults') = Len(faults) + 1
    BY <1>1
  <2> QED
    BY <1>1, <2>1, <2>2, EmptySeq
<1>3. faults' = <<"cut">> => kind = "cut" /\ faults = << >>
  <2>1. SUFFICES ASSUME faults' = <<"cut">> PROVE kind = "cut" /\ faults = << >>
    OBVIOUS
  <2>2. Len(faults) \in Nat /\ Len(faults') = Len(faults) + 1 /\ faults'[Len(faults) + 1] = kind
    BY <1>1, LenProperties
  <2>3. Len(faults) = 0
    BY <2>1, <2>2
  <2> QED
    BY <1>1, <2>1, <2>2, <2>3, EmptySeq
<1>4. InTransit'
  BY <1>1, <1>2, <1>3 DEF InTransit
<1> QED
  BY <1>1, <1>2, <1>4 DEF IInv

LEMMA CutKeeps ==
  ASSUME IInv, Cut
  PROVE  IInv'
<1>1. /\ InTransit /\ Len(wire) > 7 /\ pkt_get_type(wire) = PTYPE_DATA
      /\ Fault("cut", CutOf(wire))
  BY Sizes DEF IInv, Cut, Fault, CutOf
<1>2. pkt_len_serial(pkt) \in Nat /\ Len(wire) >= 7
  <2>1. Len(wire) \in Nat
    BY <1>1, LenProperties DEF InTransit, OnWire
  <2> QED
    BY <1>1, <2>1, SerialLength, Sizes DEF InTransit
<1>3. OnWire(CutOf(wire), pkt)
  BY <1>1, <1>2, CutIs DEF InTransit
<1>4. ASSUME faults = << >>
      PROVE  CutOf(wire) = CutOf(Datagram(pkt)) /\ pkt_get_type(sent) = PTYPE_DATA
  <2>1. wire = Datagram(pkt)
    BY <1>1, <1>4 DEF InTransit
  <2>2. wire[1] = pkt[1]
    <3>1. \A i \in 1 .. pkt_len_serial(pkt) : Datagram(pkt)[i] = pkt[i]
      BY <1>1, SentOnWire DEF InTransit
    <3>2. 1 \in 1 .. pkt_len_serial(pkt)
      BY <1>1, SerialLength, Sizes DEF InTransit
    <3> QED
      BY <2>1, <3>1, <3>2
  <2>3. pkt[1] = sent[1]
    <3>1. 1 \in 1 .. 7 + pkt_get_length(sent) /\ 1 \notin {3, 4, 6, 7}
      BY <1>1, BuiltIs, Sizes DEF InTransit, BuildOk
    <3> QED
      BY <1>1, <3>1, EncodeIs DEF InTransit, BuildOk
  <2> QED
    BY <1>1, <2>1, <2>2, <2>3 DEF pkt_get_type
<1>5. "cut" \in Kinds
  BY DEF Kinds
<1> QED
  BY <1>1, <1>3, <1>4, <1>5, FaultKeeps

LEMMA DamageKeeps ==
  ASSUME IInv, Damage
  PROVE  IInv'
<1>1. PICK i \in DOMAIN wire, n \in 0 .. 8 * (MAX_WINDOW_SIZE + 1) - 1 :
        (i = 1 \/ n < Byte) /\ Fault("damage", [wire EXCEPT ![i] = Cell(n)])
  BY DEF Damage
<1>2. InTransit /\ wire \in Seq(Cells) /\ DOMAIN wire = 1 .. Len(wire)
  BY <1>1, LenProperties DEF IInv, Fault, InTransit, OnWire
<1> DEFINE c == Cell(n)
<1>3. c \in Plain /\ c.value \in 0 .. CellLimit(i) - 1
  <2>1. n \in Nat
    BY Limits
  <2>2. c \in Plain /\ c.value = n
    BY <2>1, PlainCell
  <2>3. n \in 0 .. CellLimit(i) - 1
    BY <1>1, <2>1, Limits
  <2> QED
    BY <2>2, <2>3
<1> HIDE DEF c
<1>4. OnWire([wire EXCEPT ![i] = c], pkt)
  BY <1>2, <1>3, DamagedOnWire DEF InTransit
<1>5. "damage" \in Kinds /\ "damage" # "cut"
  BY DEF Kinds
<1> QED
  BY <1>1, <1>4, <1>5, FaultKeeps DEF c

LEMMA ChopKeeps ==
  ASSUME IInv, Chop
  PROVE  IInv'
<1>1. PICK n \in 0 .. Len(wire) - 1 : Fault("chop", Bytes(wire, 0, n))
  BY DEF Chop
<1>2. InTransit /\ Len(wire) \in Nat
  BY <1>1, LenProperties DEF IInv, Fault, InTransit, OnWire
<1>3. n \in 0 .. Len(wire) /\ pkt_len_serial(pkt) \in Nat
  BY <1>2, SerialLength, Sizes DEF InTransit
<1>4. OnWire(Bytes(wire, 0, n), pkt)
  BY <1>2, <1>3, PartOnWire DEF InTransit
<1>5. "chop" \in Kinds /\ "chop" # "cut"
  BY DEF Kinds
<1> QED
  BY <1>1, <1>4, <1>5, FaultKeeps

\* What arrives fits the slot, and the decoder leaves memory.
LEMMA DecodedSlot ==
  ASSUME InTransit, NEW old \in Memory
  PROVE  /\ pkt_decode(wire, old).pkt \in Memory
         /\ pkt_decode(wire, old).code \in Codes
<1>1. wire \in Seq(Cells) /\ Len(wire) <= PktSize
  <2>1. pkt_len_serial(pkt) \in 7 .. PktSize
    BY SerialLength DEF InTransit
  <2>2. wire \in Seq(Cells) /\ Len(wire) <= pkt_len_serial(pkt)
    BY DEF InTransit, OnWire
  <2>3. Len(wire) \in Nat /\ PktSize \in Nat
    BY <2>2, LenProperties, Sizes
  <2> QED
    BY <2>1, <2>2, <2>3
<1> DEFINE m == Copy(old, 0, wire)
           rlen == Len(wire)
<1>2. m \in Memory /\ rlen \in 0 .. PktSize /\ pkt_decode(wire, old) = pkt_decode_inline(m, rlen)
  BY <1>1, Received
<1> HIDE DEF m, rlen
<1> QED
  BY <1>2, DecodeIs, Accepted

LEMMA ReceiveKeeps ==
  ASSUME IInv, Receive
  PROVE  IInv'
<1>1. InTransit /\ slot \in {pkt_new, Leftover}
  BY DEF IInv, Receive
<1>2. FromWire' /\ status' \in Codes
  <2>1. /\ slot' = pkt_decode(wire, slot).pkt /\ status' = pkt_decode(wire, slot).code
        /\ wire' = wire
    BY DEF Receive
  <2>2. slot \in Memory
    BY <1>1, OldIsMemory
  <2>3. status' \in Codes
    BY <1>1, <2>1, <2>2, DecodedSlot
  <2> QED
    BY <1>1, <2>1, <2>3 DEF FromWire
<1>3. InTransit'
  BY <1>1 DEF InTransit, Receive
<1> QED
  BY <1>2, <1>3 DEF IInv, Receive, Phases

LEMMA StepInvariant ==
  ASSUME IInv, [Next]_vars
  PROVE  IInv'
<1>1. CASE SetField
  <2>1. BuildOk(pkt)
    BY <1>1 DEF IInv, SetField, Set
  <2>2. BuildOk(pkt')
    BY <1>1, <2>1, SetKeepsBuilt
  <2>3. phase = "build" /\ UNCHANGED <<phase, sent, wire, faults, slot, status>>
    BY <1>1 DEF SetField, Set
  <2> QED
    BY <2>2, <2>3 DEF IInv
<1>2. CASE Send
  BY <1>2, SendKeeps
<1>3. CASE Cut
  BY <1>3, CutKeeps
<1>4. CASE Damage
  BY <1>4, DamageKeeps
<1>5. CASE Chop
  BY <1>5, ChopKeeps
<1>6. CASE Receive
  BY <1>6, ReceiveKeeps
<1>7. CASE Terminated \/ UNCHANGED vars
  BY <1>7 DEF Terminated, vars, IInv, InTransit, FromWire
<1> QED
  BY <1>1, <1>2, <1>3, <1>4, <1>5, <1>6, <1>7 DEF Next

\* The life of a packet keeps the invariant, whatever the network does to it.
THEOREM PacketInvariant == Spec => []IInv
<1>1. Init => IInv
  BY InitInvariant
<1>2. IInv /\ [Next]_vars => IInv'
  BY StepInvariant
<1> QED
  BY <1>1, <1>2, PTL DEF Spec

(***************************************************************************)
(* What it implies                                                         *)
(***************************************************************************)

LEMMA ImpliesTypeOK ==
  ASSUME IInv
  PROVE  TypeOK
<1>1. /\ BuildOk(sent) /\ valid_length(pkt_get_length(sent))
      /\ Len(pkt) = PktSize
  <2>1. BuildOk(sent)
    BY DEF IInv, InTransit
  <2>2. CASE phase = "build"
    BY <2>1, <2>2 DEF IInv, BuildOk, Built
  <2>3. CASE phase # "build"
    BY <2>1, <2>3, EncodeIs, Sizes DEF IInv, InTransit, BuildOk, Built
  <2> QED
    BY <2>1, <2>2, <2>3
<1>2. Len(slot) = PktSize
  <2>1. CASE phase = "decoded"
    <3>1. PICK old \in {pkt_new, Leftover} : slot = pkt_decode(wire, old).pkt
      BY <2>1 DEF IInv, FromWire
    <3>2. InTransit /\ old \in Memory
      BY <2>1, OldIsMemory DEF IInv
    <3> QED
      BY <3>1, <3>2, DecodedSlot DEF Memory
  <2>2. CASE phase # "decoded"
    BY <2>2, OldIsMemory DEF IInv, Memory
  <2> QED
    BY <2>1, <2>2
<1>3. /\ Len(wire) <= PktSize
      /\ \A i \in DOMAIN wire : wire[i].value \in 0 .. CellLimit(i) - 1
  <2>1. CASE phase = "build"
    <3>1. wire = << >>
      BY <2>1 DEF IInv
    <3> QED
      BY <3>1, Sizes
  <2>2. CASE phase # "build"
    <3>1. InTransit
      BY <2>2 DEF IInv
    <3>2. pkt_len_serial(pkt) \in 7 .. PktSize /\ PktSize \in Nat
      BY <3>1, SerialLength, Sizes DEF InTransit
    <3>3. Len(wire) \in Nat /\ Len(wire) <= pkt_len_serial(pkt)
      BY <3>1, LenProperties DEF InTransit, OnWire
    <3>4. Small(wire)
      BY <3>1 DEF InTransit, OnWire
    <3> QED
      BY <3>2, <3>3, <3>4 DEF Small
  <2> QED
    BY <2>1, <2>2
<1> QED
  BY <1>1, <1>2, <1>3 DEF IInv, TypeOK, Phases, CellLimit

\* What was decoded, and what was sent.
LEMMA Decoded ==
  ASSUME IInv, phase = "decoded"
  PROVE  /\ InTransit /\ BuildOk(sent) /\ pkt = pkt_encode_inline(sent) /\ OnWire(wire, pkt)
         /\ \E old \in Memory :
              slot = pkt_decode(wire, old).pkt /\ status = pkt_decode(wire, old).code
BY OldIsMemory DEF IInv, InTransit, FromWire

LEMMA ImpliesDamageIsDetected ==
  ASSUME IInv
  PROVE  DamageIsDetected
<1>1. SUFFICES ASSUME phase = "decoded", status = "PKT_OK"
               PROVE  /\ SameHeader(slot, sent)
                      /\ pkt_get_tr(slot) = 0 => Payload(slot) = Payload(sent)
                      /\ pkt_get_tr(slot) = 1 => pkt_get_type(slot) = PTYPE_DATA
  BY DEF DamageIsDetected
<1>2. PICK old \in Memory : slot = pkt_decode(wire, old).pkt /\ status = pkt_decode(wire, old).code
  BY <1>1, Decoded
<1>3. BuildOk(sent) /\ OnWire(wire, pkt_encode_inline(sent))
  BY <1>1, Decoded
<1> QED
  BY <1>1, <1>2, <1>3, AcceptedIsSent

LEMMA ImpliesRoundTrip ==
  ASSUME IInv
  PROVE  RoundTrip
<1>1. SUFFICES ASSUME phase = "decoded", faults = << >>, WellFormed(sent)
               PROVE  /\ status = "PKT_OK"
                      /\ SameHeader(slot, sent) /\ pkt_get_tr(slot) = 0
                      /\ Payload(slot) = Payload(sent)
                      /\ pkt_get_crc1(slot) = HeaderCrc(pkt)
  BY DEF RoundTrip
<1>2. PICK old \in Memory : slot = pkt_decode(wire, old).pkt /\ status = pkt_decode(wire, old).code
  BY <1>1, Decoded
<1>3. BuildOk(sent) /\ pkt = pkt_encode_inline(sent) /\ wire = Datagram(pkt)
  BY <1>1, Decoded DEF InTransit
<1>4. status = "PKT_OK" /\ pkt_get_tr(slot) = 0 /\ pkt_get_crc1(slot) = HeaderCrc(pkt)
  BY <1>1, <1>2, <1>3, WholeIsAccepted
<1>5. SameHeader(slot, sent) /\ Payload(slot) = Payload(sent)
  BY <1>1, <1>4, ImpliesDamageIsDetected DEF DamageIsDetected
<1> QED
  BY <1>4, <1>5

LEMMA ImpliesCutIsRecognised ==
  ASSUME IInv
  PROVE  CutIsRecognised
<1>1. SUFFICES ASSUME phase = "decoded", faults = <<"cut">>, WellFormed(sent)
               PROVE  status = "PKT_OK" /\ pkt_get_tr(slot) = 1 /\ SameHeader(slot, sent)
  BY DEF CutIsRecognised
<1>2. PICK old \in Memory : slot = pkt_decode(wire, old).pkt /\ status = pkt_decode(wire, old).code
  BY <1>1, Decoded
<1>3. /\ BuildOk(sent) /\ pkt = pkt_encode_inline(sent) /\ wire = CutOf(Datagram(pkt))
      /\ pkt_get_type(sent) = PTYPE_DATA
  BY <1>1, Decoded DEF InTransit
<1>4. status = "PKT_OK" /\ pkt_get_tr(slot) = 1
  BY <1>1, <1>2, <1>3, CutIsAccepted
<1> QED
  BY <1>1, <1>4, ImpliesDamageIsDetected DEF DamageIsDetected

\* Before it is encoded in place, the other encoder would put the same on the wire.
LEMMA ImpliesEncodersAgree ==
  ASSUME IInv
  PROVE  EncodersAgree
<1>1. phase = "build" => BuildOk(pkt)
  BY DEF IInv
<1> QED
  BY <1>1, EncodersAgreeOn DEF EncodersAgree

\* Memory keeps its size, and cells keep the values of a byte.
THEOREM PacketTypeOK == Spec => []TypeOK
BY PacketInvariant, ImpliesTypeOK, PTL

\* Without a fault, a packet of any size is decoded to what was encoded, whatever
\* the slot held.
THEOREM PacketRoundTrip == Spec => []RoundTrip
BY PacketInvariant, ImpliesRoundTrip, PTL

\* A packet that was cut is accepted, with the header it was sent with.
THEOREM PacketCutIsRecognised == Spec => []CutIsRecognised
BY PacketInvariant, ImpliesCutIsRecognised, PTL

\* However many cells are damaged, cut or lost, what is accepted is what was sent.
THEOREM PacketDamageIsDetected == Spec => []DamageIsDetected
BY PacketInvariant, ImpliesDamageIsDetected, PTL

\* pkt_encode and pkt_encode_inline put the same bytes on the wire.
THEOREM PacketEncodersAgree == Spec => []EncodersAgree
BY PacketInvariant, ImpliesEncodersAgree, PTL
=============================================================================
