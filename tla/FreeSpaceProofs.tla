-------------------------- MODULE FreeSpaceProofs --------------------------
(***************************************************************************)
(* FreeSpace, for every size of byte, word, bitmap and volume.             *)
(***************************************************************************)
EXTENDS FreeSpace, Arithmetic

-----------------------------------------------------------------------------
(* Numbers.                                                                *)

\* What a position below the range is made of.
LEMMA PositionParts ==
    ASSUME NEW p \in 0 .. Unique - 1
    PROVE  /\ WordOf(p) \in 0 .. LONG - 1
           /\ ByteOf(p) \in 0 .. LONG - 1
           /\ p % BYTE \in 0 .. BYTE - 1
           /\ p = (WordOf(p) * LONG + ByteOf(p)) * BYTE + (p % BYTE)
<1> DEFINE q == p \div BYTE
           t == q \div LONG
           j == q % LONG
           o == p % BYTE
           w == p \div (LONG * BYTE)
           r == p % (LONG * BYTE)
<1>0. /\ LONG * BYTE \in Nat \ {0}
      /\ Unique = (LONG * BYTE) * LONG
      /\ LONG \in Nat \ {0} /\ BYTE \in Nat \ {0} /\ p \in Nat
  BY SizesAssumption DEF Unique
<1>1. q \in Nat /\ o \in 0 .. BYTE - 1 /\ p = BYTE * q + o
  BY <1>0, Division
<1>2. t \in Nat /\ j \in 0 .. LONG - 1 /\ q = LONG * t + j
  BY <1>0, <1>1, Division
<1>3. w \in Nat /\ r \in 0 .. LONG * BYTE - 1 /\ p = (LONG * BYTE) * w + r
  BY <1>0, Division
<1> HIDE DEF q, t, j, o, w, r
<1>4. BYTE * j + o \in 0 .. LONG * BYTE - 1
  <2>1. PICK d \in Nat : LONG = j + 1 + d
    BY <1>0, <1>2
  <2>2. (j + 1 + d) * BYTE = BYTE * j + BYTE + d * BYTE /\ d * BYTE >= 0 /\ BYTE * j >= 0
    BY <1>0, <1>2
  <2> QED
    BY <2>1, <2>2, <1>0, <1>1, <1>2
<1>5. p = t * (LONG * BYTE) + (BYTE * j + o) /\ p = w * (LONG * BYTE) + r
  BY <1>0, <1>1, <1>2, <1>3
<1>6. w = t
  BY <1>0, <1>2, <1>3, <1>4, <1>5, Digits
<1>7. w \in 0 .. LONG - 1
  BY <1>0, QuotientBound DEF w
<1>8. p = (w * LONG + j) * BYTE + o
  BY <1>0, <1>1, <1>2, <1>6
<1> QED
  BY <1>1, <1>2, <1>7, <1>8 DEF WordOf, ByteOf, w, j, o, q

\* AllocFreeBit's number of a position, as digits.
LEMMA NumberDigits ==
    ASSUME NEW p \in 0 .. Unique - 1
    PROVE  /\ Number(p) = (ByteOf(p) * LONG + WordOf(p)) * BYTE + (p % BYTE)
           /\ Number(p) \in 0 .. Unique - 1
<1> DEFINE j == ByteOf(p)
           w == WordOf(p)
           o == p % BYTE
<1>1. /\ w \in 0 .. LONG - 1 /\ j \in 0 .. LONG - 1 /\ o \in 0 .. BYTE - 1
      /\ LONG \in Nat \ {0} /\ BYTE \in Nat \ {0}
  BY PositionParts, SizesAssumption
<1>2. Number(p) = j * (LONG * BYTE) + w * BYTE + o
  BY DEF Number
<1> HIDE DEF j, w, o
<1>3. Number(p) = (j * LONG + w) * BYTE + o
  BY <1>1, <1>2
<1>4. \A a, b, x, y \in Nat : x < a /\ y < b => x * b + y < a * b
  <2> SUFFICES ASSUME NEW a \in Nat, NEW b \in Nat, NEW x \in Nat, NEW y \in Nat, x < a, y < b
               PROVE  x * b + y < a * b
    OBVIOUS
  <2>1. PICK d \in Nat : a = x + 1 + d
    OBVIOUS
  <2>2. (x + 1 + d) * b = x * b + b + d * b /\ d * b >= 0
    OBVIOUS
  <2> QED
    BY <2>1, <2>2
<1>5. j * LONG + w \in Nat /\ j * LONG + w < LONG * LONG
  BY <1>1, <1>4
<1>6. (j * LONG + w) * BYTE + o \in Nat /\ (j * LONG + w) * BYTE + o < (LONG * LONG) * BYTE
  BY <1>1, <1>4, <1>5
<1> QED
  BY <1>3, <1>6, SizesAssumption DEF Unique, j, w, o

\* In range the numbering is one to one.
LEMMA NumberOneToOne ==
    ASSUME NEW p \in 0 .. Unique - 1, NEW q \in 0 .. Unique - 1, Number(p) = Number(q)
    PROVE  p = q
<1> DEFINE pj == ByteOf(p)
           pw == WordOf(p)
           po == p % BYTE
           qj == ByteOf(q)
           qw == WordOf(q)
           qo == q % BYTE
<1>1. /\ pw \in 0 .. LONG - 1 /\ pj \in 0 .. LONG - 1 /\ po \in 0 .. BYTE - 1
      /\ p = (pw * LONG + pj) * BYTE + po
  BY PositionParts
<1>2. /\ qw \in 0 .. LONG - 1 /\ qj \in 0 .. LONG - 1 /\ qo \in 0 .. BYTE - 1
      /\ q = (qw * LONG + qj) * BYTE + qo
  BY PositionParts
<1>3. (pj * LONG + pw) * BYTE + po = (qj * LONG + qw) * BYTE + qo
  BY NumberDigits
<1>4. LONG \in Nat \ {0} /\ BYTE \in Nat \ {0}
  BY SizesAssumption
<1> HIDE DEF pj, pw, po, qj, qw, qo
<1>5. pj * LONG + pw \in Nat /\ qj * LONG + qw \in Nat
  BY <1>1, <1>2, <1>4
<1>6. pj * LONG + pw = qj * LONG + qw /\ po = qo
  BY <1>1, <1>2, <1>3, <1>4, <1>5, Digits
<1>7. pj = qj /\ pw = qw
  BY <1>1, <1>2, <1>4, <1>6, Digits
<1> QED
  BY <1>1, <1>2, <1>6, <1>7

\* The least of the numbers from n on.
LEMMA FirstOfTail ==
    ASSUME NEW m \in Nat, NEW n \in Nat, n < m
    PROVE  First((0 .. m - 1) \ (0 .. n - 1)) = n
<1> DEFINE S == (0 .. m - 1) \ (0 .. n - 1)
<1>1. n \in S /\ \A q \in S : n <= q
  OBVIOUS
<1>2. \A p \in S : (\A q \in S : p <= q) => p = n
  BY <1>1
<1> QED
  BY <1>1, <1>2 DEF First

\* The bitmap is longer than the range.
LEMMA BitmapSize ==
    /\ Unique \in Nat /\ Unique >= BYTE * LONG + BYTE
    /\ BYTE * LONG \in Nat /\ BYTE \in Nat \ {0, 1} /\ LONG \in Nat \ {0, 1}
    /\ \E m \in Nat : Position = 0 .. m - 1 /\ Unique * BYTE + DSTART * BYTE <= m
<1> DEFINE n == Unique + DSTART
<1>1. /\ BYTE \in Nat \ {0, 1} /\ LONG \in Nat \ {0, 1} /\ WORDS \in Nat
      /\ DSTART \in Nat \ {0} /\ BYTE * LONG \in Nat
  BY SizesAssumption
<1>2. Unique \in Nat
  BY <1>1 DEF Unique
<1>3. Unique >= BYTE * LONG + BYTE
  <2>1. PICK d \in Nat : LONG = 2 + d
    BY <1>1
  <2>2. /\ LONG * LONG * BYTE = (2 + d) * (LONG * BYTE)
        /\ (2 + d) * (LONG * BYTE) = LONG * BYTE + LONG * BYTE + d * (LONG * BYTE)
        /\ LONG * BYTE = (2 + d) * BYTE /\ (2 + d) * BYTE = BYTE + BYTE + d * BYTE
        /\ d * (LONG * BYTE) >= 0 /\ d * BYTE >= 0 /\ LONG * BYTE = BYTE * LONG
    BY <1>1, <2>1
  <2> QED
    BY <1>1, <2>2 DEF Unique
<1>4. n \in Nat /\ n <= WORDS * LONG
  BY <1>1, <1>2, SizesAssumption
<1>5. PICK d \in Nat : WORDS * LONG = n + d
  <2>1. WORDS * LONG \in Nat
    BY <1>1
  <2> QED
    BY <2>1, <1>4, Excess
<1> HIDE DEF n
<1>6. WORDS * LONG * BYTE = n * BYTE + d * BYTE /\ d * BYTE \in Nat /\ n * BYTE \in Nat
  BY <1>1, <1>4, <1>5
<1>7. n * BYTE = Unique * BYTE + DSTART * BYTE
  BY <1>1, <1>2 DEF n
<1> DEFINE m == WORDS * LONG * BYTE
<1>8. m \in Nat /\ Position = 0 .. m - 1 /\ Unique * BYTE + DSTART * BYTE <= m
  BY <1>1, <1>2, <1>6, <1>7 DEF Position
<1> QED
  BY <1>1, <1>2, <1>3, <1>8

\* A number of the range, or one past it by a byte, is a position.
LEMMA RangeInBitmap == 0 .. Unique + BYTE + BYTE - 1 \subseteq Position
<1>1. PICK m \in Nat : Position = 0 .. m - 1 /\ Unique * BYTE + DSTART * BYTE <= m
  BY BitmapSize
<1>2. PICK d \in Nat : BYTE = 2 + d
  <2>1. BYTE \in Nat /\ 2 <= BYTE
    BY BitmapSize
  <2> QED
    BY <2>1, Excess
<1>3. /\ Unique * BYTE = Unique + Unique + Unique * d
      /\ Unique * d >= 0 /\ Unique >= BYTE * LONG + BYTE /\ Unique \in Nat
  BY <1>2, BitmapSize
<1>4. BYTE * LONG >= BYTE + BYTE /\ DSTART * BYTE \in Nat
  <2>1. PICK e \in Nat : LONG = 2 + e
    BY BitmapSize
  <2>2. BYTE * (2 + e) = BYTE + BYTE + BYTE * e /\ BYTE * e >= 0
    BY BitmapSize
  <2> QED
    BY <2>1, <2>2, BitmapSize, SizesAssumption
<1>5. Unique + BYTE + BYTE <= m
  <2>1. BYTE \in Nat /\ BYTE * LONG \in Nat /\ Unique \in Nat
    BY BitmapSize
  <2>2. Unique * BYTE \in Nat /\ Unique * BYTE >= Unique + BYTE * LONG + BYTE
    BY <2>1, <1>3
  <2> QED
    BY <2>1, <2>2, <1>1, <1>4
<1> QED
  BY <1>1, <1>5, BitmapSize

\* With the first n bits set AllocFreeBit sets bit n.
LEMMA NextBit ==
    ASSUME NEW n \in Nat, n < Unique
    PROVE  AllocFreeBit(0 .. n - 1) = [num |-> Number(n), bits |-> 0 .. n]
<1> DEFINE zeros == Position \ (0 .. n - 1)
<1>1. n \in 0 .. Unique - 1 /\ n \in Position
  BY BitmapSize, RangeInBitmap
<1>2. First(zeros) = n
  <2>1. PICK m \in Nat : Position = 0 .. m - 1
    BY BitmapSize
  <2>2. n < m
    BY <1>1, <2>1
  <2> QED
    BY <2>1, <2>2, FirstOfTail
<1>3. n \in zeros
  BY <1>1
<1>4. WordOf(n) < LONG
  BY <1>1, PositionParts, SizesAssumption
<1>5. Candidates(0 .. n - 1) = zeros
  BY <1>2, <1>4 DEF Candidates
<1>6. (0 .. n - 1) \cup {n} = 0 .. n
  OBVIOUS
<1> HIDE DEF zeros
<1>7. Candidates(0 .. n - 1) # {}
  BY <1>3, <1>5
<1> QED
  BY <1>2, <1>5, <1>6, <1>7 DEF AllocFreeBit

\* First is the least.
LEMMA FirstIsLeast ==
    ASSUME NEW S \in SUBSET Nat, S # {}
    PROVE  First(S) \in S /\ \A q \in S : First(S) <= q
BY LeastElement DEF First

-----------------------------------------------------------------------------
(* The invariant.  Past the range the search stays in word LONG, of which  *)
(* it sees the first byte only: bit 1 of the second byte is never set, so  *)
(* that word is never full and the search goes no further.                 *)

GapBit == Unique + BYTE + 1

Typed == TypeOK /\ GapBit \notin db /\ GapBit \notin ib

\* In range the bits are a prefix, the numbers handed out are those of the prefix.
BlocksFromPrefix ==
    BlocksInRange =>
        /\ db = 0 .. DIRS + handed - 1
        /\ \A f \in Ino : \A k \in DOMAIN held[f] : \E p \in db : held[f][k] = DSTART + Number(p)
        /\ OneOwner
InodesFromPrefix ==
    InodesInRange =>
        /\ ib = 0 .. DIRS + ihanded
        /\ \A i \in live : \E p \in ib : i = Number(p)
        /\ ~ looking

IInv == Typed /\ BlocksFromPrefix /\ InodesFromPrefix

-----------------------------------------------------------------------------
(* The operators, for any bitmap that has the gap.                         *)

\* Where the gap is.
LEMMA GapPlace ==
    /\ GapBit \in Position /\ GapBit \in Nat /\ GapBit >= Unique
    /\ GapBit < (LONG + 1) * (LONG * BYTE)
    /\ ByteOf(GapBit) = 1
    /\ \A num \in Nat : BitOf(num) # GapBit
<1>1. /\ BYTE \in Nat \ {0, 1} /\ LONG \in Nat \ {0, 1} /\ Unique \in Nat
  BY BitmapSize
<1>2. GapBit \in 0 .. Unique + BYTE + BYTE - 1 /\ GapBit \in Nat
  BY <1>1 DEF GapBit
<1>3. LONG * BYTE \in Nat /\ LONG * BYTE >= BYTE + BYTE
  <2>1. PICK d \in Nat : LONG = 2 + d
    BY <1>1, Excess
  <2>2. (2 + d) * BYTE = BYTE + BYTE + d * BYTE /\ d * BYTE \in Nat
    BY <1>1
  <2> QED
    BY <2>1, <2>2, <1>1
<1>4. (LONG + 1) * (LONG * BYTE) = Unique + LONG * BYTE
  BY <1>1 DEF Unique
<1>5. GapBit < (LONG + 1) * (LONG * BYTE)
  BY <1>1, <1>3, <1>4 DEF GapBit
<1>6. GapBit = (LONG * LONG + 1) * BYTE + 1 /\ LONG * LONG + 1 \in Nat
  BY <1>1 DEF GapBit, Unique
<1>7. /\ \A x, y \in Nat, r, s \in 0 .. BYTE - 1 : x * BYTE + r = y * BYTE + s => x = y /\ r = s
      /\ \A x, y \in Nat, r, s \in 0 .. LONG - 1 : x * LONG + r = y * LONG + s => x = y /\ r = s
      /\ BYTE \in Nat \ {0} /\ LONG \in Nat \ {0}
  BY <1>1, Digits
<1>8. GapBit \div BYTE = LONG * LONG + 1
  <2>1. /\ GapBit \div BYTE \in Nat /\ GapBit % BYTE \in 0 .. BYTE - 1
        /\ GapBit = BYTE * (GapBit \div BYTE) + (GapBit % BYTE)
    BY <1>2, <1>7, Division
  <2>2. GapBit = (GapBit \div BYTE) * BYTE + (GapBit % BYTE)
    BY <1>1, <2>1
  <2>3. 1 \in 0 .. BYTE - 1
    BY <1>1
  <2> QED
    BY <2>1, <2>2, <2>3, <1>6, <1>7
<1>9. (LONG * LONG + 1) % LONG = 1
  <2> DEFINE q == LONG * LONG + 1
  <2>1. q \div LONG \in Nat /\ q % LONG \in 0 .. LONG - 1 /\ q = LONG * (q \div LONG) + (q % LONG)
    BY <1>6, <1>7, Division
  <2>2. (q \div LONG) * LONG + (q % LONG) = LONG * LONG + 1
    BY <1>1, <2>1
  <2>3. 1 \in 0 .. LONG - 1
    BY <1>1
  <2> HIDE DEF q
  <2>4. q % LONG = 1
    BY <1>1, <1>7, <2>1, <2>2, <2>3
  <2> QED
    BY <2>4 DEF q
<1>10. \A num \in Nat : BitOf(num) # GapBit
  <2> SUFFICES ASSUME NEW num \in Nat, num * BYTE = GapBit PROVE FALSE
    BY DEF BitOf
  <2> DEFINE q == LONG * LONG + 1
             zero == 0
  <2>1. zero \in 0 .. BYTE - 1 /\ 1 \in 0 .. BYTE - 1 /\ num * BYTE + zero = q * BYTE + 1 /\ q \in Nat
    BY <1>1, <1>6
  <2> HIDE DEF q, zero
  <2>2. zero = 1
    <3>1. \A x, y \in Nat, r, s \in 0 .. BYTE - 1 : x * BYTE + r = y * BYTE + s => r = s
      BY <1>7
    <3>2. num \in Nat
      OBVIOUS
    <3> QED
      BY <2>1, <3>1, <3>2, Zenon
  <2> QED
    BY <2>2 DEF zero
<1> QED
  BY <1>1, <1>2, <1>5, <1>8, <1>9, <1>10, RangeInBitmap DEF ByteOf, GapBit

\* The word a position lies in.
LEMMA WordBounds ==
    ASSUME NEW p \in Nat
    PROVE  /\ WordOf(p) \in Nat
           /\ WordOf(p) * (LONG * BYTE) <= p
           /\ p < (WordOf(p) + 1) * (LONG * BYTE)
<1> DEFINE b == LONG * BYTE
<1>1. b \in Nat \ {0}
  BY SizesAssumption
<1>2. p \div b \in Nat /\ p % b \in 0 .. b - 1 /\ p = b * (p \div b) + (p % b)
  BY <1>1, Division
<1> HIDE DEF b
<1>3. (p \div b) * b <= p /\ p < (p \div b + 1) * b
  BY <1>1, <1>2
<1> QED
  BY <1>2, <1>3 DEF WordOf, b

\* Where AllocFreeBit looks: in the range, or in the first byte of word LONG.
LEMMA CandidatePlace ==
    ASSUME NEW bits \in SUBSET Position, GapBit \notin bits,
           NEW p \in Candidates(bits), \A q \in Candidates(bits) : p <= q
    PROVE  \/ p \in 0 .. Unique - 1
           \/ p \in Position /\ WordOf(p) = LONG /\ ByteOf(p) = 0
<1> DEFINE zeros == Position \ bits
           z == First(zeros)
           w == WordOf(z)
           b == LONG * BYTE
<1>1. GapBit \in zeros /\ zeros \subseteq Nat
  BY GapPlace DEF Position
<1>2. z \in zeros /\ z <= GapBit /\ z \in Nat
  BY <1>1, FirstIsLeast
<1>3. /\ w \in Nat /\ w * b <= z /\ z < (w + 1) * b
      /\ b \in Nat \ {0} /\ LONG \in Nat \ {0} /\ Unique = LONG * b
  BY <1>2, WordBounds, SizesAssumption DEF Unique
<1>4. zeros # {} /\ GapBit < (LONG + 1) * b /\ GapBit \in Nat
  BY <1>1, GapPlace
<1>5. Candidates(bits) = IF w < LONG THEN zeros ELSE {q \in zeros : WordOf(q) = w /\ ByteOf(q) = 0}
  BY <1>4 DEF Candidates
<1> HIDE DEF zeros, z, w, b
<1>6. CASE w < LONG
  <2>1. p = z
    <3>1. p \in zeros /\ z \in Candidates(bits)
      BY <1>2, <1>5, <1>6
    <3>2. p <= z /\ z <= p /\ p \in Nat
      BY <3>1, <1>1, FirstIsLeast DEF z
    <3> QED
      BY <3>2, <1>2
  <2>2. PICK d \in Nat : LONG = w + 1 + d
    BY <1>3, <1>6, Excess
  <2>3. (w + 1 + d) * b = (w + 1) * b + d * b /\ d * b \in Nat
    BY <1>3
  <2>4. z < Unique /\ Unique \in Nat
    BY <1>2, <1>3, <2>2, <2>3
  <2> QED
    BY <1>2, <2>1, <2>4
<1>7. CASE w >= LONG
  <2>1. w = LONG
    <3> SUFFICES ASSUME w > LONG PROVE FALSE
      BY <1>3, <1>7
    <3>1. PICK d \in Nat : w = LONG + 1 + d
      BY <1>3, Excess
    <3>2. (LONG + 1 + d) * b = (LONG + 1) * b + d * b /\ d * b \in Nat
      BY <1>3
    <3> QED
      BY <1>2, <1>3, <1>4, <3>1, <3>2
  <2> QED
    BY <1>3, <1>5, <1>7, <2>1 DEF zeros
<1> QED
  BY <1>3, <1>6, <1>7

\* AllocFreeBit returns -1 or a number of the range and keeps the gap.
LEMMA AllocFreeBitType ==
    ASSUME NEW bits \in SUBSET Position, GapBit \notin bits
    PROVE  /\ AllocFreeBit(bits).num \in -1 .. Unique - 1
           /\ AllocFreeBit(bits).bits \in SUBSET Position
           /\ GapBit \notin AllocFreeBit(bits).bits
<1> DEFINE c == Candidates(bits)
           p == First(c)
<1>1. CASE c = {}
  BY <1>1, BitmapSize DEF AllocFreeBit
<1>2. CASE c # {}
  <2>1. c \subseteq Position /\ c \subseteq Nat
    BY DEF Candidates, Position
  <2>2. p \in c /\ \A q \in c : p <= q
    BY <1>2, <2>1, FirstIsLeast
  <2>3. p \in 0 .. Unique - 1 \/ (p \in Position /\ WordOf(p) = LONG /\ ByteOf(p) = 0)
    BY <2>2, CandidatePlace
  <2>4. Number(p) \in 0 .. Unique - 1
    <3>1. CASE p \in 0 .. Unique - 1
      BY <3>1, NumberDigits
    <3>2. CASE WordOf(p) = LONG /\ ByteOf(p) = 0
      <4>1. p % BYTE \in 0 .. BYTE - 1
        BY <2>1, <2>2, Division, SizesAssumption
      <4>2. Number(p) = BYTE * LONG + (p % BYTE)
        BY <3>2, <4>1, BitmapSize DEF Number
      <4> QED
        BY <4>1, <4>2, BitmapSize
    <3> QED
      BY <2>3, <3>1, <3>2
  <2>5. p \in Position /\ p # GapBit
    <3>1. CASE p \in 0 .. Unique - 1
      BY <2>1, <2>2, <3>1, GapPlace, BitmapSize
    <3>2. CASE WordOf(p) = LONG /\ ByteOf(p) = 0
      BY <2>1, <2>2, <3>2, GapPlace
    <3> QED
      BY <2>3, <3>1, <3>2
  <2>6. AllocFreeBit(bits) = [num |-> Number(p), bits |-> bits \cup {p}]
    BY <1>2 DEF AllocFreeBit
  <2> HIDE DEF p
  <2> QED
    BY <2>4, <2>5, <2>6, BitmapSize
<1> QED
  BY <1>1, <1>2

\* So does marking a number of the range.
LEMMA GivenType ==
    ASSUME NEW bits \in SUBSET Position, GapBit \notin bits, NEW num \in 0 .. Unique - 1
    PROVE  Given(bits, num) \in SUBSET Position /\ GapBit \notin Given(bits, num)
<1>1. num \in Nat /\ BYTE \in Nat /\ DSTART * BYTE \in Nat /\ Unique \in Nat
  BY BitmapSize, SizesAssumption
<1>2. PICK m \in Nat : Position = 0 .. m - 1 /\ Unique * BYTE + DSTART * BYTE <= m
  BY BitmapSize
<1>3. PICK d \in Nat : Unique = num + 1 + d
  BY <1>1, Excess
<1>4. (num + 1 + d) * BYTE = num * BYTE + BYTE + d * BYTE /\ d * BYTE \in Nat /\ num * BYTE \in Nat
  BY <1>1
<1>5. num * BYTE + BYTE <= Unique * BYTE /\ Unique * BYTE \in Nat
  BY <1>1, <1>3, <1>4
<1>6. num * BYTE \in Position
  BY <1>1, <1>2, <1>4, <1>5, BitmapSize
<1> QED
  BY <1>1, <1>6, GapPlace DEF Given, BitOf

\* Within the first byte a number is its position.
LEMMA FirstByte ==
    ASSUME NEW p \in 0 .. BYTE - 1
    PROVE  Number(p) = p /\ p \in 0 .. Unique - 1
<1> DEFINE w == WordOf(p)
           j == ByteOf(p)
           o == p % BYTE
           x == w * LONG + j
<1>1. p \in 0 .. Unique - 1 /\ p \in Nat /\ BYTE \in Nat \ {0} /\ LONG \in Nat \ {0}
  BY BitmapSize
<1>2. /\ w \in 0 .. LONG - 1 /\ j \in 0 .. LONG - 1 /\ o \in 0 .. BYTE - 1
      /\ p = x * BYTE + o
  BY <1>1, PositionParts
<1>3. Number(p) = (j * LONG + w) * BYTE + o
  BY <1>1, NumberDigits
<1> HIDE DEF w, j, o
<1>4. x \in Nat
  BY <1>1, <1>2
<1> HIDE DEF x
<1>5. x = 0 /\ o = p
  <2> DEFINE zero == 0
  <2>1. zero * BYTE + p = x * BYTE + o /\ zero \in Nat
    BY <1>1, <1>2
  <2> HIDE DEF zero
  <2>2. zero = x /\ p = o
    BY <1>1, <1>2, <1>4, <2>1, Digits
  <2> QED
    BY <2>2 DEF zero
<1>6. w = 0 /\ j = 0
  <2>1. w * LONG >= w /\ w * LONG \in Nat
    <3>1. PICK d \in Nat : LONG = 1 + d
      BY <1>1, Excess
    <3>2. w * (1 + d) = w + w * d /\ w * d \in Nat
      BY <1>2
    <3> QED
      BY <1>2, <3>1, <3>2
  <2> QED
    BY <1>2, <1>5, <2>1 DEF x
<1> QED
  BY <1>1, <1>3, <1>5, <1>6

-----------------------------------------------------------------------------
(* Initially.                                                              *)

LEMMA InitTyped == Init => Typed
<1> SUFFICES ASSUME Init PROVE Typed
  OBVIOUS
<1>1. /\ DIRS \in Nat \ {0} /\ BYTE \in Nat /\ Unique \in Nat /\ DSTART \in Nat \ {0}
      /\ DIRS < BYTE /\ BYTE <= Unique
  BY BitmapSize, SizesAssumption
<1>2. 0 .. DIRS - 1 \subseteq Position /\ 0 .. DIRS \subseteq Position
  BY <1>1, RangeInBitmap
<1>3. GapBit \notin 0 .. DIRS - 1 /\ GapBit \notin 0 .. DIRS
  BY <1>1, GapPlace
<1>4. live \subseteq Ino
  BY <1>1 DEF Init, Ino
<1>5. held \in [Ino -> Seq(Nat)]
  BY <1>1 DEF Init
<1>6. handed \in Nat /\ ihanded \in Nat
  BY BoundsAssumption DEF Init
<1>7. db \subseteq Position /\ ib \subseteq Position /\ GapBit \notin db /\ GapBit \notin ib
  BY <1>2, <1>3 DEF Init
<1>8. looking \in BOOLEAN /\ stopped \in BOOLEAN /\ freed \subseteq Nat /\ ifreed \subseteq Ino
  BY DEF Init
<1> QED
  BY <1>4, <1>5, <1>6, <1>7, <1>8 DEF Typed, TypeOK

LEMMA InitBlocks == Init => BlocksFromPrefix
<1> SUFFICES ASSUME Init PROVE BlocksFromPrefix
  OBVIOUS
<1>1. DIRS \in Nat \ {0} /\ BYTE \in Nat /\ DIRS < BYTE /\ DSTART \in Nat
  BY SizesAssumption
<1>2. db = 0 .. DIRS + handed - 1
  BY <1>1 DEF Init
<1>3. \A f \in Ino : \A k \in DOMAIN held[f] :
        f \in 1 .. DIRS /\ k = 1 /\ held[f][k] = DSTART + f - 1
  BY DEF Init
<1>4. \A f \in Ino : \A k \in DOMAIN held[f] : \E p \in db : held[f][k] = DSTART + Number(p)
  <2> SUFFICES ASSUME NEW f \in Ino, NEW k \in DOMAIN held[f]
               PROVE  \E p \in db : held[f][k] = DSTART + Number(p)
    OBVIOUS
  <2>1. f - 1 \in 0 .. BYTE - 1 /\ f - 1 \in db /\ held[f][k] = DSTART + (f - 1)
    BY <1>1, <1>2, <1>3 DEF Init
  <2>2. Number(f - 1) = f - 1
    BY <2>1, FirstByte
  <2> QED
    BY <2>1, <2>2
<1>5. OneOwner
  BY <1>1, <1>3 DEF OneOwner
<1> QED
  BY <1>2, <1>4, <1>5 DEF BlocksFromPrefix

LEMMA InitInodes == Init => InodesFromPrefix
<1> SUFFICES ASSUME Init PROVE InodesFromPrefix
  OBVIOUS
<1>1. DIRS \in Nat \ {0} /\ BYTE \in Nat /\ DIRS < BYTE
  BY SizesAssumption
<1>2. ib = 0 .. DIRS + ihanded /\ ~ looking
  BY <1>1 DEF Init
<1>3. \A i \in live : i \in ib /\ i = Number(i)
  BY <1>1, FirstByte DEF Init
<1> QED
  BY <1>2, <1>3 DEF InodesFromPrefix

-----------------------------------------------------------------------------
(* Alloc.                                                                  *)

LEMMA AllocTyped ==
    ASSUME Typed, NEW f \in Ino, Alloc(f)
    PROVE  Typed'
<1> DEFINE free == AllocFreeBit(db)
<1>1. /\ free.num \in -1 .. Unique - 1 /\ free.bits \in SUBSET Position
      /\ GapBit \notin free.bits
  BY AllocFreeBitType DEF Typed, TypeOK
<1>2. DSTART + free.num \in Nat
  BY <1>1, SizesAssumption, BitmapSize
<1>3. held' = [held EXCEPT ![f] = Append(@, DSTART + free.num)] /\ db' = free.bits
  BY DEF Alloc
<1> HIDE DEF free
<1>4. held' \in [Ino -> Seq(Nat)]
  BY <1>2, <1>3 DEF Typed, TypeOK
<1>5. handed' \in Nat
  BY BoundsAssumption DEF Alloc, Typed, TypeOK
<1> QED
  BY <1>1, <1>3, <1>4, <1>5 DEF Alloc, Typed, TypeOK, inodeVars

\* The new block's number is that of the next position, which no file has.
LEMMA AllocBlocks ==
    ASSUME Typed, BlocksFromPrefix, NEW f \in Ino, Alloc(f)
    PROVE  BlocksFromPrefix'
<1> DEFINE n == DIRS + handed
           new == DSTART + Number(n)
<1> SUFFICES ASSUME BlocksInRange'
             PROVE  /\ db' = 0 .. DIRS + handed' - 1
                    /\ \A g \in Ino : \A k \in DOMAIN held'[g] :
                         \E p \in db' : held'[g][k] = DSTART + Number(p)
                    /\ OneOwner'
  BY DEF BlocksFromPrefix
<1>1. /\ handed \in Nat /\ handed' = handed + 1 /\ freed' = freed /\ freed \subseteq Nat
      /\ DIRS \in Nat \ {0} /\ BYTE \in Nat /\ Unique \in Nat /\ DSTART \in Nat
  BY SizesAssumption, BitmapSize, BoundsAssumption DEF Alloc, Typed, TypeOK
<1>2. n \in Nat /\ n < Unique
  BY <1>1 DEF BlocksInRange
<1>3. BlocksInRange
  <2>1. \A b \in freed : DIRS + handed + 1 <= BitOf(b) /\ BitOf(b) \in Nat
    BY <1>1 DEF BlocksInRange, BitOf
  <2> QED
    BY <1>1, <1>2, <2>1 DEF BlocksInRange
<1>4. /\ db = 0 .. n - 1
      /\ \A g \in Ino : \A k \in DOMAIN held[g] : \E p \in db : held[g][k] = DSTART + Number(p)
      /\ OneOwner
  <2> HIDE DEF n, new
  <2>1. /\ db = 0 .. DIRS + handed - 1
        /\ \A g \in Ino : \A k \in DOMAIN held[g] : \E p \in db : held[g][k] = DSTART + Number(p)
        /\ OneOwner
    BY <1>3, Zenon DEF BlocksFromPrefix
  <2>2. db = 0 .. n - 1
    BY <1>1, <2>1 DEF n
  <2> QED
    BY <2>1, <2>2, Zenon
<1>5. AllocFreeBit(db) = [num |-> Number(n), bits |-> 0 .. n]
  BY <1>2, <1>4, NextBit
<1>6. db' = 0 .. n /\ held' = [held EXCEPT ![f] = Append(@, new)]
  BY <1>5 DEF Alloc
<1>7. \A g \in Ino : \A k \in DOMAIN held[g] : held[g][k] # new
  <2> SUFFICES ASSUME NEW g \in Ino, NEW k \in DOMAIN held[g], held[g][k] = new
               PROVE  FALSE
    OBVIOUS
  <2>1. PICK p \in db : held[g][k] = DSTART + Number(p)
    BY <1>4
  <2>2. p \in 0 .. Unique - 1 /\ n \in 0 .. Unique - 1 /\ p # n
    BY <1>1, <1>2, <1>4
  <2>3. Number(p) \in Nat /\ Number(n) \in Nat
    BY <1>1, <2>2, NumberDigits
  <2>4. Number(p) = Number(n)
    BY <1>1, <2>1, <2>3
  <2> QED
    BY <2>2, <2>4, NumberOneToOne
<1>8. n \in db' /\ db \subseteq db' /\ db' = 0 .. DIRS + handed' - 1
  BY <1>1, <1>2, <1>4, <1>6
<1> HIDE DEF n, new
<1>9. held \in [Ino -> Seq(Nat)]
  BY DEF Typed, TypeOK
<1>10. \A g \in Ino : held[g] \in Seq(Nat)
  BY <1>9
<1>11. \A g \in Ino : held'[g] = IF g = f THEN Append(held[f], new) ELSE held[g]
  BY <1>6, <1>9
<1>12. \A g \in Ino : \A k \in DOMAIN held'[g] :
          \/ k \in DOMAIN held[g] /\ held'[g][k] = held[g][k]
          \/ g = f /\ k = Len(held[f]) + 1 /\ k \notin DOMAIN held[f] /\ held'[g][k] = new
  <2> SUFFICES ASSUME NEW g \in Ino, NEW k \in DOMAIN held'[g]
               PROVE  \/ k \in DOMAIN held[g] /\ held'[g][k] = held[g][k]
                      \/ g = f /\ k = Len(held[f]) + 1 /\ k \notin DOMAIN held[f]
                         /\ held'[g][k] = new
    OBVIOUS
  <2>1. CASE g = f
    <3>1. held'[f] = Append(held[f], new) /\ held[f] \in Seq(Nat) /\ k \in DOMAIN held'[f]
      BY <1>10, <1>11, <2>1
    <3>2. k \in 1 .. Len(held[f]) + 1 /\ DOMAIN held[f] = 1 .. Len(held[f])
      BY <3>1
    <3> QED
      BY <2>1, <3>1, <3>2
  <2>2. CASE g # f
    BY <1>11, <2>2
  <2> QED
    BY <2>1, <2>2
<1>13. \A g \in Ino : \A k \in DOMAIN held'[g] : \E p \in db' : held'[g][k] = DSTART + Number(p)
  BY <1>4, <1>8, <1>12 DEF new
<1>14. OneOwner'
  <2> SUFFICES ASSUME NEW g \in Ino, NEW h \in Ino,
                      NEW k \in DOMAIN held'[g], NEW l \in DOMAIN held'[h],
                      held'[g][k] = held'[h][l]
               PROVE  g = h /\ k = l
    BY DEF OneOwner
  <2>1. CASE k \in DOMAIN held[g] /\ held'[g][k] = held[g][k]
    <3>1. CASE l \in DOMAIN held[h] /\ held'[h][l] = held[h][l]
      <4>1. held[g][k] = held[h][l] /\ k \in DOMAIN held[g] /\ l \in DOMAIN held[h]
        BY <2>1, <3>1
      <4> QED
        BY <1>4, <4>1 DEF OneOwner
    <3>2. CASE held'[h][l] = new
      BY <1>7, <2>1, <3>2
    <3> QED
      BY <1>12, <3>1, <3>2
  <2>2. CASE g = f /\ k = Len(held[f]) + 1 /\ held'[g][k] = new
    BY <1>7, <1>12, <2>2
  <2> QED
    BY <1>12, <2>1, <2>2
<1> QED
  BY <1>8, <1>13, <1>14

-----------------------------------------------------------------------------
(* ITrunc and deletion.                                                    *)

LEMMA ITruncTyped ==
    ASSUME Typed, NEW f \in Ino, ITrunc(f)
    PROVE  /\ db' \subseteq Position /\ GapBit \notin db'
           /\ held' \in [Ino -> Seq(Nat)]
           /\ handed' \in Nat /\ freed' \subseteq Nat
<1>1. held[f] \in Seq(Nat) /\ Blocks(f) \subseteq Nat
  <2>1. held[f] \in Seq(Nat)
    BY DEF Typed, TypeOK
  <2> QED
    BY <2>1 DEF Blocks
<1>2. << >> \in Seq(Nat)
  OBVIOUS
<1>3. held' \in [Ino -> Seq(Nat)]
  BY <1>2 DEF ITrunc, Typed, TypeOK
<1> QED
  BY <1>1, <1>3 DEF ITrunc, GivenBack, Typed, TypeOK

\* In range the bits that Free clears are zero, so the prefix stays.
LEMMA ITruncBlocks ==
    ASSUME Typed, BlocksFromPrefix, NEW f \in Ino, ITrunc(f)
    PROVE  BlocksFromPrefix'
<1> SUFFICES ASSUME BlocksInRange'
             PROVE  /\ db' = 0 .. DIRS + handed' - 1
                    /\ \A g \in Ino : \A k \in DOMAIN held'[g] :
                         \E p \in db' : held'[g][k] = DSTART + Number(p)
                    /\ OneOwner'
  BY DEF BlocksFromPrefix
<1>1. /\ handed \in Nat /\ handed' = handed
      /\ freed' = freed \cup Blocks(f)
      /\ db' = GivenBack(db, Blocks(f))
      /\ held' = [held EXCEPT ![f] = << >>]
  BY BoundsAssumption DEF ITrunc, Typed, TypeOK
<1>2. BlocksInRange
  BY <1>1 DEF BlocksInRange
<1>3. /\ db = 0 .. DIRS + handed - 1
      /\ \A g \in Ino : \A k \in DOMAIN held[g] : \E p \in db : held[g][k] = DSTART + Number(p)
      /\ OneOwner
  BY <1>2, Zenon DEF BlocksFromPrefix
<1>4. \A b \in Blocks(f) : DIRS + handed <= BitOf(b)
  BY <1>1 DEF BlocksInRange
<1>5. DIRS \in Nat /\ Blocks(f) \subseteq Nat /\ \A b \in Blocks(f) : BitOf(b) \in Nat
  <2>1. held[f] \in Seq(Nat) /\ DIRS \in Nat /\ BYTE \in Nat
    BY SizesAssumption DEF Typed, TypeOK
  <2>2. Blocks(f) \subseteq Nat
    BY <2>1 DEF Blocks
  <2> QED
    BY <2>1, <2>2 DEF BitOf
<1>6. \A b \in Blocks(f) : BitOf(b) \notin db
  BY <1>1, <1>3, <1>4, <1>5
<1>7. db' = db
  BY <1>1, <1>6 DEF GivenBack
<1>8. \A g \in Ino : \A k \in DOMAIN held'[g] : k \in DOMAIN held[g] /\ held'[g][k] = held[g][k]
  <2>1. \A g \in Ino : held'[g] = IF g = f THEN << >> ELSE held[g]
    BY <1>1 DEF Typed, TypeOK
  <2>2. DOMAIN << >> = {}
    OBVIOUS
  <2> QED
    BY <2>1, <2>2
<1>9. OneOwner'
  BY <1>3, <1>8 DEF OneOwner
<1>10. \A g \in Ino : \A k \in DOMAIN held'[g] :
         \E p \in db' : held'[g][k] = DSTART + Number(p)
  BY <1>3, <1>7, <1>8
<1>11. db' = 0 .. DIRS + handed' - 1
  BY <1>1, <1>3, <1>7
<1> QED
  BY <1>9, <1>10, <1>11

LEMMA DeleteTyped ==
    ASSUME Typed, NEW f \in Ino, Delete(f)
    PROVE  Typed'
BY ITruncTyped DEF Delete, GivenBack, Typed, TypeOK

LEMMA DeleteInodes ==
    ASSUME Typed, InodesFromPrefix, NEW f \in Ino, Delete(f)
    PROVE  InodesFromPrefix'
<1> SUFFICES ASSUME InodesInRange'
             PROVE  /\ ib' = 0 .. DIRS + ihanded'
                    /\ \A i \in live' : \E p \in ib' : i = Number(p)
                    /\ ~ looking'
  BY DEF InodesFromPrefix
<1>1. /\ ihanded \in Nat /\ ihanded' = ihanded /\ looking' = looking
      /\ ifreed' = ifreed \cup {f} /\ live' = live \ {f}
      /\ ib' = GivenBack(ib, {f})
  BY BoundsAssumption DEF Delete, Typed, TypeOK
<1>2. InodesInRange
  BY <1>1 DEF InodesInRange
<1>3. /\ ib = 0 .. DIRS + ihanded
      /\ \A i \in live : \E p \in ib : i = Number(p)
      /\ ~ looking
  BY <1>2, Zenon DEF InodesFromPrefix
<1>4. DIRS + 1 + ihanded <= BitOf(f) /\ BitOf(f) \in Nat /\ DIRS \in Nat
  <2>1. f \in Nat /\ BYTE \in Nat /\ DIRS \in Nat
    BY SizesAssumption, BitmapSize DEF Ino
  <2>2. f \in ifreed'
    BY <1>1
  <2>3. DIRS + 1 + ihanded <= BitOf(f)
    BY <1>1, <2>2 DEF InodesInRange
  <2>4. BitOf(f) \in Nat
    BY <2>1 DEF BitOf
  <2> QED
    BY <2>1, <2>3, <2>4
<1>5. ib' = ib
  <2>1. BitOf(f) \notin ib
    BY <1>1, <1>3, <1>4
  <2> QED
    BY <1>1, <2>1 DEF GivenBack
<1> QED
  BY <1>1, <1>3, <1>5

-----------------------------------------------------------------------------
(* IAlloc.                                                                 *)

LEMMA TurnTyped ==
    ASSUME Typed, Turn, UNCHANGED blockVars, ihanded' \in Nat
    PROVE  Typed'
<1> DEFINE free == AllocFreeBit(ib)
<1>1. /\ free.num \in -1 .. Unique - 1 /\ free.bits \in SUBSET Position
      /\ GapBit \notin free.bits /\ Unique \in Nat
  BY AllocFreeBitType, BitmapSize DEF Typed, TypeOK
<1>2. live \subseteq Ino
  BY DEF Typed, TypeOK
<1>3. free.num > 0 => free.num \in Ino
  BY <1>1 DEF Ino
<1> HIDE DEF free
<1>4. /\ ib' \subseteq Position /\ GapBit \notin ib' /\ live' \subseteq Ino
      /\ looking' \in BOOLEAN /\ stopped' \in BOOLEAN /\ ifreed' = ifreed
  <2>1. CASE TurnFound
    BY <1>1, <1>2, <1>3, <2>1 DEF TurnFound, Typed, TypeOK, free
  <2>2. CASE TurnOccupied
    <3>1. free.num \in Ino /\ ib' = Given(free.bits, free.num)
      BY <1>2, <2>2 DEF TurnOccupied, free
    <3>2. ib' \subseteq Position /\ GapBit \notin ib'
      BY <1>1, <3>1, GivenType DEF Ino
    <3> QED
      BY <2>2, <3>2 DEF TurnOccupied, Typed, TypeOK
  <2>3. CASE TurnNoSlot
    BY <1>1, <2>3 DEF TurnNoSlot, Typed, TypeOK, free
  <2>4. CASE TurnNone
    BY <1>1, <2>4 DEF TurnNone, Typed, TypeOK, free
  <2> QED
    BY <2>1, <2>2, <2>3, <2>4 DEF Turn
<1> QED
  BY <1>4 DEF blockVars, Typed, TypeOK

\* In range the number found is that of the next position, which no inode has.
LEMMA IAllocInodes ==
    ASSUME Typed, InodesFromPrefix, IAlloc
    PROVE  InodesFromPrefix'
<1> DEFINE n == DIRS + 1 + ihanded
<1> SUFFICES ASSUME InodesInRange'
             PROVE  /\ ib' = 0 .. DIRS + ihanded'
                    /\ \A i \in live' : \E p \in ib' : i = Number(p)
                    /\ ~ looking'
  BY DEF InodesFromPrefix
<1>1. /\ ihanded \in Nat /\ ihanded' = ihanded + 1 /\ ifreed' = ifreed /\ ifreed \subseteq Nat
      /\ DIRS \in Nat \ {0} /\ BYTE \in Nat /\ Unique \in Nat
  BY SizesAssumption, BitmapSize, BoundsAssumption
     DEF IAlloc, Turn, TurnFound, TurnOccupied, TurnNoSlot, TurnNone, Typed, TypeOK, Ino
<1>2. n \in Nat /\ n < Unique /\ n > 0
  BY <1>1 DEF InodesInRange
<1>3. InodesInRange
  <2>1. \A i \in ifreed : DIRS + 1 + ihanded + 1 <= BitOf(i) /\ BitOf(i) \in Nat
    BY <1>1 DEF InodesInRange, BitOf
  <2> QED
    BY <1>1, <1>2, <2>1 DEF InodesInRange
<1>4. /\ ib = 0 .. DIRS + ihanded
      /\ \A i \in live : \E p \in ib : i = Number(p)
  BY <1>3, Zenon DEF InodesFromPrefix
<1>5. ib = 0 .. n - 1 /\ DIRS + ihanded' = n
  BY <1>1, <1>4
<1>6. AllocFreeBit(ib) = [num |-> Number(n), bits |-> 0 .. n]
  BY <1>2, <1>5, NextBit
<1> HIDE DEF n
<1>7. AllocFreeBit(ib).num = Number(n) /\ AllocFreeBit(ib).bits = 0 .. n
  BY <1>6
<1>8. Number(n) \notin live
  <2> SUFFICES ASSUME Number(n) \in live PROVE FALSE
    OBVIOUS
  <2>1. PICK p \in ib : Number(n) = Number(p)
    BY <1>4
  <2>2. p \in 0 .. Unique - 1 /\ n \in 0 .. Unique - 1 /\ p # n
    BY <1>1, <1>2, <1>5, <2>1
  <2> QED
    BY <2>1, <2>2, NumberOneToOne
<1>9. /\ ib' = 0 .. n /\ live' \subseteq live \cup {Number(n)} /\ ~ looking'
  <2>1. ~ TurnOccupied
    BY <1>7, <1>8 DEF TurnOccupied
  <2>2. CASE TurnFound
    BY <1>7, <2>2 DEF TurnFound
  <2>3. CASE TurnNoSlot
    BY <1>7, <2>3 DEF TurnNoSlot
  <2>4. CASE TurnNone
    BY <1>7, <2>4 DEF TurnNone
  <2> QED
    BY <2>1, <2>2, <2>3, <2>4 DEF IAlloc, Turn
<1>10. n \in ib' /\ ib \subseteq ib'
  BY <1>2, <1>5, <1>9
<1> QED
  BY <1>4, <1>5, <1>9, <1>10


-----------------------------------------------------------------------------
(* The theorems.                                                           *)

\* One action at a time.
LEMMA StepInv == IInv /\ [Next]_vars => IInv'
<1> SUFFICES ASSUME Typed, BlocksFromPrefix, InodesFromPrefix, [Next]_vars
             PROVE  Typed' /\ BlocksFromPrefix' /\ InodesFromPrefix'
  BY DEF IInv
<1>1. live \subseteq Ino
  BY DEF Typed, TypeOK
<1>2. UNCHANGED blockVars => BlocksFromPrefix'
  BY DEF BlocksFromPrefix, BlocksInRange, OneOwner, blockVars
<1>3. UNCHANGED inodeVars => InodesFromPrefix'
  BY DEF InodesFromPrefix, InodesInRange, inodeVars
<1>4. CASE \E f \in live : Alloc(f)
  <2>1. PICK f \in Ino : Alloc(f)
    BY <1>1, <1>4
  <2> QED
    BY <2>1, <1>3, AllocTyped, AllocBlocks DEF Alloc, inodeVars
<1>5. CASE \E f \in live : Truncate(f)
  <2>1. PICK f \in Ino : Truncate(f)
    BY <1>1, <1>5
  <2>2. ITrunc(f) /\ UNCHANGED inodeVars
    BY <2>1 DEF Truncate
  <2>3. Typed'
    BY <2>2, ITruncTyped DEF inodeVars, Typed, TypeOK
  <2> QED
    BY <2>2, <2>3, <1>3, ITruncBlocks
<1>6. CASE \E f \in live : Delete(f)
  <2>1. PICK f \in Ino : Delete(f)
    BY <1>1, <1>6
  <2> QED
    BY <2>1, DeleteTyped, DeleteInodes, ITruncBlocks DEF Delete
<1>7. CASE IAlloc
  <2>1. ihanded' \in Nat
    BY <1>7, BoundsAssumption DEF IAlloc, Typed, TypeOK
  <2> QED
    BY <1>2, <1>7, <2>1, TurnTyped, IAllocInodes DEF IAlloc
<1>8. CASE IAllocAgain
  <2>1. ihanded' = ihanded /\ ihanded' \in Nat /\ looking
    BY <1>8 DEF IAllocAgain, Typed, TypeOK
  <2>2. Typed' /\ BlocksFromPrefix'
    BY <1>2, <1>8, <2>1, TurnTyped DEF IAllocAgain
  <2>3. ifreed' = ifreed
    BY <1>8 DEF IAllocAgain, Turn, TurnFound, TurnOccupied, TurnNoSlot, TurnNone
  <2>4. InodesInRange' <=> InodesInRange
    BY <2>1, <2>3 DEF InodesInRange
  <2>5. InodesFromPrefix'
    BY <2>1, <2>4, Zenon DEF InodesFromPrefix
  <2> QED
    BY <2>2, <2>5
<1>9. CASE UNCHANGED vars
  <2>1. UNCHANGED blockVars /\ UNCHANGED inodeVars
    BY <1>9 DEF vars, blockVars, inodeVars
  <2>2. Typed'
    BY <1>9 DEF vars, Typed, TypeOK
  <2> QED
    BY <1>2, <1>3, <2>1, <2>2
<1> QED
  BY <1>4, <1>5, <1>6, <1>7, <1>8, <1>9 DEF Next

\* The invariant: both bitmaps fill from the front until a number given back
\* names a byte among the bits in use, and the search for a zero bit stays within
\* the words it can see.
THEOREM SpaceInvariant == Spec => []IInv
<1>1. Init => IInv
  BY InitTyped, InitBlocks, InitInodes DEF IInv
<1> QED
  BY <1>1, StepInv, PTL DEF Spec

\* Every block number and inode number the calls produce is in the volume, and no
\* bitmap grows, whatever has been given back.
THEOREM SpaceTypeCorrect == Spec => []TypeOK
<1>1. IInv => TypeOK
  BY DEF IInv, Typed
<1> QED
  BY <1>1, SpaceInvariant, PTL

\* What Free gives back in range is never handed out again.
THEOREM NothingReused == Spec => []FillsInOrder
<1>1. IInv => FillsInOrder
  BY Zenon DEF IInv, BlocksFromPrefix, FillsInOrder
<1> QED
  BY <1>1, SpaceInvariant, PTL

\* In range no block belongs to two files, whatever the sizes of byte, word and
\* volume and however files grow, are cut and are deleted.
THEOREM BlocksHaveOneOwner == Spec => []OneOwnerInRange
<1>1. IInv => OneOwnerInRange
  BY Zenon DEF IInv, BlocksFromPrefix, OneOwnerInRange
<1> QED
  BY <1>1, SpaceInvariant, PTL

\* In range every block of a file is in the data zone.
THEOREM BlocksInDataZone == Spec => []InDataZone
<1>1. IInv => InDataZone
  <2> SUFFICES ASSUME IInv, BlocksInRange, NEW f \in Ino, NEW b \in Blocks(f)
               PROVE  b \in DSTART .. DSTART + Unique - 1
    BY DEF InDataZone
  <2>0. handed \in Nat
    BY BoundsAssumption DEF IInv, Typed, TypeOK
  <2>1. /\ db = 0 .. DIRS + handed - 1
        /\ \A g \in Ino : \A k \in DOMAIN held[g] :
             \E p \in db : held[g][k] = DSTART + Number(p)
    BY Zenon DEF IInv, BlocksFromPrefix
  <2>2. PICK k \in DOMAIN held[f] : b = held[f][k]
    BY DEF Blocks
  <2>3. PICK p \in db : b = DSTART + Number(p)
    BY <2>1, <2>2
  <2>4. DSTART \in Nat /\ DIRS \in Nat /\ Unique \in Nat /\ DIRS + handed <= Unique
    BY SizesAssumption, BitmapSize DEF BlocksInRange
  <2>5. p \in 0 .. Unique - 1
    BY <2>0, <2>1, <2>3, <2>4
  <2>6. Number(p) \in 0 .. Unique - 1
    BY <2>5, NumberDigits
  <2> QED
    BY <2>3, <2>4, <2>6
<1> QED
  BY <1>1, SpaceInvariant, PTL

\* In range IAlloc takes the first inode it looks at: none in use is offered to it.
THEOREM InodesFoundFree == Spec => []FoundFree
<1>1. IInv => FoundFree
  BY Zenon DEF IInv, InodesFromPrefix, FoundFree
<1> QED
  BY <1>1, SpaceInvariant, PTL

=============================================================================
