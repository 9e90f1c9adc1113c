---------------------------- MODULE FormatProofs ----------------------------
(***************************************************************************)
(* The layout mformat chooses is sound and is read back as it was chosen,   *)
(* for every request.                                                       *)
(***************************************************************************)
EXTENDS Format, TLAPS

-----------------------------------------------------------------------------
(* Arithmetic                                                               *)

\* A quotient, times its divisor, falls short by less than the divisor.
LEMMA Quotient ==
    ASSUME NEW x \in Nat, NEW n \in Nat, n > 0
    PROVE  /\ x \div n \in Nat
           /\ (x \div n) * n <= x /\ x < (x \div n) * n + n
  OBVIOUS

\* A factor can be cancelled in an inequality.
LEMMA Cancelled ==
    ASSUME NEW a \in Int, NEW b \in Int, NEW c \in Nat, c > 0, c * a <= c * b
    PROVE  a <= b
  <1>1. ASSUME a >= b + 1 PROVE FALSE
    <2>1. c * a >= c * (b + 1) /\ c * (b + 1) = c * b + c
      BY <1>1
    <2> QED BY <2>1
  <1> QED BY <1>1

\* A factor keeps an inequality.
LEMMA Scaled ==
    ASSUME NEW a \in Int, NEW b \in Int, NEW c \in Nat, a <= b
    PROVE  c * a <= c * b /\ a * c <= b * c /\ c * a \in Int /\ c * b \in Int
  OBVIOUS

\* A quotient is at least what fits in it.
LEMMA QuotientAtLeast ==
    ASSUME NEW x \in Nat, NEW n \in Nat, n > 0, NEW m \in Nat
    PROVE  m * n <= x <=> m <= x \div n
  <1> DEFINE q == x \div n
  <1>1. q \in Nat /\ q * n <= x /\ x < q * n + n
    BY Quotient
  <1> HIDE DEF q
  <1>2. ASSUME m <= q PROVE m * n <= x
    <2>1. m * n <= q * n
      BY <1>1, <1>2, Scaled
    <2> QED BY <1>1, <2>1
  <1>3. ASSUME m > q PROVE m * n > x
    <2>1. (q + 1) * n <= m * n /\ (q + 1) * n = q * n + n
      BY <1>1, <1>3, Scaled
    <2> QED BY <1>1, <2>1
  <1>4. m * n \in Nat
    OBVIOUS
  <1> QED BY <1>1, <1>2, <1>3, <1>4 DEF q

\* The smaller the dividend the smaller the quotient.
LEMMA QuotientGrows ==
    ASSUME NEW x \in Nat, NEW y \in Nat, NEW n \in Nat, n > 0, x <= y
    PROVE  x \div n <= y \div n
  <1>1. x \div n \in Nat /\ (x \div n) * n <= x
    BY Quotient
  <1>2. (x \div n) * n <= y
    BY <1>1
  <1> QED BY <1>1, <1>2, QuotientAtLeast

\* Rounding up: the length that CalcFatLen computes, with and without the
\* correction that keeps its numerator from overflowing.
LEMMA RoundedUp ==
    ASSUME NEW num \in Nat, NEW den \in Nat, den > 0, num > 0, NEW corr \in {0, 1},
           corr = 1 => num > den,
           NEW len, len = (num - corr * den - 1) \div den + 1 + corr
    PROVE  len \in Nat /\ len >= 1 /\ num <= len * den /\ len * den < num + den
  <1> DEFINE x == num - corr * den - 1  q == x \div den
  <1>1. x \in Nat /\ x = IF corr = 1 THEN num - den - 1 ELSE num - 1
    OBVIOUS
  <1> HIDE DEF x
  <1>2. q \in Nat /\ q * den <= x /\ x < q * den + den
    BY <1>1, Quotient
  <1>0. len = q + 1 + corr
    BY DEF x
  <1> HIDE DEF q
  <1>3. len * den = q * den + den + (IF corr = 1 THEN den ELSE 0)
    BY <1>0, <1>2
  <1>4. len \in Nat /\ len >= 1
    BY <1>0, <1>2
  <1>5. q * den \in Nat
    BY <1>2
  <1>6. len * den >= num /\ len * den < num + den
    BY <1>1, <1>2, <1>3, <1>5
  <1> QED BY <1>4, <1>6

\* The number of nybbles the entries take, and the sectors they fill.
LEMMA FillsSectors ==
    ASSUME NEW x \in Nat, x > 0, NEW s \in Nat, s > 0, NEW len \in Nat
    PROVE  (x - 1) \div s < len <=> x <= len * s
  <1>1. x - 1 \in Nat
    OBVIOUS
  <1>2. len * s <= x - 1 <=> len <= (x - 1) \div s
    BY <1>1, QuotientAtLeast
  <1>3. (x - 1) \div s \in Nat /\ len * s \in Nat
    BY <1>1, Quotient
  <1> QED BY <1>2, <1>3

-----------------------------------------------------------------------------
(* The length of the FAT                                                    *)

Widths == {0, 12, 16, 32}
Layouts ==
    [fat_bits : Widths, cluster_size : Bytes, dir_len : Nat, fat_len : Nat,
     fat_start : Words, num_fat : Bytes, num_clus : Nat, backupBoot : Words]

\* A layout the search tries.
Guesses == { f \in Layouts : f.fat_bits # 0 /\ f.cluster_size # 0 /\ f.num_fat # 0 }

LEMMA ByteIs == ASSUME NEW n \in Bytes PROVE n \in Nat /\ n <= 255
  BY DEF Bytes, TopByte
LEMMA WordIs == ASSUME NEW n \in Words PROVE n \in Nat /\ n <= 65535
  <1>1. n \in Nat /\ n <= TopWord
    BY DEF Words
  <1> QED BY <1>1 DEF TopWord
LEMMA IsByte == ASSUME NEW n \in Nat, n <= 255 PROVE n \in Bytes
  <1>1. n <= TopByte /\ TopByte \in Nat
    BY DEF TopByte
  <1> QED BY <1>1 DEF Bytes
LEMMA IsWord == ASSUME NEW n \in Nat, n <= 65535 PROVE n \in Words
  <1>1. n <= TopWord /\ TopWord \in Nat
    BY DEF TopWord
  <1> QED BY <1>1 DEF Words

LEMMA LayoutType ==
    ASSUME NEW f \in Layouts
    PROVE  /\ f.fat_bits \in Widths /\ f.cluster_size \in Nat /\ f.cluster_size <= 255
           /\ f.dir_len \in Nat /\ f.fat_len \in Nat
           /\ f.fat_start \in Nat /\ f.fat_start <= 65535
           /\ f.num_fat \in Nat /\ f.num_fat <= 255 /\ f.num_clus \in Nat
           /\ f.backupBoot \in Nat /\ f.backupBoot <= 65535
  <1>1. /\ f.fat_bits \in Widths /\ f.cluster_size \in Bytes
        /\ f.dir_len \in Nat /\ f.fat_len \in Nat
        /\ f.fat_start \in Words /\ f.num_fat \in Bytes /\ f.num_clus \in Nat
        /\ f.backupBoot \in Words
    BY DEF Layouts
  <1> QED BY <1>1, ByteIs, WordIs

LEMMA GuessType ==
    ASSUME NEW f \in Guesses
    PROVE  /\ f \in Layouts /\ f.fat_bits \in {12, 16, 32}
           /\ f.cluster_size \in Nat /\ f.cluster_size >= 1 /\ f.cluster_size <= 255
           /\ f.dir_len \in Nat /\ f.fat_len \in Nat
           /\ f.fat_start \in Nat /\ f.fat_start <= 65535
           /\ f.num_fat \in Nat /\ f.num_fat >= 1 /\ f.num_fat <= 255 /\ f.num_clus \in Nat
           /\ f.backupBoot \in Nat /\ f.backupBoot <= 65535
  <1>1. f \in Layouts /\ f.fat_bits # 0 /\ f.cluster_size # 0 /\ f.num_fat # 0
    BY DEF Guesses
  <1>2. /\ f.fat_bits \in Widths /\ f.cluster_size \in Nat /\ f.cluster_size <= 255
        /\ f.num_fat \in Nat /\ f.num_fat <= 255
    BY <1>1, LayoutType
  <1>3. f.fat_bits \in {12, 16, 32}
    BY <1>1, <1>2 DEF Widths
  <1>4. f.cluster_size >= 1 /\ f.num_fat >= 1
    BY <1>1, <1>2
  <1> QED BY <1>1, <1>2, <1>3, <1>4, LayoutType

\* However many clusters the disk has room for, each has an entry in the FAT.
Covers(f, t) ==
    \A n \in Nat : n * f.cluster_size <= t - ClusStart(f) =>
                     (n + 2) * (f.fat_bits \div 4) <= f.fat_len * (SectorSize * 2)

\* The sectors that CalcFatLen divides between the FATs and the clusters.
Room(f, t) == t - f.fat_start - f.dir_len
Cheated(f, t) ==
    IF Room(f, t) % 2 = 1 /\ f.num_fat % 2 = 0 /\ f.cluster_size % 2 = 0
    THEN Room(f, t) - 1 ELSE Room(f, t)
\* The nybbles one sector of the FATs and its clusters take.
Nybbles(f) == f.fat_bits \div 4
Share(f) == f.cluster_size * (SectorSize * 2) + f.num_fat * Nybbles(f)

LEMMA CheatedIs ==
    ASSUME NEW f \in Guesses, NEW t \in Nat, Room(f, t) >= 0
    PROVE  Cheated(f, t) \in Nat /\ Cheated(f, t) <= Room(f, t) /\ Cheated(f, t) >= Room(f, t) - 1
  BY GuessType DEF Cheated, Room

\* The length computed is the quotient, rounded up.
LEMMA LengthIs ==
    ASSUME NEW f \in Guesses, NEW t \in Nat, CalcFatLen(f, t).fit = 0
    PROVE  LET len == CalcFatLen(f, t).len
               num == (Cheated(f, t) + 2 * f.cluster_size) * Nybbles(f)
           IN  /\ Room(f, t) >= 0
               /\ len \in Nat /\ len >= 1
               /\ num <= len * Share(f) /\ len * Share(f) < num + Share(f)
  <1> DEFINE y == f.fat_bits \div 4
             cs == f.cluster_size
             nf == f.num_fat
             left == Room(f, t)
             rem == Cheated(f, t)
             full == cs * SectorSize * 2 + nf * y
             den == IF y = 3 THEN full ELSE full \div y
             num == (rem + 2 * cs) * (IF y = 3 THEN y ELSE 1)
             corr == IF rem > den THEN 1 ELSE 0
             len == (num - corr * den - 1) \div den + 1 + corr
  <1>1. cs \in Nat /\ cs >= 1 /\ nf \in Nat /\ nf >= 1 /\ y \in {3, 4, 8} /\ left \in Int
    BY GuessType DEF Room
  <1>2. t - ClusStart([f EXCEPT !.fat_len = 0]) = left /\ (t < ClusStart([f EXCEPT !.fat_len = 0]) <=> left < 0)
    BY GuessType DEF ClusStart, Room, Guesses, Layouts
  <1>3. CalcFatLen(f, t) = IF left < 0 THEN [fit |-> -2, len |-> 0]
                           ELSE IF y = 3 /\ rem > 256 * FAT12 THEN [fit |-> 1, len |-> 0]
                           ELSE [fit |-> 0, len |-> len]
    BY <1>2 DEF CalcFatLen, ReservedEntries, Cheated
  <1>4. left >= 0 /\ CalcFatLen(f, t).len = len
    BY <1>1, <1>3
  <1>5. rem \in Nat
    BY <1>4, CheatedIs
  <1>6. full \in Nat /\ full > 0 /\ full = Share(f) /\ cs * (SectorSize * 2) >= cs * 1024
        /\ nf * y >= 0 /\ cs * (SectorSize * 2) \in Nat
    BY <1>1, SectorSizeAssumption DEF Share, Nybbles
  <1> HIDE DEF rem, left
  <1>7. CASE y = 3
    <2>1. num = (rem + 2 * cs) * 3 /\ den = full /\ num \in Nat /\ num > 0
      BY <1>1, <1>5, <1>7
    <2>2. corr = 1 => num > den
      BY <1>1, <1>5, <1>6, <2>1
    <2>3. /\ len \in Nat /\ len >= 1 /\ num <= len * den /\ len * den < num + den
      <3> HIDE DEF num, den
      <3>1. corr \in {0, 1} /\ (corr = 1 => num > den)
        BY <2>2
      <3>2. den \in Nat /\ den > 0 /\ num \in Nat /\ num > 0
        BY <1>6, <2>1
      <3> HIDE DEF corr
      <3>3. len = (num - corr * den - 1) \div den + 1 + corr
        OBVIOUS
      <3> HIDE DEF len
      <3> QED BY <3>1, <3>2, <3>3, RoundedUp
    <2> HIDE DEF len, num, den
    <2> QED BY <1>4, <1>6, <1>7, <2>1, <2>3 DEF Nybbles, rem, left
  <1>8. CASE y \in {4, 8}
    <2>1. num = rem + 2 * cs /\ den = full \div y /\ num \in Nat /\ num > 0
      BY <1>1, <1>5, <1>8
    <2>2. den \in Nat /\ den > 0 /\ den * y = full
      <3> DEFINE k == (SectorSize * 2) \div y
      <3>2. k \in Nat /\ k > 0 /\ k * y = SectorSize * 2
        BY <1>8, SectorSizeAssumption
      <3> HIDE DEF k
      <3> DEFINE q == cs * k + nf
      <3>3. q \in Nat /\ q > 0
        BY <1>1, <3>2
      <3>4. q * y = cs * (k * y) + nf * y /\ cs * SectorSize * 2 = cs * (SectorSize * 2)
        BY <1>1, <3>2, SectorSizeAssumption
      <3>5. full = q * y
        BY <1>1, <3>2, <3>4
      <3> HIDE DEF q, full
      <3>1. full \div y \in Nat /\ full \div y > 0 /\ (full \div y) * y = full
        <4>1. full \div y = q
          BY <1>8, <3>3, <3>5
        <4> QED BY <3>3, <3>5, <4>1
      <3> HIDE DEF full
      <3> QED BY <2>1, <3>1
    <2> HIDE DEF num, den
    <2>3. corr \in {0, 1} /\ (corr = 1 => num > den)
      BY <1>1, <1>5, <2>1, <2>2
    <2>4. len \in Nat /\ len >= 1 /\ num <= len * den /\ len * den < num + den
      <3> HIDE DEF corr
      <3>1. len = (num - corr * den - 1) \div den + 1 + corr
        OBVIOUS
      <3>2. den \in Nat /\ den > 0 /\ num \in Nat /\ num > 0
        BY <2>1, <2>2
      <3> HIDE DEF len
      <3> QED BY <2>3, <3>1, <3>2, RoundedUp
    <2> HIDE DEF len, corr
    <2>5. /\ (len * den) * y = len * full
      <3>1. (len * den) * y = len * (den * y)
        BY <1>1, <2>2, <2>4
      <3> QED BY <3>1, <2>2
    <2>6. len * den \in Nat
      BY <2>2, <2>4
    <2>7. num * y <= (len * den) * y /\ (len * den) * y < (num + den) * y
      <3> HIDE DEF y
      <3> DEFINE z == len * den
      <3>1. z \in Nat /\ num <= z /\ z < num + den
        BY <2>4, <2>6
      <3> HIDE DEF z
      <3>2. num * y <= z * y
        BY <1>1, <2>1, <3>1, Scaled
      <3>3. (z + 1) * y <= (num + den) * y /\ (z + 1) * y = z * y + y
        BY <1>1, <2>1, <2>2, <3>1, Scaled
      <3>4. z * y \in Nat
        BY <1>1, <3>1
      <3>5. y > 0 /\ y \in Nat /\ (num + den) * y \in Nat
        BY <1>1, <2>1, <2>2
      <3>6. num * y <= z * y /\ z * y < (num + den) * y
        BY <3>2, <3>3, <3>4, <3>5
      <3> QED BY <3>6 DEF z
    <2>8. (num + den) * y = num * y + full
      BY <1>1, <2>1, <2>2
    <2> QED BY <1>4, <1>6, <1>8, <2>1, <2>4, <2>5, <2>7, <2>8 DEF Nybbles, rem, left
  <1> QED BY <1>1, <1>7, <1>8

\* The length computed is enough.
LEMMA LengthEnough ==
    ASSUME NEW f \in Guesses, NEW t \in Nat, CalcFatLen(f, t).fit = 0,
           f.fat_len = CalcFatLen(f, t).len
    PROVE  Covers(f, t)
  <1> DEFINE y == Nybbles(f)
             cs == f.cluster_size
             nf == f.num_fat
             len == f.fat_len
             rem == Cheated(f, t)
             left == Room(f, t)
             s == SectorSize * 2
  <1>1. /\ cs \in Nat /\ cs >= 1 /\ nf \in Nat /\ nf >= 1 /\ y \in {3, 4, 8} /\ y = f.fat_bits \div 4
        /\ s \in Nat /\ s > 0
    BY GuessType, SectorSizeAssumption DEF Nybbles
  <1>2. len \in Nat /\ left >= 0 /\ (rem + 2 * cs) * y <= len * Share(f)
    BY LengthIs
  <1>3. left \in Int /\ rem \in Nat /\ t - ClusStart(f) = left - len * nf
    BY <1>2, CheatedIs, GuessType DEF Room, ClusStart
  <1>4. rem = left \/ (rem = left - 1 /\ left % 2 = 1 /\ nf % 2 = 0 /\ cs % 2 = 0)
    BY DEF Cheated
  <1>5. Share(f) = cs * s + nf * y
    BY DEF Share
  <1> SUFFICES ASSUME NEW n \in Nat, n * cs <= left - len * nf
               PROVE  (n + 2) * y <= len * s
    BY <1>1, <1>3 DEF Covers
  <1> HIDE DEF y, cs, nf, len, rem, left, s
  <1>6. n * cs <= rem - len * nf
    <2>1. CASE rem = left
      BY <2>1
    <2>2. CASE rem = left - 1 /\ left % 2 = 1 /\ nf % 2 = 0 /\ cs % 2 = 0
      <3> DEFINE p == nf \div 2  q == cs \div 2
      <3>1. p \in Nat /\ q \in Nat /\ nf = 2 * p /\ cs = 2 * q
        BY <1>1, <2>2
      <3> HIDE DEF p, q
      <3>2. len * nf = 2 * (len * p) /\ n * cs = 2 * (n * q) /\ len * p \in Nat /\ n * q \in Nat
        BY <1>2, <3>1
      <3> DEFINE u == len * p  v == n * q
      <3> HIDE DEF u, v
      <3>3. 2 * v <= left - 2 * u /\ u \in Nat /\ v \in Nat
        BY <3>2 DEF u, v
      <3>4. 2 * v <= left - 1 - 2 * u
        BY <1>3, <2>2, <3>3
      <3> QED BY <2>2, <3>2, <3>4 DEF u, v
    <2> QED BY <1>4, <2>1, <2>2
  <1>7. (n * cs + len * nf) * y <= rem * y
    <2>1. n * cs \in Nat /\ len * nf \in Nat
      BY <1>1, <1>2
    <2> QED BY <1>1, <1>3, <1>6, <2>1
  <1>8. /\ (n * cs + len * nf) * y = cs * (n * y) + len * (nf * y)
        /\ (rem + 2 * cs) * y = rem * y + cs * (2 * y)
        /\ len * (cs * s + nf * y) = cs * (len * s) + len * (nf * y)
    <2>1. (n * cs + len * nf) * y = (n * cs) * y + (len * nf) * y
      BY <1>1, <1>2
    <2>2. (n * cs) * y = cs * (n * y) /\ (len * nf) * y = len * (nf * y)
      BY <1>1, <1>2
    <2>3. (rem + 2 * cs) * y = rem * y + cs * (2 * y)
      BY <1>1, <1>3
    <2>4. len * (cs * s + nf * y) = len * (cs * s) + len * (nf * y) /\ len * (cs * s) = cs * (len * s)
      BY <1>1, <1>2
    <2> QED BY <2>1, <2>2, <2>3, <2>4
  <1>9. cs * (n * y) + cs * (2 * y) <= cs * (len * s)
    <2>1. /\ cs * (n * y) \in Nat /\ cs * (2 * y) \in Nat /\ cs * (len * s) \in Nat
          /\ len * (nf * y) \in Nat /\ rem * y \in Nat
      BY <1>1, <1>2, <1>3
    <2> DEFINE A == cs * (n * y)  B == cs * (2 * y)  C == cs * (len * s)  D == len * (nf * y)  E == rem * y
    <2>2. A + D <= E /\ E + B <= C + D
      BY <1>2, <1>5, <1>7, <1>8
    <2> HIDE DEF A, B, C, D, E
    <2>3. A + B <= C
      BY <2>1, <2>2 DEF A, B, C, D, E
    <2> QED BY <2>3 DEF A, B, C
  <1>10. cs * (n * y) + cs * (2 * y) = cs * ((n + 2) * y)
    BY <1>1
  <1>11. (n + 2) * y \in Int /\ len * s \in Int
    BY <1>1, <1>2
  <1> QED BY <1>1, <1>9, <1>10, <1>11, Cancelled

\* Then the clusters fit.
LEMMA CoversFits ==
    ASSUME NEW f \in Guesses, NEW t \in Nat, t > ClusStart(f), Covers(f, t)
    PROVE  ClustersFitIntoFat(WithClusters(f, t))
  <1> DEFINE n == (t - ClusStart(f)) \div f.cluster_size
  <1>1. ClusStart(f) \in Nat
    BY GuessType DEF ClusStart
  <1>2. n \in Nat /\ n * f.cluster_size <= t - ClusStart(f)
    BY <1>1, GuessType, Quotient
  <1> HIDE DEF n
  <1>3. (n + 2) * (f.fat_bits \div 4) <= f.fat_len * (SectorSize * 2)
    BY <1>2 DEF Covers
  <1>4. (n + 2) * (f.fat_bits \div 4) \in Nat /\ (n + 2) * (f.fat_bits \div 4) > 0
    BY <1>2, GuessType
  <1>5. ((n + 2) * (f.fat_bits \div 4) - 1) \div (SectorSize * 2) < f.fat_len
    BY <1>3, <1>4, FillsSectors, GuessType, SectorSizeAssumption
  <1>6. WithClusters(f, t) = [f EXCEPT !.num_clus = n]
    BY DEF WithClusters, n
  <1>7. /\ WithClusters(f, t).num_clus = n /\ WithClusters(f, t).fat_bits = f.fat_bits
        /\ WithClusters(f, t).fat_len = f.fat_len
    BY <1>6, GuessType DEF Layouts
  <1> QED BY <1>5, <1>7 DEF ClustersFitIntoFat

\* More FAT and fewer clusters do not hurt.
LEMMA CoversStays ==
    ASSUME NEW f \in Guesses, NEW g \in Guesses, NEW t \in Nat, Covers(f, t),
           g.cluster_size = f.cluster_size, g.fat_bits = f.fat_bits,
           g.fat_len >= f.fat_len, ClusStart(g) >= ClusStart(f)
    PROVE  Covers(g, t)
  <1> SUFFICES ASSUME NEW n \in Nat, n * g.cluster_size <= t - ClusStart(g)
               PROVE  (n + 2) * (g.fat_bits \div 4) <= g.fat_len * (SectorSize * 2)
    BY DEF Covers
  <1>1. ClusStart(f) \in Nat /\ ClusStart(g) \in Nat
    BY GuessType DEF ClusStart
  <1>2. n * f.cluster_size <= t - ClusStart(f)
    BY <1>1, GuessType
  <1>3. (n + 2) * (f.fat_bits \div 4) <= f.fat_len * (SectorSize * 2)
    BY <1>2 DEF Covers
  <1>4. f.fat_len * (SectorSize * 2) <= g.fat_len * (SectorSize * 2)
        /\ f.fat_len * (SectorSize * 2) \in Nat /\ g.fat_len * (SectorSize * 2) \in Nat
        /\ (n + 2) * (f.fat_bits \div 4) \in Nat
    BY GuessType, SectorSizeAssumption
  <1> QED BY <1>3, <1>4

-----------------------------------------------------------------------------
(* How much padding there can be                                            *)

\* A layout had too few clusters, so the disk is small.
LEMMA FewSectors ==
    ASSUME NEW R \in Int, NEW a \in Nat, NEW nf \in Nat, nf >= 1, NEW cs \in Nat, NEW len \in Nat,
           NEW m \in Nat, len * (a + nf) < R + 2 * cs + (a + nf), R - len * nf <= m * cs - 1
    PROVE  R * a < (m * cs - 1) * (a + nf) + nf * (2 * cs) + nf * (a + nf)
  <1> DEFINE b == a + nf
  <1>1. b \in Nat /\ b >= 1 /\ len * b \in Nat /\ len * nf \in Nat /\ m * cs \in Nat
    OBVIOUS
  <1>2. len * b + 1 <= R + 2 * cs + b
    BY <1>1
  <1>3. nf * (len * b + 1) <= nf * (R + 2 * cs + b)
    BY <1>1, <1>2, Scaled
  <1>4. /\ nf * (len * b + 1) = (len * nf) * b + nf
        /\ nf * (R + 2 * cs + b) = R * nf + nf * (2 * cs) + nf * b
    BY <1>1
  <1>5. (R - len * nf) * b <= (m * cs - 1) * b
    BY <1>1, Scaled
  <1>6. (R - len * nf) * b = R * a + R * nf - (len * nf) * b
    BY <1>1
  <1>7. /\ R * a \in Int /\ R * nf \in Int /\ (len * nf) * b \in Int /\ nf * (2 * cs) \in Int
        /\ nf * b \in Int /\ (m * cs - 1) * b \in Int
    BY <1>1
  <1> QED BY <1>3, <1>4, <1>5, <1>6, <1>7

\* Too few for 16 bits: little is left for 12 bits.
LEMMA Few16 ==
    ASSUME NEW R \in Int, NEW a \in Nat, NEW nf \in Nat, nf >= 1, nf <= 255,
           NEW cs \in Nat, cs >= 1, NEW len \in Nat, a >= 256 * cs,
           len * (a + nf) < R + 2 * cs + (a + nf), R - len * nf <= 4096 * cs - 1
    PROVE  R <= 4096 * cs + 4700
  <1>1. R * a < (4096 * cs - 1) * (a + nf) + nf * (2 * cs) + nf * (a + nf)
    BY FewSectors
  <1> SUFFICES ASSUME R >= 4096 * cs + 4701 PROVE FALSE
    OBVIOUS
  <1>2. R * a >= (4096 * cs + 4701) * a
    BY Scaled
  <1> DEFINE p == cs * a  q == cs * nf  r == a * nf  s == nf * nf
  <1>3. p \in Nat /\ q \in Nat /\ r \in Nat /\ s \in Nat
    OBVIOUS
  <1>4. /\ (4096 * cs + 4701) * a = 4096 * p + 4701 * a
        /\ (4096 * cs - 1) * (a + nf) = 4096 * p + 4096 * q - a - nf
        /\ nf * (2 * cs) = 2 * q /\ nf * (a + nf) = r + s
    OBVIOUS
  <1>5. q <= 255 * cs /\ r <= 255 * a /\ s <= 255 * nf
    BY Scaled
  <1>6. R * a \in Int
    OBVIOUS
  <1> HIDE DEF p, q, r, s
  <1> QED BY <1>1, <1>2, <1>3, <1>4, <1>5, <1>6

\* The padding of 16 bits, after too few clusters for 32.
LEMMA Waste16 ==
    ASSUME NEW X \in Int, NEW R \in Int, R <= X + 30, NEW k \in {1, 2, 4, 8},
           NEW cs \in Nat, cs >= 1, cs <= 255, NEW nf \in Nat, nf >= 1, nf <= 255,
           NEW a \in Nat, a = (128 * k) * cs, NEW len \in Nat,
           X * a < (65525 * cs - 1) * (a + nf) + nf * (2 * cs) + nf * (a + nf),
           R - 1 + 2 * cs <= len * (2 * a + nf)
    PROVE  R - len * nf - 65525 * cs + 1 <= 65534
  <1> DEFINE w == R - len * nf - 65525 * cs + 1
             p == cs * a  q == cs * nf  r == a * nf  s == nf * nf
             l == len * nf  b == 2 * a + nf  v == l * b
             x == X * a  y == R * a  z == R * nf
  <1>1. p \in Nat /\ q \in Nat /\ r \in Nat /\ s \in Nat /\ l \in Nat /\ b \in Nat /\ w \in Int
        /\ v \in Nat /\ x \in Int /\ y \in Int /\ z \in Int
    OBVIOUS
  <1> SUFFICES ASSUME w >= 65535 PROVE FALSE
    BY <1>1
  <1>2. w * b >= 65535 * b
    BY <1>1, Scaled
  <1>3. w * b = 2 * y + z - v - 131050 * p - 65525 * q + 2 * a + nf
    <2>1. w * b = R * b - l * b - (65525 * cs) * b + b
      BY <1>1
    <2>2. R * b = 2 * y + z /\ (65525 * cs) * b = 131050 * p + 65525 * q
      OBVIOUS
    <2> QED BY <2>1, <2>2
  <1>4. v >= z - nf + 2 * q
    <2>1. nf * (R - 1 + 2 * cs) <= nf * (len * b)
      <3>1. len * b \in Int
        BY <1>1
      <3> QED BY <3>1, Scaled
    <2>2. nf * (len * b) = v /\ nf * (R - 1 + 2 * cs) = z - nf + 2 * q
      BY <1>1
    <2> QED BY <2>1, <2>2
  <1>5. y <= x + 30 * a
    <2>1. R * a <= (X + 30) * a /\ (X + 30) * a = x + 30 * a
      BY Scaled
    <2> QED BY <2>1
  <1>6. x < 65525 * p + 65525 * q - a - nf + 2 * q + r + s
    <2>1. /\ (65525 * cs - 1) * (a + nf) = 65525 * p + 65525 * q - a - nf
          /\ nf * (2 * cs) = 2 * q /\ nf * (a + nf) = r + s
      OBVIOUS
    <2> QED BY <2>1
  <1>7. r <= 255 * a /\ s <= 255 * nf /\ q <= 255 * cs
    BY Scaled
  <1>8. nf <= 254 => q <= 254 * cs
    BY Scaled
  <1>9. k = 1 => a = 128 * cs /\ r = 128 * q
    OBVIOUS
  <1>10. k # 1 => a >= 256 * cs
    <2>1. (128 * k) * cs = 128 * (k * cs)
      OBVIOUS
    <2>2. k >= 2 => k * cs >= 2 * cs
      BY Scaled
    <2> QED BY <2>1, <2>2
  <1>11. 131010 * a + 65535 * nf < 65527 * q + 2 * r + 2 * s
    <2> HIDE DEF w, p, q, r, s, v, x, y, z
    <2>1. w * b >= 131070 * a + 65535 * nf
      BY <1>2
    <2> HIDE DEF b
    <2>2. w * b < 65527 * q + 2 * r + 2 * s + 60 * a
      BY <1>1, <1>3, <1>4, <1>5, <1>6
    <2>3. w * b \in Int
      BY <1>1
    <2> QED BY <1>1, <2>1, <2>2, <2>3
  <1> HIDE DEF w, p, q, r, s, l, b, v, x, y, z
  <1>12. CASE k # 1
    BY <1>1, <1>7, <1>10, <1>11, <1>12
  <1>13. CASE k = 1 /\ nf <= 254
    BY <1>1, <1>7, <1>8, <1>9, <1>11, <1>13
  <1>14. CASE k = 1 /\ nf = 255
    BY <1>1, <1>7, <1>9, <1>11, <1>14
  <1> QED BY <1>12, <1>13, <1>14

\* Its products under names, for use among other products.
Spent(X, cs, a, nf) == X * a < (65525 * cs - 1) * (a + nf) + nf * (2 * cs) + nf * (a + nf)
Taken(R, cs, len, a, nf) == R - 1 + 2 * cs <= len * (2 * a + nf)
Blocked(a, k, cs) == a = (128 * k) * cs
Wasted(R, len, nf, cs) == R - len * nf - 65525 * cs + 1

LEMMA WasteNamed ==
    ASSUME NEW X \in Int, NEW R \in Int, R <= X + 30, NEW k \in {1, 2, 4, 8},
           NEW cs \in Nat, cs >= 1, cs <= 255, NEW nf \in Nat, nf >= 1, nf <= 255,
           NEW a \in Nat, Blocked(a, k, cs), NEW len \in Nat, Spent(X, cs, a, nf),
           Taken(R, cs, len, a, nf)
    PROVE  Wasted(R, len, nf, cs) <= 65534
  BY Waste16 DEF Spent, Taken, Blocked, Wasted

\* The same, when the clusters have grown since.
LEMMA Waste16Grown ==
    ASSUME NEW X \in Int, NEW R \in Int, R <= X + 30, NEW k \in {1, 2, 4, 8},
           NEW cs \in Nat, cs >= 2, cs <= 255, NEW nf \in Nat, nf >= 1, nf <= 255,
           NEW a \in Nat, a = 128 * k, NEW len \in Nat,
           X * a < 65524 * (a + nf) + nf * 2 + nf * (a + nf),
           R - 1 + 2 * cs <= len * ((2 * a) * cs + nf)
    PROVE  R - len * nf - 65525 * cs + 1 <= 65534
  <1> DEFINE r == a * nf  s == nf * nf  l == len * nf  x == X * a  y == R * a
  <1>1. r \in Nat /\ s \in Nat /\ l \in Nat /\ x \in Int /\ y \in Int
    OBVIOUS
  <1> SUFFICES ASSUME R - l - 65525 * cs + 1 >= 65535 PROVE FALSE
    BY <1>1
  <1>2. R >= 196584 + l
    BY <1>1
  <1>3. y >= 196584 * a + l * a
    <2>1. (196584 + l) * a <= R * a /\ (196584 + l) * a = 196584 * a + l * a
      BY <1>1, <1>2, Scaled
    <2> QED BY <2>1
  <1>4. y <= x + 30 * a
    <2>1. R * a <= (X + 30) * a /\ (X + 30) * a = x + 30 * a
      BY Scaled
    <2> QED BY <2>1
  <1>5. x < 65524 * a + 65526 * nf + r + s
    OBVIOUS
  <1>6. r <= 255 * a /\ s <= 255 * nf
    BY Scaled
  <1>7. l * a \in Nat
    BY <1>1
  <1>8. a >= 128 /\ (a = 128 \/ a >= 256)
    OBVIOUS
  <1>9. 130775 * a + l * a < 65781 * nf
    <2> HIDE DEF r, s, l, x, y
    <2> QED BY <1>1, <1>3, <1>4, <1>5, <1>6, <1>7
  <1>10. nf = 255 /\ a = 128
    <2> HIDE DEF r, s, l, x, y
    <2> QED BY <1>7, <1>8, <1>9
  <1>11. len <= 1
    <2>1. l * a = 32640 * len
      BY <1>10
    <2> QED BY <1>9, <1>10, <2>1
  <1>12. len * ((2 * a) * cs + nf) <= 256 * cs + 255
    <2>1. len = 0 \/ len = 1
      BY <1>11
    <2>2. (2 * a) * cs = 256 * cs
      BY <1>10
    <2> QED BY <1>10, <2>1, <2>2
  <1>13. len * ((2 * a) * cs + nf) \in Int
    OBVIOUS
  <1> QED BY <1>1, <1>2, <1>12, <1>13

-----------------------------------------------------------------------------
(* The same, of the layouts tried                                           *)

Span(f) == f.cluster_size * ((SectorSize * 2) \div Nybbles(f)) + f.num_fat

LEMMA Blocks == \E k \in {1, 2, 4, 8} : SectorSize = 512 * k
  BY SectorSizeAssumption

LEMMA LengthSpan ==
    ASSUME NEW f \in Guesses, NEW t \in Nat, f.fat_bits # 12, CalcFatLen(f, t).fit = 0,
           f.fat_len = CalcFatLen(f, t).len
    PROVE  /\ f.fat_len \in Nat /\ f.fat_len >= 1 /\ Span(f) \in Nat
           /\ Cheated(f, t) \in Nat /\ Cheated(f, t) <= Room(f, t) /\ Cheated(f, t) >= Room(f, t) - 1
           /\ Cheated(f, t) + 2 * f.cluster_size <= f.fat_len * Span(f)
           /\ f.fat_len * Span(f) < Cheated(f, t) + 2 * f.cluster_size + Span(f)
  <1> DEFINE y == Nybbles(f)
             cs == f.cluster_size
             nf == f.num_fat
             len == f.fat_len
             rem == Cheated(f, t)
             k == (SectorSize * 2) \div y
             b == Span(f)
  <1>1. cs \in Nat /\ nf \in Nat /\ y \in {4, 8}
    BY GuessType DEF Nybbles
  <1>2. len \in Nat /\ len >= 1 /\ (rem + 2 * cs) * y <= len * Share(f)
        /\ len * Share(f) < (rem + 2 * cs) * y + Share(f) /\ Room(f, t) >= 0
    BY LengthIs
  <1>3. rem \in Nat /\ rem <= Room(f, t) /\ rem >= Room(f, t) - 1
    BY <1>2, CheatedIs
  <1>4. k \in Nat /\ k * y = SectorSize * 2 /\ SectorSize \in Nat
    BY <1>1, SectorSizeAssumption
  <1>5. b = cs * k + nf /\ Share(f) = cs * (SectorSize * 2) + nf * y
    BY DEF Span, Share
  <1> HIDE DEF k, y, cs, nf, len, rem, b
  <1>6. b \in Nat /\ Share(f) = b * y
    BY <1>1, <1>4, <1>5
  <1>7. len * (b * y) = (len * b) * y /\ len * b \in Nat
    BY <1>1, <1>2, <1>6
  <1> DEFINE v == len * b  u == rem + 2 * cs
  <1>8. v \in Nat /\ u \in Nat
    BY <1>1, <1>3, <1>7
  <1>9. u * y <= v * y /\ v * y < u * y + b * y
    BY <1>2, <1>6, <1>7
  <1> HIDE DEF v, u
  <1>10. u <= v /\ v < u + b
    BY <1>1, <1>6, <1>8, <1>9
  <1> QED BY <1>2, <1>3, <1>6, <1>10 DEF v, u, b, cs, len, rem

LEMMA RoomLeft ==
    ASSUME NEW f \in Guesses, NEW t \in Nat
    PROVE  /\ Room(f, t) \in Int /\ ClusStart(f) \in Nat
           /\ f.fat_len * f.num_fat \in Nat
           /\ t - ClusStart(f) = Room(f, t) - f.fat_len * f.num_fat
  BY GuessType DEF Room, ClusStart

\* A FAT32 with too few clusters, and the disk it is on.
SmallFor32(X, cs, nf) ==
    LET a == cs * (SectorSize \div 4)
    IN  X * a < (65525 * cs - 1) * (a + nf) + nf * (2 * cs) + nf * (a + nf)

LEMMA TooFew32 ==
    ASSUME NEW f \in Guesses, NEW t \in Nat, f.fat_bits = 32, CalcFatLen(f, t).fit = 0,
           f.fat_len = CalcFatLen(f, t).len, t - ClusStart(f) < 65525 * f.cluster_size
    PROVE  SmallFor32(Room(f, t), f.cluster_size, f.num_fat)
  <1> DEFINE R == Room(f, t)  cs == f.cluster_size  nf == f.num_fat  len == f.fat_len
             a == cs * (SectorSize \div 4)
  <1>1. cs \in Nat /\ nf \in Nat /\ nf >= 1 /\ R \in Int /\ len * nf \in Nat
        /\ t - ClusStart(f) = R - len * nf
    BY GuessType, RoomLeft
  <1>2. a \in Nat /\ Span(f) = a + nf
    BY <1>1, SectorSizeAssumption DEF Span, Nybbles
  <1>3. len \in Nat /\ len * (a + nf) < R + 2 * cs + (a + nf)
    <2>1. /\ Cheated(f, t) \in Nat /\ Cheated(f, t) <= R /\ len \in Nat
          /\ len * Span(f) < Cheated(f, t) + 2 * cs + Span(f)
      BY LengthSpan
    <2>2. len * (a + nf) < Cheated(f, t) + 2 * cs + (a + nf)
      BY <1>2, <2>1
    <2> HIDE DEF a, cs, nf, len, R
    <2>3. len * (a + nf) \in Int
      BY <1>1, <1>2, <2>1
    <2> QED BY <1>1, <1>2, <2>1, <2>2, <2>3
  <1>4. R - len * nf <= 65525 * cs - 1
    BY <1>1
  <1> HIDE DEF R, cs, nf, len, a
  <1>5. R * a < (65525 * cs - 1) * (a + nf) + nf * (2 * cs) + nf * (a + nf)
    BY <1>1, <1>2, <1>3, <1>4, FewSectors
  <1> QED BY <1>5 DEF SmallFor32, R, cs, nf, a

LEMMA TooFew16 ==
    ASSUME NEW f \in Guesses, NEW t \in Nat, f.fat_bits = 16, CalcFatLen(f, t).fit = 0,
           f.fat_len = CalcFatLen(f, t).len, t - ClusStart(f) < 4096 * f.cluster_size
    PROVE  Room(f, t) <= 4096 * f.cluster_size + 4700
  <1> DEFINE R == Room(f, t)  cs == f.cluster_size  nf == f.num_fat  len == f.fat_len
             a == cs * (SectorSize \div 2)
  <1>1. cs \in Nat /\ cs >= 1 /\ nf \in Nat /\ nf >= 1 /\ nf <= 255 /\ R \in Int /\ len * nf \in Nat
        /\ t - ClusStart(f) = R - len * nf
    BY GuessType, RoomLeft
  <1>2. a \in Nat /\ a >= 256 * cs /\ Span(f) = a + nf
    BY <1>1, SectorSizeAssumption DEF Span, Nybbles
  <1>3. len \in Nat /\ len * (a + nf) < R + 2 * cs + (a + nf)
    <2>1. /\ Cheated(f, t) \in Nat /\ Cheated(f, t) <= R /\ len \in Nat
          /\ len * Span(f) < Cheated(f, t) + 2 * cs + Span(f)
      BY LengthSpan
    <2>2. len * (a + nf) < Cheated(f, t) + 2 * cs + (a + nf)
      BY <1>2, <2>1
    <2> HIDE DEF a, cs, nf, len, R
    <2>3. len * (a + nf) \in Int
      BY <1>1, <1>2, <2>1
    <2> QED BY <1>1, <1>2, <2>1, <2>2, <2>3
  <1>4. R - len * nf <= 4096 * cs - 1
    BY <1>1
  <1> HIDE DEF R, cs, nf, len, a
  <1>5. R <= 4096 * cs + 4700
    BY <1>1, <1>2, <1>3, <1>4, Few16
  <1> QED BY <1>5 DEF R, cs

LEMMA PadFits16 ==
    ASSUME NEW f \in Guesses, NEW t \in Nat, f.fat_bits = 16, CalcFatLen(f, t).fit = 0,
           f.fat_len = CalcFatLen(f, t).len, NEW cs0 \in Nat, cs0 >= 1,
           f.cluster_size = cs0 \/ (cs0 = 1 /\ f.cluster_size >= 2),
           NEW X \in Int, SmallFor32(X, cs0, f.num_fat), Room(f, t) <= X + 30
    PROVE  Waste(f, t) <= 65534
  <1> DEFINE R == Room(f, t)  cs == f.cluster_size  nf == f.num_fat  len == f.fat_len
             a == cs0 * (SectorSize \div 4)
  <1>1. /\ cs \in Nat /\ cs >= 1 /\ cs <= 255 /\ nf \in Nat /\ nf >= 1 /\ nf <= 255
        /\ R \in Int /\ len * nf \in Nat /\ t - ClusStart(f) = R - len * nf
    BY GuessType, RoomLeft
  <1>2. PICK k \in {1, 2, 4, 8} : SectorSize = 512 * k
    BY Blocks
  <1>3. a = (128 * k) * cs0 /\ a \in Nat
    BY <1>2
  <1>4. X * a < (65525 * cs0 - 1) * (a + nf) + nf * (2 * cs0) + nf * (a + nf)
    BY DEF SmallFor32
  <1>5. Waste(f, t) = R - len * nf - 65525 * cs + 1
    BY <1>1 DEF Waste, MaxClus, FAT16
  <1>6. len \in Nat /\ R - 1 + 2 * cs <= len * Span(f)
    <2>1. /\ Cheated(f, t) \in Nat /\ Cheated(f, t) >= R - 1 /\ len \in Nat /\ Span(f) \in Nat
          /\ Cheated(f, t) + 2 * cs <= len * Span(f)
      BY LengthSpan
    <2> HIDE DEF cs, nf, len, R
    <2>2. len * Span(f) \in Int
      BY <2>1
    <2> QED BY <1>1, <2>1, <2>2
  <1>7. Span(f) = (256 * k) * cs + nf
    BY <1>1, <1>2 DEF Span, Nybbles
  <1>8. R <= X + 30
    OBVIOUS
  <1>10. CASE cs = cs0
    <2> HIDE DEF R, cs, nf, len, a
    <2>1. 2 * a = (256 * k) * cs
      BY <1>3, <1>10
    <2>2. Taken(R, cs, len, a, nf)
      BY <1>6, <1>7, <2>1 DEF Taken
    <2>3. Spent(X, cs, a, nf)
      BY <1>4, <1>10 DEF Spent
    <2>4. Blocked(a, k, cs)
      BY <1>3, <1>10 DEF Blocked
    <2>5. /\ a \in Nat /\ len \in Nat /\ cs \in Nat /\ cs >= 1 /\ cs <= 255
          /\ nf \in Nat /\ nf >= 1 /\ nf <= 255 /\ R \in Int
      BY <1>1, <1>3, <1>6
    <2>6. R <= X + 30 /\ X \in Int /\ k \in {1, 2, 4, 8}
      BY <1>2, <1>8
    <2>7. Wasted(R, len, nf, cs) <= 65534
      <3>1. \A l \in Nat : Taken(R, cs, l, a, nf) => Wasted(R, l, nf, cs) <= 65534
        BY <2>6, <2>3, <2>4, <2>5, WasteNamed
      <3> QED BY <2>2, <2>5, <3>1
    <2>8. Waste(f, t) = Wasted(R, len, nf, cs)
      BY <1>5 DEF Wasted
    <2> QED BY <2>7, <2>8
  <1>11. CASE cs0 = 1 /\ cs >= 2
    <2> HIDE DEF R, cs, nf, len
    <2>1. a = 128 * k
      BY <1>3, <1>11
    <2> HIDE DEF a
    <2>2. (2 * a) * cs = (256 * k) * cs
      BY <2>1
    <2>3. R - 1 + 2 * cs <= len * ((2 * a) * cs + nf)
      BY <1>6, <1>7, <2>2
    <2>4. X * a < 65524 * (a + nf) + nf * 2 + nf * (a + nf)
      BY <1>4, <1>11
    <2>5. cs >= 2
      BY <1>11
    <2>7. a \in Nat /\ len \in Nat
      BY <1>3, <1>6
    <2>6. R - len * nf - 65525 * cs + 1 <= 65534
      BY <1>1, <2>7, <1>8, <2>1, <2>3, <2>4, <2>5, Waste16Grown
    <2> QED BY <1>5, <2>6
  <1> QED BY <1>10, <1>11

LEMMA PadFits12 ==
    ASSUME NEW f \in Guesses, NEW t \in Nat, f.fat_bits = 12, NEW cs0 \in Nat,
           f.cluster_size >= cs0, Room(f, t) <= 4096 * cs0 + 4700
    PROVE  Waste(f, t) <= 65534
  <1>1. Waste(f, t) = Room(f, t) - f.fat_len * f.num_fat - 4085 * f.cluster_size + 1
    BY RoomLeft DEF Waste, MaxClus, FAT12
  <1>2. f.fat_len * f.num_fat \in Nat /\ Room(f, t) \in Int /\ f.cluster_size \in Nat /\ f.cluster_size <= 255
    BY GuessType, RoomLeft
  <1> QED BY <1>1, <1>2

-----------------------------------------------------------------------------
(* Padding                                                                  *)

\* Both kinds change two fields.
LEMMA LongerFat ==
    ASSUME NEW f \in Guesses, NEW a \in Nat, NEW b \in Nat
    PROVE  [f EXCEPT !.fat_len = a, !.dir_len = b] \in Guesses
  BY DEF Guesses, Layouts

LEMMA LongerStart ==
    ASSUME NEW f \in Guesses, NEW a \in Words, NEW b \in Nat
    PROVE  [f EXCEPT !.fat_start = a, !.dir_len = b] \in Guesses
  BY DEF Guesses, Layouts

\* Padding takes what is to be wasted, and less than a sector for each FAT more.
LEMMA PaddedIs ==
    ASSUME NEW f \in Guesses, NEW t \in Nat, NEW may,
           Waste(f, t) >= 1, Waste(f, t) <= 65535,
           "root_size" \in may => f.dir_len <= 32,
           f.fat_start >= 1, "boot_size" \in may => f.fat_start = 1
    PROVE  LET g == Padded(f, t, may)
           IN  /\ g \in Guesses
               /\ g.cluster_size = f.cluster_size /\ g.fat_bits = f.fat_bits
               /\ g.num_fat = f.num_fat /\ g.backupBoot = f.backupBoot
               /\ g.fat_len >= f.fat_len /\ ("fat_len" \notin may => g.fat_len = f.fat_len)
               /\ g.dir_len >= f.dir_len /\ ("root_size" \in may => g.dir_len <= 32)
               /\ "root_size" \notin may => g.dir_len = f.dir_len
               /\ "boot_size" \notin may => g.fat_start = f.fat_start
               /\ ClusStart(g) <= ClusStart(f) + Waste(f, t) + f.num_fat - 1
               /\ g.fat_start >= 1 => ClusStart(g) >= ClusStart(f)
               /\ g.fat_start = 0 => ClusStart(g) <= ClusStart(f)
               /\ Waste(f, t) <= 65534 => g.fat_start >= 1
  <1> DEFINE g == Padded(f, t, may)
             w == Waste(f, t)
             nf == f.num_fat
             grow == IF "root_size" \in may THEN Least(32 - f.dir_len, w) ELSE 0
             rest == w - grow
             fg == (rest + nf - 1) \div nf
             shrink == DirShrink(rest, fg, nf, grow)
  <1>1. /\ nf \in Nat /\ nf >= 1 /\ nf <= 255 /\ f.dir_len \in Nat /\ f.fat_len \in Nat
        /\ f.fat_start \in Nat /\ f.fat_start <= 65535
    BY GuessType
  <1>2. w \in Int /\ w >= 1 /\ w <= 65535 /\ Word(w) = w
    BY RoomLeft, GuessType DEF Waste, MaxClus, FAT12, FAT16, FAT32, Word
  <1>3. g = IF "fat_len" \in may /\ ("boot_size" \notin may \/ f.fat_bits = 12)
            THEN [f EXCEPT !.fat_len = f.fat_len + fg, !.dir_len = f.dir_len + grow - shrink]
            ELSE [f EXCEPT !.fat_start = IF "boot_size" \in may THEN Word(f.fat_start + rest) ELSE f.fat_start,
                           !.dir_len = f.dir_len + grow]
    BY <1>2 DEF Padded
  <1> HIDE DEF w, g, nf
  <1>4. /\ grow \in Nat /\ grow <= w /\ rest \in Nat /\ rest <= w
        /\ "root_size" \in may => f.dir_len + grow <= 32
        /\ "root_size" \notin may => grow = 0
    BY <1>1, <1>2 DEF Least
  <1> HIDE DEF grow
  <1>5. rest + grow = w
    BY <1>2, <1>4
  <1> HIDE DEF rest
  <1>6. fg \in Nat /\ fg * nf >= rest /\ fg * nf <= rest + nf - 1 /\ fg * nf \in Nat
    <2>1. rest + nf - 1 \in Nat
      BY <1>1, <1>4
    <2>2. fg \in Nat /\ fg * nf <= rest + nf - 1 /\ rest + nf - 1 < fg * nf + nf
      BY <1>1, <2>1, Quotient
    <2> HIDE DEF fg
    <2>3. fg * nf \in Nat
      BY <1>1, <2>2
    <2> QED BY <1>1, <1>4, <2>2, <2>3
  <1> HIDE DEF fg
  <1>7. shrink \in Nat /\ shrink <= grow
    <2>1. rest - fg * nf \in Int
      BY <1>4, <1>6
    <2>2. Word(rest - fg * nf) \in Nat
      BY <2>1 DEF Word
    <2> QED BY <1>4, <2>2 DEF DirShrink, Least
  <1> HIDE DEF shrink
  <1>8. CASE "fat_len" \in may /\ ("boot_size" \notin may \/ f.fat_bits = 12)
    <2> DEFINE a == f.fat_len + fg  b == f.dir_len + grow - shrink
    <2>1. g = [f EXCEPT !.fat_len = a, !.dir_len = b] /\ a \in Nat /\ b \in Nat
      BY <1>1, <1>3, <1>4, <1>6, <1>7, <1>8
    <2> HIDE DEF a, b
    <2>2. /\ g \in Guesses /\ g.fat_len = a /\ g.dir_len = b /\ g.fat_start = f.fat_start
          /\ g.cluster_size = f.cluster_size /\ g.fat_bits = f.fat_bits
          /\ g.num_fat = f.num_fat /\ g.backupBoot = f.backupBoot
      <3>1. g \in Guesses
        <4> DEFINE h == [f EXCEPT !.fat_len = a, !.dir_len = b]
        <4>1. h \in Guesses
          <5>1. a \in Nat /\ b \in Nat
            BY <2>1
          <5> QED BY ONLY f \in Guesses, <5>1, LongerFat, Zenon
        <4>2. g = h
          BY <2>1
        <4> HIDE DEF h
        <4> QED BY <4>1, <4>2
      <3>2. f \in Layouts
        BY GuessType
      <3>3. g.fat_len = a /\ g.dir_len = b
        BY <2>1, <3>2 DEF Layouts
      <3>4. g.fat_start = f.fat_start /\ g.cluster_size = f.cluster_size /\ g.fat_bits = f.fat_bits
        BY <2>1, <3>2 DEF Layouts
      <3>5. g.num_fat = f.num_fat /\ g.backupBoot = f.backupBoot
        BY <2>1, <3>2 DEF Layouts
      <3> QED BY <3>1, <3>3, <3>4, <3>5
    <2>3. a * nf = f.fat_len * nf + fg * nf /\ f.fat_len * nf \in Nat
      BY <1>1, <1>6 DEF a
    <2>4. ClusStart(g) = ClusStart(f) + fg * nf + grow - shrink /\ ClusStart(f) \in Nat
      BY <1>1, <1>4, <1>6, <1>7, <2>2, <2>3 DEF ClusStart, nf, b
    <2>5. g.fat_len >= f.fat_len /\ g.dir_len >= f.dir_len /\ g.dir_len <= f.dir_len + grow
      BY <1>1, <1>4, <1>6, <1>7, <2>2 DEF a, b
    <2>6. ClusStart(g) >= ClusStart(f) /\ ClusStart(g) <= ClusStart(f) + w + nf - 1
      BY <1>1, <1>2, <1>4, <1>5, <1>6, <1>7, <2>4
    <2>7. "root_size" \in may => g.dir_len <= 32
      BY <1>1, <1>4, <2>2, <2>5, GuessType
    <2>8. "root_size" \notin may => g.dir_len = f.dir_len
      BY <1>1, <1>4, <1>7, <2>2 DEF b
    <2>9. g.fat_start >= 1
      BY <2>2
    <2> QED BY <1>1, <1>8, <2>2, <2>5, <2>6, <2>7, <2>8, <2>9 DEF g, w, nf
  <1>9. CASE ~("fat_len" \in may /\ ("boot_size" \notin may \/ f.fat_bits = 12))
    <2> DEFINE a == IF "boot_size" \in may THEN Word(f.fat_start + rest) ELSE f.fat_start
               b == f.dir_len + grow
    <2>1. a \in Nat /\ a <= 65535
      BY <1>1, <1>4 DEF Word
    <2>2. a \in Words /\ b \in Nat /\ g = [f EXCEPT !.fat_start = a, !.dir_len = b]
      BY <1>1, <1>3, <1>4, <1>9, <2>1, IsWord
    <2>3. a <= f.fat_start + rest
      BY <1>1, <1>4 DEF Word
    <2>4. "boot_size" \in may => f.fat_start = 1 /\ a = IF rest = 65535 THEN 0 ELSE rest + 1
      BY <1>2, <1>4 DEF Word
    <2>5. "boot_size" \notin may => a = f.fat_start
      OBVIOUS
    <2> HIDE DEF a, b
    <2>6. /\ g \in Guesses /\ g.fat_len = f.fat_len /\ g.dir_len = b /\ g.fat_start = a
          /\ g.cluster_size = f.cluster_size /\ g.fat_bits = f.fat_bits
          /\ g.num_fat = f.num_fat /\ g.backupBoot = f.backupBoot
      <3>1. g \in Guesses
        <4> DEFINE h == [f EXCEPT !.fat_start = a, !.dir_len = b]
        <4>1. h \in Guesses
          <5>1. a \in Words /\ b \in Nat
            BY <2>2
          <5> QED BY ONLY f \in Guesses, <5>1, LongerStart, Zenon
        <4>2. g = h
          BY <2>2
        <4> HIDE DEF h
        <4> QED BY <4>1, <4>2
      <3>2. f \in Layouts
        BY GuessType
      <3>3. g.fat_start = a /\ g.dir_len = b
        BY <2>2, <3>2 DEF Layouts
      <3>4. g.fat_len = f.fat_len /\ g.cluster_size = f.cluster_size /\ g.fat_bits = f.fat_bits
        BY <2>2, <3>2 DEF Layouts
      <3>5. g.num_fat = f.num_fat /\ g.backupBoot = f.backupBoot
        BY <2>2, <3>2 DEF Layouts
      <3> QED BY <3>1, <3>3, <3>4, <3>5
    <2>7. f.fat_len * nf \in Nat
      BY <1>1
    <2>8. ClusStart(g) = ClusStart(f) + (a - f.fat_start) + grow /\ ClusStart(f) \in Nat
      BY <1>1, <1>4, <2>1, <2>6, <2>7 DEF ClusStart, nf, b
    <2>9. g.dir_len >= f.dir_len /\ ("root_size" \in may => g.dir_len <= 32)
          /\ ("root_size" \notin may => g.dir_len = f.dir_len)
      BY <1>1, <1>4, <2>6 DEF b
    <2>10. ClusStart(g) <= ClusStart(f) + w + nf - 1
      BY <1>1, <1>2, <1>4, <1>5, <2>1, <2>3, <2>8
    <2>11. a >= 1 => ClusStart(g) >= ClusStart(f)
      BY <1>1, <1>4, <2>1, <2>4, <2>5, <2>8
    <2>12. w <= 65534 => a >= 1
      BY <1>1, <1>2, <1>4, <1>5, <2>1, <2>4, <2>5
    <2>13. a = 0 => ClusStart(g) <= ClusStart(f)
      BY <1>1, <1>2, <1>4, <1>5, <2>1, <2>4, <2>5, <2>8
    <2> QED BY <1>1, <1>9, <2>5, <2>6, <2>9, <2>10, <2>11, <2>12, <2>13 DEF g, w, nf
  <1> QED BY <1>8, <1>9

-----------------------------------------------------------------------------
(* The invariant                                                            *)

Searching == pc \in {"search", "judge", "adjust"}

\* Where the FAT starts before there is any padding.
StartOf(bits) ==
    IF "boot_size" \in May THEN (IF bits = 32 THEN 32 ELSE 1) ELSE req.fat_start
\* The size of the clusters when the number of bits is lowered.
LowClusters == IF "cluster_size" \in May THEN 1 ELSE req.cluster_size

Typed ==
    /\ req \in Requests
    /\ pc \in {"device", "start", "search", "judge", "adjust", "boot", "read", "done",
               "failed", "abort"}
    /\ tot \in Nat /\ fs \in Layouts /\ mayPad \in BOOLEAN
    /\ savedDir \in Nat /\ waste \in Nat
    /\ d \in Nat /\ d >= 1 /\ (pc # "failed" => d <= Len(req.devs))

Before ==
    pc \in {"device", "start"} =>
        fs = NewLayout(req) /\ mayPad = FALSE /\ (pc = "start" => tot > 0)

\* Padding is allowed only where the disk is little too large for the bits.
PadSmall ==
    /\ fs.fat_bits # 32
    /\ "fat_len" \in May /\ fs.fat_bits = 12 =>
            fs.dir_len >= 1 /\ tot - StartOf(12) - fs.dir_len <= 4096 * LowClusters + 4700
    /\ "fat_len" \in May /\ fs.fat_bits = 16 =>
            SmallFor32(tot - StartOf(16) - 31, LowClusters, fs.num_fat)

SearchInv ==
    Searching =>
        /\ fs \in Guesses /\ tot > 0
        /\ fs.backupBoot = req.backupBoot
        /\ savedDir >= 1
        /\ "root_size" \in May => savedDir <= 32 /\ fs.dir_len <= 32
        /\ "boot_size" \notin May => fs.fat_start = req.fat_start
        /\ "cluster_size" \notin May => fs.cluster_size = req.cluster_size
        /\ req.fat32 => fs.fat_bits = 32
        /\ mayPad => PadSmall

\* The FAT has the length that was computed for it.
Computed(f, t) == CalcFatLen(f, t).fit = 0 /\ f.fat_len = CalcFatLen(f, t).len

JudgeInv ==
    pc = "judge" =>
        /\ (fs.fat_bits = 32) = (fs.dir_len = 0)
        /\ waste = 0 => fs.fat_start = StartOf(fs.fat_bits)
        /\ "fat_len" \in May => Covers(fs, tot) /\ (waste = 0 => Computed(fs, tot))
        /\ fs.fat_start = 0 => tot - ClusStart(fs) >= MaxClus(fs.fat_bits) * fs.cluster_size
        /\ waste # 0 => fs.fat_bits # 32
        /\ waste # 0 /\ fs.fat_bits = 16 => tot - ClusStart(fs) >= 4096 * fs.cluster_size

AdjustInv ==
    pc = "adjust" =>
        /\ fit \in {0, -1} =>
            /\ (fs.fat_bits = 32) = (fs.dir_len = 0)
            /\ fs.fat_start >= 1 /\ tot > ClusStart(fs)
            /\ fs.num_clus = (tot - ClusStart(fs)) \div fs.cluster_size
            /\ fit = 0 \/ "fat_len" \in May => ClustersFitIntoFat(fs)
        /\ fit = 0 => fs.num_clus >= MinClus(fs.fat_bits) /\ fs.num_clus < MaxClus(fs.fat_bits)
        /\ fit = -1 => fs.num_clus < MinClus(fs.fat_bits)
        /\ fit = -1 /\ "fat_len" \in May /\ fs.fat_bits # 12 =>
                fs.fat_start = StartOf(fs.fat_bits) /\ Computed(fs, tot)
        /\ fit = 2 => "fat_len" \notin May

LaidInv ==
    Laid =>
        /\ fs \in Guesses
        /\ ParamsAsserted(fs) /\ fs.fat_start >= 1 /\ tot > ClusStart(fs)
        /\ fs.num_clus = (tot - ClusStart(fs)) \div fs.cluster_size
        /\ fs.num_clus + 1 < LastFat(fs.fat_bits)
        /\ fs.fat_bits = 32 => fs.fat_start > 1 /\ fs.backupBoot \in {0} \cup 2..fs.fat_start-1

BootInv ==
    /\ pc \in {"read", "done"} => boot = BootOf(fs)
    /\ ReadBackSame

\* What is known of every state.
FormatInv ==
    /\ Typed /\ Before /\ SearchInv /\ JudgeInv /\ AdjustInv /\ LaidInv /\ BootInv /\ AssertsHold

-----------------------------------------------------------------------------
(* Requests                                                                 *)

LEMMA NotZero ==
    ASSUME NEW n \in Words \ {0}
    PROVE  n \in Nat /\ n >= 1
  BY WordIs

LEMMA RequestIs ==
    ASSUME NEW r \in Requests
    PROVE  /\ r.devs \in Seq(Descriptions) /\ r.devs # <<>>
           /\ r.total \in Nat
           /\ r.cluster_size \in Bytes /\ r.dir_len \in Words
           /\ r.fat_len \in Nat /\ r.fat_start \in Words
           /\ r.num_fat \in Bytes /\ r.num_fat # 0
           /\ r.backupBoot \in Words /\ r.backupBoot # 1
  BY RequestsAssumption DEF IsRequest

LEMMA RequestSizes ==
    ASSUME NEW r \in Requests
    PROVE  /\ r.cluster_size \in Nat /\ r.cluster_size <= 255 /\ r.dir_len \in Nat
           /\ r.fat_start \in Nat /\ r.fat_start <= 65535
           /\ r.num_fat \in Nat /\ r.num_fat >= 1 /\ r.num_fat <= 255
           /\ r.backupBoot \in Nat /\ r.backupBoot <= 65535
  <1>1. /\ r.cluster_size \in Bytes /\ r.dir_len \in Words /\ r.fat_start \in Words
        /\ r.num_fat \in Bytes /\ r.num_fat # 0 /\ r.backupBoot \in Words
    BY RequestIs
  <1> QED BY <1>1, ByteIs, WordIs

LEMMA FirstLayout ==
    ASSUME NEW r \in Requests
    PROVE  /\ NewLayout(r) \in Layouts
           /\ NewLayout(r).fat_start = r.fat_start /\ NewLayout(r).backupBoot = r.backupBoot
           /\ NewLayout(r).cluster_size = r.cluster_size /\ NewLayout(r).num_fat = r.num_fat
           /\ NewLayout(r).dir_len = r.dir_len /\ NewLayout(r).fat_len = r.fat_len
  <1>1. /\ r.cluster_size \in Bytes /\ r.dir_len \in Nat /\ r.fat_len \in Nat
        /\ r.fat_start \in Words /\ r.num_fat \in Bytes /\ r.backupBoot \in Words
    BY RequestIs, RequestSizes
  <1>2. 0 \in Widths
    BY DEF Widths
  <1> QED BY <1>1, <1>2 DEF NewLayout, Layouts

LEMMA MayIs ==
    /\ "boot_size" \in May <=> req.fat_start = 0
    /\ "cluster_size" \in May <=> req.cluster_size = 0
    /\ "root_size" \in May <=> req.dir_len = 0
    /\ "fat_len" \in May <=> req.fat_len = 0
    /\ "fat_bits" \in May <=> dev.fat_bits = 0 /\ ~req.fat32
  BY DEF May

LEMMA DevIs ==
    ASSUME req \in Requests, d \in Nat, d >= 1, d <= Len(req.devs)
    PROVE  /\ dev.fat_bits \in {0, 12, 16, 32, -12, -16, -32}
           /\ dev.heads \in Nat /\ dev.heads >= 1 /\ dev.sectors \in Nat /\ dev.sectors >= 1
           /\ dev.tracks \in Nat /\ dev.hidden \in Nat
  <1>1. req.devs \in Seq(Descriptions)
    BY RequestIs
  <1>2. dev \in Descriptions
    BY <1>1 DEF dev
  <1>3. dev.heads \in Words \ {0} /\ dev.sectors \in Words \ {0}
    BY <1>2 DEF Descriptions
  <1>4. dev.fat_bits \in {0, 12, 16, 32, -12, -16, -32} /\ dev.tracks \in Nat /\ dev.hidden \in Nat
    BY <1>2 DEF Descriptions
  <1> QED BY <1>3, <1>4, NotZero

LEMMA Times ==
    ASSUME NEW m \in Nat, NEW n \in Nat, m >= 1, n >= 1
    PROVE  m * n \in Nat /\ m * n >= 1
  BY Scaled

LEMMA SectorsIs ==
    ASSUME req \in Requests, d \in Nat, d >= 1, d <= Len(req.devs)
    PROVE  /\ ChsSectors(dev) \in Nat
           /\ ChsSectors(dev) <= dev.tracks * (dev.heads * dev.sectors)
  <1> DEFINE track == dev.heads * dev.sectors  all == dev.tracks * track  part == dev.hidden % track
  <1>1. track \in Nat /\ track >= 1
    BY DevIs, Times
  <1>2. all \in Nat /\ part \in Nat
    BY <1>1, DevIs
  <1>3. ChsSectors(dev) = IF all > part THEN all - part ELSE all
    BY DEF ChsSectors
  <1> HIDE DEF all, part
  <1>4. ChsSectors(dev) \in Nat /\ ChsSectors(dev) <= all
    BY <1>2, <1>3
  <1> QED BY <1>4 DEF all

\* What stays as long as the description does.
LEMMA MayStays ==
    ASSUME UNCHANGED <<req, d>>
    PROVE  /\ May' = May /\ dev' = dev /\ FirstBits' = FirstBits
           /\ LowClusters' = LowClusters
           /\ StartOf(12)' = StartOf(12) /\ StartOf(16)' = StartOf(16) /\ StartOf(32)' = StartOf(32)
  <1>1. dev' = dev
    BY DEF dev
  <1>2. May' = May
    BY <1>1 DEF May
  <1> QED BY <1>1, <1>2 DEF FirstBits, LowClusters, StartOf

LEMMA StartIs ==
    ASSUME req \in Requests, NEW bits
    PROVE  /\ StartOf(bits) \in Nat /\ StartOf(bits) >= 1 /\ StartOf(bits) <= 65535
           /\ StartOf(bits) \in Words
           /\ "boot_size" \in May => StartOf(bits) = IF bits = 32 THEN 32 ELSE 1
           /\ "boot_size" \notin May => StartOf(bits) = req.fat_start
           /\ StartOf(32) <= StartOf(16) + 31 /\ StartOf(16) = StartOf(12)
  <1>1. req.fat_start \in Nat /\ req.fat_start <= 65535
    BY RequestSizes
  <1>2. "boot_size" \notin May => req.fat_start >= 1
    BY <1>1, MayIs
  <1>3. StartOf(bits) \in Nat /\ StartOf(bits) >= 1 /\ StartOf(bits) <= 65535
    BY <1>1, <1>2 DEF StartOf
  <1> QED BY <1>1, <1>3, IsWord DEF StartOf

LEMMA LowIs ==
    ASSUME req \in Requests
    PROVE  LowClusters \in Nat /\ LowClusters >= 1 /\ LowClusters <= 255
  BY MayIs, RequestSizes DEF LowClusters

LEMMA FirstBitsIs ==
    ASSUME req \in Requests, d \in Nat, d >= 1, d <= Len(req.devs)
    PROVE  FirstBits \in {12, 16, 32} /\ (req.fat32 => FirstBits = 32)
  BY DevIs DEF FirstBits, Abs

-----------------------------------------------------------------------------
(* The next guess                                                           *)

LEMMA SmallerToo ==
    ASSUME NEW X \in Int, NEW Y \in Int, Y <= X, NEW cs \in Nat, NEW nf \in Nat,
           SmallFor32(X, cs, nf)
    PROVE  SmallFor32(Y, cs, nf)
  <1> DEFINE a == cs * (SectorSize \div 4)
             z == (65525 * cs - 1) * (a + nf) + nf * (2 * cs) + nf * (a + nf)
  <1>1. a \in Nat
    BY SectorSizeAssumption
  <1>2. X * a < z
    BY DEF SmallFor32
  <1>3. Y * a <= X * a /\ Y * a \in Int /\ X * a \in Int /\ z \in Int
    BY <1>1, Scaled
  <1>4. Y * a < z
    <2> HIDE DEF a, z
    <2> QED BY <1>2, <1>3
  <1> QED BY <1>4 DEF SmallFor32

\* Few clusters fill few sectors.
LEMMA FewFill ==
    ASSUME NEW f \in Guesses, NEW t \in Nat, t > ClusStart(f), NEW m \in Nat,
           (t - ClusStart(f)) \div f.cluster_size < m
    PROVE  t - ClusStart(f) < m * f.cluster_size
  <1> DEFINE x == t - ClusStart(f)  cs == f.cluster_size  n == x \div cs
  <1>1. x \in Nat /\ cs \in Nat /\ cs > 0
    BY GuessType, RoomLeft
  <1>0. n < m
    OBVIOUS
  <1>5. n \in Nat /\ x < n * cs + cs
    <2> HIDE DEF x, cs
    <2> QED BY <1>1, Quotient
  <1> HIDE DEF n, x, cs
  <1>2. n \in Nat /\ x < n * cs + cs /\ n + 1 <= m
    BY <1>0, <1>5
  <1>3. (n + 1) * cs <= m * cs /\ (n + 1) * cs = n * cs + cs
    BY <1>1, <1>2, Scaled
  <1>4. n * cs \in Nat /\ m * cs \in Nat
    BY <1>1, <1>2
  <1> QED BY <1>1, <1>2, <1>3, <1>4 DEF x, cs

LEMMA OtherCluster ==
    ASSUME NEW f \in Guesses, NEW c \in Bytes, c # 0
    PROVE  [f EXCEPT !.cluster_size = c] \in Guesses
  BY DEF Guesses, Layouts

LEMMA OtherBits ==
    ASSUME NEW f \in Guesses, NEW b \in Widths, b # 0
    PROVE  [f EXCEPT !.fat_bits = b] \in Guesses
  BY DEF Guesses, Layouts

LEMMA OtherBoth ==
    ASSUME NEW f \in Guesses, NEW b \in Widths, b # 0, NEW c \in Bytes, c # 0
    PROVE  [f EXCEPT !.fat_bits = b, !.cluster_size = c] \in Guesses
  BY DEF Guesses, Layouts

\* What a guess leaves alone.
SameRest(f, g) ==
    /\ g.fat_start = f.fat_start /\ g.dir_len = f.dir_len /\ g.backupBoot = f.backupBoot
    /\ g.num_fat = f.num_fat

LEMMA Guessed ==
    ASSUME FormatInv, pc = "adjust", fs' \in Guesses, SameRest(fs, fs'), pc' = "search",
           UNCHANGED <<req, d, tot, descr, savedDir, fit, waste, boot, seen>>,
           "cluster_size" \notin May => fs'.cluster_size = fs.cluster_size,
           req.fat32 => fs'.fat_bits = 32,
           mayPad' \in BOOLEAN, mayPad' => PadSmall'
    PROVE  FormatInv'
  <1>1. May' = May /\ dev' = dev
    BY MayStays
  <1>2. SearchInv
    BY DEF FormatInv
  <1>3. Typed'
    BY GuessType DEF FormatInv, Typed
  <1>4. /\ fs \in Guesses /\ tot > 0
        /\ fs.backupBoot = req.backupBoot
        /\ savedDir >= 1
        /\ "root_size" \in May => savedDir <= 32 /\ fs.dir_len <= 32
        /\ "boot_size" \notin May => fs.fat_start = req.fat_start
        /\ "cluster_size" \notin May => fs.cluster_size = req.cluster_size
    BY <1>2 DEF SearchInv, Searching
  <1>5. SearchInv'
    BY <1>1, <1>4 DEF SearchInv, SameRest
  <1>6. Before' /\ JudgeInv' /\ AdjustInv' /\ LaidInv' /\ BootInv' /\ AssertsHold'
    BY DEF Before, JudgeInv, AdjustInv, LaidInv, BootInv, AssertsHold, Laid, ReadBackSame
  <1> QED BY <1>3, <1>5, <1>6 DEF FormatInv

\* What is known before the next guess.
LEMMA AdjustFacts ==
    ASSUME FormatInv, pc = "adjust"
    PROVE  /\ fs \in Guesses /\ fs \in Layouts /\ req \in Requests /\ tot \in Nat /\ mayPad \in BOOLEAN
           /\ d \in Nat /\ d >= 1 /\ d <= Len(req.devs)
           /\ mayPad => PadSmall
           /\ req.fat32 => fs.fat_bits = 32
           /\ "cluster_size" \notin May => fs.cluster_size = req.cluster_size
  BY GuessType DEF FormatInv, Typed, SearchInv, Searching

\* Padding stays allowed whatever the size of the clusters.
LEMMA PadStays ==
    ASSUME FormatInv, pc = "adjust", fs' \in Guesses, SameRest(fs, fs'),
           fs'.fat_bits = fs.fat_bits, mayPad, UNCHANGED <<req, d, tot>>
    PROVE  PadSmall'
  <1>1. May' = May /\ LowClusters' = LowClusters
        /\ StartOf(12)' = StartOf(12) /\ StartOf(16)' = StartOf(16)
    BY MayStays
  <1>2. PadSmall
    BY AdjustFacts
  <1> QED BY <1>1, <1>2 DEF PadSmall, SameRest

LEMMA HalveClusterKeeps == FormatInv /\ HalveCluster => FormatInv'
  <1> SUFFICES ASSUME FormatInv, HalveCluster PROVE FormatInv'
    OBVIOUS
  <1> DEFINE c == fs.cluster_size \div 2
  <1>1. /\ pc = "adjust" /\ CanHalve /\ pc' = "search" /\ mayPad' = mayPad
        /\ UNCHANGED <<req, d, tot, descr, savedDir, fit, waste, boot, seen>>
        /\ fs' = [fs EXCEPT !.cluster_size = c]
    BY DEF HalveCluster, Guess
  <1>2. fs \in Guesses /\ fs \in Layouts /\ fs.cluster_size > 1 /\ "cluster_size" \in May
        /\ mayPad \in BOOLEAN /\ (req.fat32 => fs.fat_bits = 32)
    BY <1>1, AdjustFacts DEF CanHalve
  <1>3. c \in Nat /\ c >= 1 /\ c <= 255
    BY <1>2, GuessType
  <1>4. c \in Bytes /\ c # 0
    BY <1>3, IsByte
  <1> HIDE DEF c
  <1>5. fs' \in Guesses
    BY <1>1, <1>2, <1>4, OtherCluster
  <1>6. SameRest(fs, fs') /\ fs'.fat_bits = fs.fat_bits
    BY <1>1, <1>2 DEF Layouts, SameRest
  <1>7. mayPad' => PadSmall'
    BY <1>1, <1>5, <1>6, PadStays
  <1> QED BY <1>1, <1>2, <1>5, <1>6, <1>7, Guessed

LEMMA DoubleClusterKeeps == FormatInv /\ DoubleCluster => FormatInv'
  <1> SUFFICES ASSUME FormatInv, DoubleCluster PROVE FormatInv'
    OBVIOUS
  <1> DEFINE c == fs.cluster_size * 2
  <1>1. /\ pc = "adjust" /\ CanDouble /\ pc' = "search" /\ mayPad' = mayPad
        /\ UNCHANGED <<req, d, tot, descr, savedDir, fit, waste, boot, seen>>
        /\ fs' = [fs EXCEPT !.cluster_size = c]
    BY DEF DoubleCluster, Guess
  <1>2. fs \in Guesses /\ fs \in Layouts /\ fs.cluster_size < 128 /\ "cluster_size" \in May
        /\ mayPad \in BOOLEAN /\ (req.fat32 => fs.fat_bits = 32)
    BY <1>1, AdjustFacts DEF CanDouble
  <1>3. c \in Nat /\ c >= 1 /\ c <= 255
    BY <1>2, GuessType
  <1>4. c \in Bytes /\ c # 0
    BY <1>3, IsByte
  <1> HIDE DEF c
  <1>5. fs' \in Guesses
    BY <1>1, <1>2, <1>4, OtherCluster
  <1>6. SameRest(fs, fs') /\ fs'.fat_bits = fs.fat_bits
    BY <1>1, <1>2 DEF Layouts, SameRest
  <1>7. mayPad' => PadSmall'
    BY <1>1, <1>5, <1>6, PadStays
  <1> QED BY <1>1, <1>2, <1>5, <1>6, <1>7, Guessed

LEMMA RaiseBitsKeeps == FormatInv /\ RaiseBits => FormatInv'
  <1> SUFFICES ASSUME FormatInv, RaiseBits PROVE FormatInv'
    OBVIOUS
  <1> DEFINE b == IF fs.fat_bits = 12 THEN 16 ELSE 32
             c == IF "cluster_size" \notin May THEN fs.cluster_size
                  ELSE IF fs.fat_bits = 16 /\ "fat_len" \in May THEN 8 ELSE 1
  <1>1. /\ pc = "adjust" /\ CanRaise /\ pc' = "search" /\ mayPad' = mayPad
        /\ UNCHANGED <<req, d, tot, descr, savedDir, fit, waste, boot, seen>>
        /\ fs' = [fs EXCEPT !.fat_bits = b, !.cluster_size = c]
    BY DEF RaiseBits, Guess
  <1>2. fs \in Guesses /\ fs \in Layouts /\ "fat_bits" \in May /\ ~mayPad /\ mayPad \in BOOLEAN
    BY <1>1, AdjustFacts DEF CanRaise
  <1>3. ~req.fat32
    BY <1>2, MayIs
  <1>4. b \in Widths /\ b # 0
    BY DEF Widths
  <1>5. c \in Bytes /\ c # 0
    <2>1. c \in Nat /\ c >= 1 /\ c <= 255
      BY <1>2, GuessType
    <2> QED BY <2>1, IsByte
  <1>6. "cluster_size" \notin May => c = fs.cluster_size
    OBVIOUS
  <1> HIDE DEF b, c
  <1>7. fs' \in Guesses
    BY <1>1, <1>2, <1>4, <1>5, OtherBoth
  <1>8. SameRest(fs, fs') /\ fs'.cluster_size = c
    BY <1>1, <1>2 DEF Layouts, SameRest
  <1> QED BY <1>1, <1>2, <1>3, <1>6, <1>7, <1>8, Guessed

LEMMA BackTo12Keeps == FormatInv /\ BackTo12 => FormatInv'
  <1> SUFFICES ASSUME FormatInv, BackTo12 PROVE FormatInv'
    OBVIOUS
  <1>1. /\ pc = "adjust" /\ fit = 2 /\ CanGoBack /\ pc' = "search" /\ mayPad' = TRUE
        /\ UNCHANGED <<req, d, tot, descr, savedDir, fit, waste, boot, seen>>
        /\ fs' = [fs EXCEPT !.fat_bits = 12]
    BY DEF BackTo12, Guess
  <1>2. fs \in Guesses /\ fs \in Layouts /\ "fat_bits" \in May /\ "fat_len" \notin May
    BY <1>1, AdjustFacts DEF CanGoBack, FormatInv, AdjustInv
  <1>3. ~req.fat32
    BY <1>2, MayIs
  <1>4. fs' \in Guesses
    <2>1. 12 \in Widths /\ 12 # 0
      BY DEF Widths
    <2> DEFINE h == [fs EXCEPT !.fat_bits = 12]
    <2>2. h \in Guesses
      BY <1>2, <2>1, OtherBits
    <2>3. fs' = h
      BY <1>1
    <2> HIDE DEF h
    <2> QED BY <2>2, <2>3
  <1>5. SameRest(fs, fs') /\ fs'.cluster_size = fs.cluster_size /\ fs'.fat_bits = 12
    BY <1>1, <1>2 DEF Layouts, SameRest
  <1>6. May' = May
    BY <1>1, MayStays
  <1>7. PadSmall'
    BY <1>2, <1>5, <1>6 DEF PadSmall
  <1> QED BY <1>1, <1>2, <1>3, <1>4, <1>5, <1>7, Guessed

LEMMA LowerBitsKeeps == FormatInv /\ LowerBits => FormatInv'
  <1> SUFFICES ASSUME FormatInv, LowerBits PROVE FormatInv'
    OBVIOUS
  <1> DEFINE b == IF fs.fat_bits = 16 THEN 12 ELSE 16
  <1>1. /\ pc = "adjust" /\ fit = -1 /\ ~CanHalve /\ "fat_bits" \in May /\ fs.fat_bits # 12
        /\ pc' = "search" /\ mayPad' = TRUE
        /\ UNCHANGED <<req, d, tot, descr, savedDir, fit, waste, boot, seen>>
        /\ fs' = [fs EXCEPT !.fat_bits = b]
    BY DEF LowerBits, Guess
  <1>2. fs \in Guesses /\ fs \in Layouts /\ req \in Requests /\ tot \in Nat
        /\ ("cluster_size" \notin May => fs.cluster_size = req.cluster_size)
    BY <1>1, AdjustFacts
  <1>3. ~req.fat32
    BY <1>1, MayIs
  <1>4. fs' \in Guesses
    <2>1. b \in Widths /\ b # 0
      BY DEF Widths
    <2> DEFINE h == [fs EXCEPT !.fat_bits = b]
    <2>2. h \in Guesses
      BY <1>2, <2>1, OtherBits
    <2>3. fs' = h
      BY <1>1
    <2> HIDE DEF h
    <2> QED BY <2>2, <2>3
  <1>5. SameRest(fs, fs') /\ fs'.cluster_size = fs.cluster_size /\ fs'.fat_bits = b
    BY <1>1, <1>2 DEF Layouts, SameRest
  <1>6. May' = May /\ LowClusters' = LowClusters
        /\ StartOf(12)' = StartOf(12) /\ StartOf(16)' = StartOf(16)
    BY <1>1, MayStays
  <1>7. /\ (fs.fat_bits = 32) = (fs.dir_len = 0) /\ tot > ClusStart(fs)
        /\ (tot - ClusStart(fs)) \div fs.cluster_size < MinClus(fs.fat_bits)
        /\ "fat_len" \in May => fs.fat_start = StartOf(fs.fat_bits) /\ Computed(fs, tot)
    BY <1>1 DEF FormatInv, AdjustInv
  <1>8. fs.dir_len \in Nat /\ fs.cluster_size \in Nat /\ fs.cluster_size >= 1 /\ fs.num_fat \in Nat
        /\ fs.fat_bits \in {16, 32}
    BY <1>1, <1>2, GuessType
  <1>9. "fat_len" \in May => fs.cluster_size = LowClusters
    BY <1>1, <1>2, <1>8 DEF CanHalve, LowClusters
  <1>10. LowClusters \in Nat /\ StartOf(12) = StartOf(16) /\ StartOf(16) \in Nat /\ StartOf(32) \in Nat
         /\ StartOf(32) <= StartOf(16) + 31
    BY <1>2, LowIs, StartIs
  <1>11. ASSUME fs.fat_bits = 16, "fat_len" \in May
         PROVE  fs.dir_len >= 1 /\ tot - StartOf(12) - fs.dir_len <= 4096 * LowClusters + 4700
    <2>1. tot - ClusStart(fs) < 4096 * fs.cluster_size
      <3>1. (tot - ClusStart(fs)) \div fs.cluster_size < 4096
        BY <1>7, <1>11 DEF MinClus
      <3> QED BY <1>2, <1>7, <3>1, FewFill
    <2>2. Room(fs, tot) <= 4096 * fs.cluster_size + 4700
      BY <1>2, <1>7, <1>11, <2>1, TooFew16 DEF Computed
    <2> QED BY <1>7, <1>8, <1>9, <1>10, <1>11, <2>2 DEF Room
  <1>12. ASSUME fs.fat_bits = 32, "fat_len" \in May
         PROVE  SmallFor32(tot - StartOf(16) - 31, LowClusters, fs.num_fat)
    <2>1. tot - ClusStart(fs) < 65525 * fs.cluster_size
      <3>1. (tot - ClusStart(fs)) \div fs.cluster_size < 65525
        BY <1>7, <1>12 DEF MinClus, FAT16
      <3> QED BY <1>2, <1>7, <3>1, FewFill
    <2>2. SmallFor32(Room(fs, tot), LowClusters, fs.num_fat)
      BY <1>2, <1>7, <1>9, <1>12, <2>1, TooFew32 DEF Computed
    <2>3. tot - StartOf(16) - 31 <= Room(fs, tot) /\ Room(fs, tot) \in Int
      BY <1>2, <1>7, <1>8, <1>10, <1>12 DEF Room
    <2> QED BY <1>2, <1>8, <1>10, <2>2, <2>3, SmallerToo
  <1>13. PadSmall'
    BY <1>1, <1>5, <1>6, <1>8, <1>11, <1>12 DEF PadSmall, SameRest
  <1> HIDE DEF b
  <1> QED BY <1>1, <1>2, <1>3, <1>4, <1>5, <1>13, Guessed

-----------------------------------------------------------------------------
(* try_cluster_size                                                         *)

LEMMA CalcCases ==
    ASSUME NEW f, NEW t
    PROVE  /\ CalcFatLen(f, t).fit \in {-2, 0, 1}
           /\ CalcFatLen(f, t).fit # 0 => CalcFatLen(f, t).len = 0
  BY DEF CalcFatLen

LEMMA WithoutFat ==
    ASSUME NEW f \in Guesses
    PROVE  ClusStart([f EXCEPT !.fat_len = 0]) = f.fat_start + f.dir_len
  BY GuessType DEF ClusStart, Guesses, Layouts

LEMMA CalcSame ==
    ASSUME NEW f \in Guesses, NEW g \in Guesses, NEW t, g.fat_bits = f.fat_bits,
           g.fat_start = f.fat_start, g.dir_len = f.dir_len, g.num_fat = f.num_fat,
           g.cluster_size = f.cluster_size
    PROVE  CalcFatLen(g, t) = CalcFatLen(f, t)
  <1>1. ClusStart([g EXCEPT !.fat_len = 0]) = ClusStart([f EXCEPT !.fat_len = 0])
    BY WithoutFat
  <1>2. ReservedEntries(g) = ReservedEntries(f)
    BY DEF ReservedEntries
  <1> QED BY <1>1, <1>2 DEF CalcFatLen

LEMMA OtherLength ==
    ASSUME NEW f \in Guesses, NEW len \in Nat
    PROVE  [f EXCEPT !.fat_len = len] \in Guesses
  BY DEF Guesses, Layouts

LEMMA OtherCount ==
    ASSUME NEW f \in Guesses, NEW n \in Nat
    PROVE  [f EXCEPT !.num_clus = n] \in Guesses
  BY DEF Guesses, Layouts

LEMMA OtherThree ==
    ASSUME NEW f \in Guesses, NEW s \in Words, NEW b \in Nat, NEW c \in Bytes, c # 0
    PROVE  [f EXCEPT !.fat_start = s, !.dir_len = b, !.cluster_size = c] \in Guesses
  BY DEF Guesses, Layouts

\* What is known before the FAT is sized.
LEMMA PreparedIs ==
    ASSUME FormatInv, pc = "search"
    PROVE  LET f == Prepared(fs)
           IN  /\ f \in Guesses /\ f.fat_bits = fs.fat_bits /\ f.num_fat = fs.num_fat
               /\ f.backupBoot = fs.backupBoot /\ f.fat_start = StartOf(fs.fat_bits)
               /\ (f.fat_bits = 32) = (f.dir_len = 0)
               /\ fs.fat_bits # 32 /\ fs.dir_len >= 1 => f.dir_len = fs.dir_len
               /\ "root_size" \in May => f.dir_len <= 32
               /\ "cluster_size" \notin May => f.cluster_size = fs.cluster_size
  <1> DEFINE s == IF "boot_size" \notin May THEN fs.fat_start ELSE IF fs.fat_bits = 32 THEN 32 ELSE 1
             b == IF fs.fat_bits = 32 THEN 0 ELSE IF fs.dir_len = 0 THEN savedDir ELSE fs.dir_len
             c == IF fs.fat_bits = 32 /\ {"cluster_size", "fat_len"} \subseteq May
                  THEN Fat32Cluster(fs.cluster_size) ELSE fs.cluster_size
             f == Prepared(fs)
  <1>1. f = [fs EXCEPT !.fat_start = s, !.dir_len = b, !.cluster_size = c]
    BY DEF Prepared
  <1>2. /\ fs \in Guesses /\ savedDir >= 1 /\ savedDir \in Nat /\ req \in Requests
        /\ "root_size" \in May => savedDir <= 32 /\ fs.dir_len <= 32
        /\ "boot_size" \notin May => fs.fat_start = req.fat_start
    BY DEF FormatInv, Typed, SearchInv, Searching
  <1>3. fs \in Layouts /\ fs.dir_len \in Nat /\ fs.cluster_size \in Nat /\ fs.cluster_size >= 1
        /\ fs.cluster_size <= 255
    BY <1>2, GuessType
  <1>4. s = StartOf(fs.fat_bits) /\ s \in Words
    <2>1. s = StartOf(fs.fat_bits)
      BY <1>2 DEF StartOf
    <2> QED BY <1>2, <2>1, StartIs
  <1>5. /\ b \in Nat /\ (fs.fat_bits = 32) = (b = 0)
        /\ fs.fat_bits # 32 /\ fs.dir_len >= 1 => b = fs.dir_len
        /\ "root_size" \in May => b <= 32
    BY <1>2, <1>3
  <1>6. c \in Nat /\ c >= 1 /\ c <= 255 /\ ("cluster_size" \notin May => c = fs.cluster_size)
    BY <1>3 DEF Fat32Cluster
  <1>7. c \in Bytes /\ c # 0
    BY <1>6, IsByte
  <1> HIDE DEF s, b, c, f
  <1>8. f \in Guesses
    <2> DEFINE h == [fs EXCEPT !.fat_start = s, !.dir_len = b, !.cluster_size = c]
    <2>1. h \in Guesses
      BY <1>2, <1>4, <1>5, <1>7, OtherThree
    <2>2. f = h
      BY <1>1
    <2> HIDE DEF h
    <2> QED BY <2>1, <2>2
  <1>9. f.fat_start = s /\ f.dir_len = b /\ f.cluster_size = c
    BY <1>1, <1>3 DEF Layouts
  <1>10. f.fat_bits = fs.fat_bits /\ f.num_fat = fs.num_fat /\ f.backupBoot = fs.backupBoot
    BY <1>1, <1>3 DEF Layouts
  <1> QED BY <1>4, <1>5, <1>6, <1>8, <1>9, <1>10 DEF f

\* What the search keeps, whichever step of it is taken.
LEMMA StillSearching ==
    ASSUME FormatInv, Searching, fs' \in Guesses, fs'.backupBoot = fs.backupBoot,
           pc' \in {"judge", "adjust"},
           UNCHANGED <<req, d, tot, descr, mayPad, savedDir, boot, seen>>, waste' \in Nat,
           "root_size" \in May => fs'.dir_len <= 32,
           "boot_size" \notin May => fs'.fat_start = req.fat_start,
           "cluster_size" \notin May => fs'.cluster_size = fs.cluster_size,
           fs'.fat_bits = fs.fat_bits, mayPad => PadSmall',
           JudgeInv', AdjustInv'
    PROVE  FormatInv'
  <1>1. May' = May /\ dev' = dev
    BY MayStays
  <1>2. /\ fs \in Guesses /\ tot > 0
        /\ fs.backupBoot = req.backupBoot
        /\ savedDir >= 1
        /\ "root_size" \in May => savedDir <= 32
        /\ "cluster_size" \notin May => fs.cluster_size = req.cluster_size
        /\ req.fat32 => fs.fat_bits = 32
    BY DEF FormatInv, SearchInv
  <1>3. Typed'
    BY GuessType DEF FormatInv, Typed, Searching
  <1>4. SearchInv'
    BY <1>1, <1>2 DEF SearchInv
  <1>5. Before' /\ LaidInv' /\ BootInv' /\ AssertsHold'
    BY DEF Before, LaidInv, BootInv, AssertsHold, Laid, ReadBackSame
  <1> QED BY <1>3, <1>4, <1>5 DEF FormatInv

\* The same facts, with what padding needs, for a layout that stays as it is.
LEMMA SearchFacts ==
    ASSUME FormatInv, Searching
    PROVE  /\ fs \in Guesses /\ fs \in Layouts /\ req \in Requests /\ tot \in Nat /\ mayPad \in BOOLEAN
           /\ waste \in Nat
           /\ d \in Nat /\ d >= 1 /\ d <= Len(req.devs)
           /\ mayPad => PadSmall
           /\ "root_size" \in May => fs.dir_len <= 32
           /\ "boot_size" \notin May => fs.fat_start = req.fat_start
           /\ "cluster_size" \notin May => fs.cluster_size = req.cluster_size
  BY GuessType DEF FormatInv, Typed, SearchInv, Searching

LEMMA SizeFatKeeps == FormatInv /\ SizeFat => FormatInv'
  <1> SUFFICES ASSUME FormatInv, SizeFat PROVE FormatInv'
    OBVIOUS
  <1> DEFINE f == Prepared(fs)
             c == IF "fat_len" \in May THEN CalcFatLen(f, tot) ELSE [fit |-> 0, len |-> f.fat_len]
  <1>1. /\ pc = "search" /\ fs' = [f EXCEPT !.fat_len = c.len] /\ fit' = c.fit
        /\ pc' = IF c.fit = 0 THEN "judge" ELSE "adjust"
        /\ waste' = 0
        /\ UNCHANGED <<req, d, tot, descr, mayPad, savedDir, boot, seen>>
    BY DEF SizeFat
  <1>2. /\ f \in Guesses /\ f.fat_bits = fs.fat_bits /\ f.num_fat = fs.num_fat
        /\ f.backupBoot = fs.backupBoot /\ f.fat_start = StartOf(fs.fat_bits)
        /\ (f.fat_bits = 32) = (f.dir_len = 0)
        /\ fs.fat_bits # 32 /\ fs.dir_len >= 1 => f.dir_len = fs.dir_len
        /\ "root_size" \in May => f.dir_len <= 32
        /\ "cluster_size" \notin May => f.cluster_size = fs.cluster_size
    BY <1>1, PreparedIs
  <1>3. /\ Searching /\ fs \in Guesses /\ req \in Requests /\ tot \in Nat /\ (mayPad => PadSmall)
        /\ ("boot_size" \notin May => fs.fat_start = req.fat_start)
    BY <1>1, SearchFacts DEF Searching
  <1> HIDE DEF f
  <1>4. c.len \in Nat /\ c.fit \in {-2, 0, 1}
    BY <1>2, <1>3, CalcCases, LengthIs, GuessType
  <1>5. fs' \in Guesses /\ f \in Layouts
    <2> DEFINE h == [f EXCEPT !.fat_len = c.len]
    <2>1. h \in Guesses
      <3> HIDE DEF c
      <3> QED BY <1>2, <1>4, OtherLength
    <2>2. fs' = h
      BY <1>1
    <2> HIDE DEF h
    <2> QED BY <1>2, <2>1, <2>2, GuessType
  <1>6. fs'.fat_len = c.len /\ fs'.fat_bits = f.fat_bits /\ fs'.num_fat = f.num_fat
    <2> HIDE DEF c
    <2> QED BY <1>1, <1>5 DEF Layouts
  <1>7. fs'.backupBoot = f.backupBoot /\ fs'.fat_start = f.fat_start
    <2> HIDE DEF c
    <2> QED BY <1>1, <1>5 DEF Layouts
  <1>8. fs'.dir_len = f.dir_len /\ fs'.cluster_size = f.cluster_size
    <2> HIDE DEF c
    <2> QED BY <1>1, <1>5 DEF Layouts
  <1>9. May' = May /\ LowClusters' = LowClusters /\ StartOf(12)' = StartOf(12)
        /\ StartOf(16)' = StartOf(16) /\ StartOf(32)' = StartOf(32)
    BY <1>1, MayStays
  <1>10. CalcFatLen(fs', tot) = CalcFatLen(f, tot)
    BY <1>2, <1>5, <1>6, <1>7, <1>8, CalcSame
  <1>11. mayPad => PadSmall'
    BY <1>1, <1>2, <1>3, <1>6, <1>8, <1>9 DEF PadSmall
  <1>12. "fat_len" \in May /\ c.fit = 0 => Computed(fs', tot) /\ Covers(fs', tot)
    BY <1>3, <1>5, <1>6, <1>10, LengthEnough DEF Computed
  <1>13. (fs.fat_start = StartOf(fs.fat_bits))' /\ fs'.fat_start # 0
    <2>1. StartOf(fs.fat_bits)' = StartOf(fs.fat_bits)
      BY <1>1, <1>2, <1>6, <1>9 DEF StartOf
    <2>2. f.fat_start = StartOf(fs.fat_bits) /\ f.fat_start # 0
      BY <1>2, <1>3, StartIs
    <2> QED BY <1>7, <2>1, <2>2
  <1>14. JudgeInv'
    <2>1. ((fs.fat_bits = 32) = (fs.dir_len = 0))'
      BY <1>2, <1>6, <1>8
    <2>2. ("fat_len" \in May)' /\ pc' = "judge" => Computed(fs', tot') /\ Covers(fs', tot')
      BY <1>1, <1>9, <1>12
    <2>3. waste' = 0
      BY <1>1
    <2> QED BY <1>13, <2>1, <2>2, <2>3 DEF JudgeInv
  <1>15. AdjustInv'
    BY <1>1, <1>4 DEF AdjustInv
  <1>16. pc' \in {"judge", "adjust"} /\ waste' \in Nat
    BY <1>1
  <1> HIDE DEF c
  <1> QED
    BY <1>1, <1>2, <1>3, <1>5, <1>6, <1>7, <1>8, <1>9, <1>11, <1>14, <1>15, <1>16, StartIs, StillSearching

\* One pass of the loop over a layout that leaves room for clusters.
LEMMA JudgeCases ==
    ASSUME NEW f \in Guesses, NEW t \in Nat, NEW may, t > ClusStart(f)
    PROVE  LET g == WithClusters(f, t)
               n == (t - ClusStart(f)) \div f.cluster_size
           IN  /\ g \in Guesses /\ n \in Nat /\ g.num_clus = n /\ ClusStart(g) = ClusStart(f)
               /\ g.fat_bits = f.fat_bits /\ g.cluster_size = f.cluster_size
               /\ g.dir_len = f.dir_len /\ g.fat_start = f.fat_start /\ g.fat_len = f.fat_len
               /\ g.num_fat = f.num_fat /\ g.backupBoot = f.backupBoot
               /\ Judge(f, t, may) \in {-1, 0, 1, 2}
               /\ Judge(f, t, may) = -1 => n < MinClus(f.fat_bits)
               /\ Judge(f, t, may) = 0 => /\ n >= MinClus(f.fat_bits) /\ n < MaxClus(f.fat_bits)
                                          /\ "fat_len" \in may \/ ClustersFitIntoFat(g)
               /\ Judge(f, t, may) = 1 => n >= MaxClus(f.fat_bits)
               /\ Judge(f, t, may) = 2 => "fat_len" \notin may
  <1> DEFINE g == WithClusters(f, t)  n == (t - ClusStart(f)) \div f.cluster_size
  <1>1. t - ClusStart(f) \in Nat /\ f.cluster_size \in Nat /\ f.cluster_size > 0 /\ f \in Layouts
    BY GuessType, RoomLeft
  <1>2. n \in Nat
    <2> DEFINE x == t - ClusStart(f)
    <2> HIDE DEF x
    <2>1. x \div f.cluster_size \in Nat
      BY <1>1, Quotient DEF x
    <2> QED BY <2>1 DEF x
  <1>3. g = [f EXCEPT !.num_clus = n]
    BY DEF WithClusters
  <1> HIDE DEF n, g
  <1>4. g \in Guesses
    <2> DEFINE h == [f EXCEPT !.num_clus = n]
    <2>1. h \in Guesses
      BY <1>2, OtherCount
    <2>2. g = h
      BY <1>3
    <2> HIDE DEF h
    <2> QED BY <2>1, <2>2
  <1>5. /\ g.num_clus = n /\ g.fat_bits = f.fat_bits /\ g.cluster_size = f.cluster_size
    BY <1>1, <1>3 DEF Layouts
  <1>6. /\ g.dir_len = f.dir_len /\ g.fat_start = f.fat_start /\ g.fat_len = f.fat_len
    BY <1>1, <1>3 DEF Layouts
  <1>7. /\ g.num_fat = f.num_fat /\ g.backupBoot = f.backupBoot
    BY <1>1, <1>3 DEF Layouts
  <1>8. ClusStart(g) = ClusStart(f)
    BY <1>6, <1>7 DEF ClusStart
  <1>9. MinClus(f.fat_bits) \in Nat /\ MaxClus(f.fat_bits) \in Nat
    BY DEF MinClus, MaxClus, FAT12, FAT16, FAT32
  <1>10. ~(t <= ClusStart(f))
    BY GuessType, RoomLeft
  <1>11. Judge(f, t, may) = IF n < MinClus(f.fat_bits) THEN -1
                            ELSE IF "fat_len" \notin may /\ (n >= FAT32 \/ ~ClustersFitIntoFat(g))
                            THEN 2
                            ELSE IF n < MaxClus(f.fat_bits) THEN 0 ELSE 1
    BY <1>5, <1>10 DEF Judge, g
  <1>12. /\ Judge(f, t, may) \in {-1, 0, 1, 2}
         /\ Judge(f, t, may) = -1 => n < MinClus(f.fat_bits)
         /\ Judge(f, t, may) = 0 => /\ n >= MinClus(f.fat_bits) /\ n < MaxClus(f.fat_bits)
                                    /\ "fat_len" \in may \/ ClustersFitIntoFat(g)
         /\ Judge(f, t, may) = 1 => n >= MaxClus(f.fat_bits)
         /\ Judge(f, t, may) = 2 => "fat_len" \notin may
    BY <1>2, <1>9, <1>11
  <1> QED BY <1>2, <1>4, <1>5, <1>6, <1>7, <1>8, <1>12 DEF g, n

\* As many clusters fill as many sectors.
LEMMA ManyFill ==
    ASSUME NEW f \in Guesses, NEW t \in Nat, t > ClusStart(f), NEW m \in Nat
    PROVE  m * f.cluster_size <= t - ClusStart(f) <=> m <= (t - ClusStart(f)) \div f.cluster_size
  <1> DEFINE x == t - ClusStart(f)  cs == f.cluster_size
  <1>1. x \in Nat /\ cs \in Nat /\ cs > 0
    BY GuessType, RoomLeft
  <1> HIDE DEF x, cs
  <1>2. m * cs <= x <=> m <= x \div cs
    BY <1>1, QuotientAtLeast
  <1> QED BY <1>2 DEF x, cs

LEMMA JudgeLayoutKeeps == FormatInv /\ JudgeLayout => FormatInv'
  <1> SUFFICES ASSUME FormatInv, JudgeLayout PROVE FormatInv'
    OBVIOUS
  <1> DEFINE r == Judge(fs, tot, May)  n == (tot - ClusStart(fs)) \div fs.cluster_size
  <1>1. /\ pc = "judge" /\ fit' = r /\ fs' = Counted(fs, tot) /\ pc' = "adjust"
        /\ UNCHANGED <<req, d, tot, descr, mayPad, savedDir, waste, boot, seen>>
    BY DEF JudgeLayout
  <1>2. /\ Searching /\ fs \in Guesses /\ tot \in Nat /\ waste \in Nat /\ (mayPad => PadSmall)
        /\ ("root_size" \in May => fs.dir_len <= 32)
        /\ ("boot_size" \notin May => fs.fat_start = req.fat_start)
        /\ req \in Requests /\ fs \in Layouts
    BY <1>1, SearchFacts DEF Searching
  <1>3. /\ (fs.fat_bits = 32) = (fs.dir_len = 0)
        /\ waste = 0 => fs.fat_start = StartOf(fs.fat_bits)
        /\ "fat_len" \in May => Covers(fs, tot) /\ (waste = 0 => Computed(fs, tot))
        /\ fs.fat_start = 0 => tot - ClusStart(fs) >= MaxClus(fs.fat_bits) * fs.cluster_size
        /\ waste # 0 => fs.fat_bits # 32
        /\ waste # 0 /\ fs.fat_bits = 16 => tot - ClusStart(fs) >= 4096 * fs.cluster_size
    BY <1>1 DEF FormatInv, JudgeInv
  <1>4. May' = May /\ LowClusters' = LowClusters /\ StartOf(12)' = StartOf(12)
        /\ StartOf(16)' = StartOf(16) /\ StartOf(32)' = StartOf(32)
    BY <1>1, MayStays
  <1>5. fs.fat_bits \in {12, 16, 32} /\ ClusStart(fs) \in Nat /\ fs.fat_start \in Nat
        /\ fs.cluster_size \in Nat /\ fs.cluster_size >= 1
    BY <1>2, GuessType, RoomLeft
  <1> SUFFICES /\ fs' \in Guesses /\ fs'.backupBoot = fs.backupBoot /\ fs'.dir_len = fs.dir_len
               /\ fs'.fat_start = fs.fat_start /\ fs'.cluster_size = fs.cluster_size
               /\ fs'.fat_bits = fs.fat_bits /\ fs'.num_fat = fs.num_fat /\ AdjustInv'
    <2>1. mayPad => PadSmall'
      BY <1>1, <1>2, <1>4 DEF PadSmall
    <2>2. JudgeInv' /\ waste' \in Nat /\ pc' \in {"judge", "adjust"}
      BY <1>1, <1>2 DEF JudgeInv
    <2> QED BY <1>1, <1>2, <2>1, <2>2, StillSearching
  <1>6. CASE tot <= ClusStart(fs)
    <2>1. fs' = fs /\ fit' = -2
      BY <1>1, <1>2, <1>5, <1>6 DEF Counted, Judge
    <2>2. AdjustInv'
      BY <2>1 DEF AdjustInv
    <2> QED BY <1>2, <2>1, <2>2
  <1>7. CASE tot > ClusStart(fs)
    <2>1. fs' = WithClusters(fs, tot)
      BY <1>1, <1>7 DEF Counted
    <2>2. /\ fs' \in Guesses /\ n \in Nat /\ fs'.num_clus = n /\ ClusStart(fs') = ClusStart(fs)
          /\ fs'.fat_bits = fs.fat_bits /\ fs'.cluster_size = fs.cluster_size
          /\ fs'.dir_len = fs.dir_len /\ fs'.fat_start = fs.fat_start /\ fs'.fat_len = fs.fat_len
          /\ fs'.num_fat = fs.num_fat /\ fs'.backupBoot = fs.backupBoot
          /\ r \in {-1, 0, 1, 2}
          /\ r = -1 => n < MinClus(fs.fat_bits)
          /\ r = 0 => /\ n >= MinClus(fs.fat_bits) /\ n < MaxClus(fs.fat_bits)
                      /\ "fat_len" \in May \/ ClustersFitIntoFat(fs')
          /\ r = 1 => n >= MaxClus(fs.fat_bits)
          /\ r = 2 => "fat_len" \notin May
      BY <1>2, <1>7, <2>1, JudgeCases
    <2>3. "fat_len" \in May => ClustersFitIntoFat(fs')
      BY <1>2, <1>3, <1>7, <2>1, CoversFits
    <2>4. MaxClus(fs.fat_bits) \in Nat /\ MinClus(fs.fat_bits) \in Nat
          /\ MinClus(fs.fat_bits) <= MaxClus(fs.fat_bits)
          /\ (fs.fat_bits = 16 => MinClus(fs.fat_bits) = 4096)
      BY <1>5 DEF MinClus, MaxClus, FAT12, FAT16, FAT32
    <2>5. r \in {0, -1} => fs.fat_start >= 1
      <3>1. ASSUME r \in {0, -1}, fs.fat_start = 0 PROVE FALSE
        <4>1. MaxClus(fs.fat_bits) * fs.cluster_size <= tot - ClusStart(fs)
          <5> DEFINE p == MaxClus(fs.fat_bits) * fs.cluster_size  x == tot - ClusStart(fs)
          <5>1. p \in Int /\ x \in Int /\ x >= p
            BY <1>2, <1>3, <1>5, <2>4, <3>1
          <5> HIDE DEF p, x
          <5>2. p <= x
            BY <5>1
          <5> QED BY <5>2 DEF p, x
        <4>2. MaxClus(fs.fat_bits) <= n
          BY <1>2, <1>7, <2>4, <4>1, ManyFill
        <4> HIDE DEF n, r
        <4> QED BY <2>2, <2>4, <3>1, <4>2
      <3> HIDE DEF r
      <3> QED BY <1>5, <3>1
    <2>6. ASSUME r = -1, fs.fat_bits # 12, "fat_len" \in May
          PROVE  fs.fat_start = StartOf(fs.fat_bits) /\ Computed(fs', tot)
      <3>1. waste = 0
        <4>1. ASSUME waste # 0 PROVE FALSE
          <5>1. fs.fat_bits = 16 /\ tot - ClusStart(fs) >= 4096 * fs.cluster_size
            BY <1>3, <1>5, <2>6, <4>1
          <5>2. 4096 * fs.cluster_size <= tot - ClusStart(fs)
            BY <1>2, <1>5, <5>1
          <5>3. 4096 <= n
            BY <1>2, <1>7, <5>2, ManyFill
          <5> HIDE DEF n, r
          <5> QED BY <2>2, <2>4, <2>6, <5>1, <5>3
        <4> QED BY <4>1
      <3>2. fs.fat_start = StartOf(fs.fat_bits) /\ Computed(fs, tot)
        BY <1>3, <2>6, <3>1
      <3>3. CalcFatLen(fs', tot) = CalcFatLen(fs, tot)
        BY <1>2, <2>2, CalcSame
      <3> QED BY <2>2, <3>2, <3>3 DEF Computed
    <2>7. StartOf(fs.fat_bits)' = StartOf(fs.fat_bits)
      BY <1>1, <1>4, <2>2 DEF StartOf
    <2> HIDE DEF r, n
    <2>8. fs'.num_clus = (tot - ClusStart(fs')) \div fs'.cluster_size
      BY <2>2 DEF n
    <2>9. AdjustInv'
      <3>1. r \in {0, -1} =>
                /\ (fs'.fat_bits = 32) = (fs'.dir_len = 0)
                /\ fs'.fat_start >= 1 /\ tot > ClusStart(fs')
                /\ (r = 0 \/ "fat_len" \in May => ClustersFitIntoFat(fs'))
        BY <1>3, <1>7, <2>2, <2>3, <2>5
      <3>2. r = 0 => fs'.num_clus >= MinClus(fs'.fat_bits) /\ fs'.num_clus < MaxClus(fs'.fat_bits)
        BY <2>2
      <3>3. r = -1 => fs'.num_clus < MinClus(fs'.fat_bits)
        BY <2>2
      <3>4. r = -1 /\ "fat_len" \in May /\ fs'.fat_bits # 12 =>
                fs'.fat_start = StartOf(fs.fat_bits)' /\ Computed(fs', tot)
        BY <2>2, <2>6, <2>7
      <3>5. r = 2 => "fat_len" \notin May
        BY <2>2
      <3>6. fit' = r /\ tot' = tot /\ ("fat_len" \in May)' = ("fat_len" \in May)
        BY <1>1, <1>4
      <3> QED BY <2>8, <3>1, <3>2, <3>3, <3>4, <3>5, <3>6 DEF AdjustInv
    <2> QED BY <2>2, <2>9
  <1> QED BY <1>2, <1>5, <1>6, <1>7

LEMMA PadLayoutKeeps == FormatInv /\ PadLayout => FormatInv'
  <1> SUFFICES ASSUME FormatInv, PadLayout PROVE FormatInv'
    OBVIOUS
  <1> DEFINE w == Waste(fs, tot)
  <1>1. /\ pc = "judge" /\ MustPad /\ waste' = w
        /\ IF w > 65535 THEN pc' = "abort" /\ fs' = fs
           ELSE pc' = "judge" /\ fs' = Padded(fs, tot, May)
        /\ UNCHANGED <<req, d, tot, descr, mayPad, savedDir, fit, boot, seen>>
    BY DEF PadLayout
  <1>2. Judge(fs, tot, May) = 1 /\ mayPad /\ waste = 0
    BY <1>1 DEF MustPad
  <1>3. /\ Searching /\ fs \in Guesses /\ tot \in Nat /\ PadSmall
        /\ ("root_size" \in May => fs.dir_len <= 32)
        /\ ("boot_size" \notin May => fs.fat_start = req.fat_start)
        /\ ("cluster_size" \notin May => fs.cluster_size = req.cluster_size)
        /\ req \in Requests
    BY <1>1, <1>2, SearchFacts DEF Searching
  <1>4. /\ fs.fat_bits # 32 /\ fs.dir_len # 0 /\ fs.fat_start = StartOf(fs.fat_bits)
        /\ "fat_len" \in May => Covers(fs, tot) /\ Computed(fs, tot)
    BY <1>1, <1>2, <1>3 DEF FormatInv, JudgeInv, PadSmall
  <1>5. /\ fs.fat_bits \in {12, 16} /\ fs.cluster_size \in Nat /\ fs.cluster_size >= 1
        /\ fs.dir_len \in Nat /\ fs.dir_len >= 1 /\ ClusStart(fs) \in Nat
        /\ fs.num_fat \in Nat /\ fs.num_fat >= 1 /\ fs.num_fat <= 255
    BY <1>3, <1>4, GuessType, RoomLeft
  <1>6. MaxClus(fs.fat_bits) \in Nat
    BY <1>5 DEF MaxClus, FAT12, FAT16
  <1> DEFINE m == MaxClus(fs.fat_bits) * fs.cluster_size
  <1>7. m \in Nat /\ m <= tot - ClusStart(fs)
    <2>1. tot > ClusStart(fs)
      BY <1>2, <1>3, <1>5 DEF Judge
    <2>2. MaxClus(fs.fat_bits) <= (tot - ClusStart(fs)) \div fs.cluster_size
      BY <1>2, <1>3, <2>1, JudgeCases
    <2> QED BY <1>3, <1>5, <1>6, <2>1, <2>2, ManyFill
  <1>8. w = tot - ClusStart(fs) - m + 1
    BY DEF Waste
  <1>9. fs.fat_bits = 16 => m = 65525 * fs.cluster_size
    BY DEF MaxClus, FAT16
  <1> HIDE DEF w, m
  <1>10. w \in Nat /\ w >= 1
    BY <1>3, <1>5, <1>7, <1>8
  <1>11. StartOf(16) \in Nat /\ StartOf(12) \in Nat /\ fs.fat_start >= 1
         /\ ("boot_size" \in May => fs.fat_start = 1)
    BY <1>3, <1>4, <1>5, StartIs
  <1>12. LowClusters \in Nat /\ LowClusters >= 1
         /\ (fs.cluster_size = LowClusters \/ (LowClusters = 1 /\ fs.cluster_size >= 2))
    BY <1>3, <1>5, LowIs DEF LowClusters
  <1>13. ASSUME "fat_len" \in May PROVE w <= 65534
    <2>1. Room(fs, tot) = tot - fs.fat_start - fs.dir_len
      BY DEF Room
    <2>2. CASE fs.fat_bits = 12
      <3>1. Room(fs, tot) <= 4096 * LowClusters + 4700
        BY <1>3, <1>4, <1>13, <2>1, <2>2 DEF PadSmall
      <3>2. fs.cluster_size >= LowClusters
        BY <1>5, <1>12
      <3> QED BY <1>3, <1>12, <2>2, <3>1, <3>2, PadFits12 DEF w
    <2>3. CASE fs.fat_bits = 16
      <3> DEFINE X == tot - StartOf(16) - 31
      <3>1. SmallFor32(X, LowClusters, fs.num_fat)
        BY <1>3, <1>13, <2>3 DEF PadSmall
      <3>2. X \in Int /\ Room(fs, tot) <= X + 30
        BY <1>3, <1>4, <1>5, <1>11, <2>1, <2>3
      <3>3. CalcFatLen(fs, tot).fit = 0 /\ fs.fat_len = CalcFatLen(fs, tot).len
        BY <1>4, <1>13 DEF Computed
      <3> DEFINE L == LowClusters
      <3> HIDE DEF X, L
      <3>4. fs \in Guesses /\ tot \in Nat
        BY <1>3
      <3>5. /\ L \in Nat /\ L >= 1 /\ SmallFor32(X, L, fs.num_fat)
            /\ (fs.cluster_size = L \/ (L = 1 /\ fs.cluster_size >= 2))
        BY <1>12, <3>1 DEF L
      <3>6. Waste(fs, tot) <= 65534
        BY <2>3, <3>2, <3>3, <3>4, <3>5, PadFits16
      <3> QED BY <3>6 DEF w
    <2> QED BY <1>5, <2>2, <2>3
  <1>14. May' = May /\ LowClusters' = LowClusters /\ StartOf(12)' = StartOf(12)
         /\ StartOf(16)' = StartOf(16) /\ StartOf(32)' = StartOf(32)
    BY <1>1, MayStays
  <1>15. CASE w > 65535
    <2>1. pc' = "abort" /\ fs' = fs
      BY <1>1, <1>15
    <2>2. "fat_len" \notin May
      BY <1>10, <1>13, <1>15
    <2>3. Typed'
      BY <1>1, <1>10, <2>1 DEF FormatInv, Typed
    <2>4. Before' /\ SearchInv' /\ JudgeInv' /\ AdjustInv' /\ LaidInv' /\ BootInv' /\ AssertsHold'
      BY <1>1, <1>14, <2>1, <2>2
      DEF Before, SearchInv, Searching, JudgeInv, AdjustInv, LaidInv, Laid, BootInv, ReadBackSame,
          AssertsHold
    <2> QED BY <2>3, <2>4 DEF FormatInv
  <1>16. CASE w <= 65535
    <2>1. pc' = "judge" /\ fs' = Padded(fs, tot, May)
      BY <1>1, <1>10, <1>16
    <2>2. /\ fs' \in Guesses
          /\ fs'.cluster_size = fs.cluster_size /\ fs'.fat_bits = fs.fat_bits
          /\ fs'.num_fat = fs.num_fat /\ fs'.backupBoot = fs.backupBoot
          /\ fs'.fat_len >= fs.fat_len /\ ("fat_len" \notin May => fs'.fat_len = fs.fat_len)
          /\ fs'.dir_len >= fs.dir_len /\ ("root_size" \in May => fs'.dir_len <= 32)
          /\ "root_size" \notin May => fs'.dir_len = fs.dir_len
          /\ "boot_size" \notin May => fs'.fat_start = fs.fat_start
          /\ ClusStart(fs') <= ClusStart(fs) + w + fs.num_fat - 1
          /\ fs'.fat_start >= 1 => ClusStart(fs') >= ClusStart(fs)
          /\ fs'.fat_start = 0 => ClusStart(fs') <= ClusStart(fs)
          /\ w <= 65534 => fs'.fat_start >= 1
      BY <1>3, <1>10, <1>11, <1>16, <2>1, PaddedIs DEF w
    <2>3. fs'.dir_len \in Nat /\ fs'.fat_start \in Nat /\ ClusStart(fs') \in Nat
      BY <2>2, GuessType, RoomLeft
    <2>4. "fat_len" \in May => Covers(fs', tot)
      BY <1>3, <1>4, <1>13, <2>2, CoversStays
    <2>5. fs'.fat_start = 0 => tot - ClusStart(fs') >= m
      BY <1>3, <1>5, <1>7, <2>2, <2>3
    <2>6. fs'.fat_bits = 16 => tot - ClusStart(fs') >= 4096 * fs'.cluster_size
      <3>1. ASSUME fs.fat_bits = 16 PROVE tot - ClusStart(fs') >= 4096 * fs.cluster_size
        <4>1. m = 65525 * fs.cluster_size
          BY <1>9, <3>1
        <4>2. CASE fs'.fat_start = 0
          BY <1>3, <1>5, <2>3, <2>5, <4>1, <4>2
        <4>3. CASE fs'.fat_start >= 1
          <5>1. tot - ClusStart(fs') >= m - fs.num_fat
            BY <1>3, <1>5, <1>7, <1>8, <1>10, <2>2, <2>3
          <5> QED BY <1>3, <1>5, <2>3, <4>1, <5>1
        <4> QED BY <2>3, <4>2, <4>3
      <3> QED BY <2>2, <3>1
    <2>7. JudgeInv'
      <3>1. /\ fs'.fat_bits # 32 /\ fs'.dir_len # 0 /\ waste' # 0
            /\ fs'.fat_start = 0 => tot' - ClusStart(fs') >= MaxClus(fs'.fat_bits) * fs'.cluster_size
            /\ fs'.fat_bits = 16 => tot' - ClusStart(fs') >= 4096 * fs'.cluster_size
            /\ ("fat_len" \in May)' => Covers(fs', tot')
        BY <1>1, <1>4, <1>5, <1>10, <1>14, <2>2, <2>3, <2>4, <2>5, <2>6 DEF m
      <3> QED BY <3>1 DEF JudgeInv
    <2>8. PadSmall'
      <3>1. "fat_len" \in May /\ fs'.fat_bits = 12 =>
                fs'.dir_len >= 1 /\ tot - StartOf(12) - fs'.dir_len <= 4096 * LowClusters + 4700
        BY <1>3, <1>5, <1>11, <1>12, <2>2, <2>3 DEF PadSmall
      <3>2. "fat_len" \in May /\ fs'.fat_bits = 16 =>
                SmallFor32(tot - StartOf(16) - 31, LowClusters, fs'.num_fat)
        BY <1>3, <2>2 DEF PadSmall
      <3> QED BY <1>1, <1>4, <1>14, <2>2, <3>1, <3>2 DEF PadSmall
    <2>9. AdjustInv' /\ waste' \in Nat /\ pc' \in {"judge", "adjust"}
      BY <1>1, <1>10, <2>1 DEF AdjustInv
    <2> QED BY <1>1, <1>3, <2>1, <2>2, <2>7, <2>8, <2>9, StillSearching
  <1> QED BY <1>10, <1>15, <1>16

-----------------------------------------------------------------------------
(* The end of the search                                                    *)

LEMMA Ended ==
    ASSUME FormatInv, UNCHANGED <<req, tot, fs, mayPad, savedDir, waste>>, pc' = "failed",
           d' \in Nat, d' >= 1
    PROVE  FormatInv'
  <1>1. Typed'
    BY DEF FormatInv, Typed
  <1>2. Before' /\ SearchInv' /\ JudgeInv' /\ AdjustInv' /\ LaidInv' /\ BootInv' /\ AssertsHold'
    BY DEF Before, SearchInv, Searching, JudgeInv, AdjustInv, LaidInv, Laid, BootInv, ReadBackSame,
           AssertsHold
  <1> QED BY <1>1, <1>2 DEF FormatInv

LEMMA GiveUpKeeps == FormatInv /\ GiveUp => FormatInv'
  <1> SUFFICES ASSUME FormatInv, GiveUp PROVE FormatInv'
    OBVIOUS
  <1>1. pc' = "failed" /\ UNCHANGED <<req, d, tot, searchVars, boot, seen>>
    BY DEF GiveUp
  <1>2. d' \in Nat /\ d' >= 1
    BY <1>1 DEF FormatInv, Typed
  <1> QED BY <1>1, <1>2, Ended DEF searchVars

LEMMA StartRefusedKeeps == FormatInv /\ StartRefused => FormatInv'
  <1> SUFFICES ASSUME FormatInv, StartRefused PROVE FormatInv'
    OBVIOUS
  <1>1. pc' = "failed" /\ UNCHANGED <<req, d, tot, searchVars, boot, seen>>
    BY DEF StartRefused
  <1>2. d' \in Nat /\ d' >= 1
    BY <1>1 DEF FormatInv, Typed
  <1> QED BY <1>1, <1>2, Ended DEF searchVars

LEMMA OtherBackup ==
    ASSUME NEW f \in Guesses, NEW b \in Words
    PROVE  [f EXCEPT !.backupBoot = b] \in Guesses
  BY DEF Guesses, Layouts

\* The clusters end where the disk does.
LEMMA CountFills ==
    ASSUME NEW f \in Guesses, NEW t \in Nat, t > ClusStart(f),
           f.num_clus = (t - ClusStart(f)) \div f.cluster_size
    PROVE  /\ t >= ClusStart(f) + f.num_clus * f.cluster_size
           /\ t <= ClusStart(f) + f.num_clus * f.cluster_size + f.cluster_size - 1
  <1> DEFINE x == t - ClusStart(f)  cs == f.cluster_size  n == f.num_clus
  <1>1. x \in Nat /\ cs \in Nat /\ cs > 0 /\ ClusStart(f) \in Nat /\ t = ClusStart(f) + x
        /\ n = x \div cs
    BY GuessType, RoomLeft
  <1> HIDE DEF x, cs, n
  <1>2. n \in Nat /\ n * cs <= x /\ x < n * cs + cs /\ n * cs \in Nat
    BY <1>1, Quotient
  <1> QED BY <1>1, <1>2 DEF cs, n

LEMMA AcceptKeeps == FormatInv /\ Accept => FormatInv'
  <1> SUFFICES ASSUME FormatInv, Accept PROVE FormatInv'
    OBVIOUS
  <1> DEFINE b == BackupBoot(fs)
  <1>1. /\ pc = "adjust" /\ Accepts
        /\ fs' = IF fs.fat_bits = 32 THEN [fs EXCEPT !.backupBoot = b] ELSE fs
        /\ pc' = IF ~ParamsAsserted(fs) THEN "abort"
                 ELSE IF fs.fat_bits = 32 /\ fs.fat_start < 3 THEN "failed" ELSE "boot"
        /\ UNCHANGED <<req, d, tot, descr, mayPad, savedDir, fit, waste, boot, seen>>
    BY DEF Accept
  <1>2. fs \in Guesses /\ fs \in Layouts /\ req \in Requests /\ tot \in Nat
        /\ (req.fat32 => fs.fat_bits = 32) /\ fs.backupBoot = req.backupBoot
    BY <1>1, AdjustFacts DEF FormatInv, SearchInv, Searching
  <1>3. fit = 0 \/ (fit = -1 /\ fs.fat_bits = 32)
    BY <1>1, <1>2 DEF Accepts, TooFewAccepted
  <1>4. /\ (fs.fat_bits = 32) = (fs.dir_len = 0)
        /\ fs.fat_start >= 1 /\ tot > ClusStart(fs)
        /\ fs.num_clus = (tot - ClusStart(fs)) \div fs.cluster_size
        /\ fit = 0 \/ "fat_len" \in May => ClustersFitIntoFat(fs)
        /\ fit = 0 => fs.num_clus >= MinClus(fs.fat_bits) /\ fs.num_clus < MaxClus(fs.fat_bits)
        /\ fit = -1 => fs.num_clus < MinClus(fs.fat_bits)
    BY <1>1, <1>3 DEF FormatInv, AdjustInv
  <1>5. /\ fs.fat_bits \in {12, 16, 32} /\ fs.num_clus \in Nat
        /\ fs.fat_start \in Nat /\ fs.fat_start <= 65535 /\ fs.cluster_size \in Nat
        /\ fs.backupBoot \in Nat /\ fs.backupBoot <= 65535 /\ fs.backupBoot # 1
    BY <1>2, GuessType, RequestIs
  <1>6. BitsOf(fs, fs.fat_bits = 32) = fs.fat_bits /\ fs.num_clus + 1 < LastFat(fs.fat_bits)
    <2>1. CASE fs.fat_bits = 12
      BY <1>3, <1>4, <1>5, <2>1 DEF BitsOf, LastFat, MinClus, MaxClus, FAT12, FAT16, FAT32
    <2>2. CASE fs.fat_bits = 16
      BY <1>3, <1>4, <1>5, <2>2 DEF BitsOf, LastFat, MinClus, MaxClus, FAT12, FAT16, FAT32
    <2>3. CASE fs.fat_bits = 32
      BY <1>3, <1>4, <1>5, <2>3 DEF BitsOf, LastFat, MinClus, MaxClus, FAT12, FAT16, FAT32
    <2> QED BY <1>5, <2>1, <2>2, <2>3
  <1>7. FilledUp(fs)
    BY <1>2, <1>4, CountFills DEF FilledUp
  <1>8. fit = 0 \/ "fat_len" \in May => ParamsAsserted(fs)
    BY <1>4, <1>6, <1>7 DEF ParamsAsserted
  <1>9. b \in Nat /\ b <= 65535 /\ (fs.fat_start >= 3 => b = 0 \/ (b >= 2 /\ b <= fs.fat_start - 1))
    <2>1. fs.fat_start >= 1
      BY <1>3, <1>4
    <2> QED BY <1>5, <2>1 DEF BackupBoot, WantedBackup
  <1> HIDE DEF b
  <1>10. fs' \in Guesses
    <2>1. b \in Words
      BY <1>9, IsWord
    <2> DEFINE h == [fs EXCEPT !.backupBoot = b]
    <2>2. h \in Guesses
      BY <1>2, <2>1, OtherBackup
    <2>3. fs' = IF fs.fat_bits = 32 THEN h ELSE fs
      BY <1>1
    <2> HIDE DEF h
    <2> QED BY <1>2, <2>2, <2>3
  <1>11. /\ fs'.fat_bits = fs.fat_bits /\ fs'.dir_len = fs.dir_len
         /\ (fs.fat_bits = 32 => fs'.backupBoot = b)
    BY <1>1, <1>2 DEF Layouts
  <1>12. fs'.fat_start = fs.fat_start /\ fs'.fat_len = fs.fat_len /\ fs'.num_fat = fs.num_fat
    BY <1>1, <1>2 DEF Layouts
  <1>13. fs'.num_clus = fs.num_clus /\ fs'.cluster_size = fs.cluster_size
    BY <1>1, <1>2 DEF Layouts
  <1>14. ClusStart(fs') = ClusStart(fs)
    BY <1>12, <1>11 DEF ClusStart
  <1>15. ParamsAsserted(fs) => ParamsAsserted(fs)'
    <2>1. FilledUp(fs) => FilledUp(fs)'
      BY <1>1, <1>13, <1>14 DEF FilledUp
    <2>2. ClustersFitIntoFat(fs) => ClustersFitIntoFat(fs)'
      BY <1>11, <1>12, <1>13 DEF ClustersFitIntoFat
    <2>3. BitsOf(fs, fs.fat_bits = 32) = fs.fat_bits => BitsOf(fs', fs'.fat_bits = 32) = fs'.fat_bits
      BY <1>11, <1>13 DEF BitsOf
    <2> QED BY <1>11, <2>1, <2>2, <2>3 DEF ParamsAsserted
  <1>16. Typed'
    BY <1>1, <1>10, GuessType DEF FormatInv, Typed
  <1>17. May' = May
    BY <1>1, MayStays
  <1>18. AssertsHold'
    BY <1>1, <1>8, <1>17 DEF AssertsHold
  <1>19. LaidInv'
    <2>1. SUFFICES ASSUME pc' = "boot" PROVE LaidInv'
      BY <1>1 DEF LaidInv, Laid
    <2>2. ParamsAsserted(fs) /\ (fs.fat_bits = 32 => fs.fat_start >= 3)
      BY <1>1, <1>5, <2>1
    <2>3. fs.fat_bits = 32 => fs'.fat_start > 1 /\ fs'.backupBoot \in {0} \cup 2..fs'.fat_start-1
      BY <1>5, <1>9, <1>11, <1>12, <2>2
    <2>4. /\ fs'.fat_start >= 1 /\ tot' > ClusStart(fs')
          /\ fs'.num_clus = (tot' - ClusStart(fs')) \div fs'.cluster_size
          /\ fs'.num_clus + 1 < LastFat(fs'.fat_bits)
      BY <1>1, <1>4, <1>6, <1>11, <1>12, <1>13, <1>14
    <2> QED BY <1>10, <1>11, <1>15, <2>2, <2>3, <2>4 DEF LaidInv
  <1>20. Before' /\ SearchInv' /\ JudgeInv' /\ AdjustInv' /\ BootInv'
    BY <1>1
    DEF Before, SearchInv, Searching, JudgeInv, AdjustInv, BootInv, ReadBackSame
  <1> QED BY <1>16, <1>18, <1>19, <1>20 DEF FormatInv

-----------------------------------------------------------------------------
(* The description, and the first guess                                     *)

LEMMA AnotherDevice ==
    ASSUME FormatInv, pc = "device", NextDevice, tot' \in Nat,
           UNCHANGED <<req, fs, descr, mayPad, savedDir, fit, waste, boot, seen>>
    PROVE  FormatInv'
  <1>1. d' = d + 1 /\ pc' = IF d < Len(req.devs) THEN "device" ELSE "failed"
    BY DEF NextDevice
  <1>2. d \in Nat /\ d >= 1 /\ req \in Requests
    BY DEF FormatInv, Typed
  <1>3. Len(req.devs) \in Nat
    BY <1>2, RequestIs
  <1>4. d' \in Nat /\ d' >= 1 /\ (pc' # "failed" => d' <= Len(req.devs))
    BY <1>1, <1>2, <1>3
  <1>5. Typed'
    BY <1>1, <1>4 DEF FormatInv, Typed
  <1>6. Before'
    BY <1>1 DEF FormatInv, Before, NewLayout
  <1>7. SearchInv' /\ JudgeInv' /\ AdjustInv' /\ LaidInv' /\ BootInv' /\ AssertsHold'
    BY <1>1 DEF SearchInv, Searching, JudgeInv, AdjustInv, LaidInv, Laid, BootInv, ReadBackSame,
                AssertsHold
  <1> QED BY <1>5, <1>6, <1>7 DEF FormatInv

LEMMA OpenFailsKeeps == FormatInv /\ OpenFails => FormatInv'
  <1> SUFFICES ASSUME FormatInv, OpenFails PROVE FormatInv'
    OBVIOUS
  <1>1. pc = "device" /\ NextDevice /\ UNCHANGED <<req, tot, searchVars, boot, seen>>
    BY DEF OpenFails
  <1>2. tot' \in Nat
    BY <1>1 DEF FormatInv, Typed
  <1> QED BY <1>1, <1>2, AnotherDevice DEF searchVars

LEMMA TotIs ==
    ASSUME FormatInv, pc = "device"
    PROVE  TotAfterOpen \in Nat
  <1>1. tot \in Nat /\ req \in Requests /\ d \in Nat /\ d >= 1 /\ d <= Len(req.devs)
    BY DEF FormatInv, Typed
  <1>2. ChsSectors(dev) \in Nat
    BY <1>1, SectorsIs
  <1> QED BY <1>1, <1>2 DEF TotAfterOpen

LEMMA TestReadFailsKeeps == FormatInv /\ TestReadFails => FormatInv'
  <1> SUFFICES ASSUME FormatInv, TestReadFails PROVE FormatInv'
    OBVIOUS
  <1>1. pc = "device" /\ NextDevice /\ tot' = TotAfterOpen
        /\ UNCHANGED <<req, searchVars, boot, seen>>
    BY DEF TestReadFails
  <1>2. tot' \in Nat
    BY <1>1, TotIs
  <1> QED BY <1>1, <1>2, AnotherDevice DEF searchVars

LEMMA OpenWorksKeeps == FormatInv /\ OpenWorks => FormatInv'
  <1> SUFFICES ASSUME FormatInv, OpenWorks PROVE FormatInv'
    OBVIOUS
  <1>1. /\ pc = "device" /\ tot' = TotAfterOpen
        /\ pc' = IF tot' = 0 THEN "failed" ELSE "start"
        /\ UNCHANGED <<req, d, fs, descr, mayPad, savedDir, fit, waste, boot, seen>>
    BY DEF OpenWorks, searchVars
  <1>2. tot' \in Nat
    BY <1>1, TotIs
  <1>3. Typed'
    BY <1>1, <1>2 DEF FormatInv, Typed
  <1>4. Before'
    BY <1>1, <1>2 DEF FormatInv, Before, NewLayout
  <1>5. SearchInv' /\ JudgeInv' /\ AdjustInv' /\ LaidInv' /\ BootInv' /\ AssertsHold'
    BY <1>1 DEF SearchInv, Searching, JudgeInv, AdjustInv, LaidInv, Laid, BootInv, ReadBackSame,
                AssertsHold
  <1> QED BY <1>3, <1>4, <1>5 DEF FormatInv

\* What is known when the size of the disk is.
LEMMA StartFacts ==
    ASSUME FormatInv, pc = "start"
    PROVE  /\ req \in Requests /\ tot \in Nat /\ tot > 0 /\ fs = NewLayout(req) /\ mayPad = FALSE
           /\ fs \in Layouts /\ waste \in Nat /\ savedDir \in Nat
           /\ d \in Nat /\ d >= 1 /\ d <= Len(req.devs)
           /\ fs.fat_start = req.fat_start /\ fs.backupBoot = req.backupBoot
           /\ fs.cluster_size = req.cluster_size /\ fs.num_fat = req.num_fat
           /\ fs.dir_len = req.dir_len /\ fs.fat_len = req.fat_len
  <1>1. req \in Requests /\ tot \in Nat /\ tot > 0 /\ fs = NewLayout(req) /\ mayPad = FALSE
    BY DEF FormatInv, Typed, Before
  <1>2. waste \in Nat /\ savedDir \in Nat /\ d \in Nat /\ d >= 1 /\ d <= Len(req.devs)
    BY DEF FormatInv, Typed
  <1> QED BY <1>1, <1>2, FirstLayout

LEMMA FirstGuess ==
    ASSUME NEW f \in Layouts, f.num_fat # 0, NEW b \in Widths, b # 0, NEW c \in Bytes, c # 0,
           NEW n \in Nat
    PROVE  [f EXCEPT !.fat_bits = b, !.cluster_size = c, !.dir_len = n] \in Guesses
  BY DEF Guesses, Layouts

LEMMA StartSearchKeeps == FormatInv /\ StartSearch => FormatInv'
  <1> SUFFICES ASSUME FormatInv, StartSearch PROVE FormatInv'
    OBVIOUS
  <1> DEFINE b == FirstBits
             c == IF fs.cluster_size = 0 THEN FirstCluster ELSE fs.cluster_size
             n == IF fs.dir_len = 0 THEN FirstDir ELSE fs.dir_len
  <1>1. /\ pc = "start" /\ pc' = "search"
        /\ fs' = [fs EXCEPT !.fat_bits = b, !.cluster_size = c, !.dir_len = n]
        /\ savedDir' = fs'.dir_len
        /\ UNCHANGED <<req, d, tot, mayPad, fit, waste, boot, seen>>
    BY DEF StartSearch
  <1>2. /\ req \in Requests /\ tot \in Nat /\ tot > 0 /\ mayPad = FALSE
        /\ fs \in Layouts /\ waste \in Nat
        /\ d \in Nat /\ d >= 1 /\ d <= Len(req.devs)
        /\ fs.fat_start = req.fat_start /\ fs.backupBoot = req.backupBoot
        /\ fs.cluster_size = req.cluster_size /\ fs.num_fat = req.num_fat
        /\ fs.dir_len = req.dir_len
    BY <1>1, StartFacts
  <1>3. b \in {12, 16, 32} /\ (req.fat32 => b = 32)
    BY <1>2, FirstBitsIs
  <1>4. b \in Widths /\ b # 0
    BY <1>3 DEF Widths
  <1>5. c \in Nat /\ c >= 1 /\ c <= 255 /\ ("cluster_size" \notin May => c = req.cluster_size)
    BY <1>2, LayoutType, MayIs DEF FirstCluster
  <1>6. c \in Bytes /\ c # 0
    BY <1>5, IsByte
  <1>7. n \in Nat /\ n >= 1 /\ ("root_size" \in May => n <= 32)
    BY <1>2, LayoutType, MayIs DEF FirstDir
  <1>8. fs.num_fat # 0
    BY <1>2, RequestIs
  <1> HIDE DEF b, c, n
  <1>9. fs' \in Guesses
    <2> DEFINE h == [fs EXCEPT !.fat_bits = b, !.cluster_size = c, !.dir_len = n]
    <2>1. h \in Guesses
      BY <1>2, <1>4, <1>6, <1>7, <1>8, FirstGuess
    <2>2. fs' = h
      BY <1>1
    <2> HIDE DEF h
    <2> QED BY <2>1, <2>2
  <1>10. fs'.fat_bits = b /\ fs'.cluster_size = c /\ fs'.dir_len = n
    BY <1>1, <1>2 DEF Layouts
  <1>11. fs'.fat_start = fs.fat_start /\ fs'.backupBoot = fs.backupBoot
    BY <1>1, <1>2 DEF Layouts
  <1>12. May' = May
    BY <1>1, MayStays
  <1>13. Typed'
    <2>1. fs' \in Layouts /\ savedDir' \in Nat
      BY <1>1, <1>7, <1>9, <1>10, GuessType
    <2>2. mayPad' \in BOOLEAN /\ pc' = "search" /\ req' \in Requests /\ tot' \in Nat /\ waste' \in Nat
      BY <1>1, <1>2
    <2>3. d' \in Nat /\ d' >= 1 /\ d' <= Len(req'.devs)
      BY <1>1, <1>2
    <2> QED BY <2>1, <2>2, <2>3 DEF Typed
  <1>14. SearchInv'
    BY <1>1, <1>2, <1>3, <1>5, <1>7, <1>9, <1>10, <1>11, <1>12 DEF SearchInv
  <1>15. Before' /\ JudgeInv' /\ AdjustInv' /\ LaidInv' /\ BootInv' /\ AssertsHold'
    BY <1>1 DEF Before, JudgeInv, AdjustInv, LaidInv, Laid, BootInv, ReadBackSame, AssertsHold
  <1> QED BY <1>13, <1>14, <1>15 DEF FormatInv

\* A row of the table: its FAT is long enough for the floppy it is of.
KnownRow(p) ==
    /\ p.tracks \in Nat /\ p.heads \in Nat /\ p.sectors \in Nat
    /\ p.fat_len \in Nat /\ p.fat_len >= 1 /\ p.dir_len \in Nat /\ p.dir_len >= 1
    /\ p.cluster_size \in {1, 2}
    /\ LET room == p.tracks * (p.heads * p.sectors) - 1 - p.fat_len - p.dir_len
       IN  /\ 3 * room + 6 * p.cluster_size <= 1024 * (p.fat_len * p.cluster_size)
           /\ room < 4085 * p.cluster_size

LEMMA KnownRows == ASSUME NEW p \in OldDosTable PROVE KnownRow(p)
  <1>1. CASE p \in {OldDos(40, 9, 1, 2, 4, 1, 252), OldDos(40, 9, 2, 2, 7, 2, 253)}
    BY <1>1 DEF OldDos, KnownRow
  <1>2. CASE p \in {OldDos(40, 8, 1, 1, 4, 1, 254), OldDos(40, 8, 2, 1, 7, 2, 255)}
    BY <1>2 DEF OldDos, KnownRow
  <1>3. CASE p \in {OldDos(80, 9, 2, 3, 7, 2, 249), OldDos(80, 15, 2, 7, 14, 1, 249)}
    BY <1>3 DEF OldDos, KnownRow
  <1>4. CASE p \in {OldDos(80, 18, 2, 9, 14, 1, 240), OldDos(80, 36, 2, 9, 15, 2, 240)}
    BY <1>4 DEF OldDos, KnownRow
  <1>5. CASE p \in {OldDos(80, 8, 2, 2, 7, 2, 251), OldDos(80, 8, 1, 2, 7, 2, 250)}
    BY <1>5 DEF OldDos, KnownRow
  <1>6. CASE p = OldDos(80, 9, 1, 2, 7, 2, 248)
    BY <1>6 DEF OldDos, KnownRow
  <1> QED BY <1>1, <1>2, <1>3, <1>4, <1>5, <1>6 DEF OldDosTable

\* So many sectors have few clusters, and these fit into the FAT.
LEMMA KnownFits ==
    ASSUME NEW cs \in {1, 2}, NEW len \in Nat, len >= 1, NEW x \in Nat,
           3 * x + 6 * cs <= 1024 * (len * cs), x < 4085 * cs,
           NEW n \in Nat, n * cs <= x
    PROVE  n < FAT12 /\ ((n + 2) * 3 - 1) \div (SectorSize * 2) < len
  <1>1. n < FAT12
    <2>1. CASE cs = 1
      BY <2>1 DEF FAT12
    <2>2. CASE cs = 2
      BY <2>2 DEF FAT12
    <2> QED BY <2>1, <2>2
  <1>2. (n + 2) * 3 <= 1024 * len
    <2>1. CASE cs = 1
      BY <2>1
    <2>2. CASE cs = 2
      BY <2>2
    <2> QED BY <2>1, <2>2
  <1>3. SectorSize * 2 \in Nat /\ SectorSize * 2 >= 1024
    BY SectorSizeAssumption
  <1> DEFINE s == SectorSize * 2  y == (n + 2) * 3
  <1>4. 1024 * len <= s * len /\ s * len = len * s /\ len * s \in Nat
    BY <1>3, Scaled
  <1>5. y \in Nat /\ y > 0
    OBVIOUS
  <1>6. y <= len * s
    <2> HIDE DEF s, y
    <2>1. y <= 1024 * len
      BY <1>2 DEF y
    <2> QED BY <1>4, <1>5, <2>1
  <1>7. s \in Nat /\ s > 0
    BY <1>3
  <1> HIDE DEF s, y
  <1>8. (y - 1) \div s < len
    BY <1>5, <1>6, <1>7, FillsSectors
  <1> QED BY <1>1, <1>8 DEF s, y

LEMMA KnownGuess ==
    ASSUME NEW f \in Layouts, f.num_fat # 0, NEW c \in Bytes, c # 0, NEW m \in Nat, NEW len \in Nat
    PROVE  [f EXCEPT !.fat_start = 1, !.cluster_size = c, !.dir_len = m, !.fat_len = len,
                     !.fat_bits = 12] \in Guesses
  <1> DEFINE h == [f EXCEPT !.fat_start = 1, !.cluster_size = c, !.dir_len = m, !.fat_len = len,
                            !.fat_bits = 12]
  <1>1. 1 \in Words /\ 12 \in Widths
    BY IsWord DEF Widths
  <1>2. h \in Layouts
    BY <1>1 DEF Layouts
  <1>3. h.fat_bits = 12 /\ h.cluster_size = c /\ h.num_fat = f.num_fat
    BY DEF Layouts
  <1> HIDE DEF h
  <1>4. h \in Guesses
    BY <1>2, <1>3 DEF Guesses
  <1> QED BY <1>4 DEF h

LEMMA StartKnownKeeps == FormatInv /\ StartKnown => FormatInv'
  <1> SUFFICES ASSUME FormatInv, StartKnown PROVE FormatInv'
    OBVIOUS
  <1>1. PICK p \in KnownFloppies :
            LET f == [fs EXCEPT !.fat_start = 1, !.cluster_size = p.cluster_size,
                                !.dir_len = p.dir_len, !.fat_len = p.fat_len, !.fat_bits = 12]
            IN  /\ fs' = Counted(f, tot)
                /\ pc' = IF tot > ClusStart(f) /\ ParamsAsserted(fs') THEN "boot" ELSE "abort"
                /\ descr' = p.media
    BY DEF StartKnown
  <1> DEFINE f == [fs EXCEPT !.fat_start = 1, !.cluster_size = p.cluster_size,
                             !.dir_len = p.dir_len, !.fat_len = p.fat_len, !.fat_bits = 12]
  <1>2. pc = "start" /\ UNCHANGED <<req, d, tot, mayPad, savedDir, fit, waste, boot, seen>>
    BY DEF StartKnown
  <1>3. /\ req \in Requests /\ tot \in Nat /\ mayPad = FALSE /\ fs \in Layouts
        /\ waste \in Nat /\ savedDir \in Nat
        /\ d \in Nat /\ d >= 1 /\ d <= Len(req.devs) /\ fs.num_fat = req.num_fat
    BY <1>2, StartFacts
  <1>4. /\ p \in OldDosTable /\ p.sectors = dev.sectors /\ p.tracks = dev.tracks
        /\ p.heads = dev.heads
        /\ "fat_bits" \in May \/ Abs(dev.fat_bits) = 12
        /\ req.fat_start \in {0, 1}
    BY <1>1 DEF KnownFloppies, OldDosByParams
  <1>5. KnownRow(p)
    BY <1>4, KnownRows
  <1>6. /\ p.fat_len \in Nat /\ p.fat_len >= 1 /\ p.dir_len \in Nat /\ p.dir_len >= 1
        /\ p.cluster_size \in {1, 2}
    BY <1>5 DEF KnownRow
  <1>7. f \in Guesses
    <2>1. p.cluster_size \in Bytes /\ p.cluster_size # 0
      BY <1>6, IsByte
    <2>2. fs.num_fat # 0
      BY <1>3, RequestIs
    <2> QED BY <1>3, <1>6, <2>1, <2>2, KnownGuess
  <1>8. /\ f.fat_start = 1 /\ f.fat_bits = 12 /\ f.cluster_size = p.cluster_size
        /\ f.dir_len = p.dir_len /\ f.fat_len = p.fat_len /\ f.num_fat = req.num_fat
    BY <1>3 DEF Layouts
  <1>9. fs' = Counted(f, tot)
        /\ pc' = IF tot > ClusStart(f) /\ ParamsAsserted(fs') THEN "boot" ELSE "abort"
    BY <1>1
  <1> HIDE DEF f
  <1>10. ClusStart(f) = 1 + p.fat_len * req.num_fat + p.dir_len /\ ClusStart(f) \in Nat
    BY <1>7, <1>8, RoomLeft DEF ClusStart
  <1>11. fs' \in Guesses /\ fs'.cluster_size = p.cluster_size /\ fs'.dir_len = p.dir_len
         /\ fs'.fat_start = 1 /\ fs'.fat_bits = 12 /\ fs'.fat_len = p.fat_len
    <2>1. CASE tot > ClusStart(f)
      <3>1. fs' = WithClusters(f, tot)
        BY <1>9, <2>1 DEF Counted
      <3> QED BY <1>3, <1>7, <1>8, <2>1, <3>1, JudgeCases
    <2>2. CASE ~(tot > ClusStart(f))
      BY <1>7, <1>8, <1>9, <2>2 DEF Counted
    <2> QED BY <2>1, <2>2
  <1>12. ASSUME tot > ClusStart(f)
         PROVE  /\ fs' = WithClusters(f, tot)
                /\ ClusStart(fs') = ClusStart(f) /\ tot > ClusStart(fs')
                /\ fs'.num_clus = (tot - ClusStart(fs')) \div fs'.cluster_size
                /\ fs'.num_clus \in Nat
    <2>1. fs' = WithClusters(f, tot)
      BY <1>9, <1>12 DEF Counted
    <2>2. /\ fs'.num_clus = (tot - ClusStart(f)) \div f.cluster_size /\ fs'.num_clus \in Nat
          /\ ClusStart(fs') = ClusStart(f) /\ fs'.cluster_size = f.cluster_size
      BY <1>3, <1>7, <1>12, <2>1, JudgeCases
    <2> QED BY <1>12, <2>1, <2>2
  <1>13. May' = May /\ dev' = dev
    BY <1>2, MayStays
  <1>14. AssertsHold'
    <2> SUFFICES ASSUME pc' = "abort", OwnSize', KnownSize' PROVE FALSE
      BY DEF AssertsHold
    <2>1. p \in KnownFloppies'
      BY <1>2, <1>4, <1>11, <1>13 DEF KnownFloppies, OldDosByParams
    <2>2. req.total = 0 /\ tot > 1 + p.fat_len * req.num_fat + p.dir_len
      BY <1>2, <2>1 DEF KnownSize
    <2>3. tot > ClusStart(f)
      BY <1>10, <2>2
    <2>4. tot = ChsSectors(dev)
      BY <1>2, <1>13, <2>2 DEF OwnSize, ChsSectors
    <2>5. tot <= p.tracks * (p.heads * p.sectors)
      BY <1>3, <1>4, <2>4, SectorsIs
    <2> DEFINE x == tot - ClusStart(f)  room == p.tracks * (p.heads * p.sectors) - 1 - p.fat_len - p.dir_len
               n == fs'.num_clus
    <2>6. x \in Nat /\ room \in Int /\ x <= room
      <3>1. p.tracks * (p.heads * p.sectors) \in Int
        BY <1>5 DEF KnownRow
      <3>2. req.num_fat \in Nat /\ req.num_fat >= 1
        BY <1>3, RequestSizes
      <3>3. p.fat_len <= p.fat_len * req.num_fat /\ p.fat_len * req.num_fat \in Nat
        BY <1>6, <3>2, Scaled
      <3> QED BY <1>3, <1>6, <1>10, <2>3, <2>5, <3>1, <3>3
    <2>7. /\ 3 * room + 6 * p.cluster_size <= 1024 * (p.fat_len * p.cluster_size)
          /\ room < 4085 * p.cluster_size
      BY <1>5 DEF KnownRow
    <2>8. n \in Nat /\ n * p.cluster_size <= x
      <3>1. tot >= ClusStart(fs') + n * p.cluster_size /\ n \in Nat
        BY <1>3, <1>11, <1>12, <2>3, CountFills
      <3>2. n * p.cluster_size \in Nat
        BY <1>6, <3>1
      <3> QED BY <1>3, <1>10, <1>12, <2>3, <3>1, <3>2
    <2>9. p.fat_len * p.cluster_size \in Nat
      BY <1>6
    <2> HIDE DEF x, room, n
    <2>10. 3 * x + 6 * p.cluster_size <= 1024 * (p.fat_len * p.cluster_size) /\ x < 4085 * p.cluster_size
      BY <1>6, <2>6, <2>7, <2>9
    <2>11. n < FAT12 /\ ((n + 2) * 3 - 1) \div (SectorSize * 2) < p.fat_len
      BY <1>6, <2>6, <2>8, <2>10, KnownFits
    <2>12. FilledUp(fs)'
      BY <1>2, <1>3, <1>11, <1>12, <2>3, CountFills DEF FilledUp
    <2>13. ClustersFitIntoFat(fs')
      BY <1>11, <2>11 DEF ClustersFitIntoFat, n
    <2>14. BitsOf(fs', fs'.fat_bits = 32) = fs'.fat_bits
      BY <1>11, <2>11 DEF BitsOf, n
    <2>15. ParamsAsserted(fs')
      <3>1. FilledUp(fs')
        BY <1>2, <2>12 DEF FilledUp
      <3> QED BY <1>6, <1>11, <2>13, <2>14, <3>1 DEF ParamsAsserted
    <2> QED BY <1>9, <2>3, <2>15
  <1>15. Typed'
    <2>1. fs' \in Layouts
      BY <1>11, GuessType
    <2>4. mayPad' \in BOOLEAN /\ savedDir' \in Nat /\ waste' \in Nat
      BY <1>2, <1>3
    <2>2. pc' \in {"boot", "abort"} /\ req' \in Requests /\ tot' \in Nat
      BY <1>2, <1>3, <1>9
    <2>3. d' \in Nat /\ d' >= 1 /\ d' <= Len(req'.devs)
      BY <1>2, <1>3
    <2> QED BY <2>1, <2>2, <2>3, <2>4 DEF Typed
  <1>16. LaidInv'
    <2>1. SUFFICES ASSUME pc' = "boot" PROVE LaidInv'
      BY <1>9 DEF LaidInv, Laid
    <2>2. tot > ClusStart(f) /\ ParamsAsserted(fs')
      BY <1>9, <2>1
    <2>3. ParamsAsserted(fs)'
      BY <1>2, <2>2 DEF ParamsAsserted, FilledUp
    <2>4. fs'.num_clus + 1 < LastFat(fs'.fat_bits)
      <3>1. BitsOf(fs', fs'.fat_bits = 32) = fs'.fat_bits
        BY <2>2 DEF ParamsAsserted
      <3>2. fs'.num_clus < 4085
        BY <1>11, <1>12, <2>2, <3>1 DEF BitsOf, FAT12, FAT16
      <3> QED BY <1>11, <1>12, <2>2, <3>2 DEF LastFat
    <2>5. fs'.fat_start >= 1 /\ fs'.fat_bits # 32 /\ tot' > ClusStart(fs')
          /\ fs'.num_clus = (tot' - ClusStart(fs')) \div fs'.cluster_size
      BY <1>2, <1>11, <1>12, <2>2
    <2> QED BY <1>11, <2>3, <2>4, <2>5 DEF LaidInv
  <1>17. Before' /\ SearchInv' /\ JudgeInv' /\ AdjustInv' /\ BootInv'
    BY <1>9 DEF Before, SearchInv, Searching, JudgeInv, AdjustInv, BootInv, ReadBackSame
  <1> QED BY <1>14, <1>15, <1>16, <1>17 DEF FormatInv

-----------------------------------------------------------------------------
(* The boot sector                                                          *)

LEMMA WriteBootKeeps == FormatInv /\ WriteBoot => FormatInv'
  <1> SUFFICES ASSUME FormatInv, WriteBoot PROVE FormatInv'
    OBVIOUS
  <1>1. /\ pc = "boot" /\ boot' = BootOf(fs) /\ pc' = "read"
        /\ UNCHANGED <<req, d, tot, fs, descr, mayPad, savedDir, fit, waste, seen>>
    BY DEF WriteBoot, searchVars
  <1>2. dev' = dev
    BY <1>1, MayStays
  <1>3. BootInv'
    <2>1. BootOf(fs)' = BootOf(fs)
      BY <1>1, <1>2 DEF BootOf, Short
    <2> QED BY <1>1, <2>1 DEF BootInv, ReadBackSame
  <1>4. LaidInv'
    <2>1. ParamsAsserted(fs) => ParamsAsserted(fs)'
      BY <1>1 DEF ParamsAsserted, FilledUp
    <2> QED BY <1>1, <2>1 DEF FormatInv, LaidInv, Laid
  <1>5. Typed'
    BY <1>1 DEF FormatInv, Typed
  <1>6. Before' /\ SearchInv' /\ JudgeInv' /\ AdjustInv' /\ AssertsHold'
    BY <1>1 DEF Before, SearchInv, Searching, JudgeInv, AdjustInv, AssertsHold
  <1> QED BY <1>3, <1>4, <1>5, <1>6 DEF FormatInv

\* The root directory's size in entries, and back in sectors.
LEMMA DirBack ==
    ASSUME NEW n \in Nat
    PROVE  n * (SectorSize \div 32) \in Nat /\ ((n * (SectorSize \div 32)) * 32) \div SectorSize = n
  <1>1. PICK k \in {1, 2, 4, 8} : SectorSize = 512 * k
    BY Blocks
  <1>2. CASE k = 1
    BY <1>1, <1>2
  <1>3. CASE k = 2
    BY <1>1, <1>3
  <1>4. CASE k = 4
    BY <1>1, <1>4
  <1>5. CASE k = 8
    BY <1>1, <1>5
  <1> QED BY <1>2, <1>3, <1>4, <1>5

LEMMA WordSame ==
    ASSUME NEW n \in Nat, n <= 65535
    PROVE  Word(n) = n
  BY DEF Word

\* The layout with its fields one by one, and what init.c leaves out.
Listed(f) ==
    [fat_bits |-> f.fat_bits, cluster_size |-> f.cluster_size, dir_len |-> f.dir_len,
     fat_len |-> f.fat_len, fat_start |-> f.fat_start, num_fat |-> f.num_fat,
     num_clus |-> f.num_clus, backupBoot |-> IF f.fat_bits = 32 THEN f.backupBoot ELSE 0]

LEMMA SameListed == ASSUME NEW f \in Layouts PROVE Same(f) = Listed(f)
  BY DEF Layouts, Same, Listed

\* The FAT is not refused.
LEMMA NotRefused ==
    ASSUME NEW f \in Guesses, ClustersFitIntoFat(f), f.num_clus + 1 < LastFat(f.fat_bits)
    PROVE  /\ f.fat_len >= 1
           /\ \A g : /\ g.fat_bits = f.fat_bits /\ g.num_clus = f.num_clus /\ g.fat_len = f.fat_len
                     => ~FatRefused(g)
  <1> DEFINE x == ((f.num_clus + 2) * (f.fat_bits \div 4) - 1) \div (SectorSize * 2)
  <1>1. x \in Nat
    <2> DEFINE y == (f.num_clus + 2) * (f.fat_bits \div 4) - 1  s == SectorSize * 2
    <2>1. y \in Nat
      <3>1. f.num_clus \in Nat /\ f.fat_bits \div 4 \in {3, 4, 8}
        BY GuessType
      <3> QED BY <3>1
    <2>2. s \in Nat /\ s > 0
      BY SectorSizeAssumption
    <2> HIDE DEF y, s
    <2>3. y \div s \in Nat
      BY <2>1, <2>2, Quotient
    <2> QED BY <2>3 DEF y, s
  <1>2. x < f.fat_len
    BY DEF ClustersFitIntoFat
  <1>3. f.fat_len \in Nat /\ f.num_clus \in Nat /\ f.fat_bits \in {12, 16, 32}
    BY GuessType
  <1>4. LastFat(f.fat_bits) \in Nat
    BY <1>3 DEF LastFat
  <1>5. ASSUME NEW g, g.fat_bits = f.fat_bits, g.num_clus = f.num_clus, g.fat_len = f.fat_len
        PROVE  ~FatRefused(g)
    <2>1. NeededFatSize(g) = x + 1
      BY <1>5 DEF NeededFatSize
    <2> HIDE DEF x
    <2>2. ~(g.fat_len < NeededFatSize(g))
      BY <1>1, <1>2, <1>3, <1>5, <2>1
    <2>3. ~(g.num_clus + 1 >= LastFat(g.fat_bits))
      BY <1>3, <1>4, <1>5
    <2> QED BY <2>2, <2>3 DEF FatRefused
  <1> HIDE DEF x
  <1> QED BY <1>1, <1>2, <1>3, <1>5

\* What the boot sector of a sound layout says.
LEMMA BootSays ==
    ASSUME NEW f \in Guesses, FitsFields, f = fs, (f.fat_bits = 32) = (f.dir_len = 0),
           f.fat_len >= 1, tot \in Nat, tot > 0
    PROVE  LET b == BootOf(f)
           IN  /\ SectorsOf(b) = tot /\ b.clsiz = f.cluster_size
               /\ (b.dirents * 32) \div b.secsiz = f.dir_len
               /\ (IF b.fatlen # 0 THEN b.fatlen ELSE b.bigFat) = f.fat_len
               /\ b.nrsvsect = f.fat_start /\ b.nfat = f.num_fat
               /\ (b.fatlen = 0) = (f.fat_bits = 32)
               /\ (IF b.fatlen # 0 THEN 0 ELSE b.backupBoot) = IF f.fat_bits = 32 THEN f.backupBoot ELSE 0
  <1> DEFINE b == BootOf(f)
  <1>1. /\ f.cluster_size \in Nat /\ f.cluster_size <= 255 /\ f.dir_len \in Nat /\ f.fat_len \in Nat
        /\ f.fat_bits \in {12, 16, 32}
    BY GuessType
  <1>2. SectorsOf(b) = tot
    BY DEF BootOf, SectorsOf
  <1>3. b.clsiz = f.cluster_size
    <2>1. b.clsiz = f.cluster_size % 256
      BY DEF BootOf
    <2> HIDE DEF b
    <2> QED BY <1>1, <2>1
  <1>4. b.nrsvsect = f.fat_start /\ b.nfat = f.num_fat /\ b.secsiz = SectorSize
    BY DEF BootOf
  <1>5. b.dirents = IF f.fat_bits = 32 THEN 0 ELSE Word(f.dir_len * (SectorSize \div 32))
    BY DEF BootOf
  <1>6. b.fatlen = (IF f.fat_bits = 32 THEN 0 ELSE Word(f.fat_len))
        /\ b.bigFat = (IF f.fat_bits = 32 THEN f.fat_len ELSE 0)
        /\ b.backupBoot = (IF f.fat_bits = 32 THEN f.backupBoot ELSE 0)
    BY DEF BootOf
  <1> HIDE DEF b
  <1>7. f.fat_bits # 32 => f.fat_len <= 65535 /\ f.dir_len * (SectorSize \div 32) <= 65535
    BY DEF FitsFields
  <1> DEFINE e == f.dir_len * (SectorSize \div 32)
  <1>8. e \in Nat /\ (e * 32) \div SectorSize = f.dir_len
    BY <1>1, DirBack
  <1>9. (b.dirents * 32) \div b.secsiz = f.dir_len
    <2>1. CASE f.fat_bits = 32
      <3>1. f.dir_len = 0 /\ e = 0 /\ b.dirents = 0
        BY <1>5, <2>1, SectorSizeAssumption
      <3> HIDE DEF e
      <3> QED BY <1>4, <1>8, <3>1
    <2>2. CASE f.fat_bits # 32
      <3>1. e <= 65535
        BY <1>7, <2>2
      <3> HIDE DEF e
      <3>2. Word(e) = e
        BY <1>8, <3>1, WordSame
      <3>3. b.dirents = Word(e)
        BY <1>5, <2>2 DEF e
      <3> QED BY <1>4, <1>8, <3>2, <3>3
    <2> QED BY <2>1, <2>2
  <1>10. f.fat_bits # 32 => Word(f.fat_len) = f.fat_len
    BY <1>1, <1>7, WordSame
  <1>11. /\ (IF b.fatlen # 0 THEN b.fatlen ELSE b.bigFat) = f.fat_len
         /\ (b.fatlen = 0) = (f.fat_bits = 32)
         /\ (IF b.fatlen # 0 THEN 0 ELSE b.backupBoot) = IF f.fat_bits = 32 THEN f.backupBoot ELSE 0
    BY <1>1, <1>6, <1>10
  <1> QED BY <1>2, <1>3, <1>4, <1>9, <1>11 DEF b

LEMMA ReadBootKeeps == FormatInv /\ ReadBoot => FormatInv'
  <1> SUFFICES ASSUME FormatInv, ReadBoot PROVE FormatInv'
    OBVIOUS
  <1> DEFINE p == Parsed(boot)
  <1>1. /\ pc = "read" /\ pc' = "done"
        /\ seen' = IF p = Refused \/ (p # Refused /\ FatRefused(p)) THEN Refused ELSE p
        /\ UNCHANGED <<req, d, tot, fs, descr, mayPad, savedDir, fit, waste, boot>>
    BY DEF ReadBoot, searchVars
  <1>2. dev' = dev
    BY <1>1, MayStays
  <1>3. boot = BootOf(fs)
    BY <1>1 DEF FormatInv, BootInv
  <1>4. /\ fs \in Guesses /\ ParamsAsserted(fs) /\ tot > ClusStart(fs)
        /\ fs.num_clus = (tot - ClusStart(fs)) \div fs.cluster_size
        /\ fs.num_clus + 1 < LastFat(fs.fat_bits)
    BY <1>1 DEF FormatInv, LaidInv, Laid
  <1>5. tot \in Nat
    BY DEF FormatInv, Typed
  <1>6. fs \in Layouts /\ ClusStart(fs) \in Nat /\ fs.fat_bits # 0
    BY <1>4, GuessType, RoomLeft
  <1>7. ASSUME FitsFields PROVE seen' = Same(fs)
    <2> DEFINE f == [fat_bits |-> 0, cluster_size |-> fs.cluster_size, dir_len |-> fs.dir_len,
                     fat_len |-> fs.fat_len, fat_start |-> fs.fat_start, num_fat |-> fs.num_fat,
                     num_clus |-> 0,
                     backupBoot |-> IF fs.fat_bits = 32 THEN fs.backupBoot ELSE 0]
               g == [f EXCEPT !.num_clus = fs.num_clus]
    <2>1. fs.fat_len >= 1 /\ ~FatRefused(Listed(fs))
      <3>1. ClustersFitIntoFat(fs)
        BY <1>4 DEF ParamsAsserted
      <3>2. Listed(fs).fat_bits = fs.fat_bits /\ Listed(fs).num_clus = fs.num_clus
            /\ Listed(fs).fat_len = fs.fat_len
        BY DEF Listed
      <3> QED BY <1>4, <3>1, <3>2, NotRefused
    <2>2. (fs.fat_bits = 32) = (fs.dir_len = 0) /\ BitsOf(fs, fs.fat_bits = 32) = fs.fat_bits
      BY <1>4 DEF ParamsAsserted
    <2>3. tot > 0
      BY <1>4, <1>5, <1>6
    <2>4. /\ SectorsOf(boot) = tot /\ boot.clsiz = fs.cluster_size
          /\ (boot.dirents * 32) \div boot.secsiz = fs.dir_len
          /\ (IF boot.fatlen # 0 THEN boot.fatlen ELSE boot.bigFat) = fs.fat_len
          /\ boot.nrsvsect = fs.fat_start /\ boot.nfat = fs.num_fat
          /\ (boot.fatlen = 0) = (fs.fat_bits = 32)
          /\ (IF boot.fatlen # 0 THEN 0 ELSE boot.backupBoot)
                = IF fs.fat_bits = 32 THEN fs.backupBoot ELSE 0
      BY <1>3, <1>4, <1>5, <1>7, <2>1, <2>2, <2>3, BootSays
    <2>5. ClusStart(f) = ClusStart(fs) /\ f.cluster_size = fs.cluster_size
      BY DEF ClusStart
    <2>6. p = IF tot <= ClusStart(f) THEN Refused
              ELSE [Counted(f, tot) EXCEPT !.fat_bits = BitsOf(Counted(f, tot), fs.fat_bits = 32)]
      BY <2>4 DEF Parsed
    <2>7. Counted(f, tot) = g
      <3>1. Counted(f, tot) = [f EXCEPT !.num_clus = (tot - ClusStart(f)) \div f.cluster_size]
        BY <1>4, <2>5 DEF Counted, WithClusters
      <3>2. (tot - ClusStart(f)) \div f.cluster_size = fs.num_clus
        BY <1>4, <2>5
      <3> HIDE DEF f
      <3> QED BY <3>1, <3>2
    <2>8. ~(tot <= ClusStart(f))
      BY <1>4, <1>5, <1>6, <2>5
    <2>9. BitsOf(g, fs.fat_bits = 32) = fs.fat_bits
      BY <2>2 DEF BitsOf
    <2>10. p = [g EXCEPT !.fat_bits = fs.fat_bits]
      <3> HIDE DEF f, g
      <3> QED BY <2>6, <2>7, <2>8, <2>9
    <2>11. p = Listed(fs)
      <3> DEFINE h == [fat_bits |-> 0, cluster_size |-> fs.cluster_size, dir_len |-> fs.dir_len,
                       fat_len |-> fs.fat_len, fat_start |-> fs.fat_start, num_fat |-> fs.num_fat,
                       num_clus |-> fs.num_clus,
                       backupBoot |-> IF fs.fat_bits = 32 THEN fs.backupBoot ELSE 0]
      <3>1. g = h
        OBVIOUS
      <3>2. [h EXCEPT !.fat_bits = fs.fat_bits] = Listed(fs)
        BY DEF Listed
      <3> HIDE DEF g, h
      <3> QED BY <2>10, <3>1, <3>2
    <2>12. p # Refused
      <3>1. Listed(fs).fat_bits = fs.fat_bits /\ Refused.fat_bits = 0
        BY DEF Listed, Refused
      <3> QED BY <1>6, <2>11, <3>1
    <2>13. seen' = p
      BY <1>1, <2>1, <2>11, <2>12
    <2> QED BY <1>6, <2>11, <2>13, SameListed
  <1>8. BootInv'
    <2>1. BootOf(fs)' = BootOf(fs)
      BY <1>1, <1>2 DEF BootOf, Short
    <2>2. FitsFields' = FitsFields /\ Same(fs)' = Same(fs)
      BY <1>1 DEF FitsFields, Same
    <2> QED BY <1>1, <1>3, <1>7, <2>1, <2>2 DEF BootInv, ReadBackSame
  <1>9. LaidInv'
    <2>1. ParamsAsserted(fs) => ParamsAsserted(fs)'
      BY <1>1 DEF ParamsAsserted, FilledUp
    <2> QED BY <1>1, <2>1 DEF FormatInv, LaidInv, Laid
  <1>10. Typed'
    BY <1>1 DEF FormatInv, Typed
  <1>11. Before' /\ SearchInv' /\ JudgeInv' /\ AdjustInv' /\ AssertsHold'
    BY <1>1 DEF Before, SearchInv, Searching, JudgeInv, AdjustInv, AssertsHold
  <1> QED BY <1>8, <1>9, <1>10, <1>11 DEF FormatInv

-----------------------------------------------------------------------------
(* Every state                                                              *)

LEMMA FormatInvAtInit == Init => FormatInv
  <1> SUFFICES ASSUME Init PROVE FormatInv
    OBVIOUS
  <1>1. /\ req \in Requests /\ pc = "device" /\ d = 1 /\ tot = req.total /\ fs = NewLayout(req)
        /\ mayPad = FALSE /\ savedDir = 0 /\ waste = 0
    BY DEF Init
  <1>2. req.devs \in Seq(Descriptions) /\ req.devs # <<>> /\ req.total \in Nat
    BY <1>1, RequestIs
  <1>3. d \in Nat /\ d >= 1 /\ d <= Len(req.devs)
    <2> DEFINE s == req.devs
    <2> HIDE DEF s
    <2>1. s \in Seq(Descriptions) /\ s # <<>>
      BY <1>2 DEF s
    <2>2. Len(s) \in Nat /\ Len(s) >= 1
      BY <2>1
    <2> QED BY <1>1, <2>2 DEF s
  <1>4. fs \in Layouts
    BY <1>1, FirstLayout
  <1>5. Typed
    BY <1>1, <1>2, <1>3, <1>4 DEF Typed
  <1>6. Before
    BY <1>1 DEF Before
  <1>7. SearchInv /\ JudgeInv /\ AdjustInv /\ LaidInv /\ BootInv /\ AssertsHold
    BY <1>1 DEF SearchInv, Searching, JudgeInv, AdjustInv, LaidInv, Laid, BootInv, ReadBackSame,
                AssertsHold
  <1> QED BY <1>5, <1>6, <1>7 DEF FormatInv

LEMMA FormatInvStutters == FormatInv /\ UNCHANGED vars => FormatInv'
  <1> SUFFICES ASSUME FormatInv, UNCHANGED vars PROVE FormatInv'
    OBVIOUS
  <1>1. UNCHANGED <<req, pc, d, tot, fs, descr, mayPad, savedDir, fit, waste, boot, seen>>
    BY DEF vars
  <1>2. /\ May' = May /\ dev' = dev /\ LowClusters' = LowClusters
        /\ StartOf(12)' = StartOf(12) /\ StartOf(16)' = StartOf(16)
        /\ StartOf(fs.fat_bits)' = StartOf(fs.fat_bits)
    <2>1. May' = May /\ dev' = dev /\ LowClusters' = LowClusters
          /\ StartOf(12)' = StartOf(12) /\ StartOf(16)' = StartOf(16)
      BY <1>1, MayStays
    <2> QED BY <1>1, <2>1 DEF StartOf
  <1>3. Typed' /\ Before'
    BY <1>1 DEF FormatInv, Typed, Before
  <1>4. SearchInv'
    <2>1. PadSmall' = PadSmall
      BY <1>1, <1>2 DEF PadSmall
    <2> QED BY <1>1, <1>2, <2>1 DEF FormatInv, SearchInv, Searching
  <1>5. JudgeInv' /\ AdjustInv'
    BY <1>1, <1>2 DEF FormatInv, JudgeInv, AdjustInv
  <1>6. LaidInv'
    <2>1. ParamsAsserted(fs)' = ParamsAsserted(fs)
      BY <1>1 DEF ParamsAsserted, FilledUp
    <2> QED BY <1>1, <2>1 DEF FormatInv, LaidInv, Laid
  <1>7. BootInv'
    <2>1. BootOf(fs)' = BootOf(fs)
      BY <1>1, <1>2 DEF BootOf, Short
    <2>2. FitsFields' = FitsFields /\ Same(fs)' = Same(fs)
      BY <1>1 DEF FitsFields, Same
    <2> QED BY <1>1, <2>1, <2>2 DEF FormatInv, BootInv, ReadBackSame
  <1>8. AssertsHold'
    <2>1. OwnSize' = OwnSize
      BY <1>1, <1>2 DEF OwnSize, ChsSectors
    <2>2. KnownFloppies' = KnownFloppies
      BY <1>1, <1>2 DEF KnownFloppies
    <2>3. KnownSize' = KnownSize
      BY <1>1, <2>2 DEF KnownSize
    <2> QED BY <1>1, <1>2, <2>1, <2>3 DEF FormatInv, AssertsHold
  <1> QED BY <1>3, <1>4, <1>5, <1>6, <1>7, <1>8 DEF FormatInv

LEMMA FormatInvKept == FormatInv /\ [Next]_vars => FormatInv'
  <1> SUFFICES ASSUME FormatInv, [Next]_vars PROVE FormatInv'
    OBVIOUS
  <1>1. CASE OpenFails \/ TestReadFails \/ OpenWorks
    BY <1>1, OpenFailsKeeps, TestReadFailsKeeps, OpenWorksKeeps
  <1>2. CASE StartKnown \/ StartSearch \/ StartRefused
    BY <1>2, StartKnownKeeps, StartSearchKeeps, StartRefusedKeeps
  <1>3. CASE SizeFat \/ JudgeLayout \/ PadLayout
    BY <1>3, SizeFatKeeps, JudgeLayoutKeeps, PadLayoutKeeps
  <1>4. CASE Accept \/ GiveUp
    BY <1>4, AcceptKeeps, GiveUpKeeps
  <1>5. CASE HalveCluster \/ DoubleCluster
    BY <1>5, HalveClusterKeeps, DoubleClusterKeeps
  <1>6. CASE RaiseBits \/ LowerBits \/ BackTo12
    BY <1>6, RaiseBitsKeeps, LowerBitsKeeps, BackTo12Keeps
  <1>7. CASE WriteBoot \/ ReadBoot
    BY <1>7, WriteBootKeeps, ReadBootKeeps
  <1>8. CASE UNCHANGED vars
    BY <1>8, FormatInvStutters
  <1> QED BY <1>1, <1>2, <1>3, <1>4, <1>5, <1>6, <1>7, <1>8 DEF Next, Search

\* The inductive invariant: where the search for a layout has got to, what it
\* may still change and what it has judged, whatever was asked for (mformat.c:
\* calc_fs_parameters, try_cluster_size).
THEOREM FormatInvAlways == Spec => []FormatInv
  <1>1. Init => FormatInv
    BY FormatInvAtInit
  <1>2. FormatInv /\ [Next]_vars => FormatInv'
    BY FormatInvKept
  <1> QED BY <1>1, <1>2, PTL DEF Spec

\* A layout that is laid on a disk has an entry in the FAT for every cluster,
\* fills the disk but for less than a cluster, and leaves the boot sector and on
\* FAT32 its copy in front of the FAT, whatever was asked for; and no assertion of
\* the search fails as long as the length of the FAT is not given and the size
\* is the description's (mformat.c: calc_fs_parameters, try_cluster_size,
\* check_fs_params_and_set_fat, fat32_specific_init).
THEOREM LayoutSoundAlways == Spec => []LayoutSound
  <1>1. FormatInv => LayoutSound
    <2> SUFFICES ASSUME FormatInv PROVE LayoutSound
      OBVIOUS
    <2>1. AssertsHold
      BY DEF FormatInv
    <2>2. ASSUME Laid PROVE EveryClusterInFat /\ FilledUp(fs) /\ ReservedEnough
      <3>1. /\ fs \in Guesses /\ ParamsAsserted(fs) /\ fs.fat_start >= 1
            /\ fs.fat_bits = 32 => fs.fat_start > 1 /\ fs.backupBoot \in {0} \cup 2..fs.fat_start-1
        BY <2>2 DEF FormatInv, LaidInv
      <3>2. FilledUp(fs) /\ ClustersFitIntoFat(fs)
        BY <3>1 DEF ParamsAsserted
      <3>3. EveryClusterInFat
        <4> DEFINE y == (fs.num_clus + 2) * (fs.fat_bits \div 4)  s == SectorSize * 2
        <4>1. fs.num_clus \in Nat /\ fs.fat_bits \div 4 \in {3, 4, 8} /\ fs.fat_len \in Nat
          BY <3>1, GuessType
        <4>2. y \in Nat /\ y > 0
          BY <4>1
        <4>3. s \in Nat /\ s > 0
          BY SectorSizeAssumption
        <4>4. (y - 1) \div s < fs.fat_len
          BY <3>2 DEF ClustersFitIntoFat
        <4> HIDE DEF y, s
        <4>5. y <= fs.fat_len * s
          BY <4>1, <4>2, <4>3, <4>4, FillsSectors
        <4>6. fs.fat_len * s = fs.fat_len * SectorSize * 2
          BY <4>1, SectorSizeAssumption DEF s
        <4> QED BY <4>5, <4>6 DEF EveryClusterInFat, y
      <3> QED BY <3>1, <3>2, <3>3 DEF ReservedEnough
    <2> QED BY <2>1, <2>2 DEF LayoutSound
  <1> QED BY <1>1, FormatInvAlways, PTL

\* The next command makes of the boot sector exactly the layout that was
\* chosen, and does not refuse its FAT, as long as the lengths fit into their 16
\* bit fields (mformat.c: mformat; init.c: parseFsParams; fat.c: check_fat).
THEOREM ReadBackSameAlways == Spec => []ReadBackSame
  <1>1. FormatInv => ReadBackSame
    BY DEF FormatInv, BootInv
  <1> QED BY <1>1, FormatInvAlways, PTL
=============================================================================
