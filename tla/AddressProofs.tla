---------------------------- MODULE AddressProofs ----------------------------
(***************************************************************************)
(* Proofs about the conversions of AddressText, for both sizes of a word,  *)
(* all numbers and all blocks.  What a recursive function gives is what a  *)
(* walk of its steps gives, and what holds after each of them is shown by  *)
(* the least step it does not hold after.                                  *)
(*                                                                         *)
(* IPv6: the text is laid out block by block; at the end of each block the *)
(* scan has found the blocks before it, and where zeros were left out, the *)
(* count of the colons of the whole text says how many.  IPv4: at the end  *)
(* of each number the scan holds its value in a word and those before it.  *)
(***************************************************************************)
EXTENDS AddressText, FiniteSetTheorems, SequenceTheorems, WellFoundedInduction, TLAPS

\* What holds of 0 and of the successor of each number it holds of, holds of
\* all numbers up to n.
LEMMA UpTo ==
  ASSUME NEW n \in Nat, NEW S, 0 \in S, \A i \in 0..(n - 1) : i \in S => i + 1 \in S
  PROVE  \A i \in 0..n : i \in S
<1> DEFINE Bad == {i \in 0..n : i \notin S}
<1> SUFFICES ASSUME Bad # {} PROVE FALSE
  OBVIOUS
<1>1. Bad \in SUBSET Nat
  OBVIOUS
<1>2. PICK m \in Bad : \A k \in Bad : ~ (<<k, m>> \in OpToRel(<, Nat))
  BY <1>1, WFMin, NatLessThanWellFounded
<1>3. m \in 0..n /\ m \notin S /\ m # 0
  OBVIOUS
<1>7. \A k \in Bad : ~(k < m)
  BY <1>1, <1>2 DEF OpToRel
<1>4. m - 1 \in 0..(n - 1) /\ m - 1 < m
  BY <1>3
<1>5. m - 1 \notin Bad
  BY <1>4, <1>7
<1>6. m - 1 \in S
  BY <1>4, <1>5
<1> QED
  BY <1>3, <1>4, <1>6

\* A step for each number up to n, made one after the other.
StepsIn(step, n, S) == step \in [1..n -> [S -> S]]

\* f is the state after each step, beginning at x.
Walks(f, step, n, S, x) ==
  f \in [0..n -> S] /\ f[0] = x /\ \A i \in 1..n : f[i] = step[i][f[i - 1]]

\* Steps can be made one after the other, from wherever they begin.
LEMMA StepsExist ==
  ASSUME NEW n \in Nat, NEW S, NEW x \in S, NEW step, StepsIn(step, n, S)
  PROVE  \E f : Walks(f, step, n, S, x)
<1>0. step \in [1..n -> [S -> S]]
  BY DEF StepsIn
<1> DEFINE Upto(m) == {f \in [0..m -> S] : f[0] = x /\ \A i \in 1..m : f[i] = step[i][f[i - 1]]}
           Can == {m \in 0..n : Upto(m) # {}}
<1>1. 0 \in Can
  <2>1. [i \in 0..0 |-> x] \in Upto(0)
    OBVIOUS
  <2> QED
    BY <2>1
<1>2. ASSUME NEW m \in 0..(n - 1), m \in Can
      PROVE  m + 1 \in Can
  <2>1. PICK old \in [0..m -> S] : old[0] = x /\ \A i \in 1..m : old[i] = step[i][old[i - 1]]
    BY <1>2
  <2> DEFINE new == [i \in 0..(m + 1) |-> IF i <= m THEN old[i] ELSE step[m + 1][old[m]]]
  <2>2. m + 1 \in 1..n /\ m \in 0..m
    OBVIOUS
  <2>3. step[m + 1][old[m]] \in S
    BY <1>0, <2>1, <2>2
  <2>4. new \in [0..(m + 1) -> S]
    BY <2>1, <2>3
  <2>5. new[0] = x
    BY <2>1
  <2>6. ASSUME NEW i \in 1..(m + 1) PROVE new[i] = step[i][new[i - 1]]
    <3>1. i - 1 \in 0..m /\ new[i - 1] = old[i - 1]
      OBVIOUS
    <3>2. CASE i <= m
      <4>1. new[i] = old[i] /\ i \in 1..m
        BY <3>2
      <4> QED
        BY <2>1, <3>1, <4>1
    <3>3. CASE i = m + 1
      <4>1. new[i] = step[m + 1][old[m]] /\ i - 1 = m
        BY <3>3
      <4> QED
        BY <3>1, <3>3, <4>1
    <3> QED
      BY <3>2, <3>3
  <2> HIDE DEF new
  <2>7. new \in Upto(m + 1)
    BY <2>4, <2>5, <2>6
  <2> QED
    BY <2>2, <2>7
<1>3. \A m \in 0..n : m \in Can
  BY <1>1, <1>2, UpTo
<1> HIDE DEF Can
<1>4. n \in Can
  BY <1>3
<1> QED
  BY <1>4 DEF Walks, Can

\* The values of a block.
Block == {v \in Nat : v < 65536}

\* The last hexadecimal digit of a number, and the others.
LEMMA Nibble ==
  ASSUME NEW n \in Nat
  PROVE  n = 16 * (n \div 16) + (n % 16) /\ n % 16 \in Digit /\ n \div 16 \in Nat
BY DEF Digit

\* A block is written with one to four digits, which give its value.
LEMMA HexDigits ==
  ASSUME NEW v \in Block, NEW h, h = HexOf(v)
  PROVE  /\ h \in Seq(Digit) /\ Len(h) \in 1..4
         /\ Len(h) = 1 => v = h[1]
         /\ Len(h) = 2 => v = h[1] * 16 + h[2]
         /\ Len(h) = 3 => v = (h[1] * 16 + h[2]) * 16 + h[3]
         /\ Len(h) = 4 => v = ((h[1] * 16 + h[2]) * 16 + h[3]) * 16 + h[4]
<1>0. v \in Nat /\ v < 65536
  BY DEF Block
<1>1. /\ v = 16 * (v \div 16) + (v % 16) /\ v % 16 \in Digit /\ v \div 16 \in Nat
  BY <1>0, Nibble
<1>10. v \div 256 = (v \div 16) \div 16 /\ v \div 256 \in Nat
  BY <1>0
<1>11. v \div 4096 = (v \div 256) \div 16 /\ v \div 4096 \in Nat
  BY <1>0
<1>2. v \div 16 = 16 * (v \div 256) + ((v \div 16) % 16) /\ (v \div 16) % 16 \in Digit
  <2>1. v \div 16 = 16 * ((v \div 16) \div 16) + ((v \div 16) % 16) /\ (v \div 16) % 16 \in Digit
    BY <1>1, Nibble
  <2> QED
    BY <1>10, <2>1
<1>12. v \div 256 = 16 * (v \div 4096) + ((v \div 256) % 16) /\ (v \div 256) % 16 \in Digit
  <2>1. v \div 256 = 16 * ((v \div 256) \div 16) + ((v \div 256) % 16) /\ (v \div 256) % 16 \in Digit
    BY <1>10, Nibble
  <2> QED
    BY <1>11, <2>1
<1> DEFINE a == v \div 4096
           b == v \div 256
           c == v \div 16
           y == b % 16
           z == c % 16
           d == v % 16
<1>3. /\ a \in Nat /\ b \in Nat /\ c \in Nat /\ y \in Digit /\ z \in Digit /\ d \in Digit
      /\ v = 16 * c + d /\ c = 16 * b + z /\ b = 16 * a + y
  BY <1>1, <1>2, <1>10, <1>11, <1>12
<1>4. h = IF v >= 4096 THEN <<a, y, z, d>> ELSE IF v >= 256 THEN <<b, z, d>>
                 ELSE IF v >= 16 THEN <<c, d>> ELSE <<v>>
  BY DEF HexOf
<1> HIDE DEF a, b, c, y, z, d
<1>5. CASE v >= 4096
  <2>1. h = <<a, y, z, d>> /\ a \in Digit
    BY <1>0, <1>3, <1>4, <1>5 DEF Digit
  <2>3. h \in Seq(Digit)
    <3>1. a \in Digit /\ y \in Digit /\ z \in Digit /\ d \in Digit
      BY <1>3, <2>1
    <3> QED
      BY <2>1, <3>1
  <2>2. Len(h) = 4 /\ h[1] = a /\ h[2] = y /\ h[3] = z /\ h[4] = d
    BY <2>1
  <2> QED
    BY <1>3, <2>2, <2>3 DEF Digit
<1>6. CASE v < 4096 /\ v >= 256
  <2>1. h = <<b, z, d>> /\ b \in Digit
    BY <1>0, <1>3, <1>4, <1>6 DEF Digit
  <2>3. h \in Seq(Digit)
    <3>1. b \in Digit /\ z \in Digit /\ d \in Digit
      BY <1>3, <2>1
    <3> QED
      BY <2>1, <3>1
  <2>2. Len(h) = 3 /\ h[1] = b /\ h[2] = z /\ h[3] = d
    BY <2>1
  <2> QED
    BY <1>3, <2>2, <2>3 DEF Digit
<1>7. CASE v < 256 /\ v >= 16
  <2>1. h = <<c, d>> /\ c \in Digit
    BY <1>0, <1>3, <1>4, <1>7 DEF Digit
  <2>3. h \in Seq(Digit)
    <3>1. c \in Digit /\ d \in Digit
      BY <1>3, <2>1
    <3> QED
      BY <2>1, <3>1
  <2>2. Len(h) = 2 /\ h[1] = c /\ h[2] = d
    BY <2>1
  <2> QED
    BY <1>3, <2>2, <2>3 DEF Digit
<1>8. CASE v < 16
  <2>1. h = <<v>> /\ v \in Digit
    BY <1>0, <1>4, <1>8 DEF Digit
  <2>2. h \in Seq(Digit) /\ Len(h) = 1 /\ h[1] = v
    BY <2>1
  <2> QED
    BY <2>2
<1> QED
  BY <1>0, <1>5, <1>6, <1>7, <1>8

\* The blocks of an IPv6 address, and what ip6addr_ntoa_r has written of them.
Address == [1..8 -> Block]
Writings == [text : Seq(0..20), empty : 0..2]

\* The equation of Ip6Written.
AreWritten(w, blocks, beyond) ==
  w = [i \in 0..8 |-> IF i = 0 THEN [text |-> <<>>, empty |-> 0]
                      ELSE PrintBlock(blocks, beyond, w[i - 1], i)]

\* A block adds to what has been written.
LEMMA BlockWritten ==
  ASSUME NEW blocks \in Address, NEW beyond \in Nat, NEW s \in Writings, NEW i \in 1..8
  PROVE  PrintBlock(blocks, beyond, s, i) \in Writings
<1>1. HexOf(blocks[i]) \in Seq(0..20)
  <2>1. blocks[i] \in Block
    BY DEF Address
  <2>2. HexOf(blocks[i]) \in Seq(Digit)
    BY <2>1, HexDigits
  <2> QED
    BY <2>2 DEF Digit
<1>2. s.text \in Seq(0..20) /\ s.empty \in 0..2 /\ <<Colon>> \in Seq(0..20) /\ <<>> \in Seq(0..20)
  BY DEF Writings, Colon
<1> DEFINE colon == IF i > 1 THEN <<Colon>> ELSE <<>>
<1>3. s.text \o colon \o HexOf(blocks[i]) \in Seq(0..20) /\ s.text \o <<Colon>> \in Seq(0..20)
  <2>1. colon \in Seq(0..20)
    BY <1>2
  <2> HIDE DEF colon
  <2> QED
    BY <1>1, <1>2, <2>1
<1>4. [s EXCEPT !.text = @ \o <<Colon>>] \in Writings
  BY <1>3 DEF Writings
<1>5. [text |-> s.text \o <<Colon>>, empty |-> 1] \in Writings
  BY <1>3 DEF Writings
<1>6. [text |-> s.text \o colon \o HexOf(blocks[i]), empty |-> IF s.empty = 1 THEN 2 ELSE s.empty] \in Writings
  BY <1>2, <1>3 DEF Writings
<1> QED
  BY <1>4, <1>5, <1>6, Zenon DEF PrintBlock

\* What is written after each block is what the one before left and what the
\* block adds.
LEMMA WritingExists ==
  ASSUME NEW blocks \in Address, NEW beyond \in Nat
  PROVE  LET w == Ip6Written(blocks, beyond) IN
         /\ w \in [0..8 -> Writings]
         /\ w[0] = [text |-> <<>>, empty |-> 0]
         /\ \A i \in 1..8 : w[i] = PrintBlock(blocks, beyond, w[i - 1], i)
<1> DEFINE step == [i \in 1..8 |-> [s \in Writings |-> PrintBlock(blocks, beyond, s, i)]]
           none == [text |-> <<>>, empty |-> 0]
           w == CHOOSE f : AreWritten(f, blocks, beyond)
<1>1. step \in [1..8 -> [Writings -> Writings]]
  BY BlockWritten
<1>2. none \in Writings
  BY DEF Writings
<1>3. PICK f : Walks(f, step, 8, Writings, none)
  <2>1. StepsIn(step, 8, Writings)
    BY <1>1 DEF StepsIn
  <2> HIDE DEF step, none
  <2> QED
    BY <1>2, <2>1, StepsExist
<1>4. \A i \in 1..8 : f[i] = PrintBlock(blocks, beyond, f[i - 1], i)
  <2> TAKE i \in 1..8
  <2>1. f[i - 1] \in Writings
    BY <1>3 DEF Walks
  <2> QED
    BY <1>3, <2>1 DEF Walks
<1>5. AreWritten(f, blocks, beyond)
  <2>1. f = [i \in 0..8 |-> f[i]]
    BY <1>3 DEF Walks
  <2>2. \A i \in 0..8 : f[i] = IF i = 0 THEN none ELSE PrintBlock(blocks, beyond, f[i - 1], i)
    BY <1>3, <1>4 DEF Walks
  <2> QED
    BY <2>1, <2>2 DEF AreWritten
<1>6. AreWritten(w, blocks, beyond)
  BY <1>5
<1>7. w = Ip6Written(blocks, beyond)
  BY Zenon DEF Ip6Written, AreWritten
<1> HIDE DEF w, step
<1>8. /\ w[0] = none
      /\ \A i \in 1..8 : w[i] = PrintBlock(blocks, beyond, w[i - 1], i)
      /\ w = [i \in 0..8 |-> w[i]]
  BY <1>6 DEF AreWritten
<1>9. \A i \in 0..8 : w[i] \in Writings
  <2> DEFINE T == {i \in 0..8 : w[i] \in Writings}
  <2>1. 0 \in T
    BY <1>2, <1>8
  <2>2. ASSUME NEW i \in 0..7, i \in T PROVE i + 1 \in T
    <3>1. i + 1 \in 1..8 /\ i + 1 - 1 = i
      OBVIOUS
    <3>2. w[i + 1] = PrintBlock(blocks, beyond, w[i], i + 1)
      BY <1>8, <3>1
    <3> QED
      BY <2>2, <3>1, <3>2, BlockWritten
  <2> HIDE DEF T
  <2>3. \A i \in 0..8 : i \in T
    BY <2>1, <2>2, UpTo
  <2> QED
    BY <2>3 DEF T
<1> QED
  BY <1>7, <1>8, <1>9

\* Every text is a sequence of characters.
Texts == Seq(0..20)

-----------------------------------------------------------------------------
(* ip6addr_aton, character by character *)

\* How many colons there are up to a position.
Colons(text, k) == Cardinality({j \in 1..k : text[j] = Colon})

\* The states of the scan for an IPv6 address.
Scans == [found : Seq(Nat), val : Nat, skip : BOOLEAN, zeros : Int, bad : BOOLEAN]

\* The state before the first character.
ScanBegin(text) ==
  [found |-> <<>>, val |-> 0, skip |-> FALSE, zeros |-> ZeroBlocks(text), bad |-> FALSE]

\* The states after each character, each following from the one before.
Scanned(st, text) ==
  /\ st \in [0..Len(text) -> Scans]
  /\ st[0] = ScanBegin(text)
  /\ \A i \in 1..Len(text) : st[i] = Ip6Char(text, st[i - 1], i)

\* The equation of Ip6States.
AreScanned(st, text) ==
  st = [i \in 0..Len(text) |-> IF i = 0 THEN [found |-> <<>>, val |-> 0, skip |-> FALSE,
                                              zeros |-> ZeroBlocks(text), bad |-> FALSE]
                               ELSE Ip6Char(text, st[i - 1], i)]

\* The number of colons is a number.
LEMMA ColonsCounted ==
  ASSUME NEW text, NEW k \in Nat
  PROVE  Colons(text, k) \in Nat /\ IsFiniteSet({j \in 1..k : text[j] = Colon})
<1>1. IsFiniteSet(1..k)
  BY FS_Interval
<1>2. IsFiniteSet({j \in 1..k : text[j] = Colon})
  BY <1>1, FS_Subset
<1> QED
  BY <1>2, FS_CardinalityType DEF Colons

\* There is no colon before the text.
LEMMA ColonsBegin ==
  ASSUME NEW text
  PROVE  Colons(text, 0) = 0
<1>1. {j \in 1..0 : text[j] = Colon} = {}
  OBVIOUS
<1> QED
  BY <1>1, FS_EmptySet DEF Colons

\* A colon is one more.
LEMMA ColonsStep ==
  ASSUME NEW text, NEW k \in Nat, text[k + 1] = Colon
  PROVE  Colons(text, k + 1) = Colons(text, k) + 1
<1> DEFINE C(n) == {j \in 1..n : text[j] = Colon}
<1>1. C(k + 1) = C(k) \cup {k + 1} /\ k + 1 \notin C(k)
  OBVIOUS
<1> QED
  BY <1>1, ColonsCounted, FS_AddElement DEF Colons

\* Other characters are none.
LEMMA ColonsAlong ==
  ASSUME NEW text, NEW k \in Nat, NEW l \in Nat, k <= l, \A j \in (k + 1)..l : text[j] # Colon
  PROVE  Colons(text, l) = Colons(text, k)
<1>1. {j \in 1..l : text[j] = Colon} = {j \in 1..k : text[j] = Colon}
  OBVIOUS
<1> QED
  BY <1>1 DEF Colons

\* The zeros that are left out, from the colons of the whole text.
LEMMA ZerosOf ==
  ASSUME NEW text \in Texts
  PROVE  ZeroBlocks(text) = 8 - Colons(text, Len(text)) /\ ZeroBlocks(text) \in Int
<1>1. Len(text) \in Nat
  BY DEF Texts
<1> QED
  BY <1>1, ColonsCounted DEF ZeroBlocks, Colons

\* A character leaves a state of the scan.
LEMMA ScanStep ==
  ASSUME NEW text \in Texts, NEW s \in Scans, NEW i \in 1..Len(text)
  PROVE  Ip6Char(text, s, i) \in Scans
<1>1. s.found \in Seq(Nat) /\ s.val \in Nat /\ s.zeros \in Int /\ s.bad \in BOOLEAN
  BY DEF Scans
<1>2. CASE s.bad
  BY <1>2 DEF Ip6Char
<1>3. CASE ~s.bad /\ s.skip
  <2>1. Ip6Char(text, s, i) = [s EXCEPT !.skip = FALSE]
    BY <1>3 DEF Ip6Char
  <2> QED
    BY <2>1 DEF Scans
<1>4. CASE ~s.bad /\ ~s.skip /\ text[i] \in 0..15
  <2>1. Ip6Char(text, s, i) = [s EXCEPT !.val = @ * 16 + text[i]]
    BY <1>4 DEF Ip6Char
  <2>2. s.val * 16 + text[i] \in Nat
    <3>1. \A v \in Nat, c \in 0..15 : v * 16 + c \in Nat
      OBVIOUS
    <3> QED
      BY <1>1, <1>4, <3>1
  <2> QED
    BY <2>1, <2>2 DEF Scans
<1>5. CASE ~s.bad /\ ~s.skip /\ text[i] \notin 0..15
  <2> DEFINE double == CharAt(text, i + 1) = Colon
             run == IF ~double THEN 0 ELSE IF s.zeros < 0 THEN 8 ELSE s.zeros
             zeros == [k \in 1..run |-> 0]
             found == Append(s.found, s.val) \o zeros
  <2>1. Ip6Char(text, s, i) =
          [found |-> found, val |-> 0, skip |-> double, zeros |-> IF double THEN 0 ELSE s.zeros,
           bad |-> Len(found) > 7 \/ (double /\ CharAt(text, i + 2) = Colon)]
    BY <1>5 DEF Ip6Char
  <2>2. run \in Nat
    BY <1>1
  <2> HIDE DEF run
  <2>3. zeros \in Seq(Nat)
    BY <2>2
  <2> HIDE DEF zeros
  <2>4. found \in Seq(Nat)
    BY <1>1, <2>3
  <2> HIDE DEF found, double
  <2>5. double \in BOOLEAN /\ (CharAt(text, i + 2) = Colon) \in BOOLEAN
    BY DEF double
  <2> QED
    BY <1>1, <2>1, <2>4, <2>5 DEF Scans
<1> QED
  BY <1>2, <1>3, <1>4, <1>5

\* What the scan keeps after each character follows from what it kept before.
LEMMA ScanExists ==
  ASSUME NEW text \in Texts
  PROVE  Scanned(Ip6States(text), text)
<1> DEFINE n == Len(text)
           step == [i \in 1..n |-> [s \in Scans |-> Ip6Char(text, s, i)]]
           st == CHOOSE f : AreScanned(f, text)
<1>1. n \in Nat
  BY DEF Texts
<1> HIDE DEF n
<1>2. StepsIn(step, n, Scans)
  BY ScanStep DEF StepsIn, n
<1>3. ScanBegin(text) \in Scans
  BY ZerosOf DEF Scans, ScanBegin
<1>4. PICK f : Walks(f, step, n, Scans, ScanBegin(text))
  <2> HIDE DEF step
  <2> QED
    BY <1>1, <1>2, <1>3, StepsExist
<1>5. \A i \in 1..n : f[i] = Ip6Char(text, f[i - 1], i)
  <2> TAKE i \in 1..n
  <2>1. f[i - 1] \in Scans
    BY <1>1, <1>4 DEF Walks
  <2> QED
    BY <1>4, <2>1 DEF Walks
<1>6. AreScanned(f, text)
  <2>1. f = [i \in 0..n |-> f[i]]
    BY <1>4 DEF Walks
  <2>2. \A i \in 0..n : f[i] = IF i = 0 THEN ScanBegin(text) ELSE Ip6Char(text, f[i - 1], i)
    BY <1>1, <1>4, <1>5 DEF Walks
  <2> QED
    BY <2>1, <2>2 DEF AreScanned, n, ScanBegin
<1>7. AreScanned(st, text)
  BY <1>6
<1>8. st = Ip6States(text)
  BY Zenon DEF Ip6States, AreScanned
<1> HIDE DEF st, step
<1>9. /\ st[0] = ScanBegin(text)
      /\ \A i \in 1..n : st[i] = Ip6Char(text, st[i - 1], i)
      /\ st = [i \in 0..n |-> st[i]]
  <2>1. st = [i \in 0..n |-> IF i = 0 THEN ScanBegin(text) ELSE Ip6Char(text, st[i - 1], i)]
    BY <1>7 DEF AreScanned, n, ScanBegin
  <2>2. \A i \in 0..n : st[i] = IF i = 0 THEN ScanBegin(text) ELSE Ip6Char(text, st[i - 1], i)
    BY <2>1
  <2>3. 0 \in 0..n /\ \A i \in 1..n : i \in 0..n /\ i # 0
    BY <1>1
  <2>4. \A i \in 1..n : st[i] = Ip6Char(text, st[i - 1], i)
    BY <2>2, <2>3
  <2> QED
    BY <2>1, <2>2, <2>3, <2>4
<1>10. \A i \in 0..n : st[i] \in Scans
  <2> DEFINE T == {i \in 0..n : st[i] \in Scans}
  <2>1. 0 \in T
    BY <1>1, <1>3, <1>9
  <2>2. ASSUME NEW i \in 0..(n - 1), i \in T PROVE i + 1 \in T
    <3>1. i + 1 \in 1..n /\ i + 1 - 1 = i /\ i + 1 \in 0..n
      BY <1>1
    <3>3. \A k \in 1..n : st[k] = Ip6Char(text, st[k - 1], k)
      BY <1>9
    <3>4. \A k \in 1..n : k = i + 1 => st[k] = Ip6Char(text, st[i], k)
      <4> TAKE k \in 1..n
      <4> HAVE k = i + 1
      <4>1. k - 1 = i
        OBVIOUS
      <4> QED
        BY <3>3, <4>1
    <3>2. st[i + 1] = Ip6Char(text, st[i], i + 1)
      BY <3>1, <3>4
    <3> QED
      BY <2>2, <3>1, <3>2, ScanStep DEF n
  <2> HIDE DEF T
  <2>3. \A i \in 0..n : i \in T
    BY <1>1, <2>1, <2>2, UpTo
  <2> QED
    BY <2>3 DEF T
<1> QED
  BY <1>8, <1>9, <1>10 DEF Scanned, n

\* The scan within a number: what it has found, the value so far, the zeros to
\* come.
At(found, val, zeros) ==
  [found |-> found, val |-> val, skip |-> FALSE, zeros |-> zeros, bad |-> FALSE]

\* A digit goes on with the value of its block.
LEMMA ReadDigit ==
  ASSUME NEW text \in Texts, NEW found, NEW val \in Nat, NEW zeros, NEW i, text[i] \in 0..15
  PROVE  Ip6Char(text, At(found, val, zeros), i) = At(found, val * 16 + text[i], zeros)
BY DEF Ip6Char, At

\* No colon lies behind the end of a text.
LEMMA CharAfter ==
  ASSUME NEW text \in Texts, NEW i \in Nat
  PROVE  /\ i <= Len(text) => CharAt(text, i) = text[i]
         /\ i > Len(text) => CharAt(text, i) # Colon
<1>1. Len(text) \in Nat
  BY DEF Texts
<1> QED
  BY <1>1 DEF CharAt, Colon

\* So many blocks that are 0.
Zeros(n) == [k \in 1..n |-> 0]

\* A colon before a digit or at the end.
LEMMA OneColon ==
  ASSUME NEW text, NEW i, text[i] = Colon, NEW s, ~s.bad, ~s.skip, CharAt(text, i + 1) # Colon,
         NEW found, found = Append(s.found, s.val) \o Zeros(0), ~(Len(found) > 7)
  PROVE  Ip6Char(text, s, i) = At(found, 0, s.zeros)
<1>1. text[i] \notin 0..15
  BY DEF Colon
<1>2. (CharAt(text, i + 1) = Colon) = FALSE
  OBVIOUS
<1> QED
  BY <1>1, <1>2 DEF Ip6Char, Zeros, At

\* A colon ends a block.
LEMMA ReadColon ==
  ASSUME NEW text \in Texts, NEW found \in Seq(Nat), NEW val \in Nat, NEW zeros, NEW i \in Nat,
         text[i] = Colon, CharAt(text, i + 1) # Colon, Len(found) <= 6
  PROVE  Ip6Char(text, At(found, val, zeros), i) = At(Append(found, val), 0, zeros)
<1> DEFINE s == At(found, val, zeros)
<1>1. /\ s.found = found /\ s.val = val /\ s.zeros = zeros /\ ~s.skip /\ ~s.bad
  BY DEF At
<1> HIDE DEF s
<1>2. Append(found, val) = Append(s.found, s.val) \o Zeros(0)
  BY <1>1 DEF Zeros
<1>3. ~(Len(Append(found, val)) > 7)
  OBVIOUS
<1> QED
  BY <1>1, <1>2, <1>3, OneColon DEF s

\* The second of two colons is passed over.
LEMMA TwoColons ==
  ASSUME NEW text, NEW i, text[i] = Colon, NEW s, ~s.bad, ~s.skip,
         CharAt(text, i + 1) = Colon, CharAt(text, i + 2) # Colon, ~(s.zeros < 0),
         NEW found, found = Append(s.found, s.val) \o Zeros(s.zeros), ~(Len(found) > 7)
  PROVE  Ip6Char(text, Ip6Char(text, s, i), i + 1) = At(found, 0, 0)
<1>1. text[i] \notin 0..15
  BY DEF Colon
<1>2. (CharAt(text, i + 1) = Colon) = TRUE /\ (CharAt(text, i + 2) = Colon) = FALSE
  OBVIOUS
<1>3. Ip6Char(text, s, i) = [found |-> found, val |-> 0, skip |-> TRUE, zeros |-> 0, bad |-> FALSE]
  BY <1>1, <1>2 DEF Ip6Char, Zeros
<1> QED
  BY <1>3 DEF Ip6Char, At

\* Two colons before a digit or at the end, for as many zeros as there is room.
LEMMA ReadColons ==
  ASSUME NEW text \in Texts, NEW found \in Seq(Nat), NEW val \in Nat, NEW zeros \in Nat, NEW i \in Nat,
         text[i] = Colon, CharAt(text, i + 1) = Colon, CharAt(text, i + 2) # Colon,
         Len(found) + zeros <= 6
  PROVE  Ip6Char(text, Ip6Char(text, At(found, val, zeros), i), i + 1)
           = At(Append(found, val) \o Zeros(zeros), 0, 0)
<1> DEFINE s == At(found, val, zeros)
           all == Append(found, val) \o Zeros(zeros)
<1>1. /\ s.found = found /\ s.val = val /\ s.zeros = zeros /\ ~s.skip /\ ~s.bad
  BY DEF At
<1>2. Len(all) = Len(found) + 1 + zeros /\ Len(found) \in Nat
  BY DEF Zeros
<1> HIDE DEF s
<1>3. ~(Len(all) > 7) /\ ~(s.zeros < 0)
  BY <1>1, <1>2
<1>4. all = Append(s.found, s.val) \o Zeros(s.zeros)
  BY <1>1
<1> HIDE DEF all
<1>5. Ip6Char(text, Ip6Char(text, s, i), i + 1) = At(all, 0, 0)
  BY <1>1, <1>3, <1>4, TwoColons
<1> QED
  BY <1>5 DEF all, s

\* Where the scan stands.
Stands(st, p, found, val, zeros) == st[p] = At(found, val, zeros)

\* The digits of a block are in a text.
Holds(text, k, v) ==
  /\ k \in Nat /\ v \in Block /\ k + Len(HexOf(v)) <= Len(text)
  /\ \A j \in 1..Len(HexOf(v)) : text[k + j] = HexOf(v)[j]

\* The digits of a block, read after a colon or at the beginning.
LEMMA ReadBlock ==
  ASSUME NEW text \in Texts, NEW st, Scanned(st, text), NEW k, NEW found, NEW zeros,
         Stands(st, k, found, 0, zeros), NEW v, Holds(text, k, v)
  PROVE  Stands(st, k + Len(HexOf(v)), found, v, zeros)
<1> DEFINE h == HexOf(v)
<1>0. /\ k \in Nat /\ v \in Block /\ k + Len(h) <= Len(text)
      /\ \A j \in 1..Len(h) : text[k + j] = h[j]
      /\ st[k] = At(found, 0, zeros)
  BY DEF Holds, Stands
<1>1. /\ h \in Seq(Digit) /\ Len(h) \in 1..4
      /\ Len(h) = 1 => v = h[1]
      /\ Len(h) = 2 => v = h[1] * 16 + h[2]
      /\ Len(h) = 3 => v = (h[1] * 16 + h[2]) * 16 + h[3]
      /\ Len(h) = 4 => v = ((h[1] * 16 + h[2]) * 16 + h[3]) * 16 + h[4]
  BY <1>0, HexDigits
<1> HIDE DEF h
<1>2. \A j \in 1..Len(h) : text[k + j] = h[j] /\ h[j] \in 0..15 /\ h[j] \in Nat
  <2>1. \A j \in 1..Len(h) : h[j] \in Digit
    BY <1>1
  <2>2. \A d \in Digit : d \in 0..15 /\ d \in Nat
    BY DEF Digit
  <2> QED
    BY <1>0, <2>1, <2>2
<1>4. \A i \in 1..Len(text) : st[i] = Ip6Char(text, st[i - 1], i)
  BY DEF Scanned
<1>5. ASSUME NEW j \in 0..3, j + 1 <= Len(h), NEW val \in Nat, st[k + j] = At(found, val, zeros)
      PROVE  st[k + (j + 1)] = At(found, val * 16 + h[j + 1], zeros)
  <2>1. Len(text) \in Nat /\ Len(h) \in Nat
    BY <1>1 DEF Texts
  <2>2. k + (j + 1) \in 1..Len(text) /\ k + (j + 1) - 1 = k + j /\ j + 1 \in 1..Len(h)
    BY <1>0, <1>5, <2>1
  <2>3. st[k + (j + 1)] = Ip6Char(text, st[k + j], k + (j + 1))
    <3>1. \A i \in 1..Len(text) : i - 1 = k + j => st[i] = Ip6Char(text, st[k + j], i)
      BY <1>4
    <3> QED
      BY <1>0, <2>2, <3>1
  <2>4. text[k + (j + 1)] = h[j + 1] /\ text[k + (j + 1)] \in 0..15
    BY <1>2, <2>2
  <2> QED
    <3>1. \A i : text[i] \in 0..15 =>
            Ip6Char(text, At(found, val, zeros), i) = At(found, val * 16 + text[i], zeros)
      BY <1>5, ReadDigit
    <3> QED
      BY <1>5, <2>3, <2>4, <3>1
<1>6. st[k + 0] = At(found, 0, zeros)
  BY <1>0
<1>7. Len(h) >= 1 /\ st[k + 1] = At(found, h[1], zeros) /\ h[1] \in Nat
  <2>1. 0 \in 0..3 /\ 0 + 1 <= Len(h) /\ 1 \in 1..Len(h) /\ 0 \in Nat
    BY <1>1
  <2>2. st[k + (0 + 1)] = At(found, 0 * 16 + h[0 + 1], zeros)
    BY <1>5, <1>6, <2>1
  <2>3. h[1] \in Nat
    BY <1>2, <2>1
  <2>4. 0 * 16 + h[0 + 1] = h[1] /\ k + (0 + 1) = k + 1
    BY <2>3
  <2> QED
    BY <2>1, <2>2, <2>3, <2>4
<1>8. Len(h) >= 2 => st[k + 2] = At(found, h[1] * 16 + h[2], zeros) /\ h[1] * 16 + h[2] \in Nat
  <2> HAVE Len(h) >= 2
  <2>1. 1 \in 0..3 /\ 1 + 1 <= Len(h) /\ 2 \in 1..Len(h)
    BY <1>1
  <2>2. st[k + (1 + 1)] = At(found, h[1] * 16 + h[1 + 1], zeros)
    BY <1>5, <1>7, <2>1
  <2>3. h[2] \in Nat
    BY <1>2, <2>1
  <2>4. k + (1 + 1) = k + 2 /\ 1 + 1 = 2
    OBVIOUS
  <2>5. h[1] * 16 + h[2] \in Nat
    BY <1>7, <2>1, <2>3
  <2> QED
    BY <2>2, <2>4, <2>5
<1>9. Len(h) >= 3 => /\ st[k + 3] = At(found, (h[1] * 16 + h[2]) * 16 + h[3], zeros)
                     /\ (h[1] * 16 + h[2]) * 16 + h[3] \in Nat
  <2> HAVE Len(h) >= 3
  <2>1. 2 \in 0..3 /\ 2 + 1 <= Len(h) /\ 3 \in 1..Len(h) /\ Len(h) >= 2
    BY <1>1
  <2> DEFINE x == h[1] * 16 + h[2]
  <2>4. st[k + 2] = At(found, x, zeros) /\ x \in Nat
    BY <1>8, <2>1
  <2> HIDE DEF x
  <2>2. st[k + (2 + 1)] = At(found, x * 16 + h[2 + 1], zeros)
    BY <1>5, <2>1, <2>4
  <2>3. h[3] \in Nat
    BY <1>2, <2>1
  <2>5. st[k + 3] = At(found, x * 16 + h[3], zeros) /\ x * 16 + h[3] \in Nat
    BY <2>2, <2>3, <2>4
  <2> QED
    BY <2>5 DEF x
<1>10. Len(h) >= 4 => st[k + 4] = At(found, ((h[1] * 16 + h[2]) * 16 + h[3]) * 16 + h[4], zeros)
  <2> HAVE Len(h) >= 4
  <2>1. 3 \in 0..3 /\ 3 + 1 <= Len(h) /\ Len(h) >= 3
    BY <1>1
  <2> DEFINE x == (h[1] * 16 + h[2]) * 16 + h[3]
  <2>4. st[k + 3] = At(found, x, zeros) /\ x \in Nat
    BY <1>9, <2>1
  <2> HIDE DEF x
  <2>2. st[k + (3 + 1)] = At(found, x * 16 + h[3 + 1], zeros)
    BY <1>5, <2>1, <2>4
  <2>5. st[k + 4] = At(found, x * 16 + h[4], zeros)
    BY <2>2
  <2> QED
    BY <2>5 DEF x
<1>11. Len(h) = 1 \/ Len(h) = 2 \/ Len(h) = 3 \/ Len(h) = 4
  BY <1>1
<1>12. Len(h) = 1 => st[k + Len(h)] = At(found, v, zeros)
  BY <1>1, <1>7
<1>13. Len(h) = 2 => st[k + Len(h)] = At(found, v, zeros)
  BY <1>1, <1>8
<1>14. Len(h) = 3 => st[k + Len(h)] = At(found, v, zeros)
  BY <1>1, <1>9
<1>15. Len(h) = 4 => st[k + Len(h)] = At(found, v, zeros)
  BY <1>1, <1>10
<1> QED
  BY <1>11, <1>12, <1>13, <1>14, <1>15 DEF h, Stands

-----------------------------------------------------------------------------
(* What ip6addr_ntoa_r writes, as positions in the whole text *)

\* The block that an abbreviation is begun for, or the word behind the last.
Next(blocks, beyond, i) == IF i < 8 THEN blocks[i + 1] ELSE beyond

\* How each block leaves the text and the state of the abbreviation: it is
\* written, it begins the zeros, it is one of them, or the last of them.
Printed(s, t, blocks, beyond, i) ==
  LET colon == IF i > 1 THEN <<Colon>> ELSE <<>> IN
  \/ /\ blocks[i] # 0 \/ s.empty = 2 \/ (s.empty = 0 /\ Next(blocks, beyond, i) # 0)
     /\ t.text = s.text \o colon \o HexOf(blocks[i])
     /\ t.empty = IF s.empty = 1 THEN 2 ELSE s.empty
  \/ /\ blocks[i] = 0 /\ s.empty = 0 /\ Next(blocks, beyond, i) = 0
     /\ t.text = s.text \o <<Colon>> /\ t.empty = 1
  \/ /\ blocks[i] = 0 /\ s.empty = 1 /\ i < 8
     /\ t.text = s.text /\ t.empty = 1
  \/ /\ blocks[i] = 0 /\ s.empty = 1 /\ i = 8
     /\ t.text = s.text \o <<Colon>> /\ t.empty = 1

\* PrintBlock is one of these four.
LEMMA BlockPrinted ==
  ASSUME NEW blocks \in Address, NEW beyond \in Nat, NEW s \in Writings, NEW i \in 1..8
  PROVE  Printed(s, PrintBlock(blocks, beyond, s, i), blocks, beyond, i)
<1> DEFINE colon == IF i > 1 THEN <<Colon>> ELSE <<>>
           p == PrintBlock(blocks, beyond, s, i)
           next == Next(blocks, beyond, i)
           b == blocks[i]
<1>1. s.empty \in 0..2 /\ DOMAIN s = {"text", "empty"}
  BY DEF Writings
<1>2. p = IF b = 0 /\ i = 8 /\ s.empty = 1 THEN [s EXCEPT !.text = @ \o <<Colon>>]
          ELSE IF b = 0 /\ s.empty = 0 /\ next = 0
            THEN [text |-> s.text \o <<Colon>>, empty |-> 1]
          ELSE IF b = 0 /\ s.empty = 1 THEN s
          ELSE [text  |-> s.text \o colon \o HexOf(b),
                empty |-> IF s.empty = 1 THEN 2 ELSE s.empty]
  BY Zenon DEF PrintBlock, Next
<1> HIDE DEF p, b, next, colon
<1>3. CASE b = 0 /\ i = 8 /\ s.empty = 1
  <2>1. p = [s EXCEPT !.text = @ \o <<Colon>>]
    BY <1>2, <1>3
  <2>2. p.text = s.text \o <<Colon>> /\ p.empty = 1
    BY <1>1, <1>3, <2>1 DEF Writings
  <2> QED
    BY <1>3, <2>2 DEF Printed, b, p
<1>4. CASE b = 0 /\ s.empty = 0 /\ next = 0
  <2>1. p = [text |-> s.text \o <<Colon>>, empty |-> 1]
    BY <1>2, <1>4
  <2>2. p.text = s.text \o <<Colon>> /\ p.empty = 1
    BY <2>1
  <2> QED
    BY <1>4, <2>2 DEF Printed, b, p, next
<1>5. CASE b = 0 /\ s.empty = 1 /\ i # 8
  <2>1. p = s /\ i < 8
    BY <1>2, <1>5
  <2> QED
    BY <1>5, <2>1 DEF Printed, b, p
<1>6. CASE b # 0 \/ s.empty = 2 \/ (s.empty = 0 /\ next # 0)
  <2>1. p = [text  |-> s.text \o colon \o HexOf(b),
             empty |-> IF s.empty = 1 THEN 2 ELSE s.empty]
    BY <1>2, <1>6
  <2>2. p.text = s.text \o colon \o HexOf(b) /\ p.empty = IF s.empty = 1 THEN 2 ELSE s.empty
    BY <2>1
  <2> QED
    BY <1>6, <2>2 DEF Printed, b, p, colon, next
<1> QED
  BY <1>1, <1>3, <1>4, <1>5, <1>6

\* A text begins with another one.
Begins(s, t) == Len(s) <= Len(t) /\ \A j \in 1..Len(s) : t[j] = s[j]

\* A text begins with itself, with what is prolonged to it, and with what that
\* begins with.
LEMMA BeginsLonger ==
  ASSUME NEW s \in Texts, NEW t \in Texts
  PROVE  /\ Begins(s, s)
         /\ Begins(s, s \o t)
         /\ \A u \in Texts : Begins(s, t) /\ Begins(t, u) => Begins(s, u)
BY DEF Begins, Texts

\* Positions of the text: where each block has left it, and the state of the
\* abbreviation there.
Layout(text, len, empty, blocks, beyond) ==
  /\ text \in Texts
  /\ \A i \in 0..8 : len[i] \in Nat /\ empty[i] \in 0..2 /\ len[i] <= Len(text)
  /\ len[0] = 0 /\ empty[0] = 0 /\ len[8] = Len(text)

\* The block is written, behind a colon if it is not the first.
NumberAt(text, len, empty, blocks, beyond, i) ==
  /\ blocks[i] # 0 \/ empty[i - 1] = 2 \/ (empty[i - 1] = 0 /\ Next(blocks, beyond, i) # 0)
  /\ empty[i] = IF empty[i - 1] = 1 THEN 2 ELSE empty[i - 1]
  /\ \E k \in Nat :
       /\ k = len[i - 1] + (IF i > 1 THEN 1 ELSE 0)
       /\ i > 1 => text[len[i - 1] + 1] = Colon
       /\ len[i] = k + Len(HexOf(blocks[i]))
       /\ \A j \in 1..Len(HexOf(blocks[i])) : text[k + j] = HexOf(blocks[i])[j]

\* The block is left out; the first one is a colon, and so is the last block.
ZeroAt(text, len, empty, blocks, beyond, i) ==
  /\ blocks[i] = 0 /\ empty[i] = 1
  /\ \/ /\ empty[i - 1] = 0 /\ Next(blocks, beyond, i) = 0
        /\ len[i] = len[i - 1] + 1 /\ text[len[i]] = Colon
     \/ empty[i - 1] = 1 /\ i < 8 /\ len[i] = len[i - 1]
     \/ /\ empty[i - 1] = 1 /\ i = 8
        /\ len[i] = len[i - 1] + 1 /\ text[len[i]] = Colon

\* Whatever is written is laid out like this, block by block.
LEMMA Laid ==
  ASSUME NEW blocks \in Address, NEW beyond \in Nat, NEW text, text = Ip6Ntoa(blocks, beyond)
  PROVE  \E len, empty :
           /\ Layout(text, len, empty, blocks, beyond)
           /\ \A i \in 1..8 : \/ NumberAt(text, len, empty, blocks, beyond, i)
                              \/ ZeroAt(text, len, empty, blocks, beyond, i)
<1> DEFINE w == Ip6Written(blocks, beyond)
           len == [i \in 0..8 |-> Len(w[i].text)]
           empty == [i \in 0..8 |-> w[i].empty]
<1>1. /\ \A i \in 0..8 : w[i] \in Writings
      /\ w[0] = [text |-> <<>>, empty |-> 0]
      /\ \A i \in 1..8 : w[i] = PrintBlock(blocks, beyond, w[i - 1], i)
  BY WritingExists
<1>2. text = w[8].text
  BY DEF Ip6Ntoa
<1> HIDE DEF w
<1>3. \A i \in 0..8 : w[i].text \in Texts /\ w[i].empty \in 0..2 /\ Len(w[i].text) \in Nat
  <2>1. \A s \in Writings : s.text \in Texts /\ s.empty \in 0..2 /\ Len(s.text) \in Nat
    BY DEF Writings, Texts
  <2> QED
    BY <1>1, <2>1
<1>4. ASSUME NEW i \in 1..8
      PROVE  Printed(w[i - 1], w[i], blocks, beyond, i)
  <2>1. i - 1 \in 0..8
    OBVIOUS
  <2> QED
    BY <1>1, <2>1, BlockPrinted
<1>5. \A i \in 1..8 : HexOf(blocks[i]) \in Texts
  <2> TAKE i \in 1..8
  <2>1. blocks[i] \in Block
    BY DEF Address
  <2>2. HexOf(blocks[i]) \in Seq(Digit)
    BY <2>1, HexDigits
  <2> QED
    BY <2>2 DEF Digit, Texts
<1>6. ASSUME NEW i \in 1..8
      PROVE  Begins(w[i - 1].text, w[i].text)
  <2>1. i - 1 \in 0..8 /\ i \in 0..8
    OBVIOUS
  <2>2. w[i - 1].text \in Texts /\ HexOf(blocks[i]) \in Texts
    BY <1>3, <1>5, <2>1
  <2>3. <<Colon>> \in Texts /\ <<>> \in Texts
    BY DEF Texts, Colon
  <2> DEFINE colon == IF i > 1 THEN <<Colon>> ELSE <<>>
             s == w[i - 1].text
             h == HexOf(blocks[i])
  <2>4. colon \in Texts
    BY <2>3
  <2>5. w[i].text = s \o colon \o h \/ w[i].text = s \o <<Colon>> \/ w[i].text = s
    BY <1>4 DEF Printed
  <2>6. s \in Texts /\ h \in Texts
    BY <2>2
  <2> HIDE DEF colon, s, h
  <2>7. s \o colon \o h = s \o (colon \o h) /\ colon \o h \in Texts
    BY <2>4, <2>6 DEF Texts
  <2>8. Begins(s, s) /\ Begins(s, s \o <<Colon>>) /\ Begins(s, s \o (colon \o h))
    BY <2>3, <2>6, <2>7, BeginsLonger
  <2>9. Begins(s, w[i].text)
    BY <2>5, <2>7, <2>8
  <2> QED
    BY <2>9 DEF s
<1>7. ASSUME NEW i \in 0..8
      PROVE  Begins(w[i].text, text)
  <2> DEFINE T == {k \in 0..8 : Begins(w[8 - k].text, text)}
  <2>1. 0 \in T
    <3>1. w[8].text \in Texts
      BY <1>3
    <3>2. Begins(w[8].text, text)
      BY <1>2, <3>1, BeginsLonger
    <3>3. 8 - 0 = 8
      OBVIOUS
    <3> QED
      BY <3>2, <3>3
  <2>2. ASSUME NEW k \in 0..7, k \in T PROVE k + 1 \in T
    <3>1. 8 - k \in 1..8 /\ 8 - k \in 0..8 /\ 8 - (k + 1) = (8 - k) - 1 /\ 8 - (k + 1) \in 0..8 /\ 8 \in 0..8
      OBVIOUS
    <3>2. Begins(w[8 - (k + 1)].text, w[8 - k].text)
      BY <1>6, <3>1
    <3>3. Begins(w[8 - k].text, text)
      BY <2>2
    <3>4. w[8 - (k + 1)].text \in Texts /\ w[8 - k].text \in Texts /\ text \in Texts
      BY <1>2, <1>3, <3>1
    <3>5. Begins(w[8 - (k + 1)].text, text)
      BY <3>2, <3>3, <3>4, BeginsLonger
    <3> QED
      BY <3>1, <3>5
  <2> HIDE DEF T
  <2>3. \A k \in 0..8 : k \in T
    BY <2>1, <2>2, UpTo
  <2>4. 8 - i \in 0..8 /\ 8 - (8 - i) = i
    OBVIOUS
  <2>5. 8 - i \in T
    BY <2>3, <2>4
  <2> QED
    BY <2>4, <2>5 DEF T
<1>8. Layout(text, len, empty, blocks, beyond)
  <2>1. \A i \in 0..8 : len[i] = Len(w[i].text) /\ empty[i] = w[i].empty
    OBVIOUS
  <2>2. text \in Texts /\ 0 \in 0..8 /\ 8 \in 0..8
    BY <1>2, <1>3
  <2>3. \A i \in 0..8 : Len(w[i].text) <= Len(text)
    BY <1>7 DEF Begins
  <2>4. Len(w[0].text) = 0 /\ w[0].empty = 0
    BY <1>1
  <2> HIDE DEF len, empty
  <2> QED
    BY <1>2, <1>3, <2>1, <2>2, <2>3, <2>4 DEF Layout
<1>9. ASSUME NEW i \in 1..8
      PROVE  \/ NumberAt(text, len, empty, blocks, beyond, i)
             \/ ZeroAt(text, len, empty, blocks, beyond, i)
  <2> DEFINE s == w[i - 1].text
             t == w[i].text
             h == HexOf(blocks[i])
             colon == IF i > 1 THEN <<Colon>> ELSE <<>>
  <2>1. i - 1 \in 0..8 /\ i \in 0..8
    OBVIOUS
  <2>2. /\ len[i - 1] = Len(s) /\ len[i] = Len(t)
        /\ empty[i - 1] = w[i - 1].empty /\ empty[i] = w[i].empty
    BY <2>1
  <2>3. s \in Texts /\ t \in Texts /\ h \in Texts /\ Len(s) \in Nat /\ Len(t) \in Nat
    BY <1>3, <1>5, <2>1
  <2>4. \A j \in 1..Len(t) : text[j] = t[j]
    BY <1>7, <2>1 DEF Begins
  <2>5. Printed(w[i - 1], w[i], blocks, beyond, i)
    BY <1>4
  <2> HIDE DEF len, empty
  <2> HIDE DEF s, t, h
  <2>6. t = s \o <<Colon>> => len[i] = len[i - 1] + 1 /\ text[len[i]] = Colon
    <3> HAVE t = s \o <<Colon>>
    <3>1. Len(t) = Len(s) + 1 /\ t[Len(t)] = Colon /\ Len(t) \in 1..Len(t)
      BY <2>3 DEF Texts
    <3> QED
      BY <2>2, <2>4, <3>1
  <2>7. CASE /\ blocks[i] # 0 \/ empty[i - 1] = 2 \/ (empty[i - 1] = 0 /\ Next(blocks, beyond, i) # 0)
             /\ t = s \o colon \o h
             /\ empty[i] = IF empty[i - 1] = 1 THEN 2 ELSE empty[i - 1]
    <3> DEFINE c == IF i > 1 THEN 1 ELSE 0
               k == len[i - 1] + c
    <3>1. /\ colon \in Texts /\ Len(colon) = c /\ c \in 0..1
          /\ i > 1 => colon[1] = Colon /\ c = 1
      <4>1. <<Colon>> \in Texts /\ <<>> \in Texts
        BY DEF Texts, Colon
      <4> QED
        BY <4>1
    <3> HIDE DEF colon, c
    <3>2. /\ Len(t) = Len(s) + c + Len(h)
          /\ \A j \in 1..c : t[Len(s) + j] = colon[j]
          /\ \A j \in 1..Len(h) : t[Len(s) + c + j] = h[j]
      BY <2>3, <2>7, <3>1 DEF Texts
    <3>3. Len(h) \in Nat /\ c \in Nat
      BY <2>3, <3>1 DEF Texts
    <3>4. i > 1 => text[len[i - 1] + 1] = Colon
      <4> HAVE i > 1
      <4>1. 1 \in 1..c /\ Len(s) + 1 \in 1..Len(t)
        BY <2>3, <3>1, <3>2, <3>3
      <4>2. t[Len(s) + 1] = Colon
        BY <3>1, <3>2, <4>1
      <4> QED
        BY <2>2, <2>4, <4>1, <4>2
    <3>5. \A j \in 1..Len(h) : text[k + j] = h[j]
      <4> TAKE j \in 1..Len(h)
      <4>1. Len(s) + c + j \in 1..Len(t)
        BY <2>3, <3>1, <3>2, <3>3
      <4>2. t[Len(s) + c + j] = h[j]
        BY <3>2
      <4> QED
        BY <2>2, <2>4, <4>1, <4>2
    <3>6. k \in Nat /\ len[i] = k + Len(h) /\ k = len[i - 1] + (IF i > 1 THEN 1 ELSE 0)
      BY <2>2, <2>3, <3>2, <3>3 DEF c
    <3> HIDE DEF k
    <3>7. NumberAt(text, len, empty, blocks, beyond, i)
      BY <2>7, <3>4, <3>5, <3>6 DEF NumberAt, h
    <3> QED
      BY <3>7
  <2>8. CASE /\ blocks[i] = 0 /\ empty[i - 1] = 0 /\ Next(blocks, beyond, i) = 0
             /\ t = s \o <<Colon>> /\ empty[i] = 1
    BY <2>6, <2>8 DEF ZeroAt
  <2>9. CASE /\ blocks[i] = 0 /\ empty[i - 1] = 1 /\ i < 8
             /\ t = s /\ empty[i] = 1
    BY <2>2, <2>9 DEF ZeroAt
  <2>10. CASE /\ blocks[i] = 0 /\ empty[i - 1] = 1 /\ i = 8
              /\ t = s \o <<Colon>> /\ empty[i] = 1
    BY <2>6, <2>10 DEF ZeroAt
  <2> QED
    BY <2>2, <2>5, <2>7, <2>8, <2>9, <2>10 DEF Printed, s, t, h
<1> QED
  BY <1>8, <1>9

-----------------------------------------------------------------------------
(* What is written is read back: along the blocks, where the scan is when   *)
(* it has reached the end of each.                                          *)

\* The first blocks of an address.
First(blocks, n) == [k \in 1..n |-> blocks[k]]

\* They are numbers, and each block adds itself to those before.
LEMMA FirstBlocks ==
  ASSUME NEW blocks \in Address
  PROVE  /\ \A n \in 0..8 : First(blocks, n) \in Seq(Nat) /\ Len(First(blocks, n)) = n
         /\ \A n \in 1..8 : /\ Append(First(blocks, n - 1), blocks[n]) = First(blocks, n)
                            /\ blocks[n] \in Nat /\ blocks[n] \in Block
<1>1. \A n \in 1..8 : blocks[n] \in Nat /\ blocks[n] \in Block
  BY DEF Address, Block
<1>2. ASSUME NEW n \in 0..8 PROVE First(blocks, n) \in Seq(Nat) /\ Len(First(blocks, n)) = n
  <2>1. \A k \in 1..n : blocks[k] \in Nat
    BY <1>1
  <2> QED
    BY <2>1 DEF First
<1>3. ASSUME NEW n \in 1..8 PROVE Append(First(blocks, n - 1), blocks[n]) = First(blocks, n)
  <2>1. n - 1 \in 0..8 /\ n \in 0..8
    OBVIOUS
  <2>2. /\ First(blocks, n - 1) \in Seq(Nat) /\ Len(First(blocks, n - 1)) = n - 1
        /\ First(blocks, n) \in Seq(Nat) /\ Len(First(blocks, n)) = n
    BY <1>2, <2>1
  <2> DEFINE s == First(blocks, n - 1)
             t == First(blocks, n)
  <2>3. \A k \in 1..n : t[k] = blocks[k]
    BY DEF First
  <2>4. \A k \in 1..(n - 1) : s[k] = blocks[k]
    BY DEF First
  <2>5. blocks[n] \in Nat
    BY <1>1
  <2> HIDE DEF s, t
  <2>6. Append(s, blocks[n]) \in Seq(Nat) /\ Len(Append(s, blocks[n])) = n
    BY <2>2, <2>5 DEF s
  <2>7. \A k \in 1..n : Append(s, blocks[n])[k] = t[k]
    <3> TAKE k \in 1..n
    <3>1. CASE k = n
      BY <2>2, <2>3, <2>5, <3>1 DEF s
    <3>2. CASE k # n
      <4>1. k \in 1..(n - 1) /\ k \in 1..Len(s)
        BY <2>2, <3>2 DEF s
      <4>2. Append(s, blocks[n])[k] = s[k]
        BY <2>2, <2>5, <4>1 DEF s
      <4> QED
        BY <2>3, <2>4, <4>1, <4>2
    <3> QED
      BY <3>1, <3>2
  <2>8. Append(s, blocks[n]) = t
    BY <2>2, <2>6, <2>7, SeqEqual DEF t
  <2> QED
    BY <2>8 DEF s, t
<1> QED
  BY <1>1, <1>2, <1>3

\* Zeros behind the first blocks are the blocks up to the next that is not 0.
LEMMA FirstThenZeros ==
  ASSUME NEW blocks \in Address, NEW m \in 0..8, NEW n \in 0..8, m <= n,
         \A k \in (m + 1)..n : blocks[k] = 0
  PROVE  First(blocks, m) \o Zeros(n - m) = First(blocks, n)
<1> DEFINE s == First(blocks, m)
           t == First(blocks, n)
           z == Zeros(n - m)
<1>1. s \in Seq(Nat) /\ Len(s) = m /\ t \in Seq(Nat) /\ Len(t) = n
  BY FirstBlocks
<1>2. z \in Seq(Nat) /\ Len(z) = n - m /\ \A k \in 1..(n - m) : z[k] = 0
  BY DEF Zeros
<1>3. (\A k \in 1..m : s[k] = blocks[k]) /\ (\A k \in 1..n : t[k] = blocks[k])
  BY DEF First
<1> HIDE DEF s, t, z
<1>4. s \o z \in Seq(Nat) /\ Len(s \o z) = n
  BY <1>1, <1>2
<1>5. \A k \in 1..n : (s \o z)[k] = t[k]
  <2> TAKE k \in 1..n
  <2>1. CASE k <= m
    <3>1. (s \o z)[k] = s[k] /\ k \in 1..m
      BY <1>1, <1>2, <2>1
    <3> QED
      BY <1>3, <3>1
  <2>2. CASE k > m
    <3>1. (s \o z)[k] = z[k - m] /\ k - m \in 1..(n - m) /\ k \in (m + 1)..n
      BY <1>1, <1>2, <2>2
    <3> QED
      BY <1>2, <1>3, <3>1
  <2>3. k <= m \/ k > m
    OBVIOUS
  <2> QED
    BY <2>1, <2>2, <2>3
<1>6. s \o z = t
  BY <1>1, <1>4, <1>5, SeqEqual
<1> QED
  BY <1>6 DEF s, t, z

\* Where the digits of a number begin.
Before(len, i) == len[i - 1] + (IF i > 1 THEN 1 ELSE 0)

\* The text of a number: its digits, and the one colon before it.
NumberFacts(text, len, blocks, i) ==
  LET k == Before(len, i) h == HexOf(blocks[i]) IN
  /\ k \in Nat /\ len[i - 1] \in Nat /\ len[i] \in Nat /\ len[i] <= Len(text) /\ Len(text) \in Nat
  /\ len[i] \in (k + 1)..(k + 4)
  /\ len[i] = k + Len(h)
  /\ \A j \in 1..Len(h) : text[k + j] = h[j]
  /\ \A j \in (k + 1)..len[i] : text[j] # Colon
  /\ i > 1 => text[len[i - 1] + 1] = Colon
  /\ Colons(text, len[i]) = Colons(text, len[i - 1]) + (IF i > 1 THEN 1 ELSE 0)

\* A block that is written has that text.
LEMMA NumberText ==
  ASSUME NEW text, NEW len, NEW empty, NEW blocks \in Address, NEW beyond, NEW i \in 1..8,
         Layout(text, len, empty, blocks, beyond),
         NumberAt(text, len, empty, blocks, beyond, i)
  PROVE  NumberFacts(text, len, blocks, i)
<1> DEFINE k == Before(len, i)
<1> DEFINE h == HexOf(blocks[i])
           q == len[i - 1]
<1>0. k = len[i - 1] + (IF i > 1 THEN 1 ELSE 0)
  BY DEF Before, k
<1>1. i - 1 \in 0..8 /\ i \in 0..8
  OBVIOUS
<1>2. q \in Nat /\ len[i] \in Nat /\ len[i] <= Len(text) /\ Len(text) \in Nat
  BY <1>1 DEF Layout, Texts
<1>3. /\ len[i] = k + Len(h) /\ \A j \in 1..Len(h) : text[k + j] = h[j]
      /\ i > 1 => text[q + 1] = Colon
  BY <1>0 DEF NumberAt
<1>4. h \in Seq(Digit) /\ Len(h) \in 1..4
  <2>1. blocks[i] \in Block
    BY DEF Address
  <2> QED
    BY <2>1, HexDigits
<1>5. k \in Nat
  BY <1>0, <1>2
<1> HIDE DEF h, q, k
<1>6. \A j \in (k + 1)..len[i] : text[j] # Colon
  <2> TAKE j \in (k + 1)..len[i]
  <2>1. j - k \in 1..Len(h) /\ k + (j - k) = j
    BY <1>2, <1>3, <1>4, <1>5
  <2>2. text[k + (j - k)] = h[j - k] /\ h[j - k] \in Digit
    BY <1>3, <1>4, <2>1
  <2>3. Colon \notin Digit
    BY DEF Digit, Colon
  <2> QED
    BY <2>1, <2>2, <2>3
<1>7. Colons(text, len[i]) = Colons(text, k)
  <2>1. k <= len[i]
    BY <1>3, <1>4, <1>5
  <2> QED
    BY <1>2, <1>5, <1>6, <2>1, ColonsAlong
<1>8. Colons(text, k) = Colons(text, q) + (IF i > 1 THEN 1 ELSE 0)
  <2>1. CASE i > 1
    <3>1. k = q + 1
      BY <1>0, <2>1 DEF q
    <3> QED
      BY <1>2, <1>3, <2>1, <3>1, ColonsStep
  <2>2. CASE ~(i > 1)
    <3>1. k = q
      BY <1>0, <1>2, <2>2 DEF q
    <3>2. Colons(text, q) \in Nat
      BY <1>2, ColonsCounted
    <3> QED
      BY <2>2, <3>1, <3>2
  <2> QED
    BY <2>1, <2>2
<1>9. len[i] \in (k + 1)..(k + 4)
  <2>1. \A m \in 1..4 : k + m \in (k + 1)..(k + 4)
    BY <1>5
  <2> QED
    BY <1>3, <1>4, <2>1
<1> QED
  BY <1>2, <1>3, <1>5, <1>6, <1>7, <1>8, <1>9 DEF h, q, k, NumberFacts

\* A number behind another one: its colon and its digits are read.
LEMMA NumberRead ==
  ASSUME NEW text, NEW len, NEW empty, NEW blocks \in Address, NEW beyond,
         Layout(text, len, empty, blocks, beyond), NEW i \in 2..8,
         NumberAt(text, len, empty, blocks, beyond, i),
         NEW st, Scanned(st, text), NEW zeros,
         Stands(st, len[i - 1], First(blocks, i - 2), blocks[i - 1], zeros)
  PROVE  Stands(st, len[i], First(blocks, i - 1), blocks[i], zeros)
<1> DEFINE h == HexOf(blocks[i])
           q == len[i - 1]
<1>0. i \in 1..8 /\ i > 1 /\ i - 1 \in 1..8 /\ i - 2 \in 0..8
  OBVIOUS
<1> DEFINE k == Before(len, i)
<1>6. k = q + 1
  BY <1>0 DEF Before
<1> HIDE DEF k
<1>7. /\ q \in Nat /\ len[i] \in Nat /\ len[i] <= Len(text) /\ Len(text) \in Nat
      /\ len[i] \in (k + 1)..(k + 4)
      /\ len[i] = k + Len(h)
      /\ \A j \in 1..Len(h) : text[k + j] = h[j]
      /\ \A j \in (k + 1)..len[i] : text[j] # Colon
      /\ text[q + 1] = Colon
  <2>1. NumberFacts(text, len, blocks, i)
    BY <1>0, NumberText
  <2> QED
    BY <1>0, <2>1 DEF NumberFacts, k
<1> HIDE DEF h, q
<1>1. /\ q + 1 \in Nat /\ q \in Nat /\ len[i] \in Nat /\ len[i] <= Len(text) /\ Len(text) \in Nat
      /\ len[i] \in (q + 1 + 1)..(q + 1 + 4)
      /\ len[i] = q + 1 + Len(h)
      /\ \A j \in 1..Len(h) : text[q + 1 + j] = h[j]
      /\ \A j \in (q + 1 + 1)..len[i] : text[j] # Colon
      /\ text[q + 1] = Colon
  BY <1>6, <1>7
<1>2. text \in Texts
  BY DEF Layout
<1>3. CharAt(text, q + 1 + 1) # Colon
  <2>1. q + 1 + 1 \in (q + 1 + 1)..len[i] /\ q + 1 + 1 \in Nat /\ q + 1 + 1 <= Len(text)
    BY <1>1
  <2> QED
    BY <1>1, <1>2, <2>1, CharAfter
<1>4. /\ First(blocks, i - 2) \in Seq(Nat) /\ Len(First(blocks, i - 2)) <= 6
      /\ blocks[i - 1] \in Nat /\ blocks[i] \in Block
      /\ Append(First(blocks, i - 2), blocks[i - 1]) = First(blocks, i - 1)
      /\ First(blocks, i - 1) \in Seq(Nat)
  <2>1. (i - 1) - 1 = i - 2 /\ i - 2 <= 6 /\ i - 1 \in 0..8
    OBVIOUS
  <2>2. First(blocks, i - 2) \in Seq(Nat) /\ Len(First(blocks, i - 2)) = i - 2 /\ First(blocks, i - 1) \in Seq(Nat)
    BY <1>0, <2>1, FirstBlocks
  <2>3. Append(First(blocks, (i - 1) - 1), blocks[i - 1]) = First(blocks, i - 1) /\ blocks[i - 1] \in Nat /\ blocks[i] \in Block
    BY <1>0, FirstBlocks
  <2> QED
    BY <2>1, <2>2, <2>3
<1>5. st[q + 1] = At(First(blocks, i - 1), 0, zeros)
  <2>1. q + 1 \in 1..Len(text) /\ (q + 1) - 1 = q
    BY <1>1
  <2>2. st[q + 1] = Ip6Char(text, st[q], q + 1)
    BY <2>1 DEF Scanned
  <2>3. st[q] = At(First(blocks, i - 2), blocks[i - 1], zeros)
    BY DEF q, Stands
  <2>4. Ip6Char(text, At(First(blocks, i - 2), blocks[i - 1], zeros), q + 1)
          = At(Append(First(blocks, i - 2), blocks[i - 1]), 0, zeros)
    BY <1>1, <1>2, <1>3, <1>4, ReadColon
  <2> QED
    BY <1>4, <2>2, <2>3, <2>4
<1>8. Stands(st, q + 1 + Len(h), First(blocks, i - 1), blocks[i], zeros)
  <2>1. Holds(text, q + 1, blocks[i])
    BY <1>1, <1>4 DEF Holds, h
  <2>2. Stands(st, q + 1, First(blocks, i - 1), 0, zeros)
    BY <1>5 DEF Stands
  <2> QED
    BY <1>2, <2>1, <2>2, ReadBlock DEF h
<1> QED
  BY <1>1, <1>8

\* Two colons meet.
Double(text, j) == text[j] = Colon /\ text[j + 1] = Colon

\* No two colons meet in a number and the colon before it.
LEMMA NumberSingle ==
  ASSUME NEW text, NEW len, NEW blocks, NEW i \in 1..8, NumberFacts(text, len, blocks, i),
         len[i - 1] >= 1 => text[len[i - 1]] # Colon
  PROVE  \A j \in 1..(len[i] - 1) : Double(text, j) => j \in 1..(len[i - 1] - 1)
<1> DEFINE q == len[i - 1]
           k == Before(len, i)
<1>1. /\ k \in Nat /\ q \in Nat /\ len[i] \in Nat /\ k + 1 <= len[i]
      /\ \A j \in (k + 1)..len[i] : text[j] # Colon
      /\ k = q \/ k = q + 1
  BY DEF NumberFacts, Before
<1>2. q >= 1 => text[q] # Colon
  OBVIOUS
<1> HIDE DEF q, k
<1> SUFFICES ASSUME NEW j \in 1..(len[i] - 1), Double(text, j) PROVE j \in 1..(q - 1)
  BY DEF q
<1>3. j \notin (k + 1)..len[i] /\ j + 1 \notin (k + 1)..len[i]
  BY <1>1 DEF Double
<1>4. j <= len[i] /\ j + 1 <= len[i] /\ j >= 1 /\ j \in Nat
  BY <1>1
<1>5. j < k /\ j <= q
  BY <1>1, <1>3, <1>4
<1>6. j # q
  BY <1>2, <1>4 DEF Double
<1> QED
  BY <1>1, <1>4, <1>5, <1>6

\* Before any zeros are left out.
PlainAt(text, len, empty, blocks, st, i) ==
  /\ empty[i] = 0
  /\ i = 0 => st[len[i]] = At(<<>>, 0, ZeroBlocks(text))
  /\ i > 0 => /\ st[len[i]] = At(First(blocks, i - 1), blocks[i], ZeroBlocks(text))
              /\ Colons(text, len[i]) = i - 1
              /\ len[i] >= 1 /\ len[i] <= 5 * i - 1 /\ text[len[i]] # Colon
  /\ \A j \in 1..(len[i] - 1) : ~Double(text, j)

\* No zeros are left out before the first block.
LEMMA PlainBegin ==
  ASSUME NEW text, NEW len, NEW empty, NEW blocks \in Address, NEW beyond,
         Layout(text, len, empty, blocks, beyond), NEW st, Scanned(st, text)
  PROVE  PlainAt(text, len, empty, blocks, st, 0)
<1>1. len[0] = 0 /\ empty[0] = 0
  BY DEF Layout
<1>2. st[0] = At(<<>>, 0, ZeroBlocks(text))
  BY DEF Scanned, ScanBegin, At
<1> QED
  BY <1>1, <1>2 DEF PlainAt

\* A block that is written is read, where no zeros were left out before it.
LEMMA PlainGoesOn ==
  ASSUME NEW text, NEW len, NEW empty, NEW blocks \in Address, NEW beyond,
         Layout(text, len, empty, blocks, beyond), NEW st, Scanned(st, text), NEW i \in 1..8,
         PlainAt(text, len, empty, blocks, st, i - 1), NumberAt(text, len, empty, blocks, beyond, i)
  PROVE  PlainAt(text, len, empty, blocks, st, i)
<1> DEFINE q == len[i - 1]
           z == ZeroBlocks(text)
<1>1. NumberFacts(text, len, blocks, i)
  BY NumberText
<1>2. /\ q \in Nat /\ len[i] \in Nat /\ len[i] >= Before(len, i) + 1 /\ len[i] <= Before(len, i) + 4
      /\ text[len[i]] # Colon /\ Before(len, i) \in Nat
      /\ Colons(text, len[i]) = Colons(text, q) + (IF i > 1 THEN 1 ELSE 0)
  BY <1>1 DEF NumberFacts
<1>3. empty[i] = 0
  BY DEF PlainAt, NumberAt
<1>4. len[0] = 0 /\ text \in Texts
  BY DEF Layout
<1>5. q >= 1 => text[q] # Colon
  BY <1>4 DEF PlainAt
<1>6. \A j \in 1..(len[i] - 1) : ~Double(text, j)
  BY <1>1, <1>5, NumberSingle DEF PlainAt
<1>7. CASE i = 1
  <2>1. q = 0 /\ Before(len, i) = 0 /\ st[0] = At(<<>>, 0, z)
    BY <1>4, <1>7 DEF Before, PlainAt
  <2>2. Colons(text, q) = 0
    BY <2>1, ColonsBegin
  <2>3. Colons(text, len[i]) = i - 1
    BY <1>2, <1>7, <2>2
  <2>4. st[0 + Len(HexOf(blocks[i]))] = At(<<>>, blocks[i], z)
    <3>1. blocks[i] \in Block
      BY FirstBlocks
    <3>2. Holds(text, 0, blocks[i])
      BY <1>1, <2>1, <3>1 DEF NumberFacts, Holds
    <3>3. Stands(st, 0, <<>>, 0, z)
      BY <2>1 DEF Stands
    <3>4. Stands(st, 0 + Len(HexOf(blocks[i])), <<>>, blocks[i], z)
      BY <1>4, <3>2, <3>3, ReadBlock
    <3> QED
      BY <3>4 DEF Stands
  <2>5. len[i] = 0 + Len(HexOf(blocks[i]))
    BY <1>1, <2>1 DEF NumberFacts
  <2>6. First(blocks, i - 1) = <<>>
    <3>1. i - 1 \in 0..8 /\ i - 1 = 0
      BY <1>7
    <3>2. First(blocks, i - 1) \in Seq(Nat) /\ Len(First(blocks, i - 1)) = 0
      BY <3>1, FirstBlocks
    <3> QED
      BY <3>2
  <2>7. st[len[i]] = At(First(blocks, i - 1), blocks[i], z)
    BY <2>4, <2>5, <2>6
  <2>8. len[i] >= 1 /\ len[i] <= 5 * i - 1 /\ i > 0
    BY <1>2, <1>7, <2>1
  <2> QED
    BY <1>2, <1>3, <1>6, <2>3, <2>7, <2>8 DEF PlainAt
<1>8. CASE i > 1
  <2>1. i - 1 > 0 /\ i \in 2..8 /\ (i - 1) - 1 = i - 2
    BY <1>8
  <2>2. /\ st[q] = At(First(blocks, i - 2), blocks[i - 1], z)
        /\ Colons(text, q) = i - 2
        /\ q >= 1 /\ q <= 5 * (i - 1) - 1
    BY <2>1 DEF PlainAt
  <2>3. st[len[i]] = At(First(blocks, i - 1), blocks[i], z)
    <3>1. Stands(st, len[i - 1], First(blocks, i - 2), blocks[i - 1], z)
      BY <2>2 DEF Stands
    <3>2. Stands(st, len[i], First(blocks, i - 1), blocks[i], z)
      BY <2>1, <3>1, NumberRead
    <3> QED
      BY <3>2 DEF Stands
  <2>4. Before(len, i) = q + 1
    BY <1>8 DEF Before
  <2>5. Colons(text, len[i]) = i - 1
    BY <1>2, <1>8, <2>2
  <2>6. len[i] >= 1 /\ len[i] <= 5 * i - 1 /\ i > 0
    BY <1>2, <1>8, <2>2, <2>4
  <2> QED
    BY <1>2, <1>3, <1>6, <2>3, <2>5, <2>6 DEF PlainAt
<1> QED
  BY <1>7, <1>8

\* Two colons where zeros are left out.
Gap(text, q) ==
  /\ q \in Nat /\ q + 2 <= Len(text) /\ Len(text) \in Nat
  /\ text[q + 1] = Colon /\ text[q + 2] = Colon /\ CharAt(text, q + 3) # Colon

\* All these blocks are 0.
ZeroFrom(blocks, a, b) == \A k \in a..b : blocks[k] = 0

\* Where the scan is before a gap that begins with block a, having found m blocks
\* with the next one.
Found(text, len, blocks, st, a, m, found, val) ==
  /\ Stands(st, len[a - 1], found, val, ZeroBlocks(text))
  /\ Append(found, val) = First(blocks, m) /\ Len(found) = m - 1
  /\ Colons(text, len[a - 1]) = m - 1
  /\ m <= a /\ a <= m + 1 /\ (a = m => blocks[m] = 0)

\* Where the gap begins: the blocks before it are those found, but that a gap
\* at the beginning counts for the first block.
LEMMA BeforeGap ==
  ASSUME NEW text, NEW len, NEW empty, NEW blocks \in Address, NEW st, NEW a \in 1..7,
         PlainAt(text, len, empty, blocks, st, a - 1), blocks[a] = 0, len[0] = 0
  PROVE  \E m \in 1..7, found \in Seq(Nat), val \in Nat :
           Found(text, len, blocks, st, a, m, found, val)
<1>1. CASE a = 1
  <2>1. a - 1 = 0
    BY <1>1
  <2>2. Stands(st, len[a - 1], <<>>, 0, ZeroBlocks(text)) /\ Colons(text, len[a - 1]) = 0
    BY <2>1, ColonsBegin DEF PlainAt, Stands
  <2>3. Append(<<>>, 0) = First(blocks, 1)
    <3>1. Append(First(blocks, 1 - 1), blocks[1]) = First(blocks, 1)
      BY FirstBlocks
    <3>2. 0 \in 0..8 /\ First(blocks, 0) \in Seq(Nat) /\ Len(First(blocks, 0)) = 0
      BY FirstBlocks
    <3>3. First(blocks, 1 - 1) = <<>> /\ blocks[1] = 0
      BY <1>1, <3>2
    <3> QED
      BY <3>1, <3>3
  <2>4. <<>> \in Seq(Nat) /\ 0 \in Nat /\ 1 \in 1..7 /\ Len(<<>>) = 1 - 1 /\ 1 <= a /\ a <= 1 + 1 /\ blocks[1] = 0 /\ 0 = 1 - 1
    BY <1>1
  <2>5. Found(text, len, blocks, st, a, 1, <<>>, 0)
    BY <2>2, <2>3, <2>4 DEF Found
  <2> QED
    BY <2>4, <2>5
<1>2. CASE a > 1
  <2>1. a - 1 > 0 /\ a - 1 \in 1..7 /\ a - 1 \in 1..8 /\ (a - 1) - 1 = a - 2 /\ a - 2 \in 0..8
    BY <1>2
  <2>2. /\ st[len[a - 1]] = At(First(blocks, (a - 1) - 1), blocks[a - 1], ZeroBlocks(text))
        /\ Colons(text, len[a - 1]) = (a - 1) - 1
    BY <2>1 DEF PlainAt
  <2>3. /\ First(blocks, a - 2) \in Seq(Nat) /\ Len(First(blocks, a - 2)) = a - 2
        /\ blocks[a - 1] \in Nat
        /\ Append(First(blocks, (a - 1) - 1), blocks[a - 1]) = First(blocks, a - 1)
    BY <2>1, FirstBlocks
  <2> DEFINE m == a - 1
             found == First(blocks, a - 2)
             val == blocks[a - 1]
  <2>4. Stands(st, len[a - 1], found, val, ZeroBlocks(text))
    BY <2>1, <2>2 DEF Stands
  <2>5. /\ m \in 1..7 /\ found \in Seq(Nat) /\ val \in Nat
        /\ Append(found, val) = First(blocks, m) /\ Len(found) = m - 1
        /\ Colons(text, len[a - 1]) = m - 1
        /\ m <= a /\ a <= m + 1 /\ (a = m => blocks[m] = 0)
    BY <2>1, <2>2, <2>3
  <2> HIDE DEF m, found, val
  <2>6. Found(text, len, blocks, st, a, m, found, val)
    BY <2>4, <2>5 DEF Found
  <2> QED
    BY <2>5, <2>6
<1> QED
  BY <1>1, <1>2

\* A gap is read as the zeros that were left out.
LEMMA GapRead ==
  ASSUME NEW text \in Texts, NEW len, NEW empty, NEW blocks \in Address, NEW st, Scanned(st, text),
         NEW a \in 1..7, NEW i \in (a + 1)..8, len[0] = 0,
         PlainAt(text, len, empty, blocks, st, a - 1), ZeroFrom(blocks, a, i - 1),
         Gap(text, len[a - 1]), ZeroBlocks(text) = i - Colons(text, len[a - 1] + 2)
  PROVE  Stands(st, len[a - 1] + 2, First(blocks, i - 1), 0, 0)
<1> DEFINE q == len[a - 1]
           z == ZeroBlocks(text)
<1>1. a \in a..(i - 1) /\ i \in Nat /\ a \in Nat
  OBVIOUS
<1>2. blocks[a] = 0
  BY <1>1 DEF ZeroFrom
<1>14. PICK m \in 1..7, found \in Seq(Nat), val \in Nat :
         Found(text, len, blocks, st, a, m, found, val)
  BY <1>2, BeforeGap
<1>3. /\ Stands(st, q, found, val, z)
      /\ Append(found, val) = First(blocks, m) /\ Len(found) = m - 1
      /\ Colons(text, q) = m - 1
      /\ m <= a /\ a <= m + 1 /\ (a = m => blocks[m] = 0)
  BY <1>14 DEF Found
<1>4. /\ q \in Nat /\ q + 2 <= Len(text) /\ Len(text) \in Nat
      /\ text[q + 1] = Colon /\ text[q + 2] = Colon /\ CharAt(text, q + 3) # Colon
  BY DEF Gap
<1>5. z = i - Colons(text, q + 2)
  OBVIOUS
<1> HIDE DEF q, z
<1>6. Colons(text, q + 2) = m + 1
  <2>1. q + 1 \in Nat /\ (q + 1) + 1 = q + 2
    BY <1>4
  <2>2. Colons(text, q + 1) = Colons(text, q) + 1
    BY <1>4, ColonsStep
  <2>3. Colons(text, (q + 1) + 1) = Colons(text, q + 1) + 1
    BY <1>4, <2>1, ColonsStep
  <2> QED
    BY <1>3, <2>1, <2>2, <2>3
<1>7. z = (i - 1) - m /\ z \in Nat /\ Len(found) + z <= 6
  BY <1>1, <1>3, <1>5, <1>6
<1>8. First(blocks, m) \o Zeros(z) = First(blocks, i - 1)
  <2>1. \A k \in (m + 1)..(i - 1) : blocks[k] = 0
    BY <1>1, <1>3 DEF ZeroFrom
  <2>2. m \in 0..8 /\ i - 1 \in 0..8 /\ m <= i - 1
    BY <1>1, <1>3
  <2>3. First(blocks, m) \o Zeros((i - 1) - m) = First(blocks, i - 1)
    BY <2>1, <2>2, FirstThenZeros
  <2> QED
    BY <1>7, <2>3
<1>9. st[q + 1] = Ip6Char(text, st[q], q + 1) /\ st[(q + 1) + 1] = Ip6Char(text, st[q + 1], (q + 1) + 1)
  <2>1. \A j \in 1..Len(text), k \in Nat : k = j - 1 => st[j] = Ip6Char(text, st[k], j)
    BY DEF Scanned
  <2>2. q + 1 \in 1..Len(text) /\ (q + 1) + 1 \in 1..Len(text) /\ q = (q + 1) - 1 /\ q + 1 = ((q + 1) + 1) - 1 /\ q + 1 \in Nat
    BY <1>4
  <2> QED
    BY <1>4, <2>1, <2>2
<1>10. st[q] = At(found, val, z)
  BY <1>3 DEF Stands
<1>11. CharAt(text, (q + 1) + 1) = Colon /\ CharAt(text, (q + 1) + 2) # Colon
  <2>1. (q + 1) + 1 \in Nat /\ (q + 1) + 1 <= Len(text) /\ (q + 1) + 1 = q + 2 /\ (q + 1) + 2 = q + 3
    BY <1>4
  <2>2. CharAt(text, (q + 1) + 1) = text[(q + 1) + 1]
    BY <2>1, CharAfter
  <2> QED
    BY <1>4, <2>1, <2>2
<1>12. st[(q + 1) + 1] = At(Append(found, val) \o Zeros(z), 0, 0)
  <2>1. PICK p \in Nat : p = q + 1
    BY <1>4
  <2>3. text[p] = Colon /\ CharAt(text, p + 1) = Colon /\ CharAt(text, p + 2) # Colon
    BY <1>4, <1>11, <2>1
  <2>4. z \in Nat /\ Len(found) + z <= 6
    BY <1>7
  <2>5. Ip6Char(text, Ip6Char(text, At(found, val, z), p), p + 1) = At(Append(found, val) \o Zeros(z), 0, 0)
    BY <2>3, <2>4, ReadColons
  <2>2. Ip6Char(text, Ip6Char(text, At(found, val, z), q + 1), (q + 1) + 1) = At(Append(found, val) \o Zeros(z), 0, 0)
    BY <2>1, <2>5
  <2> QED
    BY <1>9, <1>10, <2>2
<1>13. (q + 1) + 1 = q + 2
  BY <1>4
<1> QED
  BY <1>3, <1>8, <1>12, <1>13 DEF Stands, q

\* Within the zeros that are left out: they began with block a.
Gapped(text, len, empty, blocks, beyond, st, a, i) ==
  /\ PlainAt(text, len, empty, blocks, st, a - 1)
  /\ empty[i] = 1 /\ ZeroFrom(blocks, a, i)
  /\ text[len[a - 1] + 1] = Colon
  /\ len[i] = len[a - 1] + (IF i = 8 /\ a < 8 THEN 2 ELSE 1)
  /\ i = 8 /\ a < 8 => text[len[a - 1] + 2] = Colon
  /\ a = 8 => beyond = 0

\* The colons of a text meet in one place at most.
OneDouble(text, n) == \E p \in Nat : \A j \in 1..(n - 1) : Double(text, j) => j = p

\* Behind the zeros that were left out.  How many a gap stands for depends on
\* the colons of the whole text.
GapBehind(text, len, empty, blocks, st, i) ==
  /\ empty[i] = 2 /\ i > 1
  /\ ZeroBlocks(text) = i - Colons(text, len[i])
       => Stands(st, len[i], First(blocks, i - 1), blocks[i], 0)
  /\ len[i] >= 1 /\ len[i] <= 5 * i - 1 /\ text[len[i]] # Colon
  /\ OneDouble(text, len[i])

\* A colon begins the gap.
LEMMA GapOpens ==
  ASSUME NEW text, NEW len, NEW empty, NEW blocks, NEW beyond, NEW st, NEW i \in 1..8,
         PlainAt(text, len, empty, blocks, st, i - 1), ZeroAt(text, len, empty, blocks, beyond, i),
         Layout(text, len, empty, blocks, beyond)
  PROVE  Gapped(text, len, empty, blocks, beyond, st, i, i)
<1>1. empty[i - 1] = 0
  BY DEF PlainAt
<1>2. /\ blocks[i] = 0 /\ empty[i] = 1 /\ Next(blocks, beyond, i) = 0
      /\ len[i] = len[i - 1] + 1 /\ text[len[i]] = Colon
  BY <1>1 DEF ZeroAt
<1>3. ZeroFrom(blocks, i, i)
  BY <1>2 DEF ZeroFrom
<1>4. i = 8 => beyond = 0
  BY <1>2 DEF Next
<1> QED
  BY <1>2, <1>3, <1>4 DEF Gapped

\* Further zeros leave the text as it is, but that the last block ends it with
\* another colon.
LEMMA GapGrows ==
  ASSUME NEW text, NEW len, NEW empty, NEW blocks, NEW beyond, NEW st, NEW i \in 2..8,
         NEW a \in 1..(i - 1),
         Gapped(text, len, empty, blocks, beyond, st, a, i - 1),
         ZeroAt(text, len, empty, blocks, beyond, i),
         Layout(text, len, empty, blocks, beyond)
  PROVE  Gapped(text, len, empty, blocks, beyond, st, a, i)
<1> DEFINE q == len[a - 1]
<1>1. a < 8 /\ i - 1 # 8 /\ a - 1 \in 0..8
  OBVIOUS
<1>2. /\ empty[i - 1] = 1 /\ ZeroFrom(blocks, a, i - 1) /\ len[i - 1] = q + 1 /\ text[q + 1] = Colon
      /\ PlainAt(text, len, empty, blocks, st, a - 1)
  BY <1>1 DEF Gapped
<1>3. /\ blocks[i] = 0 /\ empty[i] = 1
      /\ \/ i < 8 /\ len[i] = len[i - 1]
         \/ i = 8 /\ len[i] = len[i - 1] + 1 /\ text[len[i]] = Colon
  BY <1>2 DEF ZeroAt
<1>4. ZeroFrom(blocks, a, i)
  <2>1. \A k \in a..i : k \in a..(i - 1) \/ k = i
    OBVIOUS
  <2> QED
    BY <1>2, <1>3, <2>1 DEF ZeroFrom
<1>5. q \in Nat
  BY <1>1 DEF Layout
<1> HIDE DEF q
<1>6. len[i] = q + (IF i = 8 /\ a < 8 THEN 2 ELSE 1) /\ (i = 8 /\ a < 8 => text[q + 2] = Colon)
  BY <1>1, <1>2, <1>3, <1>5
<1> QED
  BY <1>1, <1>2, <1>3, <1>4, <1>6 DEF Gapped, q

\* No colon is at any of these positions.
NoColon(text, m, n) == \A j \in m..n : text[j] # Colon

\* Only the colons of the gap meet, in a text where none met before it.
LEMMA GapDouble ==
  ASSUME NEW text, NEW len, NEW empty, NEW blocks, NEW beyond, NEW st, NEW a \in 1..8,
         PlainAt(text, len, empty, blocks, st, a - 1), Layout(text, len, empty, blocks, beyond),
         NEW n \in Nat, NoColon(text, len[a - 1] + 3, n)
  PROVE  OneDouble(text, n)
<1> DEFINE q == len[a - 1]
<1>1. a - 1 \in 0..8
  OBVIOUS
<1>2. q \in Nat /\ len[0] = 0
  BY <1>1 DEF Layout
<1>3. (\A j \in 1..(q - 1) : ~Double(text, j)) /\ (a - 1 > 0 => text[q] # Colon)
  BY DEF PlainAt
<1>4. q > 0 => a - 1 > 0
  BY <1>2
<1>6. \A j \in (q + 3)..n : text[j] # Colon
  BY DEF NoColon
<1> HIDE DEF q
<1>5. ASSUME NEW j \in 1..(n - 1), Double(text, j) PROVE j = q + 1
  <2>1. j \in Nat /\ j >= 1 /\ j + 1 <= n /\ text[j] = Colon /\ text[j + 1] = Colon
    BY <1>5 DEF Double
  <2>2. j + 1 \notin (q + 3)..n
    BY <1>6, <2>1
  <2>3. j <= q + 1
    BY <1>2, <2>1, <2>2
  <2>4. j # q
    BY <1>3, <1>4, <2>1
  <2>5. j \notin 1..(q - 1)
    BY <1>3, <1>5
  <2> QED
    BY <1>2, <2>1, <2>3, <2>4, <2>5
<1>7. q + 1 \in Nat
  BY <1>2
<1> QED
  BY <1>5, <1>7 DEF OneDouble

\* A number ends the gap.
LEMMA GapCloses ==
  ASSUME NEW text, NEW len, NEW empty, NEW blocks \in Address, NEW beyond, NEW st, NEW i \in 2..8,
         NEW a \in 1..(i - 1),
         Gapped(text, len, empty, blocks, beyond, st, a, i - 1),
         NumberAt(text, len, empty, blocks, beyond, i),
         Layout(text, len, empty, blocks, beyond), Scanned(st, text)
  PROVE  GapBehind(text, len, empty, blocks, st, i)
<1> DEFINE q == len[a - 1]
<1>1. /\ a < 8 /\ i - 1 # 8 /\ a - 1 \in 0..8 /\ i \in 1..8 /\ i > 1 /\ a \in 1..7 /\ a \in 1..8
      /\ i \in (a + 1)..8 /\ i >= a + 1
  OBVIOUS
<1>2. /\ empty[i - 1] = 1 /\ ZeroFrom(blocks, a, i - 1) /\ len[i - 1] = q + 1 /\ text[q + 1] = Colon
      /\ PlainAt(text, len, empty, blocks, st, a - 1)
  BY <1>1 DEF Gapped
<1>3. q \in Nat /\ text \in Texts /\ len[0] = 0
  BY <1>1 DEF Layout
<1>4. NumberFacts(text, len, blocks, i)
  BY <1>1, NumberText
<1>5. Before(len, i) = q + 2
  BY <1>1, <1>2, <1>3 DEF Before
<1>6. /\ len[i] \in Nat /\ len[i] <= Len(text) /\ Len(text) \in Nat
      /\ len[i] \in (q + 2 + 1)..(q + 2 + 4)
      /\ len[i] = q + 2 + Len(HexOf(blocks[i]))
      /\ \A j \in 1..Len(HexOf(blocks[i])) : text[q + 2 + j] = HexOf(blocks[i])[j]
      /\ \A j \in (q + 2 + 1)..len[i] : text[j] # Colon
      /\ text[(q + 1) + 1] = Colon
  BY <1>1, <1>2, <1>4, <1>5 DEF NumberFacts
<1>7. q <= 5 * (a - 1)
  <2>1. CASE a = 1
    BY <1>3, <2>1
  <2>2. CASE a > 1
    <3>1. a - 1 > 0
      BY <2>2
    <3>2. q <= 5 * (a - 1) - 1
      BY <1>2, <3>1 DEF PlainAt
    <3> QED
      BY <1>3, <3>2
  <2> QED
    BY <2>1, <2>2
<1> HIDE DEF q
<1>8. len[i] >= 1 /\ len[i] <= 5 * i - 1 /\ text[len[i]] # Colon
  <2>1. len[i] <= q + 6 /\ len[i] >= q + 3 /\ len[i] \in (q + 2 + 1)..len[i]
    BY <1>3, <1>6
  <2> QED
    BY <1>1, <1>3, <1>6, <1>7, <2>1
<1>9. OneDouble(text, len[i])
  <2>1. NoColon(text, q + 3, len[i])
    <3>1. q + 2 + 1 = q + 3
      BY <1>3
    <3> QED
      BY <1>6, <3>1 DEF NoColon
  <2>2. NoColon(text, len[a - 1] + 3, len[i])
    BY <2>1 DEF q
  <2>3. a \in 1..8 /\ len[i] \in Nat /\ PlainAt(text, len, empty, blocks, st, a - 1)
    BY <1>1, <1>2, <1>6
  <2> QED
    BY <2>2, <2>3, GapDouble
<1>10. empty[i] = 2
  BY <1>2 DEF NumberAt
<1>11. ASSUME ZeroBlocks(text) = i - Colons(text, len[i])
       PROVE  Stands(st, len[i], First(blocks, i - 1), blocks[i], 0)
  <2>1. Gap(text, q)
    <3>1. q + 3 \in Nat /\ q + 3 <= Len(text) /\ q + 3 \in (q + 2 + 1)..len[i] /\ (q + 1) + 1 = q + 2
      BY <1>3, <1>6
    <3>2. CharAt(text, q + 3) # Colon
      BY <1>3, <1>6, <3>1, CharAfter
    <3>3. q + 2 <= Len(text)
      BY <1>3, <1>6
    <3> QED
      BY <1>2, <1>3, <1>6, <3>1, <3>2, <3>3 DEF Gap
  <2>2. Colons(text, len[i]) = Colons(text, q + 2)
    <3>1. q + 2 \in Nat /\ q + 2 <= len[i]
      BY <1>3, <1>6
    <3> QED
      BY <1>6, <3>1, ColonsAlong
  <2>3. Stands(st, q + 2, First(blocks, i - 1), 0, 0)
    <3>1. ZeroBlocks(text) = i - Colons(text, q + 2)
      BY <1>11, <2>2
    <3>2. /\ PlainAt(text, len, empty, blocks, st, a - 1) /\ ZeroFrom(blocks, a, i - 1)
          /\ Gap(text, len[a - 1]) /\ ZeroBlocks(text) = i - Colons(text, len[a - 1] + 2)
      BY <1>2, <2>1, <3>1 DEF q
    <3>3. a \in 1..7 /\ i \in (a + 1)..8 /\ text \in Texts /\ len[0] = 0
      BY <1>1, <1>3
    <3>4. Stands(st, len[a - 1] + 2, First(blocks, i - 1), 0, 0)
      BY <3>2, <3>3, GapRead
    <3> QED
      BY <3>4 DEF q
  <2>4. Holds(text, q + 2, blocks[i])
    <3>1. q + 2 \in Nat
      BY <1>3
    <3>2. blocks[i] \in Block
      BY <1>1 DEF Address
    <3> QED
      BY <1>6, <3>1, <3>2 DEF Holds
  <2>5. Stands(st, q + 2 + Len(HexOf(blocks[i])), First(blocks, i - 1), blocks[i], 0)
    BY <1>3, <2>3, <2>4, ReadBlock
  <2> QED
    BY <1>6, <2>5
<1> QED
  BY <1>1, <1>8, <1>9, <1>10, <1>11 DEF GapBehind

\* Every block behind the gap is a number.
LEMMA BehindGoesOn ==
  ASSUME NEW text, NEW len, NEW empty, NEW blocks \in Address, NEW beyond, NEW st, NEW i \in 2..8,
         GapBehind(text, len, empty, blocks, st, i - 1),
         NumberAt(text, len, empty, blocks, beyond, i),
         Layout(text, len, empty, blocks, beyond), Scanned(st, text)
  PROVE  GapBehind(text, len, empty, blocks, st, i)
<1> DEFINE q == len[i - 1]
<1>1. i \in 1..8 /\ i > 1 /\ (i - 1) - 1 = i - 2 /\ i \in Nat
  OBVIOUS
<1>2. /\ empty[i - 1] = 2
      /\ ZeroBlocks(text) = (i - 1) - Colons(text, q)
           => Stands(st, q, First(blocks, i - 2), blocks[i - 1], 0)
      /\ q >= 1 /\ q <= 5 * (i - 1) - 1 /\ text[q] # Colon /\ OneDouble(text, q)
  BY <1>1 DEF GapBehind
<1>3. NumberFacts(text, len, blocks, i)
  BY <1>1, NumberText
<1>4. /\ q \in Nat /\ len[i] \in Nat
      /\ len[i] \in (q + 1 + 1)..(q + 1 + 4)
      /\ \A j \in (q + 1 + 1)..len[i] : text[j] # Colon
      /\ Colons(text, len[i]) = Colons(text, q) + 1
  BY <1>1, <1>3 DEF NumberFacts, Before
<1>5. \A j \in 1..(len[i] - 1) : Double(text, j) => j \in 1..(q - 1)
  BY <1>1, <1>2, <1>3, NumberSingle
<1>6. empty[i] = 2
  BY <1>2 DEF NumberAt
<1>7. ASSUME ZeroBlocks(text) = i - Colons(text, len[i])
      PROVE  Stands(st, len[i], First(blocks, i - 1), blocks[i], 0)
  <2>1. Colons(text, q) \in Nat
    BY <1>4, ColonsCounted
  <2>2. ZeroBlocks(text) = (i - 1) - Colons(text, q)
    BY <1>1, <1>4, <1>7, <2>1
  <2>3. Stands(st, len[i - 1], First(blocks, i - 2), blocks[i - 1], 0)
    BY <1>2, <2>2
  <2> QED
    BY <2>3, NumberRead
<1> HIDE DEF q
<1>8. len[i] >= 1 /\ len[i] <= 5 * i - 1 /\ text[len[i]] # Colon
  BY <1>1, <1>2, <1>4
<1>9. OneDouble(text, len[i])
  BY <1>2, <1>5 DEF OneDouble
<1> QED
  BY <1>1, <1>6, <1>7, <1>8, <1>9 DEF GapBehind

\* What the whole text is, and where the scan of it ends.
ReadBack(st, text, blocks, beyond) ==
  /\ text \in Texts /\ Len(text) \in Nat /\ Len(text) >= 1 /\ Len(text) <= 39
  /\ \E z \in Int : Stands(st, Len(text), First(blocks, 7), blocks[8], z)
  /\ OneDouble(text, Len(text))
  /\ text[Len(text)] = Colon =>
       \/ Len(text) > 1 /\ Double(text, Len(text) - 1)
       \/ beyond = 0 /\ blocks[8] = 0

\* Where the conversion is after each block.
Stage(text, len, empty, blocks, beyond, st, i) ==
  \/ PlainAt(text, len, empty, blocks, st, i)
  \/ \E a \in 1..i : Gapped(text, len, empty, blocks, beyond, st, a, i)
  \/ GapBehind(text, len, empty, blocks, st, i)

\* Every block leads from a stage to a stage.
LEMMA StageGoesOn ==
  ASSUME NEW text, NEW len, NEW empty, NEW blocks \in Address, NEW beyond, NEW st, NEW i \in 1..8,
         Layout(text, len, empty, blocks, beyond), Scanned(st, text),
         \/ NumberAt(text, len, empty, blocks, beyond, i)
         \/ ZeroAt(text, len, empty, blocks, beyond, i),
         Stage(text, len, empty, blocks, beyond, st, i - 1)
  PROVE  Stage(text, len, empty, blocks, beyond, st, i)
<1>1. CASE PlainAt(text, len, empty, blocks, st, i - 1)
  <2>1. CASE NumberAt(text, len, empty, blocks, beyond, i)
    BY <1>1, <2>1, PlainGoesOn DEF Stage
  <2>2. CASE ZeroAt(text, len, empty, blocks, beyond, i)
    <3>1. Gapped(text, len, empty, blocks, beyond, st, i, i)
      BY <1>1, <2>2, GapOpens
    <3>2. i \in 1..i
      OBVIOUS
    <3> QED
      BY <3>1, <3>2 DEF Stage
  <2> QED
    BY <2>1, <2>2
<1>2. CASE \E a \in 1..(i - 1) : Gapped(text, len, empty, blocks, beyond, st, a, i - 1)
  <2>1. PICK a \in 1..(i - 1) : Gapped(text, len, empty, blocks, beyond, st, a, i - 1)
    BY <1>2
  <2>2. i \in 2..8 /\ a \in 1..i
    OBVIOUS
  <2>3. CASE NumberAt(text, len, empty, blocks, beyond, i)
    <3>1. GapBehind(text, len, empty, blocks, st, i)
      BY <2>1, <2>2, <2>3, GapCloses
    <3> QED
      BY <3>1 DEF Stage
  <2>4. CASE ZeroAt(text, len, empty, blocks, beyond, i)
    <3>1. Gapped(text, len, empty, blocks, beyond, st, a, i)
      BY <2>1, <2>2, <2>4, GapGrows
    <3> QED
      BY <2>2, <3>1 DEF Stage
  <2> QED
    BY <2>3, <2>4
<1>3. CASE GapBehind(text, len, empty, blocks, st, i - 1)
  <2>1. empty[i - 1] = 2 /\ i \in 2..8
    BY <1>3 DEF GapBehind
  <2>2. ~ZeroAt(text, len, empty, blocks, beyond, i)
    BY <2>1 DEF ZeroAt
  <2>3. NumberAt(text, len, empty, blocks, beyond, i)
    BY <2>2
  <2> QED
    BY <1>3, <2>1, <2>3, BehindGoesOn DEF Stage
<1> QED
  BY <1>1, <1>2, <1>3 DEF Stage

\* No zero was left out, or the gap is not at the end.
LEMMA EndsInNumber ==
  ASSUME NEW text, NEW len, NEW empty, NEW blocks \in Address, NEW beyond, NEW st,
         Layout(text, len, empty, blocks, beyond),
         \/ PlainAt(text, len, empty, blocks, st, 8)
         \/ GapBehind(text, len, empty, blocks, st, 8)
  PROVE  ReadBack(st, text, blocks, beyond)
<1>1. len[8] = Len(text) /\ text \in Texts /\ Len(text) \in Nat /\ 8 > 0 /\ 8 - 1 = 7
  BY DEF Layout, Texts
<1>2. ZeroBlocks(text) = 8 - Colons(text, Len(text)) /\ ZeroBlocks(text) \in Int
  BY <1>1, ZerosOf
<1>3. CASE PlainAt(text, len, empty, blocks, st, 8)
  <2>1. /\ st[Len(text)] = At(First(blocks, 7), blocks[8], ZeroBlocks(text))
        /\ Len(text) >= 1 /\ Len(text) <= 39 /\ text[Len(text)] # Colon
        /\ \A j \in 1..(Len(text) - 1) : ~Double(text, j)
    BY <1>1, <1>3 DEF PlainAt
  <2>2. OneDouble(text, Len(text))
    BY <2>1 DEF OneDouble
  <2> QED
    BY <1>1, <1>2, <2>1, <2>2 DEF ReadBack, Stands
<1>4. CASE GapBehind(text, len, empty, blocks, st, 8)
  <2>1. /\ Stands(st, Len(text), First(blocks, 7), blocks[8], 0)
        /\ Len(text) >= 1 /\ Len(text) <= 39 /\ text[Len(text)] # Colon
        /\ OneDouble(text, Len(text))
    BY <1>1, <1>2, <1>4 DEF GapBehind
  <2> QED
    BY <1>1, <2>1 DEF ReadBack
<1> QED
  BY <1>3, <1>4

\* The zeros at the end were left out.
LEMMA EndsInGap ==
  ASSUME NEW text, NEW len, NEW empty, NEW blocks \in Address, NEW beyond, NEW st,
         Layout(text, len, empty, blocks, beyond), Scanned(st, text), NEW a \in 1..8,
         Gapped(text, len, empty, blocks, beyond, st, a, 8)
  PROVE  ReadBack(st, text, blocks, beyond)
<1> DEFINE q == len[a - 1]
<1>0. a - 1 \in 0..8
  OBVIOUS
<1>1. /\ len[8] = Len(text) /\ text \in Texts /\ Len(text) \in Nat /\ q \in Nat /\ len[0] = 0
  BY <1>0 DEF Layout, Texts
<1>2. ZeroBlocks(text) = 8 - Colons(text, Len(text)) /\ ZeroBlocks(text) \in Int
  BY <1>1, ZerosOf
<1>3. /\ PlainAt(text, len, empty, blocks, st, a - 1)
      /\ ZeroFrom(blocks, a, 8)
      /\ text[q + 1] = Colon
      /\ Len(text) = q + (IF a < 8 THEN 2 ELSE 1)
      /\ a < 8 => text[q + 2] = Colon
      /\ a = 8 => beyond = 0
  BY <1>1 DEF Gapped
<1>4. blocks[8] = 0
  BY <1>3 DEF ZeroFrom
<1>5. OneDouble(text, Len(text))
  <2>1. NoColon(text, q + 3, Len(text))
    <3>1. Len(text) < q + 3
      BY <1>1, <1>3
    <3> QED
      BY <1>1, <3>1 DEF NoColon
  <2>2. NoColon(text, len[a - 1] + 3, Len(text))
    BY <2>1
  <2>3. PlainAt(text, len, empty, blocks, st, a - 1) /\ Len(text) \in Nat
    BY <1>1, <1>3
  <2> QED
    BY <2>2, <2>3, GapDouble
<1>6. q <= 34
  <2>1. CASE a = 1
    BY <1>1, <2>1
  <2>2. CASE a > 1
    <3>1. a - 1 > 0
      BY <2>2
    <3>2. q <= 5 * (a - 1) - 1
      BY <1>3, <3>1 DEF PlainAt
    <3> QED
      BY <1>1, <3>2
  <2> QED
    BY <2>1, <2>2
<1>7. Len(text) >= 1 /\ Len(text) <= 39
  BY <1>1, <1>3, <1>6
<1>8. CASE a < 8
  <2>1. Len(text) = q + 2 /\ text[q + 2] = Colon /\ q + 2 <= Len(text)
    BY <1>1, <1>3, <1>8
  <2>2. CharAt(text, q + 3) # Colon
    <3>1. q + 3 \in Nat /\ q + 3 > Len(text)
      BY <1>1, <2>1
    <3> QED
      BY <1>1, <3>1, CharAfter
  <2>3. Gap(text, len[a - 1])
    BY <1>1, <1>3, <2>1, <2>2 DEF Gap
  <2>4. ZeroFrom(blocks, a, 8 - 1)
    <3>1. \A k \in a..(8 - 1) : k \in a..8
      OBVIOUS
    <3> QED
      BY <1>3, <3>1 DEF ZeroFrom
  <2>5. ZeroBlocks(text) = 8 - Colons(text, len[a - 1] + 2)
    BY <1>2, <2>1
  <2>6. a \in 1..7 /\ 8 \in (a + 1)..8
    BY <1>8
  <2>7. PlainAt(text, len, empty, blocks, st, a - 1) /\ text \in Texts /\ len[0] = 0
    BY <1>1, <1>3
  <2>8. Stands(st, len[a - 1] + 2, First(blocks, 8 - 1), 0, 0)
    BY <2>3, <2>4, <2>5, <2>6, <2>7, GapRead
  <2>9. Stands(st, Len(text), First(blocks, 7), blocks[8], 0)
    <3>1. 8 - 1 = 7
      OBVIOUS
    <3> QED
      BY <1>4, <2>1, <2>8, <3>1
  <2>10. Len(text) > 1 /\ Double(text, Len(text) - 1)
    <3>1. Len(text) - 1 = q + 1 /\ (Len(text) - 1) + 1 = q + 2 /\ Len(text) > 1
      BY <1>1, <2>1
    <3> QED
      BY <1>3, <2>1, <3>1 DEF Double
  <2> QED
    BY <1>1, <1>5, <1>7, <2>9, <2>10 DEF ReadBack
<1>9. CASE a = 8
  <2>1. Len(text) = q + 1 /\ beyond = 0 /\ a - 1 = 7 /\ 7 > 0 /\ 7 - 1 = 6
    BY <1>1, <1>3, <1>9
  <2>2. st[q] = At(First(blocks, 6), blocks[7], ZeroBlocks(text))
    BY <1>3, <2>1 DEF PlainAt
  <2>3. /\ First(blocks, 6) \in Seq(Nat) /\ Len(First(blocks, 6)) <= 6 /\ blocks[7] \in Nat
        /\ Append(First(blocks, 6), blocks[7]) = First(blocks, 7)
    <3>1. First(blocks, 6) \in Seq(Nat) /\ Len(First(blocks, 6)) = 6
      BY FirstBlocks
    <3>2. Append(First(blocks, 7 - 1), blocks[7]) = First(blocks, 7) /\ blocks[7] \in Nat
      BY FirstBlocks
    <3>3. Append(First(blocks, 6), blocks[7]) = First(blocks, 7)
      BY <2>1, <3>2
    <3>4. Len(First(blocks, 6)) <= 6
      <4>1. Len(First(blocks, 6)) = 6
        BY <3>1
      <4>2. 6 <= 6
        OBVIOUS
      <4> QED
        BY ONLY <4>1, <4>2, Zenon
    <3> QED
      BY <3>1, <3>2, <3>3, <3>4
  <2>4. PICK p \in Nat : p = q + 1
    BY <1>1
  <2>5. text[p] = Colon /\ CharAt(text, p + 1) # Colon /\ p \in 1..Len(text) /\ p - 1 = q
    <3>1. p + 1 \in Nat /\ p + 1 > Len(text)
      BY <1>1, <2>1, <2>4
    <3> QED
      BY <1>1, <1>3, <2>1, <2>4, <3>1, CharAfter
  <2>6. st[p] = Ip6Char(text, st[p - 1], p)
    BY <2>5 DEF Scanned
  <2>7. Ip6Char(text, At(First(blocks, 6), blocks[7], ZeroBlocks(text)), p)
          = At(Append(First(blocks, 6), blocks[7]), 0, ZeroBlocks(text))
    BY <1>1, <2>3, <2>5, ReadColon
  <2>8. Stands(st, Len(text), First(blocks, 7), blocks[8], ZeroBlocks(text))
    BY <1>4, <2>1, <2>2, <2>3, <2>4, <2>5, <2>6, <2>7 DEF Stands
  <2> QED
    BY <1>1, <1>2, <1>4, <1>5, <1>7, <2>1, <2>8 DEF ReadBack
<1> QED
  BY <1>8, <1>9

\* The characters of the text are digits and colons.
LEMMA TextChars ==
  ASSUME NEW text, NEW len, NEW empty, NEW blocks \in Address, NEW beyond,
         Layout(text, len, empty, blocks, beyond),
         \A i \in 1..8 : \/ NumberAt(text, len, empty, blocks, beyond, i)
                         \/ ZeroAt(text, len, empty, blocks, beyond, i)
  PROVE  \A j \in 1..Len(text) : text[j] \notin Dot..Other
<1> DEFINE T == {i \in 0..8 : \A j \in 1..len[i] : text[j] \notin Dot..Other}
<1>1. len[0] = 0 /\ len[8] = Len(text) /\ \A i \in 0..8 : len[i] \in Nat
  BY DEF Layout
<1>2. 0 \in T
  BY <1>1
<1>3. ASSUME NEW k \in 0..(8 - 1), k \in T PROVE k + 1 \in T
  <2>1. PICK i \in 1..8 : i = k + 1
    OBVIOUS
  <2>2. i - 1 = k /\ k \in 0..8 /\ i \in 0..8
    BY <2>1
  <2> DEFINE q == len[k]
  <2>3. q \in Nat /\ len[i] \in Nat /\ \A j \in 1..q : text[j] \notin Dot..Other
    BY <1>1, <1>3, <2>2
  <2>4. Colon \notin Dot..Other
    BY DEF Colon, Dot, Other
  <2>5. ASSUME NEW j \in 1..len[i] PROVE text[j] \notin Dot..Other
    <3>1. CASE ZeroAt(text, len, empty, blocks, beyond, i)
      <4>1. len[i] = q \/ (len[i] = q + 1 /\ text[len[i]] = Colon)
        BY <2>2, <3>1 DEF ZeroAt
      <4> HIDE DEF q
      <4>2. j \in 1..q \/ (j = len[i] /\ text[len[i]] = Colon)
        BY <2>3, <4>1
      <4> QED
        BY <2>3, <2>4, <4>2
    <3>2. CASE NumberAt(text, len, empty, blocks, beyond, i)
      <4>1. NumberFacts(text, len, blocks, i)
        BY <3>2, NumberText
      <4> DEFINE h == HexOf(blocks[i])
      <4>2. /\ \/ Before(len, i) = q
               \/ Before(len, i) = q + 1 /\ text[q + 1] = Colon
            /\ len[i] = Before(len, i) + Len(h)
            /\ \A m \in 1..Len(h) : text[Before(len, i) + m] = h[m]
        BY <2>2, <4>1 DEF NumberFacts, Before
      <4>3. h \in Seq(Digit) /\ Len(h) \in Nat
        <5>1. blocks[i] \in Block
          BY DEF Address
        <5> QED
          BY <5>1, HexDigits
      <4> HIDE DEF h, q
      <4>4. CASE j > Before(len, i)
        <5>1. j - Before(len, i) \in 1..Len(h) /\ Before(len, i) + (j - Before(len, i)) = j
          BY <2>3, <4>2, <4>3, <4>4
        <5>2. text[j] = h[j - Before(len, i)] /\ h[j - Before(len, i)] \in Digit
          BY <4>2, <4>3, <5>1
        <5>3. Digit \cap Dot..Other = {}
          BY DEF Digit, Dot, Other
        <5> QED
          BY <5>2, <5>3
      <4>5. CASE j <= Before(len, i)
        <5>1. j \in 1..q \/ (j = q + 1 /\ text[q + 1] = Colon)
          BY <2>3, <4>2, <4>5
        <5> QED
          BY <2>3, <2>4, <5>1
      <4>6. Before(len, i) \in Nat
        BY <2>3, <4>2
      <4> QED
        BY <4>4, <4>5, <4>6
    <3> QED
      BY <3>1, <3>2
  <2> QED
    BY <2>1, <2>2, <2>5
<1> HIDE DEF T
<1>4. \A i \in 0..8 : i \in T
  BY <1>2, <1>3, UpTo
<1>5. 8 \in T
  BY <1>4
<1> QED
  BY <1>1, <1>5 DEF T

\* Every address is written to a text that is read back.
LEMMA ReadsBack ==
  ASSUME NEW blocks \in Address, NEW beyond \in Nat, NEW text, text = Ip6Ntoa(blocks, beyond)
  PROVE  /\ ReadBack(Ip6States(text), text, blocks, beyond)
         /\ \A j \in 1..Len(text) : text[j] \notin Dot..Other
<1>1. PICK len, empty :
        /\ Layout(text, len, empty, blocks, beyond)
        /\ \A i \in 1..8 : \/ NumberAt(text, len, empty, blocks, beyond, i)
                           \/ ZeroAt(text, len, empty, blocks, beyond, i)
  BY Laid
<1> DEFINE st == Ip6States(text)
<1>2. Scanned(st, text)
  <2>1. text \in Texts
    BY <1>1 DEF Layout
  <2> QED
    BY <2>1, ScanExists
<1> HIDE DEF st
<1> DEFINE T == {i \in 0..8 : Stage(text, len, empty, blocks, beyond, st, i)}
<1>3. 0 \in T
  <2>1. PlainAt(text, len, empty, blocks, st, 0)
    BY <1>1, <1>2, PlainBegin
  <2> QED
    BY <2>1 DEF Stage
<1>4. ASSUME NEW k \in 0..(8 - 1), k \in T PROVE k + 1 \in T
  <2>1. PICK i \in 1..8 : i = k + 1
    OBVIOUS
  <2>2. i - 1 = k /\ i \in 0..8
    BY <2>1
  <2>3. Stage(text, len, empty, blocks, beyond, st, i - 1)
    BY <1>4, <2>2
  <2>4. \/ NumberAt(text, len, empty, blocks, beyond, i)
        \/ ZeroAt(text, len, empty, blocks, beyond, i)
    BY <1>1
  <2>5. Stage(text, len, empty, blocks, beyond, st, i)
    BY <1>1, <1>2, <2>3, <2>4, StageGoesOn
  <2> QED
    BY <2>1, <2>2, <2>5
<1> HIDE DEF T
<1>5. \A i \in 0..8 : i \in T
  BY <1>3, <1>4, UpTo
<1>6. Stage(text, len, empty, blocks, beyond, st, 8)
  <2>1. 8 \in T
    BY <1>5
  <2> QED
    BY <2>1 DEF T
<1>7. ReadBack(st, text, blocks, beyond)
  <2>1. CASE \/ PlainAt(text, len, empty, blocks, st, 8)
             \/ GapBehind(text, len, empty, blocks, st, 8)
    BY <1>1, <2>1, EndsInNumber
  <2>2. CASE \E a \in 1..8 : Gapped(text, len, empty, blocks, beyond, st, a, 8)
    BY <1>1, <1>2, <2>2, EndsInGap
  <2> QED
    BY <1>6, <2>1, <2>2 DEF Stage
<1>8. \A j \in 1..Len(text) : text[j] \notin Dot..Other
  BY <1>1, TextChars
<1> QED
  BY <1>7, <1>8 DEF st

\* What follows the text is left aside.
LEMMA PartOfText ==
  ASSUME NEW text \in Texts, \A j \in 1..Len(text) : text[j] \notin Dot..Other,
         NEW tail \in {<<>>, <<Space, Colon>>}
  PROVE  Ip6Part(text \o tail) = text
<1> DEFINE full == text \o tail
           n == Len(text)
           Right(m) == /\ \A i \in 1..m : full[i] \notin Dot..Other
                       /\ m < Len(full) => full[m + 1] \in Dot..Other
<1>1. n \in Nat /\ Space \in Dot..Other
  BY DEF Texts, Space, Dot, Other
<1>10. tail \in Seq(0..20)
  <2>1. Space \in 0..20 /\ Colon \in 0..20
    BY DEF Space, Colon
  <2>2. <<>> \in Seq(0..20) /\ <<Space, Colon>> \in Seq(0..20)
    BY <2>1
  <2> QED
    BY <2>2
<1>2. /\ Len(full) \in Nat /\ Len(full) >= n
      /\ \A i \in 1..n : full[i] = text[i] /\ full[i] \notin Dot..Other
      /\ Len(full) > n => full[n + 1] = Space
  <2>1. tail \in Seq(0..20)
    BY <1>10
  <2>2. Len(full) = n + Len(tail) /\ \A i \in 1..n : full[i] = text[i]
    BY <2>1 DEF Texts
  <2>3. CASE tail = <<>>
    <3>1. Len(full) = n
      BY <1>1, <2>2, <2>3
    <3> QED
      BY <1>1, <2>2, <3>1
  <2>4. CASE tail = <<Space, Colon>>
    <3>1. Len(tail) = 2 /\ tail[1] = Space
      BY <2>4
    <3>2. full[n + 1] = tail[1]
      <4>2. text \in Seq(0..20) /\ Len(text) \in Nat
        BY DEF Texts
      <4>1. Len(text) + 1 \in 1..(Len(text) + Len(tail)) /\ ~(Len(text) + 1 <= Len(text))
            /\ (Len(text) + 1) - Len(text) = 1
        BY <3>1, <4>2
      <4>3. (text \o tail)[Len(text) + 1] = tail[1]
        BY <2>1, <4>1, <4>2
      <4> QED
        BY <4>3
    <3> QED
      BY <1>1, <2>2, <3>1, <3>2
  <2> QED
    BY <2>3, <2>4
<1>3. \A i \in 1..n : full[i] = text[i]
  BY <1>2
<1> HIDE DEF full, n
<1>4. n \in 0..Len(full) /\ Right(n)
  BY <1>1, <1>2
<1>5. ASSUME NEW m \in 0..Len(full), Right(m) PROVE m = n
  <2>1. ~(m < n)
    <3>1. m < n => m + 1 \in 1..n /\ m < Len(full)
      BY <1>1, <1>2
    <3> QED
      BY <1>2, <1>5, <3>1
  <2>2. ~(m > n)
    <3>1. m > n => n + 1 \in 1..m /\ Len(full) > n
      BY <1>1, <1>2
    <3> QED
      BY <1>1, <1>2, <1>5, <3>1
  <2> QED
    BY <1>1, <1>2, <2>1, <2>2
<1> HIDE DEF Right
<1>6. (CHOOSE m \in 0..Len(full) : Right(m)) = n
  BY <1>4, <1>5
<1>7. Ip6Part(full) = SubSeq(full, 1, n)
  <2>1. Ip6Part(full) = SubSeq(full, 1, CHOOSE m \in 0..Len(full) : Right(m))
    BY DEF Ip6Part, Right
  <2> QED
    BY <1>6, <2>1
<1>8. full \in Seq(0..20)
  BY <1>10 DEF full, Texts
<1>9. SubSeq(full, 1, n) = text
  <2> DEFINE sub == SubSeq(full, 1, n)
  <2>1. sub \in Seq(0..20) /\ Len(sub) = n /\ \A i \in 1..n : sub[i] = full[i]
    BY <1>1, <1>2, <1>8
  <2>2. text \in Seq(0..20) /\ Len(text) = n
    BY DEF Texts, n
  <2>3. \A i \in 1..n : sub[i] = text[i]
    BY <1>3, <2>1
  <2> HIDE DEF sub
  <2>4. sub = text
    BY <2>1, <2>2, <2>3, SeqEqual
  <2> QED
    BY <2>4 DEF sub
<1> QED
  BY <1>7, <1>9 DEF full

\* What AddressesAgree says of an IPv6 address.
Agrees6(text, beyond, read, blocks) ==
  /\ read = blocks
  /\ Len(text) <= 39
  /\ Cardinality(DoubleColons(text)) <= 1
  /\ LoneColonAtEnd(text) => beyond = 0 /\ blocks[8] = 0

\* An IPv6 address is read back from its text, and the text is what it is to be.
LEMMA SixAgrees ==
  ASSUME NEW blocks \in Address, NEW beyond \in Nat, NEW tail \in {<<>>, <<Space, Colon>>},
         NEW text, text = Ip6Ntoa(blocks, beyond)
  PROVE  Agrees6(text, beyond, Ip6Aton(text \o tail), blocks)
<1> DEFINE st == Ip6States(text)
<1>1. ReadBack(st, text, blocks, beyond) /\ \A j \in 1..Len(text) : text[j] \notin Dot..Other
  BY ReadsBack
<1> HIDE DEF st
<1>2. /\ text \in Texts /\ Len(text) \in Nat /\ Len(text) >= 1 /\ Len(text) <= 39
      /\ OneDouble(text, Len(text))
      /\ text[Len(text)] = Colon =>
           \/ Len(text) > 1 /\ Double(text, Len(text) - 1)
           \/ beyond = 0 /\ blocks[8] = 0
  BY <1>1 DEF ReadBack
<1>3. PICK z \in Int : st[Len(text)] = At(First(blocks, 7), blocks[8], z)
  BY <1>1 DEF ReadBack, Stands
<1>4. Ip6Part(text \o tail) = text
  BY <1>1, <1>2, PartOfText
<1>5. Ip6Aton(text \o tail) = blocks
  <2> DEFINE s == st[Len(text)]
  <2>1. Ip6Aton(text \o tail) = IF s.bad \/ Len(s.found) # 7 THEN <<>> ELSE Append(s.found, s.val)
    BY <1>4 DEF Ip6Aton, st
  <2>2. ~s.bad /\ s.found = First(blocks, 7) /\ s.val = blocks[8]
    BY <1>3 DEF At
  <2> HIDE DEF s
  <2>3. Len(First(blocks, 7)) = 7
    BY FirstBlocks
  <2>4. Append(First(blocks, 8 - 1), blocks[8]) = First(blocks, 8)
    BY FirstBlocks
  <2>5. 8 - 1 = 7
    OBVIOUS
  <2>6. First(blocks, 8) = blocks
    BY DEF First, Address
  <2> QED
    BY <2>1, <2>2, <2>3, <2>4, <2>5, <2>6
<1>6. Cardinality(DoubleColons(text)) <= 1
  <2>1. PICK p \in Nat : \A j \in 1..(Len(text) - 1) : Double(text, j) => j = p
    BY <1>2 DEF OneDouble
  <2>2. DoubleColons(text) \subseteq {p}
    BY <2>1 DEF DoubleColons, Double
  <2>3. IsFiniteSet({p}) /\ Cardinality({p}) = 1
    BY FS_Singleton
  <2>4. Cardinality(DoubleColons(text)) <= Cardinality({p})
    BY <2>2, <2>3, FS_Subset
  <2> QED
    BY <2>3, <2>4
<1>7. ASSUME LoneColonAtEnd(text) PROVE beyond = 0 /\ blocks[8] = 0
  <2>1. text[Len(text)] = Colon /\ (Len(text) - 1) \notin DoubleColons(text)
    BY <1>7 DEF LoneColonAtEnd
  <2>2. ~(Len(text) > 1 /\ Double(text, Len(text) - 1))
    <3>1. Len(text) > 1 => Len(text) - 1 \in 1..(Len(text) - 1)
      BY <1>2
    <3> QED
      BY <2>1, <3>1 DEF DoubleColons, Double
  <2> QED
    BY <1>2, <2>1, <2>2
<1> QED
  BY <1>2, <1>5, <1>6, <1>7 DEF Agrees6

-----------------------------------------------------------------------------
(* ip4addr_aton, character by character *)

\* The weights of the bytes of a word, in the small word and in the code's.
LEMMA Weights ==
  \/ /\ ByteSize = 16 /\ Weight(1) = 16 /\ Weight(2) = 256 /\ Weight(3) = 4096
     /\ Weight(4) = 65536
  \/ /\ ByteSize = 256 /\ Weight(1) = 256 /\ Weight(2) = 65536 /\ Weight(3) = 16777216
     /\ Weight(4) = 4294967296
<1>1. ByteSize = 16 \/ ByteSize = 256
  BY ByteAssumption
<1>2. /\ Weight(1) = ByteSize /\ Weight(2) = ByteSize * ByteSize
      /\ Weight(3) = ByteSize * ByteSize * ByteSize
      /\ Weight(4) = ByteSize * ByteSize * ByteSize * ByteSize
  BY DEF Weight
<1>3. CASE ByteSize = 16
  BY <1>2, <1>3
<1>4. CASE ByteSize = 256
  BY <1>2, <1>4
<1> QED
  BY <1>1, <1>3, <1>4

\* The word is what a value is taken modulo.
Word == Weight(4)

\* A value in a word.
Wrapped(v) == v % Word

\* What is small enough stays as it is.
LEMMA WrappedType ==
  ASSUME NEW v \in Nat
  PROVE  Wrapped(v) \in Nat /\ Wrapped(v) < Word /\ (v < 65536 => Wrapped(v) = v)
<1>1. Word = 65536 \/ Word = 4294967296
  BY Weights DEF Word
<1>2. CASE Word = 65536
  BY <1>2 DEF Wrapped
<1>3. CASE Word = 4294967296
  BY <1>3 DEF Wrapped
<1> QED
  BY <1>1, <1>2, <1>3

\* Whole words make no difference.
LEMMA WrapsBy ==
  ASSUME NEW W \in {65536, 4294967296}, NEW x \in Nat, NEW m \in Nat
  PROVE  (x + W * m) % W = x % W
<1>1. CASE W = 65536
  BY <1>1
<1>2. CASE W = 4294967296
  BY <1>2
<1> QED
  BY <1>1, <1>2

\* A value with another digit.
WithDigit(v, b, c) == v * b + c

\* It is a number.
LEMMA WithDigitType ==
  ASSUME NEW v \in Nat, NEW b \in {8, 10, 16}, NEW c \in Nat
  PROVE  WithDigit(v, b, c) \in Nat
<1>1. b = 8 \/ b = 10 \/ b = 16
  OBVIOUS
<1> QED
  BY <1>1 DEF WithDigit

\* Wrapping at every digit is wrapping at the end.
LEMMA WrapsAgain ==
  ASSUME NEW v \in Nat, NEW b \in {8, 10, 16}, NEW c \in Nat
  PROVE  Wrapped(WithDigit(Wrapped(v), b, c)) = Wrapped(WithDigit(v, b, c))
<1> DEFINE W == Word
           r == v % W
           m == v \div W
<1>1. W = 65536 \/ W = 4294967296
  BY Weights DEF Word
<1>2. r \in Nat /\ m \in Nat /\ v = r + W * m
  <2>1. CASE W = 65536
    BY <2>1
  <2>2. CASE W = 4294967296
    BY <2>2
  <2> QED
    BY <1>1, <2>1, <2>2
<1> HIDE DEF r, m
<1>3. W \in Nat
  BY <1>1
<1>4. v * b + c = (r * b + c) + W * (m * b) /\ r * b + c \in Nat /\ m * b \in Nat
  <2>1. CASE b = 8
    BY <1>1, <1>2, <2>1
  <2>2. CASE b = 10
    BY <1>1, <1>2, <2>2
  <2>3. CASE b = 16
    BY <1>1, <1>2, <2>3
  <2> QED
    BY <2>1, <2>2, <2>3
<1>5. ((r * b + c) + W * (m * b)) % W = (r * b + c) % W
  <2>1. PICK x \in Nat : x = r * b + c
    BY <1>4
  <2>2. PICK k \in Nat : k = m * b
    BY <1>4
  <2>3. W \in {65536, 4294967296}
    BY <1>1
  <2>4. (x + W * k) % W = x % W
    BY <2>3, WrapsBy
  <2> QED
    BY <2>1, <2>2, <2>4
<1>6. (v * b + c) % W = (r * b + c) % W
  BY <1>4, <1>5
<1> QED
  BY <1>6 DEF Wrapped, WithDigit, r

\* The states of the scan for an IPv4 address.
Reads4 == [at : {"first", "zero", "number", "end", "bad"}, base : {8, 10, 16},
           val : Nat, parts : Seq(Nat)]

\* The characters.
Char == 0..20

\* A character leaves a state of the scan.
LEMMA CharRead ==
  ASSUME NEW s \in Reads4, NEW c \in Char
  PROVE  Ip4Char(s, c) \in Reads4
<1>1. /\ s.at \in {"first", "zero", "number", "end", "bad"} /\ s.base \in {8, 10, 16}
      /\ s.val \in Nat /\ s.parts \in Seq(Nat)
  BY DEF Reads4
<1>2. FirstChar(s, c) \in Reads4
  <2>1. c \in 1..9 => c \in Nat
    OBVIOUS
  <2> QED
    BY <2>1 DEF FirstChar, Reads4
<1>3. [s EXCEPT !.at = "number", !.base = 16] \in Reads4
  BY DEF Reads4
<1>4. NumberChar(s, c) \in Reads4
  <2>1. c \in 0..15 => (s.val * s.base + c) % Weight(4) \in Nat
    <3> HAVE c \in 0..15
    <3>1. c \in Nat
      OBVIOUS
    <3>2. WithDigit(s.val, s.base, c) \in Nat
      BY <1>1, <3>1, WithDigitType
    <3>3. Wrapped(WithDigit(s.val, s.base, c)) \in Nat
      BY <3>2, WrappedType
    <3> QED
      BY <3>3 DEF Wrapped, WithDigit, Word
  <2>2. c \in 0..9 \/ (c \in 10..15 /\ s.base = 16) => c \in 0..15
    OBVIOUS
  <2> DEFINE new == (s.val * s.base + c) % Weight(4)
  <2> HIDE DEF new
  <2>3. c \in 0..15 => [s EXCEPT !.at = "number", !.val = new] \in Reads4
    <3>1. c \in 0..15 => new \in Nat
      BY <2>1 DEF new
    <3> QED
      BY <3>1 DEF Reads4
  <2>4. [s EXCEPT !.at = "bad"] \in Reads4
    BY DEF Reads4
  <2>5. [s EXCEPT !.at = "first", !.parts = Append(s.parts, s.val)] \in Reads4
    <3>1. Append(s.parts, s.val) \in Seq(Nat)
      BY <1>1
    <3> QED
      BY <3>1 DEF Reads4
  <2>6. [s EXCEPT !.at = IF c = Space THEN "end" ELSE "bad"] \in Reads4
    BY DEF Reads4
  <2> QED
    BY <2>2, <2>3, <2>4, <2>5, <2>6, Zenon DEF NumberChar, new
<1> QED
  BY <1>2, <1>3, <1>4, Zenon DEF Ip4Char

\* The states after each character, each following from the one before.
ReadAlong(st, text) ==
  /\ st \in [0..Len(text) -> Reads4]
  /\ st[0] = Ip4Begin
  /\ \A i \in 1..Len(text) : st[i] = Ip4Char(st[i - 1], text[i])

\* The equation of Ip4States.
AreRead(st, text) ==
  st = [i \in 0..Len(text) |-> IF i = 0 THEN Ip4Begin ELSE Ip4Char(st[i - 1], text[i])]

\* The state after each character follows from the one before.
LEMMA ReadExists ==
  ASSUME NEW text \in Texts
  PROVE  ReadAlong(Ip4States(text), text)
<1> DEFINE n == Len(text)
           step == [i \in 1..n |-> [s \in Reads4 |-> Ip4Char(s, text[i])]]
           st == CHOOSE f : AreRead(f, text)
<1>1. n \in Nat /\ \A i \in 1..n : text[i] \in Char
  BY DEF Texts, Char
<1> HIDE DEF n
<1>2. StepsIn(step, n, Reads4)
  BY <1>1, CharRead DEF StepsIn
<1>3. Ip4Begin \in Reads4
  <2>1. <<>> \in Seq(Nat)
    OBVIOUS
  <2> QED
    BY <2>1 DEF Ip4Begin, Reads4
<1>4. PICK f : Walks(f, step, n, Reads4, Ip4Begin)
  <2> HIDE DEF step
  <2> QED
    BY <1>1, <1>2, <1>3, StepsExist
<1>5. \A i \in 1..n : f[i] = Ip4Char(f[i - 1], text[i])
  <2> TAKE i \in 1..n
  <2>1. f[i - 1] \in Reads4
    BY <1>1, <1>4 DEF Walks
  <2> QED
    BY <1>4, <2>1 DEF Walks
<1>6. AreRead(f, text)
  <2>1. f = [i \in 0..n |-> f[i]]
    BY <1>4 DEF Walks
  <2>2. \A i \in 0..n : f[i] = IF i = 0 THEN Ip4Begin ELSE Ip4Char(f[i - 1], text[i])
    BY <1>1, <1>4, <1>5 DEF Walks
  <2> QED
    BY <2>1, <2>2 DEF AreRead, n
<1>7. AreRead(st, text)
  BY <1>6
<1>8. st = Ip4States(text)
  BY Zenon DEF Ip4States, AreRead
<1> HIDE DEF st, step
<1>9. /\ st[0] = Ip4Begin
      /\ \A i \in 1..n : st[i] = Ip4Char(st[i - 1], text[i])
      /\ st = [i \in 0..n |-> st[i]]
  <2>1. st = [i \in 0..n |-> IF i = 0 THEN Ip4Begin ELSE Ip4Char(st[i - 1], text[i])]
    BY <1>7 DEF AreRead, n
  <2>2. \A i \in 0..n : st[i] = IF i = 0 THEN Ip4Begin ELSE Ip4Char(st[i - 1], text[i])
    BY <2>1
  <2>3. 0 \in 0..n /\ \A i \in 1..n : i \in 0..n /\ i # 0
    BY <1>1
  <2>4. \A i \in 1..n : st[i] = Ip4Char(st[i - 1], text[i])
    BY <2>2, <2>3
  <2> QED
    BY <2>1, <2>2, <2>3, <2>4
<1>10. \A i \in 0..n : st[i] \in Reads4
  <2> DEFINE T == {i \in 0..n : st[i] \in Reads4}
  <2>1. 0 \in T
    BY <1>1, <1>3, <1>9
  <2>2. ASSUME NEW i \in 0..(n - 1), i \in T PROVE i + 1 \in T
    <3>1. PICK k \in 1..n : k = i + 1
      BY <1>1
    <3>2. k - 1 = i /\ k \in 0..n
      BY <1>1, <3>1
    <3>3. st[k] = Ip4Char(st[k - 1], text[k])
      BY <1>9
    <3>4. st[k] \in Reads4
      BY <1>1, <2>2, <3>2, <3>3, CharRead
    <3> QED
      BY <3>1, <3>2, <3>4
  <2> HIDE DEF T
  <2>3. \A i \in 0..n : i \in T
    BY <1>1, <2>1, <2>2, UpTo
  <2> QED
    BY <2>3 DEF T
<1> QED
  BY <1>8, <1>9, <1>10 DEF ReadAlong, n

\* The value after each digit of a number.
AreValues(f, n) ==
  f = [i \in 0..Len(n.digits) |-> IF i = 0 THEN 0 ELSE f[i - 1] * n.base + n.digits[i]]

\* These values.
Values(n) == CHOOSE f : AreValues(f, n)

\* Each follows from the one before, and the last is the value of the number.
Valued(f, n) ==
  /\ f[0] = 0 /\ f[Len(n.digits)] = ValueOf(n)
  /\ \A i \in 0..Len(n.digits) : f[i] \in Nat
  /\ \A i \in 1..Len(n.digits) : f[i] = WithDigit(f[i - 1], n.base, n.digits[i])

\* Every number has such values.
LEMMA ValuesExist ==
  ASSUME NEW n \in Number
  PROVE  Valued(Values(n), n)
<1> DEFINE L == Len(n.digits)
           step == [i \in 1..L |-> [v \in Nat |-> WithDigit(v, n.base, n.digits[i])]]
           val == Values(n)
<1>1. L \in Nat /\ n.base \in {8, 10, 16} /\ \A i \in 1..L : n.digits[i] \in Nat
  <2>1. n.digits \in Seq(Digit) /\ n.base \in {8, 10, 16}
    BY DEF Number
  <2>2. Digit \subseteq Nat
    BY DEF Digit
  <2>3. PICK d \in Seq(Digit) : d = n.digits
    BY <2>1
  <2>4. Len(d) \in Nat /\ \A i \in 1..Len(d) : d[i] \in Digit
    OBVIOUS
  <2> QED
    BY <2>1, <2>2, <2>3, <2>4
<1> HIDE DEF L
<1>2. StepsIn(step, L, Nat)
  BY <1>1, WithDigitType DEF StepsIn
<1>4. PICK f : Walks(f, step, L, Nat, 0)
  <2> HIDE DEF step
  <2> QED
    BY <1>1, <1>2, StepsExist
<1>5. \A i \in 1..L : f[i] = f[i - 1] * n.base + n.digits[i]
  <2> TAKE i \in 1..L
  <2>1. f[i - 1] \in Nat
    BY <1>1, <1>4 DEF Walks
  <2> QED
    BY <1>4, <2>1 DEF Walks, WithDigit
<1>6. AreValues(f, n)
  <2>1. f = [i \in 0..L |-> f[i]]
    BY <1>4 DEF Walks
  <2>2. \A i \in 0..L : f[i] = IF i = 0 THEN 0 ELSE f[i - 1] * n.base + n.digits[i]
    BY <1>1, <1>4, <1>5 DEF Walks
  <2> QED
    BY <2>1, <2>2 DEF AreValues, L
<1>7. AreValues(val, n)
  BY <1>6 DEF Values
<1>8. val[Len(n.digits)] = ValueOf(n)
  BY Zenon DEF ValueOf, Values, AreValues
<1> HIDE DEF val, step
<1>9. /\ val[0] = 0
      /\ \A i \in 1..L : val[i] = WithDigit(val[i - 1], n.base, n.digits[i])
  <2>1. val = [i \in 0..L |-> IF i = 0 THEN 0 ELSE val[i - 1] * n.base + n.digits[i]]
    BY <1>7 DEF AreValues, L
  <2>2. \A i \in 0..L : val[i] = IF i = 0 THEN 0 ELSE val[i - 1] * n.base + n.digits[i]
    BY <2>1
  <2>3. 0 \in 0..L /\ \A i \in 1..L : i \in 0..L /\ i # 0
    BY <1>1
  <2> QED
    BY <2>2, <2>3 DEF WithDigit
<1>10. \A i \in 0..L : val[i] \in Nat
  <2> DEFINE T == {i \in 0..L : val[i] \in Nat}
  <2>1. 0 \in T
    BY <1>1, <1>9
  <2>2. ASSUME NEW i \in 0..(L - 1), i \in T PROVE i + 1 \in T
    <3>1. PICK k \in 1..L : k = i + 1
      BY <1>1
    <3>2. k - 1 = i /\ k \in 0..L
      BY <1>1, <3>1
    <3>3. val[k] = WithDigit(val[k - 1], n.base, n.digits[k]) /\ n.digits[k] \in Nat
      BY <1>1, <1>9
    <3>5. PICK v \in Nat : v = val[k - 1]
      BY <2>2, <3>2
    <3>4. val[k] \in Nat
      BY <1>1, <3>3, <3>5, WithDigitType
    <3> QED
      BY <3>1, <3>2, <3>4
  <2> HIDE DEF T
  <2>3. \A i \in 0..L : i \in T
    BY <1>1, <2>1, <2>2, UpTo
  <2> QED
    BY <2>3 DEF T
<1> QED
  BY <1>8, <1>9, <1>10 DEF Valued, L, val

\* The text of a number.
LEMMA TextOfType ==
  ASSUME NEW n \in Number
  PROVE  TextOfNumber(n) \in Texts
<1>1. n.digits \in Seq(0..20)
  <2>1. n.digits \in Seq(Digit)
    BY DEF Number
  <2> QED
    BY <2>1 DEF Digit
<1>2. <<0>> \in Seq(0..20) /\ <<0, X>> \in Seq(0..20) /\ <<>> \in Seq(0..20)
  BY DEF X
<1> DEFINE prefix == CASE n.base = 8 -> <<0>> [] n.base = 16 -> <<0, X>> [] OTHER -> <<>>
<1>3. prefix \in Seq(0..20)
  BY <1>2, Zenon
<1> HIDE DEF prefix
<1>4. prefix \o n.digits \in Seq(0..20)
  BY <1>1, <1>3
<1> QED
  BY <1>4 DEF TextOfNumber, Texts, prefix

\* What precedes a number.
DotBefore(i) == IF i > 1 THEN <<Dot>> ELSE <<>>

\* The equation of DottedText.
AreJoined(f, ns) ==
  f = [i \in 0..Len(ns) |-> IF i = 0 THEN <<>>
         ELSE f[i - 1] \o (IF i > 1 THEN <<Dot>> ELSE <<>>) \o TextOfNumber(ns[i])]

\* The text up to each number, each following from the one before.
Joined(f, ns) ==
  /\ f[0] = <<>>
  /\ \A i \in 0..Len(ns) : f[i] \in Texts
  /\ \A i \in 1..Len(ns) : f[i] = (f[i - 1] \o DotBefore(i)) \o TextOfNumber(ns[i])

\* The text up to each number follows from the one up to the number before.
LEMMA JoinedExists ==
  ASSUME NEW ns \in Seq(Number)
  PROVE  Joined(DottedText(ns), ns)
<1> DEFINE L == Len(ns)
           step == [i \in 1..L |-> [t \in Texts |-> (t \o DotBefore(i)) \o TextOfNumber(ns[i])]]
           d == CHOOSE f : AreJoined(f, ns)
<1>1. L \in Nat /\ \A i \in 1..L : TextOfNumber(ns[i]) \in Texts
  BY TextOfType
<1> HIDE DEF L
<1>2. \A i \in 1..L : \A t \in Texts : (t \o DotBefore(i)) \o TextOfNumber(ns[i]) \in Texts
  <2> TAKE i \in 1..L
  <2> TAKE t \in Texts
  <2>3. <<Dot>> \in Texts /\ <<>> \in Texts
    BY DEF Texts, Dot
  <2>1. DotBefore(i) \in Texts
    BY <2>3 DEF DotBefore
  <2>2. TextOfNumber(ns[i]) \in Texts
    BY <1>1
  <2> QED
    BY <2>1, <2>2 DEF Texts
<1>3. StepsIn(step, L, Texts) /\ <<>> \in Texts
  BY <1>2 DEF StepsIn, Texts
<1>4. PICK f : Walks(f, step, L, Texts, <<>>)
  <2> HIDE DEF step
  <2> QED
    BY <1>1, <1>3, StepsExist
<1>5. \A i \in 1..L : f[i] = (f[i - 1] \o DotBefore(i)) \o TextOfNumber(ns[i])
  <2> TAKE i \in 1..L
  <2>1. f[i - 1] \in Texts
    BY <1>1, <1>4 DEF Walks
  <2> QED
    BY <1>4, <2>1 DEF Walks
<1>6. AreJoined(f, ns)
  <2>1. f = [i \in 0..L |-> f[i]]
    BY <1>4 DEF Walks
  <2>2. \A i \in 0..L : f[i] = IF i = 0 THEN <<>>
          ELSE f[i - 1] \o (IF i > 1 THEN <<Dot>> ELSE <<>>) \o TextOfNumber(ns[i])
    <3> TAKE i \in 0..L
    <3>1. CASE i = 0
      BY <1>4, <3>1 DEF Walks
    <3>2. CASE i # 0
      <4>1. i \in 1..L
        BY <1>1, <3>2
      <4>2. f[i] = (f[i - 1] \o DotBefore(i)) \o TextOfNumber(ns[i])
        BY <1>5, <4>1
      <4> QED
        BY <3>2, <4>2, Zenon DEF DotBefore
    <3> QED
      BY <3>1, <3>2
  <2> QED
    BY <2>1, <2>2 DEF AreJoined, L
<1>7. AreJoined(d, ns)
  BY <1>6
<1>8. d = DottedText(ns)
  BY Zenon DEF DottedText, AreJoined
<1> HIDE DEF d, step
<1>9. /\ d[0] = <<>>
      /\ \A i \in 1..L : d[i] = (d[i - 1] \o DotBefore(i)) \o TextOfNumber(ns[i])
  <2>1. d = [i \in 0..L |-> IF i = 0 THEN <<>>
               ELSE (d[i - 1] \o DotBefore(i)) \o TextOfNumber(ns[i])]
    BY <1>7 DEF AreJoined, L, DotBefore
  <2>2. \A i \in 0..L : d[i] = IF i = 0 THEN <<>>
               ELSE (d[i - 1] \o DotBefore(i)) \o TextOfNumber(ns[i])
    BY <2>1
  <2>3. 0 \in 0..L /\ \A i \in 1..L : i \in 0..L /\ i # 0
    BY <1>1
  <2> QED
    BY <2>2, <2>3
<1>10. \A i \in 0..L : d[i] \in Texts
  <2> DEFINE T == {i \in 0..L : d[i] \in Texts}
  <2>1. 0 \in T
    BY <1>1, <1>3, <1>9
  <2>2. ASSUME NEW i \in 0..(L - 1), i \in T PROVE i + 1 \in T
    <3>1. PICK k \in 1..L : k = i + 1
      BY <1>1
    <3>2. k - 1 = i /\ k \in 0..L
      BY <1>1, <3>1
    <3>3. d[k] = (d[k - 1] \o DotBefore(k)) \o TextOfNumber(ns[k])
      BY <1>9
    <3>4. d[k] \in Texts
      BY <1>2, <2>2, <3>2, <3>3
    <3> QED
      BY <3>1, <3>2, <3>4
  <2> HIDE DEF T
  <2>3. \A i \in 0..L : i \in T
    BY <1>1, <2>1, <2>2, UpTo
  <2> QED
    BY <2>3 DEF T
<1> QED
  BY <1>8, <1>9, <1>10 DEF Joined, L

\* A number as Ip4Assumption has it.
Spelt(n) ==
  /\ n \in Number
  /\ n.base # 16 => n.digits \in Seq(0..9)
  /\ n.base = 10 => n.digits # <<>> /\ n.digits[1] # 0

\* The scan at the beginning of a number, after all of it, and after some of its
\* digits.
AtFirst(s, parts) == s.at = "first" /\ s.parts = parts

\* After all of a number: its value in a word.
AtNumber(s, n, parts) ==
  /\ s.at = IF n.base = 8 /\ n.digits = <<>> THEN "zero" ELSE "number"
  /\ s.base = n.base /\ s.val = Wrapped(ValueOf(n)) /\ s.parts = parts

\* After j of its digits: their value.
AtDigit(s, n, j, parts) ==
  /\ s.parts = parts
  /\ n.base = 10 /\ j = 0 => s.at = "first"
  /\ ~(n.base = 10 /\ j = 0) =>
       /\ s.at = IF n.base = 8 /\ j = 0 THEN "zero" ELSE "number"
       /\ s.base = n.base /\ s.val = Wrapped(Values(n)[j])

\* The digits of a number, and its values.
LEMMA DigitFacts ==
  ASSUME NEW n, Spelt(n), NEW j \in 1..Len(n.digits)
  PROVE  /\ n.digits[j] \in Digit /\ (n.base # 16 => n.digits[j] \in 0..9)
         /\ n.base \in {8, 10, 16} /\ Len(n.digits) \in Nat
<1>1. n.digits \in Seq(Digit) /\ n.base \in {8, 10, 16}
  BY DEF Spelt, Number
<1>2. PICK d : d = n.digits
  OBVIOUS
<1>3. d \in Seq(Digit) /\ j \in 1..Len(d)
  BY <1>1, <1>2
<1>4. d[j] \in Digit /\ Len(d) \in Nat
  BY <1>3
<1>5. n.base # 16 => d[j] \in 0..9
  <2> HAVE n.base # 16
  <2>1. d \in Seq(0..9)
    BY <1>2 DEF Spelt
  <2> QED
    BY <1>3, <2>1
<1> QED
  BY <1>1, <1>2, <1>4, <1>5

\* A digit of the base, in a number.
LEMMA DigitTaken ==
  ASSUME NEW s \in Reads4, NEW c \in Digit, s.at \in {"zero", "number"},
         s.base # 16 => c \in 0..9
  PROVE  Ip4Char(s, c) = [s EXCEPT !.at = "number", !.val = Wrapped(WithDigit(s.val, s.base, c))]
<1>1. c # X /\ c # Dot /\ (c \in 0..9 \/ (c \in 10..15 /\ s.base = 16))
  BY DEF X, Dot, Digit
<1>2. s.at # "first"
  OBVIOUS
<1>3. Ip4Char(s, c) = NumberChar(s, c)
  BY <1>1, <1>2, Zenon DEF Ip4Char
<1>4. NumberChar(s, c) = [s EXCEPT !.at = "number", !.val = (s.val * s.base + c) % Weight(4)]
  BY <1>1, Zenon DEF NumberChar
<1> QED
  BY <1>3, <1>4 DEF Wrapped, WithDigit, Word

\* Each digit goes on with the value.
LEMMA DigitOn ==
  ASSUME NEW n, Spelt(n), NEW j \in 1..Len(n.digits), NEW s \in Reads4, NEW parts,
         AtDigit(s, n, j - 1, parts)
  PROVE  AtDigit(Ip4Char(s, n.digits[j]), n, j, parts)
<1> DEFINE c == n.digits[j]
           f == Values(n)
           t == Ip4Char(s, c)
<1>1. /\ c \in Digit /\ (n.base # 16 => c \in 0..9)
      /\ n.base \in {8, 10, 16} /\ Len(n.digits) \in Nat
  BY DigitFacts
<1>2. Valued(f, n)
  BY ValuesExist DEF Spelt
<1>3. /\ f[0] = 0 /\ f[j] = WithDigit(f[j - 1], n.base, c) /\ f[j - 1] \in Nat
  <2>1. j - 1 \in 0..Len(n.digits)
    BY <1>1
  <2> QED
    BY <1>2, <2>1 DEF Valued
<1>4. c \in Nat /\ j # 0
  BY <1>1 DEF Digit
<1>5. n.base = 10 /\ j = 1 => c # 0
  BY DEF Spelt
<1> HIDE DEF f, c, t
<1>6. CASE n.base = 10 /\ j - 1 = 0
  <2>1. s.at = "first" /\ s.parts = parts /\ j = 1
    BY <1>6 DEF AtDigit
  <2>2. c \in 1..9
    BY <1>1, <1>5, <1>6, <2>1
  <2>3. t = [s EXCEPT !.at = "number", !.base = 10, !.val = c]
    <3>1. t = FirstChar(s, c)
      BY <2>1, Zenon DEF Ip4Char, t
    <3> QED
      BY <2>2, <3>1 DEF FirstChar
  <2>4. t.at = "number" /\ t.base = 10 /\ t.val = c /\ t.parts = parts
    BY <2>1, <2>3 DEF Reads4
  <2>5. f[j] = c
    BY <1>3, <1>4, <1>6, <2>1 DEF WithDigit
  <2>6. Wrapped(f[j]) = c
    <3>1. c < 65536
      BY <2>2
    <3> QED
      BY <1>4, <2>5, <3>1, WrappedType
  <2> QED
    BY <1>4, <1>6, <2>4, <2>6 DEF AtDigit, f, t, c
<1>7. CASE ~(n.base = 10 /\ j - 1 = 0)
  <2>1. /\ s.at \in {"zero", "number"} /\ s.base = n.base /\ s.val = Wrapped(f[j - 1])
        /\ s.parts = parts
    BY <1>7 DEF AtDigit, f
  <2>2. t = [s EXCEPT !.at = "number", !.val = Wrapped(WithDigit(s.val, s.base, c))]
    BY <1>1, <2>1, DigitTaken DEF t
  <2>3. t.at = "number" /\ t.base = n.base /\ t.parts = parts /\ t.val = Wrapped(WithDigit(s.val, s.base, c))
    BY <2>1, <2>2 DEF Reads4
  <2>4. t.val = Wrapped(f[j])
    <3>1. Wrapped(WithDigit(Wrapped(f[j - 1]), n.base, c)) = Wrapped(WithDigit(f[j - 1], n.base, c))
      BY <1>1, <1>3, <1>4, WrapsAgain
    <3> QED
      BY <1>3, <2>1, <2>3, <3>1
  <2> QED
    BY <1>4, <2>3, <2>4 DEF AtDigit, f, t, c
<1> QED
  BY <1>6, <1>7 DEF t, c

\* Characters of a text, from a position on.
Reads(text, k, u) ==
  /\ k \in Nat /\ Len(u) \in Nat /\ k + Len(u) <= Len(text)
  /\ \A j \in 1..Len(u) : text[k + j] = u[j]

\* The digits, read after what shows the base.
LEMMA DigitsRead ==
  ASSUME NEW text \in Texts, NEW st, ReadAlong(st, text), NEW n, Spelt(n), NEW k, NEW parts,
         Reads(text, k, n.digits), AtDigit(st[k], n, 0, parts)
  PROVE  AtDigit(st[k + Len(n.digits)], n, Len(n.digits), parts)
<1> DEFINE L == Len(n.digits)
           T == {j \in 0..L : AtDigit(st[k + j], n, j, parts)}
<1>1. /\ k \in Nat /\ L \in Nat /\ k + L <= Len(text) /\ Len(text) \in Nat
      /\ \A j \in 1..L : text[k + j] = n.digits[j]
  BY DEF Reads, Texts
<1> HIDE DEF L
<1>2. 0 \in T
  BY <1>1
<1>3. ASSUME NEW i \in 0..(L - 1), i \in T PROVE i + 1 \in T
  <2>1. PICK j \in 1..L : j = i + 1
    BY <1>1
  <2>2. PICK p \in 1..Len(text) : p = k + j
    BY <1>1
  <2>3. j - 1 = i /\ j \in 0..L /\ p - 1 = k + i /\ p - 1 \in 0..Len(text) /\ j \in 1..Len(n.digits)
    BY <1>1, <2>1, <2>2 DEF L
  <2>4. st[p] = Ip4Char(st[p - 1], text[p]) /\ st[p - 1] \in Reads4
    BY <2>3 DEF ReadAlong
  <2>5. AtDigit(st[p - 1], n, j - 1, parts)
    BY <1>3, <2>3
  <2>6. text[p] = n.digits[j]
    BY <1>1, <2>2
  <2>7. AtDigit(st[p], n, j, parts)
    BY <2>3, <2>4, <2>5, <2>6, DigitOn
  <2> QED
    BY <2>1, <2>2, <2>3, <2>7
<1> HIDE DEF T
<1>4. \A j \in 0..L : j \in T
  BY <1>1, <1>2, <1>3, UpTo
<1>5. L \in T
  BY <1>1, <1>4
<1> QED
  BY <1>5 DEF T, L

\* What follows in a text, part by part.
LEMMA ReadsParts ==
  ASSUME NEW text \in Texts, NEW u \in Texts, NEW v \in Texts, NEW k, Reads(text, k, u \o v)
  PROVE  Reads(text, k, u) /\ Reads(text, k + Len(u), v)
<1>1. Len(u \o v) = Len(u) + Len(v) /\ Len(u) \in Nat /\ Len(v) \in Nat /\ Len(text) \in Nat
  BY DEF Texts
<1>2. /\ k \in Nat /\ k + (Len(u) + Len(v)) <= Len(text)
      /\ \A j \in 1..(Len(u) + Len(v)) : text[k + j] = (u \o v)[j]
  BY <1>1 DEF Reads
<1>3. \A j \in 1..Len(u) : j \in 1..(Len(u) + Len(v)) /\ (u \o v)[j] = u[j]
  BY <1>1 DEF Texts
<1>4. ASSUME NEW j \in 1..Len(v) PROVE text[(k + Len(u)) + j] = v[j]
  <2>1. Len(u) + j \in 1..(Len(u) + Len(v)) /\ k + (Len(u) + j) = (k + Len(u)) + j
    BY <1>1, <1>2
  <2>2. (u \o v)[Len(u) + j] = v[j]
    BY <1>1 DEF Texts
  <2>3. text[k + (Len(u) + j)] = (u \o v)[Len(u) + j]
    BY <1>2, <2>1
  <2> QED
    BY <2>1, <2>2, <2>3
<1>5. k + Len(u) \in Nat /\ (k + Len(u)) + Len(v) <= Len(text) /\ k + Len(u) <= Len(text)
  BY <1>1, <1>2
<1>6. Reads(text, k, u)
  BY <1>1, <1>2, <1>3, <1>5 DEF Reads
<1>7. Reads(text, k + Len(u), v)
  BY <1>1, <1>4, <1>5 DEF Reads
<1> QED
  BY <1>6, <1>7

\* A step of the scan, at a position of the text.
LEMMA ScansOn ==
  ASSUME NEW text \in Texts, NEW st, ReadAlong(st, text), NEW k \in Nat, k + 1 <= Len(text)
  PROVE  st[k + 1] = Ip4Char(st[k], text[k + 1]) /\ st[k] \in Reads4 /\ st[k + 1] \in Reads4
<1>1. Len(text) \in Nat
  BY DEF Texts
<1>2. PICK p \in 1..Len(text) : p = k + 1
  BY <1>1
<1>3. p - 1 = k /\ p - 1 \in 0..Len(text) /\ p \in 0..Len(text)
  BY <1>1, <1>2
<1>4. st[p] = Ip4Char(st[p - 1], text[p]) /\ st[p - 1] \in Reads4 /\ st[p] \in Reads4
  BY <1>3 DEF ReadAlong
<1> QED
  BY <1>2, <1>3, <1>4

\* The prefix shows the base of the digits.
Prefix(n) == CASE n.base = 8 -> <<0>> [] n.base = 16 -> <<0, X>> [] OTHER -> <<>>

\* What shows the base is read before the digits.
LEMMA PrefixRead ==
  ASSUME NEW text \in Texts, NEW st, ReadAlong(st, text), NEW n, Spelt(n), NEW k, NEW parts,
         Reads(text, k, Prefix(n)), AtFirst(st[k], parts)
  PROVE  AtDigit(st[k + Len(Prefix(n))], n, 0, parts)
<1>1. n \in Number /\ n.base \in {8, 10, 16}
  BY DEF Spelt, Number
<1>2. Values(n)[0] = 0
  BY <1>1, ValuesExist DEF Valued
<1>3. Wrapped(0) = 0
  <2>1. 0 \in Nat /\ 0 < 65536
    OBVIOUS
  <2> QED
    BY <2>1, WrappedType
<1>4. k \in Nat /\ st[k].at = "first" /\ st[k].parts = parts
  BY DEF Reads, AtFirst
<1>5. CASE n.base = 10
  <2>1. Prefix(n) = <<>>
    BY <1>5 DEF Prefix
  <2>2. k + Len(Prefix(n)) = k
    BY <1>4, <2>1
  <2> QED
    BY <1>4, <1>5, <2>2 DEF AtDigit
<1>6. CASE n.base # 10
  <2>1. /\ Len(Prefix(n)) >= 1 /\ Prefix(n)[1] = 0 /\ Len(Prefix(n)) \in Nat
    BY <1>1, <1>6 DEF Prefix
  <2>2. k + 1 <= Len(text) /\ text[k + 1] = 0
    <3>1. k + Len(Prefix(n)) <= Len(text) /\ \A j \in 1..Len(Prefix(n)) : text[k + j] = Prefix(n)[j]
      BY DEF Reads
    <3>2. Len(text) \in Nat /\ 1 \in 1..Len(Prefix(n))
      BY <2>1 DEF Texts
    <3> QED
      BY <1>4, <2>1, <3>1, <3>2
  <2>3. st[k + 1] = Ip4Char(st[k], 0) /\ st[k] \in Reads4 /\ st[k + 1] \in Reads4
    BY <1>4, <2>2, ScansOn
  <2>4. st[k + 1] = [st[k] EXCEPT !.at = "zero", !.base = 8, !.val = 0]
    <3>1. st[k + 1] = FirstChar(st[k], 0)
      BY <1>4, <2>3, Zenon DEF Ip4Char
    <3> QED
      BY <3>1 DEF FirstChar
  <2>5. st[k + 1].at = "zero" /\ st[k + 1].base = 8 /\ st[k + 1].val = 0 /\ st[k + 1].parts = parts
    BY <1>4, <2>3, <2>4 DEF Reads4
  <2>6. CASE n.base = 8
    <3>1. Len(Prefix(n)) = 1
      BY <2>6 DEF Prefix
    <3> QED
      BY <1>2, <1>3, <2>5, <2>6, <3>1 DEF AtDigit
  <2>7. CASE n.base = 16
    <3>1. Len(Prefix(n)) = 2 /\ Prefix(n)[2] = X
      BY <2>7 DEF Prefix
    <3>2. (k + 1) + 1 <= Len(text) /\ text[(k + 1) + 1] = X /\ k + 1 \in Nat
      <4>1. k + Len(Prefix(n)) <= Len(text) /\ \A j \in 1..Len(Prefix(n)) : text[k + j] = Prefix(n)[j]
        BY DEF Reads
      <4>2. Len(text) \in Nat /\ 2 \in 1..Len(Prefix(n)) /\ k + 2 = (k + 1) + 1
        BY <1>4, <3>1 DEF Texts
      <4> QED
        BY <1>4, <3>1, <4>1, <4>2
    <3>3. st[(k + 1) + 1] = Ip4Char(st[k + 1], X)
      BY <3>2, ScansOn
    <3>4. st[(k + 1) + 1] = [st[k + 1] EXCEPT !.at = "number", !.base = 16]
      <4>1. st[k + 1].at # "first" /\ st[k + 1].at = "zero"
        BY <2>5
      <4> QED
        BY <3>3, <4>1, Zenon DEF Ip4Char
    <3>5. /\ st[k + 2].at = "number" /\ st[k + 2].base = 16 /\ st[k + 2].val = 0
          /\ st[k + 2].parts = parts
      <4>1. k + 2 = (k + 1) + 1
        BY <1>4
      <4> QED
        BY <2>3, <2>5, <3>4, <4>1 DEF Reads4
    <3> QED
      BY <1>2, <1>3, <2>7, <3>1, <3>5 DEF AtDigit
  <2> QED
    BY <1>1, <1>6, <2>6, <2>7
<1> QED
  BY <1>5, <1>6

\* A number is read as its value, in a word.
LEMMA NumberTaken ==
  ASSUME NEW text \in Texts, NEW st, ReadAlong(st, text), NEW n, Spelt(n), NEW k, NEW parts,
         Reads(text, k, TextOfNumber(n)), AtFirst(st[k], parts)
  PROVE  AtNumber(st[k + Len(TextOfNumber(n))], n, parts)
<1> DEFINE u == Prefix(n)
           v == n.digits
<1>1. n \in Number /\ n.base \in {8, 10, 16} /\ v \in Seq(Digit)
  BY DEF Spelt, Number
<1>2. TextOfNumber(n) = u \o v
  BY DEF TextOfNumber, Prefix
<1>3. u \in Texts /\ v \in Texts
  <2>1. v \in Texts
    BY <1>1 DEF Digit, Texts
  <2>2. <<0>> \in Texts /\ <<0, X>> \in Texts /\ <<>> \in Texts
    BY DEF Texts, X
  <2>3. u \in Texts
    BY <2>2, Zenon DEF Prefix
  <2> QED
    BY <2>1, <2>3
<1>4. Reads(text, k, u) /\ Reads(text, k + Len(u), v)
  BY <1>2, <1>3, ReadsParts
<1>5. AtDigit(st[k + Len(u)], n, 0, parts)
  BY <1>4, PrefixRead
<1>6. AtDigit(st[(k + Len(u)) + Len(v)], n, Len(v), parts)
  BY <1>4, <1>5, DigitsRead
<1>7. k + Len(TextOfNumber(n)) = (k + Len(u)) + Len(v) /\ Len(v) \in Nat
  <2>1. k \in Nat
    BY DEF Reads
  <2>2. Len(u \o v) = Len(u) + Len(v) /\ Len(u) \in Nat /\ Len(v) \in Nat
    BY <1>3 DEF Texts
  <2>3. PICK a \in Nat, b \in Nat : a = Len(u) /\ b = Len(v)
    BY <2>2
  <2>4. k + (a + b) = (k + a) + b
    BY <2>1
  <2>5. Len(TextOfNumber(n)) = a + b
    BY <1>2, <2>2, <2>3
  <2> HIDE DEF u, v
  <2> QED
    BY <2>3, <2>4, <2>5
<1>8. Len(v) = 0 <=> v = <<>>
  BY <1>1
<1>9. ~(n.base = 10 /\ Len(v) = 0)
  BY <1>8 DEF Spelt
<1>10. Values(n)[Len(v)] = ValueOf(n)
  BY <1>1, ValuesExist DEF Valued
<1> HIDE DEF u, v
<1>11. AtDigit(st[k + Len(TextOfNumber(n))], n, Len(v), parts)
  BY <1>6, <1>7
<1> QED
  BY <1>8, <1>9, <1>10, <1>11 DEF AtDigit, AtNumber, v

\* Where each number of a text ends.
EndOf(ns, i) == Len(DottedText(ns)[i])

\* Numbers with dots between them are in a text.
Dotted(text, ns) ==
  /\ text \in Texts /\ EndOf(ns, 0) = 0 /\ Len(ns) \in Nat
  /\ \A i \in 0..Len(ns) : EndOf(ns, i) \in Nat /\ EndOf(ns, i) <= Len(text)
  /\ \A i \in 1..Len(ns) :
       /\ Reads(text, EndOf(ns, i - 1), DotBefore(i) \o TextOfNumber(ns[i]))
       /\ EndOf(ns, i) = EndOf(ns, i - 1) + Len(DotBefore(i) \o TextOfNumber(ns[i]))

\* The text of numbers holds each of them, whatever follows.
LEMMA TextDotted ==
  ASSUME NEW ns \in Seq(Number), NEW tail \in Texts, NEW text, text = Ip4Text(ns, tail)
  PROVE  Dotted(text, ns)
<1> DEFINE d == DottedText(ns)
           N == Len(ns)
           u(i) == DotBefore(i) \o TextOfNumber(ns[i])
<1>1. /\ d[0] = <<>> /\ \A i \in 0..N : d[i] \in Texts
      /\ \A i \in 1..N : d[i] = (d[i - 1] \o DotBefore(i)) \o TextOfNumber(ns[i])
  BY JoinedExists DEF Joined
<1>2. N \in Nat /\ text = d[N] \o tail
  BY DEF Ip4Text
<1>3. ASSUME NEW i \in 1..N
      PROVE  /\ u(i) \in Texts /\ d[i] = d[i - 1] \o u(i) /\ d[i - 1] \in Texts
  <2>1. TextOfNumber(ns[i]) \in Texts
    BY TextOfType
  <2>2. <<Dot>> \in Texts /\ <<>> \in Texts
    BY DEF Texts, Dot
  <2>3. DotBefore(i) \in Texts
    BY <2>2 DEF DotBefore
  <2>4. i - 1 \in 0..N
    BY <1>2
  <2>5. d[i - 1] \in Texts
    BY <1>1, <2>4
  <2>6. (d[i - 1] \o DotBefore(i)) \o TextOfNumber(ns[i]) = d[i - 1] \o u(i)
    <3>1. PICK a \in Seq(Char), b \in Seq(Char), c \in Seq(Char) :
            a = d[i - 1] /\ b = DotBefore(i) /\ c = TextOfNumber(ns[i])
      BY <2>1, <2>3, <2>5 DEF Texts, Char
    <3>2. (a \o b) \o c = a \o (b \o c)
      BY ConcatAssociative
    <3> QED
      BY <3>1, <3>2
  <2>7. u(i) \in Texts
    BY <2>1, <2>3 DEF Texts
  <2> QED
    BY <1>1, <2>5, <2>6, <2>7
<1> HIDE DEF d, N, u
<1>4. ASSUME NEW i \in 1..N
      PROVE  /\ Begins(d[i - 1], d[i]) /\ Len(d[i]) = Len(d[i - 1]) + Len(u(i))
             /\ Len(u(i)) \in Nat /\ Len(d[i - 1]) \in Nat
             /\ \A j \in 1..Len(u(i)) : d[i][Len(d[i - 1]) + j] = u(i)[j]
  <2> DEFINE s == d[i - 1]
             v == u(i)
  <2>1. v \in Texts /\ s \in Texts /\ d[i] = s \o v
    BY <1>3
  <2> HIDE DEF s, v
  <2>2. Begins(s, s \o v)
    BY <2>1, BeginsLonger
  <2>3. Len(s \o v) = Len(s) + Len(v) /\ Len(v) \in Nat /\ Len(s) \in Nat
    BY <2>1 DEF Texts
  <2>4. \A j \in 1..Len(v) : (s \o v)[Len(s) + j] = v[j]
    BY <2>1, <2>3 DEF Texts
  <2> QED
    BY <2>1, <2>2, <2>3, <2>4 DEF s, v
<1>5. text \in Texts
  <2>1. N \in 0..N
    BY <1>2
  <2>2. d[N] \in Texts
    BY <1>1, <2>1
  <2> QED
    BY <1>2, <2>2 DEF Texts
<1>6. ASSUME NEW i \in 0..N PROVE Begins(d[i], text)
  <2> DEFINE T == {k \in 0..N : Begins(d[N - k], text)}
  <2>1. 0 \in T
    <3>1. N \in 0..N /\ N - 0 = N /\ 0 \in 0..N
      BY <1>2
    <3>2. d[N] \in Texts
      BY <1>1, <3>1
    <3>3. Begins(d[N], text)
      BY <1>2, <3>2, BeginsLonger
    <3> QED
      BY <3>1, <3>3
  <2>2. ASSUME NEW k \in 0..(N - 1), k \in T PROVE k + 1 \in T
    <3>1. PICK m \in 1..N : m = N - k
      BY <1>2
    <3>2. N - (k + 1) = m - 1 /\ m - 1 \in 0..N /\ m \in 0..N /\ k + 1 \in 0..N
      BY <1>2, <3>1
    <3>3. Begins(d[m - 1], d[m]) /\ Begins(d[m], text)
      BY <1>4, <2>2, <3>1
    <3>4. d[m - 1] \in Texts /\ d[m] \in Texts
      BY <1>1, <3>2
    <3>5. Begins(d[m - 1], text)
      BY <1>5, <3>3, <3>4, BeginsLonger
    <3> QED
      BY <3>2, <3>5
  <2> HIDE DEF T
  <2>3. \A k \in 0..N : k \in T
    BY <1>2, <2>1, <2>2, UpTo
  <2>4. N - i \in 0..N /\ N - (N - i) = i
    BY <1>2
  <2>5. N - i \in T
    BY <2>3, <2>4
  <2> QED
    BY <2>4, <2>5 DEF T
<1>7. \A i \in 0..N : Len(d[i]) \in Nat /\ Len(d[i]) <= Len(text)
  <2> TAKE i \in 0..N
  <2>1. d[i] \in Texts
    BY <1>1
  <2>2. Len(d[i]) \in Nat
    BY <2>1 DEF Texts
  <2> QED
    BY <1>6, <2>2 DEF Begins
<1>8. ASSUME NEW i \in 1..N PROVE Reads(text, Len(d[i - 1]), u(i))
  <2>1. i \in 0..N
    BY <1>2
  <2>2. Len(d[i]) <= Len(text) /\ \A j \in 1..Len(d[i]) : text[j] = d[i][j]
    BY <1>6, <2>1 DEF Begins
  <2>3. /\ Len(d[i]) = Len(d[i - 1]) + Len(u(i)) /\ Len(u(i)) \in Nat /\ Len(d[i - 1]) \in Nat
        /\ \A j \in 1..Len(u(i)) : d[i][Len(d[i - 1]) + j] = u(i)[j]
    BY <1>4
  <2>4. \A j \in 1..Len(u(i)) : Len(d[i - 1]) + j \in 1..Len(d[i])
    BY <2>3
  <2> QED
    BY <2>2, <2>3, <2>4 DEF Reads
<1>9. Len(d[0]) = 0
  BY <1>1
<1> QED
  BY <1>2, <1>4, <1>5, <1>7, <1>8, <1>9 DEF Dotted, EndOf, d, N, u

\* An error ends the scan.
LEMMA BadStays ==
  ASSUME NEW text \in Texts, NEW st, ReadAlong(st, text), NEW p \in Nat, NEW q \in Nat,
         p <= q, q <= Len(text), st[p].at \in {"bad", "end"}
  PROVE  st[q] = st[p]
<1> DEFINE T == {k \in 0..(q - p) : st[p + k] = st[p]}
<1>1. 0 \in T
  OBVIOUS
<1>2. ASSUME NEW k \in 0..((q - p) - 1), k \in T PROVE k + 1 \in T
  <2>1. PICK m \in Nat : m = p + k
    OBVIOUS
  <2>2. m + 1 = p + (k + 1) /\ k + 1 \in 0..(q - p) /\ m + 1 <= Len(text)
    <3>1. Len(text) \in Nat
      BY DEF Texts
    <3> QED
      BY <2>1, <3>1
  <2>3. st[m + 1] = Ip4Char(st[m], text[m + 1])
    BY <2>2, ScansOn
  <2>4. st[m] = st[p]
    BY <1>2, <2>1
  <2>5. st[m].at \in {"bad", "end"}
    BY <2>4
  <2>6. st[m + 1] = st[m]
    BY <2>3, <2>5 DEF Ip4Char
  <2> QED
    BY <2>2, <2>4, <2>6
<1> HIDE DEF T
<1>3. q - p \in Nat
  OBVIOUS
<1>4. \A k \in 0..(q - p) : k \in T
  BY <1>1, <1>2, <1>3, UpTo
<1>5. q - p \in T /\ p + (q - p) = q
  BY <1>3, <1>4
<1> QED
  BY <1>5 DEF T

\* A dot: another number, or one too many.
LEMMA DotRead ==
  ASSUME NEW s \in Reads4, NEW n, NEW parts, AtNumber(s, n, parts)
  PROVE  /\ Len(parts) < 3 =>
              AtFirst(Ip4Char(s, Dot), Append(parts, Wrapped(ValueOf(n))))
         /\ Len(parts) >= 3 => Ip4Char(s, Dot).at = "bad"
<1>1. /\ s.at \in {"zero", "number"} /\ s.val = Wrapped(ValueOf(n)) /\ s.parts = parts
      /\ Len(parts) \in Nat
  BY DEF AtNumber, Reads4
<1>2. Dot # X /\ Dot \notin 0..9 /\ Dot \notin 10..15
  BY DEF Dot, X
<1>3. Ip4Char(s, Dot) = IF Len(s.parts) >= 3 THEN [s EXCEPT !.at = "bad"]
                        ELSE [s EXCEPT !.at = "first", !.parts = Append(s.parts, s.val)]
  <2>1. Ip4Char(s, Dot) = NumberChar(s, Dot)
    BY <1>1, <1>2 DEF Ip4Char
  <2> QED
    BY <1>2, <2>1, Zenon DEF NumberChar
<1> QED
  BY <1>1, <1>3 DEF Reads4, AtFirst

\* Numbers as Ip4Assumption has them.
AllSpelt(ns) == ns \in Seq(Number) /\ ns # <<>> /\ \A i \in 1..Len(ns) : Spelt(ns[i])

\* The values of the first numbers, in a word.
Parts(ns, n) == [k \in 1..n |-> Wrapped(ValueOf(ns[k]))]

\* They are numbers below a word, and each number adds its own.
LEMMA PartsType ==
  ASSUME NEW ns, AllSpelt(ns), NEW i \in 1..Len(ns)
  PROVE  /\ Parts(ns, i - 1) \in Seq(Nat) /\ Len(Parts(ns, i - 1)) = i - 1
         /\ Wrapped(ValueOf(ns[i])) \in Nat /\ Wrapped(ValueOf(ns[i])) < Word
         /\ Append(Parts(ns, i - 1), Wrapped(ValueOf(ns[i]))) = Parts(ns, i)
<1>1. Len(ns) \in Nat
  BY DEF AllSpelt
<1>2. ASSUME NEW k \in 1..Len(ns)
      PROVE  Wrapped(ValueOf(ns[k])) \in Nat /\ Wrapped(ValueOf(ns[k])) < Word
  <2> DEFINE m == ns[k]
  <2>1. m \in Number
    BY DEF AllSpelt, Spelt
  <2> HIDE DEF m
  <2>2. Valued(Values(m), m)
    BY <2>1, ValuesExist
  <2>3. Len(m.digits) \in 0..Len(m.digits)
    <3>1. m.digits \in Seq(Digit)
      BY <2>1 DEF Number
    <3> QED
      BY <3>1
  <2>4. ValueOf(m) \in Nat
    BY <2>2, <2>3 DEF Valued
  <2>5. Wrapped(ValueOf(m)) \in Nat /\ Wrapped(ValueOf(m)) < Word
    BY <2>4, WrappedType
  <2> QED
    BY <2>5 DEF m
<1> DEFINE s == Parts(ns, i - 1)
           t == Parts(ns, i)
           v == Wrapped(ValueOf(ns[i]))
<1>3. \A k \in 1..(i - 1) : k \in 1..Len(ns)
  BY <1>1
<1>4. s \in Seq(Nat) /\ Len(s) = i - 1 /\ \A k \in 1..(i - 1) : s[k] = Wrapped(ValueOf(ns[k]))
  BY <1>2, <1>3 DEF Parts
<1>5. t \in Seq(Nat) /\ Len(t) = i /\ \A k \in 1..i : t[k] = Wrapped(ValueOf(ns[k]))
  <2>1. \A k \in 1..i : k \in 1..Len(ns)
    BY <1>1
  <2> QED
    BY <1>2, <2>1 DEF Parts
<1>6. v \in Nat /\ v < Word
  BY <1>2
<1> HIDE DEF s, t
<1>7. Append(s, v) = t
  <2>1. Append(s, v) \in Seq(Nat) /\ Len(Append(s, v)) = i
    BY <1>4, <1>6
  <2>2. ASSUME NEW k \in 1..i PROVE Append(s, v)[k] = t[k]
    <3>1. CASE k = i
      BY <1>4, <1>5, <1>6, <3>1
    <3>2. CASE k # i
      <4>1. k \in 1..(i - 1) /\ k \in 1..Len(s)
        BY <1>4, <3>2
      <4>2. Append(s, v)[k] = s[k]
        BY <1>4, <1>6, <4>1
      <4> QED
        BY <1>4, <1>5, <4>1, <4>2
    <3> QED
      BY <3>1, <3>2
  <2> QED
    BY <1>5, <2>1, <2>2, SeqEqual
<1> QED
  BY <1>4, <1>6, <1>7 DEF s, t

\* Where the scan is at the end of each number: more than four are an error.
Ended(st, ns, i) ==
  /\ i <= 4 => AtNumber(st[EndOf(ns, i)], ns[i], Parts(ns, i - 1))
  /\ i > 4 => st[EndOf(ns, i)].at = "bad"

\* The first number is read.
LEMMA FirstEnded ==
  ASSUME NEW text, NEW st, ReadAlong(st, text), NEW ns, AllSpelt(ns), Dotted(text, ns)
  PROVE  Ended(st, ns, 1)
<1> DEFINE u == TextOfNumber(ns[1])
<1>1. Len(ns) \in Nat /\ 1 \in 1..Len(ns) /\ 1 - 1 = 0
  BY DEF AllSpelt
<1>2. text \in Texts /\ EndOf(ns, 0) = 0
  BY DEF Dotted
<1>3. /\ Reads(text, 0, DotBefore(1) \o u)
      /\ EndOf(ns, 1) = 0 + Len(DotBefore(1) \o u)
  BY <1>1, <1>2 DEF Dotted
<1>4. u \in Texts /\ Spelt(ns[1])
  BY <1>1, TextOfType DEF AllSpelt
<1> HIDE DEF u
<1>5. DotBefore(1) \o u = u
  <2>1. DotBefore(1) = <<>>
    BY DEF DotBefore
  <2>2. <<>> \o u = u
    <3>1. PICK a \in Seq(Char) : a = u
      BY <1>4 DEF Texts, Char
    <3> QED
      BY <3>1, ConcatEmptySeq
  <2> QED
    BY <2>1, <2>2
<1>6. AtFirst(st[0], <<>>)
  BY DEF ReadAlong, Ip4Begin, AtFirst
<1>7. Parts(ns, 0) = <<>>
  <2>1. Parts(ns, 1 - 1) \in Seq(Nat) /\ Len(Parts(ns, 1 - 1)) = 1 - 1
    BY <1>1, PartsType
  <2> QED
    BY <1>1, <2>1
<1>8. AtNumber(st[0 + Len(u)], ns[1], <<>>)
  <2>1. Reads(text, 0, TextOfNumber(ns[1]))
    BY <1>3, <1>5 DEF u
  <2> QED
    BY <1>2, <1>4, <1>6, <2>1, NumberTaken DEF u
<1>9. ~(1 > 4)
  OBVIOUS
<1> QED
  BY <1>1, <1>3, <1>5, <1>7, <1>8, <1>9 DEF Ended

\* The next number is read, up to the fourth.
LEMMA NextEnded ==
  ASSUME NEW text, NEW st, ReadAlong(st, text), NEW ns, AllSpelt(ns), Dotted(text, ns),
         NEW i \in 2..Len(ns), Ended(st, ns, i - 1)
  PROVE  Ended(st, ns, i)
<1> DEFINE u == TextOfNumber(ns[i])
           q == EndOf(ns, i - 1)
<1>1. Len(ns) \in Nat /\ i \in 1..Len(ns) /\ i - 1 \in 1..Len(ns) /\ i - 1 \in 0..Len(ns) /\ i > 1 /\ i \in Nat
      /\ i \in 0..Len(ns)
  BY DEF AllSpelt
<1>2. /\ text \in Texts /\ q \in Nat /\ q <= Len(text) /\ Len(text) \in Nat
      /\ EndOf(ns, i) \in Nat /\ EndOf(ns, i) <= Len(text)
  BY <1>1 DEF Dotted, Texts
<1>3. /\ Reads(text, q, DotBefore(i) \o u)
      /\ EndOf(ns, i) = q + Len(DotBefore(i) \o u)
  BY <1>1 DEF Dotted
<1>4. u \in Texts /\ Spelt(ns[i])
  BY <1>1, TextOfType DEF AllSpelt, Spelt
<1>5. DotBefore(i) = <<Dot>> /\ <<Dot>> \in Texts
  BY <1>1 DEF DotBefore, Texts, Dot
<1> HIDE DEF u, q
<1>6. Len(<<Dot>> \o u) = 1 + Len(u) /\ Len(u) \in Nat
  BY <1>4, <1>5 DEF Texts
<1>7. Reads(text, q, <<Dot>>) /\ Reads(text, q + 1, u) /\ EndOf(ns, i) = (q + 1) + Len(u)
  <2>1. Reads(text, q, <<Dot>> \o u)
    BY <1>3, <1>5
  <2>2. Reads(text, q, <<Dot>>) /\ Reads(text, q + Len(<<Dot>>), u)
    BY <1>2, <1>4, <1>5, <2>1, ReadsParts
  <2>3. Len(<<Dot>>) = 1
    OBVIOUS
  <2>4. q + (1 + Len(u)) = (q + 1) + Len(u)
    BY <1>2, <1>6
  <2> QED
    BY <1>3, <1>5, <1>6, <2>2, <2>3, <2>4
<1>8. q + 1 <= Len(text) /\ text[q + 1] = Dot
  <2>1. Len(<<Dot>>) = 1 /\ 1 \in 1..Len(<<Dot>>) /\ <<Dot>>[1] = Dot
    OBVIOUS
  <2> QED
    BY <1>7, <2>1 DEF Reads
<1>9. st[q + 1] = Ip4Char(st[q], Dot) /\ st[q] \in Reads4
  BY <1>2, <1>8, ScansOn
<1>10. CASE i <= 4
  <2> DEFINE parts == Parts(ns, (i - 1) - 1)
             v == Wrapped(ValueOf(ns[i - 1]))
  <2>1. AtNumber(st[q], ns[i - 1], parts)
    <3>1. i - 1 <= 4
      BY <1>1, <1>10
    <3> QED
      BY <3>1 DEF Ended, q
  <2>2. Len(parts) = (i - 1) - 1 /\ Append(parts, v) = Parts(ns, i - 1)
    BY <1>1, PartsType
  <2> HIDE DEF parts
  <2>3. Len(parts) < 3
    BY <1>1, <1>10, <2>2
  <2>4. AtFirst(st[q + 1], Parts(ns, i - 1))
    BY <1>9, <2>1, <2>2, <2>3, DotRead
  <2>5. AtNumber(st[(q + 1) + Len(u)], ns[i], Parts(ns, i - 1))
    <3>1. Reads(text, q + 1, TextOfNumber(ns[i]))
      BY <1>7 DEF u
    <3> QED
      BY <1>2, <1>4, <2>4, <3>1, NumberTaken DEF u
  <2>6. ~(i > 4)
    BY <1>1, <1>10
  <2> QED
    BY <1>7, <2>5, <2>6 DEF Ended
<1>11. CASE i > 4
  <2>1. st[q + 1].at = "bad"
    <3>1. CASE i = 5
      <4>1. i - 1 = 4 /\ i - 1 <= 4 /\ (i - 1) - 1 = 3
        BY <3>1
      <4> DEFINE parts == Parts(ns, (i - 1) - 1)
      <4>2. AtNumber(st[q], ns[i - 1], parts)
        BY <4>1 DEF Ended, q
      <4>3. Len(parts) = (i - 1) - 1
        BY <1>1, PartsType
      <4> HIDE DEF parts
      <4>4. Len(parts) >= 3
        BY <4>1, <4>3
      <4> QED
        BY <1>9, <4>2, <4>4, DotRead
    <3>2. CASE i # 5
      <4>1. i - 1 > 4
        BY <1>1, <1>11, <3>2
      <4>2. st[q].at = "bad"
        BY <4>1 DEF Ended, q
      <4>3. Ip4Char(st[q], Dot) = st[q]
        BY <4>2 DEF Ip4Char
      <4> QED
        BY <1>9, <4>2, <4>3
    <3> QED
      BY <3>1, <3>2
  <2>2. st[EndOf(ns, i)] = st[q + 1]
    <3>1. q + 1 \in Nat /\ q + 1 <= EndOf(ns, i)
      BY <1>2, <1>6, <1>7
    <3> QED
      BY <1>2, <2>1, <3>1, BadStays
  <2>3. ~(i <= 4)
    BY <1>1, <1>11
  <2> QED
    BY <2>1, <2>2, <2>3 DEF Ended
<1> QED
  BY <1>1, <1>10, <1>11

\* Every number is read.
LEMMA NumbersRead ==
  ASSUME NEW text, NEW st, ReadAlong(st, text), NEW ns, AllSpelt(ns), Dotted(text, ns)
  PROVE  Ended(st, ns, Len(ns))
<1> DEFINE N == Len(ns)
           T == {k \in 0..(N - 1) : Ended(st, ns, k + 1)}
<1>1. N \in Nat /\ N > 0 /\ N - 1 \in Nat
  BY DEF AllSpelt
<1> HIDE DEF N
<1>2. 0 \in T
  <2>1. 0 + 1 = 1 /\ 0 \in 0..(N - 1)
    BY <1>1
  <2>2. Ended(st, ns, 1)
    BY FirstEnded
  <2> QED
    BY <2>1, <2>2
<1>3. ASSUME NEW k \in 0..((N - 1) - 1), k \in T PROVE k + 1 \in T
  <2>1. PICK i \in 2..N : i = (k + 1) + 1
    BY <1>1
  <2>2. i - 1 = k + 1 /\ k + 1 \in 0..(N - 1)
    BY <1>1, <2>1
  <2>3. Ended(st, ns, i - 1)
    BY <1>3, <2>2
  <2>4. Ended(st, ns, i)
    BY <2>3, NextEnded DEF N
  <2> QED
    BY <2>1, <2>2, <2>4
<1> HIDE DEF T
<1>4. \A k \in 0..(N - 1) : k \in T
  BY <1>1, <1>2, <1>3, UpTo
<1>5. N - 1 \in T /\ (N - 1) + 1 = N
  BY <1>1, <1>4
<1> QED
  BY <1>5 DEF T, N

\* The weights of a word.
Weigh(B, W2, W3, W4) ==
  \/ B = 16 /\ W2 = 256 /\ W3 = 4096 /\ W4 = 65536
  \/ B = 256 /\ W2 = 65536 /\ W3 = 16777216 /\ W4 = 4294967296

\* The weights of both words.
Scale == {16, 256, 4096, 65536, 16777216, 4294967296}

\* Division undoes a product and what is added below it.
LEMMA Divided ==
  ASSUME NEW K \in Scale, NEW y \in Nat, NEW z \in Nat, z < K, NEW x, x = y * K + z
  PROVE  x \div K = y /\ x % K = z
<1>0. K = 16 \/ K = 256 \/ K = 4096 \/ K = 65536 \/ K = 16777216 \/ K = 4294967296
  BY DEF Scale
<1>1. CASE K = 16
  BY <1>1
<1>2. CASE K = 256
  BY <1>2
<1>3. CASE K = 4096
  BY <1>3
<1>4. CASE K = 65536
  BY <1>4
<1>5. CASE K = 16777216
  BY <1>5
<1>6. CASE K = 4294967296
  BY <1>6
<1> QED
  BY <1>0, <1>1, <1>2, <1>3, <1>4, <1>5, <1>6

\* A product of weights.
LEMMA WeighFacts ==
  ASSUME NEW B, NEW W2, NEW W3, NEW W4, Weigh(B, W2, W3, W4)
  PROVE  /\ B \in Scale /\ W2 \in Scale /\ W3 \in Scale /\ W4 \in Scale
         /\ B \in Nat /\ W2 \in Nat /\ W3 \in Nat /\ W4 \in Nat
BY DEF Weigh, Scale

\* A byte and what fills the places behind it stay below the next weight.
LEMMA Below ==
  ASSUME NEW B, NEW W2, NEW W3, NEW W4, Weigh(B, W2, W3, W4), NEW a \in Nat, a < B
  PROVE  /\ \A d \in Nat : d < B => a * B + d \in Nat /\ a * B + d < W2
         /\ \A d \in Nat : d < W2 => a * W2 + d \in Nat /\ a * W2 + d < W3
         /\ \A d \in Nat : d < W3 => a * W3 + d \in Nat /\ a * W3 + d < W4
<1>1. CASE B = 16 /\ W2 = 256 /\ W3 = 4096 /\ W4 = 65536
  BY <1>1
<1>2. CASE B = 256 /\ W2 = 65536 /\ W3 = 16777216 /\ W4 = 4294967296
  BY <1>2
<1> QED
  BY <1>1, <1>2 DEF Weigh

\* The weights are the powers of the first.
LEMMA Factors ==
  ASSUME NEW B, NEW W2, NEW W3, NEW W4, Weigh(B, W2, W3, W4), NEW a \in Nat
  PROVE  a * B \in Nat /\ a * W2 = (a * B) * B /\ a * W3 = (a * B) * W2 /\ a * W3 = (a * W2) * B
         /\ a * W2 \in Nat /\ a * W3 \in Nat
         /\ \A b \in Nat : /\ (a * B + b) * B = a * W2 + b * B
                           /\ (a * B + b) * W2 = a * W3 + b * W2
                           /\ (a * W2 + b) * B = a * W3 + b * B
<1>1. CASE B = 16 /\ W2 = 256 /\ W3 = 4096 /\ W4 = 65536
  BY <1>1
<1>2. CASE B = 256 /\ W2 = 65536 /\ W3 = 16777216 /\ W4 = 4294967296
  BY <1>2
<1> QED
  BY <1>1, <1>2 DEF Weigh

\* What is below a weight is its own remainder.
LEMMA Itself ==
  ASSUME NEW K \in Scale, NEW a \in Nat, a < K
  PROVE  a % K = a
<1>1. K \in Nat
  BY DEF Scale
<1>2. PICK y \in Nat : y = 0
  OBVIOUS
<1>3. a = y * K + a
  BY <1>1, <1>2
<1> QED
  BY <1>2, <1>3, Divided

\* The word that bytes make, or bytes and what fills the places of the others.
FourMake(x, a, b, c, d, B, W2, W3) == x = a * W3 + b * W2 + c * B + d

\* Two bytes and what fills the places of the others.
ThreeMake(x, a, b, d, W2, W3) == x = a * W3 + b * W2 + d

\* One byte and what fills the places of the others.
TwoMake(x, a, d, W3) == x = a * W3 + d

\* The bytes of a word are found in it.
LEMMA TwoBytes ==
  ASSUME NEW B, NEW W2, NEW W3, NEW W4, Weigh(B, W2, W3, W4),
         NEW a \in Nat, NEW d \in Nat, a < B, d < W3, NEW x, TwoMake(x, a, d, W3)
  PROVE  x \in Nat /\ x < W4 /\ (x \div W3) % B = a /\ x % W3 = d
<1>1. B \in Scale /\ W3 \in Scale
  BY WeighFacts
<1>2. x = a * W3 + d
  BY DEF TwoMake
<1>3. x \in Nat /\ x < W4
  BY <1>2, Below
<1>4. x \div W3 = a /\ x % W3 = d
  BY <1>1, <1>2, Divided
<1>5. a % B = a
  BY <1>1, Itself
<1> QED
  BY <1>3, <1>4, <1>5

\* Two bytes are found in the word, and so is the rest.
LEMMA ThreeBytes ==
  ASSUME NEW B, NEW W2, NEW W3, NEW W4, Weigh(B, W2, W3, W4),
         NEW a \in Nat, NEW b \in Nat, NEW d \in Nat, a < B, b < B, d < W2,
         NEW x, ThreeMake(x, a, b, d, W2, W3)
  PROVE  /\ x \in Nat /\ x < W4
         /\ (x \div W3) % B = a /\ (x \div W2) % B = b /\ x % W2 = d
<1>1. B \in Scale /\ W2 \in Scale /\ W3 \in Scale /\ B \in Nat /\ W2 \in Nat /\ W3 \in Nat
  BY WeighFacts
<1>2. PICK r \in Nat : r = b * W2 + d /\ r < W3
  <2>1. \A e \in Nat : e < W2 => b * W2 + e \in Nat /\ b * W2 + e < W3
    BY Below
  <2> QED
    BY <2>1
<1>3. a * W3 \in Nat /\ b * W2 \in Nat
  BY Factors
<1>4. TwoMake(x, a, r, W3)
  BY <1>2, <1>3 DEF TwoMake, ThreeMake
<1>5. x \in Nat /\ x < W4 /\ (x \div W3) % B = a
  BY <1>2, <1>4, TwoBytes
<1>6. PICK y \in Nat : y = a * B + b
  BY Factors
<1>7. x = y * W2 + d
  <2>1. \A e \in Nat : (a * B + e) * W2 = a * W3 + e * W2
    BY Factors
  <2>2. y * W2 = a * W3 + b * W2
    BY <1>6, <2>1
  <2> QED
    BY <2>2 DEF ThreeMake
<1>8. x \div W2 = y /\ x % W2 = d
  BY <1>1, <1>7, Divided
<1>9. y % B = b
  BY <1>1, <1>6, Divided
<1> QED
  BY <1>5, <1>8, <1>9

\* Four bytes are found in the word.
LEMMA FourBytes ==
  ASSUME NEW B, NEW W2, NEW W3, NEW W4, Weigh(B, W2, W3, W4),
         NEW a \in Nat, NEW b \in Nat, NEW c \in Nat, NEW d \in Nat, a < B, b < B, c < B, d < B,
         NEW x, FourMake(x, a, b, c, d, B, W2, W3)
  PROVE  /\ x \in Nat /\ x < W4
         /\ (x \div W3) % B = a /\ (x \div W2) % B = b /\ (x \div B) % B = c /\ x % B = d
<1>1. B \in Scale /\ W2 \in Scale /\ W3 \in Scale /\ B \in Nat /\ W2 \in Nat /\ W3 \in Nat
  BY WeighFacts
<1>2. PICK r \in Nat : r = c * B + d /\ r < W2
  <2>1. \A e \in Nat : e < B => c * B + e \in Nat /\ c * B + e < W2
    BY Below
  <2> QED
    BY <2>1
<1>3. a * W3 \in Nat /\ b * W2 \in Nat /\ c * B \in Nat
  BY Factors
<1>4. ThreeMake(x, a, b, r, W2, W3)
  BY <1>2, <1>3 DEF FourMake, ThreeMake
<1>5. x \in Nat /\ x < W4 /\ (x \div W3) % B = a /\ (x \div W2) % B = b
  BY <1>2, <1>4, ThreeBytes
<1>6. PICK y \in Nat : y = a * B + b
  BY Factors
<1>7. PICK z \in Nat : z = y * B + c
  BY Factors
<1>8. x = z * B + d
  <2>1. y * W2 = a * W3 + b * W2
    <3>1. \A e \in Nat : (a * B + e) * W2 = a * W3 + e * W2
      BY Factors
    <3> QED
      BY <1>6, <3>1
  <2>2. z * B = y * W2 + c * B
    <3>1. \A e \in Nat : (y * B + e) * B = y * W2 + e * B
      BY Factors
    <3> QED
      BY <1>7, <3>1
  <2> QED
    BY <1>3, <2>1, <2>2 DEF FourMake
<1>9. x \div B = z /\ x % B = d
  BY <1>1, <1>8, Divided
<1>10. z % B = c
  BY <1>1, <1>7, Divided
<1> QED
  BY <1>5, <1>9, <1>10

\* A single number is the word.
LEMMA OneWord ==
  ASSUME NEW B, NEW W2, NEW W3, NEW W4, Weigh(B, W2, W3, W4), NEW d \in Nat, d < W4
  PROVE  d % W4 = d
<1>1. W4 \in Scale
  BY WeighFacts
<1> QED
  BY <1>1, Itself

\* What the scan says at the end of a text.
Accepts(s, last, parts) ==
  s.at \in {"zero", "number", "end"} /\ s.val = last /\ s.parts = parts

\* The text is not an address.
Refuses(s) == s.at \notin {"zero", "number", "end"}

\* The character behind a number.
LEMMA TailChar ==
  ASSUME NEW s \in Reads4, NEW n, NEW parts, AtNumber(s, n, parts)
  PROVE  /\ Ip4Char(s, Space) = [s EXCEPT !.at = "end"]
         /\ Ip4Char(s, Other).at = "bad"
         /\ n.base # 16 => Ip4Char(s, 10).at = "bad"
         /\ Refuses(Ip4Char(s, Dot))
<1>1. s.at \in {"zero", "number"} /\ s.base = n.base
  BY DEF AtNumber
<1>2. s.at # "first"
  BY <1>1
<1>3. /\ Space # X /\ Other # X /\ 10 # X /\ Space # Dot /\ Other # Dot /\ 10 # Dot /\ Other # Space
      /\ 10 # Space /\ Space \notin 0..15 /\ Other \notin 0..15 /\ 10 \notin 0..9
      /\ Space \notin 0..9 /\ Other \notin 0..9 /\ Space \notin 10..15 /\ Other \notin 10..15
  BY DEF Space, X, Other, Dot
<1>4. \A c : c # X => Ip4Char(s, c) = NumberChar(s, c)
  BY <1>1, <1>2, Zenon DEF Ip4Char
<1>5. NumberChar(s, Space) = [s EXCEPT !.at = IF Space = Space THEN "end" ELSE "bad"]
  BY <1>3, Zenon DEF NumberChar
<1>6. NumberChar(s, Other) = [s EXCEPT !.at = IF Other = Space THEN "end" ELSE "bad"]
  BY <1>3, Zenon DEF NumberChar
<1>7. n.base # 16 => NumberChar(s, 10) = [s EXCEPT !.at = IF 10 = Space THEN "end" ELSE "bad"]
  BY <1>1, <1>3, Zenon DEF NumberChar
<1>8. Refuses(Ip4Char(s, Dot))
  <2>1. Len(parts) \in Nat
    BY DEF AtNumber, Reads4
  <2>2. Ip4Char(s, Dot).at = "first" \/ Ip4Char(s, Dot).at = "bad"
    <3>1. CASE Len(parts) < 3
      BY <3>1, DotRead DEF AtFirst
    <3>2. CASE Len(parts) >= 3
      BY <3>2, DotRead
    <3> QED
      BY <2>1, <3>1, <3>2
  <2> QED
    BY <2>2 DEF Refuses
<1>9. Ip4Char(s, Space) = [s EXCEPT !.at = "end"]
  BY <1>3, <1>4, <1>5
<1>10. Ip4Char(s, Other).at = "bad"
  <2>1. Ip4Char(s, Other) = [s EXCEPT !.at = "bad"]
    BY <1>3, <1>4, <1>6
  <2> QED
    BY <2>1 DEF Reads4
<1>11. n.base # 16 => Ip4Char(s, 10).at = "bad"
  <2> HAVE n.base # 16
  <2>1. Ip4Char(s, 10) = [s EXCEPT !.at = "bad"]
    BY <1>3, <1>4, <1>7
  <2> QED
    BY <2>1 DEF Reads4
<1> QED
  BY <1>8, <1>9, <1>10, <1>11

\* The characters a text may go on with.
LEMMA TailTypes ==
  ASSUME NEW tail \in Tails
  PROVE  /\ tail \in Texts
         /\ \/ tail = <<>>
            \/ Len(tail) \in 1..2 /\ tail[1] = Space
            \/ Len(tail) = 1 /\ tail[1] \in {Other, Dot, 10} /\ tail[1] # Space
<1>1. Space \in Char /\ Other \in Char /\ Dot \in Char /\ 10 \in Char
  BY DEF Space, Other, Dot, Char
<1>2. Other # Space /\ Dot # Space /\ 10 # Space
  BY DEF Space, Other, Dot
<1>3. <<>> \in Seq(Char) /\ <<Space>> \in Seq(Char) /\ <<Space, Other>> \in Seq(Char)
      /\ <<Other>> \in Seq(Char) /\ <<Dot>> \in Seq(Char) /\ <<10>> \in Seq(Char)
  BY <1>1
<1>4. tail \in Seq(Char)
  BY <1>3 DEF Tails
<1>5. tail \in Texts
  BY <1>4 DEF Texts, Char
<1>6. tail \in {<<>>, <<Space>>, <<Space, Other>>, <<Other>>, <<Dot>>, <<10>>}
  BY DEF Tails
<1> QED
  BY <1>2, <1>5, <1>6

\* Up to four numbers and then the end or a space are accepted, nothing else is.
LEMMA TailRead ==
  ASSUME NEW ns, AllSpelt(ns), NEW tail \in Tails, ~DigitTail(ns, tail),
         NEW text, text = Ip4Text(ns, tail)
  PROVE  LET s == Ip4States(text)[Len(text)] N == Len(ns) IN
         /\ N <= 4 /\ (tail = <<>> \/ tail[1] = Space)
              => Accepts(s, Wrapped(ValueOf(ns[N])), Parts(ns, N - 1))
         /\ ~(N <= 4 /\ (tail = <<>> \/ tail[1] = Space)) => Refuses(s)
<1> DEFINE st == Ip4States(text)
           N == Len(ns)
           e == EndOf(ns, N)
           L == Len(text)
           n == ns[N]
           parts == Parts(ns, N - 1)
           good == tail = <<>> \/ tail[1] = Space
<1>1. tail \in Texts
  BY TailTypes
<1>2. ns \in Seq(Number) /\ N \in Nat /\ N \in 0..N /\ N >= 1
  BY DEF AllSpelt
<1>3. Dotted(text, ns)
  BY <1>1, <1>2, TextDotted
<1>4. text \in Texts /\ e \in Nat /\ e <= L /\ L \in Nat
  BY <1>2, <1>3 DEF Dotted, Texts
<1>5. ReadAlong(st, text)
  BY <1>4, ReadExists
<1>6. Ended(st, ns, N)
  BY <1>3, <1>5, NumbersRead
<1>7. L = e + Len(tail) /\ \A j \in 1..Len(tail) : text[e + j] = tail[j]
  <2> DEFINE d == DottedText(ns)[N]
  <2>1. d \in Texts
    BY <1>2, JoinedExists DEF Joined
  <2>2. text = d \o tail /\ e = Len(d)
    BY DEF Ip4Text, EndOf
  <2> HIDE DEF d, e
  <2>3. Len(d \o tail) = Len(d) + Len(tail) /\ \A j \in 1..Len(tail) : (d \o tail)[Len(d) + j] = tail[j]
    BY <1>1, <2>1 DEF Texts
  <2> QED
    BY <2>2, <2>3
<1>8. st[e] \in Reads4 /\ e \in 0..L
  BY <1>4, <1>5 DEF ReadAlong
<1>9. tail = <<10>> => n.base # 16
  BY DEF DigitTail
<1> HIDE DEF st, e, n, parts, L
<1>10. CASE N > 4
  <2>1. st[e].at = "bad"
    BY <1>6, <1>10 DEF Ended, e
  <2>2. st[L] = st[e]
    BY <1>4, <1>5, <2>1, BadStays DEF L
  <2>3. Refuses(st[L]) /\ ~(N <= 4)
    BY <1>2, <1>10, <2>1, <2>2 DEF Refuses
  <2> QED
    BY <2>3 DEF st, L
<1>11. CASE N <= 4
  <2>1. AtNumber(st[e], n, parts)
    BY <1>6, <1>11 DEF Ended, e, n, parts
  <2>2. /\ Ip4Char(st[e], Space) = [st[e] EXCEPT !.at = "end"]
        /\ Ip4Char(st[e], Other).at = "bad"
        /\ n.base # 16 => Ip4Char(st[e], 10).at = "bad"
        /\ Refuses(Ip4Char(st[e], Dot))
    BY <1>8, <2>1, TailChar
  <2>3. CASE tail = <<>>
    <3>1. L = e /\ good
      BY <1>4, <1>7, <2>3
    <3>2. Accepts(st[L], Wrapped(ValueOf(n)), parts)
      BY <2>1, <3>1 DEF AtNumber, Accepts
    <3> QED
      BY <1>11, <3>1, <3>2 DEF st, L, n, parts
  <2>4. CASE Len(tail) \in 1..2 /\ tail[1] = Space
    <3>1. e + 1 <= L /\ text[e + 1] = Space /\ good
      BY <1>4, <1>7, <2>4
    <3>2. st[e + 1] = [st[e] EXCEPT !.at = "end"]
      BY <1>4, <1>5, <2>2, <3>1, ScansOn DEF L
    <3>3. Accepts(st[e + 1], Wrapped(ValueOf(n)), parts) /\ st[e + 1].at = "end"
      BY <1>8, <2>1, <3>2 DEF AtNumber, Accepts, Reads4
    <3>4. st[L] = st[e + 1]
      <4>1. e + 1 \in Nat
        BY <1>4
      <4> QED
        BY <1>4, <1>5, <3>1, <3>3, <4>1, BadStays DEF L
    <3>5. Accepts(st[L], Wrapped(ValueOf(n)), parts)
      BY <3>3, <3>4
    <3> QED
      BY <1>11, <3>1, <3>5 DEF st, L, n, parts
  <2>5. CASE Len(tail) = 1 /\ tail[1] \in {Other, Dot, 10} /\ tail[1] # Space
    <3>1. e + 1 = L /\ e + 1 <= L /\ text[e + 1] = tail[1] /\ ~good
      <4>1. tail # <<>> /\ 1 \in 1..Len(tail)
        BY <2>5
      <4> QED
        BY <1>4, <1>7, <2>5, <4>1
    <3>2. st[L] = Ip4Char(st[e], tail[1])
      BY <1>4, <1>5, <3>1, ScansOn DEF L
    <3>3. tail[1] = 10 => n.base # 16
      <4> HAVE tail[1] = 10
      <4>1. tail = <<10>>
        BY <1>1, <2>5 DEF Texts
      <4> QED
        BY <1>9, <4>1
    <3>4. Refuses(st[L])
      BY <2>2, <2>5, <3>2, <3>3 DEF Refuses
    <3> QED
      BY <3>1, <3>4 DEF st, L
  <2> QED
    BY <2>3, <2>4, <2>5, TailTypes
<1> QED
  BY <1>2, <1>10, <1>11

\* The parts fit their places in the address.
Fit(N, v) == v[N] < Weight(5 - N) /\ \A i \in 1..(N - 1) : v[i] < Weight(1)

\* The parts are found in the address.
InAddress(address, N, v) ==
  /\ address \in 0..(Weight(4) - 1)
  /\ \A i \in 1..(N - 1) : (address \div Weight(4 - i)) % ByteSize = v[i]
  /\ address % Weight(5 - N) = v[N]

\* What is put together of parts that fit.
LEMMA ConcoctAgrees ==
  ASSUME NEW N \in 1..4, NEW v, \A i \in 1..N : v[i] \in Nat, NEW parts,
         Len(parts) = N - 1, \A i \in 1..(N - 1) : parts[i] = v[i]
  PROVE  /\ Fit(N, v) => InAddress(Concoct(parts, v[N]), N, v)
         /\ ~Fit(N, v) => Concoct(parts, v[N]) = -1
<1> DEFINE B == ByteSize
           W2 == Weight(2)
           W3 == Weight(3)
           W4 == Weight(4)
           x == Concoct(parts, v[N])
           sum == (IF N - 1 > 0 THEN parts[1] * W3 ELSE 0) + (IF N - 1 > 1 THEN parts[2] * W2 ELSE 0)
                    + (IF N - 1 > 2 THEN parts[3] * Weight(1) ELSE 0) + v[N]
<1>1. Weigh(B, W2, W3, W4) /\ Weight(1) = B
  BY Weights DEF Weigh
<1>2. /\ 4 - (N - 1) = 5 - N
      /\ \A i \in 1..(N - 1) : i \in 1..N
  OBVIOUS
<1>3. x = IF v[N] < Weight(5 - N) /\ (\A i \in 1..(N - 1) : parts[i] < Weight(1)) THEN sum ELSE -1
  BY <1>2 DEF Concoct
<1>4. (\A i \in 1..(N - 1) : parts[i] < Weight(1)) <=> (\A i \in 1..(N - 1) : v[i] < Weight(1))
  OBVIOUS
<1>5. ~Fit(N, v) => x = -1
  BY <1>3, <1>4 DEF Fit
<1>6. Fit(N, v) => x = sum
  BY <1>3, <1>4 DEF Fit
<1> HIDE DEF x
<1>7. W4 \in Nat
  BY <1>1 DEF Weigh
<1>8. ASSUME Fit(N, v) PROVE InAddress(x, N, v)
  <2>1. x = sum /\ v[N] < Weight(5 - N) /\ \A i \in 1..(N - 1) : v[i] < B
    BY <1>1, <1>6, <1>8 DEF Fit
  <2>2. CASE N = 1
    <3>1. 5 - N = 4 /\ 1..(N - 1) = {} /\ v[1] \in Nat /\ v[N] = v[1]
      BY <2>2
    <3>2. x = v[1] /\ v[1] < W4
      BY <2>1, <2>2, <3>1
    <3> HIDE DEF B, W2, W3, W4, sum
    <3>3. x % W4 = v[1]
      BY <1>1, <3>1, <3>2, OneWord
    <3>4. x \in 0..(W4 - 1)
      BY <1>7, <3>1, <3>2
    <3> QED
      BY <3>1, <3>3, <3>4 DEF InAddress, W4
  <2>3. CASE N = 2
    <3>1. 5 - N = 3 /\ 1..(N - 1) = {1} /\ v[1] \in Nat /\ v[2] \in Nat /\ v[N] = v[2] /\ 4 - 1 = 3
      BY <2>3
    <3>2. v[2] < W3 /\ v[1] < B
      BY <2>1, <3>1
    <3>3. TwoMake(x, v[1], v[2], W3)
      <4>1. parts[1] = v[1] /\ N - 1 > 0 /\ ~(N - 1 > 1) /\ ~(N - 1 > 2)
        BY <2>3
      <4>2. x = (((v[1] * W3) + 0) + 0) + v[2]
        BY <2>1, <3>1, <4>1
      <4>3. v[1] * W3 \in Nat
        BY <1>1, <3>1, Factors
      <4> HIDE DEF W3
      <4> QED
        BY <4>2, <4>3 DEF TwoMake
    <3> HIDE DEF B, W2, W3, W4, sum
    <3>4. x \in Nat /\ x < W4 /\ (x \div W3) % B = v[1] /\ x % W3 = v[2]
      BY <1>1, <3>1, <3>2, <3>3, TwoBytes
    <3>5. x \in 0..(W4 - 1)
      BY <1>7, <3>4
    <3> QED
      BY <3>1, <3>4, <3>5 DEF InAddress, B, W3, W4
  <2>4. CASE N = 3
    <3>1. /\ 5 - N = 2 /\ 1..(N - 1) = {1, 2} /\ v[1] \in Nat /\ v[2] \in Nat /\ v[3] \in Nat
          /\ v[N] = v[3] /\ 4 - 1 = 3 /\ 4 - 2 = 2
      BY <2>4
    <3>2. v[3] < W2 /\ v[1] < B /\ v[2] < B
      BY <2>1, <3>1
    <3>3. ThreeMake(x, v[1], v[2], v[3], W2, W3)
      <4>1. parts[1] = v[1] /\ parts[2] = v[2] /\ N - 1 > 0 /\ N - 1 > 1 /\ ~(N - 1 > 2)
        BY <2>4
      <4>2. x = ((v[1] * W3 + v[2] * W2) + 0) + v[3]
        BY <2>1, <3>1, <4>1
      <4>3. v[1] * W3 \in Nat /\ v[2] * W2 \in Nat
        BY <1>1, <3>1, Factors
      <4> HIDE DEF W2, W3
      <4> QED
        BY <4>2, <4>3 DEF ThreeMake
    <3> HIDE DEF B, W2, W3, W4, sum
    <3>4. x \in Nat /\ x < W4 /\ (x \div W3) % B = v[1] /\ (x \div W2) % B = v[2] /\ x % W2 = v[3]
      BY <1>1, <3>1, <3>2, <3>3, ThreeBytes
    <3>5. x \in 0..(W4 - 1)
      BY <1>7, <3>4
    <3> QED
      BY <3>1, <3>4, <3>5 DEF InAddress, B, W2, W3, W4
  <2>5. CASE N = 4
    <3>1. /\ 5 - N = 1 /\ 1..(N - 1) = {1, 2, 3} /\ v[1] \in Nat /\ v[2] \in Nat /\ v[3] \in Nat
          /\ v[4] \in Nat /\ v[N] = v[4] /\ 4 - 1 = 3 /\ 4 - 2 = 2 /\ 4 - 3 = 1
      BY <2>5
    <3>2. v[4] < B /\ v[1] < B /\ v[2] < B /\ v[3] < B
      BY <1>1, <2>1, <3>1
    <3>3. FourMake(x, v[1], v[2], v[3], v[4], B, W2, W3)
      <4>1. parts[1] = v[1] /\ parts[2] = v[2] /\ parts[3] = v[3] /\ N - 1 > 0 /\ N - 1 > 1 /\ N - 1 > 2
        BY <2>5
      <4>2. x = ((v[1] * W3 + v[2] * W2) + v[3] * B) + v[4]
        BY <1>1, <2>1, <3>1, <4>1
      <4> QED
        BY <4>2 DEF FourMake
    <3> HIDE DEF B, W2, W3, W4, sum
    <3>4. /\ x \in Nat /\ x < W4 /\ (x \div W3) % B = v[1] /\ (x \div W2) % B = v[2]
          /\ (x \div B) % B = v[3] /\ x % B = v[4]
      BY <1>1, <3>1, <3>2, <3>3, FourBytes
    <3>5. x \in 0..(W4 - 1)
      BY <1>7, <3>4
    <3> QED
      BY <1>1, <3>1, <3>4, <3>5 DEF InAddress, B, W2, W3, W4
  <2> QED
    BY <2>2, <2>3, <2>4, <2>5
<1> QED
  BY <1>5, <1>8 DEF x

\* An IPv4 text is read as inet_aton reads it.
LEMMA FourAgrees ==
  ASSUME NEW ns, AllSpelt(ns), NEW tail \in Tails, ~DigitTail(ns, tail)
  PROVE  ReadAsInet(Ip4Aton(Ip4Text(ns, tail)), ns, tail)
<1> DEFINE text == Ip4Text(ns, tail)
           s == Ip4States(text)[Len(text)]
           N == Len(ns)
           v == [i \in 1..N |-> ValueOf(ns[i]) % Weight(4)]
           parts == Parts(ns, N - 1)
           x == Ip4Aton(text)
           good == tail = <<>> \/ tail[1] = Space
<1>1. N \in Nat /\ N >= 1 /\ N \in 1..N
  BY DEF AllSpelt
<1>2. x = IF s.at \in {"zero", "number", "end"} THEN Concoct(s.parts, s.val) ELSE -1
  BY DEF Ip4Aton
<1>3. \A i \in 1..N : v[i] = Wrapped(ValueOf(ns[i])) /\ v[i] \in Nat
  <2> TAKE i \in 1..N
  <2>1. Wrapped(ValueOf(ns[i])) \in Nat
    BY PartsType
  <2> QED
    BY <2>1 DEF Wrapped, Word
<1>4. /\ N <= 4 /\ good => Accepts(s, v[N], parts)
      /\ ~(N <= 4 /\ good) => Refuses(s)
  <2>1. /\ N <= 4 /\ good => Accepts(s, Wrapped(ValueOf(ns[N])), parts)
        /\ ~(N <= 4 /\ good) => Refuses(s)
    BY TailRead
  <2> HIDE DEF s, parts, good
  <2>2. v[N] = Wrapped(ValueOf(ns[N]))
    BY <1>1, <1>3
  <2> QED
    BY <2>1, <2>2
<1>5. Len(parts) = N - 1 /\ \A i \in 1..(N - 1) : parts[i] = v[i]
  <2>1. Len(parts) = N - 1
    BY <1>1, PartsType
  <2>2. \A i \in 1..(N - 1) : parts[i] = Wrapped(ValueOf(ns[i])) /\ i \in 1..N
    BY <1>1 DEF Parts
  <2> QED
    BY <1>3, <2>1, <2>2
<1>6. ReadAsInet(x, ns, tail) <=>
        IF N <= 4 /\ Fit(N, v) /\ good THEN InAddress(x, N, v) ELSE x = -1
  BY Zenon DEF ReadAsInet, Fit, InAddress
<1> HIDE DEF text, s, v, parts, x, good, N
<1>7. CASE N <= 4 /\ good
  <2>1. x = Concoct(parts, v[N])
    BY <1>2, <1>4, <1>7 DEF Accepts
  <2>2. N \in 1..4
    BY <1>1, <1>7
  <2>3. /\ Fit(N, v) => InAddress(Concoct(parts, v[N]), N, v)
        /\ ~Fit(N, v) => Concoct(parts, v[N]) = -1
    BY <1>3, <1>5, <2>2, ConcoctAgrees
  <2>4. IF N <= 4 /\ Fit(N, v) /\ good THEN InAddress(x, N, v) ELSE x = -1
    BY <1>7, <2>1, <2>3
  <2> QED
    BY <1>6, <2>4 DEF x, text
<1>8. CASE ~(N <= 4 /\ good)
  <2>1. x = -1
    BY <1>2, <1>4, <1>8 DEF Refuses
  <2>2. IF N <= 4 /\ Fit(N, v) /\ good THEN InAddress(x, N, v) ELSE x = -1
    BY <1>8, <2>1
  <2> QED
    BY <1>6, <2>2 DEF x, text
<1> QED
  BY <1>7, <1>8

==============================================================================
