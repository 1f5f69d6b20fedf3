----------------------------- MODULE AddressText -----------------------------
(***************************************************************************)
(* The conversions between addresses and texts that the socket demos bring *)
(* along: ip4addr_aton, ip6addr_aton and ip6addr_ntoa_r.  A character is a *)
(* number: 0..15 for a digit, and the names below.  Letters in either case *)
(* are the same digit.                                                     *)
(***************************************************************************)
EXTENDS Integers, FiniteSets, Sequences

CONSTANTS
  ByteSize,      \* bound: values of a part of a dotted IPv4 address, 256 in the code
  Ip4Numbers,    \* the numbers that are written with dots between them
  BlockValues    \* the values of the blocks of an IPv6 address

Dot   == 16
X     == 17
Space == 18
Other == 19
Colon == 20

Digit == 0..15

\* A number as C writes it: base 8 and 16 have a prefix of their own.
Number == [base : {8, 10, 16}, digits : Seq(Digit)]

ASSUME ByteAssumption == ByteSize \in {16, 256}

ASSUME Ip4Assumption ==
  \A ns \in Ip4Numbers :
    /\ ns \in Seq(Number) /\ ns # <<>>
    /\ \A i \in DOMAIN ns :
         /\ ns[i].base # 16 => ns[i].digits \in Seq(0..9)
         /\ ns[i].base = 10 => ns[i].digits # <<>> /\ ns[i].digits[1] # 0

ASSUME BlockAssumption == \A v \in BlockValues : v \in Nat /\ v < 65536

-----------------------------------------------------------------------------
(* ip4addr_aton: a step per character, u32_t being four bytes wide *)

\* What is just too large for so many bytes.
Weight(n) == <<ByteSize, ByteSize * ByteSize, ByteSize * ByteSize * ByteSize,
               ByteSize * ByteSize * ByteSize * ByteSize>>[n]

Ip4Begin == [at |-> "first", base |-> 10, val |-> 0, parts |-> <<>>]

\* A number begins with a digit, and 0 may begin an octal or a 0x one.
FirstChar(s, c) ==
  IF c \in 1..9 THEN [s EXCEPT !.at = "number", !.base = 10, !.val = c]
  ELSE IF c = 0 THEN [s EXCEPT !.at = "zero", !.base = 8, !.val = 0]
  ELSE [s EXCEPT !.at = "bad"]

\* Faulty variant: letters count as digits in every base.
NumberCharAnyBase(s, c) ==
  IF c \in 0..15
    THEN [s EXCEPT !.at = "number", !.val = (s.val * s.base + c) % Weight(4)]
  ELSE IF c = Dot
    THEN IF Len(s.parts) >= 3 THEN [s EXCEPT !.at = "bad"]
         ELSE [s EXCEPT !.at = "first", !.parts = Append(s.parts, s.val)]
  ELSE [s EXCEPT !.at = IF c = Space THEN "end" ELSE "bad"]

\* 8 and 9 are taken in an octal number; the value wraps round.
NumberChar(s, c) ==
  IF c \in 0..9 \/ (c \in 10..15 /\ s.base = 16)
    THEN [s EXCEPT !.at = "number", !.val = (s.val * s.base + c) % Weight(4)]
  ELSE IF c = Dot
    THEN IF Len(s.parts) >= 3 THEN [s EXCEPT !.at = "bad"]
         ELSE [s EXCEPT !.at = "first", !.parts = Append(s.parts, s.val)]
  ELSE [s EXCEPT !.at = IF c = Space THEN "end" ELSE "bad"]

Ip4Char(s, c) ==
  IF s.at = "first" THEN FirstChar(s, c)
  ELSE IF s.at = "zero" /\ c = X THEN [s EXCEPT !.at = "number", !.base = 16]
  ELSE IF s.at \in {"zero", "number"} THEN NumberChar(s, c)
  ELSE s

\* The parts before the last are bytes, the last fills the rest of the word.
Concoct(parts, last) ==
  LET n == Len(parts) IN
  IF last < Weight(4 - n) /\ \A i \in 1..n : parts[i] < Weight(1)
    THEN (IF n > 0 THEN parts[1] * Weight(3) ELSE 0) + (IF n > 1 THEN parts[2] * Weight(2) ELSE 0)
           + (IF n > 2 THEN parts[3] * Weight(1) ELSE 0) + last
    ELSE -1

\* How far the text has been read, after each character.
Ip4States(text) ==
  LET state[i \in 0..Len(text)] ==
        IF i = 0 THEN Ip4Begin ELSE Ip4Char(state[i - 1], text[i])
  IN  state

\* The address, -1 where the code returns 0.
Ip4Aton(text) ==
  LET s == Ip4States(text)[Len(text)] IN
  IF s.at \in {"zero", "number", "end"} THEN Concoct(s.parts, s.val) ELSE -1

-----------------------------------------------------------------------------
(* ip6addr_ntoa_r and ip6addr_aton, on the eight blocks of an address *)

\* xchar for each digit, without the leading zeros.
HexOf(v) ==
  IF v >= 4096 THEN <<v \div 4096, (v \div 256) % 16, (v \div 16) % 16, v % 16>>
  ELSE IF v >= 256 THEN <<v \div 256, (v \div 16) % 16, v % 16>>
  ELSE IF v >= 16 THEN <<v \div 16, v % 16>>
  ELSE <<v>>

\* Faulty variant: after a run of zeros the next run is abbreviated too.
PrintBlockAgain(blocks, beyond, s, i) ==
  LET next == IF i < 8 THEN blocks[i + 1] ELSE beyond
      colon == IF i > 1 THEN <<Colon>> ELSE <<>>
  IN  IF blocks[i] = 0 /\ i = 8 /\ s.empty = 1 THEN [s EXCEPT !.text = @ \o <<Colon>>]
      ELSE IF blocks[i] = 0 /\ s.empty = 0 /\ next = 0
        THEN [text |-> s.text \o <<Colon>>, empty |-> 1]
      ELSE IF blocks[i] = 0 /\ s.empty = 1 THEN s
      ELSE [text  |-> s.text \o colon \o HexOf(blocks[i]), empty |-> 0]

\* A block of the text; the one after the last is whatever lies beyond.
PrintBlock(blocks, beyond, s, i) ==
  LET next == IF i < 8 THEN blocks[i + 1] ELSE beyond
      colon == IF i > 1 THEN <<Colon>> ELSE <<>>
  IN  IF blocks[i] = 0 /\ i = 8 /\ s.empty = 1 THEN [s EXCEPT !.text = @ \o <<Colon>>]
      ELSE IF blocks[i] = 0 /\ s.empty = 0 /\ next = 0
        THEN [text |-> s.text \o <<Colon>>, empty |-> 1]
      ELSE IF blocks[i] = 0 /\ s.empty = 1 THEN s
      ELSE [text  |-> s.text \o colon \o HexOf(blocks[i]),
            empty |-> IF s.empty = 1 THEN 2 ELSE s.empty]

\* What has been written after each block.
Ip6Written(blocks, beyond) ==
  LET written[i \in 0..8] ==
        IF i = 0 THEN [text |-> <<>>, empty |-> 0]
                 ELSE PrintBlock(blocks, beyond, written[i - 1], i)
  IN  written

Ip6Ntoa(blocks, beyond) == Ip6Written(blocks, beyond)[8].text

\* The part of a text that is looked at: up to the first character that is
\* neither a digit nor a colon.
Ip6Part(text) ==
  SubSeq(text, 1, CHOOSE n \in 0..Len(text) :
                    /\ \A i \in 1..n : text[i] \notin Dot..Other
                    /\ n < Len(text) => text[n + 1] \in Dot..Other)

\* Blocks a "::" stands for: one even where there is none.
ZeroBlocks(text) == 8 - Cardinality({i \in 1..Len(text) : text[i] = Colon})

CharAt(text, i) == IF i <= Len(text) THEN text[i] ELSE -1

\* A step of the scan: the blocks found so far, the value of the one being read,
\* the zeros a "::" still stands for, and whether the character is the second of
\* a "::".  More than seven blocks before the last are an error, and so are three
\* colons in succession; a count of zeros below none wraps to more than seven.
Ip6Char(text, s, i) ==
  IF s.bad THEN s
  ELSE IF s.skip THEN [s EXCEPT !.skip = FALSE]
  ELSE IF text[i] \in 0..15 THEN [s EXCEPT !.val = @ * 16 + text[i]]
  ELSE LET double == CharAt(text, i + 1) = Colon
           run    == IF ~double THEN 0 ELSE IF s.zeros < 0 THEN 8 ELSE s.zeros
           found  == Append(s.found, s.val) \o [k \in 1..run |-> 0]
       IN  [found |-> found, val |-> 0, skip |-> double,
            zeros |-> IF double THEN 0 ELSE s.zeros,
            bad   |-> Len(found) > 7 \/ (double /\ CharAt(text, i + 2) = Colon)]

\* How far the text has been read, after each character.
Ip6States(text) ==
  LET state[i \in 0..Len(text)] ==
        IF i = 0 THEN [found |-> <<>>, val |-> 0, skip |-> FALSE,
                       zeros |-> ZeroBlocks(text), bad |-> FALSE]
                 ELSE Ip6Char(text, state[i - 1], i)
  IN  state

\* The blocks, <<>> where the code returns 0.  No block has more than four
\* digits, as in every text that is written here.
Ip6Aton(text) ==
  LET part == Ip6Part(text)
      s == Ip6States(part)[Len(part)]
  IN  IF s.bad \/ Len(s.found) # 7 THEN <<>> ELSE Append(s.found, s.val)

-----------------------------------------------------------------------------
(* The texts that are tried *)

TextOfNumber(n) ==
  (CASE n.base = 8 -> <<0>> [] n.base = 16 -> <<0, X>> [] OTHER -> <<>>) \o n.digits

Tails == {<<>>, <<Space>>, <<Space, Other>>, <<Other>>, <<Dot>>, <<10>>}

\* A letter after a hexadecimal number is a digit of another number.
DigitTail(ns, tail) == tail = <<10>> /\ ns[Len(ns)].base = 16

\* The numbers with dots between them.
DottedText(ns) ==
  LET joined[i \in 0..Len(ns)] ==
        IF i = 0 THEN <<>>
        ELSE joined[i - 1] \o (IF i > 1 THEN <<Dot>> ELSE <<>>) \o TextOfNumber(ns[i])
  IN  joined

Ip4Text(ns, tail) == DottedText(ns)[Len(ns)] \o tail

-----------------------------------------------------------------------------
(* One conversion of one text or address *)

VARIABLES
  textIn,    \* what is converted
  textOut    \* what it became

textVars == <<textIn, textOut>>

NoInput == [kind |-> "none"]

TextInit ==
  /\ textIn \in  {NoInput}
            \cup {t \in [kind : {"ip4"}, numbers : Ip4Numbers, tail : Tails] :
                    ~DigitTail(t.numbers, t.tail)}
            \cup [kind : {"ip6"}, blocks : [1..8 -> BlockValues]]
  /\ textOut = <<"none">>

Convert4 ==
  /\ textIn.kind = "ip4" /\ textOut = <<"none">>
  /\ textOut' = <<"ip4", Ip4Aton(Ip4Text(textIn.numbers, textIn.tail))>>
  /\ UNCHANGED textIn

\* The word after the address, which the last block may be compared with, holds
\* anything; so does the text after the address.
Convert6 ==
  /\ textIn.kind = "ip6" /\ textOut = <<"none">>
  /\ \E beyond \in {0, 1}, tail \in {<<>>, <<Space, Colon>>} :
       LET text == Ip6Ntoa(textIn.blocks, beyond) IN
       textOut' = <<"ip6", text, beyond, Ip6Aton(text \o tail)>>
  /\ UNCHANGED textIn

TextNext == Convert4 \/ Convert6

-----------------------------------------------------------------------------
(* Properties *)

\* What the digits of a number mean.
ValueOf(n) ==
  LET value[i \in 0..Len(n.digits)] ==
        IF i = 0 THEN 0 ELSE value[i - 1] * n.base + n.digits[i]
  IN  value[Len(n.digits)]

\* What inet_aton is to say of numbers written with dots between them: up to
\* four that fit, then the end or a space.  The value of a number is taken
\* modulo the word; the first numbers are the bytes of the address from the
\* left, the last one is what remains.
ReadAsInet(address, ns, tail) ==
  LET n == Len(ns)
      v == [i \in 1..n |-> ValueOf(ns[i]) % Weight(4)]
  IN  IF /\ n <= 4 /\ v[n] < Weight(5 - n)
         /\ \A i \in 1..(n - 1) : v[i] < Weight(1)
         /\ tail = <<>> \/ tail[1] = Space
        THEN /\ address \in 0..(Weight(4) - 1)
             /\ \A i \in 1..(n - 1) : (address \div Weight(4 - i)) % ByteSize = v[i]
             /\ address % Weight(5 - n) = v[n]
        ELSE address = -1

DoubleColons(text) ==
  {i \in 1..(Len(text) - 1) : text[i] = Colon /\ text[i + 1] = Colon}

LoneColonAtEnd(text) ==
  text[Len(text)] = Colon /\ (Len(text) - 1) \notin DoubleColons(text)

\* A dotted IPv4 address is read as inet_aton reads it.  An IPv6 address is read
\* back from the text it is written to, whatever follows the text and whatever
\* lies beyond the address in memory; that text fits its buffer and abbreviates
\* one run of zeros.  A last block alone is taken for such a run when there is a
\* zero beyond the address (multi_pdn_test.c:192), which EmptyBlockForRuns
\* denies: the text then ends in a single colon, and is still read back.
AddressesAgree ==
  /\ textOut[1] = "ip4" => ReadAsInet(textOut[2], textIn.numbers, textIn.tail)
  /\ textOut[1] = "ip6" =>
       LET text == textOut[2] beyond == textOut[3] IN
       /\ textOut[4] = textIn.blocks
       /\ Len(text) <= 39
       /\ Cardinality(DoubleColons(text)) <= 1
       /\ LoneColonAtEnd(text) => beyond = 0 /\ textIn.blocks[8] = 0

\* A text abbreviates where it begins or ends in a colon or has two in a row.
Abbreviates(text) ==
  text[1] = Colon \/ text[Len(text)] = Colon \/ DoubleColons(text) # {}

\* What the comment in ip6addr_ntoa_r says (multi_pdn_test.c:190): zeros are
\* abbreviated only where more than one block of them is contiguous.  The code
\* takes the word beyond the address for a ninth block, so that a last block
\* of zero can be abbreviated by itself.
EmptyBlockForRuns ==
  textOut[1] = "ip6" /\ Abbreviates(textOut[2]) =>
    \E i \in 1..7 : textIn.blocks[i] = 0 /\ textIn.blocks[i + 1] = 0

=============================================================================
