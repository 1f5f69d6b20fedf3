------------------------------ MODULE MCImage ------------------------------
(* The small applications: a ring of 3 bytes recorded round four times, a  *)
(* play buffer of 9 with files up to beyond its end, a peer that sends one *)
(* piece more than a speed test needs, three threads with as many          *)
(* descriptors and one more, three openings of a USB port, three writes    *)
(* to a BLE server whose queue has room for two requests, and IPv4 words   *)
(* of four hexadecimal digits.                                             *)
EXTENDS Image

CONSTANTS skt1, skt2, skt3

MCFileSizes == {0, 1, 5, 6, 7, 8, 12}

ThreeThreads == {skt1, skt2, skt3}

FourDescriptors == 0..3

\* Numbers as C writes them, around the limits of one byte to four.  A 0 with
\* nothing before it is an octal prefix without digits.
MCDigits(base, value) ==
  LET k == CHOOSE j \in 1..8 : value < base^j /\ (j = 1 \/ value >= base^(j - 1))
  IN  [i \in 1..k |-> (value \div base^(k - i)) % base]

MCNumber(base, value) ==
  IF base = 10 /\ value = 0 THEN [base |-> 8, digits |-> <<>>]
  ELSE [base |-> base, digits |-> MCDigits(base, value)]

MCFirstNumbers == {MCNumber(10, 0), MCNumber(10, 16), MCNumber(16, 15)}

MCLimits == {0, 9, 15, 16, 255, 256, 4095, 4096, 65535, 65536, 65545}

MCIp4Numbers ==
  {fs \o <<l>> : fs \in UNION {[1..n -> MCFirstNumbers] : n \in 0..4},
                 l \in {MCNumber(b, v) : b \in {8, 10, 16}, v \in MCLimits}}

MCBlockValues == {0, 80, 64005}

=============================================================================
