---------------------------- MODULE MCMideaUart ----------------------------
(* Two short frames with the bytes the callback looks for inside them and  *)
(* one of the longest frames, followed by another short one, cut in every  *)
(* way that matters to the short ones.                                     *)
EXTENDS MideaLine

\* An answer with three bytes of data, a self test, a frame of 256 bytes and a
\* restart request without data.
UartSent ==
  << [type |-> 172, flag |-> 170, msgType |-> 7,   data |-> <<10, 97, 116>>],
     [type |-> 172, flag |-> 1,   msgType |-> 20,  data |-> <<0>>],
     [type |-> 255, flag |-> 0,   msgType |-> 7,   data |-> [i \in 1..245 |-> 1]],
     [type |-> 255, flag |-> 0,   msgType |-> 130, data |-> << >>] >>

\* Their frames, written out so that TLC computes them only once.
UartStream ==
  << 170, 13, 172, 0, 0, 0, 170, 0, 0, 7, 10, 97, 116, 183,
     170, 11, 172, 0, 0, 0, 1, 0, 0, 20, 0, 52 >> \o
  << 170, 255, 255, 0, 0, 0, 0, 0, 0, 7 >> \o [i \in 1..245 |-> 1] \o
  << 6, 170, 10, 255, 0, 0, 0, 0, 0, 0, 130, 117 >>

UartEnds == <<14, 26, 282, 293>>

UartSizes == 1..26 \cup {128, 254, 255, 256}

StaleChoices == {0, 9, 10, 16, 84, 116, 255}

LineGarbage == {0, 170, 255}

=============================================================================
