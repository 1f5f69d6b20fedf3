------------------------------ MODULE MideaLine ------------------------------
(***************************************************************************)
(* The whole line of mideaapp.c: messages are made into frames by          *)
(* ght_midea_packet_construction_uart_data, cut into chunks by the driver, *)
(* gathered by the UART callback (MideaUart), and what it delivers is      *)
(* analysed by ght_midea_packet_analysis_uart_data.  The appliance is      *)
(* taken to build its frames the way the module builds its own.            *)
(***************************************************************************)
EXTENDS MideaUart

CONSTANTS
  Sent,        \* the messages behind the frames of Stream
  Garbage,     \* the bytes that damage may leave
  MaxDamaged   \* the longest frame whose damage is tried out

Message == [type : Byte, flag : Byte, msgType : Byte, data : Seq(Byte)]

FrameOf(m) == Construct(m.type, m.flag, m.msgType, m.data)

ASSUME SentAssumption ==
  /\ DOMAIN Sent = DOMAIN Ends
  /\ \A k \in DOMAIN Sent :
       /\ Sent[k] \in Message
       /\ HeadLen + Len(Sent[k].data) <= 255
       /\ Frame(k) = FrameOf(Sent[k])

ASSUME GarbageAssumption == Garbage \subseteq Byte /\ MaxDamaged \in Nat

\* The frame with one byte replaced.
Damaged(frame, i, b) == [frame EXCEPT ![i] = b]

\* From the first chunk that starts with a frame on, a message whose last byte
\* has just arrived is the last one delivered, accepted and analysed into what
\* was sent; and had any one byte of it been damaged on the line, it would not
\* have been accepted.
RoundTrip ==
  \A k \in DOMAIN Ends :
    sync > 0 /\ pos = Ends[k] =>
      LET frame == delivered[Len(delivered)]
          sent  == Sent[k]
      IN  /\ Analyse(frame) = 0
          /\ Packet(frame) = [ len |-> Len(frame) - 1, type |-> sent.type, flag |-> sent.flag,
                               msgType |-> sent.msgType, data |-> sent.data ]
          /\ Len(frame) <= MaxDamaged =>
               \A j \in DOMAIN frame, b \in Garbage :
                 frame[j] # b => Analyse(Damaged(frame, j, b)) # 0

=============================================================================
