----------------------------- MODULE MideaFrame -----------------------------
(***************************************************************************)
(* The frames between the module and the home appliance (mideaapp.c):      *)
(*                                                                         *)
(*   byte 0  synchronisation header 0xAA      byte 6     message flag      *)
(*   byte 1  length of the frame minus 1      byte 9     message type      *)
(*   byte 2  type of the appliance            byte 10 .. data              *)
(*   last    checksum of all the bytes before it but the first             *)
(*                                                                         *)
(* The other bytes are reserved or versions: the application sends them as *)
(* 0 and only copies the ones it receives.  A frame is a sequence of       *)
(* bytes; byte i of the C buffer is element i + 1.                         *)
(***************************************************************************)
EXTENDS Integers, Sequences

Byte    == 0..255
HeadLen == 10
Sync    == 170    \* 0xAA

\* The sum of bytes in a uint8_t, taken by halves to keep the recursion flat,
\* and its two's complement.
Sum(bytes) ==
  LET check_sum[n \in 0..Len(bytes)] ==    \* of n bytes after the first i
        [i \in 0..(Len(bytes) - n) |->
           IF n = 0 THEN 0
           ELSE IF n = 1 THEN bytes[i + 1]
           ELSE (check_sum[n \div 2][i] + check_sum[n - n \div 2][i + n \div 2]) % 256]
  IN  check_sum[Len(bytes)][0]

Check(bytes) == (256 - Sum(bytes)) % 256

\* ght_midea_packet_construction_uart_data, with message_len = HeadLen + Len(data).
Construct(type, flag, msgType, data) ==
  LET body == << HeadLen + Len(data), type, 0, 0, 0, flag, 0, 0, msgType >> \o data
  IN  << Sync >> \o body \o << Check(body) >>

\* The fields ght_midea_packet_analysis_uart_data copies; data only from a
\* frame longer than the header and the checksum.
Packet(buf) ==
  [ len     |-> buf[2],
    type    |-> buf[3],
    flag    |-> buf[7],
    msgType |-> buf[10],
    data    |-> SubSeq(buf, 11, Len(buf) - 1) ]

\* Faulty variant: the header is not looked at.
AnalyseAnyHeader(buf) ==
  IF Len(buf) < HeadLen THEN 1
  ELSE IF buf[Len(buf)] # Check(SubSeq(buf, 2, Len(buf) - 1)) THEN 3
  ELSE 0

\* Its result: 0 when it accepts the frame.
Analyse(buf) ==
  IF Len(buf) < HeadLen THEN 1
  ELSE IF buf[1] # Sync THEN 2
  ELSE IF buf[Len(buf)] # Check(SubSeq(buf, 2, Len(buf) - 1)) THEN 3
  ELSE 0

=============================================================================
