----------------------------- MODULE MideaUart -----------------------------
(***************************************************************************)
(* ght_midea_uart_recv_data of mideaapp.c: the UART callback that gathers  *)
(* the chunks the driver hands it into frames (see MideaFrame) and sends   *)
(* every complete frame to the application's task as an event.             *)
(*                                                                         *)
(* The appliance sends frames back to back; the driver cuts the stream of  *)
(* bytes into chunks wherever it likes.  The callback knows where a frame  *)
(* begins only from a chunk that starts with the header byte, and takes a  *)
(* chunk that starts with 0xFF, "at" or "AT" for the wish of the peer to   *)
(* talk to the modem: it then closes the UART.                             *)
(***************************************************************************)
EXTENDS MideaFrame, FiniteSets

CONSTANTS
  Stream,      \* the bytes the appliance sends
  Ends,        \* Ends[k]: the number of bytes up to the end of its k-th frame
  ChunkSizes,  \* the sizes of the chunks the driver may deliver
  StaleBytes,  \* what may lie in the driver's buffer behind a one-byte chunk
  MaxLen       \* GHT_MIDEA_UART_DATA_MAX_LEN

Start(k) == IF k = 1 THEN 0 ELSE Ends[k - 1]
Frame(k) == SubSeq(Stream, Start(k) + 1, Ends[k])

IsFrame(f) == /\ Len(f) > HeadLen
              /\ f[1] = Sync
              /\ Len(f) = f[2] + 1

ASSUME StreamAssumption ==
  /\ Stream \in Seq(Byte)
  /\ Ends \in Seq(Nat)
  /\ Ends # << >> /\ Ends[Len(Ends)] = Len(Stream)
  /\ \A k \in DOMAIN Ends : IsFrame(Frame(k))

ASSUME ChunkAssumption == ChunkSizes \subseteq Nat \ {0}
ASSUME StaleAssumption == StaleBytes \subseteq Byte
\* The buffer has room for the longest frame the length byte can announce.
ASSUME MaxLenAssumption == MaxLen \in Nat /\ MaxLen - 1 >= 256

Chunk(p, n) == SubSeq(Stream, p + 1, p + n)

\* The frame the next byte belongs to after p bytes.
FrameAt(p) == CHOOSE k \in DOMAIN Ends : Start(k) <= p /\ p < Ends[k]

VARIABLES
  pos,           \* bytes the driver has delivered
  open,          \* the UART is initialised
  data_buf,      \* the bytes gathered; recv_data_len is its length
  all_data_len,  \* the length of the frame being gathered, or 0
  delivered,     \* the frames sent to the task
  sync,          \* history: the first frame of the current run of chunks that
                 \* respect the frames, or 0
  cut            \* history: a chunk held nothing but a header byte

vars == <<pos, open, data_buf, all_data_len, delivered, sync, cut>>

Init ==
  /\ pos = 0
  /\ open = TRUE
  /\ data_buf = << >>
  /\ all_data_len = 0
  /\ delivered = << >>
  /\ sync = 0
  /\ cut = FALSE

-----------------------------------------------------------------------------

\* A chunk that starts so is the peer's wish for the AT command mode.
AtMode(first, second) ==
  first = 255 \/ <<first, second>> \in {<<97, 116>>, <<65, 84>>}

\* Faulty variant: the buffer has its earlier size of 128 bytes.
FittingIn128(buf, chunk) ==
  buf \o SubSeq(chunk, 1, IF Len(buf) + Len(chunk) > 127
                          THEN 127 - Len(buf) ELSE Len(chunk))

\* As much of the chunk as fits behind the bytes gathered so far.
Fitting(buf, chunk) ==
  buf \o SubSeq(chunk, 1, IF Len(buf) + Len(chunk) > MaxLen - 1
                          THEN MaxLen - 1 - Len(buf) ELSE Len(chunk))

\* Faulty variant: the rest of the chunk is kept for the next frame.
CompleteKeepRest(buf, all) ==
  IF Len(buf) >= all /\ all > 0
  THEN /\ delivered' = Append(delivered, SubSeq(buf, 1, all))
       /\ data_buf' = SubSeq(buf, all + 1, Len(buf))
       /\ all_data_len' = 0
  ELSE /\ data_buf' = buf
       /\ all_data_len' = all
       /\ UNCHANGED delivered

\* Send the frame when it is complete, else go on gathering.
Complete(buf, all) ==
  IF Len(buf) >= all /\ all > 0
  THEN /\ delivered' = Append(delivered, SubSeq(buf, 1, all))
       /\ data_buf' = << >>
       /\ all_data_len' = 0
  ELSE /\ data_buf' = buf
       /\ all_data_len' = all
       /\ UNCHANGED delivered

\* Faulty variant: the checksum is counted twice.
HeaderTooLong(chunk, second) ==
  /\ chunk[1] = Sync
  /\ IF second < HeadLen
       THEN data_buf' = << >> /\ all_data_len' = 0 /\ UNCHANGED delivered
       ELSE Complete(Fitting(<< >>, chunk), second + 2)

\* A chunk that starts with the header byte begins a frame, whatever was being
\* gathered, unless the length it announces is too short.
Header(chunk, second) ==
  /\ chunk[1] = Sync
  /\ IF second < HeadLen
       THEN data_buf' = << >> /\ all_data_len' = 0 /\ UNCHANGED delivered
       ELSE Complete(Fitting(<< >>, chunk), second + 1)

\* Any other chunk continues the frame.
Continue(chunk) ==
  /\ chunk[1] # Sync
  /\ Complete(IF Len(data_buf) < all_data_len THEN Fitting(data_buf, chunk) ELSE data_buf,
              all_data_len)

\* History: a chunk respects the frames if it does not run over the end of the
\* frame it starts in, carries its header and length together, and does not
\* start within it with the header byte.
Respects(p, n) ==
  LET k == FrameAt(p) IN
  /\ p + n <= Ends[k]
  /\ IF p = Start(k) THEN n >= 2 ELSE Stream[p + 1] # Sync

Track(p, n) ==
  sync' = IF ~Respects(p, n) THEN 0
          ELSE IF sync = 0 /\ p = Start(FrameAt(p)) THEN FrameAt(p)
          ELSE sync

Receive(n) ==
  /\ open
  /\ pos + n <= Len(Stream)
  /\ LET chunk == Chunk(pos, n) IN
     \E second \in (IF n = 1 THEN StaleBytes ELSE {chunk[2]}) :
       /\ open' = ~AtMode(chunk[1], second)
       /\ Header(chunk, second) \/ Continue(chunk)
  /\ pos' = pos + n
  /\ Track(pos, n)
  /\ cut' = (cut \/ Chunk(pos, n) = <<Sync>>)

Next == \E n \in ChunkSizes : Receive(n)

Spec == Init /\ [][Next]_vars

-----------------------------------------------------------------------------
(* Properties *)

TypeOK ==
  /\ pos \in Nat
  /\ open \in BOOLEAN
  /\ data_buf \in Seq(Byte)
  /\ all_data_len \in Nat
  /\ delivered \in Seq(Seq(Byte))
  /\ cut \in BOOLEAN

\* A frame that is being gathered always has bytes to come and room in the
\* buffer for all of them: gathering never stalls on a full buffer.
Completable ==
  IF all_data_len = 0 THEN data_buf = << >>
  ELSE Len(data_buf) < all_data_len /\ all_data_len <= MaxLen - 1

\* The frames whose last byte the driver has delivered.
Arrived == Cardinality({k \in DOMAIN Ends : Ends[k] <= pos})

\* However the stream was cut before, from the first chunk that starts with a
\* frame on, as long as the chunks respect the frames every frame is delivered,
\* whole, once and in order.
Resync ==
  sync > 0 =>
    LET new == Arrived - sync + 1 IN
    /\ new <= Len(delivered)
    /\ SubSeq(delivered, Len(delivered) - new + 1, Len(delivered))
         = [i \in 1..new |-> Frame(sync + i - 1)]

\* Unless a header byte came alone, so that the length was read from behind the
\* chunk, a delivered frame is as long as its length byte says: the task then
\* copies as many bytes as the length promises out of what was gathered.
LengthAgrees ==
  ~cut => \A i \in DOMAIN delivered : Len(delivered[i]) = delivered[i][2] + 1

=============================================================================
