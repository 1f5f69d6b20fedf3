---------------------------- MODULE RecorderRing ----------------------------
(***************************************************************************)
(* Recording into a file through a ring buffer: the loops of               *)
(* hello_recorder_stream.c ("stream") and of the recording half of         *)
(* fibo_audio_poc_play_record_start_demo.c ("poc").                        *)
(*                                                                         *)
(* The audio driver stores what it records and moves Wp; the thread reads  *)
(* Wp again at every use, without a lock.  The n-th byte of the recording  *)
(* is the number n.                                                        *)
(***************************************************************************)
EXTENDS Integers, Sequences, FiniteSets

CONSTANTS
  Size,         \* of the ring
  MaxLen,       \* the size of the file at which recording ends
  MaxRecorded   \* bound: bytes the driver records

ASSUME RingAssumption == Size \in Nat /\ Size > 1 /\ MaxLen \in Nat /\ MaxRecorded \in Nat

VARIABLES
  recorder,     \* which of the two loops runs
  rec,          \* where it is
  audio_buff,   \* position -> byte, 0 before the first one
  Wp,           \* the driver's position
  Rp_pos,       \* the thread's position
  recorded,     \* how many bytes the driver has recorded
  file,         \* what has been written
  closes,       \* how often the file has been closed (2: more than once)
  late          \* history: bytes recorded between a write and the move behind it

recVars == <<recorder, rec, audio_buff, Wp, Rp_pos, recorded, file, closes, late>>

Positions == 0..(Size - 1)

RecInit ==
  /\ recorder \in {"stream", "poc"}
  /\ rec = "start"
  /\ audio_buff = [p \in Positions |-> 0]
  /\ Wp = 0
  /\ Rp_pos = 0
  /\ recorded = 0
  /\ file = << >>
  /\ closes = 0
  /\ late = {}

Recording == rec \notin {"start", "gone", "corrupt"} /\ closes = 0

-----------------------------------------------------------------------------
(* The driver *)

\* The thread looks at the ring every few milliseconds and the ring holds
\* several hundred: the driver never fills it between two looks.
KeepsUp == (Wp + 1) % Size # Rp_pos

Record ==
  /\ Recording
  /\ recorded < MaxRecorded
  /\ KeepsUp
  /\ recorded' = recorded + 1
  /\ audio_buff' = [audio_buff EXCEPT ![Wp] = recorded + 1]
  /\ Wp' = (Wp + 1) % Size
  /\ late' = IF rec = "move" THEN late \cup {recorded + 1} ELSE late
  /\ UNCHANGED <<recorder, rec, Rp_pos, file, closes>>

-----------------------------------------------------------------------------
(* The thread *)

Goes(from, to) == rec = from /\ rec' = to

\* The ring from position a up to position b.
Bytes(a, b) == [i \in 1..(b - a) |-> audio_buff[a + i - 1]]

\* Audio busy, no space left on the file system, or the driver does not start.
StartFails ==
  /\ Goes("start", "gone")
  /\ UNCHANGED <<recorder, audio_buff, Wp, Rp_pos, recorded, file, closes, late>>

Start ==
  /\ Goes("start", "look")
  /\ UNCHANGED <<recorder, audio_buff, Wp, Rp_pos, recorded, file, closes, late>>

\* Otherwise the thread sleeps and looks again.
SeeData ==
  /\ Goes("look", "size")
  /\ Rp_pos # Wp
  /\ UNCHANGED <<recorder, audio_buff, Wp, Rp_pos, recorded, file, closes, late>>

\* The driver is stopped, its position set to 0 and the file closed.  The poc
\* recorder leaves only the inner of its two loops.
Stop ==
  /\ Goes("size", IF recorder = "stream" THEN "gone" ELSE "look")
  /\ Len(file) >= MaxLen
  /\ closes' = IF closes < 2 THEN closes + 1 ELSE 2
  /\ Wp' = 0
  /\ UNCHANGED <<recorder, audio_buff, Rp_pos, recorded, file, late>>

Compare ==
  /\ rec = "size"
  /\ Len(file) < MaxLen
  /\ rec' = IF Rp_pos < Wp THEN "ahead" ELSE "left"
  /\ UNCHANGED <<recorder, audio_buff, Wp, Rp_pos, recorded, file, closes, late>>

\* Wp - Rp_pos is the length: when the driver has passed the end of the ring
\* since the comparison it is negative, and a huge number as a size_t.
WriteAhead ==
  /\ rec = "ahead"
  /\ IF Rp_pos <= Wp
       THEN rec' = "move" /\ file' = file \o Bytes(Rp_pos, Wp)
       ELSE rec' = "corrupt" /\ UNCHANGED file
  /\ UNCHANGED <<recorder, audio_buff, Wp, Rp_pos, recorded, closes, late>>

\* Faulty variant: the position does not move.
MoveNot ==
  /\ Goes("move", "look")
  /\ UNCHANGED <<recorder, audio_buff, Wp, Rp_pos, recorded, file, closes, late>>

Move ==
  /\ Goes("move", "look")
  /\ Rp_pos' = Wp
  /\ UNCHANGED <<recorder, audio_buff, Wp, recorded, file, closes, late>>

\* Faulty variant: the rest of the ring is left out by one.
WriteLeftShort ==
  /\ Goes("left", "rewind")
  /\ file' = file \o Bytes(Rp_pos, Size - 1)
  /\ UNCHANGED <<recorder, audio_buff, Wp, Rp_pos, recorded, closes, late>>

\* From the thread's position to the end of the ring.
WriteLeft ==
  /\ Goes("left", "rewind")
  /\ file' = file \o Bytes(Rp_pos, Size)
  /\ UNCHANGED <<recorder, audio_buff, Wp, Rp_pos, recorded, closes, late>>

Rewind ==
  /\ Goes("rewind", "begin")
  /\ Rp_pos' = 0
  /\ UNCHANGED <<recorder, audio_buff, Wp, recorded, file, closes, late>>

\* From the start of the ring; the stream recorder leaves its position there.
WriteBegin ==
  /\ rec = "begin"
  /\ recorder = "stream"
  /\ rec' = "look"
  /\ file' = file \o Bytes(0, Wp)
  /\ UNCHANGED <<recorder, audio_buff, Wp, Rp_pos, recorded, closes, late>>

\* The poc recorder moves it (in the same way as Move, since it is 0).
WriteBeginPoc ==
  /\ rec = "begin"
  /\ recorder = "poc"
  /\ rec' = "move"
  /\ file' = file \o Bytes(0, Wp)
  /\ UNCHANGED <<recorder, audio_buff, Wp, Rp_pos, recorded, closes, late>>

RecThread ==
  \/ StartFails \/ Start \/ SeeData \/ Stop \/ Compare
  \/ WriteAhead \/ Move \/ WriteLeft \/ Rewind \/ WriteBegin \/ WriteBeginPoc

RecNext == Record \/ RecThread

-----------------------------------------------------------------------------
(* Properties *)

RingTypeOK ==
  /\ recorder \in {"stream", "poc"}
  /\ rec \in {"start", "look", "size", "ahead", "move", "left", "rewind", "begin", "gone", "corrupt"}
  /\ audio_buff \in [Positions -> 0..MaxRecorded]
  /\ Wp \in Positions /\ Rp_pos \in Positions
  /\ recorded \in 0..MaxRecorded
  /\ file \in Seq(1..MaxRecorded)
  /\ closes \in 0..2
  /\ late \subseteq 1..recorded

\* The positions whose bytes the thread has not reached yet.
Unread == IF Rp_pos <= Wp THEN Rp_pos..(Wp - 1)
          ELSE (Rp_pos..(Size - 1)) \cup (0..(Wp - 1))

Written == {file[i] : i \in DOMAIN file}

\* No byte is lost while recording goes on, except one that the driver recorded
\* between a write and the move of the position behind what was written.
NothingLost ==
  Recording => \A b \in 1..recorded :
    b \in Written \/ b \in late \/ \E p \in Unread : audio_buff[p] = b

\* Until the ring has been filled once the file is in order without repetition
\* and no length is negative.  From then on the stream recorder repeats what it
\* wrote from the start of the ring, but no byte is ever written a third time;
\* the poc recorder keeps the order as long as it runs.  The stream recorder
\* closes its file once, the poc recorder over and over unless its own position
\* happens to be 0 as well.
InOrder ==
  LET order == \A i \in 1..(Len(file) - 1) : file[i] < file[i + 1] IN
  /\ recorded < Size => order /\ rec # "corrupt"
  /\ recorder = "poc" => order
  /\ \A b \in Written : Cardinality({i \in DOMAIN file : file[i] = b}) <= 2
  /\ closes <= 1 \/ (recorder = "poc" /\ Rp_pos # 0)

\* The file is what was recorded, as far as the loops can make it so
\* (hello_recorder_stream.c:210): nothing else is lost, repeated or out of order.
RecordedWell == NothingLost /\ InOrder

=============================================================================
