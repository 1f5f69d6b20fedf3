------------------------------ MODULE PocPlay ------------------------------
(***************************************************************************)
(* Playing a file through a ring buffer: the playing half of               *)
(* fibo_audio_poc_play_record_start_demo.c.  The thread puts the next      *)
(* piece of the file behind Wp whenever the driver has played all there    *)
(* is, and so never writes where the driver reads.  The n-th byte of the   *)
(* file is the number n.  The recording half (RecorderRing) shares only    *)
(* the thread: it stops the driver at 150 KB, which takes longer to record *)
(* than a file that fits into the ring of 30 KB takes to play.             *)
(***************************************************************************)
EXTENDS Integers, Sequences

CONSTANTS
  PlayBufSize,   \* audioplayBufSize
  Piece,         \* OFFSET_AUDIO_PLAY_BUF_SIZE
  FileSizes      \* the files that may be played

ASSUME PlayAssumption ==
  /\ Piece \in Nat /\ PlayBufSize \in Nat
  /\ 0 < Piece /\ Piece < PlayBufSize
  /\ FileSizes \subseteq Nat

VARIABLES
  play,             \* "preload", "run", or "corrupt" after a copy to a wild address
  filePlaySize,
  audioPlayBuf,
  audioPlayRp,      \* the driver's position
  audioPlayWp,      \* the thread's position
  TestPlayOffset,   \* how much of the file has been read in the loop
  played            \* what the driver has played

playVars ==
  <<play, filePlaySize, audioPlayBuf, audioPlayRp, audioPlayWp, TestPlayOffset, played>>

AtMost(a, b) == IF a < b THEN a ELSE b

\* n bytes of the file behind the first off, copied to position at of the ring.
Copied(buf, at, off, n) ==
  [p \in DOMAIN buf |-> IF p \in at..(at + n - 1) THEN off + p - at + 1 ELSE buf[p]]

PlayInit ==
  /\ play = "preload"
  /\ filePlaySize \in FileSizes
  /\ audioPlayBuf = [p \in 0..(PlayBufSize - 1) |-> 0]
  /\ audioPlayRp = 0
  /\ audioPlayWp = 0
  /\ TestPlayOffset = 0
  /\ played = << >>

\* Before the driver starts the first piece is in the ring; the offset stays.
Preload ==
  /\ play = "preload"
  /\ play' = "run"
  /\ LET n == AtMost(Piece, filePlaySize) IN
       /\ audioPlayBuf' = Copied(audioPlayBuf, 0, 0, n)
       /\ audioPlayWp' = n
  /\ UNCHANGED <<filePlaySize, audioPlayRp, TestPlayOffset, played>>

\* Faulty variant: the offset into the file stays.
RefillSame ==
  LET n == AtMost(Piece, filePlaySize - TestPlayOffset) IN
  /\ play = "run"
  /\ audioPlayRp = audioPlayWp
  /\ TestPlayOffset' = TestPlayOffset
  /\ IF PlayBufSize - audioPlayWp > n
       THEN /\ audioPlayBuf' = Copied(audioPlayBuf, audioPlayWp, TestPlayOffset, n)
            /\ audioPlayWp' = audioPlayWp + n
            /\ UNCHANGED play
       ELSE /\ play' = "corrupt"
            /\ UNCHANGED <<audioPlayBuf, audioPlayWp>>
  /\ UNCHANGED <<filePlaySize, audioPlayRp, played>>

\* Faulty variant: the thread refills without waiting for the driver.
RefillEarly ==
  LET n == AtMost(Piece, filePlaySize - TestPlayOffset) IN
  /\ play = "run"
  /\ TestPlayOffset' = TestPlayOffset + n
  /\ audioPlayBuf' = Copied(audioPlayBuf, audioPlayRp, TestPlayOffset, n)
  /\ audioPlayWp' = (audioPlayRp + n) % PlayBufSize
  /\ UNCHANGED <<play, filePlaySize, audioPlayRp, played>>

\* Faulty variant: the piece may fill the ring up to its end.
RefillToEnd ==
  LET n == AtMost(Piece, filePlaySize - TestPlayOffset) IN
  /\ play = "run"
  /\ audioPlayRp = audioPlayWp
  /\ PlayBufSize - audioPlayWp >= n
  /\ TestPlayOffset' = TestPlayOffset + n
  /\ audioPlayBuf' = Copied(audioPlayBuf, audioPlayWp, TestPlayOffset, n)
  /\ audioPlayWp' = audioPlayWp + n
  /\ UNCHANGED <<play, filePlaySize, audioPlayRp, played>>

\* The next piece goes behind Wp if the ring has more than that left.  If not,
\* the code passes a byte of the ring to memcpy as the address to copy to.
Refill ==
  LET n == AtMost(Piece, filePlaySize - TestPlayOffset) IN
  /\ play = "run"
  /\ audioPlayRp = audioPlayWp
  /\ TestPlayOffset' = TestPlayOffset + n
  /\ IF PlayBufSize - audioPlayWp > n
       THEN /\ audioPlayBuf' = Copied(audioPlayBuf, audioPlayWp, TestPlayOffset, n)
            /\ audioPlayWp' = audioPlayWp + n
            /\ UNCHANGED play
       ELSE /\ play' = "corrupt"
            /\ UNCHANGED <<audioPlayBuf, audioPlayWp>>
  /\ UNCHANGED <<filePlaySize, audioPlayRp, played>>

\* The driver plays a byte.
Play ==
  /\ play = "run"
  /\ audioPlayRp # audioPlayWp
  /\ played' = Append(played, audioPlayBuf[audioPlayRp])
  /\ audioPlayRp' = (audioPlayRp + 1) % PlayBufSize
  /\ UNCHANGED <<play, filePlaySize, audioPlayBuf, audioPlayWp, TestPlayOffset>>

PlayNext == Preload \/ Refill \/ Play

-----------------------------------------------------------------------------
(* Properties *)

PlayTypeOK ==
  /\ play \in {"preload", "run", "corrupt"}
  /\ filePlaySize \in FileSizes
  /\ audioPlayBuf \in [0..(PlayBufSize - 1) -> 0..filePlaySize]
  /\ {audioPlayRp, audioPlayWp} \subseteq 0..(PlayBufSize - 1)
  /\ TestPlayOffset \in 0..filePlaySize
  /\ played \in Seq(0..filePlaySize)

\* The file as it is heard: its first piece twice, since reading it before the
\* start did not move the offset.
Heard == LET n == AtMost(Piece, filePlaySize) IN
         [i \in 1..(n + filePlaySize) |-> IF i <= n THEN i ELSE i - n]

\* What is played is always a beginning of that: nothing is played twice, in
\* another order or before it has been copied, however driver and thread meet.
PlayedInOrder ==
  Len(played) <= Len(Heard) /\ played = SubSeq(Heard, 1, Len(played))

\* A file that fits into the ring, with its first piece once more, is played to
\* its end; it takes a longer one to reach the copy to a wild address.
PlaysShortFiles ==
  filePlaySize + AtMost(Piece, filePlaySize) < PlayBufSize => <>(played = Heard)

=============================================================================
