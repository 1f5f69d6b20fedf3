----------------------------- MODULE ImageProofs -----------------------------
(***************************************************************************)
(* Proofs for the small applications: the two rings of the audio demos,    *)
(* for every size of the rings, of the pieces and of the files; how many   *)
(* descriptors the sending threads have left, how often the USB thread     *)
(* initialises its device, how far the Aliyun thread runs ahead, what the  *)
(* BLE server sends, which of the socket demos leave their socket open,    *)
(* and that addresses and texts agree.  At the end the types of all the    *)
(* variables follow from these invariants.                                 *)
(*                                                                         *)
(* Recording: the ring holds the last byte of every position, so that what *)
(* a write appends is a run of consecutive bytes, those behind the last    *)
(* byte the thread has passed.  Playing: neither position ever wraps, so   *)
(* that they count what was copied and what was played.                    *)
(***************************************************************************)
EXTENDS Image, AddressProofs

-----------------------------------------------------------------------------
(* RecorderRing: the file is a sequence of runs of consecutive bytes *)

Members(f)  == {f[i] : i \in DOMAIN f}
Rising(f)   == \A i \in 1..(Len(f) - 1) : f[i] < f[i + 1]
Places(f, b) == {i \in DOMAIN f : f[i] = b}
Times(f, b) == Cardinality(Places(f, b))
Run(c, n)   == [i \in 1..n |-> c + i]

\* g is f with the n bytes behind byte c.
IsRunBehind(f, c, n, g) ==
  /\ Len(f) \in Nat /\ Len(g) = Len(f) + n
  /\ DOMAIN f = 1..Len(f) /\ DOMAIN g = 1..(Len(f) + n)
  /\ \A i \in 1..Len(f) : g[i] = f[i]
  /\ \A i \in (Len(f) + 1)..(Len(f) + n) : g[i] = c + (i - Len(f))

\* It has each of the bytes once more, and the others as often as f.
AddsOnce(f, c, n, g) ==
  \A b \in Nat : /\ Times(f, b) \in Nat
                 /\ b \in (c + 1)..(c + n) => Times(g, b) = Times(f, b) + 1
                 /\ b \notin (c + 1)..(c + n) => Times(g, b) = Times(f, b)

\* A run written behind a file.
LEMMA RunAppended ==
  ASSUME NEW M \in Nat, NEW f \in Seq(1..M), NEW c \in Nat, NEW n \in Nat, c + n <= M,
         NEW g, g = f \o Run(c, n)
  PROVE  g \in Seq(1..M) /\ IsRunBehind(f, c, n, g)
<1>1. Run(c, n) \in Seq(1..M) /\ Len(Run(c, n)) = n /\ \A i \in 1..n : Run(c, n)[i] = c + i
  <2>1. \A i \in 1..n : c + i \in 1..M
    OBVIOUS
  <2>2. Run(c, n) \in [1..n -> 1..M]
    BY <2>1 DEF Run
  <2> QED
    BY <2>2 DEF Run
<1> HIDE DEF Run
<1>c. \A s, t \in Seq(1..M) :
        /\ s \o t \in Seq(1..M) /\ Len(s \o t) = Len(s) + Len(t)
        /\ \A i \in 1..(Len(s) + Len(t)) :
             (s \o t)[i] = IF i <= Len(s) THEN s[i] ELSE t[i - Len(s)]
  BY ConcatProperties
<1>2. g \in Seq(1..M) /\ Len(g) = Len(f) + n
  BY <1>1, <1>c
<1>3. \A i \in 1..(Len(f) + n) : g[i] = IF i <= Len(f) THEN f[i] ELSE Run(c, n)[i - Len(f)]
  BY <1>1, <1>c
<1>4. \A i \in 1..Len(f) : g[i] = f[i]
  BY <1>3
<1>5. ASSUME NEW i \in (Len(f) + 1)..(Len(f) + n)
      PROVE  g[i] = c + (i - Len(f))
  BY <1>1, <1>3
<1>6. Len(f) \in Nat /\ DOMAIN f = 1..Len(f) /\ DOMAIN g = 1..(Len(f) + n)
  BY <1>2
<1> QED
  BY <1>2, <1>4, <1>5, <1>6 DEF IsRunBehind

\* The file gains the bytes of the run.
LEMMA RunMembers ==
  ASSUME NEW c \in Nat, NEW n \in Nat, NEW f, NEW g, IsRunBehind(f, c, n, g)
  PROVE  Members(g) = Members(f) \cup ((c + 1)..(c + n))
<1>1. Len(f) \in Nat /\ Len(g) \in Nat /\ DOMAIN f = 1..Len(f) /\ DOMAIN g = 1..Len(g)
  BY DEF IsRunBehind
<1>2. ASSUME NEW b \in Members(g) PROVE b \in Members(f) \cup ((c + 1)..(c + n))
  <2>1. PICK i \in 1..Len(g) : g[i] = b
    BY <1>1 DEF Members
  <2>2. CASE i <= Len(f)
    <3>1. i \in DOMAIN f /\ f[i] = b
      BY <1>1, <2>1, <2>2 DEF IsRunBehind
    <3> QED
      BY <3>1 DEF Members
  <2>3. CASE i > Len(f)
    BY <1>1, <2>1, <2>3 DEF IsRunBehind
  <2> QED
    BY <1>1, <2>2, <2>3
<1>3. ASSUME NEW b \in Members(f) PROVE b \in Members(g)
  <2>1. PICK i \in 1..Len(f) : f[i] = b
    BY <1>1 DEF Members
  <2>2. i \in DOMAIN g /\ g[i] = b
    BY <1>1, <2>1 DEF IsRunBehind
  <2> QED
    BY <2>2 DEF Members
<1>4. ASSUME NEW b \in (c + 1)..(c + n) PROVE b \in Members(g)
  <2>1. (Len(f) + (b - c)) \in (Len(f) + 1)..(Len(f) + n)
    BY <1>1
  <2>2. (Len(f) + (b - c)) \in DOMAIN g /\ g[Len(f) + (b - c)] = b
    BY <1>1, <2>1 DEF IsRunBehind
  <2> QED
    BY <2>2 DEF Members
<1> QED
  BY <1>2, <1>3, <1>4

\* It keeps the order if the file has only bytes from before it.
LEMMA RunRises ==
  ASSUME NEW c \in Nat, NEW n \in Nat, NEW f, NEW g, IsRunBehind(f, c, n, g), Rising(f), Members(f) \subseteq 1..c
  PROVE  Rising(g)
<1>1. Len(f) \in Nat /\ Len(g) = Len(f) + n /\ DOMAIN f = 1..Len(f)
  BY DEF IsRunBehind
<1> SUFFICES ASSUME NEW i \in 1..(Len(g) - 1) PROVE g[i] < g[i + 1]
  BY DEF Rising
<1>2. CASE i + 1 <= Len(f)
  BY <1>1, <1>2 DEF IsRunBehind, Rising
<1>3. CASE i = Len(f)
  <2>1. f[i] \in 1..c /\ g[i] = f[i]
    BY <1>1, <1>3 DEF IsRunBehind, Members
  <2>2. g[i + 1] = c + 1
    BY <1>1, <1>3 DEF IsRunBehind
  <2> QED
    BY <2>1, <2>2
<1>4. CASE i > Len(f)
  BY <1>1, <1>4 DEF IsRunBehind
<1>5. i + 1 <= Len(f) \/ i = Len(f) \/ i > Len(f)
  <2>1. i \in Int /\ Len(f) \in Nat
    BY <1>1
  <2>2. \A l \in Nat : i + 1 <= l \/ i = l \/ i > l
    BY <2>1
  <2> QED
    BY <2>1, <2>2
<1> QED
  BY <1>2, <1>3, <1>4, <1>5, Zenon

\* It adds one to the times a byte of it is in the file, and nothing to others.
LEMMA RunTimes ==
  ASSUME NEW c \in Nat, NEW n \in Nat, NEW f, NEW g, IsRunBehind(f, c, n, g)
  PROVE  AddsOnce(f, c, n, g)
<1> SUFFICES ASSUME NEW b \in Nat
             PROVE  /\ Times(f, b) \in Nat
                    /\ b \in (c + 1)..(c + n) => Times(g, b) = Times(f, b) + 1
                    /\ b \notin (c + 1)..(c + n) => Times(g, b) = Times(f, b)
  BY DEF AddsOnce
<1>1. Len(f) \in Nat /\ Len(g) = Len(f) + n /\ DOMAIN f = 1..Len(f) /\ DOMAIN g = 1..(Len(f) + n)
  BY DEF IsRunBehind
<1>2. IsFiniteSet(Places(f, b))
  <2>1. IsFiniteSet(1..Len(f))
    BY <1>1, FS_Interval
  <2>2. Places(f, b) \subseteq 1..Len(f)
    BY <1>1 DEF Places
  <2> QED
    BY <2>1, <2>2, FS_Subset
<1>3. Times(f, b) \in Nat
  BY <1>2, FS_CardinalityType DEF Times
<1>4. CASE b \notin (c + 1)..(c + n)
  <2>1. ASSUME NEW i \in 1..(Len(f) + n) PROVE i \in Places(g, b) <=> i \in Places(f, b)
    <3>1. CASE i <= Len(f)
      BY <1>1, <3>1 DEF IsRunBehind, Places
    <3>2. CASE i > Len(f)
      <4>1. g[i] = c + (i - Len(f))
        BY <1>1, <3>2 DEF IsRunBehind
      <4>2. g[i] # b
        BY <1>1, <1>4, <3>2, <4>1
      <4> QED
        BY <1>1, <3>2, <4>2 DEF Places
    <3> QED
      BY <1>1, <3>1, <3>2
  <2>2. Places(g, b) \subseteq 1..(Len(f) + n) /\ Places(f, b) \subseteq 1..(Len(f) + n)
    BY <1>1 DEF Places
  <2>3. Places(g, b) = Places(f, b)
    BY <2>1, <2>2
  <2> QED
    BY <1>3, <1>4, <2>3 DEF Times
<1>5. CASE b \in (c + 1)..(c + n)
  <2> DEFINE j == Len(f) + (b - c)
  <2>1. j \in (Len(f) + 1)..(Len(f) + n)
    BY <1>1, <1>5
  <2>2. ASSUME NEW i \in 1..(Len(f) + n) PROVE i \in Places(g, b) <=> i \in Places(f, b) \cup {j}
    <3>1. CASE i <= Len(f)
      <4>1. i # j
        BY <1>1, <2>1, <3>1
      <4> QED
        BY <1>1, <3>1, <4>1 DEF IsRunBehind, Places
    <3>2. CASE i > Len(f)
      <4>1. g[i] = c + (i - Len(f))
        BY <1>1, <3>2 DEF IsRunBehind
      <4>2. g[i] = b <=> i = j
        BY <1>1, <1>5, <3>2, <4>1
      <4> QED
        BY <1>1, <3>2, <4>2 DEF Places
    <3> QED
      BY <1>1, <3>1, <3>2
  <2>3. Places(g, b) \subseteq 1..(Len(f) + n) /\ Places(f, b) \cup {j} \subseteq 1..(Len(f) + n)
    BY <1>1, <2>1 DEF Places
  <2>4. Places(g, b) = Places(f, b) \cup {j}
    BY <2>2, <2>3
  <2>5. j \notin Places(f, b)
    BY <1>1, <2>1 DEF Places
  <2> HIDE DEF j
  <2>6. Cardinality(Places(f, b) \cup {j}) = Cardinality(Places(f, b)) + 1
    BY <1>2, <2>5, FS_AddElement
  <2> QED
    BY <1>3, <1>5, <2>4, <2>6 DEF Times
<1> QED
  BY <1>3, <1>4, <1>5

\* A byte that is not in the file is there no times.
LEMMA NoTimes ==
  ASSUME NEW f, NEW b, b \notin Members(f)
  PROVE  Times(f, b) = 0
<1>1. Places(f, b) = {}
  BY DEF Places, Members
<1> QED
  BY <1>1, FS_EmptySet DEF Times

-----------------------------------------------------------------------------

\* The runs in which the file stays in order.
Orderly == recorder = "poc" \/ recorded < Size

\* The last byte the thread has passed.
Passed == recorded - (IF Rp_pos <= Wp THEN Wp - Rp_pos ELSE Wp - Rp_pos + Size)

\* The last one it has done with: between a write and the move behind it that
\* is the last written or missed.
DoneWith == IF rec = "move" THEN recorded
            ELSE IF rec = "rewind" THEN recorded - Wp ELSE Passed

\* Every position holds the last byte recorded there.
Laps ==
  /\ recorded = Wp \/ recorded - Wp >= Size
  /\ recorded = Wp => Rp_pos <= Wp
  /\ \A p \in Positions : audio_buff[p] =
       IF p < Wp THEN recorded - Wp + p + 1
       ELSE IF recorded = Wp THEN 0 ELSE recorded - Wp + p + 1 - Size

Whereabouts ==
  /\ rec \in {"size", "ahead"} => Rp_pos # Wp
  /\ rec \in {"left", "rewind"} => Wp < Rp_pos
  /\ rec = "begin" => Rp_pos = 0 /\ recorded >= Size

\* Only a thread that stayed at the start of the ring has written bytes that it
\* is still to reach, and those once.
OnceAhead ==
  /\ Rp_pos > 0 \/ Orderly \/ rec = "begin" => Members(file) \subseteq 1..DoneWith
  /\ \A b \in Nat : b > DoneWith => Times(file, b) <= 1

Covered == 1..DoneWith \subseteq Members(file) \cup late

RecRuns == rec \notin {"gone", "corrupt"} => Laps /\ Whereabouts /\ OnceAhead /\ Covered

\* When the driver has been stopped nothing is written any more.
RecStopped ==
  /\ rec \in {"look", "size", "gone"} /\ Wp = 0 /\ Len(file) >= MaxLen
  /\ recorder = "stream" => closes = 1 /\ rec = "gone"
  /\ rec = "size" \/ closes = 2 => Rp_pos # 0

FileKept ==
  /\ Orderly => Rising(file)
  /\ \A b \in Nat : Times(file, b) <= 2
  /\ Members(file) \subseteq 1..recorded
  /\ rec = "corrupt" => recorded >= Size

RecInv ==
  /\ RingTypeOK /\ FileKept
  /\ IF closes = 0 THEN RecRuns ELSE RecStopped

-----------------------------------------------------------------------------

\* The next position.
LEMMA NextPosition ==
  \A p \in Positions : (p + 1) % Size = IF p + 1 = Size THEN 0 ELSE p + 1
<1> SUFFICES ASSUME NEW p \in Positions
             PROVE  (p + 1) % Size = IF p + 1 = Size THEN 0 ELSE p + 1
  OBVIOUS
<1>1. p \in Nat /\ p + 1 <= Size /\ Size \in Nat /\ Size > 0
  BY RingAssumption DEF Positions
<1>2. CASE p + 1 = Size
  BY <1>1, <1>2
<1>3. CASE p + 1 < Size
  BY <1>1, <1>3
<1> QED
  BY <1>1, <1>2, <1>3

\* The facts of a state in which the driver runs.
LEMMA RingNumbers ==
  ASSUME RecInv
  PROVE  /\ Size \in Nat /\ Size > 1 /\ MaxRecorded \in Nat
         /\ Wp \in Int /\ 0 <= Wp /\ Wp < Size
         /\ Rp_pos \in Int /\ 0 <= Rp_pos /\ Rp_pos < Size
         /\ recorded \in Nat /\ recorded <= MaxRecorded
         /\ audio_buff \in [Positions -> 0..MaxRecorded]
         /\ late \subseteq 1..recorded
         /\ Passed \in Int
         /\ closes = 0 /\ rec \notin {"gone", "corrupt"} =>
              0 <= Passed /\ Passed <= recorded /\ 0 <= recorded - Wp
<1>1. /\ Size \in Nat /\ Size > 1 /\ MaxRecorded \in Nat
      /\ Wp \in Int /\ 0 <= Wp /\ Wp < Size
      /\ Rp_pos \in Int /\ 0 <= Rp_pos /\ Rp_pos < Size
      /\ recorded \in Nat /\ recorded <= MaxRecorded
      /\ audio_buff \in [Positions -> 0..MaxRecorded]
      /\ late \subseteq 1..recorded
  BY RingAssumption DEF RecInv, RingTypeOK, Positions
<1>2. Passed \in Int
  BY <1>1 DEF Passed
<1>3. ASSUME closes = 0, rec \notin {"gone", "corrupt"}
      PROVE  0 <= Passed /\ Passed <= recorded /\ 0 <= recorded - Wp
  BY <1>1, <1>3 DEF RecInv, RecRuns, Laps, Passed
<1> QED
  BY <1>1, <1>2, <1>3

\* Before the recording the ring is empty and nothing has been written.
LEMMA RecInitInv == RecInit => RecInv
<1> SUFFICES ASSUME RecInit PROVE RecInv
  OBVIOUS
<1> USE DEF RecInit
<1>1. RingTypeOK
  <2>1. 0 \in Positions /\ 0 \in 0..MaxRecorded
    BY RingAssumption DEF Positions
  <2> QED
    BY <2>1 DEF RingTypeOK
<1>2. Members(file) = {} /\ Rising(file) /\ \A b \in Nat : Times(file, b) = 0
  <2>1. Members(file) = {} /\ Rising(file)
    BY DEF Members, Rising
  <2> QED
    BY <2>1, NoTimes
<1>3. FileKept
  BY <1>2 DEF FileKept
<1>4. Passed = 0 /\ DoneWith = 0
  BY DEF Passed, DoneWith
<1>5. Laps /\ Whereabouts
  BY RingAssumption DEF Laps, Whereabouts, Positions
<1>6. OnceAhead /\ Covered
  BY <1>2, <1>4 DEF OnceAhead, Covered
<1> QED
  BY <1>1, <1>3, <1>5, <1>6 DEF RecInv, RecRuns

-----------------------------------------------------------------------------
(* The driver *)

\* The driver's next byte takes the place of the one a lap before it.
LEMMA RecordKeeps ==
  ASSUME RecInv, Record
  PROVE  RecInv'
<1>1. /\ closes = 0 /\ rec \notin {"start", "gone", "corrupt"} /\ recorded < MaxRecorded
      /\ recorded' = recorded + 1
      /\ audio_buff' = [audio_buff EXCEPT ![Wp] = recorded + 1]
      /\ late' = IF rec = "move" THEN late \cup {recorded + 1} ELSE late
      /\ UNCHANGED <<recorder, rec, Rp_pos, file, closes>>
  BY DEF Record, Recording
<1>2. /\ Size \in Nat /\ Size > 1 /\ MaxRecorded \in Nat
      /\ Wp \in Int /\ 0 <= Wp /\ Wp < Size
      /\ Rp_pos \in Int /\ 0 <= Rp_pos /\ Rp_pos < Size
      /\ recorded \in Nat /\ audio_buff \in [Positions -> 0..MaxRecorded]
      /\ late \subseteq 1..recorded /\ 0 <= recorded - Wp /\ Passed \in Int
  BY <1>1, RingNumbers
<1>3. Wp' = (IF Wp + 1 = Size THEN 0 ELSE Wp + 1) /\ Wp' # Rp_pos
  BY <1>2, NextPosition DEF Record, KeepsUp, Positions
<1>4. Wp' \in Int /\ 0 <= Wp' /\ Wp' < Size
  BY <1>2, <1>3
<1>5. Laps /\ Whereabouts /\ OnceAhead /\ Covered
  BY <1>1 DEF RecInv, RecRuns
<1>6. Passed' = Passed
  BY <1>1, <1>2, <1>3, <1>4 DEF Passed
<1>7. RingTypeOK'
  <2>1. Wp' \in Positions /\ Wp \in Positions
    BY <1>2, <1>4 DEF Positions
  <2>2. recorded' \in 0..MaxRecorded /\ recorded' \in Nat
    BY <1>1, <1>2
  <2>3. late' \subseteq 1..recorded'
    BY <1>1, <1>2
  <2>4. audio_buff' \in [Positions -> 0..MaxRecorded]
    BY <1>1, <1>2, <2>1, <2>2
  <2> QED
    BY <1>1, <2>1, <2>2, <2>3, <2>4 DEF RecInv, RingTypeOK
<1>8. Orderly' => Orderly
  BY <1>1, <1>2 DEF Orderly
<1>9. FileKept'
  <2>1. 1..recorded \subseteq 1..recorded'
    BY <1>1, <1>2
  <2>2. Members(file)' = Members(file)
    BY <1>1 DEF Members
  <2>3. (Rising(file)' <=> Rising(file)) /\ \A b : Times(file, b)' = Times(file, b)
    BY <1>1 DEF Rising, Times, Places
  <2> QED
    BY <1>1, <1>8, <2>1, <2>2, <2>3 DEF RecInv, FileKept
<1>10. Laps'
  <2>1. recorded' = Wp' \/ recorded' - Wp' >= Size
    BY <1>1, <1>2, <1>3, <1>5 DEF Laps
  <2>2. recorded' = Wp' => Rp_pos' <= Wp'
    BY <1>1, <1>2, <1>3, <1>5 DEF Laps
  <2>3. ASSUME NEW p \in Positions
        PROVE  audio_buff'[p] =
                 IF p < Wp' THEN recorded' - Wp' + p + 1
                 ELSE IF recorded' = Wp' THEN 0 ELSE recorded' - Wp' + p + 1 - Size
    <3>1. p \in Int /\ 0 <= p /\ p < Size
      BY <1>2 DEF Positions
    <3>2. CASE p = Wp
      BY <1>1, <1>2, <1>3, <1>5, <3>1, <3>2 DEF Laps
    <3>3. CASE p # Wp
      <4>1. audio_buff'[p] = audio_buff[p]
        BY <1>1, <1>2, <3>3
      <4> QED
        BY <1>1, <1>2, <1>3, <1>5, <3>1, <3>3, <4>1 DEF Laps
    <3> QED
      BY <3>2, <3>3
  <2> QED
    BY <2>1, <2>2, <2>3 DEF Laps
<1>11. Whereabouts'
  BY <1>1, <1>2, <1>3, <1>5 DEF Whereabouts
<1>12. DoneWith' = IF rec = "move" THEN recorded + 1 ELSE DoneWith
  <2>1. rec = "rewind" => recorded' - Wp' = recorded - Wp
    BY <1>1, <1>2, <1>3, <1>5 DEF Whereabouts
  <2> QED
    BY <1>1, <1>6, <2>1 DEF DoneWith
<1>13. DoneWith \in Int
  BY <1>2 DEF DoneWith
<1>14. OnceAhead' /\ Covered'
  <2>1. Members(file)' = Members(file) /\ \A b : Times(file, b)' = Times(file, b)
    BY <1>1 DEF Members, Times, Places
  <2>2. CASE rec = "move"
    <3>1. DoneWith = recorded /\ 1..recorded \subseteq 1..(recorded + 1)
      BY <1>2, <2>2 DEF DoneWith
    <3>2. Members(file)' \subseteq 1..(recorded + 1)
      BY <2>1, <3>1 DEF RecInv, FileKept
    <3>3. \A b \in Nat : b > recorded + 1 => Times(file, b)' <= 1
      BY <1>2, <1>5, <2>1, <3>1 DEF OnceAhead
    <3>4. 1..(recorded + 1) \subseteq Members(file) \cup late'
      BY <1>1, <1>2, <1>5, <2>2, <3>1 DEF Covered
    <3> QED
      BY <1>12, <2>1, <2>2, <3>2, <3>3, <3>4 DEF OnceAhead, Covered
  <2>3. CASE rec # "move"
    BY <1>1, <1>5, <1>8, <1>12, <2>1, <2>3 DEF OnceAhead, Covered
  <2> QED
    BY <2>2, <2>3
<1> QED
  BY <1>1, <1>7, <1>9, <1>10, <1>11, <1>14 DEF RecInv, RecRuns
-----------------------------------------------------------------------------
(* The thread: steps that write nothing *)

\* What depends on the file alone.
LEMMA FileUntouched ==
  ASSUME RecInv, UNCHANGED <<recorder, recorded, file>>, rec' # "corrupt"
  PROVE  FileKept'
BY DEF RecInv, FileKept, Orderly, Rising, Members, Times, Places

\* Looking, comparing and starting move nothing.
LEMMA PlainKeeps ==
  ASSUME RecInv, StartFails \/ Start \/ SeeData \/ Compare
  PROVE  RecInv'
<1> USE DEF StartFails, Start, SeeData, Compare, Goes
<1>1. /\ UNCHANGED <<recorder, audio_buff, Wp, Rp_pos, recorded, file, closes, late>>
      /\ rec \notin {"gone", "corrupt", "move", "rewind", "begin"}
      /\ rec' \in {"gone", "look", "size", "ahead", "left"}
  OBVIOUS
<1>2. RingTypeOK'
  BY <1>1 DEF RecInv, RingTypeOK
<1>3. FileKept'
  BY <1>1, FileUntouched
<1>4. CASE closes = 0
  <2>1. Laps /\ Whereabouts /\ OnceAhead /\ Covered
    BY <1>1, <1>4 DEF RecInv, RecRuns
  <2>2. Laps'
    BY <1>1, <2>1 DEF Laps
  <2>3. Whereabouts'
    <3>1. Wp \in Int /\ Rp_pos \in Int
      BY RingNumbers
    <3> QED
      BY <1>1, <2>1, <3>1 DEF Whereabouts
  <2>4. Members(file)' = Members(file) /\ \A b : Times(file, b)' = Times(file, b)
    BY <1>1 DEF Members, Times, Places
  <2>5. DoneWith' = DoneWith /\ Orderly' = Orderly
    BY <1>1 DEF DoneWith, Passed, Orderly
  <2>6. OnceAhead' /\ Covered'
    BY <1>1, <2>1, <2>4, <2>5 DEF OnceAhead, Covered
  <2> QED
    BY <1>1, <1>2, <1>3, <1>4, <2>2, <2>3, <2>6 DEF RecInv, RecRuns
<1>5. CASE closes # 0
  <2>1. RecStopped
    BY <1>5 DEF RecInv
  <2>2. RecStopped'
    <3>1. Len(file) \in Int /\ MaxLen \in Int
      BY RingAssumption DEF RecInv, RingTypeOK
    <3> QED
      BY <1>1, <2>1, <3>1 DEF RecStopped
  <2> QED
    BY <1>1, <1>2, <1>3, <1>5, <2>2 DEF RecInv
<1> QED
  BY <1>4, <1>5

\* A recording that is stopped has reached its length, so that the thread writes
\* no more: the poc recorder only stops it again.
LEMMA StopKeeps ==
  ASSUME RecInv, Stop
  PROVE  RecInv'
<1>1. /\ rec = "size" /\ rec' = (IF recorder = "stream" THEN "gone" ELSE "look")
      /\ Len(file) >= MaxLen /\ Wp' = 0
      /\ closes' = (IF closes < 2 THEN closes + 1 ELSE 2)
      /\ UNCHANGED <<recorder, audio_buff, Rp_pos, recorded, file, late>>
  BY DEF Stop, Goes
<1>2. closes \in 0..2 /\ closes' \in 1..2 /\ recorder \in {"stream", "poc"}
  BY <1>1 DEF RecInv, RingTypeOK
<1>3. RingTypeOK'
  <2>1. 0 \in Positions
    BY RingAssumption DEF Positions
  <2> QED
    BY <1>1, <1>2, <2>1 DEF RecInv, RingTypeOK
<1>4. FileKept'
  BY <1>1, FileUntouched
<1>5. RecStopped'
  <2>1. CASE closes = 0
    BY <1>1, <1>2, <2>1 DEF RecStopped
  <2>2. CASE closes # 0
    BY <1>1, <1>2, <2>2 DEF RecStopped, RecInv
  <2> QED
    BY <2>1, <2>2
<1> QED
  BY <1>2, <1>3, <1>4, <1>5 DEF RecInv

\* The position moves to Wp, or back to the start of the ring.
LEMMA MoveKeeps ==
  ASSUME RecInv, Move \/ Rewind
  PROVE  RecInv'
<1> USE DEF Move, Rewind, Goes
<1>1. /\ \/ rec = "move" /\ rec' = "look" /\ Rp_pos' = Wp
         \/ rec = "rewind" /\ rec' = "begin" /\ Rp_pos' = 0
      /\ UNCHANGED <<recorder, audio_buff, Wp, recorded, file, closes, late>>
  OBVIOUS
<1>2. closes = 0 /\ Laps /\ Whereabouts /\ OnceAhead /\ Covered
  BY <1>1 DEF RecInv, RecRuns, RecStopped
<1>3. /\ Wp \in Int /\ 0 <= Wp /\ Rp_pos \in Int /\ 0 <= Rp_pos /\ recorded \in Nat
      /\ Size \in Nat /\ Wp < Size
  BY RingNumbers
<1>4. RingTypeOK'
  <2>1. 0 \in Positions
    BY RingAssumption DEF Positions
  <2> QED
    BY <1>1, <2>1 DEF RecInv, RingTypeOK
<1>5. FileKept'
  BY <1>1, FileUntouched
<1>6. Laps'
  <2>1. recorded = Wp => Rp_pos' <= Wp
    BY <1>1, <1>3
  <2> QED
    BY <1>1, <1>2, <2>1 DEF Laps
<1>7. Whereabouts'
  BY <1>1, <1>2, <1>3 DEF Whereabouts, Laps
<1>8. DoneWith' = DoneWith /\ Orderly' = Orderly
  BY <1>1, <1>3 DEF DoneWith, Passed, Orderly
<1>9. rec = "rewind" => Rp_pos > 0
  BY <1>2, <1>3 DEF Whereabouts
<1>10. Members(file)' = Members(file) /\ \A b : Times(file, b)' = Times(file, b)
  BY <1>1 DEF Members, Times, Places
<1>11. Members(file) \subseteq 1..DoneWith
  BY <1>1, <1>2, <1>9 DEF RecInv, FileKept, OnceAhead, DoneWith
<1>12. OnceAhead' /\ Covered'
  BY <1>1, <1>2, <1>8, <1>10, <1>11 DEF OnceAhead, Covered
<1> QED
  BY <1>1, <1>2, <1>4, <1>5, <1>6, <1>7, <1>12 DEF RecInv, RecRuns

-----------------------------------------------------------------------------
(* The thread: steps that write.  n bytes behind byte c are written.  *)

\* A run is written behind the bytes the thread has passed.
LEMMA Writes ==
  ASSUME RecInv, NEW c \in Nat, NEW n \in Nat, c + n <= recorded,
         file' = file \o Run(c, n), UNCHANGED <<recorder, recorded>>, rec' # "corrupt",
         Orderly => Members(file) \subseteq 1..c,
         \A b \in (c + 1)..(c + n) : Times(file, b) <= 1
  PROVE  /\ FileKept' /\ file' \in Seq(1..MaxRecorded)
         /\ Members(file)' = Members(file) \cup ((c + 1)..(c + n))
         /\ AddsOnce(file, c, n, file')
<1>1. recorded \in Nat /\ MaxRecorded \in Nat /\ recorded <= MaxRecorded
  BY RingNumbers
<1>2. PICK f \in Seq(1..MaxRecorded) : f = file
  BY DEF RecInv, RingTypeOK
<1>3. PICK g : g = file'
  OBVIOUS
<1>4. c + n <= MaxRecorded /\ g = f \o Run(c, n)
  BY <1>1, <1>2, <1>3
<1>5. g \in Seq(1..MaxRecorded) /\ IsRunBehind(f, c, n, g)
  BY <1>1, <1>4, RunAppended
<1>6. Members(g) = Members(f) \cup ((c + 1)..(c + n))
  BY <1>5, RunMembers
<1>t. AddsOnce(f, c, n, g)
  BY <1>5, RunTimes
<1>7. \A b \in Nat : /\ Times(f, b) \in Nat
                     /\ b \in (c + 1)..(c + n) => Times(g, b) = Times(f, b) + 1
                     /\ b \notin (c + 1)..(c + n) => Times(g, b) = Times(f, b)
  BY <1>t DEF AddsOnce
<1>8. /\ Members(file)' = Members(g) /\ Members(file) = Members(f)
      /\ \A b : Times(file, b)' = Times(g, b) /\ Times(file, b) = Times(f, b)
      /\ (Rising(file)' <=> Rising(g)) /\ (Rising(file) <=> Rising(f))
      /\ (Orderly' <=> Orderly)
  BY <1>2, <1>3 DEF Members, Times, Places, Rising, Orderly
<1>9. Orderly => Rising(g)
  <2> SUFFICES ASSUME Orderly PROVE Rising(g)
    OBVIOUS
  <2>1. Rising(f) /\ Members(f) \subseteq 1..c
    BY <1>8 DEF RecInv, FileKept
  <2> QED
    BY <1>5, <2>1, RunRises
<1>10. ASSUME NEW b \in Nat PROVE Times(g, b) <= 2
  <2>1. Times(f, b) \in Nat /\ Times(f, b) <= 2 /\ (b \in (c + 1)..(c + n) => Times(f, b) <= 1)
    BY <1>7, <1>8 DEF RecInv, FileKept
  <2>2. CASE b \in (c + 1)..(c + n)
    <3>1. Times(g, b) = Times(f, b) + 1
      BY <1>7, <2>2
    <3> QED
      BY <2>1, <2>2, <3>1
  <2>3. CASE b \notin (c + 1)..(c + n)
    <3>1. Times(g, b) = Times(f, b)
      BY <1>7, <2>3
    <3> QED
      BY <2>1, <3>1
  <2> QED
    BY <2>2, <2>3
<1>11. Members(g) \subseteq 1..recorded
  <2>1. (c + 1)..(c + n) \subseteq 1..recorded
    BY <1>1
  <2> QED
    BY <1>6, <1>8, <2>1 DEF RecInv, FileKept
<1>12. FileKept'
  BY <1>8, <1>9, <1>10, <1>11 DEF FileKept
<1>13. AddsOnce(file, c, n, file')
  BY <1>2, <1>3, <1>t
<1> QED
  BY <1>3, <1>5, <1>6, <1>8, <1>12, <1>13

\* The next bytes up to Wp are those from the position on, if it is behind Wp.
LEMMA AheadBytes ==
  ASSUME RecInv, closes = 0, rec \notin {"gone", "corrupt"}, Rp_pos <= Wp
  PROVE  Bytes(Rp_pos, Wp) = Run(Passed, Wp - Rp_pos) /\ Passed + (Wp - Rp_pos) = recorded
<1>1. /\ Wp \in Int /\ 0 <= Wp /\ Rp_pos \in Int /\ 0 <= Rp_pos /\ recorded \in Nat
      /\ Size \in Nat /\ Wp < Size
  BY RingNumbers
<1>2. Passed = recorded - (Wp - Rp_pos)
  BY DEF Passed
<1>3. ASSUME NEW i \in 1..(Wp - Rp_pos)
      PROVE  audio_buff[Rp_pos + i - 1] = Passed + i
  <2>1. Rp_pos + i - 1 \in Positions /\ Rp_pos + i - 1 < Wp
    BY <1>1 DEF Positions
  <2> QED
    BY <1>1, <1>2, <2>1 DEF RecInv, RecRuns, Laps
<1> QED
  BY <1>1, <1>2, <1>3 DEF Bytes, Run

\* What is written up to Wp is all there is, or the length was negative.
LEMMA WriteAheadKeeps ==
  ASSUME RecInv, WriteAhead
  PROVE  RecInv'
<1>1. /\ rec = "ahead" /\ UNCHANGED <<recorder, audio_buff, Wp, Rp_pos, recorded, closes, late>>
      /\ rec' = (IF Rp_pos <= Wp THEN "move" ELSE "corrupt")
      /\ file' = (IF Rp_pos <= Wp THEN file \o Bytes(Rp_pos, Wp) ELSE file)
  BY DEF WriteAhead
<1>2. closes = 0 /\ Laps /\ Whereabouts /\ OnceAhead /\ Covered
  BY <1>1 DEF RecInv, RecRuns, RecStopped
<1>3. /\ Wp \in Int /\ 0 <= Wp /\ Rp_pos \in Int /\ 0 <= Rp_pos /\ recorded \in Nat
      /\ Size \in Nat /\ Wp < Size /\ Passed \in Int /\ 0 <= Passed
  BY <1>1, <1>2, RingNumbers
<1>4. CASE ~(Rp_pos <= Wp)
  <2>1. RingTypeOK'
    BY <1>1, <1>4 DEF RecInv, RingTypeOK
  <2>2. recorded >= Size
    BY <1>2, <1>3, <1>4 DEF Laps
  <2>3. FileKept'
    BY <1>1, <1>4, <2>2 DEF RecInv, FileKept, Orderly, Rising, Members, Times, Places
  <2> QED
    BY <1>1, <1>2, <1>4, <2>1, <2>3 DEF RecInv, RecRuns
<1>5. CASE Rp_pos <= Wp
  <2>1. PICK c \in Nat : c = Passed
    BY <1>3
  <2>2. PICK n \in Nat : n = Wp - Rp_pos
    BY <1>3, <1>5
  <2>3. file' = file \o Run(c, n) /\ c + n = recorded
    BY <1>1, <1>2, <1>5, <2>1, <2>2, AheadBytes
  <2>4. DoneWith = c
    BY <1>1, <2>1 DEF DoneWith
  <2>5. Orderly => Members(file) \subseteq 1..c
    BY <1>2, <2>4 DEF OnceAhead
  <2>6. \A b \in (c + 1)..(c + n) : Times(file, b) <= 1
    BY <1>2, <2>4 DEF OnceAhead
  <2>7. /\ FileKept' /\ file' \in Seq(1..MaxRecorded)
        /\ Members(file)' = Members(file) \cup ((c + 1)..(c + n))
    <3>1. c + n <= recorded /\ UNCHANGED <<recorder, recorded>> /\ rec' # "corrupt"
      BY <1>1, <1>3, <1>5, <2>3
    <3> QED
      BY ONLY <2>3, <2>5, <2>6, <3>1, RecInv, c \in Nat, n \in Nat, Writes
  <2>8. RingTypeOK'
    BY <1>1, <1>5, <2>7 DEF RecInv, RingTypeOK
  <2>9. Laps' /\ Whereabouts'
    BY <1>1, <1>2, <1>5 DEF Laps, Whereabouts
  <2>10. DoneWith' = recorded /\ rec' = "move"
    BY <1>1, <1>5 DEF DoneWith
  <2>11. OnceAhead'
    <3>1. Members(file)' \subseteq 1..recorded
      BY <1>1, <2>7 DEF FileKept
    <3>2. \A b \in Nat : b > recorded => Times(file, b)' = 0
      <4>1. PICK g : g = file'
        OBVIOUS
      <4>2. \A b \in Nat : b > recorded => b \notin Members(g)
        BY <1>3, <3>1, <4>1 DEF Members
      <4>3. \A b \in Nat : b > recorded => Times(g, b) = 0
        BY <4>2, NoTimes
      <4> QED
        BY <4>1, <4>3 DEF Times, Places
    <3> QED
      BY <2>10, <3>1, <3>2 DEF OnceAhead
  <2>12. Covered'
    <3>1. 1..recorded \subseteq 1..c \cup ((c + 1)..(c + n))
      BY <1>3, <2>3
    <3> QED
      BY <1>1, <1>2, <2>4, <2>7, <2>10, <3>1 DEF Covered
  <2> QED
    BY <1>1, <1>2, <2>7, <2>8, <2>9, <2>11, <2>12 DEF RecInv, RecRuns
<1> QED
  BY <1>4, <1>5
\* From the position, which is ahead of Wp, to the end of the ring.
LEMMA WriteLeftKeeps ==
  ASSUME RecInv, WriteLeft
  PROVE  RecInv'
<1>1. /\ rec = "left" /\ rec' = "rewind" /\ file' = file \o Bytes(Rp_pos, Size)
      /\ UNCHANGED <<recorder, audio_buff, Wp, Rp_pos, recorded, closes, late>>
  BY DEF WriteLeft, Goes
<1>2. closes = 0 /\ Laps /\ Whereabouts /\ OnceAhead /\ Covered
  BY <1>1 DEF RecInv, RecRuns, RecStopped
<1>3. /\ Wp \in Int /\ 0 <= Wp /\ Rp_pos \in Int /\ Wp < Rp_pos /\ recorded \in Nat
      /\ Size \in Nat /\ Rp_pos < Size /\ Passed \in Int /\ 0 <= Passed
      /\ Passed = recorded - Wp - (Size - Rp_pos)
  <2>1. Wp < Rp_pos /\ Wp \in Int /\ Rp_pos \in Int /\ Size \in Nat /\ recorded \in Nat
    BY <1>1, <1>2, RingNumbers DEF Whereabouts
  <2>2. Passed = recorded - Wp - (Size - Rp_pos)
    BY <2>1 DEF Passed
  <2> QED
    BY <1>1, <1>2, <2>1, <2>2, RingNumbers
<1>4. PICK c \in Nat : c = Passed
  BY <1>3
<1>5. PICK n \in Nat : n = Size - Rp_pos
  BY <1>3
<1>6. c + n <= recorded /\ c + n = recorded - Wp
  BY <1>3, <1>4, <1>5
<1>7. file' = file \o Run(c, n)
  <2>1. ASSUME NEW i \in 1..(Size - Rp_pos)
        PROVE  audio_buff[Rp_pos + i - 1] = c + i
    <3>1. Rp_pos + i - 1 \in Positions /\ ~(Rp_pos + i - 1 < Wp) /\ recorded # Wp
      BY <1>2, <1>3 DEF Positions, Laps
    <3> QED
      BY <1>2, <1>3, <1>4, <3>1 DEF Laps
  <2>2. Bytes(Rp_pos, Size) = Run(c, n)
    BY <1>5, <2>1 DEF Bytes, Run
  <2> QED
    BY <1>1, <2>2
<1>8. DoneWith = c /\ DoneWith' = c + n /\ Orderly' = Orderly
  BY <1>1, <1>4, <1>6 DEF DoneWith, Orderly
<1>9. Members(file) \subseteq 1..c
  BY <1>2, <1>3, <1>8 DEF OnceAhead
<1>10. \A b \in (c + 1)..(c + n) : Times(file, b) <= 1
  BY <1>2, <1>8 DEF OnceAhead
<1>11. /\ FileKept' /\ file' \in Seq(1..MaxRecorded)
       /\ Members(file)' = Members(file) \cup ((c + 1)..(c + n))
  <2>1. rec' # "corrupt" /\ UNCHANGED <<recorder, recorded>>
    BY <1>1
  <2> QED
    BY ONLY <1>6, <1>7, <1>9, <1>10, <2>1, RecInv, c \in Nat, n \in Nat, Writes
<1>12. RingTypeOK'
  BY <1>1, <1>11 DEF RecInv, RingTypeOK
<1>13. Laps' /\ Whereabouts'
  BY <1>1, <1>2 DEF Laps, Whereabouts
<1>14. Members(file)' = Members(file) \cup ((c + 1)..(c + n)) /\ Members(file)' \subseteq 1..(c + n)
  BY <1>9, <1>11
<1>15. OnceAhead'
  <2>1. \A b \in Nat : b > c + n => Times(file, b)' <= 1
    <3>1. PICK g : g = file'
      OBVIOUS
    <3>2. \A b \in Nat : b > c + n => b \notin Members(g)
      BY <1>14, <3>1 DEF Members
    <3>3. \A b \in Nat : b > c + n => Times(g, b) = 0
      BY <3>2, NoTimes
    <3> QED
      BY <3>1, <3>3 DEF Times, Places
  <2> QED
    BY <1>8, <1>14, <2>1 DEF OnceAhead
<1>16. Covered'
  <2>1. 1..(c + n) \subseteq 1..c \cup ((c + 1)..(c + n))
    OBVIOUS
  <2> QED
    BY <1>1, <1>2, <1>8, <1>14, <2>1 DEF Covered
<1> QED
  BY <1>1, <1>2, <1>11, <1>12, <1>13, <1>15, <1>16 DEF RecInv, RecRuns

\* From the start of the ring, where the position is, up to Wp.
LEMMA WriteBeginKeeps ==
  ASSUME RecInv, WriteBegin \/ WriteBeginPoc
  PROVE  RecInv'
<1>1. /\ rec = "begin" /\ rec' = (IF recorder = "stream" THEN "look" ELSE "move")
      /\ recorder \in {"stream", "poc"} /\ file' = file \o Bytes(0, Wp)
      /\ UNCHANGED <<recorder, audio_buff, Wp, Rp_pos, recorded, closes, late>>
  BY DEF WriteBegin, WriteBeginPoc
<1>2. closes = 0 /\ Laps /\ Whereabouts /\ OnceAhead /\ Covered
  BY <1>1 DEF RecInv, RecRuns, RecStopped
<1>3. /\ Wp \in Int /\ 0 <= Wp /\ Rp_pos = 0 /\ recorded \in Nat /\ recorded >= Size
      /\ Size \in Nat /\ Passed \in Int /\ 0 <= Passed /\ Rp_pos <= Wp
      /\ Passed = recorded - Wp
  <2>1. Rp_pos = 0 /\ recorded >= Size /\ Wp \in Int /\ 0 <= Wp /\ Size \in Nat /\ recorded \in Nat
    BY <1>1, <1>2, RingNumbers DEF Whereabouts
  <2>2. Passed = recorded - Wp
    BY <2>1 DEF Passed
  <2> QED
    BY <1>1, <1>2, <2>1, <2>2, RingNumbers
<1>4. PICK c \in Nat : c = Passed
  BY <1>3
<1>5. PICK n \in Nat : n = Wp - Rp_pos
  BY <1>3
<1>6. file' = file \o Run(c, n) /\ c + n = recorded
  BY <1>1, <1>2, <1>3, <1>4, <1>5, AheadBytes
<1>7. Members(file) \subseteq 1..c /\ \A b \in Nat : b > c => Times(file, b) = 0
  <2>1. Members(file) \subseteq 1..c
    BY <1>1, <1>2, <1>4 DEF OnceAhead, DoneWith
  <2>2. PICK f : f = file
    OBVIOUS
  <2>3. \A b \in Nat : b > c => b \notin Members(f)
    BY <2>1, <2>2
  <2>4. \A b \in Nat : b > c => Times(f, b) = 0
    BY <2>3, NoTimes
  <2> QED
    BY <2>1, <2>2, <2>4
<1>8. \A b \in (c + 1)..(c + n) : Times(file, b) <= 1
  BY <1>7
<1>9. /\ FileKept' /\ file' \in Seq(1..MaxRecorded)
      /\ Members(file)' = Members(file) \cup ((c + 1)..(c + n))
      /\ AddsOnce(file, c, n, file')
  <2>1. rec' # "corrupt" /\ UNCHANGED <<recorder, recorded>> /\ c + n <= recorded
    BY <1>1, <1>3, <1>6
  <2> QED
    BY ONLY <1>6, <1>7, <1>8, <2>1, RecInv, c \in Nat, n \in Nat, Writes
<1>10. RingTypeOK'
  BY <1>1, <1>9 DEF RecInv, RingTypeOK
<1>11. Laps' /\ Whereabouts'
  BY <1>1, <1>2 DEF Laps, Whereabouts
<1>12. DoneWith = c /\ DoneWith' = IF recorder = "stream" THEN c ELSE recorded
  BY <1>1, <1>4 DEF DoneWith, Passed
<1>13. Members(file)' \subseteq 1..recorded
  BY <1>1, <1>9 DEF FileKept
<1>14. \A b \in Nat : b > c => Times(file, b)' <= 1
  <2> SUFFICES ASSUME NEW b \in Nat, b > c PROVE Times(file, b)' <= 1
    OBVIOUS
  <2>1. Times(file, b) = 0 /\ Times(file, b)' = Times(file', b)
    BY <1>7 DEF Times, Places
  <2>2. CASE b \in (c + 1)..(c + n)
    <3>1. Times(file', b) = Times(file, b) + 1
      BY <1>9, <2>2 DEF AddsOnce
    <3> QED
      BY <2>1, <3>1
  <2>3. CASE b \notin (c + 1)..(c + n)
    <3>1. Times(file', b) = Times(file, b)
      BY <1>9, <2>3 DEF AddsOnce
    <3> QED
      BY <2>1, <3>1
  <2> QED
    BY <2>2, <2>3
<1>15. OnceAhead'
  <2>1. CASE recorder = "stream"
    <3>1. ~Orderly' /\ ~(Rp_pos' > 0) /\ rec' # "begin"
      BY <1>1, <1>3, <2>1 DEF Orderly
    <3> QED
      BY <1>12, <1>14, <2>1, <3>1 DEF OnceAhead
  <2>2. CASE recorder # "stream"
    BY <1>3, <1>6, <1>12, <1>13, <1>14, <2>2 DEF OnceAhead
  <2> QED
    BY <2>1, <2>2
<1>16. Covered'
  <2>1. 1..recorded \subseteq 1..c \cup ((c + 1)..(c + n))
    BY <1>6
  <2>2. 1..DoneWith' \subseteq 1..recorded
    BY <1>3, <1>6, <1>12
  <2> QED
    BY <1>1, <1>2, <1>9, <1>12, <2>1, <2>2 DEF Covered
<1> QED
  BY <1>1, <1>2, <1>9, <1>10, <1>11, <1>15, <1>16 DEF RecInv, RecRuns

\* Every step of the recorders keeps the invariant.
LEMMA RecStep ==
  ASSUME RecInv, [RecNext]_recVars
  PROVE  RecInv'
<1>1. CASE UNCHANGED recVars
  BY <1>1 DEF recVars, RecInv, RingTypeOK, FileKept, RecRuns, RecStopped, Laps, Whereabouts,
              OnceAhead, Covered, DoneWith, Passed, Orderly, Rising, Members, Times, Places
<1> QED
  BY <1>1, RecordKeeps, PlainKeeps, StopKeeps, MoveKeeps, WriteAheadKeeps, WriteLeftKeeps,
     WriteBeginKeeps DEF RecNext, RecThread

-----------------------------------------------------------------------------

\* The bytes the thread has not passed are in the positions it has not passed.
LEMMA UnreadBytes ==
  ASSUME RecInv, Recording, NEW b \in 1..recorded, b > Passed
  PROVE  \E p \in Unread : audio_buff[p] = b
<1>1. closes = 0 /\ rec \notin {"start", "gone", "corrupt"}
  BY DEF Recording
<1>2. /\ Wp \in Int /\ 0 <= Wp /\ Rp_pos \in Int /\ 0 <= Rp_pos /\ recorded \in Nat
      /\ Size \in Nat /\ Wp < Size /\ Rp_pos < Size /\ Passed \in Int
  BY RingNumbers
<1>3. Laps
  BY <1>1 DEF RecInv, RecRuns
<1>4. CASE Rp_pos <= Wp
  <2> DEFINE p == Rp_pos + (b - Passed) - 1
  <2>1. Passed = recorded - (Wp - Rp_pos)
    BY <1>4 DEF Passed
  <2>2. p \in Positions /\ p < Wp /\ Rp_pos <= p
    BY <1>2, <1>4, <2>1 DEF Positions
  <2>3. audio_buff[p] = b
    BY <1>2, <1>3, <2>1, <2>2 DEF Laps
  <2>4. p \in Unread
    BY <1>2, <1>4, <2>2 DEF Unread
  <2> QED
    BY <2>3, <2>4
<1>5. CASE Wp < Rp_pos
  <2>1. Passed = recorded - (Wp - Rp_pos + Size) /\ ~(Rp_pos <= Wp) /\ recorded # Wp
    BY <1>2, <1>3, <1>5 DEF Passed, Laps
  <2>2. CASE b <= recorded - Wp
    <3> DEFINE p == Rp_pos + (b - Passed) - 1
    <3>1. p \in Positions /\ ~(p < Wp) /\ Rp_pos <= p /\ p <= Size - 1
      BY <1>2, <1>5, <2>1, <2>2 DEF Positions
    <3>2. audio_buff[p] = b
      BY <1>2, <1>3, <2>1, <3>1 DEF Laps
    <3>3. p \in Unread
      BY <1>2, <2>1, <3>1 DEF Unread
    <3> QED
      BY <3>2, <3>3
  <2>3. CASE b > recorded - Wp
    <3> DEFINE p == b - (recorded - Wp) - 1
    <3>1. p \in Positions /\ p < Wp /\ 0 <= p
      BY <1>2, <2>3 DEF Positions
    <3>2. audio_buff[p] = b
      BY <1>2, <1>3, <3>1 DEF Laps
    <3>3. p \in Unread
      BY <1>2, <2>1, <3>1 DEF Unread
    <3> QED
      BY <3>2, <3>3
  <2> QED
    BY <1>2, <2>2, <2>3
<1> QED
  BY <1>2, <1>4, <1>5

\* What is neither written nor late has not been passed.
LEMMA RecInvLost == RecInv => NothingLost
<1> SUFFICES ASSUME RecInv, Recording, NEW b \in 1..recorded
             PROVE  b \in Written \/ b \in late \/ \E p \in Unread : audio_buff[p] = b
  BY DEF NothingLost
<1>1. closes = 0 /\ Laps /\ Whereabouts /\ Covered
  BY DEF Recording, RecInv, RecRuns
<1>2. /\ Wp \in Int /\ Rp_pos \in Int /\ 0 <= Rp_pos /\ recorded \in Nat
      /\ Size \in Nat /\ Rp_pos < Size /\ Passed \in Int /\ Passed <= recorded
  BY RingNumbers DEF Recording
<1>3. Passed <= DoneWith /\ DoneWith \in Int
  BY <1>1, <1>2 DEF DoneWith, Passed, Whereabouts
<1>4. CASE b <= Passed
  <2>1. b \in 1..DoneWith
    BY <1>2, <1>3, <1>4
  <2> QED
    BY <1>1, <2>1 DEF Covered, Members, Written
<1>5. CASE b > Passed
  BY <1>5, UnreadBytes
<1> QED
  BY <1>2, <1>4, <1>5

\* The order of the file, as far as the loops keep it.
LEMMA RecInvOrder == RecInv => InOrder
<1> SUFFICES ASSUME RecInv PROVE InOrder
  OBVIOUS
<1>1. Orderly => \A i \in 1..(Len(file) - 1) : file[i] < file[i + 1]
  BY DEF RecInv, FileKept, Rising
<1>2. recorded \in Nat /\ Size \in Nat /\ closes \in 0..2 /\ recorder \in {"stream", "poc"}
  BY RingNumbers DEF RecInv, RingTypeOK
<1>3. recorded < Size => rec # "corrupt"
  BY <1>2 DEF RecInv, FileKept
<1>4. \A b \in Written : Cardinality({i \in DOMAIN file : file[i] = b}) <= 2
  <2>1. \A b \in Written : b \in Nat
    BY DEF Written, Members, RecInv, FileKept
  <2> QED
    BY <2>1 DEF RecInv, FileKept, Times, Places
<1>5. closes <= 1 \/ (recorder = "poc" /\ Rp_pos # 0)
  BY <1>2 DEF RecInv, RecStopped
<1> QED
  BY <1>1, <1>3, <1>4, <1>5 DEF InOrder, Orderly

-----------------------------------------------------------------------------
\* The first l members of a sequence.
LEMMA Beginning ==
  ASSUME NEW S, NEW s \in Seq(S), NEW l \in 0..Len(s)
  PROVE  /\ SubSeq(s, 1, l) \in Seq(S) /\ Len(SubSeq(s, 1, l)) = l
         /\ \A i \in 1..l : SubSeq(s, 1, l)[i] = s[i]
<1>1. Len(s) \in Nat /\ \A i \in 1..Len(s) : s[i] \in S
  OBVIOUS
<1>2. 1 \in Int /\ l \in Int /\ \A i \in 1..l : s[i] \in S
  BY <1>1
<1>3. SubSeq(s, 1, l) = [i \in 1..l |-> s[i]]
  BY <1>1
<1> QED
  BY <1>1, <1>2, <1>3

-----------------------------------------------------------------------------
(* PocPlay: what the ring holds in front of Wp is what is to be heard *)

FirstPiece == AtMost(Piece, filePlaySize)

\* The ring is never filled to its end, so that both positions only grow and
\* count what was played and what was copied.
InStep ==
  /\ play = "preload" =>
       audioPlayWp = 0 /\ audioPlayRp = 0 /\ TestPlayOffset = 0 /\ played = << >>
  /\ play = "run" =>
       /\ audioPlayWp = FirstPiece + TestPlayOffset
       /\ audioPlayRp = Len(played) /\ audioPlayRp <= audioPlayWp
       /\ \A p \in 0..(audioPlayWp - 1) : audioPlayBuf[p] = Heard[p + 1]

PlayInv == PlayTypeOK /\ InStep /\ PlayedInOrder

\* The file as it is heard begins with its first piece.
LEMMA HeardFacts ==
  ASSUME filePlaySize \in Nat
  PROVE  /\ FirstPiece \in Nat /\ FirstPiece <= filePlaySize /\ FirstPiece < PlayBufSize
         /\ Heard \in Seq(0..filePlaySize) /\ Len(Heard) = FirstPiece + filePlaySize
         /\ \A i \in 1..Len(Heard) : Heard[i] = IF i <= FirstPiece THEN i ELSE i - FirstPiece
<1>1. FirstPiece \in Nat /\ FirstPiece <= filePlaySize /\ FirstPiece < PlayBufSize
  BY PlayAssumption DEF FirstPiece, AtMost
<1>2. Heard = [i \in 1..(FirstPiece + filePlaySize) |-> IF i <= FirstPiece THEN i ELSE i - FirstPiece]
  BY DEF Heard, FirstPiece
<1> HIDE DEF FirstPiece
<1> QED
  BY <1>1, <1>2

\* Before the start nothing is in the ring.
LEMMA PlayInitInv == PlayInit => PlayInv
<1> SUFFICES ASSUME PlayInit PROVE PlayInv
  OBVIOUS
<1> USE DEF PlayInit
<1>1. filePlaySize \in Nat /\ played \in Seq(0..filePlaySize) /\ Len(played) = 0
  BY PlayAssumption
<1>2. PlayTypeOK
  BY <1>1, PlayAssumption DEF PlayTypeOK
<1>3. InStep
  BY DEF InStep
<1>4. PlayedInOrder
  BY <1>1, HeardFacts DEF PlayedInOrder
<1> QED
  BY <1>2, <1>3, <1>4 DEF PlayInv

\* The first piece of the file is at the start of the ring.
LEMMA PreloadInv ==
  ASSUME PlayInv, Preload
  PROVE  PlayInv'
<1> USE DEF Preload
<1>1. filePlaySize \in Nat /\ filePlaySize' = filePlaySize
  BY PlayAssumption DEF PlayInv, PlayTypeOK
<1>2. /\ audioPlayBuf' = Copied(audioPlayBuf, 0, 0, FirstPiece) /\ audioPlayWp' = FirstPiece
      /\ play' = "run" /\ audioPlayRp = 0 /\ TestPlayOffset = 0 /\ played = << >>
      /\ UNCHANGED <<filePlaySize, audioPlayRp, TestPlayOffset, played>>
  BY DEF PlayInv, InStep, FirstPiece
<1>3. Heard' = Heard /\ FirstPiece' = FirstPiece
  BY <1>1 DEF Heard, FirstPiece
<1>4. /\ audioPlayBuf' \in [0..(PlayBufSize - 1) -> 0..filePlaySize]
      /\ \A p \in 0..(FirstPiece - 1) : audioPlayBuf'[p] = p + 1
  <2>1. /\ audioPlayBuf \in [0..(PlayBufSize - 1) -> 0..filePlaySize]
        /\ FirstPiece \in Nat /\ FirstPiece < PlayBufSize /\ 0 + FirstPiece <= filePlaySize
    BY <1>1, HeardFacts DEF PlayInv, PlayTypeOK
  <2>2. /\ audioPlayBuf' \in [0..(PlayBufSize - 1) -> 0..filePlaySize]
        /\ \A p \in 0..(PlayBufSize - 1) : audioPlayBuf'[p] =
             IF p \in 0..(0 + FirstPiece - 1) THEN 0 + p - 0 + 1 ELSE audioPlayBuf[p]
    BY <1>1, <1>2, <2>1, PlayAssumption DEF Copied
  <2> HIDE DEF FirstPiece
  <2> QED
    BY <2>1, <2>2, PlayAssumption
<1>5. PlayTypeOK'
  <2>1. /\ FirstPiece \in 0..(PlayBufSize - 1) /\ 0 \in 0..(PlayBufSize - 1)
        /\ filePlaySize \in FileSizes /\ TestPlayOffset \in 0..filePlaySize
        /\ played \in Seq(0..filePlaySize)
    BY <1>1, HeardFacts, PlayAssumption DEF PlayInv, PlayTypeOK
  <2> QED
    BY <1>2, <1>4, <2>1 DEF PlayTypeOK
<1>6. InStep'
  <2>1. \A p \in 0..(FirstPiece - 1) : audioPlayBuf'[p] = Heard[p + 1]
    BY <1>1, <1>4, HeardFacts
  <2> QED
    BY <1>1, <1>2, <1>3, <2>1, HeardFacts DEF InStep
<1>7. PlayedInOrder'
  BY <1>2, <1>3 DEF PlayInv, PlayedInOrder
<1> QED
  BY <1>5, <1>6, <1>7 DEF PlayInv

\* The next nextPiece of the file follows what is in the ring.
LEMMA RefillInv ==
  ASSUME PlayInv, Refill
  PROVE  PlayInv'
<1> DEFINE nextPiece == AtMost(Piece, filePlaySize - TestPlayOffset)
<1>1. filePlaySize \in Nat /\ TestPlayOffset \in 0..filePlaySize
  BY PlayAssumption DEF PlayInv, PlayTypeOK
<1>2. nextPiece \in Nat /\ TestPlayOffset + nextPiece <= filePlaySize
  BY <1>1, PlayAssumption DEF AtMost
<1>3. /\ play = "run" /\ TestPlayOffset' = TestPlayOffset + nextPiece
      /\ UNCHANGED <<filePlaySize, audioPlayRp, played>>
  BY DEF Refill
<1>4. Heard' = Heard /\ FirstPiece' = FirstPiece
  BY <1>3 DEF Heard, FirstPiece
<1>5. PlayedInOrder'
  BY <1>3, <1>4 DEF PlayInv, PlayedInOrder
<1>6. CASE PlayBufSize - audioPlayWp > nextPiece
  <2>1. /\ audioPlayBuf' = Copied(audioPlayBuf, audioPlayWp, TestPlayOffset, nextPiece)
        /\ audioPlayWp' = audioPlayWp + nextPiece /\ play' = play
    BY <1>6 DEF Refill
  <2> HIDE DEF nextPiece
  <2>2. /\ audioPlayWp = FirstPiece + TestPlayOffset /\ audioPlayWp \in 0..(PlayBufSize - 1)
        /\ audioPlayRp = Len(played) /\ audioPlayRp <= audioPlayWp
        /\ \A p \in 0..(audioPlayWp - 1) : audioPlayBuf[p] = Heard[p + 1]
        /\ audioPlayBuf \in [0..(PlayBufSize - 1) -> 0..filePlaySize]
        /\ audioPlayRp \in 0..(PlayBufSize - 1)
    BY <1>3 DEF PlayInv, InStep, PlayTypeOK
  <2>3. /\ audioPlayBuf' \in [0..(PlayBufSize - 1) -> 0..filePlaySize]
        /\ \A p \in 0..(PlayBufSize - 1) : audioPlayBuf'[p] =
             IF p \in audioPlayWp..(audioPlayWp + nextPiece - 1)
             THEN TestPlayOffset + p - audioPlayWp + 1 ELSE audioPlayBuf[p]
    <3>1. audioPlayWp \in Nat /\ TestPlayOffset \in Nat
      BY <1>1, <2>2
    <3>2. audioPlayBuf' = [p \in 0..(PlayBufSize - 1) |->
            IF p \in audioPlayWp..(audioPlayWp + nextPiece - 1)
            THEN TestPlayOffset + p - audioPlayWp + 1 ELSE audioPlayBuf[p]]
      BY <2>1, <2>2 DEF Copied
    <3>3. ASSUME NEW p \in audioPlayWp..(audioPlayWp + nextPiece - 1)
          PROVE  TestPlayOffset + p - audioPlayWp + 1 \in 0..filePlaySize
      BY <1>1, <1>2, <3>1
    <3> QED
      BY <2>2, <3>2, <3>3
  <2>4. audioPlayWp' \in 0..(PlayBufSize - 1)
    BY <1>2, <1>6, <2>1, <2>2, PlayAssumption
  <2>5. \A p \in 0..(audioPlayWp' - 1) : audioPlayBuf'[p] = Heard[p + 1]
    <3> SUFFICES ASSUME NEW p \in 0..(audioPlayWp' - 1) PROVE audioPlayBuf'[p] = Heard[p + 1]
      OBVIOUS
    <3>1. p \in 0..(PlayBufSize - 1)
      <4>1. PlayBufSize \in Nat
        BY PlayAssumption
      <4>2. PICK w \in 0..(PlayBufSize - 1) : w = audioPlayWp'
        BY <2>4
      <4>3. p \in 0..(w - 1)
        BY <4>2
      <4>4. \A m \in Nat : \A v \in 0..(m - 1) : 0..(v - 1) \subseteq 0..(m - 1)
        OBVIOUS
      <4> QED
        BY ONLY <4>1, <4>2, <4>3, <4>4, w \in 0..(PlayBufSize - 1), Zenon
    <3>2. CASE p < audioPlayWp
      <4>1. p \in 0..(audioPlayWp - 1) /\ p \notin audioPlayWp..(audioPlayWp + nextPiece - 1)
        BY <2>2, <3>1, <3>2
      <4> QED
        BY <2>2, <2>3, <3>1, <4>1
    <3>3. CASE p >= audioPlayWp
      <4>1. p \in audioPlayWp..(audioPlayWp + nextPiece - 1)
        BY <1>2, <2>1, <2>2, <3>1, <3>3
      <4>2. audioPlayBuf'[p] = TestPlayOffset + p - audioPlayWp + 1
        BY <2>3, <3>1, <4>1
      <4>3. FirstPiece \in Nat /\ p + 1 \in 1..Len(Heard) /\ p + 1 > FirstPiece
        BY <1>1, <1>2, <2>2, <4>1, HeardFacts
      <4>4. Heard[p + 1] = p + 1 - FirstPiece
        BY <1>1, <4>3, HeardFacts
      <4> QED
        BY <1>1, <2>2, <4>2, <4>3, <4>4
    <3> QED
      BY <2>2, <3>1, <3>2, <3>3, PlayAssumption
  <2>6. PlayTypeOK'
    BY <1>1, <1>2, <1>3, <2>1, <2>3, <2>4 DEF PlayInv, PlayTypeOK
  <2>7. InStep'
    BY <1>1, <1>2, <1>3, <1>4, <2>1, <2>2, <2>5, HeardFacts DEF InStep
  <2> QED
    BY <1>5, <2>6, <2>7 DEF PlayInv
<1>7. CASE ~(PlayBufSize - audioPlayWp > nextPiece)
  <2>1. play' = "corrupt" /\ UNCHANGED <<audioPlayBuf, audioPlayWp>>
    BY <1>7 DEF Refill
  <2> HIDE DEF nextPiece
  <2>2. PlayTypeOK'
    BY <1>1, <1>2, <1>3, <2>1 DEF PlayInv, PlayTypeOK
  <2>3. InStep'
    BY <2>1 DEF InStep
  <2> QED
    BY <1>5, <2>2, <2>3 DEF PlayInv
<1> QED
  BY <1>6, <1>7

\* The driver plays the byte that is next to be heard.
LEMMA PlayOneInv ==
  ASSUME PlayInv, Play
  PROVE  PlayInv'
<1>1. /\ play = "run" /\ audioPlayRp # audioPlayWp
      /\ played' = Append(played, audioPlayBuf[audioPlayRp])
      /\ audioPlayRp' = (audioPlayRp + 1) % PlayBufSize
      /\ UNCHANGED <<play, filePlaySize, audioPlayBuf, audioPlayWp, TestPlayOffset>>
  BY DEF Play
<1>2. /\ filePlaySize \in Nat /\ TestPlayOffset \in 0..filePlaySize
      /\ audioPlayBuf \in [0..(PlayBufSize - 1) -> 0..filePlaySize]
      /\ audioPlayWp \in 0..(PlayBufSize - 1) /\ audioPlayRp \in 0..(PlayBufSize - 1)
      /\ played \in Seq(0..filePlaySize)
  BY PlayAssumption DEF PlayInv, PlayTypeOK
<1>3. /\ audioPlayWp = FirstPiece + TestPlayOffset
      /\ audioPlayRp = Len(played) /\ audioPlayRp < audioPlayWp
      /\ \A p \in 0..(audioPlayWp - 1) : audioPlayBuf[p] = Heard[p + 1]
  BY <1>1, <1>2 DEF PlayInv, InStep
<1>4. Heard' = Heard /\ FirstPiece' = FirstPiece
  BY <1>1 DEF Heard, FirstPiece
<1>5. audioPlayRp' = audioPlayRp + 1
  <2>1. audioPlayRp + 1 \in 0..(PlayBufSize - 1)
    BY <1>2, <1>3, PlayAssumption
  <2> QED
    BY <1>1, <2>1, PlayAssumption
<1>6. audioPlayBuf[audioPlayRp] \in 0..filePlaySize /\ audioPlayBuf[audioPlayRp] = Heard[Len(played) + 1]
  BY <1>2, <1>3
<1>7. /\ played' \in Seq(0..filePlaySize) /\ Len(played') = Len(played) + 1
      /\ \A i \in 1..Len(played) : played'[i] = played[i]
      /\ played'[Len(played) + 1] = Heard[Len(played) + 1]
  BY <1>1, <1>2, <1>6
<1>8. PlayTypeOK'
  <2>1. audioPlayRp + 1 \in 0..(PlayBufSize - 1)
    BY <1>2, <1>3, PlayAssumption
  <2>2. audioPlayRp' \in 0..(PlayBufSize - 1) /\ filePlaySize \in FileSizes
    BY <1>5, <2>1 DEF PlayInv, PlayTypeOK
  <2> QED
    BY <1>1, <1>2, <1>7, <2>2 DEF PlayTypeOK
<1>9. InStep'
  BY <1>1, <1>2, <1>3, <1>4, <1>5, <1>7 DEF InStep
<1>10. PlayedInOrder'
  <2>1. Len(played') <= Len(Heard) /\ Len(played) \in Nat
    BY <1>2, <1>3, <1>7, HeardFacts
  <2>2. \A i \in 1..Len(played) : played[i] = Heard[i]
    BY <1>2, <2>1, HeardFacts DEF PlayInv, PlayedInOrder
  <2>3. played' = SubSeq(Heard, 1, Len(played'))
    <3>1. Heard \in Seq(0..filePlaySize) /\ Len(played') \in 0..Len(Heard)
      BY <1>2, <1>7, <2>1, HeardFacts
    <3>2. /\ SubSeq(Heard, 1, Len(played')) \in Seq(0..filePlaySize)
          /\ Len(SubSeq(Heard, 1, Len(played'))) = Len(played')
          /\ \A i \in 1..Len(played') : SubSeq(Heard, 1, Len(played'))[i] = Heard[i]
      <4>1. PICK h \in Seq(0..filePlaySize) : h = Heard
        BY <3>1
      <4>2. PICK l \in 0..Len(h) : l = Len(played')
        BY <3>1, <4>1
      <4> QED
        BY <4>1, <4>2, Beginning
    <3>3. \A i \in 1..Len(played') : played'[i] = Heard[i]
      BY <1>7, <2>1, <2>2
    <3> QED
      BY <1>7, <3>2, <3>3, SeqEqual
  <2> QED
    BY <1>4, <2>1, <2>3 DEF PlayedInOrder
<1> QED
  BY <1>8, <1>9, <1>10 DEF PlayInv

\* Every step of the player keeps the invariant.
LEMMA PlayInvStep ==
  ASSUME PlayInv, [PlayNext]_playVars
  PROVE  PlayInv'
<1>1. CASE UNCHANGED playVars
  <2>1. Heard' = Heard /\ FirstPiece' = FirstPiece
    BY <1>1 DEF playVars, Heard, FirstPiece
  <2> QED
    BY <1>1, <2>1 DEF playVars, PlayInv, PlayTypeOK, InStep, PlayedInOrder
<1> QED
  BY <1>1, PreloadInv, RefillInv, PlayOneInv DEF PlayNext

-----------------------------------------------------------------------------
(* The image *)

\* A step of the image is a step of each application or leaves it alone.
LEMMA EachApplication ==
  ASSUME [ImageNext]_imageVars
  PROVE  /\ [RecNext]_recVars /\ [PlayNext]_playVars
         /\ [SocketNext]_sockVars /\ [SktNext]_sktVars /\ [UsbNext]_usbVars
         /\ [EventNext]_eventVars /\ [NotifyNext]_notifyVars /\ [UpdNext]_updVars
         /\ [AliNext]_aliVars /\ [BleServerNext]_bleServerVars
         /\ [TextNext]_textVars /\ app' = app
<1>1. CASE MultiStep
  BY <1>1 DEF MultiStep, OthersIdle, Idle
<1>2. CASE UsbStep
  BY <1>2 DEF UsbStep, OthersIdle, Idle
<1>3. CASE AliyunStep
  BY <1>3 DEF AliyunStep, OthersIdle, Idle
<1>4. CASE ServerStep
  BY <1>4 DEF ServerStep, OthersIdle, Idle
<1>5. CASE RecordStep \/ PlayStep \/ SocketStep \/ EventStep \/ NotifyStep \/ UpdateStep \/ TextStep
  BY <1>5 DEF RecordStep, PlayStep, SocketStep, EventStep, NotifyStep, UpdateStep, TextStep,
              OthersIdle, Idle
<1>6. CASE UNCHANGED imageVars
  BY <1>6 DEF imageVars
<1> QED
  BY <1>1, <1>2, <1>3, <1>4, <1>5, <1>6 DEF ImageNext

-----------------------------------------------------------------------------
(* The USB thread: every opening reported is still to be signalled, counted *)
(* in the semaphore, or has ended the wait after an initialisation.         *)

UsbCount ==
  /\ usbPc \in {"start", "testOpen", "send", "testBroken", "deinit", "init", "wait"}
  /\ usbSem \in Nat /\ opens \in Nat /\ inits \in Nat
  /\ usbEvent \in {"idle", "signal"}
  /\ usbPc = "start" => ~listening /\ usbSem = 0 /\ usbEvent = "idle"
  /\ opens + (IF usbPc = "wait" THEN 1 ELSE 0) =
       usbSem + (IF usbEvent = "signal" THEN 1 ELSE 0) + inits

LEMMA UsbCountStep ==
  ASSUME UsbCount, [UsbNext]_usbVars
  PROVE  UsbCount'
<1> USE DEF UsbCount
<1>1. CASE UsbStart
  BY <1>1 DEF UsbStart, UsbGo
<1>2. CASE TestOpen \/ UsbSend \/ TestBroken \/ UsbDeinit
  BY <1>2 DEF TestOpen, UsbSend, TestBroken, UsbDeinit, UsbGo
<1>3. CASE UsbReinit
  BY <1>3 DEF UsbReinit, UsbGo
<1>4. CASE UsbWait
  BY <1>4 DEF UsbWait, UsbGo
<1>5. CASE UsbSignal
  BY <1>5 DEF UsbSignal
<1>6. CASE PortReady \/ PortBreak \/ PortClose \/ PortOther
  BY <1>6 DEF PortReady, PortBreak, PortClose, PortOther, PortQuiet, PortChange
<1>7. CASE PortOpen
  BY <1>7 DEF PortOpen, PortChange
<1>8. CASE UNCHANGED usbVars
  BY <1>8 DEF usbVars
<1> QED
  BY <1>1, <1>2, <1>3, <1>4, <1>5, <1>6, <1>7, <1>8 DEF UsbNext, UsbThread

\* Every initialisation of the USB device after the first is paid for by an
\* opening, however often the port breaks (usb_demo.c:109).
THEOREM InitialisationsBounded == ImageSpec => []InitsBounded
<1>1. ImageInit => UsbCount
  BY DEF ImageInit, UsbInit, UsbCount
<1>2. UsbCount /\ [ImageNext]_imageVars => UsbCount'
  BY EachApplication, UsbCountStep
<1>3. UsbCount => InitsBounded
  BY DEF UsbCount, InitsBounded
<1> QED
  BY <1>1, <1>2, <1>3, PTL DEF ImageSpec

-----------------------------------------------------------------------------
(* The Aliyun thread: every wait has taken a signal, which is that of an      *)
(* answer but for the first; and each call is answered at most once.          *)

\* Calls made, and waits that have returned.
Asked == IF aliAt = "wait" THEN 1..aliStep
         ELSE IF aliAt \in {"off", "idle"} THEN 1..4 ELSE 1..(aliStep - 1)

Waited == IF aliAt \in {"off", "idle"} THEN 4 ELSE aliStep - 1

AliCount ==
  /\ aliAt \in {"auth", "tls", "pdp", "conn", "call", "wait", "off", "idle", "gone"}
  /\ aliStep \in 1..4 /\ aliSem \in Nat
  /\ aliPending \subseteq 1..4 /\ aliConfirmed \subseteq 1..4
  /\ aliPending \cap aliConfirmed = {}
  /\ aliAt # "gone" => aliPending \cup aliConfirmed \subseteq Asked
  /\ aliAt \in {"auth", "tls", "pdp", "conn"} => aliStep = 1
  /\ aliAt \in {"conn", "call", "wait", "off", "idle"} =>
       aliSem + Waited = 1 + Cardinality(aliConfirmed)

LEMMA AliFinite ==
  ASSUME AliCount
  PROVE  IsFiniteSet(aliConfirmed) /\ Cardinality(aliConfirmed) \in Nat
<1>0. 1 \in Int /\ 4 \in Int
  OBVIOUS
<1>1. IsFiniteSet(1..4)
  BY ONLY <1>0, FS_Interval, Zenon
<1>2. IsFiniteSet(aliConfirmed)
  BY <1>1, FS_Subset DEF AliCount
<1> QED
  BY <1>2, FS_CardinalityType

LEMMA AliCountStep ==
  ASSUME AliCount, [AliNext]_aliVars
  PROVE  AliCount'
<1> USE DEF AliCount, Asked, Waited
<1>0. IsFiniteSet(aliConfirmed) /\ Cardinality(aliConfirmed) \in Nat
  BY AliFinite
<1>1. CASE CloudAuth \/ TlsEnable \/ CloudConn
  BY <1>0, <1>1 DEF CloudAuth, TlsEnable, CloudConn, AliGo
<1>2. CASE PdpSeen
  <2>1. aliConfirmed \subseteq 1..0
    BY <1>2 DEF PdpSeen, AliGo
  <2>2. aliConfirmed = {}
    BY <2>1
  <2>3. Cardinality(aliConfirmed) = 0
    BY <2>2, FS_EmptySet, Zenon
  <2> QED
    BY <1>2, <2>2, <2>3 DEF PdpSeen, AliGo
<1>3. CASE CloudCall
  BY <1>0, <1>3 DEF CloudCall, AliGo
<1>4. CASE CloudCallFails
  BY <1>0, <1>4 DEF CloudCallFails, AliGo
<1>5. CASE TryWait
  BY <1>0, <1>5 DEF TryWait, AliGo
<1>6. CASE TryWaitTimesOut \/ CloudDisconn
  BY <1>0, <1>6 DEF TryWaitTimesOut, CloudDisconn, AliGo
<1>7. ASSUME NEW k \in Steps, NEW ok \in BOOLEAN, ConnectCallback(k, ok)
      PROVE  AliCount'
  <2>1. Cardinality(aliConfirmed \cup {k}) = Cardinality(aliConfirmed) + 1
    BY <1>0, <1>7, FS_AddElement DEF ConnectCallback
  <2> QED
    BY <1>0, <1>7, <2>1 DEF ConnectCallback, Steps
<1>8. CASE UNCHANGED aliVars
  BY <1>8 DEF aliVars
<1> QED
  BY <1>1, <1>2, <1>3, <1>4, <1>5, <1>6, <1>7, <1>8 DEF AliNext

\* The signal the semaphore begins with lets the thread run ahead of the answers
\* by one call and no more (oc_aliyun_mqtt_demo.c:183).
THEOREM RunsOneAhead == ImageSpec => []OneAhead
<1>1. ImageInit => AliCount
  BY DEF ImageInit, AliInit, AliCount, Asked, Waited
<1>2. AliCount /\ [ImageNext]_imageVars => AliCount'
  BY EachApplication, AliCountStep
<1>3. AliCount => OneAhead
  BY AliFinite DEF AliCount, OneAhead, Waited, TakenFor
<1> QED
  BY <1>1, <1>2, <1>3, PTL DEF ImageSpec


-----------------------------------------------------------------------------
(* The sending threads: the descriptors that are open are those the threads   *)
(* hold and those of the connections that ended before data came.             *)

Counted ==
  /\ sktAt \in [SktThreads -> {"create", "connect", "recv"}]
  /\ sid \in [SktThreads -> Descriptors \cup {0}]
  /\ sktOpen \subseteq Descriptors
  /\ ends \in Nat
  /\ \A s, t \in Holders : sid[s] \in sktOpen /\ (s # t => sid[s] # sid[t])
  /\ Cardinality(sktOpen) = Cardinality(Holders) + ends

LEMMA CountedFinite ==
  ASSUME Counted
  PROVE  /\ IsFiniteSet(Holders) /\ Cardinality(Holders) \in Nat
         /\ IsFiniteSet(sktOpen) /\ Cardinality(sktOpen) \in Nat
         /\ IsFiniteSet(Descriptors) /\ Cardinality(Descriptors) \in Nat
         /\ Cardinality(sktOpen) <= Cardinality(Descriptors)
<1>1. IsFiniteSet(SktThreads) /\ IsFiniteSet(Descriptors)
  BY SktAssumption
<1>2. Holders \subseteq SktThreads /\ sktOpen \subseteq Descriptors
  BY DEF Counted, Holders
<1>3. IsFiniteSet(Holders) /\ IsFiniteSet(sktOpen)
  BY <1>1, <1>2, FS_Subset, Zenon
<1>4. Cardinality(sktOpen) <= Cardinality(Descriptors)
  BY <1>1, <1>2, FS_Subset, Zenon
<1> QED
  BY <1>1, <1>3, <1>4, FS_CardinalityType, Zenon

\* A socket that is closed: the thread gives back its descriptor.
LEMMA CountedClose ==
  ASSUME Counted, NEW t \in Holders,
         sktAt' = [sktAt EXCEPT ![t] = "create"],
         sktOpen' = sktOpen \ {sid[t]},
         UNCHANGED <<sid, ends>>
  PROVE  Counted'
<1>1. t \in SktThreads /\ sid[t] \in sktOpen
  BY DEF Counted, Holders
<1>2. Holders' = Holders \ {t}
  BY <1>1 DEF Counted, Holders
<1>3. /\ Cardinality(Holders \ {t}) = Cardinality(Holders) - 1
      /\ Cardinality(sktOpen \ {sid[t]}) = Cardinality(sktOpen) - 1
  BY <1>1, CountedFinite, FS_RemoveElement
<1>4. Cardinality(sktOpen') = Cardinality(Holders') + ends'
  BY <1>2, <1>3, CountedFinite DEF Counted
<1>5. \A s, r \in Holders' : sid'[s] \in sktOpen' /\ (s # r => sid'[s] # sid'[r])
  BY <1>1, <1>2 DEF Counted
<1> QED
  BY <1>1, <1>4, <1>5 DEF Counted

LEMMA CountedStep ==
  ASSUME Counted, [SktNext]_sktVars
  PROVE  Counted'
<1>1. ASSUME NEW t \in SktThreads, SktCreate(t)
      PROVE  Counted'
  <2>1. PICK d \in Descriptors \ sktOpen :
          sktOpen' = sktOpen \cup {d} /\ sid' = [sid EXCEPT ![t] = d]
    BY <1>1 DEF SktCreate
  <2>2. t \notin Holders /\ Holders' = Holders \cup {t}
    BY <1>1 DEF SktCreate, Counted, Holders
  <2>3. /\ Cardinality(Holders \cup {t}) = Cardinality(Holders) + 1
        /\ Cardinality(sktOpen \cup {d}) = Cardinality(sktOpen) + 1
    BY <2>2, CountedFinite, FS_AddElement
  <2>4. Cardinality(sktOpen') = Cardinality(Holders') + ends'
    BY <1>1, <2>1, <2>2, <2>3, CountedFinite DEF Counted, SktCreate
  <2>5. \A s, r \in Holders' : sid'[s] \in sktOpen' /\ (s # r => sid'[s] # sid'[r])
    BY <2>1, <2>2 DEF Counted, Holders
  <2> QED
    BY <1>1, <2>1, <2>4, <2>5 DEF Counted, SktCreate
<1>2. ASSUME NEW t \in SktThreads, SktConnect(t)
      PROVE  Counted'
  <2>1. Holders' = Holders
    BY <1>2 DEF SktConnect, Counted, Holders
  <2> QED
    BY <1>2, <2>1 DEF SktConnect, Counted
<1>3. ASSUME NEW t \in SktThreads, SktConnectFails(t)
      PROVE  Counted'
  <2>1. t \in Holders
    BY <1>3 DEF SktConnectFails, Holders
  <2> QED
    BY <1>3, <2>1, CountedClose DEF SktConnectFails
<1>4. ASSUME NEW t \in SktThreads, SktRecv(t)
      PROVE  Counted'
  <2>1. t \in Holders
    BY <1>4 DEF SktRecv, Holders
  <2>2. CASE link[t] = "data"
    BY <1>4, <2>1, <2>2, CountedClose DEF SktRecv
  <2>3. CASE link[t] # "data"
    <3>1. Holders' = Holders \ {t}
      BY <1>4 DEF SktRecv, Counted, Holders
    <3>2. Cardinality(Holders \ {t}) = Cardinality(Holders) - 1
      BY <2>1, CountedFinite, FS_RemoveElement
    <3> QED
      BY <1>4, <2>3, <3>1, <3>2, CountedFinite DEF SktRecv, Counted
  <2> QED
    BY <2>2, <2>3
<1>5. CASE UNCHANGED <<sktAt, sid, sktOpen, ends>>
  BY <1>5 DEF Counted, Holders
<1>6. ASSUME NEW t \in SktThreads, PeerActs(t)
      PROVE  Counted'
  BY <1>5, <1>6 DEF PeerActs
<1>7. CASE PdpActivate \/ PdpAgain \/ PdpLost \/ UNCHANGED sktVars
  BY <1>5, <1>7 DEF PdpActivate, PdpAgain, PdpLost, sktVars
<1> QED
  BY <1>1, <1>2, <1>3, <1>4, <1>6, <1>7 DEF SktNext, SktThread

\* In the beginning no thread holds a descriptor.
LEMMA CountedInit == ImageInit => Counted
<1> SUFFICES ASSUME ImageInit PROVE Counted
  OBVIOUS
<1>1. Holders = {} /\ sktOpen = {}
  BY DEF ImageInit, SktInit, Holders
<1> QED
  BY <1>1, FS_EmptySet DEF ImageInit, SktInit, Counted

\* The pool of descriptors shrinks by exactly the connections that ended before
\* data came, and no two threads share one (test_mutil_socket.c:431).
THEOREM DescriptorsKept == ImageSpec => []DescriptorsCounted
<1>1. ImageInit => Counted
  BY CountedInit
<1>2. Counted /\ [ImageNext]_imageVars => Counted'
  BY EachApplication, CountedStep
<1>3. Counted => DescriptorsCounted
  <2> SUFFICES ASSUME Counted, ends = Cardinality(Descriptors) PROVE Holders = {}
    BY DEF Counted, DescriptorsCounted
  <2>1. Cardinality(Holders) = 0
    BY CountedFinite DEF Counted
  <2> QED
    BY <2>1, CountedFinite, FS_EmptySet
<1> QED
  BY <1>1, <1>2, <1>3, PTL DEF ImageSpec

-----------------------------------------------------------------------------
(* The BLE server: what was sent, is being sent and waits, in this order,     *)
(* alternates as long as nothing was dropped, and a text that is not what was *)
(* put together for it has a configuration to answer for it.                  *)

Turn(i) == IF i % 2 = 1 THEN 1 ELSE 2

InHand == IF bleTask = "get" THEN 0 ELSE 1

Overwritten == IF bleTask = "send" /\ device_name # TextOf(bleValue) THEN 1 ELSE 0

ServerTypes ==
  /\ bleQueue \in Seq({1, 2}) /\ gattCb \in {"idle", "sleep"}
  /\ bleTask \in {"get", "fill", "send"} /\ bleValue \in {0, 1, 2}
  /\ bleTask # "get" => bleValue \in {1, 2}
  /\ bleSent \in Seq([kind : {1, 2}, text : {"8910_ble", "notify", "inidicator"}])
  /\ device_name \in {"8910_ble", "notify", "inidicator"}
  /\ bleWrites \in Nat /\ bleChanges \in Nat /\ bleDropped \in Nat

Accounted ==
  Len(bleSent) + InHand + Len(bleQueue) + bleDropped
    = 2 * bleWrites - (IF gattCb = "sleep" THEN 1 ELSE 0)

Alternate ==
  bleDropped = 0 =>
    /\ \A i \in 1..Len(bleSent) : bleSent[i].kind = Turn(i)
    /\ bleTask # "get" => bleValue = Turn(Len(bleSent) + 1)
    /\ \A i \in 1..Len(bleQueue) : bleQueue[i] = Turn(Len(bleSent) + InHand + i)

TextsKept ==
  /\ bleTask = "send" /\ bleValue = 1 => device_name = "notify"
  /\ \A i \in Spoilt : bleSent[i].kind = 2
  /\ Cardinality(Spoilt) + Overwritten <= bleChanges

ServerInv == ServerTypes /\ Accounted /\ Alternate /\ TextsKept

LEMMA SpoiltFinite ==
  ASSUME ServerTypes
  PROVE  IsFiniteSet(Spoilt) /\ Cardinality(Spoilt) \in Nat
<1>1. 1 \in Int /\ Len(bleSent) \in Int
  BY DEF ServerTypes
<1>2. IsFiniteSet(1..Len(bleSent))
  BY ONLY <1>1, FS_Interval, Zenon
<1>3. IsFiniteSet(Spoilt)
  BY <1>2, FS_Subset DEF Spoilt
<1> QED
  BY <1>3, FS_CardinalityType

LEMMA ServerLengths ==
  ASSUME ServerTypes
  PROVE  /\ Len(bleSent) \in Nat /\ Len(bleQueue) \in Nat
         /\ InHand \in {0, 1} /\ Overwritten \in {0, 1}
BY DEF ServerTypes, InHand, Overwritten

LEMMA TurnOf ==
  ASSUME NEW w \in Nat
  PROVE  Turn(2 * w + 1) = 1 /\ Turn(2 * w) = 2
BY DEF Turn

\* A request put into the queue, whose turn it is.
LEMMA PutKeeps ==
  ASSUME ServerInv, NEW kind \in {1, 2}, QueuePut(kind),
         bleDropped = 0 => kind = Turn(Len(bleSent) + InHand + Len(bleQueue) + 1),
         UNCHANGED <<bleTask, bleValue, bleSent>>
  PROVE  /\ bleQueue' \in Seq({1, 2}) /\ bleDropped' \in Nat
         /\ Len(bleQueue') + bleDropped' = Len(bleQueue) + bleDropped + 1
         /\ Alternate'
<1>0. Len(bleSent) \in Nat /\ Len(bleQueue) \in Nat /\ InHand \in {0, 1}
  BY ServerLengths DEF ServerInv
<1>1. CASE Len(bleQueue) < Room /\ bleQueue' = Append(bleQueue, kind) /\ UNCHANGED bleDropped
  <2>1. /\ bleQueue' \in Seq({1, 2}) /\ Len(bleQueue') = Len(bleQueue) + 1
        /\ \A i \in 1..Len(bleQueue) : bleQueue'[i] = bleQueue[i]
        /\ bleQueue'[Len(bleQueue) + 1] = kind
    BY <1>1 DEF ServerInv, ServerTypes
  <2>2. ASSUME bleDropped = 0, NEW i \in 1..Len(bleQueue')
        PROVE  bleQueue'[i] = Turn(Len(bleSent) + InHand + i)
    <3>1. CASE i = Len(bleQueue) + 1
      <4>1. Len(bleSent) + InHand + Len(bleQueue) + 1 = Len(bleSent) + InHand + i
        <5>1. \A a, b, c \in Int : a + b + c + 1 = a + b + (c + 1)
          OBVIOUS
        <5>2. Len(bleSent) \in Int /\ InHand \in Int /\ Len(bleQueue) \in Int
          BY <1>0
        <5> QED
          BY ONLY <3>1, <5>1, <5>2, Zenon
      <4>2. kind = Turn(Len(bleSent) + InHand + Len(bleQueue) + 1)
        BY <2>2
      <4>3. kind = Turn(Len(bleSent) + InHand + i)
        BY ONLY <4>1, <4>2, Zenon
      <4> QED
        BY ONLY <2>1, <3>1, <4>3, Zenon
    <3>2. CASE i # Len(bleQueue) + 1
      <4>1. i \in 1..Len(bleQueue)
        BY <1>0, <2>1, <2>2, <3>2
      <4>2. bleQueue'[i] = bleQueue[i]
        BY ONLY <2>1, <4>1, Zenon
      <4>3. bleQueue[i] = Turn(Len(bleSent) + InHand + i)
        BY <2>2, <4>1, Zenon DEF ServerInv, Alternate
      <4> QED
        BY ONLY <4>2, <4>3, Zenon
    <3> QED
      BY <3>1, <3>2
  <2>3. InHand' = InHand
    BY DEF InHand
  <2>4. Alternate'
    BY <1>1, <2>2, <2>3 DEF ServerInv, Alternate
  <2>5. bleDropped' \in Nat /\ Len(bleQueue') + bleDropped' = Len(bleQueue) + bleDropped + 1
    BY <1>0, <1>1, <2>1 DEF ServerInv, ServerTypes
  <2> QED
    BY <2>1, <2>4, <2>5
<1>2. CASE bleDropped' = bleDropped + 1 /\ UNCHANGED bleQueue
  <2>1. bleQueue' \in Seq({1, 2}) /\ bleDropped' \in Nat /\ bleDropped' # 0
    BY <1>2 DEF ServerInv, ServerTypes
  <2>2. Len(bleQueue') + bleDropped' = Len(bleQueue) + bleDropped + 1
    BY <1>0, <1>2 DEF ServerInv, ServerTypes
  <2> QED
    BY <2>1, <2>2 DEF Alternate
<1> QED
  BY <1>1, <1>2 DEF QueuePut

LEMMA ServerInvStep ==
  ASSUME ServerInv, [BleServerNext]_bleServerVars
  PROVE  ServerInv'
<1>1. CASE DataWrite
  <2>1. bleDropped = 0 => 1 = Turn(Len(bleSent) + InHand + Len(bleQueue) + 1)
    <3>1. ASSUME bleDropped = 0
          PROVE  Len(bleSent) + InHand + Len(bleQueue) + 1 = 2 * bleWrites + 1
      BY <1>1, <3>1, SMTT(30) DEF DataWrite, ServerInv, ServerTypes, Accounted, InHand
    <3> QED
      BY <3>1, TurnOf DEF ServerInv, ServerTypes
  <2>2. /\ bleQueue' \in Seq({1, 2}) /\ bleDropped' \in Nat
        /\ Len(bleQueue') + bleDropped' = Len(bleQueue) + bleDropped + 1
        /\ Alternate'
    BY <1>1, <2>1, PutKeeps DEF DataWrite
  <2>3. ServerTypes' /\ InHand' = InHand
    BY <1>1, <2>2 DEF DataWrite, ServerInv, ServerTypes, InHand
  <2>4. Accounted'
    <3>1. Len(bleSent) + InHand + Len(bleQueue) + bleDropped = 2 * bleWrites
      BY <1>1 DEF DataWrite, ServerInv, ServerTypes, Accounted
    <3>2. Len(bleSent) + InHand + Len(bleQueue') + bleDropped' = 2 * bleWrites + 1
      <4>1. /\ Len(bleSent) \in Int /\ InHand \in Int /\ Len(bleQueue) \in Int
            /\ bleDropped \in Int /\ 2 * bleWrites \in Int
            /\ Len(bleQueue') \in Int /\ bleDropped' \in Int
        BY <2>2, ServerLengths DEF ServerInv, ServerTypes
      <4>2. Len(bleSent) + InHand + Len(bleQueue') + bleDropped' = 2 * bleWrites + 1
        BY ONLY <2>2, <3>1, <4>1
      <4> QED
        BY <4>2 DEF ServerInv, ServerTypes
    <3> QED
      BY <1>1, <2>3, <3>2 DEF DataWrite, ServerInv, ServerTypes, Accounted
  <2>5. TextsKept'
    BY <1>1 DEF DataWrite, ServerInv, TextsKept, Spoilt, Overwritten
  <2> QED
    BY <2>2, <2>3, <2>4, <2>5 DEF ServerInv
<1>2. CASE DataWriteSecond
  <2>1. bleDropped = 0 => 2 = Turn(Len(bleSent) + InHand + Len(bleQueue) + 1)
    <3>1. ASSUME bleDropped = 0
          PROVE  Len(bleSent) + InHand + Len(bleQueue) + 1 = 2 * bleWrites
      BY <1>2, <3>1 DEF DataWriteSecond, ServerInv, ServerTypes, Accounted, InHand
    <3> QED
      BY <3>1, TurnOf DEF ServerInv, ServerTypes
  <2>2. /\ bleQueue' \in Seq({1, 2}) /\ bleDropped' \in Nat
        /\ Len(bleQueue') + bleDropped' = Len(bleQueue) + bleDropped + 1
        /\ Alternate'
    BY <1>2, <2>1, PutKeeps DEF DataWriteSecond
  <2>3. ServerTypes' /\ InHand' = InHand
    BY <1>2, <2>2 DEF DataWriteSecond, ServerInv, ServerTypes, InHand
  <2>4. Accounted'
    <3>1. Len(bleSent) + InHand + Len(bleQueue) + bleDropped = 2 * bleWrites - 1
      BY <1>2 DEF DataWriteSecond, ServerInv, ServerTypes, Accounted
    <3>2. Len(bleSent) + InHand + Len(bleQueue') + bleDropped' = 2 * bleWrites
      <4>1. /\ Len(bleSent) \in Int /\ InHand \in Int /\ Len(bleQueue) \in Int
            /\ bleDropped \in Int /\ 2 * bleWrites - 1 \in Int
            /\ Len(bleQueue') \in Int /\ bleDropped' \in Int
        BY <2>2, ServerLengths DEF ServerInv, ServerTypes
      <4>2. Len(bleSent) + InHand + Len(bleQueue') + bleDropped' = 2 * bleWrites - 1 + 1
        BY ONLY <2>2, <3>1, <4>1
      <4> QED
        BY <4>2 DEF ServerInv, ServerTypes
    <3> QED
      BY <1>2, <2>3, <3>2 DEF DataWriteSecond, ServerInv, ServerTypes, Accounted
  <2>5. TextsKept'
    BY <1>2 DEF DataWriteSecond, ServerInv, TextsKept, Spoilt, Overwritten
  <2> QED
    BY <2>2, <2>3, <2>4, <2>5 DEF ServerInv
<1>3. CASE WifiChanged
  <2>1. ServerTypes' /\ Accounted' /\ Alternate'
    BY <1>3 DEF WifiChanged, ServerInv, ServerTypes, Accounted, Alternate, InHand
  <2>2. Spoilt' = Spoilt
    BY <1>3 DEF WifiChanged, Spoilt
  <2>3. TextsKept'
    BY <1>3, <2>2, SpoiltFinite DEF WifiChanged, ServerInv, ServerTypes, TextsKept, Overwritten
  <2> QED
    BY <2>1, <2>3 DEF ServerInv
<1>4. CASE QueueGet
  <2>1. /\ Len(bleQueue) > 0 /\ bleQueue' = Tail(bleQueue) /\ bleValue' = bleQueue[1]
        /\ bleQueue' \in Seq({1, 2}) /\ Len(bleQueue') = Len(bleQueue) - 1
        /\ \A i \in 1..Len(bleQueue') : bleQueue'[i] = bleQueue[i + 1]
        /\ bleQueue[1] \in {1, 2}
    BY <1>4 DEF QueueGet, ServerInv, ServerTypes
  <2>2. ServerTypes' /\ Accounted'
    <3>1. ServerTypes' /\ InHand = 0 /\ InHand' = 1
      BY <1>4, <2>1 DEF QueueGet, ServerInv, ServerTypes, InHand
    <3>2. Accounted'
      BY <1>4, <2>1, <3>1, ServerLengths, SMTT(30) DEF QueueGet, ServerInv, ServerTypes, Accounted
    <3> QED
      BY <3>1, <3>2
  <2>3. Alternate'
    <3> SUFFICES ASSUME bleDropped = 0 PROVE Alternate'
      BY <1>4 DEF QueueGet, Alternate
    <3>1. bleValue' = Turn(Len(bleSent) + 1)
      BY <1>4, <2>1 DEF QueueGet, ServerInv, ServerTypes, Alternate, InHand
    <3>2. ASSUME NEW i \in 1..Len(bleQueue')
          PROVE  bleQueue'[i] = Turn(Len(bleSent) + 1 + i)
      <4>1. bleQueue[i + 1] = Turn(Len(bleSent) + 0 + (i + 1))
        BY <1>4, <2>1, <3>2 DEF QueueGet, ServerInv, ServerTypes, Alternate, InHand
      <4>2. Len(bleSent) + 0 + (i + 1) = Len(bleSent) + 1 + i
        BY DEF ServerInv, ServerTypes
      <4> QED
        BY <2>1, <4>1, <4>2
    <3> QED
      BY <1>4, <3>1, <3>2 DEF QueueGet, ServerInv, Alternate, InHand
  <2>4. TextsKept'
    BY <1>4 DEF QueueGet, ServerInv, TextsKept, Spoilt, Overwritten
  <2> QED
    BY <2>2, <2>3, <2>4 DEF ServerInv
<1>5. CASE SendFill
  <2>1. ServerTypes' /\ Accounted' /\ Alternate'
    BY <1>5 DEF SendFill, ServerInv, ServerTypes, Accounted, Alternate, InHand, TextOf
  <2>2. TextsKept'
    BY <1>5 DEF SendFill, ServerInv, TextsKept, Spoilt, Overwritten, TextOf
  <2> QED
    BY <2>1, <2>2 DEF ServerInv
<1>6. CASE BleNotify
  <2> DEFINE n == Len(bleSent) + 1
  <2>1. /\ n \in Nat /\ Len(bleSent') = n
        /\ bleSent' \in Seq([kind : {1, 2}, text : {"8910_ble", "notify", "inidicator"}])
        /\ \A i \in 1..Len(bleSent) : bleSent'[i] = bleSent[i]
        /\ bleSent'[n] = [kind |-> bleValue, text |-> device_name]
    BY <1>6 DEF BleNotify, ServerInv, ServerTypes
  <2>2. ServerTypes' /\ Accounted'
    BY <1>6, <2>1 DEF BleNotify, ServerInv, ServerTypes, Accounted, InHand
  <2>3. Alternate'
    <3> SUFFICES ASSUME bleDropped = 0 PROVE Alternate'
      BY <1>6 DEF BleNotify, Alternate
    <3>1. ASSUME NEW i \in 1..n
          PROVE  bleSent'[i].kind = Turn(i)
      <4>1. CASE i = n
        BY <1>6, <2>1, <4>1 DEF BleNotify, ServerInv, Alternate
      <4>2. CASE i # n
        BY <2>1, <4>2 DEF ServerInv, ServerTypes, Alternate
      <4> QED
        BY <4>1, <4>2
    <3>2. ASSUME NEW i \in 1..Len(bleQueue)
          PROVE  bleQueue[i] = Turn(n + 0 + i)
      <4>1. n + 0 + i = Len(bleSent) + 1 + i
        BY DEF ServerInv, ServerTypes
      <4> QED
        BY <1>6, <4>1 DEF BleNotify, ServerInv, Alternate, InHand
    <3> QED
      BY <1>6, <2>1, <3>1, <3>2 DEF BleNotify, Alternate, InHand
  <2>4. CASE device_name = TextOf(bleValue)
    <3>1. Spoilt' = Spoilt
      BY <2>1, <2>4 DEF Spoilt, ServerInv, ServerTypes
    <3>2. TextsKept'
      BY <1>6, <2>1, <2>4, <3>1 DEF BleNotify, ServerInv, TextsKept, Overwritten, Spoilt
    <3> QED
      BY <2>2, <2>3, <3>2 DEF ServerInv
  <2>5. CASE device_name # TextOf(bleValue)
    <3>1. Spoilt' = Spoilt \cup {n} /\ n \notin Spoilt
      BY <2>1, <2>5 DEF Spoilt, ServerInv, ServerTypes
    <3>2. Cardinality(Spoilt \cup {n}) = Cardinality(Spoilt) + 1
      BY <3>1, SpoiltFinite, FS_AddElement DEF ServerInv
    <3>3. bleValue = 2
      BY <1>6, <2>5 DEF BleNotify, ServerInv, ServerTypes, TextsKept, TextOf
    <3>4. Overwritten = 1 /\ Overwritten' = 0
      BY <1>6, <2>5 DEF BleNotify, Overwritten
    <3>5. \A i \in Spoilt' : bleSent'[i].kind = 2
      BY <2>1, <3>1, <3>3 DEF ServerInv, TextsKept, Spoilt
    <3>6. Cardinality(Spoilt') + Overwritten' <= bleChanges'
      BY <1>6, <3>1, <3>2, <3>4, SpoiltFinite DEF BleNotify, ServerInv, ServerTypes, TextsKept
    <3>7. TextsKept'
      BY <1>6, <3>5, <3>6 DEF BleNotify, TextsKept
    <3> QED
      BY <2>2, <2>3, <3>7 DEF ServerInv
  <2> QED
    BY <2>4, <2>5
<1>7. CASE UNCHANGED bleServerVars
  BY <1>7 DEF bleServerVars, ServerInv, ServerTypes, Accounted, Alternate, TextsKept,
              Spoilt, Overwritten, InHand
<1> QED
  BY <1>1, <1>2, <1>3, <1>4, <1>5, <1>6, <1>7 DEF BleServerNext

\* In the beginning nothing was asked for.
LEMMA ServerInvInit == ImageInit => ServerInv
<1> SUFFICES ASSUME ImageInit PROVE ServerInv
  OBVIOUS
<1>1. Spoilt = {} /\ ServerTypes
  BY DEF ImageInit, BleServerInit, Spoilt, ServerTypes
<1>2. Cardinality(Spoilt) = 0
  BY <1>1, FS_EmptySet
<1>3. Accounted /\ Alternate
  BY DEF ImageInit, BleServerInit, Accounted, Alternate, InHand
<1>4. TextsKept
  BY <1>1, <1>2 DEF ImageInit, BleServerInit, TextsKept, Overwritten
<1> QED
  BY <1>1, <1>3, <1>4 DEF ServerInv

\* What the server sends has the text of its kind, but for one indication at
\* most for each configuration of the peer, and what is sent alternates unless a
\* request was dropped (oc_ble_server_demo.c:120).
THEOREM SentTexts == ImageSpec => []SentAsMeant
<1>1. ImageInit => ServerInv
  BY ServerInvInit
<1>2. ServerInv /\ [ImageNext]_imageVars => ServerInv'
  BY EachApplication, ServerInvStep
<1>3. ServerInv => SentAsMeant
  <2> SUFFICES ASSUME ServerInv PROVE SentAsMeant
    OBVIOUS
  <2>1. Cardinality(Spoilt) <= bleChanges
    BY SpoiltFinite DEF ServerInv, ServerTypes, TextsKept, Overwritten
  <2>2. Len(bleSent) + bleDropped <= 2 * bleWrites
    <3>1. Len(bleSent) \in Nat /\ Len(bleQueue) \in Nat /\ InHand \in Nat
      BY DEF ServerInv, ServerTypes, InHand
    <3>2. Len(bleSent) + InHand + Len(bleQueue) + bleDropped <= 2 * bleWrites
      BY <3>1 DEF ServerInv, ServerTypes, Accounted
    <3> QED
      BY <3>1, <3>2 DEF ServerInv, ServerTypes
  <2> QED
    BY <2>1, <2>2 DEF SentAsMeant, ServerInv, Alternate, TextsKept, Turn
<1> QED
  BY <1>1, <1>2, <1>3, PTL DEF ImageSpec

-----------------------------------------------------------------------------
(* The socket demos: where a thread is tells what its socket may be, and the  *)
(* sum of a speed test is at most what was transferred.                       *)

SockTypes ==
  /\ demo \in Demos
  /\ at \in {"create", "connect", "send", "select", "recv", "gone"}
  /\ sock \in {"none", "new", "pending", "up", "closed"}
  /\ socketid \in Int
  /\ arrived \in Nat /\ inbox \in Nat
  /\ total \in Int /\ sends \in Nat
  /\ connected \in BOOLEAN /\ misuse \in BOOLEAN

SockPlaces ==
  /\ at = "create" => sock \in {"none", "closed"}
  /\ at = "connect" => sock = "new" \/ (demo = "selectPdp" /\ sock = "none")
  /\ sock = "pending" => demo = "fcntl" /\ at \in {"send", "recv"}
  /\ demo \in {"select", "dl", "ul"} /\ at \in {"send", "select", "recv"} => sock = "up"
  /\ demo = "select" /\ at = "recv" => inbox > 0 \/ peer # "quiet"
  /\ demo = "fcntl" /\ sock = "closed" => at \in {"create", "gone"}

TcpPlaces ==
  demo = "tcp" =>
    /\ at \in {"create", "connect"} => ~connected
    /\ at = "connect" => socketid >= 0
    /\ at \in {"send", "select", "recv"} =>
         IF connected THEN sock = "up" /\ socketid >= 0 ELSE sock = "closed" \/ socketid = 0

Transferred ==
  /\ demo = "dl" => total <= arrived - inbox
  /\ demo = "ul" => total + 1 <= sends * SendSize
  /\ demo \notin {"dl", "ul"} => total = 0
  /\ at # "gone" => total <= Limit /\ total >= (IF demo = "ul" THEN -1 ELSE 0)

LeftOpen ==
  at = "gone" /\ Open =>
    \/ socketid = 0
    \/ demo \in {"select", "dl", "ul"} /\ total <= Limit /\ (sock = "new" \/ peer # "quiet")

SockInv ==
  /\ SockTypes /\ SockPlaces /\ TcpPlaces /\ Transferred /\ LeftOpen
  /\ misuse => demo = "selectPdp"

\* fibo_tcp_demo_close leaves the socket open only if it has the number 0.
LEMMA TcpCloses ==
  ASSUME SockInv, TcpClose, demo = "tcp", sock = "up", at \in {"send", "recv"},
         at' \in {"send", "select"},
         UNCHANGED <<demo, netVars, total, sends, misuse>>
  PROVE  SockInv'
<1>1. connected' = FALSE /\ connected' \in BOOLEAN /\ misuse' \in BOOLEAN
  BY DEF TcpClose, SockInv, SockTypes
<1>2. socketid \in Int /\ socketid >= 0
  BY DEF SockInv, SockTypes, TcpPlaces
<1>3. /\ socketid' \in Int /\ sock' \in {"up", "closed"}
      /\ sock' = "closed" \/ socketid' = 0
  BY <1>2 DEF TcpClose
<1>4. SockTypes'
  BY <1>1, <1>3 DEF SockInv, SockTypes, netVars
<1>5. SockPlaces' /\ LeftOpen' /\ Transferred'
  BY <1>3 DEF SockInv, SockPlaces, LeftOpen, Transferred, netVars
<1>6. TcpPlaces'
  BY <1>1, <1>3 DEF TcpPlaces
<1> QED
  BY <1>4, <1>5, <1>6 DEF SockInv

LEMMA SockStep ==
  ASSUME SockInv, [SocketNext]_sockVars
  PROVE  SockInv'
<1> USE SocketAssumption
<1> USE DEF SockInv, SockTypes, SockPlaces, TcpPlaces, Transferred, LeftOpen, Open
<1>1. CASE Arrive
  BY <1>1 DEF Arrive, dataVars
<1>2. CASE PeerEnds
  BY <1>2 DEF PeerEnds, dataVars
<1>3. CASE Decide
  BY <1>3 DEF Decide, dataVars, netVars
<1>4. CASE Create
  BY <1>4 DEF Create, dataVars, TakesZeroForNone, Demos
<1>5. CASE ConnectSucceeds
  BY <1>5 DEF ConnectSucceeds, AfterConnect, netVars
<1>6. CASE ConnectFails
  BY <1>6 DEF ConnectFails, AfterConnect, netVars, Demos, NonBlocking
<1>7. CASE ConnectLater
  BY <1>7 DEF ConnectLater, AfterConnect, NonBlocking, netVars, dataVars
<1>8. CASE SelectSend
  BY <1>8 DEF SelectSend, Uses, CanSend, CanFail, netVars, dataVars
<1>9. CASE SelectSelect
  BY <1>9 DEF SelectSelect, Readable, InError, netVars, dataVars
<1>10. CASE SelectRecv
  BY <1>10 DEF SelectRecv, Uses, RecvFails, dataVars
<1>11. CASE SelectPdpSend
  BY <1>11 DEF SelectPdpSend, Uses, netVars, dataVars
<1>12. CASE SelectPdpSelect
  BY <1>12 DEF SelectPdpSelect, netVars
<1>13. CASE DlSelect
  BY <1>13 DEF DlSelect, netVars, dataVars
<1>14. CASE DlRecv
  BY <1>14 DEF DlRecv, DlCount, Uses
<1>15. CASE UlSend
  <2>1. (sends + 1) * SendSize = sends * SendSize + SendSize /\ sends * SendSize \in Int
    OBVIOUS
  <2>2. CASE total' = total + SendSize /\ sends' = sends + 1
    BY <1>15, <2>1, <2>2 DEF UlSend, Uses
  <2>3. CASE total' = total - 1 /\ UNCHANGED sends
    BY <1>15, <2>1, <2>3 DEF UlSend, Uses
  <2> QED
    BY <1>15, <2>2, <2>3 DEF UlSend
<1>16. CASE FcntlSend \/ FcntlRecv
  BY <1>16 DEF FcntlSend, FcntlRecv, Uses, netVars, dataVars
<1>17. CASE TcpSelect
  BY <1>17 DEF TcpSelect, Readable, netVars, dataVars
<1>18. CASE TcpRecv
  <2>1. demo = "tcp" /\ at = "recv" /\ sock = "up"
    BY <1>18 DEF TcpRecv, Readable
  <2>2. CASE UNCHANGED <<sock, socketid, connected>>
    BY <1>18, <2>1, <2>2 DEF TcpRecv, Uses
  <2>3. CASE Uses("send") /\ TcpClose /\ UNCHANGED inbox
    <3>1. misuse' = misuse
      BY <1>18, <2>1 DEF TcpRecv, Uses
    <3> QED
      BY <1>18, <2>1, <2>3, <3>1, TcpCloses DEF TcpRecv, netVars, Uses
  <2> QED
    BY <1>18, <2>2, <2>3 DEF TcpRecv
<1>19. CASE TcpSend
  <2>1. demo = "tcp" /\ at = "send" /\ at' = "select"
    BY <1>19 DEF TcpSend, Uses
  <2>2. misuse' = misuse
    BY <1>19, <2>1 DEF TcpSend, Uses
  <2>3. CASE UNCHANGED <<sock, socketid, connected>>
    BY <1>19, <2>1, <2>2, <2>3 DEF TcpSend, netVars
  <2>4. CASE connected /\ TcpClose
    <3>1. sock = "up"
      BY <2>1, <2>4
    <3> QED
      BY <1>19, <2>1, <2>2, <2>4, <3>1, TcpCloses DEF TcpSend
  <2> QED
    BY <1>19, <2>3, <2>4 DEF TcpSend
<1>20. CASE SelectPdpRecv
  BY <1>20 DEF SelectPdpRecv, Uses, dataVars
<1>21. CASE UNCHANGED sockVars
  BY <1>21 DEF sockVars, netVars, dataVars
<1> QED
  BY <1>1, <1>2, <1>3, <1>4, <1>5, <1>6, <1>7, <1>8, <1>9, <1>10, <1>11, <1>12, <1>13,
     <1>14, <1>15, <1>16, <1>17, <1>18, <1>19, <1>20, <1>21
     DEF SocketNext, SocketThread, SocketPeer

\* In the beginning there is no socket.
LEMMA SockInvInit == ImageInit => SockInv
<1> SUFFICES ASSUME ImageInit PROVE SockInv
  OBVIOUS
<1> USE DEF ImageInit, SocketInit
<1>1. SockTypes
  <2>1. connected \in BOOLEAN /\ misuse \in BOOLEAN
    OBVIOUS
  <2> QED
    BY <2>1 DEF SockTypes
<1>2. SockPlaces /\ TcpPlaces /\ LeftOpen
  BY DEF SockPlaces, TcpPlaces, LeftOpen
<1>3. Transferred
  BY SocketAssumption DEF Transferred
<1> QED
  BY <1>1, <1>2, <1>3 DEF SockInv

\* What the socket demos leave open when they end, that only one of them uses a
\* closed socket, and that the speed tests transfer what they measure
\* (select_demo.c:403, dl_speed_test_demo.c:327, ul_speed_test_demo.c:276).
THEOREM SocketsGivenBack == ImageSpec => []GivenBack
<1>1. ImageInit => SockInv
  BY SockInvInit
<1>2. SockInv /\ [ImageNext]_imageVars => SockInv'
  BY EachApplication, SockStep
<1>3. SockInv => GivenBack
  <2> SUFFICES ASSUME SockInv PROVE GivenBack
    OBVIOUS
  <2>1. sends * SendSize \in Int
    BY SocketAssumption DEF SockInv, SockTypes
  <2> QED
    BY <2>1, SocketAssumption DEF SockInv, SockTypes, Transferred, LeftOpen, GivenBack
<1> QED
  BY <1>1, <1>2, <1>3, PTL DEF ImageSpec

-----------------------------------------------------------------------------
(* The audio demos *)

\* No byte of the recording is lost while it goes on but those recorded between
\* a write and the move behind it; what is written is in order as far as the
\* loops can keep it, and never written a third time
\* (hello_recorder_stream.c:210, fibo_audio_poc_play_record_start_demo.c).
THEOREM RecordingKept == ImageSpec => []RecordedWell
<1>1. ImageInit => RecInv
  BY RecInitInv DEF ImageInit
<1>2. RecInv /\ [ImageNext]_imageVars => RecInv'
  BY EachApplication, RecStep
<1>3. RecInv => RecordedWell
  BY RecInvLost, RecInvOrder DEF RecordedWell
<1> QED
  BY <1>1, <1>2, <1>3, PTL DEF ImageSpec

\* What the driver plays is a beginning of the file with its first piece twice:
\* nothing is played again, in another order or before it was copied
\* (fibo_audio_poc_play_record_start_demo.c).
THEOREM PlayingInOrder == ImageSpec => []PlayedInOrder
<1>1. ImageInit => PlayInv
  BY PlayInitInv DEF ImageInit
<1>2. PlayInv /\ [ImageNext]_imageVars => PlayInv'
  BY EachApplication, PlayInvStep
<1>3. PlayInv => PlayedInOrder
  BY DEF PlayInv
<1> QED
  BY <1>1, <1>2, <1>3, PTL DEF ImageSpec

-----------------------------------------------------------------------------
(* Addresses: what became of a text or an address is what the conversion    *)
(* of it gives.                                                             *)

FourInputs == {t \in [kind : {"ip4"}, numbers : Ip4Numbers, tail : Tails] :
                 ~DigitTail(t.numbers, t.tail)}

SixInputs == [kind : {"ip6"}, blocks : [1..8 -> BlockValues]]

SixBecame(blocks, out) ==
  \E beyond \in {0, 1}, tail \in {<<>>, <<Space, Colon>>} :
    LET text == Ip6Ntoa(blocks, beyond) IN
    out = <<"ip6", text, beyond, Ip6Aton(text \o tail)>>

Converted ==
  /\ textIn \in {NoInput} \cup FourInputs \cup SixInputs
  /\ \/ textOut = <<"none">>
     \/ textIn.kind = "ip4" /\ textOut = <<"ip4", Ip4Aton(Ip4Text(textIn.numbers, textIn.tail))>>
     \/ textIn.kind = "ip6" /\ SixBecame(textIn.blocks, textOut)

LEMMA ConvertedStep ==
  ASSUME Converted, [TextNext]_textVars
  PROVE  Converted'
<1>1. CASE Convert4
  BY <1>1 DEF Convert4, Converted
<1>2. CASE Convert6
  BY <1>2 DEF Convert6, Converted, SixBecame
<1>3. CASE UNCHANGED textVars
  BY <1>3 DEF textVars, Converted
<1> QED
  BY <1>1, <1>2, <1>3 DEF TextNext

\* Every input is one the lemmas about the conversions are about.
LEMMA InputFacts ==
  ASSUME Converted
  PROVE  /\ textIn.kind = "ip4" =>
              /\ AllSpelt(textIn.numbers) /\ textIn.tail \in Tails
              /\ ~DigitTail(textIn.numbers, textIn.tail)
         /\ textIn.kind = "ip6" => textIn.blocks \in Address
<1>1. NoInput.kind = "none"
  BY DEF NoInput
<1>2. textIn \in {NoInput} \cup FourInputs \cup SixInputs
  BY DEF Converted
<1>3. ASSUME textIn.kind = "ip4"
      PROVE  /\ AllSpelt(textIn.numbers) /\ textIn.tail \in Tails
             /\ ~DigitTail(textIn.numbers, textIn.tail)
  <2>1. textIn \in FourInputs
    BY <1>1, <1>2, <1>3 DEF SixInputs
  <2>2. /\ textIn.numbers \in Ip4Numbers /\ textIn.tail \in Tails
        /\ ~DigitTail(textIn.numbers, textIn.tail)
    BY <2>1 DEF FourInputs
  <2>3. AllSpelt(textIn.numbers)
    <3> DEFINE ns == textIn.numbers
    <3>1. /\ ns \in Seq(Number) /\ ns # <<>>
          /\ \A i \in DOMAIN ns :
               /\ ns[i].base # 16 => ns[i].digits \in Seq(0..9)
               /\ ns[i].base = 10 => ns[i].digits # <<>> /\ ns[i].digits[1] # 0
      BY <2>2, Ip4Assumption
    <3> HIDE DEF ns
    <3>2. DOMAIN ns = 1..Len(ns) /\ \A i \in 1..Len(ns) : ns[i] \in Number
      BY <3>1
    <3> QED
      BY <3>1, <3>2 DEF AllSpelt, Spelt, ns
  <2> QED
    BY <2>2, <2>3
<1>4. ASSUME textIn.kind = "ip6" PROVE textIn.blocks \in Address
  <2>1. textIn \in SixInputs
    BY <1>1, <1>2, <1>4 DEF FourInputs
  <2>2. textIn.blocks \in [1..8 -> BlockValues]
    BY <2>1 DEF SixInputs
  <2>3. BlockValues \subseteq Block
    BY BlockAssumption DEF Block
  <2> QED
    BY <2>2, <2>3 DEF Address
<1> QED
  BY <1>3, <1>4

LEMMA ConvertedAgrees ==
  ASSUME Converted
  PROVE  AddressesAgree
<1>1. CASE textOut = <<"none">>
  BY <1>1 DEF AddressesAgree
<1>2. CASE /\ textIn.kind = "ip4"
           /\ textOut = <<"ip4", Ip4Aton(Ip4Text(textIn.numbers, textIn.tail))>>
  <2>1. ReadAsInet(Ip4Aton(Ip4Text(textIn.numbers, textIn.tail)), textIn.numbers, textIn.tail)
    BY <1>2, InputFacts, FourAgrees
  <2>2. textOut[1] = "ip4" /\ textOut[2] = Ip4Aton(Ip4Text(textIn.numbers, textIn.tail))
    BY <1>2
  <2> QED
    BY <2>1, <2>2 DEF AddressesAgree
<1>3. CASE textIn.kind = "ip6" /\ SixBecame(textIn.blocks, textOut)
  <2>1. PICK beyond \in {0, 1}, tail \in {<<>>, <<Space, Colon>>} :
          textOut = <<"ip6", Ip6Ntoa(textIn.blocks, beyond), beyond,
                      Ip6Aton(Ip6Ntoa(textIn.blocks, beyond) \o tail)>>
    BY <1>3 DEF SixBecame
  <2> DEFINE text == Ip6Ntoa(textIn.blocks, beyond)
             read == Ip6Aton(text \o tail)
  <2>2. Agrees6(text, beyond, read, textIn.blocks)
    <3>1. textIn.blocks \in Address /\ beyond \in Nat
      BY <1>3, InputFacts
    <3> QED
      BY <3>1, SixAgrees
  <2>3. textOut = <<"ip6", text, beyond, read>>
    BY <2>1
  <2> HIDE DEF text, read
  <2>4. textOut[1] = "ip6" /\ textOut[2] = text /\ textOut[3] = beyond /\ textOut[4] = read
    BY <2>3
  <2> QED
    BY <2>2, <2>4 DEF AddressesAgree, Agrees6
<1> QED
  BY <1>1, <1>2, <1>3 DEF Converted

\* Whatever numbers are written with dots between them, ip4addr_aton reads them
\* as inet_aton does, and every IPv6 address is read back from the text that
\* ip6addr_ntoa_r writes of it (multi_pdn_test.c:192).
THEOREM AddressesAgreeAlways == ImageSpec => []AddressesAgree
<1>1. ImageInit => Converted
  BY DEF ImageInit, TextInit, Converted, FourInputs, SixInputs
<1>2. Converted /\ [ImageNext]_imageVars => Converted'
  BY EachApplication, ConvertedStep
<1>3. Converted => AddressesAgree
  BY ConvertedAgrees
<1> QED
  BY <1>1, <1>2, <1>3, PTL DEF ImageSpec

-----------------------------------------------------------------------------
(* The types of all applications, which rest on what is proved about each.   *)

\* The device has been initialised again before the thread waits for it.
UsbTypes ==
  /\ usbState \in {"none", "BROKEN", "READY", "OPEN", "CLOSE"}
  /\ listening \in BOOLEAN
  /\ port \in {"ready", "open", "broken"}
  /\ opens <= MaxOpens
  /\ usbPc = "wait" => inits >= 1

LEMMA UsbTypesStep ==
  ASSUME UsbCount, UsbTypes, [UsbNext]_usbVars
  PROVE  UsbTypes'
<1> USE OpensAssumption DEF UsbCount, UsbTypes
<1>1. CASE UsbStart \/ TestOpen \/ UsbSend \/ TestBroken \/ UsbDeinit
  BY <1>1 DEF UsbStart, TestOpen, UsbSend, TestBroken, UsbDeinit, UsbGo
<1>2. CASE UsbReinit
  <2>1. inits' >= 1 /\ UNCHANGED <<usbState, port, opens>>
    BY <1>2 DEF UsbReinit
  <2>2. listening' \in BOOLEAN
    BY <1>2, Zenon DEF UsbReinit
  <2> QED
    BY <2>1, <2>2
<1>6. CASE UsbWait \/ UsbSignal
  BY <1>6 DEF UsbWait, UsbSignal, UsbGo
<1>3. CASE PortReady \/ PortBreak \/ PortClose \/ PortOther
  BY <1>3 DEF PortReady, PortBreak, PortClose, PortOther, PortQuiet, PortChange
<1>4. CASE PortOpen
  BY <1>4 DEF PortOpen, PortChange
<1>5. CASE UNCHANGED usbVars
  BY <1>5 DEF usbVars
<1> QED
  BY <1>1, <1>2, <1>3, <1>4, <1>5, <1>6 DEF UsbNext, UsbThread

LEMMA UsbTyped ==
  ASSUME UsbCount, UsbTypes
  PROVE  UsbTypeOK
<1>1. usbSem <= opens
  BY DEF UsbCount, UsbTypes
<1> QED
  BY <1>1, OpensAssumption DEF UsbCount, UsbTypes, UsbTypeOK

\* The reader is released once: the semaphore is not signalled before the setter
\* has got the group, and once then.
EventInv ==
  /\ EventTypeOK
  /\ setter \in {"create", "give"} => evtSem <= 0

LEMMA FirstBit ==
  ASSUME NEW S, S \subseteq EventBits, S # {}
  PROVE  Min(S) \in S
<1>1. PICK b \in S : \A c \in S : b <= c
  <2>1. CASE 0 \in S
    BY <2>1 DEF EventBits
  <2>2. CASE 0 \notin S /\ 1 \in S
    BY <2>2 DEF EventBits
  <2>3. CASE 0 \notin S /\ 1 \notin S
    <3>1. \A c \in S : c = 2
      BY <2>3 DEF EventBits
    <3> QED
      BY <3>1
  <2> QED
    BY <2>1, <2>2, <2>3
<1> QED
  BY <1>1 DEF Min

LEMMA EventInvStep ==
  ASSUME EventInv, [EventNext]_eventVars
  PROVE  EventInv'
<1>0. group \in BOOLEAN /\ rtc \in BOOLEAN
  BY DEF EventInv, EventTypeOK
<1> USE DEF EventInv, EventTypeOK
<1>1. CASE ReaderNew \/ ReaderReleased
  BY <1>1 DEF ReaderNew, ReaderReleased
<1>2. CASE WaitBits
  <2>1. Min(bits) \in EventBits
    BY <1>2, FirstBit DEF WaitBits
  <2> QED
    BY <1>2, <2>1 DEF WaitBits
<1>3. CASE GroupCreate \/ GiveReader \/ SetRtc
  <2>1. group' \in BOOLEAN /\ rtc' \in BOOLEAN
    BY <1>0, <1>3, Zenon DEF GroupCreate, GiveReader, SetRtc
  <2> QED
    BY <1>3, <2>1 DEF GroupCreate, GiveReader, SetRtc
<1>4. CASE Isr \/ SetBit("set1", 1, "set0") \/ SetBit("set0", 0, "rtc")
  <2>1. group' \in BOOLEAN /\ rtc' \in BOOLEAN
    BY <1>0, <1>4, Zenon DEF Isr, SetBit
  <2>2. bits' \subseteq EventBits
    BY <1>4 DEF Isr, SetBit, EventBits
  <2> QED
    BY <1>4, <2>1, <2>2 DEF Isr, SetBit
<1>5. CASE \/ ClearBit("clear0", 0, "clear1") \/ ClearBit("clear1", 1, "clear2")
           \/ ClearBit("clear2", 2, "gone")
  BY <1>5 DEF ClearBit, EventBits
<1>6. CASE UNCHANGED eventVars
  BY <1>6 DEF eventVars
<1> QED
  BY <1>1, <1>2, <1>3, <1>4, <1>5, <1>6 DEF EventNext, Reader, Setter

\* One of the two tasks goes on at a time, and one notification is on its way
\* when neither does.
NotifyInv ==
  /\ NotifyTypeOK
  /\ taskAt["prvTask1"] = "give" =>
       taskAt["prvTask2"] = "wait" /\ notified["prvTask2"] = 0 /\ ~pending["prvTask1"]
  /\ taskAt["prvTask2"] = "give" => notified["prvTask2"] = 0 /\ ~pending["prvTask1"]
  /\ pending["prvTask1"] => notified["prvTask2"] = 0

LEMMA NotifyInvStep ==
  ASSUME NotifyInv, [NotifyNext]_notifyVars
  PROVE  NotifyInv'
<1> USE DEF NotifyInv, NotifyTypeOK, NotifyTasks
<1>1. CASE Give
  BY <1>1 DEF Give
<1>2. CASE NotifyWait
  BY <1>2 DEF NotifyWait
<1>3. CASE NotifyTake
  BY <1>3 DEF NotifyTake
<1>4. CASE NotifySetBit
  <2>1. \A n \in 0..1 : n - (n % 2) + 1 = 1
    OBVIOUS
  <2>2. notified' = [notified EXCEPT !["prvTask1"] = 1]
    BY <1>4, <2>1 DEF NotifySetBit
  <2> QED
    BY <1>4, <2>2 DEF NotifySetBit
<1>5. CASE UNCHANGED notifyVars
  BY <1>5 DEF notifyVars
<1> QED
  BY <1>1, <1>2, <1>3, <1>4, <1>5 DEF NotifyNext

\* Only while the thread waits an indication is outstanding, about to be
\* signalled or counted, and there is a semaphore for it.
UpdInv ==
  /\ UpdTypeOK
  /\ updAt \in {"reg", "active", "wait", "test"} => updSem >= 0
  /\ IF updAt = "wait"
       THEN /\ updAsked => updCb = "idle" /\ updSem = 0
            /\ updCb = "signal" => updSem = 0
       ELSE ~updAsked /\ updCb = "idle" /\ updSem <= 0

LEMMA UpdInvStep ==
  ASSUME UpdInv, [UpdNext]_updVars
  PROVE  UpdInv'
<1> USE DEF UpdInv, UpdTypeOK
<1>1. CASE UpdStatus
  BY <1>1 DEF UpdStatus, UpdGo
<1>2. CASE UpdRegistered \/ UpdActivate
  BY <1>2 DEF UpdRegistered, UpdActivate, UpdGo
<1>3. CASE UpdWait
  BY <1>3 DEF UpdWait, UpdGo
<1>4. CASE UpdTest \/ UpdCreate
  BY <1>4 DEF UpdTest, UpdCreate, UpdGo
<1>5. CASE OtaRun
  BY <1>5 DEF OtaRun
<1>6. CASE UpdSignal
  BY <1>6 DEF UpdSignal
<1>7. ASSUME NEW ok \in BOOLEAN, UpdIndication(ok)
      PROVE  UpdInv'
  BY <1>7 DEF UpdIndication
<1>8. CASE UNCHANGED updVars
  BY <1>8 DEF updVars
<1> QED
  BY <1>1, <1>2, <1>3, <1>4, <1>5, <1>6, <1>7, <1>8 DEF UpdNext, UpdThread, UpdAnswers

\* Each confirmed call has signalled once, besides the signal there was.
AliSignals == aliSem <= 1 + Cardinality(aliConfirmed)

LEMMA AliSignalsStep ==
  ASSUME AliCount, AliSignals, [AliNext]_aliVars
  PROVE  AliSignals'
<1>0. Cardinality(aliConfirmed) \in Nat /\ aliSem \in Nat
  BY AliFinite DEF AliCount
<1>1. CASE \/ CloudAuth \/ TlsEnable \/ PdpSeen \/ CloudConn \/ CloudCall \/ CloudCallFails
           \/ TryWait \/ TryWaitTimesOut \/ CloudDisconn \/ UNCHANGED aliVars
  <2>1. aliConfirmed' = aliConfirmed /\ aliSem' \in {aliSem, aliSem - 1, 1}
    BY <1>1 DEF CloudAuth, TlsEnable, PdpSeen, CloudConn, CloudCall, CloudCallFails,
                TryWait, TryWaitTimesOut, CloudDisconn, aliVars
  <2> QED
    BY <1>0, <2>1 DEF AliSignals
<1>2. ASSUME NEW k \in Steps, NEW ok \in BOOLEAN, ConnectCallback(k, ok)
      PROVE  AliSignals'
  <2>1. k \notin aliConfirmed
    BY <1>2 DEF ConnectCallback, AliCount
  <2>2. Cardinality(aliConfirmed \cup {k}) = Cardinality(aliConfirmed) + 1
    BY <2>1, AliFinite, FS_AddElement
  <2> QED
    BY <1>0, <1>2, <2>2 DEF ConnectCallback, AliSignals
<1> QED
  BY <1>1, <1>2 DEF AliNext

LEMMA AliTyped ==
  ASSUME AliCount, AliSignals
  PROVE  AliTypeOK
<1>0. 1 \in Int /\ 4 \in Int /\ 4 - 1 + 1 = 4 /\ ~(1 > 4)
  OBVIOUS
<1>1. IsFiniteSet(1..4) /\ Cardinality(1..4) = 4
  BY ONLY <1>0, FS_Interval, Zenon
<1>2. Cardinality(aliConfirmed) <= Cardinality(1..4)
  BY <1>1, FS_Subset DEF AliCount
<1>3. aliSem \in 0..5
  BY <1>1, <1>2, AliFinite DEF AliCount, AliSignals
<1> QED
  BY <1>3 DEF AliCount, AliTypeOK, Steps

\* The sending threads.
SktTypes ==
  /\ link \in [SktThreads -> {"none", "up", "data", "ended"}]
  /\ pdp \in {"off", "on", "lost"} /\ pdpTest \in BOOLEAN

LEMMA SktTypesStep ==
  ASSUME SktTypes, [SktNext]_sktVars
  PROVE  SktTypes'
<1> USE DEF SktTypes
<1>1. ASSUME NEW t \in SktThreads,
             SktCreate(t) \/ SktConnect(t) \/ SktConnectFails(t) \/ SktRecv(t) \/ PeerActs(t)
      PROVE  SktTypes'
  BY <1>1 DEF SktCreate, SktConnect, SktConnectFails, SktRecv, PeerActs
<1>2. CASE PdpActivate \/ PdpAgain \/ PdpLost \/ UNCHANGED sktVars
  BY <1>2 DEF PdpActivate, PdpAgain, PdpLost, sktVars
<1> QED
  BY <1>1, <1>2 DEF SktNext, SktThread

LEMMA SktTyped ==
  ASSUME Counted, SktTypes
  PROVE  SktTypeOK
<1>1. ends <= Cardinality(Descriptors)
  BY CountedFinite DEF Counted
<1> QED
  BY <1>1, CountedFinite DEF Counted, SktTypes, SktTypeOK

\* What the peer has sent, the sums and the rounds keep their bounds.
SockBounds ==
  /\ socketid \in {-1, 0, 1}
  /\ peer \in {"quiet", "fin", "reset"}
  /\ arrived <= MaxData /\ inbox <= arrived
  /\ total \in -2..(Limit + SendSize)
  /\ round \in 0..Rounds /\ (at \in {"create", "gone"} \/ round > 0)
  /\ inRead \in BOOLEAN /\ inError \in BOOLEAN

LEMMA SockBoundsStep ==
  ASSUME SockInv, SockBounds, [SocketNext]_sockVars
  PROVE  SockBounds'
<1> USE SocketAssumption DEF SockBounds
<1>0. /\ total \in Int /\ round \in Int /\ arrived \in Nat /\ inbox \in Nat
      /\ at # "gone" => total <= Limit /\ total >= -1
  BY DEF SockInv, SockTypes, Transferred
<1>1. CASE Arrive \/ PeerEnds \/ Decide
  BY <1>0, <1>1 DEF Arrive, PeerEnds, Decide, dataVars, netVars
<1>2. CASE Create
  BY <1>0, <1>2 DEF Create, dataVars
<1>3. CASE ConnectSucceeds \/ ConnectFails \/ ConnectLater
  BY <1>0, <1>3 DEF ConnectSucceeds, ConnectFails, ConnectLater, netVars, dataVars
<1>4. CASE SelectSend \/ SelectSelect \/ SelectPdpSend \/ DlSelect \/ FcntlSend
  BY <1>0, <1>4 DEF SelectSend, SelectSelect, SelectPdpSend, DlSelect, FcntlSend, Uses,
                    netVars, dataVars
<1>5. CASE SelectRecv \/ SelectPdpRecv
  BY <1>0, <1>5 DEF SelectRecv, SelectPdpRecv, Uses, dataVars
<1>6. CASE SelectPdpSelect
  BY <1>0, <1>6 DEF SelectPdpSelect, netVars
<1>7. CASE DlRecv
  BY <1>0, <1>7 DEF DlRecv, DlCount, Uses
<1>8. CASE UlSend
  BY <1>0, <1>8 DEF UlSend, Uses
<1>9. CASE FcntlRecv
  BY <1>0, <1>9 DEF FcntlRecv, Uses, netVars
<1>10. CASE TcpSelect
  BY <1>0, <1>10 DEF TcpSelect, netVars, dataVars
<1>11. CASE TcpRecv
  BY <1>0, <1>11 DEF TcpRecv, Uses, TcpClose
<1>12. CASE TcpSend
  BY <1>0, <1>12 DEF TcpSend, Uses, TcpClose, netVars
<1>13. CASE UNCHANGED sockVars
  BY <1>13 DEF sockVars, netVars, dataVars
<1> QED
  BY <1>1, <1>2, <1>3, <1>4, <1>5, <1>6, <1>7, <1>8, <1>9, <1>10, <1>11, <1>12, <1>13
     DEF SocketNext, SocketThread, SocketPeer

LEMMA SockTyped ==
  ASSUME SockInv, SockBounds
  PROVE  SocketTypeOK
BY SocketAssumption DEF SockInv, SockTypes, SockBounds, SocketTypeOK

\* The BLE server.
ServerBounds == Len(bleQueue) <= Room /\ bleWrites <= MaxWrites /\ bleChanges <= MaxChanges

LEMMA ServerBoundsStep ==
  ASSUME ServerInv, ServerBounds, [BleServerNext]_bleServerVars
  PROVE  ServerBounds'
<1>0. /\ bleQueue \in Seq({1, 2}) /\ Len(bleQueue) \in Nat
      /\ bleWrites \in Nat /\ bleChanges \in Nat
  BY DEF ServerInv, ServerTypes
<1> USE ServerAssumption DEF ServerBounds
<1>1. ASSUME NEW kind \in {1, 2}, QueuePut(kind)
      PROVE  Len(bleQueue') <= Room
  BY <1>0, <1>1 DEF QueuePut
<1>2. CASE DataWrite \/ DataWriteSecond
  BY <1>0, <1>1, <1>2 DEF DataWrite, DataWriteSecond
<1>3. CASE QueueGet
  BY <1>0, <1>3 DEF QueueGet
<1>4. CASE WifiChanged \/ SendFill \/ BleNotify \/ UNCHANGED bleServerVars
  BY <1>0, <1>4 DEF WifiChanged, SendFill, BleNotify, bleServerVars
<1> QED
  BY <1>2, <1>3, <1>4 DEF BleServerNext

LEMMA ServerTyped ==
  ASSUME ServerInv, ServerBounds
  PROVE  BleServerTypeOK
BY ServerAssumption DEF ServerInv, ServerTypes, ServerBounds, BleServerTypeOK

ImageInv ==
  /\ app \in Apps
  /\ RecInv /\ PlayInv /\ EventInv /\ NotifyInv /\ UpdInv
  /\ SockInv /\ SockBounds
  /\ Counted /\ SktTypes
  /\ UsbCount /\ UsbTypes
  /\ AliCount /\ AliSignals
  /\ ServerInv /\ ServerBounds

LEMMA ImageInvInit == ImageInit => ImageInv
<1> SUFFICES ASSUME ImageInit PROVE ImageInv
  OBVIOUS
<1>1. RecInv /\ PlayInv
  BY RecInitInv, PlayInitInv DEF ImageInit
<1>2. EventInv
  <2>1. group \in BOOLEAN /\ rtc \in BOOLEAN
    BY Zenon DEF ImageInit, EventInit
  <2> QED
    BY <2>1 DEF ImageInit, EventInit, EventInv, EventTypeOK
<1>3. NotifyInv
  BY DEF ImageInit, NotifyInit, NotifyInv, NotifyTypeOK, NotifyTasks
<1>4. UpdInv
  <2>1. updSuccess \in BOOLEAN /\ updAsked \in BOOLEAN
    BY Zenon DEF ImageInit, UpdInit
  <2> QED
    BY <2>1 DEF ImageInit, UpdInit, UpdInv, UpdTypeOK
<1>5. SockInv /\ SockBounds
  <2>1. inRead \in BOOLEAN /\ inError \in BOOLEAN
    BY Zenon DEF ImageInit, SocketInit
  <2> QED
    BY <2>1, SockInvInit, SocketAssumption DEF ImageInit, SocketInit, SockBounds
<1>6. Counted /\ SktTypes
  BY CountedInit DEF ImageInit, SktInit, SktTypes
<1>7. UsbCount /\ UsbTypes
  <2>1. listening \in BOOLEAN
    BY Zenon DEF ImageInit, UsbInit
  <2> QED
    BY <2>1, OpensAssumption DEF ImageInit, UsbInit, UsbCount, UsbTypes
<1>8. AliCount /\ AliSignals
  <2>1. AliCount
    BY DEF ImageInit, AliInit, AliCount, Asked, Waited
  <2> QED
    BY <2>1, AliFinite DEF ImageInit, AliInit, AliSignals
<1>9. ServerInv /\ ServerBounds
  BY ServerInvInit, ServerAssumption DEF ImageInit, BleServerInit, ServerBounds
<1> QED
  BY <1>1, <1>2, <1>3, <1>4, <1>5, <1>6, <1>7, <1>8, <1>9 DEF ImageInv, ImageInit

LEMMA ImageInvStep == ImageInv /\ [ImageNext]_imageVars => ImageInv'
<1> SUFFICES ASSUME ImageInv, [ImageNext]_imageVars PROVE ImageInv'
  OBVIOUS
<1> USE EachApplication DEF ImageInv
<1>1. RecInv' /\ PlayInv'
  BY RecStep, PlayInvStep
<1>2. EventInv' /\ NotifyInv' /\ UpdInv'
  BY EventInvStep, NotifyInvStep, UpdInvStep
<1>3. SockInv' /\ SockBounds'
  BY SockStep, SockBoundsStep
<1>4. Counted' /\ SktTypes'
  BY CountedStep, SktTypesStep
<1>5. UsbCount' /\ UsbTypes'
  BY UsbCountStep, UsbTypesStep
<1>6. AliCount' /\ AliSignals'
  BY AliCountStep, AliSignalsStep
<1>7. ServerInv' /\ ServerBounds'
  BY ServerInvStep, ServerBoundsStep
<1> QED
  BY <1>1, <1>2, <1>3, <1>4, <1>5, <1>6, <1>7

\* Whichever application the image holds, all variables keep their types: no
\* semaphore is signalled more often than its waits allow for, no sum of a speed
\* test passes its limit by more than one call, and the queue, the rings and the
\* descriptors stay within their room.
THEOREM ImageTypes == ImageSpec => []ImageTypeOK
<1>1. ImageInv => ImageTypeOK
  <2> SUFFICES ASSUME ImageInv PROVE ImageTypeOK
    OBVIOUS
  <2>1. RingTypeOK /\ PlayTypeOK /\ EventTypeOK /\ NotifyTypeOK /\ UpdTypeOK
    BY DEF ImageInv, RecInv, PlayInv, EventInv, NotifyInv, UpdInv
  <2>2. SocketTypeOK /\ SktTypeOK /\ UsbTypeOK /\ AliTypeOK /\ BleServerTypeOK
    BY SockTyped, SktTyped, UsbTyped, AliTyped, ServerTyped DEF ImageInv
  <2> QED
    BY <2>1, <2>2 DEF ImageInv, ImageTypeOK
<1> QED
  BY <1>1, ImageInvInit, ImageInvStep, PTL DEF ImageSpec

=============================================================================
