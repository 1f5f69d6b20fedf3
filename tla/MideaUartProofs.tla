-------------------------- MODULE MideaUartProofs --------------------------
(***************************************************************************)
(* Proofs about MideaUart and MideaLine, for every stream of frames, every *)
(* way to cut it into chunks and every buffer that has room for the        *)
(* longest frame.                                                          *)
(***************************************************************************)
EXTENDS MideaLine, FiniteSetTheorems, SequenceTheorems, WellFoundedInduction, TLAPS

\* While a frame is gathered its announced length is at most 256, so it fits,
\* and if no header came alone that length stands in the buffer.
Announced ==
  /\ all_data_len <= 256
  /\ all_data_len > 0 => all_data_len > HeadLen
  /\ all_data_len > 0 /\ ~cut =>
       Len(data_buf) >= 2 /\ all_data_len = data_buf[2] + 1

IInv == TypeOK /\ Completable /\ Announced /\ LengthAgrees

-----------------------------------------------------------------------------
(* What the operators return *)

\* A chunk is the next n bytes of the stream.
LEMMA ChunkFacts ==
  ASSUME NEW p \in Nat, NEW n \in Nat \ {0}, p + n <= Len(Stream)
  PROVE  Chunk(p, n) \in Seq(Byte) /\ Len(Chunk(p, n)) = n
BY StreamAssumption, SubSeqProperties DEF Chunk

\* Fitting keeps what was gathered, adds a prefix of the chunk, and never
\* exceeds the buffer.
LEMMA FittingFacts ==
  ASSUME NEW buf \in Seq(Byte), NEW chunk \in Seq(Byte), Len(buf) <= MaxLen - 1
  PROVE  /\ Fitting(buf, chunk) \in Seq(Byte)
         /\ Len(Fitting(buf, chunk)) >= Len(buf)
         /\ \A i \in 1..Len(buf) : Fitting(buf, chunk)[i] = buf[i]
         /\ buf = << >> /\ Len(chunk) >= 2 =>
              Len(Fitting(buf, chunk)) >= 2 /\ Fitting(buf, chunk)[2] = chunk[2]
<1> DEFINE m == IF Len(buf) + Len(chunk) > MaxLen - 1
                THEN MaxLen - 1 - Len(buf) ELSE Len(chunk)
           part == SubSeq(chunk, 1, m)
<1>1. m \in Nat /\ m <= Len(chunk) /\ (buf = << >> /\ Len(chunk) >= 2 => m >= 2)
  BY MaxLenAssumption
<1>2. part \in Seq(Byte) /\ Len(part) = m /\ \A i \in 1..m : part[i] = chunk[i]
  BY <1>1, SubSeqProperties
<1>3. Fitting(buf, chunk) = buf \o part BY DEF Fitting
<1> HIDE DEF m, part
<1> QED BY <1>1, <1>2, <1>3, ConcatProperties

-----------------------------------------------------------------------------
(* The inductive invariant *)

\* The zeroed buffer satisfies it.
THEOREM InitIInv == Init => IInv
<1> SUFFICES ASSUME Init PROVE IInv OBVIOUS
<1>1. TypeOK
  <2>1. << >> \in Seq(Byte) /\ << >> \in Seq(Seq(Byte)) BY EmptySeq
  <2> QED BY <2>1 DEF Init, TypeOK
<1>2. Completable /\ Announced BY DEF Init, Completable, Announced
<1>3. LengthAgrees BY DEF Init, LengthAgrees
<1> QED BY <1>1, <1>2, <1>3 DEF IInv

\* Complete preserves it, whatever was gathered for the announced length.
LEMMA CompleteInv ==
  ASSUME IInv, open' \in BOOLEAN, cut' \in BOOLEAN, cut => cut', pos' \in Nat,
         NEW buf \in Seq(Byte), NEW all \in Nat, Complete(buf, all),
         all <= 256, all > 0 => all > HeadLen, all = 0 => buf = << >>,
         all > 0 /\ ~cut' => Len(buf) >= 2 /\ all = buf[2] + 1
  PROVE  IInv'
<1>1. CASE Len(buf) >= all /\ all > 0
  <2> DEFINE frame == SubSeq(buf, 1, all)
  <2>1. /\ delivered' = Append(delivered, frame)
        /\ data_buf' = << >> /\ all_data_len' = 0
    BY <1>1 DEF Complete
  <2>2. frame \in Seq(Byte) /\ Len(frame) = all /\ \A i \in 1..all : frame[i] = buf[i]
    BY <1>1, SubSeqProperties
  <2>3. ~cut' => Len(frame) = frame[2] + 1
    BY <1>1, <2>2 DEF Byte, HeadLen
  <2> HIDE DEF frame
  <2>4. delivered \in Seq(Seq(Byte)) BY DEF IInv, TypeOK
  <2>5. /\ delivered' \in Seq(Seq(Byte))
        /\ \A i \in DOMAIN delivered' :
             delivered'[i] = frame \/ (i \in DOMAIN delivered /\ delivered'[i] = delivered[i])
    BY <2>1, <2>2, <2>4, AppendProperties
  <2>6. LengthAgrees' BY <2>3, <2>5 DEF IInv, LengthAgrees
  <2> QED BY <2>1, <2>5, <2>6 DEF IInv, TypeOK, Completable, Announced
<1>2. CASE ~(Len(buf) >= all /\ all > 0)
  <2>1. data_buf' = buf /\ all_data_len' = all /\ delivered' = delivered
    BY <1>2 DEF Complete
  <2>2. LengthAgrees' BY <2>1 DEF IInv, LengthAgrees
  <2>3. Completable' BY <1>2, <2>1, MaxLenAssumption DEF Completable
  <2> QED BY <2>1, <2>2, <2>3 DEF IInv, TypeOK, Announced
<1> QED BY <1>1, <1>2

\* A chunk of any size preserves it, whether it begins or continues a frame.
LEMMA ReceiveInv ==
  ASSUME IInv, NEW n \in ChunkSizes, Receive(n)
  PROVE  IInv'
<1> DEFINE chunk == Chunk(pos, n)
<1>0. n \in Nat \ {0} /\ pos \in Nat BY ChunkAssumption DEF IInv, TypeOK
<1>1. chunk \in Seq(Byte) /\ Len(chunk) = n BY <1>0, ChunkFacts DEF Receive
<1>2. open' \in BOOLEAN /\ pos' \in Nat /\ cut' \in BOOLEAN /\ (cut => cut') /\ (chunk = <<Sync>> => cut')
  <2>1. cut \in BOOLEAN /\ cut' = (cut \/ chunk = <<Sync>>)
    BY DEF Receive, IInv, TypeOK
  <2>2. open' \in BOOLEAN /\ pos' \in Nat BY <1>0 DEF Receive
  <2> QED BY <2>1, <2>2
<1>3. PICK second \in (IF n = 1 THEN StaleBytes ELSE {chunk[2]}) :
        Header(chunk, second) \/ Continue(chunk)
  BY DEF Receive
<1>4. second \in Byte /\ (n >= 2 => second = chunk[2])
  BY <1>0, <1>1, <1>3, StaleAssumption
<1> HIDE DEF chunk
<1>5. CASE Header(chunk, second)
  <2>1. CASE second < HeadLen
    <3>1. data_buf' = << >> /\ all_data_len' = 0 /\ delivered' = delivered
      BY <1>5, <2>1 DEF Header
    <3> QED BY <1>2, <3>1
            DEF IInv, TypeOK, Completable, Announced, LengthAgrees
  <2>2. CASE ~(second < HeadLen)
    <3> DEFINE buf == Fitting(<< >>, chunk)
    <3>1. Complete(buf, second + 1) /\ chunk[1] = Sync BY <1>5, <2>2 DEF Header
    <3>2. buf \in Seq(Byte) /\ (n >= 2 => Len(buf) >= 2 /\ buf[2] = chunk[2])
      <4>1. << >> \in Seq(Byte) /\ Len(<< >>) = 0 BY EmptySeq
      <4>2. Len(<< >>) <= MaxLen - 1 BY <4>1, MaxLenAssumption
      <4> QED BY <1>1, <4>1, <4>2, FittingFacts
    <3>3. second + 1 \in Nat /\ second + 1 > HeadLen /\ second + 1 <= 256
      BY <1>4, <2>2 DEF Byte, HeadLen
    <3>4. ~cut' => n >= 2
      BY <1>0, <1>1, <1>2, <3>1
    <3> HIDE DEF buf
    <3> QED BY <1>2, <1>4, <3>1, <3>2, <3>3, <3>4, CompleteInv DEF HeadLen
  <2> QED BY <2>1, <2>2
<1>6. CASE Continue(chunk)
  <2> DEFINE buf == IF Len(data_buf) < all_data_len THEN Fitting(data_buf, chunk) ELSE data_buf
  <2>1. Complete(buf, all_data_len) BY <1>6 DEF Continue
  <2>2. /\ data_buf \in Seq(Byte) /\ all_data_len \in Nat /\ all_data_len <= 256
        /\ all_data_len > 0 => all_data_len > HeadLen
    BY DEF IInv, TypeOK, Announced
  <2>3. all_data_len = 0 => buf = << >> BY <2>2 DEF IInv, Completable
  <2>4. /\ buf \in Seq(Byte)
        /\ Len(buf) >= Len(data_buf)
        /\ \A i \in 1..Len(data_buf) : buf[i] = data_buf[i]
    BY <1>1, <2>2, FittingFacts, MaxLenAssumption
  <2> HIDE DEF buf
  <2>5. all_data_len > 0 /\ ~cut' => Len(buf) >= 2 /\ all_data_len = buf[2] + 1
    BY <1>2, <2>2, <2>4 DEF IInv, Announced
  <2> QED BY <1>2, <2>1, <2>2, <2>3, <2>4, <2>5, CompleteInv
<1> QED BY <1>3, <1>5, <1>6

\* No step leaves the invariant.
THEOREM StepIInv == IInv /\ [Next]_vars => IInv'
<1>1. IInv /\ Next => IInv' BY ReceiveInv DEF Next
<1>2. IInv /\ UNCHANGED vars => IInv'
  BY DEF vars, IInv, TypeOK, Completable, Announced, LengthAgrees
<1> QED BY <1>1, <1>2

\* The invariant holds in every reachable state.
THEOREM IInvInvariant == Spec => []IInv
BY InitIInv, StepIInv, PTL DEF Spec

-----------------------------------------------------------------------------

\* The receiver's variables keep their types.
THEOREM TypeCorrect == Spec => []TypeOK
<1>1. IInv => TypeOK BY DEF IInv
<1> QED BY <1>1, IInvInvariant, PTL

\* A frame that is being gathered is never stuck on a full buffer.
THEOREM AlwaysCompletable == Spec => []Completable
<1>1. IInv => Completable BY DEF IInv
<1> QED BY <1>1, IInvInvariant, PTL

\* Every delivered frame is as long as its length byte says, unless a header
\* byte arrived alone.
THEOREM LengthsAgree == Spec => []LengthAgrees
<1>1. IInv => LengthAgrees BY DEF IInv
<1> QED BY <1>1, IInvInvariant, PTL

-----------------------------------------------------------------------------
(* The frames in the stream *)

\* A set of natural numbers has a least one.
LEMMA LeastMember ==
  ASSUME NEW S \in SUBSET Nat, S # {}
  PROVE  \E n \in S : \A m \in S : n <= m
<1>1. PICK n \in S : \A m \in S : ~ (<<m, n>> \in OpToRel(<, Nat))
  BY WFMin, NatLessThanWellFounded
<1>2. \A m \in S : ~(m < n)
  BY <1>1 DEF OpToRel
<1> QED
  BY <1>2

\* A frame has more than a header and ends behind where it starts.
LEMMA FrameEnds ==
  ASSUME NEW k \in DOMAIN Ends
  PROVE  /\ k \in Nat /\ k >= 1 /\ k <= Len(Ends) /\ Len(Ends) \in Nat
         /\ Ends[k] \in Nat /\ Start(k) \in Nat /\ Start(k) + HeadLen < Ends[k]
         /\ Len(Frame(k)) = Ends[k] - Start(k)
<1>1. /\ k \in Nat /\ k >= 1 /\ k <= Len(Ends) /\ Len(Ends) \in Nat
      /\ Ends[k] \in Nat /\ Start(k) \in Nat
  BY StreamAssumption DEF Start
<1>2. Len(Frame(k)) = IF Start(k) + 1 <= Ends[k] THEN Ends[k] - (Start(k) + 1) + 1 ELSE 0
  BY <1>1 DEF Frame
<1>3. Len(Frame(k)) > 10
  BY StreamAssumption DEF IsFrame, HeadLen
<1> QED
  BY <1>1, <1>2, <1>3 DEF HeadLen

\* The frames end one after the other.
LEMMA EndsRise ==
  ASSUME NEW j \in DOMAIN Ends, NEW k \in DOMAIN Ends, j < k
  PROVE  Ends[j] < Ends[k]
<1> DEFINE Bad == {m \in Nat : m \in DOMAIN Ends /\ j < m /\ ~(Ends[j] < Ends[m])}
<1>1. Bad = {}
  <2> SUFFICES ASSUME Bad # {} PROVE FALSE
    OBVIOUS
  <2>1. PICK m \in Bad : \A i \in Bad : m <= i
    BY LeastMember
  <2>2. /\ m \in DOMAIN Ends /\ j < m /\ ~(Ends[j] < Ends[m])
        /\ m \in Nat /\ j \in Nat /\ j >= 1 /\ m <= Len(Ends) /\ Len(Ends) \in Nat
        /\ Ends[j] \in Nat /\ Ends[m] \in Nat /\ Start(m) + HeadLen < Ends[m] /\ Start(m) \in Nat
    BY <2>1, FrameEnds
  <2>3. Ends[m - 1] < Ends[m]
    BY <2>2 DEF Start, HeadLen
  <2>4. m - 1 \in DOMAIN Ends /\ m - 1 \in Nat
    BY <2>2, StreamAssumption
  <2>5. Ends[m - 1] \in Nat
    BY <2>4, FrameEnds
  <2>6. CASE m - 1 = j
    BY <2>2, <2>3, <2>6
  <2>7. CASE m - 1 # j
    <3>1. j < m - 1 /\ m - 1 \notin Bad
      BY <2>1, <2>2, <2>7
    <3> QED
      BY <2>2, <2>3, <2>4, <2>5, <3>1
  <2> QED
    BY <2>6, <2>7
<1>2. k \in Nat
  BY FrameEnds
<1> QED
  BY <1>1, <1>2

\* The stream ends with its last frame.
LEMMA EndsInStream ==
  ASSUME NEW k \in DOMAIN Ends
  PROVE  Ends[k] <= Len(Stream) /\ (k = Len(Ends) <=> Ends[k] = Len(Stream))
<1>1. Len(Ends) \in DOMAIN Ends /\ Ends[Len(Ends)] = Len(Stream) /\ Len(Stream) \in Nat
  BY StreamAssumption
<1>2. k <= Len(Ends) /\ k \in Nat /\ Len(Ends) \in Nat /\ Ends[k] \in Nat
  BY FrameEnds
<1>3. CASE k = Len(Ends)
  BY <1>1, <1>3
<1>4. CASE k # Len(Ends)
  <2>1. k < Len(Ends)
    BY <1>2, <1>4
  <2>2. Ends[k] < Ends[Len(Ends)]
    BY <1>1, <2>1, EndsRise
  <2> QED
    BY <1>1, <1>2, <1>4, <2>2
<1> QED
  BY <1>3, <1>4

\* Every byte belongs to one frame.
LEMMA FrameOfByte ==
  ASSUME NEW p \in Nat, p < Len(Stream)
  PROVE  /\ FrameAt(p) \in DOMAIN Ends /\ Start(FrameAt(p)) <= p /\ p < Ends[FrameAt(p)]
         /\ \A k \in DOMAIN Ends : Start(k) <= p /\ p < Ends[k] => k = FrameAt(p)
<1>1. \E k \in DOMAIN Ends : Start(k) <= p /\ p < Ends[k]
  <2> DEFINE S == {k \in Nat : k \in DOMAIN Ends /\ p < Ends[k]}
  <2>1. Len(Ends) \in DOMAIN Ends /\ Ends[Len(Ends)] = Len(Stream) /\ Len(Ends) \in Nat
    BY StreamAssumption
  <2>2. S # {} /\ S \in SUBSET Nat
    BY <2>1
  <2>3. PICK k \in S : \A m \in S : k <= m
    BY <2>2, LeastMember
  <2>4. k \in DOMAIN Ends /\ p < Ends[k] /\ k \in Nat /\ k >= 1 /\ k <= Len(Ends) /\ Len(Ends) \in Nat
    BY <2>3, FrameEnds
  <2>5. Start(k) <= p
    <3>1. CASE k = 1
      BY <3>1 DEF Start
    <3>2. CASE k # 1
      <4>1. k - 1 \in Nat /\ k - 1 \in DOMAIN Ends /\ ~(k <= k - 1)
        BY <2>4, <3>2, StreamAssumption
      <4>2. Ends[k - 1] \in Nat /\ ~(p < Ends[k - 1])
        BY <2>3, <4>1, FrameEnds
      <4> QED
        BY <3>2, <4>2 DEF Start
    <3> QED
      BY <3>1, <3>2
  <2> QED
    BY <2>4, <2>5
<1>2. FrameAt(p) \in DOMAIN Ends /\ Start(FrameAt(p)) <= p /\ p < Ends[FrameAt(p)]
  BY <1>1 DEF FrameAt
<1>3. ASSUME NEW j \in DOMAIN Ends, NEW k \in DOMAIN Ends,
             Start(j) <= p, p < Ends[j], Start(k) <= p, p < Ends[k], j < k
      PROVE  FALSE
  <2>1. j \in Nat /\ k \in Nat /\ j >= 1 /\ k <= Len(Ends) /\ Ends[j] \in Nat
    BY FrameEnds
  <2>2. Start(k) = Ends[k - 1] /\ k - 1 \in DOMAIN Ends
    BY <1>3, <2>1, StreamAssumption DEF Start
  <2>3. Ends[k - 1] \in Nat
    BY <2>2, FrameEnds
  <2>4. Ends[j] <= Ends[k - 1]
    <3>1. CASE j = k - 1
      BY <2>1, <3>1
    <3>2. CASE j # k - 1
      <4>1. j < k - 1
        BY <1>3, <2>1, <3>2
      <4> QED
        BY <2>1, <2>2, <2>3, <4>1, EndsRise
    <3> QED
      BY <3>1, <3>2
  <2> QED
    BY <1>3, <2>1, <2>2, <2>3, <2>4
<1>4. ASSUME NEW k \in DOMAIN Ends, Start(k) <= p, p < Ends[k] PROVE k = FrameAt(p)
  <2>1. k \in Nat /\ FrameAt(p) \in Nat
    BY <1>2, FrameEnds
  <2>2. ~(k < FrameAt(p)) /\ ~(FrameAt(p) < k)
    BY <1>2, <1>3, <1>4
  <2> QED
    BY <2>1, <2>2
<1> QED
  BY <1>2, <1>4

\* How many frames have arrived.
LEMMA ArrivedFrames ==
  ASSUME pos \in Nat, NEW k \in DOMAIN Ends, Start(k) < pos, pos <= Ends[k]
  PROVE  Arrived = IF pos = Ends[k] THEN k ELSE k - 1
<1>1. k \in Nat /\ k >= 1 /\ k <= Len(Ends) /\ Len(Ends) \in Nat /\ Ends[k] \in Nat /\ DOMAIN Ends = 1..Len(Ends)
  BY FrameEnds, StreamAssumption
<1>2. ASSUME NEW m \in Nat, m = IF pos = Ends[k] THEN k ELSE k - 1
      PROVE  Arrived = m
  <2>1. ASSUME NEW j \in DOMAIN Ends PROVE Ends[j] <= pos <=> j <= m
    <3>1. j \in Nat /\ j >= 1 /\ Ends[j] \in Nat
      BY FrameEnds
    <3>2. CASE j = k
      BY <1>1, <1>2, <3>1, <3>2
    <3>3. CASE j > k
      <4>1. Ends[k] < Ends[j]
        BY <3>3, EndsRise
      <4> QED
        BY <1>1, <1>2, <3>1, <3>3, <4>1
    <3>4. CASE j < k
      <4>1. Start(k) = Ends[k - 1] /\ k - 1 \in DOMAIN Ends
        BY <1>1, <3>1, <3>4 DEF Start
      <4>2. Ends[k - 1] \in Nat
        BY <4>1, FrameEnds
      <4>3. Ends[j] <= Ends[k - 1]
        <5>1. CASE j = k - 1
          BY <3>1, <5>1
        <5>2. CASE j # k - 1
          <6>1. j < k - 1
            BY <1>1, <3>1, <3>4, <5>2
          <6> QED
            BY <3>1, <4>1, <4>2, <6>1, EndsRise
        <5> QED
          BY <5>1, <5>2
      <4> QED
        BY <1>1, <1>2, <3>1, <3>4, <4>1, <4>2, <4>3
    <3> QED
      BY <1>1, <3>1, <3>2, <3>3, <3>4
  <2>2. {j \in DOMAIN Ends : Ends[j] <= pos} = 1..m
    <3>1. m <= Len(Ends)
      BY <1>1, <1>2
    <3>2. \A j : j \in {i \in DOMAIN Ends : Ends[i] <= pos} <=> j \in 1..m
      BY <1>1, <2>1, <3>1
    <3> QED
      BY <3>2
  <2>3. Cardinality(1..m) = m
    <3>1. 1 \in Int /\ m \in Int
      OBVIOUS
    <3>2. Cardinality(1..m) = IF m >= 1 THEN m - 1 + 1 ELSE 0
      BY <3>1, FS_Interval
    <3> QED
      BY <3>2
  <2> QED
    BY <2>2, <2>3 DEF Arrived
<1> QED
  BY <1>1, <1>2

-----------------------------------------------------------------------------
(* The run of chunks that respect the frames *)

\* The frames s to m are the last ones delivered.
Delivers(s, m) ==
  LET new == m - s + 1 IN
  /\ new <= Len(delivered)
  /\ \A i \in 1..new : delivered[Len(delivered) - new + i] = Frame(s + i - 1)

\* The driver is within frame k, or at its end: the bytes of k are in the
\* buffer, or k has been delivered, behind the frames of the run before it.
Gathers(k) ==
  /\ Start(k) < pos /\ pos <= Ends[k]
  /\ sync \in 1..k
  /\ pos = Ends[k] => Delivers(sync, k)
  /\ pos < Ends[k] => /\ data_buf = SubSeq(Stream, Start(k) + 1, pos)
                      /\ all_data_len = Len(Frame(k))
                      /\ Delivers(sync, k - 1)

InRun == sync = 0 \/ \E k \in DOMAIN Ends : Gathers(k)


\* One more frame is delivered.
LEMMA DeliversNext ==
  ASSUME NEW m \in Nat, NEW s \in 1..(m + 1), delivered \in Seq(Seq(Byte)),
         Delivers(s, m), Frame(m + 1) \in Seq(Byte),
         delivered' = Append(delivered, Frame(m + 1))
  PROVE  Delivers(s, m + 1)'
<1> DEFINE new == m - s + 1
           f == Frame(m + 1)
<1>1. new \in Nat /\ new <= Len(delivered)
      /\ \A i \in 1..new : delivered[Len(delivered) - new + i] = Frame(s + i - 1)
  BY DEF Delivers
<1>2. /\ Len(delivered') = Len(delivered) + 1 /\ Len(delivered) \in Nat
      /\ delivered'[Len(delivered) + 1] = f
      /\ \A i \in 1..Len(delivered) : delivered'[i] = delivered[i]
  BY AppendProperties
<1>3. m + 1 - s + 1 = new + 1 /\ s + (new + 1) - 1 = m + 1
  OBVIOUS
<1>4. ASSUME NEW i \in 1..(new + 1)
      PROVE  delivered'[Len(delivered') - (new + 1) + i] = Frame(s + i - 1)
  <2>1. CASE i = new + 1
    <3>1. Len(delivered') - (new + 1) + i = Len(delivered) + 1
      BY <1>1, <1>2, <2>1
    <3>2. s + i - 1 = m + 1
      BY <2>1
    <3> QED
      BY <1>2, <3>1, <3>2
  <2>2. CASE i # new + 1
    <3>1. i \in 1..new /\ i \in Nat
      BY <1>1, <2>2
    <3>2. /\ Len(delivered') - (new + 1) + i = Len(delivered) - new + i
          /\ Len(delivered) - new + i \in 1..Len(delivered)
      BY <1>1, <1>2, <3>1
    <3> QED
      BY <1>1, <1>2, <3>1, <3>2
  <2> QED
    BY <2>1, <2>2
<1>5. new + 1 <= Len(delivered')
  BY <1>1, <1>2
<1>6. (m + 1) - s + 1 = new + 1
  BY <1>3
<1> HIDE DEF new, f
<1> QED
  BY <1>4, <1>5, <1>6 DEF Delivers

\* Complete with the first bytes of frame k keeps the run going.
LEMMA CompleteRun ==
  ASSUME delivered \in Seq(Seq(Byte)), NEW k \in DOMAIN Ends, NEW p \in Nat,
         Start(k) < p, p <= Ends[k], pos' = p,
         NEW s \in 1..k, sync' = s, Delivers(s, k - 1),
         Complete(SubSeq(Stream, Start(k) + 1, p), Len(Frame(k)))
  PROVE  Gathers(k)'
<1> DEFINE buf == SubSeq(Stream, Start(k) + 1, p)
<1>1. /\ k \in Nat /\ k >= 1 /\ Ends[k] \in Nat /\ Start(k) \in Nat
      /\ Start(k) + HeadLen < Ends[k] /\ Len(Frame(k)) = Ends[k] - Start(k)
      /\ Ends[k] <= Len(Stream) /\ Len(Stream) \in Nat /\ Stream \in Seq(Byte)
  BY FrameEnds, EndsInStream, StreamAssumption
<1>2. buf \in Seq(Byte) /\ Len(buf) = p - Start(k)
  BY <1>1, SubSeqProperties DEF HeadLen
<1>3. Frame(k) \in Seq(Byte)
  BY <1>1, SubSeqProperties DEF Frame, HeadLen
<1>4. CASE p = Ends[k]
  <2>1. buf = Frame(k)
    BY <1>4 DEF Frame
  <2>2. SubSeq(buf, 1, Len(Frame(k))) = Frame(k)
    <3>1. /\ SubSeq(Frame(k), 1, Len(Frame(k))) \in Seq(Byte)
          /\ Len(SubSeq(Frame(k), 1, Len(Frame(k)))) = Len(Frame(k))
          /\ \A i \in 1..Len(Frame(k)) : SubSeq(Frame(k), 1, Len(Frame(k)))[i] = Frame(k)[i]
      BY <1>3, SubSeqProperties
    <3> QED
      BY <1>3, <2>1, <3>1, SeqEqual
  <2>3. Len(Frame(k)) > 0 /\ Len(buf) >= Len(Frame(k))
    BY <1>1, <1>2, <1>4 DEF HeadLen
  <2>4. delivered' = Append(delivered, Frame(k))
    BY <2>2, <2>3 DEF Complete
  <2>5. Delivers(s, k)'
    <3>1. k - 1 \in Nat /\ k = (k - 1) + 1
      BY <1>1
    <3>2. ASSUME NEW m \in Nat, k = m + 1 PROVE Delivers(s, k)'
      <4>1. k - 1 = m
        BY <3>2
      <4>2. s \in 1..(m + 1) /\ Delivers(s, m) /\ Frame(m + 1) \in Seq(Byte)
            /\ delivered' = Append(delivered, Frame(m + 1))
        BY <1>3, <2>4, <3>2, <4>1
      <4>3. Delivers(s, m + 1)'
        BY <4>2, DeliversNext
      <4> QED
        BY <3>2, <4>3
    <3> QED
      BY <3>1, <3>2
  <2>6. Delivers(sync, k)'
    BY <2>5
  <2> QED
    BY <1>1, <1>4, <2>6 DEF Gathers
<1>5. CASE p # Ends[k]
  <2>1. Len(buf) < Len(Frame(k))
    BY <1>1, <1>2, <1>5
  <2>2. data_buf' = buf /\ all_data_len' = Len(Frame(k)) /\ delivered' = delivered
    BY <1>1, <1>2, <2>1 DEF Complete
  <2>3. Delivers(sync, k - 1)'
    BY <2>2 DEF Delivers
  <2> QED
    BY <1>1, <1>5, <2>2, <2>3 DEF Gathers
<1> QED
  BY <1>4, <1>5

\* A whole chunk fits as long as the frame it belongs to does.
LEMMA FitsWhole ==
  ASSUME NEW buf \in Seq(Byte), NEW chunk \in Seq(Byte),
         Len(buf) + Len(chunk) <= MaxLen - 1
  PROVE  Fitting(buf, chunk) = buf \o chunk
<1>1. SubSeq(chunk, 1, Len(chunk)) = chunk
  <2>1. /\ SubSeq(chunk, 1, Len(chunk)) \in Seq(Byte)
        /\ Len(SubSeq(chunk, 1, Len(chunk))) = Len(chunk)
        /\ \A i \in 1..Len(chunk) : SubSeq(chunk, 1, Len(chunk))[i] = chunk[i]
    BY SubSeqProperties
  <2> QED
    BY <2>1, SeqEqual
<1>2. ~(Len(buf) + Len(chunk) > MaxLen - 1)
  BY MaxLenAssumption
<1> QED
  BY <1>1, <1>2 DEF Fitting

\* What precedes a chunk and the chunk are a stretch of the stream.
LEMMA ChunkBehind ==
  ASSUME NEW a \in Nat, NEW p \in Nat, NEW n \in Nat \ {0}, a <= p, p + n <= Len(Stream)
  PROVE  SubSeq(Stream, a + 1, p) \o Chunk(p, n) = SubSeq(Stream, a + 1, p + n)
<1> DEFINE l == SubSeq(Stream, a + 1, p)
           r == SubSeq(Stream, p + 1, p + n)
           w == SubSeq(Stream, a + 1, p + n)
<1>1. Stream \in Seq(Byte) /\ Len(Stream) \in Nat
  BY StreamAssumption
<1>2. l \in Seq(Byte) /\ Len(l) = p - a /\ \A i \in 1..(p - a) : l[i] = Stream[a + i]
  BY <1>1, SubSeqProperties
<1>3. r \in Seq(Byte) /\ Len(r) = n /\ \A i \in 1..n : r[i] = Stream[p + i]
  BY <1>1, SubSeqProperties
<1>4. w \in Seq(Byte) /\ Len(w) = p + n - a /\ \A i \in 1..(p + n - a) : w[i] = Stream[a + i]
  BY <1>1, SubSeqProperties
<1>5. Chunk(p, n) = r
  BY DEF Chunk
<1> HIDE DEF l, r, w
<1>6. l \o r \in Seq(Byte) /\ Len(l \o r) = p + n - a
  <2>1. l \o r \in Seq(Byte) /\ Len(l \o r) = Len(l) + Len(r)
    BY <1>2, <1>3, ConcatProperties
  <2> QED
    BY <1>2, <1>3, <2>1
<1>7. ASSUME NEW i \in 1..(p + n - a) PROVE (l \o r)[i] = w[i]
  <2>1. (l \o r)[i] = IF i <= Len(l) THEN l[i] ELSE r[i - Len(l)]
    <3>1. i \in 1..(Len(l) + Len(r))
      BY <1>2, <1>3
    <3> QED
      BY <1>2, <1>3, <3>1, ConcatProperties
  <2>2. CASE i <= p - a
    <3>1. i \in 1..(p - a)
      BY <2>2
    <3> QED
      BY <1>2, <1>4, <2>1, <2>2, <3>1
  <2>3. CASE ~(i <= p - a)
    <3>1. i - (p - a) \in 1..n /\ p + (i - (p - a)) = a + i
      BY <2>3
    <3>2. (l \o r)[i] = r[i - (p - a)]
      BY <1>2, <2>1, <2>3
    <3>3. r[i - (p - a)] = Stream[a + i] /\ w[i] = Stream[a + i]
      BY <1>3, <1>4, <3>1
    <3> QED
      BY <3>2, <3>3
  <2> QED
    BY <2>2, <2>3
<1>8. l \o r = w
  BY <1>4, <1>6, <1>7, SeqEqual
<1> QED
  BY <1>5, <1>8 DEF l, r, w

\* A chunk that respects the frames is the next part of frame k.
LEMMA RespectingChunk ==
  ASSUME pos \in Nat, NEW n \in Nat \ {0}, pos + n <= Len(Stream), Respects(pos, n),
         NEW k \in DOMAIN Ends, k = FrameAt(pos)
  PROVE  /\ Start(k) <= pos /\ pos < Ends[k] /\ pos + n <= Ends[k]
         /\ Chunk(pos, n) \in Seq(Byte) /\ Len(Chunk(pos, n)) = n
         /\ \A i \in 1..n : Chunk(pos, n)[i] = Stream[pos + i]
         /\ pos = Start(k) => /\ n >= 2
                              /\ Chunk(pos, n)[1] = Sync
                              /\ Chunk(pos, n)[2] + 1 = Len(Frame(k))
         /\ pos # Start(k) => Chunk(pos, n)[1] # Sync
         /\ Len(Frame(k)) > HeadLen /\ Len(Frame(k)) <= 256
<1>1. /\ k \in Nat /\ k >= 1 /\ Ends[k] \in Nat /\ Start(k) \in Nat
      /\ Start(k) + HeadLen < Ends[k] /\ Len(Frame(k)) = Ends[k] - Start(k)
      /\ Ends[k] <= Len(Stream) /\ Len(Stream) \in Nat /\ Stream \in Seq(Byte)
  BY FrameEnds, EndsInStream, StreamAssumption
<1>2. pos < Len(Stream)
  OBVIOUS
<1>3. Start(k) <= pos /\ pos < Ends[k]
  BY <1>2, FrameOfByte
<1>4. pos + n <= Ends[k] /\ (pos = Start(k) => n >= 2) /\ (pos # Start(k) => Stream[pos + 1] # Sync)
  BY DEF Respects
<1>5. /\ Chunk(pos, n) \in Seq(Byte) /\ Len(Chunk(pos, n)) = n
      /\ \A i \in 1..n : Chunk(pos, n)[i] = Stream[pos + i]
  <2>1. \A i \in (pos + 1)..(pos + n) : Stream[i] \in Byte
    BY <1>1
  <2>2. /\ SubSeq(Stream, pos + 1, pos + n) \in Seq(Byte)
        /\ Len(SubSeq(Stream, pos + 1, pos + n)) = n
        /\ \A i \in 1..n : SubSeq(Stream, pos + 1, pos + n)[i] = Stream[pos + i]
    BY <2>1, SubSeqProperties
  <2> QED
    BY <2>2 DEF Chunk
<1>6. /\ Frame(k)[1] = Stream[Start(k) + 1] /\ Frame(k)[2] = Stream[Start(k) + 2]
  <2>1. \A i \in (Start(k) + 1)..Ends[k] : Stream[i] \in Byte
    BY <1>1
  <2>2. \A i \in 1..(Ends[k] - (Start(k) + 1) + 1) : Frame(k)[i] = Stream[Start(k) + 1 + i - 1]
    <3>1. Start(k) + 1 \in Int /\ Ends[k] \in Int
      BY <1>1
    <3>2. \A i \in 1..(Ends[k] - (Start(k) + 1) + 1) :
            SubSeq(Stream, Start(k) + 1, Ends[k])[i] = Stream[(Start(k) + 1) + i - 1]
      BY <2>1, <3>1, SubSeqProperties
    <3> QED
      BY <3>2 DEF Frame
  <2>3. /\ 1 \in 1..(Ends[k] - (Start(k) + 1) + 1) /\ Start(k) + 1 + 1 - 1 = Start(k) + 1
        /\ 2 \in 1..(Ends[k] - (Start(k) + 1) + 1) /\ Start(k) + 1 + 2 - 1 = Start(k) + 2
    BY <1>1 DEF HeadLen
  <2> QED
    BY <2>2, <2>3
<1>7. Frame(k)[1] = Sync /\ Len(Frame(k)) = Frame(k)[2] + 1 /\ Len(Frame(k)) > HeadLen
  BY StreamAssumption DEF IsFrame
<1>8. Stream[Start(k) + 2] \in Byte
  BY <1>1 DEF HeadLen
<1>9. Len(Frame(k)) <= 256
  <2>1. PICK b \in 0..255 : b = Frame(k)[2]
    BY <1>6, <1>8 DEF Byte
  <2>2. Len(Frame(k)) = b + 1
    BY <1>7, <2>1
  <2>3. b + 1 <= 256
    OBVIOUS
  <2> QED
    BY <2>2, <2>3
<1>10. ASSUME pos = Start(k)
       PROVE  n >= 2 /\ Chunk(pos, n)[1] = Sync /\ Chunk(pos, n)[2] + 1 = Len(Frame(k))
  <2>1. n >= 2 /\ 1 \in 1..n /\ 2 \in 1..n
    BY <1>4, <1>10
  <2>2. Chunk(pos, n)[1] = Stream[pos + 1] /\ Chunk(pos, n)[2] = Stream[pos + 2]
    BY <1>5, <2>1
  <2> QED
    BY <1>6, <1>7, <1>10, <2>1, <2>2
<1>11. ASSUME pos # Start(k) PROVE Chunk(pos, n)[1] # Sync
  BY <1>4, <1>5, <1>11
<1> QED
  BY <1>3, <1>4, <1>5, <1>7, <1>9, <1>10, <1>11

\* The run goes on with the frame the next byte belongs to: the same one while
\* it is gathered, the one behind it when it has been delivered.
LEMMA RunGoesOn ==
  ASSUME pos \in Nat, pos < Len(Stream), NEW j \in DOMAIN Ends, Gathers(j),
         NEW k \in DOMAIN Ends, k = FrameAt(pos)
  PROVE  /\ sync \in 1..k /\ Delivers(sync, k - 1)
         /\ pos # Start(k) => /\ data_buf = SubSeq(Stream, Start(k) + 1, pos)
                              /\ all_data_len = Len(Frame(k))
<1>1. /\ k \in Nat /\ k >= 1 /\ j \in Nat /\ j >= 1 /\ Ends[j] \in Nat /\ Start(j) \in Nat
      /\ j <= Len(Ends) /\ Len(Ends) \in Nat /\ DOMAIN Ends = 1..Len(Ends)
  BY FrameEnds, StreamAssumption
<1>2. CASE pos = Ends[j]
  <2>1. j # Len(Ends)
    BY <1>2, EndsInStream
  <2>2. j + 1 \in DOMAIN Ends /\ Start(j + 1) = Ends[j]
    BY <1>1, <2>1 DEF Start
  <2>3. Start(j + 1) + HeadLen < Ends[j + 1] /\ Ends[j + 1] \in Nat
    BY <2>2, FrameEnds
  <2>4. k = j + 1
    BY <1>2, <2>2, <2>3, FrameOfByte DEF HeadLen
  <2> QED
    BY <1>1, <1>2, <2>2, <2>4 DEF Gathers
<1>3. CASE pos # Ends[j]
  <2>1. pos < Ends[j] /\ Start(j) < pos
    BY <1>1, <1>3 DEF Gathers
  <2>2. k = j
    BY <1>1, <2>1, FrameOfByte
  <2> QED
    BY <2>1, <2>2 DEF Gathers
<1> QED
  BY <1>2, <1>3

\* Nothing is delivered of a run that begins.
LEMMA NothingYet ==
  ASSUME NEW k \in Nat, k >= 1, delivered \in Seq(Seq(Byte))
  PROVE  Delivers(k, k - 1)
<1>1. (k - 1) - k + 1 = 0
  OBVIOUS
<1>2. Len(delivered) \in Nat /\ 1..0 = {}
  OBVIOUS
<1> QED
  BY <1>1, <1>2 DEF Delivers

\* Every chunk keeps the run going or ends it.
LEMMA ReceiveRun ==
  ASSUME IInv, InRun, NEW n \in ChunkSizes, Receive(n)
  PROVE  InRun'
<1>1. /\ n \in Nat \ {0} /\ pos \in Nat /\ pos + n <= Len(Stream) /\ pos' = pos + n
      /\ pos' \in Nat /\ delivered \in Seq(Seq(Byte)) /\ Len(Stream) \in Nat
  BY ChunkAssumption, StreamAssumption DEF Receive, IInv, TypeOK
<1>2. Track(pos, n)
  BY DEF Receive
<1>3. CASE ~Respects(pos, n)
  BY <1>2, <1>3 DEF Track, InRun
<1>4. CASE Respects(pos, n)
  <2>1. pos < Len(Stream)
    BY <1>1
  <2>2. PICK k \in DOMAIN Ends : k = FrameAt(pos)
    BY <1>1, <2>1, FrameOfByte
  <2>3. /\ k \in Nat /\ k >= 1 /\ Ends[k] \in Nat /\ Start(k) \in Nat
        /\ Len(Frame(k)) = Ends[k] - Start(k)
    BY FrameEnds
  <2>4. /\ Start(k) <= pos /\ pos < Ends[k] /\ pos + n <= Ends[k]
        /\ Chunk(pos, n) \in Seq(Byte) /\ Len(Chunk(pos, n)) = n
        /\ pos = Start(k) => /\ n >= 2
                             /\ Chunk(pos, n)[1] = Sync
                             /\ Chunk(pos, n)[2] + 1 = Len(Frame(k))
        /\ pos # Start(k) => Chunk(pos, n)[1] # Sync
        /\ Len(Frame(k)) > HeadLen /\ Len(Frame(k)) <= 256
    BY <1>1, <1>4, <2>2, RespectingChunk
  <2>5. CASE sync = 0 /\ pos # Start(k)
    BY <1>2, <1>4, <2>2, <2>5 DEF Track, InRun
  <2>6. CASE ~(sync = 0 /\ pos # Start(k))
    <3>1. PICK s \in 1..k : sync' = s /\ Delivers(s, k - 1)
      <4>1. CASE sync = 0
        <5>1. sync' = k
          BY <1>2, <1>4, <2>2, <2>6, <4>1 DEF Track
        <5> QED
          BY <1>1, <2>3, <5>1, NothingYet
      <4>2. CASE sync # 0
        <5>1. sync' = sync
          BY <1>2, <1>4, <4>2 DEF Track
        <5>2. sync \in 1..k /\ Delivers(sync, k - 1)
          BY <1>1, <2>1, <2>2, <4>2, RunGoesOn DEF InRun
        <5> QED
          BY <5>1, <5>2
      <4> QED
        BY <4>1, <4>2
    <3>2. Complete(SubSeq(Stream, Start(k) + 1, pos + n), Len(Frame(k)))
      <4>1. PICK second \in (IF n = 1 THEN StaleBytes ELSE {Chunk(pos, n)[2]}) :
              Header(Chunk(pos, n), second) \/ Continue(Chunk(pos, n))
        BY DEF Receive
      <4>2. SubSeq(Stream, Start(k) + 1, pos) \o Chunk(pos, n)
              = SubSeq(Stream, Start(k) + 1, pos + n)
        BY <1>1, <2>3, <2>4, ChunkBehind
      <4>3. CASE pos = Start(k)
        <5>1. second = Chunk(pos, n)[2] /\ second + 1 = Len(Frame(k)) /\ Chunk(pos, n)[1] = Sync
          BY <1>1, <2>4, <4>1, <4>3
        <5>2. ~(second < HeadLen)
          <6>1. second \in 0..255
            <7>1. 2 \in 1..Len(Chunk(pos, n))
              BY <1>1, <2>4, <4>3
            <7>2. Chunk(pos, n)[2] \in Byte
              BY <2>4, <7>1
            <7> QED
              BY <5>1, <7>2 DEF Byte
          <6>2. second + 1 > 10
            BY <2>4, <5>1 DEF HeadLen
          <6> QED
            BY <6>1, <6>2 DEF HeadLen
        <5>3. Complete(Fitting(<< >>, Chunk(pos, n)), second + 1)
          BY <4>1, <5>1, <5>2 DEF Header, Continue
        <5>4. << >> \in Seq(Byte) /\ Len(<< >>) = 0
          BY EmptySeq
        <5>5. Len(<< >>) + Len(Chunk(pos, n)) <= MaxLen - 1
          BY <1>1, <2>3, <2>4, <4>3, <5>4, MaxLenAssumption
        <5>6. Fitting(<< >>, Chunk(pos, n)) = << >> \o Chunk(pos, n)
          BY <2>4, <5>4, <5>5, FitsWhole
        <5>7. SubSeq(Stream, Start(k) + 1, pos) = << >>
          BY <1>1, <4>3, SubSeqEmpty
        <5> QED
          BY <4>2, <5>1, <5>3, <5>6, <5>7
      <4>4. CASE pos # Start(k)
        <5>1. Chunk(pos, n)[1] # Sync /\ sync # 0
          BY <2>4, <2>6, <4>4
        <5>2. data_buf = SubSeq(Stream, Start(k) + 1, pos) /\ all_data_len = Len(Frame(k))
          BY <1>1, <2>1, <2>2, <4>4, <5>1, RunGoesOn DEF InRun
        <5>3. data_buf \in Seq(Byte) /\ Len(data_buf) = pos - Start(k)
          <6>1. \A i \in (Start(k) + 1)..pos : Stream[i] \in Byte
            BY <1>1, <2>3, StreamAssumption
          <6>2. Start(k) + 1 <= pos
            BY <1>1, <2>3, <2>4, <4>4
          <6> QED
            BY <1>1, <2>3, <5>2, <6>1, <6>2, SubSeqProperties
        <5>4. Len(data_buf) < all_data_len
          BY <1>1, <2>3, <2>4, <5>2, <5>3
        <5>5. Len(data_buf) + Len(Chunk(pos, n)) <= MaxLen - 1
          BY <1>1, <2>3, <2>4, <5>3, MaxLenAssumption
        <5>6. Fitting(data_buf, Chunk(pos, n)) = data_buf \o Chunk(pos, n)
          <6>1. PICK b \in Seq(Byte) : b = data_buf
            BY <5>3
          <6> QED
            BY <2>4, <5>5, <6>1, FitsWhole
        <5>7. Complete(Fitting(data_buf, Chunk(pos, n)), all_data_len)
          BY <4>1, <5>1, <5>4 DEF Header, Continue
        <5> QED
          BY <4>2, <5>2, <5>6, <5>7
      <4> QED
        BY <4>3, <4>4
    <3>3. Gathers(k)'
      <4>1. PICK p \in Nat : p = pos + n
        BY <1>1
      <4>2. Start(k) < p /\ p <= Ends[k] /\ pos' = p
        BY <1>1, <2>3, <2>4, <4>1
      <4> QED
        BY <1>1, <3>1, <3>2, <4>1, <4>2, CompleteRun
    <3> QED
      BY <3>3 DEF InRun
  <2> QED
    BY <2>5, <2>6
<1> QED
  BY <1>3, <1>4

\* In a run the frames that have arrived since its first one are the last ones
\* delivered.
LEMMA RunResyncs ==
  ASSUME IInv, InRun
  PROVE  Resync
<1> SUFFICES ASSUME sync > 0 PROVE
      /\ Arrived - sync + 1 <= Len(delivered)
      /\ SubSeq(delivered, Len(delivered) - (Arrived - sync + 1) + 1, Len(delivered))
           = [i \in 1..(Arrived - sync + 1) |-> Frame(sync + i - 1)]
  BY DEF Resync
<1>1. PICK k \in DOMAIN Ends : Gathers(k)
  BY DEF InRun
<1>2. pos \in Nat /\ delivered \in Seq(Seq(Byte)) /\ Len(delivered) \in Nat
  BY DEF IInv, TypeOK
<1>3. Start(k) < pos /\ pos <= Ends[k] /\ sync \in 1..k /\ k \in Nat /\ Ends[k] \in Nat
  BY <1>1, FrameEnds DEF Gathers
<1>4. Arrived = IF pos = Ends[k] THEN k ELSE k - 1
  BY <1>2, <1>3, ArrivedFrames
<1>5. Arrived \in Nat /\ Delivers(sync, Arrived) /\ Arrived - sync + 1 \in Nat
  BY <1>1, <1>2, <1>3, <1>4 DEF Gathers
<1>6. PICK new \in Nat : new = Arrived - sync + 1
  BY <1>5
<1>7. new <= Len(delivered) /\ \A i \in 1..new : delivered[Len(delivered) - new + i] = Frame(sync + i - 1)
  BY <1>5, <1>6 DEF Delivers
<1>8. SubSeq(delivered, Len(delivered) - new + 1, Len(delivered)) = [i \in 1..new |-> Frame(sync + i - 1)]
  <2> DEFINE l == SubSeq(delivered, Len(delivered) - new + 1, Len(delivered))
             r == [i \in 1..new |-> Frame(sync + i - 1)]
  <2>1. /\ l \in Seq(Seq(Byte)) /\ Len(l) = new
        /\ \A i \in 1..new : l[i] = delivered[Len(delivered) - new + i]
    <3>1. \A i \in (Len(delivered) - new + 1)..Len(delivered) : delivered[i] \in Seq(Byte)
      BY <1>2, <1>7
    <3>2. /\ Len(l) = (IF Len(delivered) - new + 1 <= Len(delivered)
                       THEN Len(delivered) - (Len(delivered) - new + 1) + 1 ELSE 0)
          /\ l \in Seq(Seq(Byte))
          /\ \A i \in 1..(Len(delivered) - (Len(delivered) - new + 1) + 1) :
               l[i] = delivered[(Len(delivered) - new + 1) + i - 1]
      BY <1>2, <3>1, SubSeqProperties
    <3>3. /\ Len(delivered) - (Len(delivered) - new + 1) + 1 = new
          /\ \A i \in 1..new : (Len(delivered) - new + 1) + i - 1 = Len(delivered) - new + i
      BY <1>2
    <3> HIDE DEF l
    <3> QED
      BY <1>2, <3>2, <3>3
  <2>2. DOMAIN l = 1..new /\ l = [i \in DOMAIN l |-> l[i]]
    <3> HIDE DEF l
    <3> QED
      BY <2>1
  <2> HIDE DEF l
  <2>3. \A i \in 1..new : l[i] = r[i]
    BY <1>7, <2>1
  <2>4. l = r
    BY <2>2, <2>3
  <2> QED
    BY <2>4 DEF l
<1> QED
  BY <1>6, <1>7, <1>8

\* No step leaves the run but by ending it.
LEMMA StepInRun == IInv /\ InRun /\ [Next]_vars => (IInv /\ InRun)'
<1>1. IInv /\ InRun /\ Next => InRun'
  BY ReceiveRun DEF Next
<1>2. InRun /\ UNCHANGED vars => InRun'
  BY DEF vars, InRun, Gathers, Delivers
<1> QED
  BY <1>1, <1>2, StepIInv

\* However the stream was cut before, from the first chunk that begins with a
\* frame on every frame is delivered, whole, once and in order.
THEOREM Resynchronises == Spec => []Resync
<1>1. Init => IInv /\ InRun
  BY InitIInv DEF Init, InRun
<1>2. IInv /\ InRun /\ [Next]_vars => (IInv /\ InRun)'
  BY StepInRun
<1>3. IInv /\ InRun => Resync
  BY RunResyncs
<1> QED
  BY <1>1, <1>2, <1>3, PTL DEF Spec

-----------------------------------------------------------------------------
(* The checksum: the function that Sum computes with, and that there is one *)

\* The sums of n bytes after the first i, for every i, from those of fewer bytes.
Row(bytes, sums, n) ==
  [i \in 0..(Len(bytes) - n) |->
     IF n = 0 THEN 0
     ELSE IF n = 1 THEN bytes[i + 1]
     ELSE (sums[n \div 2][i] + sums[n - n \div 2][i + n \div 2]) % 256]

AreSums(bytes, sums, most) == sums = [n \in 0..most |-> Row(bytes, sums, n)]

\* The halves of two bytes or more are shorter, and one at least.
LEMMA Halves ==
  ASSUME NEW n \in Nat, n >= 2
  PROVE  /\ n \div 2 \in Nat /\ n - n \div 2 \in Nat
         /\ 1 <= n \div 2 /\ n \div 2 < n /\ 1 <= n - n \div 2 /\ n - n \div 2 < n
OBVIOUS

\* Sums of all numbers of bytes exist.
LEMMA SumsExist ==
  ASSUME NEW bytes \in Seq(Byte), NEW most \in Nat
  PROVE  \E sums : AreSums(bytes, sums, most)
<1> DEFINE Bad == {m \in Nat : ~ \E sums : AreSums(bytes, sums, m)}
<1>1. Bad = {}
  <2> SUFFICES ASSUME Bad # {} PROVE FALSE
    OBVIOUS
  <2>1. PICK m \in Bad : \A j \in Bad : m <= j
    BY LeastMember
  <2>2. m \in Nat /\ ~ \E sums : AreSums(bytes, sums, m)
    BY <2>1
  <2>3. PICK old : m = 0 \/ AreSums(bytes, old, m - 1)
    <3>1. CASE m = 0
      BY <3>1
    <3>2. CASE m # 0
      <4>1. m - 1 \in Nat /\ ~(m <= m - 1)
        BY <2>2, <3>2
      <4>2. m - 1 \notin Bad
        BY <2>1, <4>1
      <4> QED
        BY <4>1, <4>2
    <3> QED
      BY <3>1, <3>2
  <2> DEFINE new == [n \in 0..m |-> IF n < m THEN old[n] ELSE Row(bytes, old, m)]
  <2>4. ASSUME NEW n \in 0..m PROVE new[n] = Row(bytes, new, n)
    <3>1. \A k \in Nat : k < n => new[k] = old[k]
      BY <2>2
    <3>2. Row(bytes, new, n) = Row(bytes, old, n)
      <4>1. n >= 2 => /\ new[n \div 2] = old[n \div 2]
                      /\ new[n - n \div 2] = old[n - n \div 2]
        BY <3>1, Halves
      <4> HIDE DEF new
      <4> QED
        BY <4>1 DEF Row
    <3>3. new[n] = Row(bytes, old, n)
      <4>1. CASE n = m
        BY <4>1
      <4>2. CASE n # m
        <5>1. n < m /\ m # 0 /\ n \in 0..(m - 1)
          BY <2>2, <4>2
        <5>2. old = [k \in 0..(m - 1) |-> Row(bytes, old, k)]
          BY <2>3, <5>1 DEF AreSums
        <5>3. old[n] = Row(bytes, old, n)
          BY <5>1, <5>2
        <5> QED
          BY <5>1, <5>3
      <4> QED
        BY <4>1, <4>2
    <3> QED
      BY <3>2, <3>3
  <2>5. new = [n \in 0..m |-> new[n]]
    OBVIOUS
  <2> HIDE DEF new
  <2>6. AreSums(bytes, new, m)
    BY <2>4, <2>5 DEF AreSums
  <2> QED
    BY <2>2, <2>6
<1> QED
  BY <1>1

\* What Sum returns is the last of them.
LEMMA SumOfSums ==
  ASSUME NEW bytes \in Seq(Byte)
  PROVE  \E sums : AreSums(bytes, sums, Len(bytes)) /\ Sum(bytes) = sums[Len(bytes)][0]
<1> DEFINE sums == CHOOSE f : AreSums(bytes, f, Len(bytes))
<1>1. Len(bytes) \in Nat
  OBVIOUS
<1>2. AreSums(bytes, sums, Len(bytes))
  BY <1>1, SumsExist
<1>3. Sum(bytes) = sums[Len(bytes)][0]
  BY Zenon DEF Sum, AreSums, Row
<1> QED
  BY <1>2, <1>3

\* In a byte, sums that share one summand differ when the other differs.
LEMMA ByteSums ==
  ASSUME NEW a \in Byte, NEW b \in Byte, NEW c \in Byte, NEW d \in Byte
  PROVE  /\ (a + b) % 256 \in Byte /\ (c + d) % 256 \in Byte
         /\ a = c \/ b = d => ((a + b) % 256 = (c + d) % 256 <=> a = c /\ b = d)
<1>1. \A x, y \in Byte : (x + y) % 256 = IF x + y < 256 THEN x + y ELSE x + y - 256
  BY DEF Byte
<1>2. /\ (a + b) % 256 = IF a + b < 256 THEN a + b ELSE a + b - 256
      /\ (c + d) % 256 = IF c + d < 256 THEN c + d ELSE c + d - 256
  BY <1>1
<1> QED
  BY <1>2 DEF Byte

\* A part of one or more bytes has a sum that is a byte; a part whose bytes are
\* the same in two sequences has the same sum; a part in which one byte differs
\* has not.
LEMMA SumsOfParts ==
  ASSUME NEW s \in Seq(Byte), NEW t \in Seq(Byte), Len(s) = Len(t),
         NEW j \in 1..Len(s), s[j] # t[j], \A i \in 1..Len(s) : i # j => s[i] = t[i],
         NEW fs, AreSums(s, fs, Len(s)), NEW ft, AreSums(t, ft, Len(t)),
         NEW n \in Nat, NEW i \in Nat, i + n <= Len(s)
  PROVE  /\ fs[n][i] \in Byte /\ ft[n][i] \in Byte
         /\ fs[n][i] = ft[n][i] <=> ~(i < j /\ j <= i + n)
<1> DEFINE Good(m, k) == /\ fs[m][k] \in Byte /\ ft[m][k] \in Byte
                         /\ fs[m][k] = ft[m][k] <=> ~(k < j /\ j <= k + m)
           Bad == {m \in Nat : \E k \in Nat : k + m <= Len(s) /\ ~Good(m, k)}
<1>1. Len(s) \in Nat /\ Len(t) \in Nat /\ j \in Nat /\ j >= 1
  OBVIOUS
<1>2. ASSUME NEW m \in Nat, NEW k \in Nat, k + m <= Len(s)
      PROVE  /\ m = 0 => fs[m][k] = 0 /\ ft[m][k] = 0
             /\ m = 1 => fs[m][k] = s[k + 1] /\ ft[m][k] = t[k + 1]
             /\ m >= 2 => /\ fs[m][k] = (fs[m \div 2][k] + fs[m - m \div 2][k + m \div 2]) % 256
                          /\ ft[m][k] = (ft[m \div 2][k] + ft[m - m \div 2][k + m \div 2]) % 256
  <2>1. m \in 0..Len(s) /\ k \in 0..(Len(s) - m)
    BY <1>1, <1>2
  <2>2. fs[m] = Row(s, fs, m) /\ ft[m] = Row(t, ft, m)
    BY <2>1 DEF AreSums
  <2>3. fs[m][k] = Row(s, fs, m)[k] /\ ft[m][k] = Row(t, ft, m)[k]
    BY <2>2
  <2>4. m >= 2 => ~(m = 0) /\ ~(m = 1)
    OBVIOUS
  <2> QED
    BY <2>1, <2>3, <2>4 DEF Row
<1>3. Bad = {}
  <2> SUFFICES ASSUME Bad # {} PROVE FALSE
    OBVIOUS
  <2>1. PICK m \in Bad : \A l \in Bad : m <= l
    BY LeastMember
  <2>2. PICK k \in Nat : k + m <= Len(s) /\ ~Good(m, k)
    BY <2>1
  <2>3. m \in Nat
    BY <2>1
  <2>4. CASE m = 0
    BY <1>1, <1>2, <2>2, <2>4 DEF Byte
  <2>5. CASE m = 1
    <3>1. k + 1 \in 1..Len(s) /\ s[k + 1] \in Byte /\ t[k + 1] \in Byte
      BY <1>1, <2>2, <2>5
    <3>2. fs[m][k] = s[k + 1] /\ ft[m][k] = t[k + 1]
      BY <1>2, <2>2, <2>5
    <3>3. k < j /\ j <= k + 1 <=> j = k + 1
      BY <1>1
    <3> QED
      BY <2>2, <2>5, <3>1, <3>2, <3>3
  <2>6. CASE m >= 2
    <3>1. PICK h \in Nat, r \in Nat : h = m \div 2 /\ r = m - m \div 2
      BY <2>3, <2>6, Halves
    <3>2. h < m /\ r < m /\ h + r = m /\ 1 <= h /\ 1 <= r
      BY <2>3, <2>6, <3>1, Halves
    <3>3. h \notin Bad /\ r \notin Bad
      BY <2>1, <2>3, <3>2
    <3>4. Good(h, k)
      BY <1>1, <2>2, <2>3, <3>2, <3>3
    <3>5. Good(r, k + h)
      <4>1. k + h \in Nat /\ (k + h) + r <= Len(s)
        BY <2>2, <2>3, <3>2
      <4> QED
        BY <3>3, <4>1
    <3>6. /\ fs[m][k] = (fs[h][k] + fs[r][k + h]) % 256
          /\ ft[m][k] = (ft[h][k] + ft[r][k + h]) % 256
      <4>1. /\ fs[m][k] = (fs[m \div 2][k] + fs[m - m \div 2][k + m \div 2]) % 256
            /\ ft[m][k] = (ft[m \div 2][k] + ft[m - m \div 2][k + m \div 2]) % 256
        BY <1>2, <2>2, <2>3, <2>6
      <4> QED
        BY <3>1, <4>1
    <3>7. (k < j /\ j <= k + m) <=> \/ (k < j /\ j <= k + h) /\ ~(k + h < j /\ j <= k + h + r)
                                    \/ ~(k < j /\ j <= k + h) /\ (k + h < j /\ j <= k + h + r)
      BY <1>1, <3>2
    <3>8. ~((k < j /\ j <= k + h) /\ (k + h < j /\ j <= k + h + r))
      BY <1>1, <3>2
    <3>9. Good(m, k)
      <4>1. PICK a \in Byte, b \in Byte, c \in Byte, d \in Byte :
              a = fs[h][k] /\ b = fs[r][k + h] /\ c = ft[h][k] /\ d = ft[r][k + h]
        BY <3>4, <3>5
      <4>2. /\ fs[m][k] = (a + b) % 256 /\ ft[m][k] = (c + d) % 256
            /\ a = c <=> ~(k < j /\ j <= k + h)
            /\ b = d <=> ~(k + h < j /\ j <= k + h + r)
        BY <3>4, <3>5, <3>6, <4>1
      <4>3. /\ (a + b) % 256 \in Byte /\ (c + d) % 256 \in Byte
            /\ a = c \/ b = d => ((a + b) % 256 = (c + d) % 256 <=> a = c /\ b = d)
        BY ByteSums
      <4> HIDE DEF Good
      <4>4. /\ fs[m][k] \in Byte /\ ft[m][k] \in Byte
            /\ fs[m][k] = ft[m][k] <=> ~(k < j /\ j <= k + m)
        BY <3>7, <3>8, <4>2, <4>3
      <4> QED
        BY <4>4 DEF Good
    <3> QED
      BY <2>2, <3>9
  <2> QED
    BY <2>3, <2>4, <2>5, <2>6
<1>4. n \notin Bad
  BY <1>3
<1> QED
  BY <1>4
\* The two's complement of a byte.
Complement(a) == (256 - a) % 256

LEMMA ComplementsDiffer ==
  ASSUME NEW a \in Byte, NEW b \in Byte, a # b
  PROVE  /\ Complement(a) \in Byte /\ Complement(b) \in Byte
         /\ Complement(a) # Complement(b)
<1>1. /\ a \in 0..255 /\ b \in 0..255
  BY DEF Byte
<1>2. PICK c : c = (256 - a) % 256
  OBVIOUS
<1>3. PICK d : d = (256 - b) % 256
  OBVIOUS
<1>4. c = (IF a = 0 THEN 0 ELSE 256 - a) /\ d = (IF b = 0 THEN 0 ELSE 256 - b)
  BY <1>1, <1>2, <1>3
<1>5. c \in 0..255 /\ d \in 0..255 /\ c # d
  BY <1>1, <1>4
<1> QED
  BY <1>2, <1>3, <1>5 DEF Complement, Byte

\* The checksum tells sequences apart that differ in one byte.
LEMMA ChecksDiffer ==
  ASSUME NEW s \in Seq(Byte), NEW t \in Seq(Byte), Len(s) = Len(t),
         NEW j \in 1..Len(s), s[j] # t[j], \A i \in 1..Len(s) : i # j => s[i] = t[i]
  PROVE  Check(s) \in Byte /\ Check(t) \in Byte /\ Check(s) # Check(t)
<1>1. PICK fs : AreSums(s, fs, Len(s)) /\ Sum(s) = fs[Len(s)][0]
  BY SumOfSums
<1>2. PICK ft : AreSums(t, ft, Len(t)) /\ Sum(t) = ft[Len(t)][0]
  BY SumOfSums
<1>3. Len(s) \in Nat /\ 0 \in Nat /\ 0 + Len(s) <= Len(s) /\ 0 < j /\ j <= 0 + Len(s)
  OBVIOUS
<1>4. Sum(s) \in Byte /\ Sum(t) \in Byte /\ Sum(s) # Sum(t)
  BY <1>1, <1>2, <1>3, SumsOfParts
<1>5. Check(s) = Complement(Sum(s)) /\ Check(t) = Complement(Sum(t))
  BY DEF Check, Complement
<1> QED
  BY <1>4, <1>5, ComplementsDiffer

\* The checksum is a byte.
LEMMA CheckIsByte ==
  ASSUME NEW s \in Seq(Byte), Len(s) >= 1
  PROVE  Check(s) \in Byte
<1> DEFINE t == [s EXCEPT ![1] = IF s[1] = 0 THEN 1 ELSE 0]
<1>1. 1 \in 1..Len(s) /\ Len(s) \in Nat
  OBVIOUS
<1>2. t \in Seq(Byte) /\ Len(t) = Len(s) /\ t[1] # s[1] /\ \A i \in 1..Len(s) : i # 1 => t[i] = s[i]
  BY <1>1, ExceptSeq DEF Byte
<1> HIDE DEF t
<1> QED
  BY <1>1, <1>2, ChecksDiffer

\* Two sequences of bytes, one behind the other.
LEMMA JoinedBytes ==
  ASSUME NEW s \in Seq(Byte), NEW t \in Seq(Byte)
  PROVE  /\ s \o t \in Seq(Byte) /\ Len(s \o t) = Len(s) + Len(t)
         /\ \A i \in 1..Len(s) : (s \o t)[i] = s[i]
         /\ \A i \in 1..Len(t) : (s \o t)[Len(s) + i] = t[i]
<1>1. /\ s \o t \in Seq(Byte) /\ Len(s \o t) = Len(s) + Len(t)
      /\ \A i \in 1..(Len(s) + Len(t)) :
           (s \o t)[i] = IF i <= Len(s) THEN s[i] ELSE t[i - Len(s)]
  BY ConcatProperties
<1>2. Len(s) \in Nat /\ Len(t) \in Nat
  OBVIOUS
<1>3. ASSUME NEW i \in 1..Len(s) PROVE (s \o t)[i] = s[i]
  BY <1>1, <1>2
<1>4. ASSUME NEW i \in 1..Len(t) PROVE (s \o t)[Len(s) + i] = t[i]
  <2>1. Len(s) + i \in 1..(Len(s) + Len(t)) /\ ~(Len(s) + i <= Len(s)) /\ (Len(s) + i) - Len(s) = i
    BY <1>2
  <2> QED
    BY <1>1, <2>1
<1> QED
  BY <1>1, <1>3, <1>4

\* Bytes between a header byte and a last one.
Framed(inner, c) == << Sync >> \o inner \o << c >>

LEMMA FramedBytes ==
  ASSUME NEW inner \in Seq(Byte), NEW c \in Byte
  PROVE  /\ Framed(inner, c) \in Seq(Byte)
         /\ Len(Framed(inner, c)) = Len(inner) + 2
         /\ Framed(inner, c)[1] = Sync
         /\ Framed(inner, c)[Len(inner) + 2] = c
         /\ \A i \in 1..Len(inner) : Framed(inner, c)[i + 1] = inner[i]
<1> DEFINE first == << Sync >>
           last  == << c >>
           front == first \o inner
           f     == Framed(inner, c)
<1>0. PICK n \in Nat : n = Len(inner)
  OBVIOUS
<1>1. first \in Seq(Byte) /\ Len(first) = 1 /\ first[1] = Sync
  BY DEF Byte, Sync
<1>2. last \in Seq(Byte) /\ Len(last) = 1 /\ last[1] = c
  OBVIOUS
<1>3. f = front \o last
  BY DEF Framed
<1> HIDE DEF first, last, f
<1>4. /\ front \in Seq(Byte) /\ Len(front) = 1 + n
      /\ \A i \in 1..1 : front[i] = first[i]
      /\ \A i \in 1..n : front[1 + i] = inner[i]
  <2>1. /\ front \in Seq(Byte) /\ Len(front) = Len(first) + Len(inner)
        /\ \A i \in 1..Len(first) : front[i] = first[i]
        /\ \A i \in 1..Len(inner) : front[Len(first) + i] = inner[i]
    BY <1>1, JoinedBytes
  <2> QED
    BY <1>0, <1>1, <2>1
<1> HIDE DEF front
<1>5. /\ f \in Seq(Byte) /\ Len(f) = (1 + n) + 1
      /\ \A i \in 1..(1 + n) : f[i] = front[i]
      /\ \A i \in 1..1 : f[(1 + n) + i] = last[i]
  <2>1. /\ f \in Seq(Byte) /\ Len(f) = Len(front) + Len(last)
        /\ \A i \in 1..Len(front) : f[i] = front[i]
        /\ \A i \in 1..Len(last) : f[Len(front) + i] = last[i]
    BY <1>2, <1>3, <1>4, JoinedBytes
  <2> QED
    BY <1>2, <1>4, <2>1
<1>6. /\ 1 \in 1..1 /\ 1 \in 1..(1 + n) /\ (1 + n) + 1 = n + 2
      /\ \A i \in 1..n : 1 + i \in 1..(1 + n) /\ 1 + i = i + 1
  OBVIOUS
<1>7. f[1] = Sync /\ f[n + 2] = c /\ Len(f) = n + 2
  BY <1>1, <1>2, <1>4, <1>5, <1>6
<1>8. ASSUME NEW i \in 1..n PROVE f[i + 1] = inner[i]
  BY <1>4, <1>5, <1>6
<1> QED
  BY <1>0, <1>5, <1>7, <1>8 DEF f

\* A part of a sequence of bytes.
LEMMA PartBytes ==
  ASSUME NEW s \in Seq(Byte), NEW p \in Nat, NEW n \in Nat, p + n <= Len(s)
  PROVE  LET part == SubSeq(s, p + 1, p + n) IN
         part \in Seq(Byte) /\ Len(part) = n /\ \A i \in 1..n : part[i] = s[p + i]
<1> DEFINE part == SubSeq(s, p + 1, p + n)
<1>1. Len(s) \in Nat
  OBVIOUS
<1>2. \A i \in (p + 1)..(p + n) : s[i] \in Byte
  BY <1>1
<1>3. /\ part \in Seq(Byte)
      /\ Len(part) = IF p + 1 <= p + n THEN (p + n) - (p + 1) + 1 ELSE 0
      /\ \A i \in 1..((p + n) - (p + 1) + 1) : part[i] = s[(p + 1) + i - 1]
  BY <1>1, <1>2, SubSeqProperties
<1> HIDE DEF part
<1>4. (p + n) - (p + 1) + 1 = n /\ \A i \in 1..n : (p + 1) + i - 1 = p + i
  OBVIOUS
<1>5. Len(part) = n
  BY <1>3, <1>4
<1> QED
  BY <1>3, <1>4, <1>5 DEF part

\* Analysis accepts bytes between the header byte and their checksum, and no
\* longer when one of all these bytes has been replaced.
LEMMA AcceptsOnlyWhole ==
  ASSUME NEW inner \in Seq(Byte), NEW n \in Nat, n = Len(inner), n >= 9,
         NEW f, f = Framed(inner, Check(inner))
  PROVE  /\ Analyse(f) = 0
         /\ \A j \in DOMAIN f, b \in Byte : f[j] # b => Analyse(Damaged(f, j, b)) # 0
<1>1. PICK c \in Byte : c = Check(inner)
  BY CheckIsByte
<1>2. /\ f \in Seq(Byte) /\ Len(f) = n + 2 /\ f[1] = Sync /\ f[n + 2] = c
      /\ \A i \in 1..n : f[i + 1] = inner[i]
  <2>1. f = Framed(inner, c)
    BY <1>1
  <2>2. /\ Framed(inner, c) \in Seq(Byte)
        /\ Len(Framed(inner, c)) = Len(inner) + 2
        /\ Framed(inner, c)[1] = Sync
        /\ Framed(inner, c)[Len(inner) + 2] = c
        /\ \A i \in 1..Len(inner) : Framed(inner, c)[i + 1] = inner[i]
    BY FramedBytes
  <2> QED
    BY <2>1, <2>2
<1>3. PICK body : body = SubSeq(f, 1 + 1, 1 + n)
  OBVIOUS
<1>4. body \in Seq(Byte) /\ Len(body) = n /\ \A i \in 1..n : body[i] = f[1 + i]
  BY <1>2, <1>3, PartBytes
<1>5. \A i \in 1..n : body[i] = inner[i]
  BY <1>2, <1>4
<1>6. body = inner
  BY <1>4, <1>5, SeqEqual
<1>7. SubSeq(f, 2, Len(f) - 1) = inner
  <2>1. 1 + 1 = 2 /\ 1 + n = Len(f) - 1
    BY <1>2
  <2> QED
    BY <1>3, <1>6, <2>1
<1>8. Analyse(f) = 0
  <2>1. ~(Len(f) < 10) /\ f[Len(f)] = c
    BY <1>2
  <2> QED
    BY <1>1, <1>2, <1>7, <2>1 DEF Analyse, HeadLen
<1>9. ASSUME NEW j \in DOMAIN f, NEW b \in Byte, f[j] # b
      PROVE  Analyse(Damaged(f, j, b)) # 0
  <2>1. PICK g : g = Damaged(f, j, b)
    OBVIOUS
  <2>2. j \in 1..(n + 2) /\ j \in 1..Len(f)
    BY <1>2
  <2>3. /\ g \in Seq(Byte) /\ Len(g) = n + 2
        /\ \A i \in 1..(n + 2) : g[i] = IF i = j THEN b ELSE f[i]
    <3>1. g = [f EXCEPT ![j] = b]
      BY <2>1 DEF Damaged
    <3>2. /\ g \in Seq(Byte) /\ Len(g) = Len(f)
          /\ \A i \in 1..Len(f) : g[i] = IF i = j THEN b ELSE f[i]
      BY <1>2, <2>2, <3>1
    <3> QED
      BY <1>2, <3>2
  <2>4. PICK rest : rest = SubSeq(g, 1 + 1, 1 + n)
    OBVIOUS
  <2>5. rest \in Seq(Byte) /\ Len(rest) = n /\ \A i \in 1..n : rest[i] = g[1 + i]
    BY <2>3, <2>4, PartBytes
  <2>6. SubSeq(g, 2, Len(g) - 1) = rest
    <3>1. 1 + 1 = 2 /\ 1 + n = Len(g) - 1
      BY <2>3
    <3> QED
      BY <2>4, <3>1
  <2>7. g[1] # Sync \/ g[n + 2] # Check(rest)
    <3>1. CASE j = 1
      <4>1. g[1] = b /\ f[1] # b
        BY <1>9, <2>3, <3>1
      <4> QED
        BY <1>2, <4>1
    <3>2. CASE j = n + 2
      <4>1. \A i \in 1..n : 1 + i \in 1..(n + 2) /\ 1 + i # j
        BY <3>2
      <4>2. \A i \in 1..n : rest[i] = body[i]
        BY <1>4, <2>3, <2>5, <4>1
      <4>3. rest = body
        BY <1>4, <2>5, <4>2, SeqEqual
      <4>4. g[n + 2] = b /\ f[n + 2] # b
        BY <1>9, <2>2, <2>3, <3>2
      <4> QED
        BY <1>1, <1>2, <1>6, <4>3, <4>4
    <3>3. CASE j # 1 /\ j # n + 2
      <4>1. PICK i \in 1..n : j = 1 + i
        <5>1. j - 1 \in 1..n /\ j = 1 + (j - 1)
          BY <2>2, <3>3
        <5> QED
          BY <5>1
      <4>2. \A l \in 1..n : 1 + l \in 1..(n + 2) /\ (1 + l = j <=> l = i)
        BY <4>1
      <4>3. rest[i] = b /\ body[i] # b
        BY <1>4, <1>9, <2>3, <2>5, <4>1, <4>2
      <4>4. \A l \in 1..n : l # i => body[l] = rest[l]
        BY <1>4, <2>3, <2>5, <4>2
      <4>5. Check(body) # Check(rest)
        BY <1>4, <2>5, <4>3, <4>4, ChecksDiffer
      <4>6. g[n + 2] = f[n + 2]
        BY <2>2, <2>3, <3>3
      <4> QED
        BY <1>1, <1>2, <1>6, <4>5, <4>6
    <3> QED
      BY <3>1, <3>2, <3>3
  <2>8. CASE g[1] # Sync
    BY <2>1, <2>8 DEF Analyse
  <2>9. CASE g[n + 2] # Check(rest)
    <3>1. g[Len(g)] # Check(SubSeq(g, 2, Len(g) - 1))
      BY <2>3, <2>6, <2>9
    <3> QED
      BY <2>1, <3>1 DEF Analyse
  <2> QED
    BY <2>7, <2>8, <2>9
<1> QED
  BY <1>8, <1>9

\* The nine bytes of a frame between the header byte and the data.
LEMMA HeadBytes ==
  ASSUME NEW a \in Byte, NEW b \in Byte, NEW c \in Byte, NEW d \in Byte
  PROVE  LET head == << a, b, 0, 0, 0, c, 0, 0, d >> IN
         /\ head \in Seq(Byte) /\ Len(head) = 9
         /\ head[1] = a /\ head[2] = b /\ head[6] = c /\ head[9] = d
BY DEF Byte

\* A frame is accepted and analysed into its message; with one byte replaced by
\* another it is not accepted.
LEMMA FramesRoundTrip ==
  ASSUME NEW m \in Message, HeadLen + Len(m.data) <= 255, NEW f, f = FrameOf(m)
  PROVE  /\ Analyse(f) = 0
         /\ Packet(f) = [ len |-> Len(f) - 1, type |-> m.type, flag |-> m.flag,
                          msgType |-> m.msgType, data |-> m.data ]
         /\ \A j \in DOMAIN f, b \in Byte : f[j] # b => Analyse(Damaged(f, j, b)) # 0
<1>1. /\ m.type \in Byte /\ m.flag \in Byte /\ m.msgType \in Byte /\ m.data \in Seq(Byte)
      /\ Len(m.data) \in Nat
  BY DEF Message
<1>2. PICK l \in Nat : l = Len(m.data)
  BY <1>1
<1>3. PICK a \in Byte : a = HeadLen + Len(m.data) /\ a = 10 + l
  <2>1. 10 + l \in 0..255
    <3>1. 10 + l <= 255
      BY <1>2 DEF HeadLen
    <3> QED
      BY <3>1
  <2> QED
    BY <1>2, <2>1 DEF HeadLen, Byte
<1>4. PICK head : head = << a, m.type, 0, 0, 0, m.flag, 0, 0, m.msgType >>
  OBVIOUS
<1>5. /\ head \in Seq(Byte) /\ Len(head) = 9
      /\ head[1] = a /\ head[2] = m.type /\ head[6] = m.flag /\ head[9] = m.msgType
  BY <1>1, <1>4, HeadBytes
<1>6. PICK inner : inner = head \o m.data
  OBVIOUS
<1>7. /\ inner \in Seq(Byte) /\ Len(inner) = 9 + l
      /\ \A i \in 1..9 : inner[i] = head[i]
      /\ \A i \in 1..l : inner[9 + i] = m.data[i]
  <2>1. /\ inner \in Seq(Byte) /\ Len(inner) = Len(head) + Len(m.data)
        /\ \A i \in 1..Len(head) : inner[i] = head[i]
        /\ \A i \in 1..Len(m.data) : inner[Len(head) + i] = m.data[i]
    BY <1>1, <1>5, <1>6, JoinedBytes
  <2> QED
    BY <1>2, <1>5, <2>1
<1>8. f = Framed(inner, Check(inner))
  BY <1>3, <1>4, <1>6 DEF FrameOf, Construct, Framed
<1>9. PICK n \in Nat : n = Len(inner) /\ n = 9 + l /\ n >= 9
  BY <1>7
<1>10. Analyse(f) = 0 /\ \A j \in DOMAIN f, b \in Byte : f[j] # b => Analyse(Damaged(f, j, b)) # 0
  BY <1>7, <1>8, <1>9, AcceptsOnlyWhole
<1>11. PICK c \in Byte : c = Check(inner)
  BY <1>7, <1>9, CheckIsByte
<1>12. /\ f \in Seq(Byte) /\ Len(f) = n + 2
       /\ \A i \in 1..n : f[i + 1] = inner[i]
  <2>1. f = Framed(inner, c)
    BY <1>8, <1>11
  <2>2. /\ Framed(inner, c) \in Seq(Byte)
        /\ Len(Framed(inner, c)) = Len(inner) + 2
        /\ \A i \in 1..Len(inner) : Framed(inner, c)[i + 1] = inner[i]
    BY <1>7, FramedBytes
  <2> QED
    BY <1>9, <2>1, <2>2
<1>13. f[2] = 10 + l /\ f[3] = m.type /\ f[7] = m.flag /\ f[10] = m.msgType
  <2>1. 1 \in 1..n /\ 2 \in 1..n /\ 6 \in 1..n /\ 9 \in 1..n
    BY <1>9
  <2>2. f[1 + 1] = inner[1] /\ f[2 + 1] = inner[2] /\ f[6 + 1] = inner[6] /\ f[9 + 1] = inner[9]
    BY <1>12, <2>1
  <2>3. inner[1] = head[1] /\ inner[2] = head[2] /\ inner[6] = head[6] /\ inner[9] = head[9]
    BY <1>7
  <2> QED
    BY <1>3, <1>5, <2>2, <2>3
<1>14. SubSeq(f, 11, Len(f) - 1) = m.data
  <2>1. PICK part : part = SubSeq(f, 10 + 1, 10 + l)
    OBVIOUS
  <2>2. part \in Seq(Byte) /\ Len(part) = l /\ \A i \in 1..l : part[i] = f[10 + i]
    BY <1>9, <1>12, <2>1, PartBytes
  <2>3. \A i \in 1..l : 9 + i \in 1..n /\ 10 + i = (9 + i) + 1
    BY <1>9
  <2>4. ASSUME NEW i \in 1..l PROVE part[i] = m.data[i]
    <3>1. part[i] = f[10 + i] /\ 9 + i \in 1..n /\ 10 + i = (9 + i) + 1
      BY <2>2, <2>3
    <3>2. f[(9 + i) + 1] = inner[9 + i] /\ inner[9 + i] = m.data[i]
      BY <1>7, <1>12, <3>1
    <3> QED
      BY <3>1, <3>2
  <2>5. part = m.data
    BY <1>1, <1>2, <2>2, <2>4, SeqEqual
  <2>6. 10 + 1 = 11 /\ 10 + l = Len(f) - 1
    BY <1>9, <1>12
  <2> QED
    BY <2>1, <2>5, <2>6
<1>15. Len(f) - 1 = 10 + l
  BY <1>9, <1>12
<1> QED
  BY <1>10, <1>13, <1>14, <1>15 DEF Packet

-----------------------------------------------------------------------------

\* In a run the frame whose last byte has just arrived is the last one delivered.
LEMMA LastDelivered ==
  ASSUME IInv, InRun, sync > 0, NEW k \in DOMAIN Ends, pos = Ends[k]
  PROVE  delivered[Len(delivered)] = Frame(k)
<1>1. PICK j \in DOMAIN Ends : Gathers(j)
  BY DEF InRun
<1>2. /\ pos \in Nat /\ k \in Nat /\ j \in Nat /\ Ends[k] \in Nat /\ Ends[j] \in Nat
      /\ Start(j) \in Nat /\ Start(j) < pos /\ pos <= Ends[j] /\ j >= 1
      /\ Len(delivered) \in Nat /\ k >= 1
  <2>1. k \in Nat /\ Ends[k] \in Nat /\ k >= 1
    BY FrameEnds
  <2>2. j \in Nat /\ Ends[j] \in Nat /\ Start(j) \in Nat /\ j >= 1
    BY FrameEnds
  <2> QED
    BY <1>1, <2>1, <2>2 DEF IInv, TypeOK, Gathers
<1>3. j = k
  <2>1. ~(j < k)
    BY <1>2, EndsRise
  <2>2. ~(k < j)
    <3> SUFFICES ASSUME k < j PROVE FALSE
      OBVIOUS
    <3>1. Start(j) = Ends[j - 1] /\ j - 1 \in DOMAIN Ends /\ j - 1 \in Nat
      BY <1>2, StreamAssumption DEF Start
    <3>2. k = j - 1 \/ k < j - 1
      BY <1>2
    <3>3. k < j - 1 => Ends[k] < Ends[j - 1]
      BY <3>1, EndsRise
    <3> QED
      BY <1>2, <3>1, <3>2, <3>3
  <2> QED
    BY <1>2, <2>1, <2>2
<1>4. sync \in 1..k /\ Delivers(sync, k)
  BY <1>1, <1>3 DEF Gathers
<1>5. PICK new \in Nat : new = k - sync + 1 /\ new >= 1
  BY <1>2, <1>4
<1>6. \A i \in 1..new : delivered[Len(delivered) - new + i] = Frame(sync + i - 1)
  BY <1>4, <1>5 DEF Delivers
<1>7. new \in 1..new /\ Len(delivered) - new + new = Len(delivered) /\ sync + new - 1 = k
  <2>1. PICK s \in Nat : s = sync
    BY <1>2, <1>4
  <2>2. PICK l \in Nat : l = Len(delivered)
    BY <1>2
  <2>3. new \in 1..new /\ l - new + new = l
    BY <1>5
  <2>4. s + new - 1 = k
    BY <1>2, <1>5, <2>1
  <2> QED
    BY <2>1, <2>2, <2>3, <2>4
<1>8. delivered[Len(delivered) - new + new] = Frame(sync + new - 1)
  BY <1>6, <1>7
<1> QED
  BY <1>7, <1>8

\* Once in step, every message arrives as it was sent, and would not have been
\* accepted with any one byte of its frame damaged: for all messages, whatever
\* their length, and whatever the damage leaves of the byte.
THEOREM MessagesRoundTrip == Spec => []RoundTrip
<1>1. IInv /\ InRun => RoundTrip
  <2> SUFFICES ASSUME IInv, InRun, NEW k \in DOMAIN Ends, sync > 0, pos = Ends[k],
                      NEW f, f = delivered[Len(delivered)]
               PROVE  /\ Analyse(f) = 0
                      /\ Packet(f) = [ len |-> Len(f) - 1, type |-> Sent[k].type, flag |-> Sent[k].flag,
                                       msgType |-> Sent[k].msgType, data |-> Sent[k].data ]
                      /\ \A j \in DOMAIN f, b \in Garbage :
                           f[j] # b => Analyse(Damaged(f, j, b)) # 0
    BY DEF RoundTrip
  <2>1. f = Frame(k)
    BY LastDelivered
  <2>2. PICK m \in Message : m = Sent[k] /\ HeadLen + Len(m.data) <= 255 /\ f = FrameOf(m)
    BY <2>1, SentAssumption
  <2>3. /\ Analyse(f) = 0
        /\ Packet(f) = [ len |-> Len(f) - 1, type |-> m.type, flag |-> m.flag,
                         msgType |-> m.msgType, data |-> m.data ]
        /\ \A j \in DOMAIN f, b \in Byte : f[j] # b => Analyse(Damaged(f, j, b)) # 0
    BY <2>2, FramesRoundTrip
  <2> QED
    BY <2>2, <2>3, GarbageAssumption
<1>2. Init => IInv /\ InRun
  BY InitIInv DEF Init, InRun
<1>3. IInv /\ InRun /\ [Next]_vars => (IInv /\ InRun)'
  BY StepInRun
<1> QED
  BY <1>1, <1>2, <1>3, PTL DEF Spec

=============================================================================
