------------------------- MODULE PdpHandshakeProofs -------------------------
(***************************************************************************)
(* Proofs about PdpHandshake, for every script of requests: its invariants *)
(* and that it implements RequestAnswer.                                   *)
(***************************************************************************)
EXTENDS PdpRefinement, TLAPS

Holding == pc \in {"arm", "wait", "free"}

\* The thread's program counter fits the script.
InScript == pc # "call" => step \in Steps /\ Script[step].waits

\* Exactly the semaphore of the current request exists, from its creation to
\* the point where it is freed, and the global of its channel holds it.
OneSemaphore ==
  /\ live = (IF Holding THEN {step} ELSE {})
  /\ Holding => sem[Chan(step)] = step

\* A raised flag is that of the waiting request, or is about to be cleared.
FlagMeansWaiting ==
  \A ch \in Channels :
    flag[ch] => \/ pc = "wait" /\ ch = Chan(step)
                \/ cb.pc = "clear" /\ cb.chan = ch

\* The callback signals only a request that waits and is not signalled yet.
SignalTarget ==
  cb.pc = "signal" => pc = "wait" /\ cb.chan = Chan(step) /\ count[step] = 0

Counted ==
  /\ pc \in {"arm", "free"} => count[step] = 0
  /\ pc = "wait" => count[step] \in {0, 1}

\* A signal in the semaphore comes from an answer of the right kind, and until
\* the flag is down the callback is still at the store that clears it.
SignalledBy ==
  /\ pc = "free" \/ (pc = "wait" /\ count[step] = 1) =>
       by \in Steps /\ KindOf(Chan(by)) = KindOf(Chan(step))
  /\ pc = "wait" /\ count[step] = 1 /\ flag[Chan(step)] =>
       cb.pc = "clear" /\ cb.chan = Chan(step)

CallbackRequest ==
  cb.pc # "idle" => cb.req \in Steps /\ KindOf(cb.chan) = KindOf(Chan(cb.req))

\* While the callback is at that store, the thread has at most left the wait it
\* woke and issued requests it does not wait for.
ClearTarget ==
  cb.pc = "clear" =>
    /\ cb.hit \in Steps
    /\ cb.hit <= step
    /\ Script[cb.hit].waits
    /\ Chan(cb.hit) = cb.chan
    /\ \A i \in (cb.hit + 1)..(step - 1) : ~Script[i].waits
    /\ cb.hit < step => pc # "free" /\ (pc = "wait" => count[step] = 0)
    /\ cb.hit = step => pc = "free" \/ (pc = "wait" /\ count[step] = 1)

IInv ==
  /\ TypeOK
  /\ InScript
  /\ OneSemaphore
  /\ FlagMeansWaiting
  /\ SignalTarget
  /\ Counted
  /\ SignalledBy
  /\ CallbackRequest
  /\ ClearTarget
  /\ ArmPersists

-----------------------------------------------------------------------------
(* The script and the channels *)

\* Every step of the script (a literal sequence of API calls in the code) is
\* a request on one of the four channels.
LEMMA StepFacts ==
  /\ Len(Script) \in Nat
  /\ \A s \in Steps : Script[s] \in Request /\ Chan(s) \in Channels
  /\ \A s \in Steps : Script[s].waits \in BOOLEAN
<1>1. Len(Script) \in Nat BY ScriptAssumption
<1>2. ASSUME NEW s \in Steps PROVE Script[s] \in Request
  BY ScriptAssumption DEF Steps
<1> QED BY <1>1, <1>2 DEF Chan, Request

\* The callback's two channels for an indication are of the indication's kind.
LEMMA KindFacts ==
  /\ \A ch \in Channels : KindOf(ch) \in Kinds
  /\ \A k \in Kinds : /\ FirstChan(k) \in Channels /\ KindOf(FirstChan(k)) = k
                      /\ LastChan(k) \in Channels /\ KindOf(LastChan(k)) = k
BY DEF Channels, Kinds, KindOf, FirstChan, LastChan

\* The initial values of the globals satisfy the inductive invariant.
THEOREM InitIInv == Init => IInv
<1> SUFFICES ASSUME Init PROVE IInv OBVIOUS
<1> USE StepFacts DEF Init, IdleCb
<1>1. TypeOK
  <2>1. cb \in Callbacks BY DEF Callbacks, Channels
  <2>2. step \in 1..(Len(Script) + 1) /\ live \in SUBSET Steps /\ pending \in SUBSET Steps
    OBVIOUS
  <2>3. sem \in [Channels -> Steps \cup {0}] /\ count \in [Steps -> Nat] OBVIOUS
  <2> QED BY <2>1, <2>2, <2>3 DEF TypeOK
<1>2. InScript /\ OneSemaphore BY DEF InScript, OneSemaphore, Holding
<1>3. FlagMeansWaiting /\ SignalTarget BY DEF FlagMeansWaiting, SignalTarget
<1>4. Counted /\ SignalledBy BY DEF Counted, SignalledBy
<1>5. CallbackRequest /\ ClearTarget BY DEF CallbackRequest, ClearTarget
<1>6. ArmPersists BY DEF ArmPersists
<1> QED BY <1>1, <1>2, <1>3, <1>4, <1>5, <1>6 DEF IInv

-----------------------------------------------------------------------------
(* Every step preserves the inductive invariant: one lemma per action, with *)
(* one step per conjunct the action can disturb.                            *)

LEMMA CallInv == IInv /\ Call => IInv'
<1> SUFFICES ASSUME IInv, Call PROVE IInv' OBVIOUS
<1> USE StepFacts DEF IInv, Call
<1>0. step' \in 1..(Len(Script) + 1) /\ pending' \in SUBSET Steps
  BY DEF TypeOK, Steps
<1>1. TypeOK' BY <1>0 DEF TypeOK
<1>2. InScript' /\ OneSemaphore' BY DEF TypeOK, InScript, OneSemaphore, Holding
<1>3. FlagMeansWaiting' /\ SignalTarget' BY DEF FlagMeansWaiting, SignalTarget
<1>4. Counted' /\ SignalledBy' BY DEF Counted, SignalledBy
<1>5. CallbackRequest' BY DEF CallbackRequest
<1>6. ClearTarget'
  <2> SUFFICES ASSUME cb.pc = "clear" PROVE ClearTarget' BY DEF ClearTarget
  <2>1. cb.hit \in Steps /\ cb.hit < step BY DEF ClearTarget, TypeOK, Steps
  <2>2. cb.hit < step' /\ pc' \notin {"wait", "free"} BY <2>1 DEF TypeOK, Steps
  <2>3. \A i \in (cb.hit + 1)..(step' - 1) : ~Script[i].waits
    BY <2>1 DEF ClearTarget, TypeOK, Steps
  <2> QED BY <2>1, <2>2, <2>3 DEF ClearTarget, Steps
<1>7. ArmPersists' BY DEF ArmPersists
<1> QED BY <1>1, <1>2, <1>3, <1>4, <1>5, <1>6, <1>7

LEMMA SemNewInv == IInv /\ SemNew => IInv'
<1> SUFFICES ASSUME IInv, SemNew PROVE IInv' OBVIOUS
<1> USE StepFacts DEF IInv, SemNew
<1>0. step \in Steps BY DEF InScript
<1>1. TypeOK'
  <2>1. sem' \in [Channels -> Steps \cup {0}] BY <1>0 DEF TypeOK
  <2>2. count' \in [Steps -> Nat] /\ live' \in SUBSET Steps BY <1>0 DEF TypeOK
  <2> QED BY <2>1, <2>2 DEF TypeOK
<1>2. InScript' /\ OneSemaphore' BY <1>0 DEF TypeOK, InScript, OneSemaphore, Holding
<1>3. FlagMeansWaiting' /\ SignalTarget' BY DEF FlagMeansWaiting, SignalTarget
<1>4. Counted' /\ SignalledBy' BY <1>0 DEF TypeOK, Counted, SignalledBy
<1>5. CallbackRequest' BY DEF CallbackRequest
<1>6. ClearTarget' BY DEF ClearTarget
<1>7. ArmPersists' BY DEF ArmPersists
<1> QED BY <1>1, <1>2, <1>3, <1>4, <1>5, <1>6, <1>7

LEMMA ArmInv == IInv /\ Arm => IInv'
<1> SUFFICES ASSUME IInv, Arm PROVE IInv' OBVIOUS
<1> USE StepFacts DEF IInv, Arm
<1>0. step \in Steps /\ count[step] = 0 BY DEF InScript, Counted
<1>1. TypeOK' BY DEF TypeOK
<1>2. InScript' /\ OneSemaphore' BY DEF InScript, OneSemaphore, Holding
<1>3. FlagMeansWaiting' BY <1>0 DEF TypeOK, FlagMeansWaiting
<1>4. SignalTarget' BY DEF SignalTarget
<1>5. Counted' /\ SignalledBy' BY <1>0 DEF Counted, SignalledBy
<1>6. CallbackRequest' BY DEF CallbackRequest
<1>7. ClearTarget' BY <1>0 DEF ClearTarget
<1>8. ArmPersists' BY <1>0 DEF TypeOK, ArmPersists
<1> QED BY <1>1, <1>2, <1>3, <1>4, <1>5, <1>6, <1>7, <1>8

LEMMA SemWaitInv == IInv /\ SemWait => IInv'
<1> SUFFICES ASSUME IInv, SemWait PROVE IInv' OBVIOUS
<1> USE StepFacts DEF IInv, SemWait
<1>0. step \in Steps /\ sem[Chan(step)] = step /\ count[step] = 1
  BY DEF InScript, OneSemaphore, Holding, Counted
<1>a. count'[step] = 0 /\ count' \in [Steps -> Nat] BY <1>0 DEF TypeOK
<1>1. TypeOK' BY <1>a DEF TypeOK
<1>2. InScript' /\ OneSemaphore' BY DEF InScript, OneSemaphore, Holding
<1>3. FlagMeansWaiting' BY <1>0 DEF FlagMeansWaiting, SignalledBy
<1>4. SignalTarget' BY <1>0 DEF SignalTarget
<1>5. Counted' /\ SignalledBy' BY <1>0, <1>a DEF Counted, SignalledBy
<1>6. CallbackRequest' BY DEF CallbackRequest
<1>7. ClearTarget' BY <1>0 DEF ClearTarget
<1>8. ArmPersists' BY DEF ArmPersists
<1> QED BY <1>1, <1>2, <1>3, <1>4, <1>5, <1>6, <1>7, <1>8

LEMMA SemFreeInv == IInv /\ SemFree => IInv'
<1> SUFFICES ASSUME IInv, SemFree PROVE IInv' OBVIOUS
<1> USE StepFacts DEF IInv, SemFree
<1>0. step \in Steps /\ sem[Chan(step)] = step /\ live = {step}
  BY DEF InScript, OneSemaphore, Holding
<1>1. TypeOK'
  <2>1. step' \in 1..(Len(Script) + 1) BY <1>0 DEF Steps
  <2>2. live' \in SUBSET Steps BY DEF TypeOK
  <2> QED BY <2>1, <2>2 DEF TypeOK
<1>2. InScript' /\ OneSemaphore' BY <1>0 DEF InScript, OneSemaphore, Holding
<1>3. FlagMeansWaiting' /\ SignalTarget' BY DEF FlagMeansWaiting, SignalTarget
<1>4. Counted' /\ SignalledBy' BY DEF Counted, SignalledBy
<1>5. CallbackRequest' BY DEF CallbackRequest
<1>6. ClearTarget'
  <2> SUFFICES ASSUME cb.pc = "clear" PROVE ClearTarget' BY DEF ClearTarget
  <2>1. cb.hit = step BY DEF ClearTarget, TypeOK, Steps
  <2>2. \A i \in (cb.hit + 1)..(step' - 1) : FALSE BY <1>0, <2>1 DEF Steps
  <2> QED BY <1>0, <2>1, <2>2 DEF ClearTarget, Steps
<1>7. ArmPersists' BY DEF ArmPersists
<1> QED BY <1>1, <1>2, <1>3, <1>4, <1>5, <1>6, <1>7

LEMMA TestPassesInv == IInv /\ TestPasses => IInv'
<1> SUFFICES ASSUME IInv, TestPasses PROVE IInv' OBVIOUS
<1> USE DEF IInv, TestPasses, Armed
<1>1. TypeOK' BY DEF TypeOK, Callbacks
<1>2. InScript' /\ OneSemaphore' BY DEF InScript, OneSemaphore, Holding
<1>3. FlagMeansWaiting' BY DEF FlagMeansWaiting
<1>4. SignalTarget'
  <2>1. flag[cb.chan] /\ cb.pc = "test" /\ cb.chan \in Channels BY DEF TypeOK, Callbacks
  <2>2. pc = "wait" /\ cb.chan = Chan(step) BY <2>1 DEF FlagMeansWaiting
  <2>3. count[step] = 0 BY <2>1, <2>2 DEF SignalledBy, Counted
  <2> QED BY <2>2, <2>3 DEF SignalTarget, TypeOK, Callbacks
<1>5. Counted' /\ SignalledBy' BY DEF Counted, SignalledBy
<1>6. CallbackRequest' BY DEF CallbackRequest, TypeOK, Callbacks
<1>7. ClearTarget' BY DEF ClearTarget, TypeOK, Callbacks
<1>8. ArmPersists' BY DEF ArmPersists
<1> QED BY <1>1, <1>2, <1>3, <1>4, <1>5, <1>6, <1>7, <1>8

\* After NextChannel the callback is idle or tests the last channel.
LEMMA NextChannelFacts ==
  ASSUME TypeOK, CallbackRequest, cb.pc # "idle", NextChannel
  PROVE  /\ cb' \in Callbacks
         /\ cb'.pc \in {"idle", "test"}
         /\ CallbackRequest'
<1>1. KindOf(cb.chan) \in Kinds /\ cb.chan \in Channels
  BY KindFacts DEF TypeOK, Callbacks
<1>2. CASE IsLast
  BY <1>2 DEF NextChannel, IdleCb, Callbacks, Channels, CallbackRequest
<1>3. CASE ~IsLast
  <2>1. cb' = [cb EXCEPT !.pc = "test", !.chan = LastChan(KindOf(cb.chan))]
    BY <1>3 DEF NextChannel
  <2>2. /\ LastChan(KindOf(cb.chan)) \in Channels
        /\ KindOf(LastChan(KindOf(cb.chan))) = KindOf(cb.chan)
    BY <1>1, KindFacts
  <2> QED BY <2>1, <2>2 DEF TypeOK, Callbacks, CallbackRequest
<1> QED BY <1>2, <1>3

LEMMA TestFailsInv == IInv /\ TestFails => IInv'
<1> SUFFICES ASSUME IInv, TestFails PROVE IInv' OBVIOUS
<1> USE DEF IInv, TestFails
<1>0. cb' \in Callbacks /\ cb'.pc \in {"idle", "test"} /\ CallbackRequest'
  BY NextChannelFacts
<1>1. TypeOK' BY <1>0 DEF TypeOK
<1>2. InScript' /\ OneSemaphore' BY DEF InScript, OneSemaphore, Holding
<1>3. FlagMeansWaiting' BY DEF FlagMeansWaiting
<1>4. SignalTarget' BY <1>0 DEF SignalTarget
<1>5. Counted' /\ SignalledBy' BY DEF Counted, SignalledBy
<1>6. ClearTarget' BY <1>0 DEF ClearTarget
<1>7. ArmPersists' BY DEF ArmPersists
<1> QED BY <1>0, <1>1, <1>2, <1>3, <1>4, <1>5, <1>6, <1>7

LEMMA SignalInv == IInv /\ Signal => IInv'
<1> SUFFICES ASSUME IInv, Signal PROVE IInv' OBVIOUS
<1> USE StepFacts DEF IInv, Signal
<1>0. /\ pc = "wait" /\ step \in Steps /\ cb.chan = Chan(step)
      /\ sem[cb.chan] = step /\ count[step] = 0 /\ Script[step].waits
  BY DEF SignalTarget, InScript, OneSemaphore, Holding
<1>a. /\ cb' = [cb EXCEPT !.pc = "clear", !.hit = step]
      /\ count'[step] = 1 /\ count' \in [Steps -> Nat]
  BY <1>0 DEF TypeOK
<1>b. cb' \in Callbacks /\ cb'.pc = "clear" /\ cb'.hit = step /\ cb'.chan = Chan(step)
  BY <1>0, <1>a DEF TypeOK, Callbacks
<1>c. cb.req \in Steps /\ KindOf(Chan(cb.req)) = KindOf(Chan(step))
  BY <1>0 DEF CallbackRequest
<1>1. TypeOK' BY <1>a, <1>b, <1>c DEF TypeOK
<1>2. InScript' /\ OneSemaphore' BY DEF InScript, OneSemaphore, Holding
<1>3. FlagMeansWaiting' BY DEF FlagMeansWaiting
<1>4. SignalTarget' BY <1>b DEF SignalTarget
<1>5. Counted' BY <1>0, <1>a DEF Counted
<1>6. SignalledBy' BY <1>0, <1>b, <1>c DEF SignalledBy
<1>7. CallbackRequest' BY <1>0, <1>a, <1>c DEF CallbackRequest, TypeOK, Callbacks
<1>8. ClearTarget' BY <1>0, <1>a, <1>b DEF ClearTarget, Steps
<1>9. ArmPersists' BY <1>0, <1>a DEF ArmPersists
<1> QED BY <1>1, <1>2, <1>3, <1>4, <1>5, <1>6, <1>7, <1>8, <1>9

LEMMA ClearFlagInv == IInv /\ ClearFlag => IInv'
<1> SUFFICES ASSUME IInv, ClearFlag PROVE IInv' OBVIOUS
<1> USE StepFacts DEF IInv, ClearFlag
<1>0. cb' \in Callbacks /\ cb'.pc \in {"idle", "test"} /\ CallbackRequest'
  BY NextChannelFacts
<1>a. flag' \in [Channels -> BOOLEAN] BY DEF TypeOK
<1>1. TypeOK' BY <1>0, <1>a DEF TypeOK
<1>2. InScript' /\ OneSemaphore' BY DEF InScript, OneSemaphore, Holding
<1>3. FlagMeansWaiting' BY DEF FlagMeansWaiting, TypeOK
<1>4. SignalTarget' BY <1>0 DEF SignalTarget
<1>5. Counted' BY DEF Counted
<1>6. SignalledBy' BY DEF SignalledBy, TypeOK, InScript
<1>7. ClearTarget' BY <1>0 DEF ClearTarget
<1>8. ArmPersists'
  <2> SUFFICES ASSUME pc = "wait", count[step] = 0, ~RepeatsChannel(step)
               PROVE  flag'[Chan(step)]
    BY DEF ArmPersists, RepeatsChannel
  <2>1. step \in Steps /\ flag[Chan(step)] BY DEF InScript, ArmPersists
  <2>2. ASSUME cb.chan = Chan(step) PROVE FALSE
    <3>1. cb.hit \in 1..(step - 1) BY DEF ClearTarget, TypeOK, Steps
    <3>2. Script[cb.hit].waits /\ Chan(cb.hit) = Chan(step) BY <2>2 DEF ClearTarget
    <3>3. \A i \in (cb.hit + 1)..(step - 1) : ~Script[i].waits BY DEF ClearTarget
    <3> QED BY <3>1, <3>2, <3>3 DEF RepeatsChannel
  <2> QED BY <2>1, <2>2 DEF TypeOK
<1> QED BY <1>0, <1>1, <1>2, <1>3, <1>4, <1>5, <1>6, <1>7, <1>8

LEMMA ModemInv == IInv /\ Modem => IInv'
<1> SUFFICES ASSUME IInv, NEW r \in pending, Indicate(r) \/ IndicateFailure(r)
             PROVE  IInv'
  BY DEF Modem
<1> USE DEF IInv
<1>0. r \in Steps /\ KindOf(Chan(r)) \in Kinds /\ pending \in SUBSET Steps
  BY StepFacts, KindFacts DEF TypeOK
<1>1. CASE Indicate(r)
  <2> USE <1>1 DEF Indicate
  <2>1. cb' \in Callbacks /\ cb'.pc = "test" /\ CallbackRequest'
    BY <1>0, KindFacts DEF Callbacks, CallbackRequest
  <2>2. TypeOK' BY <1>0, <2>1 DEF TypeOK
  <2>3. InScript' /\ OneSemaphore' BY DEF InScript, OneSemaphore, Holding
  <2>4. FlagMeansWaiting' BY DEF FlagMeansWaiting
  <2>5. SignalTarget' /\ ClearTarget' BY <2>1 DEF SignalTarget, ClearTarget
  <2>6. Counted' /\ SignalledBy' BY DEF Counted, SignalledBy
  <2>7. ArmPersists' BY DEF ArmPersists
  <2> QED BY <2>1, <2>2, <2>3, <2>4, <2>5, <2>6, <2>7
<1>2. CASE IndicateFailure(r)
  <2> USE <1>2 DEF IndicateFailure
  <2>1. TypeOK' BY <1>0 DEF TypeOK
  <2>2. InScript' /\ OneSemaphore' BY DEF InScript, OneSemaphore, Holding
  <2>3. FlagMeansWaiting' /\ SignalTarget' BY DEF FlagMeansWaiting, SignalTarget
  <2>4. Counted' /\ SignalledBy' BY DEF Counted, SignalledBy
  <2>5. CallbackRequest' /\ ClearTarget' BY DEF CallbackRequest, ClearTarget
  <2>6. ArmPersists' BY DEF ArmPersists
  <2> QED BY <2>1, <2>2, <2>3, <2>4, <2>5, <2>6
<1> QED BY <1>1, <1>2

LEMMA StutterInv == IInv /\ UNCHANGED vars => IInv'
<1> SUFFICES ASSUME IInv, UNCHANGED vars PROVE IInv' OBVIOUS
<1> USE DEF IInv, vars
<1>1. TypeOK' BY DEF TypeOK
<1>2. InScript' /\ OneSemaphore' BY DEF InScript, OneSemaphore, Holding
<1>3. FlagMeansWaiting' /\ SignalTarget' BY DEF FlagMeansWaiting, SignalTarget
<1>4. Counted' /\ SignalledBy' BY DEF Counted, SignalledBy
<1>5. CallbackRequest' /\ ClearTarget' BY DEF CallbackRequest, ClearTarget
<1>6. ArmPersists' BY DEF ArmPersists
<1> QED BY <1>1, <1>2, <1>3, <1>4, <1>5, <1>6

\* No step of the thread, the callback or the modem leaves the invariant.
THEOREM StepIInv == IInv /\ [Next]_vars => IInv'
BY CallInv, SemNewInv, ArmInv, SemWaitInv, SemFreeInv, TestPassesInv, TestFailsInv,
   SignalInv, ClearFlagInv, ModemInv, StutterInv
   DEF Next, Thread, Callback

-----------------------------------------------------------------------------
(* The properties that TLC checks on the applications' scripts, for every  *)
(* script of requests.                                                     *)

\* The inductive invariant holds in every reachable state.
THEOREM IInvInvariant == Spec => []IInv
BY InitIInv, StepIInv, PTL DEF Spec

\* The globals, the semaphores and the callback keep their types.
THEOREM TypeCorrect == Spec => []TypeOK
<1>1. IInv => TypeOK BY DEF IInv
<1> QED BY <1>1, IInvInvariant, PTL

\* The callback never signals a semaphore the thread has freed, although the
\* freed handle stays in its global.
THEOREM NeverSignalsFreed == Spec => []NoSignalAfterFree
<1>1. IInv => NoSignalAfterFree
  BY DEF IInv, SignalTarget, OneSemaphore, Holding, NoSignalAfterFree
<1> QED BY <1>1, IInvInvariant, PTL

\* The thread never frees a semaphore that still holds a signal.
THEOREM FreesDrained == Spec => []FreedDrained
<1>1. IInv => FreedDrained BY DEF IInv, Counted, FreedDrained
<1> QED BY <1>1, IInvInvariant, PTL

\* A wait returns only for an indication of its own kind, handled after the
\* flag of the request was raised.
THEOREM WakesAfterIndication == Spec => []WakeAfterIndication
<1>1. IInv => WakeAfterIndication
  BY DEF IInv, SignalledBy, Steps, WakeAfterIndication
<1> QED BY <1>1, IInvInvariant, PTL

\* The callback's late store to the flag never disarms a request on another
\* channel than the previous awaited one.
THEOREM ArmingPersists == Spec => []ArmPersists
<1>1. IInv => ArmPersists BY DEF IInv
<1> QED BY <1>1, IInvInvariant, PTL

-----------------------------------------------------------------------------
(* The implementation of RequestAnswer *)

\* Only requests that were made are with the modem or have been answered.
AnswersAsked ==
  /\ pending \subseteq Asked
  /\ cb.pc # "idle" => cb.req \in Asked \ pending
  /\ by # 0 => by \in Asked \ pending

\* Only an answer to the request the thread is in the middle of can be missed.
MissedCurrent == missed => pc # "call"

\* The callback has nothing left to do but to clear its last flag.
CbEnds == cb.pc = "clear" /\ cb.chan = LastChan(KindOf(cb.chan))

\* An answer that has not served its request is one the request still waits
\* for, or one left over; or the callback has handed it over already, and once
\* more if it is done.
LeftOver ==
  /\ \A r \in pending : r = step \/ r \in Strays
  /\ cb.pc # "idle" => cb.req \in {step, cb.hit} \cup Strays \/ CbEnds
  /\ pc = "free" \/ (pc = "wait" /\ count[step] = 1) => by = step \/ step \in Strays

\* A callback that has signalled the synchronous channel and is at the other one
\* finds the thread no further than at the next awaited request.
HandsOn ==
  cb.pc \in {"test", "signal"} =>
    IF cb.hit = 0 THEN by # cb.req
    ELSE /\ cb.hit <= step /\ Script[cb.hit].waits
         /\ Chan(cb.hit) = FirstChan(KindOf(cb.chan)) /\ cb.chan = LastChan(KindOf(cb.chan))
         /\ \A i \in (cb.hit + 1)..(step - 1) : ~Script[i].waits
         /\ cb.hit < step => pc # "free" /\ (pc = "wait" => count[step] = 0)
         /\ cb.hit = step => pc = "free" \/ (pc = "wait" /\ count[step] = 1)

RInv == IInv /\ AnswersAsked /\ MissedCurrent /\ LeftOver /\ HandsOn

\* The requests made are those up to the current one.
LEMMA AskedFacts ==
  ASSUME TypeOK
  PROVE  Asked = 1..(IF pc = "call" THEN step - 1 ELSE step)
BY DEF TypeOK, Asked, Called

\* A step of the thread or the modem never unmakes a request, and Call alone
\* makes one.
LEMMA AskedSteps ==
  ASSUME RInv, [Next]_vars
  PROVE  /\ Call => Asked' = Asked \cup {step} /\ step \notin Asked
         /\ ~Call => Asked' = Asked
<1> USE DEF RInv, IInv
<1>0. TypeOK' /\ TypeOK BY StepIInv
<1>1. step \in Nat /\ step' \in Nat /\ step >= 1 BY <1>0 DEF TypeOK, Steps
<1>2. CASE Call
  <2>1. \/ pc' = "new" /\ step' = step
        \/ step' = step + 1 /\ pc' = "call"
    BY <1>2 DEF Call
  <2> QED BY <1>1, <1>2, <2>1 DEF Asked, Called, Call
<1>3. CASE SemFree
  <2>1. step' = step + 1 /\ pc' = "call" /\ pc # "call" BY <1>3 DEF SemFree
  <2>2. ~Call BY <1>3 DEF SemFree, Call
  <2> QED BY <1>1, <2>1, <2>2 DEF Asked, Called
<1>4. CASE ~Call /\ ~SemFree
  <2>1. step' = step /\ (pc' = "call" <=> pc = "call")
    BY <1>4 DEF Next, Thread, Callback, Modem, SemNew, Arm, SemWait, Indicate,
       IndicateFailure, TestPasses, TestFails, Signal, ClearFlag, vars
  <2> QED BY <1>4, <2>1 DEF Asked, Called
<1> QED BY <1>2, <1>3, <1>4

\* After NextChannel the callback is idle or still works on the same request.
LEMMA NextChannelRequest ==
  ASSUME TypeOK, NextChannel
  PROVE  cb'.pc # "idle" => cb'.req = cb.req
BY DEF TypeOK, NextChannel, Callbacks, IdleCb

\* The answers stay answers to requests that were made.
LEMMA AnswersAskedStep == RInv /\ [Next]_vars => AnswersAsked'
<1> SUFFICES ASSUME RInv, [Next]_vars PROVE AnswersAsked' OBVIOUS
<1> USE AskedSteps DEF RInv, IInv
<1>1. CASE Call BY <1>1 DEF Call, AnswersAsked, TypeOK
<1>2. CASE ~Call /\ Thread
  BY <1>2 DEF Thread, SemNew, Arm, SemWait, SemFree, AnswersAsked
<1>3. CASE ~Call /\ Modem
  <2>1. PICK r \in pending : Indicate(r) \/ IndicateFailure(r) BY <1>3 DEF Modem
  <2>2. r \in Asked \ pending' /\ pending' \subseteq pending
    BY <2>1 DEF AnswersAsked, Indicate, IndicateFailure
  <2> QED BY <1>3, <2>1, <2>2 DEF AnswersAsked, Indicate, IndicateFailure
<1>4. CASE ~Call /\ (TestPasses \/ Signal)
  BY <1>4 DEF TestPasses, Signal, AnswersAsked, TypeOK, Callbacks
<1>5. CASE ~Call /\ (TestFails \/ ClearFlag)
  BY <1>5, NextChannelRequest DEF TestFails, ClearFlag, AnswersAsked
<1>6. CASE ~Call /\ UNCHANGED vars BY <1>6 DEF vars, AnswersAsked
<1> QED BY <1>1, <1>2, <1>3, <1>4, <1>5, <1>6 DEF Next, Thread, Callback

LEMMA MissedCurrentStep == RInv /\ [Next]_vars => MissedCurrent'
<1> SUFFICES ASSUME RInv, [Next]_vars PROVE MissedCurrent' OBVIOUS
<1> USE DEF RInv, IInv, MissedCurrent
<1>1. pc = "call" => step \notin Asked
  BY AskedFacts DEF TypeOK, Steps
<1>2. CASE Modem
  <2>1. PICK r \in pending : Indicate(r) \/ IndicateFailure(r) BY <1>2 DEF Modem
  <2>2. r \in Asked BY DEF AnswersAsked
  <2> QED BY <1>1, <2>1, <2>2 DEF Indicate, IndicateFailure
<1>3. CASE TestFails BY <1>1, <1>3 DEF TestFails, AnswersAsked
<1>4. CASE Thread \/ TestPasses \/ Signal \/ ClearFlag \/ UNCHANGED vars
  BY <1>4 DEF Thread, Call, SemNew, Arm, SemWait, SemFree, TestPasses, Signal, ClearFlag, vars
<1> QED BY <1>2, <1>3, <1>4 DEF Next, Callback

\* Answers stray for each later request of the kind.
LEMMA StraysLater ==
  ASSUME NEW r \in Strays, NEW s \in Steps, r <= s, KindOf(Chan(r)) = KindOf(Chan(s))
  PROVE  s \in Strays
<1>1. PICK u \in 1..r : /\ KindOf(Chan(u)) = KindOf(Chan(r))
                        /\ ~Script[u].waits \/ FollowsSync(u)
  BY DEF Strays
<1>2. u \in 1..s BY DEF Strays, Steps
<1> QED BY <1>1, <1>2 DEF Strays

\* So they do for a request that is not awaited.
LEMMA StraysUnawaited ==
  ASSUME NEW s \in Steps, ~Script[s].waits \/ FollowsSync(s)
  PROVE  s \in Strays
<1>1. s \in 1..s BY DEF Steps
<1> QED BY <1>1 DEF Strays

\* When a semaphore is freed, an answer to its request that is still around is
\* one left over, or the callback is on its way to the next channel with it.
LEMMA FreedLeftOver ==
  ASSUME RInv, pc = "free"
  PROVE  /\ step \in pending => step \in Strays
         /\ cb.pc # "idle" /\ cb.req = step => cb.req = cb.hit \/ step \in Strays
<1> USE DEF RInv, IInv
<1>1. by = step \/ step \in Strays BY DEF LeftOver
<1>2. step \in Steps BY DEF InScript
<1>3. by = step => step \notin pending BY <1>2 DEF AnswersAsked, Steps
<1>4. ASSUME cb.pc # "idle", cb.req = step, by = step PROVE cb.req = cb.hit
  <2>1. CASE cb.pc = "clear"
    BY <1>2, <1>4, <2>1 DEF ClearTarget, Steps
  <2>2. CASE cb.pc \in {"test", "signal"}
    BY <1>2, <1>4, <2>2 DEF HandsOn, Steps, TypeOK, Callbacks
  <2> QED BY <1>4, <2>1, <2>2 DEF TypeOK, Callbacks
<1> QED BY <1>1, <1>3, <1>4

LEMMA HandsOnStep == RInv /\ [Next]_vars => HandsOn'
<1> SUFFICES ASSUME RInv, [Next]_vars PROVE HandsOn' OBVIOUS
<1> USE DEF RInv, IInv
<1>0. /\ step \in Nat /\ step >= 1
      /\ cb.hit \in Nat
      /\ cb.pc # "idle" => cb.req \in Steps
  BY DEF TypeOK, Callbacks, Steps, CallbackRequest
<1>1. CASE Call
  <2>1. pc = "call" /\ UNCHANGED <<cb, by, count>> BY <1>1 DEF Call
  <2>2. CASE Script[step].waits
    BY <1>0, <1>1, <2>1, <2>2 DEF Call, HandsOn
  <2>3. CASE ~Script[step].waits
    <3>1. step' = step + 1 /\ pc' = "call" BY <1>1, <2>1, <2>3 DEF Call
    <3>2. CASE cb.pc \in {"test", "signal"} /\ cb.hit # 0
      <4>1. cb.hit < step BY <1>0, <2>1, <3>2 DEF HandsOn
      <4>2. \A i \in (cb.hit + 1)..(step' - 1) : ~Script[i].waits
        BY <1>0, <2>3, <3>1, <3>2 DEF HandsOn
      <4> QED BY <1>0, <2>1, <3>1, <3>2, <4>1, <4>2 DEF HandsOn
    <3> QED BY <2>1, <3>2 DEF HandsOn
  <2> QED BY <2>2, <2>3
<1>2. CASE SemNew
  <2>1. /\ pc = "new" /\ pc' = "arm" /\ by' = 0 /\ UNCHANGED <<step, cb>>
    BY <1>2 DEF SemNew
  <2> QED BY <1>0, <2>1 DEF HandsOn, Steps
<1>3. CASE Arm
  <2>1. count[step] = 0 /\ pc = "arm" BY <1>3 DEF Counted, Arm
  <2> QED BY <1>0, <1>3, <2>1 DEF HandsOn, Arm
<1>4. CASE SemWait
  <2>1. pc = "wait" /\ count[step] > 0 BY <1>4 DEF SemWait, OneSemaphore, Holding
  <2> QED BY <1>0, <1>4, <2>1 DEF HandsOn, SemWait
<1>5. CASE SemFree
  <2>1. /\ pc = "free" /\ pc' = "call" /\ step' = step + 1 /\ UNCHANGED <<cb, by, count>>
    BY <1>5 DEF SemFree
  <2>2. CASE cb.pc \in {"test", "signal"} /\ cb.hit # 0
    <3>1. cb.hit = step BY <1>0, <2>1, <2>2 DEF HandsOn
    <3>2. (cb.hit + 1)..(step' - 1) = {} /\ cb.hit < step' BY <1>0, <2>1, <3>1
    <3> QED BY <1>0, <2>1, <2>2, <3>2 DEF HandsOn
  <2> QED BY <2>1, <2>2 DEF HandsOn
<1>6. CASE TestPasses
  BY <1>0, <1>6 DEF HandsOn, TestPasses, TypeOK, Callbacks
<1>7. CASE TestFails \/ ClearFlag
  <2>1. CASE IsLast BY <1>7, <2>1 DEF TestFails, ClearFlag, NextChannel, HandsOn, IdleCb
  <2>2. CASE ~IsLast
    <3>1. cb' = [cb EXCEPT !.pc = "test", !.chan = LastChan(KindOf(cb.chan))]
      BY <1>7, <2>2 DEF TestFails, ClearFlag, NextChannel
    <3>2. /\ cb'.pc = "test" /\ cb'.hit = cb.hit /\ cb'.req = cb.req
          /\ cb'.chan = LastChan(KindOf(cb.chan))
          /\ cb.chan = FirstChan(KindOf(cb.chan)) /\ KindOf(cb'.chan) = KindOf(cb.chan)
      BY <2>2, <3>1 DEF TypeOK, Callbacks, IsLast, Channels, FirstChan, LastChan, KindOf
    <3>3. UNCHANGED <<step, pc, count, by>> BY <1>7 DEF TestFails, ClearFlag
    <3>4. CASE TestFails
      <4>1. cb.pc = "test" /\ cb.chan # LastChan(KindOf(cb.chan))
        BY <2>2, <3>4 DEF TestFails, IsLast
      <4> QED BY <3>2, <3>3, <4>1 DEF HandsOn
    <3>5. CASE ClearFlag
      BY <1>0, <3>2, <3>3, <3>5 DEF ClearFlag, ClearTarget, HandsOn, Steps
    <3> QED BY <1>7, <3>4, <3>5
  <2> QED BY <2>1, <2>2
<1>8. CASE Signal BY <1>8 DEF Signal, HandsOn, TypeOK, Callbacks
<1>9. CASE Modem
  <2>1. PICK r \in pending : Indicate(r) \/ IndicateFailure(r) BY <1>9 DEF Modem
  <2>2. by # r BY <2>1 DEF AnswersAsked, TypeOK, Steps
  <2> QED BY <2>1, <2>2 DEF Indicate, IndicateFailure, HandsOn
<1>10. CASE UNCHANGED vars BY <1>10 DEF vars, HandsOn
<1> QED BY <1>1, <1>2, <1>3, <1>4, <1>5, <1>6, <1>7, <1>8, <1>9, <1>10
  DEF Next, Thread, Callback

LEMMA LeftOverStep == RInv /\ [Next]_vars => LeftOver'
<1> SUFFICES ASSUME RInv, [Next]_vars PROVE LeftOver' OBVIOUS
<1> USE DEF RInv, IInv, CbEnds
<1>0. step \in Nat /\ step >= 1 BY DEF TypeOK, Steps
<1>1. CASE Call
  <2>1. step \in Steps /\ pc = "call" /\ pending' = pending \cup {step}
        /\ UNCHANGED <<cb, by, count>>
    BY <1>1 DEF Call
  <2>2. step \notin Asked BY <1>1, AskedSteps
  <2>3. cb.pc # "idle" => cb.req # step BY <2>2 DEF AnswersAsked
  <2>4. \A r \in pending : r # step BY <2>2 DEF AnswersAsked
  <2>5. CASE Script[step].waits
    <3>1. pc' = "new" /\ step' = step BY <1>1, <2>5 DEF Call
    <3> QED BY <2>1, <3>1 DEF LeftOver
  <2>6. CASE ~Script[step].waits
    <3>1. pc' = "call" /\ step' = step + 1 BY <1>1, <2>1, <2>6 DEF Call
    <3>2. step \in Strays BY <2>1, <2>6, StraysUnawaited
    <3> QED BY <2>1, <2>3, <2>4, <3>1, <3>2 DEF LeftOver
  <2> QED BY <2>5, <2>6
<1>2. CASE SemNew BY <1>2 DEF SemNew, LeftOver
<1>3. CASE Arm
  <2>1. count[step] = 0 BY <1>3 DEF Counted, Arm
  <2> QED BY <1>3, <2>1 DEF Arm, LeftOver
<1>4. CASE SemWait
  <2>1. pc = "wait" /\ count[step] = 1
    BY <1>4 DEF SemWait, OneSemaphore, Holding, Counted
  <2> QED BY <1>4, <2>1 DEF SemWait, LeftOver
<1>5. CASE SemFree
  <2>1. pc = "free" /\ step' = step + 1 /\ pc' = "call" /\ UNCHANGED <<pending, cb>>
    BY <1>5 DEF SemFree
  <2> QED BY <2>1, FreedLeftOver DEF LeftOver
<1>6. CASE TestPasses
  BY <1>6 DEF TestPasses, LeftOver, TypeOK, Callbacks
<1>7. CASE TestFails \/ ClearFlag
  <2>1. UNCHANGED <<step, pc, count, by, pending>> /\ cb.pc # "idle"
    BY <1>7 DEF TestFails, ClearFlag
  <2>2. CASE IsLast
    BY <1>7, <2>1, <2>2 DEF TestFails, ClearFlag, NextChannel, IdleCb, LeftOver
  <2>3. CASE ~IsLast
    <3>1. cb' = [cb EXCEPT !.pc = "test", !.chan = LastChan(KindOf(cb.chan))]
      BY <1>7, <2>3 DEF TestFails, ClearFlag, NextChannel
    <3>2. cb'.req = cb.req /\ cb'.hit = cb.hit BY <3>1 DEF TypeOK, Callbacks
    <3> QED BY <2>1, <2>3, <3>2 DEF LeftOver, IsLast
  <2> QED BY <2>2, <2>3
<1>8. CASE Signal
  <2>1. /\ pc = "wait" /\ cb.chan = Chan(step) /\ count[step] = 0 /\ cb.pc = "signal"
        /\ sem[cb.chan] = step /\ step \in Steps /\ cb.req \in Steps
    BY <1>8 DEF Signal, SignalTarget, OneSemaphore, Holding, InScript, CallbackRequest
  <2>2. /\ UNCHANGED <<step, pc, pending>> /\ by' = cb.req
        /\ cb'.req = cb.req /\ cb'.hit = step /\ cb'.pc = "clear" /\ cb'.chan = cb.chan
    BY <1>8, <2>1 DEF Signal, TypeOK, Callbacks
  <2>3. cb.req <= step /\ KindOf(Chan(cb.req)) = KindOf(Chan(step))
    BY <1>0, <2>1, AskedFacts DEF AnswersAsked, CallbackRequest
  <2>4. cb.req = step \/ step \in Strays
    <3>1. CASE cb.req \in Strays BY <2>1, <2>3, <3>1, StraysLater
    <3>2. CASE cb.hit = cb.req /\ cb.req # step
      <4>1. /\ cb.hit \in 1..(step - 1) /\ Script[cb.hit].waits
            /\ Chan(cb.hit) = FirstChan(KindOf(cb.chan)) /\ cb.chan = LastChan(KindOf(cb.chan))
            /\ \A i \in (cb.hit + 1)..(step - 1) : ~Script[i].waits
        BY <1>0, <2>1, <2>3, <3>2 DEF HandsOn, Steps
      <4>2. FollowsSync(step) BY <2>1, <4>1 DEF FollowsSync
      <4> QED BY <2>1, <4>2, StraysUnawaited
    <3> QED BY <2>1, <3>1, <3>2 DEF LeftOver
  <2>5. cb.req \in {step} \cup Strays \/ IsLast
    BY <2>1 DEF LeftOver, HandsOn, IsLast, CallbackRequest, Steps
  <2> QED BY <2>1, <2>2, <2>4, <2>5 DEF LeftOver, IsLast
<1>9. CASE Modem
  <2>1. PICK r \in pending : Indicate(r) \/ IndicateFailure(r) BY <1>9 DEF Modem
  <2>2. r = step \/ r \in Strays BY DEF LeftOver
  <2> QED BY <2>1, <2>2 DEF Indicate, IndicateFailure, LeftOver
<1>10. CASE UNCHANGED vars BY <1>10 DEF vars, LeftOver
<1> QED BY <1>1, <1>2, <1>3, <1>4, <1>5, <1>6, <1>7, <1>8, <1>9, <1>10
  DEF Next, Thread, Callback

-----------------------------------------------------------------------------
(* Every step maps to a step of the abstract channel or leaves it alone *)

\* The call of a request asks it.
LEMMA CallAsks == RInv /\ Call => Channel!Ask(step) /\ step \in Steps
<1> SUFFICES ASSUME RInv, Call PROVE Channel!Ask(step) /\ step \in Steps OBVIOUS
<1> USE StepFacts DEF RInv, IInv, Call
<1>1. step \in Steps /\ pc = "call" /\ ~missed BY DEF MissedCurrent
<1>2. Asked = 1..(step - 1) /\ step \in Nat BY <1>1, AskedFacts DEF Steps
<1>3. Asked' = Asked \cup {step}
  BY AskedSteps DEF Next, Thread
<1>4. (Asked \ pending)' = Asked \ pending BY <1>2, <1>3 DEF AnswersAsked
<1>5. Asked \cap AwaitedSteps \subseteq Served BY <1>2 DEF Served, AwaitedSteps, Steps
<1>6. Served' = Served
  <2>1. CASE Script[step].waits BY <2>1 DEF Served, AwaitedSteps, Steps
  <2>2. CASE ~Script[step].waits BY <1>1, <1>2, <2>2 DEF Served, AwaitedSteps, Steps
  <2> QED BY <2>1, <2>2
<1>7. Lost' = Lost BY <1>1 DEF Lost
<1>8. \A q \in Steps : q < step => q \in Asked BY <1>2 DEF Steps
<1> QED BY <1>1, <1>2, <1>3, <1>4, <1>5, <1>6, <1>7, <1>8 DEF Channel!Ask

\* The return of sem_wait serves the request by an answer that may.
LEMMA WaitReturns == RInv /\ SemWait => Channel!Return(step) /\ step \in Steps
<1> SUFFICES ASSUME RInv, SemWait PROVE Channel!Return(step) /\ step \in Steps OBVIOUS
<1> USE DEF RInv, IInv, SemWait
<1>1. step \in Steps /\ Script[step].waits /\ pc = "wait" BY DEF InScript
<1>2. Asked = 1..step /\ step \in Nat BY <1>1, AskedFacts DEF Steps
<1>3. Asked' = Asked BY <1>1, AskedSteps DEF Next, Thread, Call
<1>4. step \in (Asked \cap AwaitedSteps) \ Served
  BY <1>1, <1>2 DEF Served, AwaitedSteps, Steps
<1>5. by \in Steps /\ KindOf(Chan(by)) = KindOf(Chan(step))
  <2>1. sem[Chan(step)] = step /\ count[step] = 1
    BY <1>1 DEF OneSemaphore, Holding, Counted
  <2> QED BY <1>1, <2>1 DEF SignalledBy
<1>6. by \in Asked \ pending BY <1>5 DEF AnswersAsked, Steps
<1>7. Serving(by, step)
  <2>1. sem[Chan(step)] = step /\ count[step] = 1
    BY <1>1 DEF OneSemaphore, Holding, Counted
  <2>2. by = step \/ step \in Strays BY <1>1, <2>1 DEF LeftOver
  <2> QED BY <1>2, <1>5, <1>6, <2>2 DEF Serving
<1>8. Served' = Served \cup {step} BY <1>1, <1>2 DEF Served, AwaitedSteps, Steps
<1>9. Lost' = Lost \ {step} BY DEF Lost, Called
<1> QED BY <1>1, <1>3, <1>4, <1>6, <1>7, <1>8, <1>9 DEF Channel!Return, Channel!Waiting

\* Freeing the semaphore changes nothing the channel knows.
LEMMA FreeStutters == RInv /\ SemFree => UNCHANGED Channel!channel
<1> SUFFICES ASSUME RInv, SemFree PROVE UNCHANGED Channel!channel OBVIOUS
<1> USE DEF RInv, IInv, SemFree
<1>1. step \in Steps /\ Script[step].waits BY DEF InScript
<1>2. Asked' = Asked BY AskedSteps DEF Next, Thread, Call
<1>3. Served' = Served BY <1>1 DEF Served, AwaitedSteps, Steps
<1>4. Lost' = Lost BY DEF Lost
<1> QED BY <1>2, <1>3, <1>4 DEF Channel!channel

\* An indication answers its request; a failure of the current one is lost on
\* the thread, if it still waits.
LEMMA ModemAnswers ==
  RInv /\ Modem => \E r \in Steps : Channel!Answer(r)
<1> SUFFICES ASSUME RInv, NEW r \in pending, Indicate(r) \/ IndicateFailure(r)
             PROVE  r \in Steps /\ Channel!Answer(r)
  BY DEF Modem
<1> USE DEF RInv, IInv
<1>1. r \in Steps /\ r \in Asked BY DEF TypeOK, AnswersAsked
<1>2. /\ UNCHANGED <<step, pc>> /\ pending' = pending \ {r}
      /\ missed' = missed \/ (r = step /\ missed')
  BY DEF TypeOK, Indicate, IndicateFailure
<1>3. Asked' = Asked /\ Served' = Served BY <1>2 DEF Asked, Called, Served
<1>4. (Asked \ pending)' = (Asked \ pending) \cup {r} BY <1>1, <1>2, <1>3
<1>5. Lost' = Lost \/ (Channel!Waiting(r) /\ Lost' = Lost \cup {r})
  <2>1. CASE missed' = missed \/ pc = "free" BY <1>2, <2>1 DEF Lost, Called
  <2>2. CASE missed' # missed /\ pc # "free"
    <3>1. r = step /\ missed' /\ ~missed BY <1>2, <2>2 DEF TypeOK
    <3>2. pc # "call" /\ Script[step].waits
      BY <1>1, <3>1, AskedFacts DEF InScript, TypeOK, Steps
    <3>3. r \notin Served BY <2>2, <3>1 DEF Served, TypeOK, Steps
    <3>4. Lost = {} /\ Lost' = {r} BY <1>2, <2>2, <3>1, <3>2 DEF Lost, Called
    <3> QED BY <1>1, <3>1, <3>2, <3>3, <3>4 DEF Channel!Waiting, AwaitedSteps
  <2> QED BY <2>1, <2>2
<1> QED BY <1>1, <1>3, <1>4, <1>5 DEF Channel!Answer

\* A callback that found no armed flag has lost the answer on the thread.
LEMMA TestLoses ==
  RInv /\ TestFails => UNCHANGED Channel!channel \/ (step \in Steps /\ Channel!Lose(step))
<1> SUFFICES ASSUME RInv, TestFails
             PROVE  UNCHANGED Channel!channel \/ (step \in Steps /\ Channel!Lose(step))
  OBVIOUS
<1> USE DEF RInv, IInv, TestFails
<1>1. Asked' = Asked /\ Served' = Served /\ (Asked \ pending)' = Asked \ pending
  BY DEF Asked, Called, Served
<1>2. CASE missed' = missed \/ pc = "free"
  <2>1. Lost' = Lost BY <1>2 DEF Lost, Called
  <2> QED BY <1>1, <2>1 DEF Channel!channel
<1>3. CASE missed' # missed /\ pc # "free"
  <2>1. cb.req = step /\ missed' /\ ~missed BY <1>3 DEF TypeOK
  <2>2. step \in Asked \ pending BY <2>1 DEF AnswersAsked
  <2>3. pc # "call" BY <2>2, AskedFacts DEF TypeOK, Steps
  <2>4. step \in Steps /\ Script[step].waits BY <2>3 DEF InScript
  <2>5. step \notin Served BY <1>3, <2>4 DEF Served, Steps
  <2>6. Lost' = Lost \cup {step} BY <1>3, <2>1, <2>3 DEF Lost, Called
  <2> QED BY <1>1, <2>2, <2>4, <2>5, <2>6 DEF Channel!Lose, Channel!Waiting, AwaitedSteps
<1> QED BY <1>2, <1>3

\* What the thread does to its handle and flag, and the callback to its own
\* state, the flag and the semaphore, the channel does not see.
LEMMA OthersStutter ==
  RInv /\ (SemNew \/ Arm \/ TestPasses \/ Signal \/ ClearFlag \/ UNCHANGED vars)
    => UNCHANGED Channel!channel
<1> SUFFICES ASSUME RInv, SemNew \/ Arm \/ TestPasses \/ Signal \/ ClearFlag \/ UNCHANGED vars
             PROVE  UNCHANGED Channel!channel
  OBVIOUS
<1>1. /\ UNCHANGED <<step, pending, missed>>
      /\ pc' = "call" <=> pc = "call"
      /\ pc' = "free" <=> pc = "free"
  BY DEF SemNew, Arm, TestPasses, Signal, ClearFlag, vars
<1>2. Asked' = Asked /\ Served' = Served /\ Lost' = Lost
  BY <1>1 DEF Asked, Called, Served, Lost
<1> QED BY <1>1, <1>2 DEF Channel!channel

-----------------------------------------------------------------------------

\* For every script of requests the semaphores, flags and the callback
\* implement the answering channel: no wait returns without an answer, its own
\* unless answers of its kind are left over, and none is served twice.
THEOREM ImplementsChannel == Spec => OwnAnswers
<1>1. Init => RInv
  BY InitIInv DEF RInv, Init, AnswersAsked, MissedCurrent, LeftOver, HandsOn, IdleCb
<1>2. RInv /\ [Next]_vars => RInv'
  BY StepIInv, AnswersAskedStep, MissedCurrentStep, LeftOverStep, HandsOnStep DEF RInv
<1>3. Init => Channel!Init
  BY DEF Init, Channel!Init, Asked, Called, Served, Lost, AwaitedSteps, Steps
<1>4. RInv /\ [Next]_vars => [Channel!Next]_Channel!channel
  BY CallAsks, WaitReturns, FreeStutters, ModemAnswers, TestLoses, OthersStutter
     DEF Next, Thread, Callback, Channel!Next
<1> QED BY <1>1, <1>2, <1>3, <1>4, PTL DEF Spec, OwnAnswers, Channel!Safely

=============================================================================
