--------------------------- MODULE MideaTaskProofs ---------------------------
(***************************************************************************)
(* Proofs about MideaTask, for every limit of the requests and any number  *)
(* of frames: the requests stop with the SN, and a freed timer is used     *)
(* only after the appliance has repeated itself.                           *)
(***************************************************************************)
EXTENDS MideaTask, TLAPS

Timer == [kind : Kinds, state : States]

TimerTypes ==
  /\ timers \in Seq(Timer)
  /\ sn_timer \in 0..Len(timers)
  /\ timer_id \in 0..Len(timers)
  /\ self_test_timer \in 0..Len(timers)

\* A handle is of a timer of its kind; that of the requests is never freed
\* while it is kept.
HandleKinds ==
  /\ sn_timer # 0 => timers[sn_timer].kind = "sn" /\ timers[sn_timer].state # "freed"
  /\ timer_id # 0 => timers[timer_id].kind = "attach"
  /\ self_test_timer # 0 => timers[self_test_timer].kind = "self"

Present(kind) == \E t \in DOMAIN timers : timers[t].kind = kind

AllIdle(kind) == \A t \in DOMAIN timers : timers[t].kind = kind => timers[t].state = "idle"

\* While a callback runs for a timer, that timer is idle, and it is the only
\* one of its kind unless the appliance has repeated itself.
AttachOnce ==
  cb \in {"cfun", "drop"} =>
    Present("attach") /\ (Repeated("attach") \/ AllIdle("attach"))

SelfOnce ==
  /\ cb \in SelfTestCallback =>
       Present("self") /\ (Repeated("self") \/ AllIdle("self"))
  /\ tpc \in {"raise", "start"} =>
       Present("self") /\ (Repeated("self") \/ (AllIdle("self") /\ cb \notin SelfTestCallback))

TInv ==
  /\ TimerTypes /\ HandleKinds /\ AttachOnce /\ SelfOnce
  /\ misuse \in BOOLEAN /\ MisuseNeedsRepeat

-----------------------------------------------------------------------------

\* Creating a timer.
LEMMA NewTimerFacts ==
  ASSUME timers \in Seq(Timer), NEW kind \in Kinds, NEW state \in States, NewTimer(kind, state)
  PROVE  /\ timers' \in Seq(Timer) /\ Len(timers') = Len(timers) + 1
         /\ DOMAIN timers' = DOMAIN timers \cup {Len(timers) + 1}
         /\ Len(timers) + 1 \notin DOMAIN timers
         /\ \A t \in DOMAIN timers : timers'[t] = timers[t]
         /\ timers'[Len(timers) + 1] = [kind |-> kind, state |-> state]
BY DEF NewTimer, Timer

\* Starting, stopping or freeing one.
LEMMA SetTimerFacts ==
  ASSUME timers \in Seq(Timer), NEW h \in DOMAIN timers, NEW state \in States,
         SetTimer(h, state)
  PROVE  /\ timers' \in Seq(Timer) /\ Len(timers') = Len(timers)
         /\ DOMAIN timers' = DOMAIN timers
         /\ \A t \in DOMAIN timers : timers'[t].kind = timers[t].kind
         /\ \A t \in DOMAIN timers \ {h} : timers'[t] = timers[t]
         /\ timers[h].state # "freed" => timers'[h].state = state /\ misuse' = misuse
         /\ timers[h].state = "freed" => timers' = timers /\ misuse' = TRUE
<1>1. h # 0 /\ timers[h] \in Timer
  OBVIOUS
<1>2. CASE timers[h].state = "freed"
  BY <1>1, <1>2 DEF SetTimer
<1>3. CASE timers[h].state # "freed"
  <2>1. timers' = [timers EXCEPT ![h].state = state] /\ misuse' = misuse
    BY <1>1, <1>3 DEF SetTimer
  <2> QED
    BY <1>1, <1>3, <2>1 DEF Timer
<1> QED
  BY <1>2, <1>3

\* A step that keeps the timers of a kind keeps what is said of them.
Same(kind) ==
  /\ Present(kind) => Present(kind)'
  /\ Repeated(kind) => Repeated(kind)'
  /\ AllIdle(kind) => AllIdle(kind)'

LEMMA NewKeeps ==
  ASSUME timers \in Seq(Timer), NEW kind \in Kinds, NEW state \in States, NewTimer(kind, state)
  PROVE  /\ \A k \in Kinds : (Present(k) => Present(k)') /\ (Repeated(k) => Repeated(k)')
         /\ \A k \in Kinds \ {kind} : Same(k)
         /\ Present(kind)'
         /\ Present(kind) => Repeated(kind)'
         /\ ~Present(kind) /\ state = "idle" => AllIdle(kind)'
<1> DEFINE n == Len(timers) + 1
<1>1. /\ DOMAIN timers' = DOMAIN timers \cup {n} /\ n \notin DOMAIN timers
      /\ \A t \in DOMAIN timers : timers'[t] = timers[t]
      /\ timers'[n].kind = kind /\ timers'[n].state = state
  <2>1. timers'[n] = [kind |-> kind, state |-> state]
    BY NewTimerFacts
  <2>2. timers'[n].kind = kind /\ timers'[n].state = state
    BY <2>1
  <2> QED
    BY <2>2, NewTimerFacts
<1> HIDE DEF n
<1>2. \A k \in Kinds : (Present(k) => Present(k)') /\ (Repeated(k) => Repeated(k)')
  BY <1>1 DEF Present, Repeated
<1>3. \A k \in Kinds \ {kind} : AllIdle(k) => AllIdle(k)'
  BY <1>1 DEF AllIdle
<1>4. Present(kind)'
  BY <1>1 DEF Present
<1>5. Present(kind) => Repeated(kind)'
  BY <1>1 DEF Present, Repeated
<1>6. ~Present(kind) /\ state = "idle" => AllIdle(kind)'
  BY <1>1 DEF Present, AllIdle
<1> QED
  BY <1>2, <1>3, <1>4, <1>5, <1>6 DEF Same

LEMMA SetKeeps ==
  ASSUME timers \in Seq(Timer), NEW h \in DOMAIN timers, NEW state \in States,
         NEW kind \in Kinds, timers[h].kind = kind, SetTimer(h, state)
  PROVE  /\ \A k \in Kinds : (Present(k) => Present(k)') /\ (Repeated(k) => Repeated(k)')
         /\ \A k \in Kinds \ {kind} : Same(k)
         /\ state = "idle" => Same(kind)
<1>1. /\ DOMAIN timers' = DOMAIN timers
      /\ \A t \in DOMAIN timers : timers'[t].kind = timers[t].kind
      /\ \A t \in DOMAIN timers \ {h} : timers'[t] = timers[t]
      /\ timers[h].state # "freed" => timers'[h].state = state
      /\ timers[h].state = "freed" => timers' = timers
  BY SetTimerFacts
<1>2. ASSUME NEW k \in Kinds PROVE (Present(k) => Present(k)') /\ (Repeated(k) => Repeated(k)')
  BY <1>1 DEF Present, Repeated
<1>3. ASSUME NEW k \in Kinds \ {kind} PROVE AllIdle(k) => AllIdle(k)'
  BY <1>1 DEF AllIdle
<1>4. state = "idle" => (AllIdle(kind) => AllIdle(kind)')
  BY <1>1 DEF AllIdle
<1> QED
  BY <1>2, <1>3, <1>4 DEF Same

\* A step that leaves the timers alone and starts no callback for one.
Quiet ==
  /\ UNCHANGED timerVars
  /\ cb' \in {"cfun", "drop"} => cb \in {"cfun", "drop"}
  /\ cb' \in SelfTestCallback => cb \in SelfTestCallback
  /\ tpc' \in {"raise", "start"} => tpc \in {"raise", "start"}

LEMMA QuietStep ==
  ASSUME TInv, Quiet
  PROVE  TInv'
<1> USE DEF Quiet, timerVars, TInv
<1>1. TimerTypes' /\ HandleKinds'
  BY DEF TimerTypes, HandleKinds
<1>2. \A k \in Kinds : Present(k)' = Present(k) /\ Repeated(k)' = Repeated(k) /\ AllIdle(k)' = AllIdle(k)
  BY DEF Present, Repeated, AllIdle
<1>3. /\ Present("attach")' = Present("attach") /\ Repeated("attach")' = Repeated("attach")
      /\ AllIdle("attach")' = AllIdle("attach")
      /\ Present("self")' = Present("self") /\ Repeated("self")' = Repeated("self")
      /\ AllIdle("self")' = AllIdle("self")
  BY <1>2 DEF Kinds
<1>4. AttachOnce' /\ SelfOnce'
  BY <1>3 DEF AttachOnce, SelfOnce
<1>5. MisuseNeedsRepeat'
  BY <1>3 DEF MisuseNeedsRepeat
<1> QED
  BY <1>1, <1>4, <1>5

\* The steps of the task and of the timer service that are such steps.
LEMMA QuietSteps ==
  ASSUME \/ UartInit \/ EventGet \/ SnRequest \/ Ignore \/ StoreSn \/ QuietCount
         \/ SelfTest \/ RaiseSelfTest \/ Restart
         \/ TestTries \/ TestEven \/ TestOdd \/ SendGeneral \/ SendAir
         \/ ResetModule \/ CfunOne \/ ClearSelfTest
         \/ (\E type \in FrameTypes : UartFrame(type)) \/ UNCHANGED vars
  PROVE  Quiet
<1> USE DEF Quiet, timerVars, taskVars, SelfTestCallback
<1>1. CASE UartInit \/ EventGet \/ SnRequest \/ Ignore
  BY <1>1 DEF UartInit, EventGet, SnRequest, Ignore
<1>2. CASE StoreSn \/ QuietCount \/ SelfTest \/ RaiseSelfTest \/ Restart
  BY <1>2 DEF StoreSn, QuietCount, SelfTest, RaiseSelfTest, Restart
<1>3. CASE TestTries \/ TestEven \/ TestOdd \/ ResetModule \/ CfunOne \/ ClearSelfTest
  BY <1>3 DEF TestTries, TestEven, TestOdd, ResetModule, CfunOne, ClearSelfTest
<1>6. CASE SendGeneral \/ SendAir
  BY <1>6 DEF SendGeneral, SendAir, SendRequest
<1>4. CASE \E type \in FrameTypes : UartFrame(type)
  BY <1>4 DEF UartFrame
<1>5. CASE UNCHANGED vars
  BY <1>5 DEF vars
<1> QED
  BY <1>1, <1>2, <1>3, <1>4, <1>5, <1>6

\* A timer is created; who keeps its handle decides on the rest.
LEMMA NewStep ==
  ASSUME TInv, NEW kind \in Kinds, NEW state \in States, NewTimer(kind, state),
         misuse' = misuse
  PROVE  /\ timers' \in Seq(Timer) /\ Len(timers') = Len(timers) + 1
         /\ \A t \in DOMAIN timers : timers'[t] = timers[t]
         /\ timers'[Len(timers) + 1].kind = kind /\ timers'[Len(timers) + 1].state = state
         /\ misuse' \in BOOLEAN /\ MisuseNeedsRepeat'
<1>1. timers \in Seq(Timer)
  BY DEF TInv, TimerTypes
<1>2. timers'[Len(timers) + 1] = [kind |-> kind, state |-> state]
  BY <1>1, NewTimerFacts
<1>3. \A k \in Kinds : Repeated(k) => Repeated(k)'
  BY <1>1, NewKeeps
<1>4. (Repeated("attach") => Repeated("attach")') /\ (Repeated("self") => Repeated("self")')
  BY <1>3 DEF Kinds
<1>5. MisuseNeedsRepeat'
  BY <1>4 DEF TInv, MisuseNeedsRepeat
<1>6. timers'[Len(timers) + 1].kind = kind /\ timers'[Len(timers) + 1].state = state
  BY <1>2
<1> QED
  BY <1>1, <1>5, <1>6, NewTimerFacts DEF TInv

\* A timer is started, stopped or freed.  That is a misuse only if it is freed.
LEMMA SetStep ==
  ASSUME TInv, NEW h \in 0..Len(timers), NEW state \in States, SetTimer(h, state)
  PROVE  /\ timers' \in Seq(Timer) /\ misuse' \in BOOLEAN
         /\ (Repeated("attach") => Repeated("attach")') /\ (Repeated("self") => Repeated("self")')
         /\ (Present("attach") => Present("attach")') /\ (Present("self") => Present("self")')
         /\ \A t \in DOMAIN timers : timers'[t].kind = timers[t].kind
         /\ misuse' # misuse => h # 0 /\ timers[h].state = "freed"
         /\ h # 0 => \A k \in Kinds : timers[h].kind # k \/ state = "idle" => Same(k)
         /\ h = 0 => \A k \in Kinds : Same(k)
         /\ \A t \in DOMAIN timers : timers[t].state # "freed" /\ (t # h \/ state # "freed") =>
              timers'[t].state # "freed"
         /\ Len(timers') = Len(timers)
<1>1. timers \in Seq(Timer) /\ h \in Nat
  BY DEF TInv, TimerTypes
<1>2. CASE h = 0
  <2>1. UNCHANGED <<timers, misuse>>
    BY <1>2 DEF SetTimer
  <2>2. \A k \in Kinds : Same(k)
    BY <2>1 DEF Same, Present, Repeated, AllIdle
  <2> QED
    BY <1>2, <2>1, <2>2 DEF TInv, TimerTypes, Present, Repeated
<1>3. CASE h # 0
  <2>1. h \in DOMAIN timers
    BY <1>1, <1>3
  <2>2. PICK kind \in Kinds : timers[h].kind = kind
    <3>1. timers[h] \in Timer
      BY <1>1, <2>1
    <3>2. timers[h].kind \in Kinds
      BY <3>1 DEF Timer
    <3> QED
      BY <3>2
  <2>3. /\ \A k \in Kinds : (Present(k) => Present(k)') /\ (Repeated(k) => Repeated(k)')
        /\ \A k \in Kinds \ {kind} : Same(k)
        /\ state = "idle" => Same(kind)
    BY <1>1, <2>1, <2>2, SetKeeps
  <2>4. /\ timers' \in Seq(Timer) /\ Len(timers') = Len(timers)
        /\ DOMAIN timers' = DOMAIN timers
        /\ \A t \in DOMAIN timers : timers'[t].kind = timers[t].kind
        /\ \A t \in DOMAIN timers \ {h} : timers'[t] = timers[t]
        /\ timers[h].state # "freed" => timers'[h].state = state /\ misuse' = misuse
        /\ timers[h].state = "freed" => timers' = timers /\ misuse' = TRUE
    BY <1>1, <2>1, SetTimerFacts
  <2>5. misuse' \in BOOLEAN
    BY <2>4 DEF TInv
  <2>6. \A k \in Kinds : timers[h].kind # k \/ state = "idle" => Same(k)
    BY <2>2, <2>3
  <2>7. /\ (Repeated("attach") => Repeated("attach")') /\ (Repeated("self") => Repeated("self")')
        /\ (Present("attach") => Present("attach")') /\ (Present("self") => Present("self")')
    BY <2>3 DEF Kinds
  <2>8. \A t \in DOMAIN timers : timers[t].state # "freed" /\ (t # h \/ state # "freed") =>
          timers'[t].state # "freed"
    BY <2>4
  <2> QED
    BY <1>3, <2>1, <2>4, <2>5, <2>6, <2>7, <2>8
<1> QED
  BY <1>2, <1>3

-----------------------------------------------------------------------------

LEMMA FuncInitStep ==
  ASSUME TInv, FuncInit
  PROVE  TInv'
<1>1. "sn" \in Kinds /\ "armed" \in States
  BY DEF Kinds, States
<1>2. timers \in Seq(Timer) /\ NewTimer("sn", "armed") /\ misuse' = misuse
  BY DEF FuncInit, TInv, TimerTypes
<1>3. /\ timers' \in Seq(Timer) /\ Len(timers') = Len(timers) + 1
      /\ \A t \in DOMAIN timers : timers'[t] = timers[t]
      /\ timers'[Len(timers) + 1].kind = "sn" /\ timers'[Len(timers) + 1].state = "armed"
      /\ misuse' \in BOOLEAN /\ MisuseNeedsRepeat'
  BY <1>1, <1>2, NewStep
<1>4. \A k \in Kinds \ {"sn"} : Same(k)
  BY <1>1, <1>2, NewKeeps
<1>5. Same("attach") /\ Same("self")
  BY <1>4 DEF Kinds
<1>6. TimerTypes' /\ HandleKinds'
  BY <1>2, <1>3 DEF FuncInit, TInv, TimerTypes, HandleKinds
<1>7. AttachOnce' /\ SelfOnce'
  BY <1>5 DEF FuncInit, TInv, AttachOnce, SelfOnce, Same
<1> QED
  BY <1>3, <1>6, <1>7 DEF TInv

\* The task stops and frees the timer of the requests, whose handle it keeps
\* until then.
LEMMA SnTimerStep ==
  ASSUME TInv, StopSnTimer \/ FreeSnTimer
  PROVE  TInv'
<1>1. PICK h \in 0..Len(timers) : h = sn_timer
  BY DEF TInv, TimerTypes
<1>2. PICK state \in States : SetTimer(h, state) /\ (state = "freed" => sn_timer' = 0)
  BY <1>1 DEF StopSnTimer, FreeSnTimer, States
<1>3. timers \in Seq(Timer) /\ h \in Nat
  BY DEF TInv, TimerTypes
<1>4. /\ timers' \in Seq(Timer) /\ Len(timers') = Len(timers) /\ misuse' \in BOOLEAN
      /\ \A t \in DOMAIN timers : timers'[t].kind = timers[t].kind
      /\ misuse' # misuse => h # 0 /\ timers[h].state = "freed"
      /\ \A t \in DOMAIN timers : timers[t].state # "freed" /\ (t # h \/ state # "freed") =>
           timers'[t].state # "freed"
      /\ (Repeated("attach") => Repeated("attach")') /\ (Repeated("self") => Repeated("self")')
  BY <1>2, SetStep
<1>5. h # 0 => h \in DOMAIN timers /\ timers[h].kind = "sn" /\ timers[h].state # "freed"
  BY <1>1, <1>3 DEF TInv, HandleKinds
<1>6. Same("attach") /\ Same("self")
  <2>1. h # 0 => \A k \in Kinds : timers[h].kind # k \/ state = "idle" => Same(k)
    BY <1>2, SetStep
  <2>2. h = 0 => \A k \in Kinds : Same(k)
    BY <1>2, SetStep
  <2> QED
    BY <1>5, <2>1, <2>2 DEF Kinds
<1>7. misuse' = misuse /\ UNCHANGED <<timer_id, self_test_timer, cb>> /\ sn_timer' \in {sn_timer, 0}
      /\ tpc' \notin {"raise", "start"}
  BY <1>4, <1>5 DEF StopSnTimer, FreeSnTimer
<1>8. TimerTypes'
  BY <1>3, <1>4, <1>7 DEF TInv, TimerTypes
<1>9. HandleKinds'
  <2>1. \A t \in 1..Len(timers) : timers'[t].kind = timers[t].kind
    BY <1>3, <1>4
  <2>2. (timer_id # 0 => timers'[timer_id].kind = "attach")
        /\ (self_test_timer # 0 => timers'[self_test_timer].kind = "self")
    BY <1>3, <2>1 DEF TInv, TimerTypes, HandleKinds
  <2>3. sn_timer' # 0 => timers'[sn_timer'].kind = "sn" /\ timers'[sn_timer'].state # "freed"
    BY <1>1, <1>2, <1>4, <1>5, <1>7
  <2> QED
    BY <1>7, <2>2, <2>3 DEF HandleKinds
<1>10. AttachOnce' /\ SelfOnce'
  BY <1>6, <1>7 DEF TInv, AttachOnce, SelfOnce, Same
<1>11. MisuseNeedsRepeat'
  BY <1>4, <1>7 DEF TInv, MisuseNeedsRepeat
<1> QED
  BY <1>4, <1>8, <1>9, <1>10, <1>11 DEF TInv

\* A timer that is not the one of the requests is started, stopped or freed.
LEMMA OtherTimer ==
  ASSUME TInv, NEW h \in 0..Len(timers), NEW state \in States, SetTimer(h, state),
         NEW kind \in {"attach", "self"}, h # 0 => timers[h].kind = kind,
         UNCHANGED <<sn_timer, timer_id, self_test_timer>>
  PROVE  /\ TimerTypes' /\ HandleKinds' /\ misuse' \in BOOLEAN
         /\ (Repeated("attach") => Repeated("attach")') /\ (Repeated("self") => Repeated("self")')
         /\ (Present("attach") => Present("attach")') /\ (Present("self") => Present("self")')
         /\ misuse' # misuse => h # 0 /\ timers[h].state = "freed"
         /\ \A k \in Kinds : k # kind \/ state = "idle" => (AllIdle(k) => AllIdle(k)')
<1>1. timers \in Seq(Timer) /\ h \in Nat
  BY DEF TInv, TimerTypes
<1>2. /\ timers' \in Seq(Timer) /\ Len(timers') = Len(timers)
      /\ \A t \in DOMAIN timers : timers'[t].kind = timers[t].kind
      /\ \A t \in DOMAIN timers : timers[t].state # "freed" /\ (t # h \/ state # "freed") =>
           timers'[t].state # "freed"
  BY SetStep
<1>3. \A k \in Kinds : k # kind \/ state = "idle" => Same(k)
  <2>1. h # 0 => \A k \in Kinds : timers[h].kind # k \/ state = "idle" => Same(k)
    BY SetStep
  <2>2. h = 0 => \A k \in Kinds : Same(k)
    BY SetStep
  <2> QED
    BY <2>1, <2>2
<1>4. TimerTypes'
  BY <1>1, <1>2 DEF TInv, TimerTypes
<1>5. HandleKinds'
  <2>1. \A t \in 1..Len(timers) : timers'[t].kind = timers[t].kind
    BY <1>1, <1>2
  <2>2. /\ sn_timer # 0 => timers'[sn_timer].kind = "sn"
        /\ timer_id # 0 => timers'[timer_id].kind = "attach"
        /\ self_test_timer # 0 => timers'[self_test_timer].kind = "self"
    BY <1>1, <2>1 DEF TInv, TimerTypes, HandleKinds
  <2>3. sn_timer # 0 => sn_timer \in DOMAIN timers /\ timers[sn_timer].state # "freed" /\ sn_timer # h
    BY <1>1 DEF TInv, TimerTypes, HandleKinds
  <2>4. sn_timer # 0 => timers'[sn_timer].state # "freed"
    BY <1>2, <2>3
  <2> QED
    BY <2>2, <2>4 DEF HandleKinds
<1>6. \A k \in Kinds : k # kind \/ state = "idle" => (AllIdle(k) => AllIdle(k)')
  BY <1>3 DEF Same
<1>7. /\ misuse' \in BOOLEAN /\ (misuse' # misuse => h # 0 /\ timers[h].state = "freed")
      /\ (Repeated("attach") => Repeated("attach")') /\ (Repeated("self") => Repeated("self")')
      /\ (Present("attach") => Present("attach")') /\ (Present("self") => Present("self")')
  BY SetStep
<1> QED
  BY <1>4, <1>5, <1>6, <1>7

\* The timer of ght_attach_start, whose handle takes the place of the last one.
LEMMA AttachStartStep ==
  ASSUME TInv, AttachStart
  PROVE  TInv'
<1>1. CASE NewTimer("attach", "armed") /\ timer_id' = Len(timers) + 1
  <2>1. "attach" \in Kinds /\ "armed" \in States
    BY DEF Kinds, States
  <2>2. timers \in Seq(Timer) /\ misuse' = misuse
    BY DEF AttachStart, TInv, TimerTypes
  <2>3. /\ timers' \in Seq(Timer) /\ Len(timers') = Len(timers) + 1
        /\ \A t \in DOMAIN timers : timers'[t] = timers[t]
        /\ timers'[Len(timers) + 1].kind = "attach"
        /\ misuse' \in BOOLEAN /\ MisuseNeedsRepeat'
    BY <1>1, <2>1, <2>2, NewStep
  <2>4. /\ \A k \in Kinds \ {"attach"} : Same(k)
        /\ Present("attach")' /\ (Present("attach") => Repeated("attach")')
    BY <1>1, <2>1, <2>2, NewKeeps
  <2>5. Same("self")
    BY <2>4 DEF Kinds
  <2>6. TimerTypes' /\ HandleKinds'
    BY <1>1, <2>2, <2>3 DEF AttachStart, TInv, TimerTypes, HandleKinds
  <2>7. AttachOnce' /\ SelfOnce'
    BY <2>4, <2>5 DEF AttachStart, TInv, AttachOnce, SelfOnce, Same
  <2> QED
    BY <2>3, <2>6, <2>7 DEF TInv
<1>2. CASE UNCHANGED timers /\ timer_id' \in {timer_id, 0}
  <2>1. /\ Present("attach")' = Present("attach") /\ Repeated("attach")' = Repeated("attach")
        /\ AllIdle("attach")' = AllIdle("attach")
        /\ Present("self")' = Present("self") /\ Repeated("self")' = Repeated("self")
        /\ AllIdle("self")' = AllIdle("self")
    BY <1>2 DEF Present, Repeated, AllIdle
  <2>2. TimerTypes' /\ HandleKinds'
    BY <1>2 DEF AttachStart, TInv, TimerTypes, HandleKinds
  <2>3. AttachOnce' /\ SelfOnce' /\ MisuseNeedsRepeat'
    BY <2>1 DEF AttachStart, TInv, AttachOnce, SelfOnce, MisuseNeedsRepeat
  <2> QED
    BY <2>2, <2>3 DEF TInv, AttachStart
<1> QED
  BY <1>1, <1>2 DEF AttachStart

\* The access switch creates a timer before the callback of the last one is
\* over only if there was one.
LEMMA CreateSelfTestStep ==
  ASSUME TInv, CreateSelfTest
  PROVE  TInv'
<1>1. "self" \in Kinds /\ "idle" \in States
  BY DEF Kinds, States
<1>2. timers \in Seq(Timer) /\ NewTimer("self", "idle") /\ misuse' = misuse
  BY DEF CreateSelfTest, TInv, TimerTypes
<1>3. /\ timers' \in Seq(Timer) /\ Len(timers') = Len(timers) + 1
      /\ \A t \in DOMAIN timers : timers'[t] = timers[t]
      /\ timers'[Len(timers) + 1].kind = "self"
      /\ misuse' \in BOOLEAN /\ MisuseNeedsRepeat'
  BY <1>1, <1>2, NewStep
<1>4. /\ \A k \in Kinds \ {"self"} : Same(k)
      /\ Present("self")' /\ (Present("self") => Repeated("self")')
      /\ ~Present("self") => AllIdle("self")'
  BY <1>1, <1>2, NewKeeps
<1>5. Same("attach")
  BY <1>4 DEF Kinds
<1>6. TimerTypes' /\ HandleKinds'
  BY <1>2, <1>3 DEF CreateSelfTest, TInv, TimerTypes, HandleKinds
<1>7. AttachOnce' /\ SelfOnce'
  BY <1>4, <1>5 DEF CreateSelfTest, TInv, AttachOnce, SelfOnce, Same
<1> QED
  BY <1>3, <1>6, <1>7 DEF TInv

\* ... and starts it when no callback is under way, or there are two.
LEMMA StartSelfTestStep ==
  ASSUME TInv, StartSelfTest
  PROVE  TInv'
<1>1. PICK h \in 0..Len(timers) : h = self_test_timer
  BY DEF TInv, TimerTypes
<1>2. /\ SetTimer(h, "armed") /\ UNCHANGED <<sn_timer, timer_id, self_test_timer, cb>>
      /\ tpc = "start" /\ tpc' = "get"
  BY <1>1 DEF StartSelfTest
<1>3. "armed" \in States /\ (h # 0 => timers[h].kind = "self")
  BY <1>1 DEF States, TInv, HandleKinds
<1>4. /\ TimerTypes' /\ HandleKinds' /\ misuse' \in BOOLEAN
      /\ (Repeated("attach") => Repeated("attach")') /\ (Repeated("self") => Repeated("self")')
      /\ (Present("attach") => Present("attach")') /\ (Present("self") => Present("self")')
      /\ misuse' # misuse => h # 0 /\ timers[h].state = "freed"
      /\ \A k \in Kinds : k # "self" => (AllIdle(k) => AllIdle(k)')
  BY <1>2, <1>3, OtherTimer
<1>5. AllIdle("attach") => AllIdle("attach")'
  BY <1>4 DEF Kinds
<1>6. misuse' # misuse => Repeated("self")
  <2>1. h # 0 => h \in DOMAIN timers
    BY DEF TInv, TimerTypes
  <2>2. h # 0 /\ AllIdle("self") => timers[h].state = "idle"
    BY <1>3, <2>1 DEF AllIdle
  <2> QED
    BY <1>2, <1>4, <2>2 DEF TInv, SelfOnce
<1>7. AttachOnce' /\ SelfOnce'
  BY <1>2, <1>4, <1>5 DEF TInv, AttachOnce, SelfOnce
<1>8. MisuseNeedsRepeat'
  BY <1>4, <1>6 DEF TInv, MisuseNeedsRepeat
<1> QED
  BY <1>4, <1>7, <1>8 DEF TInv

\* The attach callback frees the timer named by the handle.
LEMMA FreeAttachStep ==
  ASSUME TInv, FreeAttachTimer
  PROVE  TInv'
<1>1. PICK h \in 0..Len(timers) : h = timer_id
  BY DEF TInv, TimerTypes
<1>2. /\ SetTimer(h, "freed") /\ UNCHANGED <<sn_timer, timer_id, self_test_timer, tpc>>
      /\ cb = "drop" /\ cb' = "idle"
  BY <1>1 DEF FreeAttachTimer, taskVars
<1>3. "freed" \in States /\ (h # 0 => timers[h].kind = "attach")
  BY <1>1 DEF States, TInv, HandleKinds
<1>4. /\ TimerTypes' /\ HandleKinds' /\ misuse' \in BOOLEAN
      /\ (Repeated("attach") => Repeated("attach")') /\ (Repeated("self") => Repeated("self")')
      /\ (Present("attach") => Present("attach")') /\ (Present("self") => Present("self")')
      /\ misuse' # misuse => h # 0 /\ timers[h].state = "freed"
      /\ \A k \in Kinds : k # "attach" => (AllIdle(k) => AllIdle(k)')
  BY <1>2, <1>3, OtherTimer
<1>5. AllIdle("self") => AllIdle("self")'
  BY <1>4 DEF Kinds
<1>6. misuse' # misuse => Repeated("attach")
  <2>1. h # 0 => h \in DOMAIN timers
    BY DEF TInv, TimerTypes
  <2>2. h # 0 /\ AllIdle("attach") => timers[h].state = "idle"
    BY <1>3, <2>1 DEF AllIdle
  <2> QED
    BY <1>2, <1>4, <2>2 DEF TInv, AttachOnce
<1>7. AttachOnce' /\ SelfOnce'
  BY <1>2, <1>4, <1>5 DEF TInv, AttachOnce, SelfOnce, SelfTestCallback
<1>8. MisuseNeedsRepeat'
  BY <1>4, <1>6 DEF TInv, MisuseNeedsRepeat
<1> QED
  BY <1>4, <1>7, <1>8 DEF TInv

\* The self-test callback stops and frees the timer named by its handle.
LEMMA EndSelfTestStep ==
  ASSUME TInv, StopSelfTestTimer \/ FreeSelfTestTimer
  PROVE  TInv'
<1>1. PICK h \in 0..Len(timers) : h = self_test_timer
  BY DEF TInv, TimerTypes
<1>2. PICK state \in {"idle", "freed"} :
        /\ SetTimer(h, state) /\ UNCHANGED <<sn_timer, timer_id, self_test_timer, tpc>>
        /\ cb \in SelfTestCallback /\ cb' = IF state = "idle" THEN "release" ELSE "idle"
  <2>1. CASE StopSelfTestTimer
    BY <1>1, <2>1 DEF StopSelfTestTimer, taskVars, SelfTestCallback
  <2>2. CASE FreeSelfTestTimer
    BY <1>1, <2>2 DEF FreeSelfTestTimer, taskVars, SelfTestCallback
  <2> QED
    BY <2>1, <2>2
<1>3. state \in States /\ (h # 0 => timers[h].kind = "self")
  BY <1>1 DEF States, TInv, HandleKinds
<1>4. /\ TimerTypes' /\ HandleKinds' /\ misuse' \in BOOLEAN
      /\ (Repeated("attach") => Repeated("attach")') /\ (Repeated("self") => Repeated("self")')
      /\ (Present("attach") => Present("attach")') /\ (Present("self") => Present("self")')
      /\ misuse' # misuse => h # 0 /\ timers[h].state = "freed"
      /\ \A k \in Kinds : k # "self" \/ state = "idle" => (AllIdle(k) => AllIdle(k)')
  BY <1>2, <1>3, OtherTimer
<1>5. /\ AllIdle("attach") => AllIdle("attach")'
      /\ state = "idle" /\ AllIdle("self") => AllIdle("self")'
  BY <1>4 DEF Kinds
<1>6. misuse' # misuse => Repeated("self")
  <2>1. h # 0 => h \in DOMAIN timers
    BY DEF TInv, TimerTypes
  <2>2. h # 0 /\ AllIdle("self") => timers[h].state = "idle"
    BY <1>3, <2>1 DEF AllIdle
  <2> QED
    BY <1>2, <1>4, <2>2 DEF TInv, SelfOnce
<1>7. AttachOnce'
  BY <1>2, <1>4, <1>5 DEF TInv, AttachOnce
<1>8. SelfOnce'
  BY <1>2, <1>4, <1>5 DEF TInv, SelfOnce, SelfTestCallback
<1>9. MisuseNeedsRepeat'
  BY <1>4, <1>6 DEF TInv, MisuseNeedsRepeat
<1> QED
  BY <1>4, <1>7, <1>8, <1>9 DEF TInv

\* A timer expires: it is idle from here on, unless it is periodic.
LEMMA ExpireStep ==
  ASSUME TInv, NEW t \in DOMAIN timers, Expire(t)
  PROVE  TInv'
<1>1. timers \in Seq(Timer) /\ t \in 0..Len(timers) /\ t # 0 /\ timers[t].state = "armed" /\ cb = "idle"
  BY DEF TInv, TimerTypes, Expire
<1>2. UNCHANGED <<tpc, sn_timer, timer_id, self_test_timer, misuse>>
  BY DEF Expire, taskVars
<1>3. CASE timers[t].kind = "sn"
  <2>1. Quiet
    BY <1>1, <1>2, <1>3 DEF Expire, Quiet, timerVars, SelfTestCallback
  <2> QED
    BY <2>1, QuietStep
<1>4. ASSUME NEW kind \in {"attach", "self"}, timers[t].kind = kind
      PROVE  TInv'
  <2>1. timers' = [timers EXCEPT ![t].state = "idle"]
    BY <1>4 DEF Expire
  <2>2. SetTimer(t, "idle") /\ "idle" \in States
    BY <1>1, <1>2, <2>1 DEF SetTimer, States
  <2>3. /\ TimerTypes' /\ HandleKinds' /\ misuse' \in BOOLEAN
        /\ (Repeated("attach") => Repeated("attach")') /\ (Repeated("self") => Repeated("self")')
        /\ (Present("attach") => Present("attach")') /\ (Present("self") => Present("self")')
        /\ \A k \in Kinds : AllIdle(k) => AllIdle(k)'
    BY <1>1, <1>2, <1>4, <2>2, OtherTimer
  <2>4. (AllIdle("attach") => AllIdle("attach")') /\ (AllIdle("self") => AllIdle("self")')
    BY <2>3 DEF Kinds
  <2>5. Present(kind) /\ ~AllIdle(kind)
    BY <1>1, <1>4 DEF Present, AllIdle
  <2>6. Repeated(kind) \/ AllIdle(kind)'
    BY <1>1, <1>4, <2>1 DEF Repeated, AllIdle, Timer
  <2>7. MisuseNeedsRepeat'
    BY <1>2, <2>3 DEF TInv, MisuseNeedsRepeat
  <2>8. CASE kind = "attach"
    <3>1. cb' = "cfun"
      BY <1>4, <2>8 DEF Expire
    <3>2. AttachOnce' /\ SelfOnce'
      BY <1>1, <1>2, <2>3, <2>4, <2>5, <2>6, <2>8, <3>1
         DEF TInv, AttachOnce, SelfOnce, SelfTestCallback
    <3> QED
      BY <2>3, <2>7, <3>2 DEF TInv
  <2>9. CASE kind = "self"
    <3>1. cb' = "clear"
      BY <1>4, <2>9 DEF Expire
    <3>2. AttachOnce' /\ SelfOnce'
      BY <1>1, <1>2, <2>3, <2>4, <2>5, <2>6, <2>9, <3>1
         DEF TInv, AttachOnce, SelfOnce, SelfTestCallback
    <3> QED
      BY <2>3, <2>7, <3>2 DEF TInv
  <2> QED
    BY <2>8, <2>9
<1> QED
  BY <1>3, <1>4 DEF Expire

LEMMA TimersStep ==
  ASSUME TInv, [Next]_vars
  PROVE  TInv'
<1>1. CASE \/ UartInit \/ EventGet \/ SnRequest \/ Ignore \/ StoreSn \/ QuietCount
           \/ SelfTest \/ RaiseSelfTest \/ Restart
           \/ TestTries \/ TestEven \/ TestOdd \/ SendGeneral \/ SendAir
           \/ ResetModule \/ CfunOne \/ ClearSelfTest
           \/ (\E type \in FrameTypes : UartFrame(type)) \/ UNCHANGED vars
  BY <1>1, QuietSteps, QuietStep
<1>2. CASE \/ FuncInit \/ StopSnTimer \/ FreeSnTimer \/ AttachStart \/ CreateSelfTest
           \/ StartSelfTest
  BY <1>2, FuncInitStep, SnTimerStep, AttachStartStep, CreateSelfTestStep, StartSelfTestStep
<1>3. CASE FreeAttachTimer \/ StopSelfTestTimer \/ FreeSelfTestTimer
  BY <1>3, FreeAttachStep, EndSelfTestStep
<1>4. CASE \E t \in DOMAIN timers : Expire(t)
  BY <1>4, ExpireStep
<1> QED
  BY <1>1, <1>2, <1>3, <1>4 DEF Next, Task, TimerService

\* A timer that has been freed is used only after the appliance has sent a
\* second SN or a second access switch (mideaapp.c:412, 169).
THEOREM MisuseOnlyRepeated == Spec => []MisuseNeedsRepeat
<1>1. Init => TInv
  <2> SUFFICES ASSUME Init PROVE TInv
    OBVIOUS
  <2>1. TimerTypes /\ HandleKinds
    BY DEF Init, TimerTypes, HandleKinds
  <2>2. AttachOnce /\ SelfOnce /\ MisuseNeedsRepeat /\ misuse \in BOOLEAN
    BY DEF Init, AttachOnce, SelfOnce, SelfTestCallback, MisuseNeedsRepeat
  <2> QED
    BY <2>1, <2>2 DEF TInv
<1>2. TInv /\ [Next]_vars => TInv'
  BY TimersStep
<1>3. TInv => MisuseNeedsRepeat
  BY DEF TInv
<1> QED
  BY <1>1, <1>2, <1>3, PTL DEF Spec

-----------------------------------------------------------------------------
(* The requests *)

\* The count says that the SN is known, or is about to.
SnKnown == sn_valid => count = NoMore \/ tpc = "quiet"

\* A request is added too late only once the count says so, by the one callback
\* that had decided on it.
LateOnce ==
  /\ late \in {0, 1}
  /\ count # NoMore \/ Asking => late = 0

QInv == SnKnown /\ LateOnce

\* Once the count says so it says so for ever, and no test of it decides to ask.
LEMMA RequestStep ==
  ASSUME QInv, [Next]_vars
  PROVE  /\ QInv'
         /\ sent' # sent => ~sn_valid
         /\ count = NoMore /\ Asking' => Asking
<1> USE DEF QInv, SnKnown, LateOnce, Asking
<1>1. CASE SnRequest
  BY <1>1 DEF SnRequest
<1>2. CASE EventGet \/ StoreSn \/ SelfTest \/ QuietCount
  BY <1>2 DEF EventGet, StoreSn, SelfTest, QuietCount
<1>3. CASE TestTries \/ TestEven \/ TestOdd
  BY <1>3, CountAssumption DEF TestTries, TestEven, TestOdd, taskVars
<1>4. CASE SendGeneral \/ SendAir
  BY <1>4 DEF SendGeneral, SendAir, SendRequest
<1>5. ASSUME NEW type \in FrameTypes, UartFrame(type)
      PROVE  QInv' /\ sent' = sent /\ cb' = cb
  BY <1>5 DEF UartFrame
<1>6. CASE UartInit \/ FuncInit \/ Ignore \/ StopSnTimer \/ FreeSnTimer
  BY <1>6 DEF UartInit, FuncInit, Ignore, StopSnTimer, FreeSnTimer
<1>7. CASE AttachStart \/ CreateSelfTest \/ RaiseSelfTest \/ StartSelfTest \/ Restart
  BY <1>7 DEF AttachStart, CreateSelfTest, RaiseSelfTest, StartSelfTest, Restart, taskVars
<1>8. CASE \/ ResetModule \/ CfunOne \/ FreeAttachTimer
           \/ ClearSelfTest \/ StopSelfTestTimer \/ FreeSelfTestTimer \/ UNCHANGED vars
  BY <1>8 DEF ResetModule, CfunOne, FreeAttachTimer, ClearSelfTest, StopSelfTestTimer,
              FreeSelfTestTimer, vars, taskVars
<1>9. CASE \E t \in DOMAIN timers : Expire(t)
  BY <1>9 DEF Expire, taskVars
<1> QED
  BY <1>1, <1>2, <1>3, <1>4, <1>5, <1>6, <1>7, <1>8, <1>9 DEF Next, Task, TimerService

\* Once the SN is stored no request goes out; once the count says so the timer
\* callback does not decide on one, and at most the one it had decided on before
\* still joins the list (mideaapp.c:125-140, 467, 649).
THEOREM RequestsStopWithSn == Spec => RequestsStop
<1>1. Init => QInv
  BY CountAssumption DEF Init, QInv, SnKnown, LateOnce, Asking
<1>2. QInv /\ [Next]_vars => QInv'
  BY RequestStep
<1>3. QInv /\ [Next]_vars =>
        [/\ sent' # sent => ~sn_valid
         /\ count = NoMore /\ Asking' => Asking
         /\ late' <= 1]_vars
  <2>1. QInv' => late' <= 1
    BY DEF QInv, LateOnce
  <2> QED
    BY <2>1, RequestStep
<1> QED
  BY <1>1, <1>2, <1>3, PTL DEF Spec, RequestsStop

=============================================================================
