----------------------------- MODULE MqttProofs -----------------------------
(***************************************************************************)
(* Proofs about MqttReconnect and AliyunRegister, for any number of        *)
(* threads, connections and closes.                                        *)
(*                                                                         *)
(* MqttReconnect: the inductive invariant counts the contexts that hold a  *)
(* place: the threads that have not created their successor, and the entry *)
(* of the application and the callback while they create a thread.  A      *)
(* thread hands its place on, and only CLOSE_RSP adds one.                 *)
(* Until the first close there is one place at most; where its thread is   *)
(* says what has become of the response it asked for.                      *)
(*                                                                         *)
(* AliyunRegister: a connection that was used to register can only be lost *)
(* to the count by a refusal or by a close, which takes the flag down;     *)
(* that and where a thread is while it registers make the invariant        *)
(* inductive.                                                              *)
(***************************************************************************)
EXTENDS AliyunRegister, FiniteSetTheorems, TLAPS

-----------------------------------------------------------------------------
(* MqttReconnect *)

Owes(p) == IF pc[p] \in Creating THEN 1 ELSE 0

Claims == Cardinality(Current) + Owes(Main) + Owes(Callback)

ClaimsBounded == Claims <= 1 + closes

IInv == TypeOK /\ NeverAbandoned /\ ClaimsBounded

-----------------------------------------------------------------------------

\* The current threads are a finite set, whatever the state.
LEMMA CurrentFinite == IsFiniteSet(Current) /\ Cardinality(Current) \in Nat
BY ThreadsAssumption, FS_Subset, FS_CardinalityType DEF Current

\* The initial state has no thread and one place, that of the entry.
LEMMA InitIInv == Init => IInv
<1> SUFFICES ASSUME Init PROVE IInv
  OBVIOUS
<1>1. TypeOK
  <2>1. pc \in [Threads \cup {Main, Callback} -> Places]
    BY DEF Init, Places, Creating
  <2>a. pc[Main] = "stop" /\ pc[Callback] = "idle"
    BY ContextAssumption DEF Init
  <2>b. \A t \in Threads : pc[t] = "free"
    BY ContextAssumption DEF Init
  <2>2. /\ signals = 0 /\ connecting = 0 /\ subscribing = 0 /\ sessions = 0
        /\ connects \in 0..MaxConnects /\ closes \in 0..MaxCloses
    BY BoundAssumption DEF Init
  <2>3. /\ run \in BOOLEAN /\ quit \in BOOLEAN /\ connect_res_result \in BOOLEAN
        /\ g_lock \in BOOLEAN /\ refused \in BOOLEAN
    BY DEF Init
  <2> QED BY <2>1, <2>a, <2>b, <2>2, <2>3 DEF TypeOK, Working, Creating
<1>2. Current = {} /\ pc[Main] = "stop" /\ pc[Callback] = "idle"
  BY ContextAssumption DEF Init, Current, Working, Creating
<1>3. NeverAbandoned
  BY <1>2 DEF NeverAbandoned
<1>4. ClaimsBounded
  BY <1>2, FS_EmptySet DEF ClaimsBounded, Claims, Owes, Creating, Init
<1> QED BY <1>1, <1>3, <1>4 DEF IInv

\* A step of one context that neither hands its place on nor takes one.
LEMMA PlainStep ==
  ASSUME IInv, NEW p \in Threads \cup {Main, Callback}, NEW from, NEW to, At(p, from, to),
         p \in Threads => ((from \in Working \cup Creating) <=> (to \in Working \cup Creating)),
         p \notin Threads => ((from \in Creating) <=> (to \in Creating)),
         p = Main => to # "done",
         closes' \in Nat, closes' >= closes
  PROVE  NeverAbandoned' /\ ClaimsBounded'
<1>1. /\ pc[p] = from /\ pc' = [pc EXCEPT ![p] = to]
      /\ pc'[p] = to /\ DOMAIN pc = Threads \cup {Main, Callback}
      /\ \A q \in Threads \cup {Main, Callback} : q # p => pc'[q] = pc[q]
  BY DEF At, IInv, TypeOK
<1>2. Current' = Current
  BY <1>1, ContextAssumption DEF Current
<1>3. Owes(Main)' = Owes(Main) /\ Owes(Callback)' = Owes(Callback)
  BY <1>1, ContextAssumption DEF Owes
<1>4. Owes(Main) \in Nat /\ Owes(Callback) \in Nat /\ closes \in Nat
  BY BoundAssumption DEF Owes, IInv, TypeOK
<1>5. ClaimsBounded'
  <2>1. Claims' = Claims
    BY <1>2, <1>3 DEF Claims
  <2>2. Claims \in Nat
    BY <1>4, CurrentFinite DEF Claims
  <2>3. Claims <= 1 + closes
    BY DEF ClaimsBounded, IInv
  <2>4. Claims' <= 1 + closes'
    <3> DEFINE n == Claims
               c == closes'
    <3>1. n \in Nat /\ c \in Nat /\ n <= 1 + closes /\ c >= closes /\ closes \in Nat
      BY <2>2, <2>3, <1>4
    <3> HIDE DEF n, c
    <3>2. n <= 1 + c
      BY <3>1
    <3> QED BY <3>2, <2>1 DEF n, c
  <2> QED BY <2>4 DEF ClaimsBounded
<1>6. pc'[Main] = "done" => pc[Main] = "done"
  BY <1>1
<1>7. NeverAbandoned'
  BY <1>2, <1>6 DEF NeverAbandoned, IInv
<1> QED BY <1>5, <1>7

\* A context that creates a thread gives it its place.
LEMMA CreateStep ==
  ASSUME IInv, NEW p \in Threads \cup {Main, Callback}, CreateThread(p)
  PROVE  NeverAbandoned' /\ ClaimsBounded'
<1>1. PICK t \in Threads : pc[t] = "free" /\ pc' = [pc EXCEPT ![t] = "new", ![p] = After(p)]
  BY DEF CreateThread, Free, NextFree
<1>2. /\ pc[p] = "create" /\ p # t /\ t # Main /\ t # Callback
      /\ pc'[t] = "new" /\ pc'[p] = After(p)
      /\ \A q \in Threads \cup {Main, Callback} : q # p /\ q # t => pc'[q] = pc[q]
  BY <1>1, ContextAssumption DEF CreateThread, IInv, TypeOK
<1>3. t \in Current' /\ t \notin Current
  BY <1>1, <1>2 DEF Current, Working, Creating
<1>4. closes' = closes /\ closes \in Nat
  BY BoundAssumption DEF CreateThread, core, IInv, TypeOK
<1>5. Claims' = Claims
  <2>1. CASE p \in Threads
    <3>1. Owes(Main)' = Owes(Main) /\ Owes(Callback)' = Owes(Callback)
      BY <1>2, <2>1, ContextAssumption DEF Owes
    <3>2. After(p) = "end"
      BY <2>1, ContextAssumption DEF After
    <3>3. Current' = (Current \ {p}) \cup {t} /\ p \in Current
      BY <1>1, <1>2, <3>2, <2>1 DEF Current, Working, Creating
    <3>4. Cardinality(Current') = Cardinality(Current)
      <4>1. /\ IsFiniteSet(Current \ {p})
            /\ Cardinality(Current \ {p}) = Cardinality(Current) - 1
        BY <3>3, CurrentFinite, FS_RemoveElement
      <4>2. Cardinality((Current \ {p}) \cup {t}) = Cardinality(Current \ {p}) + 1
        BY <4>1, <1>3, FS_AddElement
      <4> QED BY <4>1, <4>2, <3>3, CurrentFinite
    <3> QED BY <3>1, <3>4 DEF Claims
  <2>2. CASE p \in {Main, Callback}
    <3>1. After(p) \in {"done", "idle"}
      BY <2>2 DEF After
    <3>2. Current' = Current \cup {t}
      BY <1>1, <1>2, <2>2, ContextAssumption DEF Current, Working, Creating
    <3>3. Cardinality(Current') = Cardinality(Current) + 1
      BY <3>2, <1>3, CurrentFinite, FS_AddElement
    <3>4. /\ Owes(p) = 1 /\ Owes(p)' = 0
          /\ \A q \in {Main, Callback} \ {p} : Owes(q)' = Owes(q)
      BY <1>2, <3>1, <2>2 DEF Owes, Creating
    <3>5. Owes(Main) \in Nat /\ Owes(Callback) \in Nat
      BY DEF Owes
    <3>6. Owes(Main)' + Owes(Callback)' = Owes(Main) + Owes(Callback) - 1
      BY <3>4, <3>5, <2>2, ContextAssumption
    <3>7. Owes(Main)' \in Nat /\ Owes(Callback)' \in Nat
      BY DEF Owes
    <3> QED BY <3>3, <3>5, <3>6, <3>7, CurrentFinite DEF Claims
  <2> QED BY <2>1, <2>2
<1>6. ClaimsBounded'
  BY <1>4, <1>5 DEF ClaimsBounded, IInv
<1> QED BY <1>3, <1>6 DEF NeverAbandoned

\* A close gives the callback a place.
LEMMA CloseStep ==
  ASSUME IInv, CloseRsp
  PROVE  NeverAbandoned' /\ ClaimsBounded'
<1>1. /\ pc[Callback] = "idle" /\ pc'[Callback] = "stop"
      /\ \A q \in Threads \cup {Main} : pc'[q] = pc[q]
  BY ContextAssumption DEF CloseRsp, At, IInv, TypeOK
<1>2. Current' = Current
  BY <1>1 DEF Current
<1>3. /\ Owes(Main)' = Owes(Main) /\ Owes(Main) \in Nat
      /\ Owes(Callback) = 0 /\ Owes(Callback)' = 1
  BY <1>1 DEF Owes, Creating
<1>4. closes' = closes + 1 /\ closes \in Nat
  BY BoundAssumption DEF CloseRsp, IInv, TypeOK
<1>5. Claims' = Claims + 1
  BY <1>2, <1>3, CurrentFinite DEF Claims
<1>6. Claims \in Nat
  BY <1>3, CurrentFinite DEF Claims
<1>7. ClaimsBounded'
  BY <1>4, <1>5, <1>6 DEF ClaimsBounded, IInv
<1> QED BY <1>1, <1>2, <1>7 DEF NeverAbandoned, IInv

\* The type of a step of create_mqtt_connect.
LEMMA CreateConnectType ==
  ASSUME TypeOK, NEW p \in Threads \cup {Main, Callback}, CreateConnect(p)
  PROVE  TypeOK'
<1> USE ContextAssumption DEF TypeOK, Places, Working, Creating, flags, sem, core
<1>1. CASE StopRunning(p)
  BY <1>1 DEF StopRunning, At
<1>2. CASE ZeroResult(p)
  BY <1>2 DEF ZeroResult, At
<1>3. CASE SeeQuit(p)
  BY <1>3 DEF SeeQuit, At
<1>4. CASE CreateThread(p)
  <2>1. PICK t \in Threads : pc[t] = "free" /\ pc' = [pc EXCEPT ![t] = "new", ![p] = After(p)]
    BY <1>4 DEF CreateThread, Free, NextFree
  <2>2. UNCHANGED <<flags, sem, core>>
    BY <1>4 DEF CreateThread
  <2>3. p # t /\ After(p) = IF p = Main THEN "done" ELSE IF p = Callback THEN "idle" ELSE "end"
    BY <1>4, <2>1 DEF CreateThread, After
  <2> QED
    BY <2>1, <2>2, <2>3
<1> QED BY <1>1, <1>2, <1>3, <1>4 DEF CreateConnect

\* The type of a step of a thread's own code.
LEMMA ThreadType ==
  ASSUME TypeOK, NEW t \in Threads, Thread(t)
  PROVE  TypeOK'
<1> USE ContextAssumption, BoundAssumption DEF TypeOK, Places, Working, Creating, flags, sem, core
<1>1. CASE ClearQuit(t)
  BY <1>1 DEF ClearQuit, At
<1>2. CASE SetRun(t)
  BY <1>2 DEF SetRun, At
<1>3. CASE CreateLock(t)
  BY <1>3 DEF CreateLock, At
<1>4. CASE Connect(t)
  BY <1>4 DEF Connect, At
<1>5. CASE SemWait(t)
  BY <1>5 DEF SemWait, At
<1>6. CASE Subscribe(t)
  BY <1>6 DEF Subscribe, At
<1>7. CASE GiveUp(t)
  BY <1>7 DEF GiveUp, At
<1>8. CASE SeeStop(t)
  BY <1>8 DEF SeeStop, At
<1>9. CASE SetQuit(t)
  BY <1>9 DEF SetQuit, At
<1>10. CASE Delete(t)
  BY <1>10 DEF Delete, At
<1>11. CASE CreateConnect(t)
  BY <1>11, CreateConnectType
<1> QED BY <1>1, <1>2, <1>3, <1>4, <1>5, <1>6, <1>7, <1>8, <1>9, <1>10, <1>11 DEF Thread

\* The type of a step of the callback's own code.
LEMMA SignalsType ==
  ASSUME TypeOK, Signals
  PROVE  TypeOK'
<1> USE ContextAssumption, BoundAssumption DEF TypeOK, Places, Working, Creating, flags, sem, core
<1>1. ASSUME NEW ok \in BOOLEAN, ConnectRsp(ok) PROVE TypeOK'
  BY <1>1 DEF ConnectRsp, At
<1>2. CASE SubRsp
  BY <1>2 DEF SubRsp, At
<1>3. CASE Signal
  BY <1>3 DEF Signal, At
<1>4. CASE CloseRsp
  BY <1>4 DEF CloseRsp, At
<1>5. CASE CreateConnect(Callback)
  BY <1>5, CreateConnectType
<1> QED BY <1>1, <1>2, <1>3, <1>4, <1>5 DEF Signals

\* Every step of create_mqtt_connect keeps the count.
LEMMA CreateConnectCounts ==
  ASSUME IInv, NEW p \in Threads \cup {Main, Callback}, CreateConnect(p)
  PROVE  NeverAbandoned' /\ ClaimsBounded'
<1> USE DEF Creating, Working, core
<1>0. closes \in Nat
  BY BoundAssumption DEF IInv, TypeOK
<1>1. CASE StopRunning(p)
  <2>1. At(p, "stop", "zero") /\ closes' = closes
    BY <1>1 DEF StopRunning
  <2> QED BY <2>1, <1>0, PlainStep
<1>2. CASE ZeroResult(p)
  <2>1. At(p, "zero", "poll") /\ closes' = closes
    BY <1>2 DEF ZeroResult
  <2> QED BY <2>1, <1>0, PlainStep
<1>3. CASE SeeQuit(p)
  <2>1. At(p, "poll", "create") /\ closes' = closes
    BY <1>3 DEF SeeQuit
  <2> QED BY <2>1, <1>0, PlainStep
<1>4. CASE CreateThread(p)
  BY <1>4, CreateStep
<1> QED BY <1>1, <1>2, <1>3, <1>4 DEF CreateConnect

\* Every step of a thread keeps the count: its own code only moves its place on.
LEMMA ThreadCounts ==
  ASSUME IInv, NEW t \in Threads, Thread(t)
  PROVE  NeverAbandoned' /\ ClaimsBounded'
<1>0. closes \in Nat /\ t # Main
  BY BoundAssumption, ContextAssumption DEF IInv, TypeOK
<1>1. CASE ClearQuit(t)
  <2>1. At(t, "new", "up") /\ closes' = closes
    BY <1>1 DEF ClearQuit, core
  <2> QED BY <2>1, <1>0, PlainStep DEF Creating, Working
<1>2. CASE SetRun(t)
  <2>1. At(t, "up", "lock") /\ closes' = closes
    BY <1>2 DEF SetRun, core
  <2> QED BY <2>1, <1>0, PlainStep DEF Creating, Working
<1>3. CASE CreateLock(t)
  <2>1. At(t, "lock", "connect") /\ closes' = closes
    BY <1>3 DEF CreateLock, core
  <2> QED BY <2>1, <1>0, PlainStep DEF Creating, Working
<1>4. CASE Connect(t)
  <2>1. At(t, "connect", "sem") /\ closes' = closes
    BY <1>4 DEF Connect, core
  <2> QED BY <2>1, <1>0, PlainStep DEF Creating, Working
<1>5. CASE SemWait(t)
  <2>1. At(t, "sem", "judge") /\ closes' = closes
    BY <1>5 DEF SemWait, core
  <2> QED BY <2>1, <1>0, PlainStep DEF Creating, Working
<1>6. CASE Subscribe(t)
  <2>1. At(t, "judge", "loop") /\ closes' = closes
    BY <1>6 DEF Subscribe, core
  <2> QED BY <2>1, <1>0, PlainStep DEF Creating, Working
<1>7. CASE GiveUp(t)
  <2>1. At(t, "judge", "loop") /\ closes' = closes
    BY <1>7 DEF GiveUp, core
  <2> QED BY <2>1, <1>0, PlainStep DEF Creating, Working
<1>8. CASE SeeStop(t)
  <2>1. At(t, "loop", "quit") /\ closes' = closes
    BY <1>8 DEF SeeStop, core
  <2> QED BY <2>1, <1>0, PlainStep DEF Creating, Working
<1>9. CASE SetQuit(t)
  <2>1. At(t, "quit", "stop") /\ closes' = closes
    BY <1>9 DEF SetQuit, core
  <2> QED BY <2>1, <1>0, PlainStep DEF Creating, Working
<1>10. CASE Delete(t)
  <2>1. At(t, "end", "free") /\ closes' = closes
    BY <1>10 DEF Delete, core
  <2> QED BY <2>1, <1>0, PlainStep DEF Creating, Working
<1>11. CASE CreateConnect(t)
  BY <1>11, CreateConnectCounts
<1> QED BY <1>1, <1>2, <1>3, <1>4, <1>5, <1>6, <1>7, <1>8, <1>9, <1>10, <1>11 DEF Thread

\* Of the signals only CLOSE_RSP changes the count.
LEMMA SignalsCount ==
  ASSUME IInv, Signals
  PROVE  NeverAbandoned' /\ ClaimsBounded'
<1> USE DEF Creating, Working
<1>0. closes \in Nat /\ Callback # Main /\ Callback \notin Threads
  BY BoundAssumption, ContextAssumption DEF IInv, TypeOK
<1>1. ASSUME NEW ok \in BOOLEAN, ConnectRsp(ok) PROVE NeverAbandoned' /\ ClaimsBounded'
  <2>1. At(Callback, "idle", "signal") /\ closes' = closes
    BY <1>1 DEF ConnectRsp
  <2> QED BY <2>1, <1>0, PlainStep
<1>2. CASE SubRsp
  <2>1. At(Callback, "idle", "signal") /\ closes' = closes
    BY <1>2 DEF SubRsp
  <2> QED BY <2>1, <1>0, PlainStep
<1>3. CASE Signal
  <2>1. At(Callback, "signal", "idle") /\ closes' = closes
    BY <1>3 DEF Signal, core
  <2> QED BY <2>1, <1>0, PlainStep
<1>4. CASE CloseRsp
  BY <1>4, CloseStep
<1>5. CASE CreateConnect(Callback)
  BY <1>5, CreateConnectCounts
<1> QED BY <1>1, <1>2, <1>3, <1>4, <1>5 DEF Signals

\* The invariant is inductive.
LEMMA StepIInv == IInv /\ [Next]_vars => IInv'
<1> SUFFICES ASSUME IInv, [Next]_vars PROVE IInv'
  OBVIOUS
<1>1. CASE CreateConnect(Main)
  BY <1>1, CreateConnectType, CreateConnectCounts DEF IInv
<1>2. ASSUME NEW t \in Threads, Thread(t) PROVE IInv'
  BY <1>2, ThreadType, ThreadCounts DEF IInv
<1>3. CASE Signals
  BY <1>3, SignalsType, SignalsCount DEF IInv
<1>4. CASE UNCHANGED vars
  BY <1>4 DEF IInv, TypeOK, NeverAbandoned, ClaimsBounded, Claims, Owes, Current,
              vars, flags, sem, core
<1> QED BY <1>1, <1>2, <1>3, <1>4 DEF Next

LEMMA IInvInvariant == Spec => []IInv
<1> QED BY InitIInv, StepIInv, PTL DEF Spec

-----------------------------------------------------------------------------

\* The contexts, the flags and the counters keep their types.
THEOREM TypeCorrect == Spec => []TypeOK
<1>1. IInv => TypeOK
  BY DEF IInv
<1> QED BY <1>1, IInvInvariant, PTL

\* However the contexts interleave, however many connections close: the client
\* always has a thread that will connect again, and each close adds at most one.
THEOREM PopulationBounded == Spec => []Population
<1>1. IInv => Population
  <2> SUFFICES ASSUME IInv PROVE Population
    OBVIOUS
  <2>1. Owes(Main) \in Nat /\ Owes(Callback) \in Nat /\ closes \in Nat
    BY BoundAssumption DEF Owes, IInv, TypeOK
  <2>2. OneMorePerClose
    BY <2>1, CurrentFinite DEF IInv, ClaimsBounded, Claims, OneMorePerClose
  <2> QED BY <2>2 DEF IInv, Population
<1> QED BY <1>1, IInvInvariant, PTL

-----------------------------------------------------------------------------
(* Until the first close there is one thread at most, and where it is says   *)
(* what the responses it has asked for have done.                            *)

\* Nothing is on its way to the semaphore, and nothing is in it.
Silent == connecting = 0 /\ subscribing = 0 /\ signals = 0 /\ pc[Callback] = "idle"

\* One response is on its way or has come, and the result is that of the server.
OneResponse ==
  /\ subscribing = 0
  /\ connecting + signals + (IF pc[Callback] = "signal" THEN 1 ELSE 0) = 1
  /\ connecting = 0 => (connect_res_result <=> ~refused)

\* What the place of the one thread that works or creates another says.
ResponseOf(t) ==
  /\ pc[t] \notin {"sem", "loop"} => Silent
  /\ pc[t] = "sem" => OneResponse
  /\ pc[t] = "judge" => (connect_res_result <=> ~refused)
  /\ pc[t] = "loop" => connecting = 0 /\ (~run => Silent)
  /\ pc[t] \in {"lock", "connect", "sem", "judge"} => run
  /\ pc[t] \in {"connect", "sem"} => g_lock

UntilFirstClose ==
  closes = 0 =>
    /\ pc[Callback] \in {"idle", "signal"}
    /\ pc[Main] \in Creating => Current = {}
    /\ \A s, t \in Current : s = t
    /\ Current = {} => Silent
    /\ \A t \in Current : ResponseOf(t)

\* In the beginning there is none.
LEMMA InitUntilFirstClose == Init => UntilFirstClose
BY ContextAssumption DEF Init, UntilFirstClose, Current, Creating, Working, Silent

\* The successor takes the one place, while nothing is on its way.
LEMMA CreatesAlone ==
  ASSUME TypeOK, UntilFirstClose, closes = 0, NEW p \in Threads \cup {Main}, CreateThread(p)
  PROVE  UntilFirstClose'
<1>1. PICK t \in Threads : pc[t] = "free" /\ pc' = [pc EXCEPT ![t] = "new", ![p] = After(p)]
  BY DEF CreateThread, Free, NextFree
<1>2. /\ pc[p] = "create" /\ p # t /\ t # Main /\ t # Callback /\ p # Callback
      /\ pc'[t] = "new" /\ pc'[p] = After(p)
      /\ \A q \in Threads \cup {Main, Callback} : q # p /\ q # t => pc'[q] = pc[q]
  BY <1>1, ContextAssumption DEF CreateThread, TypeOK
<1>3. After(p) \in {"done", "end"}
  BY <1>2 DEF After
<1>4. Silent
  <2>1. CASE p = Main
    BY <1>2, <2>1 DEF UntilFirstClose, Creating
  <2>2. CASE p \in Threads
    <3>1. p \in Current
      BY <1>2, <2>2 DEF Current, Creating
    <3> QED
      BY <1>2, <3>1 DEF UntilFirstClose, ResponseOf
  <2> QED
    BY <2>1, <2>2
<1>5. Current' \subseteq {t}
  <2>1. \A s \in Current : s = p
    BY <1>2 DEF UntilFirstClose, Current, Creating
  <2>2. ASSUME NEW s \in Threads, s # t, pc'[s] \in Working \cup Creating
        PROVE  FALSE
    <3>1. s # p
      BY <1>2, <1>3, <2>2 DEF Working, Creating
    <3> QED
      BY <1>2, <2>1, <2>2, <3>1 DEF Current
  <2> QED
    BY <2>2 DEF Current
<1>6. pc'[Main] \notin Creating
  <2>1. CASE p = Main
    BY <1>2, <1>3, <2>1 DEF Creating
  <2>2. CASE p \in Threads
    <3>1. p \in Current /\ p # Main
      BY <1>2, <2>2, ContextAssumption DEF Current, Creating
    <3> QED
      BY <1>2, <3>1 DEF UntilFirstClose
  <2> QED
    BY <2>1, <2>2
<1>7. Silent' /\ UNCHANGED closes /\ pc'[Callback] = "idle"
  BY <1>2, <1>4 DEF Silent, CreateThread, sem, core
<1>8. ResponseOf(t)'
  BY <1>2, <1>7 DEF ResponseOf
<1> QED
  BY <1>5, <1>6, <1>7, <1>8 DEF UntilFirstClose

\* A step of a context that stays where it is among those that hold a place: it
\* is enough to look at the thread that holds it.
LEMMA StaysAlone ==
  ASSUME TypeOK, UntilFirstClose, closes = 0, NEW t \in Threads, NEW from, NEW to, At(t, from, to),
         from \in Working \cup Creating, to \in Working \cup Creating,
         ResponseOf(t)'
  PROVE  UntilFirstClose'
<1>1. /\ t \in Current /\ Current' = Current
      /\ pc'[Callback] = pc[Callback] /\ pc'[Main] = pc[Main]
  BY ContextAssumption DEF At, Current, TypeOK
<1>2. \A s \in Current : s = t
  BY <1>1 DEF UntilFirstClose
<1> QED
  BY <1>1, <1>2 DEF UntilFirstClose

\* Its own steps until it asks for its successor.
LEMMA ThreadStays ==
  ASSUME TypeOK, UntilFirstClose, closes = 0, NEW t \in Threads, Thread(t)
  PROVE  UntilFirstClose'
<1>0. pc[t] \in Working \cup Creating => ResponseOf(t)
  BY DEF UntilFirstClose, Current
<1>n. /\ connecting \in Nat /\ signals \in Nat /\ subscribing \in Nat
      /\ connect_res_result \in BOOLEAN /\ refused \in BOOLEAN /\ run \in BOOLEAN
      /\ t # Callback /\ t # Main /\ DOMAIN pc = Threads \cup {Main, Callback}
      /\ pc[Callback] \in {"idle", "signal"}
  BY ContextAssumption DEF TypeOK, UntilFirstClose
<1> USE <1>0, <1>n DEF ResponseOf, Silent, OneResponse, Working, Creating, flags, sem, core
<1>1. CASE ClearQuit(t)
  <2>1. At(t, "new", "up") /\ ResponseOf(t)'
    BY <1>1 DEF ClearQuit, At
  <2> QED BY <2>1, StaysAlone
<1>2. CASE SetRun(t)
  <2>1. At(t, "up", "lock") /\ ResponseOf(t)'
    BY <1>2 DEF SetRun, At
  <2> QED BY <2>1, StaysAlone
<1>3. CASE CreateLock(t)
  <2>1. At(t, "lock", "connect") /\ ResponseOf(t)'
    BY <1>3 DEF CreateLock, At
  <2> QED BY <2>1, StaysAlone
<1>4. CASE Connect(t)
  <2>1. At(t, "connect", "sem") /\ ResponseOf(t)'
    BY <1>4 DEF Connect, At
  <2> QED BY <2>1, StaysAlone
<1>5. CASE SemWait(t)
  <2>1. At(t, "sem", "judge") /\ ResponseOf(t)'
    BY <1>5 DEF SemWait, At
  <2> QED BY <2>1, StaysAlone
<1>6. CASE Subscribe(t)
  <2>1. At(t, "judge", "loop") /\ ResponseOf(t)'
    BY <1>6 DEF Subscribe, At
  <2> QED BY <2>1, StaysAlone
<1>7. CASE GiveUp(t)
  <2>1. At(t, "judge", "loop") /\ ResponseOf(t)'
    BY <1>7 DEF GiveUp, At
  <2> QED BY <2>1, StaysAlone
<1>8. CASE SeeStop(t)
  <2>1. At(t, "loop", "quit") /\ ResponseOf(t)'
    BY <1>8 DEF SeeStop, At
  <2> QED BY <2>1, StaysAlone
<1>9. CASE SetQuit(t)
  <2>1. At(t, "quit", "stop") /\ ResponseOf(t)'
    BY <1>9 DEF SetQuit, At
  <2> QED BY <2>1, StaysAlone
<1>10. CASE StopRunning(t)
  <2>1. At(t, "stop", "zero") /\ ResponseOf(t)'
    BY <1>10 DEF StopRunning, At
  <2> QED BY <2>1, StaysAlone
<1>11. CASE ZeroResult(t)
  <2>1. At(t, "zero", "poll") /\ ResponseOf(t)'
    BY <1>11 DEF ZeroResult, At
  <2> QED BY <2>1, StaysAlone
<1>12. CASE SeeQuit(t)
  <2>1. At(t, "poll", "create") /\ ResponseOf(t)'
    BY <1>12 DEF SeeQuit, At
  <2> QED BY <2>1, StaysAlone
<1>13. CASE CreateThread(t)
  BY <1>13, CreatesAlone
<1>14. CASE Delete(t)
  <2>1. Current' = Current /\ \A s \in Current : pc'[s] = pc[s]
    BY <1>14 DEF Delete, At, Current
  <2>2. pc'[Main] = pc[Main] /\ pc'[Callback] = pc[Callback]
    BY <1>14 DEF Delete, At
  <2> QED BY <1>14, <2>1, <2>2 DEF Delete, UntilFirstClose
<1> QED
  BY <1>1, <1>2, <1>3, <1>4, <1>5, <1>6, <1>7, <1>8, <1>9, <1>10, <1>11, <1>12, <1>13, <1>14
     DEF Thread, CreateConnect

\* The entry of the application, as long as there is no thread.
LEMMA MainAlone ==
  ASSUME TypeOK, UntilFirstClose, closes = 0, CreateConnect(Main)
  PROVE  UntilFirstClose'
<1>1. CASE CreateThread(Main)
  BY <1>1, CreatesAlone
<1>2. CASE StopRunning(Main) \/ ZeroResult(Main) \/ SeeQuit(Main)
  <2>1. /\ pc[Main] \in Creating
        /\ \A s \in Threads \cup {Callback} : pc'[s] = pc[s]
        /\ UNCHANGED <<connecting, subscribing, signals, closes>>
    BY <1>2, ContextAssumption
       DEF StopRunning, ZeroResult, SeeQuit, At, Creating, TypeOK, flags, sem, core
  <2>2. Current' = Current /\ Current = {} /\ Silent
    BY <2>1 DEF Current, UntilFirstClose
  <2> QED
    BY <2>1, <2>2 DEF UntilFirstClose, Silent
<1> QED
  BY <1>1, <1>2 DEF CreateConnect

\* The callback.
LEMMA CallbackAnswers ==
  ASSUME TypeOK, UntilFirstClose, closes = 0, closes' = 0, Signals
  PROVE  UntilFirstClose'
<1>n. /\ connecting \in Nat /\ signals \in Nat /\ subscribing \in Nat
      /\ connect_res_result \in BOOLEAN /\ refused \in BOOLEAN /\ run \in BOOLEAN
      /\ g_lock \in BOOLEAN
      /\ DOMAIN pc = Threads \cup {Main, Callback}
  BY DEF TypeOK
<1>1. ~CloseRsp /\ ~CreateConnect(Callback)
  BY DEF CloseRsp, CreateConnect, StopRunning, ZeroResult, SeeQuit, CreateThread, At,
         UntilFirstClose
<1>2. /\ pc'[Callback] \in {"idle", "signal"}
      /\ \A s \in Threads \cup {Main} : pc'[s] = pc[s]
      /\ UNCHANGED <<run, g_lock>>
  BY <1>1, <1>n, ContextAssumption DEF Signals, ConnectRsp, SubRsp, Signal, At, flags, sem, core
<1>3. Current' = Current
  BY <1>2 DEF Current
<1>4. Current = {} => FALSE
  BY <1>1, <1>n DEF Signals, ConnectRsp, SubRsp, Signal, At, UntilFirstClose, Silent
<1>5. ASSUME NEW t \in Current
      PROVE  ResponseOf(t)'
  <2>1. ResponseOf(t) /\ pc'[t] = pc[t]
    BY <1>2 DEF UntilFirstClose, Current
  <2>2. ASSUME NEW ok \in BOOLEAN, ConnectRsp(ok)
        PROVE  ResponseOf(t)'
    <3>1. connect_res_result' <=> ~refused'
      BY <2>2, Zenon DEF ConnectRsp
    <3>2. pc[t] = "sem" /\ OneResponse
      BY <1>n, <2>1, <2>2 DEF ConnectRsp, ResponseOf, Silent
    <3>3. /\ pc[Callback] = "idle" /\ pc'[Callback] = "signal"
          /\ connecting' = connecting - 1 /\ UNCHANGED <<signals, subscribing>>
      BY <1>n, <2>2 DEF ConnectRsp, At, sem
    <3>4. OneResponse'
      BY <1>n, <3>1, <3>2, <3>3 DEF OneResponse
    <3> QED
      BY <1>2, <2>1, <3>2, <3>4 DEF ResponseOf
  <2>3. CASE SubRsp
    BY <1>2, <1>n, <2>1, <2>3 DEF SubRsp, At, ResponseOf, Silent, OneResponse, sem, flags
  <2>4. CASE Signal
    BY <1>2, <1>n, <2>1, <2>4 DEF Signal, At, ResponseOf, Silent, OneResponse, core, flags
  <2> QED
    BY <1>1, <2>2, <2>3, <2>4 DEF Signals
<1> QED
  BY <1>2, <1>3, <1>4, <1>5 DEF UntilFirstClose

\* Every step keeps it; CLOSE_RSP ends it.
LEMMA StepUntilFirstClose == TypeOK /\ UntilFirstClose /\ [Next]_vars => UntilFirstClose'
<1> SUFFICES ASSUME TypeOK, UntilFirstClose, [Next]_vars, closes' = 0
             PROVE  UntilFirstClose'
  BY DEF UntilFirstClose
<1>1. CASE UNCHANGED vars
  BY <1>1 DEF UntilFirstClose, Current, ResponseOf, Silent, OneResponse, vars, flags, sem, core
<1>2. CASE Next
  <2>1. closes = 0
    BY <1>2, BoundAssumption
       DEF Next, CreateConnect, StopRunning, ZeroResult, SeeQuit, CreateThread, Thread, ClearQuit,
           SetRun, CreateLock, Connect, SemWait, Subscribe, GiveUp, SeeStop, SetQuit, Delete,
           Signals, ConnectRsp, SubRsp, Signal, CloseRsp, core, TypeOK
  <2> QED
    BY <1>2, <2>1, MainAlone, ThreadStays, CallbackAnswers DEF Next
<1> QED
  BY <1>1, <1>2

\* Until the first close a thread gives its connection up only when the server has
\* refused it: each response wakes the thread that asked, and its result is there
\* (GiveUp of prvThreadEntry).
THEOREM GivesUpRightly == Spec => GivesUpWhenRefused
<1>1. Spec => [](TypeOK /\ UntilFirstClose)
  BY TypeCorrect, InitUntilFirstClose, StepUntilFirstClose, PTL DEF Spec
<1>2. TypeOK /\ UntilFirstClose /\ [Next]_vars
        => [\A t \in Threads : GiveUp(t) => refused \/ closes > 0]_vars
  <2> SUFFICES ASSUME TypeOK, UntilFirstClose, NEW t \in Threads, GiveUp(t), closes = 0
               PROVE  refused
    BY BoundAssumption DEF TypeOK
  <2>1. t \in Current /\ pc[t] = "judge" /\ ~connect_res_result
    BY DEF GiveUp, At, Current, Working
  <2> QED
    BY <2>1 DEF UntilFirstClose, ResponseOf, TypeOK
<1> QED
  BY <1>1, <1>2, PTL DEF Spec, GivesUpWhenRefused

-----------------------------------------------------------------------------
(* AliyunRegister *)

Contexts == Threads \cup {Main, Callback}

\* A thread registers in between two steps of its own.
RegistersThere == \A t \in Threads : WillRegister(t) => pc[t] = "connect"

AInv == RegTypeOK /\ RegistersThere /\ FlagOfRegistration /\ DiesByFailure

\* No other thread than p is taken away from where it registers.
OthersStay(p) == \A u \in Threads \ {p} : pc[u] = "connect" => pc'[u] = "connect"

-----------------------------------------------------------------------------

\* In the beginning the flag is down and the entry has not created a thread.
LEMMA InitAInv == AliyunInit => AInv
<1> SUFFICES ASSUME AliyunInit PROVE AInv
  OBVIOUS
<1>1. RegTypeOK
  BY ContextAssumption DEF AliyunInit, Init, RegTypeOK, RegPlaces, Places, Creating, Working
<1>2. FlagOfRegistration
  BY DEF AliyunInit, FlagOfRegistration
<1>3. pc[Main] # "done"
  BY ContextAssumption DEF AliyunInit, Init
<1>4. RegistersThere
  BY DEF AliyunInit, RegistersThere, WillRegister
<1> QED BY <1>1, <1>2, <1>3, <1>4 DEF AInv, DiesByFailure

\* A context that moves on neither leaves the current threads nor ends the entry.
LEMMA MoveKeeps ==
  ASSUME AInv, NEW p \in Contexts, NEW from, NEW to, At(p, from, to),
         p \in Threads /\ from \in Working \cup Creating => to \in Working \cup Creating,
         p = Main => to # "done",
         regFailed' = regFailed
  PROVE  DiesByFailure' /\ OthersStay(p)
<1>1. /\ pc[p] = from /\ pc'[p] = to
      /\ \A q \in Contexts : q # p => pc'[q] = pc[q]
  BY DEF At, AInv, RegTypeOK, Contexts
<1>2. Current \subseteq Current'
  BY <1>1 DEF Current, Contexts
<1>3. pc'[Main] = "done" => pc[Main] = "done"
  BY <1>1 DEF Contexts
<1>4. OthersStay(p)
  BY <1>1 DEF OthersStay, Contexts
<1> QED BY <1>2, <1>3, <1>4 DEF AInv, DiesByFailure

\* A thread that is created is current.
LEMMA CreateKeeps ==
  ASSUME AInv, NEW p \in Contexts, CreateThread(p)
  PROVE  DiesByFailure' /\ OthersStay(p)
<1>1. PICK t \in Threads : pc[t] = "free" /\ pc' = [pc EXCEPT ![t] = "new", ![p] = After(p)]
  BY DEF CreateThread, Free, NextFree
<1>2. p # t /\ pc'[t] = "new"
  BY <1>1, ContextAssumption DEF CreateThread, AInv, RegTypeOK, Contexts
<1>3. t \in Current'
  BY <1>2 DEF Current, Working
<1>4. OthersStay(p)
  BY <1>1 DEF OthersStay, AInv, RegTypeOK
<1> QED BY <1>3, <1>4 DEF DiesByFailure

\* create_mqtt_connect keeps the places and the population.
LEMMA CreateConnectKeeps ==
  ASSUME AInv, NEW p \in Contexts, CreateConnect(p), regFailed' = regFailed
  PROVE  DiesByFailure' /\ OthersStay(p) /\ pc' \in [Contexts -> Places \cup {"secret"}]
<1> USE DEF Creating, Working
<1>0. pc \in [Contexts -> Places \cup {"secret"}]
  BY DEF AInv, RegTypeOK, Contexts
<1>1. CASE StopRunning(p)
  <2>1. At(p, "stop", "zero")
    BY <1>1 DEF StopRunning
  <2> QED BY <2>1, <1>0, MoveKeeps DEF At, Places
<1>2. CASE ZeroResult(p)
  <2>1. At(p, "zero", "poll")
    BY <1>2 DEF ZeroResult
  <2> QED BY <2>1, <1>0, MoveKeeps DEF At, Places
<1>3. CASE SeeQuit(p)
  <2>1. At(p, "poll", "create")
    BY <1>3 DEF SeeQuit
  <2> QED BY <2>1, <1>0, MoveKeeps DEF At, Places
<1>4. CASE CreateThread(p)
  <2>1. pc' \in [Contexts -> Places \cup {"secret"}]
    BY <1>4, <1>0 DEF CreateThread, Free, NextFree, After, Places, Contexts
  <2> QED BY <2>1, <1>4, CreateKeeps
<1> QED BY <1>1, <1>2, <1>3, <1>4 DEF CreateConnect

\* So does the rest of the thread's code.
LEMMA ThreadKeeps ==
  ASSUME AInv, NEW t \in Threads, Thread(t), regFailed' = regFailed
  PROVE  DiesByFailure' /\ OthersStay(t) /\ pc' \in [Contexts -> Places \cup {"secret"}]
<1> USE DEF Creating, Working
<1>0. pc \in [Contexts -> Places \cup {"secret"}] /\ t \in Contexts /\ t # Main
  BY ContextAssumption DEF AInv, RegTypeOK, Contexts
<1>1. CASE CreateConnect(t)
  BY <1>1, <1>0, CreateConnectKeeps
<1>2. ASSUME NEW from, NEW to, At(t, from, to),
             from \in Working \cup Creating => to \in Working \cup Creating,
             to \in Places
      PROVE  DiesByFailure' /\ OthersStay(t) /\ pc' \in [Contexts -> Places \cup {"secret"}]
  BY <1>0, <1>2, MoveKeeps DEF At
<1>3. CASE ClearQuit(t)
  BY <1>3, <1>2 DEF ClearQuit, Places
<1>4. CASE SetRun(t)
  BY <1>4, <1>2 DEF SetRun, Places
<1>5. CASE CreateLock(t)
  BY <1>5, <1>2 DEF CreateLock, Places
<1>6. CASE Connect(t)
  BY <1>6, <1>2 DEF Connect, Places
<1>7. CASE SemWait(t)
  BY <1>7, <1>2 DEF SemWait, Places
<1>8. CASE Subscribe(t)
  BY <1>8, <1>2 DEF Subscribe, Places
<1>9. CASE GiveUp(t)
  BY <1>9, <1>2 DEF GiveUp, Places
<1>10. CASE SeeStop(t)
  BY <1>10, <1>2 DEF SeeStop, Places
<1>11. CASE SetQuit(t)
  BY <1>11, <1>2 DEF SetQuit, Places
<1>12. CASE Delete(t)
  BY <1>12, <1>2 DEF Delete, Places
<1> QED BY <1>1, <1>3, <1>4, <1>5, <1>6, <1>7, <1>8, <1>9, <1>10, <1>11, <1>12 DEF Thread

\* A step that leaves the flag, the registrations and the connections alone.
LEMMA FlagUntouched ==
  ASSUME AInv, regFlag' = regFlag,
         \A t \in Threads : WillRegister(t) => WillRegister(t)',
         UNCHANGED regCore
  PROVE  FlagOfRegistration'
BY DEF AInv, FlagOfRegistration, regCore

\* The registration of a thread.
LEMMA RegistersKeeps ==
  ASSUME AInv, NEW t \in Threads,
         \/ ClearDevice(t) \/ CheckSecret(t) \/ RaiseFlag(t) \/ ClearSecret(t)
         \/ DynamicRegister(t) \/ AwaitSecret(t) \/ CopySecret(t) \/ HasSecret(t)
  PROVE  AInv'
<1>1. regAt \in [Threads -> RegPlaces] /\ regAsked \in Nat /\ regFresh \in Nat /\ regServed \in Nat
  BY DEF AInv, RegTypeOK
<1>2. pc' = pc /\ regFailed' = regFailed
  BY DEF ClearDevice, CheckSecret, RaiseFlag, ClearSecret, DynamicRegister, AwaitSecret,
         CopySecret, HasSecret, vars
<1>3. DiesByFailure'
  BY <1>2 DEF AInv, DiesByFailure, Current
<1>4. RegTypeOK'
  BY <1>1, <1>2 DEF AInv, RegTypeOK, RegPlaces, ClearDevice, CheckSecret, RaiseFlag,
     ClearSecret, DynamicRegister, AwaitSecret, CopySecret, HasSecret, Registers, regCore
<1>5. FlagOfRegistration'
  <2> USE DEF WillRegister
  <2>1. CASE ClearDevice(t)
    BY <2>1, <1>1, FlagUntouched DEF ClearDevice
  <2>2. CASE CheckSecret(t)
    BY <2>2, <1>1, FlagUntouched DEF CheckSecret, Registers
  <2>3. CASE RaiseFlag(t)
    <3>1. WillRegister(t)'
      BY <2>3, <1>1 DEF RaiseFlag, Registers
    <3> QED BY <3>1 DEF FlagOfRegistration
  <2>4. CASE ClearSecret(t)
    BY <2>4, <1>1, FlagUntouched DEF ClearSecret, Registers
  <2>5. CASE DynamicRegister(t)
    <3>1. regAsked' + regFresh' + regServed' > 0
      BY <2>5, <1>1 DEF DynamicRegister
    <3> QED BY <3>1 DEF FlagOfRegistration
  <2>6. CASE AwaitSecret(t)
    BY <2>6, <1>1, FlagUntouched DEF AwaitSecret, Registers
  <2>7. CASE CopySecret(t)
    BY <2>7, <1>1, FlagUntouched DEF CopySecret, Registers
  <2>8. CASE HasSecret(t)
    BY <2>8, <1>1, FlagUntouched DEF HasSecret, Registers
  <2> QED BY <2>1, <2>2, <2>3, <2>4, <2>5, <2>6, <2>7, <2>8
<1>6. RegistersThere'
  BY <1>1, <1>2 DEF AInv, RegistersThere, WillRegister, ClearDevice, CheckSecret, RaiseFlag,
     ClearSecret, DynamicRegister, AwaitSecret, CopySecret, HasSecret, Registers
<1> QED BY <1>3, <1>4, <1>5, <1>6 DEF AInv

\* A thread that fails takes the flag down with it.
LEMMA NoSecretKeeps ==
  ASSUME AInv, NEW t \in Threads, NoSecret(t)
  PROVE  AInv'
<1>1. RegTypeOK'
  BY DEF AInv, RegTypeOK, RegPlaces, Places, NoSecret, Registers, regCore
<1>2. FlagOfRegistration' /\ DiesByFailure'
  BY DEF NoSecret, FlagOfRegistration, DiesByFailure
<1>3. RegistersThere'
  BY DEF AInv, RegTypeOK, RegistersThere, WillRegister, NoSecret, Registers
<1> QED BY <1>1, <1>2, <1>3 DEF AInv

\* The rest of the thread leaves the registration alone until it is deleted.
LEMMA RestKeeps ==
  ASSUME AInv, NEW t \in Threads, RestOfThread(t)
  PROVE  AInv'
<1>1. DiesByFailure' /\ OthersStay(t) /\ pc' \in [Contexts -> Places \cup {"secret"}]
  BY ThreadKeeps DEF RestOfThread
<1>2. regAt \in [Threads -> RegPlaces]
  BY DEF AInv, RegTypeOK
<1>3. RegTypeOK'
  BY <1>1, <1>2 DEF AInv, RegTypeOK, RegPlaces, Contexts, RestOfThread, regCore
<1>4. ~WillRegister(t) /\ \A u \in Threads : WillRegister(u)' <=> WillRegister(u)
  <2>1. ~WillRegister(t)
    <3>1. pc[t] # "connect" => ~WillRegister(t)
      BY DEF AInv, RegistersThere
    <3>2. pc[t] = "connect" => ~WillRegister(t)
      BY DEF RestOfThread, WillRegister
    <3> QED BY <3>1, <3>2
  <2> QED BY <2>1, <1>2 DEF RestOfThread, WillRegister
<1>5. FlagOfRegistration'
  BY <1>4, FlagUntouched DEF RestOfThread
<1>6. RegistersThere'
  BY <1>1, <1>4 DEF AInv, RegistersThere, OthersStay
<1> QED BY <1>1, <1>3, <1>5, <1>6 DEF AInv

-----------------------------------------------------------------------------

\* What the callback does with the connections of the registrations.
LEMMA CallbackKeeps ==
  ASSUME AInv,
         \/ \E ok \in BOOLEAN : RegisterRsp(ok)
         \/ SecretComes \/ SecretSignal \/ ClosePassedOver \/ CloseReplaces
  PROVE  AInv'
<1>0. /\ pc \in [Contexts -> Places \cup {"secret"}] /\ Callback \in Contexts
      /\ Callback # Main /\ Callback \notin Threads
      /\ regAsked \in Nat /\ regFresh \in Nat /\ regServed \in Nat
  BY ContextAssumption DEF AInv, RegTypeOK, Contexts
<1> USE DEF Creating
<1>6. ASSUME regAt' = regAt, OthersStay(Callback) PROVE RegistersThere'
  BY <1>6, <1>0 DEF AInv, RegistersThere, WillRegister, OthersStay
<1>1. ASSUME NEW ok \in BOOLEAN, RegisterRsp(ok) PROVE AInv'
  <2>1. At(Callback, "idle", "signal") /\ regFailed' = regFailed /\ regAt' = regAt
    BY <1>1 DEF RegisterRsp, regThread
  <2>2. DiesByFailure' /\ OthersStay(Callback)
    BY <2>1, <1>0, MoveKeeps
  <2>3. RegTypeOK'
    BY <2>1, <1>1, <1>0 DEF AInv, RegTypeOK, RegisterRsp, At, Places, Contexts
  <2>4. FlagOfRegistration'
    <3>1. CASE ok
      <4>1. regAsked' + regFresh' + regServed' > 0
        BY <3>1, <1>1, <1>0 DEF RegisterRsp
      <4> QED BY <4>1 DEF FlagOfRegistration
    <3>2. CASE ~ok
      BY <3>2, <1>1 DEF RegisterRsp, FlagOfRegistration
    <3> QED BY <3>1, <3>2
  <2>5. RegistersThere'
    BY <2>1, <2>2, <1>6
  <2> QED BY <2>2, <2>3, <2>4, <2>5 DEF AInv
<1>2. CASE SecretComes
  <2>1. At(Callback, "idle", "secret") /\ regFailed' = regFailed /\ regAt' = regAt
    BY <1>2 DEF SecretComes, regThread
  <2>2. DiesByFailure' /\ OthersStay(Callback)
    BY <2>1, <1>0, MoveKeeps
  <2>3. RegTypeOK'
    BY <2>1, <1>2, <1>0 DEF AInv, RegTypeOK, SecretComes, At, Contexts
  <2>4. FlagOfRegistration'
    <3>1. regAsked' + regFresh' + regServed' > 0
      BY <1>2, <1>0 DEF SecretComes
    <3> QED BY <3>1 DEF FlagOfRegistration
  <2>5. RegistersThere'
    BY <2>1, <2>2, <1>6
  <2> QED BY <2>2, <2>3, <2>4, <2>5 DEF AInv
<1>3. CASE SecretSignal
  <2>1. At(Callback, "secret", "idle") /\ regFailed' = regFailed /\ regAt' = regAt
    BY <1>3 DEF SecretSignal, regThread
  <2>2. DiesByFailure' /\ OthersStay(Callback)
    BY <2>1, <1>0, MoveKeeps
  <2>3. RegTypeOK'
    BY <2>1, <1>3, <1>0 DEF AInv, RegTypeOK, SecretSignal, At, Places, Contexts, regCore
  <2>4. FlagOfRegistration'
    BY <2>1, <1>3, FlagUntouched DEF SecretSignal, WillRegister
  <2>5. RegistersThere'
    BY <2>1, <2>2, <1>6
  <2> QED BY <2>2, <2>3, <2>4, <2>5 DEF AInv
<1>4. CASE ClosePassedOver
  <2>1. pc' = pc /\ regFailed' = regFailed /\ regAt' = regAt
    BY <1>4 DEF ClosePassedOver, CloseOne, regThread
  <2>2. DiesByFailure'
    BY <2>1 DEF AInv, DiesByFailure, Current
  <2>3. RegTypeOK'
    BY <2>1, <1>4, <1>0 DEF AInv, RegTypeOK, ClosePassedOver, CloseOne
  <2>4. FlagOfRegistration'
    BY <1>4 DEF ClosePassedOver, FlagOfRegistration
  <2>5. RegistersThere'
    BY <2>1 DEF AInv, RegistersThere, WillRegister
  <2> QED BY <2>2, <2>3, <2>4, <2>5 DEF AInv
<1>5. CASE CloseReplaces
  <2>1. At(Callback, "idle", "stop") /\ regFailed' = regFailed /\ regAt' = regAt
    BY <1>5 DEF CloseReplaces, CloseOne, regThread
  <2>2. DiesByFailure' /\ OthersStay(Callback)
    BY <2>1, <1>0, MoveKeeps
  <2>3. RegTypeOK'
    BY <2>1, <1>5, <1>0 DEF AInv, RegTypeOK, CloseReplaces, CloseOne, At, Places, Contexts
  <2>4. FlagOfRegistration'
    BY <1>5 DEF CloseReplaces, FlagOfRegistration
  <2>5. RegistersThere'
    BY <2>1, <2>2, <1>6
  <2> QED BY <2>2, <2>3, <2>4, <2>5 DEF AInv
<1> QED BY <1>1, <1>2, <1>3, <1>4, <1>5

\* The signals that have nothing to do with a registration.
LEMMA PlainSignalKeeps ==
  ASSUME AInv, UNCHANGED regVars,
         \/ \E ok \in BOOLEAN : ConnectRsp(ok)
         \/ SubRsp \/ Signal \/ CreateConnect(Callback) \/ CreateConnect(Main)
  PROVE  AInv'
<1> DEFINE Stay == \A u \in Threads : pc[u] = "connect" => pc'[u] = "connect"
<1>0. /\ pc \in [Contexts -> Places \cup {"secret"}]
      /\ Callback \in Contexts /\ Main \in Contexts /\ Callback # Main
      /\ Callback \notin Threads /\ Main \notin Threads
      /\ regFailed' = regFailed
  BY ContextAssumption DEF AInv, RegTypeOK, Contexts, regVars
<1>1. DiesByFailure' /\ Stay /\ pc' \in [Contexts -> Places \cup {"secret"}]
  <2>1. ASSUME NEW from, NEW to, At(Callback, from, to), to \in Places
        PROVE  DiesByFailure' /\ Stay /\ pc' \in [Contexts -> Places \cup {"secret"}]
    BY <1>0, <2>1, MoveKeeps DEF At, OthersStay
  <2>2. ASSUME NEW ok \in BOOLEAN, ConnectRsp(ok)
        PROVE  DiesByFailure' /\ Stay /\ pc' \in [Contexts -> Places \cup {"secret"}]
    BY <2>2, <2>1 DEF ConnectRsp, Places
  <2>3. CASE SubRsp
    BY <2>3, <2>1 DEF SubRsp, Places
  <2>4. CASE Signal
    BY <2>4, <2>1 DEF Signal, Places
  <2>5. CASE CreateConnect(Callback) \/ CreateConnect(Main)
    BY <2>5, <1>0, CreateConnectKeeps DEF OthersStay
  <2> QED BY <2>2, <2>3, <2>4, <2>5
<1>2. RegTypeOK'
  BY <1>1 DEF AInv, RegTypeOK, Contexts, regVars, regThread, regCore
<1>3. FlagOfRegistration'
  BY FlagUntouched DEF regVars, regThread, WillRegister
<1>4. RegistersThere'
  BY <1>1 DEF AInv, RegistersThere, WillRegister, regVars, regThread
<1> QED BY <1>1, <1>2, <1>3, <1>4 DEF AInv

\* The invariant is inductive.
LEMMA StepAInv == AInv /\ [AliyunNext]_aliyunVars => AInv'
<1> SUFFICES ASSUME AInv, [AliyunNext]_aliyunVars PROVE AInv'
  OBVIOUS
<1>1. CASE CreateConnect(Main) /\ UNCHANGED regVars
  BY <1>1, PlainSignalKeeps
<1>2. ASSUME NEW t \in Threads, AliyunThread(t) PROVE AInv'
  BY <1>2, RegistersKeeps, NoSecretKeeps, RestKeeps DEF AliyunThread
<1>3. CASE AliyunSignals
  BY <1>3, CallbackKeeps, PlainSignalKeeps DEF AliyunSignals
<1>4. CASE UNCHANGED aliyunVars
  BY <1>4 DEF AInv, RegTypeOK, RegistersThere, FlagOfRegistration, WillRegister, DiesByFailure, Current,
              aliyunVars, vars, regVars, regThread, regCore
<1> QED BY <1>1, <1>2, <1>3, <1>4 DEF AliyunNext

-----------------------------------------------------------------------------

\* However many threads register at a time, whatever the server does: the flag
\* that passes over a close belongs to a registration, and the client dies out
\* only by a registration that failed.
THEOREM RegistrationsSettle == AliyunSpec => []RegistrationSettled
<1>1. AInv => RegistrationSettled
  BY DEF AInv, RegistrationSettled
<1> QED BY <1>1, InitAInv, StepAInv, PTL DEF AliyunSpec

=============================================================================
