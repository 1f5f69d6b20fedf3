---------------------------- MODULE MqttReconnect ----------------------------
(***************************************************************************)
(* The MQTT client of oc_mqtt_demo.c: a thread that connects, subscribes   *)
(* and then runs until the connection closes, and that is replaced by a    *)
(* new thread whenever it ends.                                            *)
(*                                                                         *)
(* create_mqtt_connect runs in three contexts: the entry of the            *)
(* application, the signal callback (when the connection has closed) and   *)
(* the ending thread itself.  It asks the thread that runs to quit, waits  *)
(* for the flag that says so and creates the next one.  While the callback *)
(* waits there, no other signal is delivered.                              *)
(***************************************************************************)
EXTENDS Integers, FiniteSets

CONSTANTS
  Threads,       \* room for threads: a thread that is deleted makes room again
  Main,          \* appimg_enter
  Callback,      \* user_signal_process, called for one signal at a time
  MaxConnects,   \* bound: connections the MQTT core accepts to open
  MaxCloses      \* bound: connections that close

ASSUME ContextAssumption == Main # Callback /\ {Main, Callback} \cap Threads = {}
ASSUME ThreadsAssumption == IsFiniteSet(Threads)
ASSUME BoundAssumption == MaxConnects \in Nat /\ MaxCloses \in Nat

VARIABLES
  pc,            \* where each context is
  run, quit,     \* the flags
  connect_res_result,
  g_lock,        \* the semaphore has been created
  signals,       \* its count
  connecting,    \* connections whose response is outstanding
  subscribing,   \* subscriptions whose response is outstanding
  sessions,      \* open connections
  connects,      \* connections accepted so far
  closes,        \* connections closed so far
  refused        \* history: the server has refused the latest connection

flags  == <<run, quit, connect_res_result>>
sem    == <<g_lock, signals>>
core   == <<connecting, subscribing, sessions, connects, closes, refused>>
vars   == <<pc, flags, sem, core>>

Init ==
  /\ pc = [p \in Threads \cup {Main, Callback} |->
             IF p = Main THEN "stop" ELSE IF p = Callback THEN "idle" ELSE "free"]
  /\ run = FALSE
  /\ quit = TRUE
  /\ connect_res_result = FALSE
  /\ g_lock = FALSE
  /\ signals = 0
  /\ connecting = 0
  /\ subscribing = 0
  /\ sessions = 0
  /\ connects = 0
  /\ closes = 0
  /\ refused = FALSE

At(p, from, to) == pc[p] = from /\ pc' = [pc EXCEPT ![p] = to]

-----------------------------------------------------------------------------
(* create_mqtt_connect, in context p *)

StopRunning(p) ==
  /\ At(p, "stop", "zero")
  /\ run' = FALSE
  /\ UNCHANGED <<quit, connect_res_result, sem, core>>

ZeroResult(p) ==
  /\ At(p, "zero", "poll")
  /\ connect_res_result' = FALSE
  /\ UNCHANGED <<run, quit, sem, core>>

SeeQuit(p) ==
  /\ At(p, "poll", "create")
  /\ quit
  /\ UNCHANGED <<flags, sem, core>>

\* Where the context goes on after the call.
After(p) == IF p = Main THEN "done" ELSE IF p = Callback THEN "idle" ELSE "end"

\* Threads that do not exist; it does not matter which of them is created.
Free     == {t \in Threads : pc[t] = "free"}
NextFree == CHOOSE t \in Free : TRUE

\* Faulty variant: a thread that ends leaves it to the callback to create the next.
CreateThreadElsewhere(p) ==
  /\ pc[p] = "create"
  /\ Free # {}
  /\ pc' = IF p \in Threads THEN [pc EXCEPT ![p] = After(p)]
           ELSE [pc EXCEPT ![NextFree] = "new", ![p] = After(p)]
  /\ UNCHANGED <<flags, sem, core>>

CreateThread(p) ==
  /\ pc[p] = "create"
  /\ Free # {}
  /\ pc' = [pc EXCEPT ![NextFree] = "new", ![p] = After(p)]
  /\ UNCHANGED <<flags, sem, core>>

CreateConnect(p) == StopRunning(p) \/ ZeroResult(p) \/ SeeQuit(p) \/ CreateThread(p)

-----------------------------------------------------------------------------
(* prvThreadEntry *)

ClearQuit(t) ==
  /\ At(t, "new", "up")
  /\ quit' = FALSE
  /\ UNCHANGED <<run, connect_res_result, sem, core>>

SetRun(t) ==
  /\ At(t, "up", "lock")
  /\ run' = TRUE
  /\ UNCHANGED <<quit, connect_res_result, sem, core>>

\* The semaphore is created once; then the thread waits for the network.
CreateLock(t) ==
  /\ At(t, "lock", "connect")
  /\ g_lock' = TRUE
  /\ UNCHANGED <<flags, signals, core>>

\* fibo_mqtt_connect, which is repeated until the core accepts to connect.
Connect(t) ==
  /\ connects < MaxConnects
  /\ At(t, "connect", "sem")
  /\ connecting' = connecting + 1
  /\ connects' = connects + 1
  /\ UNCHANGED <<flags, sem, subscribing, sessions, closes, refused>>

SemWait(t) ==
  /\ At(t, "sem", "judge")
  /\ signals > 0
  /\ signals' = signals - 1
  /\ UNCHANGED <<flags, g_lock, core>>

\* fibo_mqtt_sub may fail, in which case no response comes.
Subscribe(t) ==
  /\ At(t, "judge", "loop")
  /\ connect_res_result
  /\ subscribing' \in {subscribing, subscribing + 1}
  /\ UNCHANGED <<flags, sem, connecting, sessions, connects, closes, refused>>

GiveUp(t) ==
  /\ At(t, "judge", "loop")
  /\ ~connect_res_result
  /\ run' = FALSE
  /\ UNCHANGED <<quit, connect_res_result, sem, core>>

SeeStop(t) ==
  /\ At(t, "loop", "quit")
  /\ ~run
  /\ UNCHANGED <<flags, sem, core>>

SetQuit(t) ==
  /\ At(t, "quit", "stop")
  /\ quit' = TRUE
  /\ UNCHANGED <<run, connect_res_result, sem, core>>

\* fibo_thread_delete
Delete(t) ==
  /\ At(t, "end", "free")
  /\ UNCHANGED <<flags, sem, core>>

Thread(t) ==
  \/ ClearQuit(t) \/ SetRun(t) \/ CreateLock(t) \/ Connect(t) \/ SemWait(t)
  \/ Subscribe(t) \/ GiveUp(t) \/ SeeStop(t) \/ SetQuit(t)
  \/ CreateConnect(t) \/ Delete(t)

-----------------------------------------------------------------------------
(* user_signal_process *)

\* Faulty variant: the semaphore is signalled before the result is stored.
ConnectRspSignalsFirst(ok) ==
  \/ /\ connecting > 0
     /\ At(Callback, "idle", IF ok THEN "accepted" ELSE "refused")
     /\ signals' = signals + 1
     /\ connecting' = connecting - 1
     /\ sessions' = IF ok THEN sessions + 1 ELSE sessions
     /\ refused' = ~ok
     /\ UNCHANGED <<flags, g_lock, subscribing, connects, closes>>
  \/ /\ At(Callback, IF ok THEN "accepted" ELSE "refused", "idle")
     /\ connect_res_result' = ok
     /\ UNCHANGED <<run, quit, sem, core>>

\* Faulty variant: a refusal wakes nobody.
ConnectRspOkOnly(ok) ==
  /\ connecting > 0
  /\ At(Callback, "idle", IF ok THEN "signal" ELSE "idle")
  /\ connect_res_result' = ok
  /\ connecting' = connecting - 1
  /\ sessions' = IF ok THEN sessions + 1 ELSE sessions
  /\ refused' = ~ok
  /\ UNCHANGED <<run, quit, sem, subscribing, connects, closes>>

\* CONNECT_RSP: store the result, then signal.
ConnectRsp(ok) ==
  /\ connecting > 0
  /\ At(Callback, "idle", "signal")
  /\ connect_res_result' = ok
  /\ connecting' = connecting - 1
  /\ sessions' = IF ok THEN sessions + 1 ELSE sessions
  /\ refused' = ~ok
  /\ UNCHANGED <<run, quit, sem, subscribing, connects, closes>>

\* SUB_RSP signals the same semaphore, for which nobody waits.
SubRsp ==
  /\ subscribing > 0
  /\ At(Callback, "idle", "signal")
  /\ subscribing' = subscribing - 1
  /\ UNCHANGED <<flags, sem, connecting, sessions, connects, closes, refused>>

Signal ==
  /\ At(Callback, "signal", "idle")
  /\ signals' = IF g_lock THEN signals + 1 ELSE signals
  /\ UNCHANGED <<flags, g_lock, core>>

\* CLOSE_RSP: create_mqtt_connect in the callback.
CloseRsp ==
  /\ sessions > 0 /\ closes < MaxCloses
  /\ At(Callback, "idle", "stop")
  /\ sessions' = sessions - 1
  /\ closes' = closes + 1
  /\ UNCHANGED <<flags, sem, connecting, subscribing, connects, refused>>

Signals ==
  \/ \E ok \in BOOLEAN : ConnectRsp(ok)
  \/ SubRsp \/ Signal \/ CloseRsp \/ CreateConnect(Callback)

Next == CreateConnect(Main) \/ (\E t \in Threads : Thread(t)) \/ Signals

\* Threads and the callback run; responses come in the end.  A context that
\* polls may miss a condition that does not last.
Spec == /\ Init /\ [][Next]_vars
        /\ WF_vars(CreateConnect(Main))
        /\ \A t \in Threads : WF_vars(Thread(t))
        /\ WF_vars(CreateConnect(Callback) \/ Signal)
        /\ SF_vars(\E ok \in BOOLEAN : ConnectRsp(ok))

-----------------------------------------------------------------------------
(* Properties *)

Creating == {"stop", "zero", "poll", "create"}
Working  == {"new", "up", "lock", "connect", "sem", "judge", "loop", "quit"}

Places   == Creating \cup Working \cup {"free", "end", "idle", "signal", "done"}

TypeOK ==
  /\ pc \in [Threads \cup {Main, Callback} -> Places]
  /\ \A t \in Threads : pc[t] \in Working \cup Creating \cup {"free", "end"}
  /\ pc[Main] \in Creating \cup {"done"}
  /\ pc[Callback] \in Creating \cup {"idle", "signal"}
  /\ run \in BOOLEAN /\ quit \in BOOLEAN /\ connect_res_result \in BOOLEAN
  /\ g_lock \in BOOLEAN /\ refused \in BOOLEAN
  /\ signals \in Nat /\ connecting \in Nat /\ subscribing \in Nat /\ sessions \in Nat
  /\ connects \in 0..MaxConnects
  /\ closes \in 0..MaxCloses

\* The threads that have not yet created their successor.
Current == {t \in Threads : pc[t] \in Working \cup Creating}

\* The client is never left without a thread that will connect again: a thread
\* is deleted only after another has taken its place.
NeverAbandoned == pc[Main] = "done" => Current # {}

\* Each close adds at most one thread to the one there is: both the callback
\* and the thread it stops create a successor, but a refusal adds none.
OneMorePerClose == Cardinality(Current) <= 1 + closes

\* Threads come and go without dying out or multiplying by themselves.
Population == NeverAbandoned /\ OneMorePerClose

\* Until the first close a thread gives a connection up only when the server
\* has refused it: no response is taken for another, no result read too early.
GivesUpWhenRefused ==
  [][\A t \in Threads : GiveUp(t) => refused \/ closes > 0]_vars

\* A thread that waits for the response to its connection is woken, unless the
\* callback that would wake it is itself waiting for that thread to quit.
AnswerOrStuck ==
  \A t \in Threads : pc[t] = "sem" ~> (pc[t] # "sem" \/ pc[Callback] = "poll")

=============================================================================
