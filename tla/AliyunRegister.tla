--------------------------- MODULE AliyunRegister ---------------------------
(***************************************************************************)
(* oc_aliyun_based_normalMqtt_demo.c: the client of MqttReconnect, whose   *)
(* thread first registers the device.  It opens a connection for that,     *)
(* waits for the message with the device's secret and only then connects   *)
(* for good.  A flag makes the callback pass over the close of the         *)
(* connection that the registration has used.  create_mqtt_connect, the    *)
(* thread after the registration and the response to a subscription are    *)
(* those of oc_mqtt_demo.c.                                                *)
(***************************************************************************)
EXTENDS MqttReconnect

VARIABLES
  regAt,        \* where each thread is in its registration
  regFlag,      \* g_fibo_aliyun_dynamic_register_flag
  gSecret,      \* g_fibo_aliyun_device_secret is not empty
  devSecret,    \* g_fibo_aliyun_device_info.device_secret is not empty
  secretSem,    \* signals in g_lock_wait_devicesecret
  regAsked,     \* registration connections whose response is outstanding
  regFresh,     \* those open on which the secret is still to come
  regServed,    \* those open on which it came
  regRefused,   \* history: the server has refused a registration
  regFailed     \* history: a thread has ended without a secret

regThread == <<regAt, devSecret>>
regCore   == <<regAsked, regFresh, regServed, regRefused>>
regVars   == <<regThread, regFlag, gSecret, secretSem, regCore, regFailed>>
aliyunVars == <<vars, regVars>>

AliyunInit ==
  /\ Init
  /\ regAt = [t \in Threads |-> "none"]
  /\ regFlag = FALSE /\ gSecret = FALSE /\ devSecret = FALSE
  /\ secretSem = 0
  /\ regAsked = 0 /\ regFresh = 0 /\ regServed = 0
  /\ regRefused = FALSE /\ regFailed = FALSE

-----------------------------------------------------------------------------
(* prvThreadEntry until the device is registered *)

\* The device's data, which all threads share, are cleared.
ClearDevice(t) ==
  /\ pc[t] = "new" /\ regAt[t] = "none"
  /\ regAt' = [regAt EXCEPT ![t] = "check"]
  /\ devSecret' = FALSE
  /\ UNCHANGED <<vars, regFlag, gSecret, secretSem, regCore, regFailed>>

\* A step of the registration, between the locks and fibo_mqtt_connect.
Registers(t, from, to) ==
  /\ pc[t] = "connect" /\ regAt[t] = from
  /\ regAt' = [regAt EXCEPT ![t] = to]

CheckSecret(t) ==
  /\ Registers(t, "check", IF devSecret THEN "ready" ELSE "flag")
  /\ UNCHANGED <<vars, regFlag, gSecret, devSecret, secretSem, regCore, regFailed>>

RaiseFlag(t) ==
  /\ Registers(t, "flag", "clear")
  /\ regFlag' = TRUE
  /\ UNCHANGED <<vars, gSecret, devSecret, secretSem, regCore, regFailed>>

ClearSecret(t) ==
  /\ Registers(t, "clear", "ask")
  /\ gSecret' = FALSE
  /\ UNCHANGED <<vars, regFlag, devSecret, secretSem, regCore, regFailed>>

\* fibo_aliyun_dynamic_register, repeated until the core accepts to connect.
DynamicRegister(t) ==
  /\ connects < MaxConnects
  /\ Registers(t, "ask", "secret")
  /\ regAsked' = regAsked + 1
  /\ connects' = connects + 1
  /\ UNCHANGED <<pc, flags, sem, connecting, subscribing, sessions, closes, refused,
                 regFlag, gSecret, devSecret, secretSem, regFresh, regServed, regRefused,
                 regFailed>>

\* The wait for the secret ends after two minutes all the same.
AwaitSecret(t) ==
  /\ Registers(t, "secret", "copy")
  /\ secretSem' = IF secretSem > 0 THEN secretSem - 1 ELSE 0
  /\ UNCHANGED <<vars, regFlag, gSecret, devSecret, regCore, regFailed>>

CopySecret(t) ==
  /\ Registers(t, "copy", "test")
  /\ devSecret' = (devSecret \/ gSecret)
  /\ UNCHANGED <<vars, regFlag, gSecret, secretSem, regCore, regFailed>>

HasSecret(t) ==
  /\ devSecret
  /\ Registers(t, "test", "ready")
  /\ UNCHANGED <<vars, regFlag, gSecret, devSecret, secretSem, regCore, regFailed>>

\* Without a secret the thread is deleted, and quit stays as it is.
NoSecret(t) ==
  /\ ~devSecret
  /\ Registers(t, "test", "none")
  /\ pc' = [pc EXCEPT ![t] = "free"]
  /\ regFlag' = FALSE
  /\ regFailed' = TRUE
  /\ UNCHANGED <<flags, sem, core, gSecret, devSecret, secretSem, regCore>>

\* The rest of the thread; it connects when it is registered.
RestOfThread(t) ==
  /\ pc[t] = "new" => regAt[t] # "none"
  /\ pc[t] = "connect" => regAt[t] = "ready"
  /\ Thread(t)
  /\ regAt' = [regAt EXCEPT ![t] = IF pc[t] = "end" THEN "none" ELSE @]
  /\ UNCHANGED <<devSecret, regFlag, gSecret, secretSem, regCore, regFailed>>

AliyunThread(t) ==
  \/ ClearDevice(t) \/ CheckSecret(t) \/ RaiseFlag(t) \/ ClearSecret(t)
  \/ DynamicRegister(t) \/ AwaitSecret(t) \/ CopySecret(t)
  \/ HasSecret(t) \/ NoSecret(t) \/ RestOfThread(t)

-----------------------------------------------------------------------------
(* user_signal_process *)

\* CONNECT_RSP to a registration: it is stored and signalled like any other.
RegisterRsp(ok) ==
  /\ regAsked > 0
  /\ At(Callback, "idle", "signal")
  /\ connect_res_result' = ok
  /\ regAsked' = regAsked - 1
  /\ regFresh' = IF ok THEN regFresh + 1 ELSE regFresh
  /\ regRefused' = (regRefused \/ ~ok)
  /\ UNCHANGED <<run, quit, sem, core, regThread, regFlag, gSecret, secretSem, regServed,
                 regFailed>>

\* INCOMING_DATA_RSP on "/ext/register"; the message may hold no secret.
SecretComes ==
  /\ regFresh > 0
  /\ At(Callback, "idle", "secret")
  /\ gSecret' \in {gSecret, TRUE}
  /\ regFresh' = regFresh - 1 /\ regServed' = regServed + 1
  /\ UNCHANGED <<flags, sem, core, regThread, regFlag, secretSem, regAsked, regRefused,
                 regFailed>>

SecretSignal ==
  /\ At(Callback, "secret", "idle")
  /\ secretSem' = secretSem + 1
  /\ UNCHANGED <<flags, sem, core, regThread, regFlag, gSecret, regCore, regFailed>>

\* CLOSE_RSP of the connection that was used to register, or of the other one:
\* passed over while the flag is raised, whichever it is.
CloseOne ==
  /\ closes < MaxCloses
  /\ closes' = closes + 1
  /\ \/ sessions > 0 /\ sessions' = sessions - 1 /\ UNCHANGED <<regFresh, regServed>>
     \/ regFresh > 0 /\ regFresh' = regFresh - 1 /\ UNCHANGED <<sessions, regServed>>
     \/ regServed > 0 /\ regServed' = regServed - 1 /\ UNCHANGED <<sessions, regFresh>>
  /\ UNCHANGED <<flags, sem, connecting, subscribing, connects, refused,
                 regThread, gSecret, secretSem, regAsked, regRefused, regFailed>>

\* Faulty variant: a close that is passed over leaves the flag raised.
ClosePassedOverAgain ==
  /\ regFlag
  /\ pc[Callback] = "idle"
  /\ CloseOne
  /\ UNCHANGED <<pc, regFlag>>

ClosePassedOver ==
  /\ regFlag /\ regFlag' = FALSE
  /\ pc[Callback] = "idle"
  /\ CloseOne
  /\ UNCHANGED pc

CloseReplaces ==
  /\ ~regFlag
  /\ At(Callback, "idle", "stop")
  /\ CloseOne
  /\ UNCHANGED regFlag

AliyunSignals ==
  \/ \E ok \in BOOLEAN : RegisterRsp(ok)
  \/ SecretComes \/ SecretSignal \/ ClosePassedOver \/ CloseReplaces
  \/ /\ (\E ok \in BOOLEAN : ConnectRsp(ok)) \/ SubRsp \/ Signal
        \/ CreateConnect(Callback)
     /\ UNCHANGED regVars

AliyunNext ==
  \/ CreateConnect(Main) /\ UNCHANGED regVars
  \/ \E t \in Threads : AliyunThread(t)
  \/ AliyunSignals

AliyunSpec == AliyunInit /\ [][AliyunNext]_aliyunVars

-----------------------------------------------------------------------------
(* Properties *)

RegPlaces == {"none", "check", "flag", "clear", "ask", "secret", "copy", "test", "ready"}

RegTypeOK ==
  /\ pc \in [Threads \cup {Main, Callback} -> Places \cup {"secret"}]
  /\ regAt \in [Threads -> RegPlaces]
  /\ regAsked \in Nat /\ regFresh \in Nat /\ regServed \in Nat

\* A thread that has raised the flag and has not yet asked for the connection.
WillRegister(t) == regAt[t] \in {"clear", "ask"}

\* The flag that makes the callback pass over a close is raised only while there
\* is a registration connection that has still to close, or a thread that is
\* about to open one.  Otherwise the close of the connection in use would be
\* passed over, and the client stay without one; that takes a registration which
\* the server refuses (oc_aliyun_based_normalMqtt_demo.c:484).
FlagOfRegistration ==
  regFlag => \/ \E t \in Threads : WillRegister(t)
             \/ regAsked + regFresh + regServed > 0
             \/ regRefused

\* The client dies out only by a thread that ended without a secret, after which
\* create_mqtt_connect would poll for ever (oc_aliyun_based_normalMqtt_demo.c:587).
DiesByFailure == pc[Main] = "done" /\ Current = {} => regFailed

RegistrationSettled == FlagOfRegistration /\ DiesByFailure

=============================================================================
