---------------------------- MODULE AliyunAnswers ----------------------------
(***************************************************************************)
(* oc_aliyun_mqtt_demo.c: a thread that subscribes, publishes twice and    *)
(* unsubscribes over the MQTT client of the Aliyun SDK, and after each     *)
(* call waits for the callback to signal that the call has succeeded.  The *)
(* semaphore is created with one signal in it.  The SDK, which answers or  *)
(* not and late or not, is external.                                       *)
(***************************************************************************)
EXTENDS Integers, FiniteSets

Steps == 1..4        \* subscribe, publish, publish a fixed length, unsubscribe

VARIABLES
  aliAt,         \* where prvThreadEntry is
  aliStep,       \* the call it has come to
  aliSem,        \* signals in g_lock
  aliPending,    \* calls the SDK has still to answer
  aliConfirmed   \* history: calls answered with success

aliVars == <<aliAt, aliStep, aliSem, aliPending, aliConfirmed>>

AliInit ==
  /\ aliAt = "auth" /\ aliStep = 1
  /\ aliSem = 0
  /\ aliPending = {} /\ aliConfirmed = {}

AliGo(from, to) == aliAt = from /\ aliAt' = to

\* The device is authenticated and TLS is enabled; the thread then waits for
\* the PDP context.
CloudAuth ==
  /\ AliGo("auth", "tls") \/ AliGo("auth", "gone")
  /\ UNCHANGED <<aliStep, aliSem, aliPending, aliConfirmed>>

TlsEnable ==
  /\ AliGo("tls", "pdp") \/ AliGo("tls", "gone")
  /\ UNCHANGED <<aliStep, aliSem, aliPending, aliConfirmed>>

PdpSeen ==
  /\ AliGo("pdp", "conn")
  /\ aliSem' = 1
  /\ UNCHANGED <<aliStep, aliPending, aliConfirmed>>

CloudConn ==
  /\ AliGo("conn", "call") \/ AliGo("conn", "gone")
  /\ UNCHANGED <<aliStep, aliSem, aliPending, aliConfirmed>>

CloudCall ==
  /\ AliGo("call", "wait")
  /\ aliPending' = aliPending \cup {aliStep}
  /\ UNCHANGED <<aliStep, aliSem, aliConfirmed>>

\* Only a subscription that fails ends the thread; the other calls are waited
\* for all the same.
CloudCallFails ==
  /\ AliGo("call", IF aliStep = 1 THEN "gone" ELSE "wait")
  /\ UNCHANGED <<aliStep, aliSem, aliPending, aliConfirmed>>

TryWait ==
  /\ aliSem > 0
  /\ AliGo("wait", IF aliStep = 4 THEN "off" ELSE "call")
  /\ aliSem' = aliSem - 1
  /\ aliStep' = IF aliStep = 4 THEN 4 ELSE aliStep + 1
  /\ UNCHANGED <<aliPending, aliConfirmed>>

\* After a minute the thread deletes itself; the connection stays.
TryWaitTimesOut ==
  /\ aliSem = 0
  /\ AliGo("wait", "gone")
  /\ UNCHANGED <<aliStep, aliSem, aliPending, aliConfirmed>>

\* A disconnection that fails is printed only: answers may still come.
CloudDisconn ==
  /\ AliGo("off", "idle")
  /\ aliPending' \in {{}, aliPending}
  /\ UNCHANGED <<aliStep, aliSem, aliConfirmed>>

\* Faulty variant: a failure is signalled like a success.
ConnectCallbackAlways(k, ok) ==
  /\ k \in aliPending
  /\ aliPending' = aliPending \ {k}
  /\ aliSem' = aliSem + 1
  /\ aliConfirmed' = IF ok THEN aliConfirmed \cup {k} ELSE aliConfirmed
  /\ UNCHANGED <<aliAt, aliStep>>

\* Timeouts and refusals are printed and nothing else.
ConnectCallback(k, ok) ==
  /\ k \in aliPending
  /\ aliPending' = aliPending \ {k}
  /\ aliSem' = IF ok THEN aliSem + 1 ELSE aliSem
  /\ aliConfirmed' = IF ok THEN aliConfirmed \cup {k} ELSE aliConfirmed
  /\ UNCHANGED <<aliAt, aliStep>>

AliNext ==
  \/ CloudAuth \/ TlsEnable \/ PdpSeen \/ CloudConn
  \/ CloudCall \/ CloudCallFails \/ TryWait \/ TryWaitTimesOut \/ CloudDisconn
  \/ \E k \in Steps, ok \in BOOLEAN : ConnectCallback(k, ok)

-----------------------------------------------------------------------------
(* Properties *)

AliTypeOK ==
  /\ aliAt \in {"auth", "tls", "pdp", "conn", "call", "wait", "off", "idle", "gone"}
  /\ aliStep \in Steps
  /\ aliSem \in 0..5
  /\ {aliPending, aliConfirmed} \subseteq SUBSET Steps

\* Calls the thread takes for confirmed.
TakenFor == CASE aliAt = "call" -> aliStep - 1
              [] aliAt \in {"off", "idle"} -> 4
              [] OTHER -> 0

\* The signal the semaphore begins with lets the thread run ahead of the
\* answers, but by one call only: all the others it takes for confirmed were
\* (oc_aliyun_mqtt_demo.c:183).
OneAhead == Cardinality(aliConfirmed) + 1 >= TakenFor

=============================================================================
