----------------------------- MODULE UpdateStart -----------------------------
(***************************************************************************)
(* fota_demo.c and jd_fota_demo.c: a thread that activates the PDP context *)
(* and waits for the indication, again until it succeeds, and then starts  *)
(* the thread that downloads and installs an update.  The modem and the    *)
(* server are external.                                                    *)
(***************************************************************************)
EXTENDS Integers

VARIABLES
  updAt,       \* where prvThreadEntry is
  updSem,      \* signals in g_pdp_handle.sem, -1 while there is none
  updSuccess,  \* g_pdp_handle.success
  updAsked,    \* an activation whose indication is outstanding
  updCb,       \* the callback: idle or about to signal
  ota          \* where the update thread is

updVars == <<updAt, updSem, updSuccess, updAsked, updCb, ota>>

UpdInit ==
  /\ updAt = "status"
  /\ updSem = -1 /\ updSuccess = FALSE
  /\ updAsked = FALSE /\ updCb = "idle"
  /\ ota = "none"

UpdGo(from, to) == updAt = from /\ updAt' = to

\* fibo_PDPStatus fails, or says that the context is active or not.
UpdStatus ==
  /\ \/ UpdGo("status", "gone") /\ UNCHANGED updSem
     \/ (UpdGo("status", "create") \/ UpdGo("status", "reg")) /\ updSem' = 0
  /\ UNCHANGED <<updSuccess, updAsked, updCb, ota>>

UpdRegistered ==
  /\ UpdGo("reg", "active")
  /\ UNCHANGED <<updSem, updSuccess, updAsked, updCb, ota>>

\* What fibo_PDPActive returns is printed: a request that is refused is waited
\* for as well.
UpdActivate ==
  /\ UpdGo("active", "wait")
  /\ updAsked' \in BOOLEAN
  /\ UNCHANGED <<updSem, updSuccess, updCb, ota>>

\* Faulty variant: a failure is not signalled.
UpdIndicationOkOnly(ok) ==
  /\ updAsked /\ updCb = "idle"
  /\ updAsked' = FALSE
  /\ updSuccess' = ok
  /\ updCb' = IF ok THEN "signal" ELSE "idle"
  /\ UNCHANGED <<updAt, updSem, ota>>

UpdIndication(ok) ==
  /\ updAsked /\ updCb = "idle"
  /\ updAsked' = FALSE
  /\ updSuccess' = ok
  /\ updCb' = "signal"
  /\ UNCHANGED <<updAt, updSem, ota>>

UpdSignal ==
  /\ updCb = "signal"
  /\ updCb' = "idle"
  /\ updSem' = updSem + 1
  /\ UNCHANGED <<updAt, updSuccess, updAsked, ota>>

UpdWait ==
  /\ UpdGo("wait", "test")
  /\ updSem > 0 /\ updSem' = updSem - 1
  /\ UNCHANGED <<updSuccess, updAsked, updCb, ota>>

\* The semaphore is freed on success only; a failure is tried again.
UpdTest ==
  /\ UpdGo("test", IF updSuccess THEN "create" ELSE "reg")
  /\ updSem' = IF updSuccess THEN -1 ELSE updSem
  /\ UNCHANGED <<updSuccess, updAsked, updCb, ota>>

UpdCreate ==
  /\ UpdGo("create", "gone")
  /\ ota' = "ready"
  /\ UNCHANGED <<updSem, updSuccess, updAsked, updCb>>

\* TEST_TYPE chooses one call that does everything, or a download first.
OtaRun ==
  /\ \/ ota = "ready" /\ ota' \in {"end", "downloaded"}
     \/ ota = "downloaded" /\ ota' = "end"
  /\ UNCHANGED <<updAt, updSem, updSuccess, updAsked, updCb>>

UpdThread ==
  \/ UpdStatus \/ UpdRegistered \/ UpdActivate \/ UpdWait \/ UpdTest \/ UpdCreate
  \/ OtaRun

UpdAnswers == UpdSignal \/ \E ok \in BOOLEAN : UpdIndication(ok)

UpdNext == UpdThread \/ UpdAnswers

-----------------------------------------------------------------------------
(* Properties *)

UpdTypeOK ==
  /\ updAt \in {"status", "reg", "active", "wait", "test", "create", "gone"}
  /\ updSem \in -1..1
  /\ {updSuccess, updAsked} \subseteq BOOLEAN
  /\ updCb \in {"idle", "signal"}
  /\ ota \in {"none", "ready", "downloaded", "end"}

\* An activation that was accepted gets the thread out of its wait, whatever
\* the indication says, and once one has succeeded the update runs to its end.
UpdateStarts ==
  /\ (updAt = "wait" /\ updAsked) ~> updAt # "wait"
  /\ updSuccess ~> ota = "end"

=============================================================================
