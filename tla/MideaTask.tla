----------------------------- MODULE MideaTask -----------------------------
(***************************************************************************)
(* The application of mideaapp.c that joins a home appliance to the        *)
(* network.  It asks the appliance for its serial number (SN) until it     *)
(* gets it, or resets the module after MaxTry requests; with the SN it     *)
(* starts a timer of random length after which it attaches to the network. *)
(*                                                                         *)
(* Three contexts share globals without a lock: the task that processes    *)
(* the events, the timer service that runs the callbacks of the timers one *)
(* at a time, and the UART callback (MideaUart) that turns the frames of   *)
(* the appliance into events.  Only the list of events has a mutex, held   *)
(* throughout each operation on it, so that these are single steps here.   *)
(*                                                                         *)
(* Left out: the contents of the SN, the frames put on the UART, the       *)
(* memory of the events, and the flags of FIBO_STATE_FLAG that are never   *)
(* written (they enable the task and the reset).                           *)
(***************************************************************************)
EXTENDS Naturals, Sequences

CONSTANTS
  MaxTry,       \* GET_SN_MAX_TRY_TIMES
  NoMore,       \* 0xFFFF: the SN is known, ask no more
  FrameTypes,   \* the types of the frames the appliance sends
  MaxFrames,    \* bound: how many it sends
  MaxQueue      \* bound: events in the list when the period of the requests ends

ASSUME CountAssumption == MaxTry \in Nat \ {0} /\ NoMore \in Nat /\ NoMore > MaxTry
ASSUME BoundAssumption == MaxFrames \in Nat /\ MaxQueue \in Nat \ {0}

\* "OTHER" stands for a frame whose checksum, length or type is refused, and
\* "RESTART" for the restart and the factory reset, which differ in a log line.
ASSUME TypesAssumption ==
  FrameTypes \subseteq {"SN", "AIR", "SELF_TEST", "SWITCH", "RESTART", "OTHER"}

Answers  == {"SN", "AIR"}                      \* the frames with an SN
Requests == {"GENERAL_SN_REQ", "AIR_SN_REQ"}   \* the events that ask for it

VARIABLES
  tpc,              \* where the task is
  ev,               \* the event it processes, or "none"
  queue,            \* g_ght_event_proc: for UART_DATA_IND the frame's type
  count,            \* g_ght_midea_query_sn_count
  sn_valid,         \* sn_valid_flag
  self_test,        \* self_test_0x14
  is_self_test,     \* g_is_self_test
  timers,           \* every timer created: its kind and state
  sn_timer,         \* midea_sn_timer, a position in timers or 0
  timer_id,         \* g_timer_id
  self_test_timer,  \* self_test_timer
  cb,               \* the timer service: where it is
  attached,         \* fibo_cfun_one has been called
  reset,            \* the module is being reset, and why
  sent,             \* SN requests put on the UART
  frames,           \* frames the appliance has sent
  late,             \* history: requests added to the list when the count was
                    \* NoMore already
  misuse,           \* history: a freed timer was started, stopped or freed
  overlap           \* history: a self-test timer was started during the
                    \* callback of another

taskVars  == <<tpc, ev, queue, count, sn_valid, self_test, sent>>
timerVars == <<timers, sn_timer, timer_id, self_test_timer, misuse>>
vars == <<taskVars, timerVars, late, is_self_test, cb, attached, reset, frames, overlap>>

Init ==
  /\ tpc = "uart"
  /\ ev = "none"
  /\ queue = << >>
  /\ count = 0
  /\ sn_valid = FALSE
  /\ self_test = FALSE
  /\ is_self_test = FALSE
  /\ timers = << >>
  /\ sn_timer = 0
  /\ timer_id = 0
  /\ self_test_timer = 0
  /\ cb = "idle"
  /\ attached = FALSE
  /\ reset = "no"
  /\ sent = 0
  /\ frames = 0
  /\ late = 0
  /\ misuse = FALSE
  /\ overlap = FALSE

-----------------------------------------------------------------------------
(* Timers *)

NewTimer(kind, state) == timers' = Append(timers, [kind |-> kind, state |-> state])

\* fibo_timer_start, _stop and _free of the timer with handle h.
SetTimer(h, state) ==
  IF h = 0 THEN UNCHANGED <<timers, misuse>>
  ELSE IF timers[h].state = "freed" THEN UNCHANGED timers /\ misuse' = TRUE
  ELSE timers' = [timers EXCEPT ![h].state = state] /\ UNCHANGED misuse

-----------------------------------------------------------------------------
(* The task *)

\* midea_uart_init: from here on frames come in, before there is a mutex.
UartInit ==
  /\ tpc = "uart"
  /\ tpc' = "func"
  /\ UNCHANGED <<ev, queue, count, sn_valid, self_test, sent, timerVars,
                 late, is_self_test, cb, attached, reset, frames, overlap>>

\* ght_midea_func_init
FuncInit ==
  /\ tpc = "func"
  /\ NewTimer("sn", "armed")
  /\ sn_timer' = Len(timers) + 1
  /\ tpc' = "get"
  /\ UNCHANGED <<ev, queue, count, sn_valid, self_test, sent, timer_id, self_test_timer,
                 misuse, late, is_self_test, cb, attached, reset, frames, overlap>>

\* ght_midea_task_event_get
EventGet ==
  /\ tpc = "get"
  /\ queue # << >>
  /\ ev' = Head(queue)
  /\ queue' = Tail(queue)
  /\ tpc' = "process"
  /\ UNCHANGED <<count, sn_valid, self_test, sent, timerVars,
                 late, is_self_test, cb, attached, reset, frames, overlap>>

\* Faulty variant: the count is not looked at.
SnRequestAlways ==
  /\ tpc = "process"
  /\ ev \in Requests
  /\ count' = count + 1
  /\ sent' = sent + 1
  /\ tpc' = "get"
  /\ ev' = "none"
  /\ UNCHANGED <<queue, sn_valid, self_test, timerVars,
                 late, is_self_test, cb, attached, reset, frames, overlap>>

\* GENERAL_SN_REQ and AIR_SN_REQ: ask, unless the SN is known by now.
SnRequest ==
  /\ tpc = "process"
  /\ ev \in Requests
  /\ IF count = NoMore
       THEN UNCHANGED <<count, sent>>
       ELSE count' = (count + 1) % (NoMore + 1) /\ sent' = sent + 1
  /\ tpc' = "get"
  /\ ev' = "none"
  /\ UNCHANGED <<queue, sn_valid, self_test, timerVars,
                 late, is_self_test, cb, attached, reset, frames, overlap>>

\* Events and frames without effect.
Ignore ==
  /\ tpc = "process"
  /\ ev \in {"NETWORK_STATUS", "OTHER"}
  /\ tpc' = "get"
  /\ ev' = "none"
  /\ UNCHANGED <<queue, count, sn_valid, self_test, sent, timerVars,
                 late, is_self_test, cb, attached, reset, frames, overlap>>

\* NO_AIR_CONDITION_DEVICE_SN and AIR_CONDITION_INFO: keep the SN ...
StoreSn ==
  /\ tpc = "process"
  /\ ev \in Answers
  /\ sn_valid' = TRUE
  /\ queue' = IF self_test THEN Append(queue, "NETWORK_STATUS") ELSE queue
  /\ tpc' = "quiet"
  /\ UNCHANGED <<ev, count, self_test, sent, timerVars,
                 late, is_self_test, cb, attached, reset, frames, overlap>>

\* ... ask no more ...
QuietCount ==
  /\ tpc = "quiet"
  /\ count' = NoMore
  /\ tpc' = IF sn_timer # 0 THEN "stop" ELSE "attach"
  /\ UNCHANGED <<ev, queue, sn_valid, self_test, sent, timerVars,
                 late, is_self_test, cb, attached, reset, frames, overlap>>

\* ... stop and free the timer of the requests ...
StopSnTimer ==
  /\ tpc = "stop"
  /\ SetTimer(sn_timer, "idle")
  /\ tpc' = "free"
  /\ UNCHANGED <<ev, queue, count, sn_valid, self_test, sent, sn_timer, timer_id,
                 self_test_timer, late, is_self_test, cb, attached, reset, frames, overlap>>

\* Faulty variant: the handle is not reset.
FreeSnTimerOnly ==
  /\ tpc = "free"
  /\ SetTimer(sn_timer, "freed")
  /\ tpc' = "attach"
  /\ UNCHANGED <<ev, queue, count, sn_valid, self_test, sent, sn_timer, timer_id,
                 self_test_timer, late, is_self_test, cb, attached, reset, frames, overlap>>

FreeSnTimer ==
  /\ tpc = "free"
  /\ SetTimer(sn_timer, "freed")
  /\ sn_timer' = 0
  /\ tpc' = "attach"
  /\ UNCHANGED <<ev, queue, count, sn_valid, self_test, sent, timer_id,
                 self_test_timer, late, is_self_test, cb, attached, reset, frames, overlap>>

\* Faulty variant: the timer is created and not started.
AttachStartIdle ==
  /\ tpc = "attach"
  /\ NewTimer("attach", "idle") /\ timer_id' = Len(timers) + 1
  /\ IF ev = "AIR" THEN tpc' = "process" /\ ev' = "SELF_TEST"
                   ELSE tpc' = "get" /\ ev' = "none"
  /\ UNCHANGED <<queue, count, sn_valid, self_test, sent, sn_timer, self_test_timer,
                 misuse, late, is_self_test, cb, attached, reset, frames, overlap>>

\* ... and ght_attach_start, which fails without an IMSI or a timer.  The case
\* of AIR_CONDITION_INFO has no break and runs into that of SELF_TEST1.
AttachStart ==
  /\ tpc = "attach"
  /\ \/ NewTimer("attach", "armed") /\ timer_id' = Len(timers) + 1
     \/ UNCHANGED timers /\ timer_id' \in {timer_id, 0}
  /\ IF ev = "AIR" THEN tpc' = "process" /\ ev' = "SELF_TEST"
                   ELSE tpc' = "get" /\ ev' = "none"
  /\ UNCHANGED <<queue, count, sn_valid, self_test, sent, sn_timer, self_test_timer,
                 misuse, late, is_self_test, cb, attached, reset, frames, overlap>>

\* WORK_SELF_TEST1
SelfTest ==
  /\ tpc = "process"
  /\ ev = "SELF_TEST"
  /\ self_test' = TRUE
  /\ queue' = Append(queue, "NETWORK_STATUS")
  /\ tpc' = "get"
  /\ ev' = "none"
  /\ UNCHANGED <<count, sn_valid, sent, timerVars,
                 late, is_self_test, cb, attached, reset, frames, overlap>>

\* WORK_NETWOR_ACCESS_SWITCH: fibo_startselftesttimer creates the timer, ...
CreateSelfTest ==
  /\ tpc = "process"
  /\ ev = "SWITCH"
  /\ NewTimer("self", "idle")
  /\ self_test_timer' = Len(timers) + 1
  /\ overlap' = (overlap \/ cb \in {"clear", "stop", "release"})
  /\ tpc' = "raise"
  /\ UNCHANGED <<ev, queue, count, sn_valid, self_test, sent, sn_timer, timer_id,
                 misuse, late, is_self_test, cb, attached, reset, frames>>

\* ... raises the flag ...
RaiseSelfTest ==
  /\ tpc = "raise"
  /\ is_self_test' = TRUE
  /\ tpc' = "start"
  /\ UNCHANGED <<ev, queue, count, sn_valid, self_test, sent, timerVars,
                 late, cb, attached, reset, frames, overlap>>

\* Faulty variant: the timer is not started.
StartSelfTestNot ==
  /\ tpc = "start"
  /\ tpc' = "get"
  /\ ev' = "none"
  /\ UNCHANGED <<queue, count, sn_valid, self_test, sent, timerVars,
                 late, is_self_test, cb, attached, reset, frames, overlap>>

\* ... and starts the timer.
StartSelfTest ==
  /\ tpc = "start"
  /\ SetTimer(self_test_timer, "armed")
  /\ tpc' = "get"
  /\ ev' = "none"
  /\ UNCHANGED <<queue, count, sn_valid, self_test, sent, sn_timer, timer_id,
                 self_test_timer, late, is_self_test, cb, attached, reset, frames, overlap>>

\* WORK_MODEM_RESTART and WORK_FACTORY_RESET
Restart ==
  /\ tpc = "process"
  /\ ev = "RESTART"
  /\ reset' = "command"
  /\ UNCHANGED <<taskVars, timerVars, late, is_self_test, cb, attached, frames, overlap>>

Task ==
  /\ reset = "no"
  /\ \/ UartInit \/ FuncInit \/ EventGet \/ SnRequest \/ Ignore
     \/ StoreSn \/ QuietCount \/ StopSnTimer \/ FreeSnTimer \/ AttachStart
     \/ SelfTest \/ CreateSelfTest \/ RaiseSelfTest \/ StartSelfTest \/ Restart

-----------------------------------------------------------------------------
(* The timer service *)

SelfTestCallback == {"clear", "stop", "release"}

\* A timer expires.  The one of the requests is periodic, the others fire once;
\* the self-test timers all run for the same time, so the oldest fires first.
Expire(t) ==
  /\ cb = "idle"
  /\ timers[t].state = "armed"
  /\ \/ /\ timers[t].kind = "sn"
        /\ Len(queue) < MaxQueue
        /\ cb' = "test"
        /\ UNCHANGED <<timers, overlap>>
     \/ /\ timers[t].kind = "attach"
        /\ cb' = "cfun"
        /\ timers' = [timers EXCEPT ![t].state = "idle"]
        /\ UNCHANGED overlap
     \/ /\ timers[t].kind = "self"
        /\ \A u \in 1..(t - 1) : timers[u] # [kind |-> "self", state |-> "armed"]
        /\ cb' = "clear"
        /\ timers' = [timers EXCEPT ![t].state = "idle"]
        /\ overlap' = (overlap \/ tpc \in {"raise", "start"})
  /\ UNCHANGED <<taskVars, sn_timer, timer_id, self_test_timer, misuse,
                 late, is_self_test, attached, reset, frames>>

\* Faulty variant: the module gives up one request too late.
TestTriesBeyond ==
  /\ cb = "test"
  /\ cb' = IF count > MaxTry THEN "expired" ELSE "even"
  /\ UNCHANGED <<taskVars, timerVars, late, is_self_test, attached, reset, frames, overlap>>

\* ght_midea_timer_query_sn_expire tests the count three times: is it time to
\* give up, to send a general request, or one for an air conditioner?
TestTries ==
  /\ cb = "test"
  /\ cb' = IF count >= MaxTry THEN "expired" ELSE "even"
  /\ UNCHANGED <<taskVars, timerVars, late, is_self_test, attached, reset, frames, overlap>>

TestEven ==
  /\ cb = "even"
  /\ cb' = IF count % 2 = 0 /\ count < MaxTry THEN "general" ELSE "odd"
  /\ UNCHANGED <<taskVars, timerVars, late, is_self_test, attached, reset, frames, overlap>>

\* Faulty variant: the limit is not looked at again.
TestOddOnly ==
  /\ cb = "odd"
  /\ cb' = IF count % 2 = 1 THEN "air" ELSE "idle"
  /\ UNCHANGED <<taskVars, timerVars, late, is_self_test, attached, reset, frames, overlap>>

TestOdd ==
  /\ cb = "odd"
  /\ cb' = IF count % 2 = 1 /\ count < MaxTry THEN "air" ELSE "idle"
  /\ UNCHANGED <<taskVars, timerVars, late, is_self_test, attached, reset, frames, overlap>>

\* It has decided to ask and adds the request, whatever the task has stored in
\* the count since: a log, the mutex of the list and an allocation lie between.
SendRequest(request) ==
  /\ queue' = Append(queue, request)
  /\ late' = IF count = NoMore THEN late + 1 ELSE late
  /\ cb' = "idle"
  /\ UNCHANGED <<tpc, ev, count, sn_valid, self_test, sent, timerVars,
                 is_self_test, attached, reset, frames, overlap>>

SendGeneral == cb = "general" /\ SendRequest("GENERAL_SN_REQ")

SendAir == cb = "air" /\ SendRequest("AIR_SN_REQ")

\* The reset, after the callback has slept.
ResetModule ==
  /\ cb = "expired"
  /\ reset' = "timeout"
  /\ UNCHANGED <<taskVars, timerVars, late, is_self_test, cb, attached, frames, overlap>>

\* timer_function attaches to the network and frees the timer it was given.
CfunOne ==
  /\ cb = "cfun"
  /\ attached' = TRUE
  /\ cb' = "drop"
  /\ UNCHANGED <<taskVars, timerVars, late, is_self_test, reset, frames, overlap>>

FreeAttachTimer ==
  /\ cb = "drop"
  /\ SetTimer(timer_id, "freed")
  /\ cb' = "idle"
  /\ UNCHANGED <<taskVars, sn_timer, timer_id, self_test_timer,
                 late, is_self_test, attached, reset, frames, overlap>>

\* fibo_stopselftesttimer lowers the flag, stops the timer and frees it.
ClearSelfTest ==
  /\ cb = "clear"
  /\ is_self_test' = FALSE
  /\ cb' = "stop"
  /\ UNCHANGED <<taskVars, timerVars, late, attached, reset, frames, overlap>>

StopSelfTestTimer ==
  /\ cb = "stop"
  /\ SetTimer(self_test_timer, "idle")
  /\ cb' = "release"
  /\ UNCHANGED <<taskVars, sn_timer, timer_id, self_test_timer,
                 late, is_self_test, attached, reset, frames, overlap>>

FreeSelfTestTimer ==
  /\ cb = "release"
  /\ SetTimer(self_test_timer, "freed")
  /\ cb' = "idle"
  /\ UNCHANGED <<taskVars, sn_timer, timer_id, self_test_timer,
                 late, is_self_test, attached, reset, frames, overlap>>

TimerService ==
  /\ reset = "no"
  /\ \/ \E t \in DOMAIN timers : Expire(t)
     \/ TestTries \/ TestEven \/ TestOdd \/ SendGeneral \/ SendAir \/ ResetModule
     \/ CfunOne \/ FreeAttachTimer
     \/ ClearSelfTest \/ StopSelfTestTimer \/ FreeSelfTestTimer

\* The UART callback sends a complete frame to the task.
UartFrame(type) ==
  /\ reset = "no"
  /\ tpc # "uart"
  /\ frames < MaxFrames
  /\ frames' = frames + 1
  /\ queue' = Append(queue, type)
  /\ UNCHANGED <<tpc, ev, count, sn_valid, self_test, sent, timerVars,
                 late, is_self_test, cb, attached, reset, overlap>>

Next == Task \/ TimerService \/ \E type \in FrameTypes : UartFrame(type)

\* The task runs for ever, and every armed timer expires in the end; nothing
\* makes the appliance send a frame.
Spec == /\ Init /\ [][Next]_vars
        /\ WF_vars(Task)
        /\ WF_vars(TimerService)
        /\ \A t \in 1..(MaxFrames + 1) :
             SF_vars(reset = "no" /\ t \in DOMAIN timers /\ Expire(t))

-----------------------------------------------------------------------------
(* Properties *)

Kinds  == {"sn", "attach", "self"}
States == {"idle", "armed", "freed"}
Events == Requests \cup FrameTypes \cup {"NETWORK_STATUS"}

TypeOK ==
  /\ tpc \in {"uart", "func", "get", "process", "quiet", "stop", "free", "attach",
              "raise", "start"}
  /\ ev \in Events \cup {"none", "SELF_TEST"}
  /\ queue \in Seq(Events)
  /\ count \in 0..NoMore
  /\ timers \in Seq([kind : Kinds, state : States])
  /\ {sn_timer, timer_id, self_test_timer} \subseteq 0..Len(timers)
  /\ cb \in {"idle", "test", "even", "odd", "general", "air", "expired", "cfun", "drop"}
           \cup SelfTestCallback
  /\ reset \in {"no", "timeout", "command"}
  /\ {sent, late} \subseteq Nat
  /\ frames \in 0..MaxFrames
  /\ {sn_valid, self_test, is_self_test, attached, misuse, overlap} \subseteq BOOLEAN

\* The timer callback has decided to ask, and has not added the request yet.
Asking == cb \in {"general", "air"}

\* Once the SN is stored, no request for it goes out any more, although request
\* events may wait in the list behind the answer.  Once the count says so the
\* callback does not decide to ask, wherever in its three tests it was when the
\* count changed; the request it had decided on before it still adds, and it is
\* the only one.
RequestsStop ==
  [][/\ sent' # sent => ~sn_valid
     /\ count = NoMore /\ Asking' => Asking
     /\ late' <= 1]_vars

Repeated(kind) ==
  \E t, u \in DOMAIN timers :
    t # u /\ timers[t].kind = kind /\ timers[u].kind = kind

\* A timer that has been freed is used again only after the appliance has sent
\* a second SN or a second access switch, which overwrite the handle of a timer
\* that still runs.
MisuseNeedsRepeat == misuse => Repeated("attach") \/ Repeated("self")

\* The module gets the SN or resets itself: the requests do not run dry short
\* of the limit, however expiries, requests and events interleave.
SnOrReset == <>(sn_valid \/ reset # "no")

\* Once an attach timer is created the module attaches, even when a second
\* answer has overwritten the timer's handle.
AttachHappens ==
  (\E t \in DOMAIN timers : timers[t].kind = "attach") ~> (attached \/ reset # "no")

\* Self-test mode ends, unless the appliance asks for it anew while the timer
\* callback that ends it runs: the callback then takes away the new timer.
SelfTestEnds == is_self_test ~> (~is_self_test \/ overlap \/ reset # "no")

\* The log of the reset says that the SN could not be had: the callback decides
\* on it only while there is none.
ResetOnlyWithoutSn == [][cb = "test" /\ cb' = "expired" => ~sn_valid]_vars

=============================================================================
