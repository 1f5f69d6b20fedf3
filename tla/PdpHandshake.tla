---------------------------- MODULE PdpHandshake ----------------------------
(***************************************************************************)
(* The hand-shake by which an application thread waits for the modem to    *)
(* activate or release a PDP context (pdp_sockets_demo.c; the same code is *)
(* in oc_async_dns_demo.c and multi_pdn_test.c).                           *)
(*                                                                         *)
(* The thread issues a request, creates a semaphore, stores its handle in  *)
(* a global, raises a global flag and waits; then it frees the semaphore.  *)
(* It never resets the handle.  The signal callback runs on the core's own *)
(* thread: for each indication it tests handle and flag of the synchronous *)
(* and then of the asynchronous channel of the indication's kind, signals  *)
(* the semaphore and clears the flag.  The two threads share no lock.      *)
(*                                                                         *)
(* A semaphore is named by the step of the script that created it: step s  *)
(* creates semaphore s, and 0 is the NULL handle.                          *)
(***************************************************************************)
EXTENDS Naturals, Sequences

CONSTANT Script    \* the requests of the application thread, in order

Channels == {"active", "deactive", "asynActive", "asynDeactive"}
Kinds    == {"ACTIVE", "RELEASE"}

\* The indication that answers a request of a channel.
KindOf(ch) == IF ch \in {"active", "asynActive"} THEN "ACTIVE" ELSE "RELEASE"

\* The two channels the callback looks at for an indication, in its order.
FirstChan(kind) == IF kind = "ACTIVE" THEN "active" ELSE "deactive"
LastChan(kind)  == IF kind = "ACTIVE" THEN "asynActive" ELSE "asynDeactive"

\* waits is FALSE for the requests whose indication the thread ignores.
Request == [chan : Channels, cid : Nat, waits : BOOLEAN]

ASSUME ScriptAssumption == Script \in Seq(Request)

Steps   == 1..Len(Script)
Chan(s) == Script[s].chan

VARIABLES
  step,      \* index of the request the thread works on
  pc,        \* where the thread is in that request
  sem,       \* the global semaphore handles, one per channel
  flag,      \* the global test_pdp_*_flag variables, one per channel
  live,      \* the semaphores that exist
  count,     \* signals not yet taken from each semaphore
  pending,   \* requests the modem has not answered
  cb,        \* the callback: where it is, for which channel and request
  by,        \* history: the request whose indication signalled last, or 0
  missed     \* history: the answer to the current request woke nobody

vars == <<step, pc, sem, flag, live, count, pending, cb, by, missed>>

IdleCb == [pc |-> "idle", chan |-> "active", req |-> 0, hit |-> 0]

Init ==
  /\ step = 1
  /\ pc = "call"
  /\ sem = [ch \in Channels |-> 0]
  /\ flag = [ch \in Channels |-> FALSE]
  /\ live = {}
  /\ count = [s \in Steps |-> 0]
  /\ pending = {}
  /\ cb = IdleCb
  /\ by = 0
  /\ missed = FALSE

-----------------------------------------------------------------------------
(* The application thread *)

\* fibo_PDPActive, fibo_PDPRelease, fibo_asyn_PDPActive, fibo_asyn_PDPRelease:
\* from here on the modem may answer.
Call ==
  /\ step \in Steps
  /\ pc = "call"
  /\ pending' = pending \cup {step}
  /\ IF Script[step].waits
       THEN pc' = "new" /\ UNCHANGED step
       ELSE step' = step + 1 /\ UNCHANGED pc
  /\ UNCHANGED <<sem, flag, live, count, cb, by, missed>>

SemNew ==
  /\ pc = "new"
  /\ sem' = [sem EXCEPT ![Chan(step)] = step]
  /\ live' = live \cup {step}
  /\ count' = [count EXCEPT ![step] = 0]
  /\ pc' = "arm"
  /\ by' = 0
  /\ UNCHANGED <<step, flag, pending, cb, missed>>

Arm ==
  /\ pc = "arm"
  /\ flag' = [flag EXCEPT ![Chan(step)] = TRUE]
  /\ pc' = "wait"
  /\ UNCHANGED <<step, sem, live, count, pending, cb, by, missed>>

\* Faulty variant: the wait has a timeout and returns without a signal.
SemWaitTimed ==
  /\ pc = "wait"
  /\ pc' = "free"
  /\ UNCHANGED <<step, sem, flag, live, count, pending, cb, by, missed>>

SemWait ==
  /\ pc = "wait"
  /\ count[sem[Chan(step)]] > 0
  /\ count' = [count EXCEPT ![sem[Chan(step)]] = @ - 1]
  /\ pc' = "free"
  /\ UNCHANGED <<step, sem, flag, live, pending, cb, by, missed>>

SemFree ==
  /\ pc = "free"
  /\ live' = live \ {sem[Chan(step)]}
  /\ step' = step + 1
  /\ pc' = "call"
  /\ missed' = FALSE
  /\ UNCHANGED <<sem, flag, count, pending, cb, by>>

Thread == Call \/ SemNew \/ Arm \/ SemWait \/ SemFree

-----------------------------------------------------------------------------
(* The modem and the signal callback *)

\* ..._ACTIVE_IND or ..._RELEASE_IND: the answers come one at a time, in any
\* order, and the callback starts with the synchronous channel.
Indicate(r) ==
  /\ cb.pc = "idle"
  /\ pending' = pending \ {r}
  /\ cb' = [pc |-> "test", chan |-> FirstChan(KindOf(Chan(r))), req |-> r, hit |-> 0]
  /\ UNCHANGED <<step, pc, sem, flag, live, count, by, missed>>

\* ..._ACTIVE_OR_DEACTIVE_FAIL_IND: the callback signals nobody.
IndicateFailure(r) ==
  /\ cb.pc = "idle"
  /\ pending' = pending \ {r}
  /\ missed' = (missed \/ r = step)
  /\ UNCHANGED <<step, pc, sem, flag, live, count, cb, by>>

IsLast == cb.chan = LastChan(KindOf(cb.chan))

\* Faulty variant: the case of ACTIVE_IND has no break and runs into the next.
NextChannelFallsThrough ==
  cb' = IF cb.chan = "asynDeactive" THEN IdleCb
        ELSE [cb EXCEPT !.pc = "test",
                        !.chan = CASE cb.chan = "active"     -> "asynActive"
                                   [] cb.chan = "asynActive" -> "deactive"
                                   [] cb.chan = "deactive"   -> "asynDeactive"]

\* Faulty variant: the callback looks at the synchronous channel only.
NextChannelNone == cb' = IdleCb

\* The callback goes on to the next channel, or returns.
NextChannel ==
  cb' = IF IsLast THEN IdleCb
        ELSE [cb EXCEPT !.pc = "test", !.chan = LastChan(KindOf(cb.chan))]

\* Faulty variant: the handle alone is tested, as select_demo.c does.
ArmedByHandle(ch) == sem[ch] # 0

Armed(ch) == sem[ch] # 0 /\ flag[ch]

TestPasses ==
  /\ cb.pc = "test"
  /\ Armed(cb.chan)
  /\ cb' = [cb EXCEPT !.pc = "signal"]
  /\ UNCHANGED <<step, pc, sem, flag, live, count, pending, by, missed>>

TestFails ==
  /\ cb.pc = "test"
  /\ ~Armed(cb.chan)
  /\ NextChannel
  /\ missed' = (missed \/ (IsLast /\ cb.hit = 0 /\ cb.req = step))
  /\ UNCHANGED <<step, pc, sem, flag, live, count, pending, by>>

Signal ==
  /\ cb.pc = "signal"
  /\ count' = [count EXCEPT ![sem[cb.chan]] = @ + 1]
  /\ by' = cb.req
  /\ cb' = [cb EXCEPT !.pc = "clear", !.hit = sem[cb.chan]]
  /\ UNCHANGED <<step, pc, sem, flag, live, pending, missed>>

\* Faulty variant: the callback never lowers the flag.
ClearFlagForgotten ==
  /\ cb.pc = "clear"
  /\ NextChannel
  /\ UNCHANGED <<step, pc, sem, flag, live, count, pending, by, missed>>

\* Faulty variant: the callback lowers every flag.
ClearFlagAll ==
  /\ cb.pc = "clear"
  /\ flag' = [ch \in Channels |-> FALSE]
  /\ NextChannel
  /\ UNCHANGED <<step, pc, sem, live, count, pending, by, missed>>

ClearFlag ==
  /\ cb.pc = "clear"
  /\ flag' = [flag EXCEPT ![cb.chan] = FALSE]
  /\ NextChannel
  /\ UNCHANGED <<step, pc, sem, live, count, pending, by, missed>>

Callback == TestPasses \/ TestFails \/ Signal \/ ClearFlag

Modem == \E r \in pending : Indicate(r) \/ IndicateFailure(r)

Next == Thread \/ Callback \/ Modem

\* Both threads run on the RTOS with time slicing and nothing above them
\* spins, so each of them goes on; the modem answers every request.
Spec == Init /\ [][Next]_vars /\ WF_vars(Thread) /\ WF_vars(Callback) /\ WF_vars(Modem)

-----------------------------------------------------------------------------
(* Properties *)

Callbacks == [pc : {"idle", "test", "signal", "clear"}, chan : Channels,
              req : Steps \cup {0}, hit : Steps \cup {0}]

\* Every variable holds a value the program's variables can hold.
TypeOK ==
  /\ step \in 1..(Len(Script) + 1)
  /\ pc \in {"call", "new", "arm", "wait", "free"}
  /\ sem \in [Channels -> Steps \cup {0}]
  /\ flag \in [Channels -> BOOLEAN]
  /\ live \in SUBSET Steps
  /\ count \in [Steps -> Nat]
  /\ pending \in SUBSET Steps
  /\ cb \in Callbacks
  /\ by \in Steps \cup {0}
  /\ missed \in BOOLEAN

\* The callback never signals a semaphore the thread has freed, although the
\* thread leaves every freed handle in its global and an indication may come
\* at any time: the flag alone keeps the stale handle from being used.
NoSignalAfterFree == cb.pc = "signal" => sem[cb.chan] \in live

\* A semaphore is freed with no signal left in it: no indication is counted
\* twice, and none is thrown away with its semaphore.
FreedDrained == pc = "free" => count[step] = 0

\* The wait for a request returns only for an indication of the kind the
\* request asks for, and that indication was handled after the flag was raised.
WakeAfterIndication ==
  pc = "free" => by # 0 /\ KindOf(Chan(by)) = KindOf(Chan(step))

\* The last request before s that the thread waited for uses the channel of s.
RepeatsChannel(s) ==
  \E r \in 1..(s-1) : /\ Script[r].waits
                      /\ Chan(r) = Chan(s)
                      /\ \A i \in (r+1)..(s-1) : ~Script[i].waits

\* The callback clears the flag after it signals, when the thread may be
\* running again.  Unless the thread's next awaited request is on the same
\* channel, that late store never undoes the flag of a new request: a thread
\* that waits and is not signalled yet has its flag up.
ArmPersists ==
  pc = "wait" /\ count[step] = 0 /\ ~RepeatsChannel(step) => flag[Chan(step)]

=============================================================================
