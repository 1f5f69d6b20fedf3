---------------------------- MODULE PdpRefinement ----------------------------
(***************************************************************************)
(* PdpHandshake as an implementation of RequestAnswer: a request is asked  *)
(* by the PDP call, answered when the modem hands its indication to the    *)
(* callback, and served when its sem_wait returns.                         *)
(***************************************************************************)
EXTENDS PdpHandshake

AwaitedSteps == {s \in Steps : Script[s].waits}

\* The thread has made the call of the step it works on.
Called == IF pc = "call" THEN {} ELSE {step}

Asked  == 1..(step - 1) \cup Called
Served == {s \in AwaitedSteps : s < step} \cup (IF pc = "free" THEN {step} ELSE {})
Lost   == IF missed /\ pc # "free" THEN Called ELSE {}

\* Where the thread goes on from a wait on the synchronous channel to one on the
\* asynchronous channel of the same kind, which the callback looks at next.
FollowsSync(s) ==
  /\ Chan(s) = LastChan(KindOf(Chan(s)))
  /\ \E r \in 1..(s - 1) :
       /\ Chan(r) = FirstChan(KindOf(Chan(s))) /\ Script[r].waits
       /\ \A i \in (r + 1)..(s - 1) : ~Script[i].waits

\* Requests for which an answer of their kind may come that was left over: an
\* earlier one was not awaited, or was handed on to the next request.
Strays ==
  {s \in Steps : \E u \in 1..s : /\ KindOf(Chan(u)) = KindOf(Chan(s))
                                 /\ ~Script[u].waits \/ FollowsSync(u)}

\* A request is served by its own answer, or by one left over from an earlier
\* request of the same kind.
Serving(r, s) ==
  \/ r = s
  \/ s \in Strays /\ r < s /\ KindOf(Chan(r)) = KindOf(Chan(s))

Channel == INSTANCE RequestAnswer WITH
  Requests <- Steps, Awaited <- AwaitedSteps, Serves <- Serving,
  asked <- Asked, answered <- Asked \ pending, served <- Served, lost <- Lost

-----------------------------------------------------------------------------
(* Properties *)

\* Whatever the script, the two semaphores, the flags and the callback of
\* pdp_sockets_demo.c implement an answering channel in which every wait returns
\* for the answer to its own request, although the callback never looks at the
\* cid.  Where answers are left over, because the thread did not wait for one or
\* the callback handed one on, it may be an earlier one of the same kind.
OwnAnswers == Channel!Safely

\* The same code implements the fairness of that channel: a request is made when
\* the one before it is served, every request is answered, and each wait returns
\* unless its answer was a failure or found no armed flag.
WaitsReturn == Channel!Fairly

=============================================================================
