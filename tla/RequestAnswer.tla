---------------------------- MODULE RequestAnswer ----------------------------
(***************************************************************************)
(* What a semaphore between a requesting thread and a signal callback      *)
(* promises, without threads, handles and flags: requests are asked in     *)
(* order, one awaited request at a time; each is answered at most once;    *)
(* and a wait returns only for an answer that may serve it.  An answer may *)
(* be lost on the way to the waiting thread; that one then waits until     *)
(* another answer serves it, if any does.                                  *)
(***************************************************************************)
EXTENDS Naturals

CONSTANTS
  Requests,      \* the requests, numbered in the order they are asked
  Awaited,       \* those the thread waits for
  Serves(_, _)   \* the answer to the one request may end the wait for the other

VARIABLES
  asked,      \* the requests made
  answered,   \* those whose answer has come
  served,     \* the awaited ones whose wait has returned
  lost        \* the ones still awaited whose own answer woke nobody

channel == <<asked, answered, served, lost>>

Init == asked = {} /\ answered = {} /\ served = {} /\ lost = {}

Ask(r) ==
  /\ r \notin asked
  /\ \A q \in Requests : q < r => q \in asked
  /\ asked \cap Awaited \subseteq served
  /\ asked' = asked \cup {r}
  /\ UNCHANGED <<answered, served, lost>>

Waiting(s) == s \in (asked \cap Awaited) \ served

Answer(r) ==
  /\ r \in asked \ answered
  /\ answered' = answered \cup {r}
  /\ lost' = lost \/ (Waiting(r) /\ lost' = lost \cup {r})
  /\ UNCHANGED <<asked, served>>

Lose(r) ==
  /\ Waiting(r) /\ r \in answered
  /\ lost' = lost \cup {r}
  /\ UNCHANGED <<asked, answered, served>>

Return(s) ==
  /\ Waiting(s)
  /\ \E r \in answered : Serves(r, s)
  /\ served' = served \cup {s}
  /\ lost' = lost \ {s}
  /\ UNCHANGED <<asked, answered>>

Next == \E r \in Requests : Ask(r) \/ Answer(r) \/ Lose(r) \/ Return(r)

\* What may happen.
Safely == Init /\ [][Next]_channel

\* Every request is answered, and a wait whose answer is not lost returns.
Fairly ==
  /\ WF_channel(\E r \in Requests : Ask(r))
  /\ WF_channel(\E r \in Requests : Answer(r))
  /\ WF_channel(\E r \in Requests \ lost : Return(r))

Spec == Safely /\ Fairly

=============================================================================
