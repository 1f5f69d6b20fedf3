----------------------------- MODULE PdpScripts -----------------------------
(***************************************************************************)
(* The sequences of PDP requests that the applications' threads issue,     *)
(* for PdpHandshake.  Loops the code runs a fixed number of times take     *)
(* that number as a parameter.                                             *)
(***************************************************************************)
EXTENDS Naturals, Sequences

Req(ch, cid, waits) == [chan |-> ch, cid |-> cid, waits |-> waits]

\* s repeated n times.
Times(n, s) == [i \in 1..(n * Len(s)) |-> s[((i - 1) % Len(s)) + 1]]

(* pdp_sockets_demo.c *)

\* Activate and release the default context, n times.
SyncLoop(n) == Times(n, <<Req("active", 1, TRUE), Req("deactive", 1, TRUE)>>)

\* Activation for the name look-ups, and the synchronous and asynchronous
\* pairs that follow, with the requests whose indication nobody waits for.
MixedRequests ==
  << Req("active", 1, FALSE),
     Req("deactive", 1, FALSE), Req("active", 1, TRUE), Req("deactive", 1, TRUE),
     Req("asynActive", 2, TRUE), Req("asynDeactive", 2, TRUE),
     Req("active", 1, FALSE), Req("deactive", 1, FALSE) >>

\* Activation for the second round of look-ups and the awaited release.
SecondLookup == << Req("active", 1, FALSE), Req("deactive", 1, TRUE) >>

\* Activate and release each of the contexts 1 to c.
CidRounds(c) ==
  [i \in 1..(2 * c) |->
     IF i % 2 = 1 THEN Req("asynActive", (i + 1) \div 2, TRUE)
                  ELSE Req("asynDeactive", i \div 2, TRUE)]

\* Activate the contexts 1 to c one after the other, without a release.
FinalActivations(c) == [i \in 1..c |-> Req("asynActive", i, TRUE)]

\* The first half of the thread: n rounds of the loop, then the mixed requests.
\* oc_async_dns_demo.c does the first round and the first of the latter alone.
FirstHalf(n) == SyncLoop(n) \o MixedRequests

\* The second half: m rounds over c contexts, then the activations alone.
SecondHalf(m, c) == SecondLookup \o Times(m, CidRounds(c)) \o FinalActivations(c)

(* multi_pdn_test.c *)

\* Two contexts activated in turn.
MultiPdnScript == << Req("asynActive", 2, TRUE), Req("asynActive", 3, TRUE) >>

=============================================================================
