--------------------------- MODULE MCPdpHandshake ---------------------------
(* An instance of PdpHandshake: the scripts of the applications one after  *)
(* the other, with their loops run twice instead of ten times, over two    *)
(* contexts instead of seven.                                              *)
EXTENDS PdpRefinement

S == INSTANCE PdpScripts

Loops == 2
Cids  == 2

\* Two threads in which every request is awaited, the second loop of
\* pdp_sockets_demo.c and the thread of multi_pdn_test.c; and the thread of
\* pdp_sockets_demo.c from its start, but for that loop, to the first of its last
\* activations.  It starts as the one of oc_async_dns_demo.c does.
WholeScript ==
  S!CidRounds(Cids) \o S!MultiPdnScript \o S!FirstHalf(Loops) \o S!SecondHalf(0, 1)

=============================================================================
