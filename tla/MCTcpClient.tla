----------------------------- MODULE MCTcpClient -----------------------------
(* Instances of TcpClient: two addresses, so that a second one is tried, and   *)
(* sockets with and without the number 0.                                      *)
EXTENDS TcpClient

SmallFds == {0, 1}
=============================================================================
