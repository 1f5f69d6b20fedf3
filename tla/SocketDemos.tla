----------------------------- MODULE SocketDemos -----------------------------
(***************************************************************************)
(* Six applications in which one thread opens a TCP socket, sends and      *)
(* receives over it and ends, each with its own idea of which results to   *)
(* look at:                                                                *)
(*   "select"    select_demo.c              "ul"    ul_speed_test_demo.c   *)
(*   "selectPdp" pdp_sockets_select_demo.c  "fcntl" fcntl_test_demo.c      *)
(*   "dl"        dl_speed_test_demo.c       "tcp"   fibo_tcp_demo.c        *)
(* The socket layer (lwip) and the peer are external.                      *)
(***************************************************************************)
EXTENDS Integers

CONSTANTS
  Limit,     \* what a speed test transfers (10 MB)
  SendSize,  \* what one send of the upload test adds (1 KB)
  Rounds,    \* of the fcntl test (10)
  MaxData    \* bound: pieces of data the peer sends

ASSUME SocketAssumption ==
  Limit \in Nat /\ SendSize \in Nat \ {0} /\ Rounds \in Nat /\ MaxData \in Nat

Demos == {"select", "selectPdp", "dl", "ul", "fcntl", "tcp"}

VARIABLES
  demo,       \* which application
  at,         \* where its thread is
  sock,       \* its socket
  socketid,   \* the number of the socket: 0, another (1) or none (-1)
  peer,       \* what the peer has done to the connection
  arrived,    \* pieces of data the peer has sent
  inbox,      \* those not yet received
  total,      \* rcvnum of the download test, ret of the upload test
  sends,      \* history: sends that succeeded
  round,      \* i of the fcntl test
  inRead, inError,   \* the socket is in readfds, in errorfds
  connected,  \* FIBO_STATUS_CONNECT_OK
  misuse      \* history: a closed socket has been used

netVars  == <<peer, arrived, inbox>>
dataVars == <<total, sends, round, inRead, inError, connected>>
sockVars == <<demo, at, sock, socketid, netVars, dataVars, misuse>>

SocketInit ==
  /\ demo \in Demos
  /\ at = "create"
  /\ sock = "none"
  /\ socketid = -1
  /\ peer = "quiet"
  /\ arrived = 0 /\ inbox = 0
  /\ total = IF demo = "ul" THEN -1 ELSE 0
  /\ sends = 0
  /\ round = Rounds
  /\ inRead = FALSE /\ inError = FALSE
  /\ connected = FALSE
  /\ misuse = FALSE

Open == sock \in {"new", "pending", "up"}

-----------------------------------------------------------------------------
(* The peer and the socket layer *)

CanSend  == sock = "up" /\ peer # "reset"
CanFail  == sock # "up" \/ peer # "quiet"
Readable == sock = "up" /\ (inbox > 0 \/ peer # "quiet")
InError  == sock = "up" /\ peer = "reset"

\* recv returns 0 or -1 instead of data, which a reset may overtake.
RecvFails == peer = "reset" \/ inbox = 0

Arrive ==
  /\ sock = "up" /\ peer = "quiet" /\ arrived < MaxData
  /\ arrived' = arrived + 1 /\ inbox' = inbox + 1
  /\ UNCHANGED <<demo, at, sock, socketid, peer, dataVars, misuse>>

PeerEnds ==
  /\ sock = "up" /\ peer = "quiet"
  /\ peer' \in {"fin", "reset"}
  /\ UNCHANGED <<demo, at, sock, socketid, arrived, inbox, dataVars, misuse>>

\* An attempt to connect without blocking is decided later.
Decide ==
  /\ sock = "pending"
  /\ sock' \in {"up", "new"}
  /\ UNCHANGED <<demo, at, socketid, netVars, dataVars, misuse>>

SocketPeer == Arrive \/ PeerEnds \/ Decide

-----------------------------------------------------------------------------
(* Steps the threads have in common *)

\* The demos that ask for socketid <= 0 end when the socket has the number 0.
TakesZeroForNone == demo \in {"select", "dl", "ul", "fcntl"}

\* fibo_sock_create; pdp_sockets_select_demo.c does not look at the result.
Create ==
  /\ at = "create"
  /\ IF round = 0 THEN at' = "gone" /\ UNCHANGED <<sock, socketid>>
     ELSE \/ /\ sock' = "none" /\ socketid' = -1
             /\ at' = IF demo = "selectPdp" THEN "connect" ELSE "gone"
          \/ /\ sock' = "new" /\ socketid' = 1
             /\ at' = "connect"
          \/ /\ sock' = "new" /\ socketid' = 0
             /\ at' = IF TakesZeroForNone THEN "gone" ELSE "connect"
  /\ peer' = "quiet" /\ inbox' = 0
  /\ UNCHANGED <<demo, arrived, dataVars, misuse>>

NonBlocking == demo = "fcntl" /\ round % 2 = 0

AfterConnect == IF demo \in {"tcp", "dl"} THEN "select" ELSE "send"

ConnectSucceeds ==
  /\ at = "connect" /\ sock = "new" /\ ~NonBlocking
  /\ sock' = "up"
  /\ at' = AfterConnect
  /\ connected' = TRUE
  /\ inRead' = TRUE /\ inError' = TRUE
  /\ UNCHANGED <<demo, socketid, netVars, total, sends, round, misuse>>

\* Two of them go on; fibo_tcp_demo.c closes the socket, but for the number 0.
ConnectFails ==
  /\ at = "connect" /\ ~NonBlocking
  /\ at' = IF demo \in {"selectPdp", "fcntl"} THEN AfterConnect ELSE "gone"
  /\ sock' = IF demo = "tcp" /\ socketid > 0 THEN "closed" ELSE sock
  /\ inRead' = TRUE /\ inError' = TRUE
  /\ UNCHANGED <<demo, socketid, netVars, total, sends, round, connected, misuse>>

ConnectLater ==
  /\ at = "connect" /\ sock = "new" /\ NonBlocking
  /\ sock' = "pending"
  /\ at' = AfterConnect
  /\ UNCHANGED <<demo, socketid, netVars, dataVars, misuse>>

\* A send or recv of the given outcome changes nothing else.
Uses(next) ==
  /\ at' = next
  /\ misuse' = (misuse \/ sock = "closed")

-----------------------------------------------------------------------------
(* select_demo.c *)

SelectSend ==
  /\ demo = "select" /\ at = "send"
  /\ \/ CanSend /\ Uses("select")
     \/ CanFail /\ Uses("gone")
  /\ UNCHANGED <<demo, sock, socketid, netVars, dataVars>>

SelectSelect ==
  /\ demo = "select" /\ at = "select"
  /\ IF ~Readable THEN at' = "send" /\ UNCHANGED sock
     ELSE IF InError THEN at' = "gone" /\ sock' = "closed"
     ELSE at' = "recv" /\ UNCHANGED sock
  /\ UNCHANGED <<demo, socketid, netVars, dataVars, misuse>>

\* Faulty variant: the end of the data is not told from data.
SelectRecvAny ==
  /\ demo = "select" /\ at = "recv"
  /\ inbox' = IF inbox > 0 THEN inbox - 1 ELSE 0
  /\ Uses("select")
  /\ UNCHANGED <<demo, sock, socketid, peer, arrived, dataVars>>

SelectRecv ==
  /\ demo = "select" /\ at = "recv"
  /\ \/ inbox > 0 /\ inbox' = inbox - 1 /\ Uses("select")
     \/ RecvFails /\ Uses("gone") /\ UNCHANGED inbox
  /\ UNCHANGED <<demo, sock, socketid, peer, arrived, dataVars>>

-----------------------------------------------------------------------------
(* pdp_sockets_select_demo.c: the sets are filled before the loop, results   *)
(* are not looked at, and the loop is never left                             *)

SelectPdpSend ==
  /\ demo = "selectPdp" /\ at = "send"
  /\ Uses("select")
  /\ UNCHANGED <<demo, sock, socketid, netVars, dataVars>>

\* select leaves in the sets what is ready; a closed socket makes it fail, and
\* one whose connect has failed may be in error.
SelectPdpSelect ==
  /\ demo = "selectPdp" /\ at = "select"
  /\ IF ~Open /\ (inRead \/ inError) THEN UNCHANGED <<inRead, inError, sock>> /\ at' = "send"
     ELSE /\ \E failed \in BOOLEAN :
               /\ failed => sock = "new"
               /\ inRead' = (inRead /\ (Readable \/ failed))
               /\ inError' = (inError /\ (InError \/ failed))
          /\ sock' = IF inError' THEN "closed" ELSE sock
          /\ at' = IF ~inError' /\ inRead' THEN "recv" ELSE "send"
  /\ UNCHANGED <<demo, socketid, netVars, total, sends, round, connected, misuse>>

SelectPdpRecv ==
  /\ demo = "selectPdp" /\ at = "recv"
  /\ inbox' = IF inbox > 0 THEN inbox - 1 ELSE 0
  /\ Uses("send")
  /\ UNCHANGED <<demo, sock, socketid, peer, arrived, dataVars>>

-----------------------------------------------------------------------------
(* dl_speed_test_demo.c *)

DlSelect ==
  /\ demo = "dl" /\ at = "select"
  /\ Readable
  /\ IF InError THEN at' = "gone" /\ sock' = "closed" ELSE at' = "recv" /\ UNCHANGED sock
  /\ UNCHANGED <<demo, socketid, netVars, dataVars, misuse>>

\* rcvnum += fibo_sock_recv(...): -1 for an error, 0 for the end of the data.
DlCount ==
  \/ inbox > 0 /\ total' = total + 1 /\ inbox' = inbox - 1
  \/ peer = "reset" /\ total' = total - 1 /\ inbox' = inbox
  \/ peer = "fin" /\ inbox = 0 /\ UNCHANGED <<total, inbox>>

\* Faulty variant: the test ends without closing the socket.
DlRecvKeeps ==
  /\ demo = "dl" /\ at = "recv"
  /\ DlCount
  /\ Uses(IF total' > Limit \/ total' <= 0 THEN "gone" ELSE "select")
  /\ UNCHANGED <<demo, sock, socketid, peer, arrived, sends, round, inRead, inError, connected>>

DlRecv ==
  /\ demo = "dl" /\ at = "recv"
  /\ DlCount
  /\ sock' = IF total' > Limit THEN "closed" ELSE sock
  /\ Uses(IF total' > Limit \/ total' <= 0 THEN "gone" ELSE "select")
  /\ UNCHANGED <<demo, socketid, peer, arrived, sends, round, inRead, inError, connected>>

-----------------------------------------------------------------------------
(* ul_speed_test_demo.c *)

\* ret += fibo_sock_send(...), from the -1 ret was declared with; an error is
\* noticed only if the sum is negative.  A connection on which a send has failed
\* is lost.
UlSend ==
  /\ demo = "ul" /\ at = "send"
  /\ \/ CanSend /\ total' = total + SendSize /\ sends' = sends + 1
     \/ CanFail /\ total' = total - 1 /\ UNCHANGED sends
  /\ peer' = IF sends' = sends THEN "reset" ELSE peer
  /\ sock' = IF total' > Limit THEN "closed" ELSE sock
  /\ Uses(IF total' > Limit \/ total' < 0 THEN "gone" ELSE "send")
  /\ UNCHANGED <<demo, socketid, arrived, inbox, round, inRead, inError, connected>>

-----------------------------------------------------------------------------
(* fcntl_test_demo.c *)

FcntlSend ==
  /\ demo = "fcntl" /\ at = "send"
  /\ Uses("recv")
  /\ UNCHANGED <<demo, sock, socketid, netVars, dataVars>>

\* A blocking recv on a connection waits for the peer; whatever it returns, the
\* socket is closed and the next round begins.
FcntlRecv ==
  /\ demo = "fcntl" /\ at = "recv"
  /\ NonBlocking \/ sock # "up" \/ Readable
  /\ Uses("create")
  /\ sock' = "closed"
  /\ round' = round - 1
  /\ UNCHANGED <<demo, socketid, netVars, total, sends, inRead, inError, connected>>

-----------------------------------------------------------------------------
(* fibo_tcp_demo.c; the test before F_SETFL never holds: the socket blocks *)

\* fibo_tcp_demo_close
TcpClose ==
  /\ IF socketid > 0 THEN sock' = "closed" /\ socketid' = -1 ELSE UNCHANGED <<sock, socketid>>
  /\ connected' = FALSE

\* A connected socket can always be written to, so that select never waits.
TcpSelect ==
  /\ demo = "tcp" /\ at = "select"
  /\ at' = IF ~connected THEN "gone" ELSE IF Readable THEN "recv" ELSE "send"
  /\ UNCHANGED <<demo, sock, socketid, netVars, dataVars, misuse>>

\* It reads until a call would block, which on this socket it then does.
TcpRecv ==
  /\ demo = "tcp" /\ at = "recv"
  /\ Readable
  /\ \/ inbox > 0 /\ inbox' = inbox - 1 /\ Uses("recv") /\ UNCHANGED <<sock, socketid, connected>>
     \/ RecvFails /\ Uses("send") /\ TcpClose /\ UNCHANGED inbox
  /\ UNCHANGED <<demo, peer, arrived, total, sends, round, inRead, inError>>

TcpSend ==
  /\ demo = "tcp" /\ at = "send"
  /\ \/ ~connected /\ at' = "select" /\ UNCHANGED <<sock, socketid, connected, misuse>>
     \/ connected /\ CanSend /\ Uses("select") /\ UNCHANGED <<sock, socketid, connected>>
     \/ connected /\ CanFail /\ Uses("select") /\ TcpClose
  /\ UNCHANGED <<demo, netVars, total, sends, round, inRead, inError>>

-----------------------------------------------------------------------------

SocketThread ==
  \/ Create \/ ConnectSucceeds \/ ConnectFails \/ ConnectLater
  \/ SelectSend \/ SelectSelect \/ SelectRecv
  \/ SelectPdpSend \/ SelectPdpSelect \/ SelectPdpRecv
  \/ DlSelect \/ DlRecv \/ UlSend \/ FcntlSend \/ FcntlRecv
  \/ TcpSelect \/ TcpRecv \/ TcpSend

SocketNext == SocketThread \/ SocketPeer

-----------------------------------------------------------------------------
(* Properties *)

SocketTypeOK ==
  /\ demo \in Demos
  /\ at \in {"create", "connect", "send", "select", "recv", "gone"}
  /\ sock \in {"none", "new", "pending", "up", "closed"}
  /\ socketid \in {-1, 0, 1}
  /\ peer \in {"quiet", "fin", "reset"}
  /\ arrived \in 0..MaxData /\ inbox \in 0..arrived
  /\ total \in -2..(Limit + SendSize)
  /\ sends \in Nat
  /\ round \in 0..Rounds
  /\ {inRead, inError, connected, misuse} \subseteq BOOLEAN

\* A thread that is gone has left its socket open only if a call failed before
\* its work was done, or the socket has the number 0; the one that closes on its
\* errors leaves only the latter.  Only "selectPdp", which stays in its loop after
\* closing its socket, goes on using it.  A speed test that is done has
\* transferred what it measured: errors in the sums make it longer, not shorter.
GivenBack ==
  /\ at = "gone" /\ Open =>
       \/ socketid = 0
       \/ demo \in {"select", "dl", "ul"} /\ total <= Limit /\ (sock = "new" \/ peer # "quiet")
  /\ misuse => demo = "selectPdp"
  /\ at = "gone" /\ total > Limit =>
       IF demo = "dl" THEN arrived - inbox > Limit ELSE sends * SendSize > Limit

\* The end of the connection is noticed: the socket is given up or the thread
\* ends.  The download test does not notice an orderly end once it has received
\* something, and the demo that fills its sets once may notice neither.
EndNoticed ==
  (sock = "up" /\ demo # "selectPdp" /\
     (peer = "reset" \/ (peer = "fin" /\ demo # "dl")))
    ~> (sock # "up" \/ at = "gone")

=============================================================================
