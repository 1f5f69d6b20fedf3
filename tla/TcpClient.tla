----------------------------- MODULE TcpClient -----------------------------
(***************************************************************************)
(* The TCP client of tcp_ok_demo.c: main_task tries the addresses of a     *)
(* host one after the other with a non-blocking connect and a timeout,     *)
(* sends a request and starts recv_task, which reads until the connection  *)
(* ends and then closes the socket.                                        *)
(*                                                                         *)
(* The client's record lies on the stack of main_task, which is gone when  *)
(* recv_task reads it: from then on its fields may turn into anything.     *)
(* The socket layer (lwip) is external and modelled as the calls see it.   *)
(***************************************************************************)
EXTENDS Integers, FiniteSets

CONSTANTS
  Addresses,   \* how many addresses the host has
  Length,      \* how many pieces the request may be written in
  Fds,         \* the numbers a socket may get
  MaxData      \* bound: pieces of data the peer sends

ASSUME SizeAssumption == Addresses \in Nat \ {0} /\ Length \in Nat \ {0} /\ MaxData \in Nat
ASSUME FdsAssumption == Fds \subseteq Nat

Statuses == {"IDLE", "CONNECTTING", "CONNECT_OK", "CONNECT_FAIL", "DISCONNECTTD"}

VARIABLES
  main,       \* where main_task is
  sock,       \* client->sock, or -1
  status,     \* client->status
  addrs,      \* addresses not yet tried
  peer_addr,  \* the pointer to the list getaddrinfo returned is not NULL
  freed,      \* how many times that list has been freed
  sent,       \* pieces written
  recv,       \* where recv_task is
  fd,         \* its copy of the socket
  armed,      \* its read_fds contains the socket
  net,        \* the sockets as lwip knows them
  data,       \* pieces in the receive buffer
  arrived,    \* pieces the peer has sent
  misuse,     \* history: a socket not open was closed
  garbled     \* history: the record on the dead stack was overwritten before
              \* recv_task copied the socket from it

client == <<sock, status>>
tasks  == <<main, addrs, peer_addr, freed, sent>>
reader == <<recv, fd, armed>>
core   == <<net, data, arrived>>
vars   == <<client, tasks, reader, core, misuse, garbled>>

Init ==
  /\ main = "resolve"
  /\ sock = -1
  /\ status = "CONNECTTING"
  /\ addrs = 0
  /\ peer_addr = FALSE
  /\ freed = 0
  /\ sent = 0
  /\ recv = "none"
  /\ fd = -1
  /\ armed = FALSE
  /\ net = [f \in Fds |-> "free"]
  /\ data = 0
  /\ arrived = 0
  /\ misuse = FALSE
  /\ garbled = FALSE

Open == {f \in Fds : net[f] # "free"}

-----------------------------------------------------------------------------
(* The sockets *)

\* close(f) drops what has been received and not read.
Close(f) ==
  /\ net' = IF f \in Open THEN [net EXCEPT ![f] = "free"] ELSE net
  /\ data' = IF f \in Open THEN 0 ELSE data
  /\ misuse' = (misuse \/ f \notin Open)

\* A connection attempt comes to its end, and an open connection to its own.
Settle(f) ==
  /\ net[f] = "pending"
  /\ \E s \in {"up", "refused"} : net' = [net EXCEPT ![f] = s]
  /\ UNCHANGED <<client, tasks, reader, data, arrived, misuse, garbled>>

PeerSends(f) ==
  /\ net[f] = "up"
  /\ arrived < MaxData
  /\ data' = data + 1
  /\ arrived' = arrived + 1
  /\ UNCHANGED <<client, tasks, reader, net, misuse, garbled>>

PeerEnds(f) ==
  /\ net[f] = "up"
  /\ \E s \in {"fin", "reset"} : net' = [net EXCEPT ![f] = s]
  /\ UNCHANGED <<client, tasks, reader, data, arrived, misuse, garbled>>

-----------------------------------------------------------------------------
(* main_task: fibo_demo_connect *)

Resolve ==
  /\ main = "resolve"
  /\ \/ main' = "next" /\ addrs' = Addresses /\ peer_addr' = TRUE
     \/ main' = "error" /\ UNCHANGED <<addrs, peer_addr>>
  /\ UNCHANGED <<client, freed, sent, reader, core, misuse, garbled>>

OpenSocket ==
  /\ main = "next" /\ addrs > 0
  /\ addrs' = addrs - 1
  /\ \/ \E f \in Fds \ Open :
          /\ sock' = f
          /\ net' = [net EXCEPT ![f] = "new"]
          /\ main' = "block"
     \/ sock' = -1 /\ UNCHANGED <<net, main>>
  /\ UNCHANGED <<status, peer_addr, freed, sent, reader, data, arrived, misuse, garbled>>

\* The CHECK behind the loop over the addresses.
NoAddressLeft ==
  /\ main = "next" /\ addrs = 0
  /\ main' = "error"
  /\ UNCHANGED <<client, addrs, peer_addr, freed, sent, reader, core, misuse, garbled>>

SetNonBlocking ==
  /\ main = "block"
  /\ main' \in {"connect", "error"}
  /\ UNCHANGED <<client, addrs, peer_addr, freed, sent, reader, core, misuse, garbled>>

\* connect succeeds at once, is in progress or fails.  When it succeeds an
\* earlier EINPROGRESS in errno may still lead to the select.
Connect ==
  /\ main = "connect"
  /\ \/ /\ net' = [net EXCEPT ![sock] = "up"]
        /\ main' \in {"connected", "select"}
     \/ net' = [net EXCEPT ![sock] = "pending"] /\ main' = "select"
     \/ main' = "failed" /\ UNCHANGED net
  /\ UNCHANGED <<client, addrs, peer_addr, freed, sent, reader, data, arrived, misuse, garbled>>

\* Faulty variant: a timeout goes on to the next address with the socket open.
SelectKeepsSocket ==
  /\ main = "select"
  /\ \/ net[sock] # "pending" /\ main' = "connected"
     \/ net[sock] = "pending" /\ main' = "next"
     \/ main' = "failed"
  /\ UNCHANGED <<client, addrs, peer_addr, freed, sent, reader, core, misuse, garbled>>

\* Faulty variant: without a timeout.
SelectForever ==
  /\ main = "select"
  /\ \/ net[sock] # "pending" /\ main' = "connected"
     \/ net[sock] # "pending" /\ main' = "failed"
  /\ UNCHANGED <<client, addrs, peer_addr, freed, sent, reader, core, misuse, garbled>>

\* select returns when the socket is writable, which it also is after a
\* refusal, when the time is up, or with an error.
Select ==
  /\ main = "select"
  /\ \/ net[sock] # "pending" /\ main' = "connected"
     \/ main' = "failed"
  /\ UNCHANGED <<client, addrs, peer_addr, freed, sent, reader, core, misuse, garbled>>

\* Faulty variant: the number of the closed socket is kept.
FailedKeepsNumber ==
  /\ main = "failed"
  /\ Close(sock)
  /\ main' = "next"
  /\ UNCHANGED <<client, addrs, peer_addr, freed, sent, reader, arrived, garbled>>

\* Faulty variant: the list is freed with each socket that is given up.
FailedFreesList ==
  /\ main = "failed"
  /\ Close(sock)
  /\ sock' = -1
  /\ freed' = freed + 1
  /\ main' = "next"
  /\ UNCHANGED <<status, addrs, peer_addr, sent, reader, arrived, garbled>>

Failed ==
  /\ main = "failed"
  /\ Close(sock)
  /\ sock' = -1
  /\ main' = "next"
  /\ UNCHANGED <<status, addrs, peer_addr, freed, sent, reader, arrived, garbled>>

Connected ==
  /\ main = "connected"
  /\ status' = "CONNECT_OK"
  /\ freed' = freed + 1
  /\ main' = "send"
  /\ UNCHANGED <<sock, addrs, peer_addr, sent, reader, core, misuse, garbled>>

\* The error exit; a socket with the number 0 stays open.
Error ==
  /\ main = "error"
  /\ freed' = IF peer_addr THEN freed + 1 ELSE freed
  /\ IF sock > 0 THEN Close(sock) ELSE UNCHANGED <<net, data, misuse>>
  /\ status' = "CONNECT_FAIL"
  /\ main' = "gone"
  /\ UNCHANGED <<sock, addrs, peer_addr, sent, reader, arrived, garbled>>

-----------------------------------------------------------------------------
(* main_task: fibo_demo_send, and the end *)

\* write takes some of the pieces left; with a full buffer it is tried again.
Send ==
  /\ main = "send"
  /\ net[sock] \in {"up", "fin"}
  /\ \E n \in 1..(Length - sent) :
       /\ sent' = sent + n
       /\ main' = IF sent' = Length THEN "start" ELSE "send"
  /\ UNCHANGED <<client, addrs, peer_addr, freed, reader, core, misuse, garbled>>

\* Any other failure ends the sending, but nobody looks at the result.
SendFails ==
  /\ main = "send"
  /\ net[sock] \in {"refused", "fin", "reset"}
  /\ main' = "start"
  /\ UNCHANGED <<client, addrs, peer_addr, freed, sent, reader, core, misuse, garbled>>

StartReceiver ==
  /\ main = "start"
  /\ main' = "gone"
  /\ recv' = "enter"
  /\ UNCHANGED <<client, addrs, peer_addr, freed, sent, fd, armed, core, misuse, garbled>>

\* The stack of the deleted thread is used for something else.  What becomes of
\* the record's socket does not matter once recv_task has its copy.
ReuseStack ==
  /\ main = "gone"
  /\ recv \notin {"none", "gone"}
  /\ sock' \in Fds \cup {-1}
  /\ status' \in Statuses
  /\ garbled' = (garbled \/ recv = "enter")
  /\ UNCHANGED <<tasks, reader, core, misuse>>

MainTask ==
  \/ Resolve \/ OpenSocket \/ NoAddressLeft \/ SetNonBlocking \/ Connect \/ Select
  \/ Failed \/ Connected \/ Error \/ Send \/ SendFails \/ StartReceiver

-----------------------------------------------------------------------------
(* recv_task *)

Enter ==
  /\ recv = "enter"
  /\ fd' = sock
  /\ armed' = TRUE
  /\ recv' = "loop"
  /\ UNCHANGED <<client, tasks, core, misuse, garbled>>

Loop ==
  /\ recv = "loop"
  /\ recv' = IF status = "CONNECT_OK" THEN "wait" ELSE "close"
  /\ UNCHANGED <<client, tasks, fd, armed, core, misuse, garbled>>

Readable == fd \in Open /\ (data > 0 \/ net[fd] \in {"refused", "fin", "reset"})

\* select finds the socket readable, ...
Ready ==
  /\ recv = "wait"
  /\ armed /\ Readable
  /\ recv' = "read"
  /\ UNCHANGED <<client, tasks, fd, armed, core, misuse, garbled>>

\* ... or its time is up: it then clears the set, which nobody fills again, ...
Tick ==
  /\ recv = "wait"
  /\ ~(armed /\ Readable)
  /\ armed' = FALSE
  /\ recv' = "loop"
  /\ UNCHANGED <<client, tasks, fd, core, misuse, garbled>>

\* ... or it fails.
SelectFails ==
  /\ recv = "wait"
  /\ recv' = "close"
  /\ UNCHANGED <<client, tasks, fd, armed, core, misuse, garbled>>

\* Faulty variant: the end of the connection is taken for a lack of data.
ReadGoesOn ==
  /\ recv = "read"
  /\ data' = 0
  /\ recv' = "loop"
  /\ UNCHANGED <<client, tasks, fd, armed, net, arrived, misuse, garbled>>

\* recv returns data, or else the end of the connection or an error.
Read ==
  /\ recv = "read"
  /\ IF data > 0 THEN data' \in 0..(data - 1) /\ recv' = "loop"
                 ELSE recv' = "close" /\ UNCHANGED data
  /\ UNCHANGED <<client, tasks, fd, armed, net, arrived, misuse, garbled>>

CloseReceiver ==
  /\ recv = "close"
  /\ status' = "DISCONNECTTD"
  /\ Close(fd)
  /\ recv' = "gone"
  /\ UNCHANGED <<sock, tasks, fd, armed, arrived, garbled>>

RecvTask ==
  Enter \/ Loop \/ Ready \/ Tick \/ SelectFails \/ Read \/ CloseReceiver

Network == \E f \in Fds : Settle(f) \/ PeerSends(f) \/ PeerEnds(f)

Next == MainTask \/ RecvTask \/ ReuseStack \/ Network

\* The threads run, and a full send buffer empties or the connection ends; the
\* peer need neither answer, send nor close.
Spec == Init /\ [][Next]_vars /\ WF_vars(MainTask) /\ WF_vars(RecvTask)

-----------------------------------------------------------------------------
(* Properties *)

TypeOK ==
  /\ main \in {"resolve", "next", "block", "connect", "select", "connected", "failed",
               "error", "send", "start", "gone"}
  /\ sock \in Fds \cup {-1}
  /\ fd \in Fds \cup {-1}
  /\ status \in Statuses
  /\ addrs \in 0..Addresses
  /\ peer_addr \in BOOLEAN
  /\ freed \in Nat
  /\ sent \in 0..Length
  /\ recv \in {"none", "enter", "loop", "wait", "read", "close", "gone"}
  /\ armed \in BOOLEAN /\ misuse \in BOOLEAN /\ garbled \in BOOLEAN
  /\ net \in [Fds -> {"free", "new", "pending", "up", "refused", "fin", "reset"}]
  /\ data \in 0..MaxData
  /\ arrived \in data..MaxData

\* Never are two sockets open: an address is given up together with its socket.
\* And the reader's copy is the one that is open until the reader closes it,
\* whatever has become of the record since it was made.
OneSocket ==
  /\ Cardinality(Open) <= 1
  /\ recv \in {"loop", "wait", "read", "close"} /\ ~garbled => Open = {fd}

\* When both threads are gone nothing is left behind, whichever call failed: the
\* list getaddrinfo returned has been freed, and only once, whatever became of
\* the record; and the socket, if recv_task could still copy it, has been closed,
\* and only once, except that the error exit takes the number 0 for none.
NothingLeft ==
  main = "gone" /\ recv \in {"none", "gone"} =>
    /\ freed = IF peer_addr THEN 1 ELSE 0
    /\ ~garbled => /\ Open = {} \/ (recv = "none" /\ sock = 0 /\ Open = {0})
                   /\ ~misuse

\* The connection is up or given up: main_task ends whatever the peer does.
MainEnds == <>(main = "gone")

\* When the connection has ended the reader closes the socket, unless a tick
\* without data has emptied the set it waits on.
ReaderEnds ==
  (recv \in {"loop", "wait"} /\ fd \in Open /\ net[fd] \in {"fin", "reset"})
    ~> (recv = "gone" \/ ~armed \/ garbled)

\* What the comments say of the program.

\* "Here an event can tell other tasks that the connection is established."
OkMeansEstablished ==
  [][main = "connected" /\ main' = "send" => net[sock] \in {"up", "fin", "reset"}]_vars

\* "wait for network data...": data that arrives is read or the reader ends, as
\* long as the record is what main_task left.
DataIsRead ==
  data > 0 ~> (data = 0 \/ recv = "gone" \/ sock # fd \/ status # "CONNECT_OK")

=============================================================================
