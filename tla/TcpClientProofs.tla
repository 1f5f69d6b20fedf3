--------------------------- MODULE TcpClientProofs ---------------------------
(***************************************************************************)
(* Proofs about TcpClient, for every number of addresses, every length of  *)
(* the request and every set of socket numbers.                            *)
(***************************************************************************)
EXTENDS TcpClient, FiniteSetTheorems, TLAPS

NetStates == {"free", "new", "pending", "up", "refused", "fin", "reset"}

Typed ==
  /\ main \in {"resolve", "next", "block", "connect", "select", "connected", "failed",
               "error", "send", "start", "gone"}
  /\ recv \in {"none", "enter", "loop", "wait", "read", "close", "gone"}
  /\ net \in [Fds -> NetStates]
  /\ misuse \in BOOLEAN /\ garbled \in BOOLEAN
  /\ peer_addr \in BOOLEAN /\ freed \in Nat

\* main_task alone holds the socket until it is gone.
Alone == main # "gone" => recv = "none" /\ misuse = FALSE /\ garbled = FALSE

\* Between two addresses there is no socket.
Between == main \in {"resolve", "next"} => sock = -1 /\ Open = {}

\* From its creation to the end of main_task the socket is the one in the record.
InRecord ==
  main \in {"block", "connect", "select", "connected", "failed", "send", "start"} =>
    sock \in Fds /\ Open = {sock}

AtError == main = "error" => (sock = -1 /\ Open = {}) \/ (sock \in Fds /\ Open = {sock})

\* There is a list before main_task opens a socket; it is freed by Connected or,
\* if there is one, by Error.
ListFreed ==
  /\ main = "resolve" => ~peer_addr
  /\ main \notin {"resolve", "error", "gone"} => peer_addr
  /\ freed = IF peer_addr /\ main \in {"send", "start", "gone"} THEN 1 ELSE 0

\* Without a reader nothing but a socket with the number 0 is left.
NoReader ==
  main = "gone" /\ recv = "none" =>
    /\ Open = {} \/ (sock = 0 /\ Open = {0})
    /\ misuse = FALSE /\ garbled = FALSE

\* The reader holds the one socket, the record's until it has its copy.
Reading ==
  recv \in {"enter", "loop", "wait", "read", "close"} =>
    /\ \E f \in Fds : Open = {f}
    /\ garbled = FALSE => /\ misuse = FALSE
                          /\ Open = {IF recv = "enter" THEN sock ELSE fd}

ReaderGone ==
  recv = "gone" => /\ \E f \in Fds : Open \subseteq {f}
                   /\ garbled = FALSE => Open = {} /\ misuse = FALSE

IInv ==
  /\ Typed
  /\ Alone
  /\ Between
  /\ InRecord
  /\ AtError
  /\ ListFreed
  /\ NoReader
  /\ Reading
  /\ ReaderGone

-----------------------------------------------------------------------------
(* Sockets *)

\* Storing a state in a socket opens or closes that socket and no other.
LEMMA StoreState ==
  ASSUME NEW f \in Fds, NEW s \in NetStates, net \in [Fds -> NetStates],
         net' = [net EXCEPT ![f] = s]
  PROVE  /\ net' \in [Fds -> NetStates]
         /\ s # "free" => Open' = Open \cup {f}
         /\ s = "free" => Open' = Open \ {f}
  BY DEF Open, NetStates

\* Closing an open socket.
LEMMA CloseOpen ==
  ASSUME NEW f \in Open, net \in [Fds -> NetStates], misuse = FALSE, Close(f)
  PROVE  /\ net' \in [Fds -> NetStates]
         /\ Open' = Open \ {f}
         /\ misuse' = FALSE
<1>1. net' = [net EXCEPT ![f] = "free"] /\ f \in Fds
  BY DEF Close, Open
<1>2. misuse' = FALSE
  BY DEF Close
<1> QED
  BY <1>1, <1>2, StoreState DEF NetStates

\* Closing anything at all opens nothing.
LEMMA CloseAny ==
  ASSUME NEW f, net \in [Fds -> NetStates], misuse \in BOOLEAN, Close(f)
  PROVE  /\ net' \in [Fds -> NetStates]
         /\ Open' \subseteq Open
         /\ misuse' \in BOOLEAN
<1>1. misuse' \in BOOLEAN
  BY DEF Close
<1>2. CASE f \in Open
  BY <1>1, <1>2, StoreState DEF Close, Open, NetStates
<1>3. CASE f \notin Open
  BY <1>1, <1>3 DEF Close, Open
<1> QED
  BY <1>2, <1>3

\* What the network does to an open socket leaves it open.
LEMMA NetworkKeepsOpen ==
  ASSUME net \in [Fds -> NetStates], Network
  PROVE  /\ net' \in [Fds -> NetStates]
         /\ Open' = Open
         /\ UNCHANGED <<client, tasks, reader, misuse, garbled>>
<1> PICK f \in Fds : Settle(f) \/ PeerSends(f) \/ PeerEnds(f)
  BY DEF Network
<1>1. CASE Settle(f)
  <2> PICK s \in {"up", "refused"} : net' = [net EXCEPT ![f] = s]
    BY <1>1 DEF Settle
  <2> QED
    BY <1>1, StoreState DEF Settle, Open, NetStates
<1>2. CASE PeerSends(f)
  BY <1>2 DEF PeerSends, Open
<1>3. CASE PeerEnds(f)
  <2> PICK s \in {"fin", "reset"} : net' = [net EXCEPT ![f] = s]
    BY <1>3 DEF PeerEnds
  <2> QED
    BY <1>3, StoreState DEF PeerEnds, Open, NetStates
<1> QED
  BY <1>1, <1>2, <1>3

-----------------------------------------------------------------------------
(* The invariant *)

LEMMA InvInit == Init => IInv
<1> SUFFICES ASSUME Init PROVE IInv
  OBVIOUS
<1>1. net \in [Fds -> NetStates] /\ Open = {}
  BY DEF Init, Open, NetStates
<1>2. /\ main = "resolve" /\ recv = "none" /\ sock = -1 /\ misuse = FALSE /\ garbled = FALSE
      /\ peer_addr = FALSE /\ freed = 0
  BY DEF Init
<1> QED
  BY <1>1, <1>2 DEF IInv, Typed, Alone, Between, InRecord, AtError, ListFreed, NoReader,
                    Reading, ReaderGone

LEMMA MainStep == IInv /\ MainTask => IInv'
<1> SUFFICES ASSUME IInv, MainTask PROVE IInv'
  OBVIOUS
<1> USE FdsAssumption DEF IInv, Typed, Alone, Between, InRecord, AtError, ListFreed, NoReader,
                          Reading, ReaderGone, client, tasks, reader, core
<1>1. CASE Resolve
  BY <1>1 DEF Resolve, Open
<1>2. CASE OpenSocket
  <2>1. CASE \E f \in Fds \ Open : /\ sock' = f
                                   /\ net' = [net EXCEPT ![f] = "new"]
                                   /\ main' = "block"
    <3> PICK f \in Fds \ Open : sock' = f /\ net' = [net EXCEPT ![f] = "new"] /\ main' = "block"
      BY <2>1
    <3>1. Open' = {f} /\ net' \in [Fds -> NetStates]
      BY <1>2, StoreState DEF OpenSocket, NetStates
    <3> QED
      BY <1>2, <3>1 DEF OpenSocket
  <2>2. CASE sock' = -1 /\ UNCHANGED <<net, main>>
    BY <1>2, <2>2 DEF OpenSocket, Open
  <2> QED
    BY <1>2, <2>1, <2>2 DEF OpenSocket
<1>3. CASE NoAddressLeft
  BY <1>3 DEF NoAddressLeft, Open
<1>4. CASE SetNonBlocking
  BY <1>4 DEF SetNonBlocking, Open
<1>5. CASE Connect
  <2>1. sock \in Fds /\ Open = {sock}
    BY <1>5 DEF Connect
  <2>2. Open' = {sock} /\ net' \in [Fds -> NetStates]
    <3>1. CASE net' = [net EXCEPT ![sock] = "up"]
      BY <2>1, <3>1, StoreState DEF NetStates
    <3>2. CASE net' = [net EXCEPT ![sock] = "pending"]
      BY <2>1, <3>2, StoreState DEF NetStates
    <3>3. CASE UNCHANGED net
      BY <2>1, <3>3 DEF Open
    <3> QED
      BY <1>5, <3>1, <3>2, <3>3 DEF Connect
  <2> QED
    BY <1>5, <2>1, <2>2 DEF Connect
<1>6. CASE Select
  BY <1>6 DEF Select, Open
<1>7. CASE Failed
  <2>1. Open' = {} /\ net' \in [Fds -> NetStates] /\ misuse' = FALSE
    BY <1>7, CloseOpen DEF Failed
  <2> QED
    BY <1>7, <2>1 DEF Failed
<1>8. CASE Connected
  BY <1>8 DEF Connected, Open
<1>9. CASE Error
  <2>1. (Open' = {} \/ (sock = 0 /\ Open' = {0})) /\ net' \in [Fds -> NetStates] /\ misuse' = FALSE
    <3>1. CASE sock > 0
      <4>1. sock \in Open /\ Open = {sock} /\ Close(sock)
        BY <1>9, <3>1 DEF Error
      <4> QED
        BY <1>9, <4>1, CloseOpen DEF Error
    <3>2. CASE ~(sock > 0)
      <4>1. (sock = -1 /\ Open = {}) \/ (sock \in Nat /\ Open = {sock})
        BY <1>9 DEF Error
      <4>2. sock \in Nat => sock = 0
        BY <3>2
      <4>3. Open = {} \/ (sock = 0 /\ Open = {0})
        BY <4>1, <4>2
      <4> QED
        BY <1>9, <3>2, <4>3 DEF Error, Open
    <3> QED
      BY <3>1, <3>2
  <2>2. /\ main = "error" /\ main' = "gone" /\ recv = "none" /\ recv' = "none" /\ sock' = sock
        /\ peer_addr' = peer_addr /\ freed' = (IF peer_addr THEN 1 ELSE 0)
        /\ misuse = FALSE /\ garbled' = FALSE
    BY <1>9 DEF Error
  <2> QED
    BY <2>1, <2>2
<1>10. CASE Send
  BY <1>10 DEF Send, Open
<1>11. CASE SendFails
  BY <1>11 DEF SendFails, Open
<1>12. CASE StartReceiver
  BY <1>12 DEF StartReceiver, Open
<1> QED
  BY <1>1, <1>2, <1>3, <1>4, <1>5, <1>6, <1>7, <1>8, <1>9, <1>10, <1>11, <1>12 DEF MainTask

LEMMA ReaderStep == IInv /\ RecvTask => IInv'
<1> SUFFICES ASSUME IInv, RecvTask PROVE IInv'
  OBVIOUS
<1> USE DEF IInv, Typed, Alone, Between, InRecord, AtError, ListFreed, NoReader,
            Reading, ReaderGone, client, tasks, reader, core
<1>1. CASE Enter \/ Loop \/ Ready \/ Tick \/ SelectFails \/ Read
  <2>1. /\ net' = net /\ main' = main /\ sock' = sock /\ misuse' = misuse /\ garbled' = garbled
        /\ UNCHANGED <<peer_addr, freed>>
        /\ recv \in {"enter", "loop", "wait", "read"}
        /\ recv' \in {"loop", "wait", "read", "close"}
        /\ fd' = (IF recv = "enter" THEN sock ELSE fd)
    BY <1>1 DEF Enter, Loop, Ready, Tick, SelectFails, Read
  <2>2. Open' = Open
    BY <2>1 DEF Open
  <2> QED
    BY <2>1, <2>2
<1>2. CASE CloseReceiver
  <2>1. /\ Close(fd) /\ recv = "close" /\ recv' = "gone" /\ main' = main /\ sock' = sock
        /\ UNCHANGED <<garbled, peer_addr, freed>>
    BY <1>2 DEF CloseReceiver
  <2>2. net' \in [Fds -> NetStates] /\ Open' \subseteq Open /\ misuse' \in BOOLEAN
    BY <2>1, CloseAny
  <2>3. garbled = FALSE => Open' = {} /\ misuse' = FALSE
    BY <2>1, CloseOpen
  <2> QED
    BY <2>1, <2>2, <2>3
<1> QED
  BY <1>1, <1>2 DEF RecvTask

LEMMA InvStep == IInv /\ [Next]_vars => IInv'
<1> SUFFICES ASSUME IInv, [Next]_vars PROVE IInv'
  OBVIOUS
<1> USE DEF IInv, Typed, Alone, Between, InRecord, AtError, ListFreed, NoReader,
            Reading, ReaderGone, client, tasks, reader, core
<1>1. CASE ReuseStack
  BY <1>1 DEF ReuseStack, Open
<1>2. CASE Network
  BY <1>2, NetworkKeepsOpen
<1>3. CASE UNCHANGED vars
  BY <1>3 DEF vars, Open
<1> QED
  BY <1>1, <1>2, <1>3, MainStep, ReaderStep DEF Next

LEMMA Invariant == Spec => []IInv
  BY InvInit, InvStep, PTL DEF Spec

-----------------------------------------------------------------------------
(* The theorems *)

\* fibo_demo_connect and recv_task: however many addresses fail, and even when
\* the record has been overwritten, there is never a second socket; and the one
\* recv_task has copied stays open until it closes it, provided the record on the
\* dead stack lasted until it was copied.
THEOREM OneSocketOwned == Spec => []OneSocket
<1>1. IInv => OneSocket
  <2> SUFFICES ASSUME IInv PROVE OneSocket
    OBVIOUS
  <2>1. \E f : Open \subseteq {f}
    BY DEF IInv, Typed, Alone, Between, InRecord, AtError, NoReader, Reading, ReaderGone
  <2> PICK f : Open \subseteq {f}
    BY <2>1
  <2>2. Open = {} \/ Open = {f}
    OBVIOUS
  <2>3. Cardinality(Open) <= 1
    BY <2>2, FS_EmptySet, FS_Singleton
  <2>4. recv \in {"loop", "wait", "read", "close"} /\ ~garbled => Open = {fd}
    BY DEF IInv, Typed, Reading
  <2> QED
    BY <2>3, <2>4 DEF OneSocket
<1> QED
  BY <1>1, Invariant, PTL

\* main_task and recv_task: whichever call fails, at the end the list of addresses,
\* if there is one, has been freed once; and the socket, if it could be copied from
\* the record, has been closed, and once, except one with the number 0 at the error
\* exit.
THEOREM LeavesNothing == Spec => []NothingLeft
<1>1. IInv => NothingLeft
  BY DEF IInv, Typed, Alone, ListFreed, NoReader, ReaderGone, NothingLeft
<1> QED
  BY <1>1, Invariant, PTL

=============================================================================
