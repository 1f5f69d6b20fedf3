----------------------------- MODULE MultiSocket -----------------------------
(***************************************************************************)
(* test_mutil_socket.c: four threads that connect, send, receive once and  *)
(* begin again, for ever, while another thread activates the PDP context   *)
(* and the callback activates it again when the network takes it away.     *)
(* The socket layer with its limited descriptors, the peer and the network *)
(* are external.                                                           *)
(***************************************************************************)
EXTENDS Integers, FiniteSets

CONSTANTS
  SktThreads,    \* the threads of lyd_socket_init
  Descriptors    \* what the socket layer can open at a time

ASSUME SktAssumption == IsFiniteSet(SktThreads) /\ Descriptors \subseteq Nat /\ IsFiniteSet(Descriptors)

VARIABLES
  sktAt,     \* where each thread is
  sid,       \* skts[i].sid, 0 before the first socket
  sktOpen,   \* the descriptors that are open
  link,      \* the connection of each thread's socket
  pdp,       \* the PDP context
  pdpTest,   \* test of pdp_active_thread: it has still to activate
  ends       \* history: connections that ended before data came

sktVars == <<sktAt, sid, sktOpen, link, pdp, pdpTest, ends>>

SktInit ==
  /\ sktAt = [t \in SktThreads |-> "create"]
  /\ sid = [t \in SktThreads |-> 0]
  /\ sktOpen = {}
  /\ link = [t \in SktThreads |-> "none"]
  /\ pdp = "off" /\ pdpTest = TRUE
  /\ ends = 0

\* A socket that cannot be created leaves conn at -1: the thread tries again.
SktCreate(t) ==
  /\ sktAt[t] = "create"
  /\ \E d \in Descriptors \ sktOpen :
       sktOpen' = sktOpen \cup {d} /\ sid' = [sid EXCEPT ![t] = d]
  /\ sktAt' = [sktAt EXCEPT ![t] = "connect"]
  /\ UNCHANGED <<link, pdp, pdpTest, ends>>

\* The send that follows changes nothing, whether it succeeds or not.
SktConnect(t) ==
  /\ sktAt[t] = "connect" /\ pdp = "on"
  /\ sktAt' = [sktAt EXCEPT ![t] = "recv"]
  /\ link' = [link EXCEPT ![t] = "up"]
  /\ UNCHANGED <<sid, sktOpen, pdp, pdpTest, ends>>

\* Faulty variant: a socket that does not connect is kept open.
SktConnectFailsKeeps(t) ==
  /\ sktAt[t] = "connect"
  /\ sktAt' = [sktAt EXCEPT ![t] = "create"]
  /\ UNCHANGED <<sid, sktOpen, link, pdp, pdpTest, ends>>

SktConnectFails(t) ==
  /\ sktAt[t] = "connect"
  /\ sktOpen' = sktOpen \ {sid[t]}
  /\ sktAt' = [sktAt EXCEPT ![t] = "create"]
  /\ UNCHANGED <<sid, link, pdp, pdpTest, ends>>

\* Only a socket that data came from is closed.
SktRecv(t) ==
  /\ sktAt[t] = "recv" /\ link[t] # "up"
  /\ IF link[t] = "data"
       THEN sktOpen' = sktOpen \ {sid[t]} /\ UNCHANGED ends
       ELSE ends' = ends + 1 /\ UNCHANGED sktOpen
  /\ sktAt' = [sktAt EXCEPT ![t] = "create"]
  /\ link' = [link EXCEPT ![t] = "none"]
  /\ UNCHANGED <<sid, pdp, pdpTest>>

-----------------------------------------------------------------------------
(* The peer, the network, pdp_active_thread and the callback *)

PeerActs(t) ==
  /\ link[t] = "up"
  /\ \E s \in {"data", "ended"} : link' = [link EXCEPT ![t] = s]
  /\ UNCHANGED <<sktAt, sid, sktOpen, pdp, pdpTest, ends>>

\* The network is registered and the context asked for, once.
PdpActivate ==
  /\ pdpTest
  /\ pdpTest' = FALSE
  /\ pdp' \in {"on", "off"}
  /\ UNCHANGED <<sktAt, sid, sktOpen, link, ends>>

\* With the context the connections are gone.
PdpLost ==
  /\ pdp = "on"
  /\ pdp' = "lost"
  /\ link' = [t \in SktThreads |-> IF link[t] = "up" THEN "ended" ELSE link[t]]
  /\ UNCHANGED <<sktAt, sid, sktOpen, pdpTest, ends>>

\* GAPP_SIG_PDP_DEACTIVE_ABNORMALLY_IND; a failure is only logged.
PdpAgain ==
  /\ pdp = "lost"
  /\ pdp' \in {"on", "off"}
  /\ UNCHANGED <<sktAt, sid, sktOpen, link, pdpTest, ends>>

SktThread ==
  \/ \E t \in SktThreads :
       SktCreate(t) \/ SktConnect(t) \/ SktConnectFails(t) \/ SktRecv(t)
  \/ PdpActivate \/ PdpAgain

SktNext == SktThread \/ PdpLost \/ \E t \in SktThreads : PeerActs(t)

-----------------------------------------------------------------------------
(* Properties *)

SktTypeOK ==
  /\ sktAt \in [SktThreads -> {"create", "connect", "recv"}]
  /\ sid \in [SktThreads -> Descriptors \cup {0}]
  /\ sktOpen \subseteq Descriptors
  /\ link \in [SktThreads -> {"none", "up", "data", "ended"}]
  /\ pdp \in {"off", "on", "lost"} /\ pdpTest \in BOOLEAN
  /\ ends \in 0..Cardinality(Descriptors)

Holders == {t \in SktThreads : sktAt[t] # "create"}

\* No descriptor is shared, and the pool shrinks by exactly the connections
\* that ended before data came: nothing else leaks a descriptor, and when as
\* many have ended as there are descriptors no thread connects any more.
DescriptorsCounted ==
  /\ \A s, t \in Holders : sid[s] \in sktOpen /\ (s # t => sid[s] # sid[t])
  /\ Cardinality(sktOpen) = Cardinality(Holders) + ends
  /\ ends = Cardinality(Descriptors) => Holders = {}

=============================================================================
