------------------------------ MODULE BleClient ------------------------------
(***************************************************************************)
(* The BLE client of oc_ble_client_demo.c: it scans for a peripheral,      *)
(* connects, discovers one service of it step by step and configures its   *)
(* descriptors, while the application's thread writes to and reads from    *)
(* whatever characteristics have been found.                               *)
(*                                                                         *)
(* Every callback runs on the core's thread.  The Bluetooth stack carries  *)
(* out one discovery procedure at a time and hands each response of the    *)
(* peer to a callback.  A procedure ends when the range asked for is       *)
(* exhausted, or with the error ATT_ERR_ATTRIBUTE_NOT_FOUND when nothing   *)
(* is left in the rest of it; whether a range exhausted by its last        *)
(* response is followed by that error is left open.                        *)
(*                                                                         *)
(* A service is the handle of its declaration, the kinds of the attributes *)
(* behind it in order of their handles, how many more handles the range of *)
(* the service spans beyond its last attribute, and which attributes of    *)
(* the peer are wide: Find Information reports them with a UUID of 128     *)
(* bits.                                                                   *)
(***************************************************************************)
EXTENDS SequencesExt

CONSTANTS
  Services,   \* what the peripheral may offer under the target UUID
  Absent,     \* the peripheral does not offer it
  MaxChara,   \* the room in gatt_client_chara
  MaxDesc,    \* the room in gatt_client_chara_desc
  Batch       \* the most attributes one response carries

AttrKind == {"chara", "value", "cccd", "other"}

\* The attributes of a service, by handle.  A descriptor belongs to the
\* characteristic before it; what comes before the first one is an included
\* service.  DescsOf are the descriptors the client knows of, those with a
\* UUID of 16 bits.  A handle is a UINT16.
LastOf(s)      == s.start + Len(s.attrs)
EndOf(s)       == LastOf(s) + s.slack
KindAt(s, h)   == IF h > s.start THEN s.attrs[h - s.start] ELSE "other"
InService(s)   == (s.start + 1)..LastOf(s)
CharasOf(s)    == {h \in InService(s) : KindAt(s, h) = "chara"}
DescsOf(s)     == {h \in InService(s) \ s.wide : /\ KindAt(s, h) \notin {"chara", "value"}
                                                /\ \E g \in CharasOf(s) : g < h}
MaxHandle      == 65535
Handles        == 0..MaxHandle

\* The value of a characteristic lies right behind its declaration.  The types
\* the Bluetooth standard defines, the declarations and the configuration
\* descriptor among them, have 16 bits.
ASSUME ServicesAssumption ==
  /\ Services \subseteq [start : Nat \ {0}, attrs : Seq(AttrKind), slack : Nat,
                   wide : SUBSET Nat]
  /\ \A s \in Services :
       /\ EndOf(s) \in Handles
       /\ \A k \in DOMAIN s.attrs :
            /\ s.attrs[k] = "chara" => k < Len(s.attrs)
            /\ s.attrs[k] = "value" <=> k > 1 /\ s.attrs[k - 1] = "chara"
            /\ s.attrs[k] \in {"chara", "cccd"} => s.start + k \notin s.wide
  /\ Absent \notin Services

ASSUME BoundsAssumption == {MaxChara, MaxDesc, Batch} \subseteq Nat \ {0}

VARIABLES
  link,              \* the connection, as the stack knows it; "up" exactly
                     \* while fibo_ble_client_param.connect is 1
  peer,              \* the service of the connected peripheral, or Absent
  connects,          \* connections asked for since scanning started
  first_time_scan,
  state,             \* gatt_client_state
  proc,              \* the stack's procedure and the range it still covers
  prime,             \* start and end handle of the service found
  chara,             \* gatt_client_chara, by C index
  chara_count,       \* and charNum, which always changes with it
  desc,              \* gatt_client_chara_desc; its length is chara_desc_count
  find_info_index,
  written,           \* the descriptors SET_CONFIG wrote, in order; the first
                     \* config_index entries of desc are done
  config_index,
  corrupt,           \* an access beyond one of the two arrays has happened
  worker,            \* where the application's thread is, and its index
  raced              \* history: a report came before the thread's own store
                     \* to first_time_scan

link_vars  == <<link, peer, connects, first_time_scan, raced>>
table_vars == <<prime, chara, chara_count, desc, find_info_index, written, config_index>>
vars == <<link_vars, state, proc, table_vars, corrupt, worker>>

NoChara == [handle |-> 0, valueHandle |-> 0, descNum |-> 0]
NoProc  == [kind |-> "none", from |-> 0, to |-> 0]

Init ==
  /\ link = "off"
  /\ peer = Absent
  /\ connects = 0
  /\ first_time_scan = TRUE
  /\ state = "disconnect"
  /\ proc = NoProc
  /\ prime = [startHandle |-> 0, endHandle |-> 0]
  /\ chara = [i \in 0..(MaxChara - 1) |-> NoChara]
  /\ chara_count = 0
  /\ desc = << >>
  /\ find_info_index = 0
  /\ written = << >>
  /\ config_index = 0
  /\ corrupt = FALSE
  /\ worker = [pc |-> "scan", i |-> 0]
  /\ raced = FALSE

-----------------------------------------------------------------------------
(* Scanning and connecting *)

\* Faulty variant: a report does not use up the permission to connect.
ReportAgain ==
  /\ link \in {"scanning", "connecting"}
  /\ first_time_scan
  /\ connects < 2
  /\ connects' = connects + 1
  /\ link' = "connecting"
  /\ raced' = (raced \/ worker.pc = "first")
  /\ UNCHANGED <<peer, first_time_scan, state, proc, table_vars, corrupt, worker>>

\* fibo_scan_cb, for a report that names the peripheral and its address.
\* Reports queued before the scan was stopped still arrive.
Report ==
  /\ link \in {"scanning", "connecting"}
  /\ first_time_scan
  /\ first_time_scan' = FALSE
  /\ connects' = connects + 1
  /\ link' = "connecting"
  /\ raced' = (raced \/ worker.pc = "first")
  /\ UNCHANGED <<peer, state, proc, table_vars, corrupt, worker>>

\* fibo_connection_state_change_cb, connected: the discovery starts at once,
\* and the state is not set to GATT_CLIENT_DISCOVER_PRME_SER.
Connected ==
  /\ link = "connecting"
  /\ link' = "up"
  /\ peer' \in Services \cup {Absent}
  /\ state' = "connected"
  /\ proc' = [kind |-> "primary", from |-> 0, to |-> 0]
  /\ UNCHANGED <<connects, first_time_scan, raced, table_vars, corrupt, worker>>

\* Faulty variant: only the connection is reset, not what was discovered.
DisconnectedKeepsTables ==
  /\ link \in {"connecting", "up"}
  /\ link' = "scanning"
  /\ peer' = Absent
  /\ connects' = 0
  /\ first_time_scan' = TRUE
  /\ state' = "disconnect"
  /\ proc' = NoProc
  /\ raced' = FALSE
  /\ UNCHANGED <<table_vars, corrupt, worker>>

\* The same callback, disconnected: everything is set to zero and the scan
\* starts again.
Disconnected ==
  /\ link \in {"connecting", "up"}
  /\ link' = "scanning"
  /\ peer' = Absent
  /\ connects' = 0
  /\ first_time_scan' = TRUE
  /\ state' = "disconnect"
  /\ proc' = NoProc
  /\ prime' = [startHandle |-> 0, endHandle |-> 0]
  /\ chara' = [i \in DOMAIN chara |-> NoChara]
  /\ chara_count' = 0
  /\ desc' = << >>
  /\ find_info_index' = 0
  /\ written' = << >>
  /\ config_index' = 0
  /\ raced' = FALSE
  /\ UNCHANGED <<corrupt, worker>>

-----------------------------------------------------------------------------
(* The discovery *)

Ask(kind, from, to) == proc' = [kind |-> kind, from |-> from, to |-> to]

\* The place of h among the members of a set of numbers, the first b of them,
\* and all of them in order.
Rank(S, h)    == Cardinality({g \in S : g < h})
FirstOf(S, b) == {h \in S : Rank(S, h) < b}
InOrder(S)    == [k \in 1..Cardinality(S) |-> CHOOSE h \in S : Rank(S, h) = k - 1]

\* Faulty variant: the UUID of the descriptors is not looked at.
SetConfigAll(descs) ==
  /\ state' = "config"
  /\ written' = written \o SubSeq(descs, config_index + 1, Len(descs))
  /\ config_index' = Len(descs)
  /\ proc' = NoProc

\* GATT_CLIENT_SET_CONFIG: enable every descriptor with UUID 0x2902.
SetConfig(descs) ==
  LET cccds == InOrder({k \in (config_index + 1)..Len(descs) : descs[k].uuid = "cccd"})
  IN  /\ state' = "config"
      /\ written' = written \o [k \in DOMAIN cccds |-> descs[cccds[k]]]
      /\ config_index' = Len(descs)
      /\ proc' = NoProc

\* From characteristic i on, the first that is the last or has room for
\* descriptors before the next.
Passed(table, n, i) ==
  Min({j \in i..(i + n) : ~(j + 1 < n /\ table[j].valueHandle + 1 = table[j + 1].handle)})

\* Faulty variant: the end of the service is not looked at.
FindInfoToEnd(table, n, descs, i) ==
  LET j == Passed(table, n, i) IN
  /\ find_info_index' = j
  /\ \/ /\ j >= MaxChara
        /\ corrupt' = TRUE
        /\ UNCHANGED <<state, proc, written, config_index>>
     \/ /\ j < MaxChara
        /\ UNCHANGED <<corrupt, written, config_index>>
        /\ state' = "info"
        /\ Ask("info", table[j].valueHandle + 1,
               IF j + 1 < n THEN table[j + 1].handle - 1 ELSE prime.endHandle)

\* GATT_CLIENT_FIND_INFO: ask for the descriptors of the next characteristic
\* that may have some.  Entries behind the last one are still zero.
FindInfo(table, n, descs, i) ==
  LET j == Passed(table, n, i) IN
  /\ find_info_index' = j
  /\ \/ /\ j >= MaxChara
        /\ corrupt' = TRUE
        /\ UNCHANGED <<state, proc, written, config_index>>
     \/ /\ j + 1 < n
        /\ state' = "info"
        /\ Ask("info", table[j].valueHandle + 1, table[j + 1].handle - 1)
        /\ UNCHANGED <<corrupt, written, config_index>>
     \/ /\ j < MaxChara /\ j + 1 >= n
        /\ UNCHANGED corrupt
        /\ IF prime.endHandle >= table[j].valueHandle + 1
             THEN /\ state' = "info"
                  /\ Ask("info", table[j].valueHandle + 1, prime.endHandle)
                  /\ UNCHANGED <<written, config_index>>
             ELSE SetConfig(descs)

\* fibo_discover_service_by_uuid_cb, which goes on to GATT_CLIENT_READ_INCLUDE.
ServiceFound ==
  /\ proc.kind = "primary" /\ peer # Absent
  /\ prime' = [startHandle |-> peer.start, endHandle |-> EndOf(peer)]
  /\ state' = "include"
  /\ Ask("include", peer.start, EndOf(peer))
  /\ UNCHANGED <<link_vars, chara, chara_count, desc, find_info_index, written,
                 config_index, corrupt, worker>>

\* fibo_att_error_cb for it: in state "connected" nothing is done.
ServiceMissing ==
  /\ proc.kind = "primary" /\ peer = Absent
  /\ proc' = NoProc
  /\ UNCHANGED <<link_vars, state, table_vars, corrupt, worker>>

\* Faulty variant: the error callback does nothing in GATT_CLIENT_READ_INCLUDE.
NoMoreIncludesIgnored ==
  /\ proc.kind = "include"
  /\ proc' = NoProc
  /\ UNCHANGED <<link_vars, state, table_vars, corrupt, worker>>

\* The same callback after the included services: on to
\* GATT_CLIENT_READ_CHARA_DEC.
NoMoreIncludes ==
  /\ proc.kind = "include"
  /\ state' = "chara"
  /\ Ask("chara", prime.startHandle, prime.endHandle)
  /\ UNCHANGED <<link_vars, table_vars, corrupt, worker>>

\* The table with the characteristics found from entry c on.
Filled(table, c, found) ==
  [i \in DOMAIN table |->
     IF i \in c..(c + Len(found) - 1)
     THEN [handle |-> found[i - c + 1], valueHandle |-> found[i - c + 1] + 1,
           descNum |-> table[i].descNum]
     ELSE table[i]]

CharasLeft == {h \in CharasOf(peer) : h >= proc.from}

\* fibo_char_data: the next characteristics of the range.
CharData ==
  /\ proc.kind = "chara" /\ CharasLeft # {}
  /\ \E b \in 1..Batch :
       LET found == InOrder(FirstOf(CharasLeft, b))
           n     == chara_count + Len(found)
           table == Filled(chara, chara_count, found)
       IN  IF n > MaxChara
           THEN corrupt' = TRUE /\ UNCHANGED <<state, proc, table_vars>>
           ELSE /\ chara' = table
                /\ chara_count' = n
                /\ IF table[n - 1].valueHandle = prime.endHandle
                     THEN FindInfo(table, n, desc, 0)
                     ELSE /\ Ask("chara", Last(found) + 1, proc.to)
                          /\ UNCHANGED <<state, find_info_index, written, config_index, corrupt>>
                /\ UNCHANGED <<prime, desc>>
  /\ UNCHANGED <<link_vars, worker>>

\* The error callback at the end of the characteristics.
NoMoreCharas ==
  /\ proc.kind = "chara" /\ CharasLeft = {}
  /\ FindInfo(chara, chara_count, desc, 0)
  /\ UNCHANGED <<link_vars, prime, chara, chara_count, desc, worker>>

\* Find Information answers with every attribute of the range.  The UUIDs of
\* one response have the same width, so it ends before the first attribute of
\* the other one.
AttrsLeft == proc.from..Min({proc.to, LastOf(peer)})
NextAttrs ==
  {h \in AttrsLeft : \A g \in proc.from..h : g \in peer.wide <=> proc.from \in peer.wide}

\* Faulty variant: the format is not looked at.
AnyFormat == TRUE

\* fmt is 1: the UUIDs of the response have 16 bits.
Format16 == proc.from \notin peer.wide

\* fibo_char_des_data for UUIDs of 128 bits: nothing is done, whether or not
\* the range is exhausted.
WideDescs ==
  /\ proc.kind = "info" /\ AttrsLeft # {} /\ ~Format16
  /\ \E b \in 1..Batch :
       LET last == Last(InOrder(FirstOf(NextAttrs, b)))
       IN  IF last = proc.to THEN Ask("over", 0, 0) ELSE Ask("info", last + 1, proc.to)
  /\ UNCHANGED <<link_vars, state, table_vars, corrupt, worker>>

\* The same callback for UUIDs of 16 bits: the next attributes of the range.
\* The range is done when the last of them is the last before the next
\* characteristic, or the last of the service.
DescData ==
  /\ proc.kind = "info" /\ AttrsLeft # {} /\ Format16
  /\ \E b \in 1..Batch :
       LET found == InOrder(FirstOf(NextAttrs, b))
           descs == desc \o [k \in DOMAIN found |->
                               [handle |-> found[k], uuid |-> KindAt(peer, found[k])]]
           i     == find_info_index
           table == [chara EXCEPT ![i].descNum = @ + Len(found)]
       IN  IF Len(descs) > MaxDesc
           THEN corrupt' = TRUE /\ UNCHANGED <<state, proc, table_vars>>
           ELSE /\ desc' = descs
                /\ chara' = table
                /\ \/ /\ Last(found) = prime.endHandle
                      /\ FindInfo(table, chara_count, descs, i + 1)
                   \/ /\ Last(found) # prime.endHandle /\ i + 1 >= MaxChara
                      /\ corrupt' = TRUE
                      /\ UNCHANGED <<state, proc, find_info_index, written, config_index>>
                   \/ /\ Last(found) # prime.endHandle /\ i + 1 < MaxChara
                      /\ IF Last(found) + 1 = table[i + 1].handle
                           THEN FindInfo(table, chara_count, descs, i + 1)
                           ELSE /\ Ask("info", Last(found) + 1, proc.to)
                                /\ UNCHANGED <<state, find_info_index, written, config_index, corrupt>>
                /\ UNCHANGED <<prime, chara_count>>
  /\ UNCHANGED <<link_vars, worker>>

\* The stack ends a range that a response without effect has exhausted; the
\* client is not told.
RangeOver ==
  /\ proc.kind = "over"
  /\ proc' = NoProc
  /\ UNCHANGED <<link_vars, state, table_vars, corrupt, worker>>

\* The error callback when the range holds nothing more: it starts again with
\* the first characteristic.
NoMoreDescs ==
  /\ proc.kind = "over" \/ (proc.kind = "info" /\ AttrsLeft = {})
  /\ FindInfo(chara, chara_count, desc, 0)
  /\ UNCHANGED <<link_vars, prime, chara, chara_count, desc, worker>>

Stack == \/ ServiceFound \/ ServiceMissing \/ NoMoreIncludes
         \/ CharData \/ NoMoreCharas
         \/ DescData \/ WideDescs \/ RangeOver \/ NoMoreDescs

-----------------------------------------------------------------------------
(* The application's thread *)

At(pc) == worker.pc = pc
GoTo(pc, i) == worker' = [pc |-> pc, i |-> i]

\* fibo_ble_scan_enable(1): from here on the callback may run.
StartScan ==
  /\ At("scan")
  /\ link' = "scanning"
  /\ GoTo("first", 0)
  /\ UNCHANGED <<peer, connects, first_time_scan, raced, state, proc, table_vars, corrupt>>

SetFirst ==
  /\ At("first")
  /\ first_time_scan' = TRUE
  /\ GoTo("loop", 0)
  /\ UNCHANGED <<link, peer, connects, raced, state, proc, table_vars, corrupt>>

\* The tests for ATT_CHARA_PROP_WRITE and ATT_CHARA_PROP_READ are "|" where "&"
\* is meant and always pass, so only connect decides whether there is an access.
Loop ==
  /\ At("loop")
  /\ IF worker.i < chara_count THEN GoTo("test_write", worker.i)
     ELSE worker.i > 0 /\ GoTo("loop", 0)
  /\ UNCHANGED <<link_vars, state, proc, table_vars, corrupt>>

TestWrite ==
  /\ At("test_write")
  /\ GoTo(IF link = "up" THEN "write" ELSE "test_read", worker.i)
  /\ UNCHANGED <<link_vars, state, proc, table_vars, corrupt>>

Write ==
  /\ At("write")
  /\ GoTo("test_read", worker.i)
  /\ UNCHANGED <<link_vars, state, proc, table_vars, corrupt>>

TestRead ==
  /\ At("test_read")
  /\ IF link = "up" THEN GoTo("read", worker.i) ELSE GoTo("loop", worker.i + 1)
  /\ UNCHANGED <<link_vars, state, proc, table_vars, corrupt>>

Read ==
  /\ At("read")
  /\ GoTo("loop", worker.i + 1)
  /\ UNCHANGED <<link_vars, state, proc, table_vars, corrupt>>

Thread == StartScan \/ SetFirst \/ Loop \/ TestWrite \/ Write \/ TestRead \/ Read

Next == /\ ~corrupt
        /\ Report \/ Connected \/ Disconnected \/ Stack \/ Thread

\* The stack answers every procedure, the scan finds the peripheral and a
\* connection that was asked for comes about or fails.
Spec == /\ Init /\ [][Next]_vars
        /\ WF_vars(~corrupt /\ Stack) /\ WF_vars(~corrupt /\ Thread)
        /\ WF_vars(~corrupt /\ Report) /\ WF_vars(~corrupt /\ Connected)

-----------------------------------------------------------------------------
(* Properties *)

\* Every variable holds a value of its type; in particular the stack is asked
\* for handles that exist, and the indices stay within the arrays until the
\* access that leaves one of them is recorded.
TypeOK ==
  /\ link \in {"off", "scanning", "connecting", "up"}
  /\ peer \in Services \cup {Absent}
  /\ connects \in 0..2
  /\ first_time_scan \in BOOLEAN
  /\ state \in {"disconnect", "connected", "include", "chara", "info", "config"}
  /\ proc \in [kind : {"none", "primary", "include", "chara", "info", "over"}, from : Handles, to : Handles]
  /\ prime \in [startHandle : Handles, endHandle : Handles]
  /\ chara \in [0..(MaxChara - 1) -> [handle : Handles, valueHandle : Handles, descNum : 0..MaxDesc]]
  /\ chara_count \in 0..MaxChara
  /\ desc \in Seq([handle : Handles, uuid : AttrKind]) /\ Len(desc) <= MaxDesc
  /\ find_info_index \in Nat /\ (corrupt \/ find_info_index < MaxChara)
  /\ written \in Seq([handle : Handles, uuid : AttrKind])
  /\ config_index \in 0..Len(desc)
  /\ corrupt \in BOOLEAN
  /\ worker.pc \in {"scan", "first", "loop", "test_write", "write", "test_read", "read"}
  /\ worker.i \in 0..MaxChara
  /\ raced \in BOOLEAN

\* However many reports are queued, one scan leads to one connection request,
\* unless a report was handled before the thread's own store to
\* first_time_scan, which then gives the permission a second time.
ConnectsOnce == connects <= 1 \/ raced

\* The client never scans without the permission to connect: it would scan for
\* ever.
NoDeadScan == link = "scanning" => first_time_scan

\* The permission to connect is used once and is there when it is needed.
ScanPermission == ConnectsOnce /\ NoDeadScan

EndsWithValue(s) == s.attrs # << >> /\ Last(s.attrs) = "value"

\* What lies right before the next characteristic is no wide descriptor.
NoWideTail(s) ==
  \A g, h \in CharasOf(s) : g < h /\ h - 1 \in s.wide => KindAt(s, h - 1) = "value"

\* The services the client can cope with: the last attribute is the value of a
\* characteristic and has the service's end handle, no descriptors end with a
\* wide one, and the arrays have room.
Plain(s) ==
  /\ EndsWithValue(s) /\ s.slack = 0 /\ NoWideTail(s)
  /\ Cardinality(CharasOf(s)) <= MaxChara
  /\ Cardinality(DescsOf(s)) <= MaxDesc

\* No access ever leaves the arrays while the service is plain, however many
\* connections came before.
NoOverflow == corrupt => ~Plain(peer)

HandlesOf(list) == {list[k].handle : k \in DOMAIN list}

\* When the client gets to the configuration, it has found every descriptor of
\* the service with a UUID of 16 bits once, counted it with its characteristic,
\* and enabled exactly the ones that can be enabled, once each.
ConfiguresAll ==
  state = "config" =>
    /\ HandlesOf(desc) = DescsOf(peer) /\ Len(desc) = Cardinality(DescsOf(peer))
    /\ HandlesOf(written) = {h \in DescsOf(peer) : KindAt(peer, h) = "cccd"}
    /\ Len(written) = Cardinality(HandlesOf(written))
    /\ \A i \in 0..(chara_count - 1) :
         chara[i].descNum = Cardinality({h \in DescsOf(peer) :
           h > chara[i].handle /\ \A j \in (i + 1)..(chara_count - 1) : h < chara[j].handle})

\* On a connection the thread writes to and reads from values of this peer's
\* characteristics only, although the connection may have been lost and made
\* again, to a peer with another service, since it tested its index; the entry
\* it then uses is one of this peer or zero.
AccessOfPeer ==
  worker.pc \in {"write", "read"} /\ link = "up" =>
    \/ chara[worker.i].valueHandle = 0
    \/ /\ peer # Absent
       /\ chara[worker.i].valueHandle - 1 \in CharasOf(peer)

\* A connection to a peer with a plain service that lasts gets configured.
ConfiguresPlain ==
  state = "connected" /\ peer # Absent /\ Plain(peer)
    ~> state = "config" \/ link # "up"

=============================================================================
