------------------------------ MODULE BleServer ------------------------------
(***************************************************************************)
(* oc_ble_server_demo.c: a GATT server.  When the peer writes a value, the *)
(* callback queues two requests, a second apart, and fibo_ble_task sends a *)
(* notification and an indication for them.  What is sent is put together  *)
(* in device_name, which the callback of a client configuration overwrites *)
(* as well.  A copy into device_name is a single step: a text that is torn *)
(* counts as the other's.  The Bluetooth stack and the peer are external.  *)
(***************************************************************************)
EXTENDS Integers, Sequences, FiniteSets

CONSTANTS
  Room,          \* of g_fibo_ble_queue (20)
  MaxWrites,     \* bound: values the peer writes
  MaxChanges     \* bound: configurations the peer writes

ASSUME ServerAssumption == Room \in Nat \ {0} /\ MaxWrites \in Nat /\ MaxChanges \in Nat

VARIABLES
  bleQueue,     \* g_fibo_ble_queue: 1 for a notification, 2 for an indication
  gattCb,       \* the stack's callback: idle or between its two requests
  bleTask,      \* where fibo_ble_task is
  bleValue,     \* what it took from the queue
  device_name,  \* whose text is in front in device_name
  bleSent,      \* history: what was sent, kind and text
  bleWrites, bleChanges, bleDropped   \* history: how often

bleServerVars == <<bleQueue, gattCb, bleTask, bleValue, device_name, bleSent,
                   bleWrites, bleChanges, bleDropped>>

BleServerInit ==
  /\ bleQueue = <<>> /\ gattCb = "idle"
  /\ bleTask = "get" /\ bleValue = 0
  /\ device_name = "8910_ble"
  /\ bleSent = <<>>
  /\ bleWrites = 0 /\ bleChanges = 0 /\ bleDropped = 0

\* The text of each kind.
TextOf(kind) == IF kind = 1 THEN "notify" ELSE "inidicator"

\* fibo_queue_put with a timeout of 0: what becomes of a request for which
\* there is no room is not looked at.
QueuePut(kind) ==
  \/ /\ Len(bleQueue) < Room
     /\ bleQueue' = Append(bleQueue, kind)
     /\ UNCHANGED bleDropped
  \/ /\ Len(bleQueue) = Room
     /\ bleDropped' = bleDropped + 1
     /\ UNCHANGED bleQueue

\* data_write_callback before its sleep and after it.
DataWrite ==
  /\ gattCb = "idle" /\ bleWrites < MaxWrites
  /\ QueuePut(1)
  /\ gattCb' = "sleep"
  /\ bleWrites' = bleWrites + 1
  /\ UNCHANGED <<bleTask, bleValue, device_name, bleSent, bleChanges>>

DataWriteSecond ==
  /\ gattCb = "sleep"
  /\ QueuePut(2)
  /\ gattCb' = "idle"
  /\ UNCHANGED <<bleTask, bleValue, device_name, bleSent, bleWrites, bleChanges>>

\* wifi_changed_cb: "notify_test" begins with the text of a notification.
WifiChanged ==
  /\ gattCb = "idle" /\ bleChanges < MaxChanges
  /\ device_name' = "notify"
  /\ bleChanges' = bleChanges + 1
  /\ UNCHANGED <<bleQueue, gattCb, bleTask, bleValue, bleSent, bleWrites, bleDropped>>

QueueGet ==
  /\ bleTask = "get" /\ bleQueue # <<>>
  /\ bleValue' = Head(bleQueue)
  /\ bleQueue' = Tail(bleQueue)
  /\ bleTask' = "fill"
  /\ UNCHANGED <<gattCb, device_name, bleSent, bleWrites, bleChanges, bleDropped>>

\* Faulty variant: the text is put into device_name once only.
SendFillOnce ==
  /\ bleTask = "fill"
  /\ device_name' = IF device_name = "8910_ble" THEN TextOf(bleValue) ELSE device_name
  /\ bleTask' = "send"
  /\ UNCHANGED <<bleQueue, gattCb, bleValue, bleSent, bleWrites, bleChanges, bleDropped>>

\* fibo_send_notify and fibo_send_indicator up to the call of the stack.
SendFill ==
  /\ bleTask = "fill"
  /\ device_name' = TextOf(bleValue)
  /\ bleTask' = "send"
  /\ UNCHANGED <<bleQueue, gattCb, bleValue, bleSent, bleWrites, bleChanges, bleDropped>>

\* fibo_ble_notify takes what is in device_name then.
BleNotify ==
  /\ bleTask = "send"
  /\ bleSent' = Append(bleSent, [kind |-> bleValue, text |-> device_name])
  /\ bleTask' = "get"
  /\ UNCHANGED <<bleQueue, gattCb, bleValue, device_name, bleWrites, bleChanges, bleDropped>>

BleServerNext ==
  \/ DataWrite \/ DataWriteSecond \/ WifiChanged
  \/ QueueGet \/ SendFill \/ BleNotify

-----------------------------------------------------------------------------
(* Properties *)

BleServerTypeOK ==
  /\ bleQueue \in Seq({1, 2}) /\ Len(bleQueue) <= Room
  /\ gattCb \in {"idle", "sleep"}
  /\ bleTask \in {"get", "fill", "send"} /\ bleValue \in 0..2
  /\ device_name \in {"8910_ble", "notify", "inidicator"}
  /\ bleSent \in Seq([kind : {1, 2}, text : {"8910_ble", "notify", "inidicator"}])
  /\ bleWrites \in 0..MaxWrites /\ bleChanges \in 0..MaxChanges /\ bleDropped \in Nat

Spoilt == {i \in 1..Len(bleSent) : bleSent[i].text # TextOf(bleSent[i].kind)}

\* Although device_name is shared without a lock, a notification is never sent
\* with another text, and every configuration the peer writes spoils at most one
\* indication.  As long as the queue had room, notifications and indications
\* alternate, and what was sent is never more than was asked for
\* (oc_ble_server_demo.c:120).
SentAsMeant ==
  /\ \A i \in Spoilt : bleSent[i].kind = 2
  /\ Cardinality(Spoilt) <= bleChanges
  /\ bleDropped = 0 => \A i \in 1..Len(bleSent) : bleSent[i].kind = IF i % 2 = 1 THEN 1 ELSE 2
  /\ Len(bleSent) + bleDropped <= 2 * bleWrites

=============================================================================
