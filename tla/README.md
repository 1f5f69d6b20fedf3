# FiboSDK in TLA+

FiboSDK is the OpenCPU software kit of the Fibocom L610 / 8910 cellular
modules. The modem core, the RTOS and the protocol stacks are closed binaries
(`components/lib`, with headers under `components/include`); the program code of
the repository is some ninety applications under `demo/`, each a single C file,
of which the build puts one on the module (`CMakeLists.txt`). All paths below
are relative to `demo/`.

This directory models the applications that do something a test hardly reaches:
those with threads, timers and callbacks over unlocked globals, with retries and
late answers, or with a protocol spoken in pieces.

## 1. The system

### Contexts and how they interact

An application is a table of callbacks and some threads:

* `appimg_enter` runs once, starts the application's threads and returns the
  table of callbacks to the core.
* The **signal callback** (`FIBO_CALLBACK_T.fibo_signal`) is run by the core on a
  thread of its own, one signal at a time. While it sleeps or waits, no other
  signal arrives.
* The **timer service** runs the callbacks of software timers one at a time
  (`osi_api.h`, the timer section).
* Drivers (UART, USB, audio, Bluetooth) run their callbacks on further threads.
* Application threads call the core. A call that takes long returns at once and
  its result comes as a signal.

The contexts share the globals of the file. Locks are rare; what orders the
contexts is a counting semaphore or a flag that is polled. This is where the
hazards are: an answer before anyone waits for it or after the wait is over; a
flag cleared after the signal it belongs to; a callback that creates what
another context creates as well; a timer whose callback is due when it is
stopped; a stack record that outlives its thread.

### Components

State is in globals unless it says otherwise. "Modelled" names the modules.

| Component | Files | State | Operations and interaction | What makes it correct | Modelled |
|---|---|---|---|---|---|
| PDP hand-shake | pdp_sockets_demo, oc_async_dns_demo, multi_pdn_test | four semaphore handles and flags | a thread requests activation or release and waits; the callback wakes it | wakes only for its own indication, never touches a freed semaphore, ends | PdpHandshake, and RequestAnswer, which it implements |
| Midea frames and UART receiver | mideaapp | gathered bytes, length | chunks from the driver become frames and events | no damaged frame passes, the receiver finds back into step | MideaFrame, MideaUart, MideaLine |
| Midea task | mideaapp | event list (mutex), count of requests, SN flag, timer handles | the task, three timer callbacks and the UART callback | requests stop with the SN; SN or reset; attached afterwards | MideaTask |
| MQTT client | oc_mqtt_demo, oc_mqtt_demo1 | run and quit flags, result, semaphore | callback and threads replace the thread that ends | the client is never without a thread, not multiplied by itself | MqttReconnect |
| Registering MQTT client | oc_aliyun_based_normalMqtt_demo | the same, the device's secret, a flag for the close to pass over | as above; each thread first registers the device on a connection of its own | the flag does not outlive its registration, the client dies only by a failed one | AliyunRegister |
| TCP client | tcp_ok_demo | socket, status (on a stack) | connect with timeout, address after address, reader thread | every socket closed once, threads end | TcpClient |
| BLE client | oc_ble_client_demo | tables of characteristics and descriptors, connection | GATT callbacks, disconnection, accessing thread | whole service configured, tables not overrun, one connection | BleClient |
| Recorder and play rings | hello_recorder_stream, fibo_audio_poc_play_record_start_demo | positions of driver and thread, file | the driver records, the thread copies to a file; the thread fills, the driver plays | nothing skipped, written or played twice, or out of order | RecorderRing, PocPlay |
| Select loops, speed tests | select_demo, pdp_sockets_select_demo, fcntl_test_demo, dl/ul_speed_test_demo, fibo_tcp_demo | socket, fd sets, sums | one thread sends, selects, receives, closes | descriptors are given back, a closed one is not used, the end of the connection is noticed | SocketDemos |
| Several sockets | test_mutil_socket | a descriptor for each thread, PDP context | threads connect, send, receive and close for ever; the callback activates a lost context again | descriptors are given back and not shared | MultiSocket |
| USB daemon | usb_demo | state word, semaphore | event callback; thread that sends and initialises the device again | a broken device does not make the thread spin, an opened one is used | UsbDaemon |
| Event group | eventGroup_demo | bits, handles | two tasks and a timer interrupt | an event that is set is acted on | EventGroup |
| Notifications | taskNotify_demo | number and pending mark of each task | two tasks wake each other | neither waits for ever | TaskNotify |
| Update over the air | fota_demo, jd_fota_demo | success flag, semaphore | activation in a loop, then the thread that downloads | no wait for an answer that came; the update starts with a context | UpdateStart, up to the call of the core |
| Aliyun client of the core | oc_aliyun_mqtt_demo | semaphore | calls, answers by callback | a wait ends for the answer it waits for | AliyunAnswers |
| BLE server | oc_ble_server_demo | request queue, text buffer | GATT callbacks queue requests, a task sends | what is sent has the text of its kind | BleServer |
| Address conversion | test_mutil_socket and three others (ip4addr_aton), multi_pdn_test (IPv6) | none | pure | agrees with the notation, reads what it writes | AddressText |
| Audio lists and streams | oc_audio_list_play_demo and others | none that a second context uses | one thread calls the driver in sequence | that of the driver | no: the callback of the list player is never handed to the core, so that its count is changed by no one |
| Accept server | pdp_sockets_demo, case 11 | descriptors | accept, receive, close | descriptors are given back | no: `test_demo_handle`, which holds it, is called nowhere |
| The rest | ciphers, files, flash, displays, cameras, pins, serial lines, SIM, cell, positioning, one-shot protocol clients | none or the device's | calls to the core in sequence and a log | that of the closed core | no: nothing but I/O |

`PROJECT.json` lists the components file by file with the reasons, and the
hazards line by line.

## 2. The modules

Each module has the same order: constants with their assumptions, variables,
helpers, one action per piece of code between two accesses that another context
can see, `Next`, `Spec` with fairness, properties. `MC*` modules hold the values
TLC needs. Faulty variants of definitions ("Faulty variant: ...") stand before the definition they
vary; each shows that a property notices that mistake.

### PdpHandshake, PdpScripts

`idx`, the step of the script the thread is at, stands for its program counter;
a script is the list of `fibo_PDPActive` / `fibo_PDPRelease` (and asynchronous)
calls of a thread, with whether it waits for the indication. Scripts are in
`PdpScripts`, one per application. A waiting step is, as in the code, four
actions: the call, the new semaphore and its handle, the flag, the wait with the
free that follows. The callback tests handle and flag, signals and clears the flag
in three separate steps, for the synchronous and then for the asynchronous
channel. The modem answers accepted requests in any order.

### RequestAnswer, PdpRefinement

`RequestAnswer` says what such a hand-shake promises without semaphores, handles and flags:
requests are asked in order, at most one awaited request at a time; each is answered once; a
wait returns only for an answer that may serve it; an answer may be lost on its way.
`PdpRefinement` maps the hand-shake to it: asked by the call, answered when the modem hands the
indication over, served when `sem_wait` returns, lost when the callback found no armed flag
or the indication was a failure. `Serving` says which answer may serve which wait: the request's own; and, once answers
are left over, an earlier one of the same kind. They are left over when an earlier request was not awaited, or
was awaited on the synchronous channel just before one on the asynchronous channel: the callback looks at both
for each answer, and may signal the second wait as well (`FollowsSync`; no application asks in that order).

### MideaFrame, MideaUart, MideaLine

`MideaFrame` has the packet construction, the analysis and the checksum as operators on
sequences of bytes. `MideaUart` is `ght_midea_uart_recv_data`: one action takes one
chunk of any size from the stream. It ends, as in the code, with the gathered bytes
kept, a frame delivered, a chunk ignored, or the UART closed. What lies behind a chunk of one
byte in the driver's buffer is read by the code as the length; it is any of `StaleBytes`.
`MideaLine` composes them: messages become frames, are cut, gathered and
analysed; a variant of a delivered frame with one byte changed must be refused.

### MideaTask

The task's loop (`Task`), the timer service (`TimerService`), expiry of timers and
arrival of frames (MideaUart's deliveries, as types). The list of events is locked during
each operation and therefore changes in single steps; reads and writes of the
unlocked globals (`g_ght_midea_query_sn_count`, `g_timer_id`, `self_test_timer`) are steps of their own.
The callback of the requests tests the count in three steps and adds the request it has
decided on in a fourth.
A timer is armed, expires into a callback that is due, and is deleted; its
deletion does not take back a callback that is due.

### MqttReconnect

Threads are model values; a deleted thread makes room for another.
`create_mqtt_connect` is the same sequence of steps in three contexts
(`CreateConnect(c)`), among them the callback, which delivers no signal meanwhile.

### AliyunRegister

Extends MqttReconnect, whose threads and callback it keeps: `regAt` is where a thread is in the registration
that comes before its connection. The connections used to register are counted by what the server has
still to do on them (`regAsked`, `regFresh`, `regServed`). A close that comes while the flag
is raised is passed over, whichever connection it is of.

### TcpClient

`main_task` with the address loop, `connect_timeout`, the sending in pieces,
`recv_task` with its select, and the socket layer (connection attempts that
succeed, are refused or stay open). Every call may fail. Once `main_task` is
gone, `ReuseStack` may change the record on its stack in any way. That matters to the
socket only until `recv_task` has copied its number: `garbled` records that it came too
early, and the properties then say nothing of which socket is closed. `freed` counts
how often the list of addresses has been freed, by `Connected` or by `Error`, which tests
the pointer and not whether the list is still there.

### BleClient

A service is the list of kinds of its attributes with the handle it starts at,
how many handles its range spans beyond the last one, and which of its attributes are reported with a UUID of
128 bits (`wide`). A response to the search for descriptors carries UUIDs of one width; those of 128
bits the code passes over (`WideDescs`), without noticing that they may be the last of the range. The callbacks of `gatt_client_cb` are
actions; indices into the two tables are as in the code, also one behind the end. An access
behind a table that overwrites the counters behind it is undefined in C: the model then sets
`corrupt` and stops, and `NoOverflow` says for which services this never happens.

### Image and the small applications

`Image` puts the small applications together as the build does: `app` is the one in the image, the
others keep the values they were linked with.

* `RecorderRing` has the two recorder loops. Each access of the thread to the driver's position is a
  step, because the driver may move it in between; the n-th byte recorded is the number n, so that the file shows
  what was lost or repeated. `late` remembers the bytes recorded between a write and the
  move of the position behind what was written.
* `PocPlay` is the play loop of the same demo.
* `SocketDemos` has six demos that open one socket each: `at` is where the thread is, and the
  actions differ where the demos look at different results.
* `MultiSocket` has the threads of `test_mutil_socket.c` over one pool of descriptors, the
  peer, the PDP context and the callback that activates it again.
* `UsbDaemon`: the callback writes the state word and signals in two steps; the thread tests the word
  twice in each turn (`TestOpen`, `TestBroken`) and may find different values.
* `EventGroup`: the two tasks and the interrupt, from the creation of group and semaphore, which
  either task may come to first.
* `TaskNotify`: a notification is a number and a pending mark, as FreeRTOS has them; one task waits for
  the one and the other for the other.
* `UpdateStart`: the activation loop and the callback, until the update thread has called the core.
* `AliyunAnswers`: calls that are answered late, refused or not at all, and a semaphore that begins
  with one signal.
* `BleServer`: the callback's two requests with its sleep between them, the queue, and the text
  that is put into `device_name` in one step and sent in another.
* `AddressText`: the three conversions as recursive functions, a step per character or block. Characters
  are numbers, and what lies beyond the address in memory is an input.

## 3. What is checked

| Run | Question | Bounds, and why they do |
|---|---|---|
| pdp | Can the unlocked handles and flags go wrong, in loops where all requests are awaited and in a thread with mixed ones? `NoSignalAfterFree`: no freed semaphore is signalled although handles stay. `FreedDrained`: none is freed with a signal in it. `ArmPersists`: the late clearing of the flag disarms only a repeated channel. `OwnAnswers`: the code implements RequestAnswer, so that a wait is served by its own answer, although the callback ignores the cid, as long as none is left over. `WaitsReturn`: it implements its fairness too: a wait returns unless its indication was a failure or found no armed flag. | Loops of ten run twice, two contexts instead of seven, and one of the last seven activations: a round ends with its semaphore freed and its flag either clear or about to be cleared, so that the second round shows what any later one does. Two activations in a row are in multi_pdn_test's part. |
| midea_uart | `Completable`: what has been gathered can always become a frame. `Resync`: when a chunk starts with a frame, the receiver is in step again after it. `LengthAgrees`: delivered frames have the length they announce. `RoundTrip`: what was sent is what is analysed, and one damaged byte is noticed. | Four frames, among them the longest (256 bytes) and one without data; all chunk sizes that cut the short frames, and for the long one 128, 254, 255, 256. The bytes contain the values the code looks for (0xAA, `a`, `t`). Damage is tried on frames up to 14 bytes and to 0, 0xAA and 0xFF. |
| midea_task | `RequestsStop`: after the SN no request goes out; once the count says so the timer callback decides on none, and at most the one it had decided on before still joins the list. `MisuseNeedsRepeat`: a timer is freed or deleted twice only when the appliance repeated a frame. `SnOrReset`, `AttachHappens`, `SelfTestEnds`. | 3 requests instead of 850: even and odd counts and the limit. `NoMore` = 7 is odd and above the limit as 0xFFFF is. Two frames: enough for a repeated SN and a repeated switch. |
| midea_reset | violated: `ResetOnlyWithoutSn` | one SN frame |
| mqtt | `Population`: the client is never without a thread that will connect again, and each close adds one at most. `GivesUpWhenRefused`, `AnswerOrStuck` | Three connections, one close, room for four threads: one close gives two successors, and each of them may be replaced. |
| aliyun_register | `RegistrationSettled`: the flag that passes over a close is raised only while a registration is on its way or its connection open, unless the server refused one; and the client dies only by a thread that got no secret. | Three threads, four connections and three closes: enough for two threads that register at once, which the refusal below needs. |
| tcp | `OneSocket`, `NothingLeft`, `MainEnds`, `ReaderEnds` | Two addresses (a second is tried), socket numbers 0 and 1 (0 is mistaken for none at line 243), a request in two pieces, two pieces of data. |
| tcp_refused, tcp_tick | violated: `OkMeansEstablished`, `DataIsRead` | as tcp |
| ble_client | `ScanPermission`, `NoOverflow`, `ConfiguresAll`, `AccessOfPeer`, `ConfiguresPlain` | Thirteen services: the one the application is written for, one with an included service, one whose value has the last handle there is, one with a wide descriptor between two others, and one for each way out of what it copes with, wide descriptors at the end of a characteristic and of the service among them; tables of five as in the code; responses of one to three attributes. |
| image_zero | violated: `EmptyBlockForRuns` | as image |
| image | `RecordedWell`: which bytes a recorder may lose (those recorded between write and move) or repeat (the stream recorder, after the ring has been filled once, and never a third time). `PlayedInOrder`, `ImagePlays`: a file that fits with its first piece once more is played to its end, in order. `GivenBack`, `EndNoticed`: which socket demos leave their socket open, use a closed one, stop short of the measured amount or miss the end of the connection. `DescriptorsCounted`: the pool shrinks by exactly the connections that ended before data came. `InitsBounded`: no initialisation of the USB device that an opening does not pay for. `OneAhead`: the Aliyun thread takes one call at most for confirmed that was not. `SentAsMeant`: a configuration of the peer spoils one indication at most. `AddressesAgree`: addresses are read as inet_aton reads them, and read back as they were written. `ServicesGoOn`: who waits goes on when what it waits for has come (USB, event group, notifications, update). | A ring of 3 bytes recorded round four times: both branches and the wrap with every position. A play buffer of 9 and files of up to 12 bytes in pieces of 2: ends on, before and behind the end of the ring. One piece more than the speed test needs; two rounds of the fcntl test, one blocking, one not. Three threads and four descriptors: a pool larger than the threads need, which leaks can still empty. Three openings of the port. A queue of two for two requests of each of three writes: it is full and overtaken; two configurations, so that one may be wasted. Parts of four bits in IPv4 addresses: up to five numbers, the last in three bases and on both sides of each limit. IPv6 blocks of 0, 0x50 and 0xFA05 (none, a final zero, letters and a zero inside) in every arrangement of the eight. |

The runs ble_client and image check a type invariant, which is proved too, as are those of PdpHandshake,
MideaUart and MqttReconnect; the others are stated in their modules. Deadlock is not
checked where the system may stop: threads end, or wait for ever for a known reason that a property names.

### Disagreements

1. `mideaapp.c:467`, run midea_reset. The task sets the count to 0xFFFF and only
   then stops the timer. A callback due in between takes 0xFFFF for 850 requests without an answer
   and resets the module, which has its SN.
2. `tcp_ok_demo.c:102`, run tcp_refused. A refused connection makes the socket writable and counts as
   connected.
3. `tcp_ok_demo.c:287`, run tcp_tick. The reader's set is filled once; after the first
   second without data it is empty and the reader waits for ever.
4. `multi_pdn_test.c:192`, run image_zero. `ip6addr_ntoa_r` compares the last block with the word behind the address.
   With zeros in both, the text ends in a single colon, although the comment says that only more than one contiguous
   zero block is abbreviated. The text is still read back as it was (`AddressesAgree`).

Other things the models show, which no doc or comment denies:

* A failed PDP activation leaves its thread waiting for ever (`Lost` in PdpRefinement).
* A close during the subscription doubles the MQTT client (`Population` bounds it).
* The Aliyun flag may stay up. A thread B checks the secret of the device and finds none. A thread C
  is in the same place, gets the secret and copies it, and the connection it registered on closes.
  Now B raises the flag and registers, which the server refuses. The flag stays, and the close of the
  connection in use is passed over: the client stays without one. `FlagOfRegistration` excepts refusals for this reason.
* A thread that gets no secret is deleted without setting quit (`DiesByFailure`); who creates the next
  thread polls quit for ever.
* Socket 0 is never closed (`NothingLeft` excepts it).
* A BLE service whose last attribute is a descriptor overruns the table or is not configured. So does
  one in which the descriptors of a characteristic end with a UUID of 128 bits: the index stays where it is, and the
  search starts again or the client waits (`NoOverflow`, `ConfiguresPlain` say which services work).
* The poc recorder, whose `break` leaves one of two loops, closes its file again and again, and its
  driver position may be behind the thread's, so that a length is negative, only after the ring was
  filled once (`RecordedWell`).
* The play loop passes a byte of the ring as an address when a piece reaches its end (`ImagePlays` excludes such files).
* The download test does not notice an orderly end (`EndNoticed`).
* A thread of the multiple sockets test leaves its socket open when the connection ends without data (`DescriptorsCounted`).
* An event of the event group is dropped when a smaller one is set with it (`EventsReach` names it).
* Two threads write the text a BLE server sends (`SentAsMeant` counts what that spoils).
* The comment at `fibo_tcp_demo.c:234` says the socket is made non-blocking; the test below it
  never holds, so the model has it blocking, and its receive loop waits for the peer.

### Fairness

* Threads, callbacks and the timer service run when they can (weak fairness): the
  RTOS schedules by priority and the threads all sleep or block in their
  loops.
* PDP: the modem answers accepted requests (weak). A wait is not fair by itself: it needs its signal.
* MideaTask: a timer that is armed expires (strong, since it is armed again and
  again); there is no fairness on frames, so that the appliance may be silent.
* MQTT: a connection that is asked for is answered, accepted or not (strong,
  since the callback may be busy in between). Closes are not fair.
* TCP: no fairness for the peer: `MainEnds` rests on the timeout alone, and
  `ReaderEnds` speaks of a peer that has ended the connection.
* Aliyun registration: none; its properties are about safety.
* Image: the play thread with its driver, the socket threads, the USB thread, the tasks and the
  interrupt of the event group, the notified tasks, the update thread, and the modem that indicates what
  became of an activation. Peers, hosts, the MQTT server and the writing of BLE clients have none.
* BLE: the stack answers, the scan reports and a requested connection is made. Losses are not fair.

## 4. What is proved

TLAPS checks these for every value of the constants (under the assumptions
named in the modules).

| Module | Theorems | Argument |
|---|---|---|
| PdpHandshakeProofs | TypeCorrect, NeverSignalsFreed, FreesDrained, WakesAfterIndication, ArmingPersists, for every script | The four follow from one invariant: a raised flag is that of the waiting request or is about to be cleared, and the callback signals only a request that waits and has had no signal yet. Without it the properties are not inductive: that no freed semaphore is signalled depends on the flag, not on the handle. |
| PdpHandshakeProofs (second part) | ImplementsChannel (`Spec => OwnAnswers`), for every script | The invariant above, and that what waits with the modem or has been handled was asked, and only the current request can be missed. `LeftOver`: an answer on its way is that of the current request or one left over, or the callback has served its request with it and is about to look at the other channel; then (`HandsOn`) the thread has got no further than to the next awaited request. Each action maps to one step of RequestAnswer or to none; its fairness (`WaitsReturn`) is checked only. |
| MideaUartProofs | TypeCorrect, AlwaysCompletable, LengthsAgree, Resynchronises, MessagesRoundTrip, for every stream, cut and buffer that holds the longest announced frame | Induction on chunks: gathering keeps fewer bytes than announced, and the announced length fits. For the resynchronisation (`InRun`): since the run began, the driver is within a frame whose first bytes are exactly what the buffer holds, or at its end, and the frames of the run before it are the last ones delivered. That the frames follow each other in the stream, one behind the end of the other, needs an induction over them; it is made with the least frame at which it fails, which the well-foundedness of `<` gives. For the round trip, the same argument shows that the function `Sum` computes with exists, that the sum of two halves is that of their sums, and that the sum of all bytes but one differs with that one: two bytes never differ by 256. What the driver delivers last is a frame of the run, and analysis gives back the message it was built from. |
| MideaTaskProofs | MisuseOnlyRepeated, RequestsStopWithSn, for every limit, any number of frames and of events | A handle names a timer of its kind, and that of the requests is dropped when the timer is freed. While the callback of an attach or self-test timer runs, the only timer of that kind is idle, or there is a second one, which takes a second frame; one lemma for each step that touches a timer. The requests stop because the SN is stored only by steps that lead straight to the count 0xFFFF, which then stays and passes none of the three tests; `LateOnce` says that a request joins the list too late only from the one callback that had decided on it before. |
| MqttProofs | TypeCorrect, PopulationBounded, of the reconnecting client | Contexts about to create a thread are counted together with the threads; every ending thread is itself such a context first. The count needs the type invariant and facts on cardinality (stated as lemmas). |
| MqttProofs (until the first close) | GivesUpRightly (`GivesUpWhenRefused`) | There is one place at most, and where its thread is tells what is on its way: nothing but while it waits, when one response has been asked for and is outstanding, being signalled or counted in the semaphore, and once it is not outstanding the result is the server's. A thread that goes on after a refusal leaves nothing behind; one that was accepted stays in its loop. |
| MqttProofs (second part) | RegistrationsSettle, for any number of threads, connections and closes | A registration connection leaves the count only by a refusal or by a close, which takes the flag down; a thread that has raised the flag is at its connect until it asks. Threads end without a successor only where `regFailed` is set. |
| TcpClientProofs | OneSocketOwned, LeavesNothing | The position of each thread determines whether a socket is open, who knows its number (the record, and from `Enter` on the reader), and how often the list of addresses has been freed. |
| BleClientProofs | PermissionKept, for all services and sizes of the tables | The permission to connect and the state of scan and connection exclude one another except for reports still queued. |
| BleClientProofs (second part) | BleTypes, PlainNeverOverflows, AccessesOfPeer, AllConfigured, for all services, sizes of the tables and cuts of the responses | One invariant, `BleInv`, ties the two tables to the peer. `Lists`: the first `chara_count` entries are the peer's first characteristics, in order, and the others are zero. `Found`: the descriptors are the peer's below some handle, in order, and each entry counts those between its characteristic and the next. `Discovery` says up to which handle this holds in each state (the start of the range the procedure still covers), and that `find_info_index` is the characteristic before it. `Held` is what descriptors of 128 bits add: while such a one lies right before the next characteristic, the search does not get past it, so that a service with one is never configured. It says so of services whose last characteristic has its value at the end handle and whose descriptors do not end with a wide one, as a plain one has: there the search stops with the index at the last characteristic. Of the others it says that they are never configured, and that only they drive the index behind the table. What the client writes is the part of the descriptors with the right UUID. |
| ImageProofs (rings) | RecordingKept, PlayingInOrder, for every size of ring, pieces and files | From the invariants RecInv and PlayInv. Recording: the ring holds the last byte of every position, so that what a write appends is a run of consecutive bytes, those behind the last byte the thread has passed; a run adds each of its bytes once. Playing: neither position ever wraps before the file ends, so that they count what was copied and what was played. |
| AddressProofs, ImageProofs (addresses) | AddressesAgreeAlways (`AddressesAgree`), for words of the code's size and of the run's, every list of numbers, every address of eight blocks below 65536 | The conversions are recursive functions. That such a function exists and what it computes is shown of any walk of steps (`StepsExist`), and what holds after each step by the least one it would not hold after (`UpTo`). IPv4: at the end of each number the scan holds its value in a word and those before it; the sums of bytes are taken apart by division. IPv6: the text is laid out block by block, and read at the end of each block the scan has found those before it. Where zeros were left out, the scan goes by the colons of the whole text, and their number is that of the blocks written. Both scans stop where the tail begins. |
| ImageProofs (the other applications) | InitialisationsBounded, RunsOneAhead, DescriptorsKept, SentTexts, SocketsGivenBack, ImageTypes | A step of the image is a step of each application or leaves it alone (`EachApplication`), so that each invariant is one of its application. USB: signals, the signal that is due and initialisations together are the openings, and one more while the thread waits after an initialisation. Aliyun: signals and returned waits are the confirmed calls and one more. Sockets: the open descriptors are those of the threads and the lost ones, with FiniteSetTheorems. BLE server: what was sent, is in hand, waits and was dropped are the requests made, and their positions tell their kinds. Socket demos: where a thread is tells what its socket may be, and the sum never passes what was transferred. The types (ImageTypes) follow from these invariants and a few more: one of two notified tasks goes on at a time, an update is signalled only while it waits, the reader of events is released once. |

Assumptions: constants are of the sizes the code gives them (`MaxLen` holds the
longest frame, bounds are naturals, contexts are distinct, threads and descriptors finite). The steps that combine
invariant and specification are propositional temporal logic; the rest is first-order.

Only model-checked: everything under fairness (`WaitsReturn`, `SnOrReset`,
`AttachHappens`, `SelfTestEnds`, `ImagePlays`, `EndNoticed`, `ServicesGoOn`, `AnswerOrStuck`, `MainEnds`, `ReaderEnds`, `ConfiguresPlain`),
since neither ENABLED nor fairness is in the prover's reach. Every invariant of the runs, and every action
property, is stated by a theorem.

## 5. What the models assume of the closed core

* `char` is unsigned (ARM), so that a byte of 0xFF compares as written.
* lwIP marks the socket of a refused connection writable, and `select` clears the
  sets when its time is up (`lwip/sockets.c` of the version the headers belong to).
* A discovery procedure of the Bluetooth stack goes on until its range is
  exhausted or ends with ATT_ERR_ATTRIBUTE_NOT_FOUND; the handlers in the code rely on both. Whether the error also
  follows a response that has exhausted the range is left open where the code does not go on by itself.
* In the attribute table of a BLE peer the value of a characteristic has the handle behind its declaration,
  and handles are those of a UINT16 (`ServicesAssumption`). A service may hold included services, before
  its first characteristic, which are no descriptors.
* Callbacks of one source come one at a time, and BLE callbacks and the accesses of the BLE thread are
  single steps: their sleeps are where others get in, and are modelled.
* The appliance builds its frames as the module does.
* The audio driver never fills the ring between two looks of the thread, and a
  connection on which a send failed is lost.
* Counting semaphores keep signals nobody waits for.

* A copy of a text into a shared buffer is one step; a text torn by another copy counts as the other's.
* Task notifications and event groups behave as FreeRTOS documents those the header names.

### Not modelled

Contents that do not decide anything (topics, payloads, log texts, the
IP addresses), memory exhaustion, the storage of the Midea delay, and the applications in the last three rows of the table:

* `oc_audio_list_play_demo.c`: its end-of-play callback would race with the thread, but
  `appimg_enter` hands no callback to the core.
* `test_demo_handle` with the accept server: no application calls it.
* `osi_demo.c` and `sig_demo.c`: the RTOS primitives called one after the other by one thread, and a log.
* `oc_ntp_demo.c`: contains the callback of the hand-shake, but arms no request.
* `app_ota_test.c`, `app_version_demo.c`, `onenet_demo.c`: one call, or calls without a wait for an answer.
* The ciphers, digests, base64 and XML demos call algorithms of the closed core with test vectors.
* The closed core itself, of which the repository has headers only.

The share of mapped lines is small for a reason that no further model can change: nearly all C lines
of the repository are headers of the closed core, register tables of the chip, lwIP, mbed TLS and
newlib under `components/include`, and tables and fonts of displays. They hold declarations,
and no behaviour to translate.

## 6. Plan

1. *(done)* The hand-shake, the Midea application, the MQTT, TCP and BLE clients, each
   with its run, and their theorems.
2. *(done)* The small applications and the conversions in Image; the registering MQTT client; the abstract
   channel and its refinement; the theorems about Image and MideaTask.
3. *(done)* The theorems about the BLE tables, the rings and the resynchronisation of the receiver.
4. *(done)* The theorems about the contents: a message of the appliance is analysed as it was built, and
   addresses are read as they are written. The conversions became recursive functions for it.
