------------------------------ MODULE UsbDaemon ------------------------------
(***************************************************************************)
(* usb_demo.c: a thread that sends over a USB serial device while it is    *)
(* open and initialises the device again when it was broken, and the event *)
(* callback, which writes the state word the thread reads and signals a    *)
(* semaphore for each opening.  The device and its host are external.      *)
(***************************************************************************)
EXTENDS Integers

CONSTANT MaxOpens    \* bound: reported openings of the port

ASSUME OpensAssumption == MaxOpens \in Nat

VARIABLES
  usbPc,       \* where the thread is
  usbState,    \* the last event, "none" for 0
  usbSem,      \* signals in usbdev_daemon_sem
  usbEvent,    \* the callback: idle or about to signal
  listening,   \* a callback is registered with the device
  port,        \* what the host has done with the port
  opens,       \* history: openings reported
  inits        \* history: initialisations after a break

usbVars == <<usbPc, usbState, usbSem, usbEvent, listening, port, opens, inits>>

UsbInit ==
  /\ usbPc = "start"
  /\ usbState = "none" /\ usbSem = 0 /\ usbEvent = "idle"
  /\ listening = FALSE
  /\ port = "ready"
  /\ opens = 0 /\ inits = 0

-----------------------------------------------------------------------------
(* The host and the callback *)

\* The port changes; without a registered callback nobody is told.
PortChange(before, after, event) ==
  /\ port \in before /\ usbEvent = "idle"
  /\ port' = after
  /\ usbState' = IF listening THEN event ELSE usbState
  /\ UNCHANGED <<usbPc, usbSem, listening, inits>>

PortQuiet(before, after, event) ==
  PortChange(before, after, event) /\ UNCHANGED <<usbEvent, opens>>

\* Faulty variant: the callback signals a port that is ready as well.
PortReadySignals ==
  /\ PortChange({"broken"}, "ready", "READY")
  /\ usbEvent' = IF listening THEN "signal" ELSE "idle"
  /\ UNCHANGED opens

PortReady == PortQuiet({"broken"}, "ready", "READY")
PortBreak == PortQuiet({"ready", "open"}, "broken", "BROKEN")
PortClose == PortQuiet({"open"}, "ready", "CLOSE")

\* An event without a name sets the state word back to 0.
PortOther == PortQuiet({port}, port, "none")

PortOpen ==
  /\ opens < MaxOpens
  /\ PortChange({"ready"}, "open", "OPEN")
  /\ usbEvent' = IF listening THEN "signal" ELSE "idle"
  /\ opens' = IF listening THEN opens + 1 ELSE opens

\* The end of the callback's case for OPEN.
UsbSignal ==
  /\ usbEvent = "signal"
  /\ usbSem' = usbSem + 1
  /\ usbEvent' = "idle"
  /\ UNCHANGED <<usbPc, usbState, listening, port, opens, inits>>

-----------------------------------------------------------------------------
(* The thread *)

UsbGo(from, to) == usbPc = from /\ usbPc' = to

\* Before the callback is registered nothing can interfere.
UsbStart ==
  /\ UsbGo("start", "testOpen")
  /\ usbSem' = 0
  /\ listening' = TRUE
  /\ UNCHANGED <<usbState, usbEvent, port, opens, inits>>

TestOpen ==
  /\ UsbGo("testOpen", IF usbState = "OPEN" THEN "send" ELSE "testBroken")
  /\ UNCHANGED <<usbState, usbSem, usbEvent, listening, port, opens, inits>>

\* FIBO_usbDevice_send, and the sleep before the next round.
UsbSend ==
  /\ UsbGo("send", "testOpen")
  /\ UNCHANGED <<usbState, usbSem, usbEvent, listening, port, opens, inits>>

\* The state word is read a second time.
TestBroken ==
  /\ UsbGo("testBroken", IF usbState = "BROKEN" THEN "deinit" ELSE "testOpen")
  /\ UNCHANGED <<usbState, usbSem, usbEvent, listening, port, opens, inits>>

UsbDeinit ==
  /\ UsbGo("deinit", "init")
  /\ listening' = FALSE
  /\ UNCHANGED <<usbState, usbSem, usbEvent, port, opens, inits>>

\* FIBO_usbDevice_init and FIBO_usbDevice_State_report.
UsbReinit ==
  /\ UsbGo("init", "wait")
  /\ listening' = TRUE
  /\ inits' = inits + 1
  /\ UNCHANGED <<usbState, usbSem, usbEvent, port, opens>>

UsbWait ==
  /\ UsbGo("wait", "testOpen")
  /\ usbSem > 0 /\ usbSem' = usbSem - 1
  /\ UNCHANGED <<usbState, usbEvent, listening, port, opens, inits>>

UsbThread ==
  \/ UsbStart \/ TestOpen \/ UsbSend \/ TestBroken
  \/ UsbDeinit \/ UsbReinit \/ UsbWait \/ UsbSignal

UsbNext ==
  \/ UsbThread
  \/ PortReady \/ PortBreak \/ PortClose \/ PortOther \/ PortOpen

-----------------------------------------------------------------------------
(* Properties *)

UsbTypeOK ==
  /\ usbPc \in {"start", "testOpen", "send", "testBroken", "deinit", "init", "wait"}
  /\ usbState \in {"none", "BROKEN", "READY", "OPEN", "CLOSE"}
  /\ usbSem \in 0..MaxOpens
  /\ usbEvent \in {"idle", "signal"}
  /\ listening \in BOOLEAN
  /\ port \in {"ready", "open", "broken"}
  /\ opens \in 0..MaxOpens
  /\ inits \in Nat

\* A broken device does not make the thread spin: every initialisation after
\* the first is paid for by an opening, although the wait may return at once
\* for openings that were counted before the break (usb_demo.c:109).
InitsBounded == inits <= opens + 1

\* A port reported open while the thread waits is sent to, unless the state
\* changes again.
UsbResumes ==
  (usbPc = "wait" /\ usbState = "OPEN") ~> (usbPc = "send" \/ usbState # "OPEN")

=============================================================================
