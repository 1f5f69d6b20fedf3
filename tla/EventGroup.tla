----------------------------- MODULE EventGroup -----------------------------
(***************************************************************************)
(* eventGroup_demo.c: a task that sets the bits of an event group, a timer *)
(* interrupt that sets another, and a task that waits for any of them.     *)
(* The reader is released by a semaphore it creates itself.                *)
(***************************************************************************)
EXTENDS Integers, FiniteSetsExt

EventBits == 0..2

VARIABLES
  reader,     \* where demoEventBitReadingTask is
  setter,     \* where demoEventBitSettingTask is
  evtSem,     \* signals in g_evtGroup_sem, -1 while it is 0
  group,      \* p_handle is set
  bits,       \* the bits of the group
  rtc,        \* the interrupt is due
  handled,    \* history: events the reader has acted on
  dropped,    \* history: events cleared by a wait without being acted on
  cleared     \* history: events the setter has cleared while they were set

eventVars == <<reader, setter, evtSem, group, bits, rtc, handled, dropped, cleared>>

EventInit ==
  /\ reader = "new" /\ setter = "create"
  /\ evtSem = -1 /\ group = FALSE
  /\ bits = {} /\ rtc = FALSE
  /\ handled = {} /\ dropped = {} /\ cleared = {}

ReaderNew ==
  /\ reader = "new"
  /\ \/ evtSem' = 0 /\ reader' = "wait"
     \/ reader' = "gone" /\ UNCHANGED evtSem
  /\ UNCHANGED <<setter, group, bits, rtc, handled, dropped, cleared>>

ReaderReleased ==
  /\ reader = "wait" /\ evtSem > 0
  /\ evtSem' = evtSem - 1
  /\ reader' = "loop"
  /\ UNCHANGED <<setter, group, bits, rtc, handled, dropped, cleared>>

\* Faulty variant: the last bit is looked at first.
WaitBitsLast ==
  /\ reader = "loop" /\ bits # {}
  /\ handled' = handled \cup {Max(bits)}
  /\ dropped' = dropped \cup (bits \ {Max(bits)})
  /\ bits' = {}
  /\ UNCHANGED <<reader, setter, evtSem, group, rtc, cleared>>

\* osiEventGroupWaitBits clears what it returns; of that the first bit counts.
WaitBits ==
  /\ reader = "loop" /\ bits # {}
  /\ handled' = handled \cup {Min(bits)}
  /\ dropped' = dropped \cup (bits \ {Min(bits)})
  /\ bits' = {}
  /\ UNCHANGED <<reader, setter, evtSem, group, rtc, cleared>>

GroupCreate ==
  /\ setter = "create"
  /\ \/ group' = TRUE /\ setter' = "give"
     \/ setter' = "gone" /\ UNCHANGED group
  /\ UNCHANGED <<reader, evtSem, bits, rtc, handled, dropped, cleared>>

\* The handle is tested once: a reader that creates it later is never released.
GiveReader ==
  /\ setter = "give"
  /\ evtSem' = IF evtSem >= 0 THEN evtSem + 1 ELSE evtSem
  /\ setter' = "set1"
  /\ UNCHANGED <<reader, group, bits, rtc, handled, dropped, cleared>>

SetBit(at, b, next) ==
  /\ setter = at
  /\ bits' = bits \cup {b}
  /\ setter' = next
  /\ UNCHANGED <<reader, evtSem, group, rtc, handled, dropped, cleared>>

SetRtc ==
  /\ setter = "rtc"
  /\ rtc' = TRUE
  /\ setter' = "clear0"
  /\ UNCHANGED <<reader, evtSem, group, bits, handled, dropped, cleared>>

ClearBit(at, b, next) ==
  /\ setter = at
  /\ bits' = bits \ {b}
  /\ cleared' = cleared \cup (bits \cap {b})
  /\ setter' = next
  /\ UNCHANGED <<reader, evtSem, group, rtc, handled, dropped>>

\* demoEventBitSettingISR
Isr ==
  /\ rtc
  /\ rtc' = FALSE
  /\ bits' = bits \cup {2}
  /\ UNCHANGED <<reader, setter, evtSem, group, handled, dropped, cleared>>

Reader == ReaderNew \/ ReaderReleased \/ WaitBits

Setter ==
  \/ GroupCreate \/ GiveReader
  \/ SetBit("set1", 1, "set0") \/ SetBit("set0", 0, "rtc")
  \/ SetRtc
  \/ ClearBit("clear0", 0, "clear1") \/ ClearBit("clear1", 1, "clear2")
  \/ ClearBit("clear2", 2, "gone")

EventNext == Reader \/ Setter \/ Isr

-----------------------------------------------------------------------------
(* Properties *)

EventTypeOK ==
  /\ reader \in {"new", "wait", "loop", "gone"}
  /\ setter \in {"create", "give", "set1", "set0", "rtc", "clear0", "clear1", "clear2", "gone"}
  /\ evtSem \in -1..1
  /\ {group, rtc} \subseteq BOOLEAN
  /\ {bits, handled, dropped, cleared} \subseteq SUBSET EventBits

\* A reader whose semaphore was there in time gets into its loop.  There a set
\* event is acted on, unless the setter clears it first or a smaller event is
\* acted on instead: event 0 can only be cleared, and for every event that a
\* wait drops a smaller one was handled.
EventsReach ==
  /\ evtSem > 0 ~> reader = "loop"
  /\ (reader = "loop" /\ 0 \in bits) ~> 0 \in handled \cup cleared
  /\ \A b \in EventBits :
       (reader = "loop" /\ b \in bits) ~>
         \/ b \in handled \cup cleared
         \/ b \in dropped /\ \E c \in handled : c < b

=============================================================================
