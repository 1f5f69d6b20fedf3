----------------------------- MODULE TaskNotify -----------------------------
(***************************************************************************)
(* taskNotify_demo.c: two tasks that wake each other with notifications.   *)
(* A task has one notification: a number, and whether it is pending.  Each *)
(* task waits in its own way: prvTask2 until the number is not 0, prvTask1 *)
(* until the notification is pending.  The notifications are external      *)
(* (osi_api.h, which names them as FreeRTOS does).                         *)
(***************************************************************************)
EXTENDS Integers

NotifyTasks == {"prvTask1", "prvTask2"}

VARIABLES
  taskAt,     \* where each task is
  notified,   \* the number of each task
  pending     \* its notification is pending

notifyVars == <<taskAt, notified, pending>>

NotifyInit ==
  /\ taskAt = [prvTask1 |-> "give", prvTask2 |-> "wait"]
  /\ notified = [t \in NotifyTasks |-> 0]
  /\ pending = [t \in NotifyTasks |-> FALSE]

\* osiTaskNotifyGive, after five seconds of sleep.
Give ==
  /\ taskAt["prvTask1"] = "give"
  /\ notified' = [notified EXCEPT !["prvTask2"] = @ + 1]
  /\ pending' = [pending EXCEPT !["prvTask2"] = TRUE]
  /\ taskAt' = [taskAt EXCEPT !["prvTask1"] = "wait"]

\* osiTaskNotifyWait, which clears nothing before and everything after.
NotifyWait ==
  /\ taskAt["prvTask1"] = "wait" /\ pending["prvTask1"]
  /\ notified' = [notified EXCEPT !["prvTask1"] = 0]
  /\ pending' = [pending EXCEPT !["prvTask1"] = FALSE]
  /\ taskAt' = [taskAt EXCEPT !["prvTask1"] = "give"]

\* osiTaskNotifyTake, which sets the number back to 0.
NotifyTake ==
  /\ taskAt["prvTask2"] = "wait" /\ notified["prvTask2"] > 0
  /\ notified' = [notified EXCEPT !["prvTask2"] = 0]
  /\ pending' = [pending EXCEPT !["prvTask2"] = FALSE]
  /\ taskAt' = [taskAt EXCEPT !["prvTask2"] = "give"]

\* osiTaskNotify with osiSetBits: bit 0 of the number.
NotifySetBit ==
  /\ taskAt["prvTask2"] = "give"
  /\ notified' = [notified EXCEPT !["prvTask1"] = @ - (@ % 2) + 1]
  /\ pending' = [pending EXCEPT !["prvTask1"] = TRUE]
  /\ taskAt' = [taskAt EXCEPT !["prvTask2"] = "wait"]

NotifyNext == Give \/ NotifyWait \/ NotifyTake \/ NotifySetBit

-----------------------------------------------------------------------------
(* Properties *)

NotifyTypeOK ==
  /\ taskAt \in [NotifyTasks -> {"give", "wait"}]
  /\ notified \in [NotifyTasks -> 0..1]
  /\ pending \in [NotifyTasks -> BOOLEAN]

\* Neither task waits for ever for the other.
TasksGoOn == \A t \in NotifyTasks : []<>(taskAt[t] = "give")

=============================================================================
