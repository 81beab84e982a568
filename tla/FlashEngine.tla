----------------------------- MODULE FlashEngine -----------------------------
(***************************************************************************)
(* What the flash engine promises its callers (the comments of             *)
(* drivers/flash/FlashDriver.h and the fields of FlashProgress): a call is  *)
(* refused, fails at once or starts a job; a job that was started works,    *)
(* then is Completed or in Error until it is freed. FlashDriver implements  *)
(* this module; FlashUi is built on it.                                     *)
(***************************************************************************)
CONSTANT EngineErrors    \* FlashErrorcodes

VARIABLES op, task, err  \* the fields of FlashProgress
engine == <<op, task, err>>

WritingTasks == {"WriteBios", "WriteSettings"}
EngineTasks == WritingTasks \cup {"ReadBios", "ReadSettings"}

EngineInit == op = "Idle" /\ task = "NoTask" /\ err = "NoError"

StartJob(t) ==
  /\ op = "Idle"
  /\ op' = "PendingOp"
  /\ task' = t
  /\ err' = IF t = "WriteBios" THEN "NoError" ELSE err

\* An image is not accepted: only the error code tells.
Refuse(e) ==
  /\ op = "Idle"
  /\ err' = e
  /\ UNCHANGED <<op, task>>

\* A save or a read of the settings that cannot even start.
FailAtOnce(e) ==
  /\ op = "Idle"
  /\ op' = "Error"
  /\ err' = e
  /\ UNCHANGED task

\* The image in the flash keeps no settings.
NothingToRead ==
  /\ op = "Idle"
  /\ op' = "Completed"
  /\ task' = "ReadSettings"
  /\ UNCHANGED err

UserAbort ==
  /\ op = "Idle"
  /\ op' = "Error"
  /\ task' = "WriteBios"
  /\ err' = "UserAbort"

Run ==
  /\ op = "PendingOp"
  /\ op' = "Working"
  /\ UNCHANGED <<task, err>>

Finish ==
  /\ op = "Working"
  /\ op' = "Completed"
  /\ UNCHANGED <<task, err>>

Break(e) ==
  /\ op = "Working"
  /\ task \in WritingTasks
  /\ op' = "Error"
  /\ err' = e
  /\ UNCHANGED task

BreakErrors == {"FailedErase", "FailedVerify"}

Reset == op' = "Idle" /\ task' = "NoTask" /\ err' = "NoError"

FreeJob == op \in {"Completed", "Error"} /\ Reset

EngineNext ==
  \/ \E t \in EngineTasks : StartJob(t)
  \/ \E e \in EngineErrors : Refuse(e) \/ FailAtOnce(e)
  \/ NothingToRead \/ UserAbort
  \/ Run \/ Finish
  \/ \E e \in BreakErrors : Break(e)
  \/ Reset      \* the job is freed, or power is lost

EngineSpec == EngineInit /\ [][EngineNext]_engine
=============================================================================
