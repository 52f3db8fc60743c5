---------------------------- MODULE MCCronService ----------------------------
(* A recurring and a one-shot job.                                          *)
EXTENDS CronService

CONSTANTS daily, once

MCJobOrder == <<daily, once>>
MCRequests == {"due", "disable", "remove", "add"} \X {daily}
              \cup {"force", "enable", "read"} \X {once}
MCSlotOf == once :> 1
=============================================================================
