-------------------------- MODULE MCAgentRunLanes --------------------------
(* A message of a chat and a cron job, started by hand, that runs in the     *)
(* session of the same chat.                                                *)
EXTENDS AgentRunLanes

CONSTANTS chat, job, none

MCSessionKeyOf == [r \in {chat, job} |-> "chat"]
MCLaneParamOf == [r \in {chat, job} |-> IF r = job THEN "cron" ELSE ""]
=============================================================================
