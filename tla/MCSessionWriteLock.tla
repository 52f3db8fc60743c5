------------------------- MODULE MCSessionWriteLock -------------------------
(* The gateway with a turn and a call that is not re-entrant (the turn may  *)
(* join it), and the command line in a process of its own.                  *)
EXTENDS SessionWriteLock, TLC

CONSTANTS gateway, cli, turn, registry, command

MCProcOf == turn :> gateway @@ registry :> gateway @@ command :> cli
=============================================================================
