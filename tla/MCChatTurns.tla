----------------------------- MODULE MCChatTurns -----------------------------
(* ChatTurns with three messages: a turn, one that replaces it or waits for  *)
(* it, and one that waits for the same turn.                                 *)
EXTENDS ChatTurns
=============================================================================
