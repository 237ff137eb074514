--------------------------- MODULE MCAgentTurn ---------------------------
(***************************************************************************)
(* Small instances of AgentTurn: two chat turns and a plain one.           *)
(***************************************************************************)
EXTENDS AgentTurn

CONSTANTS chat1, chat2, ask, id1, id2

MCTurns == {chat1, chat2, ask}
MCTurnIds == {id1, id2}

\* Two webviews draw the same millisecond as the turnId of their chat turns.
MCIdOf == [t \in Turns |-> IF t = ask THEN id2 ELSE id1]
MCKind == [t \in Turns |-> IF t = ask THEN "plain" ELSE "chat"]
=============================================================================
