----------------------------- MODULE MCChatTurn -----------------------------
EXTENDS ChatTurn

CONSTANTS t1, t2, old, g1, local, global

MCTurns == {t1, t2}
MCOneTurn == {t1}
MCConversationIds == Turns \cup {old}
MCTitles == Turns \cup {"new"}
MCGroups == {g1}
MCNoGroups == {}
MCModes == {local, global}
=============================================================================
