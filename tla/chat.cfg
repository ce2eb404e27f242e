CONSTANTS
  t1 = t1
  t2 = t2
  old = old
  g1 = g1
  local = local
  global = global
  Turns <- MCOneTurn
  OldId = old
  ConversationIds <- MCConversationIds
  Titles <- MCTitles
  DefaultTitle = "new"
  Groups <- MCGroups
  NoGroup = "none"
  Modes <- MCModes
  Method = "hybrid"
  HistoryTurns = 2
  MaxDeltas = 2
  MaxFragments = 2
  MaxFaults = 1
  MaxEdits = 1
SPECIFICATION Spec
INVARIANTS WireProtocol DoneIsStored AbandonedStoresNothing WireMatchesStore AbortIsPrompt
PROPERTY TurnsEnd
CHECK_DEADLOCK FALSE
