CONSTANTS
  t1 = t1
  t2 = t2
  old = old
  g1 = g1
  local = local
  global = global
  Turns <- MCOneTurn
  OldId = old
  ConversationIds <- MCConversationIds
  Titles <- MCTitles
  DefaultTitle = "new"
  Groups <- MCGroups
  NoGroup = "none"
  Modes <- MCModes
  Method = "hybrid"
  HistoryTurns = 2
  MaxDeltas = 0
  MaxFragments = 1
  MaxFaults = 1
  MaxEdits = 0
SPECIFICATION Spec
INVARIANT TurnIsAtomic
CHECK_DEADLOCK FALSE
