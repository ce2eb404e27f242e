CONSTANTS
  t1 = t1
  t2 = t2
  old = old
  g1 = g1
  local = local
  global = global
  Turns <- MCTurns
  OldId = old
  ConversationIds <- MCConversationIds
  Titles <- MCTitles
  DefaultTitle = "new"
  Groups <- MCNoGroups
  NoGroup = "none"
  Modes <- MCModes
  Method = "hybrid"
  HistoryTurns = 2
  MaxDeltas = 0
  MaxFragments = 1
  MaxFaults = 0
  MaxEdits = 0
SPECIFICATION Spec
PROPERTY TitlesStay
CHECK_DEADLOCK FALSE
