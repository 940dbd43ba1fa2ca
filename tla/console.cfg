SPECIFICATION ConsoleSpec
CONSTANTS
  NoData = NoData
  m1 = m1
  m2 = m2
  Models = {m1, m2}
  Groups = {"g1", "g2"}
  GroupOf <- MCGroupOf
  NoModel = NoModel
  NoGroup = NoGroup
  MaxSaves = 1
  MaxOutside = 3
  k1 = k1
  k2 = k2
  KeyIds = {k1, k2}
  OldKeys = {k1}
  NoKey = NoKey
  MaxKeyRequests = 2
  MaxKeyFaults = 1
  a1 = a1
  a2 = a2
  Own = {a1, a2}
  OldOwn = {a1}
  Metered = {a1}
  Outdated = {a2}
  NoAnswer = NoAnswer
  MaxOwnRequests = 2
  MaxOwnFaults = 1
  Ids = {a1, a2}
  OldIds = {a1}
  Limits = {1, 2}
  MaxWrites = 2
  MaxAdminFaults = 1
  i1 = i1
  i2 = i2
  Items = {i1, i2}
  OldItems = {i1}
  Activations = {i2}
  MaxAsked = 2
  MaxListFaults = 1
  PageSize = 2
  MaxEvents = 3
  MaxSwitches = 4
  MaxRefused = 1
  MaxTurns = 3
  Compatible = {"openai_compat"}
  Simple = {"anthropic"}
  NoForm = NoForm
  MaxAdds = 2
  PickModels = {"o1", "o2", "claude", "codex"}
  ClaudeDefault = "claude"
  CodexDefault = "codex"
  Served <- MCServed
  Needles = {"", "x"}
  Matches <- MCMatches
  MaxListings = 2
  Offers <- MCOffers
  Found = {"x2"}
  MaxOffers = 2
  MaxTokens = 2
  MaxCopies = 3
CHECK_DEADLOCK FALSE
INVARIANTS
  HiddenChoiceWasDefault
  SettledKeysAreStored
  SecretOfStoredKey
  SettledListIsStored
  AdminReadsItsWrites
  SettledListsAreStored
  ShownIsSelected
  EmptyPageOnlyAfterFullOne
  NextPageSkipsNothing
  DeniedLeavesConsole
  
  SentIsTypedHere
  CommandCanRun
  OpenGroupsWereOpened
  CopiedIsShown
PROPERTIES
  ChoiceStays
  ChoiceSurvivesLists
