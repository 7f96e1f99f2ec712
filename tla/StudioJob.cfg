SPECIFICATION Spec
CONSTANTS
  Chats = {"c1"}
  Topics = {"a", "b"}
  HotStyle <- Hot
  Styles <- MCStyles
  Skills <- SkillStyles
  Sources = {"vertical"}
  Counts = {0, 99}
  VariantLists <- Themes
  Videos = {"v1"}
  Payloads <- TypedIn
  Replies <- ModelReplies
  StartRows = {1}
  StartHot <- AllTopics
  StartPlans <- Nothing
  MaxCommands = 1
  MaxJobs = 2
  Faults = {}
  MaxFaults = 0
INVARIANTS JobConfirmsItsTheme
CHECK_DEADLOCK FALSE
