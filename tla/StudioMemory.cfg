SPECIFICATION Spec
CONSTANTS
  Chats = {"c1"}
  Topics = {"a"}
  HotStyle <- Hot
  Styles <- MCStyles
  Skills <- NoSkills
  Sources = {"vertical"}
  Counts = {}
  VariantLists <- NoThemes
  Videos = {}
  Payloads = {}
  Replies = {}
  StartRows = {1}
  StartHot <- AllTopics
  StartPlans <- Nothing
  MaxCommands = 3
  MaxJobs = 0
  Faults = {}
  MaxFaults = 0
INVARIANTS OnlyApprovedRules
CHECK_DEADLOCK FALSE
