SPECIFICATION FairSpec
CONSTANTS
  Chats = {"c1"}
  Topics = {"a", "b"}
  HotStyle <- Hot
  Styles <- MCStyles
  Skills <- SkillStyles
  Sources = {"vertical"}
  Counts = {99}
  VariantLists <- Themes
  Videos = {"v1"}
  Payloads <- TypedIn
  Replies <- ModelReplies
  StartRows = {1}
  StartHot <- AllTopics
  StartPlans <- OneReview
  MaxCommands = 2
  MaxJobs = 2
  Faults = {"chain", "confirm", "timeout", "crash"}
  MaxFaults = 1
INVARIANTS TypeOK PlanWasShownLast RulesComeFromPeople
PROPERTIES JobsEnd
CHECK_DEADLOCK FALSE
