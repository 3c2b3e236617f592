SPECIFICATION Spec
CONSTANTS
  Conversations = {"chan", "priv"}
  Private = {"priv"}
  Pages = {"notifications"}
  MaxChanges = 2
  MaxLoads = 1
  MaxQueue = 1
  MaxPosts = 0
CHECK_DEADLOCK FALSE
INVARIANTS PageFollowsRoute BadgeExact
PROPERTY MissedIsKept
