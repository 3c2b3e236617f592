SPECIFICATION FrontendSpec
CONSTANTS
  Endpoints = {e1, e2}
  None = none
  Slots <- TwoSlots
  Faults <- AllFaults
  MaxActs = 6
  Uploaded = {f1, f2, f3}
  MaxClicks = 6
  Channels = {c1, c2}
  Names = {i, t}
  MaxTurns = 4
  Chats = {c1, c2}
  Nowhere = nowhere
  First = c1
  MaxHistory = 3
  MaxMoves = 4
  Rooms = {c1, c2}
  Links = {l1}
  Plain = plain
  MaxTalk = 3
  MaxLooks = 2
  Hosts = {h1, h2}
  Nameless = nameless
  MaxSubmits = 3
  MaxVisits = 3
  MaxReloads = 1
  Network <- const_Network
  Talks <- const_Talks
  SettingPages <- const_SettingPages
  Letters = {"a", "b"}
  MaxFilter = 3
  MaxKeys = 6
  Nicks <- const_Nicks
  Conversations <- const_Conversations
  Commands <- const_Commands
  Emojis <- const_Emojis
  Alphabet <- const_Alphabet
  MaxLength <- const_MaxLength
INVARIANT DeletedForGood
CHECK_DEADLOCK FALSE
