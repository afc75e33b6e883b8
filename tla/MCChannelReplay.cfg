SPECIFICATION ChannelSpec
CONSTANTS
  Channels = {"TELEGRAM"}
  Chats = {a}
  Outbound = {m1}
  Handlers = {h1}
  None = None
  SentForms <- MCForms
  MaxPosts = 1
  MaxNotices = 1
  MaxReplays = 1
  MaxMishaps = 0
INVARIANTS ReplayIsDelivered
CHECK_DEADLOCK FALSE
