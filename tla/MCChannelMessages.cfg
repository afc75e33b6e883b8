SPECIFICATION ChannelSpec
CONSTANTS
  Channels = {"META_WHATSAPP_CLOUD", "TELEGRAM", "DISCORD", "SLACK", "TWILIO_SMS", "TWILIO_RCS", "META_INSTAGRAM", "META_MESSENGER"}
  Chats = {a, b}
  Outbound = {m1}
  Handlers = {h1, h2}
  None = None
  SentForms <- MCForms
  MaxPosts = 3
  MaxNotices = 2
  MaxReplays = 1
  MaxMishaps = 1
SYMMETRY MCSymmetry
INVARIANTS ChannelTypeOK ActionsHitTheNamed AcceptedIsTold EventsCarryTheirReport
CHECK_DEADLOCK FALSE
