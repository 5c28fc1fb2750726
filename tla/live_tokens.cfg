SPECIFICATION LiveSpec
CONSTANTS
  u1 = u1  u2 = u2  s1 = s1  s2 = s2  s3 = s3  leg = leg  guest = guest
  Accounts = {u1, s1}
  Kind <- ServiceKind
  BadKeys = {}
  AppTokens = {}
  AppOps = {}
  Replies = {"ok", "none"}
  Outages = FALSE
  HasCallback = TRUE
PROPERTIES Renewed CallsReturn
