SPECIFICATION AccountSpec
CONSTANTS
  u1 = u1  u2 = u2  leg = leg  guest = guest
  Accounts = {u1, u2, leg, guest}
  Kind <- AccountKind
  BadKeys = {}
  AppTokens = {}
  AppOps = {"rebegin", "reset", "refresh", "signUp", "delete", "email"}
  Replies = {"ok", "error", "none"}
  Outages = TRUE
  HasCallback = TRUE
INVARIANTS ReadyIsOwnToken
