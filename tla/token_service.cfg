SPECIFICATION Spec
CONSTANTS
  u1 = u1  u2 = u2  s1 = s1  s2 = s2  s3 = s3  leg = leg  guest = guest
  Accounts = {u1, s1, s2, s3, leg, guest}
  Kind <- ServiceKind
  BadKeys = {s3}
  AppTokens <- AssignedTokens
  AppOps = {"rebegin", "reset", "refresh"}
  Replies = {"ok", "error", "none"}
  Outages = TRUE
  HasCallback = FALSE
INVARIANTS TypeOK ReadyHasToken SignsOwnClaims OnlyExpiredRequested
PROPERTIES ImplementsLease AssignedTokenKept SentRequestReleases
