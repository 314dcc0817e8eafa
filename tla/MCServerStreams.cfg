SPECIFICATION Spec
CONSTANTS
  c1 = c1
  c2 = c2
  s1 = s1
  s2 = s2
  a1 = a1
  a2 = a2
  Ids = {1}
  Roles = {"read", "write"}
  Conns = {c1, c2}
  Socks = {s1, s2}
  Tokens = {1}
  Admins = {a1, a2}
  Company <- OneTab
  FirstRole = "write"
  Permits = 1
  QueueCap = 1
  MaxAttempts <- Attempts
PROPERTIES
  RevokedStreamsEnd
CHECK_DEADLOCK FALSE
