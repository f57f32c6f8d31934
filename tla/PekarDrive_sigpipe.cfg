SPECIFICATION Spec
CONSTANTS
  Prefix <- PrefixA
  a = a
  ab = ab
  Main = Main
  Admin = Admin
  Nobody = Nobody
  NoName = NoName
  Master = m
  Workers = {w1}
  Clients = {c1}
  Names = {a}
  Backlog = 1
  Trusted = {w1}
  MaxBoots = 1
  ClientOps = {"WRITE"}
  CallNames = {a}
  Targets = {m}
  MaxCrashes = 1
  Pinging = FALSE
INVARIANT FailedConnectionsAreHarmless
