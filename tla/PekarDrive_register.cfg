SPECIFICATION FairSpec
CONSTANTS
  Prefix <- PrefixA
  a = a
  ab = ab
  Main = Main
  Admin = Admin
  Nobody = Nobody
  NoName = NoName
  Master = m
  Workers = {w1, w2}
  Clients = {c1}
  Names = {a}
  Backlog = 1
  Trusted = {w1, w2}
  MaxBoots = 2
  ClientOps = {"LS"}
  CallNames = {a}
  Targets = {m}
  MaxCrashes = 0
  Pinging = FALSE
PROPERTY BootedWorkerIsKnown
