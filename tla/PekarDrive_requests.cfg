SPECIFICATION Spec
CONSTANTS
  Prefix <- PrefixA
  a = a
  ab = ab
  Main = Main
  Admin = Admin
  Nobody = Nobody
  NoName = NoName
  Master = m
  Workers = {w1, w2}
  Clients = {c1}
  Names = {a}
  Backlog = 1
  Trusted = {w1}
  MaxBoots = 2
  ClientOps = {"LS", "READ", "APPEND"}
  CallNames = {a}
  Targets = {m, w2}
  MaxCrashes = 0
  Pinging = FALSE
INVARIANT TypeOK
INVARIANT OnlyTrustedWorkers
