SPECIFICATION FairSpec
CONSTANTS
  Prefix <- PrefixA
  a = a
  ab = ab
  Main = Main
  Admin = Admin
  Nobody = Nobody
  NoName = NoName
  Master = m
  Workers = {w1}
  Clients = {c1}
  Names = {a}
  Backlog = 1
  Trusted = {w1}
  MaxBoots = 1
  ClientOps = {"LS"}
  CallNames = {a}
  Targets = {m}
  MaxCrashes = 1
  Pinging = TRUE
INVARIANT LoopInTable
PROPERTY ClientsReturn
PROPERTY MasterComesBack
PROPERTY RoundsEnd
PROPERTY WorkersComeBack
