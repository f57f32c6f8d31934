SPECIFICATION Spec
CONSTANTS
  Prefix <- PrefixAB
  a = a
  ab = ab
  Main = Main
  Admin = Admin
  Nobody = Nobody
  NoName = NoName
  Master = m
  Workers = {w1}
  Clients = {c1}
  Names = {a, ab}
  Backlog = 1
  Trusted = {w1}
  MaxBoots = 2
  ClientOps = {"WRITE", "DELETE"}
  CallNames = {a}
  Targets = {m}
  MaxCrashes = 1
  Pinging = FALSE
INVARIANT ConnectionsAccounted
INVARIANT IdsInOrder
INVARIANT CountedWriteIsStored
