SPECIFICATION Spec
CONSTANTS
  Shells = {s1, s2}
  Ips = {"10.0.0.1", "10.0.0.2"}
  Numbers = {80, 65617}
  Null = Null
INVARIANT TypeOK
INVARIANT ConnectsWhereSet
