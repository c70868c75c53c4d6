\* Two sessions share the file; a validation may name another device or user.
CONSTANTS
  s1 = s1
  s2 = s2
  d1 = d1
  d2 = d2
  u1 = u1
  u2 = u2
  Unknown = Unknown
  Session = {s1, s2}
  Device = {d1, d2, Unknown}
  User = {u1, u2, Unknown}
  Owner <- MCOwner
  Lifetime = 1
  MaxTime = 2
SYMMETRY MCSymmetry
SPECIFICATION Spec
INVARIANTS
  TypeOK
  FileIsCurrent
PROPERTY
  ImplementsRegistry
