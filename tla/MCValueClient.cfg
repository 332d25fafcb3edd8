CONSTANTS
  Obj = {o1, o2, o3}
  Ctx = {c1, c2}
  Immediate = {"undefined", "int"}
  Keys = {"k"}
  Index <- MCIndex
  IndexBits = 2
  ContextVar = {a1, a2}
  Slot = {s1, s2, s3}
SPECIFICATION Spec
SYMMETRY Symmetry
INVARIANTS
  RefsBalanced
  ContextsApart
  ContextsOwned
  LengthExact
