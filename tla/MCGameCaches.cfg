SPECIFICATION CachesSpec
CONSTANTS
  phi = phi
  psi = psi
  atom = atom
  Problem = {phi, psi, atom}
  Height <- Heights
  CACHE_CUTOFF = 3
  Object = {g, h}
  FormulaAt = {a1, a2}
  ObjectAt = {1, 2}
  None = None
  Key <- Keys
  Value <- Values
  Limits = {0, 1, 2}
  DefaultLimit = 2
  NoValue = NoValue
  Cell = {c1, c2, c3}
  Sentinel = Sentinel
SYMMETRY Symmetry
INVARIANTS RingOK HitsAreFresh
PROPERTIES ImplementsLru
CHECK_DEADLOCK FALSE
