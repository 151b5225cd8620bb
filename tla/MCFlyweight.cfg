SPECIFICATION Spec
CONSTANTS
  Thread = {t1, t2}
  Obj = {o1, o2, o3}
  Handle = {h1, h2, h3}
  Label = {l1}
  None = None
INVARIANTS NoDangling CountsHandles DeepCanonical NoLeak
CHECK_DEADLOCK FALSE
