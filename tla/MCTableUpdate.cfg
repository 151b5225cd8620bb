SPECIFICATION Spec
CONSTANTS
  Call = {c1, c2, c3}
  Assignment = {a1, a2}
  Game = {g1, g2}
  Falsifier = Falsifier
  None = None
INVARIANTS NothingLost GamesOwned MapsOwned
