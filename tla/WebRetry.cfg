SPECIFICATION Spec
CONSTANTS
  Call = {c1, c2}
  MaxToken = 3
INVARIANT RetryIsTransparent
SYMMETRY Symmetry
