SPECIFICATION FairSpec
CONSTANTS
  Call = {c1, c2}
  MaxToken = 3
INVARIANTS StoredTokenIsCurrent
PROPERTIES ImplementsRotation SpinnerEnds
