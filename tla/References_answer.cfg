CONSTANTS
  p1 = p1
  p2 = p2
  Places <- MCPlaces
  Names <- MCNames
  Name <- MCName
  TooShort <- MCTooShort
  Anchors = {}
  Pages = {s}
  Invented = {x}
  MaxAttempts = 2
  MaxSearches = 2
  MaxRegenerations = 1
SPECIFICATION EvidenceSpec
INVARIANTS
  ValidAnswersAreComplete
  InventedIsReported
