SPECIFICATION Spec
CONSTANTS
  a = a
  b = b
  c = c
  d = d
  x = x
  y = y
  z = z
  filler = filler
  dash = dash
  Nobody = Nobody
  Filler = filler
  MaxCopies <- MCMaxCopies
  Child <- MCChild
  Symbols <- MCSymbols
  Grammars <- MCGrammars
  RawData <- MCRawData
INVARIANT NothingLostNorMade
INVARIANT RoundTrip
INVARIANT AbsorbedFits
PROPERTY AbsorptionEnds
