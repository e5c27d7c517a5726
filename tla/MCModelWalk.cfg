SPECIFICATION MCWalkSpec
CONSTANTS
  a = a
  b = b
  c = c
  d = d
  e = e
  f = f
  i = i
  j = j
  root = root
  Root = root
  NoNode = NoNode
  Child <- MCChild
  Layouts <- MCLayouts
  Type <- MCType
  FuzzedTypes <- MCFuzzedTypes
  Plans <- MCPlans
  Reevaluated <- Default
  MaxReevals = 2
  MaxExtras = 2
INVARIANT LapsAreComplete
INVARIANT ReevaluationKeepsStructure
INVARIANT EveryCaseOnce
INVARIANT OthersAtDefault
PROPERTY WalkEnds
