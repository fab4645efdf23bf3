SPECIFICATION Spec
CONSTANTS
  None = None
  Blank = Blank
  Offered = {"metrics"}
  Slots = {1, 2}
  LoadSlots = {1, 2, 3}
  first = first
  Numbers = {1, 2}
  Terms = {first}
  Matches <- MCMatches
  PerPage = 1
  Names = {c1, c2}
  Todos = c1
  MaxCount = 1
  Measured = {c1}
  Ranges = {"24h", "6m"}
  Users = {u1, u2}
  Values = {v1, v2}
  Default = v1
  p1 = p1
  p2 = p2
  Passwords = {p1, p2}
  Levels = {error}
  Files = {old}
  Ids = {1, 2}
  Contents = {d1, d2}
  Filters = {d1}
  DocumentsPerPage = 1
  MaxChanges = 2
  f = f
  g = g
  n = n
  x = x
  Fields = {f, g, n}
  Type <- MCType
  Parts = {x}
  Numerals = {x}
  Imports <- MCImports
  MaxRows = 2
  MaxAsked = 1
  Properties = {1, 2, 3, 9}
  Schemas <- MCSchemas
  Sample <- MCSample
  MaxUpdates = 2
  t1 = t1
  Events = {validate, post}
  Texts = {t1}
  Template <- MCTemplate
  MaxSaves = 2
  Event = "validate"
  Mocked <- MCMocked
INVARIANTS
  ChartsMatchRange
