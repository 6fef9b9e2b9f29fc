\* The list of hosts in the source, on one of these hosts.
SPECIFICATION Spec
CONSTANTS
  a = a
  b = b
  sep = sep
  h1 = h1
  h2 = h2
  h3 = h3
  h4 = h4
  h5 = h5
  MaxLen = 7
  Char = {h1, h2, h3, h4, h5, sep}
  Separators = {sep}
  Strings <- LiteralList
  Locals <- OneOfThem
INVARIANT OtherLocalsDeleted
CHECK_DEADLOCK FALSE
