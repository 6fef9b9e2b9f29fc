\* Every string of two letters and a separator up to a length.
SPECIFICATION Spec
CONSTANTS
  a = a
  b = b
  sep = sep
  h1 = h1
  h2 = h2
  h3 = h3
  h4 = h4
  h5 = h5
  MaxLen = 7
  Char = {a, b, sep}
  Separators = {sep}
  Strings <- MCStrings
  Locals <- MCLocals
INVARIANTS SplitTypeOK SplitExact OthersKept ErasedUnlessRepeated
PROPERTY InitEnds
CHECK_DEADLOCK FALSE
