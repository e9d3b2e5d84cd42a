\* Off macOS, with a larger size and a smaller alignment: is every block aligned?
SPECIFICATION Spec
CONSTANTS
  b1 = b1
  b2 = b2
  zero = zero
  junk = junk
  v1 = v1
  Null = Null
  Blocks <- MCBlocks
  Values <- MCValues
  Zero <- zero
  Junk <- junk
  Sizes = {1, 3, 4, 9}
  Aligns = {1, 2, 4, 8, 16}
  MIN_ALIGN = 4
  MacOS = FALSE
  MacMax = 8
SYMMETRY Symmetry
INVARIANT AlwaysAligned
