\* Scaled down: alignments 2 to 16 with MIN_ALIGN 4 and the macOS limit 8, so
\* that sizes and alignments fall on both sides of every test.
SPECIFICATION Spec
CONSTANTS
  b1 = b1
  b2 = b2
  zero = zero
  junk = junk
  v1 = v1
  Null = Null
  Blocks <- MCBlocks
  Values <- MCValues
  Zero <- zero
  Junk <- junk
  Sizes = {1, 3, 4}
  Aligns = {2, 4, 8, 16}
  MIN_ALIGN = 4
  MacOS = TRUE
  MacMax = 8
SYMMETRY Symmetry
INVARIANTS TypeOK OwnedIsLive UnderalignedOnlyByShrink MacosNeverHuge
PROPERTY ImplementsBlocks
