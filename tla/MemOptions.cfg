\* Ints of 3 bits in longs of 5: the least, a small negative, zero, the most.
SPECIFICATION Spec
CONSTANTS
  IntSpan = 8
  LongSpan = 32
  Members <- MCMembers
  Arguments <- MCArguments
  Unset = Unset
INVARIANTS TypeOK ReadsBack NamedOptionHolds
