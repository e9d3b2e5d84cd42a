\* Does setting a member change the native option of that name only?
SPECIFICATION Spec
CONSTANTS
  IntSpan = 8
  LongSpan = 32
  Members <- MCMembers
  Arguments <- MCArguments
  Unset = Unset
PROPERTY SetsNamedOption
