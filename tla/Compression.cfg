CONSTANTS
  original = original
  packed = packed
  text = text
  words = words
  items = items
  Buffers <- MCBuffers
  Capacity <- MCCapacity
  Data = {text}
  TypeSizes = {items, words}
  UsedCodecs <- MCUsedCodecs
  SizeSpan = 16
  Failures <- MCFailures
  MaxLayers = 3
SPECIFICATION Spec
INVARIANTS TypeOK AsExpected StaysInside
