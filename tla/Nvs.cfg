SPECIFICATION Spec
CONSTANTS
  a = a
  b = b
  c = c
  NPages = 3
  N = 3
  Word = 2
  Keys = {a, b}
  Values = {1, 2}
  NoValue = 0
  Span <- SpanBlob
  Hash <- HashApart
  Pale = {2}
  MaxCuts = 2
  MaxSeq = 3
CHECK_DEADLOCK FALSE
INVARIANTS TypeOK NoDuplicates PageInReserve AppendsOnly
PROPERTIES ImplementsKVStore
