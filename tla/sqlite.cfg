SPECIFICATION Spec
CONSTANTS
  Keys <- ByteStrings
  Values = {v1, v2}
  Batches <- TwoOps
  Absent = Absent
  MaxByte = 1
  NoTxn = NoTxn
  NoBatch = NoBatch
PROPERTY ImplementsKvStore
