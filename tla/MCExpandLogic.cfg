\* One mask for the low byte.
SPECIFICATION Spec
CONSTANTS
  ByteSize = 256
  Cells <- MCCells
  Dev = 16
  Programs <- LogicPrograms
  Starts <- MCStarts
  DataCells <- MCDataCells
  Shared = 512
  HandlerWords = {4386}
  DeviceWords = {258}
INVARIANTS LogicImmediates
