\* One displaced load, at the largest offset its assertion accepts.
SPECIFICATION Spec
CONSTANTS
  ByteSize = 256
  Cells <- MCCells
  Dev = 16
  Programs <- OffsetPrograms
  Starts <- MCStarts
  DataCells <- MCDataCells
  Shared = 512
  HandlerWords = {4386}
  DeviceWords = {258}
INVARIANTS AcceptedOffsetsAreInRange
