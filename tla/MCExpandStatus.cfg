\* One atomic load into the scratch register.
SPECIFICATION Spec
CONSTANTS
  ByteSize = 256
  Cells <- MCCells
  Dev = 16
  Programs <- ScratchPrograms
  Starts <- MCStarts
  DataCells <- MCDataCells
  Shared = 512
  HandlerWords = {4386}
  DeviceWords = {258}
INVARIANTS StatusRestored
