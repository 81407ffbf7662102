\* Every program of the MC module.
SPECIFICATION Spec
CONSTANTS
  ByteSize = 256
  Cells <- MCCells
  Dev = 16
  Programs <- MCPrograms
  Starts <- MCStarts
  DataCells <- MCDataCells
  Shared = 512
  HandlerWords = {4386}
  DeviceWords = {258}
INVARIANTS TypeOK RunsAsWritten SharedWordWhole DeviceWordWhole StackPointerWhole
PROPERTIES Finishes
