\* One atomic add.
SPECIFICATION Spec
CONSTANTS
  ByteSize = 256
  Cells <- MCCells
  Dev = 16
  Programs <- AddPrograms
  Starts <- MCStarts
  DataCells <- MCDataCells
  Shared = 512
  HandlerWords = {}
  DeviceWords = {}
INVARIANTS ReadsModifiesWrites
