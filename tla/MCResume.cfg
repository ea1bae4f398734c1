SPECIFICATION Spec
CONSTANTS
  Keys <- AllKeys
  Hash <- AllHashes
  KeyOrder <- StrcmpOrder
  MAX_RECURSION = 6
  DICT_SIZE = 16
  STATE_SIZE = 7
  Modulus = 8
  Width = 8
  Layouts <- AllLayouts
  Files <- AllFiles
  Cutting <- FileCutting
  Cuts <- SomeCuts
  MaxStarts = 2
  MaxSaves = 3
  MaxUploaded = 1
CHECK_DEADLOCK FALSE
INVARIANTS
  HaveOnDisk
  ReadsBack
  SavedIsRestored
  CutIsRefused
  FailsOnlyWhenFull
  InfohashOfFile
  LayoutSound
PROPERTY
  ImplementsPieceStore
