SPECIFICATION Spec
CONSTANTS
  MaxRun = 2
  Magic <- ServerMagic
  MAX_FILE_SIZE = 3
  Clients = {c1, c2}
  Paths = {1, 2, 3}
  Files = {1, 2}
  FileOf <- Spellings
  Commands <- ServerCommands
  COPY_BUF_SIZE = 2
  Inodes = {1, 2, 3, 4, 5, 6}
  None = None
INVARIANT WriterIsAlone
SYMMETRY Symmetry
