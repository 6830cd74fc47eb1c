SPECIFICATION Spec
CONSTANTS
  BLOCKSIZE = 2
  NUM_DATA_BLOCKS = 2
  NUM_INODES = 2
  MAX_FILE_SIZE = 2
  MAX_OPEN_FILES = 2
  CLEARED = 1
  Names = {"f", "g"}
  Sizes = {0, 1, 3}
  Seeks <- MCSeeks
  Buffers <- MCBuffers
  Uninit = {0, 2}
  Overwrites = FALSE
INVARIANTS  SizeCovered ReadsContents NothingWrong
PROPERTIES ImplementsFiles
