\* The MMQ kernels on a mixture-of-experts model.
CONSTANTS
  MaxThreads = 1024
  MaxShared = 65536
  MaxGridYZ = 65535
  Windows = {1, 128, 65535, 65536}
  Files <- MCMoeFiles
  DTypes = {"F16", "Q8_0", "Q4_K", "Q6_K"}
  RowCounts <- MCRows
  Depths <- MCDepths
  ChunkCap = 512
  RecurTile = 128
  FlashMinDepth = 512
SPECIFICATION Spec
INVARIANT LargestReduction
