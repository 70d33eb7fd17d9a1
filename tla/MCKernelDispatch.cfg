\* The launches of every operation over shapes of dense, hybrid and MoE models.
CONSTANTS
  MaxThreads = 1024
  MaxShared = 65536
  MaxGridYZ = 65535
  Windows = {1, 128, 65535, 65536}
  Files <- MCFiles
  DTypes = {"F16", "Q8_0", "Q4_K", "Q6_K"}
  RowCounts <- MCRows
  Depths <- MCDepths
  ChunkCap = 512
  RecurTile = 128
  FlashMinDepth = 512
SPECIFICATION Spec
INVARIANTS LaunchesAreLegal WholeReduction ScratchSuffices
