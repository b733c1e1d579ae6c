SPECIFICATION MCSpec
CONSTANTS
  Kernels = {"k", "l"}
  Copies = {"c"}
  Streams = {"s"}
  Execs = {"e", "f"}
  Regions = {1, 2}
  PoolMax = 1
  ChainMax = 1
  ChainsMax = 2
  RegionRoom = 2
  None = None
  Programs <- MCPrograms
  Loose = {"k"}
  MaxBatches = 7
  Threads = {a, b}
  Deployments <- MCDeployments
  MinLaunches = 1
  Nobody = Nobody
  MaxWork = 3
SYMMETRY ThreadsSymmetry
INVARIANT LockIsEnough
CHECK_DEADLOCK FALSE
