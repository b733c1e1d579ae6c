SPECIFICATION MCSpec
CONSTANTS
  Kernels = {"k", "l"}
  Copies = {"c"}
  Streams = {"s"}
  Execs = {"e", "f"}
  Regions = {1, 2}
  PoolMax = 1
  ChainMax = 1
  ChainsMax = 2
  RegionRoom = 1
  None = None
  Programs <- MCPrograms
  Loose = {"k"}
  MaxBatches = 6
  Threads = {"a", "b"}
  Deployments <- MCDeployments
  MinLaunches = 1
  Nobody = "nobody"
  MaxWork = 4
INVARIANT DoesWhatWasAsked
CHECK_DEADLOCK FALSE
