CONSTANTS
  main = main
  worker = worker
  core = core
  daemon = daemon
  indexer = indexer
  Writers = {main, worker, core}
  Native = {core}
  Worker = worker
  Processes = {daemon, indexer}
  Home <- MCHome
  NoWriter = NoWriter
  MaxTries = 1
  MaxSweeps = 1
  MaxFaults = 1
  MaxCrashes = 1
SPECIFICATION Spec
INVARIANT MarkerExclusive
