CONSTANTS
  Objects = {o1, o2}
  Executions = {x1}
  Epochs = {e1}
  NoObject = NoObject
  BatchSize = 1
  MaxFaults = 2
  MaxCrashes = 1
SPECIFICATION Spec
SYMMETRY Symmetry
INVARIANTS
  TypeOK
  ReferencedKept
  SweepHoldsReadersOff
  BarrierHasReason
  RootsHaveReader
PROPERTIES
  BackupStopsSweep
