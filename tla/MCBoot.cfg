CONSTANTS
  Smaps <- MCSmaps
  Modes <- MCModes
  Mode <- MCMode
SPECIFICATION Spec
CHECK_DEADLOCK FALSE
INVARIANTS
  ImageInPlace
  MapRecorded
  KernelSeesMode
PROPERTY BootsIfItCan
