CONSTANTS
  Lines <- MCLines
  Exceptions <- MCExceptions
  BiosMasks <- MCBiosMasks
SPECIFICATION Spec
CHECK_DEADLOCK FALSE
INVARIANT PageFaultReported
