SPECIFICATION FairSpec
CONSTANTS
  Names = {s1, s2, s3}
  NoName = NoName
  StateDefs <- Defs
  EventKinds = {"consumed", "produced"}
INVARIANTS
  TypeOK
  SoundNeverFails
  DoneAtEnd
  EndMustBeReached
PROPERTY
  AcyclicEnds
\* a run ends
CHECK_DEADLOCK FALSE
