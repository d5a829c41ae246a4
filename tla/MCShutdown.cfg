SPECIFICATION FairSpec
CONSTANTS
  Jobs = 2
  Handler = {h1, h2}
INVARIANTS
  TypeOK
  NoTickOnClosedRepo
  NoRequestOnClosedRepo
PROPERTIES
  ShutdownCompletes
  JobsKeepTicking
CHECK_DEADLOCK FALSE
