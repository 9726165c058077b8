\* Documentation check: an error of the accept loop is never recovered from.
SPECIFICATION Spec
CONSTANTS
  Clients = {c1}
  OsFaults = FALSE
PROPERTIES
  RecoveryRestarts
