\* Two exchanges at once against the loop, silent for ever or timing out anywhere.
SPECIFICATION Spec
CONSTANTS
  Clients = {c1, c2}
  OsFaults = TRUE
INVARIANTS
  PipeInv
PROPERTIES
  StopIsAnswered
  PipeComesBack
