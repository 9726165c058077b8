\* Documentation check: an activation that overlaps a failing one is incomplete.
SPECIFICATION Spec
CONSTANTS
  Tasks = {t1, t2}
  Handles = {h1, h2}
  ProtocolCount = 1
  CredentialSets = {{1}}
PROPERTIES
  ActivationIsComplete
