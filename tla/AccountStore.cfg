\* One operation at a time, every await failing, two protocols of the three.
SPECIFICATION Spec
CONSTANTS
  Tasks = {t1}
  Handles = {h1, h2, h3, h4, h5}
  ProtocolCount = 2
  CredentialSets = {{1, 2}, {2}}
SYMMETRY Symmetry
INVARIANTS
  AccountInv
  FailsOnlyByItself
  FailureLeavesNoProfile
PROPERTIES
  ActivationIsComplete
  SignOutNeverOrphans
