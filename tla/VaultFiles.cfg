\* Two handles' files, every call failing, crashes and power cuts anywhere.
SPECIFICATION Spec
CONSTANTS
  w1 = w1
  w2 = w2
  a1 = a1
  p1 = p1
  p2 = p2
  p3 = p3
  Protocols <- MCProtocols
  Handles <- MCHandles
  Profiles <- MCProfiles
  HandleProtocol <- MCHandleProtocol
  ProfileProtocol <- MCProfileProtocol
  NoHandle = NoHandle
  NoProfile = NoProfile
  Absent = Absent
  Partial = Partial
  Attempts = 8
INVARIANT VaultInv
PROPERTY KeepsContract
