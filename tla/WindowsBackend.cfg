\* All three engines, every call failing at any point, crashes anywhere.
SPECIFICATION Spec
INVARIANTS
  BackendInv
  ActiveIsTheOnlyTunnel
  NoPlaintextAfterSuccess
PROPERTIES
  KeepsContract
  CrashTerminatesXray
