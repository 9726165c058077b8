\* Two profiles switched through every failure, and an id history so short that
\* ids are evicted from it and used again.
SPECIFICATION Spec
CONSTANTS
  RequestIds = {r1, r2, r3}
  Handles = {h1, h2}
  Window = 2
SYMMETRY Symmetry
INVARIANTS
  TypeOK
  DisconnectedMeansNoTunnel
  ConnectedIsTheReportedProfile
  StateEventCoherent
  RecentIdsCoherent
PROPERTIES
  FailureIsNeverBusy
  StrandedOnlyByFailedCall
  StrandedUntilRestart
  NoReplayWithinWindow
