\* Documentation check: a sign-out during a connect goes on with a tunnel up.
SPECIFICATION Spec
CONSTANTS
  Handles = {h1}
PROPERTIES
  SignOutStopsTheTunnelFirst
