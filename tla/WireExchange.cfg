\* Every request, answered in every way or lost anywhere, one after the other.
SPECIFICATION Spec
CONSTANTS
  Handles = {h1, h2}
  RequestIds = {r1, r2}
INVARIANTS
  ExchangeInv
  SuccessIsRecognised
  TwinsAgree
