\* One activated profile, every exchange timing out, cut or refused anywhere.
SPECIFICATION Spec
CONSTANTS
  Handles = {h1}
INVARIANTS
  EngineInv
  ConnectedNamesItsTunnel
PROPERTIES
  OperationEnds
