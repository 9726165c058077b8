---------------------------- MODULE MCVaultFiles ----------------------------
(* One protocol whose load looks at the prefix of the handle, and one whose *)
(* load does not; a handle or two of each, so that draws collide.          *)
EXTENDS VaultFiles

CONSTANTS w1, w2, a1, p1, p2, p3

MCProtocols == {"WireGuard", "AmneziaWG"}
MCHandles == {w1, w2, a1}
MCProfiles == {p1, p2, p3}

MCHandleProtocol ==
  [h \in MCHandles |-> IF h = a1 THEN "AmneziaWG" ELSE "WireGuard"]

MCProfileProtocol ==
  [p \in MCProfiles |-> IF p = p3 THEN "AmneziaWG" ELSE "WireGuard"]
=============================================================================
