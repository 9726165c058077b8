\* Every field at its bounds and one past them, alone and with others.
SPECIFICATION TransferSpec
CONSTANTS
  Configs <- SomeConfigs
  MaxFrameSize = 32768
INVARIANTS
  TransferTypeOK
  FrameFits
  RefusedOnlyForWriting
  AcceptedIsStorable
  StoredIsLoadable
