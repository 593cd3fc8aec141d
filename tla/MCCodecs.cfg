SPECIFICATION Spec
CONSTANTS
  Base = 16
  TagMod = 8
  WordBytes = 2
  Top = 250
  FciTag = 6
  ProprietaryTag = 10
  VersionTag = 1
  ExtendedTag <- Extended
  MaxCommandTag = 0
  LongWidth = 2
  MaxPayload = 40
  BlockSize = 4
  Alphabet <- Symbols
  MaxInput = 6
  MaxZeros = 48
INVARIANTS
  TlvValuesSurvive
  TlvStable
  SelectAgrees
  NdefSurvives
  ApduReads
  ChainingReassembles
  SduAllOrNothing
  PaddingComesOff
CHECK_DEADLOCK FALSE
