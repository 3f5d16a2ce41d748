CONSTANTS
  Payloads <- MCPayloads
  MaxSends = 2
SPECIFICATION Spec
INVARIANTS
  TypeOK
  CutsDoNotMatter
  NothingLost
  NothingHeldBack
  FramesEndClean
  SentIsDelivered
  CommandRead

