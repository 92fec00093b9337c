SPECIFICATION MCFairSpec
CONSTANTS
  Macs = {m1, m2}
  NoMac = NoMac
  SeqSpace = 3
  AgeLimit = 3
  AskFrom = 2
  MaxUpdates = 1
  Configs <- MCConfigs
INVARIANTS GatewayFirst DetectsFailure
PROPERTY Recovers
