SPECIFICATION MCFairSpec
CONSTANTS
  Macs = {m1, m2}
  NoMac = NoMac
  SeqSpace = 2
  Hosts = {h1, h2}
  TableLimit = 1
  MaxUpdates = 1
  Configs <- MCConfigs
INVARIANTS GatewayFirst MacKnown DetectsGatewayLoss SpoofUndone
PROPERTY Recovers
