SPECIFICATION MCFairSpec
CONSTANTS
  Macs = {m1, m2}
  NoMac = NoMac
  SeqSpace = 4
  AgeLimit = 2
  MaxUpdates = 1
  Configs <- TwoTables
INVARIANTS CountersAgree MacKnown DetectsFailure
PROPERTIES FreshEvidence LossIsFinal Recovers
