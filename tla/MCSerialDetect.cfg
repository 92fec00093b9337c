SPECIFICATION MCSpec
CONSTANT Period = 5
INVARIANTS DetectsSilence GoodLineIsUsed
PROPERTY FreshEvidence
CHECK_DEADLOCK FALSE
