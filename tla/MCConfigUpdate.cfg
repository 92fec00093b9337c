SPECIFICATION FairSpec
CONSTANT MaxWrites = 3
INVARIANTS ModulesQuiet ProgressHonest
PROPERTY UpdateEnds
