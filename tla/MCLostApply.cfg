SPECIFICATION Spec
CONSTANT MaxWrites = 2
INVARIANT AppliedWhenComplete
