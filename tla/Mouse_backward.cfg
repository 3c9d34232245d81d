SPECIFICATION Spec
CONSTANT ScrollValues <- MCBackward
INVARIANT TicksAccumulated
