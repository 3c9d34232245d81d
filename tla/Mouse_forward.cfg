SPECIFICATION Spec
CONSTANT ScrollValues <- MCForward
INVARIANTS
    TicksAccumulated
    HostSeesButtons
