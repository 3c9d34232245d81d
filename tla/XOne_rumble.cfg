SPECIFICATION Spec
CONSTANTS
    weak = weak
    strong = strong
    Zero = Zero
    Amplitudes <- MCAmplitudes
    Reports <- MCReports
INVARIANTS
    ReportNotMissed
    MotorsOffWhenIdle
    EffectLength
PROPERTIES
    ReportsPlay
    EffectEnds
    DestroyReturns
