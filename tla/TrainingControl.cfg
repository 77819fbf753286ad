\* Two calls, or a call and a crash, or two crashes, beside the controller.
CONSTANTS
    Jobs = {j1}
    Released = {j1}
    Callers = {c1, c2}
    MaxActive = 1
    MaxAttempts = 2
    Kinds = {"checkpoint", "runtime"}
    MaxIncidents = 2
    MaxVersion = 0
SPECIFICATION Spec
SYMMETRY SymmetricCallers
INVARIANTS
    WatchesCurrent
    OneLiveRun
PROPERTIES
    ImplementsLifecycle
