SPECIFICATION Spec
CONSTANTS
    None = None
    Target = {t1}
    Asset = {a1, a2}
    MaxEvent = 1
    MaxBinding = 1
    MaxJob = 2
    MaxManual = 2
    MaxMarker = 1
    Workers = 2
    ReconcileBindings = 1
    ReconcileAssets = 1
    Ops = {"auto", "retry", "cancel", "restart"}
SYMMETRY AssetSymmetry
INVARIANTS ImmichTypeOK AccountedIsThere NothingLeftPending
PROPERTIES ProgressKept AutoTakesOnlyItsOwn
