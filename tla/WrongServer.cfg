SPECIFICATION Spec
CONSTANTS
    None = None
    Target = {t1, t2}
    Asset = {a1}
    MaxEvent = 1
    MaxBinding = 1
    MaxJob = 1
    MaxManual = 1
    MaxMarker = 2
    Workers = 1
    ReconcileBindings = 1
    ReconcileAssets = 1
    Ops = {"delete"}
INVARIANTS AccountedIsThere
