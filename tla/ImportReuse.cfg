SPECIFICATION Spec
CONSTANTS
    None = None
    Target = {t1}
    Asset = {a1}
    MaxEvent = 1
    MaxBinding = 1
    MaxJob = 2
    MaxManual = 2
    MaxMarker = 2
    Workers = 1
    ReconcileBindings = 1
    ReconcileAssets = 1
    Ops = {"album", "auto", "retry", "cancel", "restart", "db", "stop", "delete"}
INVARIANTS OneAlbum TransfersPinned
