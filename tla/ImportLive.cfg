SPECIFICATION ImmichLiveSpec
CONSTANTS
    None = None
    Target = {t1}
    Asset = {a1}
    MaxEvent = 2
    MaxBinding = 2
    MaxJob = 3
    MaxManual = 2
    MaxMarker = 2
    Workers = 1
    ReconcileBindings = 1
    ReconcileAssets = 1
    Ops = {"album", "auto", "cancel"}
PROPERTIES JobEnds AutoImportReaches
