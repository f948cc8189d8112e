CONSTANTS
    t1 = t1
    t2 = t2
    h1 = h1
    h2 = h2
    c1 = c1
    c2 = c2
    Targets = {t1, t2}
    Hooks = {h1, h2}
    Configs = {c1, c2}
    None = None
    MaxGen = 3
    MaxBackups = 2
    MaxCrashes = 2
SPECIFICATION Spec
SYMMETRY Symmetry
INVARIANTS OverlayTypeOK OneOverlay RollbackRestores AppliedTogether HooksOfTheOverlay
