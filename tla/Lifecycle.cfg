SPECIFICATION Spec
CONSTANTS
    Devs = 2
    MayFail = {"numbers", "memory", "cdev", "irq"}
    MaxFiles = 2
INVARIANTS
    LoadedOwnsChip
    HandlerHasAll
    CleanUnload
    SeriLeavesOnlyRegion
    OpenHasModule
