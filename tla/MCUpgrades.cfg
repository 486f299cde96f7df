SPECIFICATION UpgradesSpec
CONSTANTS
    Addr = {a1, a2, p}
    Self = p
    Hash = {h1, h2}
    None = None
    DefaultTimelock = 1
    Timelocks = {0, 3}
    MaxU64 = 3
    MaxTime = 2
    MaxUpgrades = 3
SYMMETRY HashSymmetry
INVARIANTS
    HistoriesAreComplete
PROPERTIES
    AnnouncedUpgrade
    UpgradabilityAnnouncedUpgrade
