CONSTANTS
    NoUpgrade = NoUpgrade
    Steps = 7
SPECIFICATION Spec
INVARIANTS MigrationsOnce
