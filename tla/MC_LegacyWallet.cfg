CONSTANTS
    alice = alice
    bob = bob
    carol = carol
    dave = dave
    keeper = keeper
    k1 = k1
    k2 = k2
    k3 = k3
    k4 = k4
    k5 = k5
    k6 = k6
    k7 = k7
    k8 = k8
    k9 = k9
    NoKeeper = NoKeeper
    Keys = {k1, k2, k3, k4, k5, k6, k7, k8, k9}
    Accounts = {alice, bob, carol, dave, keeper}
    AccountOf <- MC_AccountOf
    GenesisWallets <- MC_GenesisWallets
    Keeper = keeper
    InitFree <- MC_InitFree
    ExistentialDeposit = 2
    MaxBalance = 14
SPECIFICATION Spec
INVARIANTS LegacyPaidOnce KeeperSolvent
CHECK_DEADLOCK FALSE
