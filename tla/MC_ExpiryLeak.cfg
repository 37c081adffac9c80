CONSTANTS
    alice = alice
    bob = bob
    ea = ea
    eb = eb
    c1 = c1
    c2 = c2
    g1 = g1
    g2 = g2
    t1 = t1
    x1 = x1
    x2 = x2
    k1 = k1
    k2 = k2
    None = None
    Tx0 = Tx0
    Accounts = {alice, bob}
    ExtAddrs = {ea, eb}
    Chains = {c1, c2}
    Chain <- MC_Chain
    Holder <- MC_Holder
    Terms = {t1}
    ValidTerms = {t1}
    Amounts = {1, 2}
    Amount <- MC_Amount
    ContractChain <- MC_ContractChain
    CCAmount = 1
    MaxBalance = 2
    InitBalance <- MC_InitBalance
    Guids = {g1, g2}
    TxIds = {x1}
    Contracts = {k2}
    DefaultContract = k2
    MaxBlock = 3
    Timeout = 1
    MaxOrders = 2
    MaxDeals = 1
    MaxClaims = 0
    MaxCollects = 0
    MaxAuthorities = 0
    MaxPool = 0
SPECIFICATION Spec
CONSTRAINT MC_Constraint
INVARIANT ExpiredPurged
