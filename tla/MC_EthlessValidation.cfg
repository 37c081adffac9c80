CONSTANTS
    a1 = a1
    a2 = a2
    c1 = c1
    c2 = c2
    d1 = d1
    d2 = d2
    None = None
    Garbage = Garbage
    Addrs = {a1, a2}
    Contracts = {c1, c2}
    Amounts = {1, 2}
    Deals = {d1, d2}
    ClaimFrom = a1
    ClaimTo = a2
    ClaimContract = c1
    ClaimAmount = 1
    ClaimDeal = d1
    Conf = 2
    MaxTip = 3
SPECIFICATION Spec
INVARIANTS EthlessVerdictCorrect
