CONSTANTS
    r1 = r1
    r2 = r2
    r3 = r3
    k1 = k1
    x = x
    own = own
    shared = shared
    Requests = {r1, r2}
    Keys = {k1}
    KeyOf <- MCKeyOf
    Payloads = {x}
    PayloadOf <- MCPayloadOf
    None = None
    Payments = {r1, r2, r3}
    Nobody = None
    AmountOf <- MCAmountOf
    Budgets = {own, shared}
    AgentBudgets = {own}
    BudgetOf <- MCBudgetOf
    NoBudget = NoBudget
    LimitOf <- MCLimitOf
    DailyLimit = 2
SPECIFICATION IntakeFairSpec
INVARIANTS
    
    KeyTellsTruth
    
PROPERTY KeyIsFreed
CHECK_DEADLOCK FALSE
