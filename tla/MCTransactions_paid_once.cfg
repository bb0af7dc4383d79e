CONSTANTS
    \* two reviewers approve, and nothing fails
    creator = creator
    a1 = a1
    a2 = a2
    r1 = r1
    alice = alice
    bob = bob
    Creator = creator
    Approvals = {a1, a2}
    Rejections = {}
    Users = {alice, bob}
    UserOf <- MCUserOf
    Faults = {}
    \* policies
    Offset <- MCOffset
    PolicyRows <- MCPolicyRows
    Intents <- MCIntents
    Instants = {76, 100}
    Histories <- MCHistories
    PriceTables <- MCPriceTables
    MaxPolicies = 2
    \* overrides
    Limits = {1, 2}
    MaxOverrideClock = 3
    MaxSweeps = 2
    MaxGrants = 2
    MaxEdits = 1
    \* risk
    Amounts = {10, 900, 9000}
    WalletHistories <- MCWalletHistories
    MaxRiskAttempts = 3
    MaxRiskDeliveries = 2
    MaxRiskFaults = 2
    \* simulation
    ErrorAbis <- MCErrorAbis
    Payloads <- MCPayloads
    Fees = {0, 7, 5000000, 10000000}
    Instructions = {0, 3, 9, 900}
    EventLogs <- MCEventLogs
    Buffers = {0, 10, 130}
    BufferOverrides <- MCBufferOverrides
    GasLimits = {0, 5, 2000}
    MaxGasLimit = 1000
    FallbackGasLimit = 100
    FallbackFee = 11
    MaxSafeInteger = 1900000000
    \* unit of work
    Updates = {"execute1", "execute2", "cancel"}
    InitialStatus = "PENDING"
    Admits <- MCAdmits
    Target <- MCTarget
    MaxTxAttempts = 3
    Nobody = "nobody"
SPECIFICATION LifecycleSpec
INVARIANT PaidAtMostOnce
