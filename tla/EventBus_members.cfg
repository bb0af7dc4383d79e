CONSTANTS
    Members = {u1, u2}
    OtherEvents = {"wallet.created"}
    MaxEmissions = 2
    MaxBusFaults = 1
SPECIFICATION BusSpec
INVARIANT MembersAreNotified
CHECK_DEADLOCK FALSE
