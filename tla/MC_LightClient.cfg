CONSTANTS
    evil = evil
    none = none
    Evil <- evil
    None <- none
    SlotsPerPeriod = 3
    CommitteeSize = 3
    Lag = 1
    MaxSlot = 6
    BootSlots = {0, 1}
    GenesisTime = 100
SPECIFICATION Spec
CHECK_DEADLOCK FALSE
INVARIANT LCTypeOK StoreSound CodecRoundTrip
PROPERTY AbsRefined
