SPECIFICATION PairSpec
CONSTANTS
    DeviceLines <- MCLines
    GuestBases <- MCBases
    GuestMasks <- MCMasks
INVARIANT PairConsistent
PROPERTY RequestsStick
