\* Expected violation: SettledPartsAgree.
CONSTANTS
    Fields <- MC_Fields
    Values <- MC_Values
    DefaultParts <- MC_DefaultParts
    TokenCapacity <- MC_TokenCapacity
    MaxChanges <- MC_MaxChanges
    MaxInFlight <- MC_MaxInFlight
SPECIFICATION Spec
INVARIANT SettledPartsAgree
