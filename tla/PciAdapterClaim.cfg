\* README.md:419, "The card did not appear on PCI at all"
SPECIFICATION Spec
CONSTANTS
    CapOffsets <- MCOffsets
    Adapters <- MCAdapters
    Limit = 3
INVARIANT
    WarningMeansNoCard
