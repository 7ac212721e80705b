\* Executables the pass must handle: every branch in reach afterwards,
\* every branch still landing where it did, regions no further apart than
\* the budget.
CONSTANTS
    Inputs <- PassInputs
    MaxAddr <- MCMaxAddr

SPECIFICATION Spec

INVARIANTS
    TypeOK
    ReachAfterPass
    DestinationPreserved
    RegionSpacing
    AlignmentIsLeast

