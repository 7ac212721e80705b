\* A text whose second atom must follow the first: insertion points must stay within the budget.
CONSTANTS
    Inputs <- FollowOnInputs
    MaxAddr <- MCMaxAddr

SPECIFICATION Spec

INVARIANT RegionSpacing
