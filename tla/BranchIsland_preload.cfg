\* A PPC preload image calling a stub from mid-text: every branch must reach afterwards.
CONSTANTS
    Inputs <- PreloadInputs
    MaxAddr <- MCMaxAddr

SPECIFICATION Spec

INVARIANT ReachAfterPass
