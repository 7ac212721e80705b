\* An ARM64 executable whose branches span more than 128MB: every branch must reach afterwards.
CONSTANTS
    Inputs <- ARM64Inputs
    MaxAddr <- MCMaxAddr

SPECIFICATION Spec

INVARIANT ReachAfterPass
