\* A PPC64-style image with stubs and __TEXT above the budget: every branch must reach afterwards.
CONSTANTS
    Inputs <- LargeBaseInputs
    MaxAddr <- MCMaxAddr

SPECIFICATION Spec

INVARIANT ReachAfterPass
