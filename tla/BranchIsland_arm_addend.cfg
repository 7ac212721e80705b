\* An ARM branch with an addend that needs islands: it must still land on its target plus addend.
CONSTANTS
    Inputs <- ARMAddendInputs
    MaxAddr <- MCMaxAddr

SPECIFICATION Spec

INVARIANT DestinationPreserved
