CONSTANTS
    Inputs <- SingleArchInputs
SPECIFICATION Spec
PROPERTY ImplementsInterface
