CONSTANTS
    Inputs <- MultiDocInputs
SPECIFICATION Spec
PROPERTY ImplementsInterface
