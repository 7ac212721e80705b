CONSTANTS
    Inputs <- PassInputs
SPECIFICATION Spec
INVARIANT ThreeFieldVersions
PROPERTY ImplementsInterface
