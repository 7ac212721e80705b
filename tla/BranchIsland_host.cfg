\* A call from a second code section through islands in __text: the writer's
\* atomToSection must name the section each island is spliced into.
CONSTANTS
    Inputs <- ColdInputs
    MaxAddr <- MCMaxAddr

SPECIFICATION Spec

INVARIANT AtomToSectionIsHost
