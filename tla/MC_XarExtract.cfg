\* A client that sets buffer to NULL before each call, freeing on success
\* or always: nothing leaks and nothing is freed twice.
CONSTANTS
    Entries <- MCEntries
    MaxCalls <- MCMaxCalls
    ResetBuffer = TRUE
    FreeStyles <- MCFreeStyles

SPECIFICATION Spec

INVARIANTS
    NoLeak
    NoInvalidFree
