\* A signature whose contexts may end and an export, one failure.
SPECIFICATION Spec
CONSTANTS
    Signs = {s1}
    Exports = {e1}
    Prompt = TRUE
    MaxFaults = 1
INVARIANTS
    TypeOK
    NeverStranded
    SignedByBoth
    RefusedOnlyOnFault
PROPERTIES
    RequestCompletes
    SignatureReturned
CHECK_DEADLOCK FALSE
