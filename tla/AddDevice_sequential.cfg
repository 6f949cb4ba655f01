\* Two registrations one after the other, two accept calls.
SPECIFICATION Spec
CONSTANTS
    None = None
    Regs = {r1, r2}
    Accs = {a1, a2}
    Owners = {d1}
    OneAtATime = TRUE
    MaxFaults = 0
SYMMETRY Symmetry
INVARIANTS
    DevicesUsable
CHECK_DEADLOCK FALSE
