\* Two registrations and an accept call, of the same user or of several.
SPECIFICATION Spec
CONSTANTS
    None = None
    Registers = {r1, r2}
    Accepts = {a1}
    Users = {u1}
    AuthConfigs <- Configs
    NChannels = 3
    TokenLife = 1
    ChannelLife = 2
SYMMETRY Symmetry
INVARIANTS
    TypeOK
    SessionIsLatest
    FoundWhilePublished
PROPERTIES
    AdmittedAsVouched
CHECK_DEADLOCK FALSE
