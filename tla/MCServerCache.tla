--------------------------- MODULE MCServerCache ---------------------------
EXTENDS ServerCache, TLC

Configs == {[AuthType |-> "supabase", complete |-> TRUE],
            [AuthType |-> "custom", complete |-> TRUE],
            [AuthType |-> "custom", complete |-> FALSE]}

Symmetry == Permutations(Registers)
=============================================================================
