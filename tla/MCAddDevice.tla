----------------------------- MODULE MCAddDevice -----------------------------
(* Instances of AddDevice for TLC; the constants are set in the .cfg files. *)
EXTENDS AddDevice, TLC

\* Registrations are interchangeable, and so are accept calls and devices.
Symmetry == Permutations(Regs) \cup Permutations(Accs) \cup Permutations(Owners)
=============================================================================
