------------------------------- MODULE MCPrograms -------------------------------
(***************************************************************************)
(* Programs that use one component each in every way it allows, for TLC:   *)
(* three clients on two timeouts of a deadline_container, and the programs *)
(* over eithers, trampolines and optimized_vectors.  A behaviour is one of *)
(* the four.                                                               *)
(***************************************************************************)
EXTENDS DeadlineTimers, Ownership, TLC

MCTimeout  == {1, 2}
MCDeadline == 0..3
MCTimeMax  == 4

ProgramInit == Init /\ OwnershipInit /\ program \in Owners \cup {"timers"}

ProgramNext ==
    \/ OwnershipNext /\ UNCHANGED vars
    \/ program = "timers" /\ Next /\ UNCHANGED ownershipVars

Symmetry == Permutations(Vector) \cup Permutations(Address)
=============================================================================
