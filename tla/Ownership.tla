------------------------------- MODULE Ownership -------------------------------
(***************************************************************************)
(* Three programs that own memory: one over eithers, one over trampolines, *)
(* one over optimized_vectors.  A behaviour is one of them.                *)
(***************************************************************************)
EXTENDS Either, Trampoline, OptimizedVector

VARIABLE program \* the one that runs

Owners == {"either", "trampoline", "vector"}

OwnershipInit == EitherInit /\ TrampolineInit /\ VectorInit

OwnershipNext ==
    /\ UNCHANGED program
    /\ \/ program = "either" /\ EitherNext /\ UNCHANGED <<trampolineVars, vectorVars>>
       \/ program = "trampoline" /\ TrampolineNext /\ UNCHANGED <<eitherVars, vectorVars>>
       \/ program = "vector" /\ VectorNext /\ UNCHANGED <<eitherVars, trampolineVars>>

ownershipVars == <<eitherVars, trampolineVars, vectorVars, program>>

OwnershipSpec == OwnershipInit /\ program \in Owners /\ [][OwnershipNext]_ownershipVars

\* The types of the three programs (either.h:88-100, trampoline.h:171-172,
\* optimized_vector.h:37-39); of the vectors also that no memory is kept for nobody
OwnershipTypeOK == EitherTypeOK /\ TrampolineTypeOK /\ VectorTypeOK
=============================================================================
