----------------------------- MODULE MCRecovery -----------------------------
(***************************************************************************)
(* Small instances of Recovery: one worker, its old credential c0, and c1  *)
(* and c2, which the recovery operations install.                          *)
(***************************************************************************)
EXTENDS Recovery, TLC

CONSTANTS w1, i1, e1, e2, web, c0, c1, c2, op1

MCApplications == [o \in Owners |-> {web}]
MCSocket == [e \in Endpoints |-> e]
MCInitialCredential == [o \in Owners |-> c0]
MCFreshCredential == [op \in Operations |-> IF op = op1 THEN c1 ELSE c2]
MCWorkloads ==
    [i \in Ids |-> [app |-> web, endpoint |-> IF i = i1 THEN e1 ELSE e2]]

\* Operation names are interchangeable.
NameSymmetry == Permutations(Names)
=============================================================================
