----------------------------- MODULE MCWorkspace -----------------------------
(* Instances of the controlled workspace for TLC.                            *)
EXTENDS WorkspaceInvariant, TLC

CONSTANTS w1

\* Every transaction is in the one workspace.
OneHome == [t \in Txn |-> w1]

Interchangeable == Permutations(Proc)
=============================================================================
