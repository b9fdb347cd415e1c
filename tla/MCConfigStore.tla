---------------------------- MODULE MCConfigStore ----------------------------
(***************************************************************************)
(* Small instances of ConfigStore: two programs, two values of each        *)
(* setting, and as many files as two writers can hold at the same time.    *)
(***************************************************************************)
EXTENDS ConfigStore, TLC

Symmetry == Permutations(Proc) \cup Permutations(Inode)

=============================================================================
