----------------------------- MODULE MCLocalLog -----------------------------
(* Small instances of LocalLog.  Tabs are interchangeable, and so are updates *)
(* of one origin.                                                             *)
EXTENDS LocalLog, TLC

TabAndUpdateSymmetry ==
    Permutations(Tab) \cup Permutations(Local) \cup Permutations(Foreign)
=============================================================================
