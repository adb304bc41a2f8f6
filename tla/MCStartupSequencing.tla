------------------------ MODULE MCStartupSequencing ------------------------
(* StartupSequencing with every combination of failing components.          *)
EXTENDS StartupSequencing

AnyFailure == SUBSET Component
================================================================================
