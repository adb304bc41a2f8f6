-------------------------- MODULE MCAtomicImageFile --------------------------
(* Instances of AtomicImageFile: one process whose system calls may fail,   *)
(* and two at once whose calls all succeed.                                 *)
EXTENDS AtomicImageFile
================================================================================
