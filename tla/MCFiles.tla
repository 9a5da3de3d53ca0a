------------------------------- MODULE MCFiles --------------------------------
(* Two threads, two FileObjects, one FileKey.                                *)
EXTENDS Files
CONSTANTS t1, t2, f1, f2
Symmetry == Permutations({t1, t2}) \cup Permutations({f1, f2})
=============================================================================
