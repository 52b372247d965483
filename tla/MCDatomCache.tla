---------------------------- MODULE MCDatomCache ----------------------------
(* Instances of DatomCache for TLC.  Writer w3 is another process's. *)
EXTENDS DatomCache, TLC

CONSTANTS s1, s2,      \* services
          w1, w2, w3,  \* writers, w3 of s2 and the others of s1
          r1, r2       \* readers, both of s1

MCOf == [f \in Writer \cup Reader |-> IF f = w3 THEN s2 ELSE s1]

FiberSymmetry == Permutations(TripleId) \cup Permutations(Reader)
                   \cup Permutations(Writer \ {w3})
=============================================================================
