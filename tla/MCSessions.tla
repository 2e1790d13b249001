----------------------------- MODULE MCSessions -----------------------------
(* Small instances of Sessions for TLC. *)
EXTENDS Sessions, TLC

CONSTANTS s1, s2, s3, d1, d2, alice

MCOwner == [s \in Sessions |-> alice]

(* The sessions have one owner and the DELETE requests are alike. *)
SymSessions == Permutations(Sessions)
SymDeletes == Permutations(Deletes)
=============================================================================
