----------------------------- MODULE MCSessions -----------------------------
(* Small instances of Sessions for TLC.                                    *)
EXTENDS Sessions, TLC

CONSTANTS s1, s2, s3, w1, w2, admin, user

Symmetric == Permutations(Sids) \cup Permutations(Workers)
=============================================================================
