------------------------- MODULE MCChallengeReview -------------------------
(* Small instances of ChallengeReview for TLC.                                *)
EXTENDS ChallengeReview, TLC

CONSTANTS u1, u2, u3, v1, v2, c1, c2

\* Two uploads of the same bytes under one name, the second of which may be a
\* retry of the first, and one of another asset.
RetriedKey == [u \in Uploads |-> IF u = u3 THEN "key2" ELSE "key1"]
OwnName == [k \in AssetKeys |-> IF k = "key1" THEN "name1" ELSE "name2"]

HandlerSymmetry == Permutations({u1, u2}) \cup Permutations(Validations) \cup Permutations(Claims)

\* The handlers that have begun.
UploadsBegun == {u \in Uploads : upload[u] # "none"}
ValidationsBegun == {v \in Validations : validation[v].pc # "none"}
ClaimsBegun == {c \in Claims : publisher[c].pc # "none"}

\* What meets in one behaviour: two uploads and the clean-up; all handlers of one
\* upload and the clean-up, with two publications; and all handlers of one key, with
\* the clean-up once the record is approved.
AtMost(uploads, validations, claims) ==
    /\ Cardinality(UploadsBegun) <= uploads
    /\ Cardinality(ValidationsBegun) <= validations
    /\ Cardinality(ClaimsBegun) <= claims

InScope ==
    \/ AtMost(2, 0, 0)
    \/ /\ u3 \notin UploadsBegun
       /\ \/ AtMost(1, 1, 2)
          \/ /\ cleaner.pc = "idle" \/ record.status \in ApprovedStatuses
             /\ AtMost(2, 1, 1) \/ AtMost(1, 2, 1)

MCSpec == Init /\ [][Next /\ InScope']_vars

=============================================================================
