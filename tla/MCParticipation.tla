-------------------------- MODULE MCParticipation --------------------------
(* One challenge with a policy of every kind, two agents, two concurrent submissions and one reader.      *)
EXTENDS Participation, TLC

CONSTANTS a1, a2, c1, r1, r2, s1, s2, v1

\* A restricted private benchmark: live ranking, details and solutions at the
\* close, one validation run per agent ever, official runs by the day.
Benchmark == [shortlisted |-> TRUE, closes |-> TRUE,
              limit |-> [m \in Modes |-> IF m = "validation" THEN 1 ELSE NoLimit],
              validation |-> TRUE, private |-> TRUE, distinctBundle |-> TRUE,
              leaderboard |-> "public_live", distribution |-> "public_after_close", primaryPublic |-> TRUE,
              detail |-> "public_after_close", publication |-> "public"]
OnePolicy == {[c \in Challenges |-> Benchmark]}
OneByOne == {{a} : a \in AgentIds}
Daily == [m \in Modes |-> 1]
Symmetry == Permutations({r1, r2}) \cup Permutations({a1, a2}) \cup Permutations({s1, s2})

=============================================================================
