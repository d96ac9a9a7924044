-------------------------- MODULE MCSessionResume --------------------------
EXTENDS SessionResume, TLC

Interchangeable == Permutations(Job) \cup Permutations(Caller) \cup Permutations(Container)

\* At most one container is down or doubted, or one child is unguarded, or one
\* resume is shared; what comes after two of these is left out.
OneMishap ==
    Cardinality(doubted \cup {c \in Container : proc[c] = "down"}
                \cup (unguarded \cap Child) \cup {j \in Job : job[j].callers > 1}) <= 1
=============================================================================
