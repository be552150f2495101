--------------------------- MODULE MCNodeLifecycle ---------------------------
\* Instances of the node lifecycle.
EXTENDS NodeLifecycle, TLC

\* Threads, instances and addresses are interchangeable; the nodes are not, an
\* idle thread's record names one of them.
NodeSymmetry == Permutations(Threads) \cup Permutations(Instances) \cup
                Permutations(Publics) \cup Permutations(Privates)
=============================================================================
