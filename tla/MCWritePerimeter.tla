-------------------------- MODULE MCWritePerimeter --------------------------
\* Small instances of WritePerimeter; the .cfg files choose the flows.
EXTENDS WritePerimeter, TLC

\* The kube contexts are interchangeable.
ClusterSymmetry == Permutations(Clusters)
=============================================================================
