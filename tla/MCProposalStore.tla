-------------------------- MODULE MCProposalStore --------------------------
EXTENDS ProposalStore, TLC

Symmetry == Permutations(Sessions)
=============================================================================
