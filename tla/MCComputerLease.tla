--------------------------- MODULE MCComputerLease ---------------------------
EXTENDS ComputerLease, TLC

\* Runs differ in nothing but their name.
RunSymmetry == Permutations(Runs)

\* For three runs, who has seen what is left out; two runs have it all.
NoScreenshots == shot = {}

=============================================================================
