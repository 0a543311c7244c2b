------------------------------- MODULE MCJobs -------------------------------
EXTENDS Jobs, TLC
CONSTANTS w1, w2
WorkerSymmetry == Permutations(Workers)
=============================================================================
