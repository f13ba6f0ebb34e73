----------------------------- MODULE MCCallRecord -----------------------------
EXTENDS CallRecord, TLC
CallSymmetry == Permutations(Calls) \cup Permutations(Requests) \cup Permutations(Parties)
=============================================================================
