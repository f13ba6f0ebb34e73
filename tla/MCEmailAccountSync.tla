------------------------- MODULE MCEmailAccountSync -------------------------
EXTENDS EmailAccountSync, TLC

WorkerSymmetry == Permutations(Workers)

S(faults, requests, changes) ==
    [faults |-> faults, requests |-> requests, changes |-> changes]

\* Tasks die and calls fail while the account is saved, removed and purged; and
\* two syncs beside each other, or one that dies, in a mailbox that changes twice
\* and whose history expires in between.
FaultyScenarios ==
    {S({"crash", "call"}, {"patch", "destroy", "cleanup"}, 1),
     S({"expiry"}, {}, 2), S({"crash"}, {}, 2)}

\* A mailbox whose history expires, with and without users who save and
\* reconnect the account; and such users while access is revoked and calls fail.
SettlingScenarios ==
    {S({"expiry"}, {}, 2), S({"expiry"}, {"patch", "reconnect"}, 2),
     S({"token", "call"}, {"patch", "reconnect"}, 1)}

\* Nothing fails but the history ids, which expire.
QuietScenarios == {S({"expiry"}, {}, 2)}

BrokenScenarios == {S({"broken_history"}, {}, 1)}
=============================================================================
