SPECIFICATION FairSpec
CONSTANTS
    Emails = {e1, e2}
    Owner = e1
    Webs = {w1, w2}
    Beat = beat
    Scenarios <- MCScenarios
    Faults = {"crash", "call"}
    MaxRequests <- MCMaxRequests
INVARIANTS TypeOK OneSubscription ActivatedMeansSubscribed TrialOnce
PROPERTIES LinksDoNotReadmit PlanSettles
CHECK_DEADLOCK FALSE
