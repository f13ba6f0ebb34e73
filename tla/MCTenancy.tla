------------------------------ MODULE MCTenancy ------------------------------
(* A tenant with one other address and two web processes. *)
EXTENDS Tenancy

\* Kinds of requests that meet: the set-up of the tenant, the life of its users,
\* and its billing.
Setup == {"register", "activate"}
People == {"activate", "invite", "accept", "patch", "elsewhere"}
Paying == {"subscription", "to_free", "checkout", "cancel", "trial", "changes", "nightly"}

MCScenarios == {Setup, People, Paying}

\* Four are enough to overlap two requests around a change and a fault.
MCMaxRequests == [s \in MCScenarios |-> 
    IF s = Setup THEN 6 ELSE IF s = People THEN 5 ELSE 4]
=============================================================================
