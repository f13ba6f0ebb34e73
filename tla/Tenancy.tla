------------------------------- MODULE Tenancy -------------------------------
(***************************************************************************)
(* One tenant from its registration on: its users, the invitations, and    *)
(* the subscription at Chargebee that pays for it.  A request is a process *)
(* that loads rows, calls Chargebee or sends mail, and saves; nothing but  *)
(* the set-up of a tenant (create_tenant) is a transaction, and save()     *)
(* writes all columns of the row as it was loaded.                         *)
(*                                                                         *)
(* Deployed with several tenants and with billing.  Users and invitations  *)
(* of other tenants appear as far as they occupy an email address.         *)
(* Abstracted: names, passwords, cards and invoices; what a link proves    *)
(* (its hash) is that it was mailed.  Every plan at Chargebee has its row. *)
(***************************************************************************)
EXTENDS Naturals, FiniteSets

CONSTANTS
    Emails,      \* email addresses
    Owner,       \* the address that registers the tenant
    Webs,        \* web processes
    Beat,        \* the worker that runs the nightly task
    Scenarios,   \* sets of kinds of requests that occur together
    Faults,      \* the faults that occur: "crash", "call"
    MaxRequests  \* bound, by scenario: requests, faults and changes at Chargebee

ASSUME TenancyAssumption ==
    /\ IsFiniteSet(Emails)
    /\ Owner \in Emails
    /\ Beat \notin Webs
    /\ MaxRequests \in [Scenarios -> Nat]

VARIABLES
    asked,       \* the kinds of requests in this behaviour, never changes
    tenant,      \* Tenant: not there, without or with its default data
    users,       \* LilyUser: email -> row
    invites,     \* UserInvite: email -> row
    billing,     \* Billing row of the tenant
    chargebee,   \* Chargebee: the tenant's subscription, if it has one
    created,     \* Chargebee: subscriptions made for the tenant
    trials,      \* Chargebee: trials the tenant was granted
    page,        \* Chargebee: the quantity on an open checkout page, or 0
    job,         \* what each process is doing
    begun,       \* counts requests, faults and changes at Chargebee
    undisturbed, \* no request ever overlapped another or died half way
    broken       \* an activation died half way, or its call failed

people == <<tenant, users, invites>>
paid == <<chargebee, created, trials, page>>
vars == <<asked, people, billing, paid, job, begun, undisturbed, broken>>
-----------------------------------------------------------------------------
Processes == Webs \cup {Beat}

\* elsewhere: a user of another tenant.  link: an activation mail was sent and
\* the user has not logged in since, which its token does not survive.
User == [status : {"none", "inactive", "active", "elsewhere"},
         link : BOOLEAN, admin : BOOLEAN]
NoUser == [status |-> "none", link |-> FALSE, admin |-> FALSE]

\* by: the process that made the row, or another tenant.
Invite == [by : Webs \cup {"none", "elsewhere"}, link : {"unsent", "valid", "expired"}]
NoInvite == [by |-> "none", link |-> "unsent"]

Plans == {"free", "trial", "pro"}
Billing == [subscribed : BOOLEAN, plan : Plans, trial_started : BOOLEAN,
            free_forever : BOOLEAN]

\* over: the end of a trial has passed.
Subscription == [status : {"none", "active", "in_trial", "non_renewing", "cancelled"},
                 plan : Plans, over : BOOLEAN, quantity : Nat]
NoSubscription == [status |-> "none", plan |-> "free", over |-> FALSE, quantity |-> 0]
\* Mutant of Subscribed: a subscription that is not for any number of users.
SubscribedUncounted(plan) == [status |-> "active", plan |-> plan, over |-> FALSE]

\* Chargebee's default quantity is 1; the call names none.
Subscribed(plan) == [status |-> "active", plan |-> plan, over |-> FALSE, quantity |-> 1]

Kinds == {"none", "register", "activate", "invite", "accept", "patch",
          "subscription", "to_free", "checkout", "cancel", "trial", "nightly"}
Steps == {"idle", "deactivate", "mail", "fill", "activate", "subscribe", "store",
          "replace", "send", "create", "used", "save", "retrieve", "update"}

\* email, todo: whom the request is about; status: of the loaded user;
\* row, sub: the loaded Billing row and the subscription Chargebee answered with.
Job == [kind : Kinds, step : Steps,
        email : Emails, todo : SUBSET Emails,
        status : {"none", "inactive", "active"}, row : Billing, sub : Subscription]
NewBilling == [subscribed |-> FALSE, plan |-> "free", trial_started |-> FALSE,
               free_forever |-> FALSE]
Idle == [kind |-> "none", step |-> "idle", email |-> Owner, todo |-> {},
         status |-> "none", row |-> NewBilling, sub |-> NoSubscription]

Active == {e \in Emails : users[e].status = "active"}
AdminAtWork == \E e \in Active : users[e].admin

Become(p, j) == job' = [job EXCEPT ![p] = j]
Goto(p, step) == Become(p, [job[p] EXCEPT !.step = step])
Finish(p) == Become(p, Idle)
At(p, kind, step) == job[p].kind = kind /\ job[p].step = step
Quiet == \A p \in Processes : job[p].step = "idle"

\* A request of an expected kind begins.
Begin(p, j) ==
    /\ j.kind \in asked
    /\ job[p].step = "idle"
    /\ begun < MaxRequests[asked]
    /\ begun' = begun + 1
    /\ undisturbed' = (undisturbed /\ Quiet)
    /\ Become(p, j)
    /\ UNCHANGED <<asked, broken>>

\* A step of a request that is under way.
Continue == UNCHANGED <<asked, begun, undisturbed, broken>>

\* Something that happens at once.
Atomic(kind) == kind \in asked /\ UNCHANGED <<asked, job, begun, undisturbed, broken>>

\* A fault ends what p does.
Disturb(p, fault) ==
    /\ fault \in Faults
    /\ begun < MaxRequests[asked]
    /\ begun' = begun + 1
    /\ undisturbed' = FALSE
    /\ Finish(p)
    /\ UNCHANGED asked

\* Chargebee did what it was asked, but the request does not hear of it.
AnswerLost(p) == Disturb(p, "call")
-----------------------------------------------------------------------------
\* A new installation, or a tenant that has been activated in good order.
Init ==
    /\ asked \in Scenarios
    /\ \/ /\ "register" \in asked
          /\ tenant = "none"
          /\ users = [e \in Emails |-> NoUser]
          /\ billing = NewBilling
          /\ chargebee = NoSubscription /\ created = 0
       \/ /\ "register" \notin asked
          /\ tenant = "filled"
          /\ users = [e \in Emails |-> IF e = Owner
                          THEN [status |-> "active", link |-> FALSE, admin |-> TRUE]
                          ELSE NoUser]
          /\ billing = [NewBilling EXCEPT !.subscribed = TRUE]
          /\ chargebee = Subscribed("free") /\ created = 1
    /\ invites = [e \in Emails |-> NoInvite]
    /\ trials = 0
    /\ page = 0
    /\ job = [p \in Processes |-> Idle]
    /\ begun = 0
    /\ undisturbed = TRUE
    /\ broken = FALSE

-----------------------------------------------------------------------------
(* Registration.                                                           *)

\* create_user makes an active user; that the address is unique is the last of
\* the obstacles.
Register(p) ==
    /\ tenant = "none" /\ users[Owner].status = "none"
    /\ Begin(p, [Idle EXCEPT !.kind = "register", !.step = "deactivate"])
    /\ tenant' = "bare"
    /\ users' = [users EXCEPT ![Owner].status = "active"]
    /\ UNCHANGED <<invites, billing, paid>>

AwaitActivation(p) ==
    /\ At(p, "register", "deactivate")
    /\ users' = [users EXCEPT ![Owner].status = "inactive", ![Owner].admin = TRUE]
    /\ Goto(p, "mail")
    /\ Continue
    /\ UNCHANGED <<tenant, invites, billing, paid>>

MailActivation(p) ==
    /\ At(p, "register", "mail")
    /\ users' = [users EXCEPT ![Owner].link = TRUE]
    /\ Finish(p)
    /\ Continue
    /\ UNCHANGED <<tenant, invites, billing, paid>>

\* ActivationResendView refuses active users, ConfirmationView asks nothing.
ResendActivation(e) ==
    /\ Atomic("activate")
    /\ users[e].status = "inactive" \/ (users[e].status = "active" /\ users[e].admin)
    /\ users' = [users EXCEPT ![e].link = TRUE]
    /\ UNCHANGED <<tenant, invites, billing, paid>>

Login(e) ==
    /\ Atomic("activate")
    /\ users[e].status = "active" /\ users[e].link
    /\ users' = [users EXCEPT ![e].link = FALSE]
    /\ UNCHANGED <<tenant, invites, billing, paid>>

-----------------------------------------------------------------------------
(* ActivationView.                                                         *)

OpenActivation(p, e) ==
    /\ users[e].link
    /\ Begin(p, [Idle EXCEPT !.kind = "activate", !.step = "fill", !.email = e])
    /\ UNCHANGED <<people, billing, paid>>

\* Mutant of FillTenant: the default data may be there twice.
FillTenantAgain(p) ==
    /\ At(p, "activate", "fill")
    /\ tenant' = "filled" /\ Goto(p, "activate")
    /\ Continue
    /\ UNCHANGED <<users, invites, billing, paid>>

\* create_tenant is one transaction, and the names of teams are unique within
\* a tenant: a second run fails and leaves nothing.
FillTenant(p) ==
    /\ At(p, "activate", "fill")
    /\ IF tenant = "filled"
       THEN Finish(p) /\ UNCHANGED tenant
       ELSE tenant' = "filled" /\ Goto(p, "activate")
    /\ Continue
    /\ UNCHANGED <<users, invites, billing, paid>>

ActivateUser(p) ==
    /\ At(p, "activate", "activate")
    /\ users' = [users EXCEPT ![job[p].email].status = "active"]
    /\ Become(p, [job[p] EXCEPT !.step = "subscribe", !.row = billing])
    /\ Continue
    /\ UNCHANGED <<tenant, invites, billing, paid>>

\* The answer may be lost, and the request with it.
CreateSubscription(p) ==
    /\ At(p, "activate", "subscribe")
    /\ chargebee' = Subscribed(job[p].row.plan)
    /\ created' = created + 1
    /\ \/ Goto(p, "store") /\ Continue
       \/ AnswerLost(p) /\ broken' = TRUE
    /\ UNCHANGED <<people, billing, trials, page>>

\* Mutant of StoreSubscription: only the customer is saved.
StoreCustomer(p) ==
    /\ At(p, "activate", "store")
    /\ billing' = job[p].row
    /\ users' = [users EXCEPT ![job[p].email].link = FALSE]
    /\ Finish(p)
    /\ Continue
    /\ UNCHANGED <<tenant, invites, paid>>

\* billing.save(), then the login, which ends the life of the link.
StoreSubscription(p) ==
    /\ At(p, "activate", "store")
    /\ billing' = [job[p].row EXCEPT !.subscribed = TRUE]
    /\ users' = [users EXCEPT ![job[p].email].link = FALSE]
    /\ Finish(p)
    /\ Continue
    /\ UNCHANGED <<tenant, invites, paid>>

-----------------------------------------------------------------------------
(* UserInviteViewSet and AcceptInvitationView.                             *)

\* The checks on all addresses come first; they see no invitations of other
\* tenants, but active users of all of them.
StartInvite(p, S) ==
    /\ Active # {} /\ S # {}
    /\ \A e \in S : /\ invites[e].by \in {"none", "elsewhere"}
                    /\ users[e].status \in {"none", "inactive"}
    /\ Begin(p, [Idle EXCEPT !.kind = "invite", !.step = "replace", !.todo = S])
    /\ UNCHANGED <<people, billing, paid>>

\* An invitation made meanwhile is replaced when it is of this tenant and has the
\* same name; otherwise it is in the way of the unique address.
ReplaceInvite(p, e) ==
    /\ At(p, "invite", "replace") /\ e \in job[p].todo
    /\ \/ /\ invites[e].by # "none"
          /\ Finish(p) /\ UNCHANGED invites
       \/ /\ invites[e].by # "elsewhere"
          /\ invites' = [invites EXCEPT ![e] = [by |-> p, link |-> "unsent"]]
          /\ Become(p, [job[p] EXCEPT !.step = "send", !.email = e, !.todo = @ \ {e}])
    /\ Continue
    /\ UNCHANGED <<tenant, users, billing, paid>>

SendInvite(p) ==
    /\ At(p, "invite", "send")
    /\ invites' = [e \in Emails |-> IF e = job[p].email /\ invites[e].by = p
                                    THEN [invites[e] EXCEPT !.link = "valid"]
                                    ELSE invites[e]]
    /\ IF job[p].todo = {} THEN Finish(p) ELSE Goto(p, "replace")
    /\ Continue
    /\ UNCHANGED <<tenant, users, billing, paid>>

WithdrawInvite(e) ==
    /\ Atomic("invite")
    /\ invites[e].by \in Webs
    /\ invites' = [invites EXCEPT ![e] = NoInvite]
    /\ UNCHANGED <<tenant, users, billing, paid>>

InviteExpires(e) ==
    /\ Atomic("invite")
    /\ invites[e].link = "valid"
    /\ invites' = [invites EXCEPT ![e].link = "expired"]
    /\ UNCHANGED <<tenant, users, billing, paid>>

\* link_is_valid
OpenInvite(p, e) ==
    /\ users[e].status \notin {"active", "elsewhere"}
    /\ invites[e].link = "valid"
    /\ Begin(p, [Idle EXCEPT !.kind = "accept", !.step = "create", !.email = e])
    /\ UNCHANGED <<people, billing, paid>>

\* create_user: the address is unique among all users, inactive ones too.
AcceptInvite(p) ==
    /\ At(p, "accept", "create")
    /\ IF users[job[p].email].status = "none"
       THEN /\ users' = [users EXCEPT ![job[p].email].status = "active"]
            /\ Goto(p, "used")
       ELSE Finish(p) /\ UNCHANGED users
    /\ Continue
    /\ UNCHANGED <<tenant, invites, billing, paid>>

\* The invitations go, of whatever tenant; then update_subscription fails on an
\* attribute no Billing has, or there is no subscription.
UseInvite(p) ==
    /\ At(p, "accept", "used")
    /\ invites' = [invites EXCEPT ![job[p].email] = NoInvite]
    /\ Finish(p)
    /\ Continue
    /\ UNCHANGED <<tenant, users, billing, paid>>

\* Another tenant invites somebody, who becomes its user or does not.
InviteElsewhere(e) ==
    /\ Atomic("elsewhere")
    /\ invites[e] = NoInvite /\ users[e].status \in {"none", "inactive"}
    /\ invites' = [invites EXCEPT ![e].by = "elsewhere"]
    /\ UNCHANGED <<tenant, users, billing, paid>>

SettleElsewhere(e) ==
    /\ Atomic("elsewhere")
    /\ invites[e].by = "elsewhere"
    /\ invites' = [invites EXCEPT ![e] = NoInvite]
    /\ users' \in {users} \cup (IF users[e].status = "none"
                               THEN {[users EXCEPT ![e].status = "elsewhere"]} ELSE {})
    /\ UNCHANGED <<tenant, billing, paid>>

-----------------------------------------------------------------------------
(* LilyUserViewSet.                                                        *)

\* destroy: by any other user of the tenant.
DeactivateUser(e) ==
    /\ Atomic("patch")
    /\ e \in Active /\ Active # {e}
    /\ users' = [users EXCEPT ![e].status = "inactive"]
    /\ UNCHANGED <<tenant, invites, billing, paid>>

\* PATCH: of details by anybody, or of is_active (want) by an admin.
LoadUser(p, e, want) ==
    /\ users[e].status \in {"active", "inactive"}
    /\ IF want = "same" THEN Active # {} ELSE AdminAtWork
    /\ \* update_subscription fails before a user is activated
       want = "active" /\ users[e].status = "inactive" => ~billing.subscribed
    /\ Begin(p, [Idle EXCEPT !.kind = "patch", !.step = "save", !.email = e,
                   !.status = IF want = "same" THEN users[e].status ELSE want])
    /\ UNCHANGED <<people, billing, paid>>

SaveUser(p) ==
    /\ At(p, "patch", "save")
    /\ users' = [users EXCEPT ![job[p].email].status = job[p].status]
    /\ Finish(p)
    /\ Continue
    /\ UNCHANGED <<tenant, invites, billing, paid>>

-----------------------------------------------------------------------------
(* BillingViewSet.                                                         *)

BillingKinds == {"subscription", "to_free", "checkout", "cancel", "trial"}

\* Only admins, and nothing happens without a subscription.
LoadBilling(p, kind) ==
    /\ AdminAtWork
    /\ billing.subscribed
    /\ Begin(p, [Idle EXCEPT !.kind = kind, !.step = "retrieve", !.row = billing])
    /\ UNCHANGED <<people, billing, paid>>

\* What comes after the subscription was retrieved: save at once, or call again.
Retrieve(p) ==
    /\ job[p].step = "retrieve" /\ job[p].kind \in BillingKinds
    /\ IF job[p].kind = "trial" /\ job[p].row.trial_started
       THEN Finish(p)
       ELSE Become(p, [job[p] EXCEPT !.sub = chargebee,
                         !.step = IF job[p].kind = "subscription" THEN "save" ELSE "update"])
    /\ Continue
    /\ UNCHANGED <<people, billing, paid>>

\* Asked to change a cancelled subscription, Chargebee may or may not revive it.
Changed(plan, status) ==
    \E s \in {status} \cup (IF chargebee.status = "cancelled" THEN {"cancelled"} ELSE {}) :
        chargebee' = [chargebee EXCEPT !.plan = plan, !.status = s,
                        !.over = IF s = "in_trial" THEN FALSE ELSE @]

\* trial_end = 0 ends a trial at once.
ToFree(p) ==
    /\ job[p].kind = "to_free"
    /\ Changed("free", IF chargebee.status = "non_renewing"
                          \/ (chargebee.status = "in_trial" /\ ~job[p].row.trial_started)
                       THEN chargebee.status ELSE "active")
    /\ UNCHANGED <<created, trials, page>>

OpenCheckout(p) ==
    /\ job[p].kind = "checkout"
    /\ page' = Cardinality(Active)
    /\ UNCHANGED <<chargebee, created, trials>>

CancelSubscription(p) ==
    /\ job[p].kind = "cancel"
    /\ \E s \in {"non_renewing"} \cup ({chargebee.status} \cap {"in_trial", "cancelled"}) :
         chargebee' = [chargebee EXCEPT !.status = s]
    /\ UNCHANGED <<created, trials, page>>

StartTrial(p) ==
    /\ job[p].kind = "trial"
    /\ Changed("trial", "in_trial")
    /\ trials' = IF chargebee'.status = "in_trial" THEN trials + 1 ELSE trials
    /\ UNCHANGED <<created, page>>

\* What the views look for in the answer.
Took(kind, sub) ==
    \/ kind = "to_free" /\ sub.plan = "free"
    \/ kind = "cancel" /\ sub.status \in {"cancelled", "non_renewing"}
    \/ kind = "trial" /\ sub.status = "in_trial"

\* The call, and what is to be saved if it had the effect that was asked for.
CallChargebee(p) ==
    /\ job[p].step = "update" /\ job[p].kind \in BillingKinds
    /\ ToFree(p) \/ OpenCheckout(p) \/ CancelSubscription(p) \/ StartTrial(p)
    /\ \/ /\ IF Took(job[p].kind, chargebee')
             THEN Become(p, [job[p] EXCEPT !.step = "save", !.sub = chargebee'])
             ELSE Finish(p)
          /\ Continue
       \/ AnswerLost(p) /\ UNCHANGED broken
    /\ UNCHANGED <<people, billing>>

\* Mutant of SaveBilling: that the trial has started is not noted.
SavePlanOnly(p) ==
    /\ job[p].step = "save" /\ job[p].kind \in BillingKinds
    /\ billing' = [job[p].row EXCEPT !.plan = IF job[p].kind = "cancel" THEN @
                                                                      ELSE job[p].sub.plan]
    /\ Finish(p)
    /\ Continue
    /\ UNCHANGED <<people, paid>>

\* billing.save() of all columns; cancelling leaves the plan alone.
SaveBilling(p) ==
    /\ job[p].step = "save" /\ job[p].kind \in BillingKinds
    /\ billing' = [job[p].row EXCEPT
                     !.plan = IF job[p].kind = "cancel" THEN @ ELSE job[p].sub.plan,
                     !.trial_started = @ \/ job[p].kind = "trial"]
    /\ Finish(p)
    /\ Continue
    /\ UNCHANGED <<people, paid>>

-----------------------------------------------------------------------------
(* check_subscriptions, every night.                                       *)

\* One task goes through all tenants.  An error about one ends it, so that tenants
\* after that one wait for another night; here it comes as far as this tenant.
LoadNightly ==
    /\ "nightly" \in asked
    /\ job[Beat].step = "idle"
    /\ billing.subscribed
    /\ Become(Beat, [Idle EXCEPT !.kind = "nightly", !.step = "retrieve", !.row = billing])
    /\ undisturbed' = (undisturbed /\ Quiet)
    /\ UNCHANGED <<asked, people, billing, paid, begun, broken>>

Expired(sub) == (sub.plan = "trial" /\ sub.over) \/ sub.status = "cancelled"

RetrieveNightly ==
    /\ At(Beat, "nightly", "retrieve")
    /\ IF job[Beat].row.free_forever
          \/ (~Expired(chargebee) /\ chargebee.plan = job[Beat].row.plan)
       THEN Finish(Beat)
       ELSE Become(Beat, [job[Beat] EXCEPT !.sub = chargebee,
                            !.step = IF Expired(chargebee) THEN "update" ELSE "save"])
    /\ Continue
    /\ UNCHANGED <<people, billing, paid>>

ConvertToFree ==
    /\ At(Beat, "nightly", "update")
    /\ \E s \in {chargebee.status, "active"} :
         /\ s # chargebee.status => chargebee.status = "cancelled"
         /\ chargebee' = [chargebee EXCEPT !.plan = "free", !.status = s]
    /\ \/ Become(Beat, [job[Beat] EXCEPT !.step = "save", !.sub = chargebee']) /\ Continue
       \/ AnswerLost(Beat) /\ UNCHANGED broken
    /\ UNCHANGED <<people, billing, created, trials, page>>

\* Mutant of SaveNightly: only the conversion is saved.
SaveConversionOnly ==
    /\ At(Beat, "nightly", "save")
    /\ billing' = IF Expired(job[Beat].sub) THEN [job[Beat].row EXCEPT !.plan = "free"] ELSE billing
    /\ Finish(Beat)
    /\ Continue
    /\ UNCHANGED <<people, paid>>

SaveNightly ==
    /\ At(Beat, "nightly", "save")
    /\ billing' = [job[Beat].row EXCEPT !.plan = job[Beat].sub.plan]
    /\ Finish(Beat)
    /\ Continue
    /\ UNCHANGED <<people, paid>>

-----------------------------------------------------------------------------
(* Faults.                                                                 *)

\* The steps that wait for Chargebee or for the mail server.
Calling(p) == job[p].step \in {"mail", "subscribe", "send", "retrieve", "update"}

\* An activation that ends after create_tenant leaves a tenant without subscription.
Breaks(p) == job[p].kind = "activate" /\ job[p].step # "fill"

\* The call fails and nothing was done.
CallFails(p) ==
    /\ Calling(p)
    /\ Disturb(p, "call")
    /\ broken' = (broken \/ Breaks(p))
    /\ UNCHANGED <<people, billing, paid>>

Crash(p) ==
    /\ job[p].step # "idle"
    /\ Disturb(p, "crash")
    /\ broken' = (broken \/ Breaks(p))
    /\ UNCHANGED <<people, billing, paid>>

-----------------------------------------------------------------------------
(* What happens at Chargebee, and in the admin site.                       *)

\* A change nobody asked Lily for; bounded with the requests.
Change ==
    /\ "changes" \in asked
    /\ begun < MaxRequests[asked]
    /\ begun' = begun + 1
    /\ UNCHANGED <<asked, people, job, undisturbed, broken>>

CompleteCheckout ==
    /\ page > 0
    /\ chargebee' = [status |-> "active", plan |-> "pro", over |-> FALSE, quantity |-> page]
    /\ page' = 0
    /\ UNCHANGED <<asked, people, billing, created, trials, job, begun, undisturbed, broken>>

\* With a card, the subscription goes on.
TrialRunsOut ==
    /\ Change
    /\ chargebee.status = "in_trial"
    /\ \E s \in {"active", "cancelled"} :
         chargebee' = [chargebee EXCEPT !.status = s, !.over = TRUE]
    /\ UNCHANGED <<billing, created, trials, page>>

\* A term ends, a card is declined.
SubscriptionEnds ==
    /\ Change
    /\ chargebee.status \in {"active", "non_renewing"}
    /\ chargebee' = [chargebee EXCEPT !.status = "cancelled"]
    /\ UNCHANGED <<billing, created, trials, page>>

PlanIsChanged ==
    /\ Change
    /\ chargebee.status = "active"
    /\ \E plan \in {"free", "pro"} \ {chargebee.plan} :
         chargebee' = [chargebee EXCEPT !.plan = plan]
    /\ UNCHANGED <<billing, created, trials, page>>

GiveForFree ==
    /\ Change
    /\ billing' = [billing EXCEPT !.free_forever = TRUE]
    /\ UNCHANGED paid

-----------------------------------------------------------------------------
Registration(p) == Register(p) \/ AwaitActivation(p) \/ MailActivation(p)

Activation(p) ==
    \/ \E e \in Emails : OpenActivation(p, e)
    \/ FillTenant(p) \/ ActivateUser(p) \/ CreateSubscription(p) \/ StoreSubscription(p)

Invitation(p) ==
    \/ \E S \in SUBSET Emails : StartInvite(p, S)
    \/ \E e \in Emails : ReplaceInvite(p, e) \/ OpenInvite(p, e)
    \/ SendInvite(p) \/ AcceptInvite(p) \/ UseInvite(p)

UserChange(p) ==
    \/ \E e \in Emails, want \in {"same", "active", "inactive"} : LoadUser(p, e, want)
    \/ SaveUser(p)

BillingRequest(p) ==
    \/ \E kind \in BillingKinds : LoadBilling(p, kind)
    \/ Retrieve(p) \/ CallChargebee(p) \/ SaveBilling(p)

Nightly == LoadNightly \/ RetrieveNightly \/ ConvertToFree \/ SaveNightly

Next ==
    \/ \E p \in Webs : \/ Registration(p) \/ Activation(p) \/ Invitation(p)
                       \/ UserChange(p) \/ BillingRequest(p)
    \/ Nightly
    \/ \E e \in Emails : \/ ResendActivation(e) \/ Login(e) \/ WithdrawInvite(e)
                         \/ InviteExpires(e) \/ InviteElsewhere(e) \/ SettleElsewhere(e)
                         \/ DeactivateUser(e)
    \/ \E p \in Processes : CallFails(p) \/ Crash(p)
    \/ CompleteCheckout \/ TrialRunsOut \/ SubscriptionEnds \/ PlanIsChanged \/ GiveForFree

\* Celery's beat starts the task every night, and its worker carries it out.
Fairness ==
    /\ WF_vars(LoadNightly) /\ WF_vars(RetrieveNightly)
    /\ WF_vars(ConvertToFree) /\ WF_vars(SaveNightly)

Spec == Init /\ [][Next]_vars
FairSpec == Spec /\ Fairness

-----------------------------------------------------------------------------
(* Properties.                                                             *)

\* Types: every row, request and answer has the shape the code gives it, and
\* requests and nightly runs stay with the processes that execute them.
TypeOK ==
    /\ tenant \in {"none", "bare", "filled"}
    /\ users \in [Emails -> User]
    /\ invites \in [Emails -> Invite]
    /\ billing \in Billing
    /\ chargebee \in Subscription
    /\ created \in Nat /\ trials \in Nat /\ page \in Nat
    /\ job \in [Processes -> Job]
    /\ asked \in Scenarios /\ begun \in 0..MaxRequests[asked]
    /\ undisturbed \in BOOLEAN /\ broken \in BOOLEAN

\* A tenant is subscribed at Chargebee at most once, however often and by however
\* many requests its activation links are followed, repeated or cut off: only the
\* unique names of the teams stand in the way (ActivationView.get).
OneSubscription == created <= 1

\* Once a tenant has its default data and no request is under way, it has the
\* subscription that was made for it on record, unless its activation was cut off.
ActivatedMeansSubscribed ==
    ~broken /\ Quiet /\ tenant = "filled" => billing.subscribed /\ created = 1

\* A user who was deactivated is not let in again by an old or new activation link
\* or by an invitation, only by a PATCH of the user: an activation turns a user
\* active only while the tenant has never had a subscription.
LinksDoNotReadmit ==
    [][\A e \in Emails :
         users[e].status = "inactive" /\ users'[e].status = "active" =>
             \E p \in Webs : /\ job[p].email = e
                            /\ \/ job[p].kind = "patch"
                               \/ job[p].kind = "activate" /\ created = 0]_vars

\* A tenant is granted its free trial once, as long as requests do not overlap and
\* are not cut off (start_trial, and every other save of the Billing row).
TrialOnce == undisturbed => trials <= 1

Settled ==
    billing.subscribed /\ ~billing.free_forever =>
        billing.plan = chargebee.plan /\ ~(Expired(chargebee) /\ chargebee.plan # "free")

\* Whatever changes at Chargebee, whatever requests store of it and whichever calls
\* fail, the nightly task brings the stored plan in line with the subscription and
\* takes an expired or cancelled one to the free plan, for good once nothing changes.
PlanSettles == "nightly" \in asked => <>[]Settled
=============================================================================
