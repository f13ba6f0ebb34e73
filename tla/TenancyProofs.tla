---------------------------- MODULE TenancyProofs ----------------------------
(***************************************************************************)
(* What holds of Tenancy for any addresses, web processes, scenarios,      *)
(* faults and number of requests.                                          *)
(***************************************************************************)
EXTENDS Tenancy, FiniteSetTheorems, TLAPS

-----------------------------------------------------------------------------
(* Types.                                                                  *)

LEMMA RecordTypes ==
    /\ NewBilling \in Billing
    /\ NoSubscription \in Subscription
    /\ \A plan \in Plans : Subscribed(plan) \in Subscription
    /\ NoInvite \in Invite /\ NoUser \in User
    /\ Idle \in Job /\ Idle.step = "idle" /\ Idle.kind = "none"
<1>1. NewBilling \in Billing /\ NoSubscription \in Subscription
  BY SMT DEF NewBilling, Billing, Plans, NoSubscription, Subscription
<1>2. Owner \in Emails
  BY TenancyAssumption
<1>3. Idle \in Job /\ Idle.step = "idle" /\ Idle.kind = "none"
  BY <1>1, <1>2, SMT DEF Idle, Job, Kinds, Steps
<1>4. \A plan \in Plans : Subscribed(plan) \in Subscription
  BY SMT DEF Subscribed, Subscription
<1>5. NoInvite \in Invite /\ NoUser \in User
  BY SMT DEF NoInvite, Invite, NoUser, User
<1>6. QED
  BY <1>1, <1>3, <1>4, <1>5

\* Setting one field of a job, and the combinations of fields that steps set.
LEMMA JobField ==
    ASSUME NEW j \in Job
    PROVE  /\ \A s \in Steps : [j EXCEPT !.step = s] \in Job
           /\ \A k \in Kinds : [j EXCEPT !.kind = k] \in Job
           /\ \A e \in Emails : [j EXCEPT !.email = e] \in Job
           /\ \A S \in SUBSET Emails : [j EXCEPT !.todo = S] \in Job
           /\ \A status \in {"none", "inactive", "active"} : [j EXCEPT !.status = status] \in Job
           /\ \A row \in Billing : [j EXCEPT !.row = row] \in Job
           /\ \A sub \in Subscription : [j EXCEPT !.sub = sub] \in Job
BY SMT DEF Job

LEMMA JobFields ==
    ASSUME NEW j \in Job, NEW k \in Kinds, NEW s \in Steps
    PROVE  /\ [j EXCEPT !.kind = k, !.step = s] \in Job
           /\ \A e \in Emails : [j EXCEPT !.kind = k, !.step = s, !.email = e] \in Job
           /\ \A row \in Billing : /\ [j EXCEPT !.kind = k, !.step = s, !.row = row] \in Job
                                   /\ [j EXCEPT !.step = s, !.row = row] \in Job
           /\ \A S \in SUBSET Emails : [j EXCEPT !.kind = k, !.step = s, !.todo = S] \in Job
           /\ \A e \in Emails, status \in {"none", "inactive", "active"} :
                [j EXCEPT !.kind = k, !.step = s, !.email = e, !.status = status] \in Job
           /\ \A sub \in Subscription : /\ [j EXCEPT !.step = s, !.sub = sub] \in Job
                                        /\ [j EXCEPT !.sub = sub, !.step = s] \in Job
           /\ \A e \in Emails, S \in SUBSET Emails :
                [j EXCEPT !.step = s, !.email = e, !.todo = S] \in Job
<1> DEFINE ks == [[j EXCEPT !.kind = k] EXCEPT !.step = s]
           st == [j EXCEPT !.step = s]
<1>1. ks \in Job /\ st \in Job
  BY JobField
<1>2. [j EXCEPT !.kind = k, !.step = s] \in Job
  BY <1>1
<1>3. ASSUME NEW e \in Emails
      PROVE  [j EXCEPT !.kind = k, !.step = s, !.email = e] \in Job
  <2>1. [ks EXCEPT !.email = e] \in Job
    BY <1>1, JobField
  <2>2. QED
    BY <2>1
<1>4. ASSUME NEW row \in Billing
      PROVE  /\ [j EXCEPT !.kind = k, !.step = s, !.row = row] \in Job
             /\ [j EXCEPT !.step = s, !.row = row] \in Job
  <2>1. [ks EXCEPT !.row = row] \in Job /\ [st EXCEPT !.row = row] \in Job
    BY <1>1, JobField
  <2>2. QED
    BY <2>1
<1>5. ASSUME NEW S \in SUBSET Emails
      PROVE  [j EXCEPT !.kind = k, !.step = s, !.todo = S] \in Job
  <2>1. [ks EXCEPT !.todo = S] \in Job
    BY <1>1, JobField
  <2>2. QED
    BY <2>1
<1>6. ASSUME NEW e \in Emails, NEW status \in {"none", "inactive", "active"}
      PROVE  [j EXCEPT !.kind = k, !.step = s, !.email = e, !.status = status] \in Job
  <2>1. [ks EXCEPT !.email = e] \in Job
    BY <1>1, JobField
  <2>2. [[ks EXCEPT !.email = e] EXCEPT !.status = status] \in Job
    BY <2>1, JobField
  <2>3. QED
    BY <2>2
<1>7. ASSUME NEW sub \in Subscription
      PROVE  /\ [j EXCEPT !.step = s, !.sub = sub] \in Job
             /\ [j EXCEPT !.sub = sub, !.step = s] \in Job
  <2>1. [st EXCEPT !.sub = sub] \in Job /\ [j EXCEPT !.sub = sub] \in Job
    BY <1>1, JobField
  <2>2. [[j EXCEPT !.sub = sub] EXCEPT !.step = s] \in Job
    BY <2>1, JobField
  <2>3. QED
    BY <2>1, <2>2
<1>8. ASSUME NEW e \in Emails, NEW S \in SUBSET Emails
      PROVE  [j EXCEPT !.step = s, !.email = e, !.todo = S] \in Job
  <2>1. [st EXCEPT !.email = e] \in Job
    BY <1>1, JobField
  <2>2. [[st EXCEPT !.email = e] EXCEPT !.todo = S] \in Job
    BY <2>1, JobField
  <2>3. QED
    BY <2>2
<1>9. QED
  BY <1>2, <1>3, <1>4, <1>5, <1>6, <1>7, <1>8

\* A job in its place, and the end of one.
LEMMA JobTypes ==
    ASSUME TypeOK, NEW p \in Processes
    PROVE  /\ job[p] \in Job
           /\ \A j \in Job : Become(p, j) => job' \in [Processes -> Job]
           /\ \A s \in Steps : Goto(p, s) => job' \in [Processes -> Job]
           /\ Finish(p) => job' \in [Processes -> Job]
<1>1. job \in [Processes -> Job] /\ job[p] \in Job
  BY DEF TypeOK
<1>2. \A j \in Job : Become(p, j) => job' \in [Processes -> Job]
  BY <1>1 DEF Become
<1>3. \A s \in Steps : Goto(p, s) => job' \in [Processes -> Job]
  BY <1>1, <1>2, JobField DEF Goto
<1>4. QED
  BY <1>1, <1>2, <1>3, RecordTypes DEF Finish

\* What Begin, Continue, Atomic and Disturb share.
Counted ==
    /\ asked \in Scenarios /\ begun \in 0..MaxRequests[asked]
    /\ undisturbed \in BOOLEAN /\ broken \in BOOLEAN

LEMMA CountedTypes ==
    ASSUME TypeOK, NEW p \in Processes
    PROVE  /\ Continue => Counted'
           /\ \A kind : Atomic(kind) => Counted' /\ job' \in [Processes -> Job]
           /\ \A j \in Job : Begin(p, j) => Counted' /\ job' \in [Processes -> Job]
           /\ \A fault : Disturb(p, fault) /\ broken' \in BOOLEAN
                         => Counted' /\ job' \in [Processes -> Job]
<1>1. Counted /\ MaxRequests[asked] \in Nat /\ job \in [Processes -> Job]
  BY TenancyAssumption DEF TypeOK, Counted
<1>2. begun < MaxRequests[asked] /\ begun' = begun + 1 /\ asked' = asked
        => begun' \in 0..MaxRequests[asked']
  BY <1>1, SMT DEF Counted
<1>3. (undisturbed /\ Quiet) \in BOOLEAN
  BY Zenon
<1>4. Continue => Counted'
  BY <1>1 DEF Continue, Counted
<1>5. \A kind : Atomic(kind) => Counted' /\ job' \in [Processes -> Job]
  BY <1>1 DEF Atomic, Counted
<1>6. \A j \in Job : Begin(p, j) => Counted' /\ job' \in [Processes -> Job]
  BY <1>1, <1>2, <1>3, JobTypes DEF Begin, Counted
<1>7. \A fault : Disturb(p, fault) /\ broken' \in BOOLEAN
                    => Counted' /\ job' \in [Processes -> Job]
  BY <1>1, <1>2, JobTypes DEF Disturb, Counted
<1>8. QED
  BY <1>4, <1>5, <1>6, <1>7

\* TypeOK, by who writes what.
LEMMA TypeParts ==
    /\ TypeOK => /\ tenant \in {"none", "bare", "filled"}
                 /\ users \in [Emails -> User]
                 /\ invites \in [Emails -> Invite]
                 /\ billing \in Billing
                 /\ chargebee \in Subscription
                 /\ created \in Nat /\ trials \in Nat /\ page \in Nat
    /\ TypeOK' <=> /\ Counted'
                   /\ job' \in [Processes -> Job]
                   /\ tenant' \in {"none", "bare", "filled"}
                   /\ users' \in [Emails -> User]
                   /\ invites' \in [Emails -> Invite]
                   /\ billing' \in Billing
                   /\ chargebee' \in Subscription
                   /\ created' \in Nat /\ trials' \in Nat /\ page' \in Nat
BY DEF TypeOK, Counted

LEMMA UserTypes ==
    ASSUME TypeOK, NEW e \in Emails
    PROVE  /\ \A s \in {"none", "inactive", "active", "elsewhere"} :
                [users EXCEPT ![e].status = s] \in [Emails -> User]
           /\ \A b \in BOOLEAN : [users EXCEPT ![e].link = b] \in [Emails -> User]
           /\ [users EXCEPT ![e].status = "inactive", ![e].admin = TRUE] \in [Emails -> User]
<1>1. users \in [Emails -> User]
  BY DEF TypeOK
<1>2. /\ \A s \in {"none", "inactive", "active", "elsewhere"} :
           [users[e] EXCEPT !.status = s] \in User
      /\ \A b \in BOOLEAN : [users[e] EXCEPT !.link = b] \in User
      /\ \A u \in User : [u EXCEPT !.admin = TRUE] \in User
  <2>1. users[e] \in User
    BY <1>1
  <2>2. \A s \in {"none", "inactive", "active", "elsewhere"} :
          [users[e] EXCEPT !.status = s] \in User
    BY <2>1, SMT DEF User
  <2>3. \A b \in BOOLEAN : [users[e] EXCEPT !.link = b] \in User
    BY <2>1, SMT DEF User
  <2>4. \A u \in User, b \in BOOLEAN : [u EXCEPT !.admin = b] \in User
    BY SMT DEF User
  <2>5. QED
    BY <2>2, <2>3, <2>4
<1>3. \A s \in {"none", "inactive", "active", "elsewhere"} :
        [users EXCEPT ![e].status = s] \in [Emails -> User]
  BY <1>1, <1>2
<1>4. \A b \in BOOLEAN : [users EXCEPT ![e].link = b] \in [Emails -> User]
  BY <1>1, <1>2
<1>5. [users EXCEPT ![e].status = "inactive", ![e].admin = TRUE] \in [Emails -> User]
  <2>1. [users EXCEPT ![e].status = "inactive"] \in [Emails -> User]
    BY <1>3
  <2>2. [[users EXCEPT ![e].status = "inactive"] EXCEPT ![e].admin = TRUE]
          \in [Emails -> User]
    BY <2>1, <1>2
  <2>3. QED
    BY <2>2
<1>6. QED
  BY <1>3, <1>4, <1>5

\* Changes of the Billing row and of the subscription.
LEMMA BillingTypes ==
    ASSUME NEW row \in Billing, NEW sub \in Subscription
    PROVE  /\ sub.plan \in Plans /\ row.plan \in Plans
           /\ [row EXCEPT !.subscribed = TRUE] \in Billing
           /\ [row EXCEPT !.free_forever = TRUE] \in Billing
           /\ \A plan \in Plans : /\ [row EXCEPT !.plan = plan] \in Billing
                                 /\ [sub EXCEPT !.plan = plan] \in Subscription
           /\ \A plan \in Plans, b \in BOOLEAN :
                [row EXCEPT !.plan = plan, !.trial_started = b] \in Billing
<1>1. sub.plan \in Plans /\ row.plan \in Plans
  BY SMT DEF Billing, Subscription
<1>2. \A r \in Billing, b \in BOOLEAN :
        /\ [r EXCEPT !.subscribed = b] \in Billing
        /\ [r EXCEPT !.free_forever = b] \in Billing
        /\ [r EXCEPT !.trial_started = b] \in Billing
  BY SMT DEF Billing
<1>3. \A plan \in Plans : [row EXCEPT !.plan = plan] \in Billing
  BY SMT DEF Billing
<1>4. \A plan \in Plans : [sub EXCEPT !.plan = plan] \in Subscription
  BY SMT DEF Subscription
<1>5. ASSUME NEW plan \in Plans, NEW b \in BOOLEAN
      PROVE  [row EXCEPT !.plan = plan, !.trial_started = b] \in Billing
  <2>1. [[row EXCEPT !.plan = plan] EXCEPT !.trial_started = b] \in Billing
    BY <1>2, <1>3
  <2>2. QED
    BY <2>1
<1>6. QED
  BY <1>1, <1>2, <1>3, <1>4, <1>5

Statuses == {"none", "active", "in_trial", "non_renewing", "cancelled"}

LEMMA SubscriptionTypes ==
    ASSUME NEW sub \in Subscription, NEW s \in Statuses
    PROVE  /\ sub.status \in Statuses
           /\ [sub EXCEPT !.status = s] \in Subscription
           /\ [sub EXCEPT !.status = s, !.over = TRUE] \in Subscription
           /\ \A plan \in Plans :
                /\ [sub EXCEPT !.plan = plan, !.status = s] \in Subscription
                /\ [sub EXCEPT !.plan = plan, !.status = s,
                               !.over = IF s = "in_trial" THEN FALSE ELSE @] \in Subscription
<1>1. /\ sub.status \in Statuses
      /\ \A u \in Subscription : [u EXCEPT !.status = s] \in Subscription
  BY SMT DEF Subscription, Statuses
<1>2. \A u \in Subscription, b \in BOOLEAN : [u EXCEPT !.over = b] \in Subscription
  BY SMT DEF Subscription
<1>3. [[sub EXCEPT !.status = s] EXCEPT !.over = TRUE] \in Subscription
  BY <1>1, <1>2
<1>4. ASSUME NEW plan \in Plans
      PROVE  /\ [sub EXCEPT !.plan = plan, !.status = s] \in Subscription
             /\ [sub EXCEPT !.plan = plan, !.status = s,
                            !.over = IF s = "in_trial" THEN FALSE ELSE @] \in Subscription
  <2> DEFINE ps == [[sub EXCEPT !.plan = plan] EXCEPT !.status = s]
  <2>1. [sub EXCEPT !.plan = plan] \in Subscription
    BY SMT DEF Subscription
  <2>2. ps \in Subscription
    BY <1>1, <2>1
  <2>3. ps.over \in BOOLEAN /\ sub.over \in BOOLEAN
    BY <2>2, SMT DEF Subscription
  <2>4. [ps EXCEPT !.over = FALSE] \in Subscription /\ [ps EXCEPT !.over = sub.over] \in Subscription
    BY <1>2, <2>2, <2>3
  <2>5. [sub EXCEPT !.plan = plan, !.status = s] \in Subscription
    BY <2>2
  <2>6. [sub EXCEPT !.plan = plan, !.status = s,
                   !.over = IF s = "in_trial" THEN FALSE ELSE @] \in Subscription
    <3>1. CASE s = "in_trial"
      BY <2>4, <3>1
    <3>2. CASE s # "in_trial"
      BY <2>2, <2>4, <3>2
    <3>3. QED
      BY <3>1, <3>2
  <2>7. QED
    BY <2>5, <2>6
<1>5. QED
  BY <1>1, <1>3, <1>4

-----------------------------------------------------------------------------
(* Each group of actions keeps the types.                                  *)

LEMMA RegistrationType ==
    ASSUME TypeOK, NEW p \in Webs, Registration(p)
    PROVE  TypeOK'
<1> USE DEF people, paid
<1>1. p \in Processes /\ Owner \in Emails /\ Idle \in Job
  BY TenancyAssumption, RecordTypes DEF Processes
<1>2. CASE Register(p)
  <2>1. [Idle EXCEPT !.kind = "register", !.step = "deactivate"] \in Job
    BY <1>1, JobFields, ZenonT(60) DEF Kinds, Steps
  <2>2. QED
    BY <1>1, <1>2, <2>1, CountedTypes, UserTypes, TypeParts, ZenonT(60) DEF Register
<1>3. CASE AwaitActivation(p)
  BY <1>1, <1>3, CountedTypes, JobTypes, UserTypes, TypeParts DEF AwaitActivation, Steps
<1>4. CASE MailActivation(p)
  BY <1>1, <1>4, CountedTypes, JobTypes, UserTypes, TypeParts DEF MailActivation
<1>5. QED
  BY <1>2, <1>3, <1>4 DEF Registration

LEMMA ActivationType ==
    ASSUME TypeOK, NEW p \in Webs, Activation(p)
    PROVE  TypeOK'
<1> USE DEF people, paid
<1>1. p \in Processes /\ Idle \in Job
  BY RecordTypes DEF Processes
<1>2. job[p] \in Job /\ job[p].email \in Emails /\ job[p].row \in Billing /\ billing \in Billing
  BY <1>1, JobTypes DEF TypeOK, Job
<1>3. ASSUME NEW e \in Emails, OpenActivation(p, e)
      PROVE  TypeOK'
  <2>1. [Idle EXCEPT !.kind = "activate", !.step = "fill", !.email = e] \in Job
    BY <1>1, JobFields, ZenonT(60) DEF Kinds, Steps
  <2>2. QED
    BY <1>1, <1>3, <2>1, CountedTypes, TypeParts DEF OpenActivation
<1>4. CASE FillTenant(p)
  <2>1. job' \in [Processes -> Job] /\ Counted'
    BY <1>1, <1>4, CountedTypes, JobTypes DEF FillTenant, Steps
  <2>2. tenant' \in {"none", "bare", "filled"}
    BY <1>4 DEF FillTenant, TypeOK
  <2>3. QED
    BY <1>4, <2>1, <2>2, TypeParts DEF FillTenant
<1>5. CASE ActivateUser(p)
  <2>1. [job[p] EXCEPT !.step = "subscribe", !.row = billing] \in Job
    BY <1>2, JobFields, ZenonT(60) DEF Kinds, Steps
  <2>2. QED
    BY <1>1, <1>2, <1>5, <2>1, CountedTypes, JobTypes, UserTypes, TypeParts DEF ActivateUser
<1>6. CASE CreateSubscription(p)
  <2>1. job' \in [Processes -> Job] /\ Counted'
    BY <1>1, <1>6, CountedTypes, JobTypes DEF CreateSubscription, AnswerLost, Steps
  <2>2. chargebee' \in Subscription
    BY <1>2, <1>6, RecordTypes, BillingTypes, TypeParts DEF CreateSubscription
  <2>3. created' \in Nat
    BY <1>6 DEF CreateSubscription, TypeOK
  <2>4. QED
    BY <1>6, <2>1, <2>2, <2>3, TypeParts DEF CreateSubscription
<1>7. CASE StoreSubscription(p)
  <2>1. [job[p].row EXCEPT !.subscribed = TRUE] \in Billing
    BY <1>2, BillingTypes, RecordTypes
  <2>2. QED
    BY <1>1, <1>2, <1>7, <2>1, CountedTypes, JobTypes, UserTypes, TypeParts
       DEF StoreSubscription
<1>8. QED
  BY <1>3, <1>4, <1>5, <1>6, <1>7 DEF Activation

LEMMA InvitationType ==
    ASSUME TypeOK, NEW p \in Webs, Invitation(p)
    PROVE  TypeOK'
<1> USE DEF people, paid
<1>1. p \in Processes /\ Idle \in Job
  BY RecordTypes DEF Processes
<1>2. job[p] \in Job /\ job[p].email \in Emails /\ job[p].todo \in SUBSET Emails
  BY <1>1, JobTypes DEF Job
<1>3. invites \in [Emails -> Invite]
  BY DEF TypeOK
<1>4. ASSUME NEW S \in SUBSET Emails, StartInvite(p, S)
      PROVE  TypeOK'
  <2>1. [Idle EXCEPT !.kind = "invite", !.step = "replace", !.todo = S] \in Job
    BY <1>1, JobFields, ZenonT(60) DEF Kinds, Steps
  <2>2. QED
    BY <1>1, <1>4, <2>1, CountedTypes, TypeParts DEF StartInvite
<1>5. ASSUME NEW e \in Emails, ReplaceInvite(p, e)
      PROVE  TypeOK'
  <2>1. [job[p] EXCEPT !.step = "send", !.email = e, !.todo = @ \ {e}] \in Job
    BY <1>2, JobFields, ZenonT(60) DEF Kinds, Steps
  <2>2. [by |-> p, link |-> "unsent"] \in Invite
    BY SMT DEF Invite
  <2>3. invites' \in [Emails -> Invite] /\ job' \in [Processes -> Job]
    BY <1>1, <1>3, <1>5, <2>1, <2>2, JobTypes DEF ReplaceInvite
  <2>4. QED
    BY <1>1, <1>5, <2>3, CountedTypes, TypeParts DEF ReplaceInvite
<1>6. ASSUME NEW e \in Emails, OpenInvite(p, e)
      PROVE  TypeOK'
  <2>1. [Idle EXCEPT !.kind = "accept", !.step = "create", !.email = e] \in Job
    BY <1>1, JobFields, ZenonT(60) DEF Kinds, Steps
  <2>2. QED
    BY <1>1, <1>6, <2>1, CountedTypes, TypeParts DEF OpenInvite
<1>7. CASE SendInvite(p)
  <2>1. \A i \in Invite : [i EXCEPT !.link = "valid"] \in Invite
    BY SMT DEF Invite
  <2>2. invites' \in [Emails -> Invite]
    BY <1>3, <1>7, <2>1 DEF SendInvite
  <2>3. job' \in [Processes -> Job]
    BY <1>1, <1>7, JobTypes DEF SendInvite, Steps
  <2>4. QED
    BY <1>1, <1>7, <2>2, <2>3, CountedTypes, TypeParts DEF SendInvite
<1>8. CASE AcceptInvite(p)
  <2>1. users' \in [Emails -> User]
    <3>1. users' = users \/ users' = [users EXCEPT ![job[p].email].status = "active"]
      BY <1>8 DEF AcceptInvite
    <3>2. users \in [Emails -> User]
      BY TypeParts
    <3>3. [users EXCEPT ![job[p].email].status = "active"] \in [Emails -> User]
      BY <1>2, UserTypes
    <3>4. QED
      BY <3>1, <3>2, <3>3
  <2>2. "used" \in Steps
    BY DEF Steps
  <2>3. job' \in [Processes -> Job]
    BY <1>1, <1>8, <2>2, JobTypes DEF AcceptInvite
  <2>4. QED
    BY <1>1, <1>8, <2>1, <2>3, CountedTypes, TypeParts DEF AcceptInvite
<1>9. CASE UseInvite(p)
  <2>1. invites' \in [Emails -> Invite]
    BY <1>3, <1>9, RecordTypes DEF UseInvite
  <2>2. QED
    BY <1>1, <1>9, <2>1, CountedTypes, JobTypes, TypeParts DEF UseInvite
<1>10. QED
  BY <1>4, <1>5, <1>6, <1>7, <1>8, <1>9 DEF Invitation

LEMMA UserChangeType ==
    ASSUME TypeOK, NEW p \in Webs, UserChange(p)
    PROVE  TypeOK'
<1> USE DEF people, paid
<1>1. p \in Processes /\ Idle \in Job
  BY RecordTypes DEF Processes
<1>2. job[p] \in Job /\ job[p].email \in Emails
      /\ job[p].status \in {"none", "inactive", "active", "elsewhere"}
  BY <1>1, JobTypes DEF Job
<1>3. ASSUME NEW e \in Emails, NEW want \in {"same", "active", "inactive"}, LoadUser(p, e, want)
      PROVE  TypeOK'
  <2> DEFINE status == IF want = "same" THEN users[e].status ELSE want
  <2>1. status \in {"none", "inactive", "active"}
    BY <1>3 DEF LoadUser
  <2>2. Begin(p, [Idle EXCEPT !.kind = "patch", !.step = "save", !.email = e,
                    !.status = status])
    BY <1>3 DEF LoadUser
  <2> HIDE DEF status
  <2>3. "patch" \in Kinds /\ "save" \in Steps
    BY DEF Kinds, Steps
  <2>4. [Idle EXCEPT !.kind = "patch", !.step = "save", !.email = e, !.status = status] \in Job
    BY <1>1, <2>1, <2>3, JobFields
  <2>5. Counted' /\ job' \in [Processes -> Job]
    BY <1>1, <2>2, <2>4, CountedTypes
  <2>6. QED
    BY <1>3, <2>5, TypeParts DEF LoadUser
<1>4. CASE SaveUser(p)
  BY <1>1, <1>2, <1>4, CountedTypes, JobTypes, UserTypes, TypeParts DEF SaveUser
<1>5. QED
  BY <1>3, <1>4 DEF UserChange

LEMMA LoadBillingType ==
    ASSUME TypeOK, NEW p \in Webs, NEW kind \in BillingKinds, LoadBilling(p, kind)
    PROVE  TypeOK'
<1> USE DEF people, paid
<1>1. p \in Processes /\ Idle \in Job /\ billing \in Billing
  BY RecordTypes, TypeParts DEF Processes
<1>2. kind \in Kinds /\ "retrieve" \in Steps
  BY DEF BillingKinds, Kinds, Steps
<1>3. [Idle EXCEPT !.kind = kind, !.step = "retrieve", !.row = billing] \in Job
  BY <1>1, <1>2, JobFields
<1>4. QED
  BY <1>1, <1>3, CountedTypes, TypeParts DEF LoadBilling

LEMMA RetrieveType ==
    ASSUME TypeOK, NEW p \in Webs, Retrieve(p)
    PROVE  TypeOK'
<1> USE DEF people, paid
<1>1. p \in Processes /\ job[p] \in Job /\ chargebee \in Subscription
  BY JobTypes, TypeParts DEF Processes
<1>2. \A s \in Steps : [job[p] EXCEPT !.sub = chargebee, !.step = s] \in Job
  BY <1>1, JobFields DEF Kinds
<1> DEFINE next == IF job[p].kind = "subscription" THEN "save" ELSE "update"
<1>3. next \in Steps
  BY DEF Steps
<1>4. \/ Finish(p)
      \/ Become(p, [job[p] EXCEPT !.sub = chargebee, !.step = next])
  BY DEF Retrieve
<1> HIDE DEF next
<1>5. job' \in [Processes -> Job]
  BY <1>1, <1>2, <1>3, <1>4, JobTypes
<1>6. QED
  BY <1>1, <1>5, CountedTypes, TypeParts DEF Retrieve

\* The four calls, and that the quantity of a page counts users.
LEMMA ActiveCounted ==
    Cardinality(Active) \in Nat
<1>1. IsFiniteSet(Emails) /\ Active \subseteq Emails
  BY TenancyAssumption DEF Active
<1>2. IsFiniteSet(Active)
  BY <1>1, FS_Subset
<1>3. QED
  BY <1>2, FS_CardinalityType

LEMMA CallTypes ==
    ASSUME TypeOK, NEW p \in Processes,
           ToFree(p) \/ OpenCheckout(p) \/ CancelSubscription(p) \/ StartTrial(p)
    PROVE  /\ chargebee' \in Subscription
           /\ created' \in Nat /\ trials' \in Nat /\ page' \in Nat
<1>1. /\ chargebee \in Subscription /\ chargebee.status \in Statuses
      /\ created \in Nat /\ trials \in Nat /\ page \in Nat
  BY TypeParts, SubscriptionTypes, ZenonT(60) DEF Statuses
<1>2. ASSUME NEW plan \in Plans, NEW status \in Statuses, Changed(plan, status)
      PROVE  chargebee' \in Subscription
  <2>1. PICK s \in Statuses :
          chargebee' = [chargebee EXCEPT !.plan = plan, !.status = s,
                          !.over = IF s = "in_trial" THEN FALSE ELSE @]
    BY <1>2 DEF Changed, Statuses
  <2>2. QED
    BY <1>1, <2>1, SubscriptionTypes
<1>3. CASE ToFree(p)
  <2> DEFINE status == IF chargebee.status = "non_renewing"
                          \/ (chargebee.status = "in_trial" /\ ~job[p].row.trial_started)
                       THEN chargebee.status ELSE "active"
  <2>1. status \in Statuses /\ "free" \in Plans
    BY <1>1 DEF Statuses, Plans
  <2>2. Changed("free", status)
    BY <1>3 DEF ToFree
  <2> HIDE DEF status
  <2>3. chargebee' \in Subscription
    BY <1>2, <2>1, <2>2
  <2>4. QED
    BY <1>1, <1>3, <2>3 DEF ToFree
<1>4. CASE OpenCheckout(p)
  BY <1>1, <1>4, ActiveCounted DEF OpenCheckout
<1>5. CASE CancelSubscription(p)
  <2>1. PICK s \in Statuses : chargebee' = [chargebee EXCEPT !.status = s]
    BY <1>5 DEF CancelSubscription, Statuses
  <2>2. QED
    BY <1>1, <1>5, <2>1, SubscriptionTypes DEF CancelSubscription
<1>6. CASE StartTrial(p)
  <2>1. chargebee' \in Subscription
    BY <1>2, <1>6 DEF StartTrial, Statuses, Plans
  <2>2. trials' \in Nat
    BY <1>1, <1>6 DEF StartTrial
  <2>3. QED
    BY <1>1, <1>6, <2>1, <2>2 DEF StartTrial
<1>7. QED
  BY <1>3, <1>4, <1>5, <1>6

LEMMA CallChargebeeType ==
    ASSUME TypeOK, NEW p \in Webs, CallChargebee(p)
    PROVE  TypeOK'
<1> USE DEF people, paid
<1>1. p \in Processes /\ job[p] \in Job
  BY JobTypes DEF Processes
<1>2. /\ chargebee' \in Subscription
      /\ created' \in Nat /\ trials' \in Nat /\ page' \in Nat
  BY <1>1, CallTypes DEF CallChargebee
<1>3. "save" \in Steps
  BY DEF Steps
<1>4. [job[p] EXCEPT !.step = "save", !.sub = chargebee'] \in Job
  BY <1>1, <1>2, <1>3, JobFields DEF Kinds
<1>5. CASE AnswerLost(p) /\ UNCHANGED broken
  <2>1. broken' \in BOOLEAN
    BY <1>5 DEF TypeOK
  <2>2. Counted' /\ job' \in [Processes -> Job]
    BY <1>1, <1>5, <2>1, CountedTypes DEF AnswerLost
  <2>3. QED
    BY <1>2, <2>2, TypeParts DEF CallChargebee
<1>6. CASE /\ \/ Become(p, [job[p] EXCEPT !.step = "save", !.sub = chargebee'])
              \/ Finish(p)
           /\ Continue
  <2>1. Counted' /\ job' \in [Processes -> Job]
    BY <1>1, <1>4, <1>6, CountedTypes, JobTypes
  <2>2. QED
    BY <1>2, <2>1, TypeParts DEF CallChargebee
<1>7. QED
  BY <1>5, <1>6 DEF CallChargebee

LEMMA SaveBillingType ==
    ASSUME TypeOK, NEW p \in Webs, SaveBilling(p)
    PROVE  TypeOK'
<1> USE DEF people, paid
<1>1. p \in Processes /\ job[p] \in Job
  BY JobTypes DEF Processes
<1>2. job[p].row \in Billing /\ job[p].sub \in Subscription
  BY <1>1 DEF Job
<1>3. job[p].row.plan \in Plans /\ job[p].sub.plan \in Plans
      /\ job[p].row.trial_started \in BOOLEAN
  BY <1>2, SMT DEF Billing, Subscription
<1> DEFINE plan == IF job[p].kind = "cancel" THEN job[p].row.plan ELSE job[p].sub.plan
           b == job[p].row.trial_started \/ job[p].kind = "trial"
<1>4. plan \in Plans /\ b \in BOOLEAN
  BY <1>3
<1>5. billing' = [job[p].row EXCEPT !.plan = plan, !.trial_started = b]
  BY DEF SaveBilling
<1> HIDE DEF plan, b
<1>6. billing' \in Billing
  BY <1>2, <1>4, <1>5, BillingTypes
<1>7. job' \in [Processes -> Job] /\ Counted'
  BY <1>1, JobTypes, CountedTypes DEF SaveBilling
<1>8. QED
  BY <1>6, <1>7, TypeParts DEF SaveBilling

LEMMA NightlyType == ASSUME TypeOK, Nightly PROVE TypeOK'
<1> USE DEF people, paid
<1>1. Beat \in Processes /\ Idle \in Job /\ billing \in Billing
      /\ chargebee \in Subscription
  BY RecordTypes, TypeParts DEF Processes
<1>2. job[Beat] \in Job /\ job[Beat].row \in Billing /\ job[Beat].sub \in Subscription
  BY <1>1, JobTypes DEF Job
<1>3. CASE LoadNightly
  <2>1. [Idle EXCEPT !.kind = "nightly", !.step = "retrieve", !.row = billing] \in Job
    BY <1>1, JobFields, ZenonT(60) DEF Kinds, Steps
  <2>2. job' \in [Processes -> Job]
    BY <1>1, <1>3, <2>1, JobTypes DEF LoadNightly
  <2>3. (undisturbed /\ Quiet) \in BOOLEAN
    BY Zenon
  <2>4. Counted'
    BY <1>3, <2>3 DEF LoadNightly, Counted, TypeOK
  <2>5. QED
    BY <1>3, <2>2, <2>4, TypeParts DEF LoadNightly
<1>4. CASE RetrieveNightly
  <2> DEFINE next == IF Expired(chargebee) THEN "update" ELSE "save"
  <2>1. next \in Steps
    BY DEF Steps
  <2>2. \/ Finish(Beat)
        \/ Become(Beat, [job[Beat] EXCEPT !.sub = chargebee, !.step = next])
    BY <1>4 DEF RetrieveNightly
  <2> HIDE DEF next
  <2>3. [job[Beat] EXCEPT !.sub = chargebee, !.step = next] \in Job
    BY <1>1, <1>2, <2>1, JobFields, ZenonT(60) DEF Kinds
  <2>4. job' \in [Processes -> Job] /\ Counted'
    BY <1>1, <1>4, <2>2, <2>3, JobTypes, CountedTypes DEF RetrieveNightly
  <2>5. QED
    BY <1>4, <2>4, TypeParts DEF RetrieveNightly
<1>5. CASE ConvertToFree
  <2>1. chargebee.status \in Statuses /\ "active" \in Statuses /\ "free" \in Plans
    BY <1>1, SubscriptionTypes DEF Statuses, Plans
  <2>2. PICK s \in Statuses : chargebee' = [chargebee EXCEPT !.plan = "free", !.status = s]
    BY <1>5, <2>1, ZenonT(60) DEF ConvertToFree
  <2>3. chargebee' \in Subscription
    BY <1>1, <2>1, <2>2, SubscriptionTypes, ZenonT(60)
  <2>4. [job[Beat] EXCEPT !.step = "save", !.sub = chargebee'] \in Job
    BY <1>2, <2>3, JobFields, ZenonT(60) DEF Kinds, Steps
  <2>5. CASE AnswerLost(Beat) /\ UNCHANGED broken
    <3>1. broken' \in BOOLEAN
      BY <2>5 DEF TypeOK
    <3>2. QED
      BY <1>1, <2>5, <3>1, CountedTypes, <1>5, <2>3, TypeParts DEF AnswerLost, ConvertToFree
  <2>6. CASE /\ Become(Beat, [job[Beat] EXCEPT !.step = "save", !.sub = chargebee'])
             /\ Continue
    BY <1>1, <1>5, <2>3, <2>4, <2>6, JobTypes, CountedTypes, TypeParts DEF ConvertToFree
  <2>7. QED
    BY <1>5, <2>5, <2>6 DEF ConvertToFree
<1>6. CASE SaveNightly
  <2>1. [job[Beat].row EXCEPT !.plan = job[Beat].sub.plan] \in Billing
    BY <1>2, BillingTypes
  <2>2. QED
    BY <1>1, <1>6, <2>1, JobTypes, CountedTypes, TypeParts DEF SaveNightly
<1>7. QED
  BY <1>3, <1>4, <1>5, <1>6 DEF Nightly

LEMMA AtOnceType ==
    ASSUME TypeOK, NEW e \in Emails,
           \/ ResendActivation(e) \/ Login(e) \/ WithdrawInvite(e)
           \/ InviteExpires(e) \/ InviteElsewhere(e) \/ SettleElsewhere(e)
           \/ DeactivateUser(e)
    PROVE  TypeOK'
<1> USE DEF people, paid
<1>1. Beat \in Processes /\ users \in [Emails -> User] /\ invites \in [Emails -> Invite]
  BY TypeParts DEF Processes
<1>2. /\ [invites EXCEPT ![e] = NoInvite] \in [Emails -> Invite]
      /\ [invites EXCEPT ![e].link = "expired"] \in [Emails -> Invite]
      /\ [invites EXCEPT ![e].by = "elsewhere"] \in [Emails -> Invite]
  <2>1. \A i \in Invite : /\ [i EXCEPT !.link = "expired"] \in Invite
                          /\ [i EXCEPT !.by = "elsewhere"] \in Invite
    BY SMT DEF Invite
  <2>2. QED
    BY <1>1, <2>1, RecordTypes
<1>3. CASE ResendActivation(e)
  BY <1>1, <1>3, CountedTypes, UserTypes, TypeParts DEF ResendActivation
<1>4. CASE Login(e)
  BY <1>1, <1>4, CountedTypes, UserTypes, TypeParts DEF Login
<1>5. CASE WithdrawInvite(e)
  BY <1>1, <1>2, <1>5, CountedTypes, TypeParts DEF WithdrawInvite
<1>6. CASE InviteExpires(e)
  BY <1>1, <1>2, <1>6, CountedTypes, TypeParts DEF InviteExpires
<1>7. CASE InviteElsewhere(e)
  BY <1>1, <1>2, <1>7, CountedTypes, TypeParts DEF InviteElsewhere
<1>8. CASE SettleElsewhere(e)
  <2> DEFINE taken == [users EXCEPT ![e].status = "elsewhere"]
  <2>1. users' \in {users} \cup (IF users[e].status = "none" THEN {taken} ELSE {})
    BY <1>8 DEF SettleElsewhere
  <2>2. taken \in [Emails -> User]
    BY UserTypes
  <2>3. invites' = [invites EXCEPT ![e] = NoInvite] /\ UNCHANGED <<tenant, billing, paid>>
        /\ Atomic("elsewhere")
    BY <1>8 DEF SettleElsewhere
  <2> HIDE DEF taken
  <2>4. users' = users \/ users' = taken
    BY ONLY <2>1
  <2>5. users' \in [Emails -> User]
    BY <1>1, <2>2, <2>4
  <2>6. QED
    BY <1>1, <1>2, <2>3, <2>5, CountedTypes, TypeParts
<1>9. CASE DeactivateUser(e)
  BY <1>1, <1>9, CountedTypes, UserTypes, TypeParts DEF DeactivateUser
<1>10. QED
  BY <1>3, <1>4, <1>5, <1>6, <1>7, <1>8, <1>9

LEMMA FaultType ==
    ASSUME TypeOK, NEW p \in Processes, CallFails(p) \/ Crash(p)
    PROVE  TypeOK'
<1> USE DEF people, paid
<1>1. PICK fault : Disturb(p, fault) /\ broken' = (broken \/ Breaks(p))
                  /\ UNCHANGED <<people, billing, paid>>
  BY DEF CallFails, Crash
<1>2. (broken \/ Breaks(p)) \in BOOLEAN
  BY Zenon
<1>3. Counted' /\ job' \in [Processes -> Job]
  BY <1>1, <1>2, CountedTypes
<1>4. QED
  BY <1>1, <1>3, TypeParts

LEMMA ChangeType ==
    ASSUME TypeOK,
           \/ CompleteCheckout \/ TrialRunsOut \/ SubscriptionEnds
           \/ PlanIsChanged \/ GiveForFree
    PROVE  TypeOK'
<1> USE DEF people, paid
<1>1. /\ chargebee \in Subscription /\ billing \in Billing
      /\ page \in Nat /\ Counted /\ MaxRequests[asked] \in Nat
      /\ job \in [Processes -> Job]
  BY TenancyAssumption, TypeParts DEF TypeOK, Counted
<1>2. Change => Counted' /\ job' \in [Processes -> Job]
  <2>1. begun < MaxRequests[asked] /\ begun' = begun + 1 /\ asked' = asked
          => begun' \in 0..MaxRequests[asked']
    BY <1>1, SMT DEF Counted
  <2>2. QED
    BY <1>1, <2>1 DEF Change, Counted
<1>3. CASE CompleteCheckout
  <2>1. [status |-> "active", plan |-> "pro", over |-> FALSE, quantity |-> page] \in Subscription
    BY <1>1, SMT DEF Subscription, Plans
  <2>2. QED
    BY <1>1, <1>3, <2>1, TypeParts DEF CompleteCheckout, Counted
<1>4. CASE TrialRunsOut
  <2>1. PICK s \in Statuses : chargebee' = [chargebee EXCEPT !.status = s, !.over = TRUE]
    BY <1>4 DEF TrialRunsOut, Statuses
  <2>2. chargebee' \in Subscription
    BY <1>1, <2>1, SubscriptionTypes
  <2>3. QED
    BY <1>2, <1>4, <2>2, TypeParts DEF TrialRunsOut, Change
<1>5. CASE SubscriptionEnds
  <2>1. [chargebee EXCEPT !.status = "cancelled"] \in Subscription
    BY <1>1, SubscriptionTypes DEF Statuses
  <2>2. QED
    BY <1>2, <1>5, <2>1, TypeParts DEF SubscriptionEnds, Change
<1>6. CASE PlanIsChanged
  <2>1. PICK plan \in Plans : chargebee' = [chargebee EXCEPT !.plan = plan]
    BY <1>6 DEF PlanIsChanged, Plans
  <2>2. chargebee' \in Subscription
    BY <1>1, <2>1, BillingTypes
  <2>3. QED
    BY <1>2, <1>6, <2>2, TypeParts DEF PlanIsChanged, Change
<1>7. CASE GiveForFree
  <2>1. [billing EXCEPT !.free_forever = TRUE] \in Billing
    BY <1>1, BillingTypes
  <2>2. QED
    BY <1>2, <1>7, <2>1, TypeParts DEF GiveForFree, Change
<1>8. QED
  BY <1>3, <1>4, <1>5, <1>6, <1>7

LEMMA InitType == Init => TypeOK
<1> SUFFICES ASSUME Init PROVE TypeOK
  OBVIOUS
<1>1. /\ asked \in Scenarios /\ begun = 0 /\ 0 \in 0..MaxRequests[asked]
      /\ undisturbed \in BOOLEAN /\ broken \in BOOLEAN
  <2>1. /\ asked \in Scenarios /\ begun = 0
        /\ undisturbed \in BOOLEAN /\ broken \in BOOLEAN
    BY DEF Init
  <2>2. MaxRequests[asked] \in Nat
    BY <2>1, TenancyAssumption
  <2>3. 0 \in 0..MaxRequests[asked]
    BY <2>2, SMT
  <2>4. QED
    BY <2>1, <2>3
<1>2. job \in [Processes -> Job] /\ invites \in [Emails -> Invite]
  BY RecordTypes DEF Init
<1>3. [status |-> "active", link |-> FALSE, admin |-> TRUE] \in User
  BY SMT DEF User
<1>4. users \in [Emails -> User]
  BY <1>3, RecordTypes DEF Init
<1>5. [NewBilling EXCEPT !.subscribed = TRUE] \in Billing
  BY RecordTypes, BillingTypes
<1>6. billing \in Billing /\ chargebee \in Subscription
  <2>1. "free" \in Plans
    BY DEF Plans
  <2>2. QED
    BY <1>5, <2>1, RecordTypes DEF Init
<1>7. tenant \in {"none", "bare", "filled"} /\ created \in Nat /\ trials \in Nat /\ page \in Nat
  BY DEF Init
<1>8. QED
  BY <1>1, <1>2, <1>4, <1>6, <1>7 DEF TypeOK

LEMMA NextType == TypeOK /\ [Next]_vars => TypeOK'
<1> SUFFICES ASSUME TypeOK, [Next]_vars PROVE TypeOK'
  OBVIOUS
<1>1. CASE UNCHANGED vars
  BY <1>1 DEF vars, people, paid, TypeOK, Processes
<1>2. ASSUME NEW p \in Webs,
             \/ Registration(p) \/ Activation(p) \/ Invitation(p) \/ UserChange(p)
      PROVE  TypeOK'
  BY <1>2, RegistrationType, ActivationType, InvitationType, UserChangeType
<1>3. ASSUME NEW p \in Webs, BillingRequest(p) PROVE TypeOK'
  BY <1>3, LoadBillingType, RetrieveType, CallChargebeeType, SaveBillingType DEF BillingRequest
<1>4. QED
  BY <1>1, <1>2, <1>3, NightlyType, AtOnceType, FaultType, ChangeType DEF Next

\* Every row, request and answer keeps the shape the code gives it, however many
\* addresses, web processes and requests there are.
THEOREM TypeCorrect == Spec => []TypeOK
  BY InitType, NextType, PTL DEF Spec

-----------------------------------------------------------------------------
(* What requests do to the subscription and the trial.  Most steps only    *)
(* move one request (Stays) or happen aside of all requests (Aside).       *)

RowKinds == BillingKinds \cup {"nightly"}

\* A request between the default data and the stored subscription.
Activating(p) == job[p].kind = "activate" /\ job[p].step \in {"activate", "subscribe"}
Storing(p) == At(p, "activate", "store")
Placed(p) == Activating(p) \/ Storing(p)

OnlyJob(p) == \A q \in Processes \ {p} : job'[q] = job[q]

Same ==
    /\ (tenant' = "filled") <=> (tenant = "filled")
    /\ created' = created
    /\ billing'.subscribed = billing.subscribed
    /\ billing'.trial_started = billing.trial_started

Aside == Same /\ job' = job /\ UNCHANGED <<trials, undisturbed, broken>>

Stays(p) ==
    /\ OnlyJob(p) /\ Same /\ ~Placed(p) /\ ~Placed(p)'
    /\ broken => broken'
    /\ undisturbed' => /\ undisturbed /\ trials' = trials
                       /\ job[p].step # "idle" \/ Quiet
                       /\ ~At(p, "trial", "save") /\ ~At(p, "trial", "save")'
    /\ job'[p].step = "idle" => job'[p].kind = "none"
    /\ job'[p].kind \in RowKinds =>
         \/ job[p].kind \in RowKinds /\ job'[p].row = job[p].row
         \/ billing.subscribed /\ job'[p].row = billing
    /\ At(p, "trial", "update")' =>
         job[p].kind = "trial" /\ job'[p].row = job[p].row /\ ~job[p].row.trial_started

LEMMA Fields ==
    ASSUME NEW j \in Job
    PROVE  /\ \A s : LET n == [j EXCEPT !.step = s]
                     IN  n.step = s /\ n.kind = j.kind /\ n.row = j.row
           /\ \A s, sub : LET n == [j EXCEPT !.sub = sub, !.step = s]
                          IN  n.step = s /\ n.kind = j.kind /\ n.row = j.row
           /\ \A s, sub : LET n == [j EXCEPT !.step = s, !.sub = sub]
                          IN  n.step = s /\ n.kind = j.kind /\ n.row = j.row
           /\ \A s, row : LET n == [j EXCEPT !.step = s, !.row = row]
                          IN  n.step = s /\ n.kind = j.kind /\ n.row = row
           /\ \A s, e, S : LET n == [j EXCEPT !.step = s, !.email = e, !.todo = S]
                           IN  n.step = s /\ n.kind = j.kind
           /\ \A k, s, row : LET n == [j EXCEPT !.kind = k, !.step = s, !.row = row]
                             IN  n.step = s /\ n.kind = k /\ n.row = row
           /\ \A k, s : LET n == [j EXCEPT !.kind = k, !.step = s]
                        IN  n.step = s /\ n.kind = k
           /\ \A k, s, e : LET n == [j EXCEPT !.kind = k, !.step = s, !.email = e]
                           IN  n.step = s /\ n.kind = k
           /\ \A k, s, S : LET n == [j EXCEPT !.kind = k, !.step = s, !.todo = S]
                           IN  n.step = s /\ n.kind = k
           /\ \A k, s, e, st : LET n == [j EXCEPT !.kind = k, !.step = s, !.email = e,
                                             !.status = st]
                               IN  n.step = s /\ n.kind = k
BY SMT DEF Job

LEMMA Moving ==
    ASSUME TypeOK, NEW p \in Processes
    PROVE  /\ \A j : Become(p, j) => OnlyJob(p) /\ job'[p] = j
           /\ Finish(p) => OnlyJob(p) /\ job'[p] = Idle
           /\ \A s : Goto(p, s) => /\ OnlyJob(p) /\ job'[p].step = s
                                   /\ job'[p].kind = job[p].kind /\ job'[p].row = job[p].row
<1>1. job \in [Processes -> Job] /\ job[p] \in Job
  BY DEF TypeOK
<1>2. \A j : Become(p, j) => OnlyJob(p) /\ job'[p] = j
  BY <1>1 DEF Become, OnlyJob
<1>3. Finish(p) => OnlyJob(p) /\ job'[p] = Idle
  BY <1>2 DEF Finish
<1>4. \A s : Goto(p, s) => /\ OnlyJob(p) /\ job'[p].step = s
                           /\ job'[p].kind = job[p].kind /\ job'[p].row = job[p].row
  <2>1. ASSUME NEW s, Goto(p, s)
        PROVE  /\ OnlyJob(p) /\ job'[p].step = s
               /\ job'[p].kind = job[p].kind /\ job'[p].row = job[p].row
    <3> DEFINE n == [job[p] EXCEPT !.step = s]
    <3>1. OnlyJob(p) /\ job'[p] = n
      BY <1>2, <2>1 DEF Goto
    <3>2. n.step = s /\ n.kind = job[p].kind /\ n.row = job[p].row
      BY <1>1, Fields
    <3>3. QED
      BY <3>1, <3>2
  <2>2. QED
    BY <2>1
<1>5. QED
  BY <1>2, <1>3, <1>4

\* A new request stays when it is not placed and brings its row with it.
LEMMA Starting ==
    ASSUME TypeOK, NEW p \in Processes, NEW j, Begin(p, j), Same, UNCHANGED trials,
           j.step \notin {"idle", "update"}, j.kind # "activate" \/ j.step = "fill",
           j.kind = "trial" => j.step = "retrieve",
           j.kind \in RowKinds => billing.subscribed /\ j.row = billing
    PROVE  Stays(p)
<1>1. OnlyJob(p) /\ job'[p] = j /\ broken' = broken
      /\ (undisturbed' => undisturbed /\ Quiet)
  BY Moving DEF Begin
<1>2. job[p].step = "idle" /\ ~Placed(p)
  BY DEF Begin, Placed, Activating, Storing, At
<1>3. ~Placed(p)'
  BY <1>1 DEF Placed, Activating, Storing, At
<1>4. QED
  BY <1>1, <1>2, <1>3 DEF Stays, At

\* A request that goes on with the row it has, or ends.
LEMMA Going ==
    ASSUME TypeOK, NEW p \in Processes, OnlyJob(p), Continue, Same, UNCHANGED trials,
           job[p].step # "idle",
           job[p].kind # "activate" \/ job[p].step = "fill",
           job[p].kind = "trial" => job[p].step = "retrieve",
           \/ job'[p] = Idle
           \/ /\ job'[p].kind = job[p].kind /\ job'[p].step # "idle"
              /\ job[p].kind # "activate" /\ (job[p].kind = "trial" => job'[p].step = "update")
              /\ job[p].kind \in RowKinds => job'[p].row = job[p].row
              /\ job[p].kind = "trial" => ~job[p].row.trial_started
    PROVE  Stays(p)
<1>1. ~Placed(p)
  BY DEF Placed, Activating, Storing, At
<1>2. Idle.step = "idle" /\ Idle.kind = "none"
  BY RecordTypes
<1>3. ~Placed(p)'
  BY <1>2 DEF Placed, Activating, Storing, At
<1>4. "trial" \in RowKinds /\ "none" \notin RowKinds
  BY DEF RowKinds, BillingKinds
<1>5. QED
  BY <1>1, <1>2, <1>3, <1>4 DEF Stays, At, Continue

LEMMA FilledSame ==
    /\ UNCHANGED <<tenant, billing, created>> => Same
    /\ Idle.step = "idle" /\ Idle.kind = "none"
BY RecordTypes DEF Same

LEMMA RegistrationStays ==
    ASSUME TypeOK, NEW p \in Webs, Registration(p)
    PROVE  Stays(p)
<1> USE DEF people, paid
<1>1. p \in Processes
  BY DEF Processes
<1>2. CASE Register(p)
  <2> DEFINE j == [Idle EXCEPT !.kind = "register", !.step = "deactivate"]
  <2>1. Begin(p, j) /\ Same /\ UNCHANGED trials
    BY <1>2 DEF Register, Same
  <2>2. j.kind = "register" /\ j.step = "deactivate"
    BY RecordTypes, Fields
  <2> HIDE DEF j
  <2>3. QED
    BY <1>1, <2>1, <2>2, Starting DEF RowKinds, BillingKinds
<1>3. CASE AwaitActivation(p) \/ MailActivation(p)
  <2>1. Continue /\ Same /\ UNCHANGED trials /\ job[p].kind = "register"
        /\ job[p].step # "idle"
    BY <1>3, FilledSame DEF AwaitActivation, MailActivation, At
  <2>2. Goto(p, "mail") \/ Finish(p)
    BY <1>3 DEF AwaitActivation, MailActivation
  <2>3. /\ OnlyJob(p)
        /\ \/ job'[p] = Idle
           \/ job'[p].kind = job[p].kind /\ job'[p].step = "mail"
    BY <1>1, <2>2, Moving
  <2>4. QED
    BY <1>1, <2>1, <2>3, Going DEF RowKinds, BillingKinds
<1>4. QED
  BY <1>2, <1>3 DEF Registration

LEMMA InvitationStays ==
    ASSUME TypeOK, NEW p \in Webs, Invitation(p)
    PROVE  Stays(p)
<1> USE DEF people, paid
<1>1. p \in Processes /\ job[p] \in Job /\ Idle \in Job
  BY JobTypes, RecordTypes DEF Processes
<1>2. ASSUME NEW S, StartInvite(p, S) PROVE Stays(p)
  <2> DEFINE j == [Idle EXCEPT !.kind = "invite", !.step = "replace", !.todo = S]
  <2>1. Begin(p, j) /\ Same /\ UNCHANGED trials
    BY <1>2, FilledSame DEF StartInvite
  <2>2. j.kind = "invite" /\ j.step = "replace"
    BY <1>1, Fields
  <2> HIDE DEF j
  <2>3. QED
    BY <1>1, <2>1, <2>2, Starting DEF RowKinds, BillingKinds
<1>3. ASSUME NEW e \in Emails, OpenInvite(p, e) PROVE Stays(p)
  <2> DEFINE j == [Idle EXCEPT !.kind = "accept", !.step = "create", !.email = e]
  <2>1. Begin(p, j) /\ Same /\ UNCHANGED trials
    BY <1>3, FilledSame DEF OpenInvite
  <2>2. j.kind = "accept" /\ j.step = "create"
    BY <1>1, Fields
  <2> HIDE DEF j
  <2>3. QED
    BY <1>1, <2>1, <2>2, Starting DEF RowKinds, BillingKinds
<1>4. ASSUME NEW e \in Emails, ReplaceInvite(p, e) PROVE Stays(p)
  <2> DEFINE j == [job[p] EXCEPT !.step = "send", !.email = e, !.todo = @ \ {e}]
  <2>1. Continue /\ Same /\ UNCHANGED trials /\ job[p].kind = "invite"
        /\ job[p].step # "idle" /\ (Finish(p) \/ Become(p, j))
    BY <1>4, FilledSame DEF ReplaceInvite, At
  <2>2. j.kind = job[p].kind /\ j.step = "send"
    BY <1>1, Fields
  <2> HIDE DEF j
  <2>3. OnlyJob(p) /\ (job'[p] = Idle \/ job'[p] = j)
    BY <1>1, <2>1, Moving
  <2>4. QED
    BY <1>1, <2>1, <2>2, <2>3, Going DEF RowKinds, BillingKinds
<1>5. CASE SendInvite(p) \/ AcceptInvite(p) \/ UseInvite(p)
  <2>1. Continue /\ Same /\ UNCHANGED trials /\ job[p].kind \in {"invite", "accept"}
        /\ job[p].step # "idle"
    BY <1>5, FilledSame DEF SendInvite, AcceptInvite, UseInvite, At
  <2>2. Finish(p) \/ Goto(p, "replace") \/ Goto(p, "used")
    BY <1>5 DEF SendInvite, AcceptInvite, UseInvite
  <2>3. /\ OnlyJob(p)
        /\ \/ job'[p] = Idle
           \/ job'[p].kind = job[p].kind /\ job'[p].step \in {"replace", "used"}
    BY <1>1, <2>2, Moving
  <2>4. QED
    BY <1>1, <2>1, <2>3, Going DEF RowKinds, BillingKinds
<1>6. QED
  BY <1>2, <1>3, <1>4, <1>5 DEF Invitation

LEMMA UserChangeStays ==
    ASSUME TypeOK, NEW p \in Webs, UserChange(p)
    PROVE  Stays(p)
<1> USE DEF people, paid
<1>1. p \in Processes /\ job[p] \in Job /\ Idle \in Job
  BY JobTypes, RecordTypes DEF Processes
<1>2. ASSUME NEW e, NEW want, LoadUser(p, e, want) PROVE Stays(p)
  <2> DEFINE status == IF want = "same" THEN users[e].status ELSE want
             j == [Idle EXCEPT !.kind = "patch", !.step = "save", !.email = e,
                     !.status = status]
  <2>1. Begin(p, j) /\ Same /\ UNCHANGED trials
    BY <1>2, FilledSame DEF LoadUser
  <2> HIDE DEF status
  <2>2. j.kind = "patch" /\ j.step = "save"
    BY <1>1, Fields
  <2> HIDE DEF j
  <2>3. QED
    BY <1>1, <2>1, <2>2, Starting DEF RowKinds, BillingKinds
<1>3. CASE SaveUser(p)
  <2>1. Continue /\ Same /\ UNCHANGED trials /\ job[p].kind = "patch"
        /\ job[p].step # "idle" /\ Finish(p)
    BY <1>3, FilledSame DEF SaveUser, At
  <2>2. OnlyJob(p) /\ job'[p] = Idle
    BY <1>1, <2>1, Moving
  <2>3. QED
    BY <1>1, <2>1, <2>2, Going DEF RowKinds, BillingKinds
<1>4. QED
  BY <1>2, <1>3 DEF UserChange

\* Of a billing request, all but its calls for a trial and its last save.
LEMMA BillingStays ==
    ASSUME TypeOK, NEW p \in Webs,
           \/ \E kind \in BillingKinds : LoadBilling(p, kind)
           \/ Retrieve(p)
           \/ CallChargebee(p) /\ (undisturbed' => job[p].kind # "trial")
    PROVE  Stays(p)
<1> USE DEF people, paid
<1>1. p \in Processes /\ job[p] \in Job /\ Idle \in Job
  BY JobTypes, RecordTypes DEF Processes
<1>2. ASSUME NEW kind \in BillingKinds, LoadBilling(p, kind) PROVE Stays(p)
  <2> DEFINE j == [Idle EXCEPT !.kind = kind, !.step = "retrieve", !.row = billing]
  <2>1. Begin(p, j) /\ Same /\ UNCHANGED trials /\ billing.subscribed
    BY <1>2, FilledSame DEF LoadBilling
  <2>2. j.kind = kind /\ j.step = "retrieve" /\ j.row = billing
    BY <1>1, Fields
  <2>3. kind # "activate"
    BY DEF BillingKinds
  <2> HIDE DEF j
  <2>4. QED
    BY <1>1, <2>1, <2>2, <2>3, Starting
<1>3. CASE Retrieve(p)
  <2> DEFINE next == IF job[p].kind = "subscription" THEN "save" ELSE "update"
             j == [job[p] EXCEPT !.sub = chargebee, !.step = next]
  <2>1. Continue /\ Same /\ UNCHANGED trials /\ job[p].kind \in BillingKinds
        /\ job[p].step = "retrieve"
    BY <1>3, FilledSame DEF Retrieve
  <2>2. Finish(p) \/ (Become(p, j) /\ (job[p].kind = "trial" => ~job[p].row.trial_started))
    BY <1>3 DEF Retrieve
  <2>3. next # "idle" /\ (job[p].kind = "trial" => next = "update")
    OBVIOUS
  <2> HIDE DEF next
  <2>4. j.kind = job[p].kind /\ j.step = next /\ j.row = job[p].row
    BY <1>1, Fields
  <2>5. job[p].kind # "activate"
    BY <2>1 DEF BillingKinds
  <2> HIDE DEF j
  <2>6. \/ OnlyJob(p) /\ job'[p] = Idle
        \/ OnlyJob(p) /\ job'[p] = j /\ (job[p].kind = "trial" => ~job[p].row.trial_started)
    BY <1>1, <2>2, Moving
  <2>7. QED
    BY <1>1, <2>1, <2>3, <2>4, <2>5, <2>6, Going
<1>4. CASE CallChargebee(p) /\ (undisturbed' => job[p].kind # "trial")
  <2> DEFINE j == [job[p] EXCEPT !.step = "save", !.sub = chargebee']
  <2>1. /\ job[p].kind \in BillingKinds /\ job[p].step = "update"
        /\ UNCHANGED <<tenant, users, invites, billing>>
    BY <1>4 DEF CallChargebee
  <2>2. created' = created /\ (job[p].kind # "trial" => trials' = trials)
    BY <1>4 DEF CallChargebee, ToFree, OpenCheckout, CancelSubscription, StartTrial
  <2>3. Same /\ job[p].kind # "activate"
    BY <2>1, <2>2 DEF Same, BillingKinds
  <2>4. j.kind = job[p].kind /\ j.step = "save" /\ j.row = job[p].row
    BY <1>1, Fields
  <2>5. \/ (Become(p, j) \/ Finish(p)) /\ Continue
        \/ AnswerLost(p) /\ UNCHANGED broken
    BY <1>4 DEF CallChargebee
  <2> HIDE DEF j
  <2>6. CASE (Become(p, j) \/ Finish(p)) /\ Continue
    <3>1. OnlyJob(p) /\ (job'[p] = Idle \/ job'[p] = j)
      BY <1>1, <2>6, Moving
    <3>2. ~Placed(p)
      BY <2>3 DEF Placed, Activating, Storing, At
    <3>3. ~Placed(p)'
      BY <2>3, <2>4, <3>1, FilledSame DEF Placed, Activating, Storing, At
    <3>4. broken' = broken /\ undisturbed' = undisturbed
      BY <2>6 DEF Continue
    <3>5. job'[p].step # "update"
      BY <2>4, <3>1, FilledSame
    <3>6. "none" \notin RowKinds /\ (undisturbed' => job[p].kind # "trial")
      BY <1>4 DEF RowKinds, BillingKinds
    <3>7. QED
      BY <2>1, <2>2, <2>3, <2>4, <3>1, <3>2, <3>3, <3>4, <3>5, <3>6, FilledSame DEF Stays, At
  <2>7. CASE AnswerLost(p) /\ UNCHANGED broken
    <3>1. OnlyJob(p) /\ job'[p] = Idle /\ undisturbed' = FALSE
      BY <1>1, <2>7, Moving DEF AnswerLost, Disturb
    <3>2. ~Placed(p)
      BY <2>3 DEF Placed, Activating, Storing, At
    <3>3. ~Placed(p)'
      BY <3>1, FilledSame DEF Placed, Activating, Storing, At
    <3>4. "none" \notin RowKinds
      BY DEF RowKinds, BillingKinds
    <3>5. QED
      BY <2>3, <2>7, <3>1, <3>2, <3>3, <3>4, FilledSame DEF Stays, At
  <2>8. QED
    BY <2>5, <2>6, <2>7
<1>5. QED
  BY <1>2, <1>3, <1>4

LEMMA NightlyStays ==
    ASSUME TypeOK, LoadNightly \/ RetrieveNightly \/ ConvertToFree
    PROVE  Stays(Beat)
<1> USE DEF people, paid
<1>1. Beat \in Processes /\ job[Beat] \in Job /\ Idle \in Job
  BY JobTypes, RecordTypes DEF Processes
<1>2. "none" \notin RowKinds /\ "nightly" \in RowKinds /\ "nightly" # "trial"
  BY DEF RowKinds, BillingKinds
<1>3. CASE LoadNightly
  <2> DEFINE j == [Idle EXCEPT !.kind = "nightly", !.step = "retrieve", !.row = billing]
  <2>1. Same /\ trials' = trials /\ broken' = broken /\ billing.subscribed
        /\ job[Beat].step = "idle" /\ (undisturbed' => undisturbed /\ Quiet)
    BY <1>3, FilledSame DEF LoadNightly
  <2>2. OnlyJob(Beat) /\ job'[Beat] = j
    BY <1>1, <1>3, Moving DEF LoadNightly
  <2>3. j.kind = "nightly" /\ j.step = "retrieve" /\ j.row = billing
    BY <1>1, Fields
  <2> HIDE DEF j
  <2>4. ~Placed(Beat) /\ ~Placed(Beat)'
    BY <2>1, <2>2, <2>3 DEF Placed, Activating, Storing, At
  <2>5. QED
    BY <1>2, <2>1, <2>2, <2>3, <2>4 DEF Stays, At
<1>4. CASE RetrieveNightly
  <2> DEFINE next == IF Expired(chargebee) THEN "update" ELSE "save"
             j == [job[Beat] EXCEPT !.sub = chargebee, !.step = next]
  <2>1. Continue /\ Same /\ UNCHANGED trials /\ job[Beat].kind = "nightly"
        /\ job[Beat].step = "retrieve" /\ (Finish(Beat) \/ Become(Beat, j))
    BY <1>4, FilledSame DEF RetrieveNightly, At
  <2>2. next # "idle"
    OBVIOUS
  <2> HIDE DEF next
  <2>3. j.kind = job[Beat].kind /\ j.step = next /\ j.row = job[Beat].row
    BY <1>1, Fields
  <2> HIDE DEF j
  <2>4. OnlyJob(Beat) /\ (job'[Beat] = Idle \/ job'[Beat] = j)
    BY <1>1, <2>1, Moving
  <2>5. QED
    BY <1>1, <2>1, <2>2, <2>3, <2>4, Going
<1>5. CASE ConvertToFree
  <2> DEFINE j == [job[Beat] EXCEPT !.step = "save", !.sub = chargebee']
  <2>1. Same /\ trials' = trials /\ job[Beat].kind = "nightly"
        /\ job[Beat].step = "update"
    BY <1>5, FilledSame DEF ConvertToFree, At
  <2>2. \/ Become(Beat, j) /\ Continue
        \/ AnswerLost(Beat) /\ UNCHANGED broken
    BY <1>5 DEF ConvertToFree
  <2>3. j.kind = job[Beat].kind /\ j.step = "save" /\ j.row = job[Beat].row
    BY <1>1, Fields
  <2> HIDE DEF j
  <2>4. ~Placed(Beat)
    BY <2>1 DEF Placed, Activating, Storing, At
  <2>5. CASE Become(Beat, j) /\ Continue
    <3>1. OnlyJob(Beat) /\ job'[Beat] = j
      BY <1>1, <2>5, Moving
    <3>2. ~Placed(Beat)'
      BY <2>1, <2>3, <3>1 DEF Placed, Activating, Storing, At
    <3>3. broken' = broken /\ undisturbed' = undisturbed
      BY <2>5 DEF Continue
    <3>4. QED
      BY <1>2, <2>1, <2>3, <2>4, <3>1, <3>2, <3>3 DEF Stays, At
  <2>6. CASE AnswerLost(Beat) /\ UNCHANGED broken
    <3>1. OnlyJob(Beat) /\ job'[Beat] = Idle /\ undisturbed' = FALSE
      BY <1>1, <2>6, Moving DEF AnswerLost, Disturb
    <3>2. ~Placed(Beat)'
      BY <3>1, FilledSame DEF Placed, Activating, Storing, At
    <3>3. QED
      BY <1>2, <2>1, <2>4, <2>6, <3>1, <3>2, FilledSame DEF Stays, At
  <2>7. QED
    BY <2>2, <2>5, <2>6
<1>6. QED
  BY <1>3, <1>4, <1>5

\* An activation before the default data is there, or when it is there already.
LEMMA ActivationStays ==
    ASSUME TypeOK, NEW p \in Webs,
           \/ \E e \in Emails : OpenActivation(p, e)
           \/ FillTenant(p) /\ tenant = "filled"
    PROVE  Stays(p)
<1> USE DEF people, paid
<1>1. p \in Processes /\ job[p] \in Job /\ Idle \in Job
  BY JobTypes, RecordTypes DEF Processes
<1>2. ASSUME NEW e \in Emails, OpenActivation(p, e) PROVE Stays(p)
  <2> DEFINE j == [Idle EXCEPT !.kind = "activate", !.step = "fill", !.email = e]
  <2>1. Begin(p, j) /\ Same /\ UNCHANGED trials
    BY <1>2, FilledSame DEF OpenActivation
  <2>2. j.kind = "activate" /\ j.step = "fill"
    BY <1>1, Fields
  <2> HIDE DEF j
  <2>3. QED
    BY <1>1, <2>1, <2>2, Starting DEF RowKinds, BillingKinds
<1>3. CASE FillTenant(p) /\ tenant = "filled"
  <2>1. Continue /\ Same /\ UNCHANGED trials /\ Finish(p) /\ job[p].kind = "activate"
        /\ job[p].step = "fill"
    BY <1>3, FilledSame DEF FillTenant, At
  <2>2. OnlyJob(p) /\ job'[p] = Idle
    BY <1>1, <2>1, Moving
  <2>3. QED
    BY <1>1, <2>1, <2>2, Going
<1>4. QED
  BY <1>2, <1>3

\* A fault, of any request.
Fails(p) ==
    /\ OnlyJob(p) /\ Same /\ job'[p] = Idle
    /\ ~undisturbed' /\ (broken => broken') /\ (Placed(p) => broken')

LEMMA FaultFails ==
    ASSUME TypeOK, NEW p \in Processes, CallFails(p) \/ Crash(p)
    PROVE  Fails(p)
<1> USE DEF people, paid
<1>1. PICK fault : Disturb(p, fault) /\ broken' = (broken \/ Breaks(p))
                  /\ UNCHANGED <<people, billing, paid>>
  BY DEF CallFails, Crash
<1>2. OnlyJob(p) /\ job'[p] = Idle /\ ~undisturbed'
  BY <1>1, Moving DEF Disturb
<1>3. Placed(p) => Breaks(p)
  BY DEF Placed, Activating, Storing, At, Breaks
<1>4. Same
  BY <1>1, FilledSame
<1>5. QED
  BY <1>1, <1>2, <1>3, <1>4 DEF Fails

LEMMA AsideOfRequests ==
    ASSUME TypeOK,
           \/ \E e \in Emails : \/ ResendActivation(e) \/ Login(e) \/ WithdrawInvite(e)
                                \/ InviteExpires(e) \/ InviteElsewhere(e)
                                \/ SettleElsewhere(e) \/ DeactivateUser(e)
           \/ CompleteCheckout \/ TrialRunsOut \/ SubscriptionEnds
           \/ PlanIsChanged \/ GiveForFree
           \/ UNCHANGED vars
    PROVE  Aside
<1> USE DEF people, paid
<1>1. ASSUME NEW e \in Emails,
             \/ ResendActivation(e) \/ Login(e) \/ WithdrawInvite(e)
             \/ InviteExpires(e) \/ InviteElsewhere(e)
             \/ SettleElsewhere(e) \/ DeactivateUser(e)
      PROVE  Aside
  BY <1>1, FilledSame
     DEF ResendActivation, Login, WithdrawInvite, InviteExpires, InviteElsewhere,
         SettleElsewhere, DeactivateUser, Atomic, Aside
<1>2. CASE CompleteCheckout \/ TrialRunsOut \/ SubscriptionEnds \/ PlanIsChanged
  BY <1>2, FilledSame
     DEF CompleteCheckout, TrialRunsOut, SubscriptionEnds, PlanIsChanged, Change, Aside
<1>3. CASE GiveForFree
  <2>1. billing' = [billing EXCEPT !.free_forever = TRUE] /\ billing \in Billing
    BY <1>3, TypeParts DEF GiveForFree
  <2>2. /\ billing'.subscribed = billing.subscribed
        /\ billing'.trial_started = billing.trial_started
    BY <2>1, SMT DEF Billing
  <2>3. QED
    BY <1>3, <2>2 DEF GiveForFree, Change, Aside, Same
<1>4. CASE UNCHANGED vars
  BY <1>4, FilledSame DEF vars, Aside
<1>5. QED
  BY <1>1, <1>2, <1>3, <1>4

\* What is left of Next.
LEMMA StepKinds ==
    ASSUME TypeOK, [Next]_vars
    PROVE  \/ Aside
           \/ \E p \in Processes : Stays(p) \/ Fails(p)
           \/ \E p \in Webs : \/ FillTenant(p) /\ tenant # "filled"
                              \/ ActivateUser(p) \/ CreateSubscription(p)
                              \/ StoreSubscription(p)
                              \/ CallChargebee(p) /\ undisturbed' /\ job[p].kind = "trial"
                              \/ SaveBilling(p)
           \/ SaveNightly
<1>1. Webs \subseteq Processes /\ Beat \in Processes
  BY DEF Processes
<1>2. CASE \E p \in Webs : \/ Registration(p) \/ Invitation(p) \/ UserChange(p)
  BY <1>1, <1>2, RegistrationStays, InvitationStays, UserChangeStays
<1>3. ASSUME NEW p \in Webs, Activation(p)
      PROVE  \/ Stays(p)
             \/ FillTenant(p) /\ tenant # "filled"
             \/ ActivateUser(p) \/ CreateSubscription(p) \/ StoreSubscription(p)
  BY <1>3, ActivationStays DEF Activation
<1>4. ASSUME NEW p \in Webs, BillingRequest(p)
      PROVE  \/ Stays(p)
             \/ CallChargebee(p) /\ undisturbed' /\ job[p].kind = "trial"
             \/ SaveBilling(p)
  BY <1>4, BillingStays DEF BillingRequest
<1>5. CASE Nightly
  BY <1>1, <1>5, NightlyStays DEF Nightly
<1>6. CASE \E p \in Processes : CallFails(p) \/ Crash(p)
  BY <1>6, FaultFails
<1>7. QED
  BY <1>1, <1>2, <1>3, <1>4, <1>5, <1>6, AsideOfRequests DEF Next

\* The steps of an activation, and the saves.
LEMMA ActivationSteps ==
    ASSUME TypeOK, NEW p \in Webs
    PROVE  /\ FillTenant(p) /\ tenant # "filled" =>
                /\ OnlyJob(p) /\ Continue /\ tenant' = "filled" /\ UNCHANGED <<billing, paid>>
                /\ At(p, "activate", "fill") /\ At(p, "activate", "activate")'
           /\ ActivateUser(p) =>
                /\ OnlyJob(p) /\ Continue /\ UNCHANGED <<tenant, billing, paid>>
                /\ At(p, "activate", "activate") /\ At(p, "activate", "subscribe")'
                /\ job'[p].row = billing
           /\ CreateSubscription(p) =>
                /\ OnlyJob(p) /\ created' = created + 1 /\ UNCHANGED <<tenant, billing, trials>>
                /\ At(p, "activate", "subscribe")
                /\ \/ /\ Continue /\ At(p, "activate", "store")'
                      /\ job'[p].row = job[p].row
                   \/ job'[p] = Idle /\ broken' /\ ~undisturbed'
           /\ StoreSubscription(p) =>
                /\ OnlyJob(p) /\ Continue /\ UNCHANGED <<tenant, paid>>
                /\ At(p, "activate", "store") /\ job'[p] = Idle
                /\ billing'.subscribed /\ billing'.trial_started = job[p].row.trial_started
<1> USE DEF people, paid
<1>1. p \in Processes /\ job[p] \in Job /\ job[p].row \in Billing
  <2>1. p \in Processes /\ job[p] \in Job
    BY JobTypes DEF Processes
  <2>2. QED
    BY <2>1 DEF Job
<1>2. ASSUME FillTenant(p), tenant # "filled"
      PROVE  /\ OnlyJob(p) /\ Continue /\ tenant' = "filled" /\ UNCHANGED <<billing, paid>>
             /\ At(p, "activate", "fill") /\ At(p, "activate", "activate")'
  BY <1>1, <1>2, Moving DEF FillTenant, At
<1>3. ASSUME ActivateUser(p)
      PROVE  /\ OnlyJob(p) /\ Continue /\ UNCHANGED <<tenant, billing, paid>>
             /\ At(p, "activate", "activate") /\ At(p, "activate", "subscribe")'
             /\ job'[p].row = billing
  <2> DEFINE j == [job[p] EXCEPT !.step = "subscribe", !.row = billing]
  <2>1. OnlyJob(p) /\ job'[p] = j
    BY <1>1, <1>3, Moving DEF ActivateUser
  <2>2. j.kind = job[p].kind /\ j.step = "subscribe" /\ j.row = billing
    BY <1>1, Fields
  <2> HIDE DEF j
  <2>3. QED
    BY <1>3, <2>1, <2>2 DEF ActivateUser, At
<1>4. ASSUME CreateSubscription(p)
      PROVE  /\ OnlyJob(p) /\ created' = created + 1 /\ UNCHANGED <<tenant, billing, trials>>
             /\ At(p, "activate", "subscribe")
             /\ \/ /\ Continue /\ At(p, "activate", "store")'
                   /\ job'[p].row = job[p].row
                \/ job'[p] = Idle /\ broken' /\ ~undisturbed'
  <2>1. /\ created' = created + 1 /\ UNCHANGED <<tenant, billing, trials>>
        /\ At(p, "activate", "subscribe")
    BY <1>4 DEF CreateSubscription
  <2>2. CASE Goto(p, "store") /\ Continue
    BY <1>1, <2>1, <2>2, Moving DEF At
  <2>3. CASE AnswerLost(p) /\ broken' = TRUE
    BY <1>1, <2>1, <2>3, Moving DEF AnswerLost, Disturb
  <2>4. QED
    BY <1>4, <2>2, <2>3 DEF CreateSubscription
<1>5. ASSUME StoreSubscription(p)
      PROVE  /\ OnlyJob(p) /\ Continue /\ UNCHANGED <<tenant, paid>>
             /\ At(p, "activate", "store") /\ job'[p] = Idle
             /\ billing'.subscribed /\ billing'.trial_started = job[p].row.trial_started
  <2>1. \A row \in Billing : LET b == [row EXCEPT !.subscribed = TRUE]
                             IN  b.subscribed /\ b.trial_started = row.trial_started
    BY SMT DEF Billing
  <2>2. QED
    BY <1>1, <1>5, <2>1, Moving DEF StoreSubscription
<1>6. QED
  BY <1>2, <1>3, <1>4, <1>5

\* billing.save() of a loaded row, by a request or by the nightly task.
Saves(p, trial) ==
    /\ OnlyJob(p) /\ Continue /\ UNCHANGED <<tenant, paid>>
    /\ job[p].kind \in RowKinds /\ job[p].step = "save" /\ job'[p] = Idle
    /\ trial <=> job[p].kind = "trial"
    /\ billing'.subscribed = job[p].row.subscribed
    /\ billing'.trial_started = (job[p].row.trial_started \/ trial)

LEMMA SavingRows ==
    ASSUME TypeOK
    PROVE  /\ \A p \in Webs : SaveBilling(p) => Saves(p, job[p].kind = "trial")
           /\ SaveNightly => Saves(Beat, FALSE)
<1> USE DEF people
<1>1. \A row \in Billing : \A plan, b :
         /\ LET r == [row EXCEPT !.plan = plan, !.trial_started = b]
            IN  r.subscribed = row.subscribed /\ r.trial_started = b
         /\ LET r == [row EXCEPT !.plan = plan]
            IN  r.subscribed = row.subscribed /\ r.trial_started = row.trial_started
  BY SMT DEF Billing
<1>2. ASSUME NEW p \in Processes
      PROVE  job[p].row \in Billing /\ job[p].row.trial_started \in BOOLEAN
  <2>1. job[p].row \in Billing
    BY JobTypes DEF Job
  <2>2. QED
    BY <2>1, SMT DEF Billing
<1>3. ASSUME NEW p \in Webs, SaveBilling(p) PROVE Saves(p, job[p].kind = "trial")
  <2> DEFINE plan == IF job[p].kind = "cancel" THEN job[p].row.plan ELSE job[p].sub.plan
             b == job[p].row.trial_started \/ job[p].kind = "trial"
  <2>1. p \in Processes
    BY DEF Processes
  <2>2. billing' = [job[p].row EXCEPT !.plan = plan, !.trial_started = b]
    BY <1>3 DEF SaveBilling
  <2> HIDE DEF plan
  <2>3. billing'.subscribed = job[p].row.subscribed /\ billing'.trial_started = b
    BY <1>1, <1>2, <2>1, <2>2
  <2>4. OnlyJob(p) /\ job'[p] = Idle
    BY <1>3, <2>1, Moving DEF SaveBilling
  <2>5. QED
    BY <1>3, <2>3, <2>4 DEF SaveBilling, Saves, RowKinds
<1>4. ASSUME SaveNightly PROVE Saves(Beat, FALSE)
  <2>1. Beat \in Processes
    BY DEF Processes
  <2>2. /\ billing'.subscribed = job[Beat].row.subscribed
        /\ billing'.trial_started = job[Beat].row.trial_started
    BY <1>1, <1>2, <1>4, <2>1 DEF SaveNightly
  <2>3. (job[Beat].row.trial_started \/ FALSE) = job[Beat].row.trial_started
    BY <1>2, <2>1
  <2>4. OnlyJob(Beat) /\ job'[Beat] = Idle
    BY <1>4, <2>1, Moving DEF SaveNightly
  <2>5. QED
    BY <1>4, <2>2, <2>3, <2>4 DEF SaveNightly, Saves, RowKinds, At
<1>5. QED
  BY <1>3, <1>4

-----------------------------------------------------------------------------
(* The subscription.  One process at most is between the default data and  *)
(* its call, and nothing has been created while there is one.              *)

OneActivates ==
    /\ \A p, q \in Processes : Activating(p) /\ Activating(q) => p = q
    /\ \A p \in Processes : Activating(p) => tenant = "filled" /\ created = 0
    /\ \A p \in Processes : Storing(p) => created = 1
    /\ tenant # "filled" => created = 0
    /\ created <= 1

\* Once stored, the subscription is in every row that is loaded to be saved.
RowsSubscribed ==
    /\ \A p \in Processes : job[p].kind \in RowKinds => job[p].row.subscribed /\ billing.subscribed
    /\ billing.subscribed => created = 1
    /\ ~broken /\ tenant = "filled" => billing.subscribed \/ \E p \in Processes : Placed(p)

PaidInv == TypeOK /\ OneActivates /\ RowsSubscribed

LEMMA InitPaid == Init => PaidInv
<1> SUFFICES ASSUME Init PROVE PaidInv
  OBVIOUS
<1>1. \A p \in Processes : job[p] = Idle
  BY DEF Init
<1>2. \A p \in Processes : ~Activating(p) /\ ~Storing(p) /\ job[p].kind \notin RowKinds
  BY <1>1, RecordTypes DEF Activating, Storing, At, RowKinds, BillingKinds
<1>3. [NewBilling EXCEPT !.subscribed = TRUE].subscribed /\ ~NewBilling.subscribed
  BY SMT DEF NewBilling
<1>4. OneActivates
  BY <1>2 DEF Init, OneActivates
<1>5. RowsSubscribed
  BY <1>2, <1>3 DEF Init, RowsSubscribed
<1>6. QED
  BY <1>4, <1>5, InitType DEF PaidInv

LEMMA AsidePaid == PaidInv /\ Aside => OneActivates' /\ RowsSubscribed'
BY DEF PaidInv, Aside, Same, OneActivates, RowsSubscribed, Placed, Activating, Storing, At

\* What the jobs of the others say is as before.
LEMMA OthersPlaced ==
    ASSUME NEW p \in Processes, OnlyJob(p), NEW q \in Processes \ {p}
    PROVE  /\ job'[q] = job[q]
           /\ Activating(q)' <=> Activating(q)
           /\ Storing(q)' <=> Storing(q)
           /\ Placed(q)' <=> Placed(q)
BY DEF OnlyJob, Placed, Activating, Storing, At

LEMMA NotPlacedPaid ==
    ASSUME PaidInv, NEW p \in Processes, OnlyJob(p), Same, ~Placed(p)',
           broken => broken', ~Placed(p) \/ broken',
           job'[p].kind \in RowKinds => job'[p].row.subscribed /\ billing.subscribed
    PROVE  OneActivates' /\ RowsSubscribed'
<1>1. ~Activating(p)' /\ ~Storing(p)'
  BY DEF Placed
<1>2. OneActivates'
  BY <1>1, OthersPlaced DEF PaidInv, OneActivates, Same
<1>3. \A q \in Processes : job'[q].kind \in RowKinds => job'[q].row.subscribed /\ billing'.subscribed
  BY OthersPlaced DEF PaidInv, RowsSubscribed, Same
<1>4. ~broken' /\ tenant' = "filled" => billing'.subscribed \/ \E q \in Processes : Placed(q)'
  <2> SUFFICES ASSUME ~broken', tenant' = "filled", ~billing'.subscribed
               PROVE  \E q \in Processes : Placed(q)'
    OBVIOUS
  <2>1. PICK q \in Processes : Placed(q)
    BY DEF PaidInv, RowsSubscribed, Same
  <2>2. q # p
    BY <2>1
  <2>3. QED
    BY <2>1, <2>2, OthersPlaced
<1>5. QED
  BY <1>2, <1>3, <1>4 DEF PaidInv, RowsSubscribed, Same

LEMMA StepPaid == ASSUME PaidInv, [Next]_vars PROVE PaidInv'
<1> USE DEF paid
<1>1. TypeOK /\ TypeOK' /\ Webs \subseteq Processes /\ Beat \in Processes
  BY NextType DEF PaidInv, Processes
<1>2. ASSUME NEW p \in Processes, Stays(p) PROVE OneActivates' /\ RowsSubscribed'
  <2>1. /\ OnlyJob(p) /\ Same /\ ~Placed(p)' /\ ~Placed(p) /\ (broken => broken')
        /\ job'[p].kind \in RowKinds =>
             \/ job[p].kind \in RowKinds /\ job'[p].row = job[p].row
             \/ billing.subscribed /\ job'[p].row = billing
    BY <1>2 DEF Stays
  <2>2. job'[p].kind \in RowKinds => job'[p].row.subscribed /\ billing.subscribed
    BY <2>1 DEF PaidInv, RowsSubscribed
  <2>3. QED
    BY <2>1, <2>2, NotPlacedPaid
<1>3. ASSUME NEW p \in Processes, Fails(p) PROVE OneActivates' /\ RowsSubscribed'
  <2>1. /\ OnlyJob(p) /\ Same /\ job'[p] = Idle /\ (broken => broken')
        /\ ~Placed(p) \/ broken'
    BY <1>3 DEF Fails
  <2>2. ~Placed(p)' /\ job'[p].kind \notin RowKinds
    BY <2>1, FilledSame DEF Placed, Activating, Storing, At, RowKinds, BillingKinds
  <2>3. QED
    BY <2>1, <2>2, NotPlacedPaid
<1>4. ASSUME NEW p \in Webs, CallChargebee(p), job[p].kind = "trial"
      PROVE  OneActivates' /\ RowsSubscribed'
  <2> DEFINE j == [job[p] EXCEPT !.step = "save", !.sub = chargebee']
  <2>1. /\ OnlyJob(p) /\ (job'[p] = j \/ job'[p] = Idle) /\ broken' = broken
        /\ UNCHANGED <<tenant, billing, created>>
    BY <1>1, <1>4, Moving
       DEF CallChargebee, ToFree, OpenCheckout, CancelSubscription, StartTrial,
           Continue, AnswerLost, Disturb, people
  <2>2. j.kind = "trial" /\ j.row = job[p].row
    BY <1>1, <1>4, JobTypes, Fields
  <2>3. job[p].row.subscribed /\ billing.subscribed
    BY <1>1, <1>4 DEF PaidInv, RowsSubscribed, RowKinds, BillingKinds
  <2> HIDE DEF j
  <2>4. /\ ~Placed(p) /\ ~Placed(p)'
        /\ job'[p].kind \in RowKinds => job'[p].row.subscribed
    BY <1>4, <2>1, <2>2, <2>3, FilledSame
       DEF Placed, Activating, Storing, At, RowKinds, BillingKinds
  <2>5. QED
    BY <1>1, <2>1, <2>3, <2>4, FilledSame, NotPlacedPaid
<1>5. ASSUME NEW p \in Processes, NEW trial, Saves(p, trial) PROVE OneActivates' /\ RowsSubscribed'
  <2>1. /\ OnlyJob(p) /\ job'[p] = Idle /\ UNCHANGED <<tenant, created, broken>>
        /\ job[p].kind \in RowKinds /\ billing'.subscribed = job[p].row.subscribed
    BY <1>5 DEF Saves, Continue
  <2>2. ~Placed(p)' /\ job'[p].kind \notin RowKinds
    BY <2>1, FilledSame DEF Placed, Activating, Storing, At, RowKinds, BillingKinds
  <2>3. billing.subscribed /\ billing'.subscribed
    BY <2>1 DEF PaidInv, RowsSubscribed
  <2>4. OneActivates'
    BY <2>1, <2>2, OthersPlaced DEF PaidInv, OneActivates, Placed
  <2>5. RowsSubscribed'
    BY <2>1, <2>2, <2>3, OthersPlaced DEF PaidInv, RowsSubscribed
  <2>6. QED
    BY <2>4, <2>5
<1>6. ASSUME NEW p \in Webs, FillTenant(p), tenant # "filled" PROVE OneActivates' /\ RowsSubscribed'
  <2>1. /\ OnlyJob(p) /\ tenant' = "filled" /\ UNCHANGED <<billing, created>>
        /\ At(p, "activate", "activate")'
    BY <1>1, <1>6, ActivationSteps
  <2>2. Activating(p)' /\ ~Storing(p)' /\ Placed(p)' /\ job'[p].kind \notin RowKinds
    BY <2>1 DEF Placed, Activating, Storing, At, RowKinds, BillingKinds
  <2>3. created = 0 /\ \A q \in Processes : ~Activating(q) /\ ~Storing(q)
    BY <1>6 DEF PaidInv, OneActivates
  <2>4. OneActivates'
    BY <1>1, <2>1, <2>2, <2>3, OthersPlaced DEF OneActivates
  <2>5. RowsSubscribed'
    BY <1>1, <2>1, <2>2, OthersPlaced DEF PaidInv, RowsSubscribed
  <2>6. QED
    BY <2>4, <2>5
<1>7. ASSUME NEW p \in Webs, ActivateUser(p) PROVE OneActivates' /\ RowsSubscribed'
  <2>1. /\ OnlyJob(p) /\ UNCHANGED <<tenant, billing, created, broken>>
        /\ At(p, "activate", "activate") /\ At(p, "activate", "subscribe")'
    BY <1>1, <1>7, ActivationSteps DEF Continue
  <2>2. /\ Activating(p) /\ ~Storing(p) /\ job'[p].kind \notin RowKinds
        /\ Activating(p)' /\ ~Storing(p)' /\ Placed(p)'
    BY <2>1 DEF Placed, Activating, Storing, At, RowKinds, BillingKinds
  <2>3. OneActivates'
    BY <1>1, <2>1, <2>2, OthersPlaced DEF PaidInv, OneActivates
  <2>4. RowsSubscribed'
    BY <1>1, <2>1, <2>2, OthersPlaced DEF PaidInv, RowsSubscribed
  <2>5. QED
    BY <2>3, <2>4
<1>8. ASSUME NEW p \in Webs, CreateSubscription(p) PROVE OneActivates' /\ RowsSubscribed'
  <2>1. /\ OnlyJob(p) /\ created' = created + 1 /\ UNCHANGED <<tenant, billing>>
        /\ At(p, "activate", "subscribe")
        /\ \/ At(p, "activate", "store")' /\ broken' = broken
           \/ job'[p] = Idle /\ broken'
    BY <1>1, <1>8, ActivationSteps DEF Continue
  <2>2. Activating(p) /\ ~Activating(p)' /\ job'[p].kind \notin RowKinds
    BY <2>1, FilledSame DEF Activating, At, RowKinds, BillingKinds
  <2>3. created = 0 /\ tenant = "filled" /\ created' = 1 /\ ~billing.subscribed
        /\ \A q \in Processes \ {p} : ~Activating(q)
    BY <1>1, <2>1, <2>2 DEF PaidInv, OneActivates, RowsSubscribed
  <2>4. broken' \/ Placed(p)'
    BY <2>1 DEF Placed, Storing
  <2>5. OneActivates'
    BY <1>1, <2>1, <2>2, <2>3, OthersPlaced DEF OneActivates
  <2>6. RowsSubscribed'
    BY <1>1, <2>1, <2>2, <2>3, <2>4, OthersPlaced DEF PaidInv, RowsSubscribed
  <2>7. QED
    BY <2>5, <2>6
<1>9. ASSUME NEW p \in Webs, StoreSubscription(p) PROVE OneActivates' /\ RowsSubscribed'
  <2>1. /\ OnlyJob(p) /\ UNCHANGED <<tenant, created, broken>> /\ job'[p] = Idle
        /\ At(p, "activate", "store") /\ billing'.subscribed
    BY <1>1, <1>9, ActivationSteps DEF Continue
  <2>2. /\ Storing(p) /\ ~Placed(p)' /\ ~Activating(p)' /\ ~Storing(p)'
        /\ job'[p].kind \notin RowKinds
    BY <2>1, FilledSame DEF Placed, Activating, Storing, At, RowKinds, BillingKinds
  <2>3. created = 1
    BY <1>1, <2>2 DEF PaidInv, OneActivates
  <2>4. OneActivates'
    BY <1>1, <2>1, <2>2, OthersPlaced DEF PaidInv, OneActivates
  <2>5. RowsSubscribed'
    BY <1>1, <2>1, <2>2, <2>3, OthersPlaced DEF PaidInv, RowsSubscribed
  <2>6. QED
    BY <2>4, <2>5
<1>10. ASSUME Aside PROVE OneActivates' /\ RowsSubscribed'
  BY <1>10, AsidePaid
<1>11. OneActivates' /\ RowsSubscribed'
  <2>1. CASE \E p \in Processes : Stays(p) \/ Fails(p)
    BY <1>2, <1>3, <2>1
  <2>2. CASE \/ \E p \in Webs : SaveBilling(p)
             \/ SaveNightly
    BY <1>1, <1>5, <2>2, SavingRows
  <2>3. QED
    BY <1>1, <1>4, <1>6, <1>7, <1>8, <1>9, <1>10, <2>1, <2>2, StepKinds
<1>12. QED
  BY <1>1, <1>11 DEF PaidInv

LEMMA Paid == Spec => []PaidInv
  BY InitPaid, StepPaid, PTL DEF Spec

\* However many activation links are followed at once, again or half way, the
\* tenant is subscribed at most once.
THEOREM SubscribedOnce == Spec => []OneSubscription
<1>1. PaidInv => OneSubscription
  BY DEF PaidInv, OneActivates, OneSubscription
<1>2. QED
  BY <1>1, Paid, PTL

\* A tenant whose activation was not cut off has its subscription on record.
THEOREM ActivationSubscribes == Spec => []ActivatedMeansSubscribed
<1>1. PaidInv => ActivatedMeansSubscribed
  <2> SUFFICES ASSUME PaidInv, ~broken, Quiet, tenant = "filled"
               PROVE  billing.subscribed /\ created = 1
    BY DEF ActivatedMeansSubscribed
  <2>1. \A p \in Processes : ~Placed(p)
    BY DEF Quiet, Placed, Activating, Storing, At
  <2>2. QED
    BY <2>1 DEF PaidInv, RowsSubscribed
<1>2. QED
  BY <1>1, Paid, PTL

-----------------------------------------------------------------------------
(* The trial.  Without overlap and faults, one request at most is under    *)
(* way, and its row is the row that is stored.                             *)

Loaded(p) ==
    \/ job[p].kind \in RowKinds
    \/ job[p].kind = "activate" /\ job[p].step \in {"subscribe", "store"}

RestIsNone == \A p \in Processes : job[p].step = "idle" => job[p].kind = "none"

RowsCurrent ==
    /\ \A p, q \in Processes : job[p].step # "idle" /\ job[q].step # "idle" => p = q
    /\ \A p \in Processes : Loaded(p) => job[p].row.trial_started = billing.trial_started
    /\ \A p \in Processes : At(p, "trial", "update") => ~job[p].row.trial_started
    /\ trials <= 1
    /\ trials = 1 => billing.trial_started \/ \E p \in Processes : At(p, "trial", "save")

TrialInv == TypeOK /\ RestIsNone /\ (undisturbed => RowsCurrent)

LEMMA InitTrial == Init => TrialInv
<1> SUFFICES ASSUME Init PROVE TrialInv
  OBVIOUS
<1>1. \A p \in Processes : job[p].step = "idle" /\ job[p].kind = "none"
  BY RecordTypes DEF Init
<1>2. \A p \in Processes : ~Loaded(p) /\ ~At(p, "trial", "update")
  BY <1>1 DEF Loaded, At, RowKinds, BillingKinds
<1>3. trials = 0
  BY DEF Init
<1>4. RowsCurrent
  BY <1>1, <1>2, <1>3 DEF RowsCurrent
<1>5. QED
  BY <1>1, <1>4, InitType DEF TrialInv, RestIsNone

LEMMA AsideTrial == TrialInv /\ Aside => RestIsNone' /\ (undisturbed' => RowsCurrent')
BY DEF TrialInv, Aside, Same, RestIsNone, RowsCurrent, Loaded, At

\* What the only request under way leaves to be shown.
LEMMA AloneTrial ==
    ASSUME TrialInv, NEW p \in Processes, OnlyJob(p), undisturbed,
           job[p].step # "idle" \/ Quiet,
           Loaded(p)' => job'[p].row.trial_started = billing'.trial_started,
           At(p, "trial", "update")' => ~job'[p].row.trial_started,
           trials' <= 1,
           trials' = 1 => billing'.trial_started \/ At(p, "trial", "save")'
    PROVE  RowsCurrent'
<1>1. \A q \in Processes \ {p} : job[q].step = "idle" /\ job[q].kind = "none"
  BY DEF TrialInv, RestIsNone, RowsCurrent, Quiet
<1>2. \A q \in Processes \ {p} : job'[q].step = "idle" /\ job'[q].kind = "none"
  BY <1>1 DEF OnlyJob
<1>3. \A q \in Processes \ {p} : ~Loaded(q)' /\ ~At(q, "trial", "update")'
  BY <1>2 DEF Loaded, At, RowKinds, BillingKinds
<1>4. QED
  BY <1>2, <1>3 DEF RowsCurrent

LEMMA RestStep ==
    ASSUME RestIsNone, NEW p \in Processes, OnlyJob(p),
           job'[p].step = "idle" => job'[p].kind = "none"
    PROVE  RestIsNone'
BY DEF RestIsNone, OnlyJob

LEMMA StepTrial == ASSUME TrialInv, [Next]_vars PROVE TrialInv'
<1> USE DEF paid
<1>1. TypeOK /\ TypeOK' /\ Webs \subseteq Processes /\ Beat \in Processes /\ RestIsNone
  BY NextType DEF TrialInv, Processes
<1>2. /\ Idle.step = "idle" /\ Idle.kind = "none" /\ "none" \notin RowKinds
      /\ "activate" \notin RowKinds
  BY FilledSame DEF RowKinds, BillingKinds
<1>3. undisturbed => /\ \A p \in Processes :
                          /\ Loaded(p) => job[p].row.trial_started = billing.trial_started
                          /\ At(p, "trial", "update") => ~job[p].row.trial_started
                     /\ trials <= 1
                     /\ \A p \in Processes : job[p].step # "idle" /\ ~At(p, "trial", "save")
                                               /\ trials = 1 => billing.trial_started
  <2>1. ASSUME undisturbed, NEW p \in Processes, job[p].step # "idle",
               ~At(p, "trial", "save"), trials = 1
        PROVE  billing.trial_started
    <3>1. \A q \in Processes : At(q, "trial", "save") => q = p
      BY <2>1 DEF TrialInv, RowsCurrent, At
    <3>2. QED
      BY <2>1, <3>1 DEF TrialInv, RowsCurrent
  <2>2. QED
    BY <2>1 DEF TrialInv, RowsCurrent
<1>4. trials \in Nat /\ trials' \in Nat
  BY <1>1, TypeParts
<1>5. ASSUME NEW p \in Processes, Stays(p) PROVE RestIsNone' /\ (undisturbed' => RowsCurrent')
  <2>1. OnlyJob(p) /\ Same /\ (job'[p].step = "idle" => job'[p].kind = "none") /\ ~Placed(p)'
    BY <1>5 DEF Stays
  <2>2. RestIsNone'
    BY <1>1, <2>1, RestStep
  <2>3. ASSUME undisturbed' PROVE RowsCurrent'
    <3>1. /\ undisturbed /\ trials' = trials
          /\ job[p].step # "idle" \/ Quiet
          /\ ~At(p, "trial", "save") /\ ~At(p, "trial", "save")'
      BY <1>5, <2>3 DEF Stays
    <3>2. /\ job'[p].kind \in RowKinds =>
               \/ job[p].kind \in RowKinds /\ job'[p].row = job[p].row
               \/ job'[p].row = billing
          /\ At(p, "trial", "update")' => ~job'[p].row.trial_started
      BY <1>5 DEF Stays
    <3>3. billing'.trial_started = billing.trial_started
      BY <2>1 DEF Same
    <3>4. Loaded(p)' => job'[p].kind \in RowKinds
      BY <1>1, <2>1, JobTypes DEF Loaded, Placed, Activating, Storing, At
    <3>5. Loaded(p)' => job'[p].row.trial_started = billing'.trial_started
      BY <1>3, <3>1, <3>2, <3>3, <3>4 DEF Loaded
    <3>6. trials = 1 => billing.trial_started
      <4>1. CASE job[p].step # "idle"
        BY <1>3, <3>1, <4>1
      <4>2. CASE Quiet
        BY <3>1, <4>2 DEF TrialInv, RowsCurrent, Quiet, At
      <4>3. QED
        BY <3>1, <4>1, <4>2
    <3>7. trials' <= 1 /\ (trials' = 1 => billing'.trial_started)
      BY <1>3, <3>1, <3>3, <3>6
    <3>8. QED
      BY <2>1, <3>1, <3>2, <3>5, <3>7, AloneTrial
  <2>4. QED
    BY <2>2, <2>3
<1>6. ASSUME NEW p \in Processes, Fails(p) PROVE RestIsNone' /\ (undisturbed' => RowsCurrent')
  BY <1>1, <1>2, <1>6, RestStep DEF Fails
<1>7. ASSUME NEW p \in Webs, CallChargebee(p), undisturbed', job[p].kind = "trial"
      PROVE  RestIsNone' /\ RowsCurrent'
  <2> DEFINE j == [job[p] EXCEPT !.step = "save", !.sub = chargebee']
  <2>1. StartTrial(p) /\ At(p, "trial", "update") /\ UNCHANGED billing
    BY <1>7 DEF CallChargebee, ToFree, OpenCheckout, CancelSubscription, StartTrial, At
  <2>2. /\ Continue
        /\ IF Took("trial", chargebee') THEN Become(p, j) ELSE Finish(p)
    BY <1>7 DEF CallChargebee, AnswerLost, Disturb
  <2>3. j.kind = "trial" /\ j.step = "save" /\ j.row = job[p].row
    BY <1>1, <1>7, JobTypes, Fields
  <2>4. undisturbed /\ trials = 0 /\ ~billing.trial_started
        /\ job[p].row.trial_started = billing.trial_started
    <3>1. undisturbed /\ Loaded(p) /\ job[p].step # "idle" /\ ~At(p, "trial", "save")
      BY <1>7, <2>1, <2>2 DEF Continue, Loaded, At, RowKinds, BillingKinds
    <3>2. ~job[p].row.trial_started /\ job[p].row.trial_started = billing.trial_started
      BY <1>1, <1>3, <2>1, <3>1
    <3>3. trials # 1 /\ trials <= 1
      BY <1>1, <1>3, <3>1, <3>2
    <3>4. QED
      BY <1>4, <3>1, <3>2, <3>3, SMT
  <2> HIDE DEF j
  <2>5. CASE chargebee'.status = "in_trial"
    <3>1. Took("trial", chargebee') /\ trials' = 1
      BY <2>1, <2>4, <2>5 DEF Took, StartTrial
    <3>2. OnlyJob(p) /\ job'[p] = j
      BY <1>1, <2>2, <3>1, Moving
    <3>3. At(p, "trial", "save")' /\ ~At(p, "trial", "update")'
      BY <2>3, <3>2 DEF At
    <3>4. Loaded(p)' => job'[p].row.trial_started = billing'.trial_started
      BY <2>1, <2>3, <2>4, <3>2
    <3>5. RestIsNone'
      BY <1>1, <2>3, <3>2, RestStep
    <3>6. QED
      BY <1>1, <2>1, <2>4, <3>1, <3>2, <3>3, <3>4, <3>5, AloneTrial DEF At
  <2>6. CASE chargebee'.status # "in_trial"
    <3>1. ~Took("trial", chargebee') /\ trials' = 0
      BY <2>1, <2>4, <2>6 DEF Took, StartTrial
    <3>2. OnlyJob(p) /\ job'[p] = Idle
      BY <1>1, <2>2, <3>1, Moving
    <3>3. ~At(p, "trial", "update")' /\ ~Loaded(p)'
      BY <1>2, <3>2 DEF At, Loaded
    <3>4. RestIsNone'
      BY <1>1, <1>2, <3>2, RestStep
    <3>5. QED
      BY <1>1, <2>1, <2>4, <3>1, <3>2, <3>3, <3>4, AloneTrial DEF At
  <2>7. QED
    BY <2>5, <2>6
<1>8. ASSUME NEW p \in Processes, NEW trial, Saves(p, trial)
      PROVE  RestIsNone' /\ (undisturbed' => RowsCurrent')
  <2>1. /\ OnlyJob(p) /\ job'[p] = Idle /\ trials' = trials
        /\ job[p].step = "save" /\ job[p].kind \in RowKinds /\ undisturbed' = undisturbed
    BY <1>8 DEF Saves, Continue
  <2>2. RestIsNone' /\ ~Loaded(p)' /\ ~At(p, "trial", "update")'
    BY <1>1, <1>2, <2>1, RestStep DEF Loaded, At
  <2>3. ASSUME undisturbed' PROVE RowsCurrent'
    <3>1. job[p].row.trial_started = billing.trial_started
      BY <1>3, <2>1, <2>3 DEF Loaded
    <3>2. trials = 1 => billing'.trial_started
      <4>1. CASE At(p, "trial", "save")
        BY <1>8, <4>1 DEF Saves, At
      <4>2. CASE ~At(p, "trial", "save")
        <5>1. trials = 1 => job[p].row.trial_started
          BY <1>3, <2>1, <2>3, <3>1, <4>2
        <5>2. QED
          BY <1>8, <5>1 DEF Saves
      <4>3. QED
        BY <4>1, <4>2
    <3>3. QED
      BY <1>3, <2>1, <2>2, <2>3, <3>2, AloneTrial
  <2>4. QED
    BY <2>2, <2>3
<1>9. ASSUME NEW p \in Webs,
             (FillTenant(p) /\ tenant # "filled") \/ ActivateUser(p)
               \/ CreateSubscription(p) \/ StoreSubscription(p)
      PROVE  RestIsNone' /\ (undisturbed' => RowsCurrent')
  <2>1. /\ OnlyJob(p) /\ trials' = trials /\ job[p].kind = "activate" /\ job[p].step # "idle"
        /\ undisturbed' => undisturbed
    BY <1>1, <1>9, ActivationSteps DEF Continue, At
  <2>2. job'[p].kind # "trial" /\ (job'[p].step = "idle" => job'[p].kind = "none")
    BY <1>1, <1>2, <1>9, ActivationSteps DEF At
  <2>3. Loaded(p)' => \/ job'[p].row = billing /\ billing' = billing
                      \/ Loaded(p) /\ job'[p].row = job[p].row /\ billing' = billing
    BY <1>1, <1>2, <1>9, ActivationSteps DEF At, Loaded
  <2>4. undisturbed' => billing'.trial_started = billing.trial_started
    <3>1. CASE ~StoreSubscription(p)
      BY <1>1, <1>9, <3>1, ActivationSteps
    <3>2. CASE StoreSubscription(p)
      <4>1. Loaded(p) /\ billing'.trial_started = job[p].row.trial_started
        BY <1>1, <3>2, ActivationSteps DEF Loaded, At
      <4>2. QED
        BY <1>1, <1>3, <2>1, <4>1
    <3>3. QED
      BY <3>1, <3>2
  <2>5. RestIsNone'
    BY <1>1, <2>1, <2>2, RestStep
  <2>6. ASSUME undisturbed' PROVE RowsCurrent'
    <3>1. undisturbed
      BY <2>1, <2>6
    <3>2. Loaded(p)' => job'[p].row.trial_started = billing'.trial_started
      BY <1>1, <1>3, <2>3, <2>4, <2>6, <3>1
    <3>3. ~At(p, "trial", "update")' /\ ~At(p, "trial", "save")
      BY <2>1, <2>2 DEF At
    <3>4. trials' <= 1 /\ (trials' = 1 => billing'.trial_started)
      BY <1>1, <1>3, <2>1, <2>4, <2>6, <3>1, <3>3
    <3>5. QED
      BY <1>1, <2>1, <3>1, <3>2, <3>3, <3>4, AloneTrial
  <2>7. QED
    BY <2>5, <2>6
<1>10. ASSUME Aside PROVE RestIsNone' /\ (undisturbed' => RowsCurrent')
  BY <1>10, AsideTrial
<1>11. RestIsNone' /\ (undisturbed' => RowsCurrent')
  <2>1. CASE \E p \in Processes : Stays(p) \/ Fails(p)
    BY <1>5, <1>6, <2>1
  <2>2. CASE \/ \E p \in Webs : SaveBilling(p)
             \/ SaveNightly
    BY <1>1, <1>8, <2>2, SavingRows
  <2>3. CASE \E p \in Webs : CallChargebee(p) /\ undisturbed' /\ job[p].kind = "trial"
    BY <1>7, <2>3
  <2>4. CASE \E p \in Webs : \/ FillTenant(p) /\ tenant # "filled"
                             \/ ActivateUser(p) \/ CreateSubscription(p)
                             \/ StoreSubscription(p)
    BY <1>9, <2>4
  <2>5. QED
    BY <1>1, <1>10, <2>1, <2>2, <2>3, <2>4, StepKinds
<1>12. QED
  BY <1>1, <1>11 DEF TrialInv

\* A tenant is granted its free trial once, as long as requests do not overlap
\* and are not cut off.
THEOREM TrialGrantedOnce == Spec => []TrialOnce
<1>1. Spec => []TrialInv
  BY InitTrial, StepTrial, PTL DEF Spec
<1>2. TrialInv => TrialOnce
  BY DEF TrialInv, RowsCurrent, TrialOnce
<1>3. QED
  BY <1>1, <1>2, PTL

-----------------------------------------------------------------------------
(* Who turns a user active.                                                *)

LEMMA StatusAfter ==
    ASSUME TypeOK, NEW e \in Emails, NEW f \in Emails
    PROVE  /\ \A s : [users EXCEPT ![f].status = s][e].status
                       = IF e = f THEN s ELSE users[e].status
           /\ \A l : [users EXCEPT ![f].link = l][e].status = users[e].status
           /\ \A s, r, x : x = [users EXCEPT ![f].status = s, ![f].admin = r]
                           => x[e].status = IF e = f THEN s ELSE users[e].status
<1>1. users \in [Emails -> User] /\ users[e] \in User /\ users[f] \in User
  BY DEF TypeOK
<1>2. \A u \in User : /\ \A s : [u EXCEPT !.status = s].status = s
                      /\ \A l : [u EXCEPT !.link = l].status = u.status
                      /\ \A s, r : [u EXCEPT !.status = s, !.admin = r].status = s
  BY SMT DEF User
<1>3. \A s : [users EXCEPT ![f].status = s][e].status = IF e = f THEN s ELSE users[e].status
  BY <1>1, <1>2
<1>4. \A l : [users EXCEPT ![f].link = l][e].status = users[e].status
  BY <1>1, <1>2
<1>5. ASSUME NEW s, NEW r, NEW x, x = [users EXCEPT ![f].status = s, ![f].admin = r]
      PROVE  x[e].status = IF e = f THEN s ELSE users[e].status
  <2> DEFINE u == [users[f] EXCEPT !.status = s, !.admin = r]
  <2>1. u.status = s
    BY <1>1, <1>2
  <2>2. x = [users EXCEPT ![f] = u]
    BY <1>1, <1>5
  <2> HIDE DEF u
  <2>3. CASE e = f
    BY <1>1, <2>1, <2>2, <2>3
  <2>4. CASE e # f
    BY <1>1, <2>2, <2>4
  <2>5. QED
    BY <2>3, <2>4
<1>6. QED
  BY <1>3, <1>4, <1>5

\* A deactivated user comes back by a PATCH, or by the activation that is the
\* tenant's first to get as far as its subscription.
THEOREM OnlyPatchesReadmit == Spec => LinksDoNotReadmit
<1> USE DEF people, paid
<1> DEFINE Readmitted(e) == users[e].status = "inactive" /\ users'[e].status = "active"
           ByPatch(e) == \E p \in Webs : /\ job[p].email = e
                                         /\ \/ job[p].kind = "patch"
                                            \/ job[p].kind = "activate" /\ created = 0
<1>1. ASSUME PaidInv, [Next]_vars
      PROVE  \A e \in Emails :
               users[e].status = "inactive" /\ users'[e].status = "active" =>
                   \E p \in Webs : /\ job[p].email = e
                                  /\ \/ job[p].kind = "patch"
                                     \/ job[p].kind = "activate" /\ created = 0
  <2> SUFFICES ASSUME NEW e \in Emails, Readmitted(e) PROVE ByPatch(e)
    OBVIOUS
  <2>1. users \in [Emails -> User] /\ Webs \subseteq Processes /\ users' # users
    BY <1>1 DEF PaidInv, TypeOK, Processes
  <2>2. ASSUME NEW p \in Webs, ActivateUser(p) PROVE ByPatch(e)
    <3>1. job[p].email = e /\ Activating(p)
      BY <2>1, <2>2 DEF ActivateUser, Activating, At
    <3>2. created = 0 /\ job[p].kind = "activate"
      BY <1>1, <2>1, <3>1 DEF PaidInv, OneActivates, Activating
    <3>3. QED
      BY <3>1, <3>2
  <2>3. ASSUME NEW p \in Webs, SaveUser(p) PROVE ByPatch(e)
    BY <2>1, <2>3 DEF SaveUser, At
  <2>4. ASSUME NEW p \in Webs,
               Registration(p) \/ AcceptInvite(p) \/ StoreSubscription(p)
        PROVE  FALSE
    <3>1. TypeOK /\ Owner \in Emails /\ job[p].email \in Emails
      BY <1>1, <2>1, TenancyAssumption, JobTypes DEF PaidInv, Job
    <3>2. CASE Register(p)
      BY <2>1, <3>1, <3>2, StatusAfter DEF Register
    <3>3. CASE AwaitActivation(p)
      <4>1. users' = [users EXCEPT ![Owner].status = "inactive", ![Owner].admin = TRUE]
        BY <3>3 DEF AwaitActivation
      <4>2. \A s, r, x : x = [users EXCEPT ![Owner].status = s, ![Owner].admin = r]
                          => x[e].status = IF e = Owner THEN s ELSE users[e].status
        BY <3>1, StatusAfter
      <4>3. users'[e].status = IF e = Owner THEN "inactive" ELSE users[e].status
        BY <4>1, <4>2
      <4>4. QED
        BY <4>3
    <3>4. CASE MailActivation(p)
      BY <2>1, <3>1, <3>4, StatusAfter DEF MailActivation
    <3>5. CASE AcceptInvite(p)
      BY <2>1, <3>1, <3>5, StatusAfter DEF AcceptInvite
    <3>6. CASE StoreSubscription(p)
      BY <2>1, <3>1, <3>6, StatusAfter DEF StoreSubscription
    <3>7. QED
      BY <2>4, <3>2, <3>3, <3>4, <3>5, <3>6 DEF Registration
  <2>5. ASSUME NEW f \in Emails,
               \/ ResendActivation(f) \/ Login(f) \/ WithdrawInvite(f)
               \/ InviteExpires(f) \/ InviteElsewhere(f) \/ SettleElsewhere(f)
               \/ DeactivateUser(f)
        PROVE  FALSE
    <3>1. TypeOK
      BY <1>1 DEF PaidInv
    <3>2. \/ users' = users
          \/ \E l : users' = [users EXCEPT ![f].link = l]
          \/ \E s \in {"elsewhere", "inactive"} : users' = [users EXCEPT ![f].status = s]
      BY <2>5 DEF ResendActivation, Login, WithdrawInvite, InviteExpires, InviteElsewhere,
                  SettleElsewhere, DeactivateUser
    <3>3. ASSUME NEW l, users' = [users EXCEPT ![f].link = l] PROVE FALSE
      BY <2>1, <3>1, <3>3, StatusAfter
    <3>4. ASSUME NEW s \in {"elsewhere", "inactive"},
                 users' = [users EXCEPT ![f].status = s]
          PROVE  FALSE
      <4>1. users'[e].status = IF e = f THEN s ELSE users[e].status
        BY <3>1, <3>4, StatusAfter
      <4>2. QED
        BY <4>1
    <3>5. QED
      BY <2>1, <3>2, <3>3, <3>4
  <2>6. ASSUME NEW p \in Webs, Activation(p) PROVE ByPatch(e)
    BY <2>1, <2>2, <2>4, <2>6
       DEF Activation, OpenActivation, FillTenant, CreateSubscription
  <2>7. ASSUME NEW p \in Webs, Invitation(p) PROVE FALSE
    BY <2>1, <2>4, <2>7, ZenonT(60)
       DEF Invitation, StartInvite, ReplaceInvite, OpenInvite, SendInvite, UseInvite
  <2>8. ASSUME NEW p \in Webs, UserChange(p) PROVE ByPatch(e)
    BY <2>1, <2>3, <2>8 DEF UserChange, LoadUser
  <2>9. ASSUME NEW p \in Webs, BillingRequest(p) PROVE FALSE
    BY <2>1, <2>9 DEF BillingRequest, LoadBilling, Retrieve, CallChargebee, SaveBilling
  <2>10. ASSUME Nightly PROVE FALSE
    BY <2>1, <2>10 DEF Nightly, LoadNightly, RetrieveNightly, ConvertToFree, SaveNightly
  <2>11. ASSUME NEW p \in Processes, CallFails(p) \/ Crash(p) PROVE FALSE
    BY <2>1, <2>11 DEF CallFails, Crash
  <2>12. ASSUME \/ CompleteCheckout \/ TrialRunsOut \/ SubscriptionEnds
                \/ PlanIsChanged \/ GiveForFree
         PROVE  FALSE
    BY <2>1, <2>12
       DEF CompleteCheckout, TrialRunsOut, SubscriptionEnds, PlanIsChanged, GiveForFree, Change
  <2>13. ~UNCHANGED vars
    BY <2>1 DEF vars
  <2>14. QED
    BY <1>1, <2>4, <2>5, <2>6, <2>7, <2>8, <2>9, <2>10, <2>11, <2>12, <2>13 DEF Next
<1>2. QED
  BY <1>1, Paid, PTL DEF Spec, LinksDoNotReadmit

=============================================================================
