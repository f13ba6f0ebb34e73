# Lily: a verification project

Lily (`hellolily`) is a CRM: a Django application with a Celery worker fleet and
an AngularJS front end.  Most of it is one-row CRUD over an API.  The part that
is hard to get right is where it works together with somebody else's system: it
keeps a copy of every Gmail mailbox its users connect, sends their mail through
Gmail, records the phone calls VoIPGRID tells it about, has a subscription at
Chargebee for every tenant, and imports the address books its users keep at
Moneybird; and where several users change the contacts and accounts they share,
through serializers that save nested lists.  All of that is done by tasks and
requests that run concurrently, without locks, and mostly without transactions.
That is what the TLA+ modules in this directory are about.

## 1. The system's parts

| part | state | operations | interacts with |
|---|---|---|---|
| Email account synchronisation (`messaging/email/tasks.py`, `manager.py`, `connector.py`, `credentials.py`) | `EmailAccount`: `is_authorized`, `is_deleted`, `is_syncing`, `sync_failure_count`, `history_id`; the stored OAuth credentials | beat schedulers, incremental / full / finished / label-list tasks, OAuth callback, PATCH, destroy, cancel, nightly clean-up | Gmail API, the broker, the mirror (creates its tasks) |
| Message mirror (`manager.py`, `builders/message.py`) | `EmailMessage` with its labels and `read` flag, `NoEmailMessageId` | download, update labels, store a new message, delete on a history item | Gmail API, account sync, local label changes |
| Local label changes (`manager.py:366-510`, `api/views.py:180-420`) | the same rows | archive, move, trash, delete, spam, star, read | Gmail API, the mirror |
| Gmail label list (`manager.py:204-270`, `builders/label.py`) | `EmailLabel` | `synchronize_labels`, get-or-create on download | the mirror |
| Outbox, drafts, sending (`tasks.py:352-532`, `views.py`) | `EmailOutboxMessage`, drafts at Gmail | send, reply, forward, create / update / trash draft, the operator's resend | Gmail API, the mirror |
| Templates, attachments, sanitising, privacy | templates; sharing settings | rendering, filtering | - |
| Call records (`voipgrid/`, `calls/`) | `CallRecord`, `CallTransfer`, `CallParticipant` | webhooks ringing / in-progress / transfer / ended | VoIPGRID, push channel |
| Task monitor (`taskmonitor/`) | `TaskStatus` | `lock_task`, status view | Celery |
| Billing (`billing/`) | `Billing`; the subscription at Chargebee | subscription page, checkout, cancel, to-free, trial, nightly `check_subscriptions` | Chargebee, registration |
| Registration, invitations, users (`users/`, `tenant/`) | `Tenant`, `LilyUser`, `UserInvite` | register, activate, invite, accept, deactivate, PATCH | billing, mail |
| Integrations (`integrations/`) | `IntegrationDetails`, `IntegrationCredentials` | connect, refresh, settings, Moneybird import and push, documents and their events | third-party APIs, CRM records |
| Tenants | a thread-local tenant | middleware | every query |
| Search index | Elasticsearch documents | signals, reindex command | every model |
| CRM records (`api/nested/`, `contacts/`, `accounts/`) | `Contact`, `Account`, `Function`, `PhoneNumber`; cases, deals, notes | update through nested serializers, soft delete, `toggle_activation`, import of accounts from a file | search, push channel, Moneybird |
| Front end | - | - | the API |

Every task and request has the same shape: load a row into a model instance,
call another system, write later.  Two kinds of write differ in a way that
decides most of what follows: `save(update_fields=[...])` writes the named
columns and fails when the row is gone; `save()` writes *every* column of the
instance as it was loaded, and inserts the row again when it is gone.

What makes each part correct:

* **Account sync** - the stored history id never passes a change that nobody was
  told about; `is_syncing` (which suppresses scheduling) is backed by work in
  progress (it is not always, see section 3); a deleted account is left alone; refused credentials switch the
  account off; the account catches up with its mailbox.
* **Message mirror** - when everything has been processed the local copy has the
  messages and labels that Gmail has; a message is stored once; an e-mail is
  never registered as a non-e-mail.
* **Local changes** - what the user did at the end stands in both places.
* **Outbox** - a message is sent at most once per request to send it, is complete
  when it is, and is kept until it has been sent; a draft does not go back to an
  older text.
* **Calls** - an ended call stays ended, with its end time, whatever the order in
  which the notifications arrive.
* **Billing and registration** - a tenant is subscribed once, gets one trial, and
  has on record the plan Chargebee has; the seat count paid for equals the number
  of active users; who was deactivated stays out.
* **Integrations** - a connection is kept through concurrent refreshes; an import
  stores everything, once, and at the person it belongs to, however often it is
  repeated.
* **CRM records** - a contact has the numbers and the accounts its saves ask for,
  whoever else saves it at the time; account names are unique.

The hazards, each at its line, are in `PROJECT.json`.

## 2. The modules and the code they stand for

Seven modules model the code, one per component; each has an `MC` module that names
the sets and symmetries of its runs.  Another, `TextDelivery`, is an abstract
specification, and each of the seven has a module of theorems (`Outbox` has two:
`OutboxMailProofs` goes on where `OutboxProofs` ends).  Which definition stands for which
lines is in `PROJECT.json` under `map`.

All are built on the same grain.  A task or a request is a record in a function
over the processes (`job[w]`, `request[r]`) with the step it is at and the values
it has read; an action is what happens between two points at which another process
could notice.  Such points are the calls to other systems and the statements on
the database: there is no transaction around a task or a request
(`ATOMIC_REQUESTS` is not set), and tasks of different kinds run on different queues
and processes.  Where the code does open a transaction (the labels of a message,
the default data of a tenant, one entry of an import, a contact with its lists), the
transaction is one action.

### `EmailAccountSync`: the account row and its synchronisation

| state | stands for |
|---|---|
| `scenario` | which faults there are, which requests users make, how often the mailbox changes; fixed in a behaviour |
| `row` | the `EmailAccount` row: `is_authorized`, `is_deleted`, `is_syncing`, `sync_failure_count`, `history_id`, and whether it exists |
| `token` | the stored credentials as Google sees them: good, refused, marked invalid in the store, or gone |
| `now`, `oldest` | Gmail (external): the newest history id, and the oldest one it can still list from |
| `queue` | tasks waiting on the broker, by kind |
| `job` | what each worker does; `snap` is the model instance the task loaded |
| `handed`, `lost` | auxiliary: the changes that have tasks, and those whose task creation died half way |

The row is written in two ways, and the difference is kept: `SaveAll(snap)` is
Django's `save()`, all columns as loaded, and `save(update_fields=...)`, or a
queryset `update`, is an `EXCEPT` on the current row.

* `ScheduleSync`, `ScheduleLabels`, `ScheduleCleanup` are the beat entries of
  `celeryconfig.py`; the first chooses between nothing, an incremental and a full
  sync the way `synchronize_email_account_scheduler` does.
* `Start(w, k)` is the head of a task: load the account, build the connector,
  leave quietly when that fails.  `InvalidCredentials`, `TokenRefused`,
  `SaveRefused` and `CallFails` are the ways a call to Gmail ends otherwise, with
  the task's retry or the lack of it.
* `HistoryListed`, `StoreHistoryId`, `DispatchIncremental`, `CountFailure`,
  `TerminateSync` are `sync_by_history`; `MarkSyncing`, `ReadProfile`,
  `ListMessages`, `DispatchFull`, `EnqueueFinished`, `UnmarkSyncing` are
  `full_synchronize`, its chord, and `full_sync_finished`.
* `Patch`, `Destroy`, `Reconnect`, `PutCredentials`, `SaveRequest` are the API and
  the OAuth callback; `PurgeAccount` the nightly clean-up.
* `Crash(w)` kills a worker: a task that acknowledges late comes back, others are
  gone.

### `MailboxMirror`: the messages

| state | stands for |
|---|---|
| `sort`, `remote`, `log` | Gmail (external): what each message is, which labels it has, and the history, in order |
| `synced` | `EmailAccount.history_id` |
| `rows` | the `EmailMessage` table: primary key to message id, labels and read flag, with at most one row of an account and a message (`models.py:313-316`): a second insert is refused, and the task tries again |
| `noEmail` | `NoEmailMessageId` |
| `tasks`, `job` | the broker as a bag of tasks, the workers |
| `dropped`, `skipped`, `disturbed`, `syncs` | auxiliary: mails whose download was given up, or never sent because the sync died; deletions a sync jumped over or died with; messages that two jobs worked on at a time, or one gave up on; how many syncs were begun |

`DownloadedAlready` ... `SaveMessage` are the download and label-update tasks
(`manager.py:318-364` and `MessageBuilder`), statement by statement: finding the
row, finding out from its `sent_date` whether it had been stored, replacing its
labels (the only transaction) and saving it.  `PatchRead`, `RequestChange`,
`RequestTrash` are the API calls of a user, `ReadInfo` ... `TrashRemote` the tasks
behind them.  A worker may die at each of their steps, and `CanSave` refuses the
second row of a message.

An incremental sync is `GetHistory`, `ApplyHistory` (which stores the history id and
sorts the items into what was added, changed and deleted), `DeleteRow` and `SendTask`
for one message at a time, and `EndIncremental`; a full sync is `GetProfile`,
`ListMessages`, `LookUp`, `SendTask`, `EndFull`.  It may die between any two of these,
with its history id stored and its tasks not sent.  A message that was added
without any label (`unlabelled`) is passed over like a chat message, as
`manager.py:154` asks for `labelIds`.  Gmail's own side is `Arrive`, `Relabel`, `Vanish`.

When a sync runs, and whether it may, is `EmailAccountSync`'s subject; here one
may start at any time, beside others and beside all other tasks, which allows every
order the other module allows; `MaxSyncs` bounds how many there are.  In the other
direction, `EmailAccountSync` keeps only the number of message tasks.

### `CallRecord`: phone calls

| state | stands for |
|---|---|
| `internal`, `sent` | VoIPGRID (external): which calls go to internal numbers, and the notifications of each call in the order they were sent |
| `pending`, `resent` | which notifications no request has handled yet; how many were posted again |
| `records`, `transfers` | the `CallRecord` rows, and the number of `CallTransfer` rows by reported call and record |
| `request` | what each web process does; `row` is the instance it has loaded |
| `inTurn`, `inOrder` | auxiliary: the calls whose notifications were never handled two at a time, and in the order sent and once |

`Ring`, `PickUp`, `Transfer`, `HangUp` write notifications; `Receive` gives any
outstanding one to a web process (late, early, or again), `Die` kills the process
so that the notification may be posted again.  `Create`, `Load`, `Save` are
`save_ringing`, `save_in_progress` and `save_ended` with the `get_or_create` they
share; `Find`, `FindMerged`, `Attach` are `save_transfer`.

### `Outbox`: what users write; `TextDelivery`: what it promises

| state | stands for |
|---|---|
| `faults` | what goes wrong; fixed in a behaviour |
| `queue` | the broker's queue of mail tasks, in the order they were sent |
| `outbox` | `EmailOutboxMessage`: text to row, with the attachments copied to it |
| `rows` | the `EmailMessage` rows of drafts and of one received mail |
| `drafts`, `mailed` | Gmail (external) |
| `job` | what each worker, and the operator's command, is doing |
| `wanted`, `fresh`, `resent`, `lost`, `discarded`, `raced` | auxiliary: what was asked for, and the excuses the properties allow; `raced` are the texts whose task was in hand while another task about the same draft was |

`SendNew`, `SendDraft`, `ReplyOrForward`, `SaveNewDraft`, `SaveDraft`, `TrashDraft`
are the forms: the row first, then one task or two (a draft that is sent is also
removed, by a task of its own).  `Begin` is the head of a task and `CopyAttachments`
what it writes: a forward copies the attachments of its original, a sent draft
those the form names of the draft; `Answered`, `AnswerLost`, `NotFound`, `CallFails` are the ways the
call to Gmail ends, of which only the trash task tries again; `Store` is the message
that is read back, `DeleteRow` the end.  `Resend` is `resend_email`.
`SyncRemoves`, `SyncDownloads` are what the mirror does to the rows of drafts.

`TextDelivery` says it in three actions: a text is submitted, obtained by Gmail,
and then no longer kept.  `DeliversTexts` maps the outbox rows to `kept` and
`mailed`, `drafts` and `discarded` to `obtained`.

### `Tenancy`: a tenant, its users, its subscription

| state | stands for |
|---|---|
| `tenant`, `users`, `invites` | `Tenant` and its default data; `LilyUser` and `UserInvite` by address, with the links mailed for them |
| `billing` | the `Billing` row |
| `chargebee`, `created`, `trials`, `page` | Chargebee (external): the subscription, how many were made, how many trials were granted, an open checkout page |
| `job` | what each request, and the nightly task, is doing: the loaded user, billing row, subscription |
| `undisturbed`, `broken` | auxiliary: no request overlapped another or died; an activation was cut off |

`Register` ... `StoreSubscription` are registration and `ActivationView.get`,
`ReplaceInvite` ... `UseInvite` invitations, `DeactivateUser`, `LoadUser`, `SaveUser`
the users API, `LoadBilling` ... `SaveBilling` the billing API, `LoadNightly` ...
`SaveNightly` the task `check_subscriptions`, as far as it is about this tenant: it goes
through all tenants in a loop without handling errors (`billing/tasks.py:19-51`), so
that the trouble of another tenant may keep it from this one.  `update_subscription`
fails, as it does in the code (`billing/models.py:54` reads `is_free_forever`, a field
that does not exist): an invitation that is accepted adds a user and leaves the
quantity at Chargebee as it was.  `CompleteCheckout`, `TrialRunsOut`,
`SubscriptionEnds`, `PlanIsChanged` happen at Chargebee.  A save writes the
whole row, as it was loaded before the call to Chargebee.

### `Moneybird`: credentials, import, push

| state | stands for |
|---|---|
| `details`, `blob` | the `IntegrationDetails` row, and the credentials stored with it as one document: tokens and settings |
| `granted`, `expired` | the provider (external): the pairs of tokens it issued |
| `queued` | imports on the broker |
| `book` | Moneybird (external): its address book, an entry a page |
| `rows`, `prospects` | Lily's contacts and its accounts with the status Customer; its accounts with another status, which the import does not find |
| `links`, `held`, `twice` | functions; the details attached to contacts and accounts, and those attached more than once |
| `job` | what each process has loaded; `stale` says that others stored since |
| `wanted`, `raced`, `lost`, `overlapped` | auxiliary |

`Connect`, `PutNewCredentials`, `ExchangeCode`, `InstallToken` are the OAuth flow;
`LoadCredentials`, `Refresh`, `KeepToken` what `credentials.py` does before every
call; `SaveSetting`, `QueueImport` the setting with the import it starts;
`ShowEstimates`, `Search`, `PushContact` the other uses.  `StartImport`, `FetchPage`,
`FindContact`, `FindAccount`, `FindDetails`, `Commit`, `RollBack`, `EndImport` are
`import_moneybird_contacts`, with the loop variables `contact` and `account` kept
as the code keeps them.  Lily changes the spelling of details: `Stored` lower-cases
an email address when it is saved (`utils/models/models.py:117-119`), `Reformatted` is
what formatting makes of a phone number when a user saves its contact
(`api/mixins.py:243`); the import looks each up as Moneybird spells it.  `Spellings`
are the forms one detail may have.  `SaveContact`, `SaveAgain` and `SaveAccount` are
users who save a new contact, the same contact once more, and an account.

### `AddressBook`: a contact, its numbers and its accounts

| state | stands for |
|---|---|
| `scenario` | which requests come, which faults there are, and whether a country is known to format numbers by: always, never or now and then; fixed in a behaviour |
| `deleted`, `lock` | the contact's `is_deleted`; whose transaction has updated its row |
| `number`, `linked` | the `PhoneNumber` rows, and which of them the contact has |
| `accounts`, `apart` | the `Account` rows with name and `is_deleted`; what an import stored for an account and has not linked to it yet |
| `functions` | the accounts the contact has a `Function` with |
| `job` | what each web process is doing: its request, and what it has read |
| `asked`, `want` | auxiliary: the accounts and numbers that the saves, in the order of their transactions, ask for |
| `revived`, `mixed`, `raced`, `listed`, `died` | auxiliary: the races the properties name |

`LoadContact`, `CheckNumbers`, `CheckAccounts` are what a PUT or PATCH of a contact does
before it writes: `get_object`, `create_only`, the checks of ids and names, each in
a query of its own.  `Lock` is the UPDATE of the contact in the transaction, with the
list of the rows it has.  The UPDATE writes every column of the contact as it was
loaded, `is_deleted` among them (`Unlock`): a contact that was deleted meanwhile is
back, and one that was looked up with `filter_deleted=False` (`all`) stays deleted.
`CommitNumbers`, `CommitAccounts`, `RollBack` the rest of the
transaction, for a list of rows the contact owns and for a list of accounts.  Of the
numbers only those that differ from the row just read are saved (`is_dirty`).  The list
of accounts follows the code in that one child serializer saves every item: `Dirty`,
`Assigned`, `NamesFor` and `Collides` say which items are saved and what the fields that
the items before have left behind do to them.  `LoadNumbers`, `FormatNumber`,
`EndSave` are the formatting that comes after the transaction, when a country is
known; numbers that an import stored are as the file had them until then.
`DeleteContact`, `LoadFunction`, `SaveFunction` are the contact's other requests;
`LoadAccount`, `CheckName`, `SaveAccount` those of an account; `LookUp` ... `StoreAgain`
the import, row by row; its details are linked one statement at a time after the
transaction (`LinkDetail`), each of which may fail (`LinkFails`).  `Die` kills a process and rolls back what was open.

## 3. What the runs check

All cfgs say `CHECK_DEADLOCK FALSE`: each system may stop, because the
environment's changes (mail, requests, notifications, faults) are bounded.

| run | asks | bounds | shows |
|---|---|---|---|
| `account_faults` | `TypeOK`, `NoChangeSkipped`, `DeletedIsLeftAlone` | 2 workers; three scenarios: 1 change with crashes, failing calls, PATCH, destroy and clean-up; 2 changes with expiring history; 2 changes with crashes | whatever two syncs and a user's saves do to each other's stale rows, the stored history id is covered by tasks; a deleted account stays out of work |
| `account_settles` | `CatchesUp`, `RevokedIsNoticed` | 1 worker; three scenarios: 2 changes and expiring history, the same with PATCH and reconnect, or refused tokens and failing calls with them | while one task at a time gets to this account it always gets level with the mailbox; revoked access is noticed even when a failed full sync has left `is_syncing` on |
| `mirror_two_workers` | `TypeOK`, `NoMailForgotten`, `OnlyNonMailSkipped`, `Mirrored` | 1 message, 2 row keys, 2 changes, 2 syncs, 2 workers, crashes, failing calls, revoked access | no mail of the synchronised history is without a row or a task, and the copy is exact once all is processed, unless two jobs worked on the message at a time (1.07 million states) |
| `calls_recorded` | `TypeOK`, `NeverRingsAgain`, `EndIsKnown`, `RecordedAsItHappened` | 2 calls, 2 processes, 2 participants, 4 notifications, 1 of them repeated | what survives reordering, repetition and concurrency (311 thousand) |
| `outbox` | `TypeOK`, `NothingLost`, `NothingTwice`, `MailIsComplete`, `NoOldDraftRestored`, `DeliversTexts` | 3 texts, 3 rows, 2 workers, 1 resend, 1 lost answer of each text; the faults in five combinations | nothing is lost or sent twice by the program itself; the outbox implements `TextDelivery` (2.1 million) |
| `tenancy` | `TypeOK`, `OneSubscription`, `ActivatedMeansSubscribed`, `TrialOnce`, `LinksDoNotReadmit`, `PlanSettles` | 2 addresses, 2 web processes and the nightly worker; three scenarios of 4 to 6 requests, faults and changes | subscriptions, trials and users under concurrent requests, failing calls and crashes (1.1 million) |
| `moneybird` | `TypeOK`, `NoDuplicates`, `ImportIsComplete`, `NothingOnStrangers`, `ConnectionKept`, `ImportEnds` | 2 processes, address books of 1 or 2 entries, 1 expiring token; six scenarios of 2 or 3 requests | connections survive and imports are exact wherever the code can guarantee it (421 thousand) |
| `address_book` | `TypeOK`, `WorksWhereSaved`, `NumbersStand`, `NamesUnique` | 3 processes, 3 phone rows, 3 accounts, 2 names; five scenarios of 2 or 3 requests out of 1 to 8 | what saves leave behind is what they ask for, in the order of their transactions (529 thousand) |

Four runs are expected to fail.  Each shows that the program does not do what its
own comments say:

| run | the comment | what happens instead |
|---|---|---|
| `account_terminate` (`BrokenHistoryIsTerminated`) | `manager.py:130-131`: repeated failures terminate syncing | the full sync that answers a failure resets the count, so it never exceeds the limit, and the account alternates between the two for ever |
| `account_stuck` (`SyncingMeansBusy`) | `models/models.py:107-108`, `tasks.py:34`: `is_syncing` is "busy syncing already", and down when a full sync is done | with two workers, an incremental sync that had loaded the account during a full sync saves its whole row after `full_sync_finished` ran: the flag stays up, and no sync is started any more |
| `mirror_ghosts` (`NoGhosts`) | `manager.py:125`: a full sync restores the account | a full sync deletes nothing, and stores a history id beyond the deletions: messages deleted meanwhile stay |
| `outbox_overtaken` (`SentDraftIsComplete`) | `views.py:446` and `295`: the old draft is removed when its text is sent, and what it had attached is sent along | the removal is a task of its own that does not wait for the mail: with two workers it deletes the draft's row, with its pictures, before the mail is put together from it |

### What the properties say about their conditions

The deployment (`Procfile`, `docker-compose.yml`) runs each worker with `-c 12`, so no
safety property has one worker at a time as its condition.  Some hold only under
another one, and the condition is part of the statement.

* `Mirrored` excepts messages that two jobs worked on at a time, or that one gave up
  on (`disturbed`).  For the others an older set of labels can be written over a newer
  one, and a download can insert the row of a message whose deletion was just applied;
  nothing in the code claims otherwise, and TLC finds both without the exception.
  Deletions that a sync jumped over or died with are excepted too (`skipped`): they
  are what `mirror_ghosts` shows.  It compares labels through `LabelsOf`, which counts
  UNREAD once whether the label or the read flag says it, because that is how the
  code compares them.
* `NoMailForgotten` is about mail that the synchronised history tells of.  A mail that
  was added without any label is not among it until something else tells of it:
  `manager.py:154` passes it over with the chat messages.  Excused are downloads given
  up while access was revoked, and those a dying sync had not sent (`dropped`).
* `EndIsKnown` asks for a call's notifications to be handled one at a time
  (`inTurn`), in any order and repeatedly: two handlers at the same time overwrite
  each other's columns.  `RecordedAsItHappened` asks for order as well (`inOrder`),
  `NeverRingsAgain` for nothing.
* `CatchesUp` asks for calls that do not fail, and users who leave the account alone:
  `full_synchronize_email_account`, when a call fails after it has set `is_syncing`,
  leaves it set (`tasks.py:103-110`), and nothing but a refused token or a user ends that.
  Both liveness properties of the account are checked with one task about it at a
  time.  This is a limit of the run: `account_stuck` is a way in which `CatchesUp` fails
  with two.
* `NothingTwice` excuses a copy for every answer of Gmail that was lost and every
  run of the operator's command, because neither can be told from a mail that was
  not sent.
* `MailIsComplete` and `NoOldDraftRestored` except texts whose task was in hand beside
  another one about the same draft (`raced`), by any number of workers: the removal of
  a draft can overtake the mail that takes its attachments from it
  (`outbox_overtaken`), and two updates of a draft can change places.  What they
  exclude is that failures, retries, repetition or the order of the queue do it.
* `TrialOnce` asks for requests that do not overlap (`undisturbed`): two requests can
  both load a `Billing` row without a trial.  `ActivatedMeansSubscribed` excludes
  activations that died or whose call failed (`broken`): the code commits the
  default data before the subscription and does not come back to it.  `PlanSettles` is
  about nights on which the task comes as far as this tenant.
* `ConnectionKept` names the two ways a connection is lost: credentials stored over
  others that were not loaded (`raced`), and a process that dies or fails between
  receiving tokens and storing them (`lost`).
* `NoDuplicates` asks for imports that do not overlap (`overlapped`); each looks up
  before it inserts and there is no unique constraint.  It also excepts details whose
  spelling Lily changes: `EmailAddress.save` stores an address in lower case, but the
  import looks it up as Moneybird spells it, so each repetition adds a capitalised
  address again, and a phone number once a save of the contact has formatted it.
* `ImportIsComplete` asks that a postal address is with somebody, not with each entry
  that has it: the import looks it up among the addresses of the whole tenant and
  attaches it only when it had to be created (`tasks.py:144-148`), so the second of two
  entries with one address is left without.
* `WorksWhereSaved` counts as revived what `toggle_activation` does: `func.save()`
  inserts the row again that a save has removed meanwhile.
* `NumbersStand` names the formatting that had loaded a number before a later save
  (`mixed`).  That a saved number ends up formatted is asked where a country is always
  known and no process died, and not of a number that was imported and saved again
  unchanged: it is not dirty, and an import stores it as it stands in the file.
* `NamesUnique` excludes two things that break it: a save whose check is out of date
  (`raced`), and a list of several accounts with a name in it (`listed`).  The latter
  needs no second user.  The child serializer validates every item with the instance
  of the last item that had an id, and saves every item with what the items before it
  have left in `simple_data`, so an account may get another one's name.

### The bounds, and why they are enough

* `MaxSyncFailures = 1` (3 in the code) keeps both sides of the limit: the count
  saturates at 2.
* `QueueBound = 1`: one scheduled task of a kind may wait.  A second one finds the
  row as the first left it, and with two workers two can still run at once.
* `LastHistoryId = 2` and a scenario's `changes`: two changes are the least that tell
  "skipped one" from "behind", and let the history expire between them.  The scenario
  with every request and fault at once has one; `NoChangeSkipped` is proved for any
  number.
* `RowIds = {1, 2}`: two keys are needed for a refused insert or a re-insertion; a
  third row would be one more of the same.
* `MaxHistory` bounds the changes in the mailbox and, with `Room`, those that user
  tasks under way will still make; `MaxSyncs` the synchronisations.  Two of each let a
  message arrive and be changed, deleted or trashed while a sync, a download and a
  user's task are at it.  With one worker and no faults, three of each and every kind of
  change (`ReadAndMove`) were also checked (748 thousand states), without a difference.
* `Labels` are the two with special meaning in the code (UNREAD mirrors the read
  flag, TRASH has its own task).  One message is enough, because no code relates two
  messages: the sets a sync computes are taken message by message.
* `MaxSent = MaxTotal = 4`, `MaxResent = 1`: one call can ring, be picked up, be
  transferred and end, or two calls share the four; five notifications were also
  checked, with and without repetition, without a difference.
* `MaxTexts = 3`: a draft is made, changed and sent; or changed twice, which order
  needs.  `MaxResends = 1`, and of one text: the command is about one row at a time, and
  no two of its rows meet.  Faults come in combinations that say what the deployment has to do with:
  all of them together add states and no new interaction.
* `MaxRequests` of `tenancy`: six in the scenario of setting up (a registration, two
  activations, faults in between), five for the life of users, four for billing: two
  overlapping requests around a change at Chargebee and a fault.
* The scenarios of `moneybird` say what meets what: connecting with using the
  tokens, in two ways; repeated imports with failures; imports with users who save a
  contact, with an address book that changes, and with a user who saves the imported
  contact again and an account of the same name.  An entry a page, and two entries, let
  an entry move to a page that has been read.
* The scenarios of `address_book` keep apart what does not meet: numbers, with a
  country and now and then without one; the accounts a contact works at; names, with
  two requests and every fault or with three.  Two requests make a race, a third one shows that what it
  left does not last or does; three rows of a kind are one that is kept, one that is
  dropped and one that is new.  Everything it checks is proved for any number.

### The fairness assumed

Only the liveness properties use it.

* `EmailAccountSync!FairSpec`: weak fairness of the scheduler tasks, which beat
  starts every minute or hour (`celeryconfig.py`); weak fairness of each worker's next
  step, as a started task runs until it is done or its time limit ends it; strong
  fairness of starting a task of each kind, because queues are first-in first-out.
* `Tenancy!FairSpec`: weak fairness of the nightly task and its steps
  (`check_subscriptions` is a beat entry); requests owe nothing, and may hang.
* `Moneybird!Spec`: weak fairness of the next step of each process: a request or a
  task that was begun runs on.

Users, Google, Chargebee, the mailbox, the address book and faults owe nothing.


## 4. What is proved

Each theorem holds for every value of the constants, under the named assumption of
its module.  The lemmas about types say once what a change of a job or of a column
keeps; an invariant of a step then only looks at what the step changes.

`EmailAccountSyncProofs`:

* `TypeCorrect`: `Spec => []TypeOK`.  `TypeOK` is inductive (`BecomeType`, `GotoType`,
  `FinishType`, `RetryType`, `ColumnTypes`).
* `HistoryNeverSkips`: `Spec => []NoChangeSkipped`.  The property speaks of the row;
  but any instance a worker holds may become the row, because `save()` writes all
  columns.  The inductive invariant `HistoryInv` adds `Backed(w)`: a worker's snapshot,
  and the id it has read from Gmail and will store, are accounted for as well, at
  every step of every task.  Most steps only move on (`GotoPreserves`,
  `FinishPreserves`, `QuietPreserves`); the ones that store an id and hand changes over
  have lemmas of their own (`StorePreserves`, `HandOverPreserves`).
* `DeletedStaysAlone`: `Spec => DeletedIsLeftAlone`.  Once a deleted account is at rest,
  no instance is loaded that says otherwise (`LeftAlone`): what starts later finds it
  deleted and ends or stores it as it is.

`MailboxMirrorProofs`:

* `TypeCorrect`: `Spec => []TypeOK`, by `TypeInv`, which adds that a job at a step
  about a message has that message, and no id beyond the history.
* `SkipsNoMail`: `Spec => []OnlyNonMailSkipped`.  The builder's verdict comes from an
  instance somebody else may have deleted, so `MirrorInv` says what may be in hand:
  which messages exist at Gmail (`GmailInv`), what rows are about (`RowInv`), that a key
  in hand was or is a row of the same message (`KeyInv`), what a job has found out
  (`HeldInv`), and what it may register (`SkipInv`).
* `MailIsRemembered`: `Spec => []NoMailForgotten`.  `SureInv` states of the stored
  history id (`KnownBy(synced)`), and of what every sync has in hand, has stored or is
  about to store (`Aware`), that a mail known to it is sure: it has a row, a task, a job,
  a sync that has still to send its task, or was dropped with one (`Sure(m)`).  `SureGoes`
  says when `Sure(m)` survives a step.  A sync may die at each of its steps.

`CallRecordProofs`:

* `TypeCorrect`: `Spec => []TypeOK`, by `TypeInv`, which adds that the step of a request
  fits its notification.
* `NoCallRingsAgain`: `Spec => NeverRingsAgain`.
* `EndStays`: `Spec => []EndIsKnown`.  `EndInv` says: the end is a call's last
  notification (`EndsLast`); a call in turn has one request at a time (`Alone`); the row
  that request has loaded is still the row in the table (`Fresh`); and a handled end
  is in the record (`EndAccounted`).
* `RecordsTellWhatHappened`: `Spec => []RecordedAsItHappened`.  `RecordInv`: at every moment
  the record of a call that is followed, and its transfers, tell a prefix of its
  notifications, of which just the handled ones are no longer pending
  (`WrittenInOrder`); and its transfers go to its own record (`OwnTransfers`).

`OutboxProofs`:

* `TypeCorrect`: `Spec => []TypeOK`.
* `TextsAreKept`: `Spec => []NothingLost`.  `SafeInv` adds that a process past its call is
  about a text Gmail has, and what each kind of task may be about.
* `OutboxDelivers`: `Spec => DeliversTexts`, the refinement.  `DeliveryInv` has what the
  step-by-step argument needs: texts are numbered in the order of submission
  (`Numbered`), rows are kept texts (`KeptTexts`), and what Gmail has was submitted
  (`ObtainedTexts`).

`OutboxMailProofs`:

* `NothingIsSentTwice`: `Spec => []NothingTwice`.  A text has one task, which waits or is
  at one worker (`OneTask`); and what was mailed, together with the calls that this task
  and the operator's command may still make, is within what is excused (`Counted`).
* `DraftsInOrder`: `Spec => NoOldDraftRestored`, for any number of workers.  `OrderInv`
  (in `OutboxProofs`): what waits about a draft is in order (`QueueOrdered`), and younger
  than what is in hand (`JobsOlder`) and than what Gmail has (`DraftsOlder`).  `DraftInv`
  adds that a task which is beside another one about its draft is noted (`RacesNoted`),
  so that only a noted text can be the one that puts an older draft back.
* `MailsAreWhole`: `Spec => []MailIsComplete`, for any number of workers.  For a text that
  was not raced and has not been sent (`Due`), no task before it in the queue is about the
  message it takes its attachments from, and no job changes that message (`RowSafe`);
  nothing was copied before its turn and once in its turn (`Whole`).

`TenancyProofs`:

* `TypeCorrect`: `Spec => []TypeOK`.
* `SubscribedOnce` and `ActivationSubscribes`: `OneSubscription` and
  `ActivatedMeansSubscribed`, from `PaidInv`: one process at most is between the default
  data and its call to Chargebee, nothing was created while one is (`OneActivates`),
  and rows loaded to be saved have the subscription (`RowsSubscribed`).
* `TrialGrantedOnce`: `TrialOnce`, from `TrialInv`: without overlap the request under way
  holds the row that is stored.
* `OnlyPatchesReadmit`: `Spec => LinksDoNotReadmit`.

`MoneybirdProofs`:

* `TypeCorrect`: `Spec => []TypeOK`, with `WellFormed`: what a job has in hand at each of
  its steps.
* `ConnectionIsKept`: `Spec => []ConnectionKept`.  `ConnectionInv` adds that what is loaded
  and not stale is what is stored (`LoadedIsStored`), and that some process that is not
  stale holds the last tokens while they are not stored (`LastIsHeld`).
* `NothingTwice`: `Spec => []NoDuplicates`, from `RowsInv` (what is linked and held has
  rows) and `AloneInv`: one import runs at a time; what it has found is so, and a detail
  it has not found is missing (`Missing`), or is there in another spelling (`Respelt`).
* `NothingOnOthers`: `Spec => []NothingOnStrangers`, from `StrangersInv`.
* `ImportStoresAll`: `Spec => []ImportIsComplete`, from `ImportInv`: an import that was served
  every page has stored the entries of the pages it has passed, has the entry of its
  page in hand, and what it has found is there; a later save may change the spelling
  of what is stored, and no more (`HasSpelling`).

`AddressBookProofs`, where all four properties of its run are theorems:

* `TypeCorrect`: `Spec => []TypeOK`, by `TypeInv`, which adds that a job fits its step
  (`JobFits`).  The lock is right (`LockInv`): a request between its UPDATE and its
  commit has it.
* `WorksAsSaved`: `Spec => []WorksWhereSaved`, from `WorkInv`: a transaction under its lock
  has read every account asked for so far, so what it drops is all it should drop;
  and the contact's accounts exist.
* `NumbersAsSaved`: `Spec => []NumbersStand`, from `NumberInv`: what a formatting has in hand
  and has not been saved since is what is stored (`HandFits`), so is what a transaction
  compares its items with (`ReadFits`), and what is not formatted yet is about to be.
* `NamesStayUnique`: `Spec => []NamesUnique`, from `NameInv`: what a check has found is still
  so, up to the save, for every job that is not stale (`CheckHolds`).

Every invariant, action property and refinement that a passing run checks is a
theorem, but for `Mirrored`.  Checked by TLC only are `Mirrored`, the liveness properties
(`CatchesUp`, `RevokedIsNoticed`, `PlanSettles`, `ImportEnds`), as liveness under fairness
and ENABLED are out of the proof system's reach, and the violations of section 3.  No
module proved about declares a RECURSIVE operator.

## 5. Not modelled

Within the modelled parts:

* the content of messages, drafts, threads and attachments (a message is an id, labels
  and a flag; a text may have one file and one inline picture);
* the list of labels: each label has its row.  Star and spam change labels the same
  way as an archive, in tasks that are not retried;
* the rows of `CallParticipant` and the lookups that fill them, and timestamps (the
  number of a notification stands for its time);
* names, passwords, teams and two-factor devices of users; invoices, cards and the
  pages of billing;
* PandaDoc's documents and events, Slack's messages, and the push of a changed contact
  to Moneybird;
* creating a contact (nobody else knows its row), an account's own lists (they go the
  way of a contact's), the change log and webhooks;
* other tenants: `check_subscriptions` is modelled as far as it is about one.

Hazards that no property covers:

* a contact that is deleted while another request has it loaded is back when that
  request saves it (`api/nested/serializers.py:209`, `Unlock` in the model): no comment
  promises otherwise;
* an import of accounts links the details it stored after its transaction, each by a
  statement of its own (`accounts/api/views.py:256-276`): when one fails, the account
  stays without them, and is passed over when the file is imported again;
* the seats of a subscription do not follow the users (`billing/models.py:54`): every call
  of `update_subscription` for a tenant that pays fails;
* the purge removes an account by primary key without looking at `is_deleted` again
  (`tasks.py:617`): an account that was connected again meanwhile is removed.  TLC finds
  it in the model; nothing in the code promises otherwise;
* the finished-task of a full sync may run beside the last downloads (`manager.py:80`): it
  changes `is_syncing`, which the downloads do not read.

Components without a module:

* The Gmail label list: each synchronisation rewrites one row per label from Gmail's
  answer, and the one interleaving that fails (`bulk_create` beside a download) is a
  retried task.
* Templates, attachments, sanitising, privacy: functions of one message and one user.
* The legacy calls API, cases, deals, notes and tags, parcels, time logs, statistics and
  the change log: one row per request.
* The task monitor: `lock_task` has no caller.
* The tenants middleware: a filter on every query, whose correctness is about call
  sites and not about steps.
* The search index and the push channel: what they send is a copy, by signals of
  libraries.
* The front end: forms and lists over the API.

## 6. What could follow

* `LabelList` (`manager.py:204-270`, `builders/label.py`): the full list against the
  get-or-create of a download, and the label rows messages refer to.
* An abstract mirror (a set of messages with labels that follows Gmail's with delay),
  and `MailboxMirror` shown to implement it for messages that are not `disturbed`; an
  inductive invariant for `Mirrored`.
* PandaDoc's documents: the list view deletes a row when the call for its details
  fails for whatever reason, and an event that is delivered again extends a deal again.
* Theorems: the safety part of `PlanSettles` and `CatchesUp` (each step of the nightly
  task, and of a sync, lessens what is left to do).
