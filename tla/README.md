# Verification of the ArgoCD Addons Platform

The platform (Go service `cmd/aap-server` with `internal/*`, React UI) shows and changes Kubernetes
addons that ArgoCD deploys from Git. Its long-running and concurrent part is the **migration pipeline**
(`internal/migration`, `internal/api/migration.go`): it moves an addon, cluster by cluster, from an OLD
ArgoCD to the NEW one in ten steps, three of which are pull requests. Around it are stores that several
requests or replicas change at once, and a **web UI** whose pages send requests that settle in any order.
This project models the pipeline, the store of the connections, the accounts, the assistant's sessions,
and the pages of the UI with the services they show. All paths are below `src/`.

## Inventory

| Component | State it keeps | Operations | What is hard |
|---|---|---|---|
| Executor `internal/migration/executor.go` | `running` (id → cancel function), private copies of records in goroutines | Start, RunSteps, ContinueAfterPR, RetryStep, Pause, Cancel, StartBatch, advanceBatch | goroutines and requests write whole records from stale copies; a cancelled goroutine goes on until it notices; restarts |
| Steps `steps.go`, rollback `rollback.go` | none of their own: labels in two repositories, pull requests, applications in two ArgoCDs | ten steps, rollback of steps 3 and 5 | reviewers merge at any time, main moves between read and branch, lost answers, retried steps |
| Store `store.go`, `configmap_store.go` | id → record; batches | Save, Get, List, Delete, HasActiveMigration | no versions: last writer wins; saves fail and their errors are ignored; the file store lists the batch as a migration |
| HTTP handlers `internal/api/migration.go` | none | start, batch, continue, pause, retry, cancel, delete, merge, rollback | check-then-act over several saves; a merge handler that writes before it calls the executor |
| Connection store `internal/config/{store,k8s_store}.go`, `internal/service/connection.go` | connections, active one, default flag | save, delete, activate | two replicas, optimistic versions, lock per load and per save |
| Accounts `internal/auth/store.go` | ConfigMap, Secret, cache of both | create, update, delete, reload | two objects written one after the other; ignored errors; cache swap |
| Sessions, login limiter `internal/api/router.go` | tokens with expiry, login attempts per address | login, check, cleanup, limit | boundaries of windows, cleanup against use |
| Assistant `internal/api/agent.go`, `internal/ai/memory.go` | chat sessions, remembered facts | chat, reset, prune, remember | caps, work outside the lock |
| Git mutation `internal/gitops/yaml_mutator.go` | none (pure) | set a label, set a version | line-wise edits of YAML |
| Git providers `internal/gitprovider` | none | branches, files, pull requests, merges | update by SHA with one blind retry |
| Services `internal/service` for clusters, addons, dashboard | none (pure) | list, compare, count, classify | the server counts by one list of statuses, the page filters by another |
| Web UI, one page at a time `ui/src/views` | what was loaded, filters, forms, flags per request | load, retry, filter, page, test, save, delete, poll | answers in any order, input while an answer is due, effects that run later, stale closures, flags that must be cleared on every path |
| Sessions and hooks of the UI `ui/src/hooks`, `services/api.ts` | list of connections, dashboards, login token | fetch, save, fall back to the browser | whole-list saves |
| Upgrade and observability services; Helm diff; Datadog; AI clients | none | reads and joins | no state that evolves |
| Charts, scripts | configuration | | |

**How they interact.** The UI calls handlers; a handler checks the record in the store, then calls the
executor, which saves the record and starts a goroutine. The goroutine runs a step (Git host, ArgoCD),
re-reads the record, and moves it on. Handlers and goroutines share nothing but the store and the map
`running`; pull requests are also merged by people, and each ArgoCD follows its repository by itself.
The router mounts one page of the UI at a time; a page shares nothing with another but links, and nothing with
the server but its requests, which nothing orders: `fetch` runs them side by side, and no page aborts one.

**What makes each right.** Executor: a stored record makes sense on its own at all times, no step is
counted as done that was not, progress is not taken back, cancel functions belong to their goroutine, one
approval lets one step run, runs come to rest. Batch: members in sequence, all of them treated, an end.
Handover: an addon is always managed by one ArgoCD at least, migration mode ends when it has moved, a
rollback gives OLD its addon back. Connections: one active connection that exists, no change lost.
Accounts: no account or password goes but by its deletion, and memory is what is stored. Assistant: answers under
their questions, sessions bounded. Pages: what a page counts, shows, saves and keeps is what it was asked for and
what the server has, whatever was clicked while an answer was due; no spinner turns for ever.

## Modules

| Module | Models | Runs |
|---|---|---|
| `MigrationExecutor` | executor, handlers and store for single migrations | `executor_*` |
| `MigrationLifecycle` | abstract: what the pipeline promises of one migration's status and progress | implemented in `executor_operator` |
| `MigrationExecutorProofs` | theorems about `MigrationExecutor`, and about `MigrationBatch` for any requests and failures | (proofs) |
| `MigrationOperatorProofs` | EXTENDS them for one operator who does not interrupt: migrations with the refinement of `MigrationLifecycle`, then batches with the refinement of `BatchQueue` | (proofs) |
| `MigrationBatch` | EXTENDS `MigrationExecutor` with batches and their goroutine | `batch_*` |
| `BatchQueue` | abstract: what a batch promises of its members' turns | implemented in `batch_queue` |
| `Handover` | what steps and rollback do to repositories, pull requests and ArgoCDs | `handover*` |
| `HandoverProofs` | theorems about `Handover` | (proofs) |
| `ConnectionStore` | the connections: requests, both stores, the Kubernetes API's versions | `connections` |
| `ConnectionStoreProofs` | theorems about `ConnectionStore` | (proofs) |
| `Http` | the requests a page has in flight: sent, handled, settled in any order, refused | (all pages) |
| `ClusterDetailPage` | one cluster: comparison, stat cards, tabs with requests of their own | `web_pages` |
| `Fleet` | what the services compute of all clusters and addons (pure) | `web_pages` |
| `FleetPages` | dashboard, list of clusters, version matrix, over `Fleet` | `web_pages` |
| `AddonPages` | catalog with paging, page of an addon, over the addon service | `web_pages` |
| `ConnectionsPage`, `AISettings` | the settings page: its connections, its AI provider | `web_pages` |
| `DashboardsPage` | embedded dashboards, saved as a whole list | `web_pages` |
| `UpgradePage` | the upgrade checker | `web_pages` |
| `Accounts` | users page, its handlers, ConfigMap, Secret and copies in memory | `web_pages` |
| `AccountsProofs` | theorems about `Accounts` | (proofs) |
| `WebPagesProofs`, `WebFormsProofs` | theorems about `WebPages`: the pages that show something, those that save, start or follow something | (proofs) |
| `FleetPagesProofs` | theorems about `FleetPages` and the counting of `Fleet` | (proofs) |
| `AssistantPage` | floating assistant and the sessions of the agent | `web_pages` |
| `MigrationDetailPage`, `MigrationDialog` | page of a migration; list of them with the dialog that starts one | `web_pages` |
| `ObservabilityPage` | groups of applications, metrics fetched once | `web_pages` |
| `WebPages` | composes the pages: one is mounted, the others do not exist | `web_pages` |
| `MCMigrationExecutor`, `MCMigrationBatch`, `MCHandover`, `MCConnectionStore`, `MCWebPages` | instances for TLC (symmetry, members of the batch, worlds) | |

### MigrationExecutor

`store` is the store; `copy[p]` is the record a goroutine or handler holds, `pc[p]` the place in its code,
`job[p]` the id it was given; `running` is `e.running`; `cancelled` holds the goroutines whose context was
cancelled; `prs` is the Git host. Each read of the store and each write to it is an action of its own, so
every order of reads and writes arises, including `addLog`, which saves the whole copy (`AddLog`). A worker
goes through `Fetch`, `Begin`, a step outcome (`StepSucceeds`, `StepFails`, `AlreadyMigrated`, or `OpenPR` with
`AutoMerge`, `SaveMerged`, `SaveParked`), `Reread`, and `Fail`, `Wait`, `Advance` or `Gate`; an index out of range
is a panic, then `RecoverRead` and `RecoverSave`; `Exit` is the deferred removal from `running`, whoever is
registered there. Handlers start with a `Request` whose first action is the check they make and go on by
`Serve`. A step is only its outcome here: which of them open a PR (`PRSteps`) and which rollback reverses
(`RollbackSteps`) are constants. `done` and `used` are history: work really carried out, and workers that have
begun a step. Logs, messages and times are left out.

Bounds: `Workers`, `Handlers` (how many live at once), `MaxPRs`, `MaxRequests`, `NSteps`. `Calls` and `Faults`
choose which requests and failures an instance has.

### MigrationBatch

`batch` is the stored batch, `local` the copy that its goroutine (`keeper`) holds, `inner` the goroutine in
which `advanceBatch` runs the current member. `StartBatch` saves the members one by one, the first as running,
then the batch, then starts the goroutine; `CheckMember`, `StepBatch`, `ReadNext`, `Launch`, `RunMember` and
`InnerEnds` are the reads and saves of one turn of `advanceBatch`. The ids of the members are made for the batch: none is in the store
or in the hands of a goroutine before (`StartBatch`). `FileStore` chooses whether the batch is
listed among the migrations (files: it is, and counts as active; ConfigMaps: it is not).

`Queue` maps a batch to `BatchQueue`: the state and the place of the queue are `status` and `index` of the stored batch, and `TurnOf` reads a
member's turn off its record: absent, queued (`pending`), running, stopped for a person (`waiting`, `gated`, `paused`), or ended. The
abstract queue has no goroutine, no copies and no steps; it says that the index goes up by one at a time, from a member that has ended only, that
the members are created in order, and that each is begun once, when the index is at it.

### Handover

One addon. `main` holds the two `cluster-addons.yaml` (a label per cluster) and the catalog's flag, `prs` the
pull requests with the content they were branched from (`base`) and what they put there (`content`), `apps` what
each ArgoCD runs. A pull request step is `Prepare` (read main, edit) and `OpenPR` (branch from main as it is then,
write the edited file): `createPRWithLog` makes the branch after the caller's read. Merging applies the entries
the branch changed since `base` and refuses conflicts. `HostMerge`, `NewSync` and `OldSync` happen at any time. The
concurrency of goroutines and requests is in `MigrationExecutor`; here one actor drives, and a record is its status, its
current step and the PR it waits for. `undone` is history: somebody has begun a rollback.

### ConnectionStore

`doc` is the stored document: connections (default flag, token) and the name of the active one; `version` its
resource version, 0 when there is no Secret. `backend` chooses Secret or file. A file is read with its environment variables
expanded (`Loaded`), so the next save stores a variable's value in place of its name. A request of pod `at[r]` runs `ReadSaved`
(an edit takes the stored token for a blank one), then `Load`, which computes the whole document to be saved (`copy`) and remembers
its version (`seen`), then the save: `Update`, `Create` when there is no Secret, `UpdateAgain` when somebody else has created it;
or `Write` for a file. `lock` is each pod's mutex: over load and save for the Secret (`K8sStore`), and
over each by itself for the file (`FileStore`), where load and save are single steps and nothing is held between. The order of
connections is left out: any other one may succeed a deleted active one (the code takes the first). A failed call whose
effect took place looks like a successful one, as answers are not part of the state. Documents are those the program
writes; a file that a developer wrote by hand without an active connection is not among the initial ones. Nor is one with an active connection
called "default" although its repository has a name: `FileStore.load` would rename the connection (`internal/config/store.go:62-68`) and not
`active_connection`. `Create` leaves "default" only to a connection it cannot name (`internal/service/connection.go:68-86`), so this renaming is left out.

### The web UI: Http, WebPages and the pages

Every page has the same three variables: `ui` is the component's state (one field for each `useState` that
something depends on), `net` the requests in flight, `srv` its part of the server; facts that never change
while a page is shown, as what ArgoCD answers, are chosen once in `Init`. `net` is a bag of calls (`Http`): a
call holds the arguments its closure captured, and nothing orders the calls. Each user event and each
continuation of a promise is one action, for JavaScript runs it to its end; React's batched updates are one
new `ui`. An effect that its dependencies make run later is an action of its own when what it reads may have
changed (`LoadOverrides`, the catalog's `due`), and a part of the event's action when nothing can come
between. Where the server's state evolves a request is handled in one step (`Answered`, `Refused`) and its answer delivered in a
later one; where it does not, both are one.

`WebPages` is the composition: `tab` says which page is mounted and never changes, as leaving a page
unmounts it and drops its answers, and pages share no state. Links between pages are inside the modules that
join them (`FleetPages`: dashboard to matrix; `AddonPages`: catalog to addon; `MigrationDialog`: dialog to
list). The store's requests in `Accounts` are not a bag but slots, each at its place in the code of
`store.go` (`cm`, `put-cm`, `secret`, `put-secret`, `memory`), because a request there is several reads and
writes of two objects with resource versions; `fresh` says that nobody has written the object since it was
read, and a write that is not fresh is refused by the API server. `Slots` are `1..MaxCalls`.

Ghosts, each explained where it is declared, name the cases in which the code does not keep a promise; no action reads them, and each is
as narrow as the code allows:

- `changed` (`AISettings`): the verdict on the page is that of an earlier form; each save carries it, so only a save that such a verdict
  let through is left out.
- `apart` (`DashboardsPage`): the last change was made while a request was under way, or a request failed since; the next change that is made
  alone ends it.
- `apart` (`Accounts`): a call failed, or two requests overlapped on one user or with a login; a login that runs alone, on objects nobody has
  written since it read them, ends it. Requests for different users may overlap.
- `mixed` (`AssistantPage`): New and a question cross each other, until a New is answered with nothing else under way.
- `missed` (`MigrationDetailPage`): the last answer shown was overtaken, or an operation was reported failed since.
- `blind` (`ObservabilityPage`): a group opened before Datadog's status was known, which is never asked for.
- `analyzed`, `summarized` (`UpgradePage`): what was asked last.

So the properties cover the racy neighbourhood of these cases and the way back from them, and not the cases themselves: those go wrong in the
code and are listed below.

## Runs

| Run | Instance | Shows |
|---|---|---|
| `executor_races` | every request, two in progress at once, two goroutines, saves and reads that fail, restarts | `TypeOK`, `RecordsCoherent` (steps before the current one behind, later ones untouched, a waiting migration has a PR to wait for, a completed one nothing left), `PRNumbersReal`, `CancelsTheRightWork` |
| `executor_operator` | one operator who starts, continues, retries, rolls back, never interrupts; fair | `OneDriver`, `CompletedStepsWereRun`, `OneStepPerApproval`, `ProgressKept`, refinement `FollowsLifecycle`, liveness `RunsEnd` |
| `batch_queue` | a batch of two on files beside a third migration and rollbacks, both modes; fair | `MembersInSequence`, `BatchTreatsAll`, `OneMigrationAtATime`, refinement `FollowsQueue`, liveness `BatchComesToRest` |
| `batch_faults` | a batch of two on ConfigMaps whose members are cancelled, deleted, merged; failing store, restarts | `BatchTypeOK`, `CancelsTheRightWork` with the batch's goroutine among the writers (`RecordsCoherent` is proved for this specification, below) |
| `handover` | one cluster, both modes, two migrations, four PRs, cancel, rollback, lost answers | `HandoverTypeOK`, `NeverUnmanaged`, `FinalizedWhenMoved`, the last two of this one cluster |
| `connections` | two pods, two requests in progress, three in all, two connections, two tokens of which one is a variable in a file, a Secret or a file, failing calls | `ConnTypeOK` (also: a held lock belongs to a request that is saving), `DocumentCoherent`, `NoLostChange` |
| `web_pages` | each page over its part of the server; requests fail and settle in any order; fair | the seventeen properties of the next table |

| Property of `web_pages` | Page | Promise |
|---|---|---|
| `DetailCardsMatchRows` | cluster | a stat card counts the rows that it selects, though the server counts and the page selects |
| `CardsMatchRows` | clusters | the same for the list of clusters, with ArgoCD reachable or not |
| `DriftCountsAgree` | dashboard, matrix | the drifts on the dashboard's link are as many as the drifting rows of the matrix |
| `CatalogPagesComplete` | catalog | the pages together show every addon that passes, and the page that is shown is not empty |
| `AddonCountsMatchRows` | addon | the numbers on top are those of the rows, of the same addon |
| `SavedWasTested` | connections | what is saved under a name was typed into its form and passed the test, once at a time |
| `AISavedWasTested` | AI settings | what is saved passed its test, unless the verdict was on an earlier form |
| `PageIsStored` | embedded dashboards | the list shown is the list stored when nothing is under way, after a change made alone |
| `ShowsLastAsked` | upgrade checker | result and AI summary answer what was asked last |
| `OnlyDeleteRemoves` | users | no account or password is lost but by its own deletion |
| `CopiesAreStored` | users | the store's copies in memory are what the API server has, also after changes of different users that overlapped |
| `ConversationInOrder` | assistant | answers stand under their questions, one question at a time for an agent |
| `SessionsBounded` | assistant | sessions never exceed their cap by more than the one being added |
| `QuietPageIsRight` | migration | a page that stopped polling shows the migration as it is |
| `StartsOneList` | new migration | one start at a time; a whole cluster's is the list shown, all of it and as many as the button says |
| `MetricsAskedOnce` | observability | metrics of open groups are there or asked for, once |
| `SpinnersEnd` | all | no spinner turns for ever, no button stays disabled (liveness) |

Why the bounds are enough to be telling. `executor_races`: a lost update needs two writers and one record, and
a registration overwritten needs two goroutines; requests are bounded so that a migration can be started,
interrupted, resumed and interrupted again. `executor_operator`: three steps give a plain one, a PR step that a
rollback reverses and one that it does not; five requests reach the end in gates mode with a retry. Batches: two
members are the first with a "next" one. `handover`: with two migrations the first one's leftover pull requests
meet the second one; four pull requests are those of one migration and one leftover. `connections`: two requests meet over one document, in one pod or in two, and a
third one finds what they left; two connections are the fewest with a successor and a second default. All passing runs
together fire every action. `web_pages`: an answer is overtaken by two requests, and a click, a retry or a refresh between
them is the third, so two or three in flight (`Few`, `MaxCalls`); two clusters, one of which only ArgoCD knows; two addons in
opposite orders by name and in the catalog, with pages of one or two; the worlds of `MCWebPages` contain a row of every class
a status can fall into, an addon in different states on two clusters, and healthy applications with conditions; two accounts and two changes meet on one object or on two, and a login reloads
between them; three questions are one answered, one due, and one of a second session, with a cap of one session;
two steps are a step that is followed by another and the last one; two of everything else is one that was
chosen before another. `CHECK_DEADLOCK FALSE` everywhere: a migration at rest with no request left is a
proper end, and so is a page whose user asks nothing more.

Runs that refute a statement of the documentation (each is a finding in `PROJECT.json` with the quotes):

| Run | Property | What happens |
|---|---|---|
| `executor_automerge` | `AutoMergeContinues` | Auto Merge saves `running`, then ContinueAfterPR refuses a running migration: nothing drives it |
| `executor_pause` | `CompletedStepsWereRun` | pause and resume during a step: two goroutines advance the record, one step is recorded that was never carried out |
| `batch_stall` | `BatchMovesOn` | a member approved by hand completes in a goroutine that never calls `advanceBatch` |
| `handover_rollback` | `RollbackReenables` | "I Merged It" for a PR that a reviewer merged fails its step, so the rollback passes over it |
| `handover_clusters` | `FinalizedEverywhere` | two clusters: the first migration to reach step 10 ends migration mode for both, though "Checks all clusters migrated" (`docs/user-guide/06-migration.md:31`) |

More disagreements that changed instances of the same properties show, without a run of their own:

- `OneMigrationAtATime` passes in `batch_queue`, where retries are not among the requests and the batch lies in a file.
  With `"retry"` among `Calls` a failed migration is retried while another one runs; with ConfigMaps another one can be started
  in the gap between two members; with two handlers both find nothing active and both start (`internal/api/migration.go:161`).
- `FinalizedWhenMoved` is about one cluster (for two see `handover_clusters`). With `"unreachable"` among `Faults`, step 7 takes any
  error for a removed application and the property fails for one cluster too.
- `NeverUnmanaged` passes in `handover` for one cluster. With a second one it fails: `createPRWithLog` (`internal/migration/steps.go:500`)
  branches after its caller's read of main, so a merge between them is undone by the pull request, and the addon of a
  cluster that has moved is disabled again (`docs/user-guide/06-migration.md:5`: "with zero downtime").
- `NoLostChange` is about a Secret that is there when the pods start (`existed`). Two pods that save their first connection at the
  same time send no version, and the later one overwrites the earlier one's connection
  (`docs/superpowers/specs/2026-03-20-encrypted-connection-store-design.md:205`: "K8s resourceVersion prevents conflicts").
- A file loses one of two concurrent changes; `DocumentCoherent` holds for it all the same.
- An edit with a blank token (`internal/api/connections.go:51`: "if token fields are empty, keep existing values") ignores
  the error of the read that would give it the stored one (52) and saves the blank.
- A deleted account may come back: `DeleteUser` ignores the errors of both writes (`internal/auth/store.go:379`), answers that
  it is done, and the next reload finds the account. No property says that it stays away, for the code does not see to it.
- A change that a login overlaps, or two at once for one user, leave memory other than the store (`internal/auth/store.go:284,497`): the login
  swaps in what it read before the change was stored. The next login that runs alone mends it.
- A change of role enables the account again: the page sends the role alone, and the handler takes a missing `enabled`
  for true (`internal/api/users.go:87-91`).

Of the pages, where the modules' ghosts or the code read for them show that a promise has limits:

- Cluster: the overrides tab fetches only when it shows none and drops nothing when the cluster changes
  (`ui/src/views/ClusterDetail.tsx:113-125`), so it shows another cluster's overrides (`docs/user-guide/04-values-guide.md:19`).
  A diff that fails is asked for again at once, and again for as long as the tab is open (`ClusterDetail.tsx:113`).
- Dashboard: the drift link leads to the whole matrix, which does not read `?drift=true` (`ui/src/views/Dashboard.tsx:167`,
  `docs/superpowers/plans/2026-03-24-ui-ux-overhaul.md:121`); `DriftCountsAgree` is about a user who then ticks the filter.
- Connections: the edit form is closed when another form's save comes back (`ui/src/views/Connections.tsx:318`).
- AI settings: a field changed while the test is under way is saved untested (`Connections.tsx:908`).
- Embedded dashboards: the edit form keeps the fields of the dashboard edited before, for it has no key
  (`ui/src/views/Dashboards.tsx:298-312`; `Dashboards.test.tsx:106` expects them filled in). Saves are of whole lists
  (`ui/src/hooks/useDashboards.ts:38`): two that overtake each other, or a change before the list was loaded or after its load failed
  (`internal/api/dashboards.go:99-107` answers an empty list on an error), lose dashboards.
- Upgrade checker: a version chosen while an analysis is due does not take that analysis away when it arrives; "AI
  analysis" below it then asks about the version that is chosen (`ui/src/views/UpgradeChecker.tsx:345`), so that result
  and summary are of two versions. `ShowsLastAsked` says that each is the last one asked for.
- Assistant: a page opened with a question asks it again whenever the panel is reopened; the context it sends is that of the page where its closure was made
  (`internal/ai/agent.go:47`); New while an answer is due puts the answer into the new conversation.
- Migration: an answer overtaken by a later action can stop polling (`MigrationDetail.tsx:83`), and
  `catch { /* poll */ }` (98-101) relies on polling that may have stopped; a rolled-back migration is polled for ever; Approve may be pressed twice.
- New migration: addons that are listed late start under the name of a cluster chosen since (`ui/src/components/NewMigrationDialog.tsx:75-78`):
  `StartsOneList` is about the list that is shown, whichever cluster's it is. In the scope "multiple" only `selectedAddons[0]` is
  started (116-123), however many the button says (329: "Migrate ${selectedAddons.length} Addon", with an s for more).
- Observability: groups opened before Datadog's status is known never get metrics (`ui/src/views/Observability.tsx:379`).
- A batch's progress never shows that it is complete (`docs/superpowers/plans/2026-03-23-product-improvements.md:194`).

**Fairness.** Weak fairness of the goroutines and of requests in progress, per worker and handler
(`FairSpec`, `BatchFairSpec`): Go's scheduler runs them, every wait in a step has a timeout, and every call
returns or fails. Nobody is obliged to make a request, to merge a pull request, to answer an approval, or to crash.

`WebPages!Spec` has weak fairness of the effect that is due, as React runs it after the event, and for each spinner strong
fairness of the answers it waits for: a request settles, because the browser gives up a broken connection and the
server's own calls have time limits. It is strong because an effect that is due comes first, and so disables an
answer again and again without losing it. Nothing is asked of the user, who may click for ever; `SpinnersEnd` holds because a
later request for the same flag is answered as well.

## Proofs

`MigrationExecutorProofs` proves, for any number of goroutines, handlers, migrations, steps, pull requests and
requests and any choice of `Calls` and `Faults`, from the one assumption `ExecutorAssumption` on the constants:

- `TypeCorrect`: `Spec => []TypeOK`;
- `RecordsStayCoherent`: `Spec => []RecordsCoherent`;
- `CancelFindsItsWork`: `Spec => []CancelsTheRightWork`;
- `NumbersStayReal`: `Spec => []PRNumbersReal`.

`RecordsCoherent` is not inductive: a record is saved from a private copy long after it was read, so the copies
must be good as well, and how good depends on the place in the code. The inductive invariant is
`IInv == TypeOK /\ StoreGood /\ \A p \in Procs : LabelInv(p)`: the store holds only good records (`Good`: typed and
coherent), and `LabelInv(p)` says what the copy of `p` satisfies at its label (`Fits`): for instance that after `Begin` the
current step is within range, or that after the host's merge the saved copy will have its step completed. The
first part of the module has a lemma for each thing the code writes into a record (`AdvancedGood`, `ResumedGood`,
`ParkedGood`, ...): it keeps a good record good. The second has a lemma per action (`...Keeps`), joined in `NextInv`.
The key of the argument is that a whole-record write of a good copy is harmless for coherence whatever the store
held before, so no lemma is needed about which writer came last.
`CancelFindsItsWork` uses `IInv` and its own small invariant: an action changes `running` for its own id only, and a goroutine
becomes idle only by `Exit`, which removes what is registered under its job (`CalmKeeps`, `NextCancels`).
`NumbersStayReal` needs, beside `IInv`, that the copies too hold only numbers of pull requests that were opened (`NumbersInv`), for a copy
may be saved after any delay and a failed save may leave its number nowhere; a number once opened stays opened, so it never becomes false.

Of `MigrationBatch` it proves, from `BatchAssumption` as well, for batches of any length, any requests beside them and any failures,

- `BatchTypeCorrect`: `BatchSpec => []BatchTypeOK`;
- `BatchRecordsStayCoherent`: `BatchSpec => []RecordsCoherent`;
- `BatchCancelFindsItsWork`: `BatchSpec => []CancelsTheRightWork`.

Here `BInv` puts beside `IInv` what the goroutine and the request of a batch rely on: one request starts it, before its goroutine is there (`StartingInv`);
the goroutine is there only while the stored batch runs and has a current member (`KeeperInv`); the copy it holds is in range at each place of `advanceBatch`
(`KeepingInv`: this is why `StepBatch` and `ReadNext` never index past the members); and the run it waits for is one of a member that has not yet ended
(`InnerInv`). The executor's own steps go on beside the batch: `BesideKeeps` shows once that they touch neither of these, so the lemmas about them are used again as they are.

`MigrationOperatorProofs` proves, for any number of goroutines, migrations, steps, pull requests and requests,

- `OneDriverEach`: `Spec => []OneDriver`, assuming `OneOperator`;
- `CompletedWasRun`, `EachStepApproved`, `ProgressStays`: `CompletedStepsWereRun`, `OneStepPerApproval` and `ProgressKept`, assuming
  `OneOperator` and `Steady`;
- `ImplementsLifecycle`: `Spec => FollowsLifecycle`, the refinement of `MigrationLifecycle`, assuming both as well.

`OneOperator` says of the constants that there is one handler at a time and that `Calls` are start, continue, retry and rollback:
pause, cancel and delete come in beside a goroutine (`executor_pause` shows what is lost then), and the dashboard's Merge button (`"mergePR"`)
saves before it asks the executor: with it among the `Calls` of `executor_operator` TLC refutes all of these but `OneStepPerApproval`.
`Steady` says that saves do not fail (`"flaky" \notin Faults`): `RunSteps` ignores the error of a save and goes on with its copy, so the record falls behind
what was done. Crashes and failing steps remain. The instance of `executor_operator` meets both hypotheses. The sentinels of the store (`Unborn`, `Deleted`) are
no records (`SentinelAssumption`, as a missing key is none).

The invariant is `OpInv`, on top of `IInv`. `StatusInv`, `DriveInv`: a goroutine at work drives the migration of its `job`, whose stored
record is `running`, and no two drive the same one. `RequestInv`, `ApartInv`: the one handler works on a record that nobody drives,
or whose last driver has only to leave (`Exit`). `ExactInv`, when steady: what a goroutine holds is the stored record, except between opening a pull request and saving its
number; `DoneInv`: completed steps, and those behind the current one, are in `done`. Each action is one of a few shapes of change (`Turn`, `Onward`):
the lemmas are about the shapes, and the action lemmas say which shape an action has. The refinement falls out of the same lemmas: a turn of the
stored record is a step of `MigrationLifecycle` or leaves its stage and progress alone.

Of batches it proves, assuming `OneQueue`,

- `RunsOneAtATime`: `BatchSpec => []OneMigrationAtATime`;
- `MembersStayInSequence`: `BatchSpec => []MembersInSequence`;
- `BatchTreatsEveryMember`: `BatchSpec => []BatchTreatsAll`;
- `ImplementsQueue`: `BatchSpec => FollowsQueue`, the refinement of `BatchQueue`.

`OneQueue` says that one request is in progress at a time, that the requests are starts, batches and rollbacks, that the store is on disk (`FileStore`) and that
saves succeed (`Steady`); restarts and failing steps remain. It is the setting of `batch_queue`, and each part is needed: with `"retry"` two migrations run at once, with
ConfigMaps one starts between two members, and a lost save of the batch starts the next member before the stored index has come to it. The invariant is `BInv /\ QInv`. In `QInv` a goroutine at work is the only one and its migration
is the one that runs (`WorkInv`, `SoleInv`, `OneMigrationAtATime`); what lets a request in stays true until it saves: nothing runs while a migration or a batch is being created (`ServeInv`); while the
goroutine of the batch is between two members nothing runs either (`QuietInv`), for `HasActiveMigration` would see nothing then and only the batch's own file
keeps others out (`KeeperAlone`); and `SeqInv` says of each member whether it is still to come (untouched), has its turn, or had it (at rest), by the stored index and the place in
`advanceBatch`, where the index has already moved in the copy and not in the store. Each action of the executor is one shape of change (`WorkerStep`, `Asks`, `Rests`), as above.

For the refinement these shapes are mapped once each. A goroutine's step writes the record of the migration it runs, so it is `Rest` of that
member, or a stutter when the migration is no member, goes on running, or is not written (`WorkerFollows`, `MemberRests`). The request of a batch is `Enqueue` for each
member and then `Open`. The goroutine of the batch is `MoveOn` where it saves the index, and `Begin` where it launches a member: `SeqInv` gives that the member it passes
has ended and that the one it comes to has not been touched. A rollback, or a start beside the batch, is a stutter: what may be undone has ended, and stays ended. `SavedInv` is all that is new: nothing that
was saved is deleted, and a batch is saved after its members.

`HandoverProofs` proves, for any number of pull requests and of migrations one after the other, merged, failed, retried and rolled
back in any order,

- `HandoverTypes`: `Spec => []HandoverTypeOK`, for any clusters;
- `AlwaysManaged`: `Spec => []NeverUnmanaged`, for one cluster (`OneCluster`), whatever fails;
- `FinalizedMeansMoved`: `Spec => []FinalizedWhenMoved`, for one cluster while OLD's API answers (`OneCluster`, `Reachable`).

Both hypotheses are those under which the documentation's promise holds at all: `handover_clusters` refutes step 10's for two clusters, and the
list under "Runs" says what else happens without them. The invariant is
`HInv /\ MoveInv`. `HInv` adds to the types where goroutine and rollback stand (`PlaceInv`). `MoveInv` says, until somebody rolls back, of the cluster: what the files
and ArgoCDs allow together (`MainInv`: the label has left OLD only if NEW has the application); that every draft and every open pull request is the change of its own step, and
presupposes only what earlier steps have established (`DraftInv`, `PRInv`); that the record's current step is not ahead of the world (`RecordInv`). A leftover pull request of
a cancelled migration is therefore harmless whenever it is merged: what made it right once is still true, as no step takes anything back (`Onward`:
enabled, created, disabled, removed and moved stay so).

`ConnectionStoreProofs` proves, for any number of pods, requests, connections and tokens, either backend, with or without
failures, from `ConnectionAssumption`:

- `ConnTypeCorrect`: `Spec => []ConnTypeOK`;
- `DocumentsStayCoherent`: `Spec => []DocumentCoherent`;
- `VersionsPreventLoss`: `Spec => NoLostChange`.

What is saved is `copy`, computed from a document that may be gone by then, so `IInv` says, in `AtPlace`, two things of a
request beside the types: a request that is saving holds a coherent copy, which makes coherence independent of the order of saves (`ResultsGood`:
each operation makes coherent documents of coherent ones); and `Current`, as long as the version a request has seen is the current one, its
copy is a result of its operation on the stored document, whence an accepted update loses nothing. Reading a file, which expands its variables, keeps a
document coherent (`LoadedGood`), whatever they stand for.
`Current` survives another request's save because that save raises the version (`OthersKeep`).

`AccountsProofs` proves, for any number of users, slots and requests, from `MaxCallsAssumption`
(which it hardly needs):

- `AccountsSafe`: `Spec => []Safe`;
- `NothingIsTakenAway`: `Spec => [][OnlyDeleteRemoves]_vars`;
- `CopiesStayStored`: `Spec => []CopiesAreStored`.

`Safe == StoreOK /\ RequestsOK /\ ReadsOK` is the inductive invariant: types, the stages a request of each kind
goes through, and in `ReadsOK` what optimistic locking gives: an object that nobody has written since the request read it is
the object that is stored. From it an accepted write of a whole object changes the entry of the request's own user alone, which is
`OnlyDeleteRemoves` (`ServeRemoves`). For the copies the invariant is `Together`, user by user: as long as `apart` is false the requests at work are about different users, and a login is alone;
memory and store agree about a user (`Alike`) whom no request is about, and about the others they differ by what that one request has written and not yet copied
(`Halfway`). A step of a request keeps it, because an accepted write changes its own user's entry alone (`ServeTogether`); a login that is alone and fresh
establishes it anew (`LoginTogether`); and with nothing under way it is `CopiesAreStored` (`TogetherMeans`).

`FleetPagesProofs` proves of the component `FleetPages` that

- `CardsCountTheirRows`: `Spec => []CardsMatchRows`;
- `DriftsOnTheLink`: `Spec => []DriftCountsAgree`,

for every fleet that meets `FleetOK`: finitely many clusters and addons, connection states that ArgoCD gives
(`Successful`, `Failed`, `Unknown` or none), a world that lists clusters of the fleet, and an `Absent` that is none of the words the pages
compare with. The argument is a count: each class of rows is in bijection with
the clusters that the server counted (`OneEach`, `RowsFinite`), and each drifting row of the matrix with a drift of the dashboard. `FleetInv` says
that what a page shows is nothing yet, or what one call of the server answered, ArgoCD reachable or not, and that a link still carries
the count of the fleet it was made from.

`WebPagesProofs` and `WebFormsProofs` prove of the composition `WebPages`, for any worlds, values and cap that meet its assumptions
(`AddonsAssumption`: finitely many clusters and addons, and what is to be migrated is among them; `WorldsAssumption`: Git lists known names, ArgoCD gives its three
states or none; `CatalogAssumption`: a page has a positive size, one of the sizes is the smallest, and in each order of the catalog an addon has a place of its own;
`SessionsAssumption`: the cap is a number; `AbsentAssumption`: `Absent` is no cluster and none of the pages' words):

- of what is shown: `CardsCountTheirRows`, `DriftsOnTheLink`, `DetailCardsCount` (`DetailCardsMatchRows`), `LastAskedIsShown` (`ShowsLastAsked`),
  `AnswersStandInOrder` (`ConversationInOrder`), `SessionsStayBounded` (`SessionsBounded`), `AddonNumbersAreRows` (`AddonCountsMatchRows`),
  `CatalogIsComplete` (`CatalogPagesComplete`), and of the accounts `NothingIsTakenAway` and `CopiesStayStored`;
- of what is saved, started or followed: `SavedConnectionWasTested` (`SavedWasTested`), `SavedFormWasTested` (`AISavedWasTested`), `ShownIsStored`
  (`PageIsStored`), `OneListIsStarted` (`StartsOneList`), `QuietPageStaysRight` (`QuietPageIsRight`) and `MetricsAreAskedOnce` (`MetricsAskedOnce`).

A step of the composition is one of the mounted page or a stutter, and the tab never changes (`TabStays`), so each section has an
invariant of its page (`...Kept`) that says nothing while another is mounted. The instance of a page has its own copies of the operators of `Http`; a
lemma per page (`...Calls`) says that they are those of `WebPages`, and the first section proves once what sending, settling and answering do to the bag of requests.
Its notion is `OneAtATime(net, kinds, busy)`: of these kinds one request is in flight exactly while the page's flag is up, and in one copy.

- Connections (`ConnsInv`): a request of a save names the form it comes from, and each form has one (`OneSave`, by form: the two share the bag); the fields it carries are those of one
  connection, and those of the save itself are what was accepted (`CallOK`).
- AI settings (`AIInv`): every save that is under way was tested or carries the mark of a stale verdict (`AISaves`); unless the form was changed under its test, the test is about the form on the page, and a form that passed is one that was tested (`AITestedForm`).
- Dashboards (`UnderWay`): unless page and server are apart, nothing is in flight and the list shown is stored, or the list is being read for the first time, or the one request saves the list that is shown.
- Dialog (`DialogInv`): one start at a time; what is chosen for a whole cluster is nothing, or the list that is shown, which is one cluster's whole list, each addon once (`WholeList`, `ListedOnce`), and a start carries that or one addon (`OneStart`).
- Upgrade checker (`UpgradeInv`): the answers shown, and those under way, are about what the page says it asked, and each kind is asked once at a time.
- Assistant (`AsstInv`): questions and answers take turns (`Turns`), the last question is the one that is asked, and New is not at work then; when a New is answered with nothing else under way, this holds whatever went before; pruning before each new session keeps the sessions one over the cap at most (`Pruned`, `Chatted`).
- Cluster page: rows are one per listed addon, and each of the server's counters counts the addons of one class of them (`OneEach`).
- Addon: the rows are one per cluster that has the addon, and each of the server's numbers counts the clusters of one class of them (`CountsOfRows`).
- Catalog: the rank of a passing addon is how many pass before it, and this is a bijection onto the places below their number (`Ranked`); a page is a slice of places
  (`PageOf`), so the slices cover all of them and none twice (`Slices`). Beside that, `AddonInv` keeps the page's number on an existing page, on the first, or about to be reset to it (`PageOK`).
- Migration page (`QuietInv`): unless the last answer was missed, a page that does not poll shows the stored record, or a call in flight will make it ask again
  (`Telling`): a read, an action that succeeded, or a failed continue.
- Observability: what is in flight is a function of what the page shows (`InTheAir`): its overview while it loads, the question about Datadog once there are applications and
  no answer yet, one request of metrics for each spinner; and each call is there once (`Once`).

For the fleet's pages and the accounts the lemmas `Fleet...` and `Same...` say that the mounted page is the component that `FleetPagesProofs` and `AccountsProofs` are about.

Every invariant, action property and refinement of the passing runs is proved. Only model-checked are all liveness
(`RunsEnd`, `BatchComesToRest`, `SpinnersEnd`), which the prover does not handle under fairness, and the runs that expect a violation.

## Not modelled, and why

- Recovery after a restart: there is none in the code. A running migration whose goroutine is gone stays `running`;
  Pause or Cancel and then Continue get it moving. The models show that its record is still coherent.
- The swap of the executor's providers by each request while a goroutine uses them (`SetNewProviders`): it matters
  only when connections change during a migration; planned as a composition of both models.
- The troubleshooting chat: its agent logs into a record read at its start and saves it whole (`internal/migration/executor.go:568-579`,
  `internal/api/migration.go:497-508`), one more stale writer of the kind `AddLog` is; `ProgressKept` and what follows from it are about migrations
  nobody chats about.
- Inside one save of the file store: it truncates the file and then writes (`internal/migration/store.go:45`). Who reads in between decodes
  nothing, which is a `"flaky"` read, and `ListMigrations` skips the record (81-94), so that a check for an active migration may miss it. Saves and reads are single steps in the models.
- The panic of `ContinueAfterPR` on a waiting or failed record whose cursor is past the last step (`internal/migration/executor.go:259,294`). In a
  request `net/http` recovers and nothing has changed, as when the model refuses; in the background call of `handleMergePR` the process would
  die, as in `Crash`. No run comes to the latter.
- The comparison of values in step 2 (advisory), file paths of older repositories, logging, encoding.
- Requests with a batch's id instead of a migration's id, which the UI never sends.
- Of the UI: the login (`useAuth`, `Login`), `Layout`, `CommandPalette`, `Docs`, `UserInfo`, `MigrationSettings`,
  `BatchProgress`, `YamlViewer`, `MarkdownRenderer`, `SearchableSelect`, `useTheme`, the primitives in `components/ui`: they keep a
  field or an open flag and nothing that another part relies on. Of the modelled pages: switching
  the active connection, health badges and discovery of ArgoCD; the sorted table of clusters; control plane, alerts and sync activity; the
  troubleshooting chat of a migration, resuming from the list, and which step is unfolded.
- The migration's page has a server of its own, smaller than `MigrationExecutor`: its handlers are whole steps on status and
  current step, with one operator. What the page adds is polling and overtaken answers; the executor's own
  races are in `executor_races`.
- Sessions and the login limiter; the user store without Kubernetes; the memory file of the assistant.
- Observability and upgrade services, the Helm diff, clients of ArgoCD, Datadog and language models, deployment: nothing in them evolves.

## Plan

Done: the executor, the batch, the handover and the connection store with their theorems; the pages of the UI with the services
they show, the accounts with their theorems, the assistant's sessions. Next, in this order:

1. The executor's providers swapped by a request while a goroutine uses them, composed with the connection store's changes.
2. `Sessions` (lifetimes, cleanup, window of login attempts) with the UI's login.
3. Pure operators: line-wise label and version edits against a definition on parsed files; the Helm diff and
   the version comparisons of the upgrade service; over bounded inputs.
4. A refinement of the pages by what their users are told, with the pages' own ghosts as its exceptions; and of `BatchQueue` with a person
   who resumes stopped members.
