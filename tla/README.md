# A TLA+ verification of git-platform-sdk

The SDK gives a Go program one interface to seven git hosting platforms. Two things in it
are hard. Inside the process, several goroutines share the provider cache, the HTTP
pipeline with its ETag cache, retries and rate limiter, the installation token and the
worker pool of the batch helpers. On the platform, a call of the interface is a *sequence*
of requests, each of which may fail or lose its answer, while other clients work on the
same thing; what the seven backends make of one call differs from platform to platform.
Both are modelled here, and with them the local git operations that leave state on disk
between calls.

Paths below are relative to the repository; line numbers are those of the map in
`PROJECT.json`, which names for each definition the code it stands for.

## 1. Inventory

| Component | State it keeps | Operations | Hard behaviour | What makes it correct | Status |
|---|---|---|---|---|---|
| provider cache, `provider/manager.go` | map key to provider and creation time; LRU list | Get, Remove, Purge, Cleanup | Get is four sections, with no lock held while it builds | list mirrors map, size bound, one shared instance per key, nothing dropped comes back, no fresh entry replaced | modelled, proved |
| janitor, `provider/manager.go` | stop and done channels, a goroutine | StartJanitor, Stop, cancellation | Stop waits with the mutex released; the goroutine's deferred calls need it | no unreachable janitor, no double close, Stop waits for its own, Stop returns | modelled, proved |
| call pipeline, `transport/client.go`, `retry.go`, `tokensource.go`, `hooks.go` | the request object, attempt counter, last error and response | Client.do, round tripper | lost and cut replies, retries, token rotation between attempts | a write executes at most once and its answer is true; the last answer is not hidden | modelled, proved |
| ETag cache, `transport/etag.go` | bounded LRU of bodies by URL, headers and token | applyConditional, process, processRT | replies that cross; eviction between request and 304 | no body crosses tokens; entries are true; a 304 replays what it confirmed | modelled, proved |
| rate limiter, `transport/ratelimit.go` | remaining, reset, last reserved slot | WaitContext, UpdateFromResponse | waiters sleep on slots computed earlier; late headers | slots stay MinDelay apart; waiters do not wake together | modelled, proved |
| installation token source, `githubapp/` | cached token, expiry | Token | callers queue behind a fetch; a token read now and used later | a token in use is alive; fetches only when due | modelled, proved |
| batch helpers, `provider/batch.go` | semaphore, wait group, results | batch | check and select are two steps; cancellation | complete and true results, bounded concurrency, at most one late start, it returns | modelled, proved |
| ensure helpers, `provider/ensure.go` | on the platform | EnsureWebhook, EnsureDeployKey, EnsureBranchProtection | list, delete and create are separate requests; truncated lists; two reconcilers | nothing is lost but by a failed replacement; alone it leaves what is wanted, once; a second run is idle where the list tells what there is (on GitHub it does not) | modelled, proved |
| page walks, `provider/pageiter.go`, `backends/internal/backendutil/allpages.go` | none | Each, AllPages | pages shift while they are read; caps; a platform that ignores the page | everything there is seen, or the walk fails | modelled, under the calls that use them |
| label resolution, `backends/internal/backendutil/` | ids by name, with a TTL | IDCache, ResolveLabel | an id that is stale; a walk cut short | a call by name changes the label of that name | partly |
| the seven backends, `backends/*` | none between calls, but for the label ids | the calls of the provider interfaces | several requests per call, different on each platform | a call changes what it names and nothing else; when it succeeds the platform holds what was asked; lists show what they should | partly: see "Not modelled" |
| commit status wait, `provider/wait.go`, `commitstatus.go` | none between polls | WaitForCommitStatus | reports arrive while pages are read | a verdict was true at one moment of the poll | modelled |
| webhook events, `provider/webhook.go`, `backends/*/webhooks.go` | none | ParseWebhookEvent | seven vocabularies; deliveries that overtake or come twice | a program that follows the events knows the state | modelled but for validation |
| rebase, `gitbackend/gogit_commit.go` | branch, index, worktree, `.git/rebase-merge` | Rebase, RebaseContinue, RebaseAbort | a crash between any two writes; the user between calls | abort restores; success sits on the target and drops nothing; both sides survive | modelled, proved in part |
| merge, cherry-pick, the same file | branch, index, worktree | Merge, CherryPick | crossed histories; files written one by one | both sides' changes are carried | modelled, proved |
| other go-git operations, `gitbackend/gogit*.go` | in the repository | branches, remotes, tags, stash, status | RenameBranch is two writes | no branch lost | not modelled |
| native backend, `gitbackend/native*.go` | none | one child process per call | credential files around a child | | not modelled: git keeps the state |
| errors, detection, credentials, MCP server, projection, tools, contract tests | none between calls | conversions | | | not modelled: pure, pure I/O or tests |

`PROJECT.json` lists every component with its sources and status, and under `hazards` the
places where this code can go wrong in a way a test would hardly reach, with the properties
that would show it.

How they meet at run time: a program asks the **manager** for a **provider** of one of the
**backends**; each of its calls is a few requests, which alone or from a **batch** pass the
**limiter** and then the **pipeline**, whose attempts take a token from the **token source**, go
through the **ETag cache** to the network and update the limiter by their responses. The
**ensure helpers**, the **status wait** and the **page walks** are built on the provider
interfaces only. **Webhook events** come the other way. Local repositories are handled by the
**git backends**, which share nothing with the others.

## 2. Modules

| Module | Contents |
|---|---|
| `ProviderCache`, `Janitor`, `ProviderManager` | the map, the LRU list and the steps of Get, Remove, Purge, Cleanup; StartJanitor, Stop and the goroutine; both together |
| `ProviderManagerProofs` | theorems about the two, as they are inside ProviderManager |
| `WriteOnce` | abstract: what the transport promises of a non-idempotent request |
| `Transport` | token, conditional request, attempt, retry and ETag cache of concurrent calls; it implements WriteOnce |
| `TokenSource` | the cached installation token, its callers, the mutex and the fetch |
| `TransportProofs` | theorems about the two |
| `RateLimiter`, `Batch`, `LimitedBatch`, `LimitedBatchProofs` | WaitContext and UpdateFromResponse; the loop, the semaphore and the items; a batch whose items wait in one limiter |
| `EnsureBackends` | what each backend makes of a webhook, a deploy key and a branch protection, on the way out and back |
| `Ensure`, `EnsureProofs` | the reconcilers, request by request |
| `Requests` | the vocabulary of requests about one item |
| `IssueRequests`, `ChangeRequests`, `RepoRequests` | the request sequences of the seven backends: issues and labels; change requests; milestones, releases, files, repository settings |
| `Resources` | clients that run these against one item and the labels of the repository, with the label cache |
| `PostRequests` | the request sequences for comments, reviews, reactions, notifications, branches, collaborators, commit statuses and repositories |
| `Posts` | clients that run these, with lists page by page |
| `CommitWait`, `CommitWaitProofs` | WaitForCommitStatus on top of Posts |
| `Hooks` | the events that the backends parse payloads into |
| `Follow`, `FollowProofs` | a program that follows one thing by these events |
| `Rebase`, `RebaseProofs` | Rebase, RebaseContinue, RebaseAbort, their state files, crashes and the user |
| `GitMerge`, `GitMergeProofs` | Merge and CherryPick over a graph of commits |
| `MC*` | the instances for TLC |

Conventions. Every section of code that holds a lock, every request to a platform and every
single write to disk is one action; whatever the code does without a lock is split where
another actor can come between. An operator whose name extends another's (`InstallLost`,
`InstallLostKeepsOwn`) and stands just before it is a *mutant*: the plausible bug that the
property named with it in `PROJECT.json` has to detect. Mutants are part of no
specification. Variables marked *history* are read by properties only.

Three instances host two specifications that do not interact (`MCTokenCalls`: Transport and
TokenSource; `MCCommitWait`: Posts with CommitWait, and Follow; `MCGit`: Rebase and
GitMerge). The first state chooses which of the two a behaviour takes; the other one's
variables rest.

### ProviderCache and Janitor

`Lookup` is the read-locked look of Get, `Touch` the refresh of the LRU list after a hit,
`Build`/`BuildFails` the construction without a lock, `InstallLost`/`InstallNew` the
write-locked section with its second look and its eviction loop. `Remove`, `Purge` and
`Cleanup` differ in the set of keys they delete. The two expiry tests are kept as they are:
Get's `now - createdAt < ttl`, Cleanup's `createdAt.Before(now - ttl)`. The LRU list is a set
and an order, which the golang-lru library's Get, Add and RemoveOldest change. Left out are
the hit, miss and eviction counters.

In `Janitor` a janitor is the number of the StartJanitor that launched it, and the channels
have that number too. Stop is three steps (`StopClose`, `StopWaited`, `StopReset`) because it
gives the mutex back while it waits; the exit of the goroutine is three because its deferred
calls clear the fields under the mutex before `done` is closed.

### Transport and TokenSource

A call takes the path of `Client.do`, where the request is prepared once and the retry loop
repeats it, or that of the round tripper, where every attempt prepares the same request
object again. `RetryOrGiveUp` is the end of both loops, with their different precedence of
the last error and the last response. The server executes writes and serves versions of one
resource; it may answer late, not at all, partly, or with an error status that leaves open
whether the write was done. A body is the token it was served to and its version: that is all
the properties tell apart. Delays are steps, so the lengths of backoffs are not modelled.

`WriteOnce` is the abstract specification. `Transport!Once` maps a call to a phase, the number
of its executions, and what its result claims.

In `TokenSource` time matters: a token has an instant of issue and a life, and the answer
takes up to `MaxDelay` to arrive, during which the mutex is held. `expires` is what the source
believes; it differs from the truth where the platform leaves `expires_at` out. `MaxDelay` is
assumed to be at most `Margin`: the HTTP client gives up after 30 s, the default margin is a
minute. The clocks of client and platform are assumed to agree.

### RateLimiter, Batch and LimitedBatch

Instants are distances from now, so the clock needs no bound. `Reserve` is the whole section
under the limiter's mutex. `Batch` has the context check and the select as separate steps,
and the choice of the select among ready branches is free. `LimitedBatch` starts an item by
`Acquire` and `Enter` in one step (the goroutine that the item starts takes its first step
later, in `Reserve`), and takes the response's headers and the item's result in one
(`Receive`). A refused request is a failed item here: its retries are `Transport`'s.

### EnsureBackends and Ensure

`EnsureBackends` holds, for each backend and kind, what a create or update request leaves on
the platform and what a list or get reads back from it; the differences between the two
directions are what makes a reconciler see a difference that is none. What is lost on the way
out is named: `CarriedEvents`, `CarriesReadOnly` and `CarriedFields`. `Ensure` is the
protocol: list page by page, decide, delete the entries that differ, create; for branch
protections get, then update or create, where GitHub updates by three requests and GitCode
deletes and creates. `ignoresPage` is a platform that answers every page with the first.

### The requests, Resources and Posts

A call of a provider interface is translated to the *sequence of requests* its function
sends. `GithubIssue("update", o)`, for instance, is the value of `UpdateIssue` in
`backends/github/issues.go` for the options `o`: which fields the request carries, which are
written back as an earlier read showed them, by what the item is named, and what is looked up
first. Conversions stand where they change a value (a state's word or verb, a label's id, an
emoji's name); a conversion that is its own inverse for the values at hand is left out.

`Resources` runs these sequences: `Begin` starts a call, each request has its action
(`EditItem`, `PutLabels`, `MergeItem`, ...), `Fail` and `LoseAnswer` are the two ways in which
one goes wrong. `Posts` does the same for what is *added*: comments, reviews, reactions,
statuses, repositories. There, lists are read page by page, newest or oldest first as the
platform gives them, and others post between two pages; a page holds one post, and a walk ends
after `maxAllPages` of them (`backendutil/allpages.go`). `CommitWait` adds the polls.
The platform behind both is modelled from what the backends rely on, and marked external in
the map. Status lists are taken to be newest first on every platform, as
`LatestCommitStatuses` requires (`provider/wait.go:125`).

### Hooks and Follow

`Hooks` is the translation of a payload to an event, per backend. `Follow` is a program that
uses the events as `provider/webhook.go` and `NormalizedEvent` describe them: it keeps one state by
the types of the events, and one by the objects in them and their times. The payloads that a
platform sends for a change come from the golden files in `backends/*/testdata` and the
comments beside the code.

### Rebase and GitMerge

In `Rebase` a commit is the sequence of changes that leads to it, so a history is a value and
a merge base a common prefix; histories are linear. One action is one write: a state file,
the branch reference, a hard reset, one path of a change, a commit, the removal of the
directory. `Crash` may follow any of them and may leave a worktree file or the directory half
done. The errors of state file writes, which the code ignores, are the second and third disjunct of
`WriteStateFile`: the file stays as it was, or is left empty, which a crash can do too. An empty
`end` or `msgnum` reads as 0, since the errors of Atoi are dropped. The files with a hash are
whole or absent: an empty one is not modelled. `DeletionFails` is a file that cannot be deleted,
which the code does not report. The user may edit, stage and commit while a rebase is
stopped, but not check out another branch. A hard reset leaves untracked files or removes
them, since go-git's choice depends on what it finds.

In `GitMerge` a commit is an object with parents, so that histories may cross and have several
merge bases or none. `Merge` and `CherryPick` decide what to apply; `WritePath` writes one
file and stages it, or deletes it; `DeleteFails` is a deletion that does not happen and is not
reported, which the call's record keeps in `kept`; `CommitApplied` commits the index. Other branches grow meanwhile, the
user edits, commits and resets. The objects and their ancestry are go-git's.

## 3. Runs

| Run | Instance | Shows |
|---|---|---|
| `provider_cache` | 2 callers, 3 keys, size 2, TTL 1, clock to 2, 4 instances | `OrderMirrorsMap`, `SizeBound`, `NoResurrection`, `SharedInstance`, `FreshKept` |
| `janitor` | 2 janitors, 2 stoppers, a one-key cache | `RunningIsStoppable`, `NoDoubleClose`, `WaitsForItsOwn`, `StopReturns` |
| `stop_blocks` | as `janitor` | violation of `StopBlocksUntilExited` |
| `transport` | `MCTokenCalls`: 2 calls of any method and path, 2 attempts, 2 versions, 2 tokens; or the callers ask a token source with lives below, at and above the margin | `WriteOnceHolds`, `NoCrossPrincipal`, `CacheFaithful`, `LastResponseReturned`; `InFlightValid`, `FetchesSpaced` |
| `stale_replay` | 3 calls, 1 attempt | violation of `ReplayNotStale` |
| `limited_batch` | 3 items on 2 slots, 2 requests in a window of 4 | `SlotsSpaced`, `Complete`, `AtMostOneLateStart`, `ResultsTrue`, `BatchReturns`, `CancelIsPrompt` |
| `limiter_herd` | 3 items at once, 1 request in a window | violation of `ProgressiveSlots` |
| `ensure` | every backend and kind, 2 reconcilers, 2 wanted contents, 2 entries at first, pages of 1 and at most 2 of them, 3 calls, 1 failed request | `BareOnlyInDebt`, `AloneLeavesWanted`, `RerunUnchanged` |
| `resources` | every backend and 6 topics, 2 clients, 2 calls, 1 failed request, labels "bug" and "doc", label caches empty, right or stale | `OnlyNamed`, `LoneDelivers`, `MergeRetrySafe`, `ListShowsAsked` |
| `posts` | every backend and 12 topics, 2 clients, 2 calls, 1 failed request, 1 thing of others, 5 pages; or a follower of one thing, 4 changes, 1 late or repeated delivery | `PostsOnlyNamed`, `PostsDelivered`, `VerdictTrue`; `FollowerKeepsUp` |
| `rebase` | `MCGit`: 2 paths, 2 changes, 4 pairs of branch and target, 2 faults, 2 rebases, 1 edit; or 2 branches, 5 commits, 2 failures | `AbortRestores`, `OnTopOfOnto`, `NoneDropped`, `DisjointSidesCarried`, `PanicNeedsFault`; `MergeCarriesBoth` |
| `rebase_sides` | a path changed twice, nothing going wrong | violation of `BothSidesCarried` |

Why the bounds are enough. *Cache*: with room for two of three keys there is a least and a
most recently used entry besides the key that comes in; two ticks make an entry fresh, exactly
at its TTL, and past it; four instances allow both callers to build twice. Keys and callers
are symmetric, since no action tells them apart. *Janitor*: the code's fields hold one
janitor, so what can be confused is one and its successor. *Transport*: two calls cross in
every way, two attempts are a first and a last, two versions and tokens are an old and a new
one; the violation needs a third call that stores the newer body. Symmetry is used with no
liveness property. *Token source*: lives 1, 2 and 4 against a margin of 2; six ticks let a
token be fetched, kept, become due and be replaced, and the third asker waits behind two.
*Limited batch*: the third item meets a full semaphore and a used-up quota; the window is
long enough for an adaptive delay to be taken (more than `Second`).
*Ensure*: with pages of one and a walk of two, two entries fill the walk and a third, which
a reconciler adds, lies past it; the second call of a reconciler is its retry, the third
leaves one for the other. The contents asked for include events and a read-only key that some
backends do not carry, and one that is read back under another name. *Resources and posts*: two calls are a call and its retry, or two
clients that cross at every request; what more calls could do they would do from a state that
the initial states have already (items of both states, labels set and unset, caches right
and stale). The clients are symmetric: each calls everything, with values that are the
client's own. *Follower*: four changes make open, close, reopen, and merge or another close.
`VerdictTrue` asks that no more reports come in
during a poll than a page holds, and that a walk may read the whole list; the limit is the code's and
section 5 says how it came to light. With two calls a run stays within it; with three calls and the
topic of statuses alone the property was checked once (2.5 million states) and its premise is needed.
*Rebase*: two changes make an order, two paths make overlapping and disjoint changes; the
second rebase is one inside another; the edit, with a crash in the middle of a file, makes
every dirty worktree over these contents. The conditions `faults <= 1` in `OnTopOfOnto`,
`~misled` in `NoneDropped` and `~nested` are limits of what the code achieves, not of the
runs: the runs go beyond them. *Merge*: with five objects, two of them there at first, the head and a branch
can diverge and be merged both ways; a branch that shares no commit covers unrelated
histories. Two failures are two files that cannot be deleted, or one in each of two calls.

CHECK_DEADLOCK is off where everything may be over: all calls done, the batch returned, the
bounds of the rebase used up. The runs over platforms stutter explicitly (`Rest`), when
nobody is in a call.

Fairness. `FairSpec` of ProviderManager is weak fairness of the steps a Stop that has begun and
a janitor goroutine that has been told to end take next: the Go scheduler runs goroutines
that can run. Nothing makes anybody call an operation or a context end. `Spec` of
LimitedBatch has weak fairness of the loop, of the start of an item, and of each item's next
step, which for an item in flight is the network's: the HTTP client's timeout ends an
exchange that is not answered. Time passes fairly only in `BatchReturns`, which says so;
`CancelIsPrompt` does without. The other specifications state no fairness and have no
liveness property: nothing in the code retries a call for its caller, and a poll ends by its
caller's budget.

## 4. Findings

* **`stop_blocks`** Two overlapping Stops and a StartJanitor between them: the second half of
  the first Stop clears the `done` field of the new janitor, and the next Stop returns
  without waiting for it, against "blocks until it has exited" (`provider/manager.go:309`).
* **`stale_replay`** A slow 200 of an older version is stored over the entry whose ETag
  another request has named; the 304 that confirms the newer version is then turned into the
  older body (`transport/etag.go:175`).
* **`limiter_herd`** Once the quota is used up every waiter gets the same slot, the end of the
  window, against "progressively later slots" (`transport/ratelimit.go:116`).
* **`rebase_sides`** The commits are replayed newest first and written over what is there, so
  a path that the branch changed twice ends with the older content, and a change of the
  target to a path that the branch touched is lost, with no conflict reported, against
  "must carry BOTH sides" (`gitbackend/gogit_rebase_test.go:41`).

Each is a run that TLC must find violated; the trace is the scenario.

### Where the backends fall short of the interface

While the backends were modelled, TLC refuted the properties in their plain form on several
platforms. Where the code does something else than the interface says, the property names the
platform and what it does there, so that the rest stays checked. These are the exceptions.

*Items and labels.*
GitHub's UpdateIssue does not send the state. Gitee's UpdateCR sends an empty title and body
when none is given, and never the target. Gitee's UpdateRepo sends an empty name, description
and default branch. Forgejo's ListCRs sends the state as the caller wrote it, "opened", which
the platform does not know. GitLab and Tencent Code do not send the SHA of a file, so an
update overwrites a version its caller has not seen. A merge whose answer was lost is
reported as failed when it is tried again on GitHub, GitLab, Gitee, GitCode and Tencent Code;
Gitea and Forgejo recover. A label id that outlived a rename changes another label. Tencent
Code reads, joins and writes back the labels of an issue, and Gitea and Forgejo the title, so
what somebody else sets in between is undone.

*Webhooks, deploy keys and protections.*
`provider/ensure.go` promises "exactly one webhook for opts.URL with opts.Events". GitHub's list
shows the hook's own address in place of the URL, so each call there adds a webhook. GitLab and Tencent
Code carry the events of pushes, merge requests and tags alone and add push to every hook; Gitee
carries the names of its table. An event that is not carried is asked for and not had, and the call
reports success. Gitee's deploy keys are never read-only. Of several keys of one title
EnsureDeployKey replaces the first. A rule has the fields its backend sends; Gitee's has none.
Two calls that race may both create, and a list cut at the page cap makes a call add an entry that was there.
`AloneLeavesWanted` says what is left: all that is carried, and how many.

*Repositories.*
Gitea's and Forgejo's ListRepos filters the owner within a page the platform has cut, so the
walk that `provider/pageiter.go` documents ends at the first page without one; Tencent Code's
ignores the page when an owner is given, so that walk ends in `ErrPageBudgetExceeded`. Tencent
Code's CreateRepo ignores the owner, and GitLab's falls back to the caller's own namespace
when the search for the group fails. Gitee's ForkRepo drops the name, GitCode's and Tencent
Code's drop name and organization. Gitee, Tencent Code and GitCode (for a personal
repository) drop the default branch on creation.

*Comments, reviews, reactions, notices.*
Discussions lose their place in the diff on Gitea, Forgejo, Gitee and GitCode. A review on
GitLab and Tencent Code is a note; GitLab's GetReview returns the first approval. GitCode's
and GitLab's CreateReview begin anew as plain notes after a failure, beside what they have
left, and GitCode's reports success; what such a review holds is not said, but that its text is
there at most twice and an inline comment once. A branch of GitHub begins at the tip that the call
has read, which may be an older one by then. Gitea and Forgejo compare a reaction's id with its
user's. GitLab and Gitee mark all notices read, whatever `LastReadAt` says.

*Statuses.*
Gitee turns "pending" and an unknown state into "neutral"
(`docs/divergence-ledger.md:57`), which reads as success, so a wait there may report a success
that nobody reported. Gitea and GitLab turn some failures into pending. A wait ends on the failure
of one wanted context while another is still pending, though "the wait continues until each
named context lands a terminal state" (`provider/wait.go:56-58`). While more reports come in during
a poll than a page holds, the verdict may mix two moments (section 5).

*Webhooks.*
GitHub's issue_comment events never set `Comment`, which `provider/provider.go` says every
comment event carries. A tag that is deleted on GitLab or Tencent Code arrives as
`tag.created`. Issues of GitCode and Tencent Code carry no time, the issue in a comment event
of Gitee or Tencent Code no state, and `NormalizedEvent.Timestamp` is the time of parsing, so
deliveries cannot be ordered by it. Comment events of GitLab, Gitee, GitCode and Tencent Code
have the words of the comment but no id (`backends/gitlab/webhooks.go:236`), so that a second comment with the same
words is not told from a redelivery; `Follow` has no two with the same words.

*Local repositories.*
A fast-forward moves the branch and leaves index and worktree behind, so the next commit takes
the merged changes back; it ignores Squash and NoCommit. Merge and CherryPick do not ask
whether index or worktree are clean, and write over edits that are not staged. A merge of a
branch that is merged already ends with the error of an empty commit. `MergeCarriesBoth`
therefore speaks of calls that find the index as committed. A file that cannot be deleted is left
where it was without a word (`gitbackend/gogit_commit.go:137-140`): the call commits and reports
success, and since a merge names both parents, merging again does not bring the deletion; a rebase
goes on in the same way. `MergeCarriesBoth` and `DisjointSidesCarried` hold the call to leave out
such deletions and nothing else. A write of `end` that the disk cuts short leaves it empty,
and a continue then reports success with every change that remains dropped; an empty `msgnum` makes
it begin at the second. An empty `orig-head`, which is not modelled, would read as the zero hash, and an
abort would set the branch to it.

*Token source.*
A caller whose context has ended still waits at the mutex, and after a failed fetch each
waiter fetches again in turn.

## 5. Proofs

All proofs are checked by TLAPS to the last leaf, for every value of the constants that
satisfies the named assumptions. The type invariants are among them.

**ProviderManagerProofs** (`CacheAssumption`: finitely many keys, natural bounds).
`CacheTypeCorrect`, `OrderCorrect` and `SizeCorrect` are inductive one relative to the other:
the size bound needs the mirror, because the eviction loop counts the list and not the map,
and the mirror needs the order to be total, because otherwise there would be no oldest key to
evict. `NoResurrectionCorrect` and `SharedInstanceCorrect` follow from `InstInv`: instances in
the map and dropped ones were built, a map holds no instance twice, and what a caller holds
before it installs is in no map, no history and no other caller's hands. `FreshKeptCorrect`
is the action property, one case per action. The steps of the janitor stutter for the cache
or are a Cleanup.

Of the janitor (`JanitorAssumption`: a natural bound), `JanitorInv` joins the three safety
properties with what makes them inductive: the stop field names only a janitor whose
goroutine has not cleared the fields yet, and then the done field is empty or names the same
one. `RunningIsStoppableCorrect`, `NoDoubleCloseCorrect` and `WaitsForItsOwnCorrect` follow. That
the done field may be *empty* is what `stop_blocks` turns on.

**TransportProofs** (`TransportAssumption`: positive bounds). The inductive `TransportInv`
says of each call what its state implies of the request it carries: which token and version
the headers name, that a reply belongs to the token of the attempt, how the number of
executions is bounded by the number of attempts, and, for the cache, that an entry's body was
served to its key. It gives `TransportTypeCorrect`, `NoCrossPrincipalCorrect` and
`CacheFaithfulCorrect`. `WriteOnceCorrect` is the refinement of `WriteOnce` while
`RetryWrite` is off: `OnceInv` adds that a write is repeated only after attempts that never
left the machine, so it has not been executed while it waits for a retry; each step of a call
maps to one step of WriteOnce or a stutter. `LastResponseCorrect` is the action property.

Of the token source (`TokenSourceAssumption`: the delay of an answer is at most the margin): what
the source believes of the kept token errs by at most the delay (`KeptOK`), and is exact
where the platform told the expiry; so a token handed out from the cache outlives the margin
less that delay (`GotOK`), which gives `InFlightValidCorrect`. Only the caller at the mutex is
in a fetch (`OneFetch`), and it has seen the kept token due, which nobody changes before the
answer (`DueOK`); that gives `FetchesSpacedCorrect`.

**LimitedBatchProofs** (`BatchAssumption`, `LimiterAssumption`, `PlatformAssumption`).
`BatchInv` ties the loop's position to the items (what is still to do lies at or after it) and
says that a late start leaves the loop where the next check sees the ended context;
`SlotsSpaced` is inductive with the limiter's types; the conjunction with `ResultsTrue` is
`Inv`, which gives `LimitedTypeCorrect`, `SlotsSpacedCorrect`, `CompleteCorrect`,
`AtMostOneLateStartCorrect` and `ResultsTrueCorrect`.

**EnsureProofs** (`EnsureAssumption`; `WantsAssumption`: the types of the parameters).
`EnsureTypeCorrect`, and `BareOnlyInDebtCorrect`: whenever the resource that was there is
missing, some reconciler owes it. The invariant follows each reconciler that deleted an entry
from its delete to its create (`Owes`), through failures and lost answers of any of them.

For `AloneLeavesWantedCorrect` and `RerunUnchangedCorrect`, for any number of reconcilers,
entries and pages, `LoneInv` says of each call into which nobody else wrote where it is. A
walk holds the pages before its own (`WalkOK`), and one that ends has read a list that fits
whole (`WalkReadsAll`): by an entry's rank, its page is among those the walk may read, and
after an empty page there is none, for each entry but the first follows one of a rank less. A
replacement of webhooks deletes every one there is (`ReplaceOK`), so the one it creates is the
only one. On each backend what a webhook or a key reads as, when asked for, reads as itself
(`HookIdem`, `KeyIdem`), and an update of a rule leaves the body a create does
(`RuleUpdate`). A repeated call (`RerunOK`) finds what it wants; that it then writes all the same is
possible in two ways, which the invariant has to name: where the platform ignores the page
number, a webhook was listed twice, and the second of the two deletes is bound to fail
(`Doomed`), so the call ends in an error; and of several keys of one title the call
replaces another one than it left, which `Rerun` sets aside.

`AloneLeavesWanted` counts entries as well. `CountInv` follows that count through a lone call
(`CountOK`): while it lists there are as many as it found, afterwards never more, and of keys
exactly one less once the one to be replaced is deleted. So a list that is cut costs at most the entry
that is added. What an entry *holds* is compared by meaning, since one event
has several names (`Meaning`): for each backend `HookMeans` and `KeyMeans` say that what reads back from
a create request means what the backend carries of the wanted content, and `AgreesHolds` that a
decision for unchanged finds the same.

**GitMergeProofs** (`GitMergeAssumption`). While a call applies its changes, the paths it has
done hold the other side's content, and the rest and those it could not delete the head's
(`IndexOK`); of the latter the other side has none (`KeptOK`); the files it does not
change are as found (`FilesOK`), in a merge no path it changes differs between head and
base (`NoConflict`), and its commit is to name head and branch (`ParentsOK`).
`MergeCarriesBothCorrect` follows at the commit: the deletions that failed are all it can leave out. Ancestry is not
unfolded, so the theorem holds whichever merge base is taken.

**RebaseProofs** (`RebaseAssumption`; `StartsAssumption`: the branch and its target begin as
commits). Histories of any length, any number of paths, crashes, lost state files, rebases
and edits. `RebaseInv` says of each place in a call what is on disk there. `orig-head`, where
it exists, is what the branch was, unless a rebase was begun within a rebase (`OriginOK`), so
abort finds what it has to restore (`AbortOK`): `AbortRestoresCorrect`. Without a fault the
count in `end` is that of the commits which a continue computes anew from `orig-head` and
`onto`, at every moment of saving them included (`PlanOK`): `PanicNeedsFaultCorrect`, which
holds of nested rebases too. And a rebase that was not stopped between saving its state and
moving the branch is on top of its target; one that was is not continued, because `msgnum`
is not there yet (`MsgnumOK`, `TopOK`). For that last step there has to be no earlier fault,
hence the bound of one in `OnTopOfOntoCorrect`. The merge base is chosen, so the proof first shows
that there is one to choose (`Greatest`, `BaseLengthRange`).

A second invariant, `ReplayInv`, says what the replay has done. Every call of one rebase replays
the same list, and `msgnum` lags behind the replay by at most the change in hand (`ListOK`), so
what has been passed is in the branch or was reported, up to one change per fault (`DroppedOK`):
a crash between writing `msgnum` and the commit costs that change, for a continue starts at the
next one. With what the plan is, all messages of the branch that the target has not
(`PlanMessages`), this is `NoneDroppedCorrect`. Of an undisturbed rebase `CalmOK` says
that the branch is the target with the first changes of the list after it, and that the index
has each path as the only one of them that touched it, in the middle of applying a change too
(`SidedNext`); a path that could not be deleted is there still as the target has it, and only such a
path: `DisjointSidesCorrect`. What came of trying to prove it: `NoneDropped` needs the
condition `~misled`. `Rebase` creates `.git/rebase-merge` and never empties it, so a removal cut
short by a crash can leave a `msgnum`, which a second crash lets a continue of the *next* rebase
start from, skipping as many changes as it says. With two changes in a branch, as in the run,
no change is left to skip beyond what the two faults allow; with three there is one. A count that
a write left empty misleads a continue in the same way, and in the same rebase.

**CommitWaitProofs** (`PostsAssumption`; `CommitWaitAssumption`: statuses are reported, listed
and waited for, and nothing else is). `VerdictTrueCorrect`, for any number of clients, calls,
reports and contexts. The list is newest first, and others report while its pages are read,
so a page may show again what the one before has shown. `PollsInStep` says that a poll has
nevertheless seen, of the reports of its beginning, all those newer than the last one it read, in
that order (`InTurn`), and that what it has read, repetitions included, is not longer than those
reports and the new ones together (`Covers`). By counting ranks, the next page is then one of the
old reports and leaves none out (`NextPageRead`), and an empty page means that all of them have been seen
(`WalkComplete`), since each report but the newest follows one of a rank less. The first of a context in
such a list is its newest (`LatestAreNewest`), and the rollup says of these what the property asks
(`Combined`). The other topics and steps keep `WaitInv` because nobody waits there. What came of
trying to prove it: it does not hold of more new reports than a page has. The second page may then
begin with one of the new reports that the first did not show, so the first of a context is neither the
newest of the poll's beginning nor the newest of its end; with three new reports the verdict is true
at no moment, although `LatestCommitStatuses` says that the first seen is the most recent. TLC shows both
on the model with one more call. The property now says so.

**FollowProofs** (`FollowAssumption`: what can be followed, natural bounds).
`FollowerKeepsUpCorrect`, for any number of changes, comments and late or repeated deliveries. The
lemmas at the beginning say, for each of the seven backends, what `ParseWebhookEvent` makes of each payload that
the platform sends of each change (`CRHeard`, `IssueHeard`, `CRCommentHeard`,
`IssueCommentHeard`, and so on to `PipelineHeard`). The invariant, `FollowInv`, speaks of the line and the picture
together. While nothing overtook, each part of the picture *owes*: once the deliveries on their
way have set it, it is what the thing is (`Owes`, `InOrder`); a delivery that says nothing of a
part leaves what is owed, and one that is sent is owed from then on. For a branch this is not
enough: GitHub and the platforms like it tell of its beginning by `create`, without a commit,
so that the picture may be at no known commit, and a branch that is gone needs a delivery still to come after
every such one (`BranchOwed`). Whatever overtakes, of the states that objects say,
in the picture and on their way, those of the latest time are the one of the thing (`StateOK`),
because a picture never takes an older object than it has; this needs that an object with a
state has its time (`Timely`), which is what GitCode's and Tencent Code's issues lack. A comment
that is told is in the picture or on its way, and no delivery says that it is gone (`NotesOK`). A redelivery
appends to the line what has been heard; it is harmless for these two, and after it no order is claimed.

Only model-checked: the liveness properties (`StopReturns`, `BatchReturns`, `CancelIsPrompt`),
which need fairness and ENABLED, out of the prover's reach; the properties of `Resources` and the other
two of `Posts`, whose statements range over the request sequences of seven backends.

## 6. Not modelled

* *Calls of the backends that only read or hand a value through*: archives, tags, search,
  repository statistics, CI, gists, stars, migrations, users, release assets. They send one
  request and keep nothing.
* *Some fields*: those that travel exactly as another one does (a due date as the title), and
  the wording of errors.
* *The native git backend*: it builds argument vectors; what git does with them is not in this
  repository. *Other go-git operations* are calls of go-git without state between them;
  RenameBranch, which writes the new name before it removes the old one, is the exception.
* *The resolution of several label names at once, and the eviction of old label ids*: nothing
  calls them here.
* *Validation of webhooks, detection, errors, credentials, projection, the MCP server*: one
  pure decision or conversion per call.
* *A crash of the client between two requests of a call*: for the platform it is the same as
  a failed request, which the runs take.

## 7. Plan

1. Proofs of `MergeRetrySafe` and `ListShowsAsked` of `Resources`.
2. **RenameBranch** beside GitMerge.
3. An abstract "one item, one change" that `Resources` implements for a lone client.

## 8. Checking

`tlc -config MCGit.cfg MCGit`, and so on for the runs in `PROJECT.json`;
`tlapm TransportProofs.tla` and the other `*Proofs` modules. The largest run is `rebase`, with
about 7 million states in two to three minutes; the others take about a minute or less.
