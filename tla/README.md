# TLA+ for lib-python-projects

lib-python-projects gives one API to the tickets, pull requests and CI of
GitHub, GitLab and Azure DevOps. It is a library: threads or agents call into
it, every operation is a handful of HTTP requests to a server that other
people change at the same time, and the only state of its own is a few
process-wide dictionaries. What can go wrong is therefore rarely inside one
function. It is what happens between two requests of one call, between two
calls that share a cache, between a request that took effect and the answer
that got lost. These modules describe that.

Paths below are relative to `src/lib_python_projects/` unless they say
otherwise. `PROJECT.json` maps every definition to the lines it stands for.

## The system

| component | state | operations | interacts with |
|---|---|---|---|
| ETag cache (`providers/_http_cache.py`) | `_etag_store`, one lock | `handle_request`, `clear_etag_cache` | every GET of the GitHub and GitLab clients; threads share it |
| idempotency store (`providers/_idempotency.py`) | `_store`, one lock, in memory only | `lookup`, `record` | `create_ticket`, `create_pr` of all providers |
| creating tickets and pull requests (`providers/{github,gitlab,azuredevops}.py`) | none; the server keeps what was created | POST, then follow-up requests per provider | idempotency store, board writes, labels |
| waiting for CI (`PipelineWaitProvider`, `providers/base.py`) | locals of one call: clock, deadline, last listing | `wait_for_pipeline` over `list_runs_for_commit` | CI system |
| triggering runs (`trigger_pipeline`, `wait_for_run`) | locals of one call | dispatch, poll, backoff | CI system, other callers |
| ticket updates, labels, attribution | none | `update_ticket`, `bulk_update_tickets`, markers | server; other writers of labels and body |
| reviews and inline threads | none; GitHub keeps one pending review per account | inline comments, replies, review submit, resolve | server; other callers of the account |
| pull-request updates | none | `update_pr`: a read, then one write or one per list | server; other people's titles, labels, reviewers |
| merging | none; Azure DevOps completes later | `merge_pr`, probes and polls | server, branch policies, pushes |
| relations and hierarchy | none; duplicates live in the body text | `add_relation`, `remove_relation`, and `get_ticket`'s reading of links and text | server |
| listings | none; a cursor or page number per call | `list_tickets`, `list_prs`, `list_comments` | server, whose contents change between pages |
| Azure DevOps metadata caches | seven dictionaries with expiry, one lock | `_cache_get`, `_cache_put` | every Azure DevOps operation |
| GitHub board (Projects v2) | none | field and option writes, `ensure_board_column` | server; options are read, extended and written back |
| batch queries (`github_batch.py`) | none | GraphQL aliases in chunks | server |
| loader and discovery (`loader.py`, `autodiscover.py`) | configuration | merge of `projects.yml`, token probes, discovered repositories | all providers |
| finder, markers, templates, models | none | pure functions | - |
| CI release helper (`ci/` of the repository) | none | choice of the previous tag | `gh` |

What is hard here, and what each part has to get right:

- **ETag cache.** Two threads fill one entry; the server changes between
  lookup and answer; a clear or a refill lands between lookup and replay; tokens
  of different accounts share entries. Right means that a caller cannot tell the
  cached client from an uncached one.
- **Creation.** The POST takes effect and the answer is lost; a follow-up
  step fails after the object exists; an entry expires while a retry runs; light
  and full calls mix under one key. Right means that a retry after a finished
  create creates nothing and gets the same object, and that a failure after
  the POST names what was created.
- **Waiting.** Runs appear, finish, are re-run and vanish between the
  requests of one poll. Right means that a verdict is true of one instant, that
  no wait gives up early or sleeps past its deadline, that polls keep the rate
  limit's floor and that the call returns.
- **Triggering.** The server gives no run id back; the run is recognised by
  its workflow, ref, event and second of creation. Right means never an old run,
  never a miss because of rounding; it cannot mean "the caller's own".
- **Updates.** An update decides from the ticket it read, writes, and on GitHub
  goes on to write the board, whose automation may then change the ticket.
  Between any two of these requests other callers and people edit the same
  ticket. Right means that nobody's label is lost or invented, that the edit
  stays attributed, that the board ends with what was asked, that a returned
  ticket is not older than its own writes, and that a batch has a result for
  every id.
- **Reviews.** On GitHub a comment goes into the account's pending review,
  which is looked up, perhaps created, filled and later submitted, each in a
  request of its own and each by any caller of the account. Right means that a
  comment stands on the commit it was made for, that a submit publishes what was
  commented before, that no empty draft stays behind and that cleaning one up
  destroys nobody's comment.
- **Pull requests.** An update sends what follows from the pull request it
  read. A merge is accepted for a commit and, on Azure DevOps, carried out later
  or given up. A verdict is a vote and a note in two requests. Right means that
  an update changes what it names, that a reported merge has happened, of the
  commit that was read, and that the reviews read back say who stands where.
- **Relations.** GitHub, GitLab and Azure DevOps keep parents, links and
  duplicates in different places, two of them partly in the text of the body, and
  name parent and child from different ends. Right means that a reader sees
  what a call wrote, that errors are true, that a refused call leaves at most the
  link it had written before and that a removal takes nothing else.
- **Listings.** Between the pages of one listing items appear, vanish and
  change state. Right means that rows neither repeat nor fall into a gap where
  the way of paging can prevent it, and that "no more" means no more.
- **Metadata caches.** An entry is read, judged, dropped and refilled in four
  steps that other threads come between. Right means that no value is older
  than the time to live and that no key stays empty by accident.

## Modules

| module | what it is |
|---|---|
| `PlainTransport` | the contract of the ETag cache: an HTTP client without one |
| `ETagCache` | `ETagTransport.handle_request`, thread by thread; implements `PlainTransport` |
| `CreatePlans` | what each provider does after the POST of a create, and what a failing step becomes |
| `IdempotentCreate` | callers, store, create flow, server |
| `IdempotentCreateProofs` | inductive invariant and the promises of the key |
| `PipelineWait` | `wait_for_pipeline` over `list_runs_for_commit`, request by request, against a moving CI system |
| `PipelineWaitProofs` | verdicts, timeouts and pacing, for all constants |
| `RunTrigger` | `trigger_pipeline` and `wait_for_run` of GitHub |
| `RunTriggerProofs` | what a resolved run and a timeout mean, for all constants |
| `TicketUpdate` | `update_ticket` and `bulk_update_tickets` of the three providers on one ticket |
| `ReviewDraft` | GitHub's pending-review flow: comments, replies, cleanup, submission |
| `PullState` | a pull request on its server, everybody else, and the call in flight |
| `UpdatePull`, `MergePull`, `Verdict` | `update_pr`, `merge_pr`, `submit_pr_review` and the reading of reviews, per provider |
| `PullRequest` | the three of them on one pull request |
| `PullRequestProofs` | its types, reported merges, decisions, reviews and updates, for all constants |
| `LinkState` | a ticket with its relations and its body, everybody else, and `get_ticket`'s reading of them |
| `GitHubLinks`, `GitLabLinks`, `AzureLinks` | `add_relation` and `remove_relation` of each provider |
| `TicketRelations` | one ticket, the calls one after the other |
| `TicketRelationsProofs` | reading back, refusals, errors and removals, for all constants |
| `ListState` | a collection that changes, its pages and cursors, and the listing being read |
| `TicketLists`, `CommentLists` | `list_tickets` and `list_prs`; `list_comments` |
| `Listing` | any one of them |
| `ReviewAndListingProofs` | of reviews: commits, orphans, cleanups and submissions; of listings: gaps, repeats and false ends; for all constants |
| `BoardColumns` | `ensure_board_column` of GitHub and Azure DevOps among other callers and people |
| `TicketProofs` | labels, attribution, batches and board fields of updates, and what `ensure_board_column` keeps of the board, for all constants |
| `MetadataCache` | the cached lookups of Azure DevOps, thread by thread |
| `CacheProofs` | the two caches: invariant and refinement of one, freshness and refilling of the other, for all constants |
| `MC*` | constants for TLC |

### ETagCache

One thread per caller; `pc` walks `handle_request`: `Begin` (a paged GET or a
write goes straight to the wire), `Lookup` under the lock, the server's answer,
`Replay` for a 304 or `PassOn` for anything else, `Return`. A resource's
representation depends on its state and on the account that asks, and a
validator may be the same for two states, but never for two different bodies.
That validators identify bodies is the one thing taken from HTTP
(`ValidatorIdentifiesBody`, an assumption on the constants). `link` is a header that
changes without the body, as pagination headers do.

`Transparent` is refinement: `ETagCache` implements `PlainTransport` under a
mapping that reads a 304 on the wire as the 200 it will become. It is what makes
"the captured entry is replayed even if the store was cleared meanwhile" harmless
and "paged requests are cached" wrong. It rests on `CacheInv`: stored and
captured entries pair a validator with its body, and a 304 only ever answers a
request that had a captured entry.

### CreatePlans and IdempotentCreate

A call with a key does `Lookup` (expiry, conflict, replay), possibly `Reload`;
a fresh one does `Prepare` (everything before the POST), `Post`, one `FollowUp`
per step of its provider's plan, and `Stamp` and `Record`, which are two actions
because `record` reads the clock before it takes the lock. `Post` may take effect
and raise. Every follow-up step can fail in every way `_check`, `_check_side_step`,
the resolvers and the transport can make it fail; `CreatePlans` says which
failures are swallowed and which come with the object's identity (`nameless` is an
answer to the POST without the `node_id` that a board write needs). `Restart`
loses the process; `Tick` moves the monotonic clock.

`NoDuplicateAfterSuccess` and `ReplaySound` are the promise;
`CreateInv` is the inductive invariant. `crossed` remembers that two calls
with a key overlapped: the module's docstring excludes that case, so does the
promise.

### PipelineWait

Up to three requests make a poll, and the server moves between them. GitHub
and GitLab ask for the commit first, Azure DevOps lists first (`order`).
`truth` is the server's set of runs at the instant the last poll read
them, and `VerdictMatchesServer` compares every result with it; a poll sees
`Page` runs, so success speaks for the page if there are more.

### RunTrigger

Times are ticks, `Second` of them make a second of `created_at`. A dispatch
that was accepted becomes a run at some later time or never; a dispatch whose
answer was lost, or that was sent with `wait=False`, starts a run nobody
waits for. `skew` is the server's clock against ours. The properties say what
a result means under which skew: `OldestOfWindow`, `NeverPreexisting`,
`TimeoutIsGenuine`, `CallsEnd`.

### TicketUpdate

One ticket, several callers, one provider per behaviour. A call is `Read` (the
GET that becomes `snap`), a write, and on GitHub `WriteBoard` once per field,
`BoardDone` and `Reread`; `Refuse` is everything that raises before the write.
`WriteGitHub` is one PATCH with what differs from the snapshot, or none;
`WriteGitLab` one PUT with labels as deltas; `WriteAzure` one PATCH with
the tags rewritten. A write that landed may still be answered by an error
(`Answered`). `Cascade` is the automation that closes an issue whose card
reaches the last column, `Outsider` is everybody else.

A bulk update repeats the update in one thread and turns a `ProviderError` or
`ValueError` into the id's result. What the transport raises is caught by none
of the three providers' loops and ends the batch: these are the outcomes
`error` and `raised`. In the model every id of a batch is the same ticket, which
is the case where the updates can get in each other's way.

The histories say what labels the ticket had (`first`), which anybody asked for
or a call may stamp (`offered`), which anybody asked to remove (`stripped`), and
which additions the server confirmed (`landed`); `edited` that an update had to
attribute itself, `unstamped` that the repository refused the label; `wrote`
the board values of the update under way. Assumed of the servers:
GitLab applies the additions of a PUT before its removals; the GitHub project
has a Projects v2 binding, since without one a call that names a board field is
refused and a reopened ticket has no card.

`LabelsSurvive` and `NoStrayLabels` are what can be promised of a
read-modify-write without a revision test: a label nobody removes survives any
interleaving of stale lists, while one that was added meanwhile survives on
GitLab only. `EditsAreAttributed` is subtle for the same reason: whether a call
adds `ai-modified` is decided from its snapshot, and two updates could each
rely on a label the other is about to overwrite.

### ReviewDraft

`reviews` is the account's list of reviews of one pull request, at most one of
them pending. A call is `Find`, for a reply `Anchor` (its thread is resolved
before anything is created), then one or two writes: create, attach or
submit. The writes share an action (`Write`, `WriteFails`), because what may
happen to them is the same: they are refused, get lost, take effect
unanswered, or take effect after their caller has given up (`late`,
`LandsLate`). A mutation that is answered without a payload counts as failed
(`Succeeded`). A reply that fails on a draft this call created goes on to `Verify`
and, if the draft is still empty, to the delete; both are best effort.

Which comment `_latest_pending_review_comment` returns is left out, and so is
the limit of a hundred pages of `_find_pending_review`. What GitHub
accepts (one pending review per account, changes only to a pending one) is
taken from the comments of the code.

### PullState, UpdatePull, MergePull, Verdict, PullRequest

`pr` is what the server knows of one pull request, `notes` what it keeps of
reviews: marked notes on GitLab, review-body threads on Azure DevOps, submitted
reviews on GitHub. A call is one of three:

- An **update** reads (`UpdateRead`), plans its requests from the snapshot
  (`UpdatePlan`) and sends them one by one (`UpdateWrite`). `GitHubPlan`,
  `GitLabPlan` and `AzurePlan` are the code's order of them; `Effect` is what
  each does. `Exposed` lists the fields a provider writes back as it read them
  although the call does not name them: GitHub's label set, GitLab's title with
  its draft prefix and GitLab's reviewers.
- A **merge** is one PUT on GitHub and GitLab, with a `Probe` that tells a refusal
  apart. On Azure DevOps it is a `Handshake` that reads the head, a
  `CompletionPatch` for that commit, and polls; `Settle` is the server working
  the completion off, in which `mergeStatus` may read succeeded before `status`
  reads completed.
- A **verdict** is `CastVote` and `PostNote`; GitLab needs `WhoAmI` for the
  id of an approval without a body. GitHub's is `ReviewDraft`'s submission.

`stance` remembers the last act of each person as a reviewer, and the
properties compare it with what `get_pr` and `list_pr_reviews` make of the
server's data (`Decision`, `Reviews`). On GitLab that depends on what the
approvals endpoint answers, and the properties quantify over it (`Gates`): 403 or
404, no approvals required, some missing, or all given. Where approvals cannot be read
(`Blind`), `_decision_with_marker_override` returns before it looks at a note, so
a standing change request is not shown: `RequestedChangesShow` is a promise to
readers who may read approvals. Notes are taken to be readable, and to fit the
hundred pages that are read of them; without them GitLab shows no change request
at all. `ReadsBackWithBody` leaves out Azure DevOps' verdicts without a body (a
reviewer with an earlier thread reads back with that thread's id and body) and
bare approvals on GitLab where approvals cannot be read. Each part brings its calls (`UpdateCalls`,
`MergeCalls`, `VerdictCalls`); `RequestTypes` says that an instance makes no others.

### LinkState, GitHubLinks, GitLabLinks, AzureLinks, TicketRelations

`rels` names each relation as a reader of the ticket names it, in the order
Azure DevOps keeps them; `body` holds the lines that say "duplicate of", each
either a marker of its own or a phrase in prose, which GitHub's reader tells
apart and GitLab's does not. `Longer` pairs numbers that start alike, because
several of the searches are for a prefix. A link is deleted by its id, so
`Drop` removes the one relation it names. A write of relations or body is
computed from the read before it: the index on Azure DevOps, the body on all
three. The server may refuse any request, whatever was written before
(`Refused`): `RefusalChangesOnlyLink` says that of a duplicate's two writes the
first, the link, may then be there or gone while body and state are as they were,
and that nothing else may. Taking a duplicate off on GitLab goes on when the link's removal
is refused, as the code swallows that.

GitHub's checks before a write ask for no page size and see one default page
(`DefaultPage`, with `Crowded` the targets whose own list is longer), while
`get_ticket` asks for a hundred rows. A relation on the second default page is
therefore listed and, to `remove_relation`, not there. For an addition the POST's
422 says the same as the check. `Reported` is `get_ticket`'s reading. `WritesReadBack` says for which calls it
shows what was written (`Readable` names the exceptions, each a behaviour of
the code); `ErrorsAreGenuine` and `RemovalIsExact` are action properties, and
name where a provider's errors and removals are about something else: numbers that
start alike, a target that is gone, a dependency beyond the default page.

### ListState, TicketLists, CommentLists, Listing

`items` are what the server has, oldest first; the identifier says when an item
was made. `list` selects one of twelve ways of listing, each read as the code
reads it: pages until enough is left of them (`IssuesPage`), one page
(`OnePage`), a cursor to the end (`BoardPage`, `AzureNewest`), numbers first
and then batches (`WorkItemIds`, `WorkItemBatch`), stubs and a request for each
(`PullStubs`, `PullFetch`), two requests merged and sorted (`MergeRequests`), or
from the last page to the front (`Probe`, `Walk`). `steady` is what has been there
unchanged all through the call and `alone` says that nobody else acted.
Listings are sorted by creation, newest first; the other orders
(`sort_by`, ascending) and all filters but state, since and page are left out.
GitHub's search for pull requests is the exception: its request names no order, so
the server answers with the best matches, and `BestMatches` is any choice of that
many in any order. Of it `NoHoles` can only say that a page is full before anything is
left out; which rows are cut is the server's choice. The cards of a board are
taken to stay in the order in which they were added: the cursor runs in board
order, and somebody who drags a card past it is not modelled.

A filter is what the comprehension in the code makes of a list: `Where(s, P)` keeps
the places of `s` at which `P` holds, in their order (`Kept`, with `Nth` for the
n-th of them), and `SortNewest` puts each element at its `Rank`, equal
ones in the order they came in, as a stable sort does. Both say what filtering and
sorting yield without a recursion over the sequence, so that they can be
reasoned about. The specification is called `ListingSpec`, and its parts likewise,
so that one proof module can extend both this component and `ReviewDraft`.

### BoardColumns

Neither provider has a request that makes one column. A call is `Read`, which
ends it if the name is there in any case, and `Write`, which sends the columns
that were read (`Sent`: their ids and looks as they were) and the new one; the
server's list becomes exactly that (`Replace`), and a card whose column is not in
it is in none. `Fail` is an exception, after which a write may have taken effect
all the same. Where the new column goes among the others is left out, and so are
Azure DevOps' state mappings. That people do not give two columns one name is
assumed of the server (`Free`).

`NoTwins` is not obvious, as nothing keeps two callers from finding the same name
missing. It holds because the later write replaces the earlier one's column, which
is also why a call can destroy a column made after its read:
`ReadColumnsSurvive` says what it cannot destroy.

### MetadataCache

`_cache_get` is `CacheGet`, `Test` and `Drop`, because the lock is released in
between; `Fetch` is the request and `Put` is `_cache_put`. The seven
dictionaries are one, `Nullable` are the keys whose answer may be "none"
(`_field_allowed_values`), and a stored none is not a hit, as in the code.
`held` remembers when a value was last on the server. `MaxDelay` bounds the
time between an answer and its `Put`; freshness is a promise relative to it.

## Runs

| run | question | instance |
|---|---|---|
| `etag_cache` | is the cache invisible? | two threads with different accounts, one resource with three states, one of them without a validator, a link that drifts |
| `idempotent_create` | what does a key protect? | two callers, two objects, TTL 1, one key used by a full and a light ticket and a pull request, and a call without a key |
| `retry_duplicates` (violated) | do sequential retries never duplicate? | the same |
| `wait_for_pipeline` | are verdicts, timeouts and pacing right, and does the call end? | three runs, pages of two, timeout 3, floor 2, a requested interval of 1 |
| `run_trigger` | what do a resolved run and a timeout mean? | one caller and three kinds of foreign runs, pages of two, skew -1, 0, 1, two ticks a second |
| `ticket_update` | what survives concurrent updates, and what does an update end with? | two callers, one ticket, six argument lists, three labels, two poll attempts, one edit by others, on each provider |
| `review_draft` | where do comments end up, and what stays behind? | two callers of one account, three calls, two commits and a moving head, two reviews, one late request |
| `pull_request` | what may an update overwrite, what does a reported merge mean, who stands where? | two calls out of thirteen, two acts of others, one lost request, two polls, on each provider; approvals required or not, readable or not |
| `ticket_relations` | does a reader see what was written, and nothing else changed? | two calls, two changes by others, any request refused, one lost, two targets whose numbers start alike and a missing one, a default page of one row and a target with more, on each provider |
| `listing` | what does a listing leave out? | twelve listings, up to four items, pages of two, limits 1 and 3, two acts of others |
| `board_columns` | does providing a column lose or double another? | two callers, a name in two spellings and another one, five columns ever, one card, three acts of others, one lost request |
| `metadata_cache` | how old may a value be, and does a dropped key come back? | two threads, two keys of which one may have no value, TTL 2, delay 1 |

Why these bounds are enough to meet the interesting cases. A race on one cache
entry needs two threads and two bodies; the third state has no validator, so
that an uncacheable answer meets a cached one. A duplicate needs two calls and
two objects; TTL 1 with a clock to 2 has an entry that is fresh, exactly at its
limit, and expired. Three runs with a page of two make a run outside the page;
timeout 3 with an effective interval of 2 has one whole and one truncated
sleep. Two ticks a second let a dispatch happen in the second half of
a second. Losing a label to a stale list takes two callers and one label both
may touch; the six argument lists are chosen so that their parts collide: a field
named twice, a column named in the update that reopens the ticket, one label to
add and to remove. Three calls are a reply whose draft is found by
somebody else's comment and submitted by a third. Two calls on a pull request
or a ticket are a write and its retry after a lost answer, or a write and its
reversal; two acts of others are the one that makes a snapshot stale and the one
that makes its write collide. A default page of one row is exceeded by the second
relation of a kind, and from the target's side by a target that is crowded from
the start. A limit of 3 over pages of 2 takes a second page
and cuts inside it, a limit of 1 makes pages of 1; four items with two acts
let a page lose a row to its neighbour and gain one. Two callers of
`ensure_board_column` with three acts of others let a column be made, renamed or
deleted between read and write of each. A time to live of 2
and a delay of 1 under a clock of 3 have an answer that is stored late, one that
is read at its last tick and one that is dropped. The runs without CHECK_DEADLOCK are those where a call is over and
the bounded clock is at its end.

Bounds: `MaxClock`, `MaxRuns`, `LastCall`, `MaxEdits`, `MaxReviews`, `MaxCalls`,
`MaxLate`, `MaxEvents`, `MaxFaults`, `MaxItems`, `MaxMade` and the number of `Objects` only end
the exploration; `MaxPolls`, `MaxPage` and `DefaultPage` are the code's and the server's own limits, made small; guards name them. In the theorems they are arbitrary.

### Fairness

`PipelineWait`, `RunTrigger` and `TicketUpdate` assume weak fairness of the caller's own steps
(its thread is scheduled and each request has a client timeout of 30 s, so it
ends, with an answer or an exception), and the first two of time. Nothing is
assumed of the server, of CI or of other people: runs may never appear and never
finish, and the automation `_reget_issue` polls for may never run. `ETagCache`,
`IdempotentCreate`, `ReviewDraft`, `PullRequest`, `TicketRelations`, `Listing`,
`BoardColumns` and `MetadataCache` state safety only: their calls are finite lists of requests, except
where they read pages, and there the server decides when the pages end.

## What is proved

TLAPS checks, for every value of the constants that meets the named assumptions:

- `CacheInvariant`, `CacheIsTransparent`: `Spec => []CacheInv`, and then each
  step of the cache is a step of `PlainTransport` or a stutter. Both need
  `ValidatorIdentifiesBody`.
- `CreateInvariant`, `SequentialRetriesAreSafe`, `ReplaysAreSound`. The
  invariant ties the youngest stamp per key to the stored entry as long as calls
  do not overlap (`NewestIsStored`, `StampsAdvance`, `AloneUnlessCrossed`): the
  promise alone is not inductive, since nothing in it says why the entry is
  still there when the retry looks.
- `VerdictsAreTrue`, `WaitsUseTheirTimeout`, `PollsArePaced`. The invariant
  `WaitInv` says that the rows of a poll are a page of the truth and equal to it
  if the page is whole, and that a sleep lasts the interval or ends at the
  deadline. A non-empty listing has a newest run by well-foundedness.
  `WaitLoopTheorem` states it for itself, since a run checks it too.
- `OldestIsTaken`, `NothingPreexistingIsTaken`, `TimeoutsAreGenuine`, from
  `TriggerInv`, for any callers, foreign runs, backoffs, skew and page size. What
  a result says of the runs must still be true when more of them have appeared,
  so the invariant orders runs by birth (`Aged`), dates a caller's runs by its
  t0 (`Own`), and says of what a poll was left with that it is older than every
  other run that fits (`Eldest`), or, if it was left with nothing, that there was
  nothing to see (`NoneSeen`). Seconds need one lemma: floor division is
  monotonic.
- `UpdateTypes`, `SurvivalTheorem`, `NoStrayTheorem`, `AttributionTheorem`,
  `BatchTheorem`, for any number of callers, any arguments and batches of any
  length. The promises about labels are not inductive, because each can be broken
  by a write whose snapshot is old. The strengthenings (`SurvivalInv`, `StrayInv`,
  `MarkInv`) say the same of every snapshot from which a write may
  still come: an unstripped first label is in each of them, no stray label
  is in any, and as soon as an update has attributed itself, or a call
  about to write has read an AI label and so may not add one, the ticket has one.
  `BatchInv` counts the results against the ids that are left. `BoardTheorem`
  says that an update ends each board field as asked: by `BoardInv`, what is
  still to be written on top of what has been written is always what was asked,
  and `LastValue` of a list of writes is proved to be one of them.
- `CommitsAreKept`, `NoOrphansAreLeft`, `CleanupsAreCareful`, from one
  invariant, `DraftInv`. It adds to the promises what every caller holds
  (`Aimed`: its draft exists, is of its commit, and is its own if it may delete
  it) and what every abandoned write would do (`Harmless`); a write that
  lands, now or late, then needs one argument (`LandKeeps`). `SubmissionsPublish` adds
  where the comments of returned calls are (`PublishInv`).
- `PullRequestIsTyped`, `ReportedMergesAreReal`, `ChangeRequestsShow`,
  `ApprovalsShownAreCurrent`, `ReviewsReadBack`, for any people, names, requests
  and bounds. `Inv` adds to the promises what a call on its way has done so
  far (`OnItsWay`: a vote was cast, the note is still missing), that it returns
  nothing meanwhile (`InFlight`), and how votes, approvals and notes on the server
  follow from what each person did last (`Said`), provider by provider. The
  decision is then a fact about one state, for each answer the approvals endpoint may give. `MergesOnlyWhatItRead` and
  `UpdatesAreLocal` are action properties: each request a plan may hold is looked
  at once, with the fields its provider sends as a whole (`Exposed`) set apart.
- `RelationsReadBack`, `RefusalsChangeOnlyTheLink`, `ErrorsSpeakTruly`,
  `RemovalsAreExact`, for any tickets, bodies, numbers of calls, other writers,
  page sizes, refused and lost requests. `LinkInv` has three parts besides types and the two promises
  about results. `Sound` is the server's side: no relation twice, one parent, on
  GitLab one link per pair, duplicates on Azure DevOps only; each change of the
  list is shown to be the change of the set it stands for. `Route` says which
  requests get to which step. `Stage` says what a call may rely on if nobody else
  has acted: the ticket is as it was found until something is written, then only its link
  differs until the last write, the body it carries is the edited one, the index is
  of a matching relation. The rest is
  the reader: one lemma per provider tells when `Reported` lists a relation.
- `NothingLeftTheorem`, `NoRepeatsTheorem`, `NoHolesTheorem`, from
  `ListingInvariant`, for any number of items, any limits and page sizes, and any
  acts of others. The promises speak of results only and say nothing of a call on its
  way, so `ListingInv` has three parts. `WorldInv`: items are in the order in which
  they were made, and the steady ones are among them. `CallInv`: what a call knows
  half-way, one formula per way of paging. A queue of numbers has the newest of
  what fits, and one of GitHub's stubs all that fits or a full page of it
  (`QueueInv`); a cursor has everything steady up to it (`CursorInv`);
  pages from the front hold, if nobody else acts, exactly what fits of the
  places read (`IssuesInv`); a walk from the end holds everything steady but
  what is older than its rows and lies on pages still to be read (`WalkInv`); of
  two requests to be merged, the first is complete or full, and then it misses
  only older ones (`HalvesInv`). `ResultInv`: what was promised holds of the row
  list returned (`Promised`). Below that are lemmas on sequences: what keeping
  places, sorting, taking a front or an ending, and cutting a page do to order
  and to the set of elements, and that deleting or making an item only shifts
  the rest.
- `BoardHasNoTwins`, `ReadColumnsKept`, for any number of callers. The
  invariant says of every list about to be written what `NoTwins` says of the board,
  and that the name to be added is not in it (`WriterInv`).
- `CachedValuesAreFresh`, `DroppedValuesAreFetched`, for any number of threads
  and keys. Freshness is not inductive: the invariant dates every value on its
  way, in the store, in the hand of a thread that judges it, and in a thread
  that has fetched it, whose delay the clock may not exceed. Nothing is assumed
  about the order in which threads store, so an older answer may well replace a
  younger one; it expires by its own date all the same. Refilling follows from
  who may empty a key: only a thread that fetches next.

Model-checked only:

- liveness (`Returns`, `CallsEnd`): it rests on ENABLED, which the prover does
  not treat;
- the violated claim of `retry_duplicates`, which is false.

## Where code and documentation differ

1. `_idempotency.py:13-14` says sequential retries after a timeout or network
   error are protected. They are if the first call returned; after an exception
   nothing was recorded and the retry creates again (`retry_duplicates`).
2. `create_ticket` (`providers/github.py:3845-3846`) says that a board-write
   failure raises `PartialTicketCreateError`. A rate limit, an unknown field or a
   transport error is passed on as it is, without the issue's number, and an issue
   that comes without a `node_id` raises a plain `GitHubError`.
3. `trigger_pipeline` (`providers/github.py:6886`) says it resolves "the run it
   created". It resolves the oldest run that matches, which may be another
   caller's.
4. `update_ticket` says it stamps the body marker "so it matches the resource's
   label state after this update" (`providers/github.py:4378-4379`). The marker
   follows the labels before the update, so one call that rewrites the body
   and removes `ai-generated` leaves a marker without its label.
5. `update_ticket` (`providers/github.py:4143-4148`) says that a reopened
   ticket's column is reset if the board "has moved it into a terminal column".
   The code does not look at the column and resets every reopened card.
6. The comment at `providers/github.py:4511-4515` says that polling against the
   state before the update keeps a state-changing PATCH from hiding the
   automation's change. With a PATCH that reopens the ticket, the first re-read
   already differs from that state and the poll ends.
7. Azure DevOps' `update_ticket` says labels are "still applied (the ai-modified
   label ...)" (`providers/azuredevops.py:3444-3445`). The tags are written only
   if labels are asked for or `on_update` is configured; an update of title or
   body alone carries no attribution.
8. `_cleanup_orphaned_pending_review` says it will "only delete when it comes
   back empty, i.e. the mutation never actually landed"
   (`providers/github.py:628-629`). A mutation that timed out may land after the
   check and is then deleted with its draft.
9. Azure DevOps' `remove_relation` guards its description against 'removing
   "#9" must not also eat "#90"' (`providers/azuredevops.py:5601-5602`). Of the
   relations array it takes the first URL that contains `/workItems/9`, which
   may be that of #90; `RemovalIsExact` therefore excepts numbers that start alike.
10. Azure DevOps' `merge_pr` (`providers/azuredevops.py:4755-4757`) says a merge that is
    still in flight raises a 202 rather than be taken for `merged=false`. If the
    last poll reads `mergeStatus` succeeded and `status` active, it returns
    `merged=False`. The same docstring says the polls take about 3 s; the
    delays sum to 10.2 s.
11. Azure DevOps' light `update_pr` (`providers/azuredevops.py:4617-4619`) says its
    answer is made of the PATCH's response. A reviewer request in the same
    call replaces that response (4716, 4725), and the answer is made of a reviewer.
12. GitHub's `list_tickets` (`providers/github.py:3530`) says there is no more when
    the limit cuts a last page that is not full: the tickets behind the cut are
    not announced. `CutInside` in `Listing` is this case.
13. `_field_allowed_values` (`providers/azuredevops.py:2375-2376`) says its result is
    cached for an hour; the result None is stored but never found.
14. The comment at `providers/github.py:1375` says a removed connection is skipped;
    skipped is the event of its removal, and the connection stays listed.
15. `ensure_board_column` (`providers/github.py:4698-4700`) says every existing
    option is sent along "so no columns are destroyed". Sent are the options of an
    earlier read; a column made in between is destroyed, and a rename or a new
    colour undone. `ReadColumnsSurvive` is what remains true.
16. GitLab's `add_relation` (`providers/gitlab.py:4885-4887`) documents `blocks` and
    `blocked_by`; both are refused as unsupported.
17. `_github_assert_dependency_exists` (`providers/github.py:1143-1147`) says the
    dependency list is read so that removing a relation that does not exist
    raises. Read is its first default page, so removing one further down, which
    `get_ticket` lists, raises `RelationNotFound` too.
18. Azure DevOps' `add_relation` (`providers/azuredevops.py:5461-5464`) says that it
    marks a duplicate like GitHub and GitLab. When the second PATCH is refused or lost,
    GitLab's retry goes on from the link; Azure DevOps' ends in
    `RelationAlreadyExists`, and the work item stays open and unmarked.
    Removing one is stuck the same way, in `RelationNotFound`.

## Not modelled

- Inline comments of GitLab and Azure DevOps: one request each, without a draft.
- GitHub's batch queries (one query over independent projects), the loader and
  discovery (one pass at start over files, remotes and token probes), finder,
  templates and the previous tag (pure functions): no state that two steps
  share. Their errors are those of a table, which the tests cover.
- The wording of comments and errors, and the mapping of payloads (`models.py`,
  the `_map_*` functions) beyond what control flow reads.
- More than a page of reviews on GitHub, of which the code reads the oldest
  hundred, and more than a hundred relations of a kind, of which `get_ticket`
  lists the first hundred.
- Cards that change places on a board while it is listed, and GitLab notes that
  cannot be read.

What would be worth doing next: a refinement of `TicketRelations` to a set of
relations that calls add to and remove from, and inline comments of GitLab and
Azure DevOps.
