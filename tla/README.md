# TLA+ models of tiden-mcp-server

This directory holds TLA+ specifications of `tiden-mcp-server`, the
configurations that model-check them with TLC, and proofs of their main
properties that TLAPS checks.  `PROJECT.json` lists the components, the runs,
the theorems, the hazards each property is for, and, definition by definition,
the source lines a module stands for.

    tlc -workers 2 -config MCHttpClient.cfg MCHttpClient
    tlapm HttpClientProofs.tla

## The system

The server is a stdio process that an MCP client (a coding agent) starts in a
checkout.  It decides once which Tiden server, token and workspace to use, then
serves tool calls, each of which sends one or two requests to Tiden's REST API.
It writes no file and keeps nothing between tool calls; what makes it hard is
what it cannot control: the other programs that write the files it reads, the
server and the network, and the agent that calls several tools at a time,
cancels them and tries again.

| component | state | operations | talks to | hard part | correct when |
|---|---|---|---|---|---|
| HTTP client, `internal/api/client.go` | per call: attempt, backoff; at the server: what was applied | `Do`, `WithTimeout` | the REST API; every other component calls it | retries of writes, timeouts racing answers, late attempts, cancellation | a result means what its caller takes it to mean; a write is repeated only where the retry rule says so |
| global store, `internal/config/store.go` | the parsed `~/.tiden/config.json` | `LoadStore`, `DistinctLogins`, product-token queries | written by the CLI | two file versions, product tokens, one token string on two servers | the queries are deterministic and match both halves of a login |
| binding file, `internal/repoconfig` | none: looks at the file system | `Find`, `Read` | written by the CLI, editors, git | the files change between its three looks | the answer is one the files called for; a credential store never binds |
| ladder, `internal/resolve` | loop position, candidates, what failed | `Resolve` and its loops | HTTP client, store, binding | any request of any login may fail | the documented order; right credentials; failures do not move a bound repository |
| startup, `cmd/tiden-mcp-server` | none | `main`, `run`, `resolveConfig` | all of the above | files read at different moments; interrupt | exit codes; one consistent snapshot |
| origin identity, `internal/gitremote` | none | `OriginIdentity` | a git subprocess | URL spellings | two spellings of a remote are one repository |
| paged lists, `internal/api/{release,requirement,test}.go`, `*_identity.go`, `run_summary.go` | token, rows so far | `List...` traversals, single pages, validated pages | HTTP client | offset tokens while rows come and go, 100-page limit, servers that ignore a part of the query | complete, or says that it is not; comes to an end |
| test runs, `testrun.go`, `testrun_tools.go` | at the server: run status, results | create, report, complete, abort | HTTP client | POSTs that are repeated | no result lost or counted twice, the verdict is of what was reported |
| risk acceptances and spec sources | at the server: a draft's sources array | `record_risk_acceptances`, `update_spec` | HTTP client | two writers of one array | recorded rows survive |
| issue links, `issue_link_tools.go` | none between its two requests | link, unlink, list | HTTP client | resolve, then write | all or nothing; the specs meant are the specs linked |
| traceability, `traceability_view.go`, `gate_tools.go` | none | filters, rollup, pending gate | HTTP client | servers that ignore the filter; branch rows with two ids | exactly the subtree; the rollup's numbers add up |
| validated answers, `lookup_batch.go`, whoami, and the checks of pages | none | checks of an answer | HTTP client | cross references in an answer | an accepted answer is consistent and makes progress |
| holds, `hold_intent` | at the server: the hold | `holdEnd`, `parseHoldDuration` | HTTP client | 64-bit durations; repeated sets and clears | no overflow; a cleared hold stays cleared |
| other tools | none | required fields, one request | HTTP client | that of the HTTP client | |

## Modules

| module | what it is |
|---|---|
| `CallContract` | what a caller of the client may rely on, without attempts, timeouts or connections |
| `HttpClient` | `api.Client.Do` with concurrent calls against a server and a network; implements `CallContract` |
| `HttpClientProofs` | its theorems |
| `ConfigStore` | the store and its queries, as operators |
| `Resolve` | the ladder, over `ConfigStore` |
| `ResolveProofs` | its theorems |
| `RepoConfig` | `Find`'s walk among programs that change the files |
| `RepoConfigProofs` | its theorems |
| `Paging` | every way of reading a list page by page, while the list changes |
| `PagingProofs` | its theorems |
| `TestRuns` | a run from its creation to its verdict, over `CallContract` |
| `TestRunsProofs` | its theorems |
| `SpecDrafts` | the sources of a draft with two writers, over `CallContract` |
| `SpecDraftsProofs` | its theorems |
| `Traceability` | one call of `get_traceability`, from its arguments to its answer |
| `TraceabilityProofs` | its theorems |
| `IntentHold` | the hold on a branch's merge, over `CallContract` |
| `IssueLinks` | the two requests of the link tools, beside the branch of `IntentHold` |
| `IssueLinksProofs` | theorems about `IntentHold` and `IssueLinks` |
| `MCHttpClient`, `MCResolve`, `MCRepoConfig`, `MCPaging`, `MCTestRuns`, `MCSpecDrafts`, `MCTraceability`, `MCIssueLinks` | the instances TLC checks |

`CallContract` is where the modules meet.  `HttpClient` implements it;
`TestRuns`, `SpecDrafts`, `IntentHold` and `IssueLinks` extend it, with what the
tools ask for and what the server does with it added to each of its actions: a
call of a tool opens, takes effect once, again, late or never, and ends with an
outcome that says how much is known.  So attempts, timeouts and retries are
modelled once, and the tools are checked against every outcome a call can have.  What the
tool tells its caller is more than the outcome: a 2xx whose body is cut off or does not decode
(`badReply` in `HttpClient`) is told as an error of a request that was carried out.
`TestRuns`, whose reporter goes by what it is told, has that answer as an action of its
own (`Misread`).  In `SpecDrafts`, `IntentHold` and `IssueLinks` it is one of the ends of
`Succeed`: there the agents do not go by the answer, and the properties hold whether the
caller was told or not.

Definitions whose comment begins with "A wrong ..." are not used by the
specifications.  Each is the form a plausible bug would give the definition
that follows it; with it in place TLC finds the property paired with it under
"mutants" in `PROJECT.json` violated.

### HttpClient

One call is one goroutine in `Do`: `pc` says where it is (`send` before
`httpClient.Do`, `wait` until it has an answer, `sleep` in `sleepCtx`),
`attempt` is the loop counter, `result` what it returned, `seen` what each
attempt came to.  `Send`, `TransportError`, `Receive` and `SleepDone` are the
four stretches of code between points at which another goroutine or the server
can act; `SendCancelled` and `SleepCancelled` are their exits through the
context.  `TransportError` has the three outcomes of lines 121 to 132, `Receive`
the cases of the status switch; a body that is cut off or does not decode is
the result `badReply` of a 2xx.

The server and the network are external, modelled from what `Do` assumes of
them.  Every attempt that was sent stays `inflight` until the server applies,
refuses or loses it, even when nobody waits for its answer any more.  A 2xx says
that it was applied; a 4xx, 429 or 501 that it was not and will not be; another
5xx says nothing, because a gateway may send it while the request is still
worked on (`Stall`), or the server may fail after it has applied it.  `holder`
is the call whose write the server holds: with two calls on one resource it
tells which write stands.

`RetryOnlyWhenAllowed` is the retry rule of `Do`'s comment over the history of
a call.  `DuplicateOnlyAfterServerError` is its consequence at the server:
a POST takes effect twice only behind a 5xx, never because of a timeout or of
a lost reply.  `NoSilentRevert` says when a write that returned nil can be
overwritten by an *earlier* call: only when that call had an attempt in doubt
(a PUT that timed out and was retried is the case to know).
`NothingSentAfterCancel` is an action property about the race of timer and
context in `sleepCtx`.  `EveryCallReturns` is liveness.  `ImplementsContract`
shows that the results of `Do`, with what it saw on the way, mean what
`CallContract` says: nil without a lost or 5xx attempt means exactly one effect;
an error without one means none, now or later; nil with one means at least one;
anything else means nothing is known.

### ConfigStore and Resolve

`ConfigStore` is pure: `ParseStore` for the two file versions, the queries as
operators.  Workspace ids are numbers because only their order matters.
`Resolve` decides everything that is local in one step (`Start`, whose
disjuncts are the rules of `Resolve` and `determineTargetWorkspace` before
their first request) and sends each request in a step of its own: the four
loops are `ProbeProduct`, `LookupRepository`, `GatherWorkspaces` and
`AskMembership`, each taking the next login in the order of `DistinctLogins`.
A request is answered as the servers know, refused, or fails; every mixture
over the logins occurs.  The other steps are what follows a loop that ran out
of logins.  What the servers know (memberships, the product of a product
token, the products of a repository) is in `world` and does not change; `faulty`
records that some request was not answered as the server knows.

`LadderFollowed` compares the whole run with `Choices`, the README's rules 2 to
6 told as sets, without logins in order, loops or requests.  `CredentialFits`,
`BoundRepositoryNeverMoves`, `ProductTokenNotProbed` and `LocalWhenPossible` hold
whatever fails.  Rule 5 is not among them: when the repository lookup fails,
an *unbound* repository falls through to rule 6 by design and may run in the
sole stored workspace.

### RepoConfig

`Find` looks at a file three times: at HOME's, for its identity, before the
walk (`Begin`); at each level with `os.Stat` (`Stat`); and with `os.ReadFile`
(`Read`).  Between any two looks `Create`, `Rewrite`, `Rename` and `Remove` change
files: a rewrite keeps the identity and may show the file truncated or broken,
a rename gives the name to another identity, an identity may be used again
after a removal.  `changes` and `past` are history variables.

Any file may hold anything.  HOME's file is the store by its place: with marker keys, or,
as in `TestFind_SkipsGlobalStoreFile_NoContentMarkers`, with none and a stray
`workspaceId`; a foreign HOME's store is known by its markers alone.

`AsBeforeOrAfterAChange` is linearizability against one change: `Find` answers as
for the files before it or after it, unless the change is one of the two it
does not stand, named in `Racy`: a removal, and a file without a marker put at HOME
(`PutAtHome`: created there, or renamed onto the name) after `Begin` has taken the identity.
`AnswerWasThere` holds for any number of changes: the file was there with that
content, and each nearer level had, at some time, nothing that binds.
`StoreNeverBinds` is the purpose of the two guards in `Find`'s comment while the files
change.  A file with a marker is never answered.  HOME's own file is answered only when it
was put there after `Begin`: then its identity is not the one the walk knows, and without a
marker nothing else tells it from a binding.  So "the walk never returns
`$HOME/.tiden/config.json` itself" in that comment holds of a file that is in place
when the walk begins; a stub that `tiden` writes or renames into place meanwhile binds the
checkout until the next start.

### Paging

`reading` is the way a list is read, chosen by `ListSpecs`, `ListTests` and
`RunResults` from the arguments of the tools: the three loops that follow the
tokens themselves (`ReleasesPage`, `AllPage`), single pages whose token goes back to
the agent (`PlainPage`), and those whose answer is checked first
(`CheckedPage`, with `SpecIdentities`, `TestIdentities` and `RunSummary` for the
conditions).  `SizeFor` has the defaults and limits, which differ: a size above
the limit is an error for specs and tests and is cut for runs and results.  `Loop`
is the body of a traversal: a page is appended, then the loop ends without a token,
goes on, or gives up at `MaxPages` with the token left in its answer, from which
the agent may `Continue` with single pages.

A token is the number of a page, so `Insert` and `Delete` shift the rows the
reader has not reached; `moved` counts the shifts.  `quirk` is what may be wrong
with the server: it ignores the view, the size or the token, never ends, sends a
row twice, or sends a row that is incomplete or of another product.
`MissesExplained` and `RepeatsExplained` say what a reader may conclude: a
traversal that calls itself complete lacks at most one row for each deletion
behind its place, and repeats at most one for each insertion.  Neither holds for
an agent that changes the page size on the way, or goes on from an incomplete `all`
traversal with single pages of another size; that is why they are about `steady`
readers.  `TraversalEnds` is liveness, for the loops because of the page
limit and for the checked pages because a page must have a row and another token
than the one it was read with.  The plain pages promise nothing of the kind, and
an agent may follow them for ever on a server that ignores the token.

### TestRuns

A run is known by the attempt that created it, so that a `create_test_run` that
was carried out twice leaves two.  `request` is what each call asks for, `told`
what the tool has answered, `status` and `written` are the server's.  A tool call has
four ends: `Succeed`, an answer that decodes (an empty body does, and then a created run has
no number, which every other tool refuses); `Misread`, a 2xx that does not, told as an
error; `Reject`, a refusal for what the server found (of which `report_test_results` reads the
rejected entries); and `Fail`, any other error.  The reporter reports in batches,
overlapping ones included, again when it was not told ok, and completes the run
when everything has been acknowledged; `EndByOthers` completes or aborts the same
run, and `Invalidate` takes away a test case that an entry names.

`VerdictIsOfEverything` is what the reporter works for: the run it was told is
completed holds all of its entries, those with a stable id once.
`CountedTwiceOnlyUnsettled` and `StrayRunsAreUnsettled` say that every other duplicate comes
from a call that its answer did not settle (`Unsettled`): its outcome is in doubt, or it was
carried out and told as an error, or as ok without a run.  `ErrorsAreTrue` says what an error is worth when
the call is not in doubt: "nothing was written" is true, and any other error means nothing
at all or one effect behind an unreadable answer.  `OneEnd` says that a run is not told
completed to one and aborted to another.  `NothingWasWritten` is what the tool
says of a rejected batch, and false (finding 3).

### SpecDrafts

`rows["draft"]` is the sources array of a draft spec, `rows["session"]` the
judgements of a session without one.  `Record` is what the server does with
`record_risk_acceptances` (each row in place of the row of its key),
`WriteSources` with `update_spec`: a set that is given replaces the array, one
that is omitted (`json:",omitempty"` on a pointer) leaves it alone.  The agents follow the
tool's ordering note: `fetched` is forgotten when a request goes out, so what
`UpdateSources` writes was read after the last answer.  `after` is a history
variable: the calls that were over when this one began.

The comment at `api/acceptance.go:71` says that the package has no second
writer of sources, "so the constraint is dormant".  `update_spec` with
`sources_update` is one, which is what makes the properties interesting.
`AcceptancesStay` says when a row that an agent recorded can be gone,
`SourcesStay` the same of the other rows.  Both are about calls that were carried out,
whether the agent could read the answer or not.  The note protects an agent against itself; against a second agent nothing
does, and the property names that case.

### Traceability

The state is a product (the tree of specs, their components, the specs a branch
has a copy of, their coverage), a server that knows the view and the filter or
ignores them, and one call: `Ask` with the refusals of the tool, `Answer` or
`Fail`, then `Tell`.  A row is an id, of main or of the branch's copy; `Names` has the
asymmetry of the code: a summary row says which spec it is a copy of, a matrix row
does not.  `Climbs` are the ways of `subtreeIDs` from a row up its parents, `InSubtree`
their ends within the limit, `Rollup` the counting with its cap.

`NothingOutside` holds whatever the server ignores.  `MissingRowsExplained` names
every way to lose a row: it lies deeper than the limit; the id was written in
upper case (ids are compared as text, and such an id matches no row); or the
answer is a matrix of a branch with a copy on the way up (finding 4).
`FilteredOnce` is about the second filter over an answer that is filtered already,
`RollupAddsUp` about the numbers at and around the cap.  A component without rows
in the server's answer is dropped and sets the note that the client has filtered.

### IntentHold and IssueLinks

`IntentHold` has the arithmetic of `holdEnd` and `parseHoldDuration` at a given
`Width` of a duration (`maxHoldDays`, `Signed`), the POST that sets or clears a hold, and
the automatic merge, which ends an open branch that is not held at a time of its
own.  `asked` is what the caller means and `until` what the tool sends; the two
differ when a product wraps around.  `HoldIsKept` and `ReleaseIsKept` relate what
the caller was told to what becomes of the branch, up to other calls that may
have come later or late.

`IssueLinks` adds the two link tools: `BuildIssueSpecPairs` reads all refs in one
go and ends the call when one is not resolved, `UpdateIssueSpecLinks` sends all pairs.
In between the branch may be merged, so that the ids of its rows are gone, or a
spec deleted.  `LinksAsTold` says that ok means all pairs, and that a pair changes
back only by another call.  That a branch does not exist is not looked at
(`resp.BranchExists` is ignored): the refs are then not resolved, which is the
error the caller sees.  The number of a spec may change in between as well; that is left out
because the second request names rows by id, so that it links the spec the number meant when
it was resolved.

## Runs

| run | instance | shows |
|---|---|---|
| `httpclient` | a POST and a PUT, MaxRetries 1; 155,343 states | the six properties above |
| `resolve` | 2 workspaces, 2 products, 2 servers, 2 token strings, all stores, bindings and repositories, 4 override sets; 91,198 states | the six properties of the ladder |
| `resolve_paged` | the same with pages of one row | E1's text is false (finding 1) |
| `repoconfig` | 4 directories, walk limit 3, HOME at level 2, 4 identities, 2 changes; 1,209,242 states | the three properties of the walk |
| `repoconfig_removed` | 2 directories, one removal | `Find`'s comment is false (finding 2) |
| `paging` | lists of 2 and 4 rows, pages of 1 and 2, loops of 2 pages, 2 changes, every quirk; 278,068 states | what a traversal may miss and repeat, and that it ends |
| `testruns` | 4 calls carried out up to twice, one of them somebody else's, an entry with a stable id and one without; 1,298,728 states | the five properties of a run |
| `testruns_rejected` | the same | "nothing was written" is false (finding 3) |
| `specdrafts` | 2 agents, 3 calls, one of them repeated, one key; 885,799 states | the two properties of the array |
| `traceability` | every tree, every set of copies and gaps of 3 specs in 2 components, every call and server, limits 2 and 1; 3,427,744 states | the four properties of an answer |
| `traceability_detail` | 2 specs | the detail view is not the scope on a branch (finding 4) |
| `issuelinks` | 2 calls, one of them repeated, an issue, 2 specs, a duration of 16 values; 1,688,716 states | the three properties of holds and links |

(The state counts are of distinct states, after symmetry; each passing run also checks its
module's `TypeOK`.)

Why the bounds are enough.  `Do` treats calls independently, so two calls show
every interaction at the server: one of each method class, in either order or
concurrently.  One retry gives every ordered pair of attempts (applied late,
applied twice, refused then applied); a second would only repeat pairs, and the
proofs cover every number.  In the ladder every loop is over logins, and two
personal logins and a product token give "the first fails and the second
answers", "two answer differently" and "the only one that could is a product
token"; two workspaces give no, one and several candidates.  The override sets are
none, a workspace, a token without a server (found in the store), and a token
with flags before environment.  In the walk, four directories with a limit of
three separate the limit from the root, and leave a level below and one above
HOME; two changes are the least for a file to go and come back, or for two files to
trade places.  Identities are interchangeable, hence the symmetry set.

A list of four rows read in pages of one or two is longer than a loop's two pages
and shorter, and two changes give a deletion behind the reader with an insertion
before it, the pair that hides each other in a count.  Four calls are the least for a run's
whole life (create, report, complete) with one to spare for a second report, a
second create or somebody else; two effects of a call are a repetition, and three
would only repeat it.  Three calls on a draft are a record, a write and one more of
either, by one agent or two.  Three specs are a chain longer than the limit of two
ancestors, with a copy at either end or between, and more gaps than the one that is
listed.  Two calls on a branch are every pair of a hold, a release, a link and an unlink, in
order, concurrent or late; nine days of two units are more than half of a duration
of sixteen values, so the product would wrap.

The bounds that the code does not have are `MaxChanges` in `RepoConfig` and `Paging`
(changes by others), `MaxOthers` in `TestRuns` (calls of others), `MaxRepeated` in
`SpecDrafts` and `IntentHold` (calls that take effect more than once), `MaxTime` and
`MaxDays` in `IntentHold` (how long a branch is watched, and the days asked for), and
the number of calls (`Calls`) and effects of one (`Tokens`).  `MaxRetries`, `MaxLevels`,
`MaxSize`, `MaxPages`, `MaxBatch`, `MaxDepth`, `MaxListed`, `MaxPairs`, `Longest` and
`Width` are the code's or the server's constants at a smaller value.

Deadlock is not checked because each system really stops: every call has
returned, the ladder, the walk or the traversal has ended, the one call of
`get_traceability` is answered, the time a branch is watched is over.

Fairness.  `EveryCallReturns` assumes weak fairness of a call's own steps: the Go
scheduler runs the goroutine, its timer fires, and an attempt that is not
answered ends in a transport error because `NewWithTimeout` sets
`http.Client.Timeout`.  Nothing is assumed of the server or of the network.  `LadderEnds`
assumes weak fairness of the ladder's next step, which is what
`EveryCallReturns` gives for each of its requests.  `TraversalEnds` assumes weak
fairness of `Read`, for the same reason: a request returns, and the loop, or the
agent that follows the tokens of checked pages to the end, sends the next.  Nothing
is assumed of the others that change the list, and a request may fail at any time, which ends a
traversal.  The other modules have no liveness property: the tools wait for nothing
but their one request, and whether an agent goes on is its own affair.

## Findings

1. `resolve.go:250`: E1 says that none of the logged-in accounts is a member of
   the workspace, but only the first page of each account's workspaces was read
   (`workspace.go` asks for one page and follows no token).  Shown by
   `resolve_paged`.
2. `repoconfig.go:82`: when the nearest file disappears between `Stat` and
   `ReadFile`, `Find` returns it as not existing and with its path, and does not look
   further up, contrary to its comment.  Shown by `repoconfig_removed`.
3. `testrun_tools.go:177`: a rejected batch is answered with "nothing was written",
   but only the last attempt of the POST was rejected; an earlier one, behind a
   5xx, may have written every entry before the test case one of them names was
   deleted.  Shown by `testruns_rejected`.
4. `traceability_view.go:128`: the detail view rebuilds its rows without the
   main id of a branch's copy, which a matrix row does not carry, so on a branch
   the spec asked for, or descendants of a copy, are dropped even from an answer
   that the server has filtered correctly.  Shown by `traceability_detail`.

## Proofs

`HttpClientProofs` proves, for every set of calls, every assignment of methods
and every number of retries: `TypeCorrect`, `RetryRule`, `DuplicateRule`,
`NoSilentRevertHolds`, `CancelStopsSending`, and `Refinement` (Do implements the
contract).  The only assumption is `ConstantsAssumption`, which types the
constants and keeps `None` apart from calls and results; TLC evaluates it on the
run's values.

None of these invariants is inductive.  `RetryOnlyWhenAllowed` says nothing of the
place in the loop at which the next attempt is made, and the contract says
nothing of attempts still on their way.  `IInv` adds three parts.  `HistoryInv` ties the
history of a call to its place in the loop: the attempts before the current one
may be retried, those after it are unsent, the current one is as `pc` says, and a
returned call's result agrees with the last thing it saw.  `ServerInv` ties the
history to the server: what is in flight or applied was seen as sent, lost or
5xx (or, applied, as 2xx), nothing is both, and an answer on its way is true of
its attempt.  `PastInv` carries the order of calls over to the write the server
holds: once a later call's write has been applied, a returned earlier call
without doubt does not hold the resource.  `HistoryStep`, `ServerInvStep` and `PastStep` show
that each part is preserved, given all of them; `InductiveInvariant` puts them
together, and each safety theorem is a consequence.  `Refinement` shows that
the calls' outcomes start idle, that `Start` opens, `Apply` is an effect, a
return is an end that `OutcomeJustified` justifies, and that every other step
leaves outcome and effects as they are (`OutcomeKept`).

The same invariant says what a caller may conclude from a result of `Do`.
`ResultsTrueHolds`: nil, or a reply that could not be read, means that the call took
effect; with no attempt in doubt it did so once, and any other error means that nothing
happened.  `ResultsFinalHolds`: without doubt, that stays so.

`RepoConfigProofs` proves, for every depth, every place of `HOME` and any number
of changes by other processes, that the walk keeps its types (`TypeCorrect`: it
stays between where it starts and the root), that its answer was in place and
every nearer level had, at some time, nothing that binds (`AnswerWasInPlace`),
that a file with a marker never binds and HOME's file only when it was put there during the walk (`StoresDoNotBind`), and that one change outside
`Racy` leaves `Find` an answer of before or after it (`OneChangeIsAtomic`), which names
the nearest file of one moment (`OneChangeFindsTheNearest`).  `MissingIsExplained` is for
any number of changes: `Exists=false` means that every level had, at some time, nothing that
binds, or it names the file that was removed under the walk's hands.  The assumption is
`RepoConfigAssumption`: `None` and the markers of a file's content are none of
the bindings, and the walk has at least one level.  None of these invariants is inductive.
`WalkInv` adds why each level behind the walk was left; the changes of the others
cannot disturb it, since `past` only grows (`PastGrows`).  `HomeInv` adds that the
file in `HOME` has the identity the walk knows unless its replacement is on record
(`OthersKeepHome`), and that the walk reads it only in the second case.  `MomentInv`
is for one change: at one moment of the walk nothing behind it bound and all before it
was as it is now.  A change behind the walk keeps the moment before it, a change ahead
makes the moment after it (`ChangeKeepsMoment`); a file other than HOME's that had the identity
of the global store would take two changes.

`ResolveProofs` proves the six invariants of the ladder for every store, binding, override,
repository and membership of any size, whatever request fails.  The assumptions are
`StoreAssumption` and `ResolveAssumption`: the constants have their types, and the
files the CLI leaves parse into stores.  The inductive invariant `IInv` adds to the
types what holds in each loop (`PlaceInv`: nothing local has decided; only accounts
are left to ask), what was sent (`RequestInv`) and what was returned (`ResultInv`: whose
credentials they are, and that a bound repository is on its way to a workspace of
`Choices`).  `TypeCorrect`, `ProductTokensAreNotProbed`, `DecidesLocally` and
`BoundStays` follow from it.  `CredentialsFit` and `LadderIsFollowed` need one more
assumption, `OnePage`: every account's workspaces fit on the page that is read, without which
finding 1 makes them false; `LadderIsFollowed` also counts choices, so that it takes the workspaces
and products to be finitely many.  For the first, `AskedInv` adds that a login that is no longer to be asked
does not list the workspace or has failed; for the second, `LadderInv` says what the
logins asked so far have contributed as long as nothing failed, and that the
workspace decided on is the sole choice.  `E1IsTrueOnOnePage` follows
from `AskedInv`, too: the page is the whole cause of finding 1.  Two theorems need neither the page nor answers and
cover explicit tokens and unbound repositories as well, of which the checked properties say little
once a request fails: `SourcesAreTrue` (the workspace is one that the rule named as its source gives;
`MeantInv` has the candidates visible to a login and the gathered workspaces listed or stored)
and `TokensStayHome` (a result pairs a token with the server it is stored for, or is the pair
given).  `FirstOfIsLeast` (a query answers with a
workspace) rests on the library's theorem that finite sets are well founded.

`TestRunsProofs`, `SpecDraftsProofs` and `IssueLinksProofs` prove the safety invariants of
their modules for every set of calls, effects of a call, entries, agents, keys,
issues and specs, on top of `CallContract` alone: whatever client implements the
contract, they hold.  The assumptions are the ones the modules name.  In each, lemmas first
reduce the many actions to a few kinds of step (a call goes out, is answered, is
carried out: `EveryStep`) and show that what a call asked for, and which calls may
come after it, is never taken back (`History`).  The invariants add to the properties what
they say nothing of.  In `TestRuns`, `StatusInv` ties a run's status to the calls that
were told ok, `ReporterInv` keeps reports apart (batches that are on their way or
acknowledged do not overlap) and has the reporter complete only after everything was
acknowledged, and `WrittenInv` says which attempts wrote an entry.  In `SpecDrafts`,
`AcceptanceInv` follows a recorded row from the server to what the agent fetches and to
what it sends: each of them has the row, or the row is `Gone` for one of the
reasons the property allows, and those never lapse (`GoneForGood`).  In `IntentHold`,
`KeptInv` and `ReleasedInv` say that a hold that took effect still stands or was set by
another call, and `DurationFits` proves that for every width and length of a day no
accepted number of days wraps around.  In `IssueLinks`, `LinkInv` says that the pairs of
a call that had an effect are as asked or were changed back.

In each of the three, `CallsKeepTheContract` shows that every step is one of
`CallContract` or leaves it alone.  `HttpClientProofs` shows that `Do` implements
that contract; so what is proved of runs, drafts, holds and links rests on nothing of a client
that the modelled one does not give.  Three theorems relate what is there to the calls
that asked for it: `BatchesAreWritten` (a report is in its run as a whole or not at
all), `RowsComeFromTheirCalls` and `NothingComesUnasked` (every row, link and
hold comes from a call that asked for just that and was not refused; `AuthorInv` follows a
row through the arrays agents fetch and send back, `ReasonInv` keeps a call for every
link).  `RefusalsAreTrue` proves `ErrorsAreTrue`, and `AnswersLast` that what a call without doubt had
not done when it was answered it does not do later: finding 3 needs a call in doubt.

In `Paging`, `CountInv` is the bookkeeping behind both properties (`Counted`): rows before
the reader's place that were always there and that it does not have are no more than the
deletions before its place, and rows after its place that it already has, with those it has got
again, no more than the insertions.  Neither property is inductive without it, since a row
is missed when it slips past the place, long before the traversal ends.  It rests on what an
insertion, a deletion and a page do to the parts of a list (`InsertedList`,
`DeletedList`, `PageRows`) and on a list having no row twice, which `PagingAssumption`
states of the server's list.  `TwiceRows` shows that a checked page is the page of the
list even from a server that sends its first row twice.  Two theorems say when an answer can be
taken at its word: a steady traversal that nothing disturbed and that ended without a token has
exactly the rows of the list (`UndisturbedTraversalsAreExact`), and a loop says that it is incomplete only
of a list that does not fit in the pages it may read (`TruncationIsHonest`).

In `Traceability` the state hardly moves, and the proofs are about what one call
computes.  `ClimbStaysInLineage` takes the first step of a climb that would leave the ancestors of its
row; `ClimbReachesSubject` takes the nearest descendant from which no climb leads
up to the subject, and shows that its parent would be one as well.  `ListIsCut` needs that a
finite set has a subset of every size up to its own (`SubsetOfSize`), `RowsAreAsMany` that
copies do not change the number of rows.  `AnswersAreExact` puts both directions together:
within the depth limit an answer has exactly the rows asked for, from any server, unless copies
of a branch come in a matrix, which is the whole cause of finding 4.

The liveness properties (`EveryCallReturns`, `LadderEnds`, `TraversalEnds`) are only
model-checked: fairness and ENABLED are beyond the prover.  What they rest on besides is proved,
for every value of the constants: the steps left are bounded, each step of the code takes one off,
and nothing that the server or another process does puts one back.  `CallsGetNearerHolds`: a call has
at most `4 * MaxRetries + 4` steps, and no answer, loss or cancellation adds one.
`LadderGetsOn`: every step goes down the ladder or leaves one login less to ask, of the
finitely many a file holds, and a loop with logins left always has a next one among them.
`PagesGetFewerHolds`: a loop has no more pages to read than its limit allows, whatever tokens it is sent, and a reader of
checked pages no more than the rows still ahead.  `WalkGetsNearerHolds` is the same for `Find`, of which no
run checks liveness: at most two looks a level, whatever is created and removed
meanwhile.

## Not modelled

- The MCP protocol and its SDK, JSON encoding, the texts of errors and hints, names and
  accounts shown to the user, and the wire types.
- Startup (`main.go`): `run` reads the store, walks to the binding, asks git for the
  origin, resolves and serves, once and in this order.  The parts are `ConfigStore`,
  `RepoConfig` and `Resolve`; `Resolve` takes any store with any binding, so that
  a mixture of two moments is among its worlds.  What is left is the exit code of each error and a fallback
  chain for the timeout, both tables without a state.
- The git subprocess and the normalisation of a remote's URL, a function of a text; the
  ladder takes its result as an input.
- Tools that check their required fields and forward one request: `capture_intent`, the
  issue tools but for links, test merges, the branch reads, `gate_check`, `get_verdict`,
  `list_issue_specs`, and most of the spec, test and component tools.  Their behaviour
  under failure is that of `Do`, which `HttpClient` models for both kinds of method.
- The checks of a `lookup_context` answer and the combination of the two requests of
  `whoami`: functions of one answer without a state, of which a model would repeat the
  conditions.
- A difference between the clocks of the agent and the server.  The default hold is
  exactly the longest hold the server takes, so a clock that is ahead has it refused; that is told
  to the caller and changes nothing.

## Plan

What is worth adding next is a composition of `RepoConfig` and `Resolve`, in which the
store and the binding are read while `tiden setup` writes both, once the documentation
says what a start in between should do.
