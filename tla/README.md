# night-family in TLA+

night-family is a daemon (`nfd`) that works through a list of chores at night.
It plans a night from a roster of "family members" and their duties, dispatches
the slots of the plan one after another to an LLM provider, lands each answer as
a note in a git branch and a pull request, and keeps a record of nights, runs
and pull requests in SQLite. Nights start by themselves when the schedule's
window opens, or through `POST /nights/trigger`; single runs start through
`POST /runs`.

The modules in this directory specify that program as its code stands. TLC
checks them on small instances, and TLAPS proves the main safety properties for
every value of the constants.

## 1. The system

| Component | Keeps | Does | Talks to |
|---|---|---|---|
| runner (`internal/runner`) | nothing of its own; a night's plan and runs on its stack | `TriggerNight`, `Dispatch`, `openNotePR`, digest | planner, storage, provider, gitops, notifier |
| storage (`internal/storage`) | `nights`, `runs`, `prs`, `budget_snapshots` in SQLite, behind a `database/sql` pool without limits | inserts, updates, reads; migrations at start | runner, HTTP handlers |
| git orchestrator (`internal/gitops`) | nothing; works in the daemon's only checkout | `Open`: checkout, add, commit, push, `gh pr create` | git and gh as subprocesses, GitHub |
| scheduler loop (`internal/scheduler`) | `lastFire`, in memory | polls, fires the night | schedule, runner |
| schedule (`internal/schedule`) | nothing | `Next`, `IsInWindow`, `Validate` | Go's `time` |
| planner (`internal/planner`) | nothing | `Input.Plan` | family store, duty registry, schedule |
| family store (`internal/family`) | members by name, in memory under a lock | `Seed`, `Add`, `Put`, `Remove`, `List`; loads YAML | HTTP handlers, main, planner, runner |
| main (`cmd/nfd`) | the signal channel, of one slot | starts everything, reloads the family at SIGHUP, shuts down | all of them |
| HTTP server (`internal/server`) | nothing | handlers, read models, web UI | all of them |
| providers (`internal/provider`) | nothing | run `claude` or `codex`, or a mock | subprocesses |
| digest, notifier (`internal/digest`, `internal/notify`) | nothing | render a night, post it to Slack | runner |
| `nf` (`cmd/nf`) | nothing | posts nights and runs, waits three minutes for the answer | HTTP server |
| duty registry, ulid, config | read-only tables, an id generator, flags | | |

Every HTTP request has a goroutine of its own and the scheduler loop another,
so nights and single runs overlap. They share three things: the tables, the
checkout and the family store. Only the store has a lock; the tables rely on
SQLite making each statement atomic, the checkout on nothing.

The behaviours that are hard to test, and what should hold whatever happens:

* **Deadlines.** A triggered night has ten minutes, a single run two, a
  provider twenty. A context that ends fails the call it is under *and every
  later call*, the one that would record the failure included. A storage call
  may have written its row and still report the deadline. How much is lost must
  be bounded by what went wrong, and what a finished night or a digest says
  must be true, as far as its limits (200 pull requests, 3000 bytes for Slack) go.
* **Dropped errors and dying processes.** Branch, pull request and `prs` row
  are separate writes after GitHub has the PR. A PR must belong to a succeeded
  run and be on record unless its job failed.
* **One checkout.** `Open` is six commands that another `Open`, or the owner of
  the checkout, may get between. Notes must not be mixed up, and nothing but
  night-family's branches may be committed to.
* **The clock.** Windows cross midnight and clocks change; a night may outlast
  its window; a start may fail. Each window must get its night, once.
* **The budget.** The pass that keeps a plan within its tokens must not lose a
  duty or waste room, and must not turn priorities round.
* **Reads beside writes.** `Stats` is five queries and a digest three, without a
  transaction; errors are dropped and lists are cut at 500 rows. What they answer
  must not contradict itself more than it has to, and what is over must stay so.
* **Start and stop.** The loop may fire before the listener works; one channel
  holds SIGHUP or SIGTERM, not both; Shutdown has ten seconds, a night ten
  minutes, `nf` three. Whatever comes first, a clean exit must be clean, and a
  daemon that cannot listen, or was told to stop, must end.
* **The pool.** In memory, every connection is a database of its own.
* **The roster.** It changes under handlers and SIGHUP while plans are made,
  and signals are dropped when the channel is full.

`PROJECT.json` lists each hazard at its line with the properties about it; where
no property covers one, because the program is simply exposed to it, its note says
why.

## 2. The modules

### Runner, RunLedger: nights and runs

`Runner` has one process per *job*: a night of the scheduler loop (`AutoNights`),
a triggered night (`HttpNights`) or a single run (`HttpRuns`). `pc[j]` is where
the job's goroutine is; each call to storage, the provider or gitops is one
action, named for what it does:

    PlanNight  InsertNight  RecordSnapshot
        CheckSlot  InsertRun  MarkRunning  ProviderRun  MarkTerminal
                   Land  Annotate  RecordPR  Reload          (per slot)
    FinishNight  RenderNight  RenderPRs  WriteDigest  Notify

`CreateRun` enters at `InsertRun`. `status`, `nights`, `landed` (a run's branch
and `pr_url`), `prs` and `snapshots` are the tables, `remote` is GitHub.
Every call ends in one of three ways: it worked (`Took`), it worked and the
deadline passed before the answer (the second case of `Took`), or it did nothing
(`Errored`, because the context is done or for a reason of its own, a *fault*).
Whether the job goes on or returns is read off the code's error handling call
by call. `ExpireCtx` is a deadline at any moment, `Crash` the end of the daemon
and a restart. `AutoNights` have no deadline and run one at a time (`LoopFree`).

A digest is kept as the sets of runs and pull requests it lists (`body`).
`RenderPRs` reads the newest `PRLimit` rows of `prs`, of all jobs, as
`ListPRs(ctx, 200)` does, and keeps the night's own: `newer` counts, for each
run's row, the rows opened after it, and `Newest` are those with fewer than
`PRLimit`. The file holds the whole digest. A Slack message holds its first 3000
bytes (`slack.go:55-57`): how long the text is depends on summaries that are not
modelled, so a digest that lists a run may be sent whole (`"slack"`) or truncated
(`"cut"`), and of a truncated one only the title, which is not cut, is relied
on. `DigestComplete` says what is left to promise: every run row and every pull
request of a night that lost no call is in its file and in an untruncated message,
but for a pull request that `PRLimit` others were opened after, and a truncated
message's title counts the runs right. `opened_at` and the insert are one step;
two jobs that insert at the same moment may be listed in either order.

`RunLedger` is the abstract specification: what any reader of the tables may
see happen to nights, runs and pull requests, without goroutines, contexts or
failures. `LedgerImplemented` says `Runner` refines it.

### GitCheckout, NoteLanding: the checkout

`GitCheckout` opens up `Runner`'s `Land` step. Each `Open` is a sequence of
commands on `head`, `tree` (what each branch holds over base) and `index`, then
on GitHub (`pushed`, `remote`, `prs`). Runs of a night land one at a time, those
of `POST /runs` whenever they like, and any command may fail before or after its
effect. `loose` is what a provider (of the runs in `Editors`) changed and nobody
staged. `NoteLanding` is the contract `Runner` relies on: a branch, then a PR,
an answer, and no PR without its branch. `LandingImplemented` says `GitCheckout`
refines it. `Runner`'s atomic `Land` is that contract at the moment `Open` returns:
what GitHub holds is then what `Land` may leave there (`OpensLandAsTaken`), and
nothing is done for a run afterwards (`OpensLandInTheCall`).

### Readers: what is read meanwhile

`Readers` extends `RunLedger`: its writers are the abstract ones, so what holds
in `Readers` holds beside whatever `Runner` does. One client asks again and
again, either for `Stats` (the five `Count...` actions, one per query) or for a
night's digest, as the API (`getNightDigest`) or the page (`digestPage`) renders
it: `GetNight`, `ListRuns`, `ListPRs`. Any query may fail. `QueryFailed` ends a
`Stats`; the two `List` actions do what their handler does with the error, which
is to drop it, except for the runs of the API. `runsAfter` and `prsAfter` count
the newer rows, so that the newest `Limit` are those with fewer.

### Schedule, SchedulerLoop: when nights start

`Schedule` holds the pure operators: `NextWindow` is `Schedule.Next` branch by
branch, including that yesterday's and tomorrow's starts are 24 hours away
rather than a day, and `Date` is Go's `time.Date`. `WallWindow` is the reference:
the window read off the clock on the wall. `SchedulerLoop` is the polling
goroutine, with `lastFire` forgotten by a restart; its `Settings` are the pairs of
a schedule and a zone that the daemon may be given.

The two do not agree everywhere. `Regular` says where they do: offsets that
change by at most an hour (`Near`), and either clocks that are not put back
(`Forward`), or a window with neither end at midnight. What is left out goes
wrong in the code. On a day the clocks are put back, `Next` takes the day's
midnight and adds or subtracts 24 hours, so a window that opens at 00:00 opens an
hour early and fires on the evening before. Where clocks are put forward *at*
midnight west of Greenwich (Cuba, Chile), `time.Date` gives 23:00 for the midnight
that does not exist. A window such as 22:00-05:00 is `Regular` in all of these
zones. `Steady` adds that `Next` gives one start for a window while it is open:
not so when clocks are put back while a window crosses midnight.

### Planner: what a night does

`Planner` is `Input.Plan` one loop iteration at a time. `Collect` is the pass
over members and duties with the member cap, `Sort` and `Fit` the budget pass,
`Filter` is `filterSlots` of the runner. A duty is a pair of member and
position; lists are sets read in `DeclaredOrder` or `DispatchOrder`. Its
initial states are *all* rosters, so checking it is comparing the algorithm
with what `NothingLost`, `BudgetUsedUp`, `PriorityYieldsToCost` and
`CountsAreThePlans` ask of its result.

### FamilyStore: the roster

`FamilyStore` has the store, the three handlers that change it, and `main`'s
goroutine as it boots, waits in its `select` loop and reloads. A load reads the
directory (`LoadDiskDir`: up to the first bad file, sorted unless one was bad)
and puts the members one by one; handlers run between the puts. The channel
`sig` holds one signal. `MembersAreCapped` is what lets `Planner` be checked
with caps from 1 up although its code has a case for "no cap".

### Daemon: the process

`Daemon` is `main` from storage to its exit, a label per stretch that another
goroutine, a signal or a clock can get between: `OpenStorage`, `Wire` and
`NewServer` (each may be `fatal`), `StartLoop`, `StartListener`, `Notify`, the
`select` (`TakeError`, `TakeHup` with `Reloaded`, `TakeTerm`), and the way out:
`Drained` or `DrainExpired`, then the deferred `CancelLoop` and `CloseDB`, and
`Return`. `listener` is the goroutine in `ListenAndServe`, `sig` the channel,
`req` the requests, each with what is left of its handler's deadline. `nf` is
the command `NightTrigger` or `RunStart` came from: it waits `NfLimit` and then
gives up, which the handler does not notice. `Open` is a request nothing ends.
Time is `Tick`, which no deadline can be overrun by. Before `Notify` a signal
ends the process; after it, one that finds the channel full is dropped.

### MemoryDB: the pool in memory

`MemoryDB` is `storage.Open` on `:memory:` and two of the typed helpers on the
pool's connections: a call takes an idle connection (`Reuse`) or opens one
(`Connect`), and gives it back (`Release`; two idle ones are kept). `rows` is
per connection, because in memory each is a database; only the first was
migrated. On a file they would be one, and there is nothing to model.

### How they fit together

`Runner` takes from `Planner` any plan of up to `MaxSlots` slots, from
`FamilyStore` that a planned member may be gone at `Dispatch`, from
`NoteLanding` how far a note may have got, and from `SchedulerLoop` that
automatic nights come one after another. `SchedulerLoop` takes from `Runner`
that `TriggerNight` either fails before it stored the night's row or returns the
night (`RefusedNightsLeaveNothing`), one night after the other
(`LoopNightsInTurn`). `Readers` and `Runner` meet in `RunLedger`. `Daemon` takes from all of them that
work ends by its deadline; its exits are `Crash`, `Stop` and `Restart` elsewhere.
`FamilyStore` has the channel to itself, `Daemon` shares it with SIGTERM: a SIGHUP
that finds a SIGTERM there is lost, but then the daemon ends. Otherwise the modules share no
variables: what one asks of the other is in the contract.

## 3. The runs

| Run | Shows |
|---|---|
| `runner_jobs` | A triggered night of up to two slots next to a single run, notes landed as PRs, one fault per job, deadlines anywhere, one restart, fair goroutines: the typing invariant, `LossBounded`, `FinishedNightSettled`, `PRsTraceable`, `DigestComplete`, the refinement of `RunLedger`, `JobsRunOut` (no step of a job is ever repeated), and `HttpJobReturns` (no request waits for ever, stated for all of them at once as a job runs only once). |
| `git_opens` | Two runs of a night and two single runs, one after another or at once, any command failing, on any kept branch, with something staged and with providers that edit files: `PRHoldsItsNote`, `StraysComeFromFailures` (of runs whose `Open` was never under way beside another), `KeptBranchesUntouched`, `NotesLandOnce`, the refinement of `NoteLanding`. |
| `windows` | Five schedules (the default, by day, from midnight, up to midnight, all but an hour) over 36 hours, on the night Berlin's clocks go forward, on another, and on New York's, and the schedules without midnight when Berlin's clocks are put back: `FiresInsideWindow`, `NoWindowSkipped`, `OnceUnlessPutBack`. |
| `plans` | Every roster of two members with up to three duties, one type listed twice: the four properties of a plan. |
| `family_overlay` | Every directory of two files, edited once, with handlers, signals and restarts at any time: `MembersAreCapped`, `OverlayApplied`, and `HupsAreServed` under fairness. |
| `readers` | Two nights of one run each, and a client: `StatsOneSided`, `CountersGrow`, `OverIsFinal`. |
| `daemon_life` | Three requests in the life of one daemon, signals and ticks at any time, a listener that may fail: `CleanExit`, `RunsAreHeard`, `NightsPileUp`, and under fairness `StopsWhenHeard` and `EndsUnheard`. |

The bounds, and why they are enough. Two slots is the least for which one slot's
loss meets the next one's dispatch, and a second job the least for which
contexts differ. A `PRLimit` of two against three runs has a night's digest
with all of its pull requests, and one whose first is pushed out by the single
run's. A third job is beyond TLC here; a night of the loop is a
triggered one whose deadline never comes and that waits for the loop, and the
proofs are for any `AutoNights`. Each job's rows are its own, which is also why
the proofs for any number of jobs go through job by job. One fault per job
reaches every error path; `LossBounded` counts them and is proved for any
number. Of the four runs in `git_opens` three can follow one another, which lets
a stray note pass through a second failure into a third run's PR, and three can
be under way at once. In the `windows` run an hour is the unit because every
offset and every schedule considered is a whole number of hours; the 36 hours from
16:00 of day 2 hold two openings of each window and the change of the clock (01:00
UTC of day 3, in New York 07:00) between them or inside one. That the zones and
schedules checked are those of the theorems is an `ASSUME` of `MCSchedulerLoop`. Three
duties against caps of 1 and 2 put something before and after the one that is
capped; budgets of 20 and 36 thousand tokens are crossed by an expensive duty
while a cheap one still fits. In `readers` two runs and a limit of one row are
the least for which a newer night's run pushes an older one's out of a list, and
every query still has writes before and after it. In `daemon_life` time is
scaled to `RunLimit` 1, `NfLimit` 2, `NightLimit` 3 and `Grace` 1, which keeps
the order of two, three and ten minutes and of the ten seconds that are shorter
than a night; three requests are a night, the one that comes when `nf` gave up
on it, and one that never ends. Two files give one member twice, two members,
and a bad file on either side of a good one.

Each property of these runs fails for a small, plausible bug that
`PROJECT.json` lists under "mutants": the bugs are operators under "Seeded bugs"
in each module (or beside the definition they replace), used by nothing else.

### Where the program and its documents disagree

Five runs are expected to find a violation.

* `run_left_running` (`TerminalStateRecorded`): in the trace, the provider of a
  `POST /runs` has answered, then its two minutes are over, and the terminal state is
  written under the context that has just ended (`runner.go:138`): the write
  fails, the answer is lost, and the run stays `running` for ever. It is the same
  when the deadline comes earlier and ends the provider itself, which may take
  twenty minutes. The package comment says every transition is recorded. The
  property is about runs whose provider has ended; a deadline in one of the two
  writes before it leaves a row `queued` or `running` too, which `LossBounded`
  counts.
* `clocks_put_back` (`AtMostOncePerWindow`): with the default 22:00-05:00 window,
  after midnight `Next` takes the window's start to be today's start less 24
  hours. When the clocks are put back in between that is an hour after the start
  the loop fired at, and it fires a second night. The loop promises one night per
  window, ADR-0007 no surprises across changes of the clock. `OnceUnlessPutBack`
  says that this is all that can happen: the first of the two was at the very
  start of the window, so there is no third, and in no other case are there two.
* `stop_lost` (`StopsWhenTold`): SIGHUP and SIGTERM share a channel of one slot,
  so a SIGTERM sent while a SIGHUP waits there is dropped (`main.go:212`). The
  package comment and the roadmap promise a shutdown on SIGTERM.
* `git_edits` (`EditsLand`): the runner gives `Open` the note alone, and `Open`
  adds it by its path. What the provider changed stays in the working tree,
  against `docs/STATUS.md:32-33` and the comment on `Claude`.
* `memory_db` (`ListsWhatWasStored`): on `:memory:`, a call that overlaps another
  gets a new connection, and with it an empty database. The quick start runs
  like that and lists its runs; so does nearly every test, one call at a time.

Some disagreements need no run to be seen. The comment on the planner's budget
pass is "drop from the tail until we fit" (`planner.go:175`), but the pass goes on
behind a slot that does not fit and keeps what still does. The two differ: of
slots that cost 4, 16 and 4 with a budget of 8, the code keeps both of 4, while
dropping from the tail would leave the first alone and half the budget unused.
`Planner` follows the code, and `BudgetUsedUp` is a property of what it does, which
the comment's algorithm would break; `PriorityYieldsToCost` holds of both.
`Stats` is called a "single-query
snapshot" (`storage/stats.go:17`) and is five queries; `StatsOneSided` says how
far its counts can be apart. `/metrics` declares `nf_runs_by_status` a counter
(`server/metrics.go:56`), yet `queued` and `running` go down; `CountersGrow`
speaks of the rest. `digest.Night` is "a Night plus every Run that cites it"
(`digest/digest.go:18`), but rendered on demand it has only those among the
newest 500 runs of all nights: `OverIsFinal` promises no more. The OpenAPI
document answers a second trigger 409 (`openapi.yaml:414-415`), and nothing looks
for a night under way. `LoadDir`'s comment has invalid files skipped
(`family.go:104-106`), and one ends the load: `OverlayApplied` speaks of the files
that were loaded. `Open` is said not to step on the caller's working copy
(`gitops.go:119-120`), but what the caller had staged goes into a run's commit. A
SIGHUP that comes before `signal.Notify` ends the daemon.

### Fairness

`Runner!FairSpec` assumes that a goroutine goes on (weak fairness of each job's
next step) and that a deadline fires. A `git` or `gh` command is assumed to end
only once its context is done, which `exec.CommandContext` sees to; under the
scheduler's context, which has no deadline, it may hang, and so
`HttpJobReturns` is stated for HTTP jobs alone. A command that fails is never
assumed to succeed later. `FamilyStore!FairSpec` assumes that main's goroutine is
scheduled; operators, handlers and restarts need not happen. `Daemon!FairSpec` has
weak fairness for main, for the handlers that have a deadline, for `nf` and for
time, and strong fairness for `TakeError`: a reload makes main leave its `select`
again and again, and `select` picks at random among the cases that are ready.
Signals, clients and requests without a deadline need do nothing. That a
handler, or a job, ends with its deadline assumes that a subprocess does: a
grandchild that keeps the output pipe open may delay `exec` beyond it, since no
`WaitDelay` is set (`claude.go:66-75`, `gitops.go:205`). `SchedulerLoop` has
no fairness: `NoWindowSkipped` is a safety property of the ticks that happen.

## 4. The proofs

All are for any number of jobs, slots, faults, restarts, runs, members, duties,
files and so on; the assumptions are the named `ASSUME` of each module.

| Module | Theorems | Along which argument |
|---|---|---|
| `RunnerProofs` | `Typing`, `LedgerRefinement`, `JobsEnd`, `RefusedNightsLeaveNothing`, `LoopNightsInTurn` | `TypeOK` is inductive because of its last conjunct: inside `Dispatch` the slot in hand is one of the plan's. The refinement needs `CoreInv`, which ties each job's `pc` to its rows: a night's row is open while it works, a run's row is exactly as far as its place in `Dispatch`, rows beyond the current slot do not exist. Each action then changes one row in the way one action of `RunLedger` allows, or none. For `JobsEnd`, `Left` is nine calls for each slot not taken and the rank of `pc` within a slot; it never goes below zero, since the loop takes no more slots than the plan has (`Within`). The last two are what `SchedulerLoop` assumes; they rest on the loop's context having no deadline (a triggered night that reports an error *can* leave its row behind) and on `LoopFree`. |
| `RunnerLossProofs` | `FinishedNightsAreSettled`, `PRsAreTraceable`, `DigestsAreComplete`, `LossesAreBounded` | `LossInv` adds which past slots may be unsettled: without a lost call none is, and PRs are recorded. `IInv` adds what the rendered digest holds, and that nothing is dispatched any more once it is on its way; a row the limit has left out stays out, as `newer` only grows. For the bound, the runs abandoned so far are counted against faults and the context's end; the step that matters is that a night does not start a slot under a context that is done (`CheckSlot`). |
| `GitCheckoutProofs` | `KeptBranchesSafe`, `NotesLandAtMostOnce`, `LandingRefinement`, `OpensLandAsTaken`, `OpensLandInTheCall`, `PRsHoldTheirNotes`, `StraysAreFailures` | `CheckoutInv`: no item is on two branches, what is on HEAD's branch is in the index, a note that was not added yet is nowhere, and GitHub holds a part of the run's branch. What a caller sees once `Open` returned follows from `NoteLanding` alone (`ContractMaps`). `AloneInv` adds, for a run that was never under way beside another, that nothing else is under way and HEAD is on its branch, that its note is where it should be, that what is staged and not committed belongs to an `Open` about to commit or to one that failed before it pushed, and that every stray belongs to such a failure. |
| `ReadersProofs` | `ReadersTyping`, `StatsNeverShort`, `CountersNeverFall`, `FinalDigests` | `CountInv`: what was counted is within the tables, which only grow, and a request under way has counted at least what the last one answered; when the statuses are counted, the tables hold all of what the earlier counts saw. `DigestInv`: a page read of a finished night agrees with the tables, because no action of `RunLedger` touches such a night (`WriteSpares`) and rows only move back in the lists. |
| `PlannerProofs` | `PlansAreComplete`, `BudgetsAreUsedUp`, `PriorityIsKept`, `CountsAreKept` | `PlanInv`: every duty is in one place, and the budget pass has dealt with the slots before those it still has (`InOrder`). A slot kept after one was dropped fits where that did not, so it is cheaper; a slot dropped comes after all that were kept. `Counts` says in each phase which slots a member's count is of (`Counted`): those collected so far, those before and behind the budget pass, and then the plan's; the cap holds of it while duties are collected, and one reached is never left again. |
| `FamilyProofs` | `AlwaysCapped`, `OverlaysAreApplied`, `HupsAreKept` | `FamilyInv`: while a load is under way, members no handler touched are as the files put so far say. Of two files with one member the later is put later, sorted or not (`Progress`). `HupsAreKept` needs only that no load has seen more edits than there are. |
| `DaemonProofs` | `CleanExits`, `RunsAlwaysHeard`, `NightsNeverPileUp`, `LeavingIsForGood` | `IInv` ties `main`'s place to what is open and under way: past `Drained` no request runs and none can come, since the listener is closed. `SpacedInv`: of two nights under way the earlier has at least `NfLimit` less time left, as `nf` asks again only once it gave up; so their whole numbers of `NfLimit`s left differ, and there are only so many (an injection into `0..NightLimit \div NfLimit`). `LeavingIsForGood` counts the stages of the way out (`Stage`). |
| `SchedulerProofs` | `FiresInside`, `SkipsNone`, `FiresOnce`, `FiresOnceSteadily` | First, without any state: where `Date` puts a wall time (`DateIs`, `DateMonotone`), so that windows come in order; then that an instant is inside what `Next` says of it exactly when it is inside the `WallWindow` of today or yesterday (`WallIsDue`, `DueIsWall`), with the two starts an hour apart at most and only where the schedule is not `Steady`. `LoopInv` is about the loop: every night was due when it was fired, `lastFire` is the latest of this life's nights but for the one in hand, and the tick in hand is in a window that opens after all of them. `NoWindowSkipped` needs this: the tick that declines compares `lastFire` with the start as `Next` gives it *now*, and `SameWindow` says that the two instants are then in one window. |

The scheduler's theorems have a hypothesis, `AllRegular`: every setting the daemon
may be given is `Regular`. They hold for any schedule (of whole hours), any zone and
moment of its change, any stretch of time and any number of refused nights and
restarts. `FiresOnceSteadily` is the loop's promise as it is written, for
settings that are `Steady` as well. The hypothesis is not there for the prover:
in the settings of section 2 that it leaves out, the properties are false.

Every safety and action property that the passing runs check is proved, the
refinements included. Model-checked only are the four liveness properties
`HttpJobReturns`, `HupsAreServed`, `StopsWhenHeard` and `EndsUnheard`, since
liveness under fairness is out of the prover's reach. Of the first three the part
that needs no fairness is a theorem: `JobsEnd` bounds the steps a request can
take before its answer, `HupsAreKept` says that a SIGHUP is not lost, and
`LeavingIsForGood` that a SIGTERM in the channel is not, and that `main` only goes
forward from it. That
the modules do not deadlock is checked by TLC alone (`ENABLED`).
`ListsWhatWasStored`, `StopsWhenTold`, `EditsLand`, `TerminalStateRecorded` and, in
general, `AtMostOncePerWindow` do not hold.

## 5. What is not modelled

* Reads that are one query (`GET` of nights, runs, PRs, members, the list of
  digests), `LatestBudgetSnapshot`, a migration that fails half way (a file is one
  transaction, and creates only what is not there yet), and time stamps
  everywhere.
* In `Readers`: an I/O error in the middle of a result, other than the deadline
  (`Stats` does not ask `rows.Err`, so it would go unnoticed), and rows whose time
  stamps are not in the order they were inserted.
* Provider subprocesses: an answer that succeeds or fails, or never comes before
  the deadline. Their output, tokens and quota are data the runner passes on.
* The layout of notes, PR bodies and digests, and with it what a truncated Slack
  message still shows; which runs and PRs a digest lists *is* modelled.
* In the checkout: a git process that outlives the daemon and finishes after its
  restart, a checkout cut off half way, a stale `index.lock`; the owner working
  in the checkout at the same time as `Open`. A command either happens or not.
* In the schedule: minutes (offsets and windows on the half hour), more than one
  change of offset in the time considered. The theorems leave out changes of
  more than an hour as well.
* In the family store: parsing, the individual rules of `Validate` (one stands
  for all), time stamps, and a file that is edited while the directory is read.
* In `Daemon`: connections that never carried a request, and the requests that only
  read.
* In `MemoryDB`: connections that break, or are closed by a cancelled call.
* HTTP decoding, the web UI, configuration, `nf`'s reading commands, `ulid` and the
  duty registry: they keep no state that anything here depends on.

## 6. Plan

Done: `Runner`/`RunLedger`, `GitCheckout`/`NoteLanding`,
`Schedule`/`SchedulerLoop`, `Planner`, `FamilyStore`, `Readers`, `Daemon` and
`MemoryDB`, in this order, each with its runs, and proofs for all but
`MemoryDB`, whose one property does not hold.

Next, most important first:

1. Providers as subprocesses: the twenty-minute limit against the caller's
   deadline, partial output, and what the runner records of it.
2. Composing `Planner` and `FamilyStore` with `Runner`: a night planned from a
   roster that changes under it.
