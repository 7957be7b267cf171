# Verification of the manga production workflow

TLA+ models of the Manga Creation Workflow and Publishing Management System
(`apps/backend`, `apps/frontend`, `packages/shared`, `db`), the TLC runs that check
them on small instances, and TLAPS proofs of what holds for every size.

## 1. The system

A NestJS process serves HTTP requests over one MySQL database (InnoDB, the
default REPEATABLE READ, a pool of ten connections). The process keeps nothing
else: a service method is an async function that awaits SQL statements one by
one, and between two of its statements any other request may run.
`DbService.query` and `DbService.insert` commit every statement by itself; only the
methods that use `DbService.transaction` group statements. In the browser React
pages keep copies of the rows they have loaded and decide by them which buttons
they show; the Studio keeps a drawing with its undo history.

Roles: a mangaka proposes series, draws chapters and gives regions of pages to
assistants; an editor and the board review; board and readers vote on the fate
of a series; an admin keeps the accounts and settles disputes.

### Components, their state and their operations

| Component | State | Operations | Must hold |
|---|---|---|---|
| Status maps (`packages/shared/src/enums`) | none | `canTransition` | statuses move along the maps |
| Page status projection (`pages/page-status.util.ts`) | `Page.page_status` | `derivePageStatus`, `syncPageStatusFromTasks` | a page shows what its tasks are |
| Tasks (`tasks/`) | `Task` | `assign`, `start` | a region is assigned once, on an open chapter |
| Submissions (`submissions/`) | `Submission`, `Task.task_status`, `Assistant_Profile.total_earnings` | `submit`, `review` | the queue matches the tasks; paid once, and exactly for approved work |
| Studio server (`studio/`) | `Page_Version`, `Page.current_version`, `Studio_Document` | `savePageVersion`, `saveDoc` | versions have no holes and never go back; nothing moves under review |
| Pages, regions (`pages/`, `regions/`) | `Page`, `Region` | `create`, `delete` | no task without region, no region without page |
| Chapters (`chapters/`) | `Chapter` | `create`, `setStatus`, `editorReview`, `boardReview` | numbered without holes; what is reviewed is finished and stands still |
| Publication schedule (`publication_schedule/`) | `Publication_Schedule` | `create`, `cancel`, `publish` | in step with the chapter, never early, final |
| Voting, ranking, risk (`rankings/`) | `Vote_Period`, `Vote`, `Ranking`, `Series.series_status` | `openPeriod`, `castVote`, `closePeriod` | each period closes with all votes, ranks follow the votes |
| Reader vote imports (`rankings/`) | `Reader_Vote_*` | import, deletion requests and approvals | imports do not overlap; a deletion is unanimous and takes its rows along |
| Decisions (`decisions/`) | `Decision`, `Series.series_status` | `decide` | a terminated series is final |
| Proposals (`proposals/`) | `Series_Proposal`, `Series` | `create`, sample, `submit`, `startReview`, `decide` | one series per approved proposal |
| Series editors (`series/`) | `Series_Tantou_Editor`, defence reports | `assignEditor`, `unassignEditor`, `createDefenseReport` | one active editor |
| Disputes, earnings (`disputes/`, `earnings/`) | `Earning_Dispute`, `Task.payment_amount`, `total_earnings` | `file`, `markUnderReview`, `resolve` | earnings are the sum of the payments |
| Authentication, codes (`auth/`) | `User`, `Email_Otp`, tokens in tabs | login, second factor, reset, change | a code works once; a password follows the one it replaces |
| Accounts (`admin/`, `users/`) | `User`, profiles | `createUser`, `updateUser`, `updatePassword` | a role in use is not taken away |
| Pages of the browser (`apps/frontend/src/pages`) | copies of rows, open forms | loading, buttons | they offer what is accepted; one approves what one sees |
| Studio in the browser (`lib/studio`, `pages/studio`) | layers, buffers, history, draft | drawing, undo, autosave, save | undo restores; unsaved work is asked about |
| Annotations, notifications, mail, storage, dashboards, canvas kernels | rows nobody decides on, pixels | insert, mark | - |

They interact through shared rows, and through three calls: `assign`, `start`,
`submit` and `review` call `syncPageStatusFromTasks`; the readiness of a chapter
reads pages and tasks; scheduling reads the status that the votes and the
decisions give a series.

### What is hard

* **Check, then act.** Nearly every guard is tested on a row read in an earlier
  statement, and the update that follows names the row by id alone.
* **Half-done requests.** A handler of four statements that dies after the
  second leaves two of them behind.
* **Write skew.** Inside the review transaction the page is derived from a
  snapshot that does not see what another open review has written.
* **Four lists of open statuses.** Pages, regions, tasks and the Studio each
  decide on their own in which statuses a chapter may still change, and so do
  the pages of the browser.
* **Derived state.** `page_status` is written by the sync, the review and every
  Studio save; nothing ties it to the tasks but the order of these writes.
* **Copies.** A page that was loaded earlier sends requests about rows as they
  were; a token or a code is about a password as it was.
* **Arrays changed in place.** The undo history holds pixels of regions of
  buffers that other operations replace.

`PROJECT.json` lists each hazard with its line and the properties about it.

## 2. The modules

| Module | Models |
|---|---|
| `Transitions` | the status enums and maps, `canTransition`, `derivePageStatus` |
| `ProductionDb` | the seven tables of one chapter as functions, the requests in flight, row locks, `TypeOK` |
| `PageStatusSync` | `syncPageStatusFromTasks` outside a transaction, three steps |
| `TaskService` | `assign`, `start` |
| `SubmissionService` | `submit`, `review` |
| `StudioService` | `savePageVersion`, `saveDoc` |
| `PageService` | `pages.create`, `regions.create`, `regions.delete` |
| `ChapterService` | `setStatus`, `editorReview`, `boardReview`, readiness |
| `Production` | their composition, its fairness and its properties |
| `ProductionContract` | what the production promises, without pages, submissions and requests |
| `Publication` | the schedule of the chapter and the calendar, composed with `Production` |
| `ChapterLife` | what the whole life of a chapter promises: `ProductionContract` until the board approves, then its entry in the schedule |
| `Screens` | what the pages around a chapter load and offer, and the two pages that keep copies, composed with `Publication` |
| `Voting` | the board's vote periods of one window of days, their ranking, the risk mark, `decide` |
| `Ballot` | what the voting promises, without requests, counting and ranks |
| `Requests` | slots for requests at the desks below, and the modes of a behaviour |
| `ReaderVotes` | imports of reader votes and their deletion, with the page `ReaderVoteImport` |
| `Disputes` | filing and settling disputes, with the pages of the assistant and of the admins |
| `SeriesOffice` | proposals, series, editors, reports, the creation of chapters, accounts and roles |
| `SignIn` | signing in to one account, its one-time codes and passwords, in the tabs of a browser |
| `Drawing` | a page opened in the Studio: engine, history, draft, saving, leaving |
| `Offices` | the sum of these five desks |
| `DeskPages` | what the pages of the desks load and offer |
| `NumberLemmas` | lemmas about greatest elements, initial segments and sums over finite sets |
| `ProductionProofs`, `PublicationProofs`, `VotingProofs`, `ReaderVotesProofs`, `SeriesOfficeProofs`, `DrawingProofs`, `OfficesProofs` | theorems (those of `Disputes` and `SignIn` are in `OfficesProofs`) |
| `MCProduction`, `MCPublication`, `MCVoting`, `MCOffices`, `MCDrawing` | instances for TLC |

**How code becomes actions.** A slot holds one HTTP request. Its `pc` names the
statement it will run next, the other fields are the locals the handler has
captured. The part of a handler before its first write or second relevant read
is the call, and its guard on the rows an operator of its own (`mayAssign`,
`maySubmit`, `boardMayMove`, ...); each further statement is one action, named after the method
(`SubmitVersion`, `SubmitCheckStudio`, `SubmitInsert`, `SubmitWrite`). An exception
or an early return is `Finish`. Reads of rows that no modelled request writes
(price rules, ownership) are part of the step before. A transaction is two
actions, one that takes the row locks and the snapshot and one that commits, or
one where its first statement locks what it decides on; `TaskLocked` and
`ProfileLocked` make others wait as InnoDB does. Unique keys and foreign keys are
the refusals in the insert and delete actions. A request may die before any of
its statements (`Fail`): committed statements stay, an open transaction rolls back.

In the production a deleted region keeps its id (`"DELETED"`): AUTO_INCREMENT
never reuses one. Pages are named by `page_number`, which
`UNIQUE (chapter_id, page_number)` makes a key. `accruals[t]` counts how often the
payment of task `t` was added to `total_earnings`; amounts are in `Disputes`.

`Voting` shares only `Series.series_status` with `Publication`, where
`SeriesStatusChanges` stands for it. `finalizePeriod` ranks the periods of one type
that begin and end on the same days; the unique key leaves a series one of them,
so that `period`, `vote` and `ranking` are functions of the series. An average is a
fraction, `[sum, count]`, compared without division. `active`, the board's accounts,
is any set of members and does not change during a behaviour.

**Modes.** The desks take the way a behaviour goes about its requests as a
variable that never changes (`Requests.Modes`): *in turn*, one request at a time,
which may die; *at once*, all interleavings, nothing dies; *at worst*, both, and
accounts change. A property names the modes in which it holds by `InTurn` and
`Undisturbed`, and one without them holds in all. A desk starts in one of its
*scenes*, a mode with the people and bounds of the behaviour, so that a run can
explore several small instances one beside the other.

**Pages of the browser.** In `Disputes`, `SeriesOffice`, `ReaderVotes` and `SignIn` a
request begins with the click or form that sends it, guarded by what the page
knows: a flag (`hasDispute`), a disabled button (`savingId`, `savingSeries`), a
confirmation, a token. Such a flag lives as long as the page: in `Disputes` a page
may be left and opened again while its requests are in flight (`EarningsLoad`,
`DisputesLoad`), which loads it anew, frees its buttons, and leaves the requests on
their way without a page to answer to (`shown`). In `SeriesOffice` and `SignIn` a page
that is opened again meanwhile counts as a second page, or tab.

`Screens` and `DeskPages` define, for each route of each role, the set of requests that a freshly loaded page *offers* (tuples, such as
`<<"review", t, v>>`), and compare it with what the handlers *accept*, which is their
guards, the same operators that the actions use. The two pages
that decide on a whole chapter have state of their own, a copy of its pages:
`EditorOpensChapter`, `loadDetail`, `DetailAnswered` fill it and `BoardAnswered` drops
it. `InOrder` says whether answers come in the order of their questions.

**The Studio in the browser.** Pixels of a layer are the set of the strokes one
sees. A layer id leads to an array and the array to its strokes, because the
history's closures keep arrays and ids apart: a stroke's undo copies pixels into
the array that the id has then, an undone merge puts the old array back.

`SignIn` has no hashes: a password is the number of changes before it, a token
the password it was issued for, a code its row. `knew[n]` is the password that the
author of change `n` had proved to know, or the one that was current when he had
shown to have the mailbox. `passed` and `missed` count what happened to a code.
`leftTasks` and `leftDisputes` of `Disputes` are the tasks and disputes whose page was
left while a request about them had yet to be written. These are history variables;
no guard reads them.

Some modules also hold *mutants*: variants of an action or a guard with a
plausible bug, placed just before the definition they vary and used by no
specification. Each checked property is violated by one of them, as recorded in
`PROJECT.json`.

## 3. The runs

| Run | Instance | Shows |
|---|---|---|
| `production_serial` | one slot, 2 regions, 1 assistant, 2 pages, 2 tasks, 3 versions, 2 submissions, all operations, empty chapter | one request at a time: the workflow's rules, and that `Production` implements `ProductionContract` |
| `production_concurrent` | two slots, faults, 1 page, 1 region, 1 task, 3 versions, 3 submissions, drawn chapter | what survives every interleaving and every death |
| `production_live` | two slots, fairness, no faults, no symmetry | every request returns; stored versions become current |
| `screens` | one production slot with faults, one schedule slot, 1 page, 2 regions and tasks, 2 days, the tabs of an editor and a board member | schedule and chapter in step; nothing early; the whole implements `ChapterLife`; pages offer what is accepted; a chapter is approved as it is shown |
| `voting_serial` | one slot, faults, 3 series, boards of up to 2 members, scores 2, 3, 4, cancellations | one request at a time: a closing leaves ranks and risks as the votes are, ties and thresholds included, also after a death; and `Voting` implements `Ballot` |
| `voting_live` | two slots, fairness, 1 series, boards of up to 2 members | closing is complete and happens; a high risk is marked |
| `offices` | the five desks in the scenes of `MCOffices`, two slots | the rules of the desks, in their modes, and that their pages offer what is accepted |
| `approved_terminal` | two slots | counterexample: two reviews of one submission |
| `last_approval` | one slot | counterexample: a Studio save between submission and approval |
| `published_pages` | the tabs of an editor and a board member, whose decisions are made there | counterexample: a Studio save after the board's approval |
| `cancelled_series` | one slot, one series | counterexample: a closing vote period revives a cancelled series |
| `unsaved_drawing` | one stroke, one save | counterexample: a stroke undone after a save counts as saved |

The last five each refute a sentence of the repository's documentation or
comments; `PROJECT.json` quotes the sentence under `findings`.

**What the passing runs mean.**

1. *However requests interleave and wherever they die.* An approved task is paid
   for (`ApprovedIsPaid`), page versions have no holes and never go back
   (`VersionsContiguous`, `CurrentVersionGrows`), rows stay connected
   (`RowsAreConnected`), a closed period has the vote of the whole board
   (`ClosedIsComplete`), a ranking row never belongs to a deleted import
   (`RowsHaveLiveImport`), chapters are numbered (`ChaptersAreNumbered`), an approved
   proposal has its series and no series lacks a sample (`SeriesFollowsProposal`).
2. *One request at a time.* One task per region, paid exactly once, the review
   queue matches the tasks, pages follow their tasks, a chapter under review is
   finished and its work stands still; weeks are imported once, a deletion is
   unanimous, roles fit the work that was done in them, a proposal stays approved
   when it has a series. `ImplementsContract` and `ImplementsBallot` say of the
   production and of the voting that nothing else happens to their main rows.
   These are statements about the logic of the handlers.
   They are **not** protected against concurrency: the guards are read before
   the writes, and with two slots TLC refutes them (two assignments of one
   region, two reviews of one submission, a page created between the readiness
   test and the update, two imports of one week). The hazards in `PROJECT.json`
   say where. With two closings in flight ranks mix, and a vote that tested the
   period before it closed is stored after it.
3. *At once, thanks to a page.* `DisputedOnce` holds because the page takes a flag
   before it asks, `EarningsAddUp` and `SeriesHasOneEditor` because one page holds
   back the second click on a row; with two admins, or two tabs, TLC refutes
   them. The flags are gone when a page is opened again: both dispute pages load
   in the effect of their mount, with `busy` false and `savingId` null. An assistant who
   leaves the page before the dispute is inserted can file it a second time, an
   admin who leaves before the settlement is written can settle twice and both
   differences are added. So `DisputedOnce` is about tasks, and `EarningsAddUp` at once
   about disputes, that were not left like this (`leftTasks`, `leftDisputes`); TLC refutes both
   without that condition. Leaving the page after the write, or for other rows, is covered.
   `SeriesHasOneEditor` is about one page that stays open likewise. `CodesAreSpent` and
   `PasswordFollowsPassword` hold at once for one tab,
   in turn for several: a grant names the password it replaces. `PendingIsOffered`
   holds at once without help: the last two approvals count each other.
4. *In step.* `ScheduleFollowsChapter`, `NothingIsReleasedEarly` and `ImplementsLife`
   hold with deaths, midnight and changing series, while one request works on
   the chapter and one on its schedule. Two chapter requests, or two that use a
   cancelled entry again, break them. The reuse itself is what the code does
   (`CreateReuse`, and `ChapterLife` allows it); the row BR-FLOW-026 of
   `documents/01-overview/04-business-rules.md` (line 89), which calls the status of an
   entry one-way, is out of date in this point.
5. *Offers* (`PagesOfferWhatIsAccepted`, `DesksOfferWhatIsAccepted`): no button of a
   page that has just been loaded is refused by the guard of its handler, and
   whatever the guards allow about a row is offered to somebody, at any moment,
   whatever other requests are on their way. (What happens to a page that is
   older than that, or to a guard that was passed too early, is the subject of the
   other properties.) The exceptions are in the formulas:
   submissions whose request died (`LeftBehind`), reasons no page can know
   (`MayBeRefused`). The handlers accept more than pages offer: `editorReview` sends
   an `EDITOR_APPROVED` chapter back, a second dispute about a task, an approval
   given twice, the deletion of an import of the same week (its button is
   disabled). A locked editor is not among the options of the board's select,
   so he can be replaced but not taken off.
6. *As it is shown* (`ApprovedAsShown`): what an editor or a board member approves
   is what his tab shows, one tab each and answers in order. With
   `InOrder = FALSE` TLC finds the late answer of `loadDetail` that puts an old copy
   back.
7. *With fairness* (`production_live`, `voting_live`). Every request returns, a
   stored version becomes current, the last vote closes its period.
8. *Undo* (`UndoRestores`): what is drawn is what the history says, until a layer
   is changed behind it, gets the id of another one after a reload, or an
   undone duplicate, merge or removal puts back arrays of its own (`aside`). From
   there undoing older strokes paints into other arrays.

**Bounds.** `MaxPages`, `MaxTasks`, `MaxVersions`, `MaxSubmissions`, `MaxDay`,
`MaxImports`, `MaxDisputes`, `MaxProposals`, `MaxChapters`, `MaxCodes`, `MaxPasswords`,
`MaxEdits`, `MaxSessions`, `MaxSaves`, `MaxArrays` and the size of `Regions` bound ids and
counters; a request that would need one more is dropped, as if it had not been
sent, and so is a gesture in the Studio that would need more free arrays than there
are (`Room`; with the bounds of the runs none does). Two slots suffice for every race of two handlers; three versions for a
save that is overtaken twice; two tasks and two pages for one page's work to
disturb another's; three submissions for two rounds of revision; two days for a
schedule that is cancelled, set anew and reached. Three series are the least for
a tie that leaves a gap in the ranks; two members with scores 2, 3, 4 give
averages on both thresholds (2.5, 3.5) and on either side. `Scores` and `Decisions`
bound what the board may choose; a window of one day that begins on day 1 has a
day before it. Weeks 0 and 3 overlap without being equal; three members are the
least for two last approvals of a deletion that a third has asked for. Two
wrong codes (`MAX_ATTEMPTS`, 5 in the code) reach the limit by way of one that
does not. `Limit`, the length of the history (40 in the code), is 2 so
that three edits push one out. The scenes of the disputes bound how many may be filed
(`room`): two in turn with an admin, two at once without one, which is what filing a task
twice needs, and one at once with an admin, filed and settled in all interleavings and
with both pages left and opened at any step. Two at once with an admin are some 16
million states. Two admins who take turns with a dispute are one
step too many for `offices`; one admin is enough there, the theorem is about
any number. Symmetry (slots, regions, assistants, members) is used for safety only.

**Fairness.** `FairSpec` asks strong fairness of `Progress(r)` for each slot: the
event loop resumes a handler whose statement has returned, and InnoDB serves a
contended row lock in the order of its queue, so that a waiter is not overtaken
for ever. Nothing is asked of users: `Call` is not fair, a chapter may stay a
draft. Deaths are excluded from this run: a save that dies between its insert
and its update wedges the page, and then `SavedVersionIsShown` rightly fails.
`FairVotingSpec` asks only weak fairness of each handler: `rankings` opens no
transaction in a vote and waits for no lock.

**Deadlock** is checked in all runs but those of `Voting`, where the board may have
nothing left to do, and of `offices` and `unsaved_drawing`, whose bounds on edits,
codes and openings can be used up.

## 4. The proofs

All theorems hold for any value of the constants that satisfies the named
assumptions of the modules, any number of rows and, unless said otherwise, any
number of requests in flight. A theorem about one request at a time in the
production or the voting says so in its statement (`OneSlot`, `OneVoter`,
`OneEach`); at the desks the properties name their modes themselves.

`ProductionProofs`, first part, any number of requests, with or without deaths:

* `TypeInvariant`. `TypeOK` alone is not inductive: a statement writes the row
  that its request remembers, which is well typed only if that row still exists.
  So the invariant is `TypeOK /\ RowsAreConnected /\ RequestsFitRows`. One lemma
  per action; `LocalStep` and `OthersStillFit` carry what all of them share.
* `SavesStayInOrder`. Between the insert and the update of a save, version
  `current_version + 1` exists; any other save that is about to insert holds
  that number or an older one and is refused by the unique key. This makes the
  contiguity of the versions inductive (`VersionsStayContiguous`) and gives
  `CurrentVersionNeverFalls`.
* `ApprovedStaysPaid`. Only the commit of a review makes a task APPROVED, and
  the same commit writes the submission and the payment.

Second part, one request at a time:

* `SerialInvariant`, deaths allowed. `Told` says for each `pc` what the request has
  read and still holds: the region has no task, the task may move, the chapter
  is open, or ready. From it `RegionsAreAssignedOnce`, `ApprovedIsPaidOnce`,
  `ReviewedStaysReady`, `ReviewedWorkIsStill`. The Studio's assistant path asks for no
  chapter status; it is harmless because it needs an open task, and a chapter
  under review has none.
* `HandlersKeepContract`: `Production` refines `ProductionContract`, statement by
  statement, a stutter wherever neither chapter, task nor payment is written.
* `ReviewQueueFollowsTasks` and `PagesFollowTasks`, for requests that do not die: a
  `submit` that dies leaves a submission without its task, a sync that dies a page
  behind its tasks. `Awaited` is the task between the insert and the update of a
  `submit`; `Settling` what a page may look like while a sync is on its way.

`VotingProofs`: `VotingInvariant`, what a request has learnt before its next
statement (one that is about to close a period has counted a full ballot, one
that is about to store a vote has seen the first day come; votes are never taken
away). `EveryMemberCounted` turns the comparison of two numbers, which is what
the code does, into *every member has voted*. `ClosedStaysComplete` and
`NeverClosedEarly` follow; `VotingTypesHold` gives the types, `ClosedVotesStay` adds
that one request at a time finds its period open when it writes, and
`HighRiskGetsMarked`, for a single series, that the request which writes a high
risk is the one that marks it. With two series it need not be.

`HandlersHoldTheBallot` is the refinement of `Ballot`, for one request at a time and
wherever it dies. Each statement that writes a period, a vote or the status of a
series is one step of the ballot; `BallotInv` says what its request has learnt for
it: the vote is a member's and its period still open, what is ranked is closed, the
series of a decision is not terminated, and the risk that the loop carries along is
the one that the votes of its own series give. The last part rests on the
invariant of the loop, below; the sums of `Ballot` and of the code's `AVG` meet in
`HighIsLow`. That `Mark` asks for no status of the series is what the code does, and what
`cancelled_series` shows.

`RanksAreTheVotes` is about the loop of `finalizePeriod`. The code counts places with
two variables, the average of the row before and the place it was given, and moves
the place only when the average falls; the property defines the rank by the number
of series that stand above. `RankingTold` is the invariant of the loop: the rows that
are left have the totals that their votes give, `index` is the number of rows done,
each of them is at least as good as each that is left, the last one is the lowest
and has `position` for its rank, and all have the rank of the definition
(`PositionIsRank` is the step from the code's counting to it). An earlier closing that
died leaves rows with stale ranks, which is why it says nothing of rows not yet
passed. TLC checked the invariant on the instance of `voting_serial` first.

`PublicationProofs`, with one production and one schedule request: an entry that
is about to be used again is still cancelled, a request that is about to write
the chapter has found it before the board's approval. `ScheduleStaysInStep`,
`NothingStaysEarly` and `PublishedStaysFinal` follow, over the steps of `Screens`.

`HandlersLiveTheChapter` is the refinement of `ChapterLife`, and so of the whole way of a
chapter: a request that is in the production is a step of `ProductionContract` by
the lemmas of `HandlersKeepContract`, one that is in the schedule changes only the
entry, and `publish`, the one statement that writes both tables, is one step. Two
facts join the halves. `WorkIsDone`: a chapter that is out of production has only
approved tasks, which is why it comes out with its work done and paid for.
`ContractIsAtRest`: no step of the production writes chapter, task or payment once
the board has approved.

Its second part is about the tabs. `ApprovalsAreInformed` needs three hypotheses on
the instance (`DecidedOnThePages`): one request each, answers in the order of their
questions, and no decision of an editor or the board but through the pages
themselves. `TabsInv` says that a copy in a tab, or one on its way to it, is what the
tables hold, and for which status of the chapter it was asked. It is kept because
nothing writes a page's version, or its place in the chapter, while the chapter is
before the editor (`OpenPages`) or the board; the one exception, a Studio save, is the
finding of `published_pages`, and there the chapter is past both. TLC checked
`TabsInv` on the instance of `screens` first.

Its third part is about the offers. `OffersAreAccepted` holds for any number of
requests, under deaths. That no button is refused is a comparison of the conditions
of the pages with the guards, one request kind after the other, with the types
of the rows. The converse needs an invariant, `DrawnInv`: the canvas
shows the regions of those pages whose current version is stored, and the list of
tasks those that have an assistant, while the handlers ask for neither. A region
is only created on a page that has its first version, and versions are never
taken away (it is proved together with the order of the saves); a page that is being
created may lack its version, but then it has no region.

`ReaderVotesProofs`: `ReaderInvariant` for all modes. `RowsHaveLiveImport` needs that
ids of live imports grow and that a deletion leaves no legacy row of its week
(`DeletedLeavesNoLegacy`): it is what keeps an adoption by an import that was read
before from reviving it. `ReaderTurnInvariant` adds what one request knows of approvals.
`OfferInvariant` is for requests that interleave and do not die: a pending deletion
that has enough approvals is about to be settled by a request that has inserted
its own and has yet to count, or has counted enough (`Settling`). `PendingStaysOffered`
follows by counting the members who have neither asked nor approved.

`SeriesOfficeProofs`: `OfficeInvariant` for all modes, with the numbering of chapters;
`OfficeTurnInvariant` for roles; `EditorsInv` for the one active editor, at once with one
page and one series or in turn. `SelectsInv` is about the page `board/Series`: a select that
is disabled waits for a request that is still in flight, so that it comes back
whether the request succeeds or dies, and the rows that are being edited are rows of
existing series.

`DrawingProofs`: `DrawingInvariant` is of types, but not only: `DrawingTypeOK` alone says
that layers and arrays are in range, and a gesture keeps that only if ids are not
used up and each new array is free, for which it counts ids against edits
(`MaxEdits < MaxArrays`) and asks for `Room`. An operation of the history carries
documents and pixels from the time it was made; the invariant says that they fit, too.

`UndoStays` is the proof about the history. `UndoRestores` speaks of the last operation
and of the next one, so by itself it says nothing of what an undo uncovers.
`UndoInv` adds that all operations are chained, each beginning with what the one before
it left, and that each can be reversed from what it carries: a stroke on
one layer (`Paints`), a layer more (`AddsLayer`), another active layer (`Activates`).
A duplicate, a merge or a removal puts back arrays of its own and is none of these; it
may stand in the past, and undoing it hands the engine the very buffers that the
history keeps, which the model notes in `aside`. `Apart`, no two layers share an array, is what
makes painting on one of them leave the others. It holds in turn and until
`aside`; beyond that, the property says nothing.

`OfficesProofs`: for the disputes, `DisputeInvariant`, and `DisputedOnlyOnce` (the page offers no task
that is disputed, or about to be, but for those in `leftTasks`, however often it is left and
opened). `EarningsAlwaysAddUp`: the total and the sum of the payments change by the same amount at a settlement, since the difference that the
request has read is still the difference when it commits; the sum over any
finite set of tasks is moved by lemmas of `NumberLemmas`. At once this needs that no two
settlements of a dispute are on their way: the first one has its `savingId` until it
is written, since the page was not left before (`leftDisputes`), and the page is still the
one that waits for it. For the sign-in, `SignInInvariant`
for types, `AskInvariant` for what a token or a code is worth while one asks at a time,
`SignInTurnInvariant` for live codes; `PasswordsFollow` and `CodesStaySpent` follow.
Last, the sum. `OfficesAreDesks` says that a behaviour of `Offices`, which is what
the run `offices` checks, stays at the desk it began with and is a behaviour of that
desk's own specification; so the theorems about the desks hold of it, and
`OfficesTypes` collects their types. `DeskOffersAreAccepted` compares offers and guards of
all desks; it needs `SelectsInv`, and the types of each desk.

`NumberLemmas` holds what all need of `Max` of finite sets of numbers, of
cardinalities of initial segments, and of sums. A fold has no induction that could
be cited (see below); the lemmas on sums use that a finite set of subsets in which
something fails has a smallest one, and that the fold over a set is the fold over
the set without one element, plus that element.

**Only model-checked.** Liveness: `RequestsReturn`, `SavedVersionIsShown` and
`FullBallotCloses` speak of fairness, hence of what is `ENABLED`, which the provers cannot reason about.
`HandlersRunOut` is the half of `RequestsReturn` that is a safety property: each step of a
request that has been called lowers the number of statements it has left
(`StatementsLeft`, at most seven), and no step of another request raises it; so a
handler can only fail to return by not being served. Every other property of a
passing run is a theorem.

## 5. Not modelled

* Mail, object storage, notifications and dashboards: output only, but for the
  editor's list of series, which is in `DeskPages`. Annotations: inserted and
  resolved once, read by no guard. Pixel arithmetic, selections, colours.
* Texts: names, notes, reasons, the bytes of a CSV, deadlines of tasks, price
  rules. Of a CSV that parses a set of series is left.
* The review note of a proposal: no page shows it to its author.
  `boardReviewStatus`: no page calls it (its `canSchedule` does not ask for the
  status of the series).
* The link of a Google account, and the rate limits of the endpoints.
* Accounts that change while a vote period is open: when the last missing member
  is locked nobody closes the period. No document says who should.
* The Studio's reaction to a stored document that cannot be read (an empty
  canvas, and a save that replaces it) is in `Drawing` as a case of `Open`; no
  sentence of the repository says that it must not be.
* The board's ranking pages and the landing page only show what they load.
