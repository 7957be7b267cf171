------------------------------ MODULE Screens ------------------------------
(***************************************************************************)
(* The browser pages on which a chapter is drawn, reviewed and published   *)
(* (apps/frontend/src/pages and components), over the tables and handlers  *)
(* of Publication.                                                         *)
(*                                                                         *)
(* A page loads rows and offers requests about them.  An offer is a tuple: *)
(* the operation and its arguments.  The offers are defined over the rows  *)
(* as they are when the page is loaded: a page that shows older rows sends *)
(* requests that the handlers test again.                                  *)
(*                                                                         *)
(* The two pages where a chapter is decided upon as a whole keep a copy of *)
(* its pages of their own, and have a state here: editorTab and boardTab,  *)
(* one tab each.  Every answer reaches its tab.                            *)
(***************************************************************************)
EXTENDS Publication

CONSTANT InOrder    \* whether the answers to a tab come in the order of its requests

ASSUME InOrderAssumption == InOrder \in BOOLEAN

VARIABLES
    editorTab,      \* the editor's page and the copy it shows
    boardTab        \* a board member's list, copies and open form

tabs == <<editorTab, boardTab>>
screensVars == <<publicationVars, tabs>>

-----------------------------------------------------------------------------
(* What the pages load. *)

\* tasks.listMine
MyTasks(a) == {t \in TaskIds : assignee[t] = a}

\* submissions.reviewQueue
SubmissionQueue ==
    {s \in TaskIds \X SubmissionVersions :
        submission[s[1]][s[2]] \in {"PENDING", "UNDER_REVIEW"}}

\* pages.list: the pages that have their current version.
ListedPages == {p \in ExistingPages : HasCurrentVersion(p)}

\* pages.findOne: the regions drawn on a page.
RegionsOn(p) == {g \in Regions : region[g] = "LIVE" /\ regionPage[g] = p}

\* chapters.reviewQueue
EditorQueued == chapter = "READY_FOR_EDITOR_REVIEW"

\* chapters.editorPages: the image of every page that has its current version.
EditorPages == [p \in ListedPages |-> currentVersion[p]]

\* chapters.boardReviewQueue
BoardQueued == chapter = "EDITOR_APPROVED"

\* chapters.boardReviewDetail: every page, with no image (0) where it is missing.
BoardPages == [p \in ExistingPages |-> IF HasCurrentVersion(p) THEN currentVersion[p] ELSE 0]

\* Mutant of eligibleChapters: series on hiatus are not left out.
eligibleInHiatus ==
    /\ chapter = "BOARD_APPROVED"
    /\ seriesStatus # "CANCELLED"
    /\ schedule \in {Absent, "CANCELLED"}

\* publication-schedules/eligible-chapters
eligibleChapters ==
    /\ chapter = "BOARD_APPROVED"
    /\ seriesStatus \notin {"CANCELLED", "HIATUS"}
    /\ schedule \in {Absent, "CANCELLED"}

\* publication-schedules: the two flags of an entry.
canCancel == schedule = "SCHEDULED" /\ release > today
canPublish == schedule = "SCHEDULED" /\ release <= today /\ chapter = "BOARD_APPROVED"

-----------------------------------------------------------------------------
(* What the pages offer. *)

\* assistant/Tasks.tsx: the group of tasks that have buttons.
UnfinishedTasks(a) == {t \in MyTasks(a) : task[t] \notin {"SUBMITTED", "APPROVED"}}

\* SubmitDialog.tsx
SubmitDialog(t) == {<<"submit", t>>}

\* assistant/Tasks.tsx: the buttons of a task.
TaskButtons(t) ==
    IF task[t] = "ASSIGNED"
    THEN {<<"start", t>>}
    ELSE SubmitDialog(t) \cup {<<"draw", t>>}

TasksPage == UNION {UNION {TaskButtons(t) : t \in UnfinishedTasks(a)} : a \in Assistants}

\* mangaka/ReviewQueue.tsx: the buttons of a submission, and the page.
ReviewButtons(s) == {<<"review", s[1], s[2], d>> : d \in Decisions}
ReviewQueuePage == UNION {ReviewButtons(s) : s \in SubmissionQueue}

\* mangaka/SeriesDetail.tsx: the steps that the mangaka may drive, and the button
\* of a chapter.
NEXT == {<<"DRAFT", "IN_PROGRESS">>, <<"IN_PROGRESS", "READY_FOR_EDITOR_REVIEW">>}
SeriesDetailPage == {<<"status", move[2]>> : move \in {m \in NEXT : m[1] = chapter}}

\* mangaka/ChapterWorkspace.tsx
isChapterLocked ==
    chapter \in {"READY_FOR_EDITOR_REVIEW", "EDITOR_APPROVED", "BOARD_APPROVED", "PUBLISHED"}

\* TaskAssignDialog.tsx: the form, and the button that takes the region back.
AssignForm(g) == {<<"assign", g, a>> : a \in Assistants} \cup {<<"unregion", g>>}

\* TaskAssignDialog.tsx: a region that has a task is only shown.
AssignDialog(g) == IF HasTask(g) THEN {} ELSE AssignForm(g)

\* PageCanvas.tsx, not readOnly: a new region is drawn, a click opens the dialog.
PageCanvas(p) == {<<"region", p>>} \cup UNION {AssignDialog(g) : g \in RegionsOn(p)}

\* mangaka/ChapterWorkspace.tsx: upload, Studio and canvas.
WorkspacePage ==
    IF isChapterLocked
    THEN {}
    ELSE {<<"upload">>} \cup {<<"retouch", p>> : p \in ListedPages}
             \cup UNION {PageCanvas(p) : p \in ListedPages}

\* editor/ReviewQueue.tsx
EditorQueuePage ==
    IF EditorQueued THEN {<<"editor", "EDITOR_APPROVED">>, <<"editor", "IN_PROGRESS">>} ELSE {}

\* board/ChapterApproval.tsx
ChapterApprovalPage ==
    IF BoardQueued THEN {<<"board", "BOARD_APPROVED">>, <<"board", "IN_PROGRESS">>} ELSE {}

\* board/PublicationSchedule.tsx: the form takes a day from today on.
ScheduleForm == {<<"create", d>> : d \in {d \in Days : eligibleChapters /\ d >= today}}

\* board/PublicationSchedule.tsx: the buttons of an entry.
ScheduleButtons ==
    (IF canPublish THEN {<<"publish">>} ELSE {}) \cup (IF canCancel THEN {<<"cancel">>} ELSE {})

Offers ==
    TasksPage \cup ReviewQueuePage \cup SeriesDetailPage \cup WorkspacePage
        \cup EditorQueuePage \cup ChapterApprovalPage \cup ScheduleForm \cup ScheduleButtons

-----------------------------------------------------------------------------
(* The two pages that keep a copy of the chapter. *)

NoPages == <<>>

Copies == {NoPages} \cup UNION {[ps -> 0 .. MaxVersions] : ps \in SUBSET Pages}

Away == [at |-> "away", shown |-> NoPages]
Closed == [listed |-> FALSE, asked |-> NoPages, shown |-> NoPages, form |-> NoStatus]

TabsTypeOK ==
    /\ editorTab \in [at : {"away", "queue", "chapter"}, shown : Copies]
    /\ boardTab \in [listed : BOOLEAN, asked : Copies, shown : Copies,
                     form : {NoStatus, "BOARD_APPROVED", "IN_PROGRESS"}]

\* submitting / processingId: a decision of the tab is under way.
InFlight(steps) == \E r \in Reqs : req[r].pc \in steps
editorSubmitting == InFlight({"editor_readiness", "editor_write"})
boardProcessing == InFlight({"board_write"})

\* editor/ReviewQueue.tsx, loadChapters: the queue has the chapter.
EditorOpensQueue ==
    /\ editorTab' = IF EditorQueued THEN [at |-> "queue", shown |-> NoPages] ELSE Away
    /\ UNCHANGED boardTab

\* editor/ReviewQueue.tsx, "Xem & duyệt"; editor/ChapterReview.tsx, loadPages.
EditorOpensChapter ==
    /\ editorTab.at \in {"queue", "chapter"}
    /\ editorTab' = [at |-> "chapter", shown |-> EditorPages]
    /\ UNCHANGED boardTab

\* The decision bar of ChapterReview.tsx is there when there are pages; the queue
\* has its own buttons.
EditorDecides(r, target) ==
    /\ \/ editorTab.at = "queue"
       \/ editorTab.at = "chapter" /\ DOMAIN editorTab.shown # {}
    /\ ~editorSubmitting
    /\ EditorReviewRead(r, target)

\* After a decision both pages go back to the queue, without the chapter.
EditorAnswered == Away

\* board/ChapterApproval.tsx is opened.
BoardOpensPage ==
    /\ boardTab' = [Closed EXCEPT !.listed = BoardQueued]
    /\ UNCHANGED editorTab

\* loadChapters, by "Tải lại": copies and form stay.
BoardReloads ==
    /\ ~boardProcessing
    /\ boardTab' = [boardTab EXCEPT !.listed = BoardQueued]
    /\ UNCHANGED editorTab

\* loadDetail: no request while there is a copy, or while one is asked for.
loadDetail(tab) ==
    IF tab.shown # NoPages \/ tab.asked # NoPages THEN tab ELSE [tab EXCEPT !.asked = BoardPages]

\* loadDetail: the answer, or an error.
DetailAnswered ==
    /\ boardTab.asked # NoPages
    /\ \/ boardTab' = [boardTab EXCEPT !.asked = NoPages, !.shown = boardTab.asked]
       \/ boardTab' = [boardTab EXCEPT !.asked = NoPages]
    /\ UNCHANGED editorTab

\* toggleDetail
toggleDetail ==
    /\ boardTab.listed
    /\ ~boardProcessing
    /\ boardTab' = loadDetail(boardTab)
    /\ UNCHANGED editorTab

\* openReview
openReview(decision) ==
    /\ boardTab.listed
    /\ ~boardProcessing
    /\ boardTab' = loadDetail([boardTab EXCEPT !.form = decision])
    /\ UNCHANGED editorTab

\* closeReview
closeReview ==
    /\ ~boardProcessing
    /\ boardTab' = [boardTab EXCEPT !.form = NoStatus]
    /\ UNCHANGED editorTab

\* reviewChapter: the form is confirmed.
reviewChapter(r) ==
    /\ boardTab.listed
    /\ boardTab.form # NoStatus
    /\ ~boardProcessing
    /\ InOrder => boardTab.asked = NoPages
    /\ BoardReviewRead(r, boardTab.form)

\* Mutant of BoardAnswered: the copy stays.
BoardKeepsCopy == [boardTab EXCEPT !.listed = FALSE, !.form = NoStatus]

\* reviewChapter: the answer.  Chapter, copy and form go; an answer of loadDetail
\* that is still to come is not cancelled.
BoardAnswered == [boardTab EXCEPT !.listed = FALSE, !.shown = NoPages, !.form = NoStatus]

-----------------------------------------------------------------------------
\* The request in slot r wrote what the tab asked for.
Decided(r, step) == At(r, step) /\ chapter' = req[r].status

ScreensInit == PublicationInit /\ editorTab = Away /\ boardTab = Closed

TabStep ==
    \/ EditorOpensQueue \/ EditorOpensChapter
    \/ BoardOpensPage \/ BoardReloads \/ DetailAnswered \/ toggleDetail \/ closeReview
    \/ \E d \in {"BOARD_APPROVED", "IN_PROGRESS"} : openReview(d)

TabDecides(r) == (\E target \in ChapterStatus : EditorDecides(r, target)) \/ reviewChapter(r)

\* Every other user calls the handlers from any page, of any age (Ops without
\* "editor" and "board").
ServerStep(r) ==
    /\ Call(r) \/ Progress(r) \/ Fail(r)
    /\ editorTab' = IF Decided(r, "editor_write") THEN EditorAnswered ELSE editorTab
    /\ boardTab' = IF Decided(r, "board_write") THEN BoardAnswered ELSE boardTab

ScreensNext ==
    \/ \E r \in Reqs : ServerStep(r) /\ UNCHANGED <<publicationRows, today, seriesStatus, pub>>
    \/ \E r \in Reqs : TabDecides(r) /\ UNCHANGED <<publicationRows, today, seriesStatus, pub, tabs>>
    \/ TabStep /\ UNCHANGED publicationVars
    \/ (\E s \in Boards : ScheduleSteps(s)) /\ UNCHANGED <<today, seriesStatus, tabs>>
    \/ (NextDay \/ SeriesStatusChanges) /\ UNCHANGED tabs

ScreensSpec == ScreensInit /\ [][ScreensNext]_screensVars

-----------------------------------------------------------------------------
(* What the pages may be trusted with. *)

\* Whether the handler gets past the tests it makes of the status of its rows.  What it
\* tests besides (the Studio save of a submission, the readiness of a chapter) it answers
\* with a message of its own.
Accepts(o) ==
    CASE o[1] = "start" -> mayStart(o[2])
      [] o[1] = "submit" -> maySubmit(o[2])
      [] o[1] = "draw" -> maySave(assignee[o[2]], PageOf(o[2]))
      [] o[1] = "review" -> mayReview(o[2], o[3], o[4])
      [] o[1] = "status" -> maySetStatus(o[2])
      [] o[1] = "upload" -> EditableForPages
      [] o[1] = "retouch" -> maySave(Mangaka, o[2])
      [] o[1] = "region" -> mayDivide(o[2])
      [] o[1] = "unregion" -> mayDelete(o[2])
      [] o[1] = "assign" -> mayAssign(o[2]) /\ ~HasTask(o[2])
      [] o[1] = "editor" -> editorMayMove(o[2])
      [] o[1] = "board" -> boardMayMove(o[2])
      [] o[1] = "create" -> mayCreate(o[2]) /\ schedule \in {Absent, "CANCELLED"}
      [] o[1] = "cancel" -> mayCancel
      [] o[1] = "publish" -> mayPublish

\* The requests that move a chapter on.  (An editor may also send back a chapter that
\* waits for the board; no page offers it.)
ChapterRequests ==
    {<<"submit", t>> : t \in TaskIds}
        \cup {<<"assign", g, a>> : g \in Regions, a \in Assistants}
        \cup {<<"unregion", g>> : g \in Regions}
        \cup {<<"region", p>> : p \in ListedPages}
        \cup {<<"upload">>}
        \cup {<<op, s>> : op \in {"status", "board"}, s \in ChapterStatus}
        \cup {<<"editor", "EDITOR_APPROVED">>}
        \cup {<<"create", d>> : d \in Days} \cup {<<"cancel">>, <<"publish">>}

\* A submission whose request has not moved its task: it is about to, or has died before
\* it could.  The latter stays in the queue and can never be reviewed.
LeftBehind(o) == o[1] = "review" /\ task[o[2]] # "SUBMITTED"

\* At any moment a freshly loaded page offers what the handlers accept: no button is
\* refused for the status of its row, and whatever can be done about a chapter is offered
\* on some page, so that nobody waits for a step that nobody can take.  (The canvas shows
\* the regions of pages that have their current version, the list of tasks those that have
\* an assistant; the handlers ask for neither.)
PagesOfferWhatIsAccepted ==
    /\ \A o \in Offers : Accepts(o) \/ LeftBehind(o)
    /\ \A o \in ChapterRequests : Accepts(o) => o \in Offers

\* A chapter is approved as it is shown: when the decision of the editor or of the
\* board is written, the pages that their tab shows are the current ones (one tab
\* each, its answers in order: ChapterApproval.tsx keeps its copy until a decision).
ApprovedAsShown ==
    [][\A r \in Reqs :
          /\ (Decided(r, "editor_write") /\ editorTab.at = "chapter" /\ chapter' = "EDITOR_APPROVED")
                => editorTab.shown = EditorPages
          /\ (Decided(r, "board_write") /\ boardTab.shown # NoPages /\ chapter' = "BOARD_APPROVED")
                => boardTab.shown = BoardPages]_screensVars
=============================================================================
