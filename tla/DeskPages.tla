------------------------------ MODULE DeskPages ------------------------------
(***************************************************************************)
(* The browser pages of the desks of Offices (apps/frontend/src/pages).    *)
(*                                                                         *)
(* A page loads rows and offers requests about them; an offer is a tuple,  *)
(* the operation and its arguments.  As in Screens the offers are those of *)
(* a page that has just been loaded.  What a form asks for besides (a      *)
(* title, a reason, a file) is taken to be filled in.                      *)
(***************************************************************************)
EXTENDS Offices

-----------------------------------------------------------------------------
(* What the pages load. *)

\* proposals/mine
MyProposals(u) == {p \in Proposed : proposal[p].by = u}

\* Mutant of ProposalQueue: a proposal leaves the queue when its review starts.
ProposalQueueNew == {p \in Proposed : proposal[p].status = "SUBMITTED"}

\* proposals/review-queue
ProposalQueue == {p \in Proposed : proposal[p].status \in {"SUBMITTED", "UNDER_REVIEW"}}

\* series/mine, and series/:id
MySeries(u) == {p \in Published : proposal[p].by = u}

\* series/all: a series, with its editor or Nobody.
SeriesRows ==
    editing \cup {<<p, Nobody>> : p \in {q \in Published : \A u \in Users : <<q, u>> \notin editing}}

Mangakas == {u \in Users : Allowed(u, "MANGAKA")}

\* users/editors
Editors == {u \in Users : Allowed(u, "TANTOU_EDITOR")}

\* dashboard/editor-series
ManagedSeries(u) == {p \in Published : <<p, u>> \in editing}

\* series/:id/dossier for the board.
assertBoardCanReadDossier(p) == series[p] = "HIATUS"

\* admin/users
Accounts == {u \in Users : role[u] # Nobody}

\* reader-vote-imports/history: the imports that are not deleted.
ImportHistory == {i \in Made : Live(i)}

\* reader-vote-imports/delete-requests/pending
PendingDeletions == {i \in Made : Live(i) /\ asked[i].status = "PENDING"}

-----------------------------------------------------------------------------
(* What the pages offer. *)

\* mangaka/Proposals.tsx: the form, and the buttons of a proposal.
ProposalForm(u) == {<<"propose", u, file>> : file \in BOOLEAN}
SubmitButton(u, p) == IF proposal[p].sample THEN {<<"submit", u, p>>} ELSE {}
ProposalButtons(u, p) ==
    IF proposal[p].status = "DRAFT" THEN {<<"sample", u, p>>} \cup SubmitButton(u, p) ELSE {}

\* mangaka/SeriesList.tsx leads to mangaka/SeriesDetail.tsx: the form for a chapter.
ChapterForm(u, p) == {<<"chapter", u, p>>}

\* The routes of a mangaka.
MangakaPages(u) ==
    ProposalForm(u)
        \cup (UNION {ProposalButtons(u, p) : p \in MyProposals(u)})
        \cup (UNION {ChapterForm(u, p) : p \in MySeries(u)})

\* board/Proposals.tsx: startReview, handleDecision, and the buttons of a proposal.
StartButton(p) == {<<"start", p>>}
DecisionButtons(p) == {<<"decide", p, d>> : d \in {"APPROVED", "REJECTED"}}
ReviewButtons(p) == IF proposal[p].status = "SUBMITTED" THEN StartButton(p) ELSE DecisionButtons(p)

\* board/Series.tsx: the select shows the editor when he is among its options, and
\* offers the other ones.
EditorSelect(entry) ==
    LET shown == IF entry[2] \in Editors THEN entry[2] ELSE Nobody
    IN {<<"editor", entry[1], u>> : u \in Editors \ {shown}}
           \cup (IF shown = Nobody THEN {} ELSE {<<"no editor", entry[1]>>})

\* editor/SeriesDossier.tsx: the form of the editor, and that of the board.
ReportForm(u, p) ==
    IF assertActiveEditorForSeries(p, u) THEN {<<"report", p, u>>} ELSE {}
DecisionForm(p) == IF assertBoardCanReadDossier(p) THEN {<<"decision", p>>} ELSE {}

\* board/ReaderVoteImport.tsx: the form, for a week of which there is no import.
activeImportForSelectedPeriod(start) == {i \in ImportHistory : import[i].start = start}
ImportForm == {<<"import", w>> : w \in {start \in Weeks : activeImportForSelectedPeriod(start) = {}}}

\* board/ReaderVoteImport.tsx: the button of a pending deletion.
DeletionButton(m, i) == IF canCurrentUserApprove(m, i) THEN {<<"approve", m, i>>} ELSE {}
DeletionButtons(m) == UNION {DeletionButton(m, i) : i \in PendingDeletions}

\* The routes of the board.
BoardPages ==
    ImportForm
        \cup (UNION {ReviewButtons(p) : p \in ProposalQueue})
        \cup (UNION {EditorSelect(entry) : entry \in SeriesRows})
        \cup (UNION {DecisionForm(p) : p \in Published})
        \cup (UNION {DeletionButtons(m) : m \in active})

\* editor/ManagedSeries.tsx: the dossiers it links to.
DossierLinks(u) == {p \in ManagedSeries(u) : series[p] = "HIATUS"}

\* The routes of an editor.
EditorPages(u) == UNION {ReportForm(u, p) : p \in DossierLinks(u)}

\* assistant/Earnings.tsx: the button of an approved task without a dispute.
DisputeButton(t) == {<<"file", t>>}

\* The routes of an assistant.
AssistantPages == UNION {DisputeButton(t) : t \in Undisputed}

\* admin/Console.tsx: the form for an account, and the row of one.
UserForm == {<<"user", u, r>> : u \in Users \ Accounts, r \in creatableRoles}
UserRow(u) ==
    IF role[u] = "ADMIN"
    THEN {}
    ELSE {<<"role", u, r>> : r \in creatableRoles \ {role[u]}} \cup {<<"lock", u>>}

\* admin/Disputes.tsx: the buttons of a dispute.
DisputeButtons(i) ==
    (IF dispute[i].status = "OPEN" THEN {<<"review", i>>} ELSE {})
        \cup (IF dispute[i].status \in {"OPEN", "UNDER_REVIEW"}
              THEN {<<"settle", i, to>> : to \in {"RESOLVED", "REJECTED"}}
              ELSE {})

\* The routes of the admin.
AdminPages ==
    UserForm
        \cup (UNION {UserRow(u) : u \in Accounts})
        \cup (UNION {DisputeButtons(i) : i \in Filed})

DeskOffers ==
    CASE desk = "series" ->
            BoardPages \cup AdminPages
                \cup (UNION {MangakaPages(u) : u \in Mangakas})
                \cup (UNION {EditorPages(u) : u \in Editors})
      [] desk = "reader votes" -> BoardPages
      [] desk = "disputes" -> AssistantPages \cup AdminPages
      [] OTHER -> {}

-----------------------------------------------------------------------------
\* Whether the handler does what it is asked for.
DeskAccepts(o) ==
    CASE o[1] = "propose" -> Allowed(o[2], "MANGAKA")
      [] o[1] = "sample" -> Allowed(o[2], "MANGAKA") /\ takesSample(o[2], o[3])
      [] o[1] = "submit" -> maySubmit(o[2], o[3])
      [] o[1] = "chapter" -> mayAddChapter(o[2], o[3])
      [] o[1] = "start" -> mayStart(o[2])
      [] o[1] = "decide" -> mayDecide(o[2], o[3])
      [] o[1] = "editor" -> Allowed(o[3], "TANTOU_EDITOR")
      [] o[1] = "no editor" -> o[2] \in Published
      [] o[1] = "report" -> Allowed(o[3], "TANTOU_EDITOR") /\ assertActiveEditorForSeries(o[2], o[3])
      [] o[1] = "decision" -> o[2] \in Published
      [] o[1] = "import" -> Conflicts(o[2]) = {}
      [] o[1] = "approve" -> o[2] \in active /\ Live(o[3]) /\ mayApprove(o[2], o[3])
      [] o[1] = "file" -> o[2] \in earned
      [] o[1] = "user" -> mayCreateUser(o[2], o[3])
      [] o[1] = "role" -> mayChangeRole(o[2], o[3])
      [] o[1] = "lock" -> mayLock(o[2])
      [] o[1] = "review" -> mayBecome(o[2], "UNDER_REVIEW")
      [] o[1] = "settle" -> mayBecome(o[2], o[3])

\* The requests that somebody has to be able to make.  (The handlers also accept an
\* editor who has the series already, a second dispute about a task, and an approval given
\* twice; and a locked editor can only be replaced, as the select does not show him.)
SeriesRequests ==
    {<<"propose", u, file>> : u \in Users, file \in BOOLEAN}
        \cup {<<op, u, p>> : op \in {"sample", "submit"}, u \in Users, p \in Proposed}
        \cup {<<"chapter", u, p>> : u \in Users, p \in Published}
        \cup {<<"start", p>> : p \in Proposed}
        \cup {<<"decide", p, d>> : p \in Proposed, d \in {"APPROVED", "REJECTED"}}
        \cup {<<"editor", p, u>> : p \in Published, u \in {v \in Users : \A q \in Published : <<q, v>> \notin editing}}
        \cup {<<"report", p, u>> : p \in Published, u \in Users}
        \cup {<<op, u, r>> : op \in {"user", "role"}, u \in Users, r \in Role}
        \cup {<<"lock", u>> : u \in Users}
ReaderRequests ==
    {<<"import", start>> : start \in Weeks}
        \cup {<<"approve", m, i>> : m \in active, i \in {j \in Made : approval[j] = {}}}
DisputeRequests ==
    {<<"review", i>> : i \in Filed}
        \cup {<<"settle", i, to>> : i \in Filed, to \in {"RESOLVED", "REJECTED"}}

DeskRequests ==
    CASE desk = "series" -> SeriesRequests
      [] desk = "reader votes" -> ReaderRequests
      [] desk = "disputes" -> DisputeRequests
      [] OTHER -> {}

\* What a handler may refuse for a reason that no page can see: the week overlaps an
\* import, the account has a history in its role.
MayBeRefused(o) == o[1] = "import" \/ (o[1] = "role" /\ ~assertRoleTransitionAllowed(o[2]))

\* At any moment a freshly loaded page offers what the handlers accept: no button of a
\* proposal, a series, a deletion, a dispute or an account is refused for the state of
\* its row, and whatever moves them on is offered to somebody.  A select of the board that
\* was disabled for a request is enabled again when all requests have returned.
DesksOfferWhatIsAccepted ==
    LET offers == DeskOffers IN
    /\ \A o \in offers : MayBeRefused(o) \/ DeskAccepts(o)
    /\ \A o \in DeskRequests \ offers : ~DeskAccepts(o)
    /\ Quiet => \A k \in office.clerks, p \in Proposals : SelectEnabled(k, p)
=============================================================================
