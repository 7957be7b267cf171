---------------------------- MODULE ChapterService ----------------------------
(***************************************************************************)
(* Moving a chapter towards publication: the mangaka's status changes, the *)
(* assigned editor's review and the board's review                         *)
(* (chapters/chapters.service.ts).                                         *)
(***************************************************************************)
EXTENDS ProductionDb

\* A page counts as incomplete until it is COMPLETED with a current version.
IncompletePages == {p \in ExistingPages : page[p] # "COMPLETED" \/ ~HasCurrentVersion(p)}
NonApprovedTasks == {t \in TaskIds : task[t] # "APPROVED"}

\* getChapterReadiness, one SELECT, and the tests its callers make of it.
Ready == ExistingPages # {} /\ IncompletePages = {} /\ NonApprovedTasks = {}

WriteChapter(r) ==
    /\ chapter' = req[r].status
    /\ Finish(r)
    /\ UNCHANGED work

\* Mutant of maySetStatus: a step back is possible from everywhere.
maySetStatusBack(target) ==
    canTransition(MANGAKA_CHAPTER_TRANSITIONS, chapter, target) \/ target = "IN_PROGRESS"

\* setStatus, by the mangaka: the move is one the mangaka may drive.
maySetStatus(target) == canTransition(MANGAKA_CHAPTER_TRANSITIONS, chapter, target)

SetStatusRead(r, target) ==
    /\ maySetStatus(target)
    /\ Enter(r, [Idle EXCEPT !.status = target,
                   !.pc = IF target = "READY_FOR_EDITOR_REVIEW"
                          THEN "status_readiness" ELSE "status_write"])
    /\ UNCHANGED tables

\* setStatus: a chapter is sent to its editor only when it is ready.
SetStatusCheckReadiness(r) ==
    /\ At(r, "status_readiness")
    /\ IF Ready THEN Goto(r, "status_write") ELSE Finish(r)
    /\ UNCHANGED tables

\* setStatus: UPDATE Chapter SET chapter_status = ? WHERE chapter_id = ?
SetStatusWrite(r) == At(r, "status_write") /\ WriteChapter(r)

\* editorReview, by an active editor of the series: EDITOR_APPROVED to approve,
\* IN_PROGRESS to send back.
editorMayMove(target) ==
    /\ target \in {"EDITOR_APPROVED", "IN_PROGRESS"}
    /\ canTransition(CHAPTER_TRANSITIONS, chapter, target)

EditorReviewRead(r, target) ==
    /\ editorMayMove(target)
    /\ Enter(r, [Idle EXCEPT !.status = target,
                   !.pc = IF target = "EDITOR_APPROVED"
                          THEN "editor_readiness" ELSE "editor_write"])
    /\ UNCHANGED tables

\* editorReview: readiness is tested again before an approval.
EditorCheckReadiness(r) ==
    /\ At(r, "editor_readiness")
    /\ IF Ready THEN Goto(r, "editor_write") ELSE Finish(r)
    /\ UNCHANGED tables

\* editorReview: UPDATE Chapter SET chapter_status = ? WHERE chapter_id = ?
EditorReviewWrite(r) == At(r, "editor_write") /\ WriteChapter(r)

\* boardReview: only of a chapter its editor has approved.
boardMayMove(target) ==
    /\ target \in {"BOARD_APPROVED", "IN_PROGRESS"}
    /\ chapter = "EDITOR_APPROVED"

BoardReviewRead(r, target) ==
    /\ boardMayMove(target)
    /\ Enter(r, [Idle EXCEPT !.status = target, !.pc = "board_write"])
    /\ UNCHANGED tables

\* boardReview: UPDATE Chapter SET chapter_status = ? WHERE chapter_id = ?
BoardReviewWrite(r) == At(r, "board_write") /\ WriteChapter(r)

ChapterSteps(r) ==
    \/ SetStatusCheckReadiness(r) \/ SetStatusWrite(r)
    \/ EditorCheckReadiness(r) \/ EditorReviewWrite(r) \/ BoardReviewWrite(r)
=============================================================================
