---------------------------- MODULE StudioService ----------------------------
(***************************************************************************)
(* Saving a page in the drawing Studio (studio/studio.service.ts): the     *)
(* flattened image as a new page version, and the layered document.        *)
(***************************************************************************)
EXTENDS ProductionDb

\* Mutant of EditableForStudio: a status is missing from the list.
EditableForStudioInReview == chapter \notin {"EDITOR_APPROVED", "PUBLISHED"}

\* Unlike the page, region and task services, this one leaves a chapter that the
\* board has approved editable.
EditableForStudio ==
    chapter \notin {"READY_FOR_EDITOR_REVIEW", "EDITOR_APPROVED", "PUBLISHED"}

\* assertCanWritePage: the mangaka while the chapter is editable; an assistant while one
\* of the tasks on the page is not handed in, whatever the status of the chapter.
CanWritePage(u, p) ==
    \/ u = Mangaka /\ EditableForStudio
    \/ \E t \in TasksOn(p) :
         assignee[t] = u /\ task[t] \in {"ASSIGNED", "IN_PROGRESS", "REVISION_REQUIRED"}

maySave(u, p) == p \in ExistingPages /\ CanWritePage(u, p)

\* savePageVersion: assertCanWritePage.
SaveRead(r, u, p) ==
    /\ maySave(u, p)
    /\ Enter(r, [Idle EXCEPT !.pc = "save_current", !.page = p, !.user = u])
    /\ UNCHANGED tables

\* Mutant of SaveReadCurrent: numbers by MAX(version_number) + 1.
SaveReadMax(r) ==
    LET next == NextVersion(VersionsOf(req[r].page)) IN
    /\ At(r, "save_current")
    /\ IF next > MaxVersions
       THEN Finish(r)
       ELSE req' = [req EXCEPT ![r].pc = "save_insert", ![r].num = next]
    /\ UNCHANGED tables

\* savePageVersion: SELECT current_version.  Bound: past MaxVersions the
\* request is dropped.
SaveReadCurrent(r) ==
    LET next == currentVersion[req[r].page] + 1 IN
    /\ At(r, "save_current")
    /\ IF next > MaxVersions
       THEN Finish(r)
       ELSE req' = [req EXCEPT ![r].pc = "save_insert", ![r].num = next]
    /\ UNCHANGED tables

\* Mutants of SaveInsert: the row replaces one with the same number; the insert is
\* tried again until it goes in.
SaveReplace(r) ==
    /\ At(r, "save_insert")
    /\ uploader' = [uploader EXCEPT ![req[r].page][req[r].num] = req[r].user]
    /\ Goto(r, "save_update")
    /\ UNCHANGED <<chapter, page, currentVersion, document, regionRows, taskRows, submissionRows>>
SaveInsertRetry(r) ==
    /\ At(r, "save_insert")
    /\ IF req[r].num \in VersionsOf(req[r].page) THEN UNCHANGED vars ELSE SaveReplace(r)

\* savePageVersion: INSERT INTO Page_Version; UNIQUE (page_id, version_number).
SaveInsert(r) ==
    LET p == req[r].page IN
    /\ At(r, "save_insert")
    /\ IF req[r].num \in VersionsOf(p)
       THEN Finish(r) /\ UNCHANGED tables
       ELSE /\ uploader' = [uploader EXCEPT ![p][req[r].num] = req[r].user]
            /\ Goto(r, "save_update")
            /\ UNCHANGED <<chapter, page, currentVersion, document, regionRows, taskRows,
                           submissionRows>>

\* savePageVersion: UPDATE Page SET current_version = ?, page_status = 'IN_PROGRESS'
SaveUpdate(r) ==
    LET p == req[r].page IN
    /\ At(r, "save_update")
    /\ currentVersion' = [currentVersion EXCEPT ![p] = req[r].num]
    /\ page' = [page EXCEPT ![p] = "IN_PROGRESS"]
    /\ Finish(r)
    /\ UNCHANGED <<chapter, uploader, document, regionRows, taskRows, submissionRows>>

\* saveDoc: assertCanWritePage.
DocRead(r, u, p) ==
    /\ maySave(u, p)
    /\ Enter(r, [Idle EXCEPT !.pc = "doc_write", !.page = p, !.user = u])
    /\ UNCHANGED tables

\* saveDoc: INSERT ... ON DUPLICATE KEY UPDATE
DocWrite(r) ==
    /\ At(r, "doc_write")
    /\ document' = [document EXCEPT ![req[r].page] = req[r].user]
    /\ Finish(r)
    /\ UNCHANGED <<chapter, page, currentVersion, uploader, regionRows, taskRows,
                   submissionRows>>

StudioSteps(r) == SaveReadCurrent(r) \/ SaveInsert(r) \/ SaveUpdate(r) \/ DocWrite(r)
=============================================================================
