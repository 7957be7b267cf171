----------------------------- MODULE PageService -----------------------------
(***************************************************************************)
(* Uploading a page (pages/pages.service.ts) and dividing it into regions  *)
(* (regions/regions.service.ts).                                           *)
(***************************************************************************)
EXTENDS ProductionDb

\* Mutant of EditableForPages: a status is missing from the list.
EditableForPagesInReview ==
    chapter \notin {"EDITOR_APPROVED", "BOARD_APPROVED", "PUBLISHED"}

\* The same test stands in both services.
EditableForPages ==
    chapter \notin {"READY_FOR_EDITOR_REVIEW", "EDITOR_APPROVED", "BOARD_APPROVED", "PUBLISHED"}

\* pages.create: the chapter is the mangaka's and editable.
PageCreateRead(r) ==
    /\ EditableForPages
    /\ Enter(r, [Idle EXCEPT !.pc = "page_number"])
    /\ UNCHANGED tables

\* pages.create: SELECT MAX(page_number) + 1.  Bound: past MaxPages the request
\* is dropped.
PageReadNumber(r) ==
    LET next == NextVersion(ExistingPages) IN
    /\ At(r, "page_number")
    /\ IF next \notin Pages
       THEN Finish(r)
       ELSE req' = [req EXCEPT ![r].pc = "page_insert", ![r].page = next]
    /\ UNCHANGED tables

\* pages.create: INSERT INTO Page; UNIQUE (chapter_id, page_number).
PageInsert(r) ==
    LET p == req[r].page IN
    /\ At(r, "page_insert")
    /\ IF p \in ExistingPages
       THEN Finish(r) /\ UNCHANGED tables
       ELSE /\ page' = [page EXCEPT ![p] = "RAW"]
            /\ currentVersion' = [currentVersion EXCEPT ![p] = 1]
            /\ Goto(r, "page_version")
            /\ UNCHANGED <<chapter, uploader, document, regionRows, taskRows, submissionRows>>

\* pages.create: INSERT INTO Page_Version, version 1.
PageInsertVersion(r) ==
    /\ At(r, "page_version")
    /\ uploader' = [uploader EXCEPT ![req[r].page][1] = Mangaka]
    /\ Finish(r)
    /\ UNCHANGED <<chapter, page, currentVersion, document, regionRows, taskRows,
                   submissionRows>>

-----------------------------------------------------------------------------
\* regions.create: the page is the mangaka's, its chapter editable.
mayDivide(p) == p \in ExistingPages /\ EditableForPages

RegionCreateRead(r, p) ==
    /\ mayDivide(p)
    /\ Enter(r, [Idle EXCEPT !.pc = "region_version", !.page = p])
    /\ UNCHANGED tables

\* regions.create: the page's current version must exist.
RegionCheckVersion(r) ==
    /\ At(r, "region_version")
    /\ IF HasCurrentVersion(req[r].page) THEN Goto(r, "region_insert") ELSE Finish(r)
    /\ UNCHANGED tables

\* regions.create: INSERT INTO Region.  Bound: the request is dropped when no
\* id of Regions is left.
RegionInsert(r) ==
    /\ At(r, "region_insert")
    /\ \/ \E g \in Regions :
            /\ region[g] = Absent
            /\ region' = [region EXCEPT ![g] = "LIVE"]
            /\ regionPage' = [regionPage EXCEPT ![g] = req[r].page]
            /\ UNCHANGED <<chapter, pageRows, taskRows, submissionRows>>
       \/ (\A g \in Regions : region[g] # Absent) /\ UNCHANGED tables
    /\ Finish(r)

HasTask(g) == \E t \in TaskIds : taskRegion[t] = g

\* regions.delete: the region has no task, its chapter is editable.
mayDelete(g) == region[g] = "LIVE" /\ EditableForPages /\ ~HasTask(g)

RegionDeleteRead(r, g) ==
    /\ mayDelete(g)
    /\ Enter(r, [Idle EXCEPT !.pc = "region_delete", !.region = g])
    /\ UNCHANGED tables

\* Mutant of RegionDelete: no foreign key.
RegionDeleteUnchecked(r) ==
    /\ At(r, "region_delete")
    /\ region' = [region EXCEPT ![req[r].region] = "DELETED"]
    /\ Finish(r)
    /\ UNCHANGED <<chapter, pageRows, regionPage, taskRows, submissionRows>>

\* regions.delete: DELETE FROM Region.  The foreign key of Task refuses it if a
\* task has been assigned meanwhile; an already deleted row is no error.
RegionDelete(r) ==
    LET g == req[r].region IN
    /\ At(r, "region_delete")
    /\ region' = IF HasTask(g) THEN region ELSE [region EXCEPT ![g] = "DELETED"]
    /\ Finish(r)
    /\ UNCHANGED <<chapter, pageRows, regionPage, taskRows, submissionRows>>

PageSteps(r) ==
    \/ PageReadNumber(r) \/ PageInsert(r) \/ PageInsertVersion(r)
    \/ RegionCheckVersion(r) \/ RegionInsert(r) \/ RegionDelete(r)
=============================================================================
