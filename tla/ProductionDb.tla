---------------------------- MODULE ProductionDb ----------------------------
(***************************************************************************)
(* The tables that the production of one chapter works on, and the HTTP    *)
(* requests in flight against them.                                        *)
(*                                                                         *)
(* A request is an async handler: between two of its awaited SQL           *)
(* statements other requests run.  A slot r \in Reqs holds one request at  *)
(* a time: pc names the statement it runs next, the other fields are the   *)
(* locals it has captured.  One action is one statement, except that reads *)
(* of rows no modelled request writes are left out.                        *)
(*                                                                         *)
(* A statement outside db.transaction() commits by itself                  *)
(* (DbService.query, DbService.insert); a transaction is two actions: one  *)
(* that takes its row locks and its snapshot, one that commits.            *)
(***************************************************************************)
EXTENDS Naturals, FiniteSetsExt, Transitions

CONSTANTS
    Reqs,              \* slots for requests in flight
    Regions,           \* region ids
    Assistants,        \* users with role ASSISTANT, all activated
    Mangaka,           \* the user who owns the series
    None,              \* no user, no region
    MaxPages,          \* bound: pages of the chapter
    MaxTasks,          \* bound: tasks ever assigned
    MaxVersions,       \* bound: versions of a page
    MaxSubmissions     \* bound: submissions of a task

ASSUME BoundsAssumption ==
    /\ MaxPages \in Nat \ {0}
    /\ MaxTasks \in Nat \ {0}
    /\ MaxVersions \in Nat \ {0}
    /\ MaxSubmissions \in Nat \ {0}

ASSUME NamesAssumption ==
    /\ Mangaka \notin Assistants
    /\ None \notin Assistants \cup {Mangaka} \cup Regions

Users == Assistants \cup {Mangaka}
Pages == 1 .. MaxPages                  \* a page is named by its page_number
Tasks == 1 .. MaxTasks                  \* AUTO_INCREMENT ids
Versions == 1 .. MaxVersions
SubmissionVersions == 1 .. MaxSubmissions

VARIABLES
    chapter,           \* Chapter.chapter_status
    page,              \* [Pages -> Page.page_status or Absent]
    currentVersion,    \* [Pages -> Page.current_version]
    uploader,          \* [Pages -> [Versions -> Page_Version.uploaded_by_user_id or None]]
    document,          \* [Pages -> Studio_Document.updated_by_user_id or None]
    region,            \* [Regions -> "LIVE", "DELETED" or Absent]
    regionPage,        \* [Regions -> Region.page_id; 0 before the insert]
    task,              \* [Tasks -> Task.task_status or Absent]
    taskRegion,        \* [Tasks -> Task.region_id or None]
    assignee,          \* [Tasks -> Task.assignee_user_id or None]
    submission,        \* [Tasks -> [SubmissionVersions -> submission_status or Absent]]
    accruals,          \* [Tasks -> how often its payment went into total_earnings]
    req                \* [Reqs -> the request in the slot]

pageRows == <<page, currentVersion, uploader, document>>
regionRows == <<region, regionPage>>
taskRows == <<task, taskRegion, assignee>>
submissionRows == <<submission, accruals>>
work == <<pageRows, regionRows, taskRows, submissionRows>>
tables == <<chapter, work>>
vars == <<tables, req>>

Idle == [pc |-> "idle", page |-> 0, region |-> None, task |-> 0, user |-> None,
         num |-> 0, status |-> NoStatus, target |-> NoStatus]

Steps ==
    {"idle", "assign_check", "assign_insert", "start_write",
     "submit_version", "submit_studio", "submit_insert", "submit_write",
     "review_begin", "review_commit",
     "sync_tasks", "sync_page", "sync_write",
     "save_current", "save_insert", "save_update", "doc_write",
     "page_number", "page_insert", "page_version",
     "region_version", "region_insert", "region_delete",
     "status_readiness", "status_write",
     "editor_readiness", "editor_write", "board_write"}

Statuses == ChapterStatus \cup PageStatus \cup TaskStatus \cup SubmissionStatus \cup {NoStatus}

Request == [pc : Steps, page : Nat, region : Regions \cup {None}, task : 0 .. MaxTasks,
            user : Users \cup {None}, num : Nat, status : Statuses, target : Statuses]

-----------------------------------------------------------------------------
(* The life of a request. *)

At(r, step) == req[r].pc = step

\* The handler passed its guard: its locals are captured in the slot.
Enter(r, locals) ==
    /\ At(r, "idle")
    /\ req' = [req EXCEPT ![r] = locals]

Goto(r, step) == req' = [req EXCEPT ![r].pc = step]

\* The handler returned, or threw: its locals are gone.
Finish(r) == req' = [req EXCEPT ![r] = Idle]

Quiescent == \A r \in Reqs : At(r, "idle")

\* An open review transaction holds the row locks of its task and, through it,
\* of the submission: every other writer of the Task row waits, and so does an
\* insert into Submission, whose foreign key check locks the Task row.
TaskLocked(t) == \E r \in Reqs : At(r, "review_commit") /\ req[r].task = t

\* ... and, when it approves, the Assistant_Profile row of the assistant.
ProfileLocked(a) ==
    \E r \in Reqs :
        /\ At(r, "review_commit")
        /\ req[r].status = "APPROVED"
        /\ assignee[req[r].task] = a

-----------------------------------------------------------------------------
(* Rows. *)

TaskIds == {t \in Tasks : task[t] # Absent}
PageOf(t) == regionPage[taskRegion[t]]
TasksOn(p) == {t \in TaskIds : PageOf(t) = p}
TaskStatusesOn(p) == {task[t] : t \in TasksOn(p)}
ExistingPages == {p \in Pages : page[p] # Absent}
VersionsOf(p) == {v \in Versions : uploader[p][v] # None}
SubmissionsOf(t) == {v \in SubmissionVersions : submission[t][v] # Absent}
HasCurrentVersion(p) == currentVersion[p] \in VersionsOf(p)

\* COALESCE(MAX(version_number), 0) + 1 over a set of version numbers.
NextVersion(versions) == IF versions = {} THEN 1 ELSE Max(versions) + 1

-----------------------------------------------------------------------------
TypeOK ==
    /\ chapter \in ChapterStatus
    /\ page \in [Pages -> PageStatus \cup {Absent}]
    /\ currentVersion \in [Pages -> 0 .. MaxVersions]
    /\ uploader \in [Pages -> [Versions -> Users \cup {None}]]
    /\ document \in [Pages -> Users \cup {None}]
    /\ region \in [Regions -> {Absent, "LIVE", "DELETED"}]
    /\ regionPage \in [Regions -> 0 .. MaxPages]
    /\ task \in [Tasks -> TaskStatus \cup {Absent}]
    /\ taskRegion \in [Tasks -> Regions \cup {None}]
    /\ assignee \in [Tasks -> Assistants \cup {None}]
    /\ submission \in [Tasks -> [SubmissionVersions -> SubmissionStatus \cup {Absent}]]
    /\ accruals \in [Tasks -> Nat]
    /\ req \in [Reqs -> Request]

\* A new chapter: no pages yet.
InitEmpty ==
    /\ chapter = "DRAFT"
    /\ page = [p \in Pages |-> Absent]
    /\ currentVersion = [p \in Pages |-> 0]
    /\ uploader = [p \in Pages |-> [v \in Versions |-> None]]
    /\ document = [p \in Pages |-> None]
    /\ region = [g \in Regions |-> Absent]
    /\ regionPage = [g \in Regions |-> 0]
    /\ task = [t \in Tasks |-> Absent]
    /\ taskRegion = [t \in Tasks |-> None]
    /\ assignee = [t \in Tasks |-> None]
    /\ submission = [t \in Tasks |-> [v \in SubmissionVersions |-> Absent]]
    /\ accruals = [t \in Tasks |-> 0]
    /\ req = [r \in Reqs |-> Idle]

\* A chapter in progress whose first page is uploaded and divided into regions,
\* before the first task is assigned.
InitDrawn ==
    /\ chapter = "IN_PROGRESS"
    /\ page = [p \in Pages |-> IF p = 1 THEN "RAW" ELSE Absent]
    /\ currentVersion = [p \in Pages |-> IF p = 1 THEN 1 ELSE 0]
    /\ uploader = [p \in Pages |-> [v \in Versions |->
                      IF p = 1 /\ v = 1 THEN Mangaka ELSE None]]
    /\ document = [p \in Pages |-> None]
    /\ region = [g \in Regions |-> "LIVE"]
    /\ regionPage = [g \in Regions |-> 1]
    /\ task = [t \in Tasks |-> Absent]
    /\ taskRegion = [t \in Tasks |-> None]
    /\ assignee = [t \in Tasks |-> None]
    /\ submission = [t \in Tasks |-> [v \in SubmissionVersions |-> Absent]]
    /\ accruals = [t \in Tasks |-> 0]
    /\ req = [r \in Reqs |-> Idle]
=============================================================================
