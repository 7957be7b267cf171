---------------------------- MODULE SeriesOffice ----------------------------
(***************************************************************************)
(* From the proposal of a series to its chapters and its editor, and the   *)
(* accounts of the people who do this: proposals/, series/, admin/ and the *)
(* creation of chapters (chapters/), with the pages that send the requests *)
(* (mangaka/Proposals, board/Proposals, board/Series, editor/SeriesDossier *)
(* and admin/Console).                                                     *)
(*                                                                         *)
(* A series has the id of its proposal (its unique key).  Titles, genres,  *)
(* notes, frequencies and the files themselves are left out.  Members of   *)
(* the board and the one admin send requests without a row of their own.   *)
(***************************************************************************)
EXTENDS Requests, Transitions, Sequences, FiniteSetsExt

CONSTANTS
    Users,          \* user ids, of existing accounts and of accounts to come
    Clerks,         \* tabs with the page board/Series open
    MaxProposals,   \* bound: proposals ever made
    MaxChapters,    \* bound: chapters of a series
    OfficeScenes    \* bound: what a behaviour starts with, see OfficeStart

Role == {"MANGAKA", "ASSISTANT", "TANTOU_EDITOR", "EDITORIAL_BOARD", "ADMIN"}
Proposals == 1 .. MaxProposals

ASSUME OfficeAssumption ==
    /\ MaxProposals \in Nat
    /\ MaxChapters \in Nat
    /\ Nobody \notin Users
    /\ IsFiniteSet(Clerks)
    /\ OfficeScenes \subseteq [mode : Modes, role : [Users -> Role \cup {Nobody}],
                               proposals : Proposals, clerks : SUBSET Clerks]

VARIABLES
    role,           \* [Users -> User.role, or Nobody: there is no such account]
    activated,      \* the users with is_activated = 1
    profiles,       \* [Users -> the roles in whose profile table the user has a row]
    worked,         \* the users with rows in the tables of an assistant or of the board
    proposal,       \* [Proposals -> Series_Proposal: author, status, has a sample]
    series,         \* [Proposals -> series_status of its Series, or Absent]
    editing,        \* <<series, user>> in Series_Tantou_Editor, unassigned_at IS NULL
    edited,         \* <<series, user>> in Series_Tantou_Editor
    reported,       \* <<series, user>> with a defence report among the annotations
    numbers,        \* [Proposals -> chapter_number of the chapters, in their order]
    savingSeries,   \* [Clerks -> the series whose select is disabled, or 0]
    office          \* the scene of this behaviour; it never changes

accountTables == <<role, activated, profiles, worked>>
editorTables == <<editing, edited, reported>>
officeTables == <<accountTables, proposal, series, editorTables, numbers>>
officeVars == <<officeTables, savingSeries, office, requestVars>>

NoProposal == [by |-> Nobody, status |-> Absent, sample |-> FALSE]
Proposed == {p \in Proposals : proposal[p].by # Nobody}
Published == {p \in Proposals : series[p] # Absent}

OfficeSteps == {"idle", "create_user", "create_insert", "upload_read", "upload_write",
                "submit_write", "start_write", "decide_commit", "chapter_insert",
                "assign_close", "assign_insert", "unassign_close", "report_insert"}

OfficeTypeOK ==
    /\ role \in [Users -> Role \cup {Nobody}]
    /\ activated \subseteq Users
    /\ profiles \in [Users -> SUBSET Role]
    /\ worked \subseteq Users
    /\ proposal \in [Proposals -> [by : Users \cup {Nobody}, sample : BOOLEAN,
                                   status : ProposalStatus \cup {Absent}]]
    /\ series \in [Proposals -> {Absent, "ACTIVE", "HIATUS"}]
    /\ editing \subseteq edited
    /\ edited \subseteq Proposals \X Users
    /\ reported \subseteq Proposals \X Users
    /\ \A p \in Proposals : numbers[p] \in Seq(1 .. MaxChapters)
    /\ savingSeries \in [Clerks -> Proposals \cup {0}]
    /\ \A c \in Slots : slot[c].pc \in OfficeSteps

\* profileTable: the admin has none.
profileTable(r) == {r} \ {"ADMIN", Nobody}

OfficeStart(s) ==
    /\ office = s
    /\ role = s.role
    /\ activated = {u \in Users : role[u] # Nobody}
    /\ profiles = [u \in Users |-> profileTable(role[u])]
    /\ worked = {}
    /\ proposal = [p \in Proposals |-> NoProposal]
    /\ series = [p \in Proposals |-> Absent]
    /\ editing = {}
    /\ edited = {}
    /\ reported = {}
    /\ numbers = [p \in Proposals |-> <<>>]
    /\ savingSeries = [k \in Clerks |-> 0]

OfficeInit == RequestsInit /\ \E s \in OfficeScenes : mode = s.mode /\ OfficeStart(s)

\* jwt.strategy and RolesGuard, at the start of a request.
Allowed(u, r) == role[u] = r /\ u \in activated

-----------------------------------------------------------------------------
(* Accounts: AdminService and pages/admin/Console. *)

creatableRoles == Role \ {"ADMIN"}

\* createUser: no account has this email.
mayCreateUser(u, r) == role[u] = Nobody /\ r \in creatableRoles

UserRead(c, u, r) ==
    /\ mayCreateUser(u, r)
    /\ Enter(c, [pc |-> "create_user", user |-> u, role |-> r])
    /\ UNCHANGED <<officeTables, savingSeries>>

\* Its transaction, which fails when the email has got an account meanwhile (unique key).
UserInsert(c) ==
    /\ At(c, "create_user")
    /\ LET q == slot[c] IN
       IF role[q.user] = Nobody
       THEN /\ role' = [role EXCEPT ![q.user] = q.role]
            /\ profiles' = [profiles EXCEPT ![q.user] = profileTable(q.role)]
            /\ activated' = activated \cup {q.user}
       ELSE UNCHANGED <<role, profiles, activated>>
    /\ Finish(c)
    /\ UNCHANGED <<worked, proposal, series, editorTables, numbers, savingSeries>>

\* Mutant of assertRoleTransitionAllowed: the history of an editor is the series of today.
assertRoleTransitionAllowedNow(u) ==
    CASE role[u] = "MANGAKA" -> \A p \in Proposed : proposal[p].by # u
      [] role[u] = "TANTOU_EDITOR" -> \A p \in Proposals : <<p, u>> \notin editing
      [] OTHER -> u \notin worked

assertRoleTransitionAllowed(u) ==
    CASE role[u] = "MANGAKA" -> \A p \in Proposed : proposal[p].by # u
      [] role[u] = "TANTOU_EDITOR" -> \A p \in Proposals : <<p, u>> \notin edited
      [] OTHER -> u \notin worked

\* updateUser: the guards of a new role, and of a locked or unlocked account.
mayChangeRole(u, r) ==
    role[u] \in creatableRoles \ {r} /\ r \in creatableRoles /\ assertRoleTransitionAllowed(u)
mayLock(u) == role[u] \in creatableRoles

\* updateUser: one transaction that locks the row of the user; an INSERT of a row that
\* refers to the user waits for it (foreign key).
RoleChange(u, r) ==
    /\ InTurn => Quiet
    /\ mayChangeRole(u, r)
    /\ role' = [role EXCEPT ![u] = r]
    /\ profiles' = [profiles EXCEPT ![u] = (@ \ profileTable(role[u])) \cup profileTable(r)]
    /\ UNCHANGED <<activated, worked, proposal, series, editorTables, numbers, savingSeries, slot>>

ActivationChange(u) ==
    /\ InTurn => Quiet
    /\ mayLock(u)
    /\ activated' = IF u \in activated THEN activated \ {u} ELSE activated \cup {u}
    /\ UNCHANGED <<role, profiles, worked, proposal, series, editorTables, numbers,
                   savingSeries, slot>>

\* A task is assigned to an assistant, or a member of the board votes.
Works(u) ==
    /\ InTurn => Quiet
    /\ u \notin worked
    /\ Allowed(u, "ASSISTANT") \/ Allowed(u, "EDITORIAL_BOARD")
    /\ worked' = worked \cup {u}
    /\ UNCHANGED <<role, activated, profiles, proposal, series, editorTables, numbers,
                   savingSeries, slot>>

-----------------------------------------------------------------------------
(* Proposals: ProposalsService. *)

Creating == {c \in Slots : At(c, "create_insert")}

\* handleSubmitForm of mangaka/Proposals: create, and then upload when a file is chosen.
ProposalCreate(c, u, file) ==
    /\ Allowed(u, "MANGAKA")
    /\ Cardinality(Proposed) + Cardinality(Creating) < office.proposals
    /\ Enter(c, [pc |-> "create_insert", user |-> u, file |-> file])
    /\ UNCHANGED <<officeTables, savingSeries>>

ProposalInsert(c) ==
    /\ At(c, "create_insert")
    /\ LET p == Cardinality(Proposed) + 1
           q == slot[c]
       IN /\ proposal' = [proposal EXCEPT ![p] = [by |-> q.user, status |-> "DRAFT", sample |-> FALSE]]
          /\ IF q.file
             THEN Become(c, [pc |-> "upload_read", id |-> p, user |-> q.user])
             ELSE Finish(c)
    /\ UNCHANGED <<accountTables, series, editorTables, numbers, savingSeries>>

\* replaceProposalSample of the page
SampleCall(c, u, p) ==
    /\ Allowed(u, "MANGAKA")
    /\ Enter(c, [pc |-> "upload_read", id |-> p, user |-> u])
    /\ UNCHANGED <<officeTables, savingSeries>>

\* uploadSampleManuscript: the author's own draft.
takesSample(u, p) == proposal[p].by = u /\ proposal[p].status = "DRAFT"

\* uploadSampleManuscript: its guard; the file is stored.
SampleRead(c) ==
    /\ At(c, "upload_read")
    /\ IF takesSample(slot[c].user, slot[c].id) THEN Goto(c, "upload_write") ELSE Finish(c)
    /\ UNCHANGED <<officeTables, savingSeries>>

SampleWrite(c) ==
    /\ At(c, "upload_write")
    /\ proposal' = [proposal EXCEPT ![slot[c].id].sample = TRUE]
    /\ Finish(c)
    /\ UNCHANGED <<accountTables, series, editorTables, numbers, savingSeries>>

\* submit: the author's own, with a sample.
maySubmit(u, p) ==
    /\ Allowed(u, "MANGAKA")
    /\ proposal[p].by = u
    /\ canTransition(PROPOSAL_TRANSITIONS, proposal[p].status, "SUBMITTED")
    /\ proposal[p].sample

SubmitRead(c, u, p) ==
    /\ maySubmit(u, p)
    /\ Enter(c, [pc |-> "submit_write", id |-> p])
    /\ UNCHANGED <<officeTables, savingSeries>>

\* startReview
mayStart(p) == canTransition(PROPOSAL_TRANSITIONS, proposal[p].status, "UNDER_REVIEW")

StartRead(c, p) ==
    /\ mayStart(p)
    /\ Enter(c, [pc |-> "start_write", id |-> p])
    /\ UNCHANGED <<officeTables, savingSeries>>

\* The UPDATE of submit or of startReview, by id alone.
StatusWrite(c, step, to) ==
    /\ At(c, step)
    /\ proposal' = [proposal EXCEPT ![slot[c].id].status = to]
    /\ Finish(c)
    /\ UNCHANGED <<accountTables, series, editorTables, numbers, savingSeries>>

SubmitWrite(c) == StatusWrite(c, "submit_write", "SUBMITTED")
StartWrite(c) == StatusWrite(c, "start_write", "UNDER_REVIEW")

\* decide
mayDecide(p, decision) ==
    /\ proposal[p].status = "UNDER_REVIEW"
    /\ canTransition(PROPOSAL_TRANSITIONS, proposal[p].status, decision)

DecideRead(c, p, decision) ==
    /\ mayDecide(p, decision)
    /\ Enter(c, [pc |-> "decide_commit", id |-> p, decision |-> decision])
    /\ UNCHANGED <<officeTables, savingSeries>>

\* Mutant of DecideCommit: the INSERT of the series has lost its test of the decision.
DecideCommitAlways(c) ==
    /\ At(c, "decide_commit")
    /\ LET p == slot[c].id
           free == series[p] = Absent
       IN /\ series' = IF free THEN [series EXCEPT ![p] = "ACTIVE"] ELSE series
          /\ proposal' = IF free THEN [proposal EXCEPT ![p].status = slot[c].decision] ELSE proposal
    /\ Finish(c)
    /\ UNCHANGED <<accountTables, editorTables, numbers, savingSeries>>

\* Its transaction: an approval inserts the series, and fails when there is one.
DecideCommit(c) ==
    /\ At(c, "decide_commit")
    /\ LET p == slot[c].id
           decision == slot[c].decision
       IN \/ /\ decision = "APPROVED"
             /\ series[p] = Absent
             /\ series' = [series EXCEPT ![p] = "ACTIVE"]
             /\ proposal' = [proposal EXCEPT ![p].status = decision]
          \/ /\ decision = "APPROVED"
             /\ series[p] # Absent
             /\ UNCHANGED <<series, proposal>>
          \/ /\ decision = "REJECTED"
             /\ proposal' = [proposal EXCEPT ![p].status = decision]
             /\ UNCHANGED series
    /\ Finish(c)
    /\ UNCHANGED <<accountTables, editorTables, numbers, savingSeries>>

\* DecisionsService.decide: HIATUS or CONTINUE.
SeriesDecided(p) ==
    /\ InTurn => Quiet
    /\ series' = [series EXCEPT ![p] = IF @ = "ACTIVE" THEN "HIATUS" ELSE "ACTIVE"]
    /\ UNCHANGED <<accountTables, proposal, editorTables, numbers, savingSeries, slot>>

-----------------------------------------------------------------------------
(* Chapters: create of ChaptersService. *)

nextNumber(p) == Max({0} \cup {numbers[p][i] : i \in DOMAIN numbers[p]}) + 1

\* The series is the author's (for good).
mayAddChapter(u, p) == Allowed(u, "MANGAKA") /\ proposal[p].by = u

\* MAX(chapter_number) + 1.
ChapterRead(c, u, p) ==
    /\ mayAddChapter(u, p)
    /\ nextNumber(p) <= MaxChapters
    /\ Enter(c, [pc |-> "chapter_insert", id |-> p, number |-> nextNumber(p)])
    /\ UNCHANGED <<officeTables, savingSeries>>

\* Mutant of ChapterInsert: without the unique key of the table.
ChapterInsertAnyway(c) ==
    /\ At(c, "chapter_insert")
    /\ numbers' = [numbers EXCEPT ![slot[c].id] = Append(@, slot[c].number)]
    /\ Finish(c)
    /\ UNCHANGED <<accountTables, proposal, series, editorTables, savingSeries>>

\* The unique key refuses a number that is taken.
ChapterInsert(c) ==
    /\ At(c, "chapter_insert")
    /\ LET p == slot[c].id
           taken == \E i \in DOMAIN numbers[p] : numbers[p][i] = slot[c].number
       IN numbers' = IF taken THEN numbers ELSE [numbers EXCEPT ![p] = Append(@, slot[c].number)]
    /\ Finish(c)
    /\ UNCHANGED <<accountTables, proposal, series, editorTables, savingSeries>>

-----------------------------------------------------------------------------
(* Editors and their reports: SeriesService, board/Series, editor/SeriesDossier. *)

\* The select of a series is disabled while savingId is its id.
SelectEnabled(k, p) == savingSeries[k] # p
SavingSeries(k, p) == savingSeries' = [savingSeries EXCEPT ![k] = p]

\* assignEditor: the series, the role and the activation of the user.
AssignRead(c, k, p, u) ==
    /\ SelectEnabled(k, p)
    /\ Allowed(u, "TANTOU_EDITOR")
    /\ Enter(c, [pc |-> "assign_close", clerk |-> k, id |-> p, user |-> u])
    /\ SavingSeries(k, p)
    /\ UNCHANGED officeTables

\* Mutant of AssignClose: only an earlier row of the same editor is closed.
AssignCloseOwn(c) ==
    /\ At(c, "assign_close")
    /\ editing' = editing \ {<<slot[c].id, slot[c].user>>}
    /\ Goto(c, "assign_insert")
    /\ UNCHANGED <<accountTables, proposal, series, edited, reported, numbers, savingSeries>>

\* UPDATE ... SET unassigned_at = NOW() WHERE unassigned_at IS NULL
AssignClose(c) ==
    /\ At(c, "assign_close")
    /\ editing' = {e \in editing : e[1] # slot[c].id}
    /\ Goto(c, "assign_insert")
    /\ UNCHANGED <<accountTables, proposal, series, edited, reported, numbers, savingSeries>>

\* The INSERT, which the primary key refuses for an editor assigned in the same second.
AssignInsert(c) ==
    /\ At(c, "assign_insert")
    /\ LET e == <<slot[c].id, slot[c].user>> IN
       \/ /\ editing' = editing \cup {e}
          /\ edited' = edited \cup {e}
       \/ /\ e \in edited
          /\ UNCHANGED <<editing, edited>>
    /\ SavingSeries(slot[c].clerk, 0)
    /\ Finish(c)
    /\ UNCHANGED <<accountTables, proposal, series, reported, numbers>>

\* unassignEditor
UnassignCall(c, k, p) ==
    /\ SelectEnabled(k, p)
    /\ Enter(c, [pc |-> "unassign_close", clerk |-> k, id |-> p])
    /\ SavingSeries(k, p)
    /\ UNCHANGED officeTables

UnassignClose(c) ==
    /\ At(c, "unassign_close")
    /\ editing' = {e \in editing : e[1] # slot[c].id}
    /\ SavingSeries(slot[c].clerk, 0)
    /\ Finish(c)
    /\ UNCHANGED <<accountTables, proposal, series, edited, reported, numbers>>

\* An error instead of an answer.
ClerkFails(c) ==
    /\ slot[c].pc \in {"assign_close", "assign_insert", "unassign_close"}
    /\ Fail(c)
    /\ SavingSeries(slot[c].clerk, 0)
    /\ UNCHANGED officeTables

assertActiveEditorForSeries(p, u) == <<p, u>> \in editing /\ series[p] = "HIATUS"

\* createDefenseReport: an active editor of a series on HIATUS; of several reports of one
\* editor the first is kept.
ReportRead(c, p, u) ==
    /\ Allowed(u, "TANTOU_EDITOR")
    /\ assertActiveEditorForSeries(p, u)
    /\ <<p, u>> \notin reported
    /\ Enter(c, [pc |-> "report_insert", id |-> p, user |-> u])
    /\ UNCHANGED <<officeTables, savingSeries>>

ReportInsert(c) ==
    /\ At(c, "report_insert")
    /\ reported' = reported \cup {<<slot[c].id, slot[c].user>>}
    /\ Finish(c)
    /\ UNCHANGED <<accountTables, proposal, series, editing, edited, numbers, savingSeries>>

-----------------------------------------------------------------------------
OfficeCall(c) ==
    \/ \E u \in Users :
          \/ \E r \in Role : UserRead(c, u, r)
          \/ \E file \in BOOLEAN : ProposalCreate(c, u, file)
          \/ \E p \in Proposed : SampleCall(c, u, p) \/ SubmitRead(c, u, p)
          \/ \E p \in Published :
                \/ ChapterRead(c, u, p) \/ ReportRead(c, p, u)
                \/ \E k \in office.clerks : AssignRead(c, k, p, u)
    \/ \E p \in Proposed :
          StartRead(c, p) \/ \E decision \in {"APPROVED", "REJECTED"} : DecideRead(c, p, decision)
    \/ \E p \in Published, k \in office.clerks : UnassignCall(c, k, p)

OfficeStep(c) ==
    \/ UserInsert(c)
    \/ ProposalInsert(c) \/ SampleRead(c) \/ SampleWrite(c)
    \/ SubmitWrite(c) \/ StartWrite(c) \/ DecideCommit(c)
    \/ ChapterInsert(c)
    \/ AssignClose(c) \/ AssignInsert(c) \/ UnassignClose(c)
    \/ ReportInsert(c)
    \/ ClerkFails(c)
    \/ /\ slot[c].pc \notin {"assign_close", "assign_insert", "unassign_close"}
       /\ Fail(c)
       /\ UNCHANGED <<officeTables, savingSeries>>

OfficeNext ==
    /\ \/ \E c \in Slots : OfficeCall(c) \/ OfficeStep(c)
       \/ \E u \in Users : ActivationChange(u) \/ Works(u) \/ \E r \in Role : RoleChange(u, r)
       \/ \E p \in Published : SeriesDecided(p)
    /\ UNCHANGED <<office, mode>>

OfficeSpec == OfficeInit /\ [][OfficeNext]_officeVars

-----------------------------------------------------------------------------
\* One request at a time, whatever dies: nobody loses the role in which he has left rows,
\* and everybody has the one profile of his role.  The change of a role looks for these
\* rows in the tables of the other services.
RolesFitWork ==
    InTurn =>
        /\ \A p \in Proposed : role[proposal[p].by] = "MANGAKA"
        /\ \A e \in edited \cup reported : role[e[2]] = "TANTOU_EDITOR"
        /\ \A u \in worked : role[u] \in {"ASSISTANT", "EDITORIAL_BOARD"}
        /\ \A u \in Users : profiles[u] = profileTable(role[u])

\* Whatever interleaves, an approved proposal has its series, and no series comes from a
\* proposal without a sample; one request at a time, a series has an approved proposal.
SeriesFollowsProposal ==
    /\ \A p \in Proposed : proposal[p].status = "APPROVED" => p \in Published
    /\ \A p \in Published : proposal[p].sample
    /\ InTurn => \A p \in Published : proposal[p].status = "APPROVED"

\* A series has one editor at most: with one request at a time whatever dies between the
\* UPDATE and the INSERT, and also at once when one page sends all requests for it and stays
\* open while one is on its way.  A page that is opened again meanwhile has an empty
\* savingSeries, and counts as a second one.
SeriesHasOneEditor ==
    (InTurn \/ (Undisturbed /\ Cardinality(office.clerks) = 1 /\ Cardinality(Published) = 1)) =>
        \A p \in Published : Cardinality({e \in editing : e[1] = p}) <= 1

\* The chapters of a series have the numbers 1, 2, ... in the order of their creation,
\* also when two are created at once from the same maximum.
ChaptersAreNumbered == \A p \in Proposals : \A i \in DOMAIN numbers[p] : numbers[p][i] = i
=============================================================================
