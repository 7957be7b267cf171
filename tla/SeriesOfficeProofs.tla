------------------------- MODULE SeriesOfficeProofs -------------------------
(***************************************************************************)
(* Proofs about SeriesOffice, for any users, proposals, chapters and       *)
(* requests in flight.                                                     *)
(***************************************************************************)
EXTENDS SeriesOffice, FiniteSetTheorems, SequenceTheorems, TLAPS

UserRequest == [pc : {"create_user"}, user : Users, role : Role]
CreateRequest == [pc : {"create_insert"}, user : Users, file : BOOLEAN]
UploadRequest == [pc : {"upload_read", "upload_write"}, id : Proposals, user : Users]
StatusRequest == [pc : {"submit_write", "start_write"}, id : Proposals]
DecideRequest == [pc : {"decide_commit"}, id : Proposals, decision : {"APPROVED", "REJECTED"}]
ChapterRequest == [pc : {"chapter_insert"}, id : Proposals, number : 1 .. MaxChapters]
AssignRequest == [pc : {"assign_close", "assign_insert"}, clerk : Clerks, id : Proposals, user : Users]
UnassignRequest == [pc : {"unassign_close"}, clerk : Clerks, id : Proposals]
ReportRequest == [pc : {"report_insert"}, id : Proposals, user : Users]
OfficeRequest == {Idle} \cup UserRequest \cup CreateRequest \cup UploadRequest \cup StatusRequest
               \cup DecideRequest \cup ChapterRequest \cup AssignRequest \cup UnassignRequest
               \cup ReportRequest

\* The types of the tables.
OfficeTableTypes ==
    /\ role \in [Users -> Role \cup {Nobody}]
    /\ activated \subseteq Users
    /\ profiles \in [Users -> SUBSET Role]
    /\ worked \subseteq Users
    /\ proposal \in [Proposals -> [by : Users \cup {Nobody}, sample : BOOLEAN,
                                   status : ProposalStatus \cup {Absent}]]
    /\ series \in [Proposals -> {Absent, "ACTIVE", "HIATUS"}]
    /\ editing \subseteq edited /\ reported \subseteq edited
    /\ edited \subseteq Proposals \X Users
    /\ DOMAIN numbers = Proposals
    /\ \A p \in Proposals : numbers[p] \in Seq(1 .. MaxChapters)

\* A proposal that has been submitted has a sample, a series has a proposal with one, and
\* an approved proposal its series.
Sampled ==
    /\ \A p \in Proposals : proposal[p].status \notin {Absent, "DRAFT"} => proposal[p].sample
    /\ \A p \in Published : p \in Proposed /\ proposal[p].sample
    /\ \A p \in Proposed : proposal[p].status = "APPROVED" => p \in Published

ProfilesFit == \A u \in Users : profiles[u] = profileTable(role[u])

OfficeTables == OfficeTableTypes /\ Sampled /\ ProfilesFit /\ ChaptersAreNumbered

\* What the request in a slot knows of the rows it is about.
OfficeKnows(q) ==
    /\ q.pc \in {"upload_read", "upload_write", "submit_write", "start_write", "decide_commit",
                 "chapter_insert", "assign_close", "assign_insert", "unassign_close",
                 "report_insert"} => q.id \in Proposed
    /\ q.pc \in {"submit_write", "start_write", "decide_commit"} => proposal[q.id].sample
    /\ q.pc = "chapter_insert" => q.number <= Len(numbers[q.id]) + 1
    /\ q.pc = "report_insert" => <<q.id, q.user>> \in edited

\* Ids are given out in order, and no more of them than the instance may have.
ProposalsInOrder ==
    /\ IsFiniteSet(Proposed) /\ IsFiniteSet(Creating)
    /\ Proposed = 1 .. Cardinality(Proposed)
    /\ Cardinality(Proposed) + Cardinality(Creating) <= office.proposals

OfficeInv ==
    /\ OfficeTables
    /\ savingSeries \in [Clerks -> Proposals \cup {0}]
    /\ office \in OfficeScenes
    /\ slot \in [Slots -> OfficeRequest]
    /\ \A c \in Slots : OfficeKnows(slot[c])
    /\ ProposalsInOrder

-----------------------------------------------------------------------------
\* A request is what its pc says.
LEMMA OfficeRequestShapes ==
    ASSUME NEW q \in OfficeRequest
    PROVE  /\ q.pc \in OfficeSteps
           /\ q.pc = "create_user" => q \in UserRequest
           /\ q.pc = "create_insert" => q \in CreateRequest
           /\ q.pc \in {"upload_read", "upload_write"} => q \in UploadRequest
           /\ q.pc \in {"submit_write", "start_write"} => q \in StatusRequest
           /\ q.pc = "decide_commit" => q \in DecideRequest
           /\ q.pc = "chapter_insert" => q \in ChapterRequest
           /\ q.pc \in {"assign_close", "assign_insert"} => q \in AssignRequest
           /\ q.pc = "unassign_close" => q \in UnassignRequest
           /\ q.pc = "report_insert" => q \in ReportRequest
  <1> USE DEF OfficeSteps
  <1>1. CASE q = Idle
    BY <1>1 DEF Idle
  <1>2. CASE q \in UserRequest
    BY <1>2 DEF UserRequest
  <1>3. CASE q \in CreateRequest
    BY <1>3 DEF CreateRequest
  <1>4. CASE q \in UploadRequest
    BY <1>4 DEF UploadRequest
  <1>5. CASE q \in StatusRequest
    BY <1>5 DEF StatusRequest
  <1>6. CASE q \in DecideRequest
    BY <1>6 DEF DecideRequest
  <1>7. CASE q \in ChapterRequest
    BY <1>7 DEF ChapterRequest
  <1>8. CASE q \in AssignRequest
    BY <1>8 DEF AssignRequest
  <1>9. CASE q \in UnassignRequest
    BY <1>9 DEF UnassignRequest
  <1>10. CASE q \in ReportRequest
    BY <1>10 DEF ReportRequest
  <1> QED  BY <1>1, <1>2, <1>3, <1>4, <1>5, <1>6, <1>7, <1>8, <1>9, <1>10 DEF OfficeRequest

\* Before the first request.
LEMMA InitOfficeInv == OfficeInit => OfficeInv
  <1> SUFFICES ASSUME OfficeInit PROVE OfficeInv
    OBVIOUS
  <1> USE DEF OfficeInit, OfficeStart, RequestsInit
  <1>1. office \in OfficeScenes /\ office.role \in [Users -> Role \cup {Nobody}]
        /\ office.proposals \in Nat
    BY OfficeAssumption DEF Proposals
  <1>2. \A p \in Proposals : numbers[p] = <<>>
    OBVIOUS
  <1>3. OfficeTableTypes
    <2>1. \A u \in Users : profiles[u] \in SUBSET Role
      BY <1>1 DEF profileTable
    <2>2. profiles \in [Users -> SUBSET Role]
      BY <2>1
    <2>3. \A p \in Proposals : numbers[p] \in Seq(1 .. MaxChapters)
      BY <1>2
    <2>4. proposal \in [Proposals -> [by : Users \cup {Nobody}, sample : BOOLEAN,
                                      status : ProposalStatus \cup {Absent}]]
      BY DEF NoProposal
    <2> QED  BY <1>1, <2>2, <2>3, <2>4 DEF OfficeTableTypes
  <1>4. Proposed = {} /\ Published = {} /\ Creating = {}
    BY DEF Proposed, Published, Creating, At, Idle, NoProposal
  <1>5. Sampled
    BY <1>4 DEF Sampled, NoProposal
  <1>6. ProfilesFit /\ ChaptersAreNumbered
    BY DEF ProfilesFit, ChaptersAreNumbered
  <1>7. savingSeries \in [Clerks -> Proposals \cup {0}]
    OBVIOUS
  <1>8. slot \in [Slots -> OfficeRequest] /\ \A c \in Slots : OfficeKnows(slot[c])
    BY DEF OfficeRequest, Idle, OfficeKnows
  <1>9. ProposalsInOrder
    BY <1>1, <1>4, FS_EmptySet DEF ProposalsInOrder
  <1> QED  BY <1>1, <1>3, <1>5, <1>6, <1>7, <1>8, <1>9 DEF OfficeInv, OfficeTables

-----------------------------------------------------------------------------
\* Requests keep what they know while proposals, samples, chapters and editors only grow.
LEMMA OfficeKnownStays ==
    ASSUME OfficeTables, OfficeTables', Proposed \subseteq Proposed', edited \subseteq edited',
           \A p \in Proposed : proposal[p].sample => proposal'[p].sample,
           \A p \in Proposals : Len(numbers[p]) <= Len(numbers'[p])
    PROVE  \A q \in OfficeRequest : OfficeKnows(q) => OfficeKnows(q)'
  <1> SUFFICES ASSUME NEW q \in OfficeRequest, OfficeKnows(q) PROVE OfficeKnows(q)'
    OBVIOUS
  <1>1. Proposed \subseteq Proposals
    BY DEF Proposed
  <1>2. q.pc = "chapter_insert" => q.number <= Len(numbers'[q.id]) + 1
    <2> SUFFICES ASSUME q.pc = "chapter_insert" PROVE q.number <= Len(numbers'[q.id]) + 1
      OBVIOUS
    <2>1. q.id \in Proposals /\ q.number \in Nat /\ q.number <= Len(numbers[q.id]) + 1
      BY OfficeRequestShapes, OfficeAssumption DEF ChapterRequest, OfficeKnows
    <2>2. Len(numbers[q.id]) \in Nat /\ Len(numbers'[q.id]) \in Nat
      BY <2>1 DEF OfficeTables, OfficeTableTypes
    <2> QED  BY <2>1, <2>2
  <1> QED  BY <1>1, <1>2 DEF OfficeKnows

\* A step of one slot that makes no proposal.
LEMMA OfficeSlotStep ==
    ASSUME OfficeInv, NEW c \in Slots, NEW request \in OfficeRequest, request.pc # "create_insert",
           slot' = [slot EXCEPT ![c] = request], OfficeKnows(request)',
           \A q \in OfficeRequest : OfficeKnows(q) => OfficeKnows(q)',
           OfficeTables', Proposed' = Proposed, UNCHANGED office,
           savingSeries' \in [Clerks -> Proposals \cup {0}]
    PROVE  OfficeInv'
  <1>1. slot' \in [Slots -> OfficeRequest] /\ \A d \in Slots : slot'[d] = IF d = c THEN request ELSE slot[d]
    BY DEF OfficeInv
  <1>2. \A d \in Slots : OfficeKnows(slot[d])'
    <2> SUFFICES ASSUME NEW d \in Slots PROVE OfficeKnows(slot[d])'
      OBVIOUS
    <2>1. PICK q \in OfficeRequest : q = slot[d]
      BY DEF OfficeInv
    <2>2. OfficeKnows(q)'
      BY <2>1 DEF OfficeInv
    <2> QED  BY <1>1, <2>1, <2>2 DEF OfficeKnows
  <1>3. ProposalsInOrder'
    <2>1. Creating' \subseteq Creating
      BY <1>1 DEF Creating, At
    <2>2. IsFiniteSet(Creating') /\ Cardinality(Creating') <= Cardinality(Creating)
      BY <2>1, FS_Subset DEF OfficeInv, ProposalsInOrder
    <2>3. Cardinality(Proposed) \in Nat /\ Cardinality(Creating) \in Nat /\ Cardinality(Creating') \in Nat
      BY <2>2, FS_CardinalityType DEF OfficeInv, ProposalsInOrder
    <2>4. office.proposals \in Nat
      BY OfficeAssumption DEF OfficeInv, Proposals
    <2> QED  BY <2>2, <2>3, <2>4 DEF OfficeInv, ProposalsInOrder
  <1> QED  BY <1>1, <1>2, <1>3 DEF OfficeInv

\* Nothing is written but which select is disabled.
LEMMA OfficeQuietStep ==
    ASSUME OfficeInv, NEW c \in Slots, NEW request \in OfficeRequest, request.pc # "create_insert",
           slot' = [slot EXCEPT ![c] = request], OfficeKnows(request),
           UNCHANGED <<officeTables, office>>,
           savingSeries' \in [Clerks -> Proposals \cup {0}]
    PROVE  OfficeInv'
  <1> USE DEF officeTables, accountTables, editorTables
  <1>1. OfficeTables'
    BY DEF OfficeInv, OfficeTables, OfficeTableTypes, Sampled, ProfilesFit, ChaptersAreNumbered, Proposed,
           Published
  <1>2. Proposed' = Proposed
    BY DEF Proposed
  <1>3. \A q \in OfficeRequest : OfficeKnows(q) => OfficeKnows(q)'
    BY <1>2 DEF OfficeKnows
  <1>4. OfficeKnows(request)'
    BY <1>3
  <1> QED  BY <1>1, <1>2, <1>3, <1>4, OfficeSlotStep

\* A handler that returns, or dies.
LEMMA OfficeFinishQuiet ==
    ASSUME OfficeInv, NEW c \in Slots, Finish(c), UNCHANGED <<officeTables, office>>,
           savingSeries' \in [Clerks -> Proposals \cup {0}]
    PROVE  OfficeInv'
  <1>1. Idle \in OfficeRequest /\ Idle.pc # "create_insert" /\ OfficeKnows(Idle)
    BY DEF OfficeRequest, Idle, OfficeKnows
  <1> QED  BY <1>1, OfficeQuietStep DEF Finish

\* A handler that writes tables with its last statement.
LEMMA OfficeFinishStep ==
    ASSUME OfficeInv, NEW c \in Slots, Finish(c), OfficeTables', UNCHANGED office,
           Proposed' = Proposed, edited \subseteq edited',
           \A p \in Proposed : proposal[p].sample => proposal'[p].sample,
           \A p \in Proposals : Len(numbers[p]) <= Len(numbers'[p]),
           savingSeries' \in [Clerks -> Proposals \cup {0}]
    PROVE  OfficeInv'
  <1>1. Idle \in OfficeRequest /\ Idle.pc # "create_insert" /\ OfficeKnows(Idle)'
    BY DEF OfficeRequest, Idle, OfficeKnows
  <1>2. \A q \in OfficeRequest : OfficeKnows(q) => OfficeKnows(q)'
    BY OfficeKnownStays DEF OfficeInv
  <1> QED  BY <1>1, <1>2, OfficeSlotStep DEF Finish

-----------------------------------------------------------------------------
\* MAX(chapter_number) is the number of chapters when they are numbered 1, 2, ...
LEMMA NextNumberIsNext ==
    ASSUME OfficeTables, NEW p \in Proposals
    PROVE  nextNumber(p) = Len(numbers[p]) + 1 /\ Len(numbers[p]) \in Nat
  <1> DEFINE n == Len(numbers[p])
             S == {0} \cup {numbers[p][i] : i \in DOMAIN numbers[p]}
  <1>1. n \in Nat /\ DOMAIN numbers[p] = 1 .. n
    BY DEF OfficeTables, OfficeTableTypes
  <1>2. \A i \in 1 .. n : numbers[p][i] = i
    BY <1>1 DEF OfficeTables, ChaptersAreNumbered
  <1>3. S = 0 .. n
    BY <1>1, <1>2
  <1> HIDE DEF n, S
  <1>4. n \in S /\ \A y \in S : n >= y
    BY <1>1, <1>3
  <1>5. \A x \in S : (\A y \in S : x >= y) => x = n
    BY <1>1, <1>3, <1>4
  <1>6. Max(S) = n
    BY <1>4, <1>5 DEF Max
  <1> QED  BY <1>1, <1>6 DEF nextNumber, S, n

\* A proposal is under way: one more slot that counts.
LEMMA ProposalCreateKeeps ==
    ASSUME OfficeInv, NEW c \in Slots, NEW u \in Users, NEW file \in BOOLEAN,
           ProposalCreate(c, u, file), UNCHANGED office
    PROVE  OfficeInv'
  <1> DEFINE request == [pc |-> "create_insert", user |-> u, file |-> file]
  <1> USE DEF officeTables, accountTables, editorTables
  <1>1. request \in OfficeRequest
    BY DEF OfficeRequest, CreateRequest
  <1>2. slot' = [slot EXCEPT ![c] = request] /\ slot[c].pc = "idle" /\ UNCHANGED <<officeTables, savingSeries>>
    BY DEF ProposalCreate, Enter, At
  <1>3. slot' \in [Slots -> OfficeRequest] /\ \A d \in Slots : slot'[d] = IF d = c THEN request ELSE slot[d]
    BY <1>1, <1>2 DEF OfficeInv
  <1>4. OfficeTables'
    BY <1>2 DEF OfficeInv, OfficeTables, OfficeTableTypes, Sampled, ProfilesFit, ChaptersAreNumbered, Proposed,
                Published
  <1>5. (\A d \in Slots : OfficeKnows(slot[d]))'
    BY <1>2, <1>3 DEF OfficeInv, OfficeKnows, Proposed
  <1>6. ProposalsInOrder'
    <2>1. Proposed' = Proposed
      BY <1>2 DEF Proposed
    <2>2. c \notin Creating /\ Creating' = Creating \cup {c}
      BY <1>2, <1>3 DEF Creating, At
    <2>3. IsFiniteSet(Creating') /\ Cardinality(Creating') = Cardinality(Creating) + 1
      BY <2>2, FS_AddElement DEF OfficeInv, ProposalsInOrder
    <2>4. Cardinality(Proposed) \in Nat /\ Cardinality(Creating) \in Nat
      BY FS_CardinalityType DEF OfficeInv, ProposalsInOrder
    <2>5. Cardinality(Proposed) + Cardinality(Creating) < office.proposals /\ office.proposals \in Nat
      BY OfficeAssumption DEF ProposalCreate, OfficeInv, Proposals
    <2> QED  BY <2>1, <2>3, <2>4, <2>5 DEF OfficeInv, ProposalsInOrder
  <1> QED  BY <1>2, <1>3, <1>4, <1>5, <1>6 DEF OfficeInv

\* The other calls remember rows that exist.
LEMMA OfficeCallKeeps ==
    ASSUME OfficeInv, NEW c \in Slots, OfficeCall(c), UNCHANGED office
    PROVE  OfficeInv'
  <1>1. /\ Proposed \subseteq Proposals /\ Published \subseteq Proposed
        /\ office.clerks \subseteq Clerks
    BY OfficeAssumption DEF Proposed, OfficeInv, OfficeTables, Sampled
  <1>2. savingSeries \in [Clerks -> Proposals \cup {0}]
    BY DEF OfficeInv
  <1>3. ASSUME NEW k \in Clerks, NEW p \in Proposals, SavingSeries(k, p)
        PROVE  savingSeries' \in [Clerks -> Proposals \cup {0}]
    BY <1>2, <1>3 DEF SavingSeries
  <1>4. ASSUME NEW request \in OfficeRequest, request.pc # "create_insert", OfficeKnows(request),
               Enter(c, request), UNCHANGED officeTables,
               savingSeries' \in [Clerks -> Proposals \cup {0}]
        PROVE  OfficeInv'
    BY <1>4, OfficeQuietStep DEF Enter
  <1>5. ASSUME NEW u \in Users, NEW r \in Role, UserRead(c, u, r) PROVE OfficeInv'
    <2> DEFINE request == [pc |-> "create_user", user |-> u, role |-> r]
    <2>1. request \in OfficeRequest /\ OfficeKnows(request)
      BY DEF OfficeRequest, UserRequest, OfficeKnows
    <2> QED  BY <1>2, <1>4, <1>5, <2>1 DEF UserRead
  <1>6. ASSUME NEW u \in Users, NEW p \in Proposed, SampleCall(c, u, p) PROVE OfficeInv'
    <2> DEFINE request == [pc |-> "upload_read", id |-> p, user |-> u]
    <2>1. request \in OfficeRequest /\ OfficeKnows(request)
      BY <1>1 DEF OfficeRequest, UploadRequest, OfficeKnows
    <2> QED  BY <1>2, <1>4, <1>6, <2>1 DEF SampleCall
  <1>7. ASSUME NEW u \in Users, NEW p \in Proposed, SubmitRead(c, u, p) PROVE OfficeInv'
    <2> DEFINE request == [pc |-> "submit_write", id |-> p]
    <2>1. request \in OfficeRequest /\ OfficeKnows(request)
      BY <1>1, <1>7 DEF OfficeRequest, StatusRequest, OfficeKnows, SubmitRead, maySubmit
    <2> QED  BY <1>2, <1>4, <1>7, <2>1 DEF SubmitRead
  <1>8. ASSUME NEW u \in Users, NEW p \in Published, ChapterRead(c, u, p) PROVE OfficeInv'
    <2> DEFINE request == [pc |-> "chapter_insert", id |-> p, number |-> nextNumber(p)]
    <2>1. nextNumber(p) = Len(numbers[p]) + 1 /\ Len(numbers[p]) \in Nat
      BY <1>1, NextNumberIsNext DEF OfficeInv
    <2>2. nextNumber(p) \in 1 .. MaxChapters
      BY <1>8, <2>1, OfficeAssumption DEF ChapterRead
    <2>3. request \in OfficeRequest /\ OfficeKnows(request)
      BY <1>1, <2>1, <2>2 DEF OfficeRequest, ChapterRequest, OfficeKnows
    <2> QED  BY <1>2, <1>4, <1>8, <2>3 DEF ChapterRead
  <1>9. ASSUME NEW u \in Users, NEW p \in Published, ReportRead(c, p, u) PROVE OfficeInv'
    <2> DEFINE request == [pc |-> "report_insert", id |-> p, user |-> u]
    <2>1. <<p, u>> \in edited
      BY <1>9 DEF ReportRead, OfficeInv, OfficeTables, OfficeTableTypes, assertActiveEditorForSeries
    <2>2. request \in OfficeRequest /\ OfficeKnows(request)
      BY <1>1, <2>1 DEF OfficeRequest, ReportRequest, OfficeKnows
    <2> QED  BY <1>2, <1>4, <1>9, <2>2 DEF ReportRead
  <1>10. ASSUME NEW u \in Users, NEW p \in Published, NEW k \in office.clerks, AssignRead(c, k, p, u)
         PROVE  OfficeInv'
    <2> DEFINE request == [pc |-> "assign_close", clerk |-> k, id |-> p, user |-> u]
    <2>1. request \in OfficeRequest /\ OfficeKnows(request)
      BY <1>1 DEF OfficeRequest, AssignRequest, OfficeKnows
    <2>2. savingSeries' \in [Clerks -> Proposals \cup {0}]
      BY <1>1, <1>3, <1>10 DEF AssignRead
    <2> QED  BY <1>4, <1>10, <2>1, <2>2 DEF AssignRead
  <1>11. ASSUME NEW p \in Proposed, StartRead(c, p) PROVE OfficeInv'
    <2> DEFINE request == [pc |-> "start_write", id |-> p]
    <2>1. proposal[p].status = "SUBMITTED"
      BY <1>11 DEF StartRead, canTransition, PROPOSAL_TRANSITIONS, mayStart
    <2>2. request \in OfficeRequest /\ OfficeKnows(request)
      BY <1>1, <2>1 DEF OfficeRequest, StatusRequest, OfficeKnows, OfficeInv, OfficeTables, Sampled, Absent
    <2> QED  BY <1>2, <1>4, <1>11, <2>2 DEF StartRead
  <1>12. ASSUME NEW p \in Proposed, NEW d \in {"APPROVED", "REJECTED"}, DecideRead(c, p, d)
         PROVE  OfficeInv'
    <2> DEFINE request == [pc |-> "decide_commit", id |-> p, decision |-> d]
    <2>1. proposal[p].status = "UNDER_REVIEW"
      BY <1>12 DEF DecideRead, mayDecide
    <2>2. request \in OfficeRequest /\ OfficeKnows(request)
      BY <1>1, <2>1 DEF OfficeRequest, DecideRequest, OfficeKnows, OfficeInv, OfficeTables, Sampled, Absent
    <2> QED  BY <1>2, <1>4, <1>12, <2>2 DEF DecideRead
  <1>13. ASSUME NEW p \in Published, NEW k \in office.clerks, UnassignCall(c, k, p) PROVE OfficeInv'
    <2> DEFINE request == [pc |-> "unassign_close", clerk |-> k, id |-> p]
    <2>1. request \in OfficeRequest /\ OfficeKnows(request)
      BY <1>1 DEF OfficeRequest, UnassignRequest, OfficeKnows
    <2>2. savingSeries' \in [Clerks -> Proposals \cup {0}]
      BY <1>1, <1>3, <1>13 DEF UnassignCall
    <2> QED  BY <1>4, <1>13, <2>1, <2>2 DEF UnassignCall
  <1> QED  BY <1>5, <1>6, <1>7, <1>8, <1>9, <1>10, <1>11, <1>12, <1>13, ProposalCreateKeeps DEF OfficeCall

-----------------------------------------------------------------------------
\* A new account has the profile of its role.
LEMMA UserInsertKeeps ==
    ASSUME OfficeInv, NEW c \in Slots, UserInsert(c), UNCHANGED office
    PROVE  OfficeInv'
  <1> USE DEF officeTables, accountTables, editorTables
  <1>1. slot[c] \in UserRequest
    BY OfficeRequestShapes DEF OfficeInv, UserInsert, At
  <1>2. slot[c].user \in Users /\ slot[c].role \in Role
    BY <1>1 DEF UserRequest
  <1>3. profileTable(slot[c].role) \in SUBSET Role
    BY <1>2 DEF profileTable
  <1>4. UNCHANGED <<worked, proposal, series, editorTables, numbers, savingSeries>> /\ Finish(c)
    BY DEF UserInsert
  <1>5. OfficeTableTypes'
    <2>1. role' \in [Users -> Role \cup {Nobody}] /\ activated' \subseteq Users
          /\ profiles' \in [Users -> SUBSET Role]
      BY <1>2, <1>3 DEF UserInsert, OfficeInv, OfficeTables, OfficeTableTypes
    <2> QED  BY <1>4, <2>1 DEF OfficeInv, OfficeTables, OfficeTableTypes
  <1>6. ProfilesFit'
    BY <1>2 DEF UserInsert, OfficeInv, OfficeTables, OfficeTableTypes, ProfilesFit
  <1>7. Proposed' = Proposed /\ Published' = Published
    BY <1>4 DEF Proposed, Published
  <1>8. OfficeTables'
    BY <1>4, <1>5, <1>6, <1>7 DEF OfficeInv, OfficeTables, Sampled, ChaptersAreNumbered
  <1>9. \A p \in Proposals : Len(numbers[p]) <= Len(numbers'[p])
    BY <1>4 DEF OfficeInv, OfficeTables, OfficeTableTypes
  <1> QED  BY <1>4, <1>7, <1>8, <1>9, OfficeFinishStep DEF OfficeInv

\* A proposal takes the next id, to which no series and no request belongs.
LEMMA ProposalInsertKeeps ==
    ASSUME OfficeInv, NEW c \in Slots, ProposalInsert(c), UNCHANGED office
    PROVE  OfficeInv'
  <1> USE DEF officeTables, accountTables, editorTables
  <1>0. PICK p, request :
            /\ p = Cardinality(Proposed) + 1
            /\ request = IF slot[c].file THEN [pc |-> "upload_read", id |-> p, user |-> slot[c].user]
                         ELSE Idle
    OBVIOUS
  <1>1. slot[c] \in CreateRequest /\ slot[c].pc = "create_insert"
    BY OfficeRequestShapes DEF OfficeInv, ProposalInsert, At
  <1>2. slot[c].user \in Users /\ slot[c].user # Nobody
    BY <1>1, OfficeAssumption DEF CreateRequest
  <1>3. /\ proposal' = [proposal EXCEPT ![p] = [by |-> slot[c].user, status |-> "DRAFT", sample |-> FALSE]]
        /\ slot' = [slot EXCEPT ![c] = request]
        /\ UNCHANGED <<accountTables, series, editorTables, numbers, savingSeries>>
    BY <1>0 DEF ProposalInsert, Become, Finish
  <1>4. /\ c \in Creating /\ IsFiniteSet(Creating \ {c})
        /\ Cardinality(Creating \ {c}) = Cardinality(Creating) - 1
        /\ Cardinality(Creating) \in Nat /\ Cardinality(Creating \ {c}) \in Nat
        /\ Cardinality(Proposed) \in Nat
    <2>1. c \in Creating
      BY <1>1 DEF Creating, At
    <2> QED  BY <2>1, FS_RemoveElement, FS_CardinalityType DEF OfficeInv, ProposalsInOrder
  <1>5. p \in Proposals /\ p \notin Proposed /\ p \notin Published
    <2>1. office.proposals \in 1 .. MaxProposals /\ MaxProposals \in Nat
      BY OfficeAssumption DEF OfficeInv, Proposals
    <2>2. p \in Proposals /\ p \notin Proposed
      BY <1>0, <1>4, <2>1 DEF OfficeInv, ProposalsInOrder, Proposals
    <2> QED  BY <2>2 DEF OfficeInv, OfficeTables, Sampled
  <1>6. request \in OfficeRequest /\ request.pc # "create_insert"
    BY <1>0, <1>1, <1>2, <1>5 DEF OfficeRequest, UploadRequest, Idle
  <1>7. /\ proposal' \in [Proposals -> [by : Users \cup {Nobody}, sample : BOOLEAN,
                                        status : ProposalStatus \cup {Absent}]]
        /\ proposal'[p].by # Nobody /\ proposal'[p].status = "DRAFT"
        /\ \A q \in Proposals \ {p} : proposal'[q] = proposal[q]
    BY <1>2, <1>3, <1>5 DEF OfficeInv, OfficeTables, OfficeTableTypes, ProposalStatus
  <1>8. Proposed' = Proposed \cup {p} /\ Published' = Published
    BY <1>3, <1>5, <1>7 DEF Proposed, Published
  <1>9. OfficeTables'
    <2>1. OfficeTableTypes'
      BY <1>3, <1>7 DEF OfficeInv, OfficeTables, OfficeTableTypes
    <2>2. Sampled'
      <3>1. (\A q \in Proposals : proposal[q].status \notin {Absent, "DRAFT"} => proposal[q].sample)'
        BY <1>7 DEF OfficeInv, OfficeTables, Sampled
      <3>2. (\A q \in Published : q \in Proposed /\ proposal[q].sample)'
        <4>1. Published \subseteq Proposals \ {p}
          BY <1>5 DEF Published
        <4> QED  BY <1>7, <1>8, <4>1 DEF OfficeInv, OfficeTables, Sampled
      <3>3. (\A q \in Proposed : proposal[q].status = "APPROVED" => q \in Published)'
        <4>1. Proposed \subseteq Proposals \ {p}
          BY <1>5 DEF Proposed
        <4> QED  BY <1>7, <1>8, <4>1 DEF OfficeInv, OfficeTables, Sampled
      <3> QED  BY <3>1, <3>2, <3>3 DEF Sampled
    <2>3. ProfilesFit' /\ ChaptersAreNumbered'
      BY <1>3 DEF OfficeInv, OfficeTables, ProfilesFit, ChaptersAreNumbered
    <2> QED  BY <2>1, <2>2, <2>3 DEF OfficeTables
  <1>10. \A q \in OfficeRequest : OfficeKnows(q) => OfficeKnows(q)'
    <2>1. \A q \in Proposals : Len(numbers[q]) <= Len(numbers'[q])
      BY <1>3 DEF OfficeInv, OfficeTables, OfficeTableTypes
    <2>2. \A q \in Proposed : proposal[q].sample => proposal'[q].sample
      BY <1>5, <1>7 DEF Proposed
    <2> QED  BY <1>3, <1>8, <1>9, <2>1, <2>2, OfficeKnownStays DEF OfficeInv
  <1>11. slot' \in [Slots -> OfficeRequest] /\ \A d \in Slots : slot'[d] = IF d = c THEN request ELSE slot[d]
    BY <1>3, <1>6 DEF OfficeInv
  <1>12. (\A d \in Slots : OfficeKnows(slot[d]))'
    <2> SUFFICES ASSUME NEW d \in Slots PROVE OfficeKnows(slot[d])'
      OBVIOUS
    <2>1. CASE d = c
      BY <1>0, <1>8, <1>11, <2>1 DEF OfficeKnows, Idle
    <2>2. CASE d # c
      <3>1. PICK q \in OfficeRequest : q = slot[d]
        BY DEF OfficeInv
      <3>2. OfficeKnows(q)'
        BY <1>10, <3>1 DEF OfficeInv
      <3> QED  BY <1>11, <2>2, <3>1, <3>2 DEF OfficeKnows
    <2> QED  BY <2>1, <2>2
  <1>13. ProposalsInOrder'
    <2>1. Creating' = Creating \ {c}
      BY <1>6, <1>11 DEF Creating, At
    <2>2. IsFiniteSet(Proposed') /\ Cardinality(Proposed') = Cardinality(Proposed) + 1
      BY <1>5, <1>8, FS_AddElement DEF OfficeInv, ProposalsInOrder
    <2>3. Proposed' = 1 .. Cardinality(Proposed')
      BY <1>0, <1>4, <1>8, <2>2 DEF OfficeInv, ProposalsInOrder
    <2> QED  BY <1>4, <2>1, <2>2, <2>3 DEF OfficeInv, ProposalsInOrder
  <1> QED  BY <1>3, <1>9, <1>11, <1>12, <1>13 DEF OfficeInv

\* The upload of a sample reads the proposal, and writes that it has one.
LEMMA SampleReadKeeps ==
    ASSUME OfficeInv, NEW c \in Slots, SampleRead(c), UNCHANGED office
    PROVE  OfficeInv'
  <1>1. slot[c] \in OfficeRequest /\ slot[c] \in UploadRequest /\ OfficeKnows(slot[c])
    BY OfficeRequestShapes DEF OfficeInv, SampleRead, At
  <1>2. PICK request : request = [slot[c] EXCEPT !.pc = "upload_write"]
    OBVIOUS
  <1>3. request \in OfficeRequest /\ request.pc # "create_insert" /\ OfficeKnows(request)
    BY <1>1, <1>2 DEF OfficeRequest, UploadRequest, OfficeKnows
  <1>4. savingSeries' \in [Clerks -> Proposals \cup {0}] /\ UNCHANGED <<officeTables, office>>
    BY DEF OfficeInv, SampleRead
  <1>5. CASE Finish(c)
    BY <1>4, <1>5, OfficeFinishQuiet
  <1>6. CASE Goto(c, "upload_write")
    <2>1. slot' = [slot EXCEPT ![c] = request]
      BY <1>2, <1>6 DEF Goto, OfficeInv
    <2> QED  BY <1>3, <1>4, <2>1, OfficeQuietStep
  <1> QED  BY <1>5, <1>6 DEF SampleRead

\* A write of the row of one proposal, by a handler's last statement.
LEMMA ProposalStep ==
    ASSUME OfficeInv, NEW c \in Slots, NEW p \in Proposed, NEW row, Finish(c), UNCHANGED office,
           UNCHANGED <<accountTables, editorTables, numbers, savingSeries>>,
           proposal' = [proposal EXCEPT ![p] = row],
           row \in [by : Users \cup {Nobody}, sample : BOOLEAN, status : ProposalStatus \cup {Absent}],
           row.by = proposal[p].by, proposal[p].sample => row.sample,
           row.status \notin {Absent, "DRAFT"} => row.sample,
           row.status = "APPROVED" => series'[p] # Absent,
           UNCHANGED series
               \/ (row.sample /\ series[p] = Absent /\ series' = [series EXCEPT ![p] = "ACTIVE"])
    PROVE  OfficeInv'
  <1> USE DEF accountTables, editorTables
  <1>1. p \in Proposals
    BY DEF Proposed
  <1>2. /\ proposal' \in [Proposals -> [by : Users \cup {Nobody}, sample : BOOLEAN,
                                        status : ProposalStatus \cup {Absent}]]
        /\ proposal'[p] = row /\ \A q \in Proposals \ {p} : proposal'[q] = proposal[q]
    BY <1>1 DEF OfficeInv, OfficeTables, OfficeTableTypes
  <1>3. /\ series' \in [Proposals -> {Absent, "ACTIVE", "HIATUS"}]
        /\ \A q \in Proposals \ {p} : series'[q] = series[q]
        /\ series[p] # Absent => series'[p] # Absent
        /\ series'[p] # Absent => series[p] # Absent \/ row.sample
    <2>1. series \in [Proposals -> {Absent, "ACTIVE", "HIATUS"}] /\ Absent # "ACTIVE"
      BY DEF OfficeInv, OfficeTables, OfficeTableTypes, Absent
    <2>2. CASE UNCHANGED series
      BY <1>1, <2>1, <2>2
    <2>3. CASE row.sample /\ series[p] = Absent /\ series' = [series EXCEPT ![p] = "ACTIVE"]
      BY <1>1, <2>1, <2>3
    <2> QED  BY <2>2, <2>3
  <1>4. Proposed' = Proposed
    BY <1>1, <1>2 DEF Proposed
  <1>5. Sampled'
    <2>1. (\A q \in Proposals : proposal[q].status \notin {Absent, "DRAFT"} => proposal[q].sample)'
      BY <1>2 DEF OfficeInv, OfficeTables, Sampled
    <2>2. (\A q \in Published : q \in Proposed /\ proposal[q].sample)'
      BY <1>1, <1>2, <1>3, <1>4 DEF OfficeInv, OfficeTables, Sampled, Published
    <2>3. (\A q \in Proposed : proposal[q].status = "APPROVED" => q \in Published)'
      BY <1>1, <1>2, <1>3, <1>4 DEF OfficeInv, OfficeTables, Sampled, Published, Proposed
    <2> QED  BY <2>1, <2>2, <2>3 DEF Sampled
  <1>6. OfficeTableTypes'
    BY <1>2, <1>3 DEF OfficeInv, OfficeTables, OfficeTableTypes
  <1>7. ProfilesFit' /\ ChaptersAreNumbered'
    BY DEF OfficeInv, OfficeTables, ProfilesFit, ChaptersAreNumbered
  <1>8. OfficeTables'
    BY <1>5, <1>6, <1>7 DEF OfficeTables
  <1>9. \A q \in Proposals : Len(numbers[q]) <= Len(numbers'[q])
    BY DEF OfficeInv, OfficeTables, OfficeTableTypes
  <1>10. \A q \in Proposed : proposal[q].sample => proposal'[q].sample
    BY <1>2 DEF Proposed
  <1> QED  BY <1>4, <1>8, <1>9, <1>10, OfficeFinishStep DEF OfficeInv

\* A proposal that exists has a well-typed row.
LEMMA ProposalRow ==
    ASSUME OfficeInv, NEW p \in Proposed
    PROVE  /\ p \in Proposals
           /\ proposal[p] \in [by : Users \cup {Nobody}, sample : BOOLEAN,
                               status : ProposalStatus \cup {Absent}]
  <1> QED  BY DEF OfficeInv, OfficeTables, OfficeTableTypes, Proposed

\* The sample of a proposal is stored.
LEMMA SampleWriteKeeps ==
    ASSUME OfficeInv, NEW c \in Slots, SampleWrite(c), UNCHANGED office
    PROVE  OfficeInv'
  <1>1. slot[c].id \in Proposed
    BY DEF OfficeInv, SampleWrite, At, OfficeKnows
  <1>2. PICK p \in Proposed : p = slot[c].id
    BY <1>1
  <1>3. PICK row : row = [proposal[p] EXCEPT !.sample = TRUE]
    OBVIOUS
  <1>4. /\ row \in [by : Users \cup {Nobody}, sample : BOOLEAN, status : ProposalStatus \cup {Absent}]
        /\ row.by = proposal[p].by /\ row.sample /\ row.status = proposal[p].status
    BY <1>3, ProposalRow
  <1>5. proposal' = [proposal EXCEPT ![p] = row]
    BY <1>2, <1>3, ProposalRow DEF SampleWrite, OfficeInv, OfficeTables, OfficeTableTypes
  <1>6. row.status = "APPROVED" => series[p] # Absent
    BY <1>4 DEF OfficeInv, OfficeTables, Sampled, Published
  <1> QED  BY <1>4, <1>5, <1>6, ProposalStep DEF SampleWrite, accountTables, editorTables

\* The UPDATE of a status: of a proposal with a sample.
LEMMA StatusWriteKeeps ==
    ASSUME OfficeInv, NEW c \in Slots, SubmitWrite(c) \/ StartWrite(c), UNCHANGED office
    PROVE  OfficeInv'
  <1>1. slot[c].id \in Proposed /\ proposal[slot[c].id].sample
    BY DEF OfficeInv, SubmitWrite, StartWrite, StatusWrite, At, OfficeKnows
  <1>2. PICK p \in Proposed, to \in {"SUBMITTED", "UNDER_REVIEW"} :
            /\ p = slot[c].id
            /\ proposal' = [proposal EXCEPT ![p].status = to]
    BY <1>1 DEF SubmitWrite, StartWrite, StatusWrite
  <1>3. PICK row : row = [proposal[p] EXCEPT !.status = to]
    OBVIOUS
  <1>4. /\ row \in [by : Users \cup {Nobody}, sample : BOOLEAN, status : ProposalStatus \cup {Absent}]
        /\ row.by = proposal[p].by /\ row.sample /\ row.status = to
    BY <1>1, <1>2, <1>3, ProposalRow DEF ProposalStatus
  <1>5. proposal' = [proposal EXCEPT ![p] = row]
    BY <1>2, <1>3, ProposalRow DEF OfficeInv, OfficeTables, OfficeTableTypes
  <1>6. Finish(c) /\ UNCHANGED <<accountTables, series, editorTables, numbers, savingSeries>>
    BY DEF SubmitWrite, StartWrite, StatusWrite
  <1> QED  BY <1>4, <1>5, <1>6, ProposalStep DEF accountTables, editorTables

\* A decision, and the series that an approval creates.
LEMMA DecideCommitKeeps ==
    ASSUME OfficeInv, NEW c \in Slots, DecideCommit(c), UNCHANGED office
    PROVE  OfficeInv'
  <1>1. slot[c].id \in Proposed /\ proposal[slot[c].id].sample
    BY DEF OfficeInv, DecideCommit, At, OfficeKnows
  <1>2. PICK p \in Proposed : p = slot[c].id
    BY <1>1
  <1>3. Finish(c) /\ UNCHANGED <<accountTables, editorTables, numbers, savingSeries>>
    BY DEF DecideCommit
  <1>4. ASSUME NEW to \in {"APPROVED", "REJECTED"}, proposal' = [proposal EXCEPT ![p].status = to],
               to = "APPROVED" => series[p] = Absent /\ series' = [series EXCEPT ![p] = "ACTIVE"],
               to = "REJECTED" => UNCHANGED series
        PROVE  OfficeInv'
    <2>1. PICK row : row = [proposal[p] EXCEPT !.status = to]
      OBVIOUS
    <2>2. /\ row \in [by : Users \cup {Nobody}, sample : BOOLEAN, status : ProposalStatus \cup {Absent}]
          /\ row.by = proposal[p].by /\ row.sample /\ row.status = to
      BY <1>1, <1>2, <2>1, ProposalRow DEF ProposalStatus
    <2>3. proposal' = [proposal EXCEPT ![p] = row]
      BY <1>4, <2>1, ProposalRow DEF OfficeInv, OfficeTables, OfficeTableTypes
    <2>4. to = "APPROVED" => series'[p] # Absent
      BY <1>4, ProposalRow DEF OfficeInv, OfficeTables, OfficeTableTypes, Absent
    <2> QED  BY <1>3, <1>4, <2>2, <2>3, <2>4, ProposalStep
  <1>5. CASE UNCHANGED <<series, proposal>>
    <2>1. savingSeries' \in [Clerks -> Proposals \cup {0}]
      BY <1>3 DEF OfficeInv
    <2> QED  BY <1>3, <1>5, <2>1, OfficeFinishQuiet DEF officeTables, accountTables, editorTables
  <1> QED  BY <1>2, <1>4, <1>5 DEF DecideCommit

\* A number that is not taken is the next one.
LEMMA ChapterInsertKeeps ==
    ASSUME OfficeInv, NEW c \in Slots, ChapterInsert(c), UNCHANGED office
    PROVE  OfficeInv'
  <1>1. slot[c] \in OfficeRequest /\ slot[c] \in ChapterRequest /\ OfficeKnows(slot[c])
        /\ slot[c].pc = "chapter_insert"
    BY OfficeRequestShapes DEF OfficeInv, ChapterInsert, At
  <1>2. PICK p \in Proposals, n \in 1 .. MaxChapters : p = slot[c].id /\ n = slot[c].number
    BY <1>1 DEF ChapterRequest
  <1>3. /\ numbers[p] \in Seq(1 .. MaxChapters) /\ Len(numbers[p]) \in Nat
        /\ DOMAIN numbers[p] = 1 .. Len(numbers[p])
        /\ n \in Nat /\ n <= Len(numbers[p]) + 1
        /\ \A i \in 1 .. Len(numbers[p]) : numbers[p][i] = i
    <2>1. numbers[p] \in Seq(1 .. MaxChapters)
      BY DEF OfficeInv, OfficeTables, OfficeTableTypes
    <2>2. n <= Len(numbers[p]) + 1
      BY <1>1, <1>2 DEF OfficeKnows
    <2>3. n \in Nat
      BY OfficeAssumption
    <2>4. \A i \in DOMAIN numbers[p] : numbers[p][i] = i
      BY DEF OfficeInv, OfficeTables, ChaptersAreNumbered
    <2> QED  BY <2>1, <2>2, <2>3, <2>4
  <1>4. UNCHANGED <<accountTables, proposal, series, editorTables, savingSeries>> /\ Finish(c)
    BY DEF ChapterInsert
  <1>5. CASE \E i \in DOMAIN numbers[p] : numbers[p][i] = slot[c].number
    <2>1. UNCHANGED numbers
      BY <1>2, <1>5 DEF ChapterInsert
    <2>2. savingSeries' \in [Clerks -> Proposals \cup {0}]
      BY <1>4 DEF OfficeInv
    <2> QED  BY <1>4, <2>1, <2>2, OfficeFinishQuiet DEF officeTables
  <1>6. CASE ~ \E i \in DOMAIN numbers[p] : numbers[p][i] = slot[c].number
    <2>1. n = Len(numbers[p]) + 1
      BY <1>2, <1>3, <1>6
    <2>2. numbers' = [numbers EXCEPT ![p] = Append(numbers[p], n)]
      BY <1>2, <1>6 DEF ChapterInsert
    <2>3. DOMAIN numbers = Proposals
      BY DEF OfficeInv, OfficeTables, OfficeTableTypes
    <2>4. /\ DOMAIN numbers' = Proposals /\ numbers'[p] = Append(numbers[p], n)
          /\ \A q \in Proposals \ {p} : numbers'[q] = numbers[q]
      BY <2>2, <2>3
    <2>5. /\ numbers'[p] \in Seq(1 .. MaxChapters) /\ Len(numbers'[p]) = Len(numbers[p]) + 1
          /\ DOMAIN numbers'[p] = 1 .. Len(numbers[p]) + 1
          /\ \A i \in 1 .. Len(numbers[p]) + 1 : numbers'[p][i] = i
      BY <1>3, <2>1, <2>4, AppendProperties
    <2>6. ChaptersAreNumbered'
      BY <2>4, <2>5 DEF OfficeInv, OfficeTables, ChaptersAreNumbered
    <2>7. OfficeTableTypes'
      BY <1>4, <2>4, <2>5 DEF OfficeInv, OfficeTables, OfficeTableTypes, accountTables, editorTables
    <2>8. Sampled' /\ ProfilesFit' /\ Proposed' = Proposed
      BY <1>4 DEF OfficeInv, OfficeTables, Sampled, ProfilesFit, Proposed, Published, accountTables
    <2>9. OfficeTables'
      BY <2>6, <2>7, <2>8 DEF OfficeTables
    <2>10. \A q \in Proposals : Len(numbers[q]) <= Len(numbers'[q])
      <3> SUFFICES ASSUME NEW q \in Proposals PROVE Len(numbers[q]) <= Len(numbers'[q])
        OBVIOUS
      <3>1. Len(numbers[q]) \in Nat
        BY DEF OfficeInv, OfficeTables, OfficeTableTypes
      <3> QED  BY <1>3, <2>4, <2>5, <3>1
    <2> QED  BY <1>4, <2>8, <2>9, <2>10, OfficeFinishStep DEF OfficeInv, editorTables
  <1> QED  BY <1>5, <1>6

\* The rows of editors, as long as an open row is a row and a report is an editor's.
LEMMA EditorTablesStay ==
    ASSUME OfficeInv, UNCHANGED <<accountTables, proposal, series, numbers>>,
           editing' \subseteq edited', reported' \subseteq edited',
           edited \subseteq edited', edited' \subseteq Proposals \X Users
    PROVE  /\ OfficeTables' /\ Proposed' = Proposed
           /\ \A p \in Proposed : proposal[p].sample => proposal'[p].sample
           /\ \A p \in Proposals : Len(numbers[p]) <= Len(numbers'[p])
           /\ \A q \in OfficeRequest : OfficeKnows(q) => OfficeKnows(q)'
  <1> USE DEF accountTables
  <1>1. OfficeTables'
    BY DEF OfficeInv, OfficeTables, OfficeTableTypes, Sampled, ProfilesFit, ChaptersAreNumbered, Proposed, Published
  <1>2. Proposed' = Proposed /\ \A p \in Proposed : proposal[p].sample => proposal'[p].sample
    BY DEF Proposed
  <1>3. \A p \in Proposals : Len(numbers[p]) <= Len(numbers'[p])
    BY DEF OfficeInv, OfficeTables, OfficeTableTypes
  <1> QED  BY <1>1, <1>2, <1>3, OfficeKnownStays DEF OfficeInv

\* The open assignment of the series is closed.
LEMMA AssignCloseKeeps ==
    ASSUME OfficeInv, NEW c \in Slots, AssignClose(c), UNCHANGED office
    PROVE  OfficeInv'
  <1>1. slot[c] \in OfficeRequest /\ slot[c] \in AssignRequest /\ OfficeKnows(slot[c]) /\ slot[c].pc = "assign_close"
    BY OfficeRequestShapes DEF OfficeInv, AssignClose, At
  <1>2. PICK request : request = [slot[c] EXCEPT !.pc = "assign_insert"]
    OBVIOUS
  <1>3. request \in OfficeRequest /\ request.pc # "create_insert" /\ OfficeKnows(request)
    BY <1>1, <1>2 DEF OfficeRequest, AssignRequest, OfficeKnows
  <1>4. slot' = [slot EXCEPT ![c] = request]
    BY <1>2 DEF AssignClose, Goto, OfficeInv
  <1>5. /\ editing' \subseteq edited' /\ reported' \subseteq edited' /\ edited' = edited
        /\ edited \subseteq Proposals \X Users
    BY DEF AssignClose, OfficeInv, OfficeTables, OfficeTableTypes
  <1>6. savingSeries' \in [Clerks -> Proposals \cup {0}]
    BY DEF AssignClose, OfficeInv
  <1>7. OfficeTables' /\ Proposed' = Proposed /\ \A q \in OfficeRequest : OfficeKnows(q) => OfficeKnows(q)'
    BY <1>5, EditorTablesStay DEF AssignClose
  <1>8. OfficeKnows(request)'
    BY <1>3, <1>7
  <1> QED  BY <1>3, <1>4, <1>6, <1>7, <1>8, OfficeSlotStep

\* A clerk's request leaves his select enabled.
LEMMA SelectStays ==
    ASSUME OfficeInv, NEW k \in Clerks, SavingSeries(k, 0)
    PROVE  savingSeries' \in [Clerks -> Proposals \cup {0}]
  <1> QED  BY DEF SavingSeries, OfficeInv

\* The new editor is inserted, or one of his old rows is in the way.
LEMMA AssignInsertKeeps ==
    ASSUME OfficeInv, NEW c \in Slots, AssignInsert(c), UNCHANGED office
    PROVE  OfficeInv'
  <1>1. slot[c] \in AssignRequest
    BY OfficeRequestShapes DEF OfficeInv, AssignInsert, At
  <1>2. <<slot[c].id, slot[c].user>> \in Proposals \X Users /\ slot[c].clerk \in Clerks
    BY <1>1 DEF AssignRequest
  <1>3. savingSeries' \in [Clerks -> Proposals \cup {0}]
    BY <1>2, SelectStays DEF AssignInsert
  <1>4. /\ editing' \subseteq edited' /\ reported' \subseteq edited' /\ edited \subseteq edited'
        /\ edited' \subseteq Proposals \X Users
    BY <1>2 DEF AssignInsert, OfficeInv, OfficeTables, OfficeTableTypes
  <1>5. Finish(c) /\ UNCHANGED <<accountTables, proposal, series, numbers>>
    BY DEF AssignInsert
  <1> QED  BY <1>3, <1>4, <1>5, EditorTablesStay, OfficeFinishStep

\* The editor is taken off the series.
LEMMA UnassignCloseKeeps ==
    ASSUME OfficeInv, NEW c \in Slots, UnassignClose(c), UNCHANGED office
    PROVE  OfficeInv'
  <1>1. slot[c] \in UnassignRequest
    BY OfficeRequestShapes DEF OfficeInv, UnassignClose, At
  <1>2. savingSeries' \in [Clerks -> Proposals \cup {0}]
    BY <1>1, SelectStays DEF UnassignClose, UnassignRequest
  <1>3. /\ editing' \subseteq edited' /\ reported' \subseteq edited' /\ edited \subseteq edited'
        /\ edited' \subseteq Proposals \X Users
    BY DEF UnassignClose, OfficeInv, OfficeTables, OfficeTableTypes
  <1>4. Finish(c) /\ UNCHANGED <<accountTables, proposal, series, numbers>>
    BY DEF UnassignClose
  <1> QED  BY <1>2, <1>3, <1>4, EditorTablesStay, OfficeFinishStep

\* A defence report is inserted.
LEMMA ReportInsertKeeps ==
    ASSUME OfficeInv, NEW c \in Slots, ReportInsert(c), UNCHANGED office
    PROVE  OfficeInv'
  <1>1. <<slot[c].id, slot[c].user>> \in edited
    BY DEF OfficeInv, ReportInsert, At, OfficeKnows
  <1>2. /\ editing' \subseteq edited' /\ reported' \subseteq edited' /\ edited \subseteq edited'
        /\ edited' \subseteq Proposals \X Users
    BY <1>1 DEF ReportInsert, OfficeInv, OfficeTables, OfficeTableTypes
  <1>3. Finish(c) /\ UNCHANGED <<accountTables, proposal, series, numbers, savingSeries>>
    BY DEF ReportInsert
  <1> QED  BY <1>2, <1>3, EditorTablesStay, OfficeFinishStep DEF OfficeInv

\* A request of a clerk dies.
LEMMA ClerkFailsKeeps ==
    ASSUME OfficeInv, NEW c \in Slots, ClerkFails(c), UNCHANGED office
    PROVE  OfficeInv'
  <1>1. slot[c].clerk \in Clerks
    BY OfficeRequestShapes DEF OfficeInv, ClerkFails, AssignRequest, UnassignRequest
  <1>2. savingSeries' \in [Clerks -> Proposals \cup {0}]
    BY <1>1, SelectStays DEF ClerkFails
  <1> QED  BY <1>2, OfficeFinishQuiet DEF ClerkFails, Fail

\* Accounts change, and series are decided on, without a request in a slot.
LEMMA AccountStep ==
    ASSUME OfficeInv, UNCHANGED <<proposal, editorTables, numbers, savingSeries, slot, office>>,
           role' \in [Users -> Role \cup {Nobody}], activated' \subseteq Users,
           profiles' \in [Users -> SUBSET Role], worked' \subseteq Users, ProfilesFit',
           series' \in [Proposals -> {Absent, "ACTIVE", "HIATUS"}], Published' = Published
    PROVE  OfficeInv'
  <1> USE DEF editorTables
  <1>1. Proposed' = Proposed /\ Creating' = Creating
    BY DEF Proposed, Creating, At
  <1>2. OfficeTableTypes'
    BY DEF OfficeInv, OfficeTables, OfficeTableTypes
  <1>3. Sampled' /\ ChaptersAreNumbered'
    BY <1>1 DEF OfficeInv, OfficeTables, Sampled, ChaptersAreNumbered
  <1>4. (\A c \in Slots : OfficeKnows(slot[c]))'
    BY <1>1 DEF OfficeInv, OfficeKnows
  <1>5. ProposalsInOrder'
    BY <1>1 DEF OfficeInv, ProposalsInOrder
  <1> QED  BY <1>2, <1>3, <1>4, <1>5 DEF OfficeInv, OfficeTables

\* The change of a role takes the profile along.
LEMMA RoleChangeKeeps ==
    ASSUME OfficeInv, NEW u \in Users, NEW r \in Role, RoleChange(u, r), UNCHANGED office
    PROVE  OfficeInv'
  <1> USE DEF editorTables
  <1>1. role \in [Users -> Role \cup {Nobody}] /\ profiles \in [Users -> SUBSET Role] /\ ProfilesFit
    BY DEF OfficeInv, OfficeTables, OfficeTableTypes
  <1>2. profiles[u] = profileTable(role[u]) /\ profileTable(r) \in SUBSET Role
    BY <1>1 DEF ProfilesFit, profileTable
  <1>3. profiles' = [profiles EXCEPT ![u] = profileTable(r)]
    BY <1>1, <1>2 DEF RoleChange
  <1>4. role' = [role EXCEPT ![u] = r]
    BY DEF RoleChange
  <1>5. role' \in [Users -> Role \cup {Nobody}] /\ profiles' \in [Users -> SUBSET Role] /\ ProfilesFit'
    BY <1>1, <1>2, <1>3, <1>4 DEF ProfilesFit
  <1>6. UNCHANGED <<activated, worked, proposal, series, editorTables, numbers, savingSeries, slot>>
    BY DEF RoleChange
  <1>7. Published' = Published
    BY <1>6 DEF Published
  <1> QED  BY <1>5, <1>6, <1>7, AccountStep DEF OfficeInv, OfficeTables, OfficeTableTypes

\* An account is locked or unlocked, or its owner works elsewhere.
LEMMA AccountKeeps ==
    ASSUME OfficeInv, NEW u \in Users, ActivationChange(u) \/ Works(u), UNCHANGED office
    PROVE  OfficeInv'
  <1>1. UNCHANGED <<role, profiles, proposal, series, editorTables, numbers, savingSeries, slot>>
    BY DEF ActivationChange, Works
  <1>2. activated' \subseteq Users /\ worked' \subseteq Users
    BY DEF ActivationChange, Works, OfficeInv, OfficeTables, OfficeTableTypes
  <1>3. ProfilesFit' /\ Published' = Published
    BY <1>1 DEF OfficeInv, OfficeTables, ProfilesFit, Published
  <1> QED  BY <1>1, <1>2, <1>3, AccountStep DEF OfficeInv, OfficeTables, OfficeTableTypes

\* The status of a series changes.
LEMMA SeriesDecidedKeeps ==
    ASSUME OfficeInv, NEW p \in Published, SeriesDecided(p), UNCHANGED office
    PROVE  OfficeInv'
  <1>1. UNCHANGED <<role, activated, profiles, worked, proposal, editorTables, numbers, savingSeries, slot>>
    BY DEF SeriesDecided, accountTables
  <1>2. series \in [Proposals -> {Absent, "ACTIVE", "HIATUS"}] /\ Absent \notin {"ACTIVE", "HIATUS"}
    BY DEF OfficeInv, OfficeTables, OfficeTableTypes, Absent
  <1>3. series' \in [Proposals -> {Absent, "ACTIVE", "HIATUS"}] /\ Published' = Published
    BY <1>2 DEF SeriesDecided, Published
  <1>4. ProfilesFit'
    BY <1>1 DEF OfficeInv, OfficeTables, ProfilesFit
  <1> QED  BY <1>1, <1>3, <1>4, AccountStep DEF OfficeInv, OfficeTables, OfficeTableTypes

-----------------------------------------------------------------------------
\* Every step keeps the invariant.
LEMMA OfficeNextKeeps == OfficeInv /\ [OfficeNext]_officeVars => OfficeInv'
  <1> SUFFICES ASSUME OfficeInv, [OfficeNext]_officeVars PROVE OfficeInv'
    OBVIOUS
  <1>1. CASE UNCHANGED officeVars
    BY <1>1 DEF officeVars, officeTables, accountTables, editorTables, requestVars, OfficeInv, OfficeTables,
                OfficeTableTypes, Sampled, ProfilesFit, ChaptersAreNumbered, Proposed, Published, OfficeKnows,
                ProposalsInOrder, Creating, At
  <1>2. ASSUME NEW c \in Slots, OfficeStep(c), UNCHANGED office PROVE OfficeInv'
    <2>1. CASE /\ slot[c].pc \notin {"assign_close", "assign_insert", "unassign_close"}
               /\ Fail(c)
               /\ UNCHANGED <<officeTables, savingSeries>>
      BY <1>2, <2>1, OfficeFinishQuiet DEF Fail, OfficeInv
    <2> QED  BY <1>2, <2>1, UserInsertKeeps, ProposalInsertKeeps, SampleReadKeeps, SampleWriteKeeps,
                StatusWriteKeeps, DecideCommitKeeps, ChapterInsertKeeps, AssignCloseKeeps,
                AssignInsertKeeps, UnassignCloseKeeps, ReportInsertKeeps, ClerkFailsKeeps
             DEF OfficeStep
  <1>3. CASE OfficeNext
    BY <1>2, <1>3, OfficeCallKeeps, RoleChangeKeeps, AccountKeeps, SeriesDecidedKeeps DEF OfficeNext
  <1> QED  BY <1>1, <1>3

\* Whatever interleaves or dies, requests know their rows, and the tables are in order.
THEOREM OfficeInvariant == OfficeSpec => []OfficeInv
  <1> QED  BY InitOfficeInv, OfficeNextKeeps, PTL DEF OfficeSpec

\* One request at a time: the row a request has read has not changed since.
OfficeAlone == \A c, d \in Slots : ~At(c, "idle") /\ ~At(d, "idle") => c = d

OfficeTold(q) ==
    /\ q.pc = "submit_write" => proposal[q.id].status = "DRAFT"
    /\ q.pc = "start_write" => proposal[q.id].status = "SUBMITTED"
    /\ q.pc = "decide_commit" => proposal[q.id].status = "UNDER_REVIEW"
    /\ q.pc = "create_insert" => role[q.user] = "MANGAKA"
    /\ q.pc \in {"assign_close", "assign_insert", "report_insert"} => role[q.user] = "TANTOU_EDITOR"

\* Nobody has rows of a role that is not his, and every series an approved proposal.
RolesKept ==
    /\ \A p \in Proposed : role[proposal[p].by] = "MANGAKA"
    /\ \A e \in edited : role[e[2]] = "TANTOU_EDITOR"
    /\ \A u \in worked : role[u] \in {"ASSISTANT", "EDITORIAL_BOARD"}
SeriesApproved == \A p \in Published : proposal[p].status = "APPROVED"

OfficeTurn == OfficeAlone /\ (\A c \in Slots : OfficeTold(slot[c])) /\ RolesKept /\ SeriesApproved
OfficeTurnInv == InTurn => OfficeTurn

\* Before the first request.
LEMMA OfficeInitTurn == OfficeInit => OfficeTurn
  <1> SUFFICES ASSUME OfficeInit PROVE OfficeTurn
    OBVIOUS
  <1> USE DEF OfficeInit, OfficeStart, RequestsInit
  <1>1. Proposed = {} /\ Published = {} /\ edited = {} /\ worked = {}
    BY DEF Proposed, Published, NoProposal
  <1>2. \A c \in Slots : OfficeTold(slot[c]) /\ At(c, "idle")
    BY DEF OfficeTold, Idle, At
  <1> QED  BY <1>1, <1>2 DEF OfficeTurn, OfficeAlone, RolesKept, SeriesApproved

\* A step of the one request.
LEMMA OfficeTurnStep ==
    ASSUME OfficeInv, NEW c \in Slots, \A d \in Slots \ {c} : At(d, "idle"), NEW request,
           slot' = [slot EXCEPT ![c] = request], OfficeTold(request)', RolesKept', SeriesApproved'
    PROVE  OfficeTurn'
  <1>1. \A d \in Slots : slot'[d] = IF d = c THEN request ELSE slot[d]
    BY DEF OfficeInv
  <1>2. (\A d \in Slots : OfficeTold(slot[d]))'
    BY <1>1 DEF OfficeTold, At
  <1>3. OfficeAlone'
    BY <1>1 DEF OfficeAlone, At
  <1> QED  BY <1>2, <1>3 DEF OfficeTurn

\* A step of it that writes nothing.
LEMMA OfficeQuietTurn ==
    ASSUME OfficeInv, OfficeTurn, NEW c \in Slots, \A d \in Slots \ {c} : At(d, "idle"), NEW request,
           slot' = [slot EXCEPT ![c] = request], OfficeTold(request), UNCHANGED officeTables
    PROVE  OfficeTurn'
  <1> USE DEF officeTables, accountTables, editorTables
  <1>1. OfficeTold(request)'
    BY DEF OfficeTold
  <1>2. RolesKept' /\ SeriesApproved'
    BY DEF OfficeTurn, RolesKept, SeriesApproved, Proposed, Published
  <1> QED  BY <1>1, <1>2, OfficeTurnStep

\* Its last step.
LEMMA OfficeFinishTurn ==
    ASSUME OfficeInv, OfficeTurn, NEW c \in Slots, ~At(c, "idle"), Finish(c), RolesKept', SeriesApproved'
    PROVE  OfficeTurn'
  <1>1. \A d \in Slots \ {c} : At(d, "idle")
    BY DEF OfficeTurn, OfficeAlone
  <1>2. OfficeTold(Idle)'
    BY DEF OfficeTold, Idle
  <1> QED  BY <1>1, <1>2, OfficeTurnStep DEF Finish

\* A call remembers what it has read.
LEMMA OfficeCallTurn ==
    ASSUME OfficeInv, OfficeTurn, InTurn, NEW c \in Slots, OfficeCall(c)
    PROVE  OfficeTurn'
  <1>1. ASSUME NEW request, Enter(c, request), OfficeTold(request), UNCHANGED officeTables PROVE OfficeTurn'
    <2>1. \A d \in Slots \ {c} : At(d, "idle")
      BY <1>1 DEF Enter, Quiet
    <2> QED  BY <1>1, <2>1, OfficeQuietTurn DEF Enter
  <1>2. ASSUME NEW u \in Users, NEW r \in Role, UserRead(c, u, r) PROVE OfficeTurn'
    <2>1. OfficeTold([pc |-> "create_user", user |-> u, role |-> r])
      BY DEF OfficeTold
    <2> QED  BY <1>1, <1>2, <2>1 DEF UserRead
  <1>3. ASSUME NEW u \in Users, NEW file \in BOOLEAN, ProposalCreate(c, u, file) PROVE OfficeTurn'
    <2>1. OfficeTold([pc |-> "create_insert", user |-> u, file |-> file])
      BY <1>3 DEF OfficeTold, ProposalCreate, Allowed
    <2> QED  BY <1>1, <1>3, <2>1 DEF ProposalCreate
  <1>4. ASSUME NEW u \in Users, NEW p \in Proposed, SampleCall(c, u, p) PROVE OfficeTurn'
    <2>1. OfficeTold([pc |-> "upload_read", id |-> p, user |-> u])
      BY DEF OfficeTold
    <2> QED  BY <1>1, <1>4, <2>1 DEF SampleCall
  <1>5. ASSUME NEW u \in Users, NEW p \in Proposed, SubmitRead(c, u, p) PROVE OfficeTurn'
    <2>1. proposal[p].status = "DRAFT"
      BY <1>5 DEF SubmitRead, canTransition, PROPOSAL_TRANSITIONS, maySubmit
    <2>2. OfficeTold([pc |-> "submit_write", id |-> p])
      BY <2>1 DEF OfficeTold
    <2> QED  BY <1>1, <1>5, <2>2 DEF SubmitRead
  <1>6. ASSUME NEW u \in Users, NEW p \in Published, ChapterRead(c, u, p) PROVE OfficeTurn'
    <2>1. OfficeTold([pc |-> "chapter_insert", id |-> p, number |-> nextNumber(p)])
      BY DEF OfficeTold
    <2> QED  BY <1>1, <1>6, <2>1 DEF ChapterRead
  <1>7. ASSUME NEW u \in Users, NEW p \in Published, ReportRead(c, p, u) PROVE OfficeTurn'
    <2>1. OfficeTold([pc |-> "report_insert", id |-> p, user |-> u])
      BY <1>7 DEF OfficeTold, ReportRead, Allowed
    <2> QED  BY <1>1, <1>7, <2>1 DEF ReportRead
  <1>8. ASSUME NEW u \in Users, NEW p \in Published, NEW k \in office.clerks, AssignRead(c, k, p, u)
        PROVE  OfficeTurn'
    <2>1. OfficeTold([pc |-> "assign_close", clerk |-> k, id |-> p, user |-> u])
      BY <1>8 DEF OfficeTold, AssignRead, Allowed
    <2> QED  BY <1>1, <1>8, <2>1 DEF AssignRead
  <1>9. ASSUME NEW p \in Proposed, StartRead(c, p) PROVE OfficeTurn'
    <2>1. proposal[p].status = "SUBMITTED"
      BY <1>9 DEF StartRead, canTransition, PROPOSAL_TRANSITIONS, mayStart
    <2>2. OfficeTold([pc |-> "start_write", id |-> p])
      BY <2>1 DEF OfficeTold
    <2> QED  BY <1>1, <1>9, <2>2 DEF StartRead
  <1>10. ASSUME NEW p \in Proposed, NEW d \in {"APPROVED", "REJECTED"}, DecideRead(c, p, d) PROVE OfficeTurn'
    <2>1. OfficeTold([pc |-> "decide_commit", id |-> p, decision |-> d])
      BY <1>10 DEF OfficeTold, DecideRead, mayDecide
    <2> QED  BY <1>1, <1>10, <2>1 DEF DecideRead
  <1>11. ASSUME NEW p \in Published, NEW k \in office.clerks, UnassignCall(c, k, p) PROVE OfficeTurn'
    <2>1. OfficeTold([pc |-> "unassign_close", clerk |-> k, id |-> p])
      BY DEF OfficeTold
    <2> QED  BY <1>1, <1>11, <2>1 DEF UnassignCall
  <1> QED  BY <1>2, <1>3, <1>4, <1>5, <1>6, <1>7, <1>8, <1>9, <1>10, <1>11 DEF OfficeCall

\* The statements of the one request.
LEMMA ProposalInsertTurn ==
    ASSUME OfficeInv, OfficeTurn, NEW c \in Slots, ProposalInsert(c), UNCHANGED office
    PROVE  OfficeTurn'
  <1> USE DEF accountTables, editorTables
  <1>1. PICK p, request :
            /\ p = Cardinality(Proposed) + 1
            /\ request = IF slot[c].file THEN [pc |-> "upload_read", id |-> p, user |-> slot[c].user]
                         ELSE Idle
    OBVIOUS
  <1>2. /\ slot' = [slot EXCEPT ![c] = request]
        /\ proposal' = [proposal EXCEPT ![p] = [by |-> slot[c].user, status |-> "DRAFT", sample |-> FALSE]]
        /\ UNCHANGED <<accountTables, series, editorTables, numbers, savingSeries>>
    BY <1>1 DEF ProposalInsert, Become, Finish
  <1>3. /\ \A d \in Slots \ {c} : At(d, "idle")
        /\ role[slot[c].user] = "MANGAKA"
    BY DEF ProposalInsert, At, OfficeTurn, OfficeAlone, OfficeTold
  <1>4. p \notin Proposed
    <2>1. Cardinality(Proposed) \in Nat
      BY FS_CardinalityType DEF OfficeInv, ProposalsInOrder
    <2> QED  BY <1>1, <2>1 DEF OfficeInv, ProposalsInOrder
  <1>5. p \notin Published
    BY <1>4 DEF OfficeInv, OfficeTables, Sampled
  <1>6. \A q \in Proposals : proposal'[q] = IF q = p THEN [by |-> slot[c].user, status |-> "DRAFT", sample |-> FALSE]
                                            ELSE proposal[q]
    BY <1>2 DEF OfficeInv, OfficeTables, OfficeTableTypes
  <1>7. RolesKept'
    <2>1. \A q \in Proposed' : role[proposal'[q].by] = "MANGAKA"
      BY <1>3, <1>6 DEF Proposed, OfficeTurn, RolesKept
    <2> QED  BY <1>2, <2>1 DEF OfficeTurn, RolesKept
  <1>8. SeriesApproved'
    BY <1>2, <1>5, <1>6 DEF OfficeTurn, SeriesApproved, Published
  <1>9. OfficeTold(request)'
    BY <1>1 DEF OfficeTold, Idle
  <1> QED  BY <1>2, <1>3, <1>7, <1>8, <1>9, OfficeTurnStep

\* A write of a row of a proposal that has an approved status when its series is made.
LEMMA ProposalTurn ==
    ASSUME OfficeInv, OfficeTurn, NEW c \in Slots, ~At(c, "idle"), Finish(c), NEW p \in Proposed, NEW row,
           UNCHANGED <<accountTables, editorTables>>,
           proposal' = [proposal EXCEPT ![p] = row], row.by = proposal[p].by,
           \A q \in Proposals \ {p} : series'[q] = series[q],
           series'[p] # Absent => row.status = "APPROVED"
    PROVE  OfficeTurn'
  <1> USE DEF accountTables, editorTables
  <1>1. p \in Proposals /\ \A q \in Proposals : proposal'[q] = IF q = p THEN row ELSE proposal[q]
    BY DEF OfficeInv, OfficeTables, OfficeTableTypes, Proposed
  <1>2. RolesKept'
    <2>1. \A q \in Proposed' : role[proposal'[q].by] = "MANGAKA"
      BY <1>1 DEF Proposed, OfficeTurn, RolesKept
    <2> QED  BY <2>1 DEF OfficeTurn, RolesKept
  <1>3. SeriesApproved'
    BY <1>1 DEF OfficeTurn, SeriesApproved, Published
  <1> QED  BY <1>2, <1>3, OfficeFinishTurn

\* In turn, a proposal is as its request has read it when it is written.
LEMMA ProposalWritesTurn ==
    ASSUME OfficeInv, OfficeTurn, NEW c \in Slots,
           SampleWrite(c) \/ SubmitWrite(c) \/ StartWrite(c) \/ DecideCommit(c)
    PROVE  OfficeTurn'
  <1> USE DEF accountTables, editorTables
  <1>1. OfficeKnows(slot[c]) /\ OfficeTold(slot[c])
    BY DEF OfficeInv, OfficeTurn
  <1>2. ~At(c, "idle") /\ Finish(c) /\ UNCHANGED <<accountTables, editorTables>>
    BY DEF SampleWrite, SubmitWrite, StartWrite, StatusWrite, DecideCommit, At
  <1>3. slot[c].id \in Proposed
    BY <1>1 DEF SampleWrite, SubmitWrite, StartWrite, StatusWrite, DecideCommit, At, OfficeKnows
  <1>4. PICK p \in Proposed : p = slot[c].id
    BY <1>3
  <1>5. /\ proposal[p] \in [by : Users \cup {Nobody}, sample : BOOLEAN, status : ProposalStatus \cup {Absent}]
        /\ p \in Proposals /\ proposal \in [Proposals -> [by : Users \cup {Nobody}, sample : BOOLEAN,
                                                          status : ProposalStatus \cup {Absent}]]
    BY ProposalRow DEF OfficeInv, OfficeTables, OfficeTableTypes
  <1>6. series[p] # Absent => proposal[p].status = "APPROVED"
    BY <1>5 DEF OfficeTurn, SeriesApproved, Published
  <1>7. CASE SampleWrite(c)
    <2>1. PICK row : row = [proposal[p] EXCEPT !.sample = TRUE]
      OBVIOUS
    <2>2. row.by = proposal[p].by /\ row.status = proposal[p].status /\ proposal' = [proposal EXCEPT ![p] = row]
      BY <1>4, <1>5, <1>7, <2>1 DEF SampleWrite
    <2>3. UNCHANGED series
      BY <1>7 DEF SampleWrite
    <2> QED  BY <1>2, <1>6, <2>2, <2>3, ProposalTurn
  <1>8. ASSUME NEW to \in {"SUBMITTED", "UNDER_REVIEW", "APPROVED", "REJECTED"},
               proposal[p].status \in {"DRAFT", "SUBMITTED", "UNDER_REVIEW"},
               proposal' = [proposal EXCEPT ![p].status = to],
               \A q \in Proposals \ {p} : series'[q] = series[q],
               UNCHANGED series \/ to = "APPROVED"
        PROVE  OfficeTurn'
    <2>1. PICK row : row = [proposal[p] EXCEPT !.status = to]
      OBVIOUS
    <2>2. row.by = proposal[p].by /\ row.status = to /\ proposal' = [proposal EXCEPT ![p] = row]
      BY <1>5, <1>8, <2>1
    <2>3. series'[p] # Absent => row.status = "APPROVED"
      BY <1>6, <1>8, <2>2
    <2> QED  BY <1>2, <1>8, <2>2, <2>3, ProposalTurn
  <1>9. CASE SubmitWrite(c) \/ StartWrite(c)
    <2>1. proposal[p].status \in {"DRAFT", "SUBMITTED"}
      BY <1>1, <1>4, <1>9 DEF SubmitWrite, StartWrite, StatusWrite, At, OfficeTold
    <2>2. /\ UNCHANGED series
          /\ \/ proposal' = [proposal EXCEPT ![p].status = "SUBMITTED"]
             \/ proposal' = [proposal EXCEPT ![p].status = "UNDER_REVIEW"]
      BY <1>4, <1>9 DEF SubmitWrite, StartWrite, StatusWrite
    <2> QED  BY <1>8, <2>1, <2>2
  <1>10. CASE DecideCommit(c)
    <2>1. proposal[p].status = "UNDER_REVIEW"
      BY <1>1, <1>4, <1>10 DEF DecideCommit, At, OfficeTold
    <2>2. series[p] = Absent
      BY <1>6, <2>1
    <2>3. /\ \/ proposal' = [proposal EXCEPT ![p].status = "APPROVED"]
             \/ proposal' = [proposal EXCEPT ![p].status = "REJECTED"] /\ UNCHANGED series
          /\ \A q \in Proposals \ {p} : series'[q] = series[q]
      BY <1>4, <1>10, <2>2 DEF DecideCommit, OfficeInv, OfficeTables, OfficeTableTypes
    <2> QED  BY <1>8, <2>1, <2>3
  <1> QED  BY <1>7, <1>8, <1>9, <1>10

\* The other statements leave proposals and series alone.
LEMMA OtherStepsTurn ==
    ASSUME OfficeInv, OfficeTurn, NEW c \in Slots,
           \/ SampleRead(c) \/ UserInsert(c) \/ ChapterInsert(c) \/ AssignClose(c) \/ AssignInsert(c)
           \/ UnassignClose(c) \/ ReportInsert(c) \/ (Fail(c) /\ UNCHANGED officeTables)
    PROVE  OfficeTurn'
  <1> USE DEF officeTables, accountTables, editorTables
  <1>1. ~At(c, "idle") /\ \A d \in Slots \ {c} : At(d, "idle")
    BY DEF SampleRead, UserInsert, ChapterInsert, AssignClose, AssignInsert, UnassignClose,
           ReportInsert, Fail, At, OfficeTurn, OfficeAlone
  <1>2. slot[c] \in OfficeRequest /\ OfficeTold(slot[c])
    BY DEF OfficeInv, OfficeTurn
  <1>3. CASE UserInsert(c)
    <2>1. UNCHANGED <<worked, proposal, series, edited>> /\ Finish(c)
      BY <1>3 DEF UserInsert
    <2>2. \A u \in Users : role[u] = Nobody \/ role'[u] = role[u]
      BY <1>3 DEF UserInsert, OfficeInv, OfficeTables, OfficeTableTypes
    <2>3. /\ \A p \in Proposed : proposal[p].by \in Users
          /\ \A e \in edited : e[2] \in Users
          /\ worked \subseteq Users
      BY DEF Proposed, OfficeInv, OfficeTables, OfficeTableTypes
    <2>4. RolesKept'
      BY <2>1, <2>2, <2>3 DEF OfficeTurn, RolesKept, Proposed, Nobody
    <2>5. SeriesApproved'
      BY <2>1 DEF OfficeTurn, SeriesApproved, Published
    <2> QED  BY <1>1, <2>1, <2>4, <2>5, OfficeFinishTurn
  <1>4. CASE UnassignClose(c) \/ ChapterInsert(c) \/ ReportInsert(c) \/ (Fail(c) /\ UNCHANGED officeTables)
    <2>1. UNCHANGED <<role, worked, proposal, series, edited>> /\ Finish(c)
      BY <1>4 DEF UnassignClose, ChapterInsert, ReportInsert, Fail
    <2>2. RolesKept' /\ SeriesApproved'
      BY <2>1 DEF OfficeTurn, RolesKept, SeriesApproved, Proposed, Published
    <2> QED  BY <1>1, <2>1, <2>2, OfficeFinishTurn
  <1>5. CASE AssignInsert(c)
    <2>1. UNCHANGED <<role, worked, proposal, series>> /\ Finish(c)
      BY <1>5 DEF AssignInsert
    <2>2. \A e \in edited' : e \in edited \/ e = <<slot[c].id, slot[c].user>>
      BY <1>5 DEF AssignInsert
    <2>3. role[slot[c].user] = "TANTOU_EDITOR"
      BY <1>2, <1>5 DEF AssignInsert, At, OfficeTold
    <2>4. RolesKept' /\ SeriesApproved'
      BY <2>1, <2>2, <2>3 DEF OfficeTurn, RolesKept, SeriesApproved, Proposed, Published
    <2> QED  BY <1>1, <2>1, <2>4, OfficeFinishTurn
  <1>6. CASE AssignClose(c)
    <2>1. UNCHANGED <<role, worked, proposal, series, edited>>
      BY <1>6 DEF AssignClose
    <2>2. RolesKept' /\ SeriesApproved'
      BY <2>1 DEF OfficeTurn, RolesKept, SeriesApproved, Proposed, Published
    <2>3. PICK request : request = [slot[c] EXCEPT !.pc = "assign_insert"]
      OBVIOUS
    <2>4. slot' = [slot EXCEPT ![c] = request]
      BY <1>6, <2>3 DEF AssignClose, Goto, OfficeInv
    <2>5. slot[c].pc = "assign_close" /\ slot[c] \in AssignRequest
      BY <1>2, <1>6, OfficeRequestShapes DEF AssignClose, At
    <2>6. request.pc = "assign_insert" /\ request.user = slot[c].user
      BY <2>3, <2>5 DEF AssignRequest
    <2>7. OfficeTold(request)'
      BY <1>2, <2>1, <2>5, <2>6 DEF OfficeTold
    <2> QED  BY <1>1, <2>2, <2>4, <2>7, OfficeTurnStep
  <1>7. CASE SampleRead(c)
    <2>1. UNCHANGED officeTables
      BY <1>7 DEF SampleRead
    <2>2. RolesKept' /\ SeriesApproved'
      BY <2>1 DEF OfficeTurn, RolesKept, SeriesApproved, Proposed, Published
    <2>3. CASE Finish(c)
      BY <1>1, <2>2, <2>3, OfficeFinishTurn
    <2>4. CASE Goto(c, "upload_write")
      <3>1. PICK request : request = [slot[c] EXCEPT !.pc = "upload_write"]
        OBVIOUS
      <3>2. slot' = [slot EXCEPT ![c] = request]
        BY <2>4, <3>1 DEF Goto, OfficeInv
      <3>3. slot[c] \in UploadRequest
        BY <1>2, <1>7, OfficeRequestShapes DEF SampleRead, At
      <3>4. request.pc = "upload_write"
        BY <3>1, <3>3 DEF UploadRequest
      <3>5. OfficeTold(request)
        BY <3>4 DEF OfficeTold
      <3> QED  BY <1>1, <2>1, <3>2, <3>5, OfficeQuietTurn
    <2> QED  BY <1>7, <2>3, <2>4 DEF SampleRead
  <1> QED  BY <1>3, <1>4, <1>5, <1>6, <1>7

\* A role changes when no row depends on it, between two requests.
LEMMA AccountsTurn ==
    ASSUME OfficeInv, OfficeTurn, InTurn, NEW u \in Users,
           ActivationChange(u) \/ Works(u) \/ \E r \in Role : RoleChange(u, r)
    PROVE  OfficeTurn'
  <1> USE DEF editorTables
  <1>1. /\ UNCHANGED <<proposal, series, edited, slot>> /\ \A c \in Slots : At(c, "idle")
    BY DEF ActivationChange, Works, RoleChange, Quiet
  <1>2. OfficeAlone' /\ (\A c \in Slots : OfficeTold(slot[c]))'
    BY <1>1 DEF OfficeTurn, OfficeAlone, OfficeTold, At
  <1>3. SeriesApproved' /\ Proposed' = Proposed
    BY <1>1 DEF OfficeTurn, SeriesApproved, Published, Proposed
  <1>4. RolesKept'
    <2>1. CASE ActivationChange(u)
      BY <1>1, <1>3, <2>1 DEF ActivationChange, OfficeTurn, RolesKept
    <2>2. CASE Works(u)
      BY <1>1, <1>3, <2>2 DEF Works, Allowed, OfficeTurn, RolesKept
    <2>3. ASSUME NEW r \in Role, RoleChange(u, r) PROVE RolesKept'
      <3>1. /\ role[u] \in Role /\ assertRoleTransitionAllowed(u) /\ UNCHANGED worked
            /\ role' = [role EXCEPT ![u] = r] /\ role \in [Users -> Role \cup {Nobody}]
        BY <2>3 DEF RoleChange, creatableRoles, OfficeInv, OfficeTables, OfficeTableTypes, mayChangeRole
      <3>2. \A v : v # u => role'[v] = role[v]
        BY <3>1
      <3>3. \A p \in Proposed : proposal[p].by # u
        BY <3>1 DEF assertRoleTransitionAllowed, OfficeTurn, RolesKept
      <3>4. \A e \in edited : e[2] # u
        <4> SUFFICES ASSUME NEW e \in edited, e[2] = u PROVE FALSE
          OBVIOUS
        <4>1. role[u] = "TANTOU_EDITOR"
          BY DEF OfficeTurn, RolesKept
        <4>2. e[1] \in Proposals /\ e = <<e[1], u>>
          BY DEF OfficeInv, OfficeTables, OfficeTableTypes
        <4> QED  BY <3>1, <4>1, <4>2 DEF assertRoleTransitionAllowed
      <3>5. \A v \in worked : v # u
        BY <3>1 DEF assertRoleTransitionAllowed, OfficeTurn, RolesKept
      <3> QED  BY <1>1, <1>3, <3>1, <3>2, <3>3, <3>4, <3>5 DEF OfficeTurn, RolesKept
    <2> QED  BY <2>1, <2>2, <2>3
  <1> QED  BY <1>2, <1>3, <1>4 DEF OfficeTurn

\* In turn, no request is in flight when the status of a series changes.
LEMMA SeriesDecidedTurn ==
    ASSUME OfficeInv, OfficeTurn, InTurn, NEW p \in Published, SeriesDecided(p)
    PROVE  OfficeTurn'
  <1> USE DEF accountTables, editorTables
  <1>1. UNCHANGED <<role, worked, proposal, edited, slot>> /\ \A c \in Slots : At(c, "idle")
    BY DEF SeriesDecided, Quiet
  <1>2. Published' = Published /\ Proposed' = Proposed
    BY <1>1 DEF SeriesDecided, Published, Proposed, OfficeInv, OfficeTables, OfficeTableTypes, Absent
  <1> QED  BY <1>1, <1>2 DEF OfficeTurn, OfficeAlone, OfficeTold, At, RolesKept, SeriesApproved

\* Every step keeps what holds in turn.
LEMMA TurnNextKeeps == OfficeInv /\ OfficeTurnInv /\ [OfficeNext]_officeVars => OfficeTurnInv'
  <1> SUFFICES ASSUME OfficeInv, OfficeTurnInv, [OfficeNext]_officeVars, InTurn' PROVE OfficeTurn'
    BY DEF OfficeTurnInv
  <1>1. InTurn /\ OfficeTurn
    BY DEF OfficeNext, officeVars, requestVars, InTurn, OfficeTurnInv
  <1>2. CASE UNCHANGED officeVars
    BY <1>1, <1>2 DEF officeVars, officeTables, accountTables, editorTables, requestVars, OfficeTurn, OfficeAlone,
                      OfficeTold, RolesKept, SeriesApproved, Proposed, Published, At
  <1>3. ASSUME NEW c \in Slots, OfficeStep(c), UNCHANGED office PROVE OfficeTurn'
    <2>1. CASE ClerkFails(c) \/ (Fail(c) /\ UNCHANGED officeTables)
      BY <1>1, <2>1, OtherStepsTurn DEF ClerkFails
    <2>2. CASE ProposalInsert(c)
      BY <1>1, <1>3, <2>2, ProposalInsertTurn
    <2> QED  BY <1>1, <1>3, <2>1, <2>2, ProposalWritesTurn, OtherStepsTurn DEF OfficeStep
  <1>4. CASE OfficeNext
    BY <1>1, <1>3, <1>4, OfficeCallTurn, AccountsTurn, SeriesDecidedTurn DEF OfficeNext
  <1> QED  BY <1>2, <1>4

\* One request at a time, a request acts on what it has read.
THEOREM OfficeTurnInvariant == OfficeSpec => []OfficeTurnInv
  <1>1. OfficeInit => OfficeTurnInv
    BY OfficeInitTurn DEF OfficeTurnInv
  <1> QED  BY <1>1, TurnNextKeeps, OfficeInvariant, PTL DEF OfficeSpec

-----------------------------------------------------------------------------
\* The tables and the requests of the office keep their types.
THEOREM OfficeTypes == OfficeSpec => []OfficeTypeOK
  <1>1. OfficeInv => OfficeTypeOK
    BY OfficeRequestShapes DEF OfficeInv, OfficeTables, OfficeTableTypes, OfficeTypeOK
  <1> QED  BY <1>1, OfficeInvariant, PTL

\* Two chapters created at once from the same maximum do not get one number, nor leave one out.
THEOREM ChaptersStayNumbered == OfficeSpec => []ChaptersAreNumbered
  <1>1. OfficeInv => ChaptersAreNumbered
    BY DEF OfficeInv, OfficeTables
  <1> QED  BY <1>1, OfficeInvariant, PTL

\* An approved proposal has its series, a series a proposal with a sample; one request at a
\* time, an approved one.
THEOREM SeriesKeepProposal == OfficeSpec => []SeriesFollowsProposal
  <1>1. OfficeInv /\ OfficeTurnInv => SeriesFollowsProposal
    BY DEF OfficeInv, OfficeTables, Sampled, OfficeTurnInv, OfficeTurn, SeriesApproved, SeriesFollowsProposal
  <1> QED  BY <1>1, OfficeInvariant, OfficeTurnInvariant, PTL

\* One request at a time, whatever dies, nobody loses the role of the rows he has left.
THEOREM RolesKeepFitting == OfficeSpec => []RolesFitWork
  <1>1. OfficeInv /\ OfficeTurnInv => RolesFitWork
    BY DEF OfficeInv, OfficeTables, OfficeTableTypes, ProfilesFit, OfficeTurnInv, OfficeTurn, RolesKept, RolesFitWork
  <1> QED  BY <1>1, OfficeInvariant, OfficeTurnInvariant, PTL

-----------------------------------------------------------------------------
\* The requests of the page board/Series, when they come one after the other or from one
\* select: there is one of them, and between its two statements the series has no editor.
ClerkSteps == {"assign_close", "assign_insert", "unassign_close"}
Clerical(c) == slot[c].pc \in ClerkSteps
OneSelect == (\A k, l \in office.clerks : k = l) /\ (\A p, r \in Published : p = r)
Orderly == InTurn \/ OneSelect

ClerksKnow == \A c \in Slots : Clerical(c) => slot[c].clerk \in office.clerks /\ slot[c].id \in Published
SelectsWait == OneSelect => \A c \in Slots : Clerical(c) => savingSeries[slot[c].clerk] = slot[c].id
OneClerical == Orderly => \A c, d \in Slots : Clerical(c) /\ Clerical(d) => c = d
ClosedFirst == Orderly => \A c \in Slots : At(c, "assign_insert") => \A e \in editing : e[1] # slot[c].id
OneEditor == Orderly => \A e, f \in editing : e[1] = f[1] => e = f

EditorsInv == ClerksKnow /\ SelectsWait /\ OneClerical /\ ClosedFirst /\ OneEditor

\* Before the first request.
LEMMA InitEditors == OfficeInit => EditorsInv
  <1> SUFFICES ASSUME OfficeInit PROVE EditorsInv
    OBVIOUS
  <1>1. editing = {} /\ \A c \in Slots : slot[c] = Idle
    BY DEF OfficeInit, OfficeStart, RequestsInit
  <1> QED  BY <1>1 DEF EditorsInv, ClerksKnow, SelectsWait, OneClerical, ClosedFirst, OneEditor, Clerical,
                      ClerkSteps, At, Idle

\* A series that exists stays, so that what is orderly now was orderly before.
LEMMA OrderlyBefore ==
    ASSUME UNCHANGED <<office, mode>>, Published \subseteq Published'
    PROVE  (OneSelect' => OneSelect) /\ (Orderly' => Orderly)
  <1> QED  BY DEF OneSelect, Orderly, InTurn

\* Steps of the other requests.
LEMMA OtherEditors ==
    ASSUME OfficeInv, EditorsInv, NEW c \in Slots, ~Clerical(c), NEW request, request.pc \notin ClerkSteps,
           slot' = [slot EXCEPT ![c] = request], UNCHANGED <<office, mode, editing, savingSeries>>,
           Published \subseteq Published'
    PROVE  EditorsInv'
  <1>1. \A d \in Slots : slot'[d] = IF d = c THEN request ELSE slot[d]
    BY DEF OfficeInv
  <1>2. /\ \A d \in Slots : Clerical(d)' => Clerical(d) /\ slot'[d] = slot[d]
        /\ \A d \in Slots : At(d, "assign_insert")' => At(d, "assign_insert") /\ slot'[d] = slot[d]
    BY <1>1 DEF Clerical, At, ClerkSteps
  <1>3. ClerksKnow'
    BY <1>2 DEF EditorsInv, ClerksKnow
  <1>4. SelectsWait'
    BY <1>2, OrderlyBefore DEF EditorsInv, SelectsWait
  <1>5. OneClerical'
    BY <1>2, OrderlyBefore DEF EditorsInv, OneClerical
  <1>6. ClosedFirst'
    BY <1>2, OrderlyBefore DEF EditorsInv, ClosedFirst
  <1>7. OneEditor'
    BY OrderlyBefore DEF EditorsInv, OneEditor
  <1> QED  BY <1>3, <1>4, <1>5, <1>6, <1>7 DEF EditorsInv

\* Steps of the page's requests: of the only one, when they are orderly.
LEMMA ClericalStep ==
    ASSUME OfficeInv, EditorsInv, NEW c \in Slots, NEW request,
           slot' = [slot EXCEPT ![c] = request], UNCHANGED <<office, mode, series>>,
           Orderly => \A d \in Slots \ {c} : ~Clerical(d),
           request.pc \in ClerkSteps =>
               /\ request.clerk \in office.clerks /\ request.id \in Published
               /\ OneSelect => savingSeries'[request.clerk] = request.id,
           request.pc = "assign_insert" => \A e \in editing' : e[1] # request.id,
           OneEditor'
    PROVE  EditorsInv'
  <1>1. \A d \in Slots : slot'[d] = IF d = c THEN request ELSE slot[d]
    BY DEF OfficeInv
  <1>2. Published' = Published /\ (Orderly' => Orderly) /\ (OneSelect' => Orderly)
    BY DEF Published, OneSelect, Orderly, InTurn
  <1>3. \A d \in Slots : Clerical(d)' <=> IF d = c THEN request.pc \in ClerkSteps ELSE Clerical(d)
    BY <1>1 DEF Clerical
  <1>4. ClerksKnow'
    BY <1>1, <1>2, <1>3 DEF EditorsInv, ClerksKnow
  <1>5. SelectsWait'
    BY <1>1, <1>2, <1>3 DEF SelectsWait, OneSelect
  <1>6. OneClerical'
    BY <1>2, <1>3 DEF OneClerical
  <1>7. ClosedFirst'
    <2> SUFFICES ASSUME Orderly', NEW d \in Slots, At(d, "assign_insert")', NEW e \in editing'
                 PROVE  e[1] # slot'[d].id
      BY DEF ClosedFirst
    <2>1. Clerical(d)'
      BY DEF Clerical, At, ClerkSteps
    <2>2. d = c
      BY <1>2, <1>3, <2>1
    <2> QED  BY <1>1, <2>2 DEF At
  <1> QED  BY <1>4, <1>5, <1>6, <1>7 DEF EditorsInv

\* The select lets one request through.
LEMMA ClerkCallEditors ==
    ASSUME OfficeInv, EditorsInv, NEW c \in Slots, NEW k \in office.clerks, NEW p \in Published,
           SelectEnabled(k, p), SavingSeries(k, p), NEW request, Enter(c, request),
           request.pc \in {"assign_close", "unassign_close"}, request.clerk = k, request.id = p,
           UNCHANGED <<officeTables, office, mode>>
    PROVE  EditorsInv'
  <1> USE DEF officeTables, editorTables
  <1>1. Orderly => \A d \in Slots \ {c} : ~Clerical(d)
    <2> SUFFICES ASSUME Orderly, NEW d \in Slots \ {c}, Clerical(d) PROVE FALSE
      OBVIOUS
    <2>1. ~InTurn
      BY DEF Enter, Quiet, At, Clerical, ClerkSteps
    <2>2. OneSelect
      BY <2>1 DEF Orderly
    <2>3. slot[d].clerk = k /\ slot[d].id = p
      BY <2>2 DEF EditorsInv, ClerksKnow, OneSelect
    <2>4. savingSeries[k] = p
      BY <2>2, <2>3 DEF EditorsInv, SelectsWait
    <2> QED  BY <2>4 DEF SelectEnabled
  <1>2. savingSeries'[k] = p
    <2>1. k \in Clerks
      BY OfficeAssumption DEF OfficeInv
    <2> QED  BY <2>1 DEF SavingSeries, OfficeInv
  <1>3. OneEditor'
    BY DEF EditorsInv, OneEditor, Orderly, OneSelect, InTurn, Published
  <1> QED  BY <1>1, <1>2, <1>3, ClericalStep DEF Enter

\* The request that closes an assignment is the one that may insert the next.
LEMMA AssignCloseEditors ==
    ASSUME OfficeInv, EditorsInv, NEW c \in Slots, AssignClose(c), UNCHANGED <<office, mode>>
    PROVE  EditorsInv'
  <1>1. slot[c] \in AssignRequest /\ slot[c].pc = "assign_close"
    BY OfficeRequestShapes DEF OfficeInv, AssignClose, At
  <1>2. PICK request : request = [slot[c] EXCEPT !.pc = "assign_insert"]
    OBVIOUS
  <1>3. request.pc = "assign_insert" /\ request.clerk = slot[c].clerk /\ request.id = slot[c].id
    BY <1>1, <1>2 DEF AssignRequest
  <1>4. slot' = [slot EXCEPT ![c] = request]
    BY <1>2 DEF AssignClose, Goto, OfficeInv
  <1>5. editing' = {e \in editing : e[1] # slot[c].id} /\ UNCHANGED <<series, savingSeries>>
    BY DEF AssignClose
  <1>6. Clerical(c) /\ slot[c].clerk \in office.clerks /\ slot[c].id \in Published
    BY <1>1 DEF Clerical, ClerkSteps, EditorsInv, ClerksKnow
  <1>7. Orderly => \A d \in Slots \ {c} : ~Clerical(d)
    BY <1>6 DEF EditorsInv, OneClerical
  <1>8. OneEditor'
    BY <1>5 DEF EditorsInv, OneEditor, Orderly, OneSelect, InTurn, Published
  <1>9. \A e \in editing' : e[1] # request.id
    BY <1>3, <1>5
  <1>10. OneSelect => savingSeries'[request.clerk] = request.id
    BY <1>3, <1>5, <1>6 DEF EditorsInv, SelectsWait
  <1> QED  BY <1>3, <1>4, <1>5, <1>6, <1>7, <1>8, <1>9, <1>10, ClericalStep

\* The last statements, and an error.
LEMMA ClerkEndEditors ==
    ASSUME OfficeInv, EditorsInv, NEW c \in Slots, AssignInsert(c) \/ UnassignClose(c) \/ ClerkFails(c),
           UNCHANGED <<office, mode>>
    PROVE  EditorsInv'
  <1> USE DEF officeTables, editorTables
  <1>1. Finish(c) /\ UNCHANGED series /\ Clerical(c)
    BY DEF AssignInsert, UnassignClose, ClerkFails, Fail, Clerical, ClerkSteps, At
  <1>2. Orderly => \A d \in Slots \ {c} : ~Clerical(d)
    BY <1>1 DEF EditorsInv, OneClerical
  <1>3. (Orderly' => Orderly) /\ Idle.pc \notin ClerkSteps
    BY <1>1 DEF OneSelect, Orderly, InTurn, Published, Idle, ClerkSteps
  <1>4. OneEditor'
    <2>1. CASE UnassignClose(c) \/ ClerkFails(c)
      <3>1. editing' \subseteq editing
        BY <2>1 DEF UnassignClose, ClerkFails
      <3> QED  BY <1>3, <3>1 DEF EditorsInv, OneEditor
    <2>2. CASE AssignInsert(c)
      <3>1. editing' \subseteq editing \cup {<<slot[c].id, slot[c].user>>}
        BY <2>2 DEF AssignInsert
      <3>2. Orderly => \A e \in editing : e[1] # slot[c].id
        BY <2>2 DEF AssignInsert, EditorsInv, ClosedFirst
      <3> QED  BY <1>3, <3>1, <3>2 DEF EditorsInv, OneEditor
    <2> QED  BY <2>1, <2>2
  <1>5. slot' = [slot EXCEPT ![c] = Idle]
    BY <1>1 DEF Finish
  <1> QED  BY <1>1, <1>2, <1>3, <1>4, <1>5, ClericalStep DEF Idle

\* A request on the editors of a series begins when no other one is in flight.
LEMMA CallEditors ==
    ASSUME OfficeInv, EditorsInv, NEW c \in Slots, OfficeCall(c), UNCHANGED <<office, mode>>
    PROVE  EditorsInv'
  <1> USE DEF officeTables, editorTables
  <1>1. ASSUME NEW request, Enter(c, request), request.pc \notin ClerkSteps,
               UNCHANGED <<officeTables, savingSeries>>
        PROVE  EditorsInv'
    <2>1. ~Clerical(c) /\ Published' = Published
      BY <1>1 DEF Enter, At, Clerical, ClerkSteps, Published
    <2> QED  BY <1>1, <2>1, OtherEditors DEF Enter
  <1>2. ASSUME NEW u \in Users, NEW p \in Published, NEW k \in office.clerks, AssignRead(c, k, p, u)
        PROVE  EditorsInv'
    <2> DEFINE request == [pc |-> "assign_close", clerk |-> k, id |-> p, user |-> u]
    <2>1. request.pc = "assign_close" /\ request.clerk = k /\ request.id = p
      OBVIOUS
    <2>2. Enter(c, request) /\ SelectEnabled(k, p) /\ SavingSeries(k, p) /\ UNCHANGED officeTables
      BY <1>2 DEF AssignRead
    <2> QED  BY <2>1, <2>2, ClerkCallEditors
  <1>3. ASSUME NEW p \in Published, NEW k \in office.clerks, UnassignCall(c, k, p) PROVE EditorsInv'
    <2> DEFINE request == [pc |-> "unassign_close", clerk |-> k, id |-> p]
    <2>1. request.pc = "unassign_close" /\ request.clerk = k /\ request.id = p
      OBVIOUS
    <2>2. Enter(c, request) /\ SelectEnabled(k, p) /\ SavingSeries(k, p) /\ UNCHANGED officeTables
      BY <1>3 DEF UnassignCall
    <2> QED  BY <2>1, <2>2, ClerkCallEditors
  <1>4. ASSUME NEW u \in Users, NEW r \in Role, UserRead(c, u, r) PROVE EditorsInv'
    BY <1>1, <1>4 DEF UserRead, ClerkSteps
  <1>5. ASSUME NEW u \in Users, NEW file \in BOOLEAN, ProposalCreate(c, u, file) PROVE EditorsInv'
    BY <1>1, <1>5 DEF ProposalCreate, ClerkSteps
  <1>6. ASSUME NEW u \in Users, NEW p \in Proposed, SampleCall(c, u, p) PROVE EditorsInv'
    BY <1>1, <1>6 DEF SampleCall, ClerkSteps
  <1>7. ASSUME NEW u \in Users, NEW p \in Proposed, SubmitRead(c, u, p) PROVE EditorsInv'
    BY <1>1, <1>7 DEF SubmitRead, ClerkSteps
  <1>8. ASSUME NEW u \in Users, NEW p \in Published, ChapterRead(c, u, p) PROVE EditorsInv'
    BY <1>1, <1>8 DEF ChapterRead, ClerkSteps
  <1>9. ASSUME NEW u \in Users, NEW p \in Published, ReportRead(c, p, u) PROVE EditorsInv'
    BY <1>1, <1>9 DEF ReportRead, ClerkSteps
  <1>10. ASSUME NEW p \in Proposed, StartRead(c, p) PROVE EditorsInv'
    BY <1>1, <1>10 DEF StartRead, ClerkSteps
  <1>11. ASSUME NEW p \in Proposed, NEW d \in {"APPROVED", "REJECTED"}, DecideRead(c, p, d) PROVE EditorsInv'
    BY <1>1, <1>11 DEF DecideRead, ClerkSteps
  <1> QED  BY <1>2, <1>3, <1>4, <1>5, <1>6, <1>7, <1>8, <1>9, <1>10, <1>11 DEF OfficeCall

\* No other handler writes the editors of a series.
LEMMA OtherStepEditors ==
    ASSUME OfficeInv, EditorsInv, NEW c \in Slots, UNCHANGED <<office, mode>>,
           \/ UserInsert(c) \/ ProposalInsert(c) \/ SampleRead(c) \/ SampleWrite(c) \/ SubmitWrite(c)
           \/ StartWrite(c) \/ DecideCommit(c) \/ ChapterInsert(c) \/ ReportInsert(c)
           \/ (slot[c].pc \notin ClerkSteps /\ Fail(c) /\ UNCHANGED <<officeTables, savingSeries>>)
    PROVE  EditorsInv'
  <1> USE DEF officeTables, editorTables
  <1>1. ~Clerical(c) /\ UNCHANGED <<editing, savingSeries>>
    BY DEF UserInsert, ProposalInsert, SampleRead, SampleWrite, SubmitWrite, StartWrite, StatusWrite,
           DecideCommit, ChapterInsert, ReportInsert, Clerical, ClerkSteps, At
  <1>2. Published \subseteq Published'
    <2>1. CASE DecideCommit(c)
      BY <2>1 DEF DecideCommit, Published, Absent, OfficeInv, OfficeTables, OfficeTableTypes
    <2>2. CASE ~DecideCommit(c)
      <3>1. UNCHANGED series
        BY <2>2 DEF UserInsert, ProposalInsert, SampleRead, SampleWrite, SubmitWrite, StartWrite,
                    StatusWrite, ChapterInsert, ReportInsert
      <3> QED  BY <3>1 DEF Published
    <2> QED  BY <2>1, <2>2
  <1>3. ASSUME NEW request, request.pc \notin ClerkSteps, slot' = [slot EXCEPT ![c] = request]
        PROVE  EditorsInv'
    BY <1>1, <1>2, <1>3, OtherEditors
  <1>4. CASE Finish(c)
    <2>1. Idle.pc \notin ClerkSteps
      BY DEF Idle, ClerkSteps
    <2> QED  BY <1>3, <1>4, <2>1 DEF Finish
  <1>5. CASE SampleRead(c) /\ Goto(c, "upload_write")
    <2>1. PICK request : request = [slot[c] EXCEPT !.pc = "upload_write"]
      OBVIOUS
    <2>2. slot[c] \in UploadRequest
      BY <1>5, OfficeRequestShapes DEF SampleRead, At, OfficeInv
    <2>3. request.pc \notin ClerkSteps
      BY <2>1, <2>2 DEF UploadRequest, ClerkSteps
    <2>4. slot' = [slot EXCEPT ![c] = request]
      BY <1>5, <2>1 DEF Goto, OfficeInv
    <2> QED  BY <1>3, <2>3, <2>4
  <1>6. CASE ProposalInsert(c) /\ ~Finish(c)
    <2>1. PICK request : request = [pc |-> "upload_read", id |-> Cardinality(Proposed) + 1,
                                    user |-> slot[c].user]
      OBVIOUS
    <2>2. request.pc \notin ClerkSteps /\ slot' = [slot EXCEPT ![c] = request]
      BY <1>6, <2>1 DEF ProposalInsert, Become, ClerkSteps
    <2> QED  BY <1>3, <2>2
  <1> QED  BY <1>4, <1>5, <1>6 DEF UserInsert, ProposalInsert, SampleRead, SampleWrite, SubmitWrite,
              StartWrite, StatusWrite, DecideCommit, ChapterInsert, ReportInsert, Fail

\* Every step leaves a series with one editor at most.
LEMMA EditorsNextKeeps == OfficeInv /\ EditorsInv /\ [OfficeNext]_officeVars => EditorsInv'
  <1> SUFFICES ASSUME OfficeInv, EditorsInv, [OfficeNext]_officeVars PROVE EditorsInv'
    OBVIOUS
  <1>1. ASSUME UNCHANGED <<slot, office, mode, editing, savingSeries>>, Published' = Published
        PROVE  EditorsInv'
    BY <1>1 DEF EditorsInv, ClerksKnow, SelectsWait, OneClerical, ClosedFirst, OneEditor, OneSelect,
                Orderly, InTurn, Clerical, At
  <1>2. CASE UNCHANGED officeVars
    BY <1>1, <1>2 DEF officeVars, officeTables, editorTables, requestVars, Published
  <1>3. ASSUME UNCHANGED <<office, mode>>,
               \/ \E u \in Users : ActivationChange(u) \/ Works(u) \/ \E r \in Role : RoleChange(u, r)
               \/ \E p \in Published : SeriesDecided(p)
        PROVE  EditorsInv'
    <2>1. UNCHANGED <<slot, editing, savingSeries>>
      BY <1>3 DEF ActivationChange, Works, RoleChange, SeriesDecided, editorTables
    <2>2. Published' = Published
      BY <1>3 DEF ActivationChange, Works, RoleChange, SeriesDecided, Published, Absent, OfficeInv,
                  OfficeTables, OfficeTableTypes
    <2> QED  BY <1>1, <1>3, <2>1, <2>2
  <1>4. ASSUME NEW c \in Slots, OfficeStep(c), UNCHANGED <<office, mode>> PROVE EditorsInv'
    BY <1>4, AssignCloseEditors, ClerkEndEditors, OtherStepEditors DEF OfficeStep, ClerkSteps
  <1> QED  BY <1>2, <1>3, <1>4, CallEditors DEF OfficeNext

\* A series has one editor at most, when its editors are assigned one request after the
\* other, or from the one select that waits for each.
THEOREM SeriesKeepsOneEditor == OfficeSpec => []SeriesHasOneEditor
  <1>1. OfficeInv /\ EditorsInv => SeriesHasOneEditor
    <2> SUFFICES ASSUME OfficeInv, EditorsInv, NEW p \in Published,
                        \/ InTurn
                        \/ Cardinality(office.clerks) = 1 /\ Cardinality(Published) = 1
                 PROVE  Cardinality({e \in editing : e[1] = p}) <= 1
      BY DEF SeriesHasOneEditor
    <2>1. Orderly
      <3> SUFFICES ASSUME Cardinality(office.clerks) = 1, Cardinality(Published) = 1 PROVE OneSelect
        BY DEF Orderly
      <3>1. IsFiniteSet(office.clerks)
        BY OfficeAssumption, FS_Subset DEF OfficeInv
      <3>2. IsFiniteSet(Published)
        <4>1. Published \in SUBSET Proposed
          BY DEF OfficeInv, OfficeTables, Sampled
        <4> QED  BY <4>1, FS_Subset DEF OfficeInv, ProposalsInOrder
      <3>3. (\E k : office.clerks = {k}) /\ (\E q : Published = {q})
        BY <3>1, <3>2, FS_Singleton
      <3> QED  BY <3>3 DEF OneSelect
    <2> DEFINE S == {e \in editing : e[1] = p}
    <2>2. \A e, f \in S : e = f
      BY <2>1 DEF EditorsInv, OneEditor
    <2>3. S = {} \/ \E e : S = {e}
      BY <2>2
    <2>4. Cardinality(S) \in {0, 1}
      BY <2>3, FS_EmptySet, FS_Singleton
    <2> QED  BY <2>4
  <1> QED  BY <1>1, InitEditors, EditorsNextKeeps, OfficeInvariant, PTL DEF OfficeSpec

-----------------------------------------------------------------------------
\* What the page board/Series is left with: a select that is disabled waits for a request
\* that is still in flight, and the rows of editors are rows of series that exist.
SelectsWaited == \A k \in Clerks : savingSeries[k] = 0 \/ \E c \in Slots : Clerical(c) /\ slot[c].clerk = k
EditsPublished == \A e \in editing : e[1] \in Published
SelectsInv == SelectsWaited /\ EditsPublished

\* Before the first request.
LEMMA InitSelects == OfficeInit => SelectsInv
  <1> SUFFICES ASSUME OfficeInit PROVE SelectsInv
    OBVIOUS
  <1>1. editing = {} /\ savingSeries = [k \in Clerks |-> 0]
    BY DEF OfficeInit, OfficeStart
  <1> QED  BY <1>1 DEF SelectsInv, SelectsWaited, EditsPublished

\* Steps that leave the requests of the page in flight.
LEMMA OtherSelects ==
    ASSUME SelectsInv, UNCHANGED <<editing, savingSeries>>, Published \subseteq Published',
           \A d \in Slots : Clerical(d) => slot'[d] = slot[d]
    PROVE  SelectsInv'
  <1>1. SelectsWaited'
    BY DEF SelectsInv, SelectsWaited, Clerical
  <1> QED  BY <1>1 DEF SelectsInv, EditsPublished

\* A request of the page that comes, or goes on.
LEMMA ClericalSelects ==
    ASSUME OfficeInv, SelectsInv, NEW c \in Slots, NEW k \in Clerks, NEW request,
           slot' = [slot EXCEPT ![c] = request], request.pc \in ClerkSteps, request.clerk = k,
           Clerical(c) => slot[c].clerk = k,
           \A l \in Clerks \ {k} : savingSeries'[l] = savingSeries[l],
           editing' \subseteq editing, UNCHANGED series
    PROVE  SelectsInv'
  <1>1. \A d \in Slots : slot'[d] = IF d = c THEN request ELSE slot[d]
    BY DEF OfficeInv
  <1>2. Clerical(c)' /\ slot'[c].clerk = k
    BY <1>1 DEF Clerical
  <1>3. ASSUME NEW l \in Clerks \ {k}
        PROVE  savingSeries'[l] = 0 \/ \E d \in Slots : Clerical(d)' /\ slot'[d].clerk = l
    <2>1. CASE savingSeries[l] = 0
      BY <2>1
    <2>2. ASSUME NEW d \in Slots, Clerical(d), slot[d].clerk = l
          PROVE  Clerical(d)' /\ slot'[d].clerk = l
      BY <1>1, <2>2 DEF Clerical
    <2> QED  BY <2>1, <2>2 DEF SelectsInv, SelectsWaited
  <1>4. SelectsWaited'
    BY <1>2, <1>3 DEF SelectsWaited
  <1>5. EditsPublished'
    BY DEF SelectsInv, EditsPublished, Published
  <1> QED  BY <1>4, <1>5 DEF SelectsInv

\* The end of a request enables the select.
LEMMA ClerkEndSelects ==
    ASSUME OfficeInv, SelectsInv, EditorsInv, NEW c \in Slots,
           AssignInsert(c) \/ UnassignClose(c) \/ ClerkFails(c)
    PROVE  SelectsInv'
  <1> USE DEF officeTables, editorTables
  <1>1. PICK k : k = slot[c].clerk
    OBVIOUS
  <1>2. Clerical(c) /\ slot' = [slot EXCEPT ![c] = Idle] /\ SavingSeries(k, 0) /\ UNCHANGED series
    BY <1>1 DEF AssignInsert, UnassignClose, ClerkFails, Fail, Finish, Clerical, ClerkSteps, At
  <1>3. k \in Clerks /\ slot[c].id \in Published
    BY <1>1, <1>2, OfficeAssumption DEF OfficeInv, EditorsInv, ClerksKnow
  <1>4. /\ \A d \in Slots \ {c} : slot'[d] = slot[d]
        /\ \A l \in Clerks : savingSeries'[l] = IF l = k THEN 0 ELSE savingSeries[l]
    BY <1>2, <1>3 DEF SavingSeries, OfficeInv
  <1>5. ASSUME NEW l \in Clerks, ~(savingSeries'[l] = 0)
        PROVE  \E d \in Slots : Clerical(d)' /\ slot'[d].clerk = l
    <2>1. ~(l = k) /\ ~(savingSeries[l] = 0)
      BY <1>4, <1>5
    <2>2. PICK d \in Slots : Clerical(d) /\ slot[d].clerk = l
      BY <2>1 DEF SelectsInv, SelectsWaited
    <2>3. slot'[d] = slot[d]
      BY <1>1, <1>4, <2>1, <2>2
    <2> QED  BY <2>2, <2>3 DEF Clerical
  <1>6. SelectsWaited'
    BY <1>5 DEF SelectsWaited
  <1>7. editing' \subseteq editing \cup {<<slot[c].id, slot[c].user>>} /\ Published' = Published
    BY <1>2 DEF AssignInsert, UnassignClose, ClerkFails, Published
  <1>8. EditsPublished'
    BY <1>3, <1>7 DEF SelectsInv, EditsPublished
  <1> QED  BY <1>6, <1>8 DEF SelectsInv

\* A request disables the select of its clerk when it comes.
LEMMA CallSelects ==
    ASSUME OfficeInv, SelectsInv, NEW c \in Slots, OfficeCall(c), office.clerks \subseteq Clerks
    PROVE  SelectsInv'
  <1> USE DEF officeTables, editorTables
  <1>1. ASSUME NEW request, Enter(c, request), UNCHANGED <<officeTables, savingSeries>>
        PROVE  SelectsInv'
    <2>1. \A d \in Slots : Clerical(d) => slot'[d] = slot[d]
      BY <1>1 DEF Enter, At, Clerical, ClerkSteps, OfficeInv
    <2> QED  BY <1>1, <2>1, OtherSelects DEF Published
  <1>2. ASSUME NEW k \in office.clerks, NEW p \in Published, NEW request,
               request.pc \in {"assign_close", "unassign_close"}, request.clerk = k,
               Enter(c, request), SavingSeries(k, p), UNCHANGED officeTables
        PROVE  SelectsInv'
    <2>1. ~Clerical(c) /\ request.pc \in ClerkSteps /\ slot' = [slot EXCEPT ![c] = request]
      BY <1>2 DEF Enter, At, Clerical, ClerkSteps
    <2>2. \A l \in Clerks \ {k} : savingSeries'[l] = savingSeries[l]
      BY <1>2 DEF SavingSeries, OfficeInv
    <2> QED  BY <1>2, <2>1, <2>2, ClericalSelects
  <1>3. ASSUME NEW u \in Users, NEW p \in Published, NEW k \in office.clerks, AssignRead(c, k, p, u)
        PROVE  SelectsInv'
    <2> DEFINE request == [pc |-> "assign_close", clerk |-> k, id |-> p, user |-> u]
    <2>1. request.pc = "assign_close" /\ request.clerk = k
      OBVIOUS
    <2>2. Enter(c, request) /\ SavingSeries(k, p) /\ UNCHANGED officeTables
      BY <1>3 DEF AssignRead
    <2> QED  BY <1>2, <2>1, <2>2
  <1>4. ASSUME NEW p \in Published, NEW k \in office.clerks, UnassignCall(c, k, p) PROVE SelectsInv'
    <2> DEFINE request == [pc |-> "unassign_close", clerk |-> k, id |-> p]
    <2>1. request.pc = "unassign_close" /\ request.clerk = k
      OBVIOUS
    <2>2. Enter(c, request) /\ SavingSeries(k, p) /\ UNCHANGED officeTables
      BY <1>4 DEF UnassignCall
    <2> QED  BY <1>2, <2>1, <2>2
  <1>5. ASSUME NEW u \in Users, NEW r \in Role, UserRead(c, u, r) PROVE SelectsInv'
    BY <1>1, <1>5 DEF UserRead
  <1>6. ASSUME NEW u \in Users, NEW file \in BOOLEAN, ProposalCreate(c, u, file) PROVE SelectsInv'
    BY <1>1, <1>6 DEF ProposalCreate
  <1>7. ASSUME NEW u \in Users, NEW p \in Proposed, SampleCall(c, u, p) \/ SubmitRead(c, u, p)
        PROVE  SelectsInv'
    BY <1>1, <1>7 DEF SampleCall, SubmitRead
  <1>8. ASSUME NEW u \in Users, NEW p \in Published, ChapterRead(c, u, p) \/ ReportRead(c, p, u)
        PROVE  SelectsInv'
    BY <1>1, <1>8 DEF ChapterRead, ReportRead
  <1>9. ASSUME NEW p \in Proposed, StartRead(c, p) PROVE SelectsInv'
    BY <1>1, <1>9 DEF StartRead
  <1>10. ASSUME NEW p \in Proposed, NEW d \in {"APPROVED", "REJECTED"}, DecideRead(c, p, d)
         PROVE  SelectsInv'
    BY <1>1, <1>10 DEF DecideRead
  <1> QED  BY <1>3, <1>4, <1>5, <1>6, <1>7, <1>8, <1>9, <1>10 DEF OfficeCall

\* Every step leaves a disabled select with a request that will enable it.
LEMMA SelectsNextKeeps ==
    OfficeInv /\ EditorsInv /\ SelectsInv /\ [OfficeNext]_officeVars => SelectsInv'
  <1> SUFFICES ASSUME OfficeInv, EditorsInv, SelectsInv, [OfficeNext]_officeVars PROVE SelectsInv'
    OBVIOUS
  <1>1. CASE UNCHANGED officeVars
    BY <1>1, OtherSelects DEF officeVars, officeTables, editorTables, requestVars, Published
  <1>2. ASSUME \/ \E u \in Users : ActivationChange(u) \/ Works(u) \/ \E r \in Role : RoleChange(u, r)
               \/ \E p \in Published : SeriesDecided(p)
        PROVE  SelectsInv'
    <2>1. UNCHANGED <<slot, editing, savingSeries>>
      BY <1>2 DEF ActivationChange, Works, RoleChange, SeriesDecided, editorTables
    <2>2. Published' = Published
      BY <1>2 DEF ActivationChange, Works, RoleChange, SeriesDecided, Published, Absent, OfficeInv,
                  OfficeTables, OfficeTableTypes
    <2> QED  BY <2>1, <2>2, OtherSelects
  <1>3. ASSUME NEW c \in Slots, OfficeCall(c) PROVE SelectsInv'
    <2>1. office.clerks \subseteq Clerks
      BY OfficeAssumption DEF OfficeInv
    <2> QED  BY <1>3, <2>1, CallSelects
  <1>4. ASSUME NEW c \in Slots, AssignClose(c) PROVE SelectsInv'
    <2>1. slot[c] \in AssignRequest /\ slot[c].pc = "assign_close"
      BY <1>4, OfficeRequestShapes DEF OfficeInv, AssignClose, At
    <2>2. PICK request : request = [slot[c] EXCEPT !.pc = "assign_insert"]
      OBVIOUS
    <2>3. /\ request.pc \in ClerkSteps /\ request.clerk = slot[c].clerk /\ slot[c].clerk \in Clerks
          /\ slot' = [slot EXCEPT ![c] = request]
      BY <1>4, <2>1, <2>2 DEF AssignRequest, ClerkSteps, AssignClose, Goto, OfficeInv
    <2>4. editing' \subseteq editing /\ UNCHANGED <<series, savingSeries>>
      BY <1>4 DEF AssignClose
    <2> QED  BY <2>3, <2>4, ClericalSelects
  <1>5. ASSUME NEW c \in Slots, AssignInsert(c) \/ UnassignClose(c) \/ ClerkFails(c) PROVE SelectsInv'
    BY <1>5, ClerkEndSelects
  <1>6. ASSUME NEW c \in Slots,
               \/ UserInsert(c) \/ ProposalInsert(c) \/ SampleRead(c) \/ SampleWrite(c) \/ SubmitWrite(c)
               \/ StartWrite(c) \/ DecideCommit(c) \/ ChapterInsert(c) \/ ReportInsert(c)
               \/ (slot[c].pc \notin ClerkSteps /\ Fail(c) /\ UNCHANGED <<officeTables, savingSeries>>)
        PROVE  SelectsInv'
    <2>1. ~Clerical(c) /\ UNCHANGED <<editing, savingSeries>>
      BY <1>6 DEF UserInsert, ProposalInsert, SampleRead, SampleWrite, SubmitWrite, StartWrite,
                  StatusWrite, DecideCommit, ChapterInsert, ReportInsert, Clerical, ClerkSteps, At,
                  officeTables, editorTables
    <2>2. Published \subseteq Published'
      <3>1. CASE DecideCommit(c)
        BY <3>1 DEF DecideCommit, Published, Absent, OfficeInv, OfficeTables, OfficeTableTypes
      <3>2. CASE ~DecideCommit(c)
        <4>1. UNCHANGED series
          BY <1>6, <3>2 DEF UserInsert, ProposalInsert, SampleRead, SampleWrite, SubmitWrite,
                            StartWrite, StatusWrite, ChapterInsert, ReportInsert, officeTables
        <4> QED  BY <4>1 DEF Published
      <3> QED  BY <3>1, <3>2
    <2>3. \A d \in Slots \ {c} : slot'[d] = slot[d]
      BY <1>6 DEF UserInsert, ProposalInsert, SampleRead, SampleWrite, SubmitWrite, StartWrite,
                  StatusWrite, DecideCommit, ChapterInsert, ReportInsert, Fail, Finish, Goto, Become,
                  OfficeInv
    <2>4. \A d \in Slots : Clerical(d) => slot'[d] = slot[d]
      BY <2>1, <2>3
    <2> QED  BY <2>1, <2>2, <2>4, OtherSelects
  <1>7. ASSUME NEW c \in Slots, OfficeStep(c) PROVE SelectsInv'
    BY <1>4, <1>5, <1>6, <1>7 DEF OfficeStep, ClerkSteps
  <1> QED  BY <1>1, <1>2, <1>3, <1>7 DEF OfficeNext

\* A select of the board that is disabled waits for an answer that is still to come, and the
\* editors of a series are those of a series that exists.
THEOREM SelectsComeBack == OfficeSpec => []SelectsInv
  <1> QED  BY InitSelects, SelectsNextKeeps, InitEditors, EditorsNextKeeps, OfficeInvariant, PTL
              DEF OfficeSpec
=============================================================================
