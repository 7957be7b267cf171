---------------------------- MODULE OfficesProofs ---------------------------
(***************************************************************************)
(* Proofs about the desks of Offices: Disputes, for any tasks, amounts,    *)
(* admins and requests in flight; SignIn, for any tabs, codes, passwords   *)
(* and requests in flight; and all the desks together, of which the others *)
(* have their proofs in modules of their own.                              *)
(***************************************************************************)
EXTENDS DeskPages, ReaderVotesProofs, SeriesOfficeProofs, DrawingProofs

(* Disputes.                                                                *)

FileRequest == [pc : {"file_insert", "file_answer"}, task : Paid, before : SUBSET Paid, shown : BOOLEAN]
ReviewRequest == [pc : {"review_write"}, admin : Admins, id : DisputeIds, shown : BOOLEAN]
SelectRequest == [pc : {"settle_select"}, admin : Admins, id : DisputeIds,
                  to : {"RESOLVED", "REJECTED"}, adjusted : Adjustments, shown : BOOLEAN]
SettleRequest == [pc : {"settle_commit", "settle_answer"}, admin : Admins, id : DisputeIds,
                  to : {"RESOLVED", "REJECTED"}, adjusted : Adjustments, shown : BOOLEAN,
                  old : Amounts]
DisputeRequest == {Idle} \cup FileRequest \cup ReviewRequest \cup SelectRequest \cup SettleRequest

\* The types of the tables and of the pages.
DisputeTableTypes ==
    /\ payment \in [Paid -> Amounts]
    /\ earned \subseteq Paid
    /\ total \in Int
    /\ dispute \in [DisputeIds -> [task : Paid \cup {NoTask},
                                   status : EarningDisputeStatus \cup {Absent}]]
PageTypes ==
    /\ ledger \subseteq Paid
    /\ list \in [Admins -> [DisputeIds -> EarningDisputeStatus \cup {Absent}]]
    /\ savingId \in [Admins -> DisputeIds \cup {0}]

\* What was left, and what a behaviour may have.
SceneTypes ==
    /\ leftTasks \subseteq Paid /\ leftDisputes \subseteq DisputeIds
    /\ admins \subseteq Admins /\ room \in 0 .. MaxDisputes

disputeRest == <<disputeHistory, disputeScene>>

\* A settlement is about a dispute that was filed.
AboutFiled ==
    \A c \in Slots : slot[c].pc \in {"review_write", "settle_select", "settle_commit"} =>
                         slot[c].id \in Filed

\* Ids are given out in order, and there is one for every form that was sent.
FiledInOrder ==
    /\ IsFiniteSet(Filed) /\ IsFiniteSet(Inserting)
    /\ Filed = 1 .. Cardinality(Filed)
    /\ Cardinality(Filed) + Cardinality(Inserting) <= room

DisputeInv ==
    /\ DisputeTableTypes /\ PageTypes /\ SceneTypes
    /\ slot \in [Slots -> DisputeRequest]
    /\ AboutFiled /\ FiledInOrder

-----------------------------------------------------------------------------
\* A request is what its pc says.
LEMMA DisputeRequestShapes ==
    ASSUME NEW q \in DisputeRequest
    PROVE  /\ q.pc \in DisputeSteps
           /\ q.pc \in {"file_insert", "file_answer"} => q \in FileRequest
           /\ q.pc = "review_write" => q \in ReviewRequest
           /\ q.pc = "settle_select" => q \in SelectRequest
           /\ q.pc \in {"settle_commit", "settle_answer"} => q \in SettleRequest
  <1> USE DEF DisputeSteps
  <1>1. CASE q = Idle
    BY <1>1 DEF Idle
  <1>2. CASE q \in FileRequest
    BY <1>2 DEF FileRequest
  <1>3. CASE q \in ReviewRequest
    BY <1>3 DEF ReviewRequest
  <1>4. CASE q \in SelectRequest
    BY <1>4 DEF SelectRequest
  <1>5. CASE q \in SettleRequest
    BY <1>5 DEF SettleRequest
  <1> QED  BY <1>1, <1>2, <1>3, <1>4, <1>5 DEF DisputeRequest

\* A payment is a number.
LEMMA AmountIsInteger == ASSUME NEW x \in Amounts PROVE x \in Int
  <1>1. x \in Nat
    BY DisputesAssumption
  <1> QED  BY <1>1

\* Before the first request.
LEMMA InitDisputeInv == DisputeInit => DisputeInv
  <1> SUFFICES ASSUME DisputeInit PROVE DisputeInv
    OBVIOUS
  <1> USE DEF DisputeInit, DisputeStart, RequestsInit
  <1>1. \A i \in DisputeIds : dispute[i] = NoDispute
    OBVIOUS
  <1>2. Filed = {}
    BY <1>1 DEF Filed, NoDispute
  <1>3. DisputeTableTypes /\ PageTypes
    BY DEF DisputeTableTypes, PageTypes, NoDispute
  <1>4. SceneTypes
    <2>1. PICK x \in DisputeScenes : DisputeStart(x)
      OBVIOUS
    <2>2. x.admins \in SUBSET Admins /\ x.room \in 0 .. MaxDisputes
      BY DisputesAssumption
    <2> QED  BY <2>1, <2>2 DEF SceneTypes
  <1>5. \A c \in Slots : slot[c].pc = "idle"
    BY DEF Idle
  <1>6. slot \in [Slots -> DisputeRequest] /\ AboutFiled
    BY <1>5 DEF DisputeRequest, AboutFiled
  <1>7. FiledInOrder
    <2>1. Inserting = {}
      BY <1>5 DEF Inserting, At
    <2>2. Cardinality({}) = 0 /\ IsFiniteSet({}) /\ 1 .. 0 = {}
      BY FS_EmptySet
    <2>3. 0 + 0 <= room
      BY <1>4, DisputesAssumption DEF SceneTypes
    <2> QED  BY <1>2, <2>1, <2>2, <2>3 DEF FiledInOrder
  <1> QED  BY <1>3, <1>4, <1>6, <1>7 DEF DisputeInv

\* The next request is a form to be inserted, or is not.
LEMMA InsertingCount ==
    ASSUME DisputeInv, NEW c \in Slots, NEW request, slot' = [slot EXCEPT ![c] = request]
    PROVE  /\ request.pc # "file_insert" =>
                  /\ IsFiniteSet(Inserting') /\ Cardinality(Inserting') <= Cardinality(Inserting)
                  /\ At(c, "file_insert") => Cardinality(Inserting') = Cardinality(Inserting) - 1
           /\ request.pc = "file_insert" =>
                  /\ IsFiniteSet(Inserting') /\ Cardinality(Inserting') <= Cardinality(Inserting) + 1
           /\ Cardinality(Inserting') \in Nat /\ Cardinality(Inserting) \in Nat
  <1>1. IsFiniteSet(Inserting) /\ Cardinality(Inserting) \in Nat
    BY FS_CardinalityType DEF DisputeInv, FiledInOrder
  <1>2. \A d \in Slots : slot'[d] = IF d = c THEN request ELSE slot[d]
    BY DEF DisputeInv
  <1>3. ASSUME request.pc # "file_insert"
        PROVE  /\ IsFiniteSet(Inserting') /\ Cardinality(Inserting') <= Cardinality(Inserting)
               /\ At(c, "file_insert") => Cardinality(Inserting') = Cardinality(Inserting) - 1
               /\ Cardinality(Inserting') \in Nat
    <2>1. Inserting' = Inserting \ {c}
      BY <1>2, <1>3 DEF Inserting, At
    <2>2. At(c, "file_insert") <=> c \in Inserting
      BY DEF Inserting
    <2>3. /\ IsFiniteSet(Inserting \ {c})
          /\ Cardinality(Inserting \ {c}) = IF c \in Inserting THEN Cardinality(Inserting) - 1
                                            ELSE Cardinality(Inserting)
      BY <1>1, FS_RemoveElement
    <2>4. Cardinality(Inserting \ {c}) \in Nat
      BY <2>3, FS_CardinalityType
    <2> QED  BY <1>1, <2>1, <2>2, <2>3, <2>4
  <1>4. ASSUME request.pc = "file_insert"
        PROVE  /\ IsFiniteSet(Inserting') /\ Cardinality(Inserting') <= Cardinality(Inserting) + 1
               /\ Cardinality(Inserting') \in Nat
    <2>1. Inserting' = Inserting \cup {c}
      BY <1>2, <1>4 DEF Inserting, At
    <2> QED  BY <1>1, <2>1, FS_AddElement
  <1> QED  BY <1>1, <1>3, <1>4

\* A step of one slot that files nothing.
LEMMA DisputeSlotStep ==
    ASSUME DisputeInv, NEW c \in Slots, NEW request \in DisputeRequest,
           slot' = [slot EXCEPT ![c] = request],
           request.pc = "file_insert" => RoomToFile,
           request.pc \in {"review_write", "settle_select", "settle_commit"} => request.id \in Filed,
           DisputeTableTypes', PageTypes', Filed' = Filed, UNCHANGED disputeRest
    PROVE  DisputeInv'
  <1>1. slot' \in [Slots -> DisputeRequest] /\ \A d \in Slots : slot'[d] = IF d = c THEN request ELSE slot[d]
    BY DEF DisputeInv
  <1>2. SceneTypes'
    BY DEF DisputeInv, SceneTypes, disputeRest, disputeHistory, disputeScene
  <1>3. AboutFiled'
    BY <1>1 DEF DisputeInv, AboutFiled
  <1>4. FiledInOrder'
    <2>1. /\ IsFiniteSet(Inserting') /\ Cardinality(Inserting') \in Nat /\ Cardinality(Inserting) \in Nat
          /\ request.pc # "file_insert" => Cardinality(Inserting') <= Cardinality(Inserting)
          /\ request.pc = "file_insert" => Cardinality(Inserting') <= Cardinality(Inserting) + 1
      BY InsertingCount
    <2>2. /\ IsFiniteSet(Filed) /\ Cardinality(Filed) \in Nat /\ Filed = 1 .. Cardinality(Filed)
          /\ Cardinality(Filed) + Cardinality(Inserting) <= room /\ room \in Nat /\ room' = room
      BY FS_CardinalityType, DisputesAssumption DEF DisputeInv, FiledInOrder, SceneTypes, disputeRest, disputeScene
    <2>3. Cardinality(Filed) + Cardinality(Inserting') <= room
      BY <2>1, <2>2 DEF RoomToFile
    <2> QED  BY <2>1, <2>2, <2>3 DEF FiledInOrder
  <1> QED  BY <1>1, <1>2, <1>3, <1>4 DEF DisputeInv

\* An answer, an error, or a last statement that files nothing.
LEMMA DisputeFinishStep ==
    ASSUME DisputeInv, NEW c \in Slots, Finish(c), DisputeTableTypes', PageTypes', Filed' = Filed,
           UNCHANGED disputeRest
    PROVE  DisputeInv'
  <1>1. Idle \in DisputeRequest /\ Idle.pc = "idle"
    BY DEF DisputeRequest, Idle
  <1> QED  BY <1>1, DisputeSlotStep DEF Finish

\* A write of the status of one dispute.
LEMMA StatusStays ==
    ASSUME DisputeInv, NEW i \in DisputeIds, NEW to \in EarningDisputeStatus,
           dispute' = [dispute EXCEPT ![i].status = to]
    PROVE  /\ dispute' \in [DisputeIds -> [task : Paid \cup {NoTask},
                                           status : EarningDisputeStatus \cup {Absent}]]
           /\ Filed' = Filed /\ \A j \in DisputeIds : dispute'[j].task = dispute[j].task
  <1>1. \A j \in DisputeIds : dispute[j] \in [task : Paid \cup {NoTask}, status : EarningDisputeStatus \cup {Absent}]
    BY DEF DisputeInv, DisputeTableTypes
  <1>2. \A j \in DisputeIds : dispute'[j] = IF j = i THEN [dispute[j] EXCEPT !.status = to] ELSE dispute[j]
    BY DEF DisputeInv, DisputeTableTypes
  <1>3. \A j \in DisputeIds : dispute'[j].task = dispute[j].task
    BY <1>1, <1>2
  <1>4. dispute' \in [DisputeIds -> [task : Paid \cup {NoTask}, status : EarningDisputeStatus \cup {Absent}]]
    BY <1>1, <1>2 DEF DisputeInv, DisputeTableTypes
  <1> QED  BY <1>3, <1>4 DEF Filed

-----------------------------------------------------------------------------
\* The page of the assistant.
LEMMA FileClickKeeps ==
    ASSUME DisputeInv, NEW c \in Slots, NEW t \in Paid, FileClick(c, t), UNCHANGED disputeRest
    PROVE  DisputeInv'
  <1> USE DEF disputeTables
  <1>1. PICK request : request = [pc |-> "file_insert", task |-> t, before |-> ledger, shown |-> TRUE]
    OBVIOUS
  <1>2. request \in DisputeRequest /\ request.pc = "file_insert"
    BY <1>1 DEF DisputeInv, PageTypes, DisputeRequest, FileRequest
  <1>3. slot' = [slot EXCEPT ![c] = request]
    BY <1>1 DEF FileClick, Enter
  <1>4. DisputeTableTypes' /\ PageTypes' /\ Filed' = Filed
    BY DEF DisputeInv, DisputeTableTypes, PageTypes, FileClick, Filed
  <1> QED  BY <1>2, <1>3, <1>4, DisputeSlotStep DEF FileClick

\* A dispute is inserted under the next id, with the task its request names.
LEMMA FileInsertKeeps ==
    ASSUME DisputeInv, NEW c \in Slots, FileInsert(c), UNCHANGED disputeRest
    PROVE  /\ DisputeInv'
           /\ Cardinality(Filed) + 1 \notin Filed
           /\ Filed' = Filed \cup {Cardinality(Filed) + 1}
           /\ \A i \in DisputeIds : dispute'[i].task = IF i = Cardinality(Filed) + 1 THEN slot[c].task
                                                       ELSE dispute[i].task
  <1> USE DEF disputePages
  <1>1. PICK n, request : n = Cardinality(Filed) + 1 /\ request = [slot[c] EXCEPT !.pc = "file_answer"]
    OBVIOUS
  <1>2. slot[c] \in FileRequest
    BY DisputeRequestShapes DEF DisputeInv, FileInsert, At
  <1>3. request \in DisputeRequest /\ request.pc = "file_answer" /\ slot[c].task \in Paid
    BY <1>1, <1>2 DEF DisputeRequest, FileRequest
  <1>4. slot' = [slot EXCEPT ![c] = request]
    BY <1>1 DEF FileInsert, Goto, DisputeInv
  <1>5. /\ Cardinality(Filed) \in Nat /\ Cardinality(Filed) < MaxDisputes /\ room \in Nat
        /\ IsFiniteSet(Inserting') /\ Cardinality(Inserting') \in Nat
        /\ (Cardinality(Filed) + 1) + Cardinality(Inserting') <= room
    <2>1. /\ IsFiniteSet(Inserting') /\ Cardinality(Inserting') \in Nat
          /\ Cardinality(Inserting') = Cardinality(Inserting) - 1 /\ Cardinality(Inserting) \in Nat
      BY <1>3, <1>4, InsertingCount DEF FileInsert
    <2>2. /\ Cardinality(Filed) \in Nat /\ room \in 0 .. MaxDisputes
          /\ Cardinality(Filed) + Cardinality(Inserting) <= room
      BY FS_CardinalityType DEF DisputeInv, FiledInOrder, SceneTypes
    <2> QED  BY <2>1, <2>2, DisputesAssumption
  <1>6. n \in DisputeIds /\ n \notin Filed
    BY <1>1, <1>5, DisputesAssumption DEF DisputeIds, DisputeInv, FiledInOrder
  <1>7. dispute' = [dispute EXCEPT ![n] = [task |-> slot[c].task, status |-> "OPEN"]]
    BY <1>1 DEF FileInsert
  <1>8. slot[c].task # NoTask
    BY <1>3, DisputesAssumption
  <1>9. \A i \in DisputeIds : dispute'[i] = IF i = n THEN [task |-> slot[c].task, status |-> "OPEN"]
                                           ELSE dispute[i]
    BY <1>7 DEF DisputeInv, DisputeTableTypes
  <1>10. Filed' = Filed \cup {n}
    BY <1>6, <1>8, <1>9 DEF Filed
  <1>11. DisputeTableTypes' /\ PageTypes'
    <2>1. [task |-> slot[c].task, status |-> "OPEN"]
              \in [task : Paid \cup {NoTask}, status : EarningDisputeStatus \cup {Absent}]
      BY <1>3 DEF EarningDisputeStatus
    <2>2. UNCHANGED <<payment, earned, total, ledger, list, savingId>>
      BY DEF FileInsert
    <2>3. dispute' \in [DisputeIds -> [task : Paid \cup {NoTask}, status : EarningDisputeStatus \cup {Absent}]]
      BY <1>7, <2>1 DEF DisputeInv, DisputeTableTypes
    <2> QED  BY <2>2, <2>3 DEF DisputeInv, DisputeTableTypes, PageTypes
  <1>12. slot' \in [Slots -> DisputeRequest] /\ \A d \in Slots : slot'[d] = IF d = c THEN request ELSE slot[d]
    BY <1>3, <1>4 DEF DisputeInv
  <1>13. SceneTypes'
    BY DEF DisputeInv, SceneTypes, disputeRest, disputeHistory, disputeScene
  <1>14. AboutFiled'
    BY <1>3, <1>10, <1>12 DEF DisputeInv, AboutFiled
  <1>15. FiledInOrder'
    <2>1. IsFiniteSet(Filed') /\ Cardinality(Filed') = n
      BY <1>1, <1>6, <1>10, FS_AddElement DEF DisputeInv, FiledInOrder
    <2>2. Filed' = 1 .. n
      BY <1>1, <1>5, <1>10 DEF DisputeInv, FiledInOrder
    <2>3. room' = room
      BY DEF disputeRest, disputeScene
    <2> QED  BY <1>1, <1>5, <2>1, <2>2, <2>3 DEF FiledInOrder
  <1>16. DisputeInv'
    BY <1>11, <1>12, <1>13, <1>14, <1>15 DEF DisputeInv
  <1> QED  BY <1>1, <1>6, <1>9, <1>10, <1>16

\* The end of a filing touches the page only.
LEMMA FilingEndKeeps ==
    ASSUME DisputeInv, NEW c \in Slots, FileAnswer(c) \/ FileFails(c), UNCHANGED disputeRest
    PROVE  DisputeInv' /\ UNCHANGED dispute
  <1> USE DEF disputeTables, disputePages
  <1>1. Finish(c) /\ UNCHANGED <<payment, earned, total, dispute, list, savingId>>
    BY DEF FileAnswer, FileFails, Fail
  <1>2. ledger' \in {ledger, slot[c].before} /\ Filing(c)
    BY DEF FileAnswer, FileFails, Filing
  <1>3. slot[c].before \subseteq Paid
    BY <1>2, DisputeRequestShapes DEF DisputeInv, Filing, At, FileRequest
  <1>4. DisputeTableTypes' /\ PageTypes' /\ Filed' = Filed
    BY <1>1, <1>2, <1>3 DEF DisputeInv, DisputeTableTypes, PageTypes, Filed
  <1> QED  BY <1>1, <1>4, DisputeFinishStep

-----------------------------------------------------------------------------
\* The page of an admin.
LEMMA AdminClickKeeps ==
    ASSUME DisputeInv, NEW c \in Slots, NEW a \in admins, NEW i \in Filed, UNCHANGED disputeRest,
           \/ ReviewClick(c, a, i)
           \/ \E adjusted \in Adjustments, to \in {"RESOLVED", "REJECTED"} : SettleClick(c, a, i, to, adjusted)
    PROVE  DisputeInv'
  <1> USE DEF disputeTables
  <1>1. a \in Admins /\ i \in DisputeIds
    BY DEF DisputeInv, SceneTypes, Filed
  <1>2. UNCHANGED <<payment, earned, total, dispute, ledger, list>> /\ Saving(a, i)
    BY DEF ReviewClick, SettleClick
  <1>3. DisputeTableTypes' /\ PageTypes' /\ Filed' = Filed
    BY <1>1, <1>2 DEF DisputeInv, DisputeTableTypes, PageTypes, Filed, Saving
  <1>4. CASE ReviewClick(c, a, i)
    <2>1. PICK request : request = [pc |-> "review_write", admin |-> a, id |-> i, shown |-> TRUE]
      OBVIOUS
    <2>2. request \in DisputeRequest /\ request.pc = "review_write" /\ request.id = i
      BY <1>1, <2>1 DEF DisputeRequest, ReviewRequest
    <2>3. slot' = [slot EXCEPT ![c] = request]
      BY <1>4, <2>1 DEF ReviewClick, Enter
    <2> QED  BY <1>3, <2>2, <2>3, DisputeSlotStep
  <1>5. ASSUME NEW adjusted \in Adjustments, NEW to \in {"RESOLVED", "REJECTED"},
               SettleClick(c, a, i, to, adjusted)
        PROVE  DisputeInv'
    <2>1. PICK request : request = [pc |-> "settle_select", admin |-> a, id |-> i, to |-> to,
                                    adjusted |-> adjusted, shown |-> TRUE]
      OBVIOUS
    <2>2. request \in DisputeRequest /\ request.pc = "settle_select" /\ request.id = i
      BY <1>1, <2>1 DEF DisputeRequest, SelectRequest
    <2>3. slot' = [slot EXCEPT ![c] = request]
      BY <1>5, <2>1 DEF SettleClick, Enter
    <2> QED  BY <1>3, <2>2, <2>3, DisputeSlotStep
  <1> QED  BY <1>4, <1>5

\* What an answer shows is a status of a dispute, and it enables the buttons.
LEMMA PageShowsTypes ==
    ASSUME DisputeInv, NEW c \in Slots, NEW status \in EarningDisputeStatus, PageShows(c, status),
           slot[c].admin \in Admins, slot[c].id \in DisputeIds
    PROVE  /\ list' \in [Admins -> [DisputeIds -> EarningDisputeStatus \cup {Absent}]]
           /\ savingId' \in [Admins -> DisputeIds \cup {0}]
  <1>1. PICK a \in Admins, i \in DisputeIds : a = slot[c].admin /\ i = slot[c].id
    OBVIOUS
  <1>2. CASE slot[c].shown
    <2>1. list' = [list EXCEPT ![a][i] = status] /\ savingId' = [savingId EXCEPT ![a] = 0]
      BY <1>1, <1>2, Zenon DEF PageShows, Saving
    <2> QED  BY <2>1 DEF DisputeInv, PageTypes
  <1>3. CASE ~slot[c].shown
    BY <1>3 DEF PageShows, DisputeInv, PageTypes
  <1> QED  BY <1>2, <1>3

\* Taking a dispute under review changes its status alone.
LEMMA ReviewWriteKeeps ==
    ASSUME DisputeInv, NEW c \in Slots, ReviewWrite(c), UNCHANGED disputeRest
    PROVE  DisputeInv' /\ Filed' = Filed /\ \A j \in DisputeIds : dispute'[j].task = dispute[j].task
  <1>1. slot[c] \in ReviewRequest
    BY DisputeRequestShapes DEF DisputeInv, ReviewWrite, At
  <1>2. PICK i \in DisputeIds, a \in Admins : i = slot[c].id /\ a = slot[c].admin
    BY <1>1 DEF ReviewRequest
  <1>3. /\ dispute' = [dispute EXCEPT ![i].status = "UNDER_REVIEW"]
        /\ PageShows(c, "UNDER_REVIEW") /\ Finish(c) /\ UNCHANGED <<payment, earned, total, ledger>>
    BY <1>2 DEF ReviewWrite
  <1>4. "UNDER_REVIEW" \in EarningDisputeStatus
    BY DEF EarningDisputeStatus
  <1>5. /\ dispute' \in [DisputeIds -> [task : Paid \cup {NoTask}, status : EarningDisputeStatus \cup {Absent}]]
        /\ Filed' = Filed /\ \A j \in DisputeIds : dispute'[j].task = dispute[j].task
    BY <1>3, <1>4, StatusStays
  <1>6. DisputeTableTypes' /\ PageTypes'
    BY <1>2, <1>3, <1>4, <1>5, PageShowsTypes DEF DisputeInv, DisputeTableTypes, PageTypes
  <1> QED  BY <1>3, <1>5, <1>6, DisputeFinishStep

\* The start of a settlement reads the payment.
LEMMA SettleSelectKeeps ==
    ASSUME DisputeInv, NEW c \in Slots, SettleSelect(c), UNCHANGED disputeRest
    PROVE  DisputeInv'
  <1> USE DEF disputeTables, disputePages
  <1>1. slot[c] \in SelectRequest /\ slot[c].id \in Filed
    BY DisputeRequestShapes DEF DisputeInv, SettleSelect, At, AboutFiled
  <1>2. dispute[slot[c].id].task \in Paid
    BY <1>1 DEF DisputeInv, DisputeTableTypes, Filed
  <1>3. payment[dispute[slot[c].id].task] \in Amounts
    BY <1>2 DEF DisputeInv, DisputeTableTypes
  <1>4. PICK request :
            request = [pc |-> "settle_commit", admin |-> slot[c].admin, id |-> slot[c].id,
                       to |-> slot[c].to, adjusted |-> slot[c].adjusted, shown |-> slot[c].shown,
                       old |-> payment[dispute[slot[c].id].task]]
    OBVIOUS
  <1>5. request \in DisputeRequest /\ request.pc = "settle_commit" /\ request.id \in Filed
    BY <1>1, <1>3, <1>4 DEF DisputeRequest, SelectRequest, SettleRequest
  <1>6. slot' = [slot EXCEPT ![c] = request]
    BY <1>4 DEF SettleSelect, Become
  <1>7. DisputeTableTypes' /\ PageTypes' /\ Filed' = Filed
    BY DEF DisputeInv, DisputeTableTypes, PageTypes, Filed, SettleSelect
  <1> QED  BY <1>5, <1>6, <1>7, DisputeSlotStep

\* A settlement changes the dispute's status, payment and earnings, no task of a dispute.
LEMMA SettleCommitKeeps ==
    ASSUME DisputeInv, NEW c \in Slots, SettleCommit(c), UNCHANGED disputeRest
    PROVE  DisputeInv' /\ Filed' = Filed /\ \A j \in DisputeIds : dispute'[j].task = dispute[j].task
  <1> USE DEF disputePages
  <1>1. slot[c] \in SettleRequest /\ slot[c].id \in Filed /\ slot[c].pc = "settle_commit"
    BY DisputeRequestShapes DEF DisputeInv, SettleCommit, At, AboutFiled
  <1>2. PICK i \in DisputeIds, t \in Paid : i = slot[c].id /\ t = dispute[i].task
    BY <1>1 DEF DisputeInv, DisputeTableTypes, Filed
  <1>3. slot[c].to \in EarningDisputeStatus /\ slot[c].adjusted \in Adjustments /\ slot[c].old \in Amounts
    BY <1>1 DEF SettleRequest, EarningDisputeStatus
  <1>4. /\ dispute' = [dispute EXCEPT ![i].status = slot[c].to]
        /\ UNCHANGED <<earned, ledger, list, savingId>>
    BY <1>2 DEF SettleCommit
  <1>5. /\ dispute' \in [DisputeIds -> [task : Paid \cup {NoTask}, status : EarningDisputeStatus \cup {Absent}]]
        /\ Filed' = Filed /\ \A j \in DisputeIds : dispute'[j].task = dispute[j].task
    BY <1>3, <1>4, StatusStays
  <1>6. payment' \in [Paid -> Amounts] /\ total' \in Int
    <2>1. CASE slot[c].adjusted # 0
      <3>1. slot[c].adjusted \in Amounts
        BY <1>3, <2>1 DEF Adjustments
      <3>2. slot[c].adjusted \in Int /\ slot[c].old \in Int
        BY <1>3, <3>1, AmountIsInteger
      <3>3. payment' = [payment EXCEPT ![t] = slot[c].adjusted] /\ total' = total + (slot[c].adjusted - slot[c].old)
        BY <1>2, <2>1 DEF SettleCommit
      <3> QED  BY <3>1, <3>2, <3>3 DEF DisputeInv, DisputeTableTypes
    <2>2. CASE slot[c].adjusted = 0
      BY <2>2 DEF SettleCommit, DisputeInv, DisputeTableTypes
    <2> QED  BY <2>1, <2>2
  <1>7. DisputeTableTypes' /\ PageTypes'
    BY <1>4, <1>5, <1>6 DEF DisputeInv, DisputeTableTypes, PageTypes
  <1>8. PICK request : request = [slot[c] EXCEPT !.pc = "settle_answer"]
    OBVIOUS
  <1>9. request \in DisputeRequest /\ request.pc = "settle_answer"
    BY <1>1, <1>8 DEF DisputeRequest, SettleRequest
  <1>10. slot' = [slot EXCEPT ![c] = request]
    BY <1>8 DEF SettleCommit, Goto, DisputeInv
  <1> QED  BY <1>5, <1>7, <1>9, <1>10, DisputeSlotStep

\* The end of a settlement touches the page only.
LEMMA SettleEndKeeps ==
    ASSUME DisputeInv, NEW c \in Slots, SettleAnswer(c) \/ SettlingFails(c), UNCHANGED disputeRest
    PROVE  DisputeInv'
  <1> USE DEF disputeTables
  <1>1. /\ slot[c].admin \in Admins
        /\ At(c, "settle_answer") => slot[c].id \in DisputeIds /\ slot[c].to \in EarningDisputeStatus
    BY DisputeRequestShapes DEF DisputeInv, SettleAnswer, SettlingFails, At, ReviewRequest, SelectRequest,
                         SettleRequest, EarningDisputeStatus
  <1>2. Finish(c) /\ UNCHANGED <<payment, earned, total, dispute, ledger>>
    BY DEF SettleAnswer, SettlingFails, Fail
  <1>3. /\ list' \in [Admins -> [DisputeIds -> EarningDisputeStatus \cup {Absent}]]
        /\ savingId' \in [Admins -> DisputeIds \cup {0}]
    <2>1. CASE SettleAnswer(c)
      BY <1>1, <2>1, PageShowsTypes DEF SettleAnswer
    <2>2. CASE SettlingFails(c)
      BY <1>1, <2>2 DEF SettlingFails, Saving, DisputeInv, PageTypes
    <2> QED  BY <2>1, <2>2
  <1>4. DisputeTableTypes' /\ PageTypes' /\ Filed' = Filed
    BY <1>2, <1>3 DEF DisputeInv, DisputeTableTypes, PageTypes, Filed
  <1> QED  BY <1>2, <1>4, DisputeFinishStep

\* An approval and a refusal happen without a request in a slot.
LEMMA PageStepKeeps ==
    ASSUME DisputeInv, UNCHANGED disputeRest,
           \/ \E t \in Paid : TaskApproved(t)
           \/ \E a \in admins, i \in Filed : ClickRefused(a, i)
    PROVE  DisputeInv'
  <1> USE DEF disputeTables, disputePages
  <1>1. UNCHANGED <<slot, dispute>>
    BY DEF TaskApproved, ClickRefused
  <1>2. DisputeTableTypes'
    <2>1. ASSUME NEW t \in Paid, TaskApproved(t) PROVE DisputeTableTypes'
      <3>1. payment[t] \in Amounts
        BY DEF DisputeInv, DisputeTableTypes
      <3>2. payment[t] \in Int
        BY <3>1, AmountIsInteger
      <3> QED  BY <2>1, <3>2 DEF TaskApproved, DisputeInv, DisputeTableTypes
    <2>2. ASSUME NEW a \in admins, NEW i \in Filed, ClickRefused(a, i) PROVE DisputeTableTypes'
      BY <2>2 DEF ClickRefused, DisputeInv, DisputeTableTypes
    <2> QED  BY <2>1, <2>2
  <1>3. PageTypes'
    BY DEF TaskApproved, ClickRefused, Saving, DisputeInv, PageTypes
  <1>4. SceneTypes' /\ Filed' = Filed /\ Inserting' = Inserting /\ room' = room
    BY <1>1 DEF DisputeInv, SceneTypes, disputeRest, disputeHistory, disputeScene, Filed, Inserting, At
  <1> QED  BY <1>1, <1>2, <1>3, <1>4 DEF DisputeInv, AboutFiled, FiledInOrder

\* A page that is left leaves its requests as they are, but for the page.
LEMMA LeavePageKeeps ==
    ASSUME DisputeInv, NEW requests \in SUBSET Slots, LeavePage(requests),
           \A c \in requests : slot[c] # Idle
    PROVE  /\ slot' \in [Slots -> DisputeRequest] /\ Inserting' = Inserting
           /\ \A c \in Slots : /\ slot'[c].pc = slot[c].pc
                               /\ c \notin requests => slot'[c] = slot[c]
                               /\ c \in requests => slot'[c].shown = FALSE
           /\ \A c \in Slots : slot[c] \in FileRequest => slot'[c].task = slot[c].task
           /\ \A c \in Slots : slot[c] \notin FileRequest /\ slot[c] # Idle => slot'[c].id = slot[c].id
  <1>1. \A c \in Slots : slot'[c] = IF c \in requests THEN [slot[c] EXCEPT !.shown = FALSE] ELSE slot[c]
    BY DEF LeavePage
  <1>2. ASSUME NEW q \in DisputeRequest, q # Idle
        PROVE  /\ [q EXCEPT !.shown = FALSE] \in DisputeRequest
               /\ [q EXCEPT !.shown = FALSE].pc = q.pc /\ [q EXCEPT !.shown = FALSE].shown = FALSE
               /\ q \in FileRequest => [q EXCEPT !.shown = FALSE].task = q.task
               /\ q \notin FileRequest => [q EXCEPT !.shown = FALSE].id = q.id
    <2>1. CASE q \in FileRequest
      BY <2>1 DEF DisputeRequest, FileRequest
    <2>2. CASE q \in ReviewRequest
      <3>1. q \notin FileRequest
        BY <2>2 DEF FileRequest, ReviewRequest
      <3>2. /\ [q EXCEPT !.shown = FALSE] \in ReviewRequest /\ [q EXCEPT !.shown = FALSE].shown = FALSE
            /\ [q EXCEPT !.shown = FALSE].pc = q.pc /\ [q EXCEPT !.shown = FALSE].id = q.id
        BY <2>2 DEF ReviewRequest
      <3> QED  BY <3>1, <3>2 DEF DisputeRequest
    <2>3. CASE q \in SelectRequest
      <3>1. q \notin FileRequest
        BY <2>3 DEF FileRequest, SelectRequest
      <3>2. /\ [q EXCEPT !.shown = FALSE] \in SelectRequest /\ [q EXCEPT !.shown = FALSE].shown = FALSE
            /\ [q EXCEPT !.shown = FALSE].pc = q.pc /\ [q EXCEPT !.shown = FALSE].id = q.id
        BY <2>3 DEF SelectRequest
      <3> QED  BY <3>1, <3>2 DEF DisputeRequest
    <2>4. CASE q \in SettleRequest
      <3>1. q \notin FileRequest
        BY <2>4 DEF FileRequest, SettleRequest
      <3>2. /\ [q EXCEPT !.shown = FALSE] \in SettleRequest /\ [q EXCEPT !.shown = FALSE].shown = FALSE
            /\ [q EXCEPT !.shown = FALSE].pc = q.pc /\ [q EXCEPT !.shown = FALSE].id = q.id
        BY <2>4 DEF SettleRequest
      <3> QED  BY <3>1, <3>2 DEF DisputeRequest
    <2> QED  BY <1>2, <2>1, <2>2, <2>3, <2>4 DEF DisputeRequest
  <1>3. \A c \in Slots : slot[c] \in DisputeRequest
    BY DEF DisputeInv
  <1>4. \A c \in Slots : slot'[c] \in DisputeRequest /\ slot'[c].pc = slot[c].pc
    BY <1>1, <1>2, <1>3
  <1>5. slot' \in [Slots -> DisputeRequest]
    BY <1>4 DEF LeavePage
  <1>6. Inserting' = Inserting
    BY <1>4 DEF Inserting, At
  <1> QED  BY <1>1, <1>2, <1>3, <1>4, <1>5, <1>6

\* Opening a page again changes no table.
LEMMA LoadKeeps ==
    ASSUME DisputeInv, UNCHANGED disputeScene, EarningsLoad \/ \E a \in admins : DisputesLoad(a)
    PROVE  DisputeInv'
  <1> USE DEF disputeTables
  <1>1. UNCHANGED <<payment, earned, total, dispute>> /\ Filed' = Filed
    BY DEF EarningsLoad, DisputesLoad, Filed
  <1>2. DisputeTableTypes'
    BY <1>1 DEF DisputeInv, DisputeTableTypes
  <1>3. \A c \in Slots : At(c, "file_insert") => slot[c].task \in Paid
    BY DisputeRequestShapes DEF DisputeInv, At, FileRequest
  <1>4. \A a, c : c \in SettlingBy(a) => slot[c].id \in DisputeIds
    BY DisputeRequestShapes DEF DisputeInv, SettlingBy, SentBy, At, SelectRequest, SettleRequest
  <1>5. PageTypes' /\ SceneTypes'
    <2>1. CASE EarningsLoad
      BY <1>3, <2>1 DEF EarningsLoad, Undisputed, Inserting, DisputeInv, DisputeTableTypes, PageTypes,
                        SceneTypes, disputeScene
    <2>2. ASSUME NEW a \in admins, DisputesLoad(a) PROVE PageTypes' /\ SceneTypes'
      <3>1. [i \in DisputeIds |-> dispute[i].status] \in [DisputeIds -> EarningDisputeStatus \cup {Absent}]
        BY DEF DisputeInv, DisputeTableTypes
      <3>2. PageTypes'
        BY <2>2, <3>1 DEF DisputesLoad, Saving, DisputeInv, PageTypes
      <3>3. SceneTypes'
        BY <1>4, <2>2 DEF DisputesLoad, DisputeInv, SceneTypes, disputeScene
      <3> QED  BY <3>2, <3>3
    <2> QED  BY <2>1, <2>2
  <1>6. /\ slot' \in [Slots -> DisputeRequest] /\ Inserting' = Inserting
        /\ \A c \in Slots : slot'[c].pc = slot[c].pc
        /\ \A c \in Slots : slot[c] \notin FileRequest /\ slot[c] # Idle => slot'[c].id = slot[c].id
    <2>1. CASE EarningsLoad
      <3>1. PICK requests \in SUBSET Slots : requests = {c \in Slots : Filing(c)}
        OBVIOUS
      <3>2. LeavePage(requests) /\ \A c \in requests : slot[c] # Idle
        BY <2>1, <3>1 DEF EarningsLoad, Filing, At, Idle
      <3> QED  BY <3>2, LeavePageKeeps
    <2>2. ASSUME NEW a \in admins, DisputesLoad(a)
          PROVE  /\ slot' \in [Slots -> DisputeRequest] /\ Inserting' = Inserting
                 /\ \A c \in Slots : slot'[c].pc = slot[c].pc
                 /\ \A c \in Slots : slot[c] \notin FileRequest /\ slot[c] # Idle => slot'[c].id = slot[c].id
      <3>1. PICK requests \in SUBSET Slots : requests = SentBy(a)
        BY DEF SentBy
      <3>2. LeavePage(requests) /\ \A c \in requests : slot[c] # Idle
        BY <2>2, <3>1 DEF DisputesLoad, SentBy, Idle
      <3> QED  BY <3>2, LeavePageKeeps
    <2> QED  BY <2>1, <2>2
  <1>7. AboutFiled'
    <2>1. \A c \in Slots : slot[c].pc \in {"review_write", "settle_select", "settle_commit"} =>
                               slot[c] \notin FileRequest /\ slot[c] # Idle
      BY DEF FileRequest, Idle
    <2> QED  BY <1>1, <1>6, <2>1 DEF DisputeInv, AboutFiled
  <1>8. FiledInOrder'
    BY <1>1, <1>6 DEF DisputeInv, FiledInOrder, disputeScene
  <1> QED  BY <1>2, <1>5, <1>6, <1>7, <1>8 DEF DisputeInv

\* Every step of the desk keeps the invariant.
LEMMA DisputeNextKeeps == DisputeInv /\ [DisputeNext]_disputeVars => DisputeInv'
  <1> SUFFICES ASSUME DisputeInv, [DisputeNext]_disputeVars PROVE DisputeInv'
    OBVIOUS
  <1>1. CASE UNCHANGED disputeVars
    BY <1>1 DEF disputeVars, disputeTables, disputePages, disputeHistory, disputeScene, requestVars, DisputeInv,
                DisputeTableTypes, PageTypes, SceneTypes, At, AboutFiled, FiledInOrder, Filed, Inserting
  <1>2. ASSUME NEW c \in Slots, DisputeCall(c), UNCHANGED disputeRest PROVE DisputeInv'
    BY <1>2, FileClickKeeps, AdminClickKeeps DEF DisputeCall
  <1>3. ASSUME NEW c \in Slots, DisputeStep(c), UNCHANGED disputeRest PROVE DisputeInv'
    BY <1>3, FileInsertKeeps, FilingEndKeeps, ReviewWriteKeeps, SettleSelectKeeps, SettleCommitKeeps,
       SettleEndKeeps DEF DisputeStep
  <1>4. CASE /\ (\E t \in Paid : TaskApproved(t)) \/ (\E a \in admins, i \in Filed : ClickRefused(a, i))
             /\ UNCHANGED disputeRest
    BY <1>4, PageStepKeeps
  <1>5. CASE (EarningsLoad \/ \E a \in admins : DisputesLoad(a)) /\ UNCHANGED disputeScene
    BY <1>5, LoadKeeps
  <1> QED  BY <1>1, <1>2, <1>3, <1>4, <1>5 DEF DisputeNext, disputeRest

\* Types, and the order of the ids, whatever interleaves, dies or leaves its page.
THEOREM DisputeInvariant == DisputeSpec => []DisputeInv
  <1> QED  BY InitDisputeInv, DisputeNextKeeps, PTL DEF DisputeSpec

\* The tables of the disputes and the requests about them keep their types.
THEOREM DisputeTypes == DisputeSpec => []DisputeTypeOK
  <1>1. DisputeInv => DisputeTypeOK
    BY DisputeRequestShapes DEF DisputeInv, DisputeTableTypes, PageTypes, SceneTypes, DisputeTypeOK
  <1> QED  BY <1>1, DisputeInvariant, PTL

-----------------------------------------------------------------------------
\* While no answer is lost the page offers no task that is disputed, or about to be, unless
\* the page was left while a dispute about it was on its way.
Fresh(t) == \A i \in Filed : dispute[i].task # t

Once ==
    /\ \A t \in ledger \ leftTasks : Fresh(t)
    /\ \A c \in Inserting :
          slot[c].task \notin leftTasks => slot[c].task \notin ledger /\ Fresh(slot[c].task)
    /\ \A c, d \in Inserting : slot[c].task = slot[d].task /\ slot[c].task \notin leftTasks => c = d
    /\ \A i, j \in Filed :
          dispute[i].task = dispute[j].task /\ dispute[i].task \notin leftTasks => i = j
OnceInv == Undisturbed => Once

\* A step that files nothing and offers nothing new.
LEMMA OnceStays ==
    ASSUME DisputeInv, Once, Filed' = Filed, leftTasks' = leftTasks,
           \A i \in DisputeIds : dispute'[i].task = dispute[i].task, ledger' \subseteq ledger,
           \A c \in Inserting' : c \in Inserting /\ slot'[c].task = slot[c].task
    PROVE  Once'
  <1>1. Filed \subseteq DisputeIds
    BY DEF Filed
  <1>2. \A t : Fresh(t) => Fresh(t)'
    BY <1>1 DEF Fresh
  <1>3. \A c, d \in Inserting' : slot'[c].task = slot'[d].task /\ slot'[c].task \notin leftTasks' => c = d
    BY DEF Once
  <1>4. \A i, j \in Filed' :
            dispute'[i].task = dispute'[j].task /\ dispute'[i].task \notin leftTasks' => i = j
    BY <1>1 DEF Once
  <1> QED  BY <1>2, <1>3, <1>4 DEF Once

\* The page takes the flag before the request is out.
LEMMA FileClickOnce ==
    ASSUME DisputeInv, Once, NEW c \in Slots, NEW t \in Paid, FileClick(c, t), leftTasks' = leftTasks
    PROVE  Once'
  <1> USE DEF disputeTables
  <1>1. /\ UNCHANGED dispute /\ t \in ledger /\ ledger' = ledger \ {t} /\ c \notin Inserting
        /\ slot' = [slot EXCEPT ![c] = [pc |-> "file_insert", task |-> t, before |-> ledger, shown |-> TRUE]]
    BY DEF FileClick, Enter, Inserting, At
  <1>2. \A s : Fresh(s)' <=> Fresh(s)
    BY <1>1 DEF Fresh, Filed
  <1>3. \A d \in Inserting' :
            \/ d = c /\ slot'[d].task = t
            \/ d \in Inserting /\ d # c /\ slot'[d].task = slot[d].task
    <2>1. slot'[c].task = t /\ \A d \in Slots : d # c => slot'[d] = slot[d]
      BY <1>1 DEF DisputeInv
    <2>2. \A d \in Inserting' : d \in Slots /\ (d # c => d \in Inserting)
      BY <2>1 DEF Inserting, At
    <2> QED  BY <2>1, <2>2
  <1>4. \A d \in Inserting : slot[d].task = t => t \in leftTasks
    BY <1>1 DEF Once
  <1>5. t \notin leftTasks => Fresh(t)
    BY <1>1 DEF Once
  <1>6. \A d \in Inserting' :
            slot'[d].task \notin leftTasks' => slot'[d].task \notin ledger' /\ Fresh(slot'[d].task)
    BY <1>1, <1>3, <1>5 DEF Once
  <1>7. \A d, e \in Inserting' : slot'[d].task = slot'[e].task /\ slot'[d].task \notin leftTasks' => d = e
    BY <1>3, <1>4 DEF Once
  <1>8. \A i, j \in Filed' :
            dispute'[i].task = dispute'[j].task /\ dispute'[i].task \notin leftTasks' => i = j
    BY <1>1 DEF Once, Filed
  <1>9. \A s \in ledger' \ leftTasks' : Fresh(s)
    BY <1>1 DEF Once
  <1> QED  BY <1>2, <1>6, <1>7, <1>8, <1>9 DEF Once

\* The task of a new dispute had none: the page held it back while it was being filed.
LEMMA FileInsertOnce ==
    ASSUME DisputeInv, Once, NEW c \in Slots, FileInsert(c), UNCHANGED disputeRest
    PROVE  Once'
  <1> USE DEF disputePages
  <1>1. PICK n : n = Cardinality(Filed) + 1
    OBVIOUS
  <1>2. /\ n \notin Filed /\ Filed' = Filed \cup {n}
        /\ \A i \in DisputeIds : dispute'[i].task = IF i = n THEN slot[c].task ELSE dispute[i].task
    BY <1>1, FileInsertKeeps
  <1>3. Filed' \subseteq DisputeIds
    BY DEF Filed
  <1>4. c \in Inserting /\ UNCHANGED <<ledger, leftTasks>>
    BY DEF FileInsert, Inserting, disputeRest, disputeHistory
  <1>5. \A t : Fresh(t) /\ t # slot[c].task => Fresh(t)'
    BY <1>2, <1>3 DEF Fresh
  <1>6. \A d \in Inserting' : d \in Inserting /\ d # c /\ slot'[d].task = slot[d].task
    <2>1. slot[c] \in FileRequest
      BY DisputeRequestShapes DEF DisputeInv, FileInsert, At
    <2>2. slot' = [slot EXCEPT ![c] = [slot[c] EXCEPT !.pc = "file_answer"]]
      BY DEF FileInsert, Goto, DisputeInv
    <2> QED  BY <2>1, <2>2 DEF DisputeInv, Inserting, At, FileRequest
  <1>7. \A i, j \in Filed' :
            dispute'[i].task = dispute'[j].task /\ dispute'[i].task \notin leftTasks' => i = j
    BY <1>2, <1>3, <1>4 DEF Once, Fresh
  <1>8. \A t \in ledger' \ leftTasks' : Fresh(t)'
    BY <1>4, <1>5 DEF Once
  <1>9. \A d \in Inserting' :
            slot'[d].task \notin leftTasks' =>
                slot'[d].task \notin ledger' /\ Fresh(slot[d].task)' /\ slot'[d].task = slot[d].task
    BY <1>4, <1>5, <1>6 DEF Once
  <1>10. \A d, e \in Inserting' : slot'[d].task = slot'[e].task /\ slot'[d].task \notin leftTasks' => d = e
    BY <1>4, <1>6 DEF Once
  <1>11. \A d \in Inserting' : slot'[d].task \notin leftTasks' => \A i \in Filed' : dispute'[i].task # slot'[d].task
    BY <1>2, <1>3, <1>4, <1>6 DEF Once, Fresh
  <1> QED  BY <1>7, <1>8, <1>9, <1>10, <1>11 DEF Once, Fresh

\* The flags are loaded anew, and what is on its way counts as left.
LEMMA EarningsLoadOnce ==
    ASSUME DisputeInv, Once, EarningsLoad
    PROVE  Once'
  <1>1. UNCHANGED dispute /\ ledger' = Undisputed /\ Filed' = Filed
    BY DEF EarningsLoad, disputeTables, Filed
  <1>2. \A t \in ledger' : Fresh(t)'
    BY <1>1 DEF Undisputed, DisputesOf, Fresh, Filed
  <1>3. \A c \in Inserting' : slot'[c].task \in leftTasks'
    <2>1. PICK requests \in SUBSET Slots : requests = {c \in Slots : Filing(c)}
      OBVIOUS
    <2>2. LeavePage(requests) /\ \A c \in requests : slot[c] # Idle
      BY <2>1 DEF EarningsLoad, Filing, At, Idle
    <2>3. Inserting' = Inserting /\ \A c \in Slots : slot[c] \in FileRequest => slot'[c].task = slot[c].task
      BY <2>2, LeavePageKeeps
    <2>4. \A c \in Inserting : slot[c] \in FileRequest /\ slot[c].task \in leftTasks'
      BY DisputeRequestShapes DEF DisputeInv, Inserting, At, EarningsLoad
    <2> QED  BY <2>3, <2>4 DEF Inserting
  <1>4. \A i, j \in Filed' :
            dispute'[i].task = dispute'[j].task /\ dispute'[i].task \notin leftTasks' => i = j
    BY <1>1 DEF Once, EarningsLoad
  <1> QED  BY <1>2, <1>3, <1>4 DEF Once

\* Every step keeps the tasks of the disputes apart while no answer is lost.
LEMMA OnceNextKeeps == DisputeInv /\ OnceInv /\ [DisputeNext]_disputeVars => OnceInv'
  <1> SUFFICES ASSUME DisputeInv, OnceInv, [DisputeNext]_disputeVars, Undisturbed' PROVE Once'
    BY DEF OnceInv
  <1>1. Undisturbed /\ Once
    BY DEF DisputeNext, disputeVars, requestVars, Undisturbed, OnceInv
  <1>2. ASSUME UNCHANGED <<dispute, ledger, slot, leftTasks>> PROVE Once'
    BY <1>1, <1>2 DEF Once, Fresh, Filed, Inserting, At
  <1>3. CASE UNCHANGED disputeVars
    BY <1>2, <1>3 DEF disputeVars, disputeTables, disputePages, disputeHistory, requestVars
  <1>4. ASSUME NEW c \in Slots, NEW request, request.pc # "file_insert", UNCHANGED disputeRest,
               slot' = [slot EXCEPT ![c] = request], Filed' = Filed,
               \A i \in DisputeIds : dispute'[i].task = dispute[i].task, ledger' \subseteq ledger
        PROVE  Once'
    <2>1. \A d \in Slots : slot'[d] = IF d = c THEN request ELSE slot[d]
      BY <1>4 DEF DisputeInv
    <2>2. \A d \in Inserting' : d \in Inserting /\ slot'[d].task = slot[d].task
      BY <1>4, <2>1 DEF Inserting, At
    <2> QED  BY <1>1, <1>4, <2>2, OnceStays DEF disputeRest, disputeHistory
  <1>5. ASSUME NEW c \in Slots, DisputeCall(c), UNCHANGED disputeRest PROVE Once'
    <2>1. CASE \E t \in Paid : FileClick(c, t)
      BY <1>1, <1>5, <2>1, FileClickOnce DEF disputeRest, disputeHistory
    <2>2. ASSUME NEW a \in admins, NEW i \in Filed, ReviewClick(c, a, i) PROVE Once'
      <3>1. PICK request : request = [pc |-> "review_write", admin |-> a, id |-> i, shown |-> TRUE]
        OBVIOUS
      <3>2. /\ slot' = [slot EXCEPT ![c] = request] /\ UNCHANGED <<dispute, ledger>>
            /\ request.pc # "file_insert"
        BY <2>2, <3>1 DEF ReviewClick, Enter, disputeTables
      <3> QED  BY <1>4, <1>5, <3>2 DEF Filed
    <2>3. ASSUME NEW a \in admins, NEW i \in Filed, NEW adjusted \in Adjustments,
                 NEW to \in {"RESOLVED", "REJECTED"}, SettleClick(c, a, i, to, adjusted)
          PROVE  Once'
      <3>1. PICK request : request = [pc |-> "settle_select", admin |-> a, id |-> i, to |-> to,
                                      adjusted |-> adjusted, shown |-> TRUE]
        OBVIOUS
      <3>2. /\ slot' = [slot EXCEPT ![c] = request] /\ UNCHANGED <<dispute, ledger>>
            /\ request.pc # "file_insert"
        BY <2>3, <3>1 DEF SettleClick, Enter, disputeTables
      <3> QED  BY <1>4, <1>5, <3>2 DEF Filed
    <2> QED  BY <1>5, <2>1, <2>2, <2>3 DEF DisputeCall
  <1>6. ASSUME NEW c \in Slots, DisputeStep(c), UNCHANGED disputeRest PROVE Once'
    <2>1. ASSUME Finish(c), Filed' = Filed, \A i \in DisputeIds : dispute'[i].task = dispute[i].task,
                 ledger' \subseteq ledger
          PROVE  Once'
      <3>1. Idle.pc # "file_insert"
        BY DEF Idle
      <3> QED  BY <1>4, <1>6, <2>1, <3>1 DEF Finish
    <2>2. CASE FileInsert(c)
      BY <1>1, <1>6, <2>2, FileInsertOnce
    <2>3. CASE FileAnswer(c) \/ SettleAnswer(c)
      <3>1. Finish(c) /\ UNCHANGED <<dispute, ledger>>
        BY <2>3 DEF FileAnswer, SettleAnswer, disputeTables, disputePages
      <3> QED  BY <2>1, <3>1 DEF Filed
    <2>4. CASE ReviewWrite(c)
      <3>1. Finish(c) /\ UNCHANGED ledger
        BY <2>4 DEF ReviewWrite
      <3> QED  BY <1>6, <2>1, <2>4, <3>1, ReviewWriteKeeps
    <2>5. CASE SettleSelect(c)
      <3>1. PICK request :
                request = [pc |-> "settle_commit", admin |-> slot[c].admin, id |-> slot[c].id,
                           to |-> slot[c].to, adjusted |-> slot[c].adjusted, shown |-> slot[c].shown,
                           old |-> payment[dispute[slot[c].id].task]]
        OBVIOUS
      <3>2. /\ slot' = [slot EXCEPT ![c] = request] /\ UNCHANGED <<dispute, ledger>>
            /\ request.pc # "file_insert"
        BY <2>5, <3>1 DEF SettleSelect, Become, disputeTables, disputePages
      <3> QED  BY <1>4, <1>6, <3>2 DEF Filed
    <2>6. CASE SettleCommit(c)
      <3>1. PICK request : request = [slot[c] EXCEPT !.pc = "settle_answer"]
        OBVIOUS
      <3>2. slot[c] \in SettleRequest
        BY <2>6, DisputeRequestShapes DEF DisputeInv, SettleCommit, At
      <3>3. /\ slot' = [slot EXCEPT ![c] = request] /\ UNCHANGED ledger
            /\ request.pc # "file_insert"
        BY <2>6, <3>1, <3>2 DEF SettleCommit, Goto, disputePages, SettleRequest, DisputeInv
      <3> QED  BY <1>4, <1>6, <2>6, <3>3, SettleCommitKeeps
    <2>7. ~FileFails(c) /\ ~SettlingFails(c)
      BY <1>1 DEF FileFails, SettlingFails, Fail
    <2> QED  BY <1>6, <2>2, <2>3, <2>4, <2>5, <2>6, <2>7 DEF DisputeStep
  <1>7. CASE EarningsLoad
    BY <1>1, <1>7, EarningsLoadOnce
  <1>8. CASE /\ (\E t \in Paid : TaskApproved(t)) \/ (\E a \in admins, i \in Filed : ClickRefused(a, i))
             /\ UNCHANGED disputeRest
    BY <1>2, <1>8 DEF TaskApproved, ClickRefused, disputeTables, disputePages, disputeRest, disputeHistory
  <1>9. ASSUME NEW a \in admins, DisputesLoad(a) PROVE Once'
    <2>1. PICK requests \in SUBSET Slots : requests = SentBy(a)
      BY DEF SentBy
    <2>2. LeavePage(requests) /\ \A c \in requests : slot[c] # Idle /\ c \notin Inserting
      BY <1>9, <2>1 DEF DisputesLoad, SentBy, Idle, Inserting, At
    <2>3. \A c \in Inserting' : c \in Inserting /\ slot'[c].task = slot[c].task
      BY <2>2, LeavePageKeeps DEF Inserting
    <2>4. UNCHANGED <<dispute, ledger, leftTasks>>
      BY <1>9 DEF DisputesLoad, disputeTables
    <2> QED  BY <1>1, <2>3, <2>4, OnceStays DEF Filed
  <1> QED  BY <1>3, <1>5, <1>6, <1>7, <1>8, <1>9 DEF DisputeNext, disputeRest

\* As long as no answer is lost a task whose dispute was not left on its way is disputed
\* once, however many requests interleave and whatever pages are opened again.
THEOREM DisputedOnlyOnce == DisputeSpec => []DisputedOnce
  <1>1. DisputeInit => OnceInv
    <2> SUFFICES ASSUME DisputeInit PROVE Once
      BY DEF OnceInv
    <2>1. \A i \in DisputeIds : dispute[i] = NoDispute
      BY DEF DisputeInit, DisputeStart
    <2>2. Filed = {} /\ ledger = {} /\ Inserting = {}
      BY <2>1 DEF Filed, NoDispute, DisputeInit, DisputeStart, RequestsInit, Inserting, At, Idle
    <2> QED  BY <2>2 DEF Once
  <1>2. DisputeInv /\ OnceInv => DisputedOnce
    <2> SUFFICES ASSUME DisputeInv, Once, NEW t \in Paid \ leftTasks PROVE Cardinality(DisputesOf(t)) <= 1
      BY DEF OnceInv, DisputedOnce
    <2>1. \A i, j \in DisputesOf(t) : i = j
      BY DEF DisputesOf, Once
    <2>2. DisputesOf(t) = {} \/ \E i : DisputesOf(t) = {i}
      BY <2>1
    <2>3. Cardinality(DisputesOf(t)) \in {0, 1}
      BY <2>2, FS_EmptySet, FS_Singleton
    <2> QED  BY <2>3
  <1> QED  BY <1>1, <1>2, OnceNextKeeps, DisputeInvariant, PTL DEF DisputeSpec

-----------------------------------------------------------------------------
\* A difference is added to the earnings for a payment that has not changed since it was
\* read: one settlement runs at a time, and its page is there and waits for it.
SettlingSteps == {"review_write", "settle_select", "settle_commit", "settle_answer"}
DisputeSettling(c) == slot[c].pc \in SettlingSteps /\ slot[c].shown

Careful ==
    \/ InTurn
    \/ Undisturbed /\ Cardinality(admins) = 1 /\ Cardinality(Filed) <= 1 /\ leftDisputes = {}

InEarnings ==
    /\ \A i \in Filed : dispute[i].task \in earned
    /\ \A c \in Slots : At(c, "file_insert") => slot[c].task \in earned
OneSettles == \A c, d \in Slots : DisputeSettling(c) /\ DisputeSettling(d) => c = d
PageWaits ==
    /\ \A c \in Slots : slot[c].pc \in {"settle_select", "settle_commit"} => slot[c].shown
    /\ \A c \in Slots : DisputeSettling(c) =>
          slot[c].admin \in admins /\ slot[c].id \in Filed /\ savingId[slot[c].admin] = slot[c].id
ReadIsCurrent ==
    \A c \in Slots : At(c, "settle_commit") => slot[c].old = payment[dispute[slot[c].id].task]
Adds == total = SumOver(payment, earned)

AccountsFit == InEarnings /\ OneSettles /\ PageWaits /\ ReadIsCurrent /\ Adds
AccountsInv == Careful => AccountsFit

\* The payments of the tasks are numbers, and there are finitely many tasks.
LEMMA PaymentsAdd ==
    ASSUME DisputeInv
    PROVE  /\ IsFiniteSet(earned) /\ Numbers(payment, earned)
           /\ \A t \in Paid : payment[t] \in Int
  <1>1. \A t \in Paid : payment[t] \in Int
    <2>1. \A t \in Paid : payment[t] \in Amounts
      BY DEF DisputeInv, DisputeTableTypes
    <2> QED  BY <2>1, AmountIsInteger
  <1>2. earned \subseteq Paid
    BY DEF DisputeInv, DisputeTableTypes
  <1> QED  BY <1>1, <1>2, DisputesAssumption, FS_Subset DEF Numbers

\* A button of a settlement starts one only when none is on its way.
LEMMA NoOtherSettles ==
    ASSUME DisputeInv, Careful, AccountsFit, NEW a \in admins, NEW i \in Filed, isActionable(a, i),
           InTurn => Quiet
    PROVE  \A d \in Slots : ~DisputeSettling(d)
  <1> SUFFICES ASSUME NEW d \in Slots, DisputeSettling(d) PROVE FALSE
    OBVIOUS
  <1>1. ~InTurn
    BY DEF Quiet, At, DisputeSettling, SettlingSteps
  <1>2. Cardinality(admins) = 1 /\ Cardinality(Filed) <= 1
    BY <1>1 DEF Careful
  <1>3. slot[d].admin \in admins /\ slot[d].id \in Filed /\ savingId[slot[d].admin] = slot[d].id
    BY DEF AccountsFit, PageWaits
  <1>4. slot[d].admin = a
    <2>1. IsFiniteSet(admins)
      BY DisputesAssumption, FS_Subset DEF DisputeInv, SceneTypes
    <2>2. PICK b : admins = {b}
      BY <1>2, <2>1, FS_Singleton
    <2> QED  BY <1>3, <2>2
  <1>5. slot[d].id = i
    <2>1. Cardinality(Filed) \in Nat
      BY FS_CardinalityType DEF DisputeInv, FiledInOrder
    <2>2. Filed \subseteq {1}
      BY <1>2, <2>1 DEF DisputeInv, FiledInOrder
    <2> QED  BY <1>3, <2>2
  <1> QED  BY <1>3, <1>4, <1>5 DEF isActionable

\* A step that leaves payments, earnings and tasks alone, and takes one slot further.
LEMMA AccountsStay ==
    ASSUME DisputeInv, AccountsFit, NEW c \in Slots, NEW request, slot' = [slot EXCEPT ![c] = request],
           UNCHANGED <<payment, earned, total, admins>>, Filed' = Filed,
           \A i \in DisputeIds : dispute'[i].task = dispute[i].task,
           request.pc = "file_insert" => request.task \in earned,
           request.pc = "settle_commit" => request.old = payment[dispute[request.id].task],
           request.pc \in {"settle_select", "settle_commit"} => request.shown,
           request.pc \in SettlingSteps /\ request.shown =>
               /\ request.admin \in admins /\ request.id \in Filed
               /\ savingId'[request.admin] = request.id,
           \A d \in Slots : d # c /\ DisputeSettling(d) =>
               /\ ~(request.pc \in SettlingSteps /\ request.shown)
               /\ savingId'[slot[d].admin] = savingId[slot[d].admin]
    PROVE  AccountsFit'
  <1>1. \A d \in Slots : slot'[d] = IF d = c THEN request ELSE slot[d]
    BY DEF DisputeInv
  <1>2. \A d \in Slots : d # c /\ DisputeSettling(d)' => DisputeSettling(d)
    BY <1>1 DEF DisputeSettling
  <1>3. Filed \subseteq DisputeIds
    BY DEF Filed
  <1>4. InEarnings'
    BY <1>1, <1>3 DEF AccountsFit, InEarnings, At
  <1>5. OneSettles'
    BY <1>1 DEF AccountsFit, OneSettles, DisputeSettling
  <1>6. PageWaits'
    BY <1>1, <1>2 DEF AccountsFit, PageWaits, DisputeSettling
  <1>7. ReadIsCurrent'
    <2> SUFFICES ASSUME NEW d \in Slots, At(d, "settle_commit")'
                 PROVE  slot'[d].old = payment[dispute'[slot'[d].id].task]
      BY DEF ReadIsCurrent
    <2>1. slot'[d].id \in Filed /\ slot'[d].old = payment[dispute[slot'[d].id].task]
      BY <1>1 DEF At, AccountsFit, PageWaits, ReadIsCurrent, DisputeSettling, SettlingSteps
    <2> QED  BY <1>3, <2>1
  <1>8. Adds'
    BY DEF AccountsFit, Adds
  <1> QED  BY <1>4, <1>5, <1>6, <1>7, <1>8 DEF AccountsFit

\* A last step of a request, or an answer that got lost.
LEMMA AccountsEnd ==
    ASSUME DisputeInv, AccountsFit, NEW c \in Slots, Finish(c),
           UNCHANGED <<payment, earned, total, admins>>, Filed' = Filed,
           \A i \in DisputeIds : dispute'[i].task = dispute[i].task,
           savingId' = savingId \/ (DisputeSettling(c) /\ savingId' = [savingId EXCEPT ![slot[c].admin] = 0])
    PROVE  AccountsFit'
  <1>1. Idle.pc \notin SettlingSteps \cup {"file_insert", "settle_select", "settle_commit"}
    BY DEF Idle, SettlingSteps
  <1>2. \A d \in Slots : d # c /\ DisputeSettling(d) => savingId' = savingId
    BY DEF AccountsFit, OneSettles
  <1> QED  BY <1>1, <1>2, AccountsStay DEF Finish

\* A dispute is filed about a task whose payment has been earned.
LEMMA FileInsertAccounts ==
    ASSUME DisputeInv, AccountsFit, NEW c \in Slots, FileInsert(c), UNCHANGED disputeRest
    PROVE  AccountsFit'
  <1> USE DEF disputePages
  <1>1. PICK n : n = Cardinality(Filed) + 1
    OBVIOUS
  <1>2. /\ n \notin Filed /\ Filed' = Filed \cup {n}
        /\ \A i \in DisputeIds : dispute'[i].task = IF i = n THEN slot[c].task ELSE dispute[i].task
    BY <1>1, FileInsertKeeps
  <1>3. Filed' \subseteq DisputeIds
    BY DEF Filed
  <1>4. slot[c].task \in earned /\ UNCHANGED <<payment, earned, total, savingId>>
    BY DEF FileInsert, AccountsFit, InEarnings
  <1>5. \A d \in Slots : d # c => slot'[d] = slot[d]
    BY DEF FileInsert, Goto, DisputeInv
  <1>6. slot'[c].pc = "file_answer"
    <2>1. slot[c] \in FileRequest
      BY DisputeRequestShapes DEF DisputeInv, FileInsert, At
    <2> QED  BY <2>1 DEF FileInsert, Goto, DisputeInv, FileRequest
  <1>7. \A d \in Slots : DisputeSettling(d)' => d # c /\ DisputeSettling(d) /\ slot'[d] = slot[d]
    BY <1>5, <1>6 DEF DisputeSettling, SettlingSteps
  <1>8. InEarnings'
    BY <1>2, <1>3, <1>4, <1>5, <1>6 DEF AccountsFit, InEarnings, At
  <1>9. OneSettles' /\ PageWaits'
    <2>1. \A d \in Slots : slot'[d].pc \in {"settle_select", "settle_commit"} => slot'[d].shown
      BY <1>5, <1>6 DEF AccountsFit, PageWaits
    <2>2. admins' = admins
      BY DEF disputeRest, disputeScene
    <2> QED  BY <1>2, <1>4, <1>7, <2>1, <2>2 DEF AccountsFit, OneSettles, PageWaits
  <1>10. ReadIsCurrent'
    <2> SUFFICES ASSUME NEW d \in Slots, At(d, "settle_commit")'
                 PROVE  slot'[d].old = payment[dispute'[slot'[d].id].task]
      BY <1>4 DEF ReadIsCurrent
    <2>1. slot'[d] = slot[d] /\ DisputeSettling(d) /\ At(d, "settle_commit")
      BY <1>5, <1>6 DEF At, DisputeSettling, SettlingSteps, AccountsFit, PageWaits
    <2>2. slot[d].id \in Filed /\ slot[d].old = payment[dispute[slot[d].id].task]
      BY <2>1 DEF AccountsFit, PageWaits, ReadIsCurrent
    <2> QED  BY <1>2, <1>3, <2>1, <2>2
  <1>11. Adds'
    BY <1>4 DEF AccountsFit, Adds
  <1> QED  BY <1>8, <1>9, <1>10, <1>11 DEF AccountsFit

\* The earnings change by what the payment changes.
LEMMA SettleCommitAccounts ==
    ASSUME DisputeInv, AccountsFit, NEW c \in Slots, SettleCommit(c), UNCHANGED disputeRest
    PROVE  AccountsFit'
  <1> USE DEF disputePages
  <1>1. DisputeInv' /\ Filed' = Filed /\ \A j \in DisputeIds : dispute'[j].task = dispute[j].task
    BY SettleCommitKeeps
  <1>2. /\ slot[c] \in SettleRequest /\ slot[c].pc = "settle_commit" /\ DisputeSettling(c)
        /\ slot[c].admin \in admins /\ slot[c].id \in Filed
        /\ savingId[slot[c].admin] = slot[c].id
    BY DisputeRequestShapes DEF DisputeInv, SettleCommit, At, DisputeSettling, SettlingSteps, AccountsFit, PageWaits
  <1>3. PICK t \in Paid : t = dispute[slot[c].id].task /\ t \in earned /\ slot[c].old = payment[t]
    BY <1>2 DEF AccountsFit, InEarnings, ReadIsCurrent, DisputeInv, DisputeTableTypes, At
  <1>4. UNCHANGED <<earned, savingId>>
    BY DEF SettleCommit
  <1>5. slot' = [slot EXCEPT ![c] = [slot[c] EXCEPT !.pc = "settle_answer"]]
    BY DEF SettleCommit, Goto, DisputeInv
  <1>6. /\ \A d \in Slots : d # c => slot'[d] = slot[d]
        /\ slot'[c].pc = "settle_answer" /\ slot'[c].admin = slot[c].admin /\ slot'[c].id = slot[c].id
        /\ admins' = admins
    BY <1>2, <1>5 DEF DisputeInv, SettleRequest, disputeRest, disputeScene
  <1>7. \A d \in Slots : DisputeSettling(d)' => d = c
    BY <1>2, <1>6 DEF DisputeSettling, SettlingSteps, AccountsFit, OneSettles
  <1>8. InEarnings'
    <2>1. Filed \subseteq DisputeIds
      BY DEF Filed
    <2> QED  BY <1>1, <1>4, <1>6, <2>1 DEF AccountsFit, InEarnings, At
  <1>9. OneSettles' /\ PageWaits' /\ ReadIsCurrent'
    <2>1. PageWaits'
      <3>1. \A d \in Slots : slot'[d].pc \in {"settle_select", "settle_commit"} => slot'[d].shown
        BY <1>6 DEF AccountsFit, PageWaits
      <3> QED  BY <1>1, <1>2, <1>4, <1>6, <1>7, <3>1 DEF PageWaits
    <2>2. ReadIsCurrent'
      BY <1>6, <1>7, <2>1 DEF ReadIsCurrent, At, DisputeSettling, SettlingSteps, PageWaits
    <2> QED  BY <1>7, <2>1, <2>2 DEF OneSettles
  <1>10. Adds'
    <2>1. CASE slot[c].adjusted = 0
      BY <1>4, <2>1 DEF SettleCommit, AccountsFit, Adds
    <2>2. CASE slot[c].adjusted # 0
      <3> DEFINE rest == earned \ {t}
      <3>1. /\ payment' = [payment EXCEPT ![t] = slot[c].adjusted]
            /\ total' = total + (slot[c].adjusted - payment[t])
        BY <1>3, <2>2 DEF SettleCommit
      <3>2. /\ IsFiniteSet(earned) /\ Numbers(payment, earned) /\ payment[t] \in Int
            /\ Numbers(payment', earned) /\ payment'[t] \in Int
        <4>1. \A s \in Paid : payment'[s] \in Amounts
          BY <1>1 DEF DisputeInv, DisputeTableTypes
        <4>2. \A s \in Paid : payment'[s] \in Int
          BY <4>1, AmountIsInteger
        <4>3. earned \subseteq Paid
          BY DEF DisputeInv, DisputeTableTypes
        <4> QED  BY <4>2, <4>3, PaymentsAdd DEF Numbers
      <3>3. IsFiniteSet(rest) /\ Numbers(payment, rest) /\ Alike(payment, payment', rest)
        <4>1. \A s \in Paid : s # t => payment'[s] = payment[s]
          BY <3>1 DEF DisputeInv, DisputeTableTypes
        <4>2. earned \subseteq Paid
          BY DEF DisputeInv, DisputeTableTypes
        <4> QED  BY <3>2, <4>1, <4>2, FS_Subset DEF Numbers, Alike
      <3>4. SumOver(payment, rest) \in Int /\ SumOver(payment', rest) = SumOver(payment, rest)
        <4> HIDE DEF rest
        <4> QED  BY <3>3, SumIsNumber
      <3>5. SumOver(payment, earned) = SumOver(payment, rest) + payment[t]
        BY <1>3, <3>2, SumOfMember
      <3>6. SumOver(payment', earned) = SumOver(payment', rest) + payment'[t]
        BY <1>3, <3>2, SumOfMember
      <3>7. payment'[t] = slot[c].adjusted
        BY <3>1 DEF DisputeInv, DisputeTableTypes
      <3>8. total = SumOver(payment, earned)
        BY DEF AccountsFit, Adds
      <3> HIDE DEF rest
      <3>9. total' = SumOver(payment', earned)
        BY <3>1, <3>2, <3>4, <3>5, <3>6, <3>7, <3>8
      <3> QED  BY <1>4, <3>9 DEF Adds
    <2> QED  BY <2>1, <2>2
  <1> QED  BY <1>8, <1>9, <1>10 DEF AccountsFit

\* An approval adds the payment of its task, while nobody reads or settles it.
LEMMA TaskApprovedAccounts ==
    ASSUME DisputeInv, AccountsFit, NEW t \in Paid, TaskApproved(t), UNCHANGED disputeRest
    PROVE  AccountsFit'
  <1> USE DEF disputePages
  <1>1. /\ t \notin earned /\ earned' = earned \cup {t} /\ total' = total + payment[t]
        /\ UNCHANGED <<payment, dispute, savingId, slot>>
    BY DEF TaskApproved
  <1>2. InEarnings' /\ OneSettles' /\ PageWaits' /\ ReadIsCurrent'
    BY <1>1 DEF disputeRest, disputeScene, AccountsFit, InEarnings, OneSettles, PageWaits, ReadIsCurrent, DisputeSettling, At, Filed
  <1>3. Adds'
    <2>1. /\ IsFiniteSet(earned) /\ Numbers(payment, earned) /\ payment[t] \in Int
      BY PaymentsAdd
    <2>2. IsFiniteSet(earned') /\ Numbers(payment, earned')
      BY <1>1, <2>1, FS_AddElement DEF Numbers
    <2>3. earned' \ {t} = earned /\ t \in earned'
      BY <1>1
    <2>4. SumOver(payment, earned') = SumOver(payment, earned' \ {t}) + payment[t]
      BY <2>2, <2>3, SumOfMember
    <2> QED  BY <1>1, <2>3, <2>4 DEF AccountsFit, Adds
  <1> QED  BY <1>2, <1>3 DEF AccountsFit

\* Every step keeps the accounts.
LEMMA AccountsNextKeeps == DisputeInv /\ AccountsInv /\ [DisputeNext]_disputeVars => AccountsInv'
  <1> SUFFICES ASSUME DisputeInv, AccountsInv, [DisputeNext]_disputeVars, Careful'
               PROVE  AccountsFit'
    BY DEF AccountsInv
  <1> USE DEF disputeTables, disputePages
  <1>1. UNCHANGED <<admins, mode>> /\ leftDisputes \subseteq leftDisputes'
    BY DEF DisputeNext, EarningsLoad, DisputesLoad, disputeVars, disputeHistory, disputeScene, requestVars
  <1>2. ASSUME NEW c \in Slots, FileInsert(c), UNCHANGED disputeRest PROVE Careful
    <2>1. Filed \subseteq Filed' /\ IsFiniteSet(Filed')
      <3>1. DisputeInv' /\ Filed' = Filed \cup {Cardinality(Filed) + 1}
        BY <1>2, FileInsertKeeps
      <3> QED  BY <3>1 DEF DisputeInv, FiledInOrder
    <2>2. Cardinality(Filed) <= Cardinality(Filed') /\ Cardinality(Filed) \in Nat /\ Cardinality(Filed') \in Nat
      BY <2>1, FS_Subset, FS_CardinalityType
    <2>3. Cardinality(Filed') <= 1 => Cardinality(Filed) <= 1
      BY <2>2
    <2>4. /\ InTurn' = InTurn /\ Undisturbed' = Undisturbed /\ admins' = admins
          /\ leftDisputes' = {} => leftDisputes = {}
      BY <1>1 DEF InTurn, Undisturbed
    <2> QED  BY <2>3, <2>4 DEF Careful
  <1>3. ASSUME Filed' = Filed PROVE Careful /\ AccountsFit
    BY <1>1, <1>3 DEF Careful, InTurn, Undisturbed, AccountsInv
  <1>4. ASSUME UNCHANGED <<payment, earned, total, dispute, savingId, slot>> PROVE AccountsFit'
    <2>1. Filed' = Filed
      BY <1>4 DEF Filed
    <2> QED  BY <1>1, <1>3, <1>4, <2>1 DEF AccountsFit, InEarnings, OneSettles, PageWaits, ReadIsCurrent,
                                          Adds, DisputeSettling, At
  <1>5. CASE UNCHANGED disputeVars
    BY <1>4, <1>5 DEF disputeVars, requestVars
  <1>6. ASSUME NEW c \in Slots, DisputeCall(c), UNCHANGED disputeRest PROVE AccountsFit'
    <2>1. UNCHANGED <<payment, earned, total, dispute>> /\ Filed' = Filed
      BY <1>6 DEF DisputeCall, FileClick, ReviewClick, SettleClick, Filed
    <2>2. Careful /\ AccountsFit
      BY <1>3, <2>1
    <2>3. ASSUME NEW t \in Paid, FileClick(c, t) PROVE AccountsFit'
      <3>1. PICK request : request = [pc |-> "file_insert", task |-> t, before |-> ledger, shown |-> TRUE]
        OBVIOUS
      <3>2. request.pc = "file_insert" /\ request.task \in earned /\ request.pc \notin SettlingSteps
        BY <2>3, <3>1 DEF FileClick, SettlingSteps
      <3>3. slot' = [slot EXCEPT ![c] = request] /\ UNCHANGED savingId
        BY <2>3, <3>1 DEF FileClick, Enter
      <3> QED  BY <1>1, <2>1, <2>2, <3>2, <3>3, AccountsStay
    <2>4. ASSUME NEW a \in admins, NEW i \in Filed, NEW request,
                 isActionable(a, i), InTurn => Quiet, Saving(a, i),
                 slot' = [slot EXCEPT ![c] = request],
                 request.pc \in {"review_write", "settle_select"}, request.admin = a, request.id = i,
                 request.shown = TRUE
          PROVE  AccountsFit'
      <3>1. \A d \in Slots : ~DisputeSettling(d)
        BY <2>2, <2>4, NoOtherSettles
      <3>2. savingId'[a] = i
        BY <2>4 DEF Saving, DisputeInv, PageTypes, SceneTypes
      <3> QED  BY <1>1, <2>1, <2>2, <2>4, <3>1, <3>2, AccountsStay
    <2>5. ASSUME NEW a \in admins, NEW i \in Filed, ReviewClick(c, a, i) PROVE AccountsFit'
      <3>1. PICK request : request = [pc |-> "review_write", admin |-> a, id |-> i, shown |-> TRUE]
        OBVIOUS
      <3>2. request.pc = "review_write" /\ request.admin = a /\ request.id = i /\ request.shown = TRUE
        BY <3>1
      <3>3. /\ slot' = [slot EXCEPT ![c] = request] /\ (InTurn => Quiet)
            /\ isActionable(a, i) /\ Saving(a, i)
        BY <2>5, <3>1 DEF ReviewClick, Enter
      <3> QED  BY <2>4, <3>2, <3>3
    <2>6. ASSUME NEW a \in admins, NEW i \in Filed, NEW adjusted \in Adjustments,
                 NEW to \in {"RESOLVED", "REJECTED"}, SettleClick(c, a, i, to, adjusted)
          PROVE  AccountsFit'
      <3>1. PICK request : request = [pc |-> "settle_select", admin |-> a, id |-> i, to |-> to,
                                      adjusted |-> adjusted, shown |-> TRUE]
        OBVIOUS
      <3>2. request.pc = "settle_select" /\ request.admin = a /\ request.id = i /\ request.shown = TRUE
        BY <3>1
      <3>3. /\ slot' = [slot EXCEPT ![c] = request] /\ (InTurn => Quiet)
            /\ isActionable(a, i) /\ Saving(a, i)
        BY <2>6, <3>1 DEF SettleClick, Enter
      <3> QED  BY <2>4, <3>2, <3>3
    <2> QED  BY <1>6, <2>3, <2>5, <2>6 DEF DisputeCall
  <1>7. ASSUME NEW c \in Slots, DisputeStep(c), UNCHANGED disputeRest PROVE AccountsFit'
    <2>1. CASE FileInsert(c)
      BY <1>2, <1>7, <2>1, FileInsertAccounts DEF AccountsInv
    <2>2. CASE FileAnswer(c) \/ FileFails(c)
      <3>1. /\ Finish(c) /\ UNCHANGED <<payment, earned, total, dispute, savingId>> /\ Filed' = Filed
        BY <2>2 DEF FileAnswer, FileFails, Fail, Filed
      <3> QED  BY <1>1, <1>3, <3>1, AccountsEnd
    <2>3. CASE ReviewWrite(c)
      <3>1. Finish(c) /\ UNCHANGED <<payment, earned, total>> /\ slot[c].pc \in SettlingSteps
        BY <2>3 DEF ReviewWrite, At, SettlingSteps
      <3>3. savingId' = savingId \/ (DisputeSettling(c) /\ savingId' = [savingId EXCEPT ![slot[c].admin] = 0])
        BY <2>3, <3>1, Zenon DEF ReviewWrite, PageShows, Saving, DisputeSettling
      <3>2. Filed' = Filed /\ \A j \in DisputeIds : dispute'[j].task = dispute[j].task
        BY <1>7, <2>3, ReviewWriteKeeps
      <3> QED  BY <1>1, <1>3, <3>1, <3>2, <3>3, AccountsEnd
    <2>4. CASE SettleSelect(c)
      <3>1. PICK request :
                request = [pc |-> "settle_commit", admin |-> slot[c].admin, id |-> slot[c].id,
                           to |-> slot[c].to, adjusted |-> slot[c].adjusted, shown |-> slot[c].shown,
                           old |-> payment[dispute[slot[c].id].task]]
        OBVIOUS
      <3>2. /\ slot' = [slot EXCEPT ![c] = request] /\ Filed' = Filed
            /\ UNCHANGED <<payment, earned, total, dispute, savingId>>
        BY <2>4, <3>1 DEF SettleSelect, Become, Filed
      <3>3. /\ request.pc = "settle_commit" /\ request.old = payment[dispute[request.id].task]
            /\ request.admin = slot[c].admin /\ request.id = slot[c].id /\ request.shown = slot[c].shown
        BY <3>1
      <3>4. AccountsFit /\ DisputeSettling(c)
        BY <1>3, <2>4, <3>2 DEF SettleSelect, AccountsFit, PageWaits, DisputeSettling, SettlingSteps, At
      <3>5. /\ request.admin \in admins /\ request.id \in Filed
            /\ savingId[request.admin] = request.id
            /\ \A d \in Slots : d # c => ~DisputeSettling(d)
            /\ request.shown
        BY <3>2, <3>3, <3>4 DEF AccountsFit, PageWaits, OneSettles, DisputeSettling
      <3> QED  BY <1>1, <3>2, <3>3, <3>4, <3>5, AccountsStay
    <2>5. CASE SettleCommit(c)
      <3>1. Filed' = Filed
        BY <1>7, <2>5, SettleCommitKeeps
      <3> QED  BY <1>3, <1>7, <2>5, <3>1, SettleCommitAccounts
    <2>6. CASE SettleAnswer(c) \/ SettlingFails(c)
      <3>1. /\ Finish(c) /\ UNCHANGED <<payment, earned, total, dispute>> /\ Filed' = Filed
            /\ slot[c].pc \in SettlingSteps
        BY <2>6 DEF SettleAnswer, SettlingFails, Fail, Filed, At, SettlingSteps
      <3>2. savingId' = savingId \/ (DisputeSettling(c) /\ savingId' = [savingId EXCEPT ![slot[c].admin] = 0])
        BY <2>6, <3>1, Zenon DEF SettleAnswer, SettlingFails, PageShows, Saving, DisputeSettling
      <3> QED  BY <1>1, <1>3, <3>1, <3>2, AccountsEnd
    <2> QED  BY <1>7, <2>1, <2>2, <2>3, <2>4, <2>5, <2>6 DEF DisputeStep
  <1>8. ASSUME NEW t \in Paid, TaskApproved(t), UNCHANGED disputeRest PROVE AccountsFit'
    <2>1. Filed' = Filed
      BY <1>8 DEF TaskApproved, Filed
    <2> QED  BY <1>1, <1>3, <1>8, <2>1, TaskApprovedAccounts
  <1>9. CASE EarningsLoad
    <2>1. UNCHANGED <<payment, earned, total, dispute, savingId>> /\ Filed' = Filed
      BY <1>9 DEF EarningsLoad, Filed
    <2>2. PICK requests \in SUBSET Slots : requests = {c \in Slots : Filing(c)}
      OBVIOUS
    <2>3. LeavePage(requests) /\ \A c \in requests : slot[c] # Idle /\ slot[c].pc \notin SettlingSteps
      BY <1>9, <2>2 DEF EarningsLoad, Filing, At, Idle, SettlingSteps
    <2>4. \A c \in Slots : slot'[c].pc = slot[c].pc /\ (slot[c].pc \in SettlingSteps => slot'[c] = slot[c])
      BY <2>3, LeavePageKeeps
    <2>5. \A c \in Slots : At(c, "file_insert")' => At(c, "file_insert") /\ slot'[c].task = slot[c].task
      BY <2>3, <2>4, LeavePageKeeps, DisputeRequestShapes DEF At, DisputeInv
    <2>6. AccountsFit
      BY <1>3, <2>1
    <2>7. InEarnings'
      BY <2>1, <2>5, <2>6 DEF AccountsFit, InEarnings
    <2>8. OneSettles' /\ PageWaits'
      BY <1>1, <2>1, <2>4, <2>6 DEF AccountsFit, OneSettles, PageWaits, DisputeSettling, SettlingSteps
    <2>9. ReadIsCurrent' /\ Adds'
      BY <2>1, <2>4, <2>6 DEF AccountsFit, ReadIsCurrent, Adds, At, SettlingSteps
    <2> QED  BY <2>7, <2>8, <2>9 DEF AccountsFit
  <1>11. ASSUME NEW a \in admins, DisputesLoad(a) PROVE AccountsFit'
    <2>1. UNCHANGED <<payment, earned, total, dispute>> /\ Filed' = Filed
      BY <1>11 DEF DisputesLoad, Filed
    <2>2. Careful /\ AccountsFit
      BY <1>3, <2>1
    <2>3. PICK requests \in SUBSET Slots : requests = SentBy(a)
      BY DEF SentBy
    <2>4. LeavePage(requests) /\ \A c \in requests : slot[c] # Idle
      BY <1>11, <2>3 DEF DisputesLoad, SentBy, Idle
    <2>5. \A c \in Slots : /\ slot'[c].pc = slot[c].pc
                           /\ c \notin requests => slot'[c] = slot[c]
                           /\ c \in requests => slot'[c].shown = FALSE
      BY <2>4, LeavePageKeeps
    <2>6. \A c \in Slots : DisputeSettling(c) => c \in requests
      <3>1. CASE InTurn
        BY <1>11, <3>1 DEF DisputesLoad, Quiet, At, DisputeSettling, SettlingSteps
      <3>2. CASE ~InTurn
        <4>1. Cardinality(admins) = 1 /\ IsFiniteSet(admins)
          BY <2>2, <3>2, DisputesAssumption, FS_Subset DEF Careful, DisputeInv, SceneTypes
        <4>2. admins = {a}
          BY <4>1, FS_Singleton
        <4> QED  BY <2>2, <2>3, <4>2 DEF AccountsFit, PageWaits, DisputeSettling, SettlingSteps, SentBy
      <3> QED  BY <3>1, <3>2
    <2>7. \A c \in Slots : ~DisputeSettling(c)'
      BY <2>5, <2>6 DEF DisputeSettling
    <2>8. \A c \in Slots : slot[c].pc \notin {"settle_select", "settle_commit"}
      <3> SUFFICES ASSUME NEW c \in Slots, slot[c].pc \in {"settle_select", "settle_commit"} PROVE FALSE
        OBVIOUS
      <3>1. DisputeSettling(c)
        BY <2>2 DEF AccountsFit, PageWaits, DisputeSettling, SettlingSteps
      <3>2. ~InTurn
        BY <1>11 DEF DisputesLoad, Quiet, At
      <3>3. leftDisputes' = {}
        BY <1>1, <3>2 DEF Careful, InTurn
      <3>4. c \in SettlingBy(a)
        BY <2>3, <2>6, <3>1 DEF SettlingBy, At
      <3> QED  BY <1>11, <3>3, <3>4 DEF DisputesLoad
    <2>9. \A c \in Slots : At(c, "file_insert")' => At(c, "file_insert") /\ slot'[c] = slot[c]
      BY <2>3, <2>5 DEF At, SentBy
    <2>10. InEarnings'
      BY <2>1, <2>2, <2>9 DEF AccountsFit, InEarnings
    <2>11. OneSettles' /\ PageWaits' /\ ReadIsCurrent'
      BY <2>5, <2>7, <2>8 DEF OneSettles, PageWaits, ReadIsCurrent, At
    <2>12. Adds'
      BY <2>1, <2>2 DEF AccountsFit, Adds
    <2> QED  BY <2>10, <2>11, <2>12 DEF AccountsFit
  <1>10. ASSUME NEW a \in admins, NEW i \in Filed, ClickRefused(a, i) PROVE AccountsFit'
    <2>1. /\ UNCHANGED <<payment, earned, total, dispute, slot>> /\ Filed' = Filed
          /\ isActionable(a, i) /\ (InTurn => Quiet)
      BY <1>10 DEF ClickRefused, Filed
    <2>2. Careful /\ AccountsFit
      BY <1>3, <2>1
    <2>3. \A d \in Slots : ~DisputeSettling(d)
      BY <2>1, <2>2, NoOtherSettles
    <2> QED  BY <1>1, <2>1, <2>2, <2>3 DEF AccountsFit, InEarnings, OneSettles, PageWaits, ReadIsCurrent,
                                          Adds, DisputeSettling, At
  <1> QED  BY <1>5, <1>6, <1>7, <1>8, <1>9, <1>10, <1>11 DEF DisputeNext, disputeRest

\* The earnings of an assistant are the payments of the approved tasks, whatever requests
\* die when they come one after the other, and while one admin settles one dispute, staying
\* on the page until it is written, also when they interleave: for any number of tasks, payments and requests in flight.
THEOREM EarningsAlwaysAddUp == DisputeSpec => []EarningsAddUp
  <1>1. DisputeInit => AccountsInv
    <2> SUFFICES ASSUME DisputeInit PROVE AccountsFit
      BY DEF AccountsInv
    <2>1. \A i \in DisputeIds : dispute[i] = NoDispute
      BY DEF DisputeInit, DisputeStart
    <2>2. Filed = {} /\ earned = {} /\ total = 0 /\ \A c \in Slots : slot[c].pc = "idle"
      BY <2>1 DEF Filed, NoDispute, DisputeInit, DisputeStart, RequestsInit, Idle
    <2> QED  BY <2>2, SumOfNone DEF AccountsFit, InEarnings, OneSettles, PageWaits, ReadIsCurrent, Adds,
                                    DisputeSettling, SettlingSteps, At
  <1>2. AccountsInv => EarningsAddUp
    <2>1. ASSUME Careful, AccountsFit PROVE EarningsAddUp
      BY <2>1 DEF AccountsFit, Adds, SumOver, EarningsAddUp
    <2>2. CASE ~Careful
      <3>1. Cardinality(Filed) = 1 => Cardinality(Filed) <= 1
        OBVIOUS
      <3> QED  BY <2>2, <3>1 DEF Careful, EarningsAddUp
    <2> QED  BY <2>1, <2>2 DEF AccountsInv
  <1> QED  BY <1>1, <1>2, AccountsNextKeeps, DisputeInvariant, PTL DEF DisputeSpec

-----------------------------------------------------------------------------
(* Signing in.                                                              *)

Proofs == {NoPassword} \cup 0 .. MaxPasswords
Display == [page : Pages, proof : Proofs]
Code == [purpose : Purposes, attempts : 0 .. MAX_ATTEMPTS, consumed : BOOLEAN]

\* The requests in flight: a resend only counts, voids, inserts and mails.
Calls == {"login", "google", "initial", "verify", "resend", "forgot", "reset", "change"}
ResendSteps == {"resend_count", "otp_void", "otp_insert", "signin_answer"}
ResendRequest == [pc : ResendSteps, call : {"resend"}, tab : Tabs, shows : Display]
\* The steps a request of any other call may be at with nothing more to hold.
PlainSteps == ResendSteps \cup {"session_read", "trust_read", "password_write", "renewed_read"}
PlainRequest == [pc : PlainSteps,
                 call : Calls \ {"resend"}, tab : Tabs, shows : Display]
MailRequest == [pc : {"otp_mail"}, call : Calls, tab : Tabs, shows : Display, code : 1 .. MaxCodes]
VerifyRequest == [pc : {"otp_select"}, call : {"verify"}, tab : Tabs, entered : 0 .. MaxCodes,
                  shows : Display]
TriedRequest == [pc : {"otp_pass", "otp_miss"}, call : {"verify"}, tab : Tabs, shows : Display,
                 id : 1 .. MaxCodes, attempts : 0 .. (MAX_ATTEMPTS - 1)]
AnyRequest == {Idle} \cup ResendRequest \cup PlainRequest \cup MailRequest \cup VerifyRequest
                  \cup TriedRequest

\* The row of the account: the initial password is the first one.
AccountTypes ==
    /\ password \in 0 .. MaxPasswords
    /\ mustChange \in BOOLEAN /\ locked \in BOOLEAN
    /\ mustChange => password = 0
    /\ knew \in Seq(Proofs) /\ Len(knew) = password

\* The codes: one with MAX_ATTEMPTS is consumed.
CodeTypes ==
    /\ otps \in Seq(Code) /\ Len(otps) <= MaxCodes
    /\ \A i \in CodeIds : otps[i].consumed \/ otps[i].attempts < MAX_ATTEMPTS
    /\ passed \in [1 .. MaxCodes -> Nat] /\ missed \in [1 .. MaxCodes -> Nat]

BrowserTypes ==
    /\ inbox \subseteq CodeIds
    /\ trusted \in Proofs
    /\ tab \in [Tabs -> Display]

\* What is shown stands for a password there has been, the page of the initial one always.
SignInFits(display) ==
    /\ display.proof <= password
    /\ display.page = "initial" => display.proof >= 0

SignInKnows(q) ==
    /\ q.pc # "idle" => SignInFits(q.shows) /\ q.tab \in account.tabs
    /\ q.pc = "otp_mail" => q.code \in CodeIds
    /\ q.pc \in {"otp_pass", "otp_miss"} => q.id \in CodeIds

SignInTables == AccountTypes /\ CodeTypes /\ BrowserTypes

SignInInv ==
    /\ SignInTables
    /\ \A t \in Tabs : SignInFits(tab[t])
    /\ account \in SignInScenes
    /\ slot \in [Slots -> AnyRequest]
    /\ \A c \in Slots : SignInKnows(slot[c])

-----------------------------------------------------------------------------
\* A request is what its pc says.
LEMMA SignInRequestShapes ==
    ASSUME NEW q \in AnyRequest
    PROVE  /\ q.pc \in SignInSteps
           /\ q.pc \in ResendSteps => q \in ResendRequest \/ q \in PlainRequest
           /\ q.pc \in {"session_read", "trust_read", "password_write", "renewed_read"} => q \in PlainRequest
           /\ q.pc = "otp_mail" => q \in MailRequest
           /\ q.pc = "otp_select" => q \in VerifyRequest
           /\ q.pc \in {"otp_pass", "otp_miss"} => q \in TriedRequest
           /\ q.pc # "idle" => q.call \in Calls /\ q.tab \in Tabs /\ q.shows \in Display
  <1> USE DEF SignInSteps, ResendSteps, Calls
  <1>1. CASE q = Idle
    BY <1>1 DEF Idle
  <1>2. CASE q \in ResendRequest
    BY <1>2 DEF ResendRequest
  <1>3. CASE q \in PlainRequest
    BY <1>3 DEF PlainRequest, PlainSteps
  <1>4. CASE q \in MailRequest
    BY <1>4 DEF MailRequest
  <1>5. CASE q \in VerifyRequest
    BY <1>5 DEF VerifyRequest
  <1>6. CASE q \in TriedRequest
    BY <1>6 DEF TriedRequest
  <1> QED  BY <1>1, <1>2, <1>3, <1>4, <1>5, <1>6 DEF AnyRequest

\* A request built of a step, a call, a tab and what it shows is one.
LEMMA RequestIsOne ==
    ASSUME NEW step \in PlainSteps,
           NEW call \in Calls, NEW t \in Tabs, NEW shows \in Display,
           call = "resend" => step \in ResendSteps
    PROVE  /\ Request(step, call, t, shows) \in AnyRequest
           /\ Request(step, call, t, shows).pc = step /\ step # "idle" /\ step # "otp_mail"
           /\ step \notin {"otp_pass", "otp_miss", "otp_select"}
           /\ Request(step, call, t, shows).call = call
           /\ Request(step, call, t, shows).tab = t
           /\ Request(step, call, t, shows).shows = shows
  <1>1. CASE call = "resend"
    BY <1>1 DEF Request, AnyRequest, ResendRequest, ResendSteps
  <1>2. CASE call # "resend"
    BY <1>2 DEF Request, AnyRequest, PlainRequest, PlainSteps, ResendSteps
  <1> QED  BY <1>1, <1>2

\* The bounds are numbers.
LEMMA BoundsAreNumbers ==
    /\ MAX_ATTEMPTS \in Nat /\ MAX_ATTEMPTS > 0
    /\ MaxCodes \in Nat /\ MaxPasswords \in Nat
  <1> QED  BY SignInAssumption

\* Before the first request.
LEMMA InitSignInInv == SignInInit => SignInInv
  <1> SUFFICES ASSUME SignInInit PROVE SignInInv
    OBVIOUS
  <1> USE BoundsAreNumbers DEF SignInInit, SignInStart, RequestsInit
  <1>1. PICK s \in SignInScenes : account = s /\ mustChange = s.initial
    OBVIOUS
  <1>2. s.initial \in BOOLEAN
    BY SignInAssumption
  <1>3. AccountTypes
    <2>1. knew = <<>> /\ password = 0 /\ mustChange \in BOOLEAN /\ locked \in BOOLEAN
      BY <1>1, <1>2
    <2>2. password \in 0 .. MaxPasswords
      BY <2>1
    <2>3. knew \in Seq(Proofs) /\ Len(knew) = password
      BY <2>1
    <2> QED  BY <2>1, <2>2, <2>3 DEF AccountTypes
  <1>4. CodeTypes
    <2>1. otps = <<>> /\ CodeIds = {}
      BY DEF CodeIds
    <2>2. otps \in Seq(Code) /\ Len(otps) = 0 /\ Len(otps) <= MaxCodes
      BY <2>1
    <2>3. passed \in [1 .. MaxCodes -> Nat] /\ missed \in [1 .. MaxCodes -> Nat]
      OBVIOUS
    <2> QED  BY <2>1, <2>2, <2>3 DEF CodeTypes
  <1>5. Shows("login", NoPassword) \in Display /\ SignInFits(Shows("login", NoPassword))
    BY DEF Display, Shows, Pages, Proofs, SignInFits, NoPassword
  <1>6. BrowserTypes /\ \A t \in Tabs : SignInFits(tab[t])
    BY <1>5 DEF BrowserTypes, Proofs, SignInFits
  <1>7. slot \in [Slots -> AnyRequest] /\ \A c \in Slots : SignInKnows(slot[c])
    BY DEF AnyRequest, Idle, SignInKnows
  <1> QED  BY <1>1, <1>3, <1>4, <1>6, <1>7 DEF SignInInv, SignInTables

-----------------------------------------------------------------------------
\* Requests keep what they know while passwords and codes only become more.
LEMMA SignInKnownStays ==
    ASSUME SignInTables, SignInTables', password <= password', CodeIds \subseteq CodeIds', UNCHANGED account
    PROVE  /\ \A d \in Display : SignInFits(d) => SignInFits(d)'
           /\ \A q \in AnyRequest : SignInKnows(q) => SignInKnows(q)'
  <1>1. ASSUME NEW d \in Display, SignInFits(d) PROVE SignInFits(d)'
    <2>1. d.proof \in Int
      BY BoundsAreNumbers DEF Display, Proofs, NoPassword
    <2>2. password \in Int /\ password' \in Int
      BY BoundsAreNumbers DEF SignInTables, AccountTypes
    <2> QED  BY <1>1, <2>1, <2>2 DEF SignInFits
  <1>2. ASSUME NEW q \in AnyRequest, SignInKnows(q) PROVE SignInKnows(q)'
    <2>1. q.pc # "idle" => q.shows \in Display
      BY SignInRequestShapes
    <2> QED  BY <1>1, <1>2, <2>1 DEF SignInKnows
  <1> QED  BY <1>1, <1>2

\* A step of one slot.
LEMMA SignInSlotStep ==
    ASSUME SignInInv, NEW c \in Slots, NEW request \in AnyRequest,
           slot' = [slot EXCEPT ![c] = request], SignInKnows(request)',
           SignInTables', password <= password', CodeIds \subseteq CodeIds', UNCHANGED account,
           (\A t \in Tabs : SignInFits(tab[t]))'
    PROVE  SignInInv'
  <1>1. slot' \in [Slots -> AnyRequest] /\ \A d \in Slots : slot'[d] = IF d = c THEN request ELSE slot[d]
    BY DEF SignInInv
  <1>2. (\A d \in Slots : SignInKnows(slot[d]))'
    <2> SUFFICES ASSUME NEW d \in Slots PROVE SignInKnows(slot[d])'
      OBVIOUS
    <2>1. PICK q \in AnyRequest : q = slot[d]
      BY DEF SignInInv
    <2>2. SignInKnows(q)'
      BY <2>1, SignInKnownStays DEF SignInInv
    <2> QED  BY <1>1, <2>1, <2>2 DEF SignInKnows
  <1> QED  BY <1>1, <1>2 DEF SignInInv

\* A step of one slot that writes no table.
LEMMA SignInQuietStep ==
    ASSUME SignInInv, NEW c \in Slots, NEW request \in AnyRequest,
           slot' = [slot EXCEPT ![c] = request], SignInKnows(request),
           UNCHANGED <<accountRow, otpTable, browser, account>>
    PROVE  SignInInv'
  <1> USE DEF accountRow, otpTable, browser
  <1>1. SignInTables'
    BY DEF SignInInv, SignInTables, AccountTypes, CodeTypes, BrowserTypes, CodeIds
  <1>2. password <= password' /\ CodeIds \subseteq CodeIds'
    <2>1. password \in Int /\ password' = password
      BY BoundsAreNumbers DEF SignInInv, SignInTables, AccountTypes
    <2>2. CodeIds' = CodeIds
      BY DEF CodeIds
    <2> QED  BY <2>1, <2>2
  <1>3. SignInKnows(request)' /\ (\A t \in Tabs : SignInFits(tab[t]))'
    BY <1>1, <1>2, SignInKnownStays DEF SignInInv, SignInTables, BrowserTypes
  <1> QED  BY <1>1, <1>2, <1>3, SignInSlotStep

\* A handler that returns, or dies.
LEMMA SignInFinishQuiet ==
    ASSUME SignInInv, NEW c \in Slots, Finish(c), UNCHANGED <<accountRow, otpTable, browser, account>>
    PROVE  SignInInv'
  <1>1. Idle \in AnyRequest /\ SignInKnows(Idle)
    BY DEF AnyRequest, Idle, SignInKnows
  <1> QED  BY <1>1, SignInQuietStep DEF Finish

\* The same request at another step.
LEMMA NextStep ==
    ASSUME SignInInv, NEW c \in Slots, NEW step \in {"otp_void", "otp_insert", "trust_read"},
           At(c, "resend_count") \/ At(c, "otp_void") \/ (At(c, "session_read") /\ step = "trust_read"),
           step = "trust_read" => At(c, "session_read")
    PROVE  /\ [slot[c] EXCEPT !.pc = step] \in AnyRequest
           /\ SignInKnows([slot[c] EXCEPT !.pc = step])
           /\ [slot[c] EXCEPT !.pc = step].pc = step
           /\ [slot[c] EXCEPT !.pc = step].call = slot[c].call
           /\ [slot[c] EXCEPT !.pc = step].tab = slot[c].tab
           /\ [slot[c] EXCEPT !.pc = step].shows = slot[c].shows
  <1>1. slot[c] \in AnyRequest /\ SignInKnows(slot[c])
    BY DEF SignInInv
  <1>2. slot[c] \in ResendRequest \/ slot[c] \in PlainRequest
    BY <1>1, SignInRequestShapes DEF At, ResendSteps
  <1>3. slot[c].pc \in {"resend_count", "otp_void", "session_read"}
    BY DEF At
  <1>4. CASE slot[c] \in ResendRequest
    <2>1. step \in ResendSteps
      BY <1>4 DEF ResendRequest, ResendSteps, At
    <2> QED  BY <1>1, <1>3, <1>4, <2>1 DEF AnyRequest, ResendRequest, SignInKnows, ResendSteps
  <1>5. CASE slot[c] \in PlainRequest
    BY <1>1, <1>3, <1>5 DEF AnyRequest, PlainRequest, PlainSteps, SignInKnows, ResendSteps
  <1> QED  BY <1>2, <1>4, <1>5

\* A table of codes with the codes it had, each of them changed.
LEMMA SameCodes ==
    ASSUME NEW s \in Seq(Code), NEW f, f \in [DOMAIN s -> Code]
    PROVE  f \in Seq(Code) /\ Len(f) = Len(s) /\ DOMAIN f = DOMAIN s
  <1>1. Len(s) \in Nat /\ DOMAIN s = 1 .. Len(s)
    OBVIOUS
  <1>2. f \in [1 .. Len(s) -> Code]
    BY <1>1
  <1> QED  BY <1>1, <1>2

\* A step of one slot that writes the table of codes only.
LEMMA CodesStep ==
    ASSUME SignInInv, NEW c \in Slots, NEW request \in AnyRequest,
           slot' = [slot EXCEPT ![c] = request], SignInKnows(request)',
           otps' \in Seq(Code), Len(otps') <= MaxCodes, CodeIds \subseteq CodeIds',
           (\A i \in CodeIds : otps[i].consumed \/ otps[i].attempts < MAX_ATTEMPTS)',
           passed' \in [1 .. MaxCodes -> Nat], missed' \in [1 .. MaxCodes -> Nat],
           UNCHANGED <<accountRow, browser, account>>
    PROVE  SignInInv'
  <1>1. AccountTypes' /\ password \in Int /\ password' = password
    BY BoundsAreNumbers DEF SignInInv, SignInTables, AccountTypes, accountRow
  <1>2. CodeTypes' /\ BrowserTypes'
    BY DEF SignInInv, SignInTables, CodeTypes, BrowserTypes, browser
  <1>3. SignInTables' /\ password <= password'
    BY <1>1, <1>2 DEF SignInTables
  <1>4. (\A t \in Tabs : SignInFits(tab[t]))'
    BY <1>1 DEF SignInInv, SignInFits, browser
  <1> QED  BY <1>3, <1>4, SignInSlotStep

\* The request of a slot is one, and the rows it refers to are there.
LEMMA SlotFacts ==
    ASSUME SignInInv, NEW c \in Slots
    PROVE  /\ slot[c] \in AnyRequest /\ SignInKnows(slot[c])
           /\ slot[c].pc # "idle" => slot[c].call \in Calls /\ slot[c].tab \in Tabs
                                       /\ slot[c].shows \in Display /\ SignInFits(slot[c].shows)
                                       /\ slot[c].tab \in account.tabs
  <1>1. slot[c] \in AnyRequest /\ SignInKnows(slot[c])
    BY DEF SignInInv
  <1> QED  BY <1>1, SignInRequestShapes DEF SignInKnows

\* A resend is admitted or refused.
LEMMA ResendCountKeeps ==
    ASSUME SignInInv, NEW c \in Slots, ResendCount(c), UNCHANGED account
    PROVE  SignInInv'
  <1>1. CASE Goto(c, "otp_void")
    <2>1. PICK request : request = [slot[c] EXCEPT !.pc = "otp_void"]
      OBVIOUS
    <2>2. request \in AnyRequest /\ SignInKnows(request)
      BY <2>1, NextStep DEF ResendCount
    <2>3. slot' = [slot EXCEPT ![c] = request]
      BY <1>1, <2>1 DEF Goto
    <2> QED  BY <2>2, <2>3, SignInQuietStep DEF ResendCount
  <1>2. CASE Finish(c)
    BY <1>2, SignInFinishQuiet DEF ResendCount
  <1> QED  BY <1>1, <1>2 DEF ResendCount

\* Older codes of the purpose are consumed.
LEMMA OtpVoidKeeps ==
    ASSUME SignInInv, NEW c \in Slots, OtpVoid(c), UNCHANGED account
    PROVE  SignInInv'
  <1>1. PICK request : request = [slot[c] EXCEPT !.pc = "otp_insert"]
    OBVIOUS
  <1>2. request \in AnyRequest /\ SignInKnows(request) /\ request.pc = "otp_insert"
        /\ request.tab = slot[c].tab /\ request.shows = slot[c].shows
    BY <1>1, NextStep DEF OtpVoid
  <1>3. slot' = [slot EXCEPT ![c] = request]
    BY <1>1 DEF OtpVoid, Goto
  <1>4. otps \in Seq(Code) /\ CodeTypes
    BY DEF SignInInv, SignInTables, CodeTypes
  <1>5. otps' \in [DOMAIN otps -> Code]
    <2> SUFFICES ASSUME NEW i \in DOMAIN otps
                 PROVE [otps[i] EXCEPT !.consumed = @ \/ otps[i].purpose = PurposeOf(c)] \in Code
      BY DEF OtpVoid, CodeIds
    <2>1. otps[i] \in Code
      BY <1>4
    <2> QED  BY <2>1 DEF Code
  <1>6. otps' \in Seq(Code) /\ Len(otps') = Len(otps) /\ CodeIds' = CodeIds
    BY <1>4, <1>5, SameCodes DEF CodeIds
  <1>7. (\A i \in CodeIds : otps[i].consumed \/ otps[i].attempts < MAX_ATTEMPTS)'
    <2> SUFFICES ASSUME NEW i \in CodeIds
                 PROVE otps'[i].consumed \/ otps'[i].attempts < MAX_ATTEMPTS
      BY <1>6
    <2>1. otps[i] \in Code /\ (otps[i].consumed \/ otps[i].attempts < MAX_ATTEMPTS)
      BY <1>4 DEF CodeTypes, CodeIds
    <2>2. otps'[i] = [otps[i] EXCEPT !.consumed = @ \/ otps[i].purpose = PurposeOf(c)]
      BY DEF OtpVoid
    <2> QED  BY <2>1, <2>2 DEF Code
  <1>8. SignInKnows(request)'
    BY <1>2, <1>6 DEF SignInKnows, SignInFits, OtpVoid, accountRow
  <1>9. Len(otps') <= MaxCodes /\ passed' \in [1 .. MaxCodes -> Nat] /\ missed' \in [1 .. MaxCodes -> Nat]
    BY <1>4, <1>6 DEF CodeTypes, OtpVoid
  <1>10. UNCHANGED <<accountRow, browser, account>>
    BY DEF OtpVoid
  <1> QED  BY <1>2, <1>3, <1>6, <1>7, <1>8, <1>9, <1>10, CodesStep

\* A code is inserted under the next id.
LEMMA OtpInsertKeeps ==
    ASSUME SignInInv, NEW c \in Slots, OtpInsert(c), UNCHANGED account
    PROVE  SignInInv'
  <1>1. PICK request : request = [pc |-> "otp_mail", call |-> slot[c].call, tab |-> slot[c].tab,
                                  shows |-> slot[c].shows, code |-> Len(otps) + 1]
    OBVIOUS
  <1>2. slot' = [slot EXCEPT ![c] = request]
    BY <1>1 DEF OtpInsert, Become
  <1>3. CodeTypes /\ otps \in Seq(Code) /\ Len(otps) \in Nat /\ Len(otps) < MaxCodes
    BY DEF SignInInv, SignInTables, CodeTypes, OtpInsert
  <1>4. request \in AnyRequest
    <2>1. request \in MailRequest
      BY <1>1, <1>3, SlotFacts, BoundsAreNumbers DEF MailRequest, OtpInsert, At
    <2> QED  BY <2>1 DEF AnyRequest
  <1>5. PICK code : code = [purpose |-> PurposeOf(c), attempts |-> 0, consumed |-> FALSE]
    OBVIOUS
  <1>6. code \in Code /\ code.attempts = 0
    BY <1>5, BoundsAreNumbers DEF Code, PurposeOf, Purposes
  <1>7. otps' = Append(otps, code)
    BY <1>5 DEF OtpInsert
  <1>8. /\ otps' \in Seq(Code) /\ Len(otps') = Len(otps) + 1
        /\ CodeIds = 1 .. Len(otps) /\ CodeIds' = 1 .. (Len(otps) + 1)
        /\ \A i \in CodeIds : otps'[i] = otps[i]
        /\ otps'[Len(otps) + 1] = code
    BY <1>3, <1>6, <1>7 DEF CodeIds
  <1>9. (\A i \in CodeIds : otps[i].consumed \/ otps[i].attempts < MAX_ATTEMPTS)'
    <2> SUFFICES ASSUME NEW i \in 1 .. (Len(otps) + 1)
                 PROVE otps'[i].consumed \/ otps'[i].attempts < MAX_ATTEMPTS
      BY <1>8
    <2>1. CASE i \in CodeIds
      BY <2>1, <1>3, <1>8 DEF CodeTypes
    <2>2. CASE i = Len(otps) + 1
      BY <2>2, <1>6, <1>8, BoundsAreNumbers
    <2> QED  BY <2>1, <2>2, <1>3, <1>8
  <1>10. SignInKnows(request)'
    <2>1. request.pc = "otp_mail" /\ request.code \in CodeIds'
      BY <1>1, <1>3, <1>8
    <2>2. SignInFits(request.shows)' /\ (request.tab \in account.tabs)'
      BY <1>1, SlotFacts DEF OtpInsert, At, SignInFits, accountRow
    <2> QED  BY <2>1, <2>2 DEF SignInKnows
  <1>11. CodeIds \subseteq CodeIds' /\ Len(otps') <= MaxCodes
    BY <1>3, <1>8, BoundsAreNumbers
  <1>12. /\ UNCHANGED <<accountRow, browser, account>>
         /\ passed' \in [1 .. MaxCodes -> Nat] /\ missed' \in [1 .. MaxCodes -> Nat]
    BY <1>3 DEF OtpInsert, CodeTypes
  <1> QED  BY <1>2, <1>4, <1>8, <1>9, <1>10, <1>11, <1>12, CodesStep

\* A step of one slot that writes what the browser has only.
LEMMA BrowserStep ==
    ASSUME SignInInv, NEW c \in Slots, NEW request \in AnyRequest,
           slot' = [slot EXCEPT ![c] = request], SignInKnows(request),
           inbox' \subseteq CodeIds, trusted' \in Proofs, tab' \in [Tabs -> Display],
           \A t \in Tabs : SignInFits(tab'[t]),
           UNCHANGED <<accountRow, otpTable, account>>
    PROVE  SignInInv'
  <1> USE DEF accountRow, otpTable
  <1>1. password \in Int /\ password' = password /\ CodeIds' = CodeIds
    BY BoundsAreNumbers DEF SignInInv, SignInTables, AccountTypes, CodeIds
  <1>2. AccountTypes'
    BY DEF SignInInv, SignInTables, AccountTypes
  <1>3. CodeTypes'
    BY DEF SignInInv, SignInTables, CodeTypes, CodeIds
  <1>4. SignInTables' /\ password <= password' /\ CodeIds \subseteq CodeIds'
    BY <1>1, <1>2, <1>3 DEF SignInTables, BrowserTypes
  <1>5. SignInKnows(request)' /\ (\A t \in Tabs : SignInFits(tab[t]))'
    BY <1>1 DEF SignInKnows, SignInFits
  <1> QED  BY <1>4, <1>5, SignInSlotStep

\* A request that is built stays one while what it shows fits.
LEMMA RequestKnows ==
    ASSUME NEW step \in PlainSteps,
           NEW call \in Calls, NEW t \in account.tabs, NEW shows \in Display, t \in Tabs,
           call = "resend" => step \in ResendSteps, SignInFits(shows)
    PROVE  Request(step, call, t, shows) \in AnyRequest /\ SignInKnows(Request(step, call, t, shows))
  <1> QED  BY RequestIsOne DEF SignInKnows

\* The code is mailed, or the request ends.
LEMMA OtpMailKeeps ==
    ASSUME SignInInv, NEW c \in Slots, OtpMail(c), UNCHANGED account
    PROVE  SignInInv'
  <1>1. PICK request : request = Request("signin_answer", slot[c].call, slot[c].tab, slot[c].shows)
    OBVIOUS
  <1>2. slot[c].pc = "otp_mail"
    BY DEF OtpMail, At
  <1>3. request \in AnyRequest /\ SignInKnows(request)
    BY <1>1, <1>2, SlotFacts, RequestKnows DEF PlainSteps, ResendSteps
  <1>4. slot' = [slot EXCEPT ![c] = request]
    BY <1>1 DEF OtpMail, Become
  <1>5. slot[c].code \in CodeIds
    BY <1>2, SlotFacts DEF SignInKnows
  <1>6. inbox' \subseteq CodeIds /\ trusted' \in Proofs /\ tab' \in [Tabs -> Display]
        /\ \A t \in Tabs : SignInFits(tab'[t])
    BY <1>5 DEF OtpMail, SignInInv, SignInTables, BrowserTypes
  <1>7. UNCHANGED <<accountRow, otpTable, account>>
    BY DEF OtpMail
  <1> QED  BY <1>3, <1>4, <1>6, <1>7, BrowserStep

\* The newest live code of a purpose is one of them.
LEMMA NewestIsLive ==
    ASSUME CodeTypes, NEW p, LiveCodes(p) # {}
    PROVE  Max(LiveCodes(p)) \in LiveCodes(p)
  <1>1. CodeIds = 1 .. Len(otps) /\ Len(otps) \in Nat
    BY DEF CodeTypes, CodeIds
  <1>2. LiveCodes(p) \in SUBSET (1 .. Len(otps))
    BY <1>1 DEF LiveCodes
  <1> QED  BY <1>1, <1>2, MaxIsElement

\* The newest live code is compared with the one that was entered.
LEMMA OtpSelectKeeps ==
    ASSUME SignInInv, NEW c \in Slots, OtpSelect(c), UNCHANGED account
    PROVE  SignInInv'
  <1>1. UNCHANGED <<accountRow, otpTable, browser, account>>
    BY DEF OtpSelect
  <1>2. CASE Finish(c)
    BY <1>1, <1>2, SignInFinishQuiet
  <1>3. ASSUME LiveCodes(PurposeOf(c)) # {}, NEW i, i = Max(LiveCodes(PurposeOf(c))),
               NEW step \in {"otp_pass", "otp_miss"},
               Become(c, [pc |-> step, call |-> slot[c].call, tab |-> slot[c].tab,
                          shows |-> slot[c].shows, id |-> i, attempts |-> otps[i].attempts])
        PROVE  SignInInv'
    <2>1. PICK request : request = [pc |-> step, call |-> slot[c].call, tab |-> slot[c].tab,
                                    shows |-> slot[c].shows, id |-> i, attempts |-> otps[i].attempts]
      OBVIOUS
    <2>2. slot' = [slot EXCEPT ![c] = request]
      BY <1>3, <2>1 DEF Become
    <2>3. CodeTypes /\ i \in LiveCodes(PurposeOf(c))
      BY <1>3, NewestIsLive DEF SignInInv, SignInTables
    <2>4. i \in CodeIds /\ otps[i] \in Code /\ otps[i].attempts < MAX_ATTEMPTS
      BY <2>3 DEF LiveCodes, CodeTypes, CodeIds
    <2>5. i \in 1 .. MaxCodes /\ otps[i].attempts \in 0 .. (MAX_ATTEMPTS - 1)
      BY <2>3, <2>4, BoundsAreNumbers DEF CodeTypes, CodeIds, Code
    <2>6. slot[c].call = "verify"
      BY SlotFacts, SignInRequestShapes DEF OtpSelect, At, VerifyRequest
    <2>7. request \in TriedRequest
      BY <2>1, <2>5, <2>6, SlotFacts, <1>3 DEF TriedRequest, OtpSelect, At
    <2>8. request \in AnyRequest
      BY <2>7 DEF AnyRequest
    <2>9. SignInKnows(request)
      BY <2>1, <2>4, SlotFacts, <1>3 DEF SignInKnows, OtpSelect, At
    <2> QED  BY <1>1, <2>2, <2>8, <2>9, SignInQuietStep
  <1> QED  BY <1>2, <1>3 DEF OtpSelect

\* What a request that tries a code refers to.
LEMMA TriedFacts ==
    ASSUME SignInInv, NEW c \in Slots, At(c, "otp_pass") \/ At(c, "otp_miss")
    PROVE  /\ slot[c].call = "verify"
           /\ slot[c].id \in CodeIds /\ slot[c].id \in 1 .. MaxCodes
           /\ slot[c].attempts \in 0 .. (MAX_ATTEMPTS - 1)
           /\ otps[slot[c].id] \in Code
  <1>1. slot[c] \in TriedRequest
    BY SlotFacts, SignInRequestShapes DEF At
  <1>2. slot[c].id \in CodeIds
    BY SlotFacts DEF SignInKnows, At
  <1>3. otps[slot[c].id] \in Code
    BY <1>2 DEF CodeIds, SignInInv, SignInTables, CodeTypes
  <1> QED  BY <1>1, <1>2, <1>3 DEF TriedRequest

\* A miss is counted, from the count that was read.
LEMMA OtpMissKeeps ==
    ASSUME SignInInv, NEW c \in Slots, OtpMiss(c), UNCHANGED account
    PROVE  SignInInv'
  <1>1. PICK i, attempts : i = slot[c].id /\ attempts = slot[c].attempts + 1
    OBVIOUS
  <1>2. /\ otps' = [otps EXCEPT ![i].attempts = attempts,
                                ![i].consumed = @ \/ attempts >= MAX_ATTEMPTS]
        /\ missed' = [missed EXCEPT ![i] = @ + 1]
    BY <1>1 DEF OtpMiss
  <1>3. i \in CodeIds /\ i \in 1 .. MaxCodes /\ attempts \in 0 .. MAX_ATTEMPTS /\ attempts \in Int
    BY <1>1, TriedFacts, BoundsAreNumbers DEF OtpMiss
  <1>4. CodeTypes /\ otps \in Seq(Code) /\ Len(otps) <= MaxCodes
    BY DEF SignInInv, SignInTables, CodeTypes
  <1>5. PICK tried \in BOOLEAN : tried = (otps[i].consumed \/ attempts >= MAX_ATTEMPTS)
    OBVIOUS
  <1>6. PICK code : code = [otps[i] EXCEPT !.attempts = attempts, !.consumed = tried]
    OBVIOUS
  <1>7. otps[i] \in Code
    BY <1>3, <1>4 DEF CodeIds
  <1>8. code \in Code /\ code.attempts = attempts /\ code.consumed = tried
    BY <1>3, <1>6, <1>7 DEF Code
  <1>9. otps' = [otps EXCEPT ![i] = code]
    BY <1>2, <1>3, <1>4, <1>5, <1>6, <1>7 DEF CodeIds, Code
  <1>10. /\ otps' \in Seq(Code) /\ Len(otps') = Len(otps) /\ CodeIds' = CodeIds
         /\ otps'[i] = code /\ \A j \in CodeIds : j # i => otps'[j] = otps[j]
    BY <1>3, <1>4, <1>8, <1>9 DEF CodeIds
  <1>11. (\A j \in CodeIds : otps[j].consumed \/ otps[j].attempts < MAX_ATTEMPTS)'
    <2> SUFFICES ASSUME NEW j \in CodeIds
                 PROVE otps'[j].consumed \/ otps'[j].attempts < MAX_ATTEMPTS
      BY <1>10
    <2>1. CASE j = i
      <3>1. otps'[j] = code
        BY <2>1, <1>10
      <3>2. CASE attempts >= MAX_ATTEMPTS
        <4>1. tried
          BY <3>2, <1>5
        <4> QED  BY <3>1, <4>1, <1>8
      <3>3. CASE ~(attempts >= MAX_ATTEMPTS)
        BY <3>1, <3>3, <1>3, <1>8, BoundsAreNumbers
      <3> QED  BY <3>2, <3>3
    <2>2. CASE j # i
      BY <2>2, <1>4, <1>10 DEF CodeTypes
    <2> QED  BY <2>1, <2>2
  <1>12. passed' \in [1 .. MaxCodes -> Nat] /\ missed' \in [1 .. MaxCodes -> Nat]
    <2>1. missed[i] + 1 \in Nat
      BY <1>3, <1>4 DEF CodeTypes
    <2> QED  BY <2>1, <1>2, <1>4 DEF CodeTypes, OtpMiss
  <1>13. Idle \in AnyRequest /\ SignInKnows(Idle)' /\ slot' = [slot EXCEPT ![c] = Idle]
    BY DEF AnyRequest, Idle, SignInKnows, OtpMiss, Finish
  <1> QED  BY <1>4, <1>10, <1>11, <1>12, <1>13, CodesStep DEF OtpMiss

\* The code is consumed.
LEMMA OtpPassKeeps ==
    ASSUME SignInInv, NEW c \in Slots, OtpPass(c), UNCHANGED account
    PROVE  SignInInv'
  <1>1. PICK i : i = slot[c].id
    OBVIOUS
  <1>2. otps' = [otps EXCEPT ![i].consumed = TRUE] /\ passed' = [passed EXCEPT ![i] = @ + 1]
    BY <1>1 DEF OtpPass
  <1>3. i \in CodeIds /\ i \in 1 .. MaxCodes /\ slot[c].call = "verify"
    BY <1>1, TriedFacts DEF OtpPass
  <1>4. CodeTypes /\ otps \in Seq(Code) /\ Len(otps) <= MaxCodes
    BY DEF SignInInv, SignInTables, CodeTypes
  <1>5. PICK code : code = [otps[i] EXCEPT !.consumed = TRUE]
    OBVIOUS
  <1>6. code \in Code /\ code.consumed
    <2>1. otps[i] \in Code
      BY <1>3, <1>4 DEF CodeIds
    <2> QED  BY <2>1, <1>5 DEF Code
  <1>7. otps' = [otps EXCEPT ![i] = code]
    BY <1>2, <1>5
  <1>8. /\ otps' \in Seq(Code) /\ Len(otps') = Len(otps) /\ CodeIds' = CodeIds
        /\ otps'[i] = code /\ \A j \in CodeIds : j # i => otps'[j] = otps[j]
    BY <1>3, <1>4, <1>6, <1>7 DEF CodeIds
  <1>9. (\A j \in CodeIds : otps[j].consumed \/ otps[j].attempts < MAX_ATTEMPTS)'
    BY <1>4, <1>6, <1>8 DEF CodeTypes
  <1>10. passed' \in [1 .. MaxCodes -> Nat] /\ missed' \in [1 .. MaxCodes -> Nat]
    <2>1. passed[i] + 1 \in Nat
      BY <1>3, <1>4 DEF CodeTypes
    <2> QED  BY <2>1, <1>2, <1>4 DEF CodeTypes, OtpPass
  <1>11. PICK step : step = IF slot[c].shows.page = "home" THEN "session_read" ELSE "signin_answer"
    OBVIOUS
  <1>12. PICK request : request = Request(step, slot[c].call, slot[c].tab, slot[c].shows)
    OBVIOUS
  <1>13. slot' = [slot EXCEPT ![c] = request]
    BY <1>11, <1>12 DEF OtpPass, Become
  <1>14. request \in AnyRequest /\ SignInKnows(request)
    <2>1. step \in PlainSteps
      BY <1>11 DEF PlainSteps, ResendSteps
    <2>2. slot[c].pc = "otp_pass"
      BY DEF OtpPass, At
    <2> QED  BY <1>3, <1>12, <2>1, <2>2, SlotFacts, RequestKnows
  <1>15. SignInKnows(request)'
    BY <1>8, <1>14 DEF SignInKnows, SignInFits, OtpPass, accountRow
  <1> QED  BY <1>4, <1>8, <1>9, <1>10, <1>13, <1>14, <1>15, CodesStep DEF OtpPass

\* The user is read again for the session.
LEMMA SessionReadKeeps ==
    ASSUME SignInInv, NEW c \in Slots, SessionRead(c), UNCHANGED account
    PROVE  SignInInv'
  <1>1. CASE Finish(c)
    BY <1>1, SignInFinishQuiet DEF SessionRead
  <1>2. CASE Goto(c, "trust_read")
    <2>1. PICK request : request = [slot[c] EXCEPT !.pc = "trust_read"]
      OBVIOUS
    <2>2. request \in AnyRequest /\ SignInKnows(request)
      BY <2>1, NextStep DEF SessionRead
    <2>3. slot' = [slot EXCEPT ![c] = request]
      BY <1>2, <2>1 DEF Goto
    <2> QED  BY <2>2, <2>3, SignInQuietStep DEF SessionRead
  <1> QED  BY <1>1, <1>2 DEF SessionRead

\* What is shown in one more tab.
LEMMA TabShown ==
    ASSUME SignInInv, NEW t \in Tabs, NEW d \in Display, SignInFits(d), tab' = [tab EXCEPT ![t] = d]
    PROVE  tab' \in [Tabs -> Display] /\ \A u \in Tabs : SignInFits(tab'[u])
  <1> QED  BY DEF SignInInv, SignInTables, BrowserTypes

\* The browser gets its session and its cookie, or stays.
LEMMA TrustReadKeeps ==
    ASSUME SignInInv, NEW c \in Slots, TrustRead(c), UNCHANGED account
    PROVE  SignInInv'
  <1>1. Idle \in AnyRequest /\ SignInKnows(Idle) /\ slot' = [slot EXCEPT ![c] = Idle]
    BY DEF AnyRequest, Idle, SignInKnows, TrustRead, Finish
  <1>2. trusted' \in Proofs /\ inbox' \subseteq CodeIds
    BY BoundsAreNumbers
    DEF TrustRead, SignInInv, SignInTables, AccountTypes, BrowserTypes, Proofs
  <1>3. tab' \in [Tabs -> Display] /\ \A u \in Tabs : SignInFits(tab'[u])
    <2>1. CASE UNCHANGED tab
      BY <2>1 DEF SignInInv, SignInTables, BrowserTypes
    <2>2. CASE tab' = [tab EXCEPT ![slot[c].tab] = slot[c].shows]
      BY <2>2, SlotFacts, TabShown DEF TrustRead, At
    <2> QED  BY <2>1, <2>2 DEF TrustRead
  <1> QED  BY <1>1, <1>2, <1>3, BrowserStep DEF TrustRead

\* The answer reaches its tab.
LEMMA AnswerKeeps ==
    ASSUME SignInInv, NEW c \in Slots, Answer(c), UNCHANGED account
    PROVE  SignInInv'
  <1>1. Idle \in AnyRequest /\ SignInKnows(Idle) /\ slot' = [slot EXCEPT ![c] = Idle]
    BY DEF AnyRequest, Idle, SignInKnows, Answer, Finish
  <1>2. trusted' \in Proofs /\ inbox' \subseteq CodeIds
    BY DEF Answer, SignInInv, SignInTables, BrowserTypes
  <1>3. tab' \in [Tabs -> Display] /\ \A u \in Tabs : SignInFits(tab'[u])
    BY SlotFacts, TabShown DEF Answer, At
  <1> QED  BY <1>1, <1>2, <1>3, BrowserStep DEF Answer

\* The request dies, or its answer is lost.
LEMMA NoAnswerKeeps ==
    ASSUME SignInInv, NEW c \in Slots, NoAnswer(c), UNCHANGED account
    PROVE  SignInInv'
  <1> QED  BY SignInFinishQuiet DEF NoAnswer, Fail

\* A page with the current password, or without one, fits.
LEMMA CurrentFits ==
    ASSUME SignInInv, NEW page \in Pages
    PROVE  /\ Shows(page, password) \in Display /\ SignInFits(Shows(page, password))
           /\ page # "initial" => Shows(page, NoPassword) \in Display /\ SignInFits(Shows(page, NoPassword))
           /\ Shows(page, password).proof = password /\ Shows(page, password).page = page
           /\ Shows(page, NoPassword).page = page
  <1>1. password \in 0 .. MaxPasswords /\ password \in Int /\ password >= 0
    BY BoundsAreNumbers DEF SignInInv, SignInTables, AccountTypes
  <1> QED  BY <1>1 DEF Shows, Display, Proofs, SignInFits, NoPassword

\* The login goes on after an initial password.
LEMMA RenewedReadKeeps ==
    ASSUME SignInInv, NEW c \in Slots, RenewedRead(c), UNCHANGED account
    PROVE  SignInInv'
  <1>1. slot[c] \in PlainRequest /\ slot[c].pc = "renewed_read"
    BY SlotFacts, SignInRequestShapes DEF RenewedRead, At
  <1>2. ASSUME NEW step \in ResendSteps, NEW shows \in Display, SignInFits(shows), Continue(c, step, shows)
        PROVE  SignInInv'
    <2>1. PICK request : request = [slot[c] EXCEPT !.pc = step, !.shows = shows]
      OBVIOUS
    <2>2. request \in PlainRequest /\ request.tab = slot[c].tab /\ request.shows = shows
          /\ request.pc = step
      BY <1>1, <2>1 DEF PlainRequest, PlainSteps
    <2>3. request \in AnyRequest /\ SignInKnows(request)
      BY <1>1, <1>2, <2>2, SlotFacts DEF AnyRequest, SignInKnows, ResendSteps
    <2>4. slot' = [slot EXCEPT ![c] = request]
      BY <1>2, <2>1 DEF Continue
    <2> QED  BY <2>3, <2>4, SignInQuietStep DEF RenewedRead
  <1>3. CASE Finish(c)
    BY <1>3, SignInFinishQuiet DEF RenewedRead
  <1>4. Shows("twofactor", password) \in Display /\ SignInFits(Shows("twofactor", password))
    BY CurrentFits DEF Pages
  <1>5. Shows("home", password) \in Display /\ SignInFits(Shows("home", password))
    BY CurrentFits DEF Pages
  <1> QED  BY <1>2, <1>3, <1>4, <1>5 DEF RenewedRead, ResendSteps

\* A password is written over the one that the request has proved.
LEMMA UpdatePasswordKeeps ==
    ASSUME SignInInv, NEW c \in Slots, updatePassword(c), UNCHANGED account
    PROVE  SignInInv'
  <1>1. slot[c] \in PlainRequest /\ slot[c].pc = "password_write"
    BY SlotFacts, SignInRequestShapes DEF updatePassword, At
  <1>2. SignInTables /\ password \in 0 .. MaxPasswords /\ password \in Int /\ password < MaxPasswords
    BY BoundsAreNumbers DEF SignInInv, SignInTables, AccountTypes, updatePassword
  <1>3. password' = password + 1 /\ password' \in 0 .. MaxPasswords /\ password <= password'
    BY <1>2, BoundsAreNumbers DEF updatePassword
  <1>4. AccountTypes'
    <2>1. knew \in Seq(Proofs) /\ Len(knew) = password
      BY <1>2 DEF SignInTables, AccountTypes
    <2>2. slot[c].shows.proof \in Proofs
      BY <1>1 DEF PlainRequest, PlainSteps, Display
    <2>3. knew' \in Seq(Proofs) /\ Len(knew') = password + 1
      BY <2>1, <2>2 DEF updatePassword
    <2>4. locked' \in BOOLEAN /\ mustChange' = FALSE
      BY <1>2 DEF updatePassword, SignInTables, AccountTypes
    <2> QED  BY <1>3, <2>3, <2>4 DEF AccountTypes
  <1>5. SignInTables' /\ CodeIds \subseteq CodeIds'
    BY <1>2, <1>4 DEF SignInTables, CodeTypes, BrowserTypes, updatePassword, otpTable, browser, CodeIds
  <1>6. \A d \in Display : SignInFits(d) => SignInFits(d)'
    BY <1>2, <1>3, <1>5, SignInKnownStays
  <1>7. (\A t \in Tabs : SignInFits(tab[t]))'
    BY <1>6 DEF SignInInv, SignInTables, BrowserTypes, updatePassword, browser
  <1>8. ASSUME NEW request \in PlainRequest, slot' = [slot EXCEPT ![c] = request],
               request.tab = slot[c].tab, request.shows \in Display, SignInFits(request.shows),
               request.pc \in {"renewed_read", "signin_answer"}
        PROVE  SignInInv'
    <2>1. request \in AnyRequest
      BY DEF AnyRequest
    <2>2. SignInKnows(request)'
      BY <1>1, <1>6, <1>8, SlotFacts DEF SignInKnows
    <2> QED  BY <1>3, <1>5, <1>7, <1>8, <2>1, <2>2, SignInSlotStep
  <1>9. ASSUME NEW shows \in Display, SignInFits(shows), Continue(c, "signin_answer", shows)
        PROVE  SignInInv'
    <2>1. PICK request : request = [slot[c] EXCEPT !.pc = "signin_answer", !.shows = shows]
      OBVIOUS
    <2>2. request \in PlainRequest /\ request.tab = slot[c].tab /\ request.shows = shows
          /\ request.pc = "signin_answer"
      BY <1>1, <2>1 DEF PlainRequest, PlainSteps, ResendSteps
    <2>3. slot' = [slot EXCEPT ![c] = request]
      BY <1>9, <2>1 DEF Continue
    <2> QED  BY <1>8, <1>9, <2>2, <2>3
  <1>10. CASE Goto(c, "renewed_read")
    <2>1. PICK request : request = [slot[c] EXCEPT !.pc = "renewed_read"]
      OBVIOUS
    <2>2. request \in PlainRequest /\ request.tab = slot[c].tab /\ request.shows = slot[c].shows
          /\ request.pc = "renewed_read"
      BY <1>1, <2>1 DEF PlainRequest, PlainSteps
    <2>3. slot' = [slot EXCEPT ![c] = request]
      BY <1>10, <2>1 DEF Goto
    <2> QED  BY <1>1, <1>8, <2>2, <2>3, SlotFacts
  <1>11. Shows("success", NoPassword) \in Display /\ SignInFits(Shows("success", NoPassword))
    BY CurrentFits DEF Pages
  <1>12. tab[slot[c].tab] \in Display /\ SignInFits(tab[slot[c].tab])
    BY <1>1, <1>2, SlotFacts DEF SignInInv, SignInTables, BrowserTypes
  <1> QED  BY <1>9, <1>10, <1>11, <1>12 DEF updatePassword

\* A request that arrives is one.
LEMMA EnterKeeps ==
    ASSUME SignInInv, NEW c \in Slots, NEW request \in AnyRequest, SignInKnows(request),
           Enter(c, request), UNCHANGED <<accountRow, otpTable, browser, account>>
    PROVE  SignInInv'
  <1> QED  BY SignInQuietStep DEF Enter

\* A link that drops what a page holds.
LEMMA LinkKeeps ==
    ASSUME SignInInv, NEW t \in Tabs, NEW from, NEW to \in Pages \ {"initial"}, Link(t, from, to),
           UNCHANGED account
    PROVE  SignInInv'
  <1>1. Shows(to, NoPassword) \in Display /\ SignInFits(Shows(to, NoPassword))
    BY CurrentFits
  <1>2. tab' \in [Tabs -> Display] /\ \A u \in Tabs : SignInFits(tab'[u])
    BY <1>1, TabShown DEF Link
  <1>3. UNCHANGED <<accountRow, otpTable, inbox, trusted, slot>>
    BY DEF Link
  <1>4. password \in Int /\ password' = password /\ CodeIds' = CodeIds
    BY <1>3, BoundsAreNumbers DEF SignInInv, SignInTables, AccountTypes, CodeIds, accountRow, otpTable
  <1>5. AccountTypes' /\ CodeTypes'
    BY <1>3 DEF SignInInv, SignInTables, AccountTypes, CodeTypes, CodeIds, accountRow, otpTable
  <1>6. SignInTables'
    BY <1>2, <1>3, <1>4, <1>5 DEF SignInInv, SignInTables, BrowserTypes
  <1>7. (\A u \in Tabs : SignInFits(tab[u]))'
    BY <1>2, <1>4 DEF SignInFits
  <1>8. (\A c \in Slots : SignInKnows(slot[c]))'
    BY <1>3, <1>4 DEF SignInInv, SignInKnows, SignInFits
  <1> QED  BY <1>3, <1>6, <1>7, <1>8 DEF SignInInv

\* The account is locked or unlocked.
LEMMA LockChangeKeeps ==
    ASSUME SignInInv, LockChange, UNCHANGED account
    PROVE  SignInInv'
  <1>1. password \in Int /\ password' = password /\ CodeIds' = CodeIds /\ slot' = slot /\ tab' = tab
    BY BoundsAreNumbers DEF SignInInv, SignInTables, AccountTypes, CodeIds, LockChange, otpTable, browser
  <1>2. AccountTypes'
    BY DEF SignInInv, SignInTables, AccountTypes, LockChange
  <1>3. CodeTypes' /\ BrowserTypes'
    BY <1>1 DEF SignInInv, SignInTables, CodeTypes, BrowserTypes, LockChange, otpTable, browser
  <1>4. (\A u \in Tabs : SignInFits(tab[u]))' /\ (\A c \in Slots : SignInKnows(slot[c]))'
    BY <1>1 DEF SignInInv, SignInKnows, SignInFits
  <1> QED  BY <1>1, <1>2, <1>3, <1>4 DEF SignInInv, SignInTables

-----------------------------------------------------------------------------
\* A request arrives from a tab: only a resend while another one of the tab is answered,
\* and a change of the password by somebody who has shown to know the current one.
Arrives(c, t) ==
    \E request \in AnyRequest :
        /\ Enter(c, request)
        /\ SignInKnows(request)
        /\ request.pc \notin {"idle", "otp_pass", "otp_miss", "otp_mail", "otp_insert"}
        /\ request.pc = "password_write" => request.shows.proof = password
        /\ request.call # "resend" => ~waits(t)
        /\ request.tab = t
        /\ UNCHANGED <<accountRow, otpTable, browser>>

\* A request that is built and sent arrives.
LEMMA SentArrives ==
    ASSUME SignInInv, NEW c \in Slots, NEW t \in account.tabs, NEW page,
           NEW step \in PlainSteps,
           step # "otp_insert", NEW call \in Calls \ {"resend"}, NEW shows \in Display, SignInFits(shows),
           step = "password_write" => shows.proof = password,
           Sends(c, t, page, Request(step, call, t, shows))
    PROVE  Arrives(c, t)
  <1>1. t \in Tabs
    BY SignInAssumption DEF SignInInv
  <1>2. PICK request : request = Request(step, call, t, shows)
    OBVIOUS
  <1>3. request \in AnyRequest /\ SignInKnows(request)
    BY <1>1, <1>2, RequestKnows
  <1>4. /\ request.pc = step /\ request.call = call /\ request.tab = t /\ request.shows = shows
        /\ step \notin {"idle", "otp_pass", "otp_miss", "otp_mail"}
    BY <1>1, <1>2, RequestIsOne DEF ResendSteps
  <1>5. Enter(c, request) /\ ~waits(t) /\ UNCHANGED <<accountRow, otpTable, browser>>
    BY <1>2 DEF Sends
  <1> QED  BY <1>3, <1>4, <1>5 DEF Arrives

\* What a tab shows is a page, with a proof that fits.
LEMMA TabFacts ==
    ASSUME SignInInv, NEW t \in account.tabs
    PROVE  t \in Tabs /\ tab[t] \in Display /\ SignInFits(tab[t])
  <1>1. t \in Tabs
    BY SignInAssumption DEF SignInInv
  <1> QED  BY <1>1 DEF SignInInv, SignInTables, BrowserTypes

\* A login names a request that the types allow.
LEMMA LoginArrives ==
    ASSUME SignInInv, NEW c \in Slots, NEW t \in account.tabs,
           LoginSubmit(c, t) \/ GoogleCallback(c, t)
    PROVE  Arrives(c, t)
  <1> USE DEF PlainSteps, ResendSteps, Calls
  <1>1. ASSUME NEW step \in {"signin_answer", "otp_void"}, NEW page \in {"initial", "home", "twofactor"},
               Sends(c, t, "login", Request(step, "login", t, Shows(page, password)))
        PROVE  Arrives(c, t)
    <2>1. Shows(page, password) \in Display /\ SignInFits(Shows(page, password))
      BY CurrentFits DEF Pages
    <2> QED  BY <1>1, <2>1, SentArrives
  <1>2. CASE GoogleCallback(c, t)
    <2>1. Shows("home", NoPassword) \in Display /\ SignInFits(Shows("home", NoPassword))
      BY CurrentFits DEF Pages
    <2>2. Sends(c, t, "login", Request("signin_answer", "google", t, Shows("home", NoPassword)))
      BY <1>2 DEF GoogleCallback, validateGoogle
    <2> QED  BY <2>1, <2>2, SentArrives
  <1>3. CASE LoginSubmit(c, t)
    <2>1. PICK request \in validateLocal(t) : Sends(c, t, "login", request)
      BY <1>3 DEF LoginSubmit
    <2>2. \/ request = Request("signin_answer", "login", t, Shows("initial", password))
          \/ request = Request("signin_answer", "login", t, Shows("home", password))
          \/ request = Request("otp_void", "login", t, Shows("twofactor", password))
      BY <2>1 DEF validateLocal
    <2> QED  BY <1>1, <2>1, <2>2
  <1> QED  BY <1>2, <1>3

\* So does a new password.
LEMMA PasswordArrives ==
    ASSUME SignInInv, NEW c \in Slots, NEW t \in account.tabs,
           InitialSubmit(c, t) \/ ResetSubmit(c, t) \/ ChangeSubmit(c, t)
    PROVE  Arrives(c, t)
  <1> USE DEF PlainSteps, Calls
  <1>1. password \in 0 .. MaxPasswords /\ password \in Int
    BY BoundsAreNumbers DEF SignInInv, SignInTables, AccountTypes
  <1>2. CASE InitialSubmit(c, t)
    <2>1. password = 0
      BY <1>2 DEF InitialSubmit, completeInitialPasswordChange, SignInInv, SignInTables, AccountTypes
    <2>2. tab[t].page = "initial" /\ Sends(c, t, "initial", Request("password_write", "initial", t, tab[t]))
      BY <1>2 DEF InitialSubmit, Sends
    <2>3. tab[t].proof \in Int
      BY TabFacts, BoundsAreNumbers DEF Display, Proofs, NoPassword
    <2>4. tab[t].proof = password
      BY <2>1, <2>2, <2>3, TabFacts DEF SignInFits
    <2> QED  BY <2>2, <2>4, TabFacts, SentArrives
  <1>3. CASE ResetSubmit(c, t)
    <2>1. tab[t].proof = password /\ Sends(c, t, "password", Request("password_write", "reset", t, tab[t]))
      BY <1>3 DEF ResetSubmit, resetPassword
    <2> QED  BY <2>1, TabFacts, SentArrives
  <1>4. CASE ChangeSubmit(c, t)
    <2>1. Sends(c, t, "home", Request("password_write", "change", t, Shows("home", password)))
      BY <1>4 DEF ChangeSubmit, changePassword
    <2>2. Shows("home", password) \in Display /\ SignInFits(Shows("home", password))
          /\ Shows("home", password).proof = password
      BY CurrentFits DEF Pages
    <2> QED  BY <2>1, <2>2, SentArrives
  <1> QED  BY <1>2, <1>3, <1>4

\* So does the wish for a code.
LEMMA MailArrives ==
    ASSUME SignInInv, NEW c \in Slots, NEW t \in account.tabs,
           CodeResend(c, t) \/ ForgotSend(c, t) \/ ForgotResend(c, t)
    PROVE  Arrives(c, t)
  <1> USE DEF PlainSteps, ResendSteps, Calls
  <1>1. CASE CodeResend(c, t)
    <2>1. PICK request : request = Request("resend_count", "resend", t, tab[t])
      OBVIOUS
    <2>2. request \in AnyRequest /\ SignInKnows(request)
      BY <2>1, TabFacts, RequestKnows
    <2>3. request.pc = "resend_count" /\ request.call = "resend" /\ request.tab = t
      BY <2>1 DEF Request
    <2>4. Enter(c, request) /\ UNCHANGED <<accountRow, otpTable, browser>>
      BY <1>1, <2>1 DEF CodeResend
    <2> QED  BY <2>2, <2>3, <2>4 DEF Arrives
  <1>2. CASE ForgotSend(c, t)
    <2>1. beginForgotPassword \in {"otp_void", "signin_answer"}
      BY DEF beginForgotPassword
    <2>2. Shows("otp", NoPassword) \in Display /\ SignInFits(Shows("otp", NoPassword))
      BY CurrentFits DEF Pages
    <2> QED  BY <1>2, <2>1, <2>2, SentArrives DEF ForgotSend
  <1>3. CASE ForgotResend(c, t)
    <2>1. resendPasswordResetOtp \in {"resend_count", "signin_answer"}
      BY DEF resendPasswordResetOtp
    <2> QED  BY <1>3, <2>1, TabFacts, SentArrives DEF ForgotResend
  <1> QED  BY <1>1, <1>2, <1>3

\* So does a code that is typed in.
LEMMA VerifyArrives ==
    ASSUME SignInInv, NEW c \in Slots, NEW t \in account.tabs, NEW code \in Codes,
           CodeSubmit(c, t, code) \/ ForgotVerify(c, t, code)
    PROVE  Arrives(c, t)
  <1>1. code \in 0 .. MaxCodes
    <2>1. Len(otps) \in Nat /\ Len(otps) <= MaxCodes /\ CodeIds = 1 .. Len(otps)
      BY DEF CodeIds, SignInInv, SignInTables, CodeTypes
    <2>2. code \in CodeIds \/ code = 0
      BY DEF Codes, Wrong, SignInInv, SignInTables, BrowserTypes
    <2> QED  BY <2>1, <2>2, BoundsAreNumbers
  <1>2. ASSUME NEW page, NEW shows \in Display, SignInFits(shows),
               Sends(c, t, page, [pc |-> "otp_select", call |-> "verify", tab |-> t,
                                  entered |-> code, shows |-> shows])
        PROVE  Arrives(c, t)
    <2>1. PICK request : request = [pc |-> "otp_select", call |-> "verify", tab |-> t,
                                    entered |-> code, shows |-> shows]
      OBVIOUS
    <2>2. request \in VerifyRequest
      BY <1>1, <2>1, TabFacts DEF VerifyRequest
    <2>3. request \in AnyRequest
      BY <2>2 DEF AnyRequest
    <2>4. SignInKnows(request) /\ request.pc = "otp_select" /\ request.tab = t
      BY <1>2, <2>1 DEF SignInKnows
    <2>5. Enter(c, request) /\ ~waits(t) /\ UNCHANGED <<accountRow, otpTable, browser>>
      BY <1>2, <2>1 DEF Sends
    <2> QED  BY <2>3, <2>4, <2>5 DEF Arrives
  <1>3. CASE CodeSubmit(c, t, code)
    <2>1. Shows("home", tab[t].proof) \in Display /\ SignInFits(Shows("home", tab[t].proof))
      BY TabFacts DEF Shows, Display, Pages, SignInFits
    <2> QED  BY <1>2, <1>3, <2>1 DEF CodeSubmit
  <1>4. CASE ForgotVerify(c, t, code)
    <2>1. Shows("password", password) \in Display /\ SignInFits(Shows("password", password))
      BY CurrentFits DEF Pages
    <2> QED  BY <1>2, <1>4, <2>1 DEF ForgotVerify, verifyPasswordResetOtp
  <1> QED  BY <1>3, <1>4

\* A call of a page arrives, or is a link.
LEMMA CallArrives ==
    ASSUME SignInInv, NEW c \in Slots, NEW t \in account.tabs, TabCall(c, t)
    PROVE  Arrives(c, t) \/ \E from \in SUBSET Pages, to \in Pages \ {"initial"} : Link(t, from, to)
  <1> DEFINE Linked == \E from \in SUBSET Pages, to \in Pages \ {"initial"} : Link(t, from, to)
  <1> SUFFICES Arrives(c, t) \/ Linked
    OBVIOUS
  <1>1. \A from \in SUBSET Pages, to \in Pages \ {"initial"} : Link(t, from, to) => Linked
    OBVIOUS
  <1> HIDE DEF Linked
  <1> USE DEF Pages
  <1>2. CASE Login(c, t)
    BY <1>1, <1>2, LoginArrives DEF Login
  <1>3. CASE InitialPasswordChallenge(c, t)
    BY <1>1, <1>3, PasswordArrives DEF InitialPasswordChallenge
  <1>4. CASE TwoFactorChallenge(c, t)
    BY <1>1, <1>4, VerifyArrives, MailArrives DEF TwoFactorChallenge
  <1>5. CASE EmailStep(c, t)
    BY <1>1, <1>5, MailArrives DEF EmailStep
  <1>6. CASE OtpStep(c, t)
    BY <1>1, <1>6, VerifyArrives, MailArrives DEF OtpStep
  <1>7. CASE PasswordStep(c, t)
    BY <1>1, <1>7, PasswordArrives DEF PasswordStep
  <1>8. CASE SuccessStep(t)
    BY <1>1, <1>8 DEF SuccessStep
  <1>9. CASE Home(c, t)
    BY <1>1, <1>9, PasswordArrives DEF Home
  <1> QED  BY <1>2, <1>3, <1>4, <1>5, <1>6, <1>7, <1>8, <1>9 DEF TabCall

\* Every step keeps the shapes and what the requests know.
LEMMA NextKeeps ==
    ASSUME SignInInv, [SignInNext]_signInVars
    PROVE  SignInInv'
  <1>1. CASE UNCHANGED signInVars
    BY <1>1 DEF signInVars, accountRow, otpTable, browser, requestVars, SignInInv, SignInTables,
                AccountTypes, CodeTypes, BrowserTypes, CodeIds, SignInFits, SignInKnows
  <1>2. CASE SignInNext
    <2>1. UNCHANGED account
      BY <1>2 DEF SignInNext
    <2>2. ASSUME NEW c \in Slots, SignInStep(c) PROVE SignInInv'
      BY <2>1, <2>2, ResendCountKeeps, OtpVoidKeeps, OtpInsertKeeps, OtpMailKeeps, OtpSelectKeeps,
         OtpPassKeeps, OtpMissKeeps, SessionReadKeeps, TrustReadKeeps, UpdatePasswordKeeps,
         RenewedReadKeeps, AnswerKeeps, NoAnswerKeeps DEF SignInStep
    <2>3. ASSUME NEW c \in Slots, NEW t \in account.tabs, Arrives(c, t) PROVE SignInInv'
      BY <2>1, <2>3, EnterKeeps DEF Arrives
    <2>4. ASSUME NEW t \in account.tabs, NEW from, NEW to \in Pages \ {"initial"}, Link(t, from, to)
          PROVE  SignInInv'
      BY <2>1, <2>4, TabFacts, LinkKeeps
    <2>5. ASSUME NEW t \in account.tabs, Reload(t) PROVE SignInInv'
      BY <2>4, <2>5 DEF Reload, Pages
    <2> QED  BY <1>2, <2>1, <2>2, <2>3, <2>4, <2>5, CallArrives, LockChangeKeeps DEF SignInNext
  <1> QED  BY <1>1, <1>2

\* SignIn keeps its shapes, what a request holds is there, and no page or request stands
\* for a password there has not been.
THEOREM SignInInvariant == SignInSpec => []SignInInv
  <1> QED  BY InitSignInInv, NextKeeps, PTL DEF SignInSpec

\* The types of SignIn.
THEOREM SignInTypes == SignInSpec => []SignInTypeOK
  <1>1. SignInInv => SignInTypeOK
    <2> SUFFICES ASSUME SignInInv PROVE SignInTypeOK
      OBVIOUS
    <2>1. \A c \in Slots : slot[c].pc \in SignInSteps
      BY SlotFacts, SignInRequestShapes
    <2> QED  BY <2>1 DEF SignInTypeOK, SignInInv, SignInTables, AccountTypes, CodeTypes, BrowserTypes,
                         Code, Display, Proofs
  <1> QED  BY <1>1, SignInInvariant, PTL

-----------------------------------------------------------------------------
(* One request at a time, but for a resend. *)

Asking(c) == slot[c].pc # "idle" /\ slot[c].call # "resend"

\* What a request has read still holds.
SignInTold(q) ==
    /\ q.pc = "password_write" => q.shows.proof = password
    /\ q.pc = "otp_pass" => passed[q.id] = 0
    /\ q.pc \in {"otp_pass", "otp_miss"} => q.attempts = otps[q.id].attempts

\* A code that was right is consumed, and its attempts are the wrong ones it has seen.
CodesCount ==
    \A i \in 1 .. MaxCodes :
        /\ passed[i] <= 1
        /\ i \in CodeIds => (passed[i] # 0 => otps[i].consumed) /\ missed[i] = otps[i].attempts
        /\ i \notin CodeIds => passed[i] = 0 /\ missed[i] = 0

KnewInOrder == \A n \in DOMAIN knew : knew[n] = n - 1

AskInv ==
    /\ \A c, d \in Slots : Asking(c) /\ Asking(d) => c = d
    /\ \A c \in Slots : SignInTold(slot[c])
    /\ CodesCount
    /\ KnewInOrder

\* The other requests stay.
OnlySlot(c) == \A d \in Slots \ {c} : slot'[d] = slot[d]

\* A request that goes on or ends.
Moves(c) ==
    /\ OnlySlot(c)
    /\ slot'[c].pc # "idle" => slot[c].pc # "idle" /\ slot'[c].call = slot[c].call

\* A step that neither changes the password nor tries a code.
Harmless ==
    /\ UNCHANGED <<password, knew, passed, missed>>
    /\ CodeIds \subseteq CodeIds'
    /\ \A i \in CodeIds : /\ otps'[i].attempts = otps[i].attempts
                          /\ otps[i].consumed => otps'[i].consumed
    /\ \A i \in CodeIds' \ CodeIds : otps'[i].attempts = 0

\* A request that goes on asks as before.
LEMMA MovesAsks ==
    ASSUME AskInv, NEW c \in Slots, Moves(c)
    PROVE  (\A d, e \in Slots : Asking(d) /\ Asking(e) => d = e)'
  <1> QED  BY DEF AskInv, Asking, Moves, OnlySlot

\* Only one that asks has read what SignInTold is about.
LEMMA OthersHoldNothing ==
    ASSUME SignInInv, AskInv, NEW c \in Slots, Asking(c), OnlySlot(c), NEW d \in Slots, d # c
    PROVE  SignInTold(slot[d])'
  <1>1. ~Asking(d) /\ slot[d] \in AnyRequest /\ slot'[d] = slot[d]
    BY SlotFacts DEF AskInv, OnlySlot
  <1>2. slot[d].pc \notin {"password_write", "otp_pass", "otp_miss"}
    <2>1. slot[d].pc \in {"otp_pass", "otp_miss"} => slot[d].call = "verify"
      BY <1>1, SignInRequestShapes DEF TriedRequest
    <2>2. slot[d].pc = "password_write" => slot[d].call # "resend"
      BY <1>1, SignInRequestShapes DEF PlainRequest, PlainSteps
    <2> QED  BY <1>1, <2>1, <2>2 DEF Asking
  <1> QED  BY <1>1, <1>2 DEF SignInTold

\* What the requests have read stays.
LEMMA HarmlessTold ==
    ASSUME Harmless, NEW q \in AnyRequest, SignInKnows(q), SignInTold(q)
    PROVE  SignInTold(q)'
  <1> QED  BY DEF Harmless, SignInTold, SignInKnows

\* A step that is harmless keeps the counts of the codes and the order of the passwords.
LEMMA HarmlessCodes ==
    ASSUME SignInInv, SignInInv', AskInv, Harmless
    PROVE  CodesCount' /\ KnewInOrder'
  <1>1. KnewInOrder'
    BY DEF AskInv, KnewInOrder, Harmless
  <1>2. CodesCount'
    <2> SUFFICES ASSUME NEW i \in 1 .. MaxCodes
                 PROVE  /\ passed[i] <= 1
                        /\ i \in CodeIds' => (passed[i] # 0 => otps'[i].consumed)
                                             /\ missed[i] = otps'[i].attempts
                        /\ i \notin CodeIds' => passed[i] = 0 /\ missed[i] = 0
      BY DEF CodesCount, Harmless
    <2> QED  BY DEF AskInv, CodesCount, Harmless
  <1> QED  BY <1>1, <1>2

\* A harmless step of one request.
LEMMA HarmlessStep ==
    ASSUME SignInInv, SignInInv', AskInv, NEW c \in Slots, OnlySlot(c), Harmless,
           SignInTold(slot[c])', (\A d, e \in Slots : Asking(d) /\ Asking(e) => d = e)'
    PROVE  AskInv'
  <1>1. (\A d \in Slots : SignInTold(slot[d]))'
    <2> SUFFICES ASSUME NEW d \in Slots, d # c PROVE SignInTold(slot[d])'
      OBVIOUS
    <2>1. PICK q \in AnyRequest : q = slot[d] /\ SignInKnows(q) /\ SignInTold(q)
      BY SlotFacts DEF AskInv
    <2>2. SignInTold(q)' /\ slot'[d] = q
      BY <2>1, HarmlessTold DEF OnlySlot
    <2> QED  BY <2>2 DEF SignInTold
  <1> QED  BY <1>1, HarmlessCodes DEF AskInv

\* One that goes on to a step that uses nothing it has read.
LEMMA HarmlessMove ==
    ASSUME SignInInv, SignInInv', AskInv, NEW c \in Slots, Moves(c), Harmless,
           slot'[c].pc \notin {"password_write", "otp_pass", "otp_miss"}
    PROVE  AskInv'
  <1>1. SignInTold(slot[c])'
    BY DEF SignInTold
  <1> QED  BY <1>1, HarmlessStep, MovesAsks DEF Moves

\* Nothing is written.
LEMMA QuietIsHarmless ==
    ASSUME SignInInv, UNCHANGED <<password, knew>>, UNCHANGED otpTable
    PROVE  Harmless
  <1> QED  BY DEF Harmless, otpTable, CodeIds

\* A request has these fields.
LEMMA SlotFields ==
    ASSUME NEW q \in AnyRequest, q.pc # "idle", NEW step, NEW shows
    PROVE  /\ [q EXCEPT !.pc = step].pc = step /\ [q EXCEPT !.pc = step].call = q.call
           /\ [q EXCEPT !.pc = step, !.shows = shows].pc = step
           /\ [q EXCEPT !.pc = step, !.shows = shows].call = q.call
  <1>1. q \notin {Idle}
    BY DEF Idle
  <1> QED  BY <1>1 DEF AnyRequest, ResendRequest, PlainRequest, MailRequest, VerifyRequest, TriedRequest

\* The statements of mails, sessions and answers.
LEMMA MailAsks ==
    ASSUME SignInInv, SignInInv', AskInv, NEW c \in Slots,
           ResendCount(c) \/ OtpMail(c) \/ Answer(c) \/ NoAnswer(c) \/ SessionRead(c)
             \/ TrustRead(c) \/ RenewedRead(c)
    PROVE  AskInv'
  <1>1. Harmless
    <2>1. UNCHANGED <<password, knew>> /\ UNCHANGED otpTable
      BY DEF ResendCount, OtpMail, Answer, NoAnswer, SessionRead, TrustRead, RenewedRead,
             accountRow
    <2> QED  BY <2>1, QuietIsHarmless
  <1>2. slot \in [Slots -> AnyRequest]
    BY DEF SignInInv
  <1>3. slot[c].pc # "idle"
    BY DEF ResendCount, OtpMail, Answer, NoAnswer, SessionRead, TrustRead, RenewedRead, At, Fail
  <1>4. PICK step, shows :
            /\ step \in {"otp_void", "trust_read", "signin_answer"}
            /\ \/ slot' = [slot EXCEPT ![c] = Idle]
               \/ slot' = [slot EXCEPT ![c] = Request("signin_answer", slot[c].call, slot[c].tab, slot[c].shows)]
               \/ slot' = [slot EXCEPT ![c].pc = step]
               \/ slot' = [slot EXCEPT ![c].pc = step, ![c].shows = shows]
    BY DEF ResendCount, OtpMail, Answer, NoAnswer, SessionRead, TrustRead, RenewedRead,
           Fail, Finish, Goto, Continue, Become
  <1>5. OnlySlot(c)
    BY <1>2, <1>4 DEF OnlySlot
  <1>6. /\ slot'[c].pc # "idle" => slot'[c].call = slot[c].call
        /\ slot'[c].pc \notin {"password_write", "otp_pass", "otp_miss"}
    <2>1. CASE slot' = [slot EXCEPT ![c] = Idle]
      BY <1>2, <2>1 DEF Idle
    <2>2. CASE slot' = [slot EXCEPT ![c] = Request("signin_answer", slot[c].call, slot[c].tab, slot[c].shows)]
      BY <1>2, <2>2 DEF Request
    <2>3. CASE slot' = [slot EXCEPT ![c].pc = step]
      <3>1. PICK request : request = [slot[c] EXCEPT !.pc = step]
        OBVIOUS
      <3>2. slot'[c] = request
        BY <1>2, <2>3, <3>1
      <3>3. request.pc = step /\ request.call = slot[c].call
        BY <1>2, <1>3, <3>1, SlotFields
      <3> QED  BY <1>4, <3>2, <3>3
    <2>4. CASE slot' = [slot EXCEPT ![c].pc = step, ![c].shows = shows]
      <3>1. PICK request : request = [slot[c] EXCEPT !.pc = step, !.shows = shows]
        OBVIOUS
      <3>2. slot'[c] = request
        BY <1>2, <2>4, <3>1
      <3>3. request.pc = step /\ request.call = slot[c].call
        BY <1>2, <1>3, <3>1, SlotFields
      <3> QED  BY <1>4, <3>2, <3>3
    <2> QED  BY <1>4, <2>1, <2>2, <2>3, <2>4
  <1> QED  BY <1>1, <1>3, <1>5, <1>6, HarmlessMove DEF Moves

\* The codes after OtpVoid: those of its purpose are consumed.
LEMMA OtpVoidRows ==
    ASSUME SignInInv, NEW c \in Slots, OtpVoid(c)
    PROVE  /\ CodeIds' = CodeIds
           /\ \A i \in CodeIds :
                 /\ otps[i].consumed \in BOOLEAN /\ otps'[i].consumed \in BOOLEAN
                 /\ otps'[i].attempts = otps[i].attempts
                 /\ otps'[i].purpose = otps[i].purpose
                 /\ otps[i].consumed => otps'[i].consumed
                 /\ otps[i].purpose = PurposeOf(c) => otps'[i].consumed
  <1>1. CodeIds' = CodeIds
    BY DEF OtpVoid, CodeIds
  <1> SUFFICES ASSUME NEW i \in CodeIds
               PROVE  /\ otps[i].consumed \in BOOLEAN /\ otps'[i].consumed \in BOOLEAN
                      /\ otps'[i].attempts = otps[i].attempts
                      /\ otps'[i].purpose = otps[i].purpose
                      /\ otps[i].consumed => otps'[i].consumed
                      /\ otps[i].purpose = PurposeOf(c) => otps'[i].consumed
    BY <1>1
  <1>2. otps[i] \in Code
    BY DEF CodeIds, SignInInv, SignInTables, CodeTypes
  <1>3. otps'[i] = [otps[i] EXCEPT !.consumed = @ \/ otps[i].purpose = PurposeOf(c)]
    BY DEF OtpVoid
  <1> QED  BY <1>2, <1>3 DEF Code

\* Consuming older codes.
LEMMA OtpVoidAsks ==
    ASSUME SignInInv, SignInInv', AskInv, NEW c \in Slots, OtpVoid(c)
    PROVE  AskInv'
  <1>3. Harmless
    <2>1. UNCHANGED <<password, knew, passed, missed>>
      BY DEF OtpVoid, accountRow
    <2>2. CodeIds' = CodeIds
      BY OtpVoidRows
    <2> QED  BY OtpVoidRows, <2>1, <2>2 DEF Harmless
  <1>4. slot[c] \in AnyRequest /\ slot[c].pc # "idle" /\ slot \in [Slots -> AnyRequest]
    BY DEF SignInInv, OtpVoid, At
  <1>5. PICK request : request = [slot[c] EXCEPT !.pc = "otp_insert"]
    OBVIOUS
  <1>6. request.pc = "otp_insert" /\ request.call = slot[c].call
    BY <1>4, <1>5, SlotFields
  <1>7. slot'[c] = request /\ OnlySlot(c)
    BY <1>4, <1>5 DEF OtpVoid, Goto, OnlySlot
  <1> QED  BY <1>3, <1>4, <1>6, <1>7, HarmlessMove DEF Moves

\* A new code has been passed by nobody, and missed by nobody.
LEMMA OtpInsertAsks ==
    ASSUME SignInInv, SignInInv', AskInv, NEW c \in Slots, OtpInsert(c)
    PROVE  AskInv'
  <1>1. PICK code : code = [purpose |-> PurposeOf(c), attempts |-> 0, consumed |-> FALSE]
    OBVIOUS
  <1>2. code.attempts = 0 /\ otps' = Append(otps, code)
    BY <1>1 DEF OtpInsert
  <1>3. otps \in Seq(Code) /\ Len(otps) \in Nat
    BY DEF SignInInv, SignInTables, CodeTypes
  <1>4. code \in Code
    BY <1>1, BoundsAreNumbers DEF Code, PurposeOf, Purposes
  <1>5. /\ CodeIds = 1 .. Len(otps) /\ CodeIds' = 1 .. (Len(otps) + 1)
        /\ \A i \in CodeIds : otps'[i] = otps[i]
        /\ otps'[Len(otps) + 1] = code
    BY <1>2, <1>3, <1>4 DEF CodeIds
  <1>6. CodeIds \subseteq CodeIds' /\ \A i \in CodeIds' \ CodeIds : i = Len(otps) + 1
    BY <1>3, <1>5
  <1>7. \A i \in CodeIds' \ CodeIds : otps'[i].attempts = 0
    BY <1>2, <1>5, <1>6
  <1>8. Harmless
    BY <1>5, <1>6, <1>7 DEF Harmless, OtpInsert, accountRow
  <1>9. slot[c].pc # "idle" /\ slot \in [Slots -> AnyRequest]
    BY DEF SignInInv, OtpInsert, At
  <1>10. slot'[c].pc = "otp_mail" /\ slot'[c].call = slot[c].call /\ OnlySlot(c)
    BY <1>9 DEF OtpInsert, Become, OnlySlot
  <1> QED  BY <1>8, <1>9, <1>10, HarmlessMove DEF Moves

\* The selected code is not consumed, and its attempts are those that were counted.
LEMMA OtpSelectAsks ==
    ASSUME SignInInv, SignInInv', AskInv, NEW c \in Slots, OtpSelect(c)
    PROVE  AskInv'
  <1>1. Harmless
    BY QuietIsHarmless DEF OtpSelect, accountRow
  <1>2. slot[c].pc # "idle" /\ slot \in [Slots -> AnyRequest]
    BY DEF SignInInv, OtpSelect, At
  <1>3. CASE Finish(c)
    <2>1. slot'[c].pc = "idle" /\ OnlySlot(c)
      BY <1>2, <1>3 DEF Finish, Idle, OnlySlot
    <2> QED  BY <1>1, <2>1, HarmlessMove DEF Moves
  <1>4. ASSUME LiveCodes(PurposeOf(c)) # {}, NEW i, i = Max(LiveCodes(PurposeOf(c))),
               NEW step \in {"otp_pass", "otp_miss"},
               Become(c, [pc |-> step, call |-> slot[c].call, tab |-> slot[c].tab,
                          shows |-> slot[c].shows, id |-> i, attempts |-> otps[i].attempts])
        PROVE  AskInv'
    <2>1. i \in CodeIds /\ ~otps[i].consumed
      BY <1>4, NewestIsLive DEF SignInInv, SignInTables, LiveCodes
    <2>2. passed[i] = 0
      <3>1. Len(otps) \in Nat /\ Len(otps) <= MaxCodes /\ CodeIds = 1 .. Len(otps)
        BY DEF SignInInv, SignInTables, CodeTypes, CodeIds
      <3>2. i \in 1 .. MaxCodes
        BY <2>1, <3>1, BoundsAreNumbers
      <3> QED  BY <2>1, <3>2 DEF AskInv, CodesCount
    <2>3. /\ slot'[c].pc = step /\ slot'[c].call = slot[c].call /\ slot'[c].id = i
          /\ slot'[c].attempts = otps[i].attempts /\ OnlySlot(c)
      BY <1>2, <1>4 DEF Become, OnlySlot
    <2>4. SignInTold(slot[c])'
      BY <2>2, <2>3 DEF SignInTold, OtpSelect, otpTable
    <2>5. Moves(c)
      BY <1>2, <2>3 DEF Moves
    <2> QED  BY <1>1, <2>3, <2>4, <2>5, HarmlessStep, MovesAsks
  <1> QED  BY <1>3, <1>4 DEF OtpSelect

\* A miss is counted once.
LEMMA OtpMissAsks ==
    ASSUME SignInInv, SignInInv', AskInv, NEW c \in Slots, OtpMiss(c)
    PROVE  AskInv'
  <1>1. PICK i, attempts : i = slot[c].id /\ attempts = slot[c].attempts + 1
    OBVIOUS
  <1>2. /\ i \in CodeIds /\ i \in 1 .. MaxCodes /\ attempts = otps[i].attempts + 1
        /\ otps[i] \in Code /\ otps \in Seq(Code) /\ missed \in [1 .. MaxCodes -> Nat]
    BY <1>1, TriedFacts DEF OtpMiss, At, AskInv, SignInTold, SignInInv, SignInTables, CodeTypes
  <1>3. CodeIds' = CodeIds /\ missed'[i] = missed[i] + 1 /\ passed' = passed
        /\ \A j \in 1 .. MaxCodes : j # i => missed'[j] = missed[j]
    BY <1>1, <1>2 DEF OtpMiss, CodeIds
  <1>4. /\ otps'[i].attempts = attempts
        /\ otps[i].consumed => otps'[i].consumed
        /\ \A j \in CodeIds : j # i => otps'[j] = otps[j]
    BY <1>1, <1>2 DEF OtpMiss, CodeIds, Code
  <1>5. CodesCount'
    <2> SUFFICES ASSUME NEW j \in 1 .. MaxCodes
                 PROVE  /\ passed[j] <= 1
                        /\ j \in CodeIds => (passed[j] # 0 => otps'[j].consumed)
                                            /\ missed'[j] = otps'[j].attempts
                        /\ j \notin CodeIds => passed[j] = 0 /\ missed'[j] = 0
      BY <1>3 DEF CodesCount
    <2>1. /\ passed[j] <= 1
          /\ j \in CodeIds => (passed[j] # 0 => otps[j].consumed) /\ missed[j] = otps[j].attempts
          /\ j \notin CodeIds => passed[j] = 0 /\ missed[j] = 0
      BY DEF AskInv, CodesCount
    <2>2. CASE j = i
      BY <1>2, <1>3, <1>4, <2>1, <2>2
    <2>3. CASE j # i
      BY <1>3, <1>4, <2>1, <2>3
    <2> QED  BY <2>2, <2>3
  <1>6. KnewInOrder'
    BY DEF AskInv, KnewInOrder, OtpMiss, accountRow
  <1>7. slot'[c].pc = "idle" /\ OnlySlot(c)
    BY DEF SignInInv, OtpMiss, Finish, Idle, OnlySlot
  <1>8. Asking(c)
    BY TriedFacts DEF Asking, OtpMiss, At
  <1>9. (\A d \in Slots : SignInTold(slot[d]))'
    BY <1>7, <1>8, OthersHoldNothing DEF SignInTold
  <1> QED  BY <1>5, <1>6, <1>7, <1>9, MovesAsks DEF AskInv, Moves

\* A pass consumes the code that it found live.
LEMMA OtpPassAsks ==
    ASSUME SignInInv, SignInInv', AskInv, NEW c \in Slots, OtpPass(c)
    PROVE  AskInv'
  <1>1. PICK i : i = slot[c].id
    OBVIOUS
  <1>2. /\ i \in CodeIds /\ i \in 1 .. MaxCodes /\ passed[i] = 0
        /\ otps[i] \in Code /\ otps \in Seq(Code) /\ passed \in [1 .. MaxCodes -> Nat]
    BY <1>1, TriedFacts DEF OtpPass, At, AskInv, SignInTold, SignInInv, SignInTables, CodeTypes
  <1>3. CodeIds' = CodeIds /\ passed'[i] = 1 /\ missed' = missed
        /\ \A j \in 1 .. MaxCodes : j # i => passed'[j] = passed[j]
    BY <1>1, <1>2 DEF OtpPass, CodeIds
  <1>4. /\ otps'[i].consumed /\ otps'[i].attempts = otps[i].attempts
        /\ \A j \in CodeIds : j # i => otps'[j] = otps[j]
    BY <1>1, <1>2 DEF OtpPass, CodeIds, Code
  <1>5. CodesCount'
    <2> SUFFICES ASSUME NEW j \in 1 .. MaxCodes
                 PROVE  /\ passed'[j] <= 1
                        /\ j \in CodeIds => (passed'[j] # 0 => otps'[j].consumed)
                                            /\ missed[j] = otps'[j].attempts
                        /\ j \notin CodeIds => passed'[j] = 0 /\ missed[j] = 0
      BY <1>3 DEF CodesCount
    <2>1. /\ passed[j] <= 1
          /\ j \in CodeIds => (passed[j] # 0 => otps[j].consumed) /\ missed[j] = otps[j].attempts
          /\ j \notin CodeIds => passed[j] = 0 /\ missed[j] = 0
      BY DEF AskInv, CodesCount
    <2>2. CASE j = i
      BY <1>2, <1>3, <1>4, <2>1, <2>2
    <2>3. CASE j # i
      BY <1>3, <1>4, <2>1, <2>3
    <2> QED  BY <2>2, <2>3
  <1>6. KnewInOrder'
    BY DEF AskInv, KnewInOrder, OtpPass, accountRow
  <1>7. /\ slot'[c].pc \in {"session_read", "signin_answer"} /\ slot'[c].call = slot[c].call
        /\ OnlySlot(c)
    BY DEF SignInInv, OtpPass, Become, Request, OnlySlot
  <1>8. Asking(c)
    BY TriedFacts DEF Asking, OtpPass, At
  <1>9. (\A d \in Slots : SignInTold(slot[d]))'
    BY <1>7, <1>8, OthersHoldNothing DEF SignInTold
  <1>10. Moves(c)
    BY <1>7 DEF Moves, OtpPass, At
  <1> QED  BY <1>5, <1>6, <1>9, <1>10, MovesAsks DEF AskInv

\* A new password follows the one that its request has proved.
LEMMA UpdatePasswordAsks ==
    ASSUME SignInInv, SignInInv', AskInv, NEW c \in Slots, updatePassword(c)
    PROVE  AskInv'
  <1>1. slot[c] \in PlainRequest /\ slot[c].pc = "password_write" /\ slot \in [Slots -> AnyRequest]
    BY SlotFacts, SignInRequestShapes DEF updatePassword, At, SignInInv
  <1>2. Asking(c)
    BY <1>1 DEF Asking, PlainRequest
  <1>3. slot[c].shows.proof = password
    BY <1>1 DEF AskInv, SignInTold
  <1>4. KnewInOrder'
    <2>1. knew \in Seq(Proofs) /\ Len(knew) = password /\ password \in Nat
      BY BoundsAreNumbers DEF SignInInv, SignInTables, AccountTypes
    <2>2. slot[c].shows.proof \in Proofs
      BY <1>1 DEF PlainRequest, Display
    <2>3. knew' = Append(knew, password) /\ password \in Proofs
      BY <1>3, <2>2 DEF updatePassword
    <2>4. /\ DOMAIN knew' = 1 .. (password + 1) /\ DOMAIN knew = 1 .. password
          /\ \A n \in 1 .. password : knew'[n] = knew[n]
          /\ knew'[password + 1] = password
      BY <2>1, <2>3
    <2> SUFFICES ASSUME NEW n \in 1 .. (password + 1) PROVE knew'[n] = n - 1
      BY <2>4 DEF KnewInOrder
    <2>5. CASE n = password + 1
      BY <2>1, <2>4, <2>5
    <2>6. CASE n # password + 1
      BY <2>1, <2>4, <2>6 DEF AskInv, KnewInOrder
    <2> QED  BY <2>5, <2>6
  <1>5. CodesCount'
    BY DEF AskInv, CodesCount, CodeIds, updatePassword, otpTable
  <1>60. PICK step \in {"renewed_read", "signin_answer"} : \E shows :
            \/ slot' = [slot EXCEPT ![c].pc = step]
            \/ slot' = [slot EXCEPT ![c].pc = step, ![c].shows = shows]
    BY DEF updatePassword, Goto, Continue
  <1>6. PICK shows :
            \/ slot' = [slot EXCEPT ![c].pc = step]
            \/ slot' = [slot EXCEPT ![c].pc = step, ![c].shows = shows]
    BY <1>60
  <1>7. slot'[c].pc = step /\ slot'[c].call = slot[c].call /\ OnlySlot(c)
    <2>1. CASE slot' = [slot EXCEPT ![c].pc = step]
      <3>1. PICK request : request = [slot[c] EXCEPT !.pc = step]
        OBVIOUS
      <3>2. slot'[c] = request /\ OnlySlot(c)
        BY <1>1, <2>1, <3>1 DEF OnlySlot
      <3> QED  BY <1>1, <3>1, <3>2, SlotFields
    <2>2. CASE slot' = [slot EXCEPT ![c].pc = step, ![c].shows = shows]
      <3>1. PICK request : request = [slot[c] EXCEPT !.pc = step, !.shows = shows]
        OBVIOUS
      <3>2. slot'[c] = request /\ OnlySlot(c)
        BY <1>1, <2>2, <3>1 DEF OnlySlot
      <3> QED  BY <1>1, <3>1, <3>2, SlotFields
    <2> QED  BY <1>6, <2>1, <2>2
  <1>8. (\A d \in Slots : SignInTold(slot[d]))'
    BY <1>2, <1>60, <1>7, OthersHoldNothing DEF SignInTold
  <1>9. Moves(c)
    BY <1>1, <1>60, <1>7 DEF Moves
  <1> QED  BY <1>4, <1>5, <1>8, <1>9, MovesAsks DEF AskInv

\* One request at a time, whoever may send a second one: only a resend passes the page.
LEMMA NobodyAsks ==
    ASSUME SignInInv, OneAsks, NEW c \in Slots, NEW request, Enter(c, request),
           NEW t \in account.tabs, ~waits(t), NEW d \in Slots
    PROVE  ~Asking(d)
  <1>1. CASE InTurn
    BY <1>1 DEF Enter, Quiet, At, Asking
  <1>2. CASE ~InTurn
    <2>1. Cardinality(account.tabs) = 1 /\ IsFiniteSet(account.tabs)
      <3>1. account.tabs \subseteq Tabs /\ IsFiniteSet(Tabs)
        BY SignInAssumption DEF SignInInv
      <3> QED  BY <1>2, <3>1, FS_Subset DEF OneAsks
    <2>2. \A u \in account.tabs : u = t
      BY <2>1, FS_Singleton
    <2>3. slot[d].pc # "idle" => slot[d].tab = t
      BY <2>2, SlotFacts
    <2> QED  BY <2>3 DEF Asking, waits, Pending, At
  <1> QED  BY <1>1, <1>2

\* A request that arrives is the only one that asks.
LEMMA ArrivesAsks ==
    ASSUME SignInInv, SignInInv', AskInv, OneAsks, NEW c \in Slots, NEW t \in account.tabs, Arrives(c, t)
    PROVE  AskInv'
  <1>1. PICK request \in AnyRequest :
            /\ Enter(c, request)
            /\ request.pc \notin {"idle", "otp_pass", "otp_miss", "otp_mail", "otp_insert"}
            /\ request.pc = "password_write" => request.shows.proof = password
            /\ request.call # "resend" => ~waits(t)
            /\ UNCHANGED <<accountRow, otpTable, browser>>
    BY DEF Arrives
  <1>2. slot'[c] = request /\ OnlySlot(c)
    BY <1>1 DEF SignInInv, Enter, OnlySlot
  <1>3. Harmless /\ password' = password
    BY <1>1, QuietIsHarmless DEF accountRow
  <1>4. SignInTold(slot[c])'
    BY <1>1, <1>2, <1>3 DEF SignInTold
  <1>5. (\A d, e \in Slots : Asking(d) /\ Asking(e) => d = e)'
    <2>1. CASE request.call = "resend"
      BY <1>2, <2>1 DEF AskInv, Asking, OnlySlot
    <2>2. CASE request.call # "resend"
      <3>1. \A d \in Slots : ~Asking(d)
        BY <1>1, <2>2, NobodyAsks
      <3> QED  BY <1>2, <3>1 DEF Asking, OnlySlot
    <2> QED  BY <2>1, <2>2
  <1> QED  BY <1>2, <1>3, <1>4, <1>5, HarmlessStep

\* A step of no request.
LEMMA PageAsks ==
    ASSUME SignInInv, SignInInv', AskInv, UNCHANGED <<slot, password, knew>>, UNCHANGED otpTable
    PROVE  AskInv'
  <1> QED  BY DEF AskInv, Asking, SignInTold, CodesCount, CodeIds, KnewInOrder, otpTable

\* Every step keeps counts and order while one tab asks.
LEMMA NextAsks ==
    ASSUME SignInInv, SignInInv', OneAsks, AskInv, [SignInNext]_signInVars
    PROVE  AskInv'
  <1>1. CASE UNCHANGED signInVars
    BY <1>1, PageAsks DEF signInVars, accountRow, requestVars
  <1>2. CASE SignInNext
    <2>1. ASSUME NEW c \in Slots, SignInStep(c) PROVE AskInv'
      BY <2>1, MailAsks, OtpVoidAsks, OtpInsertAsks, OtpSelectAsks, OtpPassAsks, OtpMissAsks,
         UpdatePasswordAsks DEF SignInStep
    <2>2. ASSUME NEW c \in Slots, NEW t \in account.tabs, Arrives(c, t) PROVE AskInv'
      BY <2>2, ArrivesAsks
    <2>3. ASSUME NEW t, NEW from, NEW to, Link(t, from, to) PROVE AskInv'
      BY <2>3, PageAsks DEF Link, accountRow
    <2>4. ASSUME NEW t, Reload(t) PROVE AskInv'
      BY <2>3, <2>4 DEF Reload
    <2>5. CASE LockChange
      BY <2>5, PageAsks DEF LockChange
    <2> QED  BY <1>2, <2>1, <2>2, <2>3, <2>4, <2>5, CallArrives DEF SignInNext
  <1> QED  BY <1>1, <1>2

\* At the start there are no codes and no older passwords.
LEMMA InitAskInv == SignInInit => AskInv
  <1> SUFFICES ASSUME SignInInit PROVE AskInv
    OBVIOUS
  <1>1. \A c \in Slots : slot[c] = Idle
    BY DEF SignInInit, RequestsInit
  <1>2. knew = <<>> /\ otps = <<>> /\ CodeIds = {} /\ \A i \in 1 .. MaxCodes : passed[i] = 0 /\ missed[i] = 0
    BY DEF SignInInit, SignInStart, CodeIds
  <1>3. \A c \in Slots : ~Asking(c) /\ SignInTold(slot[c])
    BY <1>1 DEF Asking, SignInTold, Idle
  <1>4. CodesCount /\ KnewInOrder
    BY <1>2 DEF CodesCount, KnewInOrder
  <1> QED  BY <1>3, <1>4 DEF AskInv

\* One request at a time, or any number of them from one tab with nothing that dies: what
\* a request has read of the password and of its code still holds when it writes.
THEOREM AskInvariant == SignInSpec => [](OneAsks => AskInv)
  <1>1. SignInInit => (OneAsks => AskInv)
    BY InitAskInv
  <1>2. SignInInv /\ SignInInv' /\ (OneAsks => AskInv) /\ [SignInNext]_signInVars => (OneAsks => AskInv)'
    <2> SUFFICES ASSUME SignInInv, SignInInv', OneAsks => AskInv, [SignInNext]_signInVars, OneAsks'
                 PROVE  AskInv'
      OBVIOUS
    <2>1. UNCHANGED <<account, mode>>
      BY DEF SignInNext, signInVars, requestVars
    <2>2. OneAsks
      BY <2>1 DEF OneAsks, InTurn, Undisturbed
    <2> QED  BY <2>2, NextAsks
  <1> QED  BY <1>1, <1>2, SignInInvariant, PTL DEF SignInSpec

\* A password is changed by somebody who has shown to know the one it replaces.
THEOREM PasswordsFollow == SignInSpec => []PasswordFollowsPassword
  <1>1. SignInInv /\ (OneAsks => AskInv) => PasswordFollowsPassword
    BY DEF PasswordFollowsPassword, AskInv, KnewInOrder
  <1> QED  BY <1>1, SignInInvariant, AskInvariant, PTL

-----------------------------------------------------------------------------
(* In turn: one live code for a purpose. *)

SignInTurnInv ==
    /\ \A c, d \in Slots : slot[c].pc # "idle" /\ slot[d].pc # "idle" => c = d
    /\ \A c \in Slots : slot[c].pc = "otp_insert" => LiveCodes(PurposeOf(c)) = {}
    /\ \A p \in Purposes : \A i, j \in LiveCodes(p) : i = j

\* A step of the one request that makes no code live.
LEMMA ConsumingStep ==
    ASSUME SignInInv, SignInTurnInv, NEW c \in Slots, OnlySlot(c),
           slot[c].pc # "idle" \/ Quiet, slot'[c].pc # "otp_insert",
           \A p \in Purposes : LiveCodes(p)' \subseteq LiveCodes(p)
    PROVE  SignInTurnInv'
  <1>1. \A d \in Slots \ {c} : slot[d].pc = "idle" /\ slot'[d].pc = "idle"
    BY DEF SignInTurnInv, Quiet, At, OnlySlot
  <1>2. (\A d, e \in Slots : slot[d].pc # "idle" /\ slot[e].pc # "idle" => d = e)'
    BY <1>1
  <1>3. (\A d \in Slots : slot[d].pc = "otp_insert" => LiveCodes(PurposeOf(d)) = {})'
    BY <1>1
  <1>4. (\A p \in Purposes : \A i, j \in LiveCodes(p) : i = j)'
    BY DEF SignInTurnInv
  <1> QED  BY <1>2, <1>3, <1>4 DEF SignInTurnInv

\* The statements that leave the codes.
LEMMA MailTurns ==
    ASSUME SignInInv, SignInInv', SignInTurnInv, NEW c \in Slots,
           \/ ResendCount(c) \/ OtpMail(c) \/ Answer(c) \/ NoAnswer(c) \/ SessionRead(c)
           \/ TrustRead(c) \/ RenewedRead(c) \/ OtpSelect(c) \/ updatePassword(c)
    PROVE  SignInTurnInv'
  <1>1. \A p \in Purposes : LiveCodes(p)' = LiveCodes(p)
    BY DEF ResendCount, OtpMail, Answer, NoAnswer, SessionRead, TrustRead, RenewedRead, OtpSelect,
           updatePassword, otpTable, LiveCodes, CodeIds
  <1>2. slot[c].pc # "idle" /\ slot \in [Slots -> AnyRequest]
    BY DEF ResendCount, OtpMail, Answer, NoAnswer, SessionRead, TrustRead, RenewedRead, OtpSelect,
           updatePassword, At, Fail, SignInInv
  <1>30. PICK step \in {"otp_void", "trust_read", "signin_answer", "otp_pass", "otp_miss",
                       "renewed_read"} : \E shows, request :
            \/ slot' = [slot EXCEPT ![c] = Idle]
            \/ slot' = [slot EXCEPT ![c] = request] /\ request.pc = step
            \/ slot' = [slot EXCEPT ![c].pc = step]
            \/ slot' = [slot EXCEPT ![c].pc = step, ![c].shows = shows]
    <2>1. CASE OtpSelect(c) /\ ~Finish(c)
      BY <2>1 DEF OtpSelect, Become
    <2>2. CASE OtpMail(c)
      <3>1. PICK r : r = Request("signin_answer", slot[c].call, slot[c].tab, slot[c].shows)
        OBVIOUS
      <3>2. slot' = [slot EXCEPT ![c] = r] /\ r.pc = "signin_answer"
        BY <2>2, <3>1 DEF OtpMail, Become, Request
      <3> QED  BY <3>2
    <2>3. CASE updatePassword(c)
      BY <2>3 DEF updatePassword, Goto, Continue
    <2>4. CASE RenewedRead(c) \/ SessionRead(c) \/ ResendCount(c)
      BY <2>4 DEF RenewedRead, SessionRead, ResendCount, Goto, Continue, Finish
    <2>5. CASE Answer(c) \/ NoAnswer(c) \/ TrustRead(c) \/ Finish(c)
      BY <2>5 DEF Answer, NoAnswer, TrustRead, Finish, Fail
    <2> QED  BY <2>1, <2>2, <2>3, <2>4, <2>5
  <1>3. PICK shows, request :
            \/ slot' = [slot EXCEPT ![c] = Idle]
            \/ slot' = [slot EXCEPT ![c] = request] /\ request.pc = step
            \/ slot' = [slot EXCEPT ![c].pc = step]
            \/ slot' = [slot EXCEPT ![c].pc = step, ![c].shows = shows]
    BY <1>30
  <1>4. OnlySlot(c)
    BY <1>2, <1>3 DEF OnlySlot
  <1>5. slot'[c].pc # "otp_insert"
    <2>1. CASE slot' = [slot EXCEPT ![c] = Idle]
      BY <1>2, <2>1 DEF Idle
    <2>2. CASE slot' = [slot EXCEPT ![c] = request] /\ request.pc = step
      BY <1>2, <1>30, <2>2
    <2>3. CASE slot' = [slot EXCEPT ![c].pc = step]
      BY <1>2, <1>30, <2>3, SlotFields
    <2>4. CASE slot' = [slot EXCEPT ![c].pc = step, ![c].shows = shows]
      BY <1>2, <1>30, <2>4, SlotFields
    <2> QED  BY <1>3, <2>1, <2>2, <2>3, <2>4
  <1> QED  BY <1>1, <1>2, <1>4, <1>5, ConsumingStep

\* Consuming older codes leaves none of the purpose.
LEMMA OtpVoidTurns ==
    ASSUME SignInInv, SignInInv', SignInTurnInv, NEW c \in Slots, OtpVoid(c)
    PROVE  SignInTurnInv'
  <1>1. slot[c] \in AnyRequest /\ slot[c].pc # "idle" /\ slot \in [Slots -> AnyRequest]
    BY DEF SignInInv, OtpVoid, At
  <1>2. PICK request : request = [slot[c] EXCEPT !.pc = "otp_insert"]
    OBVIOUS
  <1>3. slot'[c] = request /\ OnlySlot(c)
    BY <1>1, <1>2 DEF OtpVoid, Goto, OnlySlot
  <1>4. request.shows = slot[c].shows
    BY <1>2, NextStep DEF OtpVoid
  <1>7. \A p \in Purposes : LiveCodes(p)' \subseteq LiveCodes(p)
    BY OtpVoidRows DEF LiveCodes
  <1>8. LiveCodes(PurposeOf(c))' = {}
    <2>1. PurposeOf(c)' = PurposeOf(c)
      BY <1>3, <1>4 DEF PurposeOf
    <2> QED  BY OtpVoidRows, <2>1 DEF LiveCodes
  <1>9. \A d \in Slots \ {c} : slot'[d].pc = "idle"
    BY <1>1, <1>3 DEF SignInTurnInv, OnlySlot
  <1> QED  BY <1>7, <1>8, <1>9 DEF SignInTurnInv

\* A new code is the only live one of its purpose.
LEMMA OtpInsertTurns ==
    ASSUME SignInInv, SignInInv', SignInTurnInv, NEW c \in Slots, OtpInsert(c)
    PROVE  SignInTurnInv'
  <1>1. PICK code : code = [purpose |-> PurposeOf(c), attempts |-> 0, consumed |-> FALSE]
    OBVIOUS
  <1>2. otps' = Append(otps, code) /\ code.purpose = PurposeOf(c)
    BY <1>1 DEF OtpInsert
  <1>3. otps \in Seq(Code) /\ Len(otps) \in Nat
    BY DEF SignInInv, SignInTables, CodeTypes
  <1>4. code \in Code
    BY <1>1, BoundsAreNumbers DEF Code, PurposeOf, Purposes
  <1>5. /\ CodeIds = 1 .. Len(otps) /\ CodeIds' = 1 .. (Len(otps) + 1)
        /\ \A i \in CodeIds : otps'[i] = otps[i]
        /\ otps'[Len(otps) + 1] = code
    BY <1>2, <1>3, <1>4 DEF CodeIds
  <1>6. \A i \in CodeIds' : i \in CodeIds \/ i = Len(otps) + 1
    BY <1>3, <1>5
  <1>7. slot[c].pc = "otp_insert" /\ LiveCodes(PurposeOf(c)) = {}
    BY DEF SignInTurnInv, OtpInsert, At
  <1>8. ASSUME NEW p \in Purposes, NEW i \in LiveCodes(p)'
        PROVE  \/ i \in LiveCodes(p) /\ p # PurposeOf(c)
               \/ i = Len(otps) + 1 /\ p = PurposeOf(c)
    <2>1. i \in CodeIds' /\ otps'[i].purpose = p /\ ~otps'[i].consumed
      BY <1>8 DEF LiveCodes
    <2>2. CASE i \in CodeIds
      BY <1>5, <1>7, <2>1, <2>2 DEF LiveCodes
    <2>3. CASE i = Len(otps) + 1
      BY <1>2, <1>5, <2>1, <2>3
    <2> QED  BY <1>6, <2>1, <2>2, <2>3
  <1>9. (\A p \in Purposes : \A i, j \in LiveCodes(p) : i = j)'
    BY <1>8 DEF SignInTurnInv
  <1>10. \A d \in Slots \ {c} : slot'[d] = slot[d] /\ slot[d].pc = "idle"
    BY <1>7 DEF SignInTurnInv, OtpInsert, Become
  <1>11. slot'[c].pc = "otp_mail"
    BY DEF OtpInsert, Become, SignInInv
  <1> QED  BY <1>9, <1>10, <1>11 DEF SignInTurnInv

\* A code that was tried has at most been consumed.
LEMMA OtpTryTurns ==
    ASSUME SignInInv, SignInInv', SignInTurnInv, NEW c \in Slots, OtpMiss(c) \/ OtpPass(c)
    PROVE  SignInTurnInv'
  <1>1. slot[c].pc # "idle" /\ slot[c].id \in CodeIds /\ otps[slot[c].id] \in Code
    BY TriedFacts DEF OtpMiss, OtpPass, At
  <1>2. slot'[c].pc # "otp_insert" /\ OnlySlot(c)
    BY DEF OtpMiss, OtpPass, Finish, Become, Request, Idle, OnlySlot, SignInInv
  <1>3. CodeIds' = CodeIds
    BY DEF OtpMiss, OtpPass, CodeIds
  <1>4. \A i \in CodeIds : /\ otps[i].consumed \in BOOLEAN /\ otps'[i].consumed \in BOOLEAN
                           /\ otps'[i].purpose = otps[i].purpose
                           /\ otps[i].consumed => otps'[i].consumed
    <2> SUFFICES ASSUME NEW i \in CodeIds
                 PROVE  /\ otps[i].consumed \in BOOLEAN /\ otps'[i].consumed \in BOOLEAN
                        /\ otps'[i].purpose = otps[i].purpose
                        /\ otps[i].consumed => otps'[i].consumed
      OBVIOUS
    <2>1. otps[i] \in Code
      BY DEF CodeIds, SignInInv, SignInTables, CodeTypes
    <2>2. CASE i # slot[c].id
      <3>1. otps'[i] = otps[i]
        BY <2>2 DEF OtpMiss, OtpPass, CodeIds
      <3> QED  BY <2>1, <3>1 DEF Code
    <2>3. CASE i = slot[c].id /\ OtpPass(c)
      <3>1. otps'[i] = [otps[i] EXCEPT !.consumed = TRUE]
        BY <2>3 DEF OtpPass, CodeIds
      <3> QED  BY <2>1, <3>1 DEF Code
    <2>4. CASE i = slot[c].id /\ OtpMiss(c)
      <3>1. PICK attempts : attempts = slot[c].attempts + 1
        OBVIOUS
      <3>2. PICK tried \in BOOLEAN : tried = (otps[i].consumed \/ attempts >= MAX_ATTEMPTS)
        OBVIOUS
      <3>3. otps'[i] = [otps[i] EXCEPT !.attempts = attempts, !.consumed = tried]
        BY <2>1, <2>4, <3>1, <3>2 DEF OtpMiss, CodeIds, Code
      <3>4. otps'[i].consumed = tried /\ otps'[i].purpose = otps[i].purpose
        BY <2>1, <3>3 DEF Code
      <3> QED  BY <2>1, <3>2, <3>4 DEF Code
    <2> QED  BY <2>2, <2>3, <2>4
  <1>5. \A p \in Purposes : LiveCodes(p)' \subseteq LiveCodes(p)
    BY <1>3, <1>4 DEF LiveCodes
  <1> QED  BY <1>1, <1>2, <1>5, ConsumingStep

\* In turn, a request arrives when no other is in flight.
LEMMA ArrivesTurns ==
    ASSUME SignInInv, SignInTurnInv, InTurn, NEW c \in Slots, NEW t \in account.tabs, Arrives(c, t)
    PROVE  SignInTurnInv'
  <1>1. PICK request : /\ Enter(c, request) /\ request.pc # "otp_insert"
                       /\ UNCHANGED <<accountRow, otpTable, browser>>
    BY DEF Arrives
  <1>2. Quiet /\ slot'[c] = request /\ OnlySlot(c)
    BY <1>1 DEF Enter, OnlySlot, SignInInv
  <1>3. \A p \in Purposes : LiveCodes(p)' = LiveCodes(p)
    BY <1>1 DEF LiveCodes, CodeIds, otpTable
  <1> QED  BY <1>1, <1>2, <1>3, ConsumingStep

\* A step of no request.
LEMMA PageTurns ==
    ASSUME SignInTurnInv, UNCHANGED slot, UNCHANGED otpTable
    PROVE  SignInTurnInv'
  <1> QED  BY DEF SignInTurnInv, LiveCodes, CodeIds, PurposeOf, otpTable

\* Every step keeps one live code for a purpose, in turn.
LEMMA NextTurns ==
    ASSUME SignInInv, SignInInv', InTurn, SignInTurnInv, [SignInNext]_signInVars
    PROVE  SignInTurnInv'
  <1>1. CASE UNCHANGED signInVars
    BY <1>1, PageTurns DEF signInVars, requestVars
  <1>2. CASE SignInNext
    <2>1. ASSUME NEW c \in Slots, SignInStep(c) PROVE SignInTurnInv'
      BY <2>1, MailTurns, OtpVoidTurns, OtpInsertTurns, OtpTryTurns DEF SignInStep
    <2>2. ASSUME NEW c \in Slots, NEW t \in account.tabs, Arrives(c, t) PROVE SignInTurnInv'
      BY <2>2, ArrivesTurns
    <2>3. ASSUME NEW t, NEW from, NEW to, Link(t, from, to) PROVE SignInTurnInv'
      BY <2>3, PageTurns DEF Link
    <2>4. ASSUME NEW t, Reload(t) PROVE SignInTurnInv'
      BY <2>3, <2>4 DEF Reload
    <2>5. CASE LockChange
      BY <2>5, PageTurns DEF LockChange
    <2> QED  BY <1>2, <2>1, <2>2, <2>3, <2>4, <2>5, CallArrives DEF SignInNext
  <1> QED  BY <1>1, <1>2

\* One request after the other: when a code is inserted the earlier ones of its purpose
\* are consumed, so that one is live at most, whatever has died on the way.
THEOREM SignInTurnInvariant == SignInSpec => [](InTurn => SignInTurnInv)
  <1>1. SignInInit => (InTurn => SignInTurnInv)
    <2> SUFFICES ASSUME SignInInit PROVE SignInTurnInv
      OBVIOUS
    <2>1. \A c \in Slots : slot[c] = Idle
      BY DEF SignInInit, RequestsInit
    <2>2. CodeIds = {}
      BY DEF SignInInit, SignInStart, CodeIds
    <2> QED  BY <2>1, <2>2 DEF SignInTurnInv, Idle, LiveCodes
  <1>2. SignInInv /\ SignInInv' /\ (InTurn => SignInTurnInv) /\ [SignInNext]_signInVars => (InTurn => SignInTurnInv)'
    <2>1. [SignInNext]_signInVars => UNCHANGED mode
      BY DEF SignInNext, signInVars, requestVars
    <2> QED  BY <2>1, NextTurns DEF InTurn
  <1> QED  BY <1>1, <1>2, SignInInvariant, PTL DEF SignInSpec

\* A code lets in once and is consumed by its last wrong try; in turn one is live.
THEOREM CodesStaySpent == SignInSpec => []CodesAreSpent
  <1>1. SignInInv /\ (OneAsks => AskInv) /\ (InTurn => SignInTurnInv) => CodesAreSpent
    <2> SUFFICES ASSUME SignInInv, OneAsks => AskInv, InTurn => SignInTurnInv PROVE CodesAreSpent
      OBVIOUS
    <2>1. /\ Len(otps) \in Nat /\ Len(otps) <= MaxCodes /\ CodeIds = 1 .. Len(otps)
          /\ otps \in [CodeIds -> Code]
      BY DEF SignInInv, SignInTables, CodeTypes, CodeIds
    <2>2. ASSUME OneAsks, NEW i \in CodeIds PROVE passed[i] <= 1 /\ missed[i] <= MAX_ATTEMPTS
      <3>1. i \in 1 .. MaxCodes /\ otps[i] \in Code
        BY <2>1, BoundsAreNumbers
      <3>2. passed[i] <= 1 /\ missed[i] = otps[i].attempts
        BY <2>2, <3>1 DEF AskInv, CodesCount
      <3> QED  BY <3>1, <3>2, BoundsAreNumbers DEF Code
    <2>3. ASSUME InTurn, NEW p \in Purposes PROVE Cardinality(LiveCodes(p)) <= 1
      <3>1. \A i, j \in LiveCodes(p) : i = j
        BY <2>3 DEF SignInTurnInv
      <3>2. CASE LiveCodes(p) = {}
        BY <3>2, FS_EmptySet
      <3>3. CASE LiveCodes(p) # {}
        <4>1. PICK i : LiveCodes(p) = {i}
          BY <3>1, <3>3
        <4> QED  BY <4>1, FS_Singleton
      <3> QED  BY <3>2, <3>3
    <2> QED  BY <2>2, <2>3 DEF CodesAreSpent
  <1> QED  BY <1>1, SignInInvariant, AskInvariant, SignInTurnInvariant, PTL

-----------------------------------------------------------------------------
(* The desks together.                                                      *)

\* A behaviour of Offices stays at its desk, and is a behaviour of it: it starts as the desk
\* may, and every step is one of the desk's or leaves the desk as it is.
THEOREM OfficesAreDesks ==
    OfficesSpec =>
        /\ desk \in Desks /\ mode \in Modes
        /\ [][UNCHANGED <<desk, mode>>]_officesVars
        /\ desk = "reader votes" => ReaderSpec
        /\ desk = "disputes" => DisputeSpec
        /\ desk = "series" => OfficeSpec
        /\ desk = "sign in" => SignInSpec
        /\ desk = "drawing" => DrawingSpec
  <1>1. OfficesInit => /\ desk \in Desks /\ mode \in Modes
                       /\ desk = "reader votes" => ReaderInit
                       /\ desk = "disputes" => DisputeInit
                       /\ desk = "series" => OfficeInit
                       /\ desk = "sign in" => SignInInit
                       /\ desk = "drawing" => DrawingInit
    BY DEF OfficesInit, RequestsInit, Set, ReaderInit, DisputeInit, OfficeInit, SignInInit, DrawingInit
  <1>2. [OfficesNext]_officesVars => [UNCHANGED <<desk, mode>>]_officesVars
    BY DEF OfficesNext, ReaderNext, DisputeNext, OfficeNext, SignInNext, DrawingNext
  <1>3. desk = "reader votes" /\ [OfficesNext]_officesVars
           => [ReaderNext]_readerVars /\ (desk = "reader votes")'
    BY DEF OfficesNext, officesVars, readerDesk, readerVars
  <1>4. desk = "disputes" /\ [OfficesNext]_officesVars
           => [DisputeNext]_disputeVars /\ (desk = "disputes")'
    BY DEF OfficesNext, officesVars, disputeDesk, disputeVars
  <1>5. desk = "series" /\ [OfficesNext]_officesVars
           => [OfficeNext]_officeVars /\ (desk = "series")'
    BY DEF OfficesNext, officesVars, seriesDesk, officeVars
  <1>6. desk = "sign in" /\ [OfficesNext]_officesVars
           => [SignInNext]_signInVars /\ (desk = "sign in")'
    BY DEF OfficesNext, officesVars, signInDesk, signInVars
  <1>7. desk = "drawing" /\ [OfficesNext]_officesVars
           => [DrawingNext]_drawingVars /\ (desk = "drawing")'
    BY DEF OfficesNext, officesVars, drawingDesk, drawingVars
  <1> QED  BY <1>1, <1>2, <1>3, <1>4, <1>5, <1>6, <1>7, PTL
              DEF OfficesSpec, ReaderSpec, DisputeSpec, OfficeSpec, SignInSpec, DrawingSpec

\* The desk that is used keeps to its types, for any number of desks' people, rows and edits.
THEOREM OfficesTypes == OfficesSpec => []OfficesTypeOK
  <1>1. desk \in Desks /\ mode \in Modes /\ [UNCHANGED <<desk, mode>>]_officesVars
           => (desk \in Desks /\ mode \in Modes)'
    BY DEF officesVars, requestVars
  <1>2. ASSUME NEW d PROVE ~(desk = d) /\ [UNCHANGED <<desk, mode>>]_officesVars => (~(desk = d))'
    BY DEF officesVars
  <1>3. OfficesSpec => [](desk = "reader votes" => ReaderTypeOK)
    <2>1. ~(desk = "reader votes") /\ [UNCHANGED <<desk, mode>>]_officesVars => (~(desk = "reader votes"))'
      BY <1>2
    <2> QED  BY <2>1, OfficesAreDesks, ReaderTypes, PTL
  <1>4. OfficesSpec => [](desk = "disputes" => DisputeTypeOK)
    <2>1. ~(desk = "disputes") /\ [UNCHANGED <<desk, mode>>]_officesVars => (~(desk = "disputes"))'
      BY <1>2
    <2> QED  BY <2>1, OfficesAreDesks, DisputeTypes, PTL
  <1>5. OfficesSpec => [](desk = "series" => OfficeTypeOK)
    <2>1. ~(desk = "series") /\ [UNCHANGED <<desk, mode>>]_officesVars => (~(desk = "series"))'
      BY <1>2
    <2> QED  BY <2>1, OfficesAreDesks, OfficeTypes, PTL
  <1>6. OfficesSpec => [](desk = "sign in" => SignInTypeOK)
    <2>1. ~(desk = "sign in") /\ [UNCHANGED <<desk, mode>>]_officesVars => (~(desk = "sign in"))'
      BY <1>2
    <2> QED  BY <2>1, OfficesAreDesks, SignInTypes, PTL
  <1>7. OfficesSpec => [](desk = "drawing" => DrawingTypeOK)
    <2>1. ~(desk = "drawing") /\ [UNCHANGED <<desk, mode>>]_officesVars => (~(desk = "drawing"))'
      BY <1>2
    <2> QED  BY <2>1, OfficesAreDesks, DrawingTypes, PTL
  <1> QED  BY <1>1, <1>3, <1>4, <1>5, <1>6, <1>7, OfficesAreDesks, PTL DEF OfficesTypeOK

-----------------------------------------------------------------------------
(* What the pages of the desks offer.                                       *)

\* What the pages rely on, whichever desk is used.
PagesRely ==
    /\ role \in [Users -> Role \cup {Nobody}]
    /\ editing \subseteq Proposals \X Users
    /\ office.clerks \subseteq Clerks
    /\ SelectsInv

\* The desk of the series, when nobody comes to it.
Untouched ==
    /\ role \in [Users -> Role \cup {Nobody}]
    /\ editing = {}
    /\ savingSeries = [k \in Clerks |-> 0]
    /\ office \in OfficeScenes

\* The desks do what the pages rely on.
LEMMA DesksRely == OfficesSpec => []PagesRely
  <1>1. OfficesInit => Untouched
    BY OfficeAssumption DEF OfficesInit, OfficeStart, Untouched
  <1>2. ~(desk = "series") /\ Untouched /\ [OfficesNext]_officesVars
           => (~(desk = "series") /\ Untouched)'
    BY DEF OfficesNext, officesVars, seriesDesk, officeTables, accountTables, editorTables, Untouched
  <1>3. Untouched => PagesRely
    BY OfficeAssumption DEF Untouched, PagesRely, SelectsInv, SelectsWaited, EditsPublished
  <1>4. OfficeInv /\ SelectsInv => PagesRely
    <2> SUFFICES ASSUME OfficeInv, SelectsInv PROVE PagesRely
      OBVIOUS
    <2>1. office.clerks \subseteq Clerks
      BY OfficeAssumption DEF OfficeInv
    <2> QED  BY <2>1 DEF PagesRely, OfficeInv, OfficeTables, OfficeTableTypes
  <1>5. OfficesInit => (desk = "series" \/ Untouched)
    BY <1>1
  <1>6. OfficesSpec /\ desk = "series" => []PagesRely
    BY <1>4, OfficesAreDesks, OfficeInvariant, SelectsComeBack, PTL
  <1>7. OfficesSpec /\ ~(desk = "series") => []PagesRely
    BY <1>1, <1>2, <1>3, PTL DEF OfficesSpec
  <1> QED  BY <1>6, <1>7, PTL

\* The buttons of a mangaka.
LEMMA MangakaButtons ==
    ASSUME NEW u \in Mangakas, NEW o \in MangakaPages(u)
    PROVE  DeskAccepts(o)
  <1> USE DEF Mangakas
  <1>1. CASE o \in ProposalForm(u)
    <2>1. PICK file \in BOOLEAN : o = <<"propose", u, file>>
      BY <1>1 DEF ProposalForm
    <2> QED  BY <2>1 DEF DeskAccepts
  <1>2. ASSUME NEW p \in MyProposals(u), o \in ProposalButtons(u, p) PROVE DeskAccepts(o)
    <2>1. proposal[p].by = u /\ proposal[p].status = "DRAFT"
      BY <1>2 DEF MyProposals, ProposalButtons
    <2>2. CASE o = <<"sample", u, p>>
      BY <2>1, <2>2 DEF DeskAccepts, takesSample
    <2>3. CASE o = <<"submit", u, p>> /\ proposal[p].sample
      BY <2>1, <2>3 DEF DeskAccepts, maySubmit, canTransition, PROPOSAL_TRANSITIONS
    <2> QED  BY <1>2, <2>2, <2>3 DEF ProposalButtons, SubmitButton
  <1>3. ASSUME NEW p \in MySeries(u), o \in ChapterForm(u, p) PROVE DeskAccepts(o)
    <2>1. o = <<"chapter", u, p>> /\ proposal[p].by = u
      BY <1>3 DEF MySeries, ChapterForm
    <2> QED  BY <2>1 DEF DeskAccepts, mayAddChapter
  <1> QED  BY <1>1, <1>2, <1>3 DEF MangakaPages

\* The buttons of the board.
LEMMA BoardButtons ==
    ASSUME PagesRely, NEW o \in BoardPages
    PROVE  MayBeRefused(o) \/ DeskAccepts(o)
  <1>1. ASSUME NEW p \in ProposalQueue, o \in ReviewButtons(p) PROVE DeskAccepts(o)
    <2>1. CASE proposal[p].status = "SUBMITTED"
      <3>1. o = <<"start", p>>
        BY <1>1, <2>1 DEF ReviewButtons, StartButton
      <3> QED  BY <2>1, <3>1 DEF DeskAccepts, mayStart, canTransition, PROPOSAL_TRANSITIONS
    <2>2. CASE proposal[p].status = "UNDER_REVIEW"
      <3>1. PICK d \in {"APPROVED", "REJECTED"} : o = <<"decide", p, d>>
        BY <1>1, <2>2 DEF ReviewButtons, DecisionButtons
      <3> QED  BY <2>2, <3>1 DEF DeskAccepts, mayDecide, canTransition, PROPOSAL_TRANSITIONS
    <2> QED  BY <2>1, <2>2 DEF ProposalQueue
  <1>2. ASSUME NEW entry \in SeriesRows, o \in EditorSelect(entry) PROVE DeskAccepts(o)
    <2>1. CASE \E u \in Editors : o = <<"editor", entry[1], u>>
      BY <2>1 DEF Editors, DeskAccepts
    <2>2. CASE entry[2] \in Editors /\ o = <<"no editor", entry[1]>>
      <3>1. entry[1] \in Published
        BY <1>2 DEF SeriesRows, PagesRely, SelectsInv, EditsPublished
      <3> QED  BY <2>2, <3>1 DEF DeskAccepts
    <2> QED  BY <1>2, <2>1, <2>2 DEF EditorSelect
  <1>3. ASSUME NEW p \in Published, o \in DecisionForm(p) PROVE DeskAccepts(o)
    <2>1. o = <<"decision", p>>
      BY <1>3 DEF DecisionForm
    <2> QED  BY <2>1 DEF DeskAccepts
  <1>4. CASE o \in ImportForm
    BY <1>4 DEF ImportForm, MayBeRefused
  <1>5. ASSUME NEW m \in active, NEW i \in PendingDeletions, o \in DeletionButton(m, i)
        PROVE  DeskAccepts(o)
    <2>1. o = <<"approve", m, i>> /\ canCurrentUserApprove(m, i)
      BY <1>5 DEF DeletionButton
    <2> QED  BY <2>1 DEF PendingDeletions, canCurrentUserApprove, DeskAccepts, mayApprove
  <1> QED  BY <1>1, <1>2, <1>3, <1>4, <1>5 DEF BoardPages, DeletionButtons

\* The form of an editor.
LEMMA EditorButtons ==
    ASSUME NEW u \in Editors, NEW o \in EditorPages(u)
    PROVE  DeskAccepts(o)
  <1>1. PICK p \in DossierLinks(u) : o = <<"report", p, u>> /\ assertActiveEditorForSeries(p, u)
    BY DEF EditorPages, ReportForm
  <1> QED  BY <1>1 DEF DeskAccepts, Editors

\* The buttons of an assistant.
LEMMA AssistantButtons ==
    ASSUME NEW o \in AssistantPages
    PROVE  DeskAccepts(o)
  <1>1. PICK t \in Undisputed : o = <<"file", t>>
    BY DEF AssistantPages, DisputeButton
  <1> QED  BY <1>1 DEF Undisputed, DeskAccepts

\* The buttons of the admin.
LEMMA AdminButtons ==
    ASSUME PagesRely, NEW o \in AdminPages
    PROVE  MayBeRefused(o) \/ DeskAccepts(o)
  <1>1. CASE o \in UserForm
    <2>1. PICK u \in Users, r \in creatableRoles : u \notin Accounts /\ o = <<"user", u, r>>
      BY <1>1 DEF UserForm
    <2> QED  BY <2>1 DEF Accounts, DeskAccepts, mayCreateUser
  <1>2. ASSUME NEW u \in Accounts, o \in UserRow(u) PROVE MayBeRefused(o) \/ DeskAccepts(o)
    <2>1. role[u] \in creatableRoles
      BY <1>2 DEF PagesRely, Accounts, UserRow, creatableRoles
    <2>2. CASE o = <<"lock", u>>
      BY <2>1, <2>2 DEF DeskAccepts, mayLock
    <2>3. ASSUME NEW r \in creatableRoles \ {role[u]}, o = <<"role", u, r>>
          PROVE  MayBeRefused(o) \/ DeskAccepts(o)
      <3>1. CASE ~assertRoleTransitionAllowed(u)
        BY <2>3, <3>1 DEF MayBeRefused
      <3>2. CASE assertRoleTransitionAllowed(u)
        BY <2>1, <2>3, <3>2 DEF DeskAccepts, mayChangeRole
      <3> QED  BY <3>1, <3>2
    <2> QED  BY <1>2, <2>2, <2>3 DEF UserRow
  <1>3. ASSUME NEW i \in Filed, o \in DisputeButtons(i) PROVE DeskAccepts(o)
    <2>1. CASE dispute[i].status = "OPEN" /\ o = <<"review", i>>
      BY <2>1 DEF DeskAccepts, mayBecome, canTransition, EARNING_DISPUTE_TRANSITIONS
    <2>2. ASSUME NEW to \in {"RESOLVED", "REJECTED"}, o = <<"settle", i, to>>,
                 dispute[i].status \in {"OPEN", "UNDER_REVIEW"}
          PROVE  DeskAccepts(o)
      BY <2>2 DEF DeskAccepts, mayBecome, canTransition, EARNING_DISPUTE_TRANSITIONS
    <2> QED  BY <1>3, <2>1, <2>2 DEF DisputeButtons
  <1> QED  BY <1>1, <1>2, <1>3 DEF AdminPages

\* What the handlers of the series desk accept is offered.
LEMMA SeriesIsOffered ==
    ASSUME PagesRely, desk = "series", NEW o \in SeriesRequests, DeskAccepts(o)
    PROVE  o \in DeskOffers
  <1>1. DeskOffers = BoardPages \cup AdminPages
                         \cup (UNION {MangakaPages(u) : u \in Mangakas})
                         \cup (UNION {EditorPages(u) : u \in Editors})
    BY DEF DeskOffers
  <1>2. ASSUME NEW u \in Users, NEW file \in BOOLEAN, o = <<"propose", u, file>>
        PROVE  o \in DeskOffers
    <2>1. u \in Mangakas
      BY <1>2 DEF DeskAccepts, Mangakas
    <2>2. o \in MangakaPages(u)
      BY <1>2 DEF MangakaPages, ProposalForm
    <2> QED  BY <1>1, <2>1, <2>2
  <1>3. ASSUME NEW u \in Users, NEW p \in Proposed, o = <<"sample", u, p>> PROVE o \in DeskOffers
    <2>1. u \in Mangakas /\ takesSample(u, p)
      BY <1>3 DEF DeskAccepts, Mangakas
    <2>2. o \in ProposalButtons(u, p) /\ p \in MyProposals(u)
      BY <1>3, <2>1 DEF takesSample, ProposalButtons, MyProposals
    <2> QED  BY <1>1, <2>1, <2>2 DEF MangakaPages
  <1>4. ASSUME NEW u \in Users, NEW p \in Proposed, o = <<"submit", u, p>> PROVE o \in DeskOffers
    <2>1. u \in Mangakas /\ proposal[p].by = u /\ proposal[p].status = "DRAFT" /\ proposal[p].sample
      BY <1>4 DEF DeskAccepts, maySubmit, canTransition, PROPOSAL_TRANSITIONS, Mangakas
    <2>2. o \in ProposalButtons(u, p) /\ p \in MyProposals(u)
      BY <1>4, <2>1 DEF ProposalButtons, SubmitButton, MyProposals
    <2> QED  BY <1>1, <2>1, <2>2 DEF MangakaPages
  <1>5. ASSUME NEW u \in Users, NEW p \in Published, o = <<"chapter", u, p>> PROVE o \in DeskOffers
    <2>1. u \in Mangakas /\ p \in MySeries(u)
      BY <1>5 DEF DeskAccepts, mayAddChapter, MySeries, Mangakas
    <2>2. o \in MangakaPages(u)
      BY <1>5, <2>1 DEF MangakaPages, ChapterForm
    <2> QED  BY <1>1, <2>1, <2>2
  <1>6. ASSUME NEW p \in Proposed, o = <<"start", p>> PROVE o \in DeskOffers
    <2>1. proposal[p].status = "SUBMITTED"
      BY <1>6 DEF DeskAccepts, mayStart, canTransition, PROPOSAL_TRANSITIONS
    <2>2. o \in ReviewButtons(p) /\ p \in ProposalQueue
      BY <1>6, <2>1 DEF ReviewButtons, StartButton, ProposalQueue
    <2> QED  BY <1>1, <2>2 DEF BoardPages
  <1>7. ASSUME NEW p \in Proposed, NEW d \in {"APPROVED", "REJECTED"}, o = <<"decide", p, d>>
        PROVE  o \in DeskOffers
    <2>1. proposal[p].status = "UNDER_REVIEW"
      BY <1>7 DEF DeskAccepts, mayDecide
    <2>2. o \in ReviewButtons(p) /\ p \in ProposalQueue
      BY <1>7, <2>1 DEF ReviewButtons, DecisionButtons, ProposalQueue
    <2> QED  BY <1>1, <2>2 DEF BoardPages
  <1>8. ASSUME NEW p \in Published, NEW u \in Users, \A q \in Published : <<q, u>> \notin editing,
               o = <<"editor", p, u>>
        PROVE  o \in DeskOffers
    <2>1. u \in Editors /\ ~(u = Nobody)
      BY <1>8, OfficeAssumption DEF DeskAccepts, Editors
    <2>2. PICK entry \in SeriesRows : entry[1] = p /\ ~(entry[2] = u)
      <3>1. CASE \A v \in Users : <<p, v>> \notin editing
        <4>1. <<p, Nobody>> \in SeriesRows
          BY <3>1 DEF SeriesRows
        <4> QED  BY <2>1, <4>1
      <3>2. ASSUME NEW v \in Users, <<p, v>> \in editing
            PROVE  \E e \in SeriesRows : e[1] = p /\ ~(e[2] = u)
        <4>1. ~(v = u)
          BY <1>8, <3>2
        <4> QED  BY <3>2, <4>1 DEF SeriesRows
      <3> QED  BY <3>1, <3>2
    <2>3. o \in EditorSelect(entry)
      BY <1>8, <2>1, <2>2 DEF EditorSelect
    <2> QED  BY <1>1, <2>3 DEF BoardPages
  <1>9. ASSUME NEW p \in Published, NEW u \in Users, o = <<"report", p, u>> PROVE o \in DeskOffers
    <2>1. u \in Editors /\ assertActiveEditorForSeries(p, u)
      BY <1>9 DEF DeskAccepts, Editors
    <2>2. p \in DossierLinks(u)
      BY <2>1 DEF assertActiveEditorForSeries, DossierLinks, ManagedSeries
    <2>3. o \in EditorPages(u)
      BY <1>9, <2>1, <2>2 DEF EditorPages, ReportForm
    <2> QED  BY <1>1, <2>1, <2>3
  <1>10. ASSUME NEW u \in Users, NEW r \in Role, o = <<"user", u, r>> PROVE o \in DeskOffers
    <2>1. role[u] = Nobody /\ r \in creatableRoles
      BY <1>10 DEF DeskAccepts, mayCreateUser
    <2>2. o \in UserForm
      BY <1>10, <2>1 DEF UserForm, Accounts
    <2> QED  BY <1>1, <2>2 DEF AdminPages
  <1>11. ASSUME NEW u \in Users, NEW r \in Role, o = <<"role", u, r>> PROVE o \in DeskOffers
    <2>1. role[u] \in creatableRoles \ {r} /\ r \in creatableRoles
      BY <1>11 DEF DeskAccepts, mayChangeRole
    <2>2. o \in UserRow(u) /\ u \in Accounts
      BY <1>11, <2>1 DEF UserRow, Accounts, creatableRoles, Role, Nobody
    <2> QED  BY <1>1, <2>2 DEF AdminPages
  <1>12. ASSUME NEW u \in Users, o = <<"lock", u>> PROVE o \in DeskOffers
    <2>1. role[u] \in creatableRoles
      BY <1>12 DEF DeskAccepts, mayLock
    <2>2. o \in UserRow(u) /\ u \in Accounts
      BY <1>12, <2>1 DEF UserRow, Accounts, creatableRoles, Role, Nobody
    <2> QED  BY <1>1, <2>2 DEF AdminPages
  <1> QED  BY <1>2, <1>3, <1>4, <1>5, <1>6, <1>7, <1>8, <1>9, <1>10, <1>11, <1>12 DEF SeriesRequests

\* What the handlers of the reader votes accept is offered.
LEMMA ReaderIsOffered ==
    ASSUME NEW o \in ReaderRequests, DeskAccepts(o)
    PROVE  o \in BoardPages
  <1>1. ASSUME NEW start \in Weeks, o = <<"import", start>> PROVE o \in BoardPages
    <2>1. Conflicts(start) = {}
      BY <1>1 DEF DeskAccepts
    <2>2. Overlaps(start, start)
      <3>1. start \in Int
        BY ReaderVotesAssumption
      <3> QED  BY <3>1 DEF Overlaps, EndOf
    <2>3. activeImportForSelectedPeriod(start) = {}
      BY <2>1, <2>2 DEF Conflicts, activeImportForSelectedPeriod, ImportHistory, Made
    <2> QED  BY <1>1, <2>3 DEF BoardPages, ImportForm
  <1>2. ASSUME NEW m \in active, NEW i \in Made, approval[i] = {}, o = <<"approve", m, i>>
        PROVE  o \in BoardPages
    <2>1. Live(i) /\ mayApprove(m, i)
      BY <1>2 DEF DeskAccepts
    <2>2. i \in PendingDeletions /\ o \in DeletionButton(m, i)
      BY <1>2, <2>1 DEF PendingDeletions, DeletionButton, canCurrentUserApprove, mayApprove
    <2>3. o \in DeletionButtons(m)
      BY <2>2 DEF DeletionButtons
    <2> QED  BY <2>3 DEF BoardPages
  <1>3. CASE o \in {<<"approve", m, i>> : m \in active, i \in {j \in Made : approval[j] = {}}}
    <2>1. PICK m \in active, i \in {j \in Made : approval[j] = {}} : o = <<"approve", m, i>>
      BY <1>3
    <2>2. i \in Made /\ approval[i] = {}
      OBVIOUS
    <2> QED  BY <1>2, <2>1, <2>2
  <1>4. CASE o \in {<<"import", start>> : start \in Weeks}
    BY <1>1, <1>4
  <1> QED  BY <1>3, <1>4 DEF ReaderRequests

\* What the handlers of the disputes accept is offered.
LEMMA DisputeIsOffered ==
    ASSUME NEW o \in DisputeRequests, DeskAccepts(o)
    PROVE  o \in AdminPages
  <1>1. ASSUME NEW i \in Filed, o = <<"review", i>> PROVE o \in AdminPages
    <2>1. dispute[i].status = "OPEN"
      BY <1>1 DEF DeskAccepts, mayBecome, canTransition, EARNING_DISPUTE_TRANSITIONS
    <2> QED  BY <1>1, <2>1 DEF AdminPages, DisputeButtons
  <1>2. ASSUME NEW i \in Filed, NEW to \in {"RESOLVED", "REJECTED"}, o = <<"settle", i, to>>
        PROVE  o \in AdminPages
    <2>1. dispute[i].status \in {"OPEN", "UNDER_REVIEW"}
      BY <1>2 DEF DeskAccepts, mayBecome, canTransition, EARNING_DISPUTE_TRANSITIONS
    <2>2. o \in DisputeButtons(i)
      BY <1>2, <2>1 DEF DisputeButtons
    <2> QED  BY <2>2 DEF AdminPages
  <1> QED  BY <1>1, <1>2 DEF DisputeRequests

\* The pages of the desks offer what the handlers accept, and no more than the history of
\* an account and the weeks of the imports may refuse; a select that waits has a request
\* in flight: at any moment, and for any people, proposals, imports and disputes.
THEOREM DeskOffersAreAccepted == OfficesSpec => []DesksOfferWhatIsAccepted
  <1>1. PagesRely => DesksOfferWhatIsAccepted
    <2> SUFFICES ASSUME PagesRely PROVE DesksOfferWhatIsAccepted
      OBVIOUS
    <2>1. ASSUME NEW o \in DeskOffers PROVE MayBeRefused(o) \/ DeskAccepts(o)
      <3>1. CASE desk = "series"
        <4>1. CASE o \in BoardPages \cup AdminPages
          BY <4>1, BoardButtons, AdminButtons
        <4>2. ASSUME NEW u \in Mangakas, o \in MangakaPages(u) PROVE DeskAccepts(o)
          BY <4>2, MangakaButtons
        <4>3. ASSUME NEW u \in Editors, o \in EditorPages(u) PROVE DeskAccepts(o)
          BY <4>3, EditorButtons
        <4> QED  BY <2>1, <3>1, <4>1, <4>2, <4>3 DEF DeskOffers
      <3>2. CASE desk = "reader votes"
        BY <2>1, <3>2, BoardButtons DEF DeskOffers
      <3>3. CASE desk = "disputes"
        BY <2>1, <3>3, AssistantButtons, AdminButtons DEF DeskOffers
      <3> QED  BY <2>1, <3>1, <3>2, <3>3 DEF DeskOffers
    <2>2. ASSUME NEW o \in DeskRequests, DeskAccepts(o) PROVE o \in DeskOffers
      <3>1. CASE desk = "series"
        BY <2>2, <3>1, SeriesIsOffered DEF DeskRequests
      <3>2. CASE desk = "reader votes"
        BY <2>2, <3>2, ReaderIsOffered DEF DeskRequests, DeskOffers
      <3>3. CASE desk = "disputes"
        BY <2>2, <3>3, DisputeIsOffered DEF DeskRequests, DeskOffers
      <3> QED  BY <2>2, <3>1, <3>2, <3>3 DEF DeskRequests
    <2>3. ASSUME Quiet, NEW k \in office.clerks, NEW p \in Proposals PROVE SelectEnabled(k, p)
      <3>1. \A c \in Slots : ~Clerical(c)
        BY <2>3 DEF Quiet, At, Clerical, ClerkSteps
      <3>2. savingSeries[k] = 0
        BY <3>1 DEF PagesRely, SelectsInv, SelectsWaited
      <3>3. ~(p = 0)
        BY OfficeAssumption DEF Proposals
      <3> QED  BY <3>2, <3>3 DEF SelectEnabled
    <2> QED  BY <2>1, <2>2, <2>3 DEF DesksOfferWhatIsAccepted
  <1> QED  BY <1>1, DesksRely, PTL
=============================================================================
