------------------------------ MODULE Disputes ------------------------------
(***************************************************************************)
(* Disputes about the payment of an approved task (disputes/, earnings/),  *)
(* with the page on which an assistant files one                           *)
(* (pages/assistant/Earnings.tsx) and the page on which the admins settle  *)
(* them (pages/admin/Disputes.tsx).  There is one assistant with one tab,  *)
(* and one tab for every admin.  A tab may leave its page and open it      *)
(* again at any moment, also while a request is in flight; the new page    *)
(* knows nothing of the requests of the old one.  Reasons, notes and the   *)
(* expected amount are left out; an amount is a number of the smallest     *)
(* unit, 0 also stands for NULL.                                           *)
(***************************************************************************)
EXTENDS Requests, Transitions, FiniteSetsExt

CONSTANTS
    Paid,           \* the tasks of the assistant
    Amounts,        \* bound: the payments a task may have
    Admins,         \* users with the role ADMIN
    MaxDisputes,    \* bound: disputes ever filed
    DisputeScenes   \* bound: the mode, the admins and the disputes a behaviour may have

\* No task: the row of a dispute that has not been filed.
NoTask == "NO TASK"

ASSUME DisputesAssumption ==
    /\ IsFiniteSet(Paid) /\ NoTask \notin Paid
    /\ IsFiniteSet(Admins)
    /\ Amounts \subseteq Nat
    /\ MaxDisputes \in Nat
    /\ DisputeScenes \subseteq [mode : Modes, admins : SUBSET Admins, room : 0 .. MaxDisputes]

VARIABLES
    payment,        \* [Paid -> payment_amount]
    earned,         \* the tasks with task_status = 'APPROVED'
    total,          \* Assistant_Profile.total_earnings
    dispute,        \* [DisputeIds -> Earning_Dispute: its task and status]
    ledger,         \* the tasks with hasDispute = 0 on the page of the assistant
    list,           \* [Admins -> [DisputeIds -> the status on the page of the admin]]
    savingId,       \* [Admins -> the dispute whose buttons wait for an answer, or 0]
    admins,         \* the admins this behaviour has; it never changes
    room,           \* bound: the disputes this behaviour may file; it never changes
    leftTasks,      \* history: the tasks whose page was left while their dispute was filed
    leftDisputes    \* history: the disputes whose page was left while they were settled

disputeTables == <<payment, earned, total, dispute>>
disputePages == <<ledger, list, savingId>>
disputeHistory == <<leftTasks, leftDisputes>>
disputeScene == <<admins, room>>
disputeVars == <<disputeTables, disputePages, disputeHistory, disputeScene, requestVars>>

DisputeIds == 1 .. MaxDisputes
NoDispute == [task |-> NoTask, status |-> Absent]
EarningDisputeStatus == {"OPEN", "UNDER_REVIEW", "RESOLVED", "REJECTED"}

DisputeSteps == {"idle", "file_insert", "file_answer", "review_write", "settle_select",
                 "settle_commit", "settle_answer"}

DisputeTypeOK ==
    /\ payment \in [Paid -> Amounts]
    /\ earned \subseteq Paid
    /\ total \in Int
    /\ dispute \in [DisputeIds -> [task : Paid \cup {NoTask},
                                   status : EarningDisputeStatus \cup {Absent}]]
    /\ ledger \subseteq Paid
    /\ list \in [Admins -> [DisputeIds -> EarningDisputeStatus \cup {Absent}]]
    /\ savingId \in [Admins -> DisputeIds \cup {0}]
    /\ admins \subseteq Admins /\ room \in 0 .. MaxDisputes
    /\ leftTasks \subseteq Paid
    /\ leftDisputes \subseteq DisputeIds
    /\ \A c \in Slots : slot[c].pc \in DisputeSteps

DisputeStart(s) ==
    /\ admins = s.admins /\ room = s.room
    /\ payment \in [Paid -> Amounts]
    /\ earned = {}
    /\ total = 0
    /\ dispute = [i \in DisputeIds |-> NoDispute]
    /\ ledger = {}
    /\ list = [a \in Admins |-> [i \in DisputeIds |-> Absent]]
    /\ savingId = [a \in Admins |-> 0]
    /\ leftTasks = {}
    /\ leftDisputes = {}

DisputeInit == RequestsInit /\ \E s \in DisputeScenes : mode = s.mode /\ DisputeStart(s)

Filed == {i \in DisputeIds : dispute[i].task # NoTask}
DisputesOf(t) == {i \in Filed : dispute[i].task = t}

\* A page is left and opened again: no answer to these requests reaches a page any more.
LeavePage(requests) ==
    slot' = [c \in Slots |-> IF c \in requests THEN [slot[c] EXCEPT !.shown = FALSE] ELSE slot[c]]

-----------------------------------------------------------------------------
\* The transaction of SubmissionsService.review, when it approves the last submission.
TaskApproved(t) ==
    /\ InTurn => Quiet
    /\ t \notin earned
    /\ earned' = earned \cup {t}
    /\ total' = total + payment[t]
    /\ UNCHANGED <<payment, dispute, disputePages, slot>>

-----------------------------------------------------------------------------
(* The page of the assistant. *)

\* The disputes that are on their way.
Filing(c) == At(c, "file_insert") \/ At(c, "file_answer")
Inserting == {c \in Slots : At(c, "file_insert")}

\* busy: the form of the page waits for an answer.
busy == \E c \in Slots : Filing(c) /\ slot[c].shown

\* bound: there is an id left for one more dispute.
RoomToFile == Cardinality(Filed) + Cardinality(Inserting) < room

\* EarningsService.mine: the approved tasks whose hasDispute is 0.
Undisputed == {t \in earned : DisputesOf(t) = {}}

\* The page is opened: the effect of its mount calls loadData (EarningsService.mine), and
\* its form is free, whatever the page that was left has sent.
EarningsLoad ==
    /\ InTurn => Quiet
    /\ ledger' = Undisputed
    /\ LeavePage({c \in Slots : Filing(c)})
    /\ leftTasks' = leftTasks \cup {slot[c].task : c \in Inserting}
    /\ UNCHANGED <<disputeTables, list, savingId, leftDisputes>>

\* Mutant of FileClick: the flag of the task is set only by the next loadData.
FileClickUnflagged(c, t) ==
    /\ ~busy
    /\ RoomToFile
    /\ t \in ledger \cap earned
    /\ Enter(c, [pc |-> "file_insert", task |-> t, before |-> ledger, shown |-> TRUE])
    /\ UNCHANGED <<disputeTables, disputePages>>

\* handleSubmitDispute: the page sets hasDispute before the request is out, and keeps
\* previousEarnings; the request reads the task.
FileClick(c, t) ==
    /\ ~busy
    /\ RoomToFile
    /\ t \in ledger \cap earned
    /\ Enter(c, [pc |-> "file_insert", task |-> t, before |-> ledger, shown |-> TRUE])
    /\ ledger' = ledger \ {t}
    /\ UNCHANGED <<disputeTables, list, savingId>>

FileInsert(c) ==
    /\ At(c, "file_insert")
    /\ dispute' = [dispute EXCEPT ![Cardinality(Filed) + 1] =
                      [task |-> slot[c].task, status |-> "OPEN"]]
    /\ Goto(c, "file_answer")
    /\ UNCHANGED <<payment, earned, total, disputePages>>

\* The answer, and the reload of the disputes (not of the earnings).
FileAnswer(c) ==
    /\ At(c, "file_answer")
    /\ Finish(c)
    /\ UNCHANGED <<disputeTables, disputePages>>

\* An error, of the request or of the reload: setEarnings(previousEarnings).
FileFails(c) ==
    /\ At(c, "file_insert") \/ At(c, "file_answer")
    /\ Fail(c)
    /\ ledger' = IF slot[c].shown THEN slot[c].before ELSE ledger
    /\ UNCHANGED <<disputeTables, list, savingId>>

-----------------------------------------------------------------------------
(* The page of an admin. *)

\* Mutant of isActionable: the buttons are not disabled while one of them is answered.
isActionableAnyTime(a, i) == list[a][i] \in {"OPEN", "UNDER_REVIEW"}

isActionable(a, i) == list[a][i] \in {"OPEN", "UNDER_REVIEW"} /\ savingId[a] # i

\* The requests of the admin, and those among them that may still change a payment.
SentBy(a) ==
    {c \in Slots : /\ slot[c].pc \in {"review_write", "settle_select", "settle_commit", "settle_answer"}
                   /\ slot[c].admin = a}
SettlingBy(a) == {c \in SentBy(a) : At(c, "settle_select") \/ At(c, "settle_commit")}

Saving(a, i) == savingId' = [savingId EXCEPT ![a] = i]

\* The page is opened: the effect of its mount calls loadData (DisputesService.listAll),
\* and its savingId is null, whatever the page that was left has sent.
DisputesLoad(a) ==
    /\ InTurn => Quiet
    /\ list' = [list EXCEPT ![a] = [i \in DisputeIds |-> dispute[i].status]]
    /\ Saving(a, 0)
    /\ LeavePage(SentBy(a))
    /\ leftDisputes' = leftDisputes \cup {slot[c].id : c \in SettlingBy(a)}
    /\ UNCHANGED <<disputeTables, ledger, leftTasks>>

\* markUnderReview and resolve: their guard.
mayBecome(i, to) == canTransition(EARNING_DISPUTE_TRANSITIONS, dispute[i].status, to)

\* handleReview; the request reads the status of the dispute.
ReviewClick(c, a, i) ==
    /\ isActionable(a, i)
    /\ list[a][i] = "OPEN"
    /\ mayBecome(i, "UNDER_REVIEW")
    /\ Enter(c, [pc |-> "review_write", admin |-> a, id |-> i, shown |-> TRUE])
    /\ Saving(a, i)
    /\ UNCHANGED <<disputeTables, ledger, list>>

\* A button whose request is refused: the dispute has been settled.
ClickRefused(a, i) ==
    /\ isActionable(a, i)
    /\ ~mayBecome(i, "RESOLVED")
    /\ InTurn => Quiet
    /\ Saving(a, 0)
    /\ UNCHANGED <<disputeTables, ledger, list, slot>>

\* The answer: the page takes over the new status, unless it was left.
PageShows(c, status) ==
    IF slot[c].shown
    THEN /\ list' = [list EXCEPT ![slot[c].admin][slot[c].id] = status]
         /\ Saving(slot[c].admin, 0)
    ELSE UNCHANGED <<list, savingId>>

\* Mutant of ReviewWrite: a status that the column does not have.
ReviewWriteMisspelt(c) ==
    /\ At(c, "review_write")
    /\ dispute' = [dispute EXCEPT ![slot[c].id].status = "IN_REVIEW"]
    /\ PageShows(c, "UNDER_REVIEW")
    /\ Finish(c)
    /\ UNCHANGED <<payment, earned, total, ledger>>

\* UPDATE ... WHERE dispute_id = ?, and its answer.
ReviewWrite(c) ==
    /\ At(c, "review_write")
    /\ dispute' = [dispute EXCEPT ![slot[c].id].status = "UNDER_REVIEW"]
    /\ PageShows(c, "UNDER_REVIEW")
    /\ Finish(c)
    /\ UNCHANGED <<payment, earned, total, ledger>>

\* The adjusted amount is left empty (NULL), or is greater than 0.
Adjustments == {0} \cup Amounts

\* handleResolve and handleReject.
SettleClick(c, a, i, to, adjusted) ==
    /\ isActionable(a, i)
    /\ mayBecome(i, to)
    /\ to = "RESOLVED" \/ adjusted = 0
    /\ Enter(c, [pc |-> "settle_select", admin |-> a, id |-> i, to |-> to, adjusted |-> adjusted,
                 shown |-> TRUE])
    /\ Saving(a, i)
    /\ UNCHANGED <<disputeTables, ledger, list>>

\* SELECT payment_amount, from the snapshot of the transaction of resolve.
SettleSelect(c) ==
    /\ At(c, "settle_select")
    /\ LET q == slot[c] IN
       Become(c, [pc |-> "settle_commit", admin |-> q.admin, id |-> q.id, to |-> q.to,
                  adjusted |-> q.adjusted, shown |-> q.shown, old |-> payment[dispute[q.id].task]])
    /\ UNCHANGED <<disputeTables, disputePages>>

\* Its updates: of the payment, of the earnings by the difference, of the dispute.
SettleCommit(c) ==
    /\ At(c, "settle_commit")
    /\ LET q == slot[c] IN
       /\ IF q.adjusted # 0
          THEN /\ payment' = [payment EXCEPT ![dispute[q.id].task] = q.adjusted]
               /\ total' = total + (q.adjusted - q.old)
          ELSE UNCHANGED <<payment, total>>
       /\ dispute' = [dispute EXCEPT ![q.id].status = q.to]
    /\ Goto(c, "settle_answer")
    /\ UNCHANGED <<earned, disputePages>>

SettleAnswer(c) ==
    /\ At(c, "settle_answer")
    /\ PageShows(c, slot[c].to)
    /\ Finish(c)
    /\ UNCHANGED <<disputeTables, ledger>>

\* An error instead of an answer.
SettlingFails(c) ==
    /\ slot[c].pc \in {"review_write", "settle_select", "settle_commit", "settle_answer"}
    /\ Fail(c)
    /\ IF slot[c].shown THEN Saving(slot[c].admin, 0) ELSE UNCHANGED savingId
    /\ UNCHANGED <<disputeTables, ledger, list>>

-----------------------------------------------------------------------------
DisputeCall(c) ==
    \/ \E t \in Paid : FileClick(c, t)
    \/ \E a \in admins, i \in Filed :
          \/ ReviewClick(c, a, i)
          \/ \E adjusted \in Adjustments, to \in {"RESOLVED", "REJECTED"} :
                SettleClick(c, a, i, to, adjusted)

DisputeStep(c) ==
    \/ FileInsert(c) \/ FileAnswer(c) \/ FileFails(c)
    \/ ReviewWrite(c)
    \/ SettleSelect(c) \/ SettleCommit(c) \/ SettleAnswer(c) \/ SettlingFails(c)

DisputeNext ==
    /\ \/ /\ \/ \E c \in Slots : DisputeCall(c) \/ DisputeStep(c)
             \/ \E t \in Paid : TaskApproved(t)
             \/ \E a \in admins, i \in Filed : ClickRefused(a, i)
          /\ UNCHANGED disputeHistory
       \/ EarningsLoad
       \/ \E a \in admins : DisputesLoad(a)
    /\ UNCHANGED <<disputeScene, mode>>

DisputeSpec == DisputeInit /\ [][DisputeNext]_disputeVars

-----------------------------------------------------------------------------
\* The earnings of an assistant are the payments of the approved tasks: whatever requests
\* die when they come one after the other, and also when they interleave, as long as one
\* admin has one dispute to settle and stays on the page until the settlement is written.
\* resolve adds a difference to a payment that it read before; that no other settlement
\* comes in between is due to the page alone, whose savingId holds back the second click on
\* a dispute.  It does not after a click on another one, nor when the page was left and
\* opened again in the meantime: then one dispute is settled twice and the difference is
\* added twice.
EarningsAddUp ==
    (\/ InTurn
     \/ Undisturbed /\ Cardinality(admins) = 1 /\ Cardinality(Filed) = 1 /\ leftDisputes = {}) =>
        total = FoldSet(LAMBDA t, sum : sum + payment[t], 0, earned)

\* As long as no answer is lost, an assistant disputes a task once, unless the page is left
\* before the dispute is inserted: the service does not look for an earlier dispute, and
\* the page relies on a flag that it sets on its own copy, which is gone when it is opened
\* again.  Leaving the page for another task, or after the insert, does no harm.
DisputedOnce == Undisturbed => \A t \in Paid \ leftTasks : Cardinality(DisputesOf(t)) <= 1
=============================================================================
