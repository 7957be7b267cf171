-------------------------- MODULE ReaderVotesProofs --------------------------
(***************************************************************************)
(* Proofs about ReaderVotes, for any board, any series and weeks, any      *)
(* number of imports and of requests in flight.                            *)
(***************************************************************************)
EXTENDS ReaderVotes, NumberLemmas, FiniteSetTheorems

MemberSteps == {"page_confirm", "ask_find", "ask_existing", "ask_upsert", "ask_board",
                "approve_request", "approve_insert", "approve_summary",
                "finalize_find", "finalize_commit"}

ImportRequest == [pc : {"import_commit", "import_mark"}, start : Weeks,
                  rows : SUBSET Series, low : SUBSET Series]
MemberRequest == [pc : MemberSteps, member : Members, id : ImportIds]
AttachRequest == [pc : {"latest_attach"}, id : ImportIds, start : Weeks \cup {0}]
ReaderRequest == {Idle} \cup ImportRequest \cup MemberRequest \cup AttachRequest

\* What the request in a slot knows of the import it is about.
ReaderKnows(q) ==
    /\ q.pc = "finalize_commit" => q.id \in Made
    /\ q.pc = "latest_attach" => q.id \in Made /\ q.start = import[q.id].start

\* Ids are given out in order, and no more of them than the instance may have.
ImportsInOrder ==
    /\ IsFiniteSet(Made) /\ IsFiniteSet(Importing)
    /\ Made = 1 .. Cardinality(Made)
    /\ Cardinality(Made) + Cardinality(Importing) <= voters.imports

\* The deletion of an import takes the older rows of its week along, and no new ones come.
DeletedLeavesNoLegacy ==
    \A i \in ImportIds : import[i].status = "DELETED" =>
        \A k \in Series \X Weeks : k[2] = import[i].start => row[k] # Legacy

ReaderInv ==
    /\ ReaderTypeOK
    /\ slot \in [Slots -> ReaderRequest]
    /\ \A c \in Slots : ReaderKnows(slot[c])
    /\ ImportsInOrder
    /\ DeletedLeavesNoLegacy
    /\ RowsHaveLiveImport

-----------------------------------------------------------------------------
\* Nothing is made before the first request.
LEMMA InitReaderInv == ReaderInit => ReaderInv
  <1> SUFFICES ASSUME ReaderInit PROVE ReaderInv
    OBVIOUS
  <1> USE DEF ReaderInit, ReaderStart, RequestsInit, NoImport, NoRequest, NoRow, Legacy
  <1>1. ReaderTypeOK
    <2>1. voters \in ReaderScenes /\ active \subseteq board
      BY DEF board
    <2>2. import \in [ImportIds -> [start : Weeks \cup {0}, status : {"NONE", "IMPORTED", "DELETED"}]]
      OBVIOUS
    <2>3. row \in [Series \X Weeks -> ImportIds \cup {NoRow, Legacy}]
      OBVIOUS
    <2>4. asked \in [ImportIds -> [by : Members \cup {Nobody}, status : {"NONE", "PENDING", "APPROVED"}]]
      OBVIOUS
    <2>5. approval \in [ImportIds -> SUBSET Members] /\ marked \subseteq Series
      OBVIOUS
    <2>6. \A c \in Slots : slot[c].pc \in ReaderSteps
      BY DEF Idle, ReaderSteps
    <2> QED  BY <2>1, <2>2, <2>3, <2>4, <2>5, <2>6 DEF ReaderTypeOK
  <1>2. slot \in [Slots -> ReaderRequest] /\ \A c \in Slots : ReaderKnows(slot[c])
    BY DEF ReaderRequest, Idle, ReaderKnows
  <1>3. ImportsInOrder
    <2>1. Made = {} /\ Importing = {}
      BY DEF Made, Importing, At, Idle
    <2>2. voters.imports \in Nat
      BY ReaderVotesAssumption
    <2> QED  BY <2>1, <2>2, FS_EmptySet DEF ImportsInOrder
  <1>4. DeletedLeavesNoLegacy /\ RowsHaveLiveImport
    BY DEF DeletedLeavesNoLegacy, RowsHaveLiveImport, ImportIds
  <1> QED  BY <1>1, <1>2, <1>3, <1>4 DEF ReaderInv

-----------------------------------------------------------------------------
\* A request is what its pc says.
LEMMA ReaderRequestShapes ==
    ASSUME NEW q \in ReaderRequest
    PROVE  /\ q.pc \in ReaderSteps
           /\ q.pc \in MemberSteps => q \in MemberRequest
           /\ q.pc \in {"import_commit", "import_mark"} => q \in ImportRequest
           /\ q.pc = "latest_attach" => q \in AttachRequest
  <1>1. CASE q = Idle
    BY <1>1 DEF Idle, ReaderSteps, MemberSteps
  <1>2. CASE q \in ImportRequest
    BY <1>2 DEF ImportRequest, ReaderSteps, MemberSteps
  <1>3. CASE q \in MemberRequest
    BY <1>3 DEF MemberRequest, ReaderSteps, MemberSteps
  <1>4. CASE q \in AttachRequest
    BY <1>4 DEF AttachRequest, ReaderSteps, MemberSteps
  <1> QED  BY <1>1, <1>2, <1>3, <1>4 DEF ReaderRequest

Requested == [ImportIds -> [by : Members \cup {Nobody}, status : {"NONE", "PENDING", "APPROVED"}]]
Approved == [ImportIds -> SUBSET Members]

\* A step of one slot that starts no import and leaves imports and rows alone.
LEMMA ReaderSlotStep ==
    ASSUME ReaderInv, NEW c \in Slots, NEW request \in ReaderRequest, request.pc # "import_commit",
           slot' = [slot EXCEPT ![c] = request], ReaderKnows(request),
           UNCHANGED <<import, row, active, voters>>,
           asked' \in Requested, approval' \in Approved, marked' \subseteq Series
    PROVE  ReaderInv'
  <1> USE DEF Requested, Approved
  <1>1. slot' \in [Slots -> ReaderRequest] /\ \A d \in Slots : slot'[d] = IF d = c THEN request ELSE slot[d]
    BY DEF ReaderInv
  <1>2. ReaderTypeOK'
    <2>1. \A d \in Slots : slot'[d].pc \in ReaderSteps
      BY <1>1, ReaderRequestShapes
    <2> QED  BY <2>1 DEF ReaderInv, ReaderTypeOK, board
  <1>3. \A d \in Slots : ReaderKnows(slot[d])'
    BY <1>1 DEF ReaderInv, ReaderKnows, Made
  <1>4. ImportsInOrder'
    <2>1. Made' = Made /\ Importing' \subseteq Importing
      BY <1>1 DEF Made, Importing, At
    <2>2. IsFiniteSet(Importing') /\ Cardinality(Importing') <= Cardinality(Importing)
      BY <2>1, FS_Subset DEF ReaderInv, ImportsInOrder
    <2>3. Cardinality(Made) \in Nat /\ Cardinality(Importing) \in Nat /\ Cardinality(Importing') \in Nat
      BY <2>2, FS_CardinalityType DEF ReaderInv, ImportsInOrder
    <2>4. voters.imports \in Nat
      BY ReaderVotesAssumption DEF ReaderInv, ReaderTypeOK
    <2> QED  BY <2>1, <2>2, <2>3, <2>4 DEF ReaderInv, ImportsInOrder
  <1>5. DeletedLeavesNoLegacy' /\ RowsHaveLiveImport'
    BY DEF ReaderInv, DeletedLeavesNoLegacy, RowsHaveLiveImport, Live
  <1> QED  BY <1>1, <1>2, <1>3, <1>4, <1>5 DEF ReaderInv

\* Most statements leave all tables alone.
LEMMA ReaderQuietStep ==
    ASSUME ReaderInv, NEW c \in Slots, NEW request \in ReaderRequest, request.pc # "import_commit",
           slot' = [slot EXCEPT ![c] = request], ReaderKnows(request),
           UNCHANGED <<readerTables, active, voters>>
    PROVE  ReaderInv'
  <1>1. asked \in Requested /\ approval \in Approved /\ marked \subseteq Series
    BY DEF ReaderInv, ReaderTypeOK, Requested, Approved
  <1> QED  BY <1>1, ReaderSlotStep DEF readerTables

\* A handler that returns, or dies.
LEMMA ReaderFinishQuiet ==
    ASSUME ReaderInv, NEW c \in Slots, Finish(c), UNCHANGED <<readerTables, active, voters>>
    PROVE  ReaderInv'
  <1>1. Idle \in ReaderRequest /\ Idle.pc # "import_commit" /\ ReaderKnows(Idle)
    BY DEF ReaderRequest, Idle, ReaderKnows
  <1> QED  BY <1>1, ReaderQuietStep DEF Finish

\* A handler of a member that goes on to its next statement.
LEMMA GotoQuiet ==
    ASSUME ReaderInv, NEW c \in Slots, slot[c].pc \in MemberSteps, NEW step \in MemberSteps,
           Goto(c, step), step = "finalize_commit" => Live(slot[c].id),
           UNCHANGED <<readerTables, active, voters>>
    PROVE  ReaderInv'
  <1> DEFINE request == [slot[c] EXCEPT !.pc = step]
  <1>1. slot[c] \in MemberRequest
    BY ReaderRequestShapes DEF ReaderInv
  <1>2. request \in MemberRequest /\ request.pc = step /\ request.id = slot[c].id
    BY <1>1 DEF MemberRequest
  <1>3. request \in ReaderRequest /\ request.pc # "import_commit"
    BY <1>2 DEF ReaderRequest, MemberSteps
  <1>4. ReaderKnows(request)
    <2>1. step = "finalize_commit" => slot[c].id \in Made
      BY <1>1 DEF Live, Made, MemberRequest
    <2> QED  BY <1>2, <2>1 DEF ReaderKnows, MemberSteps
  <1>5. slot' = [slot EXCEPT ![c] = request]
    BY DEF Goto
  <1> HIDE DEF request
  <1> QED  BY <1>3, <1>4, <1>5, ReaderQuietStep

-----------------------------------------------------------------------------
\* An import is under way: one more slot that counts.
LEMMA ImportReadKeeps ==
    ASSUME ReaderInv, NEW c \in Slots, NEW start \in Weeks, NEW csv \in Csvs,
           ImportRead(c, start, csv), UNCHANGED <<active, voters>>
    PROVE  ReaderInv'
  <1> DEFINE request == [pc |-> "import_commit", start |-> start, rows |-> csv.rows, low |-> csv.low]
  <1>1. voters.titles \subseteq Series /\ voters.imports \in Nat
    BY ReaderVotesAssumption DEF ReaderInv, ReaderTypeOK
  <1>2. request \in ReaderRequest
    BY <1>1 DEF Csvs, ReaderRequest, ImportRequest
  <1>3. slot' = [slot EXCEPT ![c] = request] /\ slot[c].pc = "idle" /\ UNCHANGED readerTables
    BY DEF ImportRead, Enter, At
  <1>4. slot' \in [Slots -> ReaderRequest] /\ \A d \in Slots : slot'[d] = IF d = c THEN request ELSE slot[d]
    BY <1>2, <1>3 DEF ReaderInv
  <1>5. ReaderTypeOK'
    <2>1. \A d \in Slots : slot'[d].pc \in ReaderSteps
      BY <1>4, ReaderRequestShapes
    <2> QED  BY <1>3, <2>1 DEF ReaderInv, ReaderTypeOK, readerTables, board
  <1>6. \A d \in Slots : ReaderKnows(slot[d])'
    BY <1>3, <1>4 DEF ReaderInv, ReaderKnows, Made, readerTables
  <1>7. ImportsInOrder'
    <2>1. Made' = Made
      BY <1>3 DEF Made, readerTables
    <2>2. c \notin Importing /\ Importing' = Importing \cup {c}
      BY <1>3, <1>4 DEF Importing, At
    <2>3. IsFiniteSet(Importing') /\ Cardinality(Importing') = Cardinality(Importing) + 1
      BY <2>2, FS_AddElement DEF ReaderInv, ImportsInOrder
    <2>4. Cardinality(Made) \in Nat /\ Cardinality(Importing) \in Nat
      BY FS_CardinalityType DEF ReaderInv, ImportsInOrder
    <2>5. Cardinality(Made) + Cardinality(Importing) < voters.imports
      BY DEF ImportRead
    <2> QED  BY <1>1, <2>1, <2>3, <2>4, <2>5 DEF ReaderInv, ImportsInOrder
  <1>8. DeletedLeavesNoLegacy' /\ RowsHaveLiveImport'
    BY <1>3 DEF ReaderInv, DeletedLeavesNoLegacy, RowsHaveLiveImport, Live, readerTables
  <1> QED  BY <1>4, <1>5, <1>6, <1>7, <1>8 DEF ReaderInv

\* The other calls remember an import that has been made.
LEMMA ReaderCallKeeps ==
    ASSUME ReaderInv, NEW c \in Slots, ReaderCall(c), UNCHANGED <<active, voters>>
    PROVE  ReaderInv'
  <1>1. board \subseteq Members
    BY ReaderVotesAssumption DEF ReaderInv, ReaderTypeOK, board
  <1>2. ASSUME NEW m \in board, NEW start \in Weeks, ImportRefused(c, m, start) PROVE ReaderInv'
    <2> DEFINE request == [pc |-> "page_confirm", member |-> m, id |-> Max(Conflicts(start))]
    <2>1. Max(Conflicts(start)) \in ImportIds
      BY <1>2, MaxIsElement, ReaderVotesAssumption DEF ImportRefused, Conflicts, ImportIds
    <2>2. request \in ReaderRequest /\ ReaderKnows(request)
      BY <1>1, <2>1 DEF ReaderRequest, MemberRequest, MemberSteps, ReaderKnows
    <2> QED  BY <1>2, <2>2, ReaderQuietStep DEF ImportRefused, Enter
  <1>3. ASSUME NEW m \in board, NEW i \in Made, AskCall(c, m, i) PROVE ReaderInv'
    <2> DEFINE request == [pc |-> "ask_find", member |-> m, id |-> i]
    <2>1. request \in ReaderRequest /\ ReaderKnows(request)
      BY <1>1 DEF ReaderRequest, MemberRequest, MemberSteps, ReaderKnows, Made
    <2> QED  BY <1>3, <2>1, ReaderQuietStep DEF AskCall, Enter
  <1>4. ASSUME NEW m \in board, NEW i \in Made, ApproveFind(c, m, i) PROVE ReaderInv'
    <2> DEFINE request == [pc |-> "approve_request", member |-> m, id |-> i]
    <2>1. request \in ReaderRequest /\ ReaderKnows(request)
      BY <1>1 DEF ReaderRequest, MemberRequest, MemberSteps, ReaderKnows, Made
    <2> QED  BY <1>4, <2>1, ReaderQuietStep DEF ApproveFind, Enter
  <1>5. ASSUME NEW i \in Made, LatestRead(c, i) PROVE ReaderInv'
    <2> DEFINE request == [pc |-> "latest_attach", id |-> i, start |-> import[i].start]
    <2>1. import[i].start \in Weeks \cup {0} /\ i \in ImportIds
      BY DEF ReaderInv, ReaderTypeOK, Made
    <2>2. request \in ReaderRequest /\ ReaderKnows(request)
      BY <2>1 DEF ReaderRequest, AttachRequest, ReaderKnows
    <2> QED  BY <1>5, <2>2, ReaderQuietStep DEF LatestRead, Enter
  <1> QED  BY <1>2, <1>3, <1>4, <1>5, ImportReadKeeps DEF ReaderCall

-----------------------------------------------------------------------------
\* The new import takes the next id, which no row carries yet.
LEMMA ImportCommitKeeps ==
    ASSUME ReaderInv, NEW c \in Slots, ImportCommit(c), UNCHANGED <<active, voters>>
    PROVE  ReaderInv'
  <1> DEFINE id == Cardinality(Made) + 1
             request == [slot[c] EXCEPT !.pc = "import_mark"]
  <1>1. slot[c] \in ImportRequest /\ slot[c].pc = "import_commit"
    BY ReaderRequestShapes DEF ReaderInv, ImportCommit, At
  <1>2. request \in ImportRequest /\ request.pc = "import_mark"
    BY <1>1 DEF ImportRequest
  <1>3. slot' \in [Slots -> ReaderRequest] /\ \A d \in Slots : slot'[d] = IF d = c THEN request ELSE slot[d]
    BY <1>2 DEF ReaderInv, ImportCommit, Goto, ReaderRequest
  <1>4. voters.imports \in 0 .. MaxImports /\ MaxImports \in Nat
    BY ReaderVotesAssumption DEF ReaderInv, ReaderTypeOK
  <1>5. /\ c \in Importing /\ Importing' = Importing \ {c}
        /\ IsFiniteSet(Importing')
        /\ Cardinality(Importing') = Cardinality(Importing) - 1
        /\ Cardinality(Importing) \in Nat /\ Cardinality(Importing') \in Nat
        /\ Cardinality(Made) \in Nat
    <2>1. c \in Importing
      BY <1>1 DEF Importing, At
    <2>2. Importing' = Importing \ {c}
      BY <1>2, <1>3 DEF Importing, At
    <2> QED  BY <2>1, <2>2, FS_RemoveElement, FS_CardinalityType DEF ReaderInv, ImportsInOrder
  <1>6. id \in ImportIds /\ id \notin Made
    BY <1>4, <1>5 DEF ReaderInv, ImportsInOrder, ImportIds
  <1>7. /\ import' = [import EXCEPT ![id] = [start |-> slot[c].start, status |-> "IMPORTED"]]
        /\ row' = [k \in Series \X Weeks |->
                      IF k[1] \in slot[c].rows /\ k[2] = slot[c].start THEN id ELSE row[k]]
        /\ UNCHANGED <<asked, approval, marked>>
    BY DEF ImportCommit
  <1> HIDE DEF id, request
  <1>8. ReaderTypeOK'
    <2>1. \A d \in Slots : slot'[d].pc \in ReaderSteps
      BY <1>3, ReaderRequestShapes
    <2>2. slot[c].start \in Weeks
      BY <1>1 DEF ImportRequest
    <2>3. import' \in [ImportIds -> [start : Weeks \cup {0}, status : {"NONE", "IMPORTED", "DELETED"}]]
      BY <1>6, <1>7, <2>2 DEF ReaderInv, ReaderTypeOK
    <2>4. row' \in [Series \X Weeks -> ImportIds \cup {NoRow, Legacy}]
      BY <1>6, <1>7 DEF ReaderInv, ReaderTypeOK
    <2> QED  BY <1>7, <2>1, <2>3, <2>4 DEF ReaderInv, ReaderTypeOK, board
  <1>9. Made' = Made \cup {id} /\ \A i \in Made : import'[i] = import[i]
    <2>1. \A i \in ImportIds : import'[i] = IF i = id
                                              THEN [start |-> slot[c].start, status |-> "IMPORTED"]
                                              ELSE import[i]
      BY <1>6, <1>7 DEF ReaderInv, ReaderTypeOK
    <2> QED  BY <1>6, <2>1 DEF Made
  <1>10. \A d \in Slots : ReaderKnows(slot[d])'
    <2> SUFFICES ASSUME NEW d \in Slots PROVE ReaderKnows(slot[d])'
      OBVIOUS
    <2>1. CASE d = c
      BY <1>2, <1>3, <2>1 DEF ReaderKnows
    <2>2. CASE d # c
      BY <1>3, <1>9, <2>2 DEF ReaderInv, ReaderKnows
    <2> QED  BY <2>1, <2>2
  <1>11. ImportsInOrder'
    <2>1. IsFiniteSet(Made') /\ Cardinality(Made') = Cardinality(Made) + 1
      BY <1>6, <1>9, FS_AddElement DEF ReaderInv, ImportsInOrder
    <2>2. Made' = 1 .. Cardinality(Made')
      BY <1>5, <1>9, <2>1 DEF ReaderInv, ImportsInOrder, id
    <2>3. Cardinality(Made') + Cardinality(Importing') = Cardinality(Made) + Cardinality(Importing)
      BY <1>5, <2>1
    <2> QED  BY <1>5, <2>1, <2>2, <2>3 DEF ReaderInv, ImportsInOrder
  <1>12. DeletedLeavesNoLegacy'
    <2> SUFFICES ASSUME NEW i \in ImportIds, import'[i].status = "DELETED",
                        NEW k \in Series \X Weeks, k[2] = import'[i].start
                 PROVE  row'[k] # Legacy
      BY DEF DeletedLeavesNoLegacy
    <2>1. import'[i] = import[i]
      BY <1>6, <1>7 DEF ReaderInv, ReaderTypeOK
    <2>2. row[k] # Legacy
      BY <2>1 DEF ReaderInv, DeletedLeavesNoLegacy
    <2>3. id # Legacy
      BY <1>6 DEF Legacy, ImportIds
    <2> QED  BY <1>7, <2>2, <2>3
  <1>13. RowsHaveLiveImport'
    <2> SUFFICES ASSUME NEW k \in Series \X Weeks, row'[k] \in ImportIds
                 PROVE  import'[row'[k]].status = "IMPORTED"
      BY DEF RowsHaveLiveImport, Live
    <2>1. CASE row'[k] = id
      BY <1>6, <1>7, <2>1 DEF ReaderInv, ReaderTypeOK
    <2>2. CASE row'[k] = row[k]
      <3>1. import[row[k]].status = "IMPORTED"
        BY <2>2 DEF ReaderInv, RowsHaveLiveImport, Live
      <3>2. row[k] \in Made
        BY <2>2, <3>1 DEF Made
      <3> QED  BY <1>9, <2>2, <3>1, <3>2
    <2> QED  BY <1>7, <2>1, <2>2
  <1> QED  BY <1>3, <1>8, <1>10, <1>11, <1>12, <1>13 DEF ReaderInv

\* What the two statements that write older rows have in common: they end their request
\* and make no import.
LEMMA RowsStep ==
    ASSUME ReaderInv, NEW c \in Slots, Finish(c), UNCHANGED <<active, voters, approval, marked>>,
           import' \in [ImportIds -> [start : Weeks \cup {0}, status : {"NONE", "IMPORTED", "DELETED"}]],
           row' \in [Series \X Weeks -> ImportIds \cup {NoRow, Legacy}],
           asked' \in Requested,
           Made' = Made, \A i \in Made : import'[i].start = import[i].start,
           DeletedLeavesNoLegacy', RowsHaveLiveImport'
    PROVE  ReaderInv'
  <1>1. slot' \in [Slots -> ReaderRequest] /\ \A d \in Slots : slot'[d] = IF d = c THEN Idle ELSE slot[d]
    BY DEF ReaderInv, Finish, ReaderRequest
  <1>2. \A d \in Slots : ReaderKnows(slot[d])'
    BY <1>1 DEF ReaderInv, ReaderKnows, Idle
  <1>3. ReaderTypeOK'
    <2>1. \A d \in Slots : slot'[d].pc \in ReaderSteps
      BY <1>1, ReaderRequestShapes
    <2> QED  BY <2>1 DEF ReaderInv, ReaderTypeOK, board, Requested
  <1>4. ImportsInOrder'
    <2>1. Importing' \subseteq Importing
      BY <1>1 DEF Importing, At, Idle
    <2>2. IsFiniteSet(Importing') /\ Cardinality(Importing') <= Cardinality(Importing)
      BY <2>1, FS_Subset DEF ReaderInv, ImportsInOrder
    <2>3. Cardinality(Made) \in Nat /\ Cardinality(Importing) \in Nat /\ Cardinality(Importing') \in Nat
      BY <2>2, FS_CardinalityType DEF ReaderInv, ImportsInOrder
    <2>4. voters.imports \in Nat
      BY ReaderVotesAssumption DEF ReaderInv, ReaderTypeOK
    <2> QED  BY <2>2, <2>3, <2>4 DEF ReaderInv, ImportsInOrder
  <1> QED  BY <1>1, <1>2, <1>3, <1>4 DEF ReaderInv

\* A deletion clears the rows of the import, and the older ones of its week.
LEMMA FinalizeCommitKeeps ==
    ASSUME ReaderInv, NEW c \in Slots, FinalizeCommit(c), UNCHANGED <<active, voters>>
    PROVE  ReaderInv'
  <1> DEFINE i == slot[c].id
             gone(k) == row[k] = i \/ (row[k] = Legacy /\ k[2] = import[i].start)
  <1>1. i \in Made /\ i \in ImportIds
    BY DEF ReaderInv, ReaderKnows, FinalizeCommit, At, Made
  <1>2. /\ row' = [k \in Series \X Weeks |-> IF gone(k) THEN NoRow ELSE row[k]]
        /\ import' = [import EXCEPT ![i].status = "DELETED"]
        /\ asked' = [asked EXCEPT ![i].status = "APPROVED"]
        /\ Finish(c) /\ UNCHANGED <<approval, marked>>
    BY DEF FinalizeCommit
  <1>3. /\ DOMAIN import' = ImportIds
        /\ \A j \in ImportIds : /\ import'[j].start = import[j].start
                                /\ j # i => import'[j] = import[j]
        /\ import'[i].status = "DELETED"
        /\ import' \in [ImportIds -> [start : Weeks \cup {0}, status : {"NONE", "IMPORTED", "DELETED"}]]
    BY <1>1, <1>2 DEF ReaderInv, ReaderTypeOK
  <1>4. row' \in [Series \X Weeks -> ImportIds \cup {NoRow, Legacy}]
    BY <1>2 DEF ReaderInv, ReaderTypeOK
  <1>5. asked' \in Requested
    BY <1>1, <1>2 DEF ReaderInv, ReaderTypeOK, Requested
  <1>6. Made' = Made
    BY <1>1, <1>3 DEF Made
  <1>7. \A k \in Series \X Weeks : row'[k] = IF gone(k) THEN NoRow ELSE row[k]
    BY <1>2
  <1>8. DeletedLeavesNoLegacy'
    <2> SUFFICES ASSUME NEW j \in ImportIds, import'[j].status = "DELETED",
                        NEW k \in Series \X Weeks, k[2] = import'[j].start
                 PROVE  row'[k] # Legacy
      BY DEF DeletedLeavesNoLegacy
    <2>1. CASE j = i
      BY <1>3, <1>7, <2>1 DEF NoRow, Legacy
    <2>2. CASE j # i
      BY <1>3, <1>7, <2>2 DEF ReaderInv, DeletedLeavesNoLegacy, NoRow, Legacy
    <2> QED  BY <2>1, <2>2
  <1>9. RowsHaveLiveImport'
    <2> SUFFICES ASSUME NEW k \in Series \X Weeks, row'[k] \in ImportIds
                 PROVE  import'[row'[k]].status = "IMPORTED"
      BY DEF RowsHaveLiveImport, Live
    <2>1. row'[k] = row[k] /\ row[k] # i
      BY <1>7, ReaderVotesAssumption DEF NoRow, ImportIds
    <2> QED  BY <1>3, <2>1 DEF ReaderInv, RowsHaveLiveImport, Live
  <1> HIDE DEF i, gone
  <1> QED  BY <1>2, <1>3, <1>4, <1>5, <1>6, <1>8, <1>9, RowsStep DEF Made

\* Older rows are adopted for an import that may have been deleted since it was read: then
\* there are none.
LEMMA LatestAttachKeeps ==
    ASSUME ReaderInv, NEW c \in Slots, LatestAttach(c), UNCHANGED <<active, voters>>
    PROVE  ReaderInv'
  <1> DEFINE i == slot[c].id
  <1>1. i \in Made /\ i \in ImportIds /\ slot[c].start = import[i].start
    BY DEF ReaderInv, ReaderKnows, LatestAttach, At, Made
  <1>2. /\ \A k \in Series \X Weeks :
               row'[k] = IF row[k] = Legacy /\ k[2] = import[i].start THEN i ELSE row[k]
        /\ DOMAIN row' = Series \X Weeks
    BY <1>1 DEF LatestAttach
  <1>3. row' \in [Series \X Weeks -> ImportIds \cup {NoRow, Legacy}]
    BY <1>1 DEF LatestAttach, ReaderInv, ReaderTypeOK
  <1>4. Finish(c) /\ UNCHANGED <<import, asked, approval, marked>>
    BY DEF LatestAttach
  <1>5. DeletedLeavesNoLegacy'
    <2>1. i # Legacy
      BY <1>1 DEF ImportIds, Legacy
    <2> QED  BY <1>2, <1>4, <2>1 DEF ReaderInv, DeletedLeavesNoLegacy
  <1>6. RowsHaveLiveImport'
    <2> SUFFICES ASSUME NEW k \in Series \X Weeks, row'[k] \in ImportIds
                 PROVE  import[row'[k]].status = "IMPORTED"
      BY <1>4 DEF RowsHaveLiveImport, Live
    <2>1. CASE row'[k] = row[k]
      BY <2>1 DEF ReaderInv, RowsHaveLiveImport, Live
    <2>2. CASE row[k] = Legacy /\ k[2] = import[i].start
      <3>1. import[i].status # "DELETED"
        BY <1>1, <2>2 DEF ReaderInv, DeletedLeavesNoLegacy
      <3>2. import[i].status \in {"NONE", "IMPORTED", "DELETED"} /\ import[i].status # "NONE"
        BY <1>1 DEF ReaderInv, ReaderTypeOK, Made
      <3> QED  BY <1>2, <2>2, <3>1, <3>2
    <2> QED  BY <1>2, <2>1, <2>2
  <1> HIDE DEF i
  <1>7. Made' = Made /\ \A j \in Made : import'[j].start = import[j].start
    BY <1>4 DEF Made
  <1>8. asked' \in Requested
        /\ import' \in [ImportIds -> [start : Weeks \cup {0}, status : {"NONE", "IMPORTED", "DELETED"}]]
    BY <1>4 DEF ReaderInv, ReaderTypeOK, Requested
  <1> QED  BY <1>3, <1>4, <1>5, <1>6, <1>7, <1>8, RowsStep

\* Series are marked one by one.
LEMMA ImportMarkKeeps ==
    ASSUME ReaderInv, NEW c \in Slots, ImportMark(c), UNCHANGED <<active, voters>>
    PROVE  ReaderInv'
  <1>1. slot[c] \in ImportRequest /\ slot[c].pc = "import_mark"
    BY ReaderRequestShapes DEF ReaderInv, ImportMark, At
  <1>2. CASE Finish(c) /\ UNCHANGED marked
    BY <1>2, ReaderFinishQuiet DEF ImportMark, readerTables
  <1>3. ASSUME NEW s \in slot[c].low, marked' = marked \cup {s},
               slot' = [slot EXCEPT ![c].low = @ \ {s}]
        PROVE  ReaderInv'
    <2> DEFINE request == [slot[c] EXCEPT !.low = @ \ {s}]
    <2>1. request \in ImportRequest /\ request.pc = "import_mark"
      BY <1>1 DEF ImportRequest
    <2>2. request \in ReaderRequest /\ ReaderKnows(request)
      BY <2>1 DEF ReaderRequest, ReaderKnows
    <2>3. slot' = [slot EXCEPT ![c] = request]
      BY <1>3 DEF ReaderInv
    <2>4. marked' \subseteq Series
      BY <1>1, <1>3 DEF ReaderInv, ReaderTypeOK, ImportRequest
    <2>5. asked' \in Requested /\ approval' \in Approved /\ UNCHANGED <<import, row>>
      BY DEF ImportMark, ReaderInv, ReaderTypeOK, Requested, Approved
    <2> HIDE DEF request
    <2> QED  BY <2>1, <2>2, <2>3, <2>4, <2>5, ReaderSlotStep
  <1> QED  BY <1>2, <1>3 DEF ImportMark

\* The upsert of a request for a deletion, and the insert of an approval.
LEMMA RequestWritesKeep ==
    ASSUME ReaderInv, NEW c \in Slots, AskUpsert(c) \/ ApproveInsert(c), UNCHANGED <<active, voters>>
    PROVE  ReaderInv'
  <1> DEFINE step == IF AskUpsert(c) THEN "ask_board" ELSE "approve_summary"
             request == [slot[c] EXCEPT !.pc = step]
  <1>1. slot[c] \in MemberRequest
    BY ReaderRequestShapes DEF ReaderInv, AskUpsert, ApproveInsert, At, MemberSteps
  <1>2. step \in {"ask_board", "approve_summary"}
    OBVIOUS
  <1>3. slot' = [slot EXCEPT ![c] = request]
    BY DEF AskUpsert, ApproveInsert, At, Goto
  <1> HIDE DEF step
  <1>4. request \in MemberRequest /\ request.pc = step
    BY <1>1, <1>2 DEF MemberRequest, MemberSteps
  <1>5. request \in ReaderRequest /\ ReaderKnows(request) /\ request.pc # "import_commit"
    BY <1>2, <1>4 DEF ReaderRequest, ReaderKnows
  <1>6. asked' \in Requested
    BY <1>1 DEF AskUpsert, ApproveInsert, ReaderInv, ReaderTypeOK, Requested, MemberRequest
  <1>7. approval' \in Approved
    BY <1>1 DEF AskUpsert, ApproveInsert, ReaderInv, ReaderTypeOK, Approved, MemberRequest
  <1>8. marked' \subseteq Series /\ UNCHANGED <<import, row>>
    BY DEF AskUpsert, ApproveInsert, ReaderInv, ReaderTypeOK
  <1> HIDE DEF request
  <1> QED  BY <1>3, <1>5, <1>6, <1>7, <1>8, ReaderSlotStep

\* The other statements of a request or of an approval only read.
LEMMA MemberStepKeeps ==
    ASSUME ReaderInv, NEW c \in Slots, UNCHANGED <<active, voters>>,
           \/ PageConfirm(c) \/ AskFind(c) \/ AskExisting(c) \/ AskBoard(c)
           \/ ApproveRequest(c) \/ ApproveSummary(c) \/ FinalizeFind(c)
    PROVE  ReaderInv'
  <1> USE DEF At, MemberSteps
  <1>1. CASE PageConfirm(c)
    BY <1>1, ReaderFinishQuiet, GotoQuiet DEF PageConfirm
  <1>2. CASE AskFind(c)
    BY <1>2, ReaderFinishQuiet, GotoQuiet DEF AskFind
  <1>3. CASE AskExisting(c)
    BY <1>3, ReaderFinishQuiet, GotoQuiet DEF AskExisting
  <1>4. CASE AskBoard(c)
    BY <1>4, ReaderFinishQuiet, GotoQuiet DEF AskBoard
  <1>5. CASE ApproveRequest(c)
    BY <1>5, ReaderFinishQuiet, GotoQuiet DEF ApproveRequest
  <1>6. CASE ApproveSummary(c)
    BY <1>6, ReaderFinishQuiet, GotoQuiet DEF ApproveSummary
  <1>7. CASE FinalizeFind(c)
    BY <1>7, ReaderFinishQuiet, GotoQuiet DEF FinalizeFind
  <1> QED  BY <1>1, <1>2, <1>3, <1>4, <1>5, <1>6, <1>7

\* No request knows who is active.
LEMMA AccountChangeKeeps ==
    ASSUME ReaderInv, NEW m \in board, AccountChange(m), UNCHANGED voters
    PROVE  ReaderInv'
  <1> USE DEF AccountChange, readerTables
  <1>1. ReaderTypeOK'
    BY DEF ReaderInv, ReaderTypeOK, board
  <1>2. (\A c \in Slots : ReaderKnows(slot[c]))'
    BY DEF ReaderInv, ReaderKnows, Made
  <1>3. ImportsInOrder' /\ DeletedLeavesNoLegacy' /\ RowsHaveLiveImport'
    BY DEF ReaderInv, ImportsInOrder, DeletedLeavesNoLegacy, RowsHaveLiveImport, Live, Made,
           Importing, At
  <1> QED  BY <1>1, <1>2, <1>3 DEF ReaderInv

-----------------------------------------------------------------------------
\* The types, the order of the ids, and what becomes of rows and deletions: together
\* inductive in every mode, whatever interleaves and dies.
THEOREM ReaderInvariant == ReaderSpec => []ReaderInv
  <1>1. ReaderInv /\ [ReaderNext]_readerVars => ReaderInv'
    <2> SUFFICES ASSUME ReaderInv, [ReaderNext]_readerVars PROVE ReaderInv'
      OBVIOUS
    <2>1. CASE UNCHANGED readerVars
      <3> USE <2>1 DEF readerVars, readerTables, requestVars
      <3>1. ReaderTypeOK'
        BY DEF ReaderInv, ReaderTypeOK, board
      <3>2. (\A c \in Slots : ReaderKnows(slot[c]))'
        BY DEF ReaderInv, ReaderKnows, Made
      <3>3. ImportsInOrder' /\ DeletedLeavesNoLegacy' /\ RowsHaveLiveImport'
        BY DEF ReaderInv, ImportsInOrder, DeletedLeavesNoLegacy, RowsHaveLiveImport, Live, Made,
               Importing, At
      <3> QED  BY <3>1, <3>2, <3>3 DEF ReaderInv
    <2>2. ASSUME NEW c \in Slots, ReaderCall(c), UNCHANGED <<active, voters>> PROVE ReaderInv'
      BY <2>2, ReaderCallKeeps
    <2>3. ASSUME NEW c \in Slots, ReaderStep(c), UNCHANGED <<active, voters>> PROVE ReaderInv'
      BY <2>3, ImportCommitKeeps, ImportMarkKeeps, RequestWritesKeep, MemberStepKeeps,
         FinalizeCommitKeeps, LatestAttachKeeps DEF ReaderStep
    <2>4. ASSUME NEW c \in Slots, Fail(c), UNCHANGED <<readerTables, active, voters>> PROVE ReaderInv'
      BY <2>4, ReaderFinishQuiet DEF Fail
    <2>5. ASSUME NEW m \in board, AccountChange(m), UNCHANGED voters PROVE ReaderInv'
      BY <2>5, AccountChangeKeeps
    <2> QED  BY <2>1, <2>2, <2>3, <2>4, <2>5 DEF ReaderNext
  <1> QED  BY <1>1, InitReaderInv, PTL DEF ReaderSpec

\* Every table of the imports has values of its type, and ids never run out of their bound.
THEOREM ReaderTypes == ReaderSpec => []ReaderTypeOK
  <1>1. ReaderInv => ReaderTypeOK
    BY DEF ReaderInv
  <1> QED  BY <1>1, ReaderInvariant, PTL

\* However imports, deletions and the adoption of older rows interleave: no ranked row
\* belongs to a deleted import.
THEOREM RowsKeepLiveImport == ReaderSpec => []RowsHaveLiveImport
  <1>1. ReaderInv => RowsHaveLiveImport
    BY DEF ReaderInv
  <1> QED  BY <1>1, ReaderInvariant, PTL

-----------------------------------------------------------------------------
(* One request at a time. *)

Unanimous(i) == \A m \in active : m = asked[i].by \/ m \in approval[i]

\* What a request that runs alone has learnt and nobody has changed since.
ReaderTold(q) ==
    /\ q.pc = "import_commit" => Conflicts(q.start) = {}
    /\ q.pc = "ask_existing" => Live(q.id)
    /\ q.pc = "ask_upsert" => Live(q.id) /\ asked[q.id].status = "NONE"
    /\ q.pc = "ask_board" => asked[q.id].by = q.member
    /\ q.pc = "approve_insert" => asked[q.id].by # q.member /\ asked[q.id].status = "PENDING"
    /\ q.pc \in {"finalize_find", "finalize_commit"} => Unanimous(q.id)

\* Who has asked for a deletion is not among those who approve it, and nobody approves
\* before anybody has asked.
AskedInOrder ==
    \A i \in ImportIds :
        /\ asked[i].status # "NONE" => i \in Made
        /\ asked[i].status = "NONE" => approval[i] = {}
        /\ asked[i].status = "APPROVED" => ~Live(i)
        /\ asked[i].by \notin approval[i]

ReaderAlone == \A c, d \in Slots : ~At(c, "idle") /\ ~At(d, "idle") => c = d

NoOverlap ==
    \A i, j \in ImportIds : Live(i) /\ Live(j) /\ i # j => ~Overlaps(import[i].start, import[j].start)

ReaderTurn == ReaderAlone /\ (\A c \in Slots : ReaderTold(slot[c])) /\ AskedInOrder /\ NoOverlap
ReaderTurnInv == InTurn => ReaderTurn

\* Before the first request.
LEMMA ReaderInitTurn == ReaderInit => ReaderTurn
  <1> SUFFICES ASSUME ReaderInit PROVE ReaderTurn
    OBVIOUS
  <1> USE DEF ReaderInit, ReaderStart, RequestsInit
  <1>1. ReaderAlone /\ \A c \in Slots : ReaderTold(slot[c])
    BY DEF ReaderAlone, At, ReaderTold, Idle
  <1>2. AskedInOrder /\ NoOverlap
    BY DEF AskedInOrder, NoOverlap, Live, NoImport, NoRequest
  <1> QED  BY <1>1, <1>2 DEF ReaderTurn

\* A slot makes a step, and the other ones are empty.
LEMMA ReaderTurnStep ==
    ASSUME ReaderInv, NEW c \in Slots, \A d \in Slots \ {c} : At(d, "idle"),
           NEW request, slot' = [slot EXCEPT ![c] = request], ReaderTold(request)',
           AskedInOrder', NoOverlap'
    PROVE  ReaderTurn'
  <1>1. \A d \in Slots : slot'[d] = IF d = c THEN request ELSE slot[d]
    BY DEF ReaderInv
  <1>2. ReaderAlone'
    BY <1>1 DEF ReaderAlone, At
  <1>3. ASSUME NEW d \in Slots PROVE ReaderTold(slot[d])'
    <2>1. CASE d = c
      BY <1>1, <2>1 DEF ReaderTold, Unanimous, Conflicts, Live
    <2>2. CASE d # c
      BY <1>1, <2>2 DEF ReaderTold, At
    <2> QED  BY <2>1, <2>2
  <1> QED  BY <1>2, <1>3 DEF ReaderTurn

\* A step that leaves the tables alone.
LEMMA ReaderQuietTurn ==
    ASSUME ReaderInv, ReaderTurn, NEW c \in Slots, \A d \in Slots \ {c} : At(d, "idle"),
           NEW request, slot' = [slot EXCEPT ![c] = request], ReaderTold(request),
           UNCHANGED <<readerTables, active>>
    PROVE  ReaderTurn'
  <1>1. ReaderTold(request)'
    BY DEF ReaderTold, Unanimous, Conflicts, Live, readerTables
  <1>2. AskedInOrder' /\ NoOverlap'
    BY DEF ReaderTurn, AskedInOrder, NoOverlap, Live, Made, readerTables
  <1> QED  BY <1>1, <1>2, ReaderTurnStep

\* A handler that returns, or dies.
LEMMA ReaderFinishTurn ==
    ASSUME ReaderInv, ReaderTurn, NEW c \in Slots, ~At(c, "idle"), Finish(c),
           UNCHANGED <<readerTables, active>>
    PROVE  ReaderTurn'
  <1>1. ReaderTold(Idle)
    BY DEF ReaderTold, Idle
  <1>2. \A d \in Slots \ {c} : At(d, "idle")
    BY DEF ReaderTurn, ReaderAlone
  <1> QED  BY <1>1, <1>2, ReaderQuietTurn DEF Finish

\* Calls that come when all slots are empty.
LEMMA ReaderCallTurn ==
    ASSUME ReaderInv, ReaderTurn, InTurn, NEW c \in Slots, ReaderCall(c), UNCHANGED active
    PROVE  ReaderTurn'
  <1>1. ASSUME NEW request, Enter(c, request), ReaderTold(request), UNCHANGED readerTables PROVE ReaderTurn'
    <2>1. \A d \in Slots \ {c} : At(d, "idle")
      BY <1>1 DEF Enter, Quiet
    <2> QED  BY <1>1, <2>1, ReaderQuietTurn DEF Enter
  <1>2. ASSUME NEW start \in Weeks, NEW csv \in Csvs, ImportRead(c, start, csv) PROVE ReaderTurn'
    <2> DEFINE request == [pc |-> "import_commit", start |-> start, rows |-> csv.rows, low |-> csv.low]
    <2>1. ReaderTold(request)
      BY <1>2 DEF ReaderTold, ImportRead
    <2> QED  BY <1>1, <1>2, <2>1 DEF ImportRead
  <1>3. ASSUME NEW m \in board, NEW start \in Weeks, ImportRefused(c, m, start) PROVE ReaderTurn'
    BY <1>1, <1>3 DEF ImportRefused, ReaderTold
  <1>4. ASSUME NEW m \in board, NEW i \in Made, AskCall(c, m, i) \/ ApproveFind(c, m, i) PROVE ReaderTurn'
    BY <1>1, <1>4 DEF AskCall, ApproveFind, ReaderTold
  <1>5. ASSUME NEW i \in Made, LatestRead(c, i) PROVE ReaderTurn'
    BY <1>1, <1>5 DEF LatestRead, ReaderTold
  <1> QED  BY <1>2, <1>3, <1>4, <1>5 DEF ReaderCall

\* approvalCount and requiredApprovals are numbers: if the first has reached the second,
\* everybody but the one who has asked has approved.
LEMMA EveryApprovalCounted ==
    ASSUME ReaderInv, AskedInOrder, NEW i \in ImportIds, approvalCount(i) >= requiredApprovals(i)
    PROVE  Unanimous(i)
  <1> DEFINE others == active \ {asked[i].by}
             given == approval[i] \cap active
  <1>1. active \subseteq Members
    BY ReaderVotesAssumption DEF ReaderInv, ReaderTypeOK, board
  <1>2. IsFiniteSet(others)
    <2>1. others \subseteq Members
      BY <1>1
    <2> QED  BY <2>1, FS_Subset, ReaderVotesAssumption
  <1>3. given \subseteq others
    BY DEF AskedInOrder
  <1>4. given = others
    <2>1. IsFiniteSet(given) /\ Cardinality(given) <= Cardinality(others)
      BY <1>2, <1>3, FS_Subset
    <2>2. Cardinality(given) \in Nat /\ Cardinality(others) \in Nat
      BY <1>2, <2>1, FS_CardinalityType
    <2>3. Cardinality(given) = Cardinality(others)
      BY <2>1, <2>2 DEF approvalCount, requiredApprovals
    <2> QED  BY <1>2, <1>3, <2>3, FS_Subset
  <1> QED  BY <1>4 DEF Unanimous

\* Statements that read, and go on only when they have seen what the next one takes for
\* granted.
LEMMA ReadingTurn ==
    ASSUME ReaderInv, ReaderTurn, NEW c \in Slots, UNCHANGED active,
           \/ PageConfirm(c) \/ AskFind(c) \/ AskExisting(c) \/ AskBoard(c)
           \/ ApproveRequest(c) \/ ApproveSummary(c) \/ FinalizeFind(c)
    PROVE  ReaderTurn'
  <1>1. slot[c] \in MemberRequest /\ slot[c].pc \in MemberSteps
    BY ReaderRequestShapes DEF ReaderInv, MemberSteps, At, PageConfirm, AskFind, AskExisting, AskBoard,
                         ApproveRequest, ApproveSummary, FinalizeFind
  <1>2. ~At(c, "idle") /\ \A d \in Slots \ {c} : At(d, "idle")
    BY <1>1 DEF MemberSteps, At, ReaderTurn, ReaderAlone
  <1>3. slot[c].id \in ImportIds /\ slot[c].member \in Members
    BY <1>1 DEF MemberRequest
  <1>4. ASSUME NEW step \in MemberSteps, Goto(c, step), UNCHANGED readerTables,
               ReaderTold([slot[c] EXCEPT !.pc = step])
        PROVE  ReaderTurn'
    BY <1>2, <1>4, ReaderQuietTurn DEF Goto
  <1>5. ASSUME NEW step \in MemberSteps
        PROVE  /\ [slot[c] EXCEPT !.pc = step].pc = step
               /\ [slot[c] EXCEPT !.pc = step].id = slot[c].id
               /\ [slot[c] EXCEPT !.pc = step].member = slot[c].member
    BY <1>1 DEF MemberRequest
  <1>6. ASSUME Finish(c), UNCHANGED readerTables PROVE ReaderTurn'
    BY <1>2, <1>6, ReaderFinishTurn
  <1> USE DEF MemberSteps
  <1>7. CASE PageConfirm(c)
    <2>1. ReaderTold([slot[c] EXCEPT !.pc = "ask_find"])
      BY <1>5 DEF ReaderTold
    <2> QED  BY <1>4, <1>6, <1>7, <2>1 DEF PageConfirm
  <1>8. CASE AskFind(c)
    <2>1. Live(slot[c].id) => ReaderTold([slot[c] EXCEPT !.pc = "ask_existing"])
      BY <1>5 DEF ReaderTold
    <2> QED  BY <1>4, <1>6, <1>8, <2>1 DEF AskFind
  <1>9. CASE AskExisting(c)
    <2>1. Live(slot[c].id)
      BY <1>9 DEF AskExisting, At, ReaderTurn, ReaderTold
    <2>2. asked[slot[c].id].status \in {"NONE", "PENDING", "APPROVED"}
      BY <1>3 DEF ReaderInv, ReaderTypeOK
    <2>3. asked[slot[c].id].status # "PENDING" => ReaderTold([slot[c] EXCEPT !.pc = "ask_upsert"])
      BY <1>3, <1>5, <2>1, <2>2 DEF ReaderTold, ReaderTurn, AskedInOrder
    <2> QED  BY <1>4, <1>6, <1>9, <2>3 DEF AskExisting
  <1>10. CASE AskBoard(c)
    <2>1. asked[slot[c].id].by = slot[c].member
      BY <1>10 DEF AskBoard, At, ReaderTurn, ReaderTold
    <2>2. activeBoardUsersExcept(slot[c].member) = {} => Unanimous(slot[c].id)
      BY <2>1 DEF activeBoardUsersExcept, Unanimous
    <2>3. activeBoardUsersExcept(slot[c].member) = {} => ReaderTold([slot[c] EXCEPT !.pc = "finalize_find"])
      BY <1>5, <2>2 DEF ReaderTold
    <2> QED  BY <1>4, <1>6, <1>10, <2>3 DEF AskBoard
  <1>11. CASE ApproveRequest(c)
    <2>1. mayApprove(slot[c].member, slot[c].id) => ReaderTold([slot[c] EXCEPT !.pc = "approve_insert"])
      BY <1>5 DEF ReaderTold, mayApprove
    <2> QED  BY <1>4, <1>6, <1>11, <2>1 DEF ApproveRequest
  <1>12. CASE ApproveSummary(c)
    <2>1. approvalCount(slot[c].id) >= requiredApprovals(slot[c].id)
              => ReaderTold([slot[c] EXCEPT !.pc = "finalize_find"])
      BY <1>3, <1>5, EveryApprovalCounted DEF ReaderTold, ReaderTurn
    <2> QED  BY <1>4, <1>6, <1>12, <2>1 DEF ApproveSummary
  <1>13. CASE FinalizeFind(c)
    <2>1. Unanimous(slot[c].id)
      BY <1>13 DEF FinalizeFind, At, ReaderTurn, ReaderTold
    <2>2. ReaderTold([slot[c] EXCEPT !.pc = "finalize_commit"])
      BY <1>5, <2>1 DEF ReaderTold
    <2> QED  BY <1>4, <1>6, <1>13, <2>2 DEF FinalizeFind
  <1> QED  BY <1>7, <1>8, <1>9, <1>10, <1>11, <1>12, <1>13

\* The upsert of the request: it is the first one for this import.
LEMMA AskUpsertTurn ==
    ASSUME ReaderInv, ReaderTurn, NEW c \in Slots, AskUpsert(c), UNCHANGED active
    PROVE  ReaderTurn'
  <1>0. PICK i, request : i = slot[c].id /\ request = [slot[c] EXCEPT !.pc = "ask_board"]
    OBVIOUS
  <1>1. slot[c] \in MemberRequest /\ slot[c].pc = "ask_upsert"
    BY ReaderRequestShapes DEF ReaderInv, AskUpsert, At, MemberSteps
  <1>2. i \in ImportIds /\ Live(i) /\ asked[i].status = "NONE"
    BY <1>0, <1>1 DEF MemberRequest, ReaderTurn, ReaderTold
  <1>3. \A d \in Slots \ {c} : At(d, "idle")
    BY <1>1 DEF At, ReaderTurn, ReaderAlone
  <1>4. /\ asked' = [asked EXCEPT ![i] = [by |-> slot[c].member, status |-> "PENDING"]]
        /\ UNCHANGED <<import, approval>>
        /\ slot' = [slot EXCEPT ![c] = request]
    BY <1>0 DEF AskUpsert, Goto
  <1>5. \A j \in ImportIds : asked'[j] = IF j = i THEN [by |-> slot[c].member, status |-> "PENDING"]
                                        ELSE asked[j]
    BY <1>2, <1>4 DEF ReaderInv, ReaderTypeOK
  <1>6. ReaderTold(request)'
    <2>1. request.pc = "ask_board" /\ request.id = i /\ request.member = slot[c].member
      BY <1>0, <1>1 DEF MemberRequest
    <2>2. asked'[i].by = slot[c].member
      BY <1>2, <1>5
    <2>3. request.pc = "ask_board" => asked'[request.id].by = request.member
      BY <2>1, <2>2
    <2> QED  BY <2>1, <2>3 DEF ReaderTold
  <1>7. AskedInOrder'
    <2>1. i \in Made /\ approval[i] = {}
      BY <1>2 DEF Live, Made, ReaderTurn, AskedInOrder
    <2> QED  BY <1>4, <1>5, <2>1 DEF ReaderTurn, AskedInOrder, Live, Made
  <1>8. NoOverlap'
    BY <1>4 DEF ReaderTurn, NoOverlap, Live
  <1> QED  BY <1>3, <1>4, <1>6, <1>7, <1>8, ReaderTurnStep

\* The insert of an approval: not by the one who has asked.
LEMMA ApproveInsertTurn ==
    ASSUME ReaderInv, ReaderTurn, NEW c \in Slots, ApproveInsert(c), UNCHANGED active
    PROVE  ReaderTurn'
  <1>0. PICK i, request : i = slot[c].id /\ request = [slot[c] EXCEPT !.pc = "approve_summary"]
    OBVIOUS
  <1>1. slot[c] \in MemberRequest /\ slot[c].pc = "approve_insert"
    BY ReaderRequestShapes DEF ReaderInv, ApproveInsert, At, MemberSteps
  <1>2. i \in ImportIds /\ asked[i].by # slot[c].member /\ asked[i].status = "PENDING"
    BY <1>0, <1>1 DEF MemberRequest, ReaderTurn, ReaderTold
  <1>3. \A d \in Slots \ {c} : At(d, "idle")
    BY <1>1 DEF At, ReaderTurn, ReaderAlone
  <1>4. /\ approval' = [approval EXCEPT ![i] = @ \cup {slot[c].member}]
        /\ UNCHANGED <<import, asked>>
        /\ slot' = [slot EXCEPT ![c] = request]
    BY <1>0 DEF ApproveInsert, Goto
  <1>5. \A j \in ImportIds : approval'[j] = IF j = i THEN approval[i] \cup {slot[c].member}
                                           ELSE approval[j]
    BY <1>2, <1>4 DEF ReaderInv, ReaderTypeOK
  <1>6. ReaderTold(request)'
    <2>1. request.pc = "approve_summary"
      BY <1>0, <1>1 DEF MemberRequest
    <2> QED  BY <2>1 DEF ReaderTold
  <1>7. AskedInOrder'
    BY <1>2, <1>4, <1>5 DEF ReaderTurn, AskedInOrder, Live, Made
  <1>8. NoOverlap'
    BY <1>4 DEF ReaderTurn, NoOverlap, Live
  <1> QED  BY <1>3, <1>4, <1>6, <1>7, <1>8, ReaderTurnStep

\* The import that is made overlaps no other: none has come since they were compared.
LEMMA ImportCommitTurn ==
    ASSUME ReaderInv, ReaderTurn, NEW c \in Slots, ImportCommit(c), UNCHANGED <<active, voters>>
    PROVE  ReaderTurn'
  <1>0. PICK id, request : id = Cardinality(Made) + 1 /\ request = [slot[c] EXCEPT !.pc = "import_mark"]
    OBVIOUS
  <1>1. slot[c] \in ImportRequest /\ slot[c].pc = "import_commit"
    BY ReaderRequestShapes DEF ReaderInv, ImportCommit, At
  <1>2. \A d \in Slots \ {c} : At(d, "idle")
    BY <1>1 DEF At, ReaderTurn, ReaderAlone
  <1>3. /\ import' = [import EXCEPT ![id] = [start |-> slot[c].start, status |-> "IMPORTED"]]
        /\ UNCHANGED <<asked, approval>>
        /\ slot' = [slot EXCEPT ![c] = request]
    BY <1>0 DEF ImportCommit, Goto
  <1>4. id \notin Made
    BY <1>0, FS_CardinalityType DEF ReaderInv, ImportsInOrder
  <1>5. \A j \in ImportIds : import'[j] = IF j = id THEN [start |-> slot[c].start, status |-> "IMPORTED"]
                                         ELSE import[j]
    BY <1>3 DEF ReaderInv, ReaderTypeOK
  <1>6. ReaderTold(request)'
    <2>1. request.pc = "import_mark"
      BY <1>0, <1>1 DEF ImportRequest
    <2> QED  BY <2>1 DEF ReaderTold
  <1>7. AskedInOrder'
    BY <1>3, <1>4, <1>5 DEF ReaderTurn, AskedInOrder, Live, Made
  <1>8. NoOverlap'
    <2>1. \A j \in ImportIds : Live(j) => ~Overlaps(import[j].start, slot[c].start)
      BY <1>1 DEF ReaderTurn, ReaderTold, Conflicts
    <2>2. slot[c].start \in Int /\ \A j \in ImportIds : import[j].start \in Int
      <3>1. \A w \in Weeks \cup {0} : w \in Int
        BY ReaderVotesAssumption
      <3>2. slot[c].start \in Weeks
        BY <1>1 DEF ImportRequest
      <3>3. \A j \in ImportIds : import[j].start \in Weeks \cup {0}
        BY DEF ReaderInv, ReaderTypeOK
      <3> QED  BY <3>1, <3>2, <3>3
    <2>3. \A j \in ImportIds : Live(j) => ~Overlaps(slot[c].start, import[j].start)
      BY <2>1, <2>2 DEF Overlaps, EndOf
    <2> QED  BY <1>5, <2>1, <2>3 DEF ReaderTurn, NoOverlap, Live
  <1> QED  BY <1>2, <1>3, <1>6, <1>7, <1>8, ReaderTurnStep

\* Marking a series and adopting older rows touch neither imports nor requests.
LEMMA RowsTurn ==
    ASSUME ReaderInv, ReaderTurn, NEW c \in Slots, ImportMark(c) \/ LatestAttach(c), UNCHANGED active
    PROVE  ReaderTurn'
  <1>1. \A d \in Slots \ {c} : At(d, "idle")
    BY DEF ImportMark, LatestAttach, At, ReaderTurn, ReaderAlone
  <1>2. UNCHANGED <<import, asked, approval>>
    BY DEF ImportMark, LatestAttach
  <1>3. AskedInOrder' /\ NoOverlap'
    BY <1>2 DEF ReaderTurn, AskedInOrder, NoOverlap, Live, Made
  <1>4. CASE Finish(c)
    <2>1. ReaderTold(Idle)'
      BY DEF ReaderTold, Idle
    <2> QED  BY <1>1, <1>3, <1>4, <2>1, ReaderTurnStep DEF Finish
  <1>5. ASSUME NEW s \in slot[c].low, slot' = [slot EXCEPT ![c].low = @ \ {s}], ImportMark(c)
        PROVE  ReaderTurn'
    <2>1. PICK request : request = [slot[c] EXCEPT !.low = @ \ {s}]
      OBVIOUS
    <2>2. slot[c] \in ImportRequest /\ slot[c].pc = "import_mark"
      BY <1>5, ReaderRequestShapes DEF ReaderInv, ImportMark, At
    <2>3. request.pc = "import_mark"
      BY <2>1, <2>2 DEF ImportRequest
    <2>4. ReaderTold(request)'
      BY <2>3 DEF ReaderTold
    <2>5. slot' = [slot EXCEPT ![c] = request]
      BY <1>5, <2>1
    <2> QED  BY <1>1, <1>3, <2>4, <2>5, ReaderTurnStep
  <1> QED  BY <1>4, <1>5 DEF ImportMark, LatestAttach

\* A deletion: the import and its request are both done with.
LEMMA FinalizeCommitTurn ==
    ASSUME ReaderInv, ReaderTurn, NEW c \in Slots, FinalizeCommit(c), UNCHANGED active
    PROVE  ReaderTurn'
  <1>0. PICK i : i = slot[c].id
    OBVIOUS
  <1>1. i \in Made /\ i \in ImportIds
    BY <1>0 DEF ReaderInv, ReaderKnows, FinalizeCommit, At, Made
  <1>2. \A d \in Slots \ {c} : At(d, "idle")
    BY DEF FinalizeCommit, At, ReaderTurn, ReaderAlone
  <1>3. /\ import'[i].status = "DELETED" /\ asked'[i].status = "APPROVED"
        /\ asked'[i].by = asked[i].by
        /\ \A j \in ImportIds \ {i} : import'[j] = import[j] /\ asked'[j] = asked[j]
    BY <1>0, <1>1 DEF FinalizeCommit, ReaderInv, ReaderTypeOK
  <1>4. ReaderTold(Idle)' /\ UNCHANGED approval
    BY DEF ReaderTold, Idle, FinalizeCommit
  <1>5. AskedInOrder'
    BY <1>1, <1>3, <1>4 DEF ReaderTurn, AskedInOrder, Live, Made
  <1>6. NoOverlap'
    BY <1>3 DEF ReaderTurn, NoOverlap, Live
  <1> QED  BY <1>2, <1>4, <1>5, <1>6, ReaderTurnStep DEF FinalizeCommit, Finish

\* Accounts change only while nobody counts.
LEMMA AccountChangeTurn ==
    ASSUME ReaderTurn, InTurn, NEW m \in board, AccountChange(m)
    PROVE  ReaderTurn'
  <1>1. \A c \in Slots : At(c, "idle")
    BY DEF AccountChange, Quiet
  <1>2. (\A c \in Slots : ReaderTold(slot[c]))'
    BY <1>1 DEF AccountChange, At, ReaderTold
  <1> QED  BY <1>2 DEF AccountChange, ReaderTurn, ReaderAlone, At, AskedInOrder, NoOverlap, Live, Made, readerTables

-----------------------------------------------------------------------------
\* One request at a time, what a request has learnt stays true until it returns or dies,
\* approvals follow requests, and no two live imports overlap: together inductive.
THEOREM ReaderTurnInvariant == ReaderSpec => []ReaderTurnInv
  <1>1. ReaderInit => ReaderTurnInv
    BY ReaderInitTurn DEF ReaderTurnInv
  <1>2. ReaderInv /\ ReaderTurnInv /\ [ReaderNext]_readerVars => ReaderTurnInv'
    <2> SUFFICES ASSUME ReaderInv, ReaderTurnInv, [ReaderNext]_readerVars, InTurn' PROVE ReaderTurn'
      BY DEF ReaderTurnInv
    <2>1. InTurn /\ ReaderTurn
      BY DEF ReaderNext, readerVars, requestVars, InTurn, ReaderTurnInv
    <2>2. CASE UNCHANGED readerVars
      <3> USE <2>1, <2>2 DEF readerVars, readerTables, requestVars
      <3>1. (\A c \in Slots : ReaderTold(slot[c]))'
        BY DEF ReaderTurn, ReaderTold, Unanimous, Conflicts, Live
      <3> QED  BY <3>1 DEF ReaderTurn, ReaderAlone, At, AskedInOrder, NoOverlap, Live, Made
    <2>3. ASSUME NEW c \in Slots, ReaderCall(c), UNCHANGED <<active, voters>> PROVE ReaderTurn'
      BY <2>1, <2>3, ReaderCallTurn
    <2>4. ASSUME NEW c \in Slots, ReaderStep(c), UNCHANGED <<active, voters>> PROVE ReaderTurn'
      BY <2>1, <2>4, ReadingTurn, AskUpsertTurn, ApproveInsertTurn, ImportCommitTurn, RowsTurn,
         FinalizeCommitTurn DEF ReaderStep
    <2>5. ASSUME NEW c \in Slots, Fail(c), UNCHANGED <<readerTables, active, voters>> PROVE ReaderTurn'
      BY <2>1, <2>5, ReaderFinishTurn DEF Fail
    <2>6. ASSUME NEW m \in board, AccountChange(m) PROVE ReaderTurn'
      BY <2>1, <2>6, AccountChangeTurn
    <2> QED  BY <2>2, <2>3, <2>4, <2>5, <2>6 DEF ReaderNext
  <1> QED  BY <1>1, <1>2, ReaderInvariant, PTL DEF ReaderSpec

\* One request at a time, no two live imports overlap.
THEOREM WeeksStayImportedOnce == ReaderSpec => []WeeksAreImportedOnce
  <1>1. ReaderTurnInv => WeeksAreImportedOnce
    BY DEF ReaderTurnInv, ReaderTurn, NoOverlap, WeeksAreImportedOnce
  <1> QED  BY <1>1, ReaderTurnInvariant, PTL

\* One request at a time, an import goes only when every active member has approved it or
\* asked for it, whoever is locked or unlocked in between.
THEOREM DeletionStaysUnanimous == ReaderSpec => DeletionIsUnanimous
  <1> DEFINE Deletes(i) == Live(i) /\ import'[i].status = "DELETED"
             Step == InTurn => \A i \in ImportIds : Deletes(i) => Unanimous(i)
  <1>1. ReaderInv /\ ReaderTurnInv /\ [ReaderNext]_readerVars => Step
    <2> SUFFICES ASSUME ReaderInv, ReaderTurn, ReaderNext, NEW i \in ImportIds, Deletes(i)
                 PROVE  Unanimous(i)
      BY DEF ReaderTurnInv, readerVars, readerTables, Live
    <2>1. import' # import
      BY DEF Live
    <2>2. PICK c \in Slots : ImportCommit(c) \/ FinalizeCommit(c)
      BY <2>1 DEF ReaderNext, ReaderCall, ReaderStep, readerTables, AccountChange, ImportRead,
                  ImportRefused, AskCall, ApproveFind, LatestRead, ImportMark, PageConfirm,
                  AskFind, AskExisting, AskUpsert, AskBoard, ApproveRequest, ApproveInsert,
                  ApproveSummary, FinalizeFind, LatestAttach
    <2>3. CASE ImportCommit(c)
      BY <2>3 DEF ImportCommit, ReaderInv, ReaderTypeOK, Live
    <2>4. CASE FinalizeCommit(c)
      <3>1. Unanimous(slot[c].id)
        BY <2>4 DEF FinalizeCommit, At, ReaderTurn, ReaderTold
      <3>2. i = slot[c].id
        BY <2>4 DEF FinalizeCommit, ReaderInv, ReaderTypeOK, Live
      <3> QED  BY <3>1, <3>2
    <2> QED  BY <2>2, <2>3, <2>4
  <1>2. Step => [InTurn => \A i \in ImportIds : Live(i) /\ import'[i].status = "DELETED" =>
                    \A m \in active : m = asked[i].by \/ m \in approval[i]]_readerVars
    BY DEF Unanimous
  <1> QED  BY <1>1, <1>2, ReaderInvariant, ReaderTurnInvariant, PTL DEF ReaderSpec, DeletionIsUnanimous

-----------------------------------------------------------------------------
(* Several requests at once, none of which dies, while no account changes. *)

AfterAsking == {"ask_board", "approve_insert", "approve_summary", "finalize_find", "finalize_commit"}

Heard(q) ==
    /\ q.pc \in MemberSteps => q.member \in active
    /\ q.pc \in {"ask_existing", "ask_upsert"} => q.id \in Made
    /\ q.pc \in AfterAsking => asked[q.id].status # "NONE"

\* A deletion is asked for by an active member, once the import is made; nobody approves
\* before; and when the request is approved the import is gone.
AskedByActive ==
    \A i \in ImportIds :
        /\ asked[i].status # "NONE" => i \in Made /\ asked[i].by \in active
        /\ asked[i].status = "NONE" => approval[i] = {}
        /\ Live(i) => asked[i].status # "APPROVED"

\* The request q is going to find out that the last approval of import i has come.
ReaderSettling(q, i) ==
    \/ q.pc \in {"approve_summary", "finalize_find", "finalize_commit"} /\ q.id = i
    \/ q.pc = "ask_board" /\ q.id = i /\ active = {q.member}

Due(i) == Live(i) /\ asked[i].status = "PENDING" /\ approvalCount(i) >= requiredApprovals(i)
DueIsSettled == \A i \in ImportIds : Due(i) => \E c \in Slots : ReaderSettling(slot[c], i)

Offer == (\A c \in Slots : Heard(slot[c])) /\ AskedByActive /\ DueIsSettled
OfferInv == Undisturbed => Offer

\* The sets that are counted are finite.
LEMMA ActiveIsFinite ==
    ASSUME ReaderInv
    PROVE  IsFiniteSet(active)
  <1>1. active \subseteq Members
    BY ReaderVotesAssumption DEF ReaderInv, ReaderTypeOK, board
  <1> QED  BY <1>1, FS_Subset, ReaderVotesAssumption

\* Whoever of the active members has asked, all the others have to approve.
LEMMA RequiredApprovals ==
    ASSUME ReaderInv, NEW i \in ImportIds, asked[i].by \in active
    PROVE  /\ requiredApprovals(i) = Cardinality(active) - 1
           /\ Cardinality(active) \in Nat /\ approvalCount(i) \in Nat
  <1>1. IsFiniteSet(active) /\ IsFiniteSet(approval[i] \cap active)
    BY ActiveIsFinite, FS_Subset
  <1> QED  BY <1>1, FS_RemoveElement, FS_CardinalityType DEF requiredApprovals, approvalCount

\* A step of one slot that changes no request for a deletion.
LEMMA OfferStep ==
    ASSUME ReaderInv, Offer, NEW c \in Slots, NEW request, slot' = [slot EXCEPT ![c] = request],
           Heard(request), UNCHANGED <<import, asked, approval, active>>,
           \A i \in ImportIds : Due(i) /\ ReaderSettling(slot[c], i) => ReaderSettling(request, i)
    PROVE  Offer'
  <1>1. \A d \in Slots : slot'[d] = IF d = c THEN request ELSE slot[d]
    BY DEF ReaderInv
  <1>2. (\A d \in Slots : Heard(slot[d]))'
    BY <1>1 DEF Offer, Heard, AfterAsking, Made
  <1>3. AskedByActive'
    BY DEF Offer, AskedByActive, Made, Live
  <1>4. DueIsSettled'
    <2> SUFFICES ASSUME NEW i \in ImportIds, Due(i)' PROVE (\E d \in Slots : ReaderSettling(slot[d], i))'
      BY DEF DueIsSettled
    <2>1. Due(i)
      BY DEF Due, Live, approvalCount, requiredApprovals
    <2>2. PICK d \in Slots : ReaderSettling(slot[d], i)
      BY <2>1 DEF Offer, DueIsSettled
    <2>3. ReaderSettling(slot'[d], i)
      BY <1>1, <2>1, <2>2
    <2> QED  BY <2>3 DEF ReaderSettling
  <1> QED  BY <1>2, <1>3, <1>4 DEF Offer

\* A slot whose request is not going to settle anything.
LEMMA OtherOffer ==
    ASSUME ReaderInv, Offer, NEW c \in Slots, NEW request, slot' = [slot EXCEPT ![c] = request],
           Heard(request), UNCHANGED <<import, asked, approval, active>>,
           slot[c].pc \notin {"ask_board", "approve_summary", "finalize_find", "finalize_commit"}
    PROVE  Offer'
  <1>1. \A i \in ImportIds : ~ReaderSettling(slot[c], i)
    BY DEF ReaderSettling
  <1> QED  BY <1>1, OfferStep

\* A handler that returns.
LEMMA FinishOffer ==
    ASSUME ReaderInv, Offer, NEW c \in Slots, Finish(c), UNCHANGED <<import, asked, approval, active>>,
           \A i \in ImportIds : Due(i) => ~ReaderSettling(slot[c], i)
    PROVE  Offer'
  <1>1. Heard(Idle)
    BY DEF Heard, AfterAsking, Idle, MemberSteps
  <1> QED  BY <1>1, OfferStep DEF Finish

\* The calls: an active member asks or approves.
LEMMA CallOffer ==
    ASSUME ReaderInv, Offer, NEW c \in Slots, ReaderCall(c), UNCHANGED active
    PROVE  Offer'
  <1>1. ASSUME NEW request, Enter(c, request), Heard(request), UNCHANGED readerTables PROVE Offer'
    BY <1>1, OtherOffer DEF Enter, At, readerTables
  <1> USE DEF Heard, AfterAsking, MemberSteps
  <1>2. ASSUME NEW start \in Weeks, NEW csv \in Csvs, ImportRead(c, start, csv) PROVE Offer'
    BY <1>1, <1>2 DEF ImportRead
  <1>3. ASSUME NEW m \in board, NEW start \in Weeks, ImportRefused(c, m, start) PROVE Offer'
    BY <1>1, <1>3 DEF ImportRefused
  <1>4. ASSUME NEW m \in board, NEW i \in Made, AskCall(c, m, i) \/ ApproveFind(c, m, i) PROVE Offer'
    BY <1>1, <1>4 DEF AskCall, ApproveFind
  <1>5. ASSUME NEW i \in Made, LatestRead(c, i) PROVE Offer'
    BY <1>1, <1>5 DEF LatestRead
  <1> QED  BY <1>2, <1>3, <1>4, <1>5 DEF ReaderCall

\* Statements that read: the one that comes across the last approval goes on to the deletion.
LEMMA ReadingOffer ==
    ASSUME ReaderInv, Offer, NEW c \in Slots, UNCHANGED active,
           \/ PageConfirm(c) \/ AskFind(c) \/ AskExisting(c) \/ AskBoard(c)
           \/ ApproveRequest(c) \/ ApproveSummary(c) \/ FinalizeFind(c)
    PROVE  Offer'
  <1>1. slot[c] \in MemberRequest /\ slot[c].pc \in MemberSteps /\ UNCHANGED readerTables
    BY ReaderRequestShapes DEF ReaderInv, MemberSteps, At, PageConfirm, AskFind, AskExisting, AskBoard,
                         ApproveRequest, ApproveSummary, FinalizeFind
  <1>2. slot[c].id \in ImportIds /\ slot[c].member \in active
    BY <1>1 DEF MemberRequest, Offer, Heard, AfterAsking
  <1>3. ASSUME NEW step \in MemberSteps
        PROVE  /\ [slot[c] EXCEPT !.pc = step].pc = step
               /\ [slot[c] EXCEPT !.pc = step].id = slot[c].id
               /\ [slot[c] EXCEPT !.pc = step].member = slot[c].member
    BY <1>1 DEF MemberRequest
  <1>4. ASSUME NEW step \in MemberSteps, Goto(c, step),
               step \in {"ask_existing", "ask_upsert"} => slot[c].id \in Made,
               step \in AfterAsking => asked[slot[c].id].status # "NONE",
               \/ step \in {"finalize_find", "finalize_commit"}
               \/ \A i \in ImportIds : Due(i) => ~ReaderSettling(slot[c], i)
        PROVE  Offer'
    <2>1. PICK request : request = [slot[c] EXCEPT !.pc = step]
      OBVIOUS
    <2>2. request.pc = step /\ request.id = slot[c].id /\ request.member = slot[c].member
      BY <1>3, <2>1
    <2>3. Heard(request)
      BY <1>2, <1>4, <2>2 DEF Heard, AfterAsking
    <2>4. \A i \in ImportIds : Due(i) /\ ReaderSettling(slot[c], i) => ReaderSettling(request, i)
      BY <1>4, <2>2 DEF ReaderSettling
    <2>5. slot' = [slot EXCEPT ![c] = request]
      BY <1>4, <2>1 DEF Goto
    <2> QED  BY <1>1, <2>3, <2>4, <2>5, OfferStep DEF readerTables
  <1>5. ASSUME Finish(c), \A i \in ImportIds : Due(i) => ~ReaderSettling(slot[c], i) PROVE Offer'
    BY <1>1, <1>5, FinishOffer DEF readerTables
  <1>6. ASSUME slot[c].pc \notin {"ask_board", "approve_summary", "finalize_find", "finalize_commit"}
        PROVE  \A i \in ImportIds : ~ReaderSettling(slot[c], i)
    BY <1>6 DEF ReaderSettling
  <1>14. slot[c].pc \in AfterAsking => asked[slot[c].id].status # "NONE"
    BY DEF Offer, Heard
  <1> USE DEF MemberSteps, AfterAsking
  <1>7. CASE PageConfirm(c)
    BY <1>4, <1>5, <1>6, <1>7 DEF PageConfirm, At
  <1>8. CASE AskFind(c)
    <2>1. Live(slot[c].id) => slot[c].id \in Made
      BY <1>2 DEF Live, Made
    <2> QED  BY <1>4, <1>5, <1>6, <1>8, <2>1 DEF AskFind, At
  <1>9. CASE AskExisting(c)
    <2>1. slot[c].id \in Made
      BY <1>9 DEF AskExisting, At, Offer, Heard, AfterAsking
    <2> QED  BY <1>4, <1>5, <1>6, <1>9, <2>1 DEF AskExisting, At
  <1>10. CASE AskBoard(c)
    <2>1. CASE activeBoardUsersExcept(slot[c].member) = {}
      BY <1>4, <1>10, <1>14, <2>1 DEF AskBoard, At
    <2>2. CASE activeBoardUsersExcept(slot[c].member) # {}
      <3>1. \A i \in ImportIds : ~ReaderSettling(slot[c], i)
        BY <1>10, <2>2 DEF AskBoard, At, ReaderSettling, activeBoardUsersExcept
      <3> QED  BY <1>5, <1>10, <2>2, <3>1 DEF AskBoard
    <2> QED  BY <2>1, <2>2
  <1>11. CASE ApproveRequest(c)
    <2>1. mayApprove(slot[c].member, slot[c].id) => asked[slot[c].id].status # "NONE"
      BY DEF mayApprove
    <2> QED  BY <1>4, <1>5, <1>6, <1>11, <2>1 DEF ApproveRequest, At
  <1>12. CASE ApproveSummary(c)
    <2>1. CASE Goto(c, "finalize_find")
      BY <1>4, <1>12, <1>14, <2>1 DEF ApproveSummary, At
    <2>2. CASE Finish(c) /\ ~(asked[slot[c].id].status = "PENDING"
                                /\ approvalCount(slot[c].id) >= requiredApprovals(slot[c].id))
      <3>1. \A i \in ImportIds : Due(i) => ~ReaderSettling(slot[c], i)
        BY <1>12, <2>2 DEF ApproveSummary, At, ReaderSettling, Due
      <3> QED  BY <1>5, <2>2, <3>1
    <2> QED  BY <1>12, <2>1, <2>2 DEF ApproveSummary
  <1>13. CASE FinalizeFind(c)
    <2>1. CASE Live(slot[c].id)
      BY <1>4, <1>13, <1>14, <2>1 DEF FinalizeFind, At
    <2>2. CASE ~Live(slot[c].id)
      <3>1. \A i \in ImportIds : Due(i) => ~ReaderSettling(slot[c], i)
        BY <1>13, <2>2 DEF FinalizeFind, At, ReaderSettling, Due
      <3> QED  BY <1>5, <1>13, <2>2, <3>1 DEF FinalizeFind
    <2> QED  BY <2>1, <2>2
  <1> QED  BY <1>7, <1>8, <1>9, <1>10, <1>11, <1>12, <1>13

\* The upsert: the first one finds no approvals, and with a single member it settles the
\* request itself; a later one changes the author, not the number of approvals that are due.
LEMMA AskUpsertOffer ==
    ASSUME ReaderInv, Offer, NEW c \in Slots, AskUpsert(c), UNCHANGED active
    PROVE  Offer'
  <1>0. PICK i, m, request : i = slot[c].id /\ m = slot[c].member
                             /\ request = [slot[c] EXCEPT !.pc = "ask_board"]
    OBVIOUS
  <1>1. slot[c] \in MemberRequest /\ slot[c].pc = "ask_upsert"
    BY ReaderRequestShapes DEF ReaderInv, AskUpsert, At, MemberSteps
  <1>2. i \in ImportIds /\ i \in Made /\ m \in active
    BY <1>0, <1>1 DEF MemberRequest, Offer, Heard, AfterAsking, MemberSteps
  <1>3. /\ asked' = [asked EXCEPT ![i] = [by |-> m, status |-> "PENDING"]]
        /\ UNCHANGED <<import, approval>>
        /\ slot' = [slot EXCEPT ![c] = request]
    BY <1>0 DEF AskUpsert, Goto
  <1>4. /\ \A j \in ImportIds : asked'[j] = IF j = i THEN [by |-> m, status |-> "PENDING"] ELSE asked[j]
        /\ \A d \in Slots : slot'[d] = IF d = c THEN request ELSE slot[d]
    BY <1>2, <1>3 DEF ReaderInv, ReaderTypeOK
  <1>5. request.pc = "ask_board" /\ request.id = i /\ request.member = m
    BY <1>0, <1>1 DEF MemberRequest
  <1>6. (\A d \in Slots : Heard(slot[d]))'
    <2> SUFFICES ASSUME NEW d \in Slots PROVE Heard(slot[d])'
      OBVIOUS
    <2>1. CASE d = c
      BY <1>2, <1>4, <1>5, <2>1 DEF Heard, AfterAsking
    <2>2. CASE d # c
      <3>1. slot'[d] = slot[d] /\ Heard(slot[d])
        BY <1>4, <2>2 DEF Offer
      <3>2. slot[d].pc \in AfterAsking => slot[d].id \in ImportIds
        BY ReaderRequestShapes DEF ReaderInv, MemberRequest, MemberSteps, AfterAsking
      <3> QED  BY <1>3, <1>4, <3>1, <3>2 DEF Heard, AfterAsking, Made
    <2> QED  BY <2>1, <2>2
  <1>7. AskedByActive'
    BY <1>2, <1>3, <1>4 DEF Offer, AskedByActive, Live, Made
  <1>8. DueIsSettled'
    <2> SUFFICES ASSUME NEW j \in ImportIds, Due(j)' PROVE (\E d \in Slots : ReaderSettling(slot[d], j))'
      BY DEF DueIsSettled
    <2>1. Live(j) /\ approvalCount(j)' = approvalCount(j) /\ approvalCount(j)' >= requiredApprovals(j)'
      BY <1>3 DEF Due, Live, approvalCount
    <2>2. ASSUME Due(j) PROVE (\E d \in Slots : ReaderSettling(slot[d], j))'
      <3>1. PICK d \in Slots : ReaderSettling(slot[d], j)
        BY <2>2 DEF Offer, DueIsSettled
      <3>2. d # c
        BY <1>1, <3>1 DEF ReaderSettling
      <3> QED  BY <1>4, <3>1, <3>2 DEF ReaderSettling
    <2>3. CASE j # i
      <3>1. asked'[j] = asked[j]
        BY <1>4, <2>3
      <3>2. Due(j)
        BY <2>1, <3>1 DEF Due, requiredApprovals
      <3> QED  BY <2>2, <3>2
    <2>4. CASE j = i
      <3>1. asked'[i].by = m
        BY <1>2, <1>4
      <3>2. IsFiniteSet(active) /\ Cardinality(active) \in Nat
        BY ActiveIsFinite, FS_CardinalityType
      <3>3. requiredApprovals(i)' = Cardinality(active) - 1
        BY <1>2, <3>1, <3>2, FS_RemoveElement DEF requiredApprovals
      <3>4. asked[i].status \in {"NONE", "PENDING", "APPROVED"} /\ asked[i].status # "APPROVED"
        BY <1>2, <2>1, <2>4 DEF ReaderInv, ReaderTypeOK, Offer, AskedByActive
      <3>5. CASE asked[i].status = "PENDING"
        <4>1. requiredApprovals(i) = Cardinality(active) - 1
          BY <1>2, <3>5, RequiredApprovals DEF Offer, AskedByActive
        <4>2. Due(j)
          BY <2>1, <2>4, <3>3, <3>5, <4>1 DEF Due
        <4> QED  BY <2>2, <4>2
      <3>6. CASE asked[i].status = "NONE"
        <4>1. approval[i] \cap active = {}
          BY <1>2, <3>6 DEF Offer, AskedByActive
        <4>2. approvalCount(i) = 0
          BY <4>1, FS_EmptySet DEF approvalCount
        <4>3. Cardinality(active) = 1
          <5>1. Cardinality(active) # 0
            BY <1>2, <3>2, FS_EmptySet
          <5>2. 0 >= Cardinality(active) - 1
            BY <2>1, <2>4, <3>3, <4>2
          <5> QED  BY <3>2, <5>1, <5>2
        <4>4. active = {m}
          BY <1>2, <3>2, <4>3, FS_Singleton
        <4>5. ReaderSettling(slot[c], j)'
          BY <1>4, <1>5, <2>4, <4>4 DEF ReaderSettling
        <4> QED  BY <4>5
      <3> QED  BY <3>4, <3>5, <3>6
    <2> QED  BY <2>3, <2>4
  <1> QED  BY <1>6, <1>7, <1>8 DEF Offer

\* The insert of an approval is followed by a count of its own.
LEMMA ApproveInsertOffer ==
    ASSUME ReaderInv, Offer, NEW c \in Slots, ApproveInsert(c), UNCHANGED active
    PROVE  Offer'
  <1>0. PICK i, request : i = slot[c].id /\ request = [slot[c] EXCEPT !.pc = "approve_summary"]
    OBVIOUS
  <1>1. slot[c] \in MemberRequest /\ slot[c].pc = "approve_insert"
    BY ReaderRequestShapes DEF ReaderInv, ApproveInsert, At, MemberSteps
  <1>2. i \in ImportIds /\ asked[i].status # "NONE" /\ slot[c].member \in active
    BY <1>0, <1>1 DEF MemberRequest, Offer, Heard, AfterAsking, MemberSteps
  <1>3. /\ approval' = [approval EXCEPT ![i] = @ \cup {slot[c].member}]
        /\ UNCHANGED <<import, asked>>
        /\ slot' = [slot EXCEPT ![c] = request]
    BY <1>0 DEF ApproveInsert, Goto
  <1>4. /\ \A j \in ImportIds \ {i} : approval'[j] = approval[j]
        /\ \A d \in Slots : slot'[d] = IF d = c THEN request ELSE slot[d]
    BY <1>3 DEF ReaderInv, ReaderTypeOK
  <1>5. request.pc = "approve_summary" /\ request.id = i /\ request.member = slot[c].member
    BY <1>0, <1>1 DEF MemberRequest
  <1>6. (\A d \in Slots : Heard(slot[d]))'
    BY <1>2, <1>3, <1>4, <1>5 DEF Offer, Heard, AfterAsking, Made
  <1>7. AskedByActive'
    BY <1>2, <1>3, <1>4 DEF Offer, AskedByActive, Live, Made
  <1>8. DueIsSettled'
    <2> SUFFICES ASSUME NEW j \in ImportIds, Due(j)' PROVE (\E d \in Slots : ReaderSettling(slot[d], j))'
      BY DEF DueIsSettled
    <2>1. CASE j = i
      BY <1>4, <1>5, <2>1 DEF ReaderSettling
    <2>2. CASE j # i
      <3>1. Due(j)
        BY <1>3, <1>4, <2>2 DEF Due, Live, approvalCount, requiredApprovals
      <3>2. PICK d \in Slots : ReaderSettling(slot[d], j)
        BY <3>1 DEF Offer, DueIsSettled
      <3>3. d # c
        BY <1>1, <3>2 DEF ReaderSettling
      <3> QED  BY <1>4, <3>2, <3>3 DEF ReaderSettling
    <2> QED  BY <2>1, <2>2
  <1> QED  BY <1>6, <1>7, <1>8 DEF Offer

\* Nobody has asked for the deletion of an import that has just been made.
LEMMA ImportCommitOffer ==
    ASSUME ReaderInv, Offer, NEW c \in Slots, ImportCommit(c), UNCHANGED <<active, voters>>
    PROVE  Offer'
  <1>0. PICK id, request : id = Cardinality(Made) + 1 /\ request = [slot[c] EXCEPT !.pc = "import_mark"]
    OBVIOUS
  <1>1. slot[c] \in ImportRequest /\ slot[c].pc = "import_commit"
    BY ReaderRequestShapes DEF ReaderInv, ImportCommit, At
  <1>2. /\ import' = [import EXCEPT ![id] = [start |-> slot[c].start, status |-> "IMPORTED"]]
        /\ UNCHANGED <<asked, approval>>
        /\ slot' = [slot EXCEPT ![c] = request]
    BY <1>0 DEF ImportCommit, Goto
  <1>3. id \notin Made
    BY <1>0, FS_CardinalityType DEF ReaderInv, ImportsInOrder
  <1>4. /\ \A j \in ImportIds : import'[j] = IF j = id THEN [start |-> slot[c].start, status |-> "IMPORTED"]
                                            ELSE import[j]
        /\ \A d \in Slots : slot'[d] = IF d = c THEN request ELSE slot[d]
    BY <1>2 DEF ReaderInv, ReaderTypeOK
  <1>5. request.pc = "import_mark"
    BY <1>0, <1>1 DEF ImportRequest
  <1>6. Made \subseteq Made'
    BY <1>4 DEF Made
  <1>7. (\A d \in Slots : Heard(slot[d]))'
    BY <1>2, <1>4, <1>5, <1>6 DEF Offer, Heard, AfterAsking, MemberSteps
  <1>8. id \in ImportIds => asked[id].status = "NONE"
    BY <1>3 DEF Offer, AskedByActive
  <1>9. AskedByActive'
    BY <1>2, <1>4, <1>6, <1>8 DEF Offer, AskedByActive, Live
  <1>10. DueIsSettled'
    <2> SUFFICES ASSUME NEW j \in ImportIds, Due(j)' PROVE (\E d \in Slots : ReaderSettling(slot[d], j))'
      BY DEF DueIsSettled
    <2>1. j # id
      BY <1>2, <1>8 DEF Due
    <2>2. Due(j)
      BY <1>2, <1>4, <2>1 DEF Due, Live, approvalCount, requiredApprovals
    <2>3. PICK d \in Slots : ReaderSettling(slot[d], j)
      BY <2>2 DEF Offer, DueIsSettled
    <2>4. d # c
      BY <1>1, <2>3 DEF ReaderSettling
    <2> QED  BY <1>4, <2>3, <2>4 DEF ReaderSettling
  <1> QED  BY <1>7, <1>9, <1>10 DEF Offer

\* Marking a series and adopting older rows have nothing to do with deletions.
LEMMA RowsOffer ==
    ASSUME ReaderInv, Offer, NEW c \in Slots, ImportMark(c) \/ LatestAttach(c), UNCHANGED active
    PROVE  Offer'
  <1>1. UNCHANGED <<import, asked, approval>>
    BY DEF ImportMark, LatestAttach
  <1>2. \A i \in ImportIds : ~ReaderSettling(slot[c], i)
    BY DEF ImportMark, LatestAttach, At, ReaderSettling
  <1>3. CASE Finish(c)
    BY <1>1, <1>2, <1>3, FinishOffer
  <1>4. ASSUME NEW s \in slot[c].low, slot' = [slot EXCEPT ![c].low = @ \ {s}], ImportMark(c)
        PROVE  Offer'
    <2>1. PICK request : request = [slot[c] EXCEPT !.low = @ \ {s}]
      OBVIOUS
    <2>2. slot[c] \in ImportRequest /\ slot[c].pc = "import_mark"
      BY <1>4, ReaderRequestShapes DEF ReaderInv, ImportMark, At
    <2>3. request.pc = "import_mark"
      BY <2>1, <2>2 DEF ImportRequest
    <2>4. Heard(request)
      BY <2>3 DEF Heard, AfterAsking, MemberSteps
    <2>5. slot' = [slot EXCEPT ![c] = request]
      BY <1>4, <2>1
    <2> QED  BY <1>1, <1>2, <2>4, <2>5, OfferStep
  <1> QED  BY <1>3, <1>4 DEF ImportMark, LatestAttach

\* A deletion settles its request.
LEMMA FinalizeCommitOffer ==
    ASSUME ReaderInv, Offer, NEW c \in Slots, FinalizeCommit(c), UNCHANGED active
    PROVE  Offer'
  <1>0. PICK i : i = slot[c].id
    OBVIOUS
  <1>1. /\ i \in Made /\ i \in ImportIds /\ slot[c].pc = "finalize_commit"
        /\ asked[i].status # "NONE"
    BY <1>0 DEF ReaderInv, ReaderKnows, FinalizeCommit, At, Made, Offer, Heard, AfterAsking, MemberSteps
  <1>2. /\ import'[i].status = "DELETED" /\ asked'[i].status = "APPROVED"
        /\ asked'[i].by = asked[i].by
        /\ \A j \in ImportIds \ {i} : import'[j] = import[j] /\ asked'[j] = asked[j]
    BY <1>0, <1>1 DEF FinalizeCommit, ReaderInv, ReaderTypeOK
  <1>3. UNCHANGED approval /\ \A d \in Slots : slot'[d] = IF d = c THEN Idle ELSE slot[d]
    BY DEF FinalizeCommit, Finish, ReaderInv
  <1>4. Made' = Made
    BY <1>1, <1>2 DEF Made
  <1>5. (\A d \in Slots : Heard(slot[d]))'
    <2> SUFFICES ASSUME NEW d \in Slots PROVE Heard(slot[d])'
      OBVIOUS
    <2>1. CASE d = c
      BY <1>3, <2>1 DEF Heard, AfterAsking, Idle, MemberSteps
    <2>2. CASE d # c
      <3>1. slot'[d] = slot[d] /\ Heard(slot[d])
        BY <1>3, <2>2 DEF Offer
      <3>2. slot[d].pc \in AfterAsking => slot[d].id \in ImportIds
        BY ReaderRequestShapes DEF ReaderInv, MemberRequest, MemberSteps, AfterAsking
      <3> QED  BY <1>2, <1>4, <3>1, <3>2 DEF Heard, AfterAsking
    <2> QED  BY <2>1, <2>2
  <1>6. AskedByActive'
    BY <1>1, <1>2, <1>3, <1>4 DEF Offer, AskedByActive, Live
  <1>7. DueIsSettled'
    <2> SUFFICES ASSUME NEW j \in ImportIds, Due(j)' PROVE (\E d \in Slots : ReaderSettling(slot[d], j))'
      BY DEF DueIsSettled
    <2>1. j # i
      BY <1>2 DEF Due, Live
    <2>2. Due(j)
      BY <1>2, <1>3, <2>1 DEF Due, Live, approvalCount, requiredApprovals
    <2>3. PICK d \in Slots : ReaderSettling(slot[d], j)
      BY <2>2 DEF Offer, DueIsSettled
    <2>4. d # c
      BY <1>0, <1>1, <2>1, <2>3 DEF ReaderSettling
    <2> QED  BY <1>3, <2>3, <2>4 DEF ReaderSettling
  <1> QED  BY <1>5, <1>6, <1>7 DEF Offer

\* Requests in flight that do not die: a request for a deletion that has all its approvals
\* is about to be settled by one of them.
THEOREM OfferInvariant == ReaderSpec => []OfferInv
  <1>1. ReaderInit => OfferInv
    <2> SUFFICES ASSUME ReaderInit PROVE Offer
      BY DEF OfferInv
    <2> USE DEF ReaderInit, ReaderStart, RequestsInit
    <2>1. \A c \in Slots : Heard(slot[c])
      BY DEF Heard, AfterAsking, Idle, MemberSteps
    <2>2. AskedByActive /\ DueIsSettled
      BY DEF AskedByActive, DueIsSettled, Due, Live, NoImport, NoRequest
    <2> QED  BY <2>1, <2>2 DEF Offer
  <1>2. ReaderInv /\ OfferInv /\ [ReaderNext]_readerVars => OfferInv'
    <2> SUFFICES ASSUME ReaderInv, OfferInv, [ReaderNext]_readerVars, Undisturbed' PROVE Offer'
      BY DEF OfferInv
    <2>1. Undisturbed /\ Offer
      BY DEF ReaderNext, readerVars, requestVars, Undisturbed, OfferInv
    <2>2. CASE UNCHANGED readerVars
      <3> USE <2>1, <2>2 DEF readerVars, readerTables, requestVars
      <3>1. (\A c \in Slots : Heard(slot[c]))'
        BY DEF Offer, Heard, AfterAsking, Made
      <3>2. AskedByActive' /\ DueIsSettled'
        BY DEF Offer, AskedByActive, DueIsSettled, Due, ReaderSettling, Live, Made, approvalCount,
               requiredApprovals
      <3> QED  BY <3>1, <3>2 DEF Offer
    <2>3. ASSUME NEW c \in Slots, ReaderCall(c), UNCHANGED active PROVE Offer'
      BY <2>1, <2>3, CallOffer
    <2>4. ASSUME NEW c \in Slots, ReaderStep(c), UNCHANGED <<active, voters>> PROVE Offer'
      BY <2>1, <2>4, ReadingOffer, AskUpsertOffer, ApproveInsertOffer, ImportCommitOffer, RowsOffer,
         FinalizeCommitOffer DEF ReaderStep
    <2>5. /\ \A c \in Slots : ~Fail(c)
          /\ \A m \in board : ~AccountChange(m)
      BY <2>1 DEF Fail, AccountChange
    <2> QED  BY <2>2, <2>3, <2>4, <2>5 DEF ReaderNext
  <1> QED  BY <1>1, <1>2, ReaderInvariant, PTL DEF ReaderSpec

\* Unless accounts change or requests die: when all requests have returned, every deletion
\* that is still pending is offered to an active member, for any board and any number of
\* imports and of requests in flight.
THEOREM PendingStaysOffered == ReaderSpec => []PendingIsOffered
  <1>1. ReaderInv /\ OfferInv => PendingIsOffered
    <2> SUFFICES ASSUME ReaderInv, Offer, Quiet, NEW i \in ImportIds, Live(i), asked[i].status = "PENDING"
                 PROVE  \E m \in active : canCurrentUserApprove(m, i)
      BY DEF OfferInv, PendingIsOffered
    <2>1. asked[i].by \in active
      BY DEF Offer, AskedByActive
    <2>2. \A c \in Slots : ~ReaderSettling(slot[c], i)
      BY DEF Quiet, At, ReaderSettling
    <2>3. ~(approvalCount(i) >= requiredApprovals(i))
      BY <2>2 DEF Offer, DueIsSettled, Due
    <2>4. SUFFICES ASSUME \A m \in active \ {asked[i].by} : m \in approval[i] PROVE FALSE
      BY DEF canCurrentUserApprove
    <2>5. active \ {asked[i].by} \subseteq approval[i] \cap active
      BY <2>4
    <2>6. IsFiniteSet(approval[i] \cap active)
      BY ActiveIsFinite, FS_Subset
    <2>7. Cardinality(active \ {asked[i].by}) <= Cardinality(approval[i] \cap active)
      BY <2>5, <2>6, FS_Subset
    <2>8. requiredApprovals(i) \in Int /\ approvalCount(i) \in Int
      BY <2>1, RequiredApprovals
    <2> QED  BY <2>3, <2>7, <2>8 DEF approvalCount, requiredApprovals
  <1> QED  BY <1>1, ReaderInvariant, OfferInvariant, PTL
=============================================================================
