------------------------------- MODULE Drawing -------------------------------
(***************************************************************************)
(* A page opened in the Studio of one tab: the engine with its layers,     *)
(* buffers and undo history (lib/studio/engine, history and document), the *)
(* draft in the local database of the browser (lib/studio/persist) and the *)
(* page that loads, saves and leaves it (studio/StudioPage, Studio).       *)
(*                                                                         *)
(* The pixels of a layer are the set of the strokes one sees on it.        *)
(* Buffers are arrays that are changed in place, so a layer id leads to an *)
(* array, and the array to its strokes.  Selections, the clipboard's shape *)
(* and the order in which the layers of one save are read are left out.    *)
(***************************************************************************)
EXTENDS Requests, Sequences, SequencesExt, FiniteSetsExt

CONSTANTS
    Limit,          \* the operations that History keeps
    MaxEdits,       \* bound: edits
    MaxSessions,    \* bound: openings of the page
    MaxSaves,       \* bound: saves, by the user and by the timer
    MaxArrays,      \* bound: arrays for buffers
    DrawingScenes   \* bound: modes, with the edits, openings and saves of a behaviour

ASSUME DrawingAssumption ==
    /\ {MaxEdits, MaxSessions, MaxSaves, MaxArrays} \subseteq Nat
    /\ MaxEdits < MaxArrays
    /\ Limit \in Nat \ {0}
    /\ DrawingScenes \subseteq [mode : Modes, edits : 1 .. MaxEdits,
                                openings : 1 .. MaxSessions, saves : 0 .. MaxSaves]

VARIABLES
    doc,            \* DocumentData: its layers from bottom to top, and the active one
    buffers,        \* the array of a layer id, for the ids that have one
    pixels,         \* [Arrays -> the strokes in an array]
    past, future,   \* the operations of History
    dirty,          \* revision # savedRevision
    clipboard,      \* what copySelection has kept
    stroke,         \* what beginStroke has returned, or NoStroke
    lastId,         \* _id of document.ts
    timer,          \* the autosave timer is set
    session,        \* whether the page is open; how often it may still be opened, and saved
    draft, stored,  \* the manifest in the local database, and in Studio_Document
    picture,        \* the strokes on the image of the page (its current Page_Version)
    edits,          \* the edits still to come
    aside           \* something has happened to the drawing that the history does not know

engineVars == <<doc, buffers, pixels, past, future, dirty, clipboard, stroke, edits, aside>>
savedVars == <<draft, stored, picture>>
drawingVars == <<engineVars, lastId, timer, session, savedVars, requestVars>>

Arrays == 1 .. MaxArrays
Looks == {"plain", "locked", "hidden"}
Ids == 0 .. 4 * MaxSessions + MaxEdits
NoDoc == [layers |-> <<>>, activeLayerId |-> 0]
NoStroke == [in |-> FALSE, before |-> {}, seen |-> <<>>]
NoClip == {0}
NoManifest == [doc |-> NoDoc, strokes |-> [id \in {} |-> {}]]

strokesOf(id) == IF id \in DOMAIN buffers THEN pixels[buffers[id]] ELSE {}
index(id) == SelectInSeq(doc.layers, LAMBDA l : l.id = id)
ids(d) == {d.layers[i].id : i \in DOMAIN d.layers}

\* The k-th number of a finite set.
nth(S, k) == CHOOSE n \in S : Cardinality({m \in S : m <= n}) = k

\* What is drawn, when d is the document: every layer with its look and its strokes.
Drawn(d) == [i \in DOMAIN d.layers |->
                [id |-> d.layers[i].id, look |-> d.layers[i].look, strokes |-> strokesOf(d.layers[i].id)]]

\* composite: the layers that can be seen, in one picture.
composite == UNION {strokesOf(doc.layers[i].id) :
                       i \in {j \in DOMAIN doc.layers : doc.layers[j].look # "hidden"}}

\* serializeDoc
serialized == [doc |-> doc, strokes |-> [id \in ids(doc) |-> strokesOf(id)]]

DrawingSteps == {"idle", "autosave_write", "save_version", "save_doc", "save_mark"}

DrawingTypeOK ==
    /\ \A i \in DOMAIN doc.layers : doc.layers[i].id \in Ids /\ doc.layers[i].look \in Looks
    /\ session.open => doc.activeLayerId \in Ids
    /\ DOMAIN buffers \subseteq Ids
    /\ \A id \in DOMAIN buffers : buffers[id] \in Arrays
    /\ Len(past) + Len(future) <= Limit
    /\ {dirty, timer, aside} \subseteq BOOLEAN
    /\ stroke.in \in BOOLEAN /\ (stroke.in => session.open)
    /\ lastId \in Ids
    /\ session.left \in 0 .. MaxSessions /\ session.saves \in 0 .. MaxSaves
    /\ \A m \in {draft, stored} : DOMAIN m.strokes = ids(m.doc)
    /\ edits \in 0 .. MaxEdits
    /\ \A c \in Slots : slot[c].pc \in DrawingSteps

DrawingStart(s) ==
    /\ doc = NoDoc
    /\ buffers = [id \in {} |-> 0]
    /\ pixels = [a \in Arrays |-> {}]
    /\ past = <<>> /\ future = <<>>
    /\ dirty = FALSE
    /\ clipboard = NoClip
    /\ stroke = NoStroke
    /\ lastId = 0
    /\ timer = FALSE
    /\ edits = s.edits
    /\ session = [open |-> FALSE, left |-> s.openings, saves |-> s.saves]
    /\ draft = NoManifest /\ stored = NoManifest
    /\ picture = {}
    /\ aside = FALSE

DrawingInit == RequestsInit /\ \E s \in DrawingScenes : mode = s.mode /\ DrawingStart(s)

-----------------------------------------------------------------------------
(* document.ts, on a document d. *)

addLayer(d, id) == [layers |-> Append(d.layers, [id |-> id, look |-> "plain"]), activeLayerId |-> id]

removeLayer(d, id) ==
    IF Len(d.layers) <= 1 THEN d
    ELSE LET others == {i \in DOMAIN d.layers : d.layers[i].id # id}
             rest == [k \in 1 .. Cardinality(others) |-> d.layers[nth(others, k)]]
         IN [layers |-> rest,
             activeLayerId |-> IF d.activeLayerId = id THEN Last(rest).id ELSE d.activeLayerId]

reorderLayer(d, from, to) ==
    [d EXCEPT !.layers = InsertAt(RemoveAt(d.layers, from), to, d.layers[from])]

updateLayer(d, i, look) == [d EXCEPT !.layers[i].look = look]

-----------------------------------------------------------------------------
(* What an operation does when it is undone or redone: the document it puts *)
(* back, the ids whose buffers it deletes (or all of them), the arrays of   *)
(* its own that it makes buffers (setBuffer), and the strokes that it       *)
(* copies into a buffer (set).                                              *)

Keep == [layers |-> <<>>, activeLayerId |-> -1]
Change(d, deleted, arrays, copied) ==
    [doc |-> d, deleted |-> deleted, arrays |-> arrays, copied |-> copied]

noArrays == [id \in {} |-> 0]
noStrokes == [id \in {} |-> {}]
The(id, x) == [i \in {id} |-> x]
Over(f, g) == [x \in DOMAIN f \cup DOMAIN g |-> IF x \in DOMAIN f THEN f[x] ELSE g[x]]

\* The arrays that somebody holds.
heldBy(op) == {op.undo.arrays[id] : id \in DOMAIN op.undo.arrays}
              \cup {op.redo.arrays[id] : id \in DOMAIN op.redo.arrays}
held(bufs, ops) == {bufs[id] : id \in DOMAIN bufs} \cup UNION {heldBy(ops[i]) : i \in DOMAIN ops}

\* The arrays that are free beside these buffers; new arrays come from here, and a gesture
\* that would need more than there are is not made.
free(bufs) == Arrays \ held(bufs, past \o future)
newArray(bufs, k) == nth(free(bufs), k)
Room(bufs, k) == k <= Cardinality(free(bufs))

\* The buffers, and the arrays with these strokes; what nobody holds is garbage.
Arrange(bufs, strokes, p, f) ==
    /\ buffers' = bufs
    /\ past' = p /\ future' = f
    /\ pixels' = [a \in Arrays |-> IF a \in held(bufs, p \o f) THEN strokes[a] ELSE {}]

\* set(): copies strokes into the buffer of an id, which ensureBuffer makes when there is none.
Copied(bufs, strokes, id, s) ==
    LET a == IF id \in DOMAIN bufs THEN bufs[id]
             ELSE newArray(bufs, 1)
    IN [buffers |-> Over(The(id, a), bufs), strokes |-> [strokes EXCEPT ![a] = s]]

\* undo and redo of an operation.
Replay(change, p, f) ==
    LET bufs == Over(change.arrays, [id \in DOMAIN buffers \ change.deleted |-> buffers[id]])
        S == DOMAIN change.copied
        copy == IF S = {} THEN [buffers |-> bufs, strokes |-> pixels]
                ELSE LET id == CHOOSE x \in S : TRUE IN Copied(bufs, pixels, id, change.copied[id])
    IN /\ Room(bufs, 1)
       /\ Arrange(copy.buffers, copy.strokes, p, f)
       /\ doc' = IF change.doc = Keep THEN doc ELSE change.doc
       /\ dirty' = (dirty \/ change.doc # Keep)
       /\ aside' = (aside \/ DOMAIN change.arrays # {})

\* Gestures of the user: one at a time, or between anything else.
Gesture ==
    /\ session.open
    /\ InTurn => Quiet /\ ~stroke.in
    /\ UNCHANGED <<session, savedVars, slot>>

\* emit() wakes up the autosave.
Emits == timer' = TRUE

Undo ==
    /\ Gesture
    /\ past # <<>>
    /\ Replay(Last(past).undo, Front(past), <<Last(past)>> \o future)
    /\ Emits
    /\ UNCHANGED <<clipboard, stroke, edits, lastId>>

Redo ==
    /\ Gesture
    /\ future # <<>>
    /\ Replay(Head(future).redo, Append(past, Head(future)), Tail(future))
    /\ Emits
    /\ UNCHANGED <<clipboard, stroke, edits, lastId>>

\* Mutant of pushed: the limit is kept at the wrong end.
pushedLast(op) == IF Len(past) < Limit THEN Append(past, op) ELSE Append(Front(past), op)

\* History.push; the future is forgotten.
pushed(op) == IF Len(past) < Limit THEN Append(past, op) ELSE Append(Tail(past), op)

Op(undo, redo, before, after) == [undo |-> undo, redo |-> redo, before |-> before, after |-> after]

\* An edit that History knows: the document, the buffers and the strokes in the arrays after
\* it, how it is undone and redone, and what was drawn before.
Edit(d, bufs, strokes, undo, redo, before) ==
    /\ Gesture
    /\ edits > 0
    /\ edits' = edits - 1
    /\ doc' = d
    /\ dirty' = TRUE
    /\ LET after == [i \in DOMAIN d.layers |->
                        [id |-> d.layers[i].id, look |-> d.layers[i].look,
                         strokes |-> IF d.layers[i].id \in DOMAIN bufs
                                     THEN strokes[bufs[d.layers[i].id]] ELSE {}]]
       IN Arrange(bufs, strokes, pushed(Op(undo, redo, before, after)), <<>>)

-----------------------------------------------------------------------------
(* Painting. *)

activeLayerId == doc.activeLayerId
activeWritable == index(activeLayerId) # 0 /\ doc.layers[index(activeLayerId)].look # "locked"

\* beginStroke, and the stamps of the stroke on the active layer.
StrokeBegin ==
    /\ Gesture
    /\ edits > 0
    /\ edits' = edits - 1
    /\ activeWritable
    /\ Room(buffers, 1)
    /\ stroke' = [in |-> TRUE, before |-> strokesOf(activeLayerId), seen |-> Drawn(doc)]
    /\ LET copy == Copied(buffers, pixels, activeLayerId, strokesOf(activeLayerId) \cup {edits})
       IN Arrange(copy.buffers, copy.strokes, past, future)
    /\ Emits
    /\ UNCHANGED <<doc, dirty, clipboard, aside, lastId>>

\* commitStroke with pushSwap, for what is the active layer now.  Its undo and its redo copy
\* strokes into the buffer and leave the revision alone.  The fills and the effects are a
\* stroke that begins and ends at once.
StrokeCommit ==
    /\ stroke.in
    /\ session.open
    /\ InTurn => Quiet
    /\ dirty' = TRUE
    /\ Arrange(buffers, pixels,
               pushed(Op(Change(Keep, {}, noArrays, The(activeLayerId, stroke.before)),
                         Change(Keep, {}, noArrays, The(activeLayerId, strokesOf(activeLayerId))),
                         stroke.seen, Drawn(doc))),
               <<>>)
    /\ stroke' = NoStroke
    /\ Emits
    /\ UNCHANGED <<doc, clipboard, edits, aside, lastId, session, savedVars, slot>>

copySelection ==
    /\ Gesture
    /\ clipboard' = strokesOf(activeLayerId)
    /\ UNCHANGED <<doc, buffers, pixels, past, future, dirty, stroke, edits, aside, lastId, timer>>

-----------------------------------------------------------------------------
(* Layers. *)

\* newId; the history does not know that an id may be one of the document already.
newId == lastId + 1
NewId ==
    /\ lastId' = newId
    /\ aside' = (aside \/ newId \in ids(doc) \cup DOMAIN buffers)

\* A new layer with these strokes, which has others when it is redone.
NewLayer(strokes, redone) ==
    LET copy == Copied(buffers, pixels, newId, strokes)
        d == addLayer(doc, newId)
    IN /\ Room(buffers, 1)
       /\ Edit(d, copy.buffers, copy.strokes,
               Change(doc, {newId}, noArrays, noStrokes),
               Change(d, {}, noArrays, The(newId, redone)),
               Drawn(doc))
       /\ NewId
       /\ Emits
       /\ UNCHANGED <<clipboard, stroke>>

\* addLayer; ensureBuffer leaves the buffer of an id that has one.
AddLayer == NewLayer(strokesOf(newId), {})

paste == clipboard # NoClip /\ NewLayer(clipboard, clipboard)

\* handleImport and inkFrames of Studio: a layer is added, and then drawn on behind the back
\* of the history.
LayerAside ==
    LET copy == Copied(buffers, pixels, newId, {edits})
        d == addLayer(doc, newId)
    IN /\ Room(buffers, 1)
       /\ Edit(d, copy.buffers, copy.strokes,
               Change(doc, {newId}, noArrays, noStrokes), Change(d, {}, noArrays, noStrokes), Drawn(doc))
       /\ lastId' = newId
       /\ aside' = TRUE
       /\ Emits
       /\ UNCHANGED <<clipboard, stroke>>

\* setLayerVisible, setLayerLocked and the other properties of a layer.
setLayer(i, look) ==
    /\ Gesture
    /\ edits > 0
    /\ edits' = edits - 1
    /\ doc.layers[i].look # look
    /\ doc' = updateLayer(doc, i, look)
    /\ dirty' = TRUE
    /\ aside' = TRUE
    /\ Emits
    /\ UNCHANGED <<buffers, pixels, past, future, clipboard, stroke, lastId>>

setActiveLayer(id) ==
    LET d == [doc EXCEPT !.activeLayerId = id] IN
    /\ Edit(d, buffers, pixels, Change(doc, {}, noArrays, noStrokes),
            Change(d, {}, noArrays, noStrokes), Drawn(doc))
    /\ Emits
    /\ UNCHANGED <<clipboard, stroke, aside, lastId>>

\* removeLayer; it breaks off when every layer has the id of the active one.
RemoveLayer ==
    LET buf == newArray(buffers, 1)
        d == removeLayer(doc, activeLayerId)
        without == [id \in DOMAIN buffers \ {activeLayerId} |-> buffers[id]]
    IN /\ ids(doc) # {activeLayerId} \/ Len(doc.layers) = 1
       /\ Room(buffers, 1)
       /\ Edit(d, without, [pixels EXCEPT ![buf] = strokesOf(activeLayerId)],
               Change(doc, {}, The(activeLayerId, buf), noStrokes),
               Change(d, {activeLayerId}, noArrays, noStrokes), Drawn(doc))
       /\ Emits
       /\ UNCHANGED <<clipboard, stroke, aside, lastId>>

\* duplicateLayer: the buffers of all layers are kept, before and after.
DuplicateLayer ==
    LET i == index(activeLayerId)
        n == Len(doc.layers)
        grown == addLayer(doc, newId)
        d == reorderLayer(grown, n + 1, i + 1)
        copy == Copied(buffers, pixels, newId, strokesOf(activeLayerId))
        fresh(k) == newArray(copy.buffers, k)
        before == [id \in ids(doc) |-> fresh(index(id))]
        after == [id \in ids(d) |-> IF id = newId THEN fresh(2 * n + 1) ELSE fresh(n + index(id))]
        kept == [a \in Arrays |->
                    IF \E id \in DOMAIN before : before[id] = a
                    THEN strokesOf(CHOOSE id \in DOMAIN before : before[id] = a)
                    ELSE IF \E id \in DOMAIN after : after[id] = a
                    THEN strokesOf(LET id == CHOOSE x \in DOMAIN after : after[x] = a
                                   IN IF id = newId THEN activeLayerId ELSE id)
                    ELSE copy.strokes[a]]
    IN /\ Room(buffers, 2 * n + 2)
       /\ Edit(d, copy.buffers, kept, Change(doc, Ids, before, noStrokes),
               Change(d, Ids, after, noStrokes), Drawn(doc))
       /\ NewId
       /\ UNCHANGED <<clipboard, stroke, timer>>

\* mergeDown
MergeDown ==
    LET i == index(activeLayerId)
        top == activeLayerId
        below == doc.layers[i - 1].id
        merged == strokesOf(below) \cup strokesOf(top)
        d == removeLayer(doc, top)
        copy == Copied(buffers, pixels, below, merged)
        bufs == [id \in DOMAIN copy.buffers \ {top} |-> copy.buffers[id]]
        fresh(k) == newArray(copy.buffers, k)
    IN /\ i > 1
       /\ Room(buffers, 4)
       /\ Edit(d, bufs,
               [copy.strokes EXCEPT ![fresh(1)] = strokesOf(top), ![fresh(2)] = strokesOf(below),
                                    ![fresh(3)] = merged],
               Change(doc, {}, Over(The(top, fresh(1)), The(below, fresh(2))), noStrokes),
               Change(d, {}, The(below, fresh(3)), noStrokes), Drawn(doc))
       /\ UNCHANGED <<clipboard, stroke, aside, lastId, timer>>

\* flattenImage: the lowest layer takes the composite of those that can be seen; it becomes
\* visible, and stays locked if it was.
FlattenImage ==
    LET n == Len(doc.layers)
        keepId == doc.layers[1].id
        look == IF doc.layers[1].look = "hidden" THEN "plain" ELSE doc.layers[1].look
        d == [layers |-> <<[id |-> keepId, look |-> look]>>, activeLayerId |-> keepId]
        copy == Copied(buffers, pixels, keepId, composite)
        fresh(k) == newArray(copy.buffers, k)
        before == [id \in ids(doc) |-> fresh(index(id))]
        kept == [a \in Arrays |-> IF \E id \in DOMAIN before : before[id] = a
                                  THEN strokesOf(CHOOSE id \in DOMAIN before : before[id] = a)
                                  ELSE IF a = fresh(n + 1) THEN composite ELSE copy.strokes[a]]
    IN /\ Room(buffers, n + 2)
       /\ Edit(d, The(keepId, copy.buffers[keepId]), kept, Change(doc, Ids, before, noStrokes),
               Change(d, {}, The(keepId, fresh(n + 1)), noStrokes), Drawn(doc))
       /\ Emits
       /\ UNCHANGED <<clipboard, stroke, aside, lastId>>

-----------------------------------------------------------------------------
(* The page: loading, saving and leaving. *)

\* A StudioEngine for a document, whose layers have these strokes.
Engine(d, strokes) ==
    LET at(id) == SelectInSeq(d.layers, LAMBDA l : l.id = id) IN
    /\ doc' = d
    /\ buffers' = [id \in ids(d) |-> at(id)]
    /\ pixels' = [a \in Arrays |-> IF \E id \in ids(d) : at(id) = a
                                   THEN strokes[CHOOSE id \in ids(d) : at(id) = a] ELSE {}]
    /\ past' = <<>> /\ future' = <<>>
    /\ dirty' = FALSE
    /\ stroke' = NoStroke
    /\ aside' = FALSE
    /\ UNCHANGED edits

Blank(d) == [id \in ids(d) |-> {}]

\* createDocument: its layer, and the document itself, take an id each.
createDocument(last) == [layers |-> <<[id |-> last + 1, look |-> "plain"]>>, activeLayerId |-> last + 1]

\* StudioPage opens the page: a draft is restored, when the user wants it, in place of the
\* stored document.  The images of the draft's layers are not among what is restored.  When
\* the stored document cannot be had, the page starts from an empty one, and from another
\* with the image of the page when that can be had.
Open ==
    /\ ~session.open
    /\ session.left > 0
    /\ InTurn => Quiet
    /\ session' = [session EXCEPT !.open = TRUE, !.left = @ - 1]
    /\ \E had, image \in BOOLEAN :
          /\ had => stored # NoManifest /\ ~image
          /\ Undisturbed => had \/ (image /\ stored = NoManifest)
          /\ lastId' = IF had THEN lastId ELSE IF image THEN lastId + 4 ELSE lastId + 2
          /\ \/ /\ draft # NoManifest
                /\ Engine(draft.doc, Blank(draft.doc))
                /\ UNCHANGED draft
             \/ /\ draft' = NoManifest
                /\ IF had THEN Engine(stored.doc, stored.strokes)
                   ELSE LET d == createDocument(IF image THEN lastId + 2 ELSE lastId)
                        IN Engine(d, [id \in ids(d) |-> IF image THEN picture ELSE {}])
    /\ clipboard' = NoClip
    /\ UNCHANGED <<timer, stored, picture, slot>>

Save == session.saves > 0 /\ session' = [session EXCEPT !.saves = @ - 1]

\* The autosave timer of 4 seconds: serializeDoc, and then saveDraft.
AutosaveFires(c) ==
    /\ timer
    /\ timer' = FALSE
    /\ \/ dirty /\ Save /\ Enter(c, [pc |-> "autosave_write", drawing |-> serialized])
       \/ ~dirty /\ UNCHANGED <<session, slot>>
    /\ UNCHANGED <<engineVars, lastId, savedVars>>

AutosaveWrite(c) ==
    /\ At(c, "autosave_write")
    /\ draft' = slot[c].drawing
    /\ Finish(c)
    /\ UNCHANGED <<engineVars, lastId, timer, session, stored, picture>>

SavingSteps == {"save_version", "save_doc", "save_mark"}
saving == \E c \in Slots : slot[c].pc \in SavingSteps /\ slot[c].session = session.left

\* onSave: the picture, which goes up as a new version of the page (StudioService).
SaveClick(c) ==
    /\ session.open
    /\ ~saving
    /\ InTurn => ~stroke.in
    /\ Save
    /\ Enter(c, [pc |-> "save_version", session |-> session.left, picture |-> composite])
    /\ UNCHANGED <<engineVars, lastId, timer, savedVars>>

\* The answer, and then serializeDoc and the upload of the layers.
SaveVersion(c) ==
    /\ At(c, "save_version")
    /\ picture' = slot[c].picture
    /\ Become(c, [pc |-> "save_doc", session |-> slot[c].session, drawing |-> serialized])
    /\ UNCHANGED <<engineVars, lastId, timer, session, draft, stored>>

SaveDoc(c) ==
    /\ At(c, "save_doc")
    /\ stored' = slot[c].drawing
    /\ Become(c, [pc |-> "save_mark", session |-> slot[c].session])
    /\ UNCHANGED <<engineVars, lastId, timer, session, draft, picture>>

\* markSaved of the engine that was saved, and clearDraft.
SaveMark(c) ==
    /\ At(c, "save_mark")
    /\ dirty' = (dirty /\ ~(session.open /\ slot[c].session = session.left))
    /\ draft' = NoManifest
    /\ Finish(c)
    /\ UNCHANGED <<doc, buffers, pixels, past, future, clipboard, stroke, edits, aside, lastId,
                   timer, session, stored, picture>>

\* The request is refused or lost, or the local database is: the page says so.
StudioFails(c) ==
    /\ Fail(c)
    /\ UNCHANGED <<engineVars, lastId, timer, session, savedVars>>

\* The page is gone, when the user has confirmed it; what was read from the engine goes on.
Gone ==
    /\ session.open
    /\ session' = [session EXCEPT !.open = FALSE]
    /\ Engine(NoDoc, Blank(NoDoc))
    /\ clipboard' = NoClip
    /\ timer' = FALSE

\* handleClose: back to another page of the app.
Close ==
    /\ Gone
    /\ InTurn => Quiet
    /\ slot' = [c \in Slots |->
                  IF At(c, "save_version")
                  THEN [pc |-> "save_doc", session |-> slot[c].session, drawing |-> serialized]
                  ELSE slot[c]]
    /\ picture' = IF \E c \in Slots : At(c, "save_version")
                  THEN slot[CHOOSE c \in Slots : At(c, "save_version")].picture
                  ELSE picture
    /\ UNCHANGED <<lastId, draft, stored>>

\* The tab is closed or loaded anew: document.ts counts from 0 again.
Unload ==
    /\ Gone
    /\ slot' = [c \in Slots |-> Idle]
    /\ lastId' = 0
    /\ UNCHANGED savedVars

-----------------------------------------------------------------------------
Draws ==
    \/ StrokeBegin \/ StrokeCommit
    \/ copySelection \/ paste
    \/ AddLayer \/ LayerAside \/ RemoveLayer \/ DuplicateLayer \/ MergeDown \/ FlattenImage
    \/ \E i \in DOMAIN doc.layers :
          \/ \E look \in Looks : setLayer(i, look)
          \/ setActiveLayer(doc.layers[i].id)
    \/ Undo \/ Redo

DrawingNext ==
    /\ \/ Draws \/ Open \/ Close \/ Unload
       \/ \E c \in Slots :
             \/ AutosaveFires(c) \/ AutosaveWrite(c)
             \/ SaveClick(c) \/ SaveVersion(c) \/ SaveDoc(c) \/ SaveMark(c) \/ StudioFails(c)
    /\ UNCHANGED mode

DrawingSpec == DrawingInit /\ [][DrawingNext]_drawingVars

-----------------------------------------------------------------------------
\* One gesture after the other: what is drawn is what was drawn after the last operation that
\* has not been undone, and before the next one that can be redone.  This is so until a layer
\* is changed behind the history, gets the id of another one, or an operation puts back
\* arrays of its own, which older operations then write to.
UndoRestores ==
    (InTurn /\ session.open /\ ~stroke.in /\ ~aside) =>
        /\ past # <<>> => Last(past).after = Drawn(doc)
        /\ future # <<>> => Head(future).before = Drawn(doc)

\* What is shown of the page when it is opened again and there is no draft.
loaded ==
    IF stored = NoManifest THEN <<[look |-> "plain", strokes |-> picture]>>
    ELSE [i \in DOMAIN stored.doc.layers |->
             [look |-> stored.doc.layers[i].look, strokes |-> stored.strokes[stored.doc.layers[i].id]]]

\* A page that may be left without a question (isDirty is false), and of which there is no
\* draft, is stored as it is shown.
UnsavedIsGuarded ==
    (session.open /\ ~dirty /\ ~stroke.in /\ draft = NoManifest /\ Quiet) =>
        loaded = [i \in DOMAIN doc.layers |-> [look |-> doc.layers[i].look,
                                              strokes |-> strokesOf(doc.layers[i].id)]]
=============================================================================
