------------------------------ MODULE Requests ------------------------------
(***************************************************************************)
(* Requests in flight at a server whose handlers wait for the database     *)
(* (db/db.service.ts): a slot holds the arguments and locals of a request, *)
(* its pc names the next statement.  A handler runs from one statement to  *)
(* the next without a break, so that a statement, or a transaction, with   *)
(* the code around it is one step.                                         *)
(***************************************************************************)
EXTENDS Integers, FiniteSets

CONSTANTS Slots     \* slots for requests in flight

VARIABLES
    slot,       \* [Slots -> the request in the slot]
    mode        \* how a behaviour goes about its requests; it never changes

requestVars == <<slot, mode>>

\* One request after the other; or several at once; or several at once that may die on
\* the way, with accounts that change.
Modes == {"in turn", "at once", "at worst"}

\* No user: NULL.
Nobody == "NOBODY"

Idle == [pc |-> "idle"]

RequestsInit ==
    /\ slot = [c \in Slots |-> Idle]
    /\ mode \in Modes

At(c, step) == slot[c].pc = step
Quiet == \A c \in Slots : At(c, "idle")
InTurn == mode = "in turn"
Undisturbed == mode = "at once"

\* A request arrives, and its first read lets it pass.
Enter(c, request) ==
    /\ At(c, "idle")
    /\ InTurn => Quiet
    /\ slot' = [slot EXCEPT ![c] = request]

Goto(c, step) == slot' = [slot EXCEPT ![c].pc = step]

\* Becomes the request with these locals.
Become(c, request) == slot' = [slot EXCEPT ![c] = request]

Finish(c) == slot' = [slot EXCEPT ![c] = Idle]

\* The process dies, or loses its connection: what has been committed stays.
Fail(c) == ~Undisturbed /\ ~At(c, "idle") /\ Finish(c)
=============================================================================
