----------------------------- MODULE ConnLedger -----------------------------
(***************************************************************************)
(* What the connection pool promises of each connection, without queues,    *)
(* locks and waiting: who has it, and how it passes from one to the next.   *)
(* DBConnPool is shown to implement it.                                     *)
(***************************************************************************)
EXTENDS Naturals

CONSTANTS Threads, Conns

VARIABLES
    owner,      \* who has each connection: at most one of Owners
    status      \* "none", "open" or "closed"

Owners == Threads \cup {"pool", "task"}

ledger == <<owner, status>>

Init ==
    /\ owner = [c \in Conns |-> {}]
    /\ status = [c \in Conns |-> "none"]

\* Connection c passes from its only owner to those in to.
Passes(c, from, to) ==
    /\ owner[c] = {from}
    /\ owner' = [owner EXCEPT ![c] = to]
    /\ UNCHANGED status

\* Only the pool lends, and only what is open; a thread may pass an open
\* connection on to a task; whoever has one may return it in any state; and
\* only a closed one may be left behind.
Lend(c, t)       == status[c] = "open" /\ Passes(c, "pool", {t})
HandOver(c, t)   == status[c] = "open" /\ Passes(c, t, {"task"})
TakeBack(c, o)   == o # "pool" /\ Passes(c, o, {"pool"})
LeaveBehind(c, t) == status[c] = "closed" /\ Passes(c, t, {})

Close(c) ==
    /\ status[c] = "open"
    /\ status' = [status EXCEPT ![c] = "closed"]
    /\ UNCHANGED owner

\* The pool removes only what it has.
Remove(c) ==
    /\ owner[c] = {"pool"}
    /\ owner' = [owner EXCEPT ![c] = {}]
    /\ status' = [status EXCEPT ![c] = "none"]

\* A new connection belongs to the pool, whether it could be opened or not.
Create(c, s) ==
    /\ status[c] = "none"
    /\ owner' = [owner EXCEPT ![c] = {"pool"}]
    /\ status' = [status EXCEPT ![c] = s]

\* A closed connection of the pool makes way for a new one.
Replace(c, d, s) ==
    /\ owner[c] = {"pool"} /\ status[c] = "closed"
    /\ d = c \/ status[d] = "none"
    /\ owner' = [owner EXCEPT ![c] = {}, ![d] = {"pool"}]
    /\ status' = [status EXCEPT ![c] = "none", ![d] = s]

Next ==
    \E c \in Conns :
        \/ \E t \in Threads : Lend(c, t) \/ HandOver(c, t) \/ LeaveBehind(c, t)
        \/ \E o \in Owners : TakeBack(c, o)
        \/ Close(c) \/ Remove(c)
        \/ \E s \in {"open", "closed"} : Create(c, s) \/ \E d \in Conns : Replace(c, d, s)

Spec == Init /\ [][Next]_ledger
=============================================================================
