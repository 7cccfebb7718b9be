--------------------------- MODULE ResourceBudget ---------------------------
(***************************************************************************)
(* One resource class of the cancellable semaphore in                      *)
(* src/platform/runtime/resource-budget.ts (the scheduler uses "heavy").   *)
(* The module only holds the state and the synchronous effects; the module *)
(* that extends it decides when a client acquires, aborts and releases.    *)
(*                                                                         *)
(* The array of waiters is kept as the set of clients in line and the      *)
(* order in which they joined it.                                          *)
(***************************************************************************)
EXTENDS Integers, FiniteSets

CONSTANTS
    Client,     \* who asks for permits
    Limit       \* resourceLimitFor(resource)

ASSUME LimitAssumption == Limit \in Nat \ {0}

VARIABLES
    inFlight,   \* the counter of the class
    waiters,    \* the clients whose acquire is pending
    before,     \* <<v, w>>: v joined the line before w
    permit      \* clients that hold a release function not called yet

lineVars == <<waiters, before>>
budgetVars == <<inFlight, lineVars, permit>>

BudgetInit == inFlight = 0 /\ waiters = {} /\ before = {} /\ permit = {}

HasRoomOffByOne == inFlight <= Limit    \* mutant of HasRoom

HasRoom == inFlight < Limit

(* acquire() with room left: the permit is counted even when the client's  *)
(* signal has already aborted.                                             *)
Take(c) ==
    /\ HasRoom
    /\ inFlight' = inFlight + 1
    /\ permit' = permit \union {c}
    /\ UNCHANGED lineVars

(* acquire() without room: the client joins the end of the line.           *)
Enqueue(c) ==
    /\ ~HasRoom
    /\ waiters' = waiters \union {c}
    /\ before' = before \union (waiters \X {c})
    /\ UNCHANGED <<inFlight, permit>>

Without(S) ==
    /\ waiters' = waiters \ S
    /\ before' = {p \in before : p[1] \notin S /\ p[2] \notin S}

(* Mutant of Leave: the listener rejects the acquire and keeps its place.  *)
LeaveNobody(S) == S \subseteq Client /\ UNCHANGED budgetVars

(* The abort listeners of the clients in S leave the line.                 *)
Leave(S) ==
    /\ Without(S)
    /\ UNCHANGED <<inFlight, permit>>

First(w) == w \in waiters /\ \A v \in waiters : <<v, w>> \notin before

(* Mutants of Release: it is not idempotent; it hands nothing over.        *)
ReleaseTwice(c) ==
    /\ inFlight' = inFlight - 1
    /\ permit' = permit \ {c}
    /\ UNCHANGED lineVars

ReleaseOnly(c) ==
    /\ inFlight' = IF c \in permit THEN inFlight - 1 ELSE inFlight
    /\ permit' = permit \ {c}
    /\ UNCHANGED lineVars

(* The idempotent release function: the counter goes down, and the first   *)
(* waiter, when there is one, takes it up again at once.                   *)
Release(c) ==
    \/ /\ c \notin permit
       /\ UNCHANGED budgetVars
    \/ /\ c \in permit
       /\ waiters = {}
       /\ inFlight' = inFlight - 1
       /\ permit' = permit \ {c}
       /\ UNCHANGED lineVars
    \/ /\ c \in permit
       /\ \E w \in waiters :
             /\ First(w)
             /\ permit' = (permit \ {c}) \union {w}
             /\ Without({w})
       /\ UNCHANGED inFlight

-----------------------------------------------------------------------------

BudgetTypeOK ==
    /\ inFlight \in Nat
    /\ waiters \subseteq Client
    /\ before \subseteq waiters \X waiters
    /\ permit \subseteq Client

=============================================================================
