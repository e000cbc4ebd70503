------------------------------ MODULE Requests ------------------------------
(***************************************************************************)
(* A request as the coroutine it is.  pc[h] is the database call request h *)
(* stands at and req[h] its local variables, of which `claims` names the   *)
(* documents it is about.  Components extend this module and share its     *)
(* variables, so that any two of their operations can be under way at once.*)
(*                                                                         *)
(* `disturbed` is a history variable: the documents two requests met on,   *)
(* and those a request that failed half way was about.                     *)
(***************************************************************************)
EXTENDS Integers, FiniteSets

CONSTANTS Desks,       \* the requests that can be under way at once
          FailProne,   \* those a database or network error may end
          Scenarios,   \* bound: the operations that are asked together
          MaxRequests  \* bound: the requests of a behaviour

ASSUME RequestsAssumption ==
    FailProne \subseteq Desks /\ MaxRequests \in Nat

VARIABLES pc, req, disturbed,
          asked,       \* bound: the scenario of this behaviour
          begun        \* bound: how many requests have been begun

requests == <<pc, req, disturbed, asked, begun>>

-----------------------------------------------------------------------------
NoRequest == [claims |-> {}]

Idle(h) == pc[h] = "idle"

\* What requests other than h are about.
HeldByOthers(h) == UNION {req[g].claims : g \in Desks \ {h}}

\* Bound: nothing more is asked once two requests have met, and of a scenario
\* only what it names.
Open(h) == Idle(h) /\ disturbed = {} /\ begun < MaxRequests

Asked(h, op) == Open(h) /\ op \in asked /\ begun' = begun + 1 /\ UNCHANGED asked

\* A request arrives.
Begin(h, op, label, locals) ==
    /\ Asked(h, op)
    /\ pc' = [pc EXCEPT ![h] = label]
    /\ req' = [req EXCEPT ![h] = locals]
    /\ disturbed' = locals.claims \cap HeldByOthers(h)

\* A request that is a single call.
Once(h, op, claims) ==
    /\ Asked(h, op)
    /\ disturbed' = claims \cap HeldByOthers(h)
    /\ UNCHANGED <<pc, req>>

Goto(h, label) ==
    /\ pc' = [pc EXCEPT ![h] = label]
    /\ UNCHANGED <<req, disturbed, asked, begun>>

Carry(h, label, locals) ==
    /\ pc' = [pc EXCEPT ![h] = label]
    /\ req' = [req EXCEPT ![h] = locals]
    /\ UNCHANGED <<disturbed, asked, begun>>

\* The same, and the request turns out to be about more documents.
TakeOn(h, label, locals) ==
    /\ pc' = [pc EXCEPT ![h] = label]
    /\ req' = [req EXCEPT ![h] = locals]
    /\ disturbed' = disturbed \cup (locals.claims \cap HeldByOthers(h))
    /\ UNCHANGED <<asked, begun>>

Leave(h) == /\ pc' = [pc EXCEPT ![h] = "idle"]
            /\ req' = [req EXCEPT ![h] = NoRequest]

Finish(h) == Leave(h) /\ UNCHANGED <<disturbed, asked, begun>>

\* A request is refused, or fails, with its documents `left` out of step.
BreakOff(h, left) == /\ Leave(h)
                     /\ disturbed' = disturbed \cup left
                     /\ UNCHANGED <<asked, begun>>

\* An awaited call raises, or the process dies; nothing written is undone.
Abort(h) == h \in FailProne /\ ~Idle(h) /\ BreakOff(h, req[h].claims)

RequestsInit == /\ pc = [h \in Desks |-> "idle"]
                /\ req = [h \in Desks |-> NoRequest]
                /\ disturbed = {}
                /\ asked \in Scenarios /\ begun = 0

\* An id no other request is about to give a document.
New(h, c) == c \notin HeldByOthers(h)

\* A collection f with one more document, or another in its place; without one.
With(f, x, y) == [z \in DOMAIN f \cup {x} |-> IF z = x THEN y ELSE f[z]]
Without(f, x) == [z \in DOMAIN f \ {x} |-> f[z]]

\* Nothing two requests fought over, one left half done, or one is about.
Calm(c) == c \notin disturbed /\ \A h \in Desks : c \notin req[h].claims
=============================================================================
