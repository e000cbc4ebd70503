------------------------------- MODULE Exams -------------------------------
(***************************************************************************)
(* One subject's marks in one exam: what it is marked out of, what passes, *)
(* the grade scale, and the regrading that follows a change of these.      *)
(* Source: app/modules/exams; marks, schedules and scales are entered      *)
(* through the CRUD factory, where the client does the arithmetic.         *)
(***************************************************************************)
EXTENDS People

CONSTANTS Schemes,       \* bound: [max, pass] records that are chosen
          SubjectScheme, \* the subject's own, where the exam has none
          Scores,        \* bound: the marks given
          Cuts           \* bound: the percentages at which a scale gives "A"

ASSUME ExamsAssumption ==
    /\ Scores \subseteq Nat /\ Cuts \subseteq Nat
    /\ \A c \in Schemes \cup {SubjectScheme} : c.max \in Nat \ {0} /\ c.pass \in 0 .. c.max

VARIABLES
    paper,     \* exam_schedules: the exam's scheme, or none
    cut,       \* the grade scale that applies
    mark,      \* a partial function of the pupil
    figures    \* history: has the scale or a mark changed since a regrade?

exams == <<paper, cut, mark, figures>>

-----------------------------------------------------------------------------
Paper == <<"paper">>

\* marking_scheme: the schedule's figures, else the subject's.
Scheme == IF paper.set THEN paper.scheme ELSE SubjectScheme

\* A grade is the first band of the percentage; that, in whole numbers.
Grade(obtained, c, at) == IF obtained * 100 >= at * c.max THEN "A" ELSE "B"

Derived(obtained, c, at) ==
    [obtained |-> obtained, outof |-> c.max, pass |-> obtained >= c.pass,
     grade |-> Grade(obtained, c, at)]

-----------------------------------------------------------------------------
(* Marks, schedules and scales as they are entered.  A mark comes with the *)
(* figures of the scheme the client has on its screen.                     *)

EnterMark(h, s, obtained, shown) ==
    /\ Once(h, "mark", {Paper})
    /\ mark' = With(mark, s, Derived(obtained, shown, cut))
    /\ figures' = figures \cup {s}
    /\ UNCHANGED <<paper, cut>>

RemoveMark(h, s) ==
    /\ s \in DOMAIN mark
    /\ Once(h, "mark", {Paper})
    /\ mark' = Without(mark, s)
    /\ UNCHANGED <<paper, cut, figures>>

EditScale(h, at) ==
    /\ Once(h, "scale", {Paper})
    /\ cut' = at
    /\ figures' = Pupils
    /\ UNCHANGED <<paper, mark>>

\* A schedule row is entered, edited, or deleted.
EditPaper(h, set, c) ==
    /\ Once(h, "scale", {Paper})
    /\ paper' = [set |-> set, scheme |-> c]
    /\ figures' = Pupils
    /\ UNCHANGED <<cut, mark>>

-----------------------------------------------------------------------------
(* set_marking_scheme, and regrade, which ends it and is a route as well.  *)

BeginScheme(h, c) ==
    /\ Begin(h, "scheme", "store scheme",
             [claims |-> {Paper}, scheme |-> c, at |-> cut, left |-> {},
              seen |-> mark])
    /\ UNCHANGED exams

StoreScheme(h) ==
    /\ pc[h] = "store scheme"
    /\ paper' = [set |-> TRUE, scheme |-> req[h].scheme]
    /\ Goto(h, "scale")
    /\ UNCHANGED <<cut, mark, figures>>

BeginRegrade(h) ==
    /\ Begin(h, "regrade", "scale",
             [claims |-> {Paper}, scheme |-> Scheme, at |-> cut, left |-> {},
              seen |-> mark])
    /\ UNCHANGED exams

ReadScale(h) ==
    /\ pc[h] = "scale"
    /\ Carry(h, "marks", [req[h] EXCEPT !.at = cut])
    /\ UNCHANGED exams

\* The cursor's first batch, then the scheme, once.
ReadMarks(h) ==
    /\ pc[h] = "marks"
    /\ IF DOMAIN mark = {} THEN Finish(h)
       ELSE Carry(h, "scheme", [req[h] EXCEPT !.seen = mark, !.left = DOMAIN mark])
    /\ figures' = IF DOMAIN mark = {} THEN {} ELSE figures
    /\ UNCHANGED <<paper, cut, mark>>

ReadScheme(h) ==
    /\ pc[h] = "scheme"
    /\ Carry(h, "regrade", [req[h] EXCEPT !.scheme = Scheme])
    /\ UNCHANGED exams

StaleMaximum(was, now) == was.outof # now.outof
Stale(was, now)        == was # now

\* Only the derived figures are written, if one of them changes.
RegradeOne(h) ==
    /\ pc[h] = "regrade"
    /\ \E s \in req[h].left :
         LET was == req[h].seen[s]
             now == Derived(was.obtained, req[h].scheme, req[h].at)
         IN /\ mark' = IF Stale(was, now) /\ s \in DOMAIN mark
                       THEN [mark EXCEPT ![s] =
                               [now EXCEPT !.obtained = mark[s].obtained]]
                       ELSE mark
            /\ IF req[h].left = {s}
               THEN Finish(h) /\ figures' = {}
               ELSE /\ Carry(h, "regrade",
                             [req[h] EXCEPT !.left = req[h].left \ {s}])
                    /\ UNCHANGED figures
    /\ UNCHANGED <<paper, cut>>

-----------------------------------------------------------------------------
ExamsInit ==
    /\ paper = [set |-> FALSE, scheme |-> SubjectScheme]
    /\ cut = 0
    /\ mark = [s \in {} |-> 0] /\ figures = {}

ExamsArrive(h) ==
    Open(h) /\
      \/ \E s \in Pupils :
           \/ \E obtained \in Scores, shown \in Schemes : EnterMark(h, s, obtained, shown)
           \/ RemoveMark(h, s)
      \/ \E at \in Cuts : EditScale(h, at)
      \/ \E c \in Schemes :
           BeginScheme(h, c) \/ (\E set \in BOOLEAN : EditPaper(h, set, c))
      \/ BeginRegrade(h)

ExamsResume(h) == \/ StoreScheme(h) \/ ReadScale(h) \/ ReadMarks(h)
                  \/ ReadScheme(h) \/ RegradeOne(h)

ExamsStep(h) == ExamsArrive(h) \/ ExamsResume(h)

-----------------------------------------------------------------------------
(* What the module promises.                                               *)

\* Once the scheme has been set, or the exam regraded, every mark entered
\* before has its maximum, pass flag and grade by the scheme and scale as they
\* are, whichever of them changed.
MarksFollowScheme ==
    Calm(Paper) => \A s \in DOMAIN mark \ figures :
        mark[s] = Derived(mark[s].obtained, Scheme, cut)
=============================================================================
