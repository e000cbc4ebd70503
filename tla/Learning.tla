------------------------------ MODULE Learning ------------------------------
(***************************************************************************)
(* Homework, handed in through the portal or collected on paper and then   *)
(* graded, and live classes.                                               *)
(* Source: app/modules/lms.                                                *)
(*                                                                         *)
(* Answers, marks, dates and notices are left out; so is lateness, which   *)
(* differs from being in time by a word, or by a refusal.                  *)
(***************************************************************************)
EXTENDS People

CONSTANTS Assignments,   \* each set for the section Home
          Lessons,       \* the documents of live classes
          Slots          \* bound: when they are held, <<starts, ends>>

ASSUME LearningAssumption ==
    \A t \in Slots : t[1] \in Nat /\ t[2] \in Nat /\ t[1] < t[2]

VARIABLES
    work,      \* the assignments
    handed,    \* assignment_submissions not deleted, by <<assignment, pupil>>
    lesson     \* online_classes: a partial function

learning == <<work, handed, lesson>>

-----------------------------------------------------------------------------
Handed(a, s)  == <<"handed", a, s>>
Timetable(x)  == <<"timetable", x>>
NotHanded     == [status |-> "none", offline |-> FALSE]

Submission(a, s) == IF <<a, s>> \in DOMAIN handed THEN handed[<<a, s>>]
                    ELSE NotHanded

-----------------------------------------------------------------------------
(* An assignment is edited through the CRUD factory, published and closed. *)

\* A PATCH of the mode or of the status.
EditWork(h, a, status, mode) ==
    /\ status = work[a].status \/ mode = work[a].mode
    /\ Once(h, "edit work", {Handed(a, s) : s \in Pupils})
    /\ work' = [work EXCEPT ![a].status = status, ![a].mode = mode]
    /\ UNCHANGED <<handed, lesson>>

\* publish_assignment and close_assignment; the notices are left out.
BeginStage(h, a, status) ==
    /\ status = "published" => work[a].status # "published"
    /\ Begin(h, "publish", "stage",
             [claims |-> {Handed(a, s) : s \in Pupils}, work |-> a,
              status |-> status])
    /\ UNCHANGED learning

StoreStage(h) ==
    /\ pc[h] = "stage"
    /\ work' = [work EXCEPT ![req[h].work].status = req[h].status]
    /\ Finish(h)
    /\ UNCHANGED <<handed, lesson>>

-----------------------------------------------------------------------------
(* submit_homework.                                                        *)

BeginSubmit(h, a, s) ==
    /\ s \in DOMAIN student
    /\ work[a].status = "published" /\ work[a].mode = "online"
    /\ Begin(h, "submit", "existing",
             [claims |-> {Handed(a, s)}, work |-> a, pupil |-> s])
    /\ UNCHANGED learning

StillOpen(r) == r.status # "graded"

ReadExisting(h) ==
    /\ pc[h] = "existing"
    /\ LET r == Submission(req[h].work, req[h].pupil) IN
       IF r = NotHanded THEN Goto(h, "hand in")
       ELSE IF StillOpen(r) THEN Goto(h, "resubmit") ELSE Finish(h)
    /\ UNCHANGED learning

\* The document is updated, or the request fails if it is gone.
Resubmit(h) ==
    /\ pc[h] = "resubmit"
    /\ LET e == <<req[h].work, req[h].pupil>> IN
       handed' = IF e \in DOMAIN handed
                 THEN [handed EXCEPT ![e] = [status |-> "submitted", offline |-> FALSE]]
                 ELSE handed
    /\ Finish(h)
    /\ UNCHANGED <<work, lesson>>

\* A new document, or a conflict on (assignment, student).
HandIn(h) ==
    /\ pc[h] = "hand in"
    /\ LET e == <<req[h].work, req[h].pupil>> IN
       IF e \in DOMAIN handed THEN Finish(h) /\ UNCHANGED handed
       ELSE /\ handed' = With(handed, e, [status |-> "submitted", offline |-> FALSE])
            /\ Goto(h, "count in")
    /\ UNCHANGED <<work, lesson>>

CountIn(h) ==
    /\ pc[h] = "count in"
    /\ work' = [work EXCEPT ![req[h].work].submitted = work[req[h].work].submitted + 1]
    /\ Finish(h)
    /\ UNCHANGED <<handed, lesson>>

-----------------------------------------------------------------------------
(* collect_offline: the roster, against the rows as they were read.        *)

BeginCollect(h, a, ticked) ==
    /\ work[a].mode = "offline" /\ work[a].status # "draft"
    /\ ticked \subseteq Active(Home)
    /\ Begin(h, "collect", "rows as they are",
             [claims |-> {Handed(a, s) : s \in Pupils}, work |-> a,
              ticked |-> ticked, left |-> Active(Home), seen |-> handed, counted |-> 0])
    /\ UNCHANGED learning

ReadRows(h) ==
    /\ pc[h] = "rows as they are"
    /\ Carry(h, IF req[h].left = {} THEN "recount" ELSE "collect",
             [req[h] EXCEPT !.seen = handed])
    /\ UNCHANGED learning

\* Only a tick of this screen is undone, and not once the work is graded.
RemovableTick(r) == r.offline
Removable(r)     == r.offline /\ r.status # "graded"

\* What becomes of the row that was r when read.
Collected(ticked, r) ==
    CASE ticked /\ r = NotHanded           -> "create"
      [] ticked /\ r # NotHanded
                /\ r.status # "graded"     -> "update"
      [] ~ticked /\ Removable(r)           -> "delete"
      [] OTHER                             -> "leave"

CollectOne(h) ==
    /\ pc[h] = "collect"
    /\ \E s \in req[h].left :
         LET e    == <<req[h].work, s>>
             was  == IF e \in DOMAIN req[h].seen THEN req[h].seen[e] ELSE NotHanded
             what == Collected(s \in req[h].ticked, was)
             on   == Carry(h, IF req[h].left = {s} THEN "recount" ELSE "collect",
                           [req[h] EXCEPT !.left = req[h].left \ {s}])
         IN \/ what = "leave" /\ on /\ UNCHANGED handed
            \/ /\ what = "create" /\ e \notin DOMAIN handed /\ on
               /\ handed' = With(handed, e, [status |-> "submitted", offline |-> TRUE])
            \/ /\ what = "update" /\ e \in DOMAIN handed /\ on
               /\ handed' = [handed EXCEPT ![e] = [status |-> was.status, offline |-> TRUE]]
            \/ /\ what = "delete" /\ e \in DOMAIN handed /\ on
               /\ handed' = Without(handed, e)
            \/ /\ what # "leave"              \* a conflict, or it is gone
               /\ what = "create" <=> e \in DOMAIN handed
               /\ BreakOff(h, req[h].claims)
               /\ UNCHANGED handed
    /\ UNCHANGED <<work, lesson>>

Recount(h) ==
    /\ pc[h] = "recount"
    /\ Carry(h, "store count", [req[h] EXCEPT
             !.counted = Cardinality({e \in DOMAIN handed : e[1] = req[h].work})])
    /\ UNCHANGED learning

StoreCount(h) ==
    /\ pc[h] = "store count"
    /\ work' = [work EXCEPT ![req[h].work].submitted = req[h].counted]
    /\ Finish(h)
    /\ UNCHANGED <<handed, lesson>>

-----------------------------------------------------------------------------
(* grade_submission.                                                       *)

FirstGrade(r) == r.status # "graded"

BeginGrade(h, a, s) ==
    /\ <<a, s>> \in DOMAIN handed
    /\ Begin(h, "grade", "grade",
             [claims |-> {Handed(a, s)}, work |-> a, pupil |-> s,
              first |-> FirstGrade(handed[<<a, s>>])])
    /\ UNCHANGED learning

StoreGrade(h) ==
    /\ pc[h] = "grade"
    /\ LET e == <<req[h].work, req[h].pupil>> IN
       IF e \notin DOMAIN handed THEN Finish(h) /\ UNCHANGED handed
       ELSE /\ handed' = [handed EXCEPT ![e].status = "graded"]
            /\ IF req[h].first THEN Goto(h, "count graded") ELSE Finish(h)
    /\ UNCHANGED <<work, lesson>>

CountGraded(h) ==
    /\ pc[h] = "count graded"
    /\ work' = [work EXCEPT ![req[h].work].graded = work[req[h].work].graded + 1]
    /\ Finish(h)
    /\ UNCHANGED <<handed, lesson>>

-----------------------------------------------------------------------------
(* Live classes.                                                           *)

StartsDuring(u, t) == u[1] >= t[1] /\ u[1] < t[2]
Overlaps(u, t)     == u[1] < t[2] /\ u[2] > t[1]

Clashes(sections, t) ==
    {l \in DOMAIN lesson : /\ lesson[l].sections \cap sections # {}
                           /\ ~lesson[l].cancelled
                           /\ Overlaps(lesson[l].slot, t)}

BeginSchedule(h, l, sections, t) ==
    /\ l \notin DOMAIN lesson /\ New(h, <<"lesson", l>>)
    /\ sections # {} /\ Clashes(sections, t) = {}
    /\ Begin(h, "schedule", "schedule",
             [claims |-> {<<"lesson", l>>} \cup {Timetable(x) : x \in sections},
              lesson |-> l, sections |-> sections, slot |-> t])
    /\ UNCHANGED learning

Schedule(h) ==
    /\ pc[h] = "schedule"
    /\ lesson' = With(lesson, req[h].lesson,
         [sections |-> req[h].sections, slot |-> req[h].slot,
          cancelled |-> FALSE, attendees |-> [s \in Pupils |-> 0]])
    /\ Finish(h)
    /\ UNCHANGED <<work, handed>>

BeginCancel(h, l) ==
    /\ l \in DOMAIN lesson
    /\ Begin(h, "cancel", "cancel", [claims |-> {<<"lesson", l>>}, lesson |-> l])
    /\ UNCHANGED learning

Cancel(h) ==
    /\ pc[h] = "cancel"
    /\ lesson' = [lesson EXCEPT ![req[h].lesson].cancelled = TRUE]
    /\ Finish(h)
    /\ UNCHANGED <<work, handed>>

\* join, while the class is open; the pupil's section is read after it.
BeginJoin(h, l, s) ==
    /\ s \in DOMAIN student
    /\ l \in DOMAIN lesson /\ ~lesson[l].cancelled
    /\ Begin(h, "cancel", "join",
             [claims |-> {<<"lesson", l>>}, lesson |-> l, pupil |-> s])
    /\ UNCHANGED learning

\* Each entry of $addToSet has its own time, so none is a duplicate.
Join(h) ==
    /\ pc[h] = "join"
    /\ LET l == req[h].lesson  s == req[h].pupil IN
       IF student[s].section \in lesson[l].sections THEN Goto(h, "attend")
       ELSE Finish(h)
    /\ UNCHANGED learning

Attend(h) ==
    /\ pc[h] = "attend"
    /\ LET l == req[h].lesson  s == req[h].pupil IN
       lesson' = [lesson EXCEPT ![l].attendees[s] = lesson[l].attendees[s] + 1]
    /\ Finish(h)
    /\ UNCHANGED <<work, handed>>

-----------------------------------------------------------------------------
LearningInit ==
    /\ \E early \in SUBSET There, mode \in {"online", "offline"} :
         /\ asked \cap {"submit", "collect"} = {} => early = {}    \* bound
         /\ mode = "online" <=> "submit" \in asked                \* bound
         /\ handed = [e \in Assignments \X early |->
                        [status |-> "submitted", offline |-> mode = "offline"]]
         /\ work = [a \in Assignments |->
              [status |-> "published", mode |-> mode,
               submitted |-> Cardinality(early), graded |-> 0]]
    /\ lesson = [l \in {} |-> {}]

LearningArrive(h) ==
    Open(h) /\
      \/ \E a \in Assignments :
           \/ \E status \in {"draft", "published", "closed"} :
                \/ \E mode \in {"online", "offline"} : EditWork(h, a, status, mode)
                \/ status # "draft" /\ BeginStage(h, a, status)
           \/ \E s \in Pupils : BeginSubmit(h, a, s) \/ BeginGrade(h, a, s)
           \/ \E ticked \in SUBSET Pupils : BeginCollect(h, a, ticked)
      \/ \E l \in Lessons :
           \/ \E sections \in SUBSET Sections, t \in Slots :
                BeginSchedule(h, l, sections, t)
           \/ BeginCancel(h, l)
           \/ \E s \in Pupils : BeginJoin(h, l, s)

LearningResume(h) ==
    \/ StoreStage(h) \/ ReadExisting(h) \/ Resubmit(h) \/ HandIn(h) \/ CountIn(h)
    \/ ReadRows(h) \/ CollectOne(h) \/ Recount(h) \/ StoreCount(h)
    \/ StoreGrade(h) \/ CountGraded(h)
    \/ Schedule(h) \/ Cancel(h) \/ Join(h) \/ Attend(h)

LearningStep(h) == LearningArrive(h) \/ LearningResume(h)

-----------------------------------------------------------------------------
(* What the module promises.                                               *)

\* An assignment's counts are those of its submissions, handed in, collected,
\* collected again and graded again in any order; two pupils' counts may be
\* under way at once.
CountsMatch ==
    \A a \in Assignments : (\A s \in Pupils : Calm(Handed(a, s))) =>
        LET of == {e \in DOMAIN handed : e[1] = a} IN
        /\ work[a].submitted = Cardinality(of)
        /\ work[a].graded = Cardinality({e \in of : handed[e].status = "graded"})

\* A grade is not taken back by a later submission or collection, unless it
\* was given while one was under way.
GradedStays ==
    [][\A a \in Assignments, s \in Pupils :
         Submission(a, s).status = "graded" /\ Handed(a, s) \notin disturbed' =>
           Submission(a, s)'.status = "graded"]_handed

\* A section has one live class at a time, unless two were scheduled at once.
NoClash ==
    \A l, m \in DOMAIN lesson :
        l # m /\ ~lesson[l].cancelled /\ ~lesson[m].cancelled
          /\ (\A x \in lesson[l].sections \cap lesson[m].sections :
                Timetable(x) \notin disturbed)
          /\ Overlaps(lesson[l].slot, lesson[m].slot) =>
             lesson[l].sections \cap lesson[m].sections = {}

\* The counts of homework and the timetable of live classes, together.
LearningInOrder == CountsMatch /\ NoClash
=============================================================================
