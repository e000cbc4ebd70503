------------------------------- MODULE People -------------------------------
(***************************************************************************)
(* The pupils of one institution: admission, moving, promotion, leaving,   *)
(* and what these keep in step with a pupil's record: the enrolments, the  *)
(* strength of each section, the guardians, the login.                     *)
(* Source: app/modules/people, over the CRUD factory of app/core/crud.py.  *)
(*                                                                         *)
(* Names, numbers and rolls are left out.  `unheeded` is a history         *)
(* variable: sections a pupil came to or left with no recount to follow,   *)
(* until they are next counted, and what an edit of a pupil's record       *)
(* changed that the operations below keep in step with other documents.    *)
(***************************************************************************)
EXTENDS Requests, Sequences

CONSTANTS Pupils, Sections, Years, Guardians,
          There,        \* the pupils admitted before, all to Home in ThisYear
          Home, ThisYear,
          Capacity,     \* seats of a section; 0 is no limit
          MaxStudents   \* what the plan covers

ASSUME PeopleAssumption ==
    /\ There \subseteq Pupils /\ IsFiniteSet(There) /\ Home \in Sections /\ ThisYear \in Years
    /\ Capacity \in [Sections -> Nat] /\ MaxStudents \in Nat

VARIABLES
    student,     \* a partial function of the pupil
    enrolled,    \* a partial function of pupil and year: is it the active one?
    strength,    \* sections.current_strength
    wards,       \* guardians.student_ids, a partial function
    login,       \* the user account with this student_id
    unheeded     \* history: see above

people == <<student, enrolled, strength, wards, login, unheeded>>

-----------------------------------------------------------------------------
Student == [section : Sections, year : Years, deleted : BOOLEAN,
            status : {"active", "suspended", "graduated"},
            guardians : SUBSET Guardians]

Living    == {s \in DOMAIN student : ~student[s].deleted}
Active(x) == {s \in Living : student[s].section = x
                             /\ student[s].status = "active"}

Pupil(s)    == <<"pupil", s>>
Section(x)  == <<"section", x>>
Guardian(g) == <<"guardian", g>>

\* The fields of a pupil's record that other documents follow.
Followed == {"status", "year", "guardians"}

-----------------------------------------------------------------------------
(* recount_section, for each section of a list: a count, then an update.   *)

CountActive(h) ==
    /\ pc[h] = "count"
    /\ LET x == Head(req[h].recount) IN
       /\ Carry(h, "strength", [req[h] EXCEPT !.counted = Cardinality(Active(x))])
       /\ unheeded' = unheeded \ {Section(x)}
    /\ UNCHANGED <<student, enrolled, strength, wards, login>>

WriteStrength(h) ==
    /\ pc[h] = "strength"
    /\ strength' = [strength EXCEPT ![Head(req[h].recount)] = req[h].counted]
    /\ LET rest == Tail(req[h].recount) IN
       IF rest # <<>> THEN Carry(h, "count", [req[h] EXCEPT !.recount = rest])
       ELSE IF req[h].then = "idle" THEN Finish(h)
       ELSE Carry(h, req[h].then, [req[h] EXCEPT !.recount = rest])
    /\ UNCHANGED <<student, enrolled, wards, login, unheeded>>

-----------------------------------------------------------------------------
(* Admission: create_item with the hooks of students, and the same with    *)
(* new guardians and a login.                                              *)

\* enforce_limit.
BeginAdmission(h, s, x, family, signs) ==
    /\ s \notin DOMAIN student /\ New(h, Pupil(s))
    /\ \A g \in family : g \notin DOMAIN wards /\ New(h, Guardian(g))
    /\ Cardinality(Living) < MaxStudents
    /\ Begin(h, "admit", "seat",
             [claims |-> {Pupil(s), Section(x)} \cup {Guardian(g) : g \in family},
              pupil |-> s, section |-> x,
              year |-> ThisYear, family |-> family, signs |-> signs,
              recount |-> <<x>>, then |-> "enrol", counted |-> 0])
    /\ UNCHANGED people

FullPastCapacity(x) == Capacity[x] # 0 /\ Cardinality(Active(x)) > Capacity[x]
Full(x)             == Capacity[x] # 0 /\ Cardinality(Active(x)) >= Capacity[x]

\* check_section_capacity.
CheckSeat(h) ==
    /\ pc[h] = "seat"
    /\ IF Full(req[h].section) THEN Finish(h) ELSE Goto(h, "insert student")
    /\ UNCHANGED people

InsertStudent(h) ==
    /\ pc[h] = "insert student"
    /\ student' = With(student, req[h].pupil,
         [section |-> req[h].section, year |-> req[h].year, deleted |-> FALSE,
          status |-> "active", guardians |-> {}])
    /\ Goto(h, IF req[h].family = {} THEN "count" ELSE "insert guardian")
    /\ UNCHANGED <<enrolled, strength, wards, login, unheeded>>

InsertGuardian(h) ==
    /\ pc[h] = "insert guardian"
    /\ \E g \in req[h].family \ DOMAIN wards :
         /\ wards' = With(wards, g, {req[h].pupil})
         /\ Goto(h, IF req[h].family \subseteq DOMAIN wards'
                    THEN "file guardians" ELSE "insert guardian")
    /\ UNCHANGED <<student, enrolled, strength, login, unheeded>>

FileGuardians(h) ==
    /\ pc[h] = "file guardians"
    /\ IF student[req[h].pupil].deleted
       THEN BreakOff(h, req[h].claims) /\ UNCHANGED student
       ELSE /\ student' = [student EXCEPT ![req[h].pupil].guardians = req[h].family]
            /\ Goto(h, "count")
    /\ UNCHANGED <<enrolled, strength, wards, login, unheeded>>

\* after_student_create, whose insert the unique index may refuse.
Enrol(h) ==
    /\ pc[h] = "enrol"
    /\ LET e == <<req[h].pupil, req[h].year>> IN
       IF e \in DOMAIN enrolled
       THEN BreakOff(h, req[h].claims) /\ UNCHANGED enrolled
       ELSE /\ enrolled' = With(enrolled, e, TRUE)
            /\ IF req[h].signs THEN Goto(h, "open login") ELSE Finish(h)
    /\ UNCHANGED <<student, strength, wards, login, unheeded>>

\* create_user_for_person: nothing if the address has an account already.
OpenLogin(h) ==
    /\ pc[h] = "open login"
    /\ login' = IF login[req[h].pupil] = "none"
                THEN [login EXCEPT ![req[h].pupil] = "open"] ELSE login
    /\ Finish(h)
    /\ UNCHANGED <<student, enrolled, strength, wards, unheeded>>

-----------------------------------------------------------------------------
(* update_item, with after_student_update: an edit of any one field.       *)

BeginEdit(h, op, s, field, value) ==
    /\ s \in Living
    /\ Begin(h, op, "edit",
             [claims |-> {Pupil(s), Section(student[s].section)} \cup
                         (IF field = "section" THEN {Section(value)} ELSE {}),
              pupil |-> s, field |-> field, value |-> value,
              was |-> student[s].section,
              recount |-> <<>>, then |-> "idle", counted |-> 0])
    /\ UNCHANGED people

Edited(s, field, value) ==
    CASE field = "section"   -> [student[s] EXCEPT !.section = value]
      [] field = "status"    -> [student[s] EXCEPT !.status = value]
      [] field = "year"      -> [student[s] EXCEPT !.year = value]
      [] field = "guardians" -> [student[s] EXCEPT !.guardians = value]

ToRecountArrival(was, now) == IF was = now THEN <<>> ELSE <<now>>
ToRecount(was, now)        == IF was = now THEN <<>> ELSE <<was, now>>

\* Only a change of section is followed up; an edit of the status, the year
\* or the guardians leaves strength, login, enrolments and guardians alone.
StoreEdit(h) ==
    /\ pc[h] = "edit"
    /\ LET s == req[h].pupil
           new == Edited(s, req[h].field, req[h].value)
           sections == ToRecount(req[h].was, new.section)
       IN IF s \notin Living THEN Finish(h) /\ UNCHANGED <<student, unheeded>> ELSE
          /\ student' = [student EXCEPT ![s] = new]
          /\ unheeded' = unheeded
               \cup {<<f, s>> : f \in {req[h].field} \cap Followed}
               \cup (IF req[h].field = "status" THEN {Section(new.section)} ELSE {})
               \cup ({Section(student[s].section)} \
                        {Section(req[h].was), Section(new.section)})
          /\ IF sections = <<>> THEN Finish(h)
             ELSE TakeOn(h, "count", [req[h] EXCEPT !.recount = sections,
                    !.claims = req[h].claims \cup {Section(new.section)}])
    /\ UNCHANGED <<enrolled, strength, wards, login>>

-----------------------------------------------------------------------------
(* delete_item (and bulk_delete, one after another), restore_item: no hook *)
(* recounts.                                                               *)

BeginRemoval(h, s) ==
    /\ s \in Living
    /\ Begin(h, "remove", "remove", [claims |-> {Pupil(s)}, pupil |-> s])
    /\ UNCHANGED people

Remove(h) ==
    /\ pc[h] = "remove"
    /\ LET s == req[h].pupil IN
       IF s \notin Living THEN UNCHANGED <<student, unheeded>> ELSE
         /\ student' = [student EXCEPT ![s].deleted = TRUE]
         /\ unheeded' = unheeded \cup {Section(student[s].section)}
    /\ Finish(h)
    /\ UNCHANGED <<enrolled, strength, wards, login>>

Restore(h, s) ==
    /\ s \in DOMAIN student \ Living
    /\ Once(h, "remove", {Pupil(s), Section(student[s].section)})
    /\ student' = [student EXCEPT ![s].deleted = FALSE]
    /\ unheeded' = unheeded \cup {Section(student[s].section)}
    /\ UNCHANGED <<enrolled, strength, wards, login>>

-----------------------------------------------------------------------------
(* promote_students: one after another, three updates each.                *)

BeginPromotion(h, cohort, x, y) ==
    /\ cohort # {} /\ cohort \subseteq DOMAIN student
    /\ Begin(h, "promote", "promote",
             [claims |-> {Section(x)} \cup {Pupil(s) : s \in cohort},
              left |-> cohort, pupil |-> {}, section |-> x, year |-> y,
              recount |-> <<x>>, then |-> "idle", counted |-> 0])
    /\ UNCHANGED people

\* The next of the cohort is read; who is gone or not active is skipped.
NextOfCohort(h) ==
    /\ pc[h] = "promote"
    /\ IF req[h].left = {} THEN Goto(h, "count") ELSE
         \E s \in req[h].left :
            Carry(h, IF s \in Active(student[s].section) THEN "close" ELSE "promote",
                  [req[h] EXCEPT !.left = req[h].left \ {s}, !.pupil = {s}])
    /\ UNCHANGED people

\* The enrolments a promotion closes.
ClosesThisYears(s, y) == {e \in DOMAIN enrolled : e = <<s, y>>}
Closes(s, y)          == {e \in DOMAIN enrolled : e[1] = s /\ enrolled[e]}

CloseEnrolments(h) ==
    /\ pc[h] = "close"
    /\ \E s \in req[h].pupil :
         enrolled' = [e \in DOMAIN enrolled |->
                        enrolled[e] /\ e \notin Closes(s, req[h].year)]
    /\ Goto(h, "reopen")
    /\ UNCHANGED <<student, strength, wards, login, unheeded>>

\* The year's enrolment, refused by the unique index if there is one: then
\* the whole request fails, this pupil is left with no enrolment, and the
\* section those before came to is not recounted.
OpenEnrolment(h) ==
    /\ pc[h] = "reopen"
    /\ \E s \in req[h].pupil :
         LET e == <<s, req[h].year>> IN
         IF e \in DOMAIN enrolled
         THEN /\ BreakOff(h, {Pupil(s)})
              /\ unheeded' = unheeded \cup {Section(req[h].section)}
              /\ UNCHANGED enrolled
         ELSE /\ enrolled' = With(enrolled, e, TRUE)
              /\ Goto(h, "move up")
              /\ UNCHANGED unheeded
    /\ UNCHANGED <<student, strength, wards, login>>

\* Nobody recounts the section the pupil leaves.
MoveUp(h) ==
    /\ pc[h] = "move up"
    /\ \E s \in req[h].pupil :
         /\ student' = [student EXCEPT ![s].section = req[h].section,
                                       ![s].year = req[h].year]
         /\ unheeded' = (unheeded \ {<<"year", s>>}) \cup
              ({Section(student[s].section)} \ {Section(req[h].section)})
    /\ Goto(h, "promote")
    /\ UNCHANGED <<enrolled, strength, wards, login>>

-----------------------------------------------------------------------------
(* change_status.                                                          *)

BeginStatus(h, s, status) ==
    /\ s \in Living
    /\ Begin(h, "status", "status",
             [claims |-> {Pupil(s), Section(student[s].section)}, pupil |-> s,
              status |-> status, recount |-> <<student[s].section>>,
              then |-> "login", counted |-> 0])
    /\ UNCHANGED people

StoreStatus(h) ==
    /\ pc[h] = "status"
    /\ student' = [student EXCEPT ![req[h].pupil].status = req[h].status]
    /\ unheeded' = unheeded \cup
         ({Section(student[req[h].pupil].section)} \ {Section(Head(req[h].recount))})
    /\ Goto(h, "count")
    /\ UNCHANGED <<enrolled, strength, wards, login>>

\* A pupil who is no longer active keeps the login, disabled.
LeftForGood(status) == status = "graduated"
HasLeft(status)     == status # "active"

CloseLogin(h) ==
    /\ pc[h] = "login"
    /\ login' = IF HasLeft(req[h].status) /\ login[req[h].pupil] = "open"
                THEN [login EXCEPT ![req[h].pupil] = "closed"] ELSE login
    /\ unheeded' = unheeded \ {<<"status", req[h].pupil>>}
    /\ Finish(h)
    /\ UNCHANGED <<student, enrolled, strength, wards>>

-----------------------------------------------------------------------------
(* link_guardian: the child's side, then the guardian's.                   *)

LinkChild(h, s, g) ==
    /\ s \in DOMAIN student /\ g \in DOMAIN wards
    /\ Begin(h, "link", "link",
             [claims |-> {Pupil(s), Guardian(g)}, pupil |-> s, guardian |-> g])
    /\ student' = [student EXCEPT ![s].guardians = student[s].guardians \cup {g}]
    /\ UNCHANGED <<enrolled, strength, wards, login, unheeded>>

LinkGuardian(h) ==
    /\ pc[h] = "link"
    /\ LET g == req[h].guardian IN
       wards' = [wards EXCEPT ![g] = wards[g] \cup {req[h].pupil}]
    /\ Finish(h)
    /\ UNCHANGED <<student, enrolled, strength, login, unheeded>>

-----------------------------------------------------------------------------
PeopleInit ==
    /\ student = [s \in There |->
         [section |-> Home, year |-> ThisYear, deleted |-> FALSE,
          status |-> "active", guardians |-> {}]]
    /\ enrolled = [e \in There \X {ThisYear} |-> TRUE]
    /\ strength = [x \in Sections |-> IF x = Home THEN Cardinality(There) ELSE 0]
    /\ wards = [g \in {} |-> {}]
    /\ login = [s \in Pupils |-> IF s \in There THEN "open" ELSE "none"]
    /\ unheeded = {}

PeopleArrive(h) ==
    Open(h) /\
      \/ \E s \in Pupils, x \in Sections :
           \/ \E family \in SUBSET Guardians, signs \in BOOLEAN :
                BeginAdmission(h, s, x, family, signs)
           \/ BeginEdit(h, "move", s, "section", x)
      \/ \E cohort \in SUBSET Pupils, x \in Sections, y \in Years :
           BeginPromotion(h, cohort, x, y)
      \/ \E s \in Pupils :
           \/ BeginRemoval(h, s) \/ Restore(h, s)
           \/ \E status \in {"active", "suspended", "graduated"} :
                \/ BeginStatus(h, s, status)
                \/ BeginEdit(h, "edit", s, "status", status)
           \/ \E y \in Years : BeginEdit(h, "edit", s, "year", y)
           \/ \E gs \in SUBSET DOMAIN wards :
                BeginEdit(h, "edit", s, "guardians", gs)
           \/ \E g \in Guardians : LinkChild(h, s, g)

PeopleResume(h) ==
    \/ CountActive(h) \/ WriteStrength(h)
    \/ CheckSeat(h) \/ InsertStudent(h) \/ InsertGuardian(h) \/ FileGuardians(h)
    \/ Enrol(h) \/ OpenLogin(h)
    \/ StoreEdit(h) \/ Remove(h)
    \/ NextOfCohort(h) \/ CloseEnrolments(h) \/ OpenEnrolment(h) \/ MoveUp(h)
    \/ StoreStatus(h) \/ CloseLogin(h) \/ LinkGuardian(h)

PeopleStep(h) == PeopleArrive(h) \/ PeopleResume(h)

-----------------------------------------------------------------------------
(* What the module promises.                                               *)

\* A pupil has one active enrolment, that of the year the record is in: a
\* promotion closes one and opens one, however cohorts and requests mix, and
\* unless an edit of the record changed the year.
OneEnrolment ==
    \A s \in DOMAIN student :
        Calm(Pupil(s)) /\ <<"year", s>> \notin unheeded =>
          {e \in DOMAIN enrolled : e[1] = s /\ enrolled[e]}
              = {<<s, student[s].year>>}

\* A section's strength is the number of active pupils in it, wherever the
\* code recounts.
StrengthCounted ==
    \A x \in Sections : Calm(Section(x)) /\ Section(x) \notin unheeded =>
        strength[x] = Cardinality(Active(x))

\* An admission takes a seat that was free, unless the section's pupils
\* changed by another request between the check and the insert.
AdmittedToASeat ==
    [][\A s \in DOMAIN student' \ DOMAIN student :
         LET x == student'[s].section IN
         Section(x) \in disturbed \/ Capacity[x] = 0
           \/ Cardinality(Active(x)) < Capacity[x]]_student

\* A pupil whose status was changed to one who has left cannot sign in, and a
\* guardian is on the child's record exactly when the child is on the
\* guardian's; an edit of the record is followed by neither.
LeaversShutOut ==
    \A s \in DOMAIN student : Calm(Pupil(s)) =>
        /\ student[s].status # "active" /\ <<"status", s>> \notin unheeded
             => login[s] # "open"
        /\ \A g \in DOMAIN wards :
             Calm(Guardian(g)) /\ <<"guardians", s>> \notin unheeded =>
               (g \in student[s].guardians <=> s \in wards[g])
=============================================================================
