---------------------------- MODULE PeopleProofs ----------------------------
(***************************************************************************)
(* Theorems about the pupils of Campus: their enrolments, logins and       *)
(* guardians, the strength of the sections and the seats in them, the      *)
(* homework they hand in and the live classes they are called to.          *)
(*                                                                         *)
(* First what every request about pupils holds from its first call to its  *)
(* last; on it rest the invariants, one for each of what the requests keep *)
(* in step with the records.  All have one form: a document that two       *)
(* requests met at, or a failed one left, is out of the promise; of any    *)
(* other, a request that is not done owes what is still missing.           *)
(***************************************************************************)
EXTENDS CampusProofs

-----------------------------------------------------------------------------
(* People.  What every request about pupils holds at each of its calls,    *)
(* and what the documents are like.                                        *)

Counting == {"count", "strength"}

Admitting(h) ==
    \/ pc[h] \in {"seat", "insert student", "insert guardian", "file guardians",
                  "enrol", "open login"}
    \/ pc[h] \in Counting /\ req[h].then = "enrol"
Leaving(h) ==
    \/ pc[h] \in {"status", "login"}
    \/ pc[h] \in Counting /\ req[h].then = "login"
Promoting(h) == pc[h] \in {"promote", "close", "reopen", "move up"}

AdmissionFields == {"claims", "pupil", "section", "year", "family", "signs",
                    "recount", "then", "counted"}
EditFields      == {"claims", "pupil", "field", "value", "was", "recount", "then",
                    "counted"}
PromotionFields == {"claims", "left", "pupil", "section", "year", "recount", "then",
                    "counted"}
StatusFields    == {"claims", "pupil", "status", "recount", "then", "counted"}

\* The sections still to count, one or two, and those they are.
ShortList(list) == \/ \E a \in Sections : list = <<a>>
                   \/ \E a, b \in Sections : list = <<a, b>>
Listed(list)    == {list[i] : i \in DOMAIN list}

\* A pupil a request is about, on file.
OnFile(h, s) == s \in DOMAIN student /\ Pupil(s) \in req[h].claims

AdmissionShaped(h) ==
    Admitting(h) =>
      /\ DOMAIN req[h] = AdmissionFields
      /\ req[h].pupil \in Pupils /\ Pupil(req[h].pupil) \in req[h].claims
      /\ req[h].section \in Sections /\ Section(req[h].section) \in req[h].claims
      /\ req[h].family \subseteq Guardians
      /\ \A g \in req[h].family : Guardian(g) \in req[h].claims
      /\ req[h].year \in Years /\ req[h].then = "enrol"
      /\ pc[h] \notin Counting \cup {"enrol", "open login"} =>
           req[h].recount = <<req[h].section>>
      /\ pc[h] \notin {"seat", "insert student"} => req[h].pupil \in DOMAIN student
      /\ pc[h] = "file guardians" => req[h].family \subseteq DOMAIN wards

EditShaped(h) ==
    pc[h] = "edit" =>
      /\ DOMAIN req[h] = EditFields /\ OnFile(h, req[h].pupil)
      /\ req[h].was \in Sections /\ Section(req[h].was) \in req[h].claims
      /\ req[h].then = "idle"
      /\ \/ req[h].field = "section" /\ req[h].value \in Sections
            /\ Section(req[h].value) \in req[h].claims
         \/ req[h].field = "status"
            /\ req[h].value \in {"active", "suspended", "graduated"}
         \/ req[h].field = "year" /\ req[h].value \in Years
         \/ req[h].field = "guardians" /\ req[h].value \subseteq DOMAIN wards

PromotionShaped(h) ==
    Promoting(h) =>
      /\ DOMAIN req[h] = PromotionFields
      /\ req[h].section \in Sections /\ Section(req[h].section) \in req[h].claims
      /\ req[h].year \in Years /\ req[h].then = "idle"
      /\ req[h].recount = <<req[h].section>>
      /\ \A s \in req[h].left \cup req[h].pupil : OnFile(h, s)
      /\ pc[h] # "promote" => \E s \in DOMAIN student : req[h].pupil = {s}

StatusShaped(h) ==
    Leaving(h) =>
      /\ DOMAIN req[h] = StatusFields /\ OnFile(h, req[h].pupil)
      /\ req[h].status \in {"active", "suspended", "graduated"}
      /\ req[h].then = "login"
      /\ pc[h] = "status" => \E a \in Sections : /\ req[h].recount = <<a>>
                                                 /\ Section(a) \in req[h].claims

CountShaped(h) ==
    pc[h] \in Counting =>
      /\ {"claims", "recount", "then", "counted"} \subseteq DOMAIN req[h]
      /\ ShortList(req[h].recount)
      /\ \A a \in Listed(req[h].recount) : Section(a) \in req[h].claims

LinkShaped(h) ==
    /\ pc[h] = "remove" => OnFile(h, req[h].pupil)
    /\ pc[h] = "link" => /\ OnFile(h, req[h].pupil)
                         /\ req[h].guardian \in DOMAIN wards
                         /\ Guardian(req[h].guardian) \in req[h].claims

Shaped(h) == /\ AdmissionShaped(h) /\ EditShaped(h) /\ PromotionShaped(h)
             /\ StatusShaped(h) /\ CountShaped(h) /\ LinkShaped(h)

PupilsTyped ==
    /\ DOMAIN student \subseteq Pupils /\ IsFiniteSet(DOMAIN student)
    /\ \A s \in DOMAIN student :
         student[s] \in Student /\ student[s].guardians \subseteq DOMAIN wards
    /\ \A e \in DOMAIN enrolled :
         e \in Pupils \X Years /\ e[1] \in DOMAIN student /\ enrolled[e] \in BOOLEAN
    /\ DOMAIN strength = Sections /\ DOMAIN login = Pupils
    /\ DOMAIN wards \subseteq Guardians
    /\ \A g \in DOMAIN wards : wards[g] \subseteq DOMAIN student

PeopleShaped == PupilsTyped /\ \A h \in Desks : Shaped(h)

-----------------------------------------------------------------------------
LEMMA Lists ==
    ASSUME NEW a, NEW b
    PROVE  /\ Head(<<a>>) = a /\ Tail(<<a>>) = <<>> /\ Listed(<<a>>) = {a}
           /\ Head(<<a, b>>) = a /\ Tail(<<a, b>>) = <<b>> /\ Listed(<<a, b>>) = {a, b}
           /\ <<a>> # <<>> /\ <<a, b>> # <<>> /\ <<a, b>> # <<a>>
<1>1. Listed(<<a>>) = {a}
      BY DEF Listed
<1>2. Listed(<<a, b>>) = {a, b}
      BY DEF Listed
<1>3. Tail(<<a>>) = <<>> /\ Tail(<<a, b>>) = <<b>>
      OBVIOUS
<1>4. <<a>> # <<>> /\ <<a, b>> # <<>> /\ <<a, b>> # <<a>>
      OBVIOUS
<1>. QED BY <1>1, <1>2, <1>3, <1>4

LEMMA PeopleStart == ASSUME Init PROVE PeopleShaped
<1>1. /\ pc = [h \in Desks |-> "idle"]
      /\ student = [s \in There |-> [section |-> Home, year |-> ThisYear,
                      deleted |-> FALSE, status |-> "active", guardians |-> {}]]
      /\ enrolled = [e \in There \X {ThisYear} |-> TRUE]
      /\ DOMAIN strength = Sections /\ DOMAIN wards = {} /\ DOMAIN login = Pupils
      BY DEF Init, PeopleInit, RequestsInit
<1>2. /\ There \subseteq Pupils /\ IsFiniteSet(There) /\ Home \in Sections
      /\ ThisYear \in Years
      BY PeopleAssumption
<1>3. ASSUME NEW s \in DOMAIN student
      PROVE  student[s] \in Student /\ student[s].guardians \subseteq DOMAIN wards
  <2>1. student[s] = [section |-> Home, year |-> ThisYear, deleted |-> FALSE,
                      status |-> "active", guardians |-> {}]
        BY <1>1
  <2>2. student[s] \in Student
        BY <1>2, <2>1 DEF Student
  <2>3. student[s].guardians = {}
        BY <2>1
  <2>. QED BY <2>2, <2>3
<1>4. ASSUME NEW e \in DOMAIN enrolled
      PROVE  e \in Pupils \X Years /\ e[1] \in DOMAIN student /\ enrolled[e] \in BOOLEAN
      BY <1>1, <1>2
<1>5. PupilsTyped
      BY <1>1, <1>2, <1>3, <1>4 DEF PupilsTyped
<1>6. ASSUME NEW h \in Desks PROVE Shaped(h)
      BY <1>1 DEF Shaped, AdmissionShaped, EditShaped, PromotionShaped, StatusShaped,
                  CountShaped, LinkShaped, Admitting, Promoting, Leaving, Counting
<1>. QED BY <1>5, <1>6 DEF PeopleShaped

\* The shape of a request stays: documents are not taken off file.
LEMMA ShapedOn ==
    ASSUME NEW g \in Desks, Shaped(g), pc'[g] = pc[g], req'[g] = req[g],
           DOMAIN student \subseteq DOMAIN student', DOMAIN wards \subseteq DOMAIN wards'
    PROVE  Shaped(g)'
<1>1. AdmissionShaped(g)'
      BY DEF Shaped, AdmissionShaped, Admitting
<1>2. EditShaped(g)'
      BY DEF Shaped, EditShaped, OnFile
<1>3. PromotionShaped(g)'
      BY DEF Shaped, PromotionShaped, OnFile, Promoting
<1>4. StatusShaped(g)'
      BY DEF Shaped, StatusShaped, OnFile, Leaving
<1>5. CountShaped(g)' /\ LinkShaped(g)'
      BY DEF Shaped, CountShaped, LinkShaped, OnFile
<1>. QED BY <1>1, <1>2, <1>3, <1>4, <1>5 DEF Shaped

LEMMA ShapedIdle ==
    ASSUME NEW h \in Desks, pc'[h] \notin PeopleCalls
    PROVE  Shaped(h)'
BY DEF Shaped, AdmissionShaped, EditShaped, PromotionShaped, StatusShaped, CountShaped,
       LinkShaped, Admitting, Promoting, Leaving, Counting, PeopleCalls

LEMMA PeoplePassed ==
    ASSUME Disciplined, PeopleShaped, Passes(PeopleCalls), UNCHANGED people
    PROVE  PeopleShaped'
<1>1. UNCHANGED <<student, enrolled, strength, wards, login>>
      BY DEF people
<1>2. ASSUME NEW h \in Desks PROVE Shaped(h)'
  <2>1. CASE pc'[h] \in PeopleCalls
    <3>1. pc'[h] = pc[h] /\ req'[h] = req[h]
          BY <2>1 DEF Passes
    <3>. QED BY <1>1, <3>1, ShapedOn DEF PeopleShaped
  <2>2. CASE pc'[h] \notin PeopleCalls
        BY <2>2, ShapedIdle
  <2>. QED BY <2>1, <2>2
<1>3. PupilsTyped'
      BY <1>1 DEF PeopleShaped, PupilsTyped
<1>. QED BY <1>2, <1>3 DEF PeopleShaped

\* So a step keeps the shape of all if it keeps its own and the documents'.
LEMMA PeopleMoved ==
    ASSUME Disciplined, PeopleShaped, NEW h \in Desks, Moves(h, PeopleCalls),
           PupilsTyped', Shaped(h)',
           DOMAIN student \subseteq DOMAIN student', DOMAIN wards \subseteq DOMAIN wards'
    PROVE  PeopleShaped'
<1>1. ASSUME NEW g \in Desks, g # h PROVE Shaped(g)'
  <2>1. pc'[g] = pc[g] /\ req'[g] = req[g]
        BY <1>1 DEF Moves, Disciplined
  <2>. QED BY <2>1, ShapedOn DEF PeopleShaped
<1>. QED BY <1>1 DEF PeopleShaped

-----------------------------------------------------------------------------
(* What each call does to its request, in the order they come.             *)

LEMMA AdmissionBegins ==
    ASSUME Disciplined, NEW h \in Desks, NEW s, NEW x, NEW family, NEW signs,
           BeginAdmission(h, s, x, family, signs)
    PROVE  /\ pc[h] = "idle" /\ pc'[h] = "seat" /\ UNCHANGED people
           /\ DOMAIN req'[h] = AdmissionFields
           /\ req'[h].pupil = s /\ req'[h].section = x /\ req'[h].year = ThisYear
           /\ req'[h].family = family /\ req'[h].recount = <<x>>
           /\ req'[h].then = "enrol"
           /\ req'[h].claims = {Pupil(s), Section(x)} \cup {Guardian(g) : g \in family}
           /\ s \notin DOMAIN student /\ \A g \in family : g \notin DOMAIN wards
<1>. DEFINE claims == {Pupil(s), Section(x)} \cup {Guardian(g) : g \in family}
            r == [claims |-> claims, pupil |-> s, section |-> x, year |-> ThisYear,
                  family |-> family, signs |-> signs, recount |-> <<x>>,
                  then |-> "enrol", counted |-> 0]
<1>1. /\ pc[h] = "idle" /\ pc'[h] = "seat" /\ req'[h] = r /\ UNCHANGED people
      /\ s \notin DOMAIN student /\ \A g \in family : g \notin DOMAIN wards
      BY DEF BeginAdmission, Begin, Asked, Open, Idle, Disciplined
<1>2. /\ DOMAIN r = AdmissionFields /\ r.pupil = s /\ r.section = x /\ r.year = ThisYear
      /\ r.family = family /\ r.recount = <<x>> /\ r.then = "enrol" /\ r.claims = claims
      BY DEF AdmissionFields
<1>. HIDE DEF r
<1>. QED BY <1>1, <1>2

LEMMA EditBegins ==
    ASSUME Disciplined, NEW h \in Desks, NEW op, NEW s, NEW field, NEW value,
           BeginEdit(h, op, s, field, value)
    PROVE  /\ pc[h] = "idle" /\ pc'[h] = "edit" /\ UNCHANGED people
           /\ DOMAIN req'[h] = EditFields
           /\ req'[h].pupil = s /\ req'[h].field = field /\ req'[h].value = value
           /\ req'[h].was = student[s].section /\ req'[h].then = "idle"
           /\ req'[h].claims = {Pupil(s), Section(student[s].section)} \cup
                               (IF field = "section" THEN {Section(value)} ELSE {})
           /\ s \in Living
<1>. DEFINE claims == {Pupil(s), Section(student[s].section)} \cup
                      (IF field = "section" THEN {Section(value)} ELSE {})
            r == [claims |-> claims, pupil |-> s, field |-> field, value |-> value,
                  was |-> student[s].section, recount |-> <<>>, then |-> "idle",
                  counted |-> 0]
<1>1. /\ pc[h] = "idle" /\ pc'[h] = "edit" /\ req'[h] = r /\ UNCHANGED people
      /\ s \in Living
      BY DEF BeginEdit, Begin, Asked, Open, Idle, Disciplined
<1>2. /\ DOMAIN r = EditFields /\ r.pupil = s /\ r.field = field /\ r.value = value
      /\ r.was = student[s].section /\ r.then = "idle" /\ r.claims = claims
      BY DEF EditFields
<1>. HIDE DEF r
<1>. QED BY <1>1, <1>2

LEMMA PromotionBegins ==
    ASSUME Disciplined, NEW h \in Desks, NEW cohort, NEW x, NEW y,
           BeginPromotion(h, cohort, x, y)
    PROVE  /\ pc[h] = "idle" /\ pc'[h] = "promote" /\ UNCHANGED people
           /\ DOMAIN req'[h] = PromotionFields
           /\ req'[h].left = cohort /\ req'[h].pupil = {} /\ req'[h].section = x
           /\ req'[h].year = y /\ req'[h].recount = <<x>> /\ req'[h].then = "idle"
           /\ req'[h].claims = {Section(x)} \cup {Pupil(s) : s \in cohort}
           /\ cohort \subseteq DOMAIN student
<1>. DEFINE claims == {Section(x)} \cup {Pupil(s) : s \in cohort}
            r == [claims |-> claims, left |-> cohort, pupil |-> {}, section |-> x,
                  year |-> y, recount |-> <<x>>, then |-> "idle", counted |-> 0]
<1>1. /\ pc[h] = "idle" /\ pc'[h] = "promote" /\ req'[h] = r /\ UNCHANGED people
      /\ cohort \subseteq DOMAIN student
      BY DEF BeginPromotion, Begin, Asked, Open, Idle, Disciplined
<1>2. /\ DOMAIN r = PromotionFields /\ r.left = cohort /\ r.pupil = {} /\ r.section = x
      /\ r.year = y /\ r.recount = <<x>> /\ r.then = "idle" /\ r.claims = claims
      BY DEF PromotionFields
<1>. HIDE DEF r
<1>. QED BY <1>1, <1>2

LEMMA StatusBegins ==
    ASSUME Disciplined, NEW h \in Desks, NEW s, NEW status, BeginStatus(h, s, status)
    PROVE  /\ pc[h] = "idle" /\ pc'[h] = "status" /\ UNCHANGED people
           /\ DOMAIN req'[h] = StatusFields
           /\ req'[h].pupil = s /\ req'[h].status = status
           /\ req'[h].recount = <<student[s].section>> /\ req'[h].then = "login"
           /\ req'[h].claims = {Pupil(s), Section(student[s].section)}
           /\ s \in Living
<1>. DEFINE claims == {Pupil(s), Section(student[s].section)}
            r == [claims |-> claims, pupil |-> s, status |-> status,
                  recount |-> <<student[s].section>>, then |-> "login", counted |-> 0]
<1>1. /\ pc[h] = "idle" /\ pc'[h] = "status" /\ req'[h] = r /\ UNCHANGED people
      /\ s \in Living
      BY DEF BeginStatus, Begin, Asked, Open, Idle, Disciplined
<1>2. /\ DOMAIN r = StatusFields /\ r.pupil = s /\ r.status = status
      /\ r.recount = <<student[s].section>> /\ r.then = "login" /\ r.claims = claims
      BY DEF StatusFields
<1>. HIDE DEF r
<1>. QED BY <1>1, <1>2

LEMMA RemovalBegins ==
    ASSUME Disciplined, NEW h \in Desks, NEW s, BeginRemoval(h, s)
    PROVE  /\ pc[h] = "idle" /\ pc'[h] = "remove" /\ UNCHANGED people
           /\ req'[h].pupil = s /\ req'[h].claims = {Pupil(s)} /\ s \in Living
BY DEF BeginRemoval, Begin, Asked, Open, Idle, Disciplined

LEMMA Restores ==
    ASSUME Disciplined, NEW h \in Desks, NEW s, Restore(h, s)
    PROVE  /\ pc[h] = "idle" /\ pc' = pc /\ req' = req
           /\ disturbed' = {Pupil(s), Section(student[s].section)} \cap HeldByOthers(h)
           /\ s \in DOMAIN student \ Living
           /\ student' = [student EXCEPT ![s].deleted = FALSE]
           /\ unheeded' = unheeded \cup {Section(student[s].section)}
           /\ UNCHANGED <<enrolled, strength, wards, login>>
BY DEF Restore, Once, Asked, Open, Idle

LEMMA LinkBegins ==
    ASSUME Disciplined, NEW h \in Desks, NEW s, NEW g, LinkChild(h, s, g)
    PROVE  /\ pc[h] = "idle" /\ pc'[h] = "link"
           /\ req'[h].pupil = s /\ req'[h].guardian = g
           /\ req'[h].claims = {Pupil(s), Guardian(g)}
           /\ s \in DOMAIN student /\ g \in DOMAIN wards
           /\ student' = [student EXCEPT ![s].guardians = student[s].guardians \cup {g}]
           /\ UNCHANGED <<enrolled, strength, wards, login, unheeded>>
BY DEF LinkChild, Begin, Asked, Open, Idle, Disciplined

LEMMA Counts ==
    ASSUME Disciplined, PeopleShaped, NEW h \in Desks, CountActive(h)
    PROVE  /\ pc[h] = "count" /\ pc'[h] = "strength" /\ disturbed' = disturbed
           /\ DOMAIN req'[h] = DOMAIN req[h]
           /\ \A f \in DOMAIN req[h] \ {"counted"} : req'[h][f] = req[h][f]
           /\ req'[h].counted = Cardinality(Active(Head(req[h].recount)))
           /\ unheeded' = unheeded \ {Section(Head(req[h].recount))}
           /\ UNCHANGED <<student, enrolled, strength, wards, login>>
<1>1. PICK v : v = Cardinality(Active(Head(req[h].recount)))
      OBVIOUS
<1>. DEFINE r == [req[h] EXCEPT !.counted = v]
<1>2. /\ pc[h] = "count" /\ pc'[h] = "strength" /\ req'[h] = r /\ disturbed' = disturbed
      /\ unheeded' = unheeded \ {Section(Head(req[h].recount))}
      /\ UNCHANGED <<student, enrolled, strength, wards, login>>
      BY <1>1 DEF CountActive, Carry, Disciplined
<1>3. "counted" \in DOMAIN req[h]
      BY <1>2 DEF PeopleShaped, Shaped, CountShaped, Counting
<1>4. /\ DOMAIN r = DOMAIN req[h] /\ r.counted = v
      /\ \A f \in DOMAIN req[h] \ {"counted"} : r[f] = req[h][f]
      BY <1>3
<1>. HIDE DEF r
<1>. QED BY <1>1, <1>2, <1>4

LEMMA Writes ==
    ASSUME Disciplined, PeopleShaped, NEW h \in Desks, WriteStrength(h)
    PROVE  /\ pc[h] = "strength" /\ disturbed' = disturbed
           /\ strength' = [strength EXCEPT ![Head(req[h].recount)] = req[h].counted]
           /\ UNCHANGED <<student, enrolled, wards, login, unheeded>>
           /\ \/ Tail(req[h].recount) = <<>> /\ req[h].then = "idle" /\ pc'[h] = "idle"
              \/ /\ DOMAIN req'[h] = DOMAIN req[h]
                 /\ \A f \in DOMAIN req[h] \ {"recount"} : req'[h][f] = req[h][f]
                 /\ req'[h].recount = Tail(req[h].recount)
                 /\ \/ Tail(req[h].recount) # <<>> /\ pc'[h] = "count"
                    \/ Tail(req[h].recount) = <<>> /\ pc'[h] = req[h].then
                       /\ req[h].then \in {"enrol", "login"}
<1>. DEFINE rest == Tail(req[h].recount)
            r == [req[h] EXCEPT !.recount = rest]
<1>1. /\ pc[h] = "strength" /\ disturbed' = disturbed
      /\ strength' = [strength EXCEPT ![Head(req[h].recount)] = req[h].counted]
      /\ UNCHANGED <<student, enrolled, wards, login, unheeded>>
      BY DEF WriteStrength, Carry, Finish
<1>2. \/ rest # <<>> /\ pc'[h] = "count" /\ req'[h] = r
      \/ rest = <<>> /\ req[h].then = "idle" /\ pc'[h] = "idle"
      \/ rest = <<>> /\ req[h].then # "idle" /\ pc'[h] = req[h].then /\ req'[h] = r
      BY DEF WriteStrength, Carry, Finish, Leave, Disciplined
<1>3. req[h].then \in {"enrol", "login", "idle"}
      BY <1>1 DEF Disciplined, Fits, Turning
<1>4. "recount" \in DOMAIN req[h]
      BY <1>1 DEF PeopleShaped, Shaped, CountShaped, Counting
<1>5. /\ DOMAIN r = DOMAIN req[h] /\ r.recount = rest
      /\ \A f \in DOMAIN req[h] \ {"recount"} : r[f] = req[h][f]
      BY <1>4
<1>. HIDE DEF r
<1>. QED BY <1>1, <1>2, <1>3, <1>5

LEMMA Chooses ==
    ASSUME Disciplined, PeopleShaped, NEW h \in Desks, NextOfCohort(h)
    PROVE  /\ pc[h] = "promote" /\ disturbed' = disturbed /\ UNCHANGED people
           /\ \/ req[h].left = {} /\ pc'[h] = "count" /\ req'[h] = req[h]
              \/ \E s \in req[h].left :
                   /\ pc'[h] \in {"close", "promote"} /\ DOMAIN req'[h] = DOMAIN req[h]
                   /\ \A f \in DOMAIN req[h] \ {"left", "pupil"} : req'[h][f] = req[h][f]
                   /\ req'[h].left = req[h].left \ {s} /\ req'[h].pupil = {s}
<1>1. /\ pc[h] = "promote" /\ UNCHANGED people /\ disturbed' = disturbed
      BY DEF NextOfCohort, Carry, Goto
<1>2. CASE req[h].left = {}
      BY <1>1, <1>2 DEF NextOfCohort, Goto, Disciplined
<1>3. CASE req[h].left # {}
  <2>1. PICK s \in req[h].left :
          \E call \in {"close", "promote"} :
            Carry(h, call, [req[h] EXCEPT !.left = req[h].left \ {s}, !.pupil = {s}])
        BY <1>3 DEF NextOfCohort
  <2>. DEFINE r == [req[h] EXCEPT !.left = req[h].left \ {s}, !.pupil = {s}]
  <2>2. pc'[h] \in {"close", "promote"} /\ req'[h] = r
        BY <2>1 DEF Carry, Disciplined
  <2>3. {"left", "pupil"} \subseteq DOMAIN req[h]
        BY <1>1 DEF PeopleShaped, Shaped, PromotionShaped, PromotionFields, Promoting
  <2>4. /\ DOMAIN r = DOMAIN req[h] /\ r.left = req[h].left \ {s} /\ r.pupil = {s}
        /\ \A f \in DOMAIN req[h] \ {"left", "pupil"} : r[f] = req[h][f]
        BY <2>3
  <2>. HIDE DEF r
  <2>. QED BY <1>1, <2>2, <2>4
<1>. QED BY <1>2, <1>3

LEMMA EditedIs ==
    ASSUME NEW s, student[s] \in Student, NEW field, NEW value,
           \/ field = "section" /\ value \in Sections
           \/ field = "status" /\ value \in {"active", "suspended", "graduated"}
           \/ field = "year" /\ value \in Years
           \/ field = "guardians" /\ value \subseteq Guardians
    PROVE  /\ Edited(s, field, value) \in Student
           /\ Edited(s, field, value).deleted = student[s].deleted
           /\ Edited(s, field, value).section
                = IF field = "section" THEN value ELSE student[s].section
           /\ Edited(s, field, value).status
                = IF field = "status" THEN value ELSE student[s].status
           /\ Edited(s, field, value).year
                = IF field = "year" THEN value ELSE student[s].year
           /\ Edited(s, field, value).guardians
                = IF field = "guardians" THEN value ELSE student[s].guardians
<1>1. CASE field = "section"
  <2>1. Edited(s, field, value) = [student[s] EXCEPT !.section = value]
        BY <1>1 DEF Edited
  <2>. QED BY <1>1, <2>1 DEF Student
<1>2. CASE field = "status"
  <2>1. Edited(s, field, value) = [student[s] EXCEPT !.status = value]
        BY <1>2 DEF Edited
  <2>. QED BY <1>2, <2>1 DEF Student
<1>3. CASE field = "year"
  <2>1. Edited(s, field, value) = [student[s] EXCEPT !.year = value]
        BY <1>3 DEF Edited
  <2>. QED BY <1>3, <2>1 DEF Student
<1>4. CASE field = "guardians"
  <2>1. Edited(s, field, value) = [student[s] EXCEPT !.guardians = value]
        BY <1>4 DEF Edited
  <2>. QED BY <1>4, <2>1 DEF Student
<1>. QED BY <1>1, <1>2, <1>3, <1>4

\* An edit changes one field of one pupil on file, or finds it gone; if it
\* moved the pupil it goes on to count both sections.
LEMMA Edits ==
    ASSUME Disciplined, PeopleShaped, NEW h \in Desks, StoreEdit(h), NEW s, s = req[h].pupil
    PROVE  /\ pc[h] = "edit" /\ UNCHANGED <<enrolled, strength, wards, login>>
           /\ s \in DOMAIN student /\ Pupil(s) \in req[h].claims
           /\ \/ /\ UNCHANGED <<student, unheeded>> /\ pc'[h] = "idle"
                 /\ disturbed' = disturbed
              \/ \E new \in Student, field \in Followed \cup {"section"} : \E value :
                   /\ field = req[h].field /\ value = req[h].value
                   /\ new = Edited(s, field, value)
                   /\ student' = [student EXCEPT ![s] = new]
                   /\ new.deleted = student[s].deleted
                   /\ new.section = (IF field = "section" THEN value ELSE student[s].section)
                   /\ new.status = (IF field = "status" THEN value ELSE student[s].status)
                   /\ new.year = (IF field = "year" THEN value ELSE student[s].year)
                   /\ new.guardians
                        = (IF field = "guardians" THEN value ELSE student[s].guardians)
                   /\ new.guardians \subseteq DOMAIN wards
                   /\ unheeded' = unheeded
                        \cup {<<f, s>> : f \in {field} \cap Followed}
                        \cup (IF field = "status" THEN {Section(new.section)} ELSE {})
                        \cup ({Section(student[s].section)} \
                                {Section(req[h].was), Section(new.section)})
                   /\ \/ /\ req[h].was = new.section /\ pc'[h] = "idle"
                         /\ disturbed' = disturbed
                      \/ /\ req[h].was # new.section /\ pc'[h] = "count"
                         /\ DOMAIN req'[h] = EditFields
                         /\ req'[h].recount = <<req[h].was, new.section>>
                         /\ req'[h].then = "idle"
                         /\ req'[h].claims = req[h].claims \cup {Section(new.section)}
<1>1. /\ pc[h] = "edit" /\ UNCHANGED <<enrolled, strength, wards, login>> /\ EditShaped(h)
      BY DEF StoreEdit, PeopleShaped, Shaped
<1>2. /\ s \in DOMAIN student /\ Pupil(s) \in req[h].claims /\ DOMAIN req[h] = EditFields
      /\ req[h].then = "idle" /\ student[s] \in Student
      /\ student[s].guardians \subseteq DOMAIN wards
      BY <1>1 DEF EditShaped, OnFile, PeopleShaped, PupilsTyped
<1>3. CASE s \notin Living
      BY <1>1, <1>2, <1>3 DEF StoreEdit, Finish, Leave, Disciplined
<1>4. CASE s \in Living
  <2>1. PICK field, value : field = req[h].field /\ value = req[h].value
        OBVIOUS
  <2>2. PICK new : new = Edited(s, field, value)
        OBVIOUS
  <2>3. \/ field = "section" /\ value \in Sections
        \/ field = "status" /\ value \in {"active", "suspended", "graduated"}
        \/ field = "year" /\ value \in Years
        \/ field = "guardians" /\ value \subseteq DOMAIN wards
        BY <1>1, <2>1 DEF EditShaped
  <2>4. field = "guardians" => value \subseteq Guardians
        BY <2>3 DEF PeopleShaped, PupilsTyped
  <2>5. /\ new \in Student /\ new.deleted = student[s].deleted
        /\ new.section = (IF field = "section" THEN value ELSE student[s].section)
        /\ new.status = (IF field = "status" THEN value ELSE student[s].status)
        /\ new.year = (IF field = "year" THEN value ELSE student[s].year)
        /\ new.guardians = (IF field = "guardians" THEN value ELSE student[s].guardians)
        BY <1>2, <2>2, <2>3, <2>4, EditedIs
  <2>6. /\ student' = [student EXCEPT ![s] = new]
        /\ unheeded' = unheeded
             \cup {<<f, s>> : f \in {field} \cap Followed}
             \cup (IF field = "status" THEN {Section(new.section)} ELSE {})
             \cup ({Section(student[s].section)} \
                     {Section(req[h].was), Section(new.section)})
        /\ IF ToRecount(req[h].was, new.section) = <<>> THEN Finish(h)
           ELSE TakeOn(h, "count", [req[h] EXCEPT
                  !.recount = ToRecount(req[h].was, new.section),
                  !.claims = req[h].claims \cup {Section(new.section)}])
        BY <1>4, <2>1, <2>2 DEF StoreEdit
  <2>7. new.guardians \subseteq DOMAIN wards
        BY <1>2, <2>3, <2>5
  <2>8. \/ /\ req[h].was = new.section /\ pc'[h] = "idle" /\ disturbed' = disturbed
        \/ /\ req[h].was # new.section /\ pc'[h] = "count"
           /\ DOMAIN req'[h] = EditFields
           /\ req'[h].recount = <<req[h].was, new.section>> /\ req'[h].then = "idle"
           /\ req'[h].claims = req[h].claims \cup {Section(new.section)}
    <3>1. CASE req[h].was = new.section
          BY <2>6, <3>1 DEF ToRecount, Finish, Leave, Disciplined
    <3>2. CASE req[h].was # new.section
      <4>1. PICK list, claims : /\ list = <<req[h].was, new.section>>
                                /\ claims = req[h].claims \cup {Section(new.section)}
            OBVIOUS
      <4>. DEFINE r == [req[h] EXCEPT !.recount = list, !.claims = claims]
      <4>2. ToRecount(req[h].was, new.section) = list /\ list # <<>>
            BY <3>2, <4>1, Lists DEF ToRecount
      <4>3. pc'[h] = "count" /\ req'[h] = r
            BY <2>6, <4>1, <4>2 DEF TakeOn, Disciplined
      <4>4. DOMAIN r = EditFields /\ r.recount = list /\ r.then = "idle" /\ r.claims = claims
            BY <1>2 DEF EditFields
      <4>. HIDE DEF r
      <4>. QED BY <3>2, <4>1, <4>3, <4>4
    <3>. QED BY <3>1, <3>2
  <2>9. field \in Followed \cup {"section"}
        BY <2>3 DEF Followed
  <2>. QED BY ZenonT(40), <1>1, <1>2, <2>1, <2>2, <2>5, <2>6, <2>7, <2>8, <2>9
<1>. QED BY <1>3, <1>4

-----------------------------------------------------------------------------
(* Each keeps the shape.                                                   *)

\* A step that changes pupils on file, and nothing else of the documents.
LEMMA PupilsChanged ==
    ASSUME PupilsTyped, UNCHANGED <<enrolled, strength, wards, login>>,
           DOMAIN student' = DOMAIN student,
           \A s \in DOMAIN student :
             student'[s] \in Student /\ student'[s].guardians \subseteq DOMAIN wards
    PROVE  PupilsTyped'
BY DEF PupilsTyped

LEMMA ArrivalsShaped ==
    ASSUME Disciplined, PeopleShaped, NEW h \in Desks, Moves(h, PeopleCalls),
           PeopleArrive(h)
    PROVE  PeopleShaped'
<1>0. ASSUME UNCHANGED people, Shaped(h)' PROVE PeopleShaped'
  <2>1. UNCHANGED <<student, enrolled, strength, wards, login>>
        BY <1>0 DEF people
  <2>2. PupilsTyped'
        BY <2>1 DEF PeopleShaped, PupilsTyped
  <2>. QED BY <1>0, <2>1, <2>2, PeopleMoved
<1>. USE DEF Shaped, AdmissionShaped, EditShaped, PromotionShaped, StatusShaped,
             CountShaped, LinkShaped, Admitting, Promoting, Leaving, Counting, OnFile
<1>1. ASSUME NEW s \in Pupils, NEW x \in Sections, NEW family \in SUBSET Guardians,
             NEW signs, BeginAdmission(h, s, x, family, signs)
      PROVE  PeopleShaped'
  <2>1. ThisYear \in Years
        BY PeopleAssumption
  <2>2. /\ pc'[h] = "seat" /\ UNCHANGED people /\ DOMAIN req'[h] = AdmissionFields
        /\ req'[h].pupil = s /\ req'[h].section = x /\ req'[h].year = ThisYear
        /\ req'[h].family = family /\ req'[h].recount = <<x>> /\ req'[h].then = "enrol"
        /\ req'[h].claims = {Pupil(s), Section(x)} \cup {Guardian(g) : g \in family}
        BY <1>1, AdmissionBegins
  <2>3. Shaped(h)'
        BY <2>1, <2>2
  <2>. QED BY <1>0, <2>2, <2>3
<1>2. ASSUME NEW op, NEW s, NEW field, NEW value, BeginEdit(h, op, s, field, value),
             \/ field = "section" /\ value \in Sections
             \/ field = "status" /\ value \in {"active", "suspended", "graduated"}
             \/ field = "year" /\ value \in Years
             \/ field = "guardians" /\ value \subseteq DOMAIN wards
      PROVE  PeopleShaped'
  <2>1. /\ pc'[h] = "edit" /\ UNCHANGED people /\ DOMAIN req'[h] = EditFields
        /\ req'[h].pupil = s /\ req'[h].field = field /\ req'[h].value = value
        /\ req'[h].was = student[s].section /\ req'[h].then = "idle"
        /\ req'[h].claims = {Pupil(s), Section(student[s].section)} \cup
                               (IF field = "section" THEN {Section(value)} ELSE {})
        /\ s \in DOMAIN student
        BY <1>2, EditBegins DEF Living
  <2>2. student[s].section \in Sections /\ student' = student /\ wards' = wards
        BY <2>1 DEF PeopleShaped, PupilsTyped, Student, people
  <2>3. Shaped(h)'
        BY <1>2, <2>1, <2>2
  <2>. QED BY <1>0, <2>1, <2>3
<1>3. ASSUME NEW cohort, NEW x \in Sections, NEW y \in Years, BeginPromotion(h, cohort, x, y)
      PROVE  PeopleShaped'
  <2>1. /\ pc'[h] = "promote" /\ UNCHANGED people /\ DOMAIN req'[h] = PromotionFields
        /\ req'[h].left = cohort /\ req'[h].pupil = {} /\ req'[h].section = x
        /\ req'[h].year = y /\ req'[h].recount = <<x>> /\ req'[h].then = "idle"
        /\ req'[h].claims = {Section(x)} \cup {Pupil(s) : s \in cohort}
        /\ cohort \subseteq DOMAIN student
        BY <1>3, PromotionBegins
  <2>2. student' = student
        BY <2>1 DEF people
  <2>3. Shaped(h)'
        BY <2>1, <2>2
  <2>. QED BY <1>0, <2>1, <2>3
<1>4. ASSUME NEW s, NEW status \in {"active", "suspended", "graduated"},
             BeginStatus(h, s, status)
      PROVE  PeopleShaped'
  <2>1. /\ pc'[h] = "status" /\ UNCHANGED people /\ DOMAIN req'[h] = StatusFields
        /\ req'[h].pupil = s /\ req'[h].status = status
        /\ req'[h].recount = <<student[s].section>> /\ req'[h].then = "login"
        /\ req'[h].claims = {Pupil(s), Section(student[s].section)}
        /\ s \in DOMAIN student
        BY <1>4, StatusBegins DEF Living
  <2>2. student[s].section \in Sections /\ student' = student
        BY <2>1 DEF PeopleShaped, PupilsTyped, Student, people
  <2>3. Shaped(h)'
        BY <2>1, <2>2
  <2>. QED BY <1>0, <2>1, <2>3
<1>5. ASSUME NEW s, BeginRemoval(h, s) PROVE PeopleShaped'
  <2>1. /\ pc'[h] = "remove" /\ UNCHANGED people /\ req'[h].pupil = s
        /\ req'[h].claims = {Pupil(s)} /\ s \in DOMAIN student
        BY <1>5, RemovalBegins DEF Living
  <2>2. student' = student
        BY <2>1 DEF people
  <2>3. Shaped(h)'
        BY <2>1, <2>2
  <2>. QED BY <1>0, <2>1, <2>3
<1>6. ASSUME NEW s, Restore(h, s) PROVE PeopleShaped'
  <2>1. /\ pc[h] = "idle" /\ pc' = pc /\ s \in DOMAIN student
        /\ student' = [student EXCEPT ![s].deleted = FALSE]
        /\ UNCHANGED <<enrolled, strength, wards, login>>
        BY <1>6, Restores
  <2>2. ASSUME NEW u \in DOMAIN student
        PROVE  student'[u] \in Student /\ student'[u].guardians \subseteq DOMAIN wards
        BY <2>1 DEF PeopleShaped, PupilsTyped, Student
  <2>3. PupilsTyped' /\ DOMAIN student' = DOMAIN student
        BY <2>1, <2>2, PupilsChanged DEF PeopleShaped
  <2>4. pc'[h] \notin PeopleCalls
        BY <2>1 DEF PeopleCalls
  <2>. QED BY <2>1, <2>3, <2>4, ShapedIdle, PeopleMoved
<1>7. ASSUME NEW s, NEW g, LinkChild(h, s, g) PROVE PeopleShaped'
  <2>1. /\ pc'[h] = "link" /\ req'[h].pupil = s /\ req'[h].guardian = g
        /\ req'[h].claims = {Pupil(s), Guardian(g)}
        /\ s \in DOMAIN student /\ g \in DOMAIN wards
        /\ student' = [student EXCEPT ![s].guardians = student[s].guardians \cup {g}]
        /\ UNCHANGED <<enrolled, strength, wards, login, unheeded>>
        BY <1>7, LinkBegins
  <2>2. ASSUME NEW u \in DOMAIN student
        PROVE  student'[u] \in Student /\ student'[u].guardians \subseteq DOMAIN wards
    <3>1. /\ student[u] \in Student /\ student[u].guardians \subseteq DOMAIN wards
          /\ DOMAIN wards \subseteq Guardians
          BY DEF PeopleShaped, PupilsTyped
    <3>2. CASE u = s
      <4>1. PICK new : new = student[s].guardians \cup {g}
            OBVIOUS
      <4>2. new \subseteq DOMAIN wards /\ new \in SUBSET Guardians
            BY <2>1, <3>1, <3>2, <4>1
      <4>3. student'[u] = [student[u] EXCEPT !.guardians = new]
            BY <2>1, <3>2, <4>1
      <4>. QED BY <3>1, <4>2, <4>3 DEF Student
    <3>3. CASE u # s
          BY <2>1, <3>1, <3>3
    <3>. QED BY <3>2, <3>3
  <2>3. PupilsTyped' /\ DOMAIN student' = DOMAIN student
        BY <2>1, <2>2, PupilsChanged DEF PeopleShaped
  <2>4. Shaped(h)'
        BY <2>1, <2>3
  <2>. QED BY <2>1, <2>3, <2>4, PeopleMoved
<1>. QED BY <1>1, <1>2, <1>3, <1>4, <1>5, <1>6, <1>7 DEF PeopleArrive


LEMMA GoesTo ==
    ASSUME Disciplined, NEW h \in Desks, NEW label, Goto(h, label)
    PROVE  pc'[h] = label /\ req'[h] = req[h] /\ disturbed' = disturbed
BY DEF Goto, Disciplined

LEMMA Ends ==
    ASSUME Disciplined, NEW h \in Desks, Finish(h)
    PROVE  pc'[h] = "idle" /\ req'[h] = NoRequest /\ disturbed' = disturbed
BY DEF Finish, Leave, Disciplined

LEMMA Breaks ==
    ASSUME Disciplined, NEW h \in Desks, NEW left, BreakOff(h, left)
    PROVE  pc'[h] = "idle" /\ req'[h] = NoRequest /\ disturbed' = disturbed \cup left
BY DEF BreakOff, Leave, Disciplined

LEMMA CountsShaped ==
    ASSUME Disciplined, PeopleShaped, NEW h \in Desks, Moves(h, PeopleCalls),
           CountActive(h) \/ WriteStrength(h) \/ NextOfCohort(h)
    PROVE  PeopleShaped'
<1>. USE DEF Shaped, AdmissionShaped, EditShaped, PromotionShaped, StatusShaped,
             CountShaped, LinkShaped, Admitting, Promoting, Leaving, Counting, OnFile
<1>0. Shaped(h) /\ PupilsTyped
      BY DEF PeopleShaped
<1>1. CASE CountActive(h)
  <2>1. /\ pc[h] = "count" /\ pc'[h] = "strength" /\ DOMAIN req'[h] = DOMAIN req[h]
        /\ \A f \in DOMAIN req[h] \ {"counted"} : req'[h][f] = req[h][f]
        /\ UNCHANGED <<student, enrolled, strength, wards, login>>
        BY <1>1, Counts
  <2>2. {"claims", "recount", "then"} \subseteq DOMAIN req[h]
        BY <1>0, <2>1
  <2>3. req'[h].claims = req[h].claims /\ req'[h].recount = req[h].recount
        /\ req'[h].then = req[h].then
        BY <2>1, <2>2
  <2>4. CountShaped(h)' /\ LinkShaped(h)' /\ EditShaped(h)' /\ PromotionShaped(h)'
        BY <1>0, <2>1, <2>3
  <2>5. AdmissionShaped(h)'
    <3>1. CASE req[h].then = "enrol"
      <4>1. DOMAIN req[h] = AdmissionFields
            BY <1>0, <2>1, <3>1
      <4>2. /\ req'[h].pupil = req[h].pupil /\ req'[h].section = req[h].section
            /\ req'[h].year = req[h].year /\ req'[h].family = req[h].family
            BY <2>1, <4>1 DEF AdmissionFields
      <4>. QED BY <1>0, <2>1, <2>3, <3>1, <4>1, <4>2
    <3>2. CASE req[h].then # "enrol"
          BY <2>1, <2>3, <3>2
    <3>. QED BY <3>1, <3>2
  <2>6. StatusShaped(h)'
    <3>1. CASE req[h].then = "login"
      <4>1. DOMAIN req[h] = StatusFields
            BY <1>0, <2>1, <3>1
      <4>2. req'[h].pupil = req[h].pupil /\ req'[h].status = req[h].status
            BY <2>1, <4>1 DEF StatusFields
      <4>. QED BY <1>0, <2>1, <2>3, <3>1, <4>1, <4>2
    <3>2. CASE req[h].then # "login"
          BY <2>1, <2>3, <3>2
    <3>. QED BY <3>1, <3>2
  <2>7. PupilsTyped' /\ Shaped(h)'
        BY <1>0, <2>1, <2>4, <2>5, <2>6 DEF PupilsTyped
  <2>. QED BY <2>1, <2>7, PeopleMoved
<1>2. CASE WriteStrength(h)
  <2>. DEFINE rest == Tail(req[h].recount)
  <2>1. /\ pc[h] = "strength" /\ UNCHANGED <<student, enrolled, wards, login>>
        /\ DOMAIN strength' = DOMAIN strength
        /\ \/ pc'[h] = "idle"
           \/ /\ DOMAIN req'[h] = DOMAIN req[h]
              /\ \A f \in DOMAIN req[h] \ {"recount"} : req'[h][f] = req[h][f]
              /\ req'[h].recount = rest
              /\ \/ rest # <<>> /\ pc'[h] = "count"
                 \/ pc'[h] = req[h].then /\ req[h].then \in {"enrol", "login"}
        BY <1>2, Writes
  <2>2. PupilsTyped'
        BY <1>0, <2>1 DEF PupilsTyped
  <2>3. CASE pc'[h] = "idle"
        BY <2>1, <2>2, <2>3, ShapedIdle, PeopleMoved DEF PeopleCalls
  <2>4. CASE pc'[h] # "idle"
    <3>1. {"claims", "then"} \subseteq DOMAIN req[h] /\ ShortList(req[h].recount)
          BY <1>0, <2>1
    <3>2. req'[h].claims = req[h].claims /\ req'[h].then = req[h].then
          BY <2>1, <2>4, <3>1
    <3>3. rest = <<>> \/ \E b \in Sections : /\ rest = <<b>>
                                             /\ Listed(rest) \subseteq Listed(req[h].recount)
      <4>1. ASSUME NEW a \in Sections, req[h].recount = <<a>> PROVE rest = <<>>
            BY <4>1, Lists
      <4>2. ASSUME NEW a \in Sections, NEW b \in Sections, req[h].recount = <<a, b>>
            PROVE  rest = <<b>> /\ Listed(rest) \subseteq Listed(req[h].recount)
        <5>1. Tail(<<a, b>>) = <<b>> /\ Listed(<<a, b>>) = {a, b} /\ Listed(<<b>>) = {b}
              BY Lists
        <5>. QED BY <4>2, <5>1
      <4>. QED BY <3>1, <4>1, <4>2 DEF ShortList
    <3>. HIDE DEF rest
    <3>4. CountShaped(h)' /\ LinkShaped(h)' /\ EditShaped(h)' /\ PromotionShaped(h)'
          BY <1>0, <2>1, <2>4, <3>2, <3>3 DEF ShortList
    <3>5. AdmissionShaped(h)'
      <4>1. CASE req[h].then = "enrol"
        <5>1. DOMAIN req[h] = AdmissionFields
              BY <1>0, <2>1, <4>1
        <5>2. /\ req'[h].pupil = req[h].pupil /\ req'[h].section = req[h].section
              /\ req'[h].year = req[h].year /\ req'[h].family = req[h].family
              BY <2>1, <2>4, <5>1 DEF AdmissionFields
        <5>. QED BY <1>0, <2>1, <2>4, <3>2, <4>1, <5>1, <5>2
      <4>2. CASE req[h].then # "enrol"
            BY <1>0, <2>1, <2>4, <3>2, <4>2
      <4>. QED BY <4>1, <4>2
    <3>6. StatusShaped(h)'
      <4>1. CASE req[h].then = "login"
        <5>1. DOMAIN req[h] = StatusFields
              BY <1>0, <2>1, <4>1
        <5>2. req'[h].pupil = req[h].pupil /\ req'[h].status = req[h].status
              BY <2>1, <2>4, <5>1 DEF StatusFields
        <5>. QED BY <1>0, <2>1, <2>4, <3>2, <4>1, <5>1, <5>2
      <4>2. CASE req[h].then # "login"
            BY <1>0, <2>1, <2>4, <3>2, <4>2
      <4>. QED BY <4>1, <4>2
    <3>. QED BY <2>1, <2>2, <3>4, <3>5, <3>6, PeopleMoved
  <2>. QED BY <2>3, <2>4
<1>3. CASE NextOfCohort(h)
  <2>1. /\ pc[h] = "promote" /\ UNCHANGED people
        /\ \/ req[h].left = {} /\ pc'[h] = "count" /\ req'[h] = req[h]
           \/ \E s \in req[h].left :
                /\ pc'[h] \in {"close", "promote"} /\ DOMAIN req'[h] = DOMAIN req[h]
                /\ \A f \in DOMAIN req[h] \ {"left", "pupil"} : req'[h][f] = req[h][f]
                /\ req'[h].left = req[h].left \ {s} /\ req'[h].pupil = {s}
        BY <1>3, Chooses
  <2>2. UNCHANGED <<student, enrolled, strength, wards, login>>
        BY <2>1 DEF people
  <2>3. PupilsTyped'
        BY <1>0, <2>2 DEF PupilsTyped
  <2>4. DOMAIN req[h] = PromotionFields
        BY <1>0, <2>1
  <2>5. CASE pc'[h] = "count" /\ req'[h] = req[h]
    <3>1. /\ req[h].section \in Sections /\ Section(req[h].section) \in req[h].claims
          /\ req[h].then = "idle" /\ req[h].recount = <<req[h].section>>
          BY <1>0, <2>1
    <3>2. ShortList(req[h].recount) /\ Listed(req[h].recount) = {req[h].section}
          BY <3>1, Lists DEF ShortList
    <3>. QED BY <2>2, <2>3, <2>4, <2>5, <3>1, <3>2, PeopleMoved DEF PromotionFields
  <2>6. ASSUME NEW s \in req[h].left,
               pc'[h] \in {"close", "promote"}, DOMAIN req'[h] = DOMAIN req[h],
               \A f \in DOMAIN req[h] \ {"left", "pupil"} : req'[h][f] = req[h][f],
               req'[h].left = req[h].left \ {s}, req'[h].pupil = {s}
        PROVE  PeopleShaped'
    <3>1. /\ req'[h].claims = req[h].claims /\ req'[h].section = req[h].section
          /\ req'[h].year = req[h].year /\ req'[h].then = req[h].then
          /\ req'[h].recount = req[h].recount
          BY <2>4, <2>6 DEF PromotionFields
    <3>2. s \in DOMAIN student
          BY <1>0, <2>1
    <3>3. \A u \in req'[h].left \cup req'[h].pupil : OnFile(h, u)'
          BY <1>0, <2>1, <2>2, <2>6, <3>1
    <3>4. PromotionShaped(h)'
          BY <1>0, <2>1, <2>2, <2>4, <2>6, <3>1, <3>2, <3>3
    <3>5. Shaped(h)'
          BY <2>6, <3>4
    <3>. QED BY <2>2, <2>3, <3>5, PeopleMoved
  <2>. QED BY <2>1, <2>5, <2>6
<1>. QED BY <1>1, <1>2, <1>3


\* The admission.
LEMMA AdmissionsShaped ==
    ASSUME Disciplined, PeopleShaped, NEW h \in Desks, Moves(h, PeopleCalls),
           \/ CheckSeat(h) \/ InsertStudent(h) \/ InsertGuardian(h)
           \/ FileGuardians(h) \/ Enrol(h) \/ OpenLogin(h)
    PROVE  PeopleShaped'
<1>. USE DEF Shaped, AdmissionShaped, EditShaped, PromotionShaped, StatusShaped,
             CountShaped, LinkShaped, Admitting, Promoting, Leaving, Counting, OnFile
<1>0. Shaped(h) /\ PupilsTyped
      BY DEF PeopleShaped
<1>a. ASSUME pc'[h] = "idle" PROVE Shaped(h)'
      BY <1>a, ShapedIdle DEF PeopleCalls
<1>1. CASE CheckSeat(h)
  <2>1. /\ pc[h] = "seat" /\ UNCHANGED people
        /\ \/ pc'[h] = "idle"
           \/ pc'[h] = "insert student" /\ req'[h] = req[h]
        BY <1>1, GoesTo, Ends DEF CheckSeat
  <2>2. UNCHANGED <<student, enrolled, strength, wards, login>>
        BY <2>1 DEF people
  <2>3. PupilsTyped'
        BY <1>0, <2>2 DEF PupilsTyped
  <2>4. Shaped(h)'
        BY <1>0, <1>a, <2>1, <2>2
  <2>. QED BY <2>2, <2>3, <2>4, PeopleMoved
<1>2. CASE InsertStudent(h)
  <2>1. PICK s, new :
          /\ s = req[h].pupil
          /\ new = [section |-> req[h].section, year |-> req[h].year, deleted |-> FALSE,
                    status |-> "active", guardians |-> {}]
        OBVIOUS
  <2>2. /\ pc[h] = "insert student" /\ student' = With(student, s, new)
        /\ UNCHANGED <<enrolled, strength, wards, login>>
        /\ pc'[h] = (IF req[h].family = {} THEN "count" ELSE "insert guardian")
        /\ req'[h] = req[h]
        BY <1>2, <2>1, GoesTo DEF InsertStudent
  <2>3. /\ s \in Pupils /\ req[h].section \in Sections /\ req[h].year \in Years
        /\ req[h].recount = <<req[h].section>>
        BY <1>0, <2>1, <2>2
  <2>4. new \in Student /\ new.guardians = {}
        BY <2>1, <2>3 DEF Student
  <2>5. /\ DOMAIN student' = DOMAIN student \cup {s} /\ student'[s] = new
        /\ \A u \in DOMAIN student \ {s} : student'[u] = student[u]
        BY <2>2 DEF With
  <2>6. PupilsTyped'
    <3>0. IsFiniteSet(DOMAIN student)
          BY <1>0 DEF PupilsTyped
    <3>1. IsFiniteSet(DOMAIN student')
          BY <2>5, <3>0, FS_AddElement
    <3>2. ASSUME NEW u \in DOMAIN student'
          PROVE  student'[u] \in Student /\ student'[u].guardians \subseteq DOMAIN wards
          BY <1>0, <2>4, <2>5 DEF PupilsTyped
    <3>. QED BY <1>0, <2>2, <2>3, <2>5, <3>1, <3>2 DEF PupilsTyped
  <2>7. ShortList(req[h].recount) /\ Listed(req[h].recount) = {req[h].section}
        BY <2>3, Lists DEF ShortList
  <2>8. Shaped(h)'
    <3>1. AdmissionShaped(h)'
          BY <1>0, <2>1, <2>2, <2>5
    <3>2. CountShaped(h)'
          BY <1>0, <2>2, <2>7 DEF AdmissionFields
    <3>. QED BY <1>0, <2>2, <3>1, <3>2
  <2>. QED BY <2>2, <2>5, <2>6, <2>8, PeopleMoved
<1>3. CASE InsertGuardian(h)
  <2>1. PICK s, g : /\ s = req[h].pupil /\ g \in req[h].family \ DOMAIN wards
                    /\ wards' = With(wards, g, {s})
                    /\ Goto(h, IF req[h].family \subseteq DOMAIN wards'
                               THEN "file guardians" ELSE "insert guardian")
        BY <1>3 DEF InsertGuardian
  <2>2. /\ pc[h] = "insert guardian" /\ req'[h] = req[h]
        /\ UNCHANGED <<student, enrolled, strength, login>>
        /\ pc'[h] = (IF req[h].family \subseteq DOMAIN wards'
                     THEN "file guardians" ELSE "insert guardian")
        BY <1>3, <2>1, GoesTo DEF InsertGuardian
  <2>3. /\ s \in DOMAIN student /\ g \in Guardians
        BY <1>0, <2>1, <2>2
  <2>4. /\ DOMAIN wards' = DOMAIN wards \cup {g} /\ wards'[g] = {s}
        /\ \A k \in DOMAIN wards \ {g} : wards'[k] = wards[k]
        BY <2>1 DEF With
  <2>5. PupilsTyped'
    <3>1. ASSUME NEW u \in DOMAIN student
          PROVE  student'[u] \in Student /\ student'[u].guardians \subseteq DOMAIN wards'
          BY <1>0, <2>2, <2>4 DEF PupilsTyped
    <3>2. ASSUME NEW k \in DOMAIN wards' PROVE wards'[k] \subseteq DOMAIN student
          BY <1>0, <2>3, <2>4 DEF PupilsTyped
    <3>. QED BY <1>0, <2>2, <2>3, <2>4, <3>1, <3>2 DEF PupilsTyped
  <2>6. Shaped(h)'
        BY <1>0, <2>2, <2>4
  <2>. QED BY <2>2, <2>4, <2>5, <2>6, PeopleMoved
<1>4. CASE FileGuardians(h)
  <2>1. PICK s : s = req[h].pupil
        OBVIOUS
  <2>2. pc[h] = "file guardians" /\ UNCHANGED <<enrolled, strength, wards, login>>
        BY <1>4 DEF FileGuardians
  <2>3. /\ s \in DOMAIN student /\ req[h].family \subseteq DOMAIN wards
        /\ req[h].family \subseteq Guardians /\ req[h].recount = <<req[h].section>>
        BY <1>0, <2>1, <2>2
  <2>4. CASE student[s].deleted
    <3>1. pc'[h] = "idle" /\ student' = student
          BY <1>4, <2>1, <2>4, Breaks DEF FileGuardians
    <3>2. PupilsTyped'
          BY <1>0, <2>2, <3>1 DEF PupilsTyped
    <3>. QED BY <1>a, <2>2, <3>1, <3>2, PeopleMoved
  <2>5. CASE ~student[s].deleted
    <3>1. /\ student' = [student EXCEPT ![s].guardians = req[h].family]
          /\ pc'[h] = "count" /\ req'[h] = req[h]
          BY <1>4, <2>1, <2>5, GoesTo DEF FileGuardians
    <3>2. ASSUME NEW u \in DOMAIN student
          PROVE  student'[u] \in Student /\ student'[u].guardians \subseteq DOMAIN wards
      <4>1. student[u] \in Student /\ student[u].guardians \subseteq DOMAIN wards
            BY <1>0 DEF PupilsTyped
      <4>2. CASE u = s
        <5>1. PICK new : new = req[h].family
              OBVIOUS
        <5>2. student'[u] = [student[u] EXCEPT !.guardians = new]
              BY <3>1, <4>2, <5>1
        <5>. QED BY <2>3, <4>1, <5>1, <5>2 DEF Student
      <4>3. CASE u # s
            BY <3>1, <4>1, <4>3
      <4>. QED BY <4>2, <4>3
    <3>3. PupilsTyped' /\ DOMAIN student' = DOMAIN student
          BY <1>0, <2>2, <3>1, <3>2, PupilsChanged
    <3>4. ShortList(req[h].recount) /\ Listed(req[h].recount) = {req[h].section}
          BY <1>0, <2>2, <2>3, Lists DEF ShortList
    <3>5. AdmissionShaped(h)'
          BY <1>0, <2>2, <3>1, <3>3
    <3>6. CountShaped(h)'
          BY <1>0, <2>2, <3>1, <3>4 DEF AdmissionFields
    <3>7. Shaped(h)'
          BY <1>0, <2>2, <3>1, <3>5, <3>6
    <3>. QED BY <2>2, <3>3, <3>7, PeopleMoved
  <2>. QED BY <2>4, <2>5
<1>5. CASE Enrol(h)
  <2>1. PICK e : e = <<req[h].pupil, req[h].year>>
        OBVIOUS
  <2>2. /\ pc[h] = "enrol" /\ UNCHANGED <<student, strength, wards, login>>
        /\ IF e \in DOMAIN enrolled
           THEN BreakOff(h, req[h].claims) /\ UNCHANGED enrolled
           ELSE /\ enrolled' = With(enrolled, e, TRUE)
                /\ IF req[h].signs THEN Goto(h, "open login") ELSE Finish(h)
        BY <1>5, <2>1 DEF Enrol
  <2>3. /\ req[h].pupil \in DOMAIN student /\ req[h].pupil \in Pupils
        /\ req[h].year \in Years
        BY <1>0, <2>2
  <2>4. PupilsTyped'
    <3>1. CASE UNCHANGED enrolled
          BY <1>0, <2>2, <3>1 DEF PupilsTyped
    <3>2. CASE enrolled' = With(enrolled, e, TRUE)
      <4>1. /\ DOMAIN enrolled' = DOMAIN enrolled \cup {e} /\ enrolled'[e] = TRUE
            /\ \A d \in DOMAIN enrolled \ {e} : enrolled'[d] = enrolled[d]
            BY <3>2 DEF With
      <4>2. e \in Pupils \X Years /\ e[1] \in DOMAIN student
            BY <2>1, <2>3
      <4>3. ASSUME NEW d \in DOMAIN enrolled'
            PROVE  d \in Pupils \X Years /\ d[1] \in DOMAIN student /\ enrolled'[d] \in BOOLEAN
            BY <1>0, <4>1, <4>2 DEF PupilsTyped
      <4>. QED BY <1>0, <2>2, <4>3 DEF PupilsTyped
    <3>. QED BY <2>2, <3>1, <3>2
  <2>5. \/ pc'[h] = "idle"
        \/ pc'[h] = "open login" /\ req'[h] = req[h]
        BY <2>2, GoesTo, Ends, Breaks
  <2>6. Shaped(h)'
        BY <1>0, <1>a, <2>2, <2>5
  <2>. QED BY <2>2, <2>4, <2>6, PeopleMoved
<1>6. CASE OpenLogin(h)
  <2>1. /\ pc[h] = "open login" /\ pc'[h] = "idle" /\ DOMAIN login' = DOMAIN login
        /\ UNCHANGED <<student, enrolled, strength, wards>>
        BY <1>6, Ends DEF OpenLogin
  <2>2. PupilsTyped'
        BY <1>0, <2>1 DEF PupilsTyped
  <2>. QED BY <1>a, <2>1, <2>2, PeopleMoved
<1>. QED BY <1>1, <1>2, <1>3, <1>4, <1>5, <1>6


\* Edits, removals, and what a change of status and a link write.
LEMMA EditsShaped ==
    ASSUME Disciplined, PeopleShaped, NEW h \in Desks, Moves(h, PeopleCalls),
           \/ StoreEdit(h) \/ Remove(h)
           \/ StoreStatus(h) \/ CloseLogin(h) \/ LinkGuardian(h)
    PROVE  PeopleShaped'
<1>. USE DEF Shaped, AdmissionShaped, EditShaped, PromotionShaped, StatusShaped,
             CountShaped, LinkShaped, Admitting, Promoting, Leaving, Counting, OnFile
<1>0. Shaped(h) /\ PupilsTyped
      BY DEF PeopleShaped
<1>a. ASSUME pc'[h] = "idle" PROVE Shaped(h)'
      BY <1>a, ShapedIdle DEF PeopleCalls
<1>1. CASE StoreEdit(h)
  <2>1. PICK s : s = req[h].pupil
        OBVIOUS
  <2>2. /\ pc[h] = "edit" /\ UNCHANGED <<enrolled, strength, wards, login>>
        /\ s \in DOMAIN student
        /\ \/ UNCHANGED student /\ pc'[h] = "idle"
           \/ \E new \in Student :
                /\ student' = [student EXCEPT ![s] = new]
                /\ new.guardians \subseteq DOMAIN wards
                /\ \/ pc'[h] = "idle"
                   \/ /\ pc'[h] = "count"
                      /\ DOMAIN req'[h] = EditFields
                      /\ req'[h].recount = <<req[h].was, new.section>>
                      /\ req'[h].then = "idle"
                      /\ req'[h].claims = req[h].claims \cup {Section(new.section)}
        BY <1>1, <2>1, Edits
  <2>3. CASE UNCHANGED student /\ pc'[h] = "idle"
    <3>1. PupilsTyped'
          BY <1>0, <2>2, <2>3 DEF PupilsTyped
    <3>. QED BY <1>a, <2>2, <2>3, <3>1, PeopleMoved
  <2>4. ASSUME NEW new \in Student, student' = [student EXCEPT ![s] = new],
               new.guardians \subseteq DOMAIN wards,
               \/ pc'[h] = "idle"
               \/ /\ pc'[h] = "count"
                  /\ DOMAIN req'[h] = EditFields
                  /\ req'[h].recount = <<req[h].was, new.section>>
                  /\ req'[h].then = "idle"
                  /\ req'[h].claims = req[h].claims \cup {Section(new.section)}
        PROVE  PeopleShaped'
    <3>1. ASSUME NEW u \in DOMAIN student
          PROVE  student'[u] \in Student /\ student'[u].guardians \subseteq DOMAIN wards
          BY <1>0, <2>4 DEF PupilsTyped
    <3>2. PupilsTyped' /\ DOMAIN student' = DOMAIN student
          BY <1>0, <2>2, <2>4, <3>1, PupilsChanged
    <3>3. CASE pc'[h] = "count"
      <4>1. /\ req[h].was \in Sections /\ Section(req[h].was) \in req[h].claims
            /\ new.section \in Sections
            BY <1>0, <2>2, <2>4 DEF Student
      <4>2. ShortList(req'[h].recount) /\ Listed(req'[h].recount) = {req[h].was, new.section}
        <5>1. PICK a, b : a = req[h].was /\ b = new.section
              OBVIOUS
        <5>2. Listed(<<a, b>>) = {a, b}
              BY Lists
        <5>. QED BY <2>4, <3>3, <4>1, <5>1, <5>2 DEF ShortList
      <4>3. CountShaped(h)'
            BY <2>4, <3>3, <4>1, <4>2 DEF EditFields
      <4>4. Shaped(h)'
            BY <2>4, <3>3, <4>3
      <4>. QED BY <2>2, <3>2, <4>4, PeopleMoved
    <3>4. CASE pc'[h] = "idle"
          BY <1>a, <2>2, <3>2, <3>4, PeopleMoved
    <3>. QED BY <2>4, <3>3, <3>4
  <2>. QED BY <2>2, <2>3, <2>4
<1>2. CASE Remove(h)
  <2>1. PICK s : s = req[h].pupil
        OBVIOUS
  <2>2. /\ pc[h] = "remove" /\ pc'[h] = "idle"
        /\ UNCHANGED <<enrolled, strength, wards, login>>
        /\ \/ UNCHANGED student
           \/ student' = [student EXCEPT ![s].deleted = TRUE]
        BY <1>2, <2>1, Ends DEF Remove
  <2>3. ASSUME NEW u \in DOMAIN student
        PROVE  student'[u] \in Student /\ student'[u].guardians \subseteq DOMAIN wards
    <3>1. student[u] \in Student /\ student[u].guardians \subseteq DOMAIN wards
          BY <1>0 DEF PupilsTyped
    <3>2. student'[u] = student[u] \/ student'[u] = [student[u] EXCEPT !.deleted = TRUE]
          BY <2>2
    <3>. QED BY <3>1, <3>2 DEF Student
  <2>4. PupilsTyped' /\ DOMAIN student' = DOMAIN student
        BY <1>0, <2>2, <2>3, PupilsChanged
  <2>. QED BY <1>a, <2>2, <2>4, PeopleMoved
<1>3. CASE StoreStatus(h)
  <2>1. PICK s, status : s = req[h].pupil /\ status = req[h].status
        OBVIOUS
  <2>2. /\ pc[h] = "status" /\ pc'[h] = "count" /\ req'[h] = req[h]
        /\ UNCHANGED <<enrolled, strength, wards, login>>
        /\ student' = [student EXCEPT ![s].status = status]
        BY <1>3, <2>1, GoesTo DEF StoreStatus
  <2>3. status \in {"active", "suspended", "graduated"}
        BY <1>0, <2>1, <2>2
  <2>4. ASSUME NEW u \in DOMAIN student
        PROVE  student'[u] \in Student /\ student'[u].guardians \subseteq DOMAIN wards
    <3>1. student[u] \in Student /\ student[u].guardians \subseteq DOMAIN wards
          BY <1>0 DEF PupilsTyped
    <3>2. CASE u = s
      <4>1. student'[u] = [student[u] EXCEPT !.status = status]
            BY <2>2, <3>2
      <4>. QED BY <2>3, <3>1, <4>1 DEF Student
    <3>3. CASE u # s
          BY <2>2, <3>1, <3>3
    <3>. QED BY <3>2, <3>3
  <2>5. PupilsTyped' /\ DOMAIN student' = DOMAIN student
        BY <1>0, <2>2, <2>4, PupilsChanged
  <2>6. PICK a \in Sections : req[h].recount = <<a>> /\ Section(a) \in req[h].claims
        BY <1>0, <2>2
  <2>7. ShortList(req[h].recount) /\ Listed(req[h].recount) = {a}
        BY <2>6, Lists DEF ShortList
  <2>8. CountShaped(h)'
        BY <1>0, <2>2, <2>6, <2>7 DEF StatusFields
  <2>9. StatusShaped(h)' /\ req[h].then = "login"
        BY <1>0, <2>2, <2>5
  <2>10. Shaped(h)'
        BY <2>2, <2>8, <2>9
  <2>. QED BY <2>2, <2>5, <2>10, PeopleMoved
<1>4. CASE CloseLogin(h)
  <2>1. /\ pc'[h] = "idle" /\ DOMAIN login' = DOMAIN login
        /\ UNCHANGED <<student, enrolled, strength, wards>>
        BY <1>4, Ends DEF CloseLogin
  <2>2. PupilsTyped'
        BY <1>0, <2>1 DEF PupilsTyped
  <2>. QED BY <1>a, <2>1, <2>2, PeopleMoved
<1>5. CASE LinkGuardian(h)
  <2>1. PICK s, g : s = req[h].pupil /\ g = req[h].guardian
        OBVIOUS
  <2>2. /\ pc[h] = "link" /\ pc'[h] = "idle"
        /\ UNCHANGED <<student, enrolled, strength, login>>
        /\ wards' = [wards EXCEPT ![g] = wards[g] \cup {s}]
        BY <1>5, <2>1, Ends DEF LinkGuardian
  <2>3. s \in DOMAIN student
        BY <1>0, <2>1, <2>2
  <2>4. ASSUME NEW k \in DOMAIN wards PROVE wards'[k] \subseteq DOMAIN student
        BY <1>0, <2>2, <2>3 DEF PupilsTyped
  <2>5. PupilsTyped' /\ DOMAIN wards' = DOMAIN wards
        BY <1>0, <2>2, <2>4 DEF PupilsTyped
  <2>. QED BY <1>a, <2>2, <2>5, PeopleMoved
<1>. QED BY <1>1, <1>2, <1>3, <1>4, <1>5

LEMMA PromotionsShaped ==
    ASSUME Disciplined, PeopleShaped, NEW h \in Desks, Moves(h, PeopleCalls),
           CloseEnrolments(h) \/ OpenEnrolment(h) \/ MoveUp(h)
    PROVE  PeopleShaped'
<1>. USE DEF Shaped, AdmissionShaped, EditShaped, PromotionShaped, StatusShaped,
             CountShaped, LinkShaped, Admitting, Promoting, Leaving, Counting, OnFile
<1>0. Shaped(h) /\ PupilsTyped
      BY DEF PeopleShaped
<1>a. ASSUME pc'[h] = "idle" PROVE Shaped(h)'
      BY <1>a, ShapedIdle DEF PeopleCalls
<1>b. ASSUME Promoting(h), pc'[h] \in {"reopen", "move up", "promote"}, req'[h] = req[h],
             pc[h] # "promote", DOMAIN student \subseteq DOMAIN student'
      PROVE  Shaped(h)'
  <2>1. PromotionShaped(h)'
        BY <1>0, <1>b
  <2>. QED BY <1>b, <2>1
<1>1. CASE CloseEnrolments(h)
  <2>1. PICK s : enrolled' = [e \in DOMAIN enrolled |->
                               enrolled[e] /\ e \notin Closes(s, req[h].year)]
        BY <1>1 DEF CloseEnrolments
  <2>2. /\ pc[h] = "close" /\ pc'[h] = "reopen" /\ req'[h] = req[h]
        /\ UNCHANGED <<student, strength, wards, login>>
        BY <1>1, GoesTo DEF CloseEnrolments
  <2>3. ASSUME NEW e \in DOMAIN enrolled
        PROVE  e \in DOMAIN enrolled' /\ enrolled'[e] \in BOOLEAN
        BY <2>1
  <2>4. PupilsTyped'
        BY <1>0, <2>1, <2>2, <2>3 DEF PupilsTyped
  <2>. QED BY <1>b, <2>2, <2>4, PeopleMoved
<1>2. CASE OpenEnrolment(h)
  <2>1. PICK s, e : /\ s \in req[h].pupil /\ e = <<s, req[h].year>>
                    /\ \/ BreakOff(h, {Pupil(s)}) /\ UNCHANGED enrolled
                       \/ Goto(h, "move up") /\ enrolled' = With(enrolled, e, TRUE)
        BY <1>2 DEF OpenEnrolment
  <2>2. pc[h] = "reopen" /\ UNCHANGED <<student, strength, wards, login>>
        BY <1>2 DEF OpenEnrolment
  <2>3. s \in DOMAIN student /\ req[h].year \in Years
        BY <1>0, <2>1, <2>2
  <2>4. CASE BreakOff(h, {Pupil(s)}) /\ UNCHANGED enrolled
    <3>1. PupilsTyped' /\ pc'[h] = "idle"
          BY <1>0, <2>2, <2>4, Breaks DEF PupilsTyped
    <3>. QED BY <1>a, <2>2, <3>1, PeopleMoved
  <2>5. CASE Goto(h, "move up") /\ enrolled' = With(enrolled, e, TRUE)
    <3>1. /\ DOMAIN enrolled' = DOMAIN enrolled \cup {e} /\ enrolled'[e] = TRUE
          /\ \A d \in DOMAIN enrolled \ {e} : enrolled'[d] = enrolled[d]
          BY <2>5 DEF With
    <3>2. e \in Pupils \X Years /\ e[1] \in DOMAIN student
          BY <1>0, <2>1, <2>3 DEF PupilsTyped
    <3>3. ASSUME NEW d \in DOMAIN enrolled'
          PROVE  d \in Pupils \X Years /\ d[1] \in DOMAIN student /\ enrolled'[d] \in BOOLEAN
          BY <1>0, <3>1, <3>2 DEF PupilsTyped
    <3>4. PupilsTyped'
          BY <1>0, <2>2, <3>3 DEF PupilsTyped
    <3>5. pc'[h] = "move up" /\ req'[h] = req[h]
          BY <2>5, GoesTo
    <3>. QED BY <1>b, <2>2, <3>4, <3>5, PeopleMoved
  <2>. QED BY <2>1, <2>4, <2>5
<1>3. CASE MoveUp(h)
  <2>1. PICK s, x, y : /\ s \in req[h].pupil /\ x = req[h].section /\ y = req[h].year
                       /\ student' = [student EXCEPT ![s].section = x, ![s].year = y]
        BY <1>3 DEF MoveUp
  <2>2. /\ pc[h] = "move up" /\ pc'[h] = "promote" /\ req'[h] = req[h]
        /\ UNCHANGED <<enrolled, strength, wards, login>>
        BY <1>3, GoesTo DEF MoveUp
  <2>3. x \in Sections /\ y \in Years
        BY <1>0, <2>1, <2>2
  <2>4. ASSUME NEW u \in DOMAIN student
        PROVE  student'[u] \in Student /\ student'[u].guardians \subseteq DOMAIN wards
    <3>1. student[u] \in Student /\ student[u].guardians \subseteq DOMAIN wards
          BY <1>0 DEF PupilsTyped
    <3>2. CASE u = s
      <4>1. student'[u] = [student[u] EXCEPT !.section = x, !.year = y]
            BY <2>1, <3>2
      <4>. QED BY <2>3, <3>1, <4>1 DEF Student
    <3>3. CASE u # s
          BY <2>1, <3>1, <3>3
    <3>. QED BY <3>2, <3>3
  <2>5. PupilsTyped' /\ DOMAIN student' = DOMAIN student
        BY <1>0, <2>1, <2>2, <2>4, PupilsChanged
  <2>. QED BY <1>b, <2>2, <2>5, PeopleMoved
<1>. QED BY <1>1, <1>2, <1>3

LEMMA PeopleStepShaped ==
    ASSUME Disciplined, PeopleShaped, NEW h \in Desks, PeopleStep(h)
    PROVE  PeopleShaped'
<1>1. Moves(h, PeopleCalls)
      BY PeopleMoves
<1>. QED BY <1>1, ArrivalsShaped, CountsShaped, AdmissionsShaped, EditsShaped,
            PromotionsShaped DEF PeopleStep, PeopleResume

LEMMA PeopleKeepsShape ==
    ASSUME Disciplined, PeopleShaped, [Next]_vars PROVE PeopleShaped'
<1>1. CASE \E h \in Desks : PeopleStep(h)
      BY <1>1, PeopleStepShaped
<1>2. CASE ~\E h \in Desks : PeopleStep(h)
      BY <1>2, NextPasses, PeoplePassed DEF NextIsTheirs
<1>. QED BY <1>1, <1>2


-----------------------------------------------------------------------------
(* Enrolments.  An admission inserts the pupil calls before the enrolment, *)
(* a promotion closes calls before it opens and opens calls before it      *)
(* moves the pupil up; in between the request owes the difference.         *)

\* About to be inserted: nobody else is, and nobody is on file so.
Newly(h, s) == pc[h] \in {"seat", "insert student"} /\ req[h].pupil = s

Newcomers ==
    /\ \A h \in Desks, s \in DOMAIN student : ~Newly(h, s)
    /\ \A g, h \in Desks : \A s : Newly(g, s) /\ Newly(h, s) => g = h

Current(s) == {e \in DOMAIN enrolled : e[1] = s /\ enrolled[e]}

ToEnrol(h, s) ==
    /\ \/ pc[h] \in {"insert guardian", "file guardians", "enrol"}
       \/ pc[h] \in Counting /\ req[h].then = "enrol"
    /\ req[h].pupil = s
Reopening(h, s) == pc[h] = "reopen" /\ req[h].pupil = {s}
MovingUp(h, s)  == pc[h] = "move up" /\ req[h].pupil = {s}

EnrolmentDue(h, s) == ToEnrol(h, s) \/ Reopening(h, s) \/ MovingUp(h, s)

EnrolledTrue(s) ==
    Pupil(s) \notin disturbed =>
      /\ \A h \in Desks :
           /\ ToEnrol(h, s) => Current(s) = {} /\ student[s].year = req[h].year
           /\ Reopening(h, s) => Current(s) = {}
           /\ MovingUp(h, s) => Current(s) = {<<s, req[h].year>>}
      /\ s \in DOMAIN student /\ <<"year", s>> \notin unheeded
         /\ (\A h \in Desks : ~EnrolmentDue(h, s)) =>
           Current(s) = {<<s, student[s].year>>}

Enrolled == Newcomers /\ \A s \in Pupils : EnrolledTrue(s)

-----------------------------------------------------------------------------
LEMMA EnrolledStart == ASSUME Init PROVE Enrolled
<1>1. /\ pc = [h \in Desks |-> "idle"]
      /\ student = [s \in There |-> [section |-> Home, year |-> ThisYear,
                      deleted |-> FALSE, status |-> "active", guardians |-> {}]]
      /\ enrolled = [e \in There \X {ThisYear} |-> TRUE]
      BY DEF Init, PeopleInit, RequestsInit
<1>2. ASSUME NEW s \in DOMAIN student PROVE Current(s) = {<<s, student[s].year>>}
  <2>1. student[s].year = ThisYear /\ s \in There
        BY <1>1
  <2>2. DOMAIN enrolled = There \X {ThisYear} /\ \A e \in DOMAIN enrolled : enrolled[e]
        BY <1>1
  <2>3. <<s, ThisYear>> \in Current(s)
        BY <2>1, <2>2 DEF Current
  <2>4. \A e \in Current(s) : e = <<s, ThisYear>>
        BY <2>2 DEF Current
  <2>. QED BY <2>1, <2>3, <2>4
<1>3. Newcomers
      BY <1>1 DEF Newcomers, Newly
<1>4. ASSUME NEW s \in Pupils PROVE EnrolledTrue(s)
      BY <1>1, <1>2 DEF EnrolledTrue, ToEnrol, Reopening, MovingUp, Counting
<1>. QED BY <1>3, <1>4 DEF Enrolled

\* What a desk owes a pupil it is about.
LEMMA DueIsClaimed ==
    ASSUME PeopleShaped, NEW h \in Desks, NEW s, EnrolmentDue(h, s) \/ Newly(h, s)
    PROVE  /\ Pupil(s) \in req[h].claims /\ pc[h] \in PeopleCalls
           /\ EnrolmentDue(h, s) => s \in DOMAIN student
<1>1. Shaped(h)
      BY DEF PeopleShaped
<1>2. ASSUME ToEnrol(h, s) \/ Newly(h, s)
      PROVE  Pupil(s) \in req[h].claims /\ pc[h] \in PeopleCalls
      BY <1>1, <1>2 DEF ToEnrol, Newly, Shaped, AdmissionShaped, Admitting, Counting,
                        PeopleCalls
<1>3. ASSUME Reopening(h, s) \/ MovingUp(h, s)
      PROVE  Pupil(s) \in req[h].claims /\ pc[h] \in PeopleCalls /\ s \in DOMAIN student
      BY <1>1, <1>3 DEF Reopening, MovingUp, Shaped, PromotionShaped, Promoting, OnFile,
                        PeopleCalls
<1>4. ToEnrol(h, s) => s \in DOMAIN student
      BY <1>1 DEF ToEnrol, Shaped, AdmissionShaped, Admitting, Counting
<1>. QED BY <1>2, <1>3, <1>4 DEF EnrolmentDue

\* A pupil that a step leaves alone, and who owes what.
LEMMA EnrolledOn ==
    ASSUME NEW s, EnrolledTrue(s), disturbed \subseteq disturbed',
           Current(s)' = Current(s),
           s \in DOMAIN student' => /\ s \in DOMAIN student
                                    /\ student'[s].year = student[s].year,
           \A h \in Desks : ToEnrol(h, s)' => s \in DOMAIN student',
           <<"year", s>> \in unheeded => <<"year", s>> \in unheeded',
           Pupil(s) \notin disturbed' => \A h \in Desks :
             /\ ToEnrol(h, s)' => ToEnrol(h, s) /\ req'[h].year = req[h].year
             /\ Reopening(h, s)' => Reopening(h, s)
             /\ MovingUp(h, s)' => MovingUp(h, s) /\ req'[h].year = req[h].year
             /\ EnrolmentDue(h, s) => EnrolmentDue(h, s)'
    PROVE  EnrolledTrue(s)'
<1>1. SUFFICES ASSUME Pupil(s) \notin disturbed' PROVE EnrolledTrue(s)'
      BY DEF EnrolledTrue
<1>2. Pupil(s) \notin disturbed
      BY <1>1
<1>3. ASSUME NEW h \in Desks
      PROVE  /\ ToEnrol(h, s)' => Current(s)' = {} /\ student'[s].year = req'[h].year
             /\ Reopening(h, s)' => Current(s)' = {}
             /\ MovingUp(h, s)' => Current(s)' = {<<s, req'[h].year>>}
      BY <1>1, <1>2 DEF EnrolledTrue
<1>4. s \in DOMAIN student' /\ <<"year", s>> \notin unheeded'
      /\ (\A h \in Desks : ~EnrolmentDue(h, s)') =>
           Current(s)' = {<<s, student'[s].year>>}
      BY <1>1, <1>2 DEF EnrolledTrue
<1>. QED BY <1>3, <1>4 DEF EnrolledTrue

LEMMA EnrolledPassed ==
    ASSUME Disciplined, PeopleShaped, Enrolled, Passes(PeopleCalls), UNCHANGED people
    PROVE  Enrolled'
<1>1. UNCHANGED <<student, enrolled, unheeded>> /\ disturbed \subseteq disturbed'
      BY DEF people, Passes
<1>2. ASSUME NEW h \in Desks, NEW s
      PROVE  /\ ToEnrol(h, s)' => ToEnrol(h, s) /\ req'[h] = req[h]
             /\ Reopening(h, s)' => Reopening(h, s)
             /\ MovingUp(h, s)' => MovingUp(h, s) /\ req'[h] = req[h]
             /\ Newly(h, s)' => Newly(h, s)
  <2>1. CASE pc'[h] \in PeopleCalls
    <3>1. pc'[h] = pc[h] /\ req'[h] = req[h]
          BY <2>1 DEF Passes
    <3>. QED BY <3>1 DEF ToEnrol, Reopening, MovingUp, Newly
  <2>2. CASE pc'[h] \notin PeopleCalls
        BY <2>2 DEF ToEnrol, Reopening, MovingUp, Newly, PeopleCalls, Counting
  <2>. QED BY <2>1, <2>2
<1>3. ASSUME NEW h \in Desks, NEW s, EnrolmentDue(h, s), Pupil(s) \notin disturbed'
      PROVE  EnrolmentDue(h, s)'
  <2>1. pc[h] \in PeopleCalls /\ Pupil(s) \in req[h].claims
        BY <1>3, DueIsClaimed
  <2>2. pc'[h] = pc[h] /\ req'[h] = req[h]
        BY <1>3, <2>1 DEF Passes
  <2>. QED BY <1>3, <2>2 DEF EnrolmentDue, ToEnrol, Reopening, MovingUp
<1>4. Newcomers'
      BY <1>1, <1>2 DEF Enrolled, Newcomers
<1>5. ASSUME NEW s \in Pupils PROVE EnrolledTrue(s)'
  <2>1. EnrolledTrue(s) /\ Current(s)' = Current(s)
        BY <1>1 DEF Enrolled, Current
  <2>2. \A h \in Desks : ToEnrol(h, s)' => s \in DOMAIN student
        BY <1>2, DueIsClaimed DEF EnrolmentDue
  <2>. QED BY <1>1, <1>2, <1>3, <2>1, <2>2, EnrolledOn
<1>. QED BY <1>4, <1>5 DEF Enrolled


\* What a step of desk h leaves alone, the other desks included.
LEMMA EnrolledBeside ==
    ASSUME Disciplined, PeopleShaped', NEW h \in Desks, Moves(h, PeopleCalls),
           NEW s, EnrolledTrue(s), Current(s)' = Current(s),
           s \in DOMAIN student' => /\ s \in DOMAIN student
                                    /\ student'[s].year = student[s].year,
           <<"year", s>> \in unheeded => <<"year", s>> \in unheeded',
           ToEnrol(h, s)' => ToEnrol(h, s) /\ req'[h].year = req[h].year,
           Reopening(h, s)' => Reopening(h, s),
           MovingUp(h, s)' => MovingUp(h, s) /\ req'[h].year = req[h].year,
           EnrolmentDue(h, s) => EnrolmentDue(h, s)' \/ Pupil(s) \in disturbed'
    PROVE  EnrolledTrue(s)'
<1>1. ASSUME NEW g \in Desks, g # h
      PROVE  /\ ToEnrol(g, s)' <=> ToEnrol(g, s)
             /\ Reopening(g, s)' <=> Reopening(g, s)
             /\ MovingUp(g, s)' <=> MovingUp(g, s)
             /\ req'[g] = req[g]
  <2>1. pc'[g] = pc[g] /\ req'[g] = req[g]
        BY <1>1 DEF Moves, Disciplined
  <2>. QED BY <2>1 DEF ToEnrol, Reopening, MovingUp
<1>2. ASSUME NEW g \in Desks, ToEnrol(g, s)' PROVE s \in DOMAIN student'
      BY <1>2 DEF PeopleShaped, Shaped, AdmissionShaped, Admitting, Counting, ToEnrol
<1>3. ASSUME Pupil(s) \notin disturbed', NEW g \in Desks
      PROVE  /\ ToEnrol(g, s)' => ToEnrol(g, s) /\ req'[g].year = req[g].year
             /\ Reopening(g, s)' => Reopening(g, s)
             /\ MovingUp(g, s)' => MovingUp(g, s) /\ req'[g].year = req[g].year
             /\ EnrolmentDue(g, s) => EnrolmentDue(g, s)'
      BY <1>1, <1>3 DEF EnrolmentDue
<1>4. disturbed \subseteq disturbed'
      BY DEF Moves
<1>. QED BY <1>2, <1>3, <1>4, EnrolledOn

\* Of a pupil a request is about, and nobody disturbed, nobody else owes.
LEMMA DueToOne ==
    ASSUME Disciplined, PeopleShaped, NEW h \in Desks, NEW s, Pupil(s) \in req[h].claims,
           Pupil(s) \notin disturbed, NEW g \in Desks, g # h
    PROVE  ~EnrolmentDue(g, s) /\ ~Newly(g, s)
BY DueIsClaimed DEF Disciplined, Apart

\* A step that settles or takes on what is due to one pupil.
LEMMA EnrolledOne ==
    ASSUME Disciplined, PeopleShaped, NEW h \in Desks, Moves(h, PeopleCalls),
           NEW s, Pupil(s) \in req[h].claims, Pupil(s) \notin disturbed',
           ToEnrol(h, s)' => Current(s)' = {} /\ student'[s].year = req'[h].year,
           Reopening(h, s)' => Current(s)' = {},
           MovingUp(h, s)' => Current(s)' = {<<s, req'[h].year>>},
           s \in DOMAIN student' /\ <<"year", s>> \notin unheeded' /\ ~EnrolmentDue(h, s)'
             => Current(s)' = {<<s, student'[s].year>>}
    PROVE  EnrolledTrue(s)'
<1>1. ASSUME NEW g \in Desks, g # h PROVE ~EnrolmentDue(g, s)'
  <2>1. pc'[g] = pc[g] /\ req'[g] = req[g]
        BY <1>1 DEF Moves, Disciplined
  <2>2. ~EnrolmentDue(g, s)
        BY <1>1, DueToOne DEF Moves
  <2>. QED BY <2>1, <2>2 DEF EnrolmentDue, ToEnrol, Reopening, MovingUp
<1>2. \A g \in Desks : (ToEnrol(g, s) \/ Reopening(g, s) \/ MovingUp(g, s))' => g = h
      BY <1>1 DEF EnrolmentDue
<1>3. (\A g \in Desks : ~EnrolmentDue(g, s)') => ~EnrolmentDue(h, s)'
      OBVIOUS
<1>. QED BY <1>2, <1>3 DEF EnrolledTrue

\* A step that touches no year, no enrolment and nothing due.
LEMMA EnrolledQuiet ==
    ASSUME Disciplined, PeopleShaped', Enrolled, NEW h \in Desks, Moves(h, PeopleCalls),
           enrolled' = enrolled, DOMAIN student' = DOMAIN student,
           \A s \in DOMAIN student : student'[s].year = student[s].year,
           \A s : <<"year", s>> \in unheeded => <<"year", s>> \in unheeded',
           \A s : /\ ToEnrol(h, s)' => ToEnrol(h, s) /\ req'[h].year = req[h].year
                  /\ Reopening(h, s)' => Reopening(h, s)
                  /\ MovingUp(h, s)' => MovingUp(h, s) /\ req'[h].year = req[h].year
                  /\ EnrolmentDue(h, s) => EnrolmentDue(h, s)' \/ Pupil(s) \in disturbed'
    PROVE  \A s \in Pupils : EnrolledTrue(s)'
<1>1. ASSUME NEW s \in Pupils PROVE EnrolledTrue(s)'
  <2>1. EnrolledTrue(s) /\ Current(s)' = Current(s)
        BY DEF Enrolled, Current
  <2>. QED BY <2>1, EnrolledBeside
<1>. QED BY <1>1

\* Where each call that is not a count or an edit leaves its desk.
LEMMA Lands ==
    ASSUME Disciplined, NEW h \in Desks
    PROVE  /\ CheckSeat(h) => /\ pc[h] = "seat" /\ UNCHANGED people
                              /\ \/ pc'[h] = "idle"
                                 \/ pc'[h] = "insert student" /\ req'[h] = req[h]
           /\ InsertStudent(h) =>
                /\ pc[h] = "insert student" /\ req'[h] = req[h]
                /\ pc'[h] \in {"count", "insert guardian"}
           /\ InsertGuardian(h) =>
                /\ pc[h] = "insert guardian" /\ req'[h] = req[h]
                /\ pc'[h] \in {"file guardians", "insert guardian"}
           /\ FileGuardians(h) =>
                /\ pc[h] = "file guardians"
                /\ \/ pc'[h] = "count" /\ req'[h] = req[h]
                   \/ pc'[h] = "idle" /\ student' = student
                      /\ req[h].claims \subseteq disturbed'
           /\ Enrol(h) => /\ pc[h] = "enrol"
                          /\ \/ pc'[h] = "open login" /\ req'[h] = req[h]
                             \/ pc'[h] = "idle"
           /\ OpenLogin(h) => pc[h] = "open login" /\ pc'[h] = "idle"
<1>1. CheckSeat(h) => /\ pc[h] = "seat" /\ UNCHANGED people
                      /\ \/ pc'[h] = "idle"
                         \/ pc'[h] = "insert student" /\ req'[h] = req[h]
      BY GoesTo, Ends DEF CheckSeat
<1>2. ASSUME InsertStudent(h)
      PROVE  /\ pc[h] = "insert student" /\ req'[h] = req[h]
             /\ pc'[h] \in {"count", "insert guardian"}
  <2>1. PICK call \in {"count", "insert guardian"} : Goto(h, call)
        BY <1>2 DEF InsertStudent
  <2>. QED BY <1>2, <2>1, GoesTo DEF InsertStudent
<1>3. ASSUME InsertGuardian(h)
      PROVE  /\ pc[h] = "insert guardian" /\ req'[h] = req[h]
             /\ pc'[h] \in {"file guardians", "insert guardian"}
  <2>1. PICK call \in {"file guardians", "insert guardian"} : Goto(h, call)
        BY <1>3 DEF InsertGuardian
  <2>. QED BY <1>3, <2>1, GoesTo DEF InsertGuardian
<1>4. ASSUME FileGuardians(h)
      PROVE  /\ pc[h] = "file guardians"
             /\ \/ pc'[h] = "count" /\ req'[h] = req[h]
                \/ pc'[h] = "idle" /\ student' = student
                   /\ req[h].claims \subseteq disturbed'
      BY <1>4, GoesTo, Breaks DEF FileGuardians
<1>5. ASSUME Enrol(h)
      PROVE  /\ pc[h] = "enrol"
             /\ \/ pc'[h] = "open login" /\ req'[h] = req[h]
                \/ pc'[h] = "idle"
  <2>1. \/ Goto(h, "open login") \/ Finish(h) \/ BreakOff(h, req[h].claims)
        BY <1>5 DEF Enrol
  <2>. QED BY <1>5, <2>1, GoesTo, Ends, Breaks DEF Enrol
<1>6. OpenLogin(h) => pc[h] = "open login" /\ pc'[h] = "idle"
      BY Ends DEF OpenLogin
<1>. QED BY <1>1, <1>2, <1>3, <1>4, <1>5, <1>6

LEMMA LandsAfter ==
    ASSUME Disciplined, NEW h \in Desks
    PROVE  /\ Remove(h) => pc[h] = "remove" /\ pc'[h] = "idle"
           /\ CloseEnrolments(h) =>
                pc[h] = "close" /\ pc'[h] = "reopen" /\ req'[h] = req[h]
           /\ OpenEnrolment(h) =>
                /\ pc[h] = "reopen"
                /\ pc'[h] \in {"idle", "move up"}
           /\ MoveUp(h) => pc[h] = "move up" /\ pc'[h] = "promote" /\ req'[h] = req[h]
           /\ StoreStatus(h) =>
                pc[h] = "status" /\ pc'[h] = "count" /\ req'[h] = req[h]
           /\ CloseLogin(h) => pc[h] = "login" /\ pc'[h] = "idle"
           /\ LinkGuardian(h) => pc[h] = "link" /\ pc'[h] = "idle"
<1>1. Remove(h) => pc[h] = "remove" /\ pc'[h] = "idle"
      BY Ends DEF Remove
<1>2. CloseEnrolments(h) => pc[h] = "close" /\ pc'[h] = "reopen" /\ req'[h] = req[h]
      BY GoesTo DEF CloseEnrolments
<1>3. ASSUME OpenEnrolment(h) PROVE pc[h] = "reopen" /\ pc'[h] \in {"idle", "move up"}
  <2>1. PICK s : BreakOff(h, {Pupil(s)}) \/ Goto(h, "move up")
        BY <1>3 DEF OpenEnrolment
  <2>. QED BY <1>3, <2>1, GoesTo, Breaks DEF OpenEnrolment
<1>4. MoveUp(h) => pc[h] = "move up" /\ pc'[h] = "promote" /\ req'[h] = req[h]
      BY GoesTo DEF MoveUp
<1>5. StoreStatus(h) => pc[h] = "status" /\ pc'[h] = "count" /\ req'[h] = req[h]
      BY GoesTo DEF StoreStatus
<1>6. CloseLogin(h) => pc[h] = "login" /\ pc'[h] = "idle"
      BY Ends DEF CloseLogin
<1>7. LinkGuardian(h) => pc[h] = "link" /\ pc'[h] = "idle"
      BY Ends DEF LinkGuardian
<1>. QED BY <1>1, <1>2, <1>3, <1>4, <1>5, <1>6, <1>7

\* Who is new stays so, but for the one whose admission begins.
LEMMA NewcomersStay ==
    ASSUME Disciplined, PeopleShaped, Newcomers, NEW h \in Desks, PeopleStep(h),
           Moves(h, PeopleCalls)
    PROVE  Newcomers'
<1>1. ASSUME DOMAIN student' = DOMAIN student, \A s : Newly(h, s)' => Newly(h, s)
      PROVE  Newcomers'
  <2>1. ASSUME NEW g \in Desks, NEW s, Newly(g, s)' PROVE Newly(g, s)
    <3>1. CASE g # h
      <4>1. pc'[g] = pc[g] /\ req'[g] = req[g]
            BY <3>1 DEF Moves, Disciplined
      <4>. QED BY <2>1, <4>1 DEF Newly
    <3>. QED BY <1>1, <2>1, <3>1
  <2>. QED BY <1>1, <2>1 DEF Newcomers
<1>2. ASSUME DOMAIN student' = DOMAIN student, pc'[h] \notin {"seat", "insert student"}
      PROVE  Newcomers'
      BY <1>1, <1>2 DEF Newly
<1>3. ASSUME NEW s, NEW x, NEW family, NEW signs, BeginAdmission(h, s, x, family, signs)
      PROVE  Newcomers'
  <2>1. /\ UNCHANGED people /\ pc'[h] = "seat" /\ req'[h].pupil = s
        /\ s \notin DOMAIN student
        BY <1>3, AdmissionBegins
  <2>2. New(h, Pupil(s)) /\ student' = student
        BY <1>3, <2>1 DEF BeginAdmission, people
  <2>3. ASSUME NEW g \in Desks, g # h, NEW u, Newly(g, u)' PROVE Newly(g, u) /\ u # s
    <3>1. pc'[g] = pc[g] /\ req'[g] = req[g]
          BY <2>3 DEF Moves, Disciplined
    <3>2. Newly(g, u)
          BY <2>3, <3>1 DEF Newly
    <3>3. Pupil(u) \in req[g].claims
          BY <3>2, DueIsClaimed
    <3>. QED BY <2>2, <2>3, <3>2, <3>3 DEF New, HeldByOthers
  <2>4. \A u : Newly(h, u)' => u = s
        BY <2>1 DEF Newly
  <2>. QED BY <2>1, <2>2, <2>3, <2>4 DEF Newcomers
<1>4. CASE InsertStudent(h)
  <2>1. PICK s, new : s = req[h].pupil /\ student' = With(student, s, new)
        BY <1>4 DEF InsertStudent
  <2>2. pc'[h] \notin {"seat", "insert student"} /\ Newly(h, s)
        BY <1>4, <2>1, Lands DEF Newly
  <2>3. DOMAIN student' = DOMAIN student \cup {s}
        BY <2>1 DEF With
  <2>4. ASSUME NEW g \in Desks, NEW u, Newly(g, u)' PROVE Newly(g, u) /\ g # h
    <3>1. g # h
          BY <2>2, <2>4 DEF Newly
    <3>2. pc'[g] = pc[g] /\ req'[g] = req[g]
          BY <3>1 DEF Moves, Disciplined
    <3>. QED BY <2>4, <3>1, <3>2 DEF Newly
  <2>5. ASSUME NEW g \in Desks, NEW u \in DOMAIN student', Newly(g, u)' PROVE FALSE
    <3>1. Newly(g, u) /\ g # h
          BY <2>4, <2>5
    <3>2. u = s
          BY <2>3, <3>1 DEF Newcomers
    <3>. QED BY <2>2, <3>1, <3>2 DEF Newcomers
  <2>. QED BY <2>4, <2>5 DEF Newcomers
<1>5. CASE CheckSeat(h)
  <2>1. /\ pc[h] = "seat" /\ UNCHANGED people
        /\ \/ pc'[h] = "idle"
           \/ pc'[h] = "insert student" /\ req'[h] = req[h]
        BY <1>5, GoesTo, Ends DEF CheckSeat
  <2>2. \A s : Newly(h, s)' => Newly(h, s)
        BY <2>1 DEF Newly
  <2>. QED BY <1>1, <2>1, <2>2 DEF people
<1>6. ASSUME PeopleArrive(h), \A s, x, family, signs : ~BeginAdmission(h, s, x, family, signs)
      PROVE  Newcomers'
  <2>1. ASSUME NEW op, NEW s, NEW field, NEW value, BeginEdit(h, op, s, field, value)
        PROVE  Newcomers'
        BY <1>2, <2>1, EditBegins DEF people
  <2>2. ASSUME NEW cohort, NEW x, NEW y, BeginPromotion(h, cohort, x, y)
        PROVE  Newcomers'
        BY <1>2, <2>2, PromotionBegins DEF people
  <2>3. ASSUME NEW s, NEW status, BeginStatus(h, s, status)
        PROVE  Newcomers'
        BY <1>2, <2>3, StatusBegins DEF people
  <2>4. ASSUME NEW s, BeginRemoval(h, s) PROVE Newcomers'
        BY <1>2, <2>4, RemovalBegins DEF people
  <2>5. ASSUME NEW s, Restore(h, s) PROVE Newcomers'
        BY <1>2, <2>5, Restores
  <2>6. ASSUME NEW s, NEW g, LinkChild(h, s, g) PROVE Newcomers'
        BY <1>2, <2>6, LinkBegins
  <2>. QED BY <1>6, <2>1, <2>2, <2>3, <2>4, <2>5, <2>6 DEF PeopleArrive
<1>7. CASE CountActive(h) \/ WriteStrength(h) \/ NextOfCohort(h)
      BY <1>2, <1>7, Counts, Writes, Chooses DEF people
<1>8. CASE InsertGuardian(h) \/ FileGuardians(h) \/ Enrol(h) \/ OpenLogin(h)
  <2>1. pc'[h] \notin {"seat", "insert student"}
        BY <1>8, Lands
  <2>2. DOMAIN student' = DOMAIN student
        BY <1>8 DEF InsertGuardian, FileGuardians, Enrol, OpenLogin
  <2>. QED BY <1>2, <2>1, <2>2
<1>9. CASE StoreEdit(h)
      BY ZenonT(40), <1>2, <1>9, Edits
<1>10. CASE Remove(h) \/ CloseEnrolments(h) \/ OpenEnrolment(h) \/ MoveUp(h)
  <2>1. pc'[h] \notin {"seat", "insert student"}
        BY <1>10, LandsAfter
  <2>2. DOMAIN student' = DOMAIN student
        BY <1>10 DEF Remove, CloseEnrolments, OpenEnrolment, MoveUp
  <2>. QED BY <1>2, <2>1, <2>2
<1>11. CASE StoreStatus(h) \/ CloseLogin(h) \/ LinkGuardian(h)
  <2>1. pc'[h] \notin {"seat", "insert student"}
        BY <1>11, LandsAfter
  <2>2. DOMAIN student' = DOMAIN student
        BY <1>11 DEF StoreStatus, CloseLogin, LinkGuardian
  <2>. QED BY <1>2, <2>1, <2>2
<1>. QED BY <1>3, <1>4, <1>5, <1>6, <1>7, <1>8, <1>9, <1>10, <1>11
         DEF PeopleStep, PeopleResume

\* Nothing is due from a desk at any other call.
OwesNoEnrolment(h) ==
    /\ pc[h] \notin {"insert guardian", "file guardians", "enrol", "reopen", "move up"}
    /\ ~(pc[h] \in Counting /\ req[h].then = "enrol")

LEMMA NothingDue ==
    ASSUME NEW h, OwesNoEnrolment(h)
    PROVE  \A s : ~ToEnrol(h, s) /\ ~Reopening(h, s) /\ ~MovingUp(h, s) /\ ~EnrolmentDue(h, s)
BY DEF OwesNoEnrolment, EnrolmentDue, ToEnrol, Reopening, MovingUp

LEMMA NothingDueNext ==
    ASSUME NEW h, OwesNoEnrolment(h)'
    PROVE  \A s : ~ToEnrol(h, s)' /\ ~Reopening(h, s)' /\ ~MovingUp(h, s)' /\ ~EnrolmentDue(h, s)'
BY DEF OwesNoEnrolment, EnrolmentDue, ToEnrol, Reopening, MovingUp

LEMMA EnrolledAside ==
    ASSUME Disciplined, PeopleShaped', Enrolled, NEW h \in Desks, Moves(h, PeopleCalls),
           enrolled' = enrolled, DOMAIN student' = DOMAIN student,
           \A s \in DOMAIN student : student'[s].year = student[s].year,
           \A s : <<"year", s>> \in unheeded => <<"year", s>> \in unheeded',
           OwesNoEnrolment(h), OwesNoEnrolment(h)'
    PROVE  \A s \in Pupils : EnrolledTrue(s)'
BY NothingDue, NothingDueNext, EnrolledQuiet

LEMMA EnrolledArrivals ==
    ASSUME Disciplined, PeopleShaped, PeopleShaped', Enrolled, NEW h \in Desks,
           Moves(h, PeopleCalls), PeopleArrive(h)
    PROVE  \A s \in Pupils : EnrolledTrue(s)'
<1>. USE DEF OwesNoEnrolment, Counting
<1>0. ASSUME UNCHANGED people, pc[h] = "idle", OwesNoEnrolment(h)'
      PROVE  \A s \in Pupils : EnrolledTrue(s)'
      BY <1>0, EnrolledAside DEF people
<1>1. ASSUME NEW s, NEW x, NEW family, NEW signs, BeginAdmission(h, s, x, family, signs)
      PROVE  \A u \in Pupils : EnrolledTrue(u)'
      BY <1>0, <1>1, AdmissionBegins
<1>2. ASSUME NEW op, NEW s, NEW field, NEW value, BeginEdit(h, op, s, field, value)
      PROVE  \A u \in Pupils : EnrolledTrue(u)'
      BY <1>0, <1>2, EditBegins
<1>3. ASSUME NEW cohort, NEW x, NEW y, BeginPromotion(h, cohort, x, y)
      PROVE  \A u \in Pupils : EnrolledTrue(u)'
      BY <1>0, <1>3, PromotionBegins
<1>4. ASSUME NEW s, NEW status, BeginStatus(h, s, status)
      PROVE  \A u \in Pupils : EnrolledTrue(u)'
      BY <1>0, <1>4, StatusBegins
<1>5. ASSUME NEW s, BeginRemoval(h, s)
      PROVE  \A u \in Pupils : EnrolledTrue(u)'
      BY <1>0, <1>5, RemovalBegins
<1>6. ASSUME NEW s, Restore(h, s)
      PROVE  \A u \in Pupils : EnrolledTrue(u)'
  <2>1. /\ pc[h] = "idle" /\ pc' = pc /\ s \in DOMAIN student
        /\ student' = [student EXCEPT ![s].deleted = FALSE] /\ unheeded \subseteq unheeded'
        /\ enrolled' = enrolled
        BY <1>6, Restores
  <2>2. ASSUME NEW u \in DOMAIN student PROVE student'[u].year = student[u].year
        BY <2>1 DEF PeopleShaped, PupilsTyped, Student
  <2>. QED BY <2>1, <2>2, EnrolledAside
<1>7. ASSUME NEW s, NEW g, LinkChild(h, s, g)
      PROVE  \A u \in Pupils : EnrolledTrue(u)'
  <2>1. /\ pc[h] = "idle" /\ pc'[h] = "link" /\ s \in DOMAIN student
        /\ student' = [student EXCEPT ![s].guardians = student[s].guardians \cup {g}]
        /\ UNCHANGED <<enrolled, unheeded>>
        BY <1>7, LinkBegins
  <2>2. PICK new : new = student[s].guardians \cup {g}
        OBVIOUS
  <2>3. ASSUME NEW u \in DOMAIN student PROVE student'[u].year = student[u].year
        BY <2>1, <2>2 DEF PeopleShaped, PupilsTyped, Student
  <2>. QED BY <2>1, <2>3, EnrolledAside
<1>. QED BY <1>1, <1>2, <1>3, <1>4, <1>5, <1>6, <1>7 DEF PeopleArrive

\* The counts, whoever asked for them.
LEMMA EnrolledCounts ==
    ASSUME Disciplined, PeopleShaped, PeopleShaped', Enrolled, NEW h \in Desks,
           Moves(h, PeopleCalls), CountActive(h) \/ WriteStrength(h) \/ NextOfCohort(h)
    PROVE  \A s \in Pupils : EnrolledTrue(s)'
<1>0. Shaped(h)
      BY DEF PeopleShaped
<1>1. CASE CountActive(h)
  <2>1. /\ pc[h] = "count" /\ pc'[h] = "strength" /\ DOMAIN req'[h] = DOMAIN req[h]
        /\ \A f \in DOMAIN req[h] \ {"counted"} : req'[h][f] = req[h][f]
        /\ \A s : <<"year", s>> \in unheeded => <<"year", s>> \in unheeded'
        /\ UNCHANGED <<student, enrolled>>
    <3>1. \A s, x : <<"year", s>> # Section(x)
          BY DEF Section
    <3>. QED BY <1>1, <3>1, Counts
  <2>2. "then" \in DOMAIN req[h]
        BY <1>0, <2>1 DEF Shaped, CountShaped, Counting
  <2>3. CASE req[h].then = "enrol"
    <3>1. DOMAIN req[h] = AdmissionFields
          BY <1>0, <2>1, <2>3 DEF Shaped, AdmissionShaped, Admitting, Counting
    <3>2. /\ req'[h].pupil = req[h].pupil /\ req'[h].year = req[h].year
          /\ req'[h].then = "enrol"
          BY <2>1, <2>3, <3>1 DEF AdmissionFields
    <3>3. \A s : /\ ToEnrol(h, s)' <=> ToEnrol(h, s)
                 /\ ~Reopening(h, s)' /\ ~MovingUp(h, s)' /\ ~Reopening(h, s) /\ ~MovingUp(h, s)
          BY <2>1, <2>3, <3>2 DEF ToEnrol, Reopening, MovingUp, Counting
    <3>. QED BY <2>1, <3>2, <3>3, EnrolledQuiet DEF EnrolmentDue
  <2>4. CASE req[h].then # "enrol"
    <3>1. OwesNoEnrolment(h) /\ OwesNoEnrolment(h)'
          BY <2>1, <2>2, <2>4 DEF OwesNoEnrolment
    <3>. QED BY <2>1, <3>1, EnrolledAside
  <2>. QED BY <2>3, <2>4
<1>2. CASE WriteStrength(h)
  <2>1. /\ pc[h] = "strength" /\ UNCHANGED <<student, enrolled, unheeded>>
        /\ \/ req[h].then = "idle" /\ pc'[h] = "idle"
           \/ /\ DOMAIN req'[h] = DOMAIN req[h]
              /\ \A f \in DOMAIN req[h] \ {"recount"} : req'[h][f] = req[h][f]
              /\ \/ pc'[h] = "count"
                 \/ pc'[h] = req[h].then /\ req[h].then \in {"enrol", "login"}
        BY <1>2, Writes
  <2>2. "then" \in DOMAIN req[h]
        BY <1>0, <2>1 DEF Shaped, CountShaped, Counting
  <2>3. CASE req[h].then = "enrol"
    <3>1. DOMAIN req[h] = AdmissionFields
          BY <1>0, <2>1, <2>3 DEF Shaped, AdmissionShaped, Admitting, Counting
    <3>2. /\ req'[h].pupil = req[h].pupil /\ req'[h].year = req[h].year
          /\ req'[h].then = "enrol" /\ pc'[h] \in {"count", "enrol"}
          BY <2>1, <2>3, <3>1 DEF AdmissionFields
    <3>3. \A s : /\ ToEnrol(h, s)' <=> ToEnrol(h, s)
                 /\ ~Reopening(h, s)' /\ ~MovingUp(h, s)' /\ ~Reopening(h, s) /\ ~MovingUp(h, s)
          BY <2>1, <2>3, <3>2 DEF ToEnrol, Reopening, MovingUp, Counting
    <3>. QED BY <2>1, <3>2, <3>3, EnrolledQuiet DEF EnrolmentDue
  <2>4. CASE req[h].then # "enrol"
    <3>1. OwesNoEnrolment(h) /\ OwesNoEnrolment(h)'
          BY <2>1, <2>2, <2>4 DEF OwesNoEnrolment, Counting
    <3>. QED BY <2>1, <3>1, EnrolledAside
  <2>. QED BY <2>3, <2>4
<1>3. CASE NextOfCohort(h)
  <2>1. /\ pc[h] = "promote" /\ UNCHANGED people
        /\ pc'[h] = "count" => req'[h] = req[h]
        /\ pc'[h] \in {"count", "close", "promote"}
        BY <1>3, Chooses
  <2>2. req[h].then = "idle"
        BY <1>0, <2>1 DEF Shaped, PromotionShaped, Promoting
  <2>3. OwesNoEnrolment(h) /\ OwesNoEnrolment(h)'
        BY <2>1, <2>2 DEF OwesNoEnrolment, Counting
  <2>. QED BY <2>1, <2>3, EnrolledAside DEF people
<1>. QED BY <1>1, <1>2, <1>3


LEMMA EnrolledAdmissions ==
    ASSUME Disciplined, PeopleShaped, PeopleShaped', Enrolled, NEW h \in Desks,
           Moves(h, PeopleCalls),
           \/ CheckSeat(h) \/ InsertStudent(h) \/ InsertGuardian(h)
           \/ FileGuardians(h) \/ Enrol(h) \/ OpenLogin(h)
    PROVE  \A s \in Pupils : EnrolledTrue(s)'
<1>0. Shaped(h) /\ PupilsTyped
      BY DEF PeopleShaped
<1>1. CASE CheckSeat(h)
  <2>1. OwesNoEnrolment(h) /\ OwesNoEnrolment(h)' /\ UNCHANGED people
        BY <1>1, Lands DEF OwesNoEnrolment, Counting
  <2>. QED BY <2>1, EnrolledAside DEF people
<1>2. CASE InsertStudent(h)
  <2>1. PICK s, new :
          /\ s = req[h].pupil /\ student' = With(student, s, new)
          /\ new = [section |-> req[h].section, year |-> req[h].year, deleted |-> FALSE,
                    status |-> "active", guardians |-> {}]
        BY <1>2 DEF InsertStudent
  <2>2. /\ pc[h] = "insert student" /\ pc'[h] \in {"count", "insert guardian"}
        /\ req'[h] = req[h] /\ UNCHANGED <<enrolled, unheeded>>
        BY <1>2, Lands DEF InsertStudent
  <2>3. /\ DOMAIN student' = DOMAIN student \cup {s} /\ student'[s] = new
        /\ \A u \in DOMAIN student \ {s} : student'[u] = student[u]
        BY <2>1 DEF With
  <2>4. Newly(h, s) /\ s \notin DOMAIN student /\ Pupil(s) \in req[h].claims
        BY <2>1, <2>2, DueIsClaimed DEF Newly, Enrolled, Newcomers
  <2>5. req[h].then = "enrol"
        BY <1>0, <2>2 DEF Shaped, AdmissionShaped, Admitting
  <2>6. ASSUME NEW u \in Pupils, u # s PROVE EnrolledTrue(u)'
    <3>1. EnrolledTrue(u) /\ Current(u)' = Current(u)
          BY <2>2 DEF Enrolled, Current
    <3>2. ~ToEnrol(h, u)' /\ ~Reopening(h, u)' /\ ~MovingUp(h, u)' /\ ~EnrolmentDue(h, u)
          BY <2>1, <2>2, <2>6
             DEF ToEnrol, Reopening, MovingUp, EnrolmentDue, Counting
    <3>. QED BY <2>2, <2>3, <2>6, <3>1, <3>2, EnrolledBeside
  <2>7. ASSUME Pupil(s) \notin disturbed' PROVE EnrolledTrue(s)'
    <3>1. Current(s)' = {}
      <4>1. Current(s) = {}
            BY <1>0, <2>4 DEF Current, PupilsTyped
      <4>. QED BY <2>2, <4>1 DEF Current
    <3>2. student'[s].year = req'[h].year
      <4>1. new.year = req[h].year
            BY <2>1
      <4>. QED BY <2>2, <2>3, <4>1
    <3>3. ToEnrol(h, s)' /\ ~Reopening(h, s)' /\ ~MovingUp(h, s)'
          BY <2>1, <2>2, <2>5 DEF ToEnrol, Reopening, MovingUp, Counting
    <3>. QED BY <2>4, <2>7, <3>1, <3>2, <3>3, EnrolledOne DEF EnrolmentDue
  <2>8. Pupil(s) \in disturbed' => EnrolledTrue(s)'
        BY DEF EnrolledTrue
  <2>. QED BY <2>6, <2>7, <2>8
<1>3. CASE InsertGuardian(h)
  <2>1. /\ pc[h] = "insert guardian" /\ req'[h] = req[h]
        /\ pc'[h] \in {"file guardians", "insert guardian"}
        /\ UNCHANGED <<student, enrolled, unheeded>>
        BY <1>3, Lands DEF InsertGuardian
  <2>2. \A s : /\ ToEnrol(h, s)' <=> ToEnrol(h, s)
               /\ ~Reopening(h, s)' /\ ~MovingUp(h, s)' /\ ~Reopening(h, s) /\ ~MovingUp(h, s)
        BY <2>1 DEF ToEnrol, Reopening, MovingUp, Counting
  <2>. QED BY <2>1, <2>2, EnrolledQuiet DEF EnrolmentDue
<1>4. CASE FileGuardians(h)
  <2>1. /\ pc[h] = "file guardians" /\ UNCHANGED <<enrolled, unheeded>>
        /\ \/ pc'[h] = "count" /\ req'[h] = req[h]
           \/ pc'[h] = "idle" /\ student' = student /\ req[h].claims \subseteq disturbed'
        BY <1>4, Lands DEF FileGuardians
  <2>2. req[h].then = "enrol" /\ Pupil(req[h].pupil) \in req[h].claims
        BY <1>0, <2>1 DEF Shaped, AdmissionShaped, Admitting
  <2>3. \A s : /\ pc'[h] = "count" => (ToEnrol(h, s)' <=> ToEnrol(h, s))
               /\ pc'[h] = "idle" => ~ToEnrol(h, s)'
               /\ ToEnrol(h, s) => s = req[h].pupil
               /\ ~Reopening(h, s)' /\ ~MovingUp(h, s)' /\ ~Reopening(h, s) /\ ~MovingUp(h, s)
        BY <2>1, <2>2 DEF ToEnrol, Reopening, MovingUp, Counting
  <2>4. DOMAIN student' = DOMAIN student
        BY <1>4 DEF FileGuardians
  <2>5. ASSUME NEW u \in DOMAIN student PROVE student'[u].year = student[u].year
    <3>1. PICK s, new :
            \/ student' = student
            \/ student' = [student EXCEPT ![s].guardians = new]
          BY <1>4 DEF FileGuardians
    <3>. QED BY <1>0, <3>1 DEF PupilsTyped, Student
  <2>. QED BY <2>1, <2>2, <2>3, <2>4, <2>5, EnrolledQuiet DEF EnrolmentDue
<1>5. CASE Enrol(h)
  <2>1. PICK s, y, e : s = req[h].pupil /\ y = req[h].year /\ e = <<s, y>>
        OBVIOUS
  <2>2. /\ pc[h] = "enrol" /\ UNCHANGED <<student, unheeded>>
        /\ IF e \in DOMAIN enrolled
           THEN BreakOff(h, req[h].claims) /\ UNCHANGED enrolled
           ELSE enrolled' = With(enrolled, e, TRUE)
        BY <1>5, <2>1 DEF Enrol
  <2>3. pc'[h] \in {"open login", "idle"}
        BY <1>5, Lands
  <2>4. ToEnrol(h, s) /\ Pupil(s) \in req[h].claims /\ s \in Pupils
    <3>1. ToEnrol(h, s)
          BY <2>1, <2>2 DEF ToEnrol
    <3>. QED BY <1>0, <3>1, DueIsClaimed DEF EnrolmentDue, PupilsTyped
  <2>5. OwesNoEnrolment(h)'
        BY <2>3 DEF OwesNoEnrolment, Counting
  <2>6. ASSUME NEW u \in Pupils, u # s PROVE EnrolledTrue(u)'
    <3>1. Current(u)' = Current(u)
      <4>1. CASE enrolled' = With(enrolled, e, TRUE)
        <5>1. /\ DOMAIN enrolled' = DOMAIN enrolled \cup {e} /\ e[1] # u
              /\ \A d \in DOMAIN enrolled \ {e} : enrolled'[d] = enrolled[d]
              BY <2>1, <2>6, <4>1 DEF With
        <5>2. \A d : d \in Current(u)' <=> d \in Current(u)
              BY <5>1 DEF Current
        <5>. QED BY <5>2
      <4>2. CASE UNCHANGED enrolled
            BY <4>2 DEF Current
      <4>. QED BY <2>2, <4>1, <4>2
    <3>2. ~EnrolmentDue(h, u)
          BY <2>1, <2>2, <2>6 DEF ToEnrol, Reopening, MovingUp, EnrolmentDue, Counting
    <3>. QED BY <2>2, <2>5, <3>1, <3>2, NothingDueNext, EnrolledBeside DEF Enrolled
  <2>7. ASSUME Pupil(s) \notin disturbed' PROVE EnrolledTrue(s)'
    <3>1. Pupil(s) \notin disturbed
          BY <2>7 DEF Moves
    <3>2. e \notin DOMAIN enrolled
          BY <2>2, <2>4, <2>7, Breaks
    <3>3. Current(s) = {} /\ student[s].year = y
          BY <2>1, <2>4, <3>1 DEF Enrolled, EnrolledTrue
    <3>4. Current(s)' = {<<s, student'[s].year>>}
      <4>1. /\ DOMAIN enrolled' = DOMAIN enrolled \cup {e} /\ enrolled'[e] = TRUE
            /\ \A d \in DOMAIN enrolled : enrolled'[d] = enrolled[d]
            BY <2>2, <3>2 DEF With
      <4>2. \A d \in DOMAIN enrolled : ~(d[1] = s /\ enrolled[d])
            BY <3>3 DEF Current
      <4>3. e \in Current(s)' /\ \A d \in Current(s)' : d = e
            BY <2>1, <4>1, <4>2 DEF Current
      <4>. QED BY <2>1, <2>2, <3>3, <4>3
    <3>. QED BY <2>4, <2>5, <2>7, <3>4, NothingDueNext, EnrolledOne
  <2>8. Pupil(s) \in disturbed' => EnrolledTrue(s)'
        BY DEF EnrolledTrue
  <2>. QED BY <2>6, <2>7, <2>8
<1>6. CASE OpenLogin(h)
  <2>1. pc[h] = "open login" /\ pc'[h] = "idle" /\ UNCHANGED <<student, enrolled, unheeded>>
        BY <1>6, Lands DEF OpenLogin
  <2>2. OwesNoEnrolment(h) /\ OwesNoEnrolment(h)'
        BY <2>1 DEF OwesNoEnrolment, Counting
  <2>. QED BY <2>1, <2>2, EnrolledAside
<1>. QED BY <1>1, <1>2, <1>3, <1>4, <1>5, <1>6

LEMMA EnrolledEdits ==
    ASSUME Disciplined, PeopleShaped, PeopleShaped', Enrolled, NEW h \in Desks,
           Moves(h, PeopleCalls),
           \/ StoreEdit(h) \/ Remove(h)
           \/ StoreStatus(h) \/ CloseLogin(h) \/ LinkGuardian(h)
    PROVE  \A s \in Pupils : EnrolledTrue(s)'
<1>0. Shaped(h) /\ PupilsTyped
      BY DEF PeopleShaped
<1>. USE DEF OwesNoEnrolment, Counting
<1>1. CASE StoreEdit(h)
  <2>1. PICK s : s = req[h].pupil
        OBVIOUS
  <2>2. /\ pc[h] = "edit" /\ enrolled' = enrolled
        /\ s \in DOMAIN student /\ Pupil(s) \in req[h].claims
        /\ unheeded \subseteq unheeded'
        /\ \/ student' = student
           \/ \E new \in Student : /\ student' = [student EXCEPT ![s] = new]
                                   /\ new.year # student[s].year => <<"year", s>> \in unheeded'
        /\ \/ pc'[h] = "idle"
           \/ pc'[h] = "count" /\ req'[h].then = "idle"
    <3>1. ASSUME NEW field, field \in Followed \cup {"section"}, NEW other, NEW value,
                 unheeded' = unheeded \cup {<<f, s>> : f \in {field} \cap Followed} \cup other,
                 (IF field = "year" THEN value ELSE student[s].year) # student[s].year
          PROVE  <<"year", s>> \in unheeded'
          BY <3>1 DEF Followed
    <3>2. CASE UNCHANGED <<student, unheeded>> /\ pc'[h] = "idle"
          BY <1>1, <2>1, <3>2, Edits
    <3>3. CASE ~(UNCHANGED <<student, unheeded>> /\ pc'[h] = "idle")
      <4>1. PICK new \in Student, field \in Followed \cup {"section"} : \E value :
              /\ student' = [student EXCEPT ![s] = new]
              /\ new.year = (IF field = "year" THEN value ELSE student[s].year)
              /\ unheeded' = unheeded
                   \cup {<<f, s>> : f \in {field} \cap Followed}
                   \cup (IF field = "status" THEN {Section(new.section)} ELSE {})
                   \cup ({Section(student[s].section)} \
                           {Section(req[h].was), Section(new.section)})
              /\ \/ pc'[h] = "idle"
                 \/ pc'[h] = "count" /\ req'[h].then = "idle"
            BY SMTT(30), <1>1, <2>1, <3>3, Edits
      <4>2. PICK a, b :
              unheeded' = unheeded \cup {<<f, s>> : f \in {field} \cap Followed} \cup a \cup b
            BY <4>1
      <4>3. unheeded \subseteq unheeded'
            BY <4>2
      <4>4. field = "year" => <<"year", s>> \in unheeded'
        <5>1. field = "year" => field \in {field} \cap Followed
              BY DEF Followed
        <5>. QED BY <4>2, <5>1
      <4>. QED BY <1>1, <2>1, <4>1, <4>3, <4>4, Edits
    <3>. QED BY <3>2, <3>3
  <2>3. OwesNoEnrolment(h) /\ OwesNoEnrolment(h)'
        BY <2>2
  <2>4. DOMAIN student' = DOMAIN student
        BY <2>2
  <2>5. ASSUME NEW u \in Pupils, u # s \/ student'[u].year = student[u].year
        PROVE  EnrolledTrue(u)'
    <3>1. EnrolledTrue(u) /\ Current(u)' = Current(u)
          BY <2>2 DEF Enrolled, Current
    <3>2. u \in DOMAIN student => student'[u].year = student[u].year
          BY <2>2, <2>5
    <3>. QED BY <2>2, <2>3, <2>4, <3>1, <3>2, NothingDue, NothingDueNext, EnrolledBeside
  <2>6. ASSUME student'[s].year # student[s].year, Pupil(s) \notin disturbed'
        PROVE  EnrolledTrue(s)'
    <3>1. <<"year", s>> \in unheeded'
          BY <2>2, <2>6
    <3>. QED BY <2>2, <2>3, <2>6, <3>1, NothingDueNext, EnrolledOne
  <2>7. Pupil(s) \in disturbed' => EnrolledTrue(s)'
        BY DEF EnrolledTrue
  <2>. QED BY <2>5, <2>6, <2>7
<1>2. ASSUME enrolled' = enrolled, DOMAIN student' = DOMAIN student,
             \A s \in DOMAIN student : student'[s].year = student[s].year,
             \A s : <<"year", s>> \in unheeded => <<"year", s>> \in unheeded',
             pc[h] \in {"remove", "status", "login", "link"},
             \/ pc'[h] = "idle"
             \/ pc'[h] = "count" /\ req'[h].then # "enrol"
      PROVE  \A s \in Pupils : EnrolledTrue(s)'
      BY <1>2, EnrolledAside
<1>3. CASE Remove(h)
  <2>1. PICK s : \/ UNCHANGED <<student, unheeded>>
                 \/ /\ student' = [student EXCEPT ![s].deleted = TRUE]
                    /\ unheeded \subseteq unheeded'
        BY <1>3 DEF Remove
  <2>2. ASSUME NEW u \in DOMAIN student PROVE student'[u].year = student[u].year
        BY <1>0, <2>1 DEF PupilsTyped, Student
  <2>3. pc[h] = "remove" /\ pc'[h] = "idle" /\ enrolled' = enrolled
        BY <1>3, LandsAfter DEF Remove
  <2>. QED BY <1>2, <2>1, <2>2, <2>3
<1>4. CASE StoreStatus(h)
  <2>1. PICK s, status : /\ student' = [student EXCEPT ![s].status = status]
                         /\ unheeded \subseteq unheeded'
        BY <1>4 DEF StoreStatus
  <2>2. ASSUME NEW u \in DOMAIN student PROVE student'[u].year = student[u].year
        BY <1>0, <2>1 DEF PupilsTyped, Student
  <2>3. pc[h] = "status" /\ pc'[h] = "count" /\ req'[h] = req[h] /\ enrolled' = enrolled
        BY <1>4, LandsAfter DEF StoreStatus
  <2>4. req[h].then = "login"
        BY <1>0, <2>3 DEF Shaped, StatusShaped, Leaving
  <2>. QED BY <1>2, <2>1, <2>2, <2>3, <2>4
<1>5. CASE CloseLogin(h)
  <2>1. /\ pc[h] = "login" /\ pc'[h] = "idle" /\ UNCHANGED <<student, enrolled>>
        /\ \A s : <<"year", s>> \in unheeded => <<"year", s>> \in unheeded'
        BY <1>5, LandsAfter DEF CloseLogin
  <2>. QED BY <1>2, <2>1
<1>6. CASE LinkGuardian(h)
  <2>1. pc[h] = "link" /\ pc'[h] = "idle" /\ UNCHANGED <<student, enrolled, unheeded>>
        BY <1>6, LandsAfter DEF LinkGuardian
  <2>. QED BY <1>2, <2>1
<1>. QED BY <1>1, <1>3, <1>4, <1>5, <1>6


LEMMA EnrolledPromotions ==
    ASSUME Disciplined, PeopleShaped, PeopleShaped', Enrolled, NEW h \in Desks,
           Moves(h, PeopleCalls), CloseEnrolments(h) \/ OpenEnrolment(h) \/ MoveUp(h)
    PROVE  \A s \in Pupils : EnrolledTrue(s)'
<1>0. Shaped(h) /\ PupilsTyped
      BY DEF PeopleShaped
<1>1. PICK y, s : y = req[h].year /\ req[h].pupil = {s} /\ s \in DOMAIN student
                  /\ Pupil(s) \in req[h].claims
  <2>1. pc[h] \in {"close", "reopen", "move up"}
        BY LandsAfter
  <2>. QED BY <1>0, <2>1 DEF Shaped, PromotionShaped, Promoting, OnFile
<1>2. ASSUME NEW u \in Pupils, u # s, pc[h] \in {"close", "reopen", "move up"},
             Current(u)' = Current(u), DOMAIN student' = DOMAIN student,
             u \in DOMAIN student => student'[u] = student[u],
             <<"year", u>> \in unheeded => <<"year", u>> \in unheeded',
             \/ pc'[h] \in {"idle", "promote"}
             \/ pc'[h] \in {"reopen", "move up"} /\ req'[h].pupil = {s}
      PROVE  EnrolledTrue(u)'
  <2>0. {s} # {u}
        BY <1>2
  <2>1. ~ToEnrol(h, u)' /\ ~Reopening(h, u)' /\ ~MovingUp(h, u)'
        BY <1>2, <2>0 DEF ToEnrol, Reopening, MovingUp, Counting
  <2>2. ~EnrolmentDue(h, u)
        BY <1>1, <1>2, <2>0 DEF ToEnrol, Reopening, MovingUp, EnrolmentDue, Counting
  <2>. QED BY <1>2, <2>1, <2>2, EnrolledBeside DEF Enrolled
<1>3. Pupil(s) \in disturbed' => EnrolledTrue(s)'
      BY DEF EnrolledTrue
<1>4. Pupil(s) \notin disturbed' => Pupil(s) \notin disturbed /\ EnrolledTrue(s)
      BY <1>0, <1>1 DEF Moves, Enrolled, PupilsTyped
<1>5. CASE CloseEnrolments(h)
  <2>1. /\ pc[h] = "close" /\ pc'[h] = "reopen" /\ req'[h] = req[h]
        /\ UNCHANGED <<student, unheeded>>
        BY <1>5, LandsAfter DEF CloseEnrolments
  <2>2. enrolled' = [e \in DOMAIN enrolled |-> enrolled[e] /\ e \notin Closes(s, y)]
        BY <1>1, <1>5 DEF CloseEnrolments
  <2>3. /\ DOMAIN enrolled' = DOMAIN enrolled
        /\ \A e \in DOMAIN enrolled :
             enrolled'[e] <=> enrolled[e] /\ ~(e[1] = s /\ enrolled[e])
        BY <2>2 DEF Closes
  <2>4. ASSUME NEW u \in Pupils, u # s PROVE Current(u)' = Current(u)
    <3>1. \A e : e \in Current(u)' <=> e \in Current(u)
          BY <2>3, <2>4 DEF Current
    <3>. QED BY <3>1
  <2>5. Current(s)' = {}
        BY <2>3 DEF Current
  <2>6. Reopening(h, s)' /\ ~ToEnrol(h, s)' /\ ~MovingUp(h, s)'
        BY <1>1, <2>1 DEF Reopening, ToEnrol, MovingUp, Counting
  <2>7. Pupil(s) \notin disturbed' => EnrolledTrue(s)'
        BY <1>1, <2>5, <2>6, EnrolledOne DEF EnrolmentDue
  <2>. QED BY <1>1, <1>2, <1>3, <2>1, <2>4, <2>7
<1>6. CASE OpenEnrolment(h)
  <2>1. PICK e : e = <<s, y>>
        OBVIOUS
  <2>2. /\ pc[h] = "reopen" /\ student' = student /\ unheeded \subseteq unheeded'
        /\ \/ BreakOff(h, {Pupil(s)}) /\ enrolled' = enrolled
           \/ /\ Goto(h, "move up") /\ enrolled' = With(enrolled, e, TRUE)
              /\ unheeded' = unheeded
        BY <1>1, <1>6, <2>1 DEF OpenEnrolment
  <2>3. CASE BreakOff(h, {Pupil(s)}) /\ enrolled' = enrolled
    <3>1. pc'[h] = "idle" /\ Pupil(s) \in disturbed'
          BY <2>3, Breaks
    <3>2. \A u : Current(u)' = Current(u)
          BY <2>3 DEF Current
    <3>. QED BY <1>2, <1>3, <2>2, <3>1, <3>2
  <2>4. CASE Goto(h, "move up") /\ enrolled' = With(enrolled, e, TRUE)
    <3>1. pc'[h] = "move up" /\ req'[h] = req[h]
          BY <2>4, GoesTo
    <3>2. /\ DOMAIN enrolled' = DOMAIN enrolled \cup {e} /\ enrolled'[e] = TRUE
          /\ \A d \in DOMAIN enrolled \ {e} : enrolled'[d] = enrolled[d]
          BY <2>4 DEF With
    <3>3. ASSUME NEW u \in Pupils, u # s PROVE Current(u)' = Current(u)
      <4>1. e[1] # u
            BY <2>1, <3>3
      <4>2. \A d : d \in Current(u)' <=> d \in Current(u)
            BY <3>2, <4>1 DEF Current
      <4>. QED BY <4>2
    <3>4. ASSUME Pupil(s) \notin disturbed' PROVE EnrolledTrue(s)'
      <4>1. Reopening(h, s)
            BY <1>1, <2>2 DEF Reopening
      <4>2. Current(s) = {}
            BY <1>4, <3>4, <4>1 DEF EnrolledTrue
      <4>3. \A d \in DOMAIN enrolled : ~(d[1] = s /\ enrolled[d])
            BY <4>2 DEF Current
      <4>4. e \in Current(s)' /\ \A d \in Current(s)' : d = e
            BY <2>1, <3>2, <4>3 DEF Current
      <4>5. Current(s)' = {<<s, req'[h].year>>}
            BY <1>1, <2>1, <3>1, <4>4
      <4>6. MovingUp(h, s)' /\ ~ToEnrol(h, s)' /\ ~Reopening(h, s)'
            BY <1>1, <3>1 DEF Reopening, ToEnrol, MovingUp, Counting
      <4>. QED BY <1>1, <3>4, <4>5, <4>6, EnrolledOne DEF EnrolmentDue
    <3>. QED BY <1>1, <1>2, <1>3, <2>2, <3>1, <3>3, <3>4
  <2>. QED BY <2>2, <2>3, <2>4
<1>7. CASE MoveUp(h)
  <2>1. pc[h] = "move up" /\ pc'[h] = "promote" /\ enrolled' = enrolled
        BY <1>7, LandsAfter DEF MoveUp
  <2>2. PICK x, other :
          /\ student' = [student EXCEPT ![s].section = x, ![s].year = y]
          /\ unheeded' = (unheeded \ {<<"year", s>>}) \cup other
        BY <1>1, <1>7 DEF MoveUp
  <2>3. /\ DOMAIN student' = DOMAIN student /\ student'[s].year = y
        /\ \A u \in DOMAIN student \ {s} : student'[u] = student[u]
    <3>1. student[s] \in Student /\ student'[s] = [student[s] EXCEPT !.section = x, !.year = y]
          BY <1>0, <1>1, <2>2 DEF PupilsTyped
    <3>. QED BY <2>2, <3>1 DEF Student
  <2>4. ASSUME NEW u, u # s, <<"year", u>> \in unheeded PROVE <<"year", u>> \in unheeded'
        BY <2>2, <2>4
  <2>5. \A u : Current(u)' = Current(u)
        BY <2>1 DEF Current
  <2>6. ASSUME Pupil(s) \notin disturbed' PROVE EnrolledTrue(s)'
    <3>1. MovingUp(h, s)
          BY <1>1, <2>1 DEF MovingUp
    <3>2. Current(s) = {<<s, y>>}
          BY <1>1, <1>4, <2>6, <3>1 DEF EnrolledTrue
    <3>3. Current(s)' = {<<s, student'[s].year>>}
          BY <2>3, <2>5, <3>2
    <3>4. OwesNoEnrolment(h)'
          BY <2>1 DEF OwesNoEnrolment, Counting
    <3>. QED BY <1>1, <2>6, <3>3, <3>4, NothingDueNext, EnrolledOne
  <2>. QED BY <1>2, <1>3, <2>1, <2>3, <2>4, <2>5, <2>6
<1>. QED BY <1>5, <1>6, <1>7

LEMMA EnrolledSound ==
    ASSUME Disciplined, PeopleShaped, PeopleShaped', Enrolled, [Next]_vars
    PROVE  Enrolled'
<1>1. ASSUME NEW h \in Desks, PeopleStep(h) PROVE Enrolled'
  <2>1. Moves(h, PeopleCalls)
        BY <1>1, PeopleMoves
  <2>2. Newcomers'
        BY <1>1, <2>1, NewcomersStay DEF Enrolled
  <2>3. \A s \in Pupils : EnrolledTrue(s)'
        BY <1>1, <2>1, EnrolledArrivals, EnrolledCounts, EnrolledAdmissions,
           EnrolledEdits, EnrolledPromotions DEF PeopleStep, PeopleResume
  <2>. QED BY <2>2, <2>3 DEF Enrolled
<1>2. CASE ~\E h \in Desks : PeopleStep(h)
      BY <1>2, NextPasses, EnrolledPassed DEF NextIsTheirs
<1>. QED BY <1>1, <1>2


LEMMA EnrolledAlways == Spec => [](Disciplined /\ PeopleShaped /\ Enrolled)
<1>1. Init => Disciplined /\ PeopleShaped /\ Enrolled
      BY DisciplineStarts, PeopleStart, EnrolledStart
<1>2. Disciplined /\ PeopleShaped /\ Enrolled /\ [Next]_vars
        => (Disciplined /\ PeopleShaped /\ Enrolled)'
      BY DisciplineKept, PeopleKeepsShape, EnrolledSound
<1>. QED BY <1>1, <1>2, PTL DEF Spec

\* A pupil that no request is about, and none that failed was, has one active
\* enrolment, the one of the year on the record, unless an edit changed that
\* year: however admissions, edits and promotions of mixed cohorts interleave.
THEOREM EnrolledOnce == Spec => []OneEnrolment
<1>1. ASSUME PeopleShaped, Enrolled, NEW s \in DOMAIN student,
             Calm(Pupil(s)), <<"year", s>> \notin unheeded
      PROVE  Current(s) = {<<s, student[s].year>>}
  <2>1. \A h \in Desks : ~EnrolmentDue(h, s)
        BY <1>1, DueIsClaimed DEF Calm
  <2>2. s \in Pupils
        BY <1>1 DEF PeopleShaped, PupilsTyped
  <2>. QED BY <1>1, <2>1, <2>2 DEF Calm, Enrolled, EnrolledTrue
<1>2. PeopleShaped /\ Enrolled => OneEnrolment
      BY <1>1 DEF OneEnrolment, Current
<1>. QED BY <1>2, EnrolledAlways, PTL

-----------------------------------------------------------------------------
(* What follows a pupil's record: the login, closed a call after the       *)
(* status is stored and counted, and the guardians, of whom one side is    *)
(* written a call before the other.                                        *)

\* The status is stored, the login still to be closed.
Retiring(h, s) == /\ \/ pc[h] = "login"
                     \/ pc[h] \in Counting /\ req[h].then = "login"
                  /\ req[h].pupil = s

\* Inserted, and the admission goes on; of that, the part up to the guardians.
Joining(h, s) ==
    /\ \/ pc[h] \in {"insert guardian", "file guardians", "enrol", "open login"}
       \/ pc[h] \in Counting /\ req[h].then = "enrol"
    /\ req[h].pupil = s
Filing(h, s) == pc[h] \in {"insert guardian", "file guardians"} /\ req[h].pupil = s

TendedTrue(s) ==
    Pupil(s) \notin disturbed =>
      /\ \A h \in Desks :
           /\ Retiring(h, s) => student[s].status = req[h].status
           /\ Joining(h, s) => student[s].status = "active"
           /\ Filing(h, s) => student[s].guardians = {}
      /\ s \in DOMAIN student /\ <<"status", s>> \notin unheeded
         /\ (\A h \in Desks : ~Retiring(h, s)) /\ student[s].status # "active" =>
           login[s] # "open"

\* A guardian the admission of s brings; one it has brought or will before it
\* files them; one being linked.
Brings(h, s, g)  == Newly(h, s) /\ g \in req[h].family
Introduces(h, s, g)   == Filing(h, s) /\ g \in req[h].family
Linking(h, s, g) == pc[h] = "link" /\ req[h].pupil = s /\ req[h].guardian = g

Kin(s, g) == g \in student[s].guardians <=> s \in wards[g]

KinTrue(s, g) ==
    Pupil(s) \notin disturbed /\ Guardian(g) \notin disturbed =>
      /\ \A h \in Desks :
           /\ Brings(h, s, g) => g \notin DOMAIN wards
           /\ Introduces(h, s, g) /\ g \in DOMAIN wards => s \in wards[g]
           /\ Linking(h, s, g) => g \in student[s].guardians
      /\ s \in DOMAIN student /\ g \in DOMAIN wards /\ <<"guardians", s>> \notin unheeded
         /\ (\A h \in Desks : ~Introduces(h, s, g) /\ ~Linking(h, s, g)) => Kin(s, g)

Tended == \A s \in Pupils : TendedTrue(s) /\ \A g \in Guardians : KinTrue(s, g)

-----------------------------------------------------------------------------
LEMMA TendedStart == ASSUME Init PROVE Tended
<1>1. /\ pc = [h \in Desks |-> "idle"]
      /\ student = [s \in There |-> [section |-> Home, year |-> ThisYear,
                      deleted |-> FALSE, status |-> "active", guardians |-> {}]]
      /\ DOMAIN wards = {}
      BY DEF Init, PeopleInit, RequestsInit
<1>2. \A s \in DOMAIN student : student[s].status = "active"
      BY <1>1
<1>3. ASSUME NEW s \in Pupils PROVE TendedTrue(s)
      BY <1>1, <1>2 DEF TendedTrue, Retiring, Joining, Filing, Counting
<1>4. ASSUME NEW s \in Pupils, NEW g \in Guardians PROVE KinTrue(s, g)
      BY <1>1 DEF KinTrue, Brings, Introduces, Linking, Newly, Filing
<1>. QED BY <1>3, <1>4 DEF Tended

\* What is due to a pupil, and to a guardian, is claimed.
LEMMA TendingIsClaimed ==
    ASSUME PeopleShaped, NEW h \in Desks, NEW s
    PROVE  /\ Retiring(h, s) \/ Joining(h, s) \/ Filing(h, s) \/ Newly(h, s) =>
                Pupil(s) \in req[h].claims /\ pc[h] \in PeopleCalls
           /\ \A g : Brings(h, s, g) \/ Introduces(h, s, g) \/ Linking(h, s, g) =>
                /\ Pupil(s) \in req[h].claims /\ Guardian(g) \in req[h].claims
                /\ pc[h] \in PeopleCalls
           /\ \A g : Linking(h, s, g) => g \in DOMAIN wards
           /\ Retiring(h, s) \/ Joining(h, s) \/ Filing(h, s) => s \in DOMAIN student
<1>1. Shaped(h)
      BY DEF PeopleShaped
<1>2. ASSUME Retiring(h, s)
      PROVE  Pupil(s) \in req[h].claims /\ pc[h] \in PeopleCalls /\ s \in DOMAIN student
      BY <1>1, <1>2 DEF Retiring, Shaped, StatusShaped, Leaving, OnFile, Counting,
                        PeopleCalls
<1>3. ASSUME Joining(h, s) \/ Filing(h, s)
      PROVE  Pupil(s) \in req[h].claims /\ pc[h] \in PeopleCalls /\ s \in DOMAIN student
      BY <1>1, <1>3 DEF Joining, Filing, Shaped, AdmissionShaped, Admitting, Counting,
                        PeopleCalls
<1>4. ASSUME Newly(h, s)
      PROVE  Pupil(s) \in req[h].claims /\ pc[h] \in PeopleCalls
      BY <1>4, DueIsClaimed
<1>5. ASSUME NEW g, Brings(h, s, g) \/ Introduces(h, s, g)
      PROVE  Guardian(g) \in req[h].claims
      BY <1>1, <1>5 DEF Brings, Introduces, Newly, Filing, Shaped, AdmissionShaped, Admitting
<1>6. ASSUME NEW g, Linking(h, s, g)
      PROVE  /\ Pupil(s) \in req[h].claims /\ Guardian(g) \in req[h].claims
             /\ pc[h] \in PeopleCalls /\ g \in DOMAIN wards
      BY <1>1, <1>6 DEF Linking, Shaped, LinkShaped, OnFile, PeopleCalls
<1>7. \A g : Brings(h, s, g) \/ Introduces(h, s, g) => Newly(h, s) \/ Filing(h, s)
      BY DEF Brings, Introduces
<1>. QED BY <1>2, <1>3, <1>4, <1>5, <1>6, <1>7

\* What a step of desk h is about and nobody disturbed, no other desk is.
LEMMA AloneAt ==
    ASSUME Disciplined, Disciplined', NEW h \in Desks, Moves(h, PeopleCalls),
           NEW k \in Desks, k # h, NEW c, c \in req[h].claims \cup req'[h].claims,
           c \notin disturbed'
    PROVE  c \notin req[k].claims /\ c \notin req'[k].claims
BY DEF Disciplined, Apart, Moves

LEMMA OthersStay ==
    ASSUME Disciplined, NEW h \in Desks, Moves(h, PeopleCalls), NEW k \in Desks, k # h
    PROVE  /\ pc'[k] = pc[k] /\ req'[k] = req[k]
           /\ \A s : /\ Retiring(k, s)' <=> Retiring(k, s)
                     /\ Joining(k, s)' <=> Joining(k, s)
                     /\ Filing(k, s)' <=> Filing(k, s)
                     /\ \A g : /\ Brings(k, s, g)' <=> Brings(k, s, g)
                               /\ Introduces(k, s, g)' <=> Introduces(k, s, g)
                               /\ Linking(k, s, g)' <=> Linking(k, s, g)
<1>1. pc'[k] = pc[k] /\ req'[k] = req[k]
      BY DEF Moves, Disciplined
<1>. QED BY <1>1 DEF Retiring, Joining, Filing, Brings, Introduces, Linking, Newly

\* A pupil whose record, login and what is due a step of h leaves alone.
LEMMA TendedBeside ==
    ASSUME Disciplined, NEW h \in Desks, Moves(h, PeopleCalls), PeopleShaped',
           NEW s, TendedTrue(s), login'[s] = login[s],
           s \in DOMAIN student' => /\ s \in DOMAIN student
                                    /\ student'[s].status = student[s].status
                                    /\ student'[s].guardians = student[s].guardians,
           <<"status", s>> \in unheeded => <<"status", s>> \in unheeded',
           Retiring(h, s)' => Retiring(h, s) /\ req'[h].status = req[h].status,
           Joining(h, s)' => Joining(h, s), Filing(h, s)' => Filing(h, s),
           Retiring(h, s) => Retiring(h, s)' \/ Pupil(s) \in disturbed'
    PROVE  TendedTrue(s)'
<1>1. disturbed \subseteq disturbed'
      BY DEF Moves
<1>2. ASSUME NEW k \in Desks
      PROVE  /\ Retiring(k, s)' => Retiring(k, s) /\ req'[k].status = req[k].status
             /\ Joining(k, s)' => Joining(k, s)
             /\ Filing(k, s)' => Filing(k, s)
             /\ Retiring(k, s) => Retiring(k, s)' \/ Pupil(s) \in disturbed'
      BY OthersStay
<1>3. ASSUME NEW k \in Desks, (Retiring(k, s) \/ Joining(k, s) \/ Filing(k, s))'
      PROVE  s \in DOMAIN student'
  <2>1. Shaped(k)'
        BY DEF PeopleShaped
  <2>. QED BY <1>3, <2>1 DEF Retiring, Joining, Filing, Counting, Shaped, AdmissionShaped,
                             Admitting, StatusShaped, Leaving, OnFile
<1>4. ASSUME Pupil(s) \notin disturbed', NEW k \in Desks
      PROVE  /\ Retiring(k, s)' => student'[s].status = req'[k].status
             /\ Joining(k, s)' => student'[s].status = "active"
             /\ Filing(k, s)' => student'[s].guardians = {}
      BY <1>1, <1>2, <1>3, <1>4 DEF TendedTrue
<1>5. ASSUME Pupil(s) \notin disturbed', s \in DOMAIN student', <<"status", s>> \notin unheeded',
             \A k \in Desks : ~Retiring(k, s)', student'[s].status # "active"
      PROVE  login'[s] # "open"
      BY <1>1, <1>2, <1>5 DEF TendedTrue
<1>. QED BY <1>4, <1>5 DEF TendedTrue

\* One that it is about.
LEMMA TendedOne ==
    ASSUME Disciplined, Disciplined', PeopleShaped', NEW h \in Desks, Moves(h, PeopleCalls),
           NEW s, Pupil(s) \in req[h].claims \cup req'[h].claims, Pupil(s) \notin disturbed',
           Retiring(h, s)' => student'[s].status = req'[h].status,
           Joining(h, s)' => student'[s].status = "active",
           Filing(h, s)' => student'[s].guardians = {},
           s \in DOMAIN student' /\ <<"status", s>> \notin unheeded'
             /\ ~Retiring(h, s)' /\ student'[s].status # "active" => login'[s] # "open"
    PROVE  TendedTrue(s)'
<1>1. ASSUME NEW k \in Desks, k # h
      PROVE  ~Retiring(k, s)' /\ ~Joining(k, s)' /\ ~Filing(k, s)'
  <2>1. Pupil(s) \notin req'[k].claims
        BY <1>1, AloneAt
  <2>2. Shaped(k)'
        BY DEF PeopleShaped
  <2>. QED BY <2>1, <2>2 DEF Retiring, Joining, Filing, Counting, Shaped, AdmissionShaped,
                             Admitting, StatusShaped, Leaving, OnFile
<1>. QED BY <1>1 DEF TendedTrue

LEMMA KinBeside ==
    ASSUME Disciplined, NEW h \in Desks, Moves(h, PeopleCalls), PeopleShaped,
           NEW s, NEW g, KinTrue(s, g),
           s \in DOMAIN student' => /\ s \in DOMAIN student
                                    /\ student'[s].guardians = student[s].guardians,
           s \in DOMAIN student => s \in DOMAIN student',
           g \in DOMAIN wards' => g \in DOMAIN wards /\ (s \in wards'[g] <=> s \in wards[g]),
           <<"guardians", s>> \in unheeded => <<"guardians", s>> \in unheeded',
           Brings(h, s, g)' => Brings(h, s, g) \/ g \notin DOMAIN wards,
           Introduces(h, s, g)' => Introduces(h, s, g), Linking(h, s, g)' => Linking(h, s, g),
           Introduces(h, s, g) => \/ Introduces(h, s, g)'
                             \/ Pupil(s) \in disturbed' \/ Guardian(g) \in disturbed',
           Linking(h, s, g) => Linking(h, s, g)'
    PROVE  KinTrue(s, g)'
<1>1. disturbed \subseteq disturbed'
      BY DEF Moves
<1>2. ASSUME NEW k \in Desks
      PROVE  /\ Brings(k, s, g)' => Brings(k, s, g) \/ g \notin DOMAIN wards
             /\ Introduces(k, s, g)' => Introduces(k, s, g)
             /\ Linking(k, s, g)' => Linking(k, s, g)
             /\ Introduces(k, s, g) => \/ Introduces(k, s, g)'
                                  \/ Pupil(s) \in disturbed' \/ Guardian(g) \in disturbed'
             /\ Linking(k, s, g) => Linking(k, s, g)'
      BY OthersStay
<1>3. ASSUME NEW k \in Desks, Linking(k, s, g) PROVE s \in DOMAIN student'
  <2>1. Shaped(k)
        BY DEF PeopleShaped
  <2>. QED BY <1>3, <2>1 DEF Linking, Shaped, LinkShaped, OnFile
<1>4. ASSUME Pupil(s) \notin disturbed', Guardian(g) \notin disturbed', NEW k \in Desks
      PROVE  /\ Brings(k, s, g)' => g \notin DOMAIN wards'
             /\ Introduces(k, s, g)' /\ g \in DOMAIN wards' => s \in wards'[g]
             /\ Linking(k, s, g)' => g \in student'[s].guardians
      BY <1>1, <1>2, <1>3, <1>4 DEF KinTrue
<1>5. ASSUME Pupil(s) \notin disturbed', Guardian(g) \notin disturbed',
             s \in DOMAIN student', g \in DOMAIN wards', <<"guardians", s>> \notin unheeded',
             \A k \in Desks : ~Introduces(k, s, g)' /\ ~Linking(k, s, g)'
      PROVE  Kin(s, g)'
      BY <1>1, <1>2, <1>5 DEF KinTrue, Kin
<1>. QED BY <1>4, <1>5 DEF KinTrue

LEMMA KinOne ==
    ASSUME Disciplined, Disciplined', PeopleShaped', NEW h \in Desks, Moves(h, PeopleCalls),
           NEW s, NEW g, Pupil(s) \notin disturbed', Guardian(g) \notin disturbed',
           \/ Pupil(s) \in req[h].claims \cup req'[h].claims
           \/ Guardian(g) \in req[h].claims \cup req'[h].claims,
           Brings(h, s, g)' => g \notin DOMAIN wards',
           Introduces(h, s, g)' /\ g \in DOMAIN wards' => s \in wards'[g],
           Linking(h, s, g)' => g \in student'[s].guardians,
           s \in DOMAIN student' /\ g \in DOMAIN wards' /\ <<"guardians", s>> \notin unheeded'
             /\ ~Introduces(h, s, g)' /\ ~Linking(h, s, g)' => Kin(s, g)'
    PROVE  KinTrue(s, g)'
<1>1. ASSUME NEW k \in Desks, k # h
      PROVE  ~Brings(k, s, g)' /\ ~Introduces(k, s, g)' /\ ~Linking(k, s, g)'
  <2>1. Pupil(s) \notin req'[k].claims \/ Guardian(g) \notin req'[k].claims
        BY <1>1, AloneAt
  <2>2. Shaped(k)'
        BY DEF PeopleShaped
  <2>. QED BY <2>1, <2>2 DEF Brings, Introduces, Linking, Newly, Filing, Shaped, AdmissionShaped,
                             Admitting, LinkShaped, OnFile
<1>. QED BY <1>1 DEF KinTrue


LEMMA TendedPassed ==
    ASSUME Disciplined, PeopleShaped, Tended, Passes(PeopleCalls), UNCHANGED people
    PROVE  Tended'
<1>1. /\ UNCHANGED <<student, wards, login, unheeded>> /\ disturbed \subseteq disturbed'
      BY DEF people, Passes
<1>2. ASSUME NEW h \in Desks, NEW s
      PROVE  /\ Retiring(h, s)' => Retiring(h, s) /\ req'[h] = req[h]
             /\ Joining(h, s)' => Joining(h, s)
             /\ Filing(h, s)' => Filing(h, s)
             /\ \A g : /\ Brings(h, s, g)' => Brings(h, s, g)
                       /\ Introduces(h, s, g)' => Introduces(h, s, g)
                       /\ Linking(h, s, g)' => Linking(h, s, g)
  <2>1. CASE pc'[h] \in PeopleCalls
    <3>1. pc'[h] = pc[h] /\ req'[h] = req[h]
          BY <2>1 DEF Passes
    <3>. QED BY <3>1 DEF Retiring, Joining, Filing, Brings, Introduces, Linking, Newly
  <2>2. CASE pc'[h] \notin PeopleCalls
        BY <2>2 DEF Retiring, Joining, Filing, Brings, Introduces, Linking, Newly,
                    PeopleCalls, Counting
  <2>. QED BY <2>1, <2>2
<1>3. ASSUME NEW h \in Desks, NEW s, Pupil(s) \notin disturbed'
      PROVE  /\ Retiring(h, s) => Retiring(h, s)'
             /\ \A g : /\ Introduces(h, s, g) => Introduces(h, s, g)'
                       /\ Linking(h, s, g) => Linking(h, s, g)'
  <2>1. CASE pc[h] \in PeopleCalls /\ Pupil(s) \in req[h].claims
    <3>1. pc'[h] = pc[h] /\ req'[h] = req[h]
          BY <1>3, <2>1 DEF Passes
    <3>. QED BY <3>1 DEF Retiring, Filing, Introduces, Linking
  <2>. QED BY <2>1, TendingIsClaimed
<1>4. ASSUME NEW s \in Pupils PROVE TendedTrue(s)'
  <2>1. TendedTrue(s)
        BY DEF Tended
  <2>2. \A h \in Desks : /\ Retiring(h, s)' => Retiring(h, s) /\ req'[h] = req[h]
                         /\ Joining(h, s)' => Joining(h, s)
                         /\ Filing(h, s)' => Filing(h, s)
                         /\ Pupil(s) \notin disturbed' => (Retiring(h, s) => Retiring(h, s)')
        BY <1>2, <1>3
  <2>. QED BY <1>1, <2>1, <2>2 DEF TendedTrue
<1>5. ASSUME NEW s \in Pupils, NEW g \in Guardians PROVE KinTrue(s, g)'
  <2>1. KinTrue(s, g)
        BY DEF Tended
  <2>2. \A h \in Desks :
          /\ Brings(h, s, g)' => Brings(h, s, g)
          /\ Introduces(h, s, g)' => Introduces(h, s, g)
          /\ Linking(h, s, g)' => Linking(h, s, g)
          /\ Pupil(s) \notin disturbed' => /\ Introduces(h, s, g) => Introduces(h, s, g)'
                                           /\ Linking(h, s, g) => Linking(h, s, g)'
        BY <1>2, <1>3
  <2>3. Kin(s, g)' <=> Kin(s, g)
        BY <1>1 DEF Kin
  <2>. QED BY <1>1, <2>1, <2>2, <2>3 DEF KinTrue
<1>. QED BY <1>4, <1>5 DEF Tended

\* A step that touches no login, no guardian, no status and nothing due.
LEMMA TendedQuiet ==
    ASSUME Disciplined, PeopleShaped, PeopleShaped', Tended, NEW h \in Desks,
           Moves(h, PeopleCalls), UNCHANGED <<wards, login>>,
           DOMAIN student' = DOMAIN student,
           \A s \in DOMAIN student : /\ student'[s].status = student[s].status
                                     /\ student'[s].guardians = student[s].guardians,
           \A s : /\ <<"status", s>> \in unheeded => <<"status", s>> \in unheeded'
                  /\ <<"guardians", s>> \in unheeded => <<"guardians", s>> \in unheeded',
           \A s : /\ Retiring(h, s)' => Retiring(h, s) /\ req'[h].status = req[h].status
                  /\ Joining(h, s)' => Joining(h, s)
                  /\ Filing(h, s)' => Filing(h, s)
                  /\ Retiring(h, s) => Retiring(h, s)' \/ Pupil(s) \in disturbed',
           \A s, g : /\ Brings(h, s, g)' => Brings(h, s, g) \/ g \notin DOMAIN wards
                     /\ Introduces(h, s, g)' <=> Introduces(h, s, g)
                     /\ Linking(h, s, g)' <=> Linking(h, s, g)
    PROVE  \A s \in Pupils : TendedTrue(s)' /\ \A g \in Guardians : KinTrue(s, g)'
<1>1. ASSUME NEW s \in Pupils PROVE TendedTrue(s)'
  <2>1. TendedTrue(s)
        BY DEF Tended
  <2>. QED BY <2>1, TendedBeside
<1>2. ASSUME NEW s \in Pupils, NEW g \in Guardians PROVE KinTrue(s, g)'
  <2>1. KinTrue(s, g)
        BY DEF Tended
  <2>. QED BY <2>1, KinBeside
<1>. QED BY <1>1, <1>2

\* No login and no guardian is due from a desk at any other call.
OwesNoTending(h) ==
    /\ pc[h] \notin {"seat", "insert student", "insert guardian", "file guardians",
                     "enrol", "open login", "login", "link"}
    /\ pc[h] \in Counting => req[h].then = "idle"

LEMMA NoTending ==
    ASSUME NEW h, OwesNoTending(h)
    PROVE  \A s : /\ ~Retiring(h, s) /\ ~Joining(h, s) /\ ~Filing(h, s)
                  /\ \A g : ~Brings(h, s, g) /\ ~Introduces(h, s, g) /\ ~Linking(h, s, g)
BY DEF OwesNoTending, Retiring, Joining, Filing, Brings, Introduces, Linking, Newly

LEMMA NoTendingNext ==
    ASSUME NEW h, OwesNoTending(h)'
    PROVE  \A s : /\ ~Retiring(h, s)' /\ ~Joining(h, s)' /\ ~Filing(h, s)'
                  /\ \A g : ~Brings(h, s, g)' /\ ~Introduces(h, s, g)' /\ ~Linking(h, s, g)'
BY DEF OwesNoTending, Retiring, Joining, Filing, Brings, Introduces, Linking, Newly

LEMMA TendedAside ==
    ASSUME Disciplined, PeopleShaped, PeopleShaped', Tended, NEW h \in Desks,
           Moves(h, PeopleCalls), UNCHANGED <<wards, login>>,
           DOMAIN student' = DOMAIN student,
           \A s \in DOMAIN student : /\ student'[s].status = student[s].status
                                     /\ student'[s].guardians = student[s].guardians,
           \A s : /\ <<"status", s>> \in unheeded => <<"status", s>> \in unheeded'
                  /\ <<"guardians", s>> \in unheeded => <<"guardians", s>> \in unheeded',
           OwesNoTending(h), OwesNoTending(h)'
    PROVE  \A s \in Pupils : TendedTrue(s)' /\ \A g \in Guardians : KinTrue(s, g)'
<1>1. \A s : /\ Retiring(h, s)' => Retiring(h, s) /\ req'[h].status = req[h].status
             /\ Joining(h, s)' => Joining(h, s)
             /\ Filing(h, s)' => Filing(h, s)
             /\ Retiring(h, s) => Retiring(h, s)' \/ Pupil(s) \in disturbed'
      BY NoTending, NoTendingNext
<1>2. \A s, g : /\ Brings(h, s, g)' => Brings(h, s, g) \/ g \notin DOMAIN wards
                /\ Introduces(h, s, g)' <=> Introduces(h, s, g)
                /\ Linking(h, s, g)' <=> Linking(h, s, g)
      BY NoTending, NoTendingNext
<1>. QED BY <1>1, <1>2, TendedQuiet


LEMMA TendedArrivals ==
    ASSUME Disciplined, Disciplined', PeopleShaped, PeopleShaped', Tended, NEW h \in Desks,
           Moves(h, PeopleCalls), PeopleArrive(h)
    PROVE  \A s \in Pupils : TendedTrue(s)' /\ \A g \in Guardians : KinTrue(s, g)'
<1>. USE DEF OwesNoTending, Counting
<1>0. ASSUME UNCHANGED people, pc[h] = "idle", OwesNoTending(h)'
      PROVE  \A s \in Pupils : TendedTrue(s)' /\ \A g \in Guardians : KinTrue(s, g)'
      BY <1>0, TendedAside DEF people
<1>1. ASSUME NEW s, NEW x, NEW family, NEW signs, BeginAdmission(h, s, x, family, signs)
      PROVE  \A u \in Pupils : TendedTrue(u)' /\ \A g \in Guardians : KinTrue(u, g)'
  <2>1. /\ UNCHANGED people /\ pc[h] = "idle" /\ pc'[h] = "seat"
        /\ req'[h].family = family /\ \A g \in family : g \notin DOMAIN wards
        BY <1>1, AdmissionBegins
  <2>2. UNCHANGED <<student, wards, login, unheeded>>
        BY <2>1 DEF people
  <2>3. \A u : /\ ~Retiring(h, u)' /\ ~Joining(h, u)' /\ ~Filing(h, u)' /\ ~Retiring(h, u)
               /\ \A g : /\ Brings(h, u, g)' => g \notin DOMAIN wards
                         /\ ~Introduces(h, u, g)' /\ ~Linking(h, u, g)'
                         /\ ~Introduces(h, u, g) /\ ~Linking(h, u, g)
        BY <2>1 DEF Retiring, Joining, Filing, Brings, Introduces, Linking
  <2>. QED BY <2>2, <2>3, TendedQuiet
<1>2. ASSUME NEW op, NEW s, NEW field, NEW value, BeginEdit(h, op, s, field, value)
      PROVE  \A u \in Pupils : TendedTrue(u)' /\ \A g \in Guardians : KinTrue(u, g)'
      BY <1>0, <1>2, EditBegins
<1>3. ASSUME NEW cohort, NEW x, NEW y, BeginPromotion(h, cohort, x, y)
      PROVE  \A u \in Pupils : TendedTrue(u)' /\ \A g \in Guardians : KinTrue(u, g)'
      BY <1>0, <1>3, PromotionBegins
<1>4. ASSUME NEW s, NEW status, BeginStatus(h, s, status)
      PROVE  \A u \in Pupils : TendedTrue(u)' /\ \A g \in Guardians : KinTrue(u, g)'
      BY <1>0, <1>4, StatusBegins
<1>5. ASSUME NEW s, BeginRemoval(h, s)
      PROVE  \A u \in Pupils : TendedTrue(u)' /\ \A g \in Guardians : KinTrue(u, g)'
      BY <1>0, <1>5, RemovalBegins
<1>6. ASSUME NEW s, Restore(h, s)
      PROVE  \A u \in Pupils : TendedTrue(u)' /\ \A g \in Guardians : KinTrue(u, g)'
  <2>1. /\ pc[h] = "idle" /\ pc' = pc /\ s \in DOMAIN student
        /\ student' = [student EXCEPT ![s].deleted = FALSE] /\ unheeded \subseteq unheeded'
        /\ UNCHANGED <<wards, login>>
        BY <1>6, Restores
  <2>2. ASSUME NEW u \in DOMAIN student
        PROVE  /\ student'[u].status = student[u].status
               /\ student'[u].guardians = student[u].guardians
        BY <2>1 DEF PeopleShaped, PupilsTyped, Student
  <2>. QED BY <2>1, <2>2, TendedAside
<1>7. ASSUME NEW s, NEW g, LinkChild(h, s, g)
      PROVE  \A u \in Pupils : TendedTrue(u)' /\ \A k \in Guardians : KinTrue(u, k)'
  <2>1. /\ pc[h] = "idle" /\ pc'[h] = "link" /\ s \in DOMAIN student /\ g \in DOMAIN wards
        /\ req'[h].pupil = s /\ req'[h].guardian = g
        /\ req'[h].claims = {Pupil(s), Guardian(g)}
        /\ student' = [student EXCEPT ![s].guardians = student[s].guardians \cup {g}]
        /\ UNCHANGED <<wards, login, unheeded>>
        BY <1>7, LinkBegins
  <2>2. PICK new : new = student[s].guardians \cup {g}
        OBVIOUS
  <2>3. /\ DOMAIN student' = DOMAIN student
        /\ \A u \in DOMAIN student :
             /\ student'[u].status = student[u].status
             /\ u # s => student'[u].guardians = student[u].guardians
        /\ student'[s].guardians = new
    <3>1. DOMAIN student' = DOMAIN student
          BY <2>1
    <3>2. ASSUME NEW u \in DOMAIN student
          PROVE  /\ student'[u].status = student[u].status
                 /\ u # s => student'[u].guardians = student[u].guardians
                 /\ u = s => student'[u].guardians = new
          BY <2>1, <2>2 DEF PeopleShaped, PupilsTyped, Student
    <3>. QED BY <2>1, <3>1, <3>2
  <2>4. \A u : /\ ~Retiring(h, u)' /\ ~Joining(h, u)' /\ ~Filing(h, u)' /\ ~Retiring(h, u)
               /\ \A k : /\ ~Brings(h, u, k)' /\ ~Introduces(h, u, k)' /\ ~Introduces(h, u, k)
                         /\ ~Linking(h, u, k)
                         /\ Linking(h, u, k)' <=> u = s /\ k = g
        BY <2>1 DEF Retiring, Joining, Filing, Brings, Introduces, Linking, Newly
  <2>5. ASSUME NEW u \in Pupils, u # s
        PROVE  TendedTrue(u)' /\ \A k \in Guardians : KinTrue(u, k)'
    <3>1. TendedTrue(u)'
          BY <2>1, <2>3, <2>4, <2>5, TendedBeside DEF Tended
    <3>2. ASSUME NEW k \in Guardians PROVE KinTrue(u, k)'
          BY <2>1, <2>3, <2>4, <2>5, KinBeside DEF Tended
    <3>. QED BY <3>1, <3>2
  <2>6. ASSUME NEW k \in Desks, k # h, Pupil(s) \notin disturbed'
        PROVE  /\ ~Retiring(k, s) /\ \A j : ~Introduces(k, s, j) /\ ~Linking(k, s, j)
    <3>1. Pupil(s) \notin req[k].claims
          BY <2>1, <2>6, AloneAt
    <3>. QED BY <3>1, TendingIsClaimed
  <2>7. s \in Pupils /\ disturbed \subseteq disturbed'
        BY <2>1 DEF PeopleShaped, PupilsTyped, Moves
  <2>8. ASSUME Pupil(s) \notin disturbed' PROVE TendedTrue(s)'
    <3>1. TendedTrue(s) /\ \A k \in Desks : ~Retiring(k, s)
          BY <2>4, <2>6, <2>7, <2>8 DEF Tended
    <3>2. s \in DOMAIN student' /\ <<"status", s>> \notin unheeded'
             /\ ~Retiring(h, s)' /\ student'[s].status # "active" => login'[s] # "open"
          BY <2>1, <2>3, <2>7, <2>8, <3>1 DEF TendedTrue
    <3>. QED BY <2>1, <2>4, <2>8, <3>2, TendedOne
  <2>9. ASSUME NEW k \in Guardians, Pupil(s) \notin disturbed', Guardian(k) \notin disturbed'
        PROVE  KinTrue(s, k)'
    <3>1. /\ KinTrue(s, k) /\ \A j \in Desks : ~Introduces(j, s, k) /\ ~Linking(j, s, k)
          BY <2>4, <2>6, <2>7, <2>9 DEF Tended
    <3>2. ASSUME s \in DOMAIN student', k \in DOMAIN wards', <<"guardians", s>> \notin unheeded',
                 k # g
          PROVE  Kin(s, k)'
      <4>1. Kin(s, k)
            BY <2>1, <2>7, <2>9, <3>1, <3>2 DEF KinTrue
      <4>. QED BY <2>1, <2>2, <2>3, <3>2, <4>1 DEF Kin
    <3>3. g \in student'[s].guardians
          BY <2>2, <2>3
    <3>. QED BY <2>1, <2>4, <2>9, <3>2, <3>3, KinOne
  <2>10. /\ Pupil(s) \in disturbed' => TendedTrue(s)'
         /\ \A k : Pupil(s) \in disturbed' \/ Guardian(k) \in disturbed' => KinTrue(s, k)'
        BY DEF TendedTrue, KinTrue
  <2>. QED BY <2>5, <2>8, <2>9, <2>10
<1>. QED BY <1>1, <1>2, <1>3, <1>4, <1>5, <1>6, <1>7 DEF PeopleArrive

\* Sections, and the fields of pupils, are not mistaken for one another.
LEMMA FieldsApart ==
    \A s, x, f : <<f, s>> # Section(x) \/ f = "section"
BY DEF Section

LEMMA TendedCounts ==
    ASSUME Disciplined, PeopleShaped, PeopleShaped', Tended, NEW h \in Desks,
           Moves(h, PeopleCalls), CountActive(h) \/ WriteStrength(h) \/ NextOfCohort(h)
    PROVE  \A s \in Pupils : TendedTrue(s)' /\ \A g \in Guardians : KinTrue(s, g)'
<1>0. Shaped(h)
      BY DEF PeopleShaped
<1>1. ASSUME UNCHANGED <<student, wards, login>>, pc[h] \in Counting,
             \A s : /\ <<"status", s>> \in unheeded => <<"status", s>> \in unheeded'
                    /\ <<"guardians", s>> \in unheeded => <<"guardians", s>> \in unheeded',
             pc'[h] \in Counting \/ pc'[h] = req[h].then,
             pc'[h] # "idle" => /\ DOMAIN req'[h] = DOMAIN req[h]
                                /\ \A f \in DOMAIN req[h] \ {"counted", "recount"} :
                                     req'[h][f] = req[h][f]
      PROVE  \A s \in Pupils : TendedTrue(s)' /\ \A g \in Guardians : KinTrue(s, g)'
  <2>1. /\ "then" \in DOMAIN req[h] /\ req[h].then \in {"enrol", "login", "idle"}
        /\ pc'[h] # "idle" => req'[h].then = req[h].then
        BY <1>0, <1>1 DEF Shaped, CountShaped, Counting, Disciplined, Fits, Turning
  <2>2. ASSUME req[h].then \in {"enrol", "login"}
        PROVE  /\ req'[h].pupil = req[h].pupil /\ req'[h].then = req[h].then
               /\ req[h].then = "login" => req'[h].status = req[h].status
    <3>1. DOMAIN req[h] = AdmissionFields \/ DOMAIN req[h] = StatusFields
          BY <1>0, <1>1, <2>2 DEF Shaped, AdmissionShaped, Admitting, StatusShaped, Leaving
    <3>2. req[h].then = "login" => DOMAIN req[h] = StatusFields
          BY <1>0, <1>1 DEF Shaped, StatusShaped, Leaving
    <3>3. pc'[h] # "idle"
          BY <1>1, <2>2 DEF Counting
    <3>. QED BY <1>1, <2>1, <3>1, <3>2, <3>3 DEF AdmissionFields, StatusFields
  <2>3. CASE req[h].then = "idle"
    <3>1. OwesNoTending(h) /\ OwesNoTending(h)'
          BY <1>1, <2>1, <2>3 DEF OwesNoTending, Counting
    <3>. QED BY <1>1, <3>1, TendedAside
  <2>4. CASE req[h].then # "idle"
    <3>1. \A s : /\ Retiring(h, s)' <=> Retiring(h, s)
                 /\ Retiring(h, s) => req'[h].status = req[h].status
                 /\ Joining(h, s)' <=> Joining(h, s)
                 /\ ~Filing(h, s)' /\ ~Filing(h, s)
          BY <1>1, <2>1, <2>2, <2>4 DEF Retiring, Joining, Filing, Counting
    <3>2. \A s, g : /\ ~Brings(h, s, g)' /\ ~Introduces(h, s, g)' /\ ~Linking(h, s, g)'
                    /\ ~Introduces(h, s, g) /\ ~Linking(h, s, g)
          BY <1>1, <2>1, <2>4 DEF Brings, Introduces, Linking, Filing, Newly, Counting
    <3>. QED BY <1>1, <3>1, <3>2, TendedQuiet
  <2>. QED BY <2>3, <2>4
<1>2. CASE CountActive(h)
  <2>1. \A s : /\ <<"status", s>> \in unheeded => <<"status", s>> \in unheeded'
               /\ <<"guardians", s>> \in unheeded => <<"guardians", s>> \in unheeded'
        BY <1>2, Counts, FieldsApart
  <2>. QED BY <1>1, <1>2, <2>1, Counts DEF Counting
<1>3. CASE WriteStrength(h)
      BY <1>1, <1>3, Writes DEF Counting
<1>4. CASE NextOfCohort(h)
  <2>1. /\ pc[h] = "promote" /\ UNCHANGED people
        /\ pc'[h] = "count" => req'[h] = req[h]
        /\ pc'[h] \in {"count", "close", "promote"}
        BY <1>4, Chooses
  <2>2. req[h].then = "idle"
        BY <1>0, <2>1 DEF Shaped, PromotionShaped, Promoting
  <2>3. OwesNoTending(h) /\ OwesNoTending(h)'
        BY <2>1, <2>2 DEF OwesNoTending, Counting
  <2>. QED BY <2>1, <2>3, TendedAside DEF people
<1>. QED BY <1>2, <1>3, <1>4


LEMMA TendedAdmissions ==
    ASSUME Disciplined, Disciplined', PeopleShaped, PeopleShaped', Tended, Newcomers,
           NEW h \in Desks, Moves(h, PeopleCalls),
           \/ CheckSeat(h) \/ InsertStudent(h) \/ InsertGuardian(h)
           \/ FileGuardians(h) \/ Enrol(h) \/ OpenLogin(h)
    PROVE  \A s \in Pupils : TendedTrue(s)' /\ \A g \in Guardians : KinTrue(s, g)'
<1>0. Shaped(h) /\ PupilsTyped /\ disturbed \subseteq disturbed'
      BY DEF PeopleShaped, Moves
<1>a. \A s : Pupil(s) \in disturbed' =>
               TendedTrue(s)' /\ \A g \in Guardians : KinTrue(s, g)'
      BY DEF TendedTrue, KinTrue
<1>b. \A s, g : Guardian(g) \in disturbed' => KinTrue(s, g)'
      BY DEF KinTrue
<1>1. CASE CheckSeat(h)
  <2>1. /\ pc[h] = "seat" /\ UNCHANGED people
        /\ \/ pc'[h] = "idle"
           \/ pc'[h] = "insert student" /\ req'[h] = req[h]
        BY <1>1, Lands
  <2>2. \A s : /\ ~Retiring(h, s)' /\ ~Joining(h, s)' /\ ~Filing(h, s)' /\ ~Retiring(h, s)
               /\ \A g : /\ Brings(h, s, g)' => Brings(h, s, g)
                         /\ ~Introduces(h, s, g)' /\ ~Linking(h, s, g)'
                         /\ ~Introduces(h, s, g) /\ ~Linking(h, s, g)
        BY <2>1 DEF Retiring, Joining, Filing, Brings, Introduces, Linking, Newly, Counting
  <2>3. UNCHANGED <<student, wards, login, unheeded>>
        BY <2>1 DEF people
  <2>. QED BY <2>2, <2>3, TendedQuiet
<1>2. CASE InsertStudent(h)
  <2>1. PICK s, new :
          /\ s = req[h].pupil /\ student' = With(student, s, new)
          /\ new = [section |-> req[h].section, year |-> req[h].year, deleted |-> FALSE,
                    status |-> "active", guardians |-> {}]
        BY <1>2 DEF InsertStudent
  <2>2. /\ pc[h] = "insert student" /\ req'[h] = req[h]
        /\ pc'[h] = (IF req[h].family = {} THEN "count" ELSE "insert guardian")
        /\ UNCHANGED <<wards, login, unheeded>>
        BY <1>2, GoesTo DEF InsertStudent
  <2>3. /\ DOMAIN student' = DOMAIN student \cup {s} /\ student'[s] = new
        /\ \A u \in DOMAIN student \ {s} : student'[u] = student[u]
        BY <2>1 DEF With
  <2>4. Newly(h, s) /\ s \notin DOMAIN student /\ Pupil(s) \in req[h].claims
        BY <2>1, <2>2, DueIsClaimed DEF Newly, Newcomers
  <2>5. req[h].then = "enrol" /\ s \in Pupils
        BY <1>0, <2>1, <2>2 DEF Shaped, AdmissionShaped, Admitting
  <2>6. \A u : /\ ~Retiring(h, u)' /\ ~Retiring(h, u)
               /\ Joining(h, u)' => u = s
               /\ Filing(h, u)' => u = s /\ pc'[h] = "insert guardian"
               /\ \A g : /\ ~Brings(h, u, g)' /\ ~Linking(h, u, g)' /\ ~Linking(h, u, g)
                         /\ ~Introduces(h, u, g)
                         /\ Introduces(h, u, g)' => u = s /\ g \in req[h].family
        BY <2>1, <2>2, <2>5
           DEF Retiring, Joining, Filing, Brings, Introduces, Linking, Newly, Counting
  <2>7. new.status = "active" /\ new.guardians = {}
        BY <2>1
  <2>8. ASSUME NEW u \in Pupils, u # s
        PROVE  TendedTrue(u)' /\ \A g \in Guardians : KinTrue(u, g)'
    <3>1. /\ u \in DOMAIN student' <=> u \in DOMAIN student
          /\ u \in DOMAIN student => student'[u] = student[u]
          BY <2>3, <2>8
    <3>2. TendedTrue(u)'
      <4>1. TendedTrue(u)
            BY <2>8 DEF Tended
      <4>2. ~Retiring(h, u)' /\ ~Retiring(h, u) /\ ~Joining(h, u)' /\ ~Filing(h, u)'
            BY <2>6, <2>8
      <4>3. login' = login /\ unheeded' = unheeded
            BY <2>2
      <4>. QED BY <3>1, <4>1, <4>2, <4>3, TendedBeside
    <3>3. ASSUME NEW g \in Guardians PROVE KinTrue(u, g)'
          BY <2>2, <2>3, <2>6, <2>8, <3>1, KinBeside DEF Tended
    <3>. QED BY <3>2, <3>3
  <2>9. Pupil(s) \notin disturbed' => TendedTrue(s)'
        BY <2>3, <2>4, <2>6, <2>7, TendedOne
  <2>10. ASSUME NEW g \in Guardians, Pupil(s) \notin disturbed', Guardian(g) \notin disturbed'
         PROVE  KinTrue(s, g)'
    <3>1. KinTrue(s, g) /\ Pupil(s) \notin disturbed /\ Guardian(g) \notin disturbed
          BY <1>0, <2>5, <2>10 DEF Tended
    <3>2. g \in req[h].family => g \notin DOMAIN wards
          BY <2>4, <3>1 DEF KinTrue, Brings
    <3>3. g \in DOMAIN wards => s \notin wards[g]
          BY <1>0, <2>4 DEF PupilsTyped
    <3>4. g \in DOMAIN wards' => Kin(s, g)'
          BY <2>2, <2>3, <2>7, <3>3 DEF Kin
    <3>. QED BY <2>2, <2>4, <2>6, <2>10, <3>2, <3>4, KinOne
  <2>. QED BY <1>a, <1>b, <2>8, <2>9, <2>10
<1>3. CASE InsertGuardian(h)
  <2>1. PICK s, g : /\ s = req[h].pupil /\ g \in req[h].family \ DOMAIN wards
                    /\ wards' = With(wards, g, {s})
        BY <1>3 DEF InsertGuardian
  <2>2. /\ pc[h] = "insert guardian" /\ req'[h] = req[h]
        /\ pc'[h] \in {"file guardians", "insert guardian"}
        /\ UNCHANGED <<student, login, unheeded>>
        BY <1>3, Lands DEF InsertGuardian
  <2>3. /\ DOMAIN wards' = DOMAIN wards \cup {g} /\ wards'[g] = {s}
        /\ \A k \in DOMAIN wards \ {g} : wards'[k] = wards[k]
        BY <2>1 DEF With
  <2>4. \A u : /\ ~Retiring(h, u)' /\ ~Retiring(h, u)
               /\ Joining(h, u)' <=> Joining(h, u)
               /\ Filing(h, u)' <=> u = s
               /\ Filing(h, u) <=> u = s
               /\ \A k : /\ ~Brings(h, u, k)' /\ ~Linking(h, u, k)' /\ ~Linking(h, u, k)
                         /\ Introduces(h, u, k) <=> u = s /\ k \in req[h].family
                         /\ Introduces(h, u, k)' <=> u = s /\ k \in req[h].family
        BY <2>1, <2>2
           DEF Retiring, Joining, Filing, Brings, Introduces, Linking, Newly, Counting
  <2>5. Guardian(g) \in req[h].claims
        BY <1>0, <2>1, <2>2 DEF Shaped, AdmissionShaped, Admitting
  <2>6. ASSUME NEW u \in Pupils PROVE TendedTrue(u)'
        BY <2>2, <2>4, TendedBeside DEF Tended
  <2>7. ASSUME NEW u \in Pupils, NEW k \in Guardians, k # g PROVE KinTrue(u, k)'
    <3>1. k \in DOMAIN wards' => k \in DOMAIN wards /\ wards'[k] = wards[k]
          BY <2>3, <2>7
    <3>. QED BY <2>2, <2>4, <2>7, <3>1, KinBeside DEF Tended
  <2>8. ASSUME NEW u \in Pupils, Pupil(u) \notin disturbed', Guardian(g) \notin disturbed'
        PROVE  KinTrue(u, g)'
    <3>1. ASSUME u \in DOMAIN student', u # s PROVE Kin(u, g)'
      <4>1. g \notin student[u].guardians
            BY <1>0, <2>1, <2>2, <3>1 DEF PupilsTyped
      <4>. QED BY <2>2, <2>3, <3>1, <4>1 DEF Kin
    <3>. QED BY <2>1, <2>3, <2>4, <2>5, <2>8, <3>1, KinOne
  <2>. QED BY <1>a, <1>b, <2>6, <2>7, <2>8
<1>4. CASE FileGuardians(h)
  <2>1. PICK s, new : s = req[h].pupil /\ new = req[h].family
        OBVIOUS
  <2>2. /\ pc[h] = "file guardians" /\ UNCHANGED <<wards, login, unheeded>>
        /\ \/ pc'[h] = "count" /\ req'[h] = req[h]
              /\ student' = [student EXCEPT ![s].guardians = new]
           \/ pc'[h] = "idle" /\ student' = student /\ req[h].claims \subseteq disturbed'
    <3>1. pc[h] = "file guardians" /\ UNCHANGED <<wards, login, unheeded>>
          BY <1>4 DEF FileGuardians
    <3>2. CASE student[s].deleted
          BY <1>4, <2>1, <3>1, <3>2, Breaks DEF FileGuardians
    <3>3. CASE ~student[s].deleted
          BY <1>4, <2>1, <3>1, <3>3, GoesTo DEF FileGuardians
    <3>. QED BY <3>2, <3>3
  <2>3. /\ s \in DOMAIN student /\ new \subseteq DOMAIN wards /\ req[h].then = "enrol"
        /\ Pupil(s) \in req[h].claims /\ student[s] \in Student /\ s \in Pupils
        BY <1>0, <2>1, <2>2 DEF Shaped, AdmissionShaped, Admitting, PupilsTyped
  <2>4. \A u : /\ ~Retiring(h, u)' /\ ~Retiring(h, u)
               /\ Joining(h, u)' => Joining(h, u)
               /\ Joining(h, u) <=> u = s
               /\ ~Filing(h, u)'
               /\ Filing(h, u) <=> u = s
               /\ \A k : /\ ~Brings(h, u, k)' /\ ~Linking(h, u, k)' /\ ~Linking(h, u, k)
                         /\ ~Introduces(h, u, k)'
                         /\ Introduces(h, u, k) <=> u = s /\ k \in new
        BY <2>1, <2>2, <2>3
           DEF Retiring, Joining, Filing, Brings, Introduces, Linking, Newly, Counting
  <2>5. /\ DOMAIN student' = DOMAIN student /\ student'[s].status = student[s].status
        /\ \A u \in DOMAIN student \ {s} : student'[u] = student[u]
        /\ student' = student \/ student'[s].guardians = new
    <3>1. CASE student' = student
          BY <3>1
    <3>2. CASE student' = [student EXCEPT ![s].guardians = new]
      <4>1. student'[s] = [student[s] EXCEPT !.guardians = new]
            BY <2>3, <3>2
      <4>. QED BY <2>3, <3>2, <4>1 DEF Student
    <3>. QED BY <2>2, <3>1, <3>2
  <2>6. ASSUME NEW u \in Pupils, u # s
        PROVE  TendedTrue(u)' /\ \A g \in Guardians : KinTrue(u, g)'
    <3>1. u \in DOMAIN student => student'[u] = student[u]
          BY <2>5, <2>6
    <3>2. TendedTrue(u)'
          BY <2>2, <2>4, <2>5, <2>6, <3>1, TendedBeside DEF Tended
    <3>3. ASSUME NEW g \in Guardians PROVE KinTrue(u, g)'
          BY <2>2, <2>4, <2>5, <2>6, <3>1, KinBeside DEF Tended
    <3>. QED BY <3>2, <3>3
  <2>7. ASSUME Pupil(s) \notin disturbed'
        PROVE  /\ student'[s].guardians = new
               /\ student[s].status = "active" /\ student[s].guardians = {}
    <3>1. pc'[h] = "count" /\ student' = [student EXCEPT ![s].guardians = new]
          BY <2>2, <2>3, <2>7
    <3>2. student'[s] = [student[s] EXCEPT !.guardians = new]
          BY <2>3, <3>1
    <3>3. student[s].status = "active" /\ student[s].guardians = {}
          BY <1>0, <2>3, <2>4, <2>7 DEF Tended, TendedTrue
    <3>. QED BY <2>3, <3>2, <3>3 DEF Student
  <2>8. Pupil(s) \notin disturbed' => TendedTrue(s)'
        BY <2>3, <2>4, <2>5, <2>7, TendedOne
  <2>9. ASSUME NEW g \in Guardians, Pupil(s) \notin disturbed', Guardian(g) \notin disturbed'
        PROVE  KinTrue(s, g)'
    <3>1. KinTrue(s, g) /\ Pupil(s) \notin disturbed /\ Guardian(g) \notin disturbed
          BY <1>0, <2>3, <2>9 DEF Tended
    <3>2. ASSUME NEW k \in Desks, k # h PROVE ~Introduces(k, s, g) /\ ~Linking(k, s, g)
          BY <2>3, <2>9, <3>2, AloneAt, TendingIsClaimed
    <3>3. ASSUME g \in DOMAIN wards', <<"guardians", s>> \notin unheeded' PROVE Kin(s, g)'
      <4>1. CASE g \in new
        <5>1. s \in wards[g]
              BY <2>2, <2>4, <3>1, <3>3, <4>1 DEF KinTrue
        <5>. QED BY <2>2, <2>7, <2>9, <4>1, <5>1 DEF Kin
      <4>2. CASE g \notin new
        <5>1. Kin(s, g)
          <6>1. \A k \in Desks : ~Introduces(k, s, g) /\ ~Linking(k, s, g)
                BY <2>4, <3>2, <4>2
          <6>. QED BY <2>2, <2>3, <3>1, <3>3, <6>1 DEF KinTrue
        <5>. QED BY <2>2, <2>7, <2>9, <4>2, <5>1 DEF Kin
      <4>. QED BY <4>1, <4>2
    <3>. QED BY <2>3, <2>4, <2>9, <3>3, KinOne
  <2>. QED BY <1>a, <1>b, <2>6, <2>8, <2>9
<1>5. CASE Enrol(h)
  <2>1. /\ pc[h] = "enrol" /\ UNCHANGED <<student, wards, login, unheeded>>
        /\ \/ pc'[h] = "open login" /\ req'[h] = req[h]
           \/ pc'[h] = "idle"
        BY <1>5, Lands DEF Enrol
  <2>2. \A s : /\ ~Retiring(h, s)'
               /\ Joining(h, s)' => Joining(h, s)
               /\ ~Filing(h, s)' /\ ~Retiring(h, s)
               /\ \A g : /\ ~Brings(h, s, g)' /\ ~Introduces(h, s, g)' /\ ~Linking(h, s, g)'
                         /\ ~Introduces(h, s, g) /\ ~Linking(h, s, g)
        BY <2>1 DEF Retiring, Joining, Filing, Brings, Introduces, Linking, Newly, Counting
  <2>. QED BY <2>1, <2>2, TendedQuiet
<1>6. CASE OpenLogin(h)
  <2>1. PICK s : s = req[h].pupil
        OBVIOUS
  <2>2. /\ pc[h] = "open login" /\ pc'[h] = "idle" /\ UNCHANGED <<student, wards, unheeded>>
        /\ \A u \in Pupils : u # s => login'[u] = login[u]
        BY <1>0, <1>6, <2>1, Lands DEF OpenLogin, PupilsTyped
  <2>3. \A u : /\ ~Retiring(h, u)' /\ ~Joining(h, u)' /\ ~Filing(h, u)' /\ ~Retiring(h, u)
               /\ \A g : /\ ~Brings(h, u, g)' /\ ~Introduces(h, u, g)' /\ ~Linking(h, u, g)'
                         /\ ~Introduces(h, u, g) /\ ~Linking(h, u, g)
        BY <2>2 DEF Retiring, Joining, Filing, Brings, Introduces, Linking, Newly, Counting
  <2>4. Joining(h, s) /\ Pupil(s) \in req[h].claims /\ s \in Pupils
    <3>1. Joining(h, s)
          BY <2>1, <2>2 DEF Joining
    <3>. QED BY <1>0, <3>1, TendingIsClaimed DEF PupilsTyped
  <2>5. ASSUME NEW u \in Pupils, u # s PROVE TendedTrue(u)'
        BY <2>2, <2>3, <2>5, TendedBeside DEF Tended
  <2>6. ASSUME Pupil(s) \notin disturbed' PROVE TendedTrue(s)'
    <3>1. student[s].status = "active"
          BY <1>0, <2>4, <2>6 DEF Tended, TendedTrue
    <3>. QED BY <2>2, <2>3, <2>4, <2>6, <3>1, TendedOne
  <2>7. ASSUME NEW u \in Pupils, NEW g \in Guardians PROVE KinTrue(u, g)'
        BY <2>2, <2>3, KinBeside DEF Tended
  <2>. QED BY <1>a, <2>5, <2>6, <2>7
<1>. QED BY <1>1, <1>2, <1>3, <1>4, <1>5, <1>6


LEMMA TendedEdits ==
    ASSUME Disciplined, Disciplined', PeopleShaped, PeopleShaped', Tended,
           NEW h \in Desks, Moves(h, PeopleCalls),
           \/ StoreEdit(h) \/ Remove(h)
           \/ StoreStatus(h) \/ CloseLogin(h) \/ LinkGuardian(h)
    PROVE  \A s \in Pupils : TendedTrue(s)' /\ \A g \in Guardians : KinTrue(s, g)'
<1>0. Shaped(h) /\ PupilsTyped /\ disturbed \subseteq disturbed'
      BY DEF PeopleShaped, Moves
<1>a. \A s : Pupil(s) \in disturbed' =>
               TendedTrue(s)' /\ \A g \in Guardians : KinTrue(s, g)'
      BY DEF TendedTrue, KinTrue
<1>b. \A s, g : Guardian(g) \in disturbed' => KinTrue(s, g)'
      BY DEF KinTrue
<1>c. ASSUME NEW s, Pupil(s) \in req[h].claims, Pupil(s) \notin disturbed',
             NEW k \in Desks, k # h
      PROVE  ~Retiring(k, s) /\ \A g : ~Introduces(k, s, g) /\ ~Linking(k, s, g)
      BY <1>c, AloneAt, TendingIsClaimed
<1>1. CASE StoreEdit(h)
  <2>1. PICK s : s = req[h].pupil
        OBVIOUS
  <2>2. /\ pc[h] = "edit" /\ UNCHANGED <<wards, login>>
        /\ s \in DOMAIN student /\ Pupil(s) \in req[h].claims
        /\ unheeded \subseteq unheeded'
        /\ \/ student' = student
           \/ \E new \in Student :
                /\ student' = [student EXCEPT ![s] = new]
                /\ new.status # student[s].status => <<"status", s>> \in unheeded'
                /\ new.guardians # student[s].guardians => <<"guardians", s>> \in unheeded'
        /\ \/ pc'[h] = "idle"
           \/ pc'[h] = "count" /\ req'[h].then = "idle"
    <3>1. CASE UNCHANGED <<student, unheeded>> /\ pc'[h] = "idle"
          BY <1>1, <2>1, <3>1, Edits
    <3>2. CASE ~(UNCHANGED <<student, unheeded>> /\ pc'[h] = "idle")
      <4>0. \E new \in Student, field \in Followed \cup {"section"} : \E value :
              /\ field = req[h].field /\ value = req[h].value
              /\ new = Edited(s, field, value)
              /\ student' = [student EXCEPT ![s] = new]
              /\ new.status = (IF field = "status" THEN value ELSE student[s].status)
              /\ new.guardians
                   = (IF field = "guardians" THEN value ELSE student[s].guardians)
              /\ unheeded' = unheeded
                   \cup {<<f, s>> : f \in {field} \cap Followed}
                   \cup (IF field = "status" THEN {Section(new.section)} ELSE {})
                   \cup ({Section(student[s].section)} \
                           {Section(req[h].was), Section(new.section)})
            BY <1>1, <2>1, <3>2, Edits
      <4>1. PICK new \in Student, field \in Followed \cup {"section"} : \E value :
              /\ student' = [student EXCEPT ![s] = new]
              /\ new.status = (IF field = "status" THEN value ELSE student[s].status)
              /\ new.guardians
                   = (IF field = "guardians" THEN value ELSE student[s].guardians)
              /\ unheeded' = unheeded
                   \cup {<<f, s>> : f \in {field} \cap Followed}
                   \cup (IF field = "status" THEN {Section(new.section)} ELSE {})
                   \cup ({Section(student[s].section)} \
                           {Section(req[h].was), Section(new.section)})
            BY <4>0, Zenon
      <4>2. PICK a, b :
              unheeded' = unheeded \cup {<<f, s>> : f \in {field} \cap Followed} \cup a \cup b
            BY <4>1
      <4>3. unheeded \subseteq unheeded'
            BY <4>2
      <4>4. field \in Followed => <<field, s>> \in unheeded'
            BY <4>2
      <4>5. /\ new.status # student[s].status => <<"status", s>> \in unheeded'
            /\ new.guardians # student[s].guardians => <<"guardians", s>> \in unheeded'
            BY <4>1, <4>4 DEF Followed
      <4>6. \/ pc'[h] = "idle"
            \/ pc'[h] = "count" /\ req'[h].then = "idle"
            BY <1>1, <2>1, Edits
      <4>. QED BY <1>1, <2>1, <4>1, <4>3, <4>5, <4>6, Edits
    <3>. QED BY <3>1, <3>2
  <2>3. OwesNoTending(h) /\ OwesNoTending(h)'
        BY <2>2 DEF OwesNoTending, Counting
  <2>4. DOMAIN student' = DOMAIN student /\ s \in Pupils
        BY <1>0, <2>2 DEF PupilsTyped
  <2>5. ASSUME NEW u \in Pupils, u # s
        PROVE  TendedTrue(u)' /\ \A g \in Guardians : KinTrue(u, g)'
    <3>1. u \in DOMAIN student => student'[u] = student[u]
          BY <2>2, <2>5
    <3>2. TendedTrue(u)'
          BY <2>2, <2>3, <2>4, <2>5, <3>1, NoTending, NoTendingNext, TendedBeside DEF Tended
    <3>3. ASSUME NEW g \in Guardians PROVE KinTrue(u, g)'
          BY <2>2, <2>3, <2>4, <2>5, <3>1, NoTending, NoTendingNext, KinBeside DEF Tended
    <3>. QED BY <3>2, <3>3
  <2>6. /\ <<"status", s>> \notin unheeded' => student'[s].status = student[s].status
        /\ <<"guardians", s>> \notin unheeded' =>
             student'[s].guardians = student[s].guardians
        BY <2>2
  <2>7. ASSUME Pupil(s) \notin disturbed' PROVE TendedTrue(s)'
    <3>1. TendedTrue(s) /\ \A k \in Desks : ~Retiring(k, s)
          BY <1>c, <2>2, <2>3, <2>4, <2>7, NoTending DEF Tended
    <3>2. <<"status", s>> \notin unheeded' /\ student'[s].status # "active"
            => login'[s] # "open"
          BY <1>0, <2>2, <2>6, <2>7, <3>1 DEF TendedTrue
    <3>. QED BY <2>2, <2>3, <2>7, <3>2, NoTendingNext, TendedOne
  <2>8. ASSUME NEW g \in Guardians, Pupil(s) \notin disturbed', Guardian(g) \notin disturbed'
        PROVE  KinTrue(s, g)'
    <3>1. /\ KinTrue(s, g)
          /\ \A k \in Desks : ~Introduces(k, s, g) /\ ~Linking(k, s, g)
          BY <1>c, <2>2, <2>3, <2>4, <2>8, NoTending DEF Tended
    <3>2. ASSUME g \in DOMAIN wards', <<"guardians", s>> \notin unheeded' PROVE Kin(s, g)'
      <4>1. Kin(s, g)
            BY <1>0, <2>2, <2>8, <3>1, <3>2 DEF KinTrue
      <4>. QED BY <2>2, <2>6, <3>2, <4>1 DEF Kin
    <3>. QED BY <2>2, <2>3, <2>8, <3>2, NoTendingNext, KinOne
  <2>. QED BY <1>a, <1>b, <2>5, <2>7, <2>8
<1>2. CASE Remove(h)
  <2>1. PICK s : \/ UNCHANGED <<student, unheeded>>
                 \/ /\ student' = [student EXCEPT ![s].deleted = TRUE]
                    /\ unheeded \subseteq unheeded'
        BY <1>2 DEF Remove
  <2>2. ASSUME NEW u \in DOMAIN student
        PROVE  /\ student'[u].status = student[u].status
               /\ student'[u].guardians = student[u].guardians
        BY <1>0, <2>1 DEF PupilsTyped, Student
  <2>3. pc[h] = "remove" /\ pc'[h] = "idle" /\ UNCHANGED <<wards, login>>
        BY <1>2, LandsAfter DEF Remove
  <2>4. OwesNoTending(h) /\ OwesNoTending(h)'
        BY <2>3 DEF OwesNoTending, Counting
  <2>. QED BY <2>1, <2>2, <2>3, <2>4, TendedAside
<1>3. CASE StoreStatus(h)
  <2>1. PICK s, status : s = req[h].pupil /\ status = req[h].status
        OBVIOUS
  <2>2. /\ pc[h] = "status" /\ pc'[h] = "count" /\ req'[h] = req[h]
        /\ UNCHANGED <<wards, login>> /\ unheeded \subseteq unheeded'
        /\ student' = [student EXCEPT ![s].status = status]
        BY <1>3, <2>1, LandsAfter DEF StoreStatus
  <2>3. /\ s \in DOMAIN student /\ Pupil(s) \in req[h].claims /\ req[h].then = "login"
        /\ student[s] \in Student /\ s \in Pupils
        BY <1>0, <2>1, <2>2 DEF Shaped, StatusShaped, Leaving, OnFile, PupilsTyped
  <2>4. /\ DOMAIN student' = DOMAIN student
        /\ \A u \in DOMAIN student \ {s} : student'[u] = student[u]
        /\ student'[s].guardians = student[s].guardians /\ student'[s].status = status
    <3>1. student'[s] = [student[s] EXCEPT !.status = status]
          BY <2>2, <2>3
    <3>. QED BY <2>2, <2>3, <3>1 DEF Student
  <2>5. \A u : /\ ~Retiring(h, u)
               /\ Retiring(h, u)' <=> u = s
               /\ ~Joining(h, u)' /\ ~Filing(h, u)'
               /\ \A g : /\ ~Brings(h, u, g)' /\ ~Introduces(h, u, g)' /\ ~Linking(h, u, g)'
                         /\ ~Introduces(h, u, g) /\ ~Linking(h, u, g)
        BY <2>1, <2>2, <2>3
           DEF Retiring, Joining, Filing, Brings, Introduces, Linking, Newly, Counting
  <2>6. ASSUME NEW u \in Pupils, u # s PROVE TendedTrue(u)'
    <3>1. u \in DOMAIN student => student'[u] = student[u]
          BY <2>4, <2>6
    <3>2. ~Retiring(h, u)' /\ TendedTrue(u)
          BY <2>5, <2>6 DEF Tended
    <3>. QED BY <2>2, <2>4, <2>5, <3>1, <3>2, TendedBeside
  <2>7. ASSUME NEW u \in Pupils, NEW g \in Guardians PROVE KinTrue(u, g)'
    <3>1. u \in DOMAIN student => student'[u].guardians = student[u].guardians
          BY <2>4
    <3>2. KinTrue(u, g)
          BY <2>7 DEF Tended
    <3>. QED BY <2>2, <2>4, <2>5, <3>1, <3>2, KinBeside
  <2>8. Pupil(s) \notin disturbed' => TendedTrue(s)'
        BY <2>1, <2>2, <2>3, <2>4, <2>5, TendedOne
  <2>. QED BY <1>a, <2>6, <2>7, <2>8
<1>4. CASE CloseLogin(h)
  <2>1. PICK s : s = req[h].pupil
        OBVIOUS
  <2>2. pc[h] = "login" /\ pc'[h] = "idle" /\ UNCHANGED <<student, wards>>
        BY <1>4, LandsAfter DEF CloseLogin
  <2>3. /\ s \in DOMAIN student /\ Pupil(s) \in req[h].claims /\ s \in Pupils
        /\ Retiring(h, s)
        BY <1>0, <2>1, <2>2 DEF Shaped, StatusShaped, Leaving, OnFile, PupilsTyped, Retiring
  <2>4. /\ \A u \in Pupils : u # s => login'[u] = login[u]
        /\ HasLeft(req[h].status) => login'[s] # "open"
    <3>1. DOMAIN login = Pupils
          BY <1>0 DEF PupilsTyped
    <3>. QED BY <1>4, <2>1, <2>3, <3>1 DEF CloseLogin
  <2>5. /\ \A u : u # s => (<<"status", u>> \in unheeded => <<"status", u>> \in unheeded')
        /\ \A u : <<"guardians", u>> \in unheeded => <<"guardians", u>> \in unheeded'
    <3>1. unheeded' = unheeded \ {<<"status", s>>}
          BY <1>4, <2>1 DEF CloseLogin
    <3>. QED BY <3>1
  <2>6. \A u : /\ Retiring(h, u) => u = s
               /\ ~Retiring(h, u)' /\ ~Joining(h, u)' /\ ~Filing(h, u)'
               /\ \A g : /\ ~Brings(h, u, g)' /\ ~Introduces(h, u, g)' /\ ~Linking(h, u, g)'
                         /\ ~Introduces(h, u, g) /\ ~Linking(h, u, g)
        BY <2>1, <2>2
           DEF Retiring, Joining, Filing, Brings, Introduces, Linking, Newly, Counting
  <2>7. ASSUME NEW u \in Pupils, u # s PROVE TendedTrue(u)'
        BY <2>2, <2>4, <2>5, <2>6, <2>7, TendedBeside DEF Tended
  <2>8. ASSUME NEW u \in Pupils, NEW g \in Guardians PROVE KinTrue(u, g)'
        BY <2>2, <2>5, <2>6, KinBeside DEF Tended
  <2>9. ASSUME Pupil(s) \notin disturbed' PROVE TendedTrue(s)'
    <3>1. student[s].status = req[h].status
          BY <1>0, <2>3, <2>9 DEF Tended, TendedTrue
    <3>2. student'[s].status # "active" => login'[s] # "open"
          BY <2>2, <2>4, <3>1 DEF HasLeft
    <3>. QED BY <2>3, <2>6, <2>9, <3>2, TendedOne
  <2>. QED BY <1>a, <2>7, <2>8, <2>9
<1>5. CASE LinkGuardian(h)
  <2>1. PICK s, g : s = req[h].pupil /\ g = req[h].guardian
        OBVIOUS
  <2>2. /\ pc[h] = "link" /\ pc'[h] = "idle" /\ UNCHANGED <<student, login, unheeded>>
        /\ wards' = [wards EXCEPT ![g] = wards[g] \cup {s}]
        BY <1>5, <2>1, LandsAfter DEF LinkGuardian
  <2>3. /\ s \in DOMAIN student /\ Pupil(s) \in req[h].claims /\ s \in Pupils
        /\ g \in DOMAIN wards /\ Linking(h, s, g)
        BY <1>0, <2>1, <2>2 DEF Shaped, LinkShaped, OnFile, PupilsTyped, Linking
  <2>4. \A u : /\ ~Retiring(h, u)' /\ ~Joining(h, u)' /\ ~Filing(h, u)' /\ ~Retiring(h, u)
               /\ \A k : /\ ~Brings(h, u, k)' /\ ~Introduces(h, u, k)' /\ ~Linking(h, u, k)'
                         /\ ~Introduces(h, u, k)
                         /\ Linking(h, u, k) => u = s /\ k = g
        BY <2>1, <2>2
           DEF Retiring, Joining, Filing, Brings, Introduces, Linking, Newly, Counting
  <2>5. /\ DOMAIN wards' = DOMAIN wards /\ s \in wards'[g]
        /\ \A u, k : u # s \/ k # g =>
             (k \in DOMAIN wards => (u \in wards'[k] <=> u \in wards[k]))
        BY <2>2, <2>3
  <2>6. ASSUME NEW u \in Pupils PROVE TendedTrue(u)'
        BY <2>2, <2>4, TendedBeside DEF Tended
  <2>7. ASSUME NEW u \in Pupils, NEW k \in Guardians, u # s \/ k # g PROVE KinTrue(u, k)'
    <3>1. KinTrue(u, k) /\ ~Linking(h, u, k)
          BY <2>4, <2>7 DEF Tended
    <3>. QED BY <2>2, <2>4, <2>5, <2>7, <3>1, KinBeside
  <2>8. ASSUME g \in Guardians, Pupil(s) \notin disturbed', Guardian(g) \notin disturbed'
        PROVE  KinTrue(s, g)'
    <3>1. g \in student[s].guardians
          BY <1>0, <2>3, <2>8 DEF Tended, KinTrue
    <3>2. Kin(s, g)'
          BY <2>2, <2>5, <3>1 DEF Kin
    <3>. QED BY <2>3, <2>4, <2>8, <3>2, KinOne
  <2>. QED BY <1>a, <1>b, <2>6, <2>7, <2>8
<1>. QED BY <1>1, <1>2, <1>3, <1>4, <1>5

LEMMA TendedPromotions ==
    ASSUME Disciplined, PeopleShaped, PeopleShaped', Tended, NEW h \in Desks,
           Moves(h, PeopleCalls), CloseEnrolments(h) \/ OpenEnrolment(h) \/ MoveUp(h)
    PROVE  \A s \in Pupils : TendedTrue(s)' /\ \A g \in Guardians : KinTrue(s, g)'
<1>0. PupilsTyped
      BY DEF PeopleShaped
<1>1. OwesNoTending(h) /\ OwesNoTending(h)'
      BY LandsAfter DEF OwesNoTending, Counting
<1>2. UNCHANGED <<wards, login>>
      BY DEF CloseEnrolments, OpenEnrolment, MoveUp
<1>3. CASE CloseEnrolments(h)
      BY <1>1, <1>2, <1>3, TendedAside DEF CloseEnrolments
<1>4. CASE OpenEnrolment(h)
  <2>1. student' = student /\ unheeded \subseteq unheeded'
        BY <1>4 DEF OpenEnrolment
  <2>. QED BY <1>1, <1>2, <2>1, TendedAside
<1>5. CASE MoveUp(h)
  <2>0. PICK x, y : x = req[h].section /\ y = req[h].year
        OBVIOUS
  <2>1. PICK s :
          /\ student' = [student EXCEPT ![s].section = x, ![s].year = y]
          /\ unheeded' = (unheeded \ {<<"year", s>>})
                          \cup ({Section(student[s].section)} \ {Section(x)})
        BY <1>5, <2>0 DEF MoveUp
  <2>2. ASSUME NEW u \in DOMAIN student
        PROVE  /\ student'[u].status = student[u].status
               /\ student'[u].guardians = student[u].guardians
    <3>1. student[u] \in Student
          BY <1>0 DEF PupilsTyped
    <3>2. \/ student'[u] = student[u]
          \/ student'[u] = [student[u] EXCEPT !.section = x, !.year = y]
          BY <2>1
    <3>. QED BY <3>1, <3>2 DEF Student
  <2>3. \A u : /\ <<"status", u>> \in unheeded => <<"status", u>> \in unheeded'
               /\ <<"guardians", u>> \in unheeded => <<"guardians", u>> \in unheeded'
        BY <2>1
  <2>4. DOMAIN student' = DOMAIN student
        BY <2>1
  <2>. QED BY <1>1, <1>2, <2>2, <2>3, <2>4, TendedAside
<1>. QED BY <1>3, <1>4, <1>5

LEMMA TendedSound ==
    ASSUME Disciplined, Disciplined', PeopleShaped, PeopleShaped', Enrolled, Tended,
           [Next]_vars
    PROVE  Tended'
<1>1. ASSUME NEW h \in Desks, PeopleStep(h) PROVE Tended'
  <2>1. Moves(h, PeopleCalls) /\ Newcomers
        BY <1>1, PeopleMoves DEF Enrolled
  <2>2. \A s \in Pupils : TendedTrue(s)' /\ \A g \in Guardians : KinTrue(s, g)'
        BY <1>1, <2>1, TendedArrivals, TendedCounts, TendedAdmissions, TendedEdits,
           TendedPromotions DEF PeopleStep, PeopleResume
  <2>. QED BY <2>2 DEF Tended
<1>2. CASE ~\E h \in Desks : PeopleStep(h)
      BY <1>2, NextPasses, TendedPassed DEF NextIsTheirs
<1>. QED BY <1>1, <1>2

\* A pupil whose status was changed to one who has left cannot sign in once
\* the request is done, and a guardian is on the child's record exactly when
\* the child is on the guardian's, however admissions, links, changes of
\* status and edits of the two interleave and fail.
THEOREM NoLeaverSignsIn == Spec => []LeaversShutOut
<1>1. Init => Disciplined /\ PeopleShaped /\ Enrolled /\ Tended
      BY DisciplineStarts, PeopleStart, EnrolledStart, TendedStart
<1>2. Disciplined /\ PeopleShaped /\ Enrolled /\ Tended /\ [Next]_vars
        => (Disciplined /\ PeopleShaped /\ Enrolled /\ Tended)'
      BY DisciplineKept, PeopleKeepsShape, EnrolledSound, TendedSound
<1>3. ASSUME PeopleShaped, Tended, NEW s \in DOMAIN student, Calm(Pupil(s))
      PROVE  /\ student[s].status # "active" /\ <<"status", s>> \notin unheeded
                  => login[s] # "open"
             /\ \A g \in DOMAIN wards :
                  Calm(Guardian(g)) /\ <<"guardians", s>> \notin unheeded => Kin(s, g)
  <2>1. s \in Pupils /\ DOMAIN wards \subseteq Guardians
        BY <1>3 DEF PeopleShaped, PupilsTyped
  <2>2. \A h \in Desks : /\ ~Retiring(h, s)
                         /\ \A g : ~Introduces(h, s, g) /\ ~Linking(h, s, g)
        BY <1>3, TendingIsClaimed DEF Calm
  <2>. QED BY <1>3, <2>1, <2>2 DEF Calm, Tended, TendedTrue, KinTrue
<1>4. PeopleShaped /\ Tended => LeaversShutOut
      BY <1>3 DEF LeaversShutOut, Kin
<1>. QED BY <1>1, <1>2, <1>4, PTL DEF Spec

-----------------------------------------------------------------------------
(* The strength of the sections: the number counted is still right when it *)
(* is written, and whoever changes the pupils of a section either counts   *)
(* it before it is done or leaves it among the unheeded.                   *)

Owes(h, x) ==
    \/ /\ pc[h] \in {"insert guardian", "file guardians",
                     "promote", "close", "reopen", "move up"}
       /\ req[h].section = x
    \/ pc[h] \in Counting /\ x \in Listed(req[h].recount)

Holding(h, x) == pc[h] = "strength" /\ Head(req[h].recount) = x

StrengthTrue(x) ==
    Section(x) \notin disturbed \cup unheeded =>
      /\ \A h \in Desks : Holding(h, x) => req[h].counted = Cardinality(Active(x))
      /\ (\A h \in Desks : ~Owes(h, x)) => strength[x] = Cardinality(Active(x))

\* An edit still knows the section its pupil is in, or that one is unheeded.
EditTrue(h) ==
    pc[h] = "edit" /\ Section(req[h].was) \notin disturbed \cup unheeded =>
      student[req[h].pupil].section = req[h].was

Tallied == /\ \A x \in Sections : StrengthTrue(x)
           /\ \A h \in Desks : EditTrue(h)

-----------------------------------------------------------------------------
LEMMA TalliedStart == ASSUME Init PROVE Tallied
<1>1. /\ pc = [h \in Desks |-> "idle"] /\ unheeded = {}
      /\ student = [s \in There |-> [section |-> Home, year |-> ThisYear,
                      deleted |-> FALSE, status |-> "active", guardians |-> {}]]
      /\ strength = [x \in Sections |-> IF x = Home THEN Cardinality(There) ELSE 0]
      BY DEF Init, PeopleInit, RequestsInit
<1>2. DOMAIN student = There /\ \A s \in There : /\ student[s].section = Home
                                                 /\ ~student[s].deleted
                                                 /\ student[s].status = "active"
      BY <1>1
<1>3. ASSUME NEW x \in Sections PROVE Active(x) = IF x = Home THEN There ELSE {}
      BY <1>2 DEF Active, Living
<1>4. ASSUME NEW x \in Sections PROVE StrengthTrue(x)
  <2>1. strength[x] = Cardinality(Active(x))
        BY <1>1, <1>3, FS_EmptySet
  <2>. QED BY <1>1, <2>1 DEF StrengthTrue, Holding
<1>5. \A h \in Desks : EditTrue(h)
      BY <1>1 DEF EditTrue
<1>. QED BY <1>4, <1>5 DEF Tallied

LEMMA OwedIsClaimed ==
    ASSUME PeopleShaped, NEW h \in Desks, NEW x, Owes(h, x) \/ Holding(h, x)
    PROVE  Section(x) \in req[h].claims /\ pc[h] \in PeopleCalls /\ Owes(h, x)
<1>1. Shaped(h)
      BY DEF PeopleShaped
<1>2. Holding(h, x) => Owes(h, x)
  <2>1. ASSUME Holding(h, x) PROVE Owes(h, x)
    <3>1. ShortList(req[h].recount) /\ pc[h] \in Counting
          BY <1>1, <2>1 DEF Holding, Shaped, CountShaped, Counting
    <3>2. ASSUME NEW a, NEW b, req[h].recount = <<a>> \/ req[h].recount = <<a, b>>
          PROVE  Head(req[h].recount) \in Listed(req[h].recount)
      <4>1. Listed(<<a>>) = {a} /\ Listed(<<a, b>>) = {a, b}
            BY Lists
      <4>. QED BY <3>2, <4>1, Lists
    <3>. QED BY <2>1, <3>1, <3>2 DEF Holding, Owes, ShortList
  <2>. QED BY <2>1
<1>3. ASSUME Owes(h, x) PROVE Section(x) \in req[h].claims /\ pc[h] \in PeopleCalls
      BY <1>1, <1>3 DEF Owes, Shaped, AdmissionShaped, Admitting, PromotionShaped,
                        Promoting, CountShaped, Counting, PeopleCalls
<1>. QED BY <1>2, <1>3

LEMMA TalliedPassed ==
    ASSUME Disciplined, PeopleShaped, Tallied, Passes(PeopleCalls), UNCHANGED people
    PROVE  Tallied'
<1>1. /\ UNCHANGED <<student, strength, unheeded>> /\ disturbed \subseteq disturbed'
      BY DEF people, Passes
<1>2. ASSUME NEW h \in Desks, NEW x
      PROVE  /\ Holding(h, x)' => Holding(h, x) /\ req'[h] = req[h]
             /\ EditTrue(h)'
             /\ Owes(h, x) /\ Section(x) \notin disturbed' => Owes(h, x)'
  <2>1. CASE pc'[h] \in PeopleCalls
    <3>1. pc'[h] = pc[h] /\ req'[h] = req[h]
          BY <2>1 DEF Passes
    <3>. QED BY <1>1, <3>1 DEF Holding, Owes, EditTrue, Tallied
  <2>2. CASE pc'[h] \notin PeopleCalls
    <3>1. Owes(h, x) => pc[h] \in PeopleCalls /\ Section(x) \in req[h].claims
          BY OwedIsClaimed
    <3>2. Owes(h, x) => Section(x) \in disturbed'
          BY <2>2, <3>1 DEF Passes
    <3>. QED BY <2>2, <3>2 DEF Holding, EditTrue, PeopleCalls
  <2>. QED BY <2>1, <2>2
<1>3. ASSUME NEW x \in Sections PROVE StrengthTrue(x)'
  <2>1. StrengthTrue(x) /\ Active(x)' = Active(x)
        BY <1>1 DEF Tallied, Active, Living
  <2>. QED BY <1>1, <1>2, <2>1 DEF StrengthTrue
<1>. QED BY <1>2, <1>3 DEF Tallied

LEMMA OthersOwe ==
    ASSUME Disciplined, NEW h \in Desks, Moves(h, PeopleCalls), NEW k \in Desks, k # h
    PROVE  /\ pc'[k] = pc[k] /\ req'[k] = req[k]
           /\ \A x : /\ Owes(k, x)' <=> Owes(k, x)
                     /\ Holding(k, x)' <=> Holding(k, x)
<1>1. pc'[k] = pc[k] /\ req'[k] = req[k]
      BY DEF Moves, Disciplined
<1>. QED BY <1>1 DEF Owes, Holding

\* A section whose pupils and strength a step of h leaves alone.
LEMMA StrengthBeside ==
    ASSUME Disciplined, PeopleShaped, NEW h \in Desks, Moves(h, PeopleCalls),
           NEW x, StrengthTrue(x), Active(x)' = Active(x), strength'[x] = strength[x],
           Section(x) \in unheeded => Section(x) \in unheeded',
           Holding(h, x)' => Holding(h, x) /\ req'[h].counted = req[h].counted,
           Owes(h, x) => Owes(h, x)' \/ Section(x) \in disturbed' \cup unheeded'
    PROVE  StrengthTrue(x)'
<1>1. disturbed \subseteq disturbed'
      BY DEF Moves
<1>2. ASSUME NEW k \in Desks
      PROVE  /\ Holding(k, x)' => Holding(k, x) /\ req'[k].counted = req[k].counted
             /\ Owes(k, x) => Owes(k, x)' \/ Section(x) \in disturbed' \cup unheeded'
      BY OthersOwe
<1>. QED BY <1>1, <1>2 DEF StrengthTrue

\* One it is about: nobody else holds a count of it or owes one.
LEMMA StrengthOne ==
    ASSUME Disciplined, Disciplined', PeopleShaped', NEW h \in Desks, Moves(h, PeopleCalls),
           NEW x, Section(x) \in req[h].claims \cup req'[h].claims,
           Holding(h, x)' => req'[h].counted = Cardinality(Active(x)'),
           ~Owes(h, x)' /\ Section(x) \notin disturbed' \cup unheeded' =>
             strength'[x] = Cardinality(Active(x)')
    PROVE  StrengthTrue(x)'
<1>1. CASE Section(x) \in disturbed' \cup unheeded'
      BY <1>1 DEF StrengthTrue
<1>2. CASE Section(x) \notin disturbed' \cup unheeded'
  <2>1. ASSUME NEW k \in Desks, k # h PROVE ~Holding(k, x)'
    <3>1. Section(x) \notin req'[k].claims
          BY <1>2, <2>1, AloneAt
    <3>2. Shaped(k)'
          BY DEF PeopleShaped
    <3>3. ASSUME Holding(k, x)' PROVE FALSE
      <4>1. PICK list : list = req'[k].recount
            OBVIOUS
      <4>2. /\ pc'[k] \in Counting /\ ShortList(list)
            /\ \A a \in Listed(list) : Section(a) \in req'[k].claims
            BY <3>2, <3>3, <4>1 DEF Holding, Shaped, CountShaped, Counting
      <4>3. ASSUME NEW a, NEW b, list = <<a>> \/ list = <<a, b>>
            PROVE  Head(list) \in Listed(list)
        <5>1. Listed(<<a>>) = {a} /\ Listed(<<a, b>>) = {a, b}
              BY Lists
        <5>. QED BY <4>3, <5>1, Lists
      <4>4. Head(list) \in Listed(list)
            BY <4>2, <4>3 DEF ShortList
      <4>. QED BY <3>1, <3>3, <4>1, <4>2, <4>4 DEF Holding
    <3>. QED BY <3>3
  <2>. QED BY <1>2, <2>1 DEF StrengthTrue
<1>. QED BY <1>1, <1>2

\* So it is enough that a step counts or owes what it changes.
LEMMA StrengthKept ==
    ASSUME Disciplined, Disciplined', PeopleShaped, PeopleShaped', Tallied, NEW h \in Desks,
           Moves(h, PeopleCalls), strength' = strength, pc'[h] # "strength",
           \A x : Section(x) \in unheeded => Section(x) \in unheeded',
           \A x : Active(x)' = Active(x) \/ Owes(h, x)'
                    \/ Section(x) \in disturbed' \cup unheeded',
           \A x : Owes(h, x) => Owes(h, x)' \/ Section(x) \in disturbed' \cup unheeded'
    PROVE  \A x \in Sections : StrengthTrue(x)'
<1>1. ASSUME NEW x \in Sections PROVE StrengthTrue(x)'
  <2>1. ~Holding(h, x)' /\ StrengthTrue(x)
        BY DEF Holding, Tallied
  <2>2. CASE Section(x) \in disturbed' \cup unheeded'
        BY <2>2 DEF StrengthTrue
  <2>3. CASE Owes(h, x)'
    <3>1. Shaped(h)'
          BY DEF PeopleShaped
    <3>2. Section(x) \in req'[h].claims
          BY <2>3, <3>1 DEF Owes, Shaped, AdmissionShaped, Admitting, PromotionShaped,
                            Promoting, CountShaped, Counting
    <3>. QED BY <2>1, <2>3, <3>2, StrengthOne
  <2>4. CASE Active(x)' = Active(x) /\ ~(Section(x) \in disturbed' \cup unheeded')
        BY <2>1, <2>4, StrengthBeside
  <2>. QED BY <2>2, <2>3, <2>4
<1>. QED BY <1>1

LEMMA EditsKept ==
    ASSUME Disciplined, Disciplined', PeopleShaped, Tallied, NEW h \in Desks,
           Moves(h, PeopleCalls),
           pc'[h] = "edit" => student'[req'[h].pupil].section = req'[h].was,
           \A x : Section(x) \in unheeded => Section(x) \in unheeded' \cup req[h].claims,
           \A u \in DOMAIN student :
             \/ student'[u].section = student[u].section
             \/ Section(student[u].section)
                  \in unheeded' \cup req[h].claims \cup req'[h].claims
    PROVE  \A k \in Desks : EditTrue(k)'
<1>1. ASSUME NEW k \in Desks PROVE EditTrue(k)'
  <2>1. CASE k = h
        BY <2>1 DEF EditTrue
  <2>2. CASE k # h
    <3>1. pc'[k] = pc[k] /\ req'[k] = req[k] /\ disturbed \subseteq disturbed'
          BY <2>2, OthersOwe DEF Moves
    <3>2. ASSUME pc[k] = "edit", Section(req[k].was) \notin disturbed' \cup unheeded'
          PROVE  student'[req[k].pupil].section = req[k].was
      <4>1. /\ Section(req[k].was) \in req[k].claims /\ req[k].pupil \in DOMAIN student
            BY <3>2 DEF PeopleShaped, Shaped, EditShaped, OnFile
      <4>2. Section(req[k].was) \notin req[h].claims \cup req'[h].claims
            BY <2>2, <3>2, <4>1, AloneAt
      <4>3. student[req[k].pupil].section = req[k].was
            BY <3>1, <3>2, <4>2 DEF Tallied, EditTrue
      <4>. QED BY <3>2, <4>1, <4>2, <4>3
    <3>. QED BY <3>1, <3>2 DEF EditTrue
  <2>. QED BY <2>1, <2>2
<1>. QED BY <1>1


-----------------------------------------------------------------------------
\* Nobody comes to a section, leaves it, or is counted there or not any more.
SameRolls ==
    /\ DOMAIN student' = DOMAIN student
    /\ \A s \in DOMAIN student : /\ student'[s].section = student[s].section
                                 /\ student'[s].status = student[s].status
                                 /\ student'[s].deleted = student[s].deleted

LEMMA SameActive ==
    ASSUME SameRolls PROVE \A x : Active(x)' = Active(x)
<1>1. ASSUME NEW x PROVE \A u : u \in Active(x)' <=> u \in Active(x)
      BY DEF SameRolls, Active, Living
<1>2. ASSUME NEW x PROVE Active(x)' = Active(x)
      BY <1>1
<1>. QED BY <1>2

\* One pupil does: of the sections it was in and is in.
LEMMA OneActive ==
    ASSUME NEW s, DOMAIN student' = DOMAIN student,
           \A u \in DOMAIN student : u # s => student'[u] = student[u]
    PROVE  /\ \A x : \/ Active(x)' = Active(x)
                     \/ x = student[s].section \/ x = student'[s].section
           /\ \A x, u : u \in Active(x)' => u \in Active(x) \/ u = s
<1>1. ASSUME NEW x, x # student[s].section, x # student'[s].section
      PROVE  Active(x)' = Active(x)
  <2>1. \A u : u \in Active(x)' <=> u \in Active(x)
        BY <1>1 DEF Active, Living
  <2>. QED BY <2>1
<1>2. \A x, u : u \in Active(x)' => u \in Active(x) \/ u = s
      BY DEF Active, Living
<1>. QED BY <1>1, <1>2

LEMMA RollsSame ==
    ASSUME Disciplined, PeopleShaped, NEW h \in Desks,
           \/ CountActive(h) \/ WriteStrength(h) \/ CheckSeat(h) \/ InsertGuardian(h)
           \/ FileGuardians(h) \/ Enrol(h) \/ OpenLogin(h) \/ NextOfCohort(h)
           \/ CloseEnrolments(h) \/ OpenEnrolment(h) \/ CloseLogin(h) \/ LinkGuardian(h)
           \/ UNCHANGED student
           \/ \E s, g : LinkChild(h, s, g)
    PROVE  SameRolls
<1>1. ASSUME NEW s \in DOMAIN student, NEW new,
             student' = [student EXCEPT ![s].guardians = new]
      PROVE  SameRolls
  <2>1. DOMAIN student' = DOMAIN student
        BY <1>1
  <2>2. ASSUME NEW u \in DOMAIN student
        PROVE  /\ student'[u].section = student[u].section
               /\ student'[u].status = student[u].status
               /\ student'[u].deleted = student[u].deleted
    <3>1. /\ student[u] \in Student
          /\ student'[u] = student[u] \/ student'[u] = [student[u] EXCEPT !.guardians = new]
          BY <1>1 DEF PeopleShaped, PupilsTyped
    <3>. QED BY <3>1 DEF Student
  <2>. QED BY <2>1, <2>2 DEF SameRolls
<1>2. ASSUME UNCHANGED student PROVE SameRolls
      BY <1>2 DEF SameRolls
<1>3. CASE FileGuardians(h)
  <2>1. PICK s, new : s = req[h].pupil /\ new = req[h].family
        OBVIOUS
  <2>2. UNCHANGED student \/ student' = [student EXCEPT ![s].guardians = new]
        BY <1>3, <2>1 DEF FileGuardians
  <2>3. s \in DOMAIN student
        BY <1>3, <2>1 DEF FileGuardians, PeopleShaped, Shaped, AdmissionShaped, Admitting
  <2>. QED BY <1>1, <1>2, <2>2, <2>3
<1>4. ASSUME NEW s, NEW g, LinkChild(h, s, g) PROVE SameRolls
      BY <1>1, <1>4, LinkBegins
<1>5. CASE NextOfCohort(h) \/ CheckSeat(h)
      BY <1>2, <1>5 DEF NextOfCohort, CheckSeat, people
<1>6. CASE CountActive(h) \/ WriteStrength(h) \/ InsertGuardian(h) \/ Enrol(h) \/ OpenLogin(h)
      BY <1>2, <1>6 DEF CountActive, WriteStrength, InsertGuardian, Enrol, OpenLogin
<1>7. CASE CloseEnrolments(h) \/ OpenEnrolment(h) \/ CloseLogin(h) \/ LinkGuardian(h)
      BY <1>2, <1>7 DEF CloseEnrolments, OpenEnrolment, CloseLogin, LinkGuardian
<1>. QED BY <1>2, <1>3, <1>4, <1>5, <1>6, <1>7

\* What the others do to one pupil's roll.
LEMMA MovesUp ==
    ASSUME Disciplined, PeopleShaped, NEW h \in Desks, MoveUp(h)
    PROVE  \E s \in DOMAIN student :
             /\ pc[h] = "move up" /\ pc'[h] = "promote" /\ req'[h] = req[h]
             /\ Pupil(s) \in req[h].claims /\ req[h].pupil = {s}
             /\ Section(req[h].section) \in req[h].claims
             /\ DOMAIN student' = DOMAIN student
             /\ \A u \in DOMAIN student : u # s => student'[u] = student[u]
             /\ student'[s].section = req[h].section
             /\ student'[s].status = student[s].status
             /\ student'[s].deleted = student[s].deleted
             /\ student[s].section # req[h].section =>
                  Section(student[s].section) \in unheeded'
             /\ \A x : Section(x) \in unheeded => Section(x) \in unheeded'
             /\ UNCHANGED <<enrolled, strength, wards, login>>
<1>1. /\ pc[h] = "move up" /\ pc'[h] = "promote" /\ req'[h] = req[h]
      /\ UNCHANGED <<enrolled, strength, wards, login>>
      BY LandsAfter DEF MoveUp
<1>2. PICK s, x, y : /\ req[h].pupil = {s} /\ s \in DOMAIN student
                     /\ Pupil(s) \in req[h].claims /\ Section(x) \in req[h].claims
                     /\ x = req[h].section /\ y = req[h].year
      BY <1>1 DEF PeopleShaped, Shaped, PromotionShaped, Promoting, OnFile
<1>3. /\ student' = [student EXCEPT ![s].section = x, ![s].year = y]
      /\ unheeded' = (unheeded \ {<<"year", s>>})
                       \cup ({Section(student[s].section)} \ {Section(x)})
      BY <1>2 DEF MoveUp
<1>4. /\ student[s] \in Student
      /\ student'[s] = [student[s] EXCEPT !.section = x, !.year = y]
      BY <1>2, <1>3 DEF PeopleShaped, PupilsTyped
<1>5. /\ student'[s].section = x /\ student'[s].status = student[s].status
      /\ student'[s].deleted = student[s].deleted
      BY <1>4 DEF Student
<1>6. /\ DOMAIN student' = DOMAIN student
      /\ \A u \in DOMAIN student : u # s => student'[u] = student[u]
      BY <1>3
<1>7. \A a : Section(a) \in unheeded => Section(a) \in unheeded'
      BY <1>3, FieldsApart
<1>8. student[s].section # x => Section(student[s].section) \in unheeded'
      BY <1>3 DEF Section
<1>. QED BY <1>1, <1>2, <1>5, <1>6, <1>7, <1>8

LEMMA StoresStatus ==
    ASSUME Disciplined, PeopleShaped, NEW h \in Desks, StoreStatus(h), NEW s,
           s = req[h].pupil
    PROVE  /\ pc[h] = "status" /\ pc'[h] = "count" /\ req'[h] = req[h]
           /\ s \in DOMAIN student /\ Pupil(s) \in req[h].claims
           /\ DOMAIN student' = DOMAIN student
           /\ \A u \in DOMAIN student : u # s => student'[u] = student[u]
           /\ student'[s].section = student[s].section
           /\ unheeded \subseteq unheeded'
           /\ \E a \in Sections : /\ req[h].recount = <<a>> /\ Section(a) \in req[h].claims
                                  /\ student[s].section # a =>
                                       Section(student[s].section) \in unheeded'
           /\ UNCHANGED <<enrolled, strength, wards, login>>
<1>1. /\ pc[h] = "status" /\ pc'[h] = "count" /\ req'[h] = req[h]
      /\ UNCHANGED <<enrolled, strength, wards, login>>
      BY LandsAfter DEF StoreStatus
<1>2. PICK a \in Sections : req[h].recount = <<a>> /\ Section(a) \in req[h].claims
      BY <1>1 DEF PeopleShaped, Shaped, StatusShaped, Leaving
<1>3. s \in DOMAIN student /\ Pupil(s) \in req[h].claims
      BY <1>1 DEF PeopleShaped, Shaped, StatusShaped, Leaving, OnFile
<1>4. PICK status : student' = [student EXCEPT ![s].status = status]
      BY DEF StoreStatus
<1>5. unheeded' = unheeded \cup ({Section(student[s].section)} \ {Section(a)})
  <2>1. Head(<<a>>) = a
        BY Lists
  <2>. QED BY <1>2, <2>1 DEF StoreStatus
<1>6. /\ student[s] \in Student /\ student'[s] = [student[s] EXCEPT !.status = status]
      BY <1>3, <1>4 DEF PeopleShaped, PupilsTyped
<1>7. student'[s].section = student[s].section
      BY <1>6 DEF Student
<1>8. /\ DOMAIN student' = DOMAIN student
      /\ \A u \in DOMAIN student : u # s => student'[u] = student[u]
      BY <1>4
<1>9. student[s].section # a => Section(student[s].section) \in unheeded'
      BY <1>5 DEF Section
<1>. QED BY <1>1, <1>2, <1>3, <1>5, <1>7, <1>8, <1>9

LEMMA Deletes ==
    ASSUME Disciplined, PeopleShaped, NEW h \in Desks, NEW s,
           \/ Remove(h) /\ s = req[h].pupil
           \/ Restore(h, s)
    PROVE  /\ s \in DOMAIN student
           /\ DOMAIN student' = DOMAIN student
           /\ \A u \in DOMAIN student : u # s => student'[u] = student[u]
           /\ student'[s].section = student[s].section
           /\ student'[s].status = student[s].status
           /\ unheeded \subseteq unheeded'
           /\ student' = student \/ Section(student[s].section) \in unheeded'
           /\ Remove(h) => student' = student \/ student'[s].deleted
           /\ UNCHANGED <<enrolled, strength, wards, login>>
<1>1. s \in DOMAIN student
  <2>1. Remove(h) => pc[h] = "remove"
        BY DEF Remove
  <2>. QED BY <2>1, Restores DEF PeopleShaped, Shaped, LinkShaped, OnFile
<1>2. PICK flag \in BOOLEAN :
        /\ \/ UNCHANGED <<student, unheeded>>
           \/ /\ student' = [student EXCEPT ![s].deleted = flag]
              /\ unheeded' = unheeded \cup {Section(student[s].section)}
        /\ Remove(h) => flag
  <2>1. CASE Remove(h) /\ s = req[h].pupil
        BY <2>1 DEF Remove
  <2>2. CASE Restore(h, s) /\ ~Remove(h)
        BY <2>2, Restores
  <2>3. CASE Restore(h, s) /\ Remove(h)
        BY <2>3, Restores DEF Remove
  <2>. QED BY <2>1, <2>2, <2>3
<1>3. UNCHANGED <<enrolled, strength, wards, login>>
      BY Restores DEF Remove
<1>4. student[s] \in Student
      BY <1>1 DEF PeopleShaped, PupilsTyped
<1>5. CASE UNCHANGED <<student, unheeded>>
      BY <1>1, <1>3, <1>5
<1>6. CASE /\ student' = [student EXCEPT ![s].deleted = flag]
           /\ unheeded' = unheeded \cup {Section(student[s].section)}
  <2>1. student'[s] = [student[s] EXCEPT !.deleted = flag]
        BY <1>1, <1>6
  <2>2. /\ student'[s].section = student[s].section
        /\ student'[s].status = student[s].status /\ student'[s].deleted = flag
        BY <1>4, <2>1 DEF Student
  <2>. QED BY <1>1, <1>2, <1>3, <1>6, <2>2
<1>. QED BY <1>2, <1>5, <1>6


-----------------------------------------------------------------------------
LEMMA TalliedQuiet ==
    ASSUME Disciplined, Disciplined', PeopleShaped, PeopleShaped', Tallied, NEW h \in Desks,
           Moves(h, PeopleCalls), SameRolls, strength' = strength, pc'[h] # "strength",
           pc'[h] = "edit" => student'[req'[h].pupil].section = req'[h].was,
           \A x : Section(x) \in unheeded => Section(x) \in unheeded',
           \A x : Owes(h, x) => Owes(h, x)' \/ Section(x) \in disturbed' \cup unheeded'
    PROVE  Tallied'
<1>1. \A x : Active(x)' = Active(x)
      BY SameActive
<1>2. \A x \in Sections : StrengthTrue(x)'
      BY <1>1, StrengthKept
<1>3. \A u \in DOMAIN student : student'[u].section = student[u].section
      BY DEF SameRolls
<1>4. \A k \in Desks : EditTrue(k)'
      BY <1>3, EditsKept
<1>. QED BY <1>2, <1>4 DEF Tallied

LEMMA TalliedOne ==
    ASSUME Disciplined, Disciplined', PeopleShaped, PeopleShaped', Tallied, NEW h \in Desks,
           Moves(h, PeopleCalls), NEW s \in DOMAIN student, strength' = strength,
           pc'[h] \notin {"strength", "edit"}, DOMAIN student' = DOMAIN student,
           \A u \in DOMAIN student : u # s => student'[u] = student[u],
           \A x \in {student[s].section, student'[s].section} :
             Active(x)' = Active(x) \/ Owes(h, x)' \/ Section(x) \in disturbed' \cup unheeded',
           \/ student'[s].section = student[s].section
           \/ Section(student[s].section) \in unheeded' \cup req[h].claims \cup req'[h].claims,
           \A x : Section(x) \in unheeded => Section(x) \in unheeded',
           \A x : Owes(h, x) => Owes(h, x)' \/ Section(x) \in disturbed' \cup unheeded'
    PROVE  Tallied'
<1>1. \A x : Active(x)' = Active(x) \/ Owes(h, x)' \/ Section(x) \in disturbed' \cup unheeded'
      BY OneActive
<1>2. \A x \in Sections : StrengthTrue(x)'
      BY <1>1, StrengthKept
<1>3. \A k \in Desks : EditTrue(k)'
      BY EditsKept
<1>. QED BY <1>2, <1>3 DEF Tallied

OwesNoCount(h) ==
    pc[h] \notin {"insert guardian", "file guardians", "promote", "close", "reopen",
                  "move up"} \cup Counting

LEMMA NoCount == ASSUME NEW h, OwesNoCount(h) PROVE \A x : ~Owes(h, x)
BY DEF OwesNoCount, Owes

LEMMA TalliedArrivals ==
    ASSUME Disciplined, Disciplined', PeopleShaped, PeopleShaped', Tallied, NEW h \in Desks,
           Moves(h, PeopleCalls), PeopleArrive(h)
    PROVE  Tallied'
<1>1. ASSUME UNCHANGED <<student, strength, unheeded>>, pc[h] = "idle",
             pc'[h] # "strength",
             pc'[h] = "edit" => student'[req'[h].pupil].section = req'[h].was
      PROVE  Tallied'
  <2>1. SameRolls
        BY <1>1, RollsSame
  <2>2. \A x : ~Owes(h, x)
        BY <1>1, NoCount DEF OwesNoCount, Counting
  <2>. QED BY <1>1, <2>1, <2>2, TalliedQuiet
<1>2. ASSUME UNCHANGED people, pc[h] = "idle", pc'[h] \notin {"strength", "edit"}
      PROVE  Tallied'
      BY <1>1, <1>2 DEF people
<1>3. ASSUME NEW s, NEW x, NEW family, NEW signs, BeginAdmission(h, s, x, family, signs)
      PROVE  Tallied'
      BY <1>2, <1>3, AdmissionBegins
<1>4. ASSUME NEW op, NEW s, NEW field, NEW value, BeginEdit(h, op, s, field, value)
      PROVE  Tallied'
      BY <1>1, <1>4, EditBegins DEF people
<1>5. ASSUME NEW cohort, NEW x, NEW y, BeginPromotion(h, cohort, x, y)
      PROVE  Tallied'
      BY <1>2, <1>5, PromotionBegins
<1>6. ASSUME NEW s, NEW status, BeginStatus(h, s, status) PROVE Tallied'
      BY <1>2, <1>6, StatusBegins
<1>7. ASSUME NEW s, BeginRemoval(h, s) PROVE Tallied'
      BY <1>2, <1>7, RemovalBegins
<1>8. ASSUME NEW s, Restore(h, s) PROVE Tallied'
  <2>1. /\ pc[h] = "idle" /\ pc'[h] = "idle"
        BY <1>8, Restores
  <2>2. /\ s \in DOMAIN student /\ DOMAIN student' = DOMAIN student
        /\ \A u \in DOMAIN student : u # s => student'[u] = student[u]
        /\ student'[s].section = student[s].section /\ strength' = strength
        /\ unheeded \subseteq unheeded'
        /\ student' = student \/ Section(student[s].section) \in unheeded'
        BY <1>8, Deletes
  <2>3. \A x : ~Owes(h, x)
        BY <2>1, NoCount DEF OwesNoCount, Counting
  <2>4. Active(student[s].section)' = Active(student[s].section)
           \/ Section(student[s].section) \in unheeded'
        BY <2>2 DEF Active, Living
  <2>. QED BY <2>1, <2>2, <2>3, <2>4, TalliedOne
<1>9. ASSUME NEW s, NEW g, LinkChild(h, s, g) PROVE Tallied'
  <2>1. /\ pc[h] = "idle" /\ pc'[h] = "link" /\ UNCHANGED <<strength, unheeded>>
        BY <1>9, LinkBegins
  <2>2. SameRolls
        BY <1>9, RollsSame
  <2>3. \A x : ~Owes(h, x)
        BY <2>1, NoCount DEF OwesNoCount, Counting
  <2>. QED BY <2>1, <2>2, <2>3, TalliedQuiet
<1>. QED BY <1>3, <1>4, <1>5, <1>6, <1>7, <1>8, <1>9 DEF PeopleArrive

LEMMA TalliedCounts ==
    ASSUME Disciplined, Disciplined', PeopleShaped, PeopleShaped', Tallied, NEW h \in Desks,
           Moves(h, PeopleCalls), CountActive(h) \/ WriteStrength(h) \/ NextOfCohort(h)
    PROVE  Tallied'
<1>0. SameRolls /\ \A x : Active(x)' = Active(x)
      BY RollsSame, SameActive
<1>1. ASSUME pc[h] \in Counting
      PROVE  \E a \in Sections :
               /\ Head(req[h].recount) = a /\ a \in Listed(req[h].recount)
               /\ Section(a) \in req[h].claims
               /\ \/ req[h].recount = <<a>>
                  \/ \E b \in Sections : req[h].recount = <<a, b>>
  <2>1. ShortList(req[h].recount) /\ \A a \in Listed(req[h].recount) : Section(a) \in req[h].claims
        BY <1>1 DEF PeopleShaped, Shaped, CountShaped
  <2>2. PICK list : list = req[h].recount
        OBVIOUS
  <2>3. PICK a \in Sections : list = <<a>> \/ \E b \in Sections : list = <<a, b>>
        BY <2>1, <2>2 DEF ShortList
  <2>4. Head(list) = a /\ a \in Listed(list)
    <3>1. ASSUME NEW b, list = <<a>> \/ list = <<a, b>> PROVE Head(list) = a /\ a \in Listed(list)
      <4>1. Listed(<<a>>) = {a} /\ Listed(<<a, b>>) = {a, b}
            BY Lists
      <4>. QED BY <3>1, <4>1, Lists
    <3>. QED BY <2>3, <3>1
  <2>. QED BY <2>1, <2>2, <2>3, <2>4
<1>2. CASE CountActive(h)
  <2>1. /\ pc[h] = "count" /\ pc'[h] = "strength" /\ UNCHANGED <<student, strength>>
        /\ DOMAIN req'[h] = DOMAIN req[h]
        /\ \A f \in DOMAIN req[h] \ {"counted"} : req'[h][f] = req[h][f]
        /\ req'[h].counted = Cardinality(Active(Head(req[h].recount)))
        /\ unheeded' = unheeded \ {Section(Head(req[h].recount))}
        BY <1>2, Counts
  <2>2. PICK a \in Sections : /\ Head(req[h].recount) = a /\ a \in Listed(req[h].recount)
                              /\ Section(a) \in req[h].claims
        BY <1>1, <2>1 DEF Counting
  <2>3. req'[h].recount = req[h].recount
        BY <2>1 DEF PeopleShaped, Shaped, CountShaped, Counting
  <2>4. Owes(h, a)'
        BY <2>1, <2>2, <2>3 DEF Owes, Counting
  <2>5. StrengthTrue(a)'
        BY <1>0, <2>1, <2>2, <2>4, StrengthOne
  <2>6. ASSUME NEW x \in Sections, x # a PROVE StrengthTrue(x)'
    <3>1. ~Holding(h, x)' /\ (Owes(h, x) => Owes(h, x)')
          BY <2>1, <2>2, <2>3, <2>6 DEF Owes, Holding, Counting
    <3>2. Section(x) \in unheeded => Section(x) \in unheeded'
          BY <2>1, <2>2, <2>6 DEF Section
    <3>3. StrengthTrue(x) /\ Active(x)' = Active(x) /\ strength'[x] = strength[x]
          BY <1>0, <2>1 DEF Tallied
    <3>. QED BY <3>1, <3>2, <3>3, StrengthBeside
  <2>7. \A x : Section(x) \in unheeded => Section(x) \in unheeded' \cup req[h].claims
        BY <2>1, <2>2
  <2>8. \A k \in Desks : EditTrue(k)'
        BY <1>0, <2>1, <2>7, EditsKept DEF SameRolls
  <2>. QED BY <2>5, <2>6, <2>8 DEF Tallied
<1>3. CASE WriteStrength(h)
  <2>1. /\ pc[h] = "strength" /\ UNCHANGED <<student, unheeded>>
        /\ strength' = [strength EXCEPT ![Head(req[h].recount)] = req[h].counted]
        /\ pc'[h] \in {"idle", "count", "enrol", "login"}
        /\ pc'[h] = "count" => req'[h].recount = Tail(req[h].recount)
        /\ Tail(req[h].recount) # <<>> => pc'[h] = "count"
        BY <1>3, Writes
  <2>2. PICK a \in Sections : /\ Head(req[h].recount) = a /\ Section(a) \in req[h].claims
                              /\ \/ req[h].recount = <<a>>
                                 \/ \E b \in Sections : req[h].recount = <<a, b>>
        BY <1>1, <2>1 DEF Counting
  <2>3. \A x : ~Holding(h, x)'
        BY <2>1 DEF Holding
  <2>4. DOMAIN strength = Sections
        BY DEF PeopleShaped, PupilsTyped
  <2>5. StrengthTrue(a)'
    <3>1. ASSUME Section(a) \notin disturbed' \cup unheeded'
          PROVE  strength'[a] = Cardinality(Active(a)')
      <4>1. Section(a) \notin disturbed \cup unheeded
            BY <2>1, <3>1 DEF Moves
      <4>2. req[h].counted = Cardinality(Active(a))
            BY <2>1, <2>2, <4>1 DEF Tallied, StrengthTrue, Holding
      <4>. QED BY <1>0, <2>1, <2>2, <2>4, <4>2
    <3>. QED BY <2>2, <2>3, <3>1, StrengthOne
  <2>6. ASSUME NEW x \in Sections, x # a PROVE StrengthTrue(x)'
    <3>1. StrengthTrue(x) /\ Active(x)' = Active(x) /\ strength'[x] = strength[x]
          BY <1>0, <2>1, <2>2, <2>6 DEF Tallied
    <3>2. ASSUME Owes(h, x) PROVE Owes(h, x)'
      <4>1. x \in Listed(req[h].recount)
            BY <2>1, <3>2 DEF Owes
      <4>2. req[h].recount # <<a>>
            BY ZenonT(40), <2>6, <4>1, Lists
      <4>3. PICK b \in Sections : req[h].recount = <<a, b>>
            BY <2>2, <4>2
      <4>4. x = b
        <5>1. Listed(<<a, b>>) = {a, b}
              BY Lists
        <5>. QED BY <2>6, <4>1, <4>3, <5>1
      <4>5. Tail(req[h].recount) = <<b>> /\ <<b>> # <<>>
            BY <4>3, Lists
      <4>6. pc'[h] = "count" /\ req'[h].recount = <<b>>
            BY <2>1, <4>5
      <4>7. b \in Listed(req'[h].recount)
            BY <4>6, Lists
      <4>. QED BY <4>4, <4>6, <4>7 DEF Owes, Counting
    <3>. QED BY <2>1, <2>3, <3>1, <3>2, StrengthBeside
  <2>7. \A k \in Desks : EditTrue(k)'
        BY <1>0, <2>1, EditsKept DEF SameRolls
  <2>. QED BY <2>5, <2>6, <2>7 DEF Tallied
<1>4. CASE NextOfCohort(h)
  <2>1. pc[h] = "promote" /\ pc'[h] \in {"count", "close", "promote"} /\ UNCHANGED people
        BY <1>4, Chooses
  <2>2. /\ req[h].recount = <<req[h].section>> /\ DOMAIN req[h] = PromotionFields
        BY <2>1 DEF PeopleShaped, Shaped, PromotionShaped, Promoting
  <2>3. req'[h].section = req[h].section /\ req'[h].recount = req[h].recount
        BY <1>4, <2>2, Chooses DEF PromotionFields
  <2>4. ASSUME NEW x, Owes(h, x) PROVE Owes(h, x)'
    <3>1. req[h].section = x
          BY <2>1, <2>4 DEF Owes, Counting
    <3>2. x \in Listed(req'[h].recount)
          BY ZenonT(40), <2>2, <2>3, <3>1, Lists
    <3>. QED BY <2>1, <2>3, <3>1, <3>2 DEF Owes, Counting
  <2>. QED BY <1>0, <2>1, <2>4, TalliedQuiet DEF people
<1>. QED BY <1>2, <1>3, <1>4

LEMMA TalliedAdmissions ==
    ASSUME Disciplined, Disciplined', PeopleShaped, PeopleShaped', Tallied, Newcomers,
           NEW h \in Desks, Moves(h, PeopleCalls),
           \/ CheckSeat(h) \/ InsertStudent(h) \/ InsertGuardian(h)
           \/ FileGuardians(h) \/ Enrol(h) \/ OpenLogin(h)
    PROVE  Tallied'
<1>. USE DEF OwesNoCount, Counting
<1>1. CASE CheckSeat(h)
  <2>1. /\ pc[h] = "seat" /\ UNCHANGED <<strength, unheeded>>
        /\ pc'[h] \in {"idle", "insert student"}
        BY <1>1, Lands DEF people
  <2>2. SameRolls
        BY <1>1, RollsSame
  <2>. QED BY <2>1, <2>2, NoCount, TalliedQuiet
<1>2. CASE InsertStudent(h)
  <2>1. PICK s, x : s = req[h].pupil /\ x = req[h].section
        OBVIOUS
  <2>2. PICK r : student' = With(student, s, r) /\ r.section = x
    <3>. DEFINE new == [section |-> x, year |-> req[h].year, deleted |-> FALSE,
                        status |-> "active", guardians |-> {}]
    <3>1. student' = With(student, s, new)
          BY <1>2, <2>1 DEF InsertStudent
    <3>2. new.section = x
          OBVIOUS
    <3>. HIDE DEF new
    <3>. QED BY <3>1, <3>2
  <2>3. /\ pc[h] = "insert student" /\ req'[h] = req[h]
        /\ pc'[h] \in {"count", "insert guardian"} /\ UNCHANGED <<strength, unheeded>>
        BY <1>2, Lands DEF InsertStudent
  <2>4. /\ DOMAIN student' = DOMAIN student \cup {s} /\ student'[s] = r
        /\ \A u \in DOMAIN student \ {s} : student'[u] = student[u]
        BY <2>2 DEF With
  <2>5. s \notin DOMAIN student
        BY <2>1, <2>3 DEF Newcomers, Newly
  <2>6. req'[h].recount = <<x>> /\ req'[h].section = x
        BY <2>1, <2>3 DEF PeopleShaped, Shaped, AdmissionShaped, Admitting
  <2>7. Owes(h, x)'
        BY <2>3, <2>6, Lists DEF Owes
  <2>8. ASSUME NEW a, a # x PROVE Active(a)' = Active(a)
    <3>1. \A u : u \in Active(a)' <=> u \in Active(a)
          BY <2>2, <2>4, <2>5, <2>8 DEF Active, Living
    <3>. QED BY <3>1
  <2>9. \A a : ~Owes(h, a)
        BY <2>3, NoCount
  <2>10. \A a \in Sections : StrengthTrue(a)'
    <3>1. \A a : Active(a)' = Active(a) \/ Owes(h, a)'
          BY <2>7, <2>8
    <3>. QED BY <2>3, <2>9, <3>1, StrengthKept
  <2>11. \A k \in Desks : EditTrue(k)'
        BY <2>3, <2>4, <2>5, EditsKept
  <2>. QED BY <2>10, <2>11 DEF Tallied
<1>3. CASE InsertGuardian(h)
  <2>1. /\ pc[h] = "insert guardian" /\ req'[h] = req[h]
        /\ pc'[h] \in {"file guardians", "insert guardian"} /\ UNCHANGED <<strength, unheeded>>
        BY <1>3, Lands DEF InsertGuardian
  <2>2. SameRolls
        BY <1>3, RollsSame
  <2>3. \A x : Owes(h, x) => Owes(h, x)'
        BY <2>1 DEF Owes
  <2>. QED BY <2>1, <2>2, <2>3, TalliedQuiet
<1>4. CASE FileGuardians(h)
  <2>1. /\ pc[h] = "file guardians" /\ UNCHANGED <<strength, unheeded>>
        /\ \/ pc'[h] = "count" /\ req'[h] = req[h]
           \/ pc'[h] = "idle" /\ req[h].claims \subseteq disturbed'
        BY <1>4, Lands DEF FileGuardians
  <2>2. SameRolls
        BY <1>4, RollsSame
  <2>3. req[h].recount = <<req[h].section>>
        BY <2>1 DEF PeopleShaped, Shaped, AdmissionShaped, Admitting
  <2>4. ASSUME NEW x, Owes(h, x) PROVE Owes(h, x)' \/ Section(x) \in disturbed'
    <3>1. req[h].section = x /\ Section(x) \in req[h].claims
          BY <2>1, <2>4, OwedIsClaimed DEF Owes
    <3>2. x \in Listed(req[h].recount)
          BY <2>3, <3>1, Lists
    <3>. QED BY <2>1, <3>1, <3>2 DEF Owes
  <2>. QED BY <2>1, <2>2, <2>4, TalliedQuiet
<1>5. CASE Enrol(h) \/ OpenLogin(h)
  <2>1. /\ pc[h] \in {"enrol", "open login"} /\ pc'[h] \in {"idle", "open login"}
        /\ UNCHANGED <<strength, unheeded>>
        BY <1>5, Lands DEF Enrol, OpenLogin
  <2>2. SameRolls
        BY <1>5, RollsSame
  <2>. QED BY <2>1, <2>2, NoCount, TalliedQuiet
<1>. QED BY <1>1, <1>2, <1>3, <1>4, <1>5

LEMMA TalliedEdits ==
    ASSUME Disciplined, Disciplined', PeopleShaped, PeopleShaped', Tallied,
           NEW h \in Desks, Moves(h, PeopleCalls), StoreEdit(h)
    PROVE  Tallied'
<1>. USE DEF OwesNoCount, Counting
<1>1. PICK s, was : s = req[h].pupil /\ was = req[h].was
      OBVIOUS
<1>2. /\ pc[h] = "edit" /\ strength' = strength /\ s \in DOMAIN student
      /\ Section(was) \in req[h].claims
  <2>1. pc[h] = "edit" /\ strength' = strength /\ s \in DOMAIN student
        BY <1>1, Edits
  <2>. QED BY <1>1, <2>1 DEF PeopleShaped, Shaped, EditShaped
<1>3. \A x : ~Owes(h, x)
      BY <1>2, NoCount
<1>4. CASE UNCHANGED <<student, unheeded>> /\ pc'[h] = "idle"
  <2>1. SameRolls
        BY <1>4, RollsSame
  <2>. QED BY <1>2, <1>3, <1>4, <2>1, TalliedQuiet
<1>5. CASE ~(UNCHANGED <<student, unheeded>> /\ pc'[h] = "idle")
  <2>1. PICK new \in Student, field \in Followed \cup {"section"} : \E value :
          /\ student' = [student EXCEPT ![s] = new]
          /\ new.deleted = student[s].deleted
          /\ new.section = (IF field = "section" THEN value ELSE student[s].section)
          /\ new.status = (IF field = "status" THEN value ELSE student[s].status)
          /\ unheeded' = unheeded
               \cup {<<f, s>> : f \in {field} \cap Followed}
               \cup (IF field = "status" THEN {Section(new.section)} ELSE {})
               \cup ({Section(student[s].section)} \ {Section(was), Section(new.section)})
          /\ \/ was = new.section /\ pc'[h] = "idle"
             \/ was # new.section /\ pc'[h] = "count" /\ req'[h].recount = <<was, new.section>>
    <3>1. PICK new \in Student, field \in Followed \cup {"section"} : \E value :
            /\ field = req[h].field /\ value = req[h].value
            /\ new = Edited(s, field, value)
            /\ student' = [student EXCEPT ![s] = new]
            /\ new.deleted = student[s].deleted
            /\ new.section = (IF field = "section" THEN value ELSE student[s].section)
            /\ new.status = (IF field = "status" THEN value ELSE student[s].status)
            /\ new.year = (IF field = "year" THEN value ELSE student[s].year)
            /\ new.guardians
                 = (IF field = "guardians" THEN value ELSE student[s].guardians)
            /\ new.guardians \subseteq DOMAIN wards
            /\ unheeded' = unheeded
                 \cup {<<f, s>> : f \in {field} \cap Followed}
                 \cup (IF field = "status" THEN {Section(new.section)} ELSE {})
                 \cup ({Section(student[s].section)} \
                         {Section(req[h].was), Section(new.section)})
            /\ \/ /\ req[h].was = new.section /\ pc'[h] = "idle"
                  /\ disturbed' = disturbed
               \/ /\ req[h].was # new.section /\ pc'[h] = "count"
                  /\ DOMAIN req'[h] = EditFields
                  /\ req'[h].recount = <<req[h].was, new.section>>
                  /\ req'[h].then = "idle"
                  /\ req'[h].claims = req[h].claims \cup {Section(new.section)}
          BY <1>1, <1>5, Edits
    <3>. QED BY <1>1, <3>1
  <2>2. PICK old, now : old = student[s].section /\ now = new.section
        OBVIOUS
  <2>3. /\ DOMAIN student' = DOMAIN student /\ student'[s] = new
        /\ \A u \in DOMAIN student : u # s => student'[u] = student[u]
        /\ unheeded \subseteq unheeded'
        /\ old # was /\ old # now => Section(old) \in unheeded'
        /\ field = "status" => Section(now) \in unheeded'
        /\ field # "section" => now = old
        /\ field # "status" => new.status = student[s].status
        /\ new.deleted = student[s].deleted
        BY <1>2, <2>1, <2>2 DEF Section
  <2>4. ASSUME now = old, field # "status" PROVE \A x : Active(x)' = Active(x)
    <3>1. SameRolls
          BY <2>2, <2>3, <2>4 DEF SameRolls
    <3>. QED BY <3>1, SameActive
  <2>5. CASE was # now
    <3>1. pc'[h] = "count" /\ req'[h].recount = <<was, now>>
          BY <2>1, <2>2, <2>5
    <3>2. Listed(<<was, now>>) = {was, now}
          BY Lists
    <3>3. Owes(h, was)' /\ Owes(h, now)'
          BY <3>1, <3>2 DEF Owes
    <3>4. student'[s].section = student[s].section
            \/ Section(student[s].section) \in unheeded' \cup req[h].claims
          BY <1>2, <2>2, <2>3
    <3>5. \A x \in {student[s].section, student'[s].section} :
            Owes(h, x)' \/ Section(x) \in unheeded'
          BY <2>2, <2>3, <3>3
    <3>. QED BY <1>2, <1>3, <2>3, <3>1, <3>4, <3>5, TalliedOne
  <2>6. CASE was = now
    <3>1. pc'[h] = "idle"
          BY <2>1, <2>2, <2>6
    <3>2. old # now => Section(old) \in unheeded'
          BY <2>3, <2>6
    <3>3. ASSUME old # now PROVE Section(now) \in disturbed' \cup unheeded'
      <4>1. disturbed \subseteq disturbed'
            BY DEF Moves
      <4>2. Section(was) \in disturbed \cup unheeded
            BY <1>1, <1>2, <2>2, <2>6, <3>3 DEF Tallied, EditTrue
      <4>. QED BY <2>3, <2>6, <4>1, <4>2
    <3>4. \A x \in {student[s].section, student'[s].section} :
            Active(x)' = Active(x) \/ Section(x) \in disturbed' \cup unheeded'
          BY <2>2, <2>3, <2>4, <3>2, <3>3
    <3>5. student'[s].section = student[s].section \/ Section(student[s].section) \in unheeded'
          BY <2>2, <2>3, <3>2
    <3>. QED BY <1>2, <1>3, <2>3, <3>1, <3>4, <3>5, TalliedOne
  <2>. QED BY <2>5, <2>6
<1>. QED BY <1>4, <1>5

LEMMA TalliedDepartures ==
    ASSUME Disciplined, Disciplined', PeopleShaped, PeopleShaped', Tallied,
           NEW h \in Desks, Moves(h, PeopleCalls),
           Remove(h) \/ StoreStatus(h) \/ CloseLogin(h) \/ LinkGuardian(h)
    PROVE  Tallied'
<1>. USE DEF OwesNoCount, Counting
<1>1. PICK s : s = req[h].pupil
      OBVIOUS
<1>2. CASE Remove(h)
  <2>1. pc[h] = "remove" /\ pc'[h] = "idle"
        BY <1>2, LandsAfter
  <2>2. /\ s \in DOMAIN student /\ DOMAIN student' = DOMAIN student
        /\ \A u \in DOMAIN student : u # s => student'[u] = student[u]
        /\ student'[s].section = student[s].section /\ strength' = strength
        /\ unheeded \subseteq unheeded'
        /\ student' = student \/ Section(student[s].section) \in unheeded'
        BY <1>1, <1>2, Deletes
  <2>3. \A x : ~Owes(h, x)
        BY <2>1, NoCount
  <2>4. Active(student[s].section)' = Active(student[s].section)
           \/ Section(student[s].section) \in unheeded'
        BY <2>2 DEF Active, Living
  <2>. QED BY <2>1, <2>2, <2>3, <2>4, TalliedOne
<1>3. CASE StoreStatus(h)
  <2>1. /\ pc[h] = "status" /\ pc'[h] = "count" /\ req'[h] = req[h]
        /\ s \in DOMAIN student /\ DOMAIN student' = DOMAIN student
        /\ \A u \in DOMAIN student : u # s => student'[u] = student[u]
        /\ student'[s].section = student[s].section
        /\ unheeded \subseteq unheeded' /\ strength' = strength
        BY <1>1, <1>3, StoresStatus
  <2>2. PICK a \in Sections : /\ req[h].recount = <<a>>
                              /\ student[s].section # a => Section(student[s].section) \in unheeded'
        BY <1>1, <1>3, StoresStatus
  <2>3. Owes(h, a)'
        BY <2>1, <2>2, Lists DEF Owes
  <2>4. \A x : ~Owes(h, x)
        BY <2>1, NoCount
  <2>5. \A x \in {student[s].section, student'[s].section} :
          Owes(h, x)' \/ Section(x) \in unheeded'
        BY <2>1, <2>2, <2>3
  <2>. QED BY <2>1, <2>4, <2>5, TalliedOne
<1>4. CASE CloseLogin(h) \/ LinkGuardian(h)
  <2>1. /\ pc[h] \in {"login", "link"} /\ pc'[h] = "idle" /\ strength' = strength
        BY <1>4, LandsAfter DEF CloseLogin, LinkGuardian
  <2>2. \A x : Section(x) \in unheeded => Section(x) \in unheeded'
    <3>1. LinkGuardian(h) => unheeded' = unheeded
          BY DEF LinkGuardian
    <3>2. CloseLogin(h) => unheeded' = unheeded \ {<<"status", s>>}
          BY <1>1 DEF CloseLogin
    <3>. QED BY <1>4, <3>1, <3>2, FieldsApart
  <2>3. SameRolls
        BY <1>4, RollsSame
  <2>. QED BY <2>1, <2>2, <2>3, NoCount, TalliedQuiet
<1>. QED BY <1>2, <1>3, <1>4

LEMMA TalliedPromotions ==
    ASSUME Disciplined, Disciplined', PeopleShaped, PeopleShaped', Tallied,
           NEW h \in Desks, Moves(h, PeopleCalls),
           CloseEnrolments(h) \/ OpenEnrolment(h) \/ MoveUp(h)
    PROVE  Tallied'
<1>1. CASE CloseEnrolments(h)
  <2>1. /\ pc[h] = "close" /\ pc'[h] = "reopen" /\ req'[h] = req[h]
        /\ UNCHANGED <<strength, unheeded>>
        BY <1>1, LandsAfter DEF CloseEnrolments
  <2>2. SameRolls
        BY <1>1, RollsSame
  <2>3. \A x : Owes(h, x) => Owes(h, x)'
        BY <2>1 DEF Owes, Counting
  <2>. QED BY <2>1, <2>2, <2>3, TalliedQuiet
<1>2. CASE OpenEnrolment(h)
  <2>1. PICK s : req[h].pupil = {s}
    <3>1. pc[h] = "reopen"
          BY <1>2, LandsAfter
    <3>. QED BY <3>1 DEF PeopleShaped, Shaped, PromotionShaped, Promoting
  <2>2. /\ pc[h] = "reopen" /\ strength' = strength
        /\ \/ BreakOff(h, {Pupil(s)}) /\ unheeded' = unheeded \cup {Section(req[h].section)}
           \/ Goto(h, "move up") /\ unheeded' = unheeded
        BY <1>2, <2>1 DEF OpenEnrolment
  <2>3. SameRolls
        BY <1>2, RollsSame
  <2>4. \A x : Owes(h, x) => req[h].section = x
        BY <2>2 DEF Owes, Counting
  <2>5. CASE BreakOff(h, {Pupil(s)}) /\ unheeded' = unheeded \cup {Section(req[h].section)}
    <3>1. pc'[h] = "idle"
          BY <2>5, Breaks
    <3>. QED BY <2>2, <2>3, <2>4, <2>5, <3>1, TalliedQuiet
  <2>6. CASE Goto(h, "move up") /\ unheeded' = unheeded
    <3>1. pc'[h] = "move up" /\ req'[h] = req[h]
          BY <2>6, GoesTo
    <3>2. \A x : Owes(h, x) => Owes(h, x)'
          BY <2>4, <3>1 DEF Owes
    <3>. QED BY <2>2, <2>3, <2>6, <3>1, <3>2, TalliedQuiet
  <2>. QED BY <2>2, <2>5, <2>6
<1>3. CASE MoveUp(h)
  <2>1. PICK s \in DOMAIN student :
          /\ pc[h] = "move up" /\ pc'[h] = "promote" /\ req'[h] = req[h]
          /\ DOMAIN student' = DOMAIN student
          /\ \A u \in DOMAIN student : u # s => student'[u] = student[u]
          /\ student'[s].section = req[h].section
          /\ student[s].section # req[h].section => Section(student[s].section) \in unheeded'
          /\ \A x : Section(x) \in unheeded => Section(x) \in unheeded'
          /\ strength' = strength
        BY <1>3, MovesUp
  <2>2. \A x : Owes(h, x) => Owes(h, x)'
        BY <2>1 DEF Owes, Counting
  <2>3. Owes(h, req[h].section)'
        BY <2>1 DEF Owes
  <2>4. \A x \in {student[s].section, student'[s].section} :
          Owes(h, x)' \/ Section(x) \in unheeded'
        BY <2>1, <2>3
  <2>. QED BY <2>1, <2>2, <2>4, TalliedOne
<1>. QED BY <1>1, <1>2, <1>3

LEMMA TalliedSound ==
    ASSUME Disciplined, Disciplined', PeopleShaped, PeopleShaped', Enrolled, Tallied,
           [Next]_vars
    PROVE  Tallied'
<1>1. ASSUME NEW h \in Desks, PeopleStep(h) PROVE Tallied'
  <2>1. Moves(h, PeopleCalls) /\ Newcomers
        BY <1>1, PeopleMoves DEF Enrolled
  <2>. QED BY <1>1, <2>1, TalliedArrivals, TalliedCounts, TalliedAdmissions, TalliedEdits,
           TalliedDepartures, TalliedPromotions DEF PeopleStep, PeopleResume
<1>2. CASE ~\E h \in Desks : PeopleStep(h)
      BY <1>2, NextPasses, TalliedPassed DEF NextIsTheirs
<1>. QED BY <1>1, <1>2

LEMMA TalliedAlways == Spec => [](Disciplined /\ PeopleShaped /\ Enrolled /\ Tallied)
<1>1. Init => Disciplined /\ PeopleShaped /\ Enrolled /\ Tallied
      BY DisciplineStarts, PeopleStart, EnrolledStart, TalliedStart
<1>2. Disciplined /\ PeopleShaped /\ Enrolled /\ Tallied /\ [Next]_vars
        => (Disciplined /\ PeopleShaped /\ Enrolled /\ Tallied)'
      BY DisciplineKept, PeopleKeepsShape, EnrolledSound, TalliedSound
<1>. QED BY <1>1, <1>2, PTL DEF Spec

\* The strength of a section that no request is about, and none that failed
\* was, is the number of its active pupils, wherever the code recounts: however
\* admissions, moves and changes of status read and write it in between.
THEOREM StrengthsAreCounted == Spec => []StrengthCounted
<1>1. ASSUME PeopleShaped, Tallied, NEW x \in Sections,
             Calm(Section(x)), Section(x) \notin unheeded
      PROVE  strength[x] = Cardinality(Active(x))
  <2>1. \A h \in Desks : ~Owes(h, x)
        BY <1>1, OwedIsClaimed DEF Calm
  <2>. QED BY <1>1, <2>1 DEF Calm, Tallied, StrengthTrue
<1>2. PeopleShaped /\ Tallied => StrengthCounted
      BY <1>1 DEF StrengthCounted
<1>. QED BY <1>2, TalliedAlways, PTL

-----------------------------------------------------------------------------
(* The seats of the sections: what was read of a section before a pupil is *)
(* inserted still holds at the insert, unless another request was about    *)
(* that section in between.                                                *)

\* An edit or a change of status knows the section its pupil is in.
Settled(k) ==
    Pupil(req[k].pupil) \notin disturbed =>
      /\ pc[k] = "edit" => student[req[k].pupil].section = req[k].was
      /\ pc[k] = "status" => req[k].recount = <<student[req[k].pupil].section>>

\* Nobody is about to edit, or change the status of, a pupil of the section
\* that h admits to.
Uncontested(h, k) ==
    /\ pc[h] \in {"seat", "insert student"} /\ Section(req[h].section) \notin disturbed
    /\ pc[k] \in {"edit", "status"}
    => student[req[k].pupil].section # req[h].section

SeatFree(x) == Capacity[x] = 0 \/ Cardinality(Active(x)) < Capacity[x]

SeatKept(h) ==
    pc[h] = "insert student" /\ Section(req[h].section) \notin disturbed =>
      SeatFree(req[h].section)

Seating == /\ \A h \in Desks : Settled(h) /\ SeatKept(h)
           /\ \A h, k \in Desks : Uncontested(h, k)

\* What a step of k may do to sections: it moves pupils to ones it is about,
\* and lets pupils count in those, in the one of the pupil it edits or whose
\* status it changes, or in one whose other requests it disturbs.
Relocates(k) ==
    /\ DOMAIN student \subseteq DOMAIN student'
    /\ \A u \in DOMAIN student :
         \/ student'[u].section = student[u].section
         \/ Pupil(u) \in req[k].claims /\ Section(student'[u].section) \in req[k].claims

Fills(k, x) ==
    \/ Section(x) \in req[k].claims
    \/ pc[k] \in {"edit", "status"} /\ student[req[k].pupil].section = x
    \/ Section(x) \in disturbed' \/ Section(x) \notin HeldByOthers(k)

FillsItsOwn(k) == \A x : Fills(k, x) \/ \A u : u \in Active(x)' => u \in Active(x)

-----------------------------------------------------------------------------
LEMMA SeatingStart == ASSUME Init PROVE Seating
<1>1. \A h \in Desks : pc[h] = "idle"
      BY DEF Init, RequestsInit
<1>. QED BY <1>1 DEF Seating, Settled, SeatKept, Uncontested

LEMMA QuietlySeated ==
    ASSUME NEW k, SameRolls
    PROVE  Relocates(k) /\ FillsItsOwn(k) /\ DOMAIN student' = DOMAIN student
BY SameActive DEF SameRolls, Relocates, FillsItsOwn

LEMMA OneSeated ==
    ASSUME NEW k, NEW s \in DOMAIN student, DOMAIN student' = DOMAIN student,
           \A u \in DOMAIN student : u # s => student'[u] = student[u],
           \/ student'[s].section = student[s].section
           \/ Pupil(s) \in req[k].claims /\ Section(student'[s].section) \in req[k].claims,
           student'[s].deleted \/ Fills(k, student'[s].section)
    PROVE  Relocates(k) /\ FillsItsOwn(k)
<1>1. ASSUME NEW x, NEW u, u \in Active(x)' PROVE Fills(k, x) \/ u \in Active(x)
  <2>1. x = student'[u].section /\ u \in DOMAIN student /\ ~student'[u].deleted
        BY <1>1 DEF Active, Living
  <2>2. CASE u = s
        BY <1>1, <2>1, <2>2
  <2>3. CASE u # s
        BY <1>1, <2>1, <2>3 DEF Active, Living
  <2>. QED BY <2>2, <2>3
<1>2. FillsItsOwn(k)
      BY <1>1 DEF FillsItsOwn
<1>. QED BY <1>2 DEF Relocates

LEMMA SeatsTaken ==
    ASSUME Disciplined, PeopleShaped, Newcomers, NEW k \in Desks, PeopleStep(k)
    PROVE  /\ Relocates(k) /\ FillsItsOwn(k)
           /\ InsertStudent(k) \/ DOMAIN student' = DOMAIN student
<1>1. CASE \/ CountActive(k) \/ WriteStrength(k) \/ CheckSeat(k) \/ InsertGuardian(k)
           \/ FileGuardians(k) \/ Enrol(k) \/ OpenLogin(k) \/ NextOfCohort(k)
           \/ CloseEnrolments(k) \/ OpenEnrolment(k) \/ CloseLogin(k) \/ LinkGuardian(k)
           \/ UNCHANGED student
           \/ \E s, g : LinkChild(k, s, g)
      BY <1>1, RollsSame, QuietlySeated
<1>2. CASE InsertStudent(k)
  <2>1. PICK s, x : s = req[k].pupil /\ x = req[k].section
        OBVIOUS
  <2>2. PICK r : student' = With(student, s, r) /\ r.section = x
    <3>. DEFINE new == [section |-> x, year |-> req[k].year, deleted |-> FALSE,
                        status |-> "active", guardians |-> {}]
    <3>1. student' = With(student, s, new)
          BY <1>2, <2>1 DEF InsertStudent
    <3>2. new.section = x
          OBVIOUS
    <3>. HIDE DEF new
    <3>. QED BY <3>1, <3>2
  <2>3. pc[k] = "insert student"
        BY <1>2, Lands
  <2>4. /\ DOMAIN student' = DOMAIN student \cup {s} /\ student'[s] = r
        /\ \A u \in DOMAIN student \ {s} : student'[u] = student[u]
        BY <2>2 DEF With
  <2>5. s \notin DOMAIN student
        BY <2>1, <2>3 DEF Newcomers, Newly
  <2>6. Section(x) \in req[k].claims
        BY <2>1, <2>3 DEF PeopleShaped, Shaped, AdmissionShaped, Admitting
  <2>7. ASSUME NEW a, a # x, NEW u, u \in Active(a)' PROVE u \in Active(a)
        BY <2>2, <2>4, <2>7 DEF Active, Living
  <2>8. FillsItsOwn(k)
        BY <2>6, <2>7 DEF FillsItsOwn, Fills
  <2>. QED BY <1>2, <2>4, <2>5, <2>8 DEF Relocates
<1>3. CASE MoveUp(k)
  <2>1. PICK s \in DOMAIN student :
          /\ Pupil(s) \in req[k].claims /\ Section(req[k].section) \in req[k].claims
          /\ DOMAIN student' = DOMAIN student
          /\ \A u \in DOMAIN student : u # s => student'[u] = student[u]
          /\ student'[s].section = req[k].section
        BY <1>3, MovesUp
  <2>. QED BY <2>1, OneSeated DEF Fills
<1>4. CASE StoreStatus(k)
  <2>1. PICK s : s = req[k].pupil
        OBVIOUS
  <2>2. /\ pc[k] = "status" /\ s \in DOMAIN student /\ DOMAIN student' = DOMAIN student
        /\ \A u \in DOMAIN student : u # s => student'[u] = student[u]
        /\ student'[s].section = student[s].section
        BY <1>4, <2>1, StoresStatus
  <2>. QED BY <2>1, <2>2, OneSeated DEF Fills
<1>5. CASE Remove(k)
  <2>1. PICK s : s = req[k].pupil
        OBVIOUS
  <2>2. /\ s \in DOMAIN student /\ DOMAIN student' = DOMAIN student
        /\ \A u \in DOMAIN student : u # s => student'[u] = student[u]
        /\ student'[s].section = student[s].section
        /\ student' = student \/ student'[s].deleted
        BY <1>5, <2>1, Deletes
  <2>3. CASE student' = student
        BY <1>1, <2>3
  <2>4. CASE student'[s].deleted
        BY <2>2, <2>4, OneSeated
  <2>. QED BY <2>2, <2>3, <2>4
<1>6. ASSUME NEW s, Restore(k, s)
      PROVE  Relocates(k) /\ FillsItsOwn(k) /\ DOMAIN student' = DOMAIN student
  <2>1. /\ s \in DOMAIN student /\ DOMAIN student' = DOMAIN student
        /\ \A u \in DOMAIN student : u # s => student'[u] = student[u]
        /\ student'[s].section = student[s].section
        BY <1>6, Deletes
  <2>2. disturbed' = {Pupil(s), Section(student[s].section)} \cap HeldByOthers(k)
        BY <1>6, Restores
  <2>3. Fills(k, student'[s].section)
        BY <2>1, <2>2 DEF Fills
  <2>. QED BY <2>1, <2>3, OneSeated
<1>7. CASE StoreEdit(k)
  <2>1. PICK s : s = req[k].pupil
        OBVIOUS
  <2>2. pc[k] = "edit" /\ s \in DOMAIN student /\ Pupil(s) \in req[k].claims
        BY <1>7, <2>1, Edits
  <2>3. CASE student' = student
        BY <1>1, <2>3
  <2>4. CASE student' # student
    <3>1. PICK new, field, value :
            /\ field = req[k].field /\ value = req[k].value
            /\ student' = [student EXCEPT ![s] = new]
            /\ new.section = (IF field = "section" THEN value ELSE student[s].section)
      <4>1. PICK new \in Student, field \in Followed \cup {"section"} : \E value :
              /\ field = req[k].field /\ value = req[k].value
              /\ student' = [student EXCEPT ![s] = new]
              /\ new.section = (IF field = "section" THEN value ELSE student[s].section)
            BY <1>7, <2>1, <2>4, Edits
      <4>. QED BY <4>1
    <3>2. /\ DOMAIN student' = DOMAIN student /\ student'[s] = new
          /\ \A u \in DOMAIN student : u # s => student'[u] = student[u]
          BY <2>2, <3>1
    <3>3. field = "section" => Section(value) \in req[k].claims
          BY <2>2, <3>1 DEF PeopleShaped, Shaped, EditShaped
    <3>4. CASE new.section = student[s].section
          BY <2>1, <2>2, <3>2, <3>4, OneSeated DEF Fills
    <3>5. CASE new.section # student[s].section
      <4>1. Section(new.section) \in req[k].claims
            BY <3>1, <3>3, <3>5
      <4>. QED BY <2>2, <3>2, <4>1, OneSeated DEF Fills
    <3>. QED BY <3>2, <3>4, <3>5
  <2>. QED BY <2>3, <2>4
<1>8. CASE PeopleArrive(k)
  <2>1. ASSUME UNCHANGED people PROVE UNCHANGED student
        BY <2>1 DEF people
  <2>. QED BY <1>1, <1>6, <1>8, <2>1, AdmissionBegins, EditBegins, PromotionBegins,
              StatusBegins, RemovalBegins DEF PeopleArrive
<1>. QED BY <1>1, <1>2, <1>3, <1>4, <1>5, <1>7, <1>8 DEF PeopleStep, PeopleResume

LEMMA FiniteActive ==
    ASSUME PeopleShaped, NEW x
    PROVE  IsFiniteSet(Active(x)) /\ Cardinality(Active(x)) \in Nat
<1>1. Active(x) \subseteq DOMAIN student /\ IsFiniteSet(DOMAIN student)
      BY DEF PeopleShaped, PupilsTyped, Active, Living
<1>. QED BY <1>1, FS_Subset, FS_CardinalityType

LEMMA OnlyArriving ==
    ASSUME Disciplined, PeopleShaped, NEW k \in Desks, PeopleResume(k)
    PROVE  /\ pc'[k] \notin {"edit", "status", "seat"}
           /\ pc'[k] = "insert student" => CheckSeat(k)
<1>1. CASE CountActive(k) \/ WriteStrength(k) \/ NextOfCohort(k)
      BY <1>1, Counts, Writes, Chooses
<1>2. CASE \/ CheckSeat(k) \/ InsertStudent(k) \/ InsertGuardian(k)
           \/ FileGuardians(k) \/ Enrol(k) \/ OpenLogin(k)
      BY <1>2, Lands
<1>3. CASE StoreEdit(k)
      BY ZenonT(40), <1>3, Edits
<1>4. CASE \/ Remove(k) \/ CloseEnrolments(k) \/ OpenEnrolment(k) \/ MoveUp(k)
           \/ StoreStatus(k) \/ CloseLogin(k) \/ LinkGuardian(k)
      BY <1>4, LandsAfter
<1>. QED BY <1>1, <1>2, <1>3, <1>4 DEF PeopleResume

LEMMA ArrivesSettled ==
    ASSUME Disciplined, PeopleShaped, NEW j \in Desks, PeopleArrive(j)
    PROVE  /\ pc'[j] # "insert student"
           /\ pc'[j] = "edit" => \E s \in DOMAIN student :
                /\ req'[j].pupil = s /\ req'[j].was = student[s].section
                /\ Section(student[s].section) \in req'[j].claims /\ student' = student
           /\ pc'[j] = "status" => \E s \in DOMAIN student :
                /\ req'[j].pupil = s /\ req'[j].recount = <<student[s].section>>
                /\ Section(student[s].section) \in req'[j].claims /\ student' = student
           /\ pc'[j] = "seat" =>
                /\ disturbed = {} /\ student' = student
                /\ Section(req'[j].section) \in req'[j].claims
<1>1. UNCHANGED people => student' = student
      BY DEF people
<1>2. Living \subseteq DOMAIN student
      BY DEF Living
<1>3. ASSUME NEW s, NEW x, NEW family, NEW signs, BeginAdmission(j, s, x, family, signs)
      PROVE  /\ pc'[j] = "seat" /\ disturbed = {} /\ student' = student
             /\ Section(req'[j].section) \in req'[j].claims
  <2>1. disturbed = {}
        BY <1>3 DEF BeginAdmission, Begin, Asked, Open
  <2>. QED BY <1>1, <1>3, <2>1, AdmissionBegins
<1>4. ASSUME NEW op, NEW s, NEW field, NEW value, BeginEdit(j, op, s, field, value)
      PROVE  /\ pc'[j] = "edit" /\ s \in DOMAIN student
             /\ req'[j].pupil = s /\ req'[j].was = student[s].section
             /\ Section(student[s].section) \in req'[j].claims /\ student' = student
      BY <1>1, <1>2, <1>4, EditBegins
<1>5. ASSUME NEW s, NEW status, BeginStatus(j, s, status)
      PROVE  /\ pc'[j] = "status" /\ s \in DOMAIN student
             /\ req'[j].pupil = s /\ req'[j].recount = <<student[s].section>>
             /\ Section(student[s].section) \in req'[j].claims /\ student' = student
      BY <1>1, <1>2, <1>5, StatusBegins
<1>6. ASSUME NEW cohort, NEW x, NEW y, BeginPromotion(j, cohort, x, y)
      PROVE  pc'[j] = "promote"
      BY <1>6, PromotionBegins
<1>7. ASSUME NEW s, BeginRemoval(j, s) \/ Restore(j, s) \/ \E g : LinkChild(j, s, g)
      PROVE  pc'[j] \in {"idle", "remove", "link"}
      BY <1>7, RemovalBegins, Restores, LinkBegins
<1>. QED BY <1>3, <1>4, <1>5, <1>6, <1>7 DEF PeopleArrive

LEMMA SeatingPassed ==
    ASSUME Seating, Passes(PeopleCalls), UNCHANGED people
    PROVE  Seating'
<1>1. student' = student /\ disturbed \subseteq disturbed'
      BY DEF people, Passes
<1>2. \A h \in Desks : pc'[h] \in {"edit", "status", "seat", "insert student"} =>
        pc'[h] = pc[h] /\ req'[h] = req[h]
      BY DEF Passes, PeopleCalls
<1>3. ASSUME NEW h \in Desks PROVE Settled(h)' /\ SeatKept(h)'
  <2>1. Settled(h)'
        BY <1>1, <1>2 DEF Seating, Settled
  <2>2. \A x : SeatFree(x)' <=> SeatFree(x)
        BY <1>1 DEF SeatFree, Active, Living
  <2>. QED BY <1>1, <1>2, <2>1, <2>2 DEF Seating, SeatKept
<1>4. ASSUME NEW h \in Desks, NEW k \in Desks PROVE Uncontested(h, k)'
      BY <1>1, <1>2 DEF Seating, Uncontested
<1>. QED BY <1>3, <1>4 DEF Seating

LEMMA SeatingStepped ==
    ASSUME Disciplined, Disciplined', PeopleShaped, PeopleShaped', Newcomers, Seating,
           NEW j \in Desks, Moves(j, PeopleCalls), PeopleStep(j)
    PROVE  Seating'
<1>0. Relocates(j) /\ FillsItsOwn(j) /\ disturbed \subseteq disturbed'
      BY SeatsTaken DEF Moves
<1>1. ASSUME NEW h \in Desks, h # j PROVE pc'[h] = pc[h] /\ req'[h] = req[h]
      BY <1>1, OthersStay
<1>2. ASSUME NEW h \in Desks, pc[h] \in {"edit", "status"}
      PROVE  /\ req[h].pupil \in DOMAIN student /\ Pupil(req[h].pupil) \in req[h].claims
             /\ pc[h] = "edit" => Section(req[h].was) \in req[h].claims
             /\ pc[h] = "status" => \E a : req[h].recount = <<a>> /\ Section(a) \in req[h].claims
      BY <1>2 DEF PeopleShaped, Shaped, EditShaped, StatusShaped, Leaving, OnFile
<1>3. ASSUME NEW h \in Desks, pc[h] \in {"seat", "insert student"}
      PROVE  Section(req[h].section) \in req[h].claims
      BY <1>3 DEF PeopleShaped, Shaped, AdmissionShaped, Admitting
<1>4. ASSUME NEW h \in Desks PROVE Settled(h)'
  <2>1. CASE h = j /\ PeopleResume(j)
        BY <2>1, OnlyArriving DEF Settled
  <2>2. CASE h = j /\ PeopleArrive(j)
        BY <2>2, ArrivesSettled DEF Settled
  <2>3. CASE h # j
    <3>1. pc'[h] = pc[h] /\ req'[h] = req[h] /\ Settled(h)
          BY <1>1, <2>3 DEF Seating
    <3>2. ASSUME pc[h] \in {"edit", "status"}, Pupil(req[h].pupil) \notin disturbed'
          PROVE  student'[req[h].pupil].section = student[req[h].pupil].section
      <4>1. Pupil(req[h].pupil) \notin req[j].claims
            BY <1>2, <2>3, <3>2, AloneAt
      <4>. QED BY <1>0, <1>2, <3>2, <4>1 DEF Relocates
    <3>. QED BY <1>0, <3>1, <3>2 DEF Settled
  <2>. QED BY <2>1, <2>2, <2>3 DEF PeopleStep
<1>5. ASSUME NEW h \in Desks, NEW k \in Desks PROVE Uncontested(h, k)'
  <2>1. CASE h = k
        BY <2>1 DEF Uncontested
  <2>2. CASE h = j /\ k # j
    <3>1. pc'[k] = pc[k] /\ req'[k] = req[k]
          BY <1>1, <2>2
    <3>2. ASSUME pc'[j] \in {"seat", "insert student"}, Section(req'[j].section) \notin disturbed',
                 pc[k] \in {"edit", "status"}
          PROVE  student'[req[k].pupil].section # req'[j].section
      <4>1. CASE PeopleResume(j)
        <5>1. CheckSeat(j)
              BY <3>2, <4>1, OnlyArriving
        <5>2. pc[j] = "seat" /\ req'[j] = req[j] /\ student' = student
              BY <3>2, <5>1, Lands DEF people
        <5>. QED BY <1>0, <3>2, <5>2 DEF Seating, Uncontested
      <4>2. CASE PeopleArrive(j)
        <5>1. /\ disturbed = {} /\ student' = student
              /\ Section(req'[j].section) \in req'[j].claims
              BY <3>2, <4>2, ArrivesSettled
        <5>2. Section(req'[j].section) \notin req[k].claims
              BY <2>2, <3>2, <5>1, AloneAt
        <5>3. Section(student[req[k].pupil].section) \in req[k].claims
          <6>1. CASE pc[k] = "edit"
                BY <1>2, <5>1, <6>1 DEF Seating, Settled
          <6>2. CASE pc[k] = "status"
            <7>1. PICK a : req[k].recount = <<a>> /\ Section(a) \in req[k].claims
                  BY <1>2, <6>2
            <7>2. req[k].recount = <<student[req[k].pupil].section>>
                  BY <5>1, <6>2 DEF Seating, Settled
            <7>. QED BY <7>1, <7>2
          <6>. QED BY <3>2, <6>1, <6>2
        <5>. QED BY <5>1, <5>2, <5>3
      <4>. QED BY <4>1, <4>2 DEF PeopleStep
    <3>. QED BY <2>2, <3>1, <3>2 DEF Uncontested
  <2>3. CASE h # j /\ k = j
    <3>1. pc'[h] = pc[h] /\ req'[h] = req[h]
          BY <1>1, <2>3
    <3>2. ASSUME pc[h] \in {"seat", "insert student"}, Section(req[h].section) \notin disturbed',
                 pc'[j] \in {"edit", "status"}
          PROVE  student'[req'[j].pupil].section # req[h].section
      <4>1. PeopleArrive(j)
            BY <3>2, OnlyArriving DEF PeopleStep
      <4>2. PICK s \in DOMAIN student :
              /\ req'[j].pupil = s /\ student' = student
              /\ Section(student[s].section) \in req'[j].claims
            BY <3>2, <4>1, ArrivesSettled
      <4>3. ASSUME student[s].section = req[h].section PROVE FALSE
        <5>1. Section(req[h].section) \notin req[h].claims
              BY <2>3, <3>2, <4>2, <4>3, AloneAt
        <5>. QED BY <1>3, <3>2, <5>1
      <4>. QED BY <4>2, <4>3
    <3>. QED BY <2>3, <3>1, <3>2 DEF Uncontested
  <2>4. CASE h # j /\ k # j
    <3>1. pc'[h] = pc[h] /\ req'[h] = req[h] /\ pc'[k] = pc[k] /\ req'[k] = req[k]
          BY <1>1, <2>4
    <3>2. ASSUME pc[h] \in {"seat", "insert student"}, Section(req[h].section) \notin disturbed',
                 pc[k] \in {"edit", "status"}
          PROVE  student'[req[k].pupil].section # req[h].section
      <4>1. Section(req[h].section) \notin req[j].claims
            BY ZenonT(40), <1>3, <2>4, <3>2, AloneAt
      <4>2. student[req[k].pupil].section # req[h].section
            BY <1>0, <3>2 DEF Seating, Uncontested
      <4>. QED BY <1>0, <1>2, <3>2, <4>1, <4>2 DEF Relocates
    <3>. QED BY <3>1, <3>2 DEF Uncontested
  <2>. QED BY <2>1, <2>2, <2>3, <2>4
<1>6. ASSUME NEW h \in Desks PROVE SeatKept(h)'
  <2>1. CASE h = j
    <3>1. PICK x : x = req[j].section
          OBVIOUS
    <3>2. ASSUME pc'[j] = "insert student"
          PROVE  req'[j].section = x /\ SeatFree(x)'
      <4>1. CheckSeat(j)
            BY <3>2, OnlyArriving, ArrivesSettled DEF PeopleStep
      <4>2. req'[j] = req[j] /\ student' = student /\ pc[j] = "seat"
            BY <3>2, <4>1, Lands DEF people
      <4>3. ~Full(x)
            BY <3>1, <3>2, <4>1, Ends DEF CheckSeat
      <4>4. Capacity[x] \in Nat
            BY <3>1, <4>2, PeopleAssumption DEF PeopleShaped, Shaped, AdmissionShaped, Admitting
      <4>5. SeatFree(x)
            BY <4>3, <4>4, FiniteActive DEF Full, SeatFree
      <4>. QED BY <3>1, <4>2, <4>5 DEF SeatFree, Active, Living
    <3>. QED BY <2>1, <3>2 DEF SeatKept
  <2>2. CASE h # j
    <3>1. pc'[h] = pc[h] /\ req'[h] = req[h]
          BY <1>1, <2>2
    <3>2. PICK x : x = req[h].section
          OBVIOUS
    <3>3. ASSUME pc[h] = "insert student", Section(x) \notin disturbed' PROVE SeatFree(x)'
      <4>1. Section(x) \in req[h].claims /\ Section(x) \notin req[j].claims
            BY <1>3, <2>2, <3>2, <3>3, AloneAt
      <4>2. Section(x) \in HeldByOthers(j)
            BY <2>2, <4>1 DEF HeldByOthers
      <4>3. pc[j] \in {"edit", "status"} => student[req[j].pupil].section # x
            BY <1>0, <3>2, <3>3 DEF Seating, Uncontested
      <4>4. \A u : u \in Active(x)' => u \in Active(x)
            BY <1>0, <3>3, <4>1, <4>2, <4>3 DEF FillsItsOwn, Fills
      <4>5. SeatFree(x)
            BY <1>0, <3>2, <3>3 DEF Seating, SeatKept
      <4>6. /\ Cardinality(Active(x)') <= Cardinality(Active(x))
            /\ Cardinality(Active(x)') \in Nat /\ Cardinality(Active(x)) \in Nat
        <5>1. Active(x)' \subseteq Active(x)
              BY <4>4
        <5>2. IsFiniteSet(Active(x)) /\ Cardinality(Active(x)) \in Nat
              BY FiniteActive
        <5>3. IsFiniteSet(Active(x)') /\ Cardinality(Active(x)') <= Cardinality(Active(x))
              BY <5>1, <5>2, FS_Subset
        <5>. QED BY <5>2, <5>3, FS_CardinalityType
      <4>7. Capacity[x] \in Nat
            BY <3>2, <3>3, PeopleAssumption DEF PeopleShaped, Shaped, AdmissionShaped, Admitting
      <4>. QED BY <4>5, <4>6, <4>7 DEF SeatFree
    <3>. QED BY <3>1, <3>2, <3>3 DEF SeatKept
  <2>. QED BY <2>1, <2>2
<1>. QED BY <1>4, <1>5, <1>6 DEF Seating

LEMMA SeatingSound ==
    ASSUME Disciplined, Disciplined', PeopleShaped, PeopleShaped', Enrolled, Seating,
           [Next]_vars
    PROVE  Seating'
<1>1. ASSUME NEW h \in Desks, PeopleStep(h) PROVE Seating'
  <2>1. Moves(h, PeopleCalls) /\ Newcomers
        BY <1>1, PeopleMoves DEF Enrolled
  <2>. QED BY <1>1, <2>1, SeatingStepped
<1>2. CASE ~\E h \in Desks : PeopleStep(h)
      BY <1>2, NextPasses, SeatingPassed DEF NextIsTheirs
<1>. QED BY <1>1, <1>2

\* An admission takes a seat that is still free at the insert, unless another
\* request was about that section since the seats were counted.
THEOREM AdmissionsFindASeat == Spec => AdmittedToASeat
<1>1. Init => Disciplined /\ PeopleShaped /\ Enrolled /\ Seating
      BY DisciplineStarts, PeopleStart, EnrolledStart, SeatingStart
<1>2. Disciplined /\ PeopleShaped /\ Enrolled /\ Seating /\ [Next]_vars
        => (Disciplined /\ PeopleShaped /\ Enrolled /\ Seating)'
      BY DisciplineKept, PeopleKeepsShape, EnrolledSound, SeatingSound
<1>. DEFINE Admits == \A s \in DOMAIN student' \ DOMAIN student :
                        LET x == student'[s].section IN
                        Section(x) \in disturbed \/ Capacity[x] = 0
                          \/ Cardinality(Active(x)) < Capacity[x]
<1>3. ASSUME Disciplined, PeopleShaped, Enrolled, Seating, [Next]_vars PROVE [Admits]_student
  <2>1. ASSUME NEW h \in Desks, PeopleStep(h), NEW s \in DOMAIN student' \ DOMAIN student
        PROVE  LET x == student'[s].section IN
               Section(x) \in disturbed \/ Capacity[x] = 0
                 \/ Cardinality(Active(x)) < Capacity[x]
    <3>1. InsertStudent(h)
          BY <1>3, <2>1, SeatsTaken DEF Enrolled
    <3>2. PICK x : x = req[h].section
          OBVIOUS
    <3>3. student'[s].section = x
      <4>. DEFINE new == [section |-> x, year |-> req[h].year, deleted |-> FALSE,
                          status |-> "active", guardians |-> {}]
      <4>1. student' = With(student, req[h].pupil, new)
            BY <3>1, <3>2 DEF InsertStudent
      <4>2. new.section = x
            OBVIOUS
      <4>. HIDE DEF new
      <4>3. student'[s] = new
            BY <2>1, <4>1 DEF With
      <4>. QED BY <4>2, <4>3
    <3>4. pc[h] = "insert student"
          BY <1>3, <3>1, Lands
    <3>5. Section(x) \in disturbed \/ SeatFree(x)
          BY <1>3, <3>2, <3>4 DEF Seating, SeatKept
    <3>. QED BY <3>3, <3>5 DEF SeatFree
  <2>2. CASE ~\E h \in Desks : PeopleStep(h)
    <3>1. UNCHANGED student
          BY <1>3, <2>2, NextPasses DEF NextIsTheirs, people
    <3>. QED BY <3>1
  <2>. QED BY <2>1, <2>2
<1>4. Disciplined /\ PeopleShaped /\ Enrolled /\ Seating /\ [Next]_vars => [Admits]_student
      BY <1>3
<1>. QED BY <1>1, <1>2, <1>4, PTL DEF Spec, AdmittedToASeat

-----------------------------------------------------------------------------
(* Live classes.  A class about to be put in the timetable found none of   *)
(* its sections taken, and no class that was since put there takes one     *)
(* unless both are about that section.                                     *)

LessonFields == {"sections", "slot", "cancelled", "attendees"}

LessonsTyped ==
    \A l \in DOMAIN lesson :
      /\ DOMAIN lesson[l] = LessonFields /\ lesson[l].slot \in Slots
      /\ lesson[l].cancelled \in BOOLEAN

\* Two classes at one time, of sections nobody fought over, share none.
KeepApart(sections, slot, others, when) ==
    (\A x \in sections \cap others : Timetable(x) \notin disturbed) /\ Overlaps(slot, when)
    => sections \cap others = {}

Scheduling(h) ==
    pc[h] = "schedule" =>
      /\ DOMAIN req[h] = {"claims", "lesson", "sections", "slot"}
      /\ req[h].slot \in Slots
      /\ \A x \in req[h].sections : Timetable(x) \in req[h].claims
      /\ \A l \in DOMAIN lesson : ~lesson[l].cancelled =>
           KeepApart(lesson[l].sections, lesson[l].slot, req[h].sections, req[h].slot)

LessonsSound == LessonsTyped /\ NoClash /\ \A h \in Desks : Scheduling(h)

-----------------------------------------------------------------------------
LEMMA OverlapsBothWays ==
    ASSUME NEW u \in Slots, NEW t \in Slots
    PROVE  Overlaps(u, t) <=> Overlaps(t, u)
<1>1. u[1] \in Nat /\ u[2] \in Nat /\ t[1] \in Nat /\ t[2] \in Nat
      BY LearningAssumption
<1>. QED BY <1>1 DEF Overlaps

LEMMA LessonsStart == ASSUME Init PROVE LessonsSound
<1>1. lesson = [l \in {} |-> {}] /\ pc = [h \in Desks |-> "idle"]
      BY DEF Init, LearningInit, RequestsInit
<1>2. DOMAIN lesson = {}
      BY <1>1
<1>3. LessonsTyped /\ NoClash
      BY <1>2 DEF LessonsTyped, NoClash
<1>4. ASSUME NEW h \in Desks PROVE Scheduling(h)
      BY <1>1 DEF Scheduling
<1>. QED BY <1>3, <1>4 DEF LessonsSound

\* What is true of the classes stays so while none is added or put back.
LEMMA ClassesStay ==
    ASSUME LessonsSound, disturbed \subseteq disturbed', DOMAIN lesson' = DOMAIN lesson,
           \A l \in DOMAIN lesson :
             /\ DOMAIN lesson'[l] = LessonFields
             /\ lesson'[l].sections = lesson[l].sections
             /\ lesson'[l].slot = lesson[l].slot
             /\ lesson'[l].cancelled \in BOOLEAN
             /\ lesson[l].cancelled => lesson'[l].cancelled
    PROVE  LessonsTyped' /\ NoClash'
<1>1. LessonsTyped'
      BY DEF LessonsSound, LessonsTyped
<1>2. ASSUME NEW l \in DOMAIN lesson', NEW m \in DOMAIN lesson', l # m,
             ~lesson'[l].cancelled, ~lesson'[m].cancelled,
             \A x \in lesson'[l].sections \cap lesson'[m].sections :
               Timetable(x) \notin disturbed',
             Overlaps(lesson'[l].slot, lesson'[m].slot)
      PROVE  lesson'[l].sections \cap lesson'[m].sections = {}
      BY <1>2 DEF LessonsSound, NoClash
<1>3. NoClash'
      BY <1>2 DEF NoClash
<1>. QED BY <1>1, <1>3

LEMMA SchedulingStays ==
    ASSUME LessonsSound, disturbed \subseteq disturbed', DOMAIN lesson' = DOMAIN lesson,
           \A l \in DOMAIN lesson :
             /\ lesson'[l].sections = lesson[l].sections
             /\ lesson'[l].slot = lesson[l].slot
             /\ lesson[l].cancelled => lesson'[l].cancelled,
           NEW g \in Desks, pc'[g] = pc[g], req'[g] = req[g]
    PROVE  Scheduling(g)'
<1>1. SUFFICES ASSUME pc[g] = "schedule" PROVE Scheduling(g)'
      BY DEF Scheduling
<1>2. /\ DOMAIN req[g] = {"claims", "lesson", "sections", "slot"}
      /\ req[g].slot \in Slots
      /\ \A x \in req[g].sections : Timetable(x) \in req[g].claims
      /\ \A l \in DOMAIN lesson : ~lesson[l].cancelled =>
           KeepApart(lesson[l].sections, lesson[l].slot, req[g].sections, req[g].slot)
      BY <1>1 DEF LessonsSound, Scheduling
<1>3. ASSUME NEW l \in DOMAIN lesson', ~lesson'[l].cancelled
      PROVE  KeepApart(lesson[l].sections, lesson[l].slot, req[g].sections, req[g].slot)'
      BY <1>2, <1>3 DEF KeepApart
<1>. QED BY <1>2, <1>3 DEF Scheduling

LEMMA LessonsPassed ==
    ASSUME Disciplined, LessonsSound, Passes(LearningCalls), UNCHANGED learning
    PROVE  LessonsSound'
<1>1. lesson' = lesson /\ disturbed \subseteq disturbed'
      BY DEF learning, Passes
<1>2. LessonsTyped' /\ NoClash'
      BY <1>1, ClassesStay DEF LessonsSound, LessonsTyped
<1>3. ASSUME NEW h \in Desks PROVE Scheduling(h)'
  <2>1. CASE pc'[h] \in LearningCalls
    <3>1. pc'[h] = pc[h] /\ req'[h] = req[h]
          BY <2>1 DEF Passes
    <3>. QED BY <1>1, <3>1, SchedulingStays
  <2>2. CASE pc'[h] \notin LearningCalls
        BY <2>2 DEF Scheduling, LearningCalls
  <2>. QED BY <2>1, <2>2
<1>. QED BY <1>2, <1>3 DEF LessonsSound

\* A step that adds no class, and is not about to.
LEMMA LessonsBeside ==
    ASSUME Disciplined, LessonsSound, NEW h \in Desks, Moves(h, LearningCalls),
           pc'[h] # "schedule", DOMAIN lesson' = DOMAIN lesson,
           \A l \in DOMAIN lesson :
             /\ DOMAIN lesson'[l] = LessonFields
             /\ lesson'[l].sections = lesson[l].sections
             /\ lesson'[l].slot = lesson[l].slot
             /\ lesson'[l].cancelled \in BOOLEAN
             /\ lesson[l].cancelled => lesson'[l].cancelled
    PROVE  LessonsSound'
<1>1. disturbed \subseteq disturbed'
      BY DEF Moves
<1>2. LessonsTyped' /\ NoClash'
      BY <1>1, ClassesStay
<1>3. ASSUME NEW g \in Desks PROVE Scheduling(g)'
  <2>1. CASE g = h
        BY <2>1 DEF Scheduling
  <2>2. CASE g # h
    <3>1. pc'[g] = pc[g] /\ req'[g] = req[g]
          BY <2>2 DEF Moves, Disciplined
    <3>. QED BY <1>1, <3>1, SchedulingStays
  <2>. QED BY <2>1, <2>2
<1>. QED BY <1>2, <1>3 DEF LessonsSound

LEMMA LessonsAside ==
    ASSUME Disciplined, LessonsSound, NEW h \in Desks, Moves(h, LearningCalls),
           pc'[h] # "schedule", UNCHANGED lesson
    PROVE  LessonsSound'
BY LessonsBeside DEF LessonsSound, LessonsTyped

-----------------------------------------------------------------------------
LEMMA BeginScheduleSound ==
    ASSUME Disciplined, LessonsSound, NEW h \in Desks, Moves(h, LearningCalls),
           NEW l, NEW sections \in SUBSET Sections, NEW t \in Slots,
           BeginSchedule(h, l, sections, t)
    PROVE  LessonsSound'
<1>. DEFINE r == [claims |-> {<<"lesson", l>>} \cup {Timetable(x) : x \in sections},
                  lesson |-> l, sections |-> sections, slot |-> t]
<1>1. /\ lesson' = lesson /\ disturbed \subseteq disturbed' /\ req'[h] = r
      /\ Clashes(sections, t) = {}
      BY DEF BeginSchedule, Begin, Asked, Open, Idle, learning, Disciplined
<1>2. /\ DOMAIN r = {"claims", "lesson", "sections", "slot"} /\ r.slot = t
      /\ r.sections = sections /\ \A x \in sections : Timetable(x) \in r.claims
      OBVIOUS
<1>. HIDE DEF r
<1>3. LessonsTyped' /\ NoClash'
      BY <1>1, ClassesStay DEF LessonsSound, LessonsTyped
<1>4. Scheduling(h)'
  <2>1. ASSUME NEW m \in DOMAIN lesson, ~lesson[m].cancelled,
               Overlaps(lesson[m].slot, t)
        PROVE  lesson[m].sections \cap sections = {}
        BY <1>1, <2>1 DEF Clashes
  <2>2. ASSUME NEW m \in DOMAIN lesson', ~lesson'[m].cancelled
        PROVE  KeepApart(lesson[m].sections, lesson[m].slot, req[h].sections, req[h].slot)'
        BY <1>1, <1>2, <2>1, <2>2 DEF KeepApart
  <2>. QED BY <1>1, <1>2, <2>2 DEF Scheduling
<1>5. ASSUME NEW g \in Desks, g # h PROVE Scheduling(g)'
  <2>1. pc'[g] = pc[g] /\ req'[g] = req[g]
        BY <1>5 DEF Moves, Disciplined
  <2>. QED BY <1>1, <2>1, SchedulingStays
<1>. QED BY <1>3, <1>4, <1>5 DEF LessonsSound

LEMMA ScheduleSound ==
    ASSUME Disciplined, LessonsSound, NEW h \in Desks, Moves(h, LearningCalls), Schedule(h)
    PROVE  LessonsSound'
<1>0. PICK l, xs, t : l = req[h].lesson /\ xs = req[h].sections /\ t = req[h].slot
      OBVIOUS
<1>. DEFINE new == [sections |-> xs, slot |-> t, cancelled |-> FALSE,
                    attendees |-> [s \in Pupils |-> 0]]
<1>1. pc[h] = "schedule" /\ pc'[h] = "idle" /\ lesson' = With(lesson, l, new)
      BY <1>0 DEF Schedule, Finish, Leave, Disciplined
<1>2. /\ DOMAIN new = LessonFields /\ new.sections = xs /\ new.slot = t
      /\ new.cancelled = FALSE
      BY DEF LessonFields
<1>. HIDE DEF new
<1>3. /\ DOMAIN lesson' = DOMAIN lesson \cup {l} /\ lesson'[l] = new
      /\ \A m \in DOMAIN lesson \ {l} : lesson'[m] = lesson[m]
      BY <1>1 DEF With
<1>4. /\ t \in Slots /\ \A x \in xs : Timetable(x) \in req[h].claims
      /\ \A m \in DOMAIN lesson : ~lesson[m].cancelled =>
           KeepApart(lesson[m].sections, lesson[m].slot, xs, t)
      BY <1>0, <1>1 DEF LessonsSound, Scheduling
<1>5. disturbed \subseteq disturbed'
      BY DEF Moves
<1>6. LessonsTyped'
      BY <1>2, <1>3, <1>4 DEF LessonsSound, LessonsTyped
<1>7. ASSUME NEW m \in DOMAIN lesson \ {l}, ~lesson[m].cancelled,
             \A x \in lesson[m].sections \cap xs : Timetable(x) \notin disturbed',
             Overlaps(lesson[m].slot, t) \/ Overlaps(t, lesson[m].slot)
      PROVE  lesson[m].sections \cap xs = {}
  <2>1. lesson[m].slot \in Slots
        BY DEF LessonsSound, LessonsTyped
  <2>2. Overlaps(lesson[m].slot, t)
        BY <1>4, <1>7, <2>1, OverlapsBothWays
  <2>. QED BY <1>4, <1>5, <1>7, <2>2 DEF KeepApart
<1>8. NoClash'
  <2>1. SUFFICES ASSUME NEW m \in DOMAIN lesson', NEW k \in DOMAIN lesson', m # k,
                        ~lesson'[m].cancelled, ~lesson'[k].cancelled,
                        \A x \in lesson'[m].sections \cap lesson'[k].sections :
                          Timetable(x) \notin disturbed',
                        Overlaps(lesson'[m].slot, lesson'[k].slot)
                 PROVE  lesson'[m].sections \cap lesson'[k].sections = {}
        BY DEF NoClash
  <2>2. CASE m = l
        BY <1>2, <1>3, <1>7, <2>1, <2>2
  <2>3. CASE k = l
        BY <1>2, <1>3, <1>7, <2>1, <2>3
  <2>4. CASE m # l /\ k # l
        BY <1>3, <1>5, <2>1, <2>4 DEF LessonsSound, NoClash
  <2>. QED BY <2>2, <2>3, <2>4
<1>9. ASSUME NEW g \in Desks PROVE Scheduling(g)'
  <2>1. CASE g = h
        BY <1>1, <2>1 DEF Scheduling
  <2>2. CASE g # h /\ pc[g] = "schedule"
    <3>1. pc'[g] = pc[g] /\ req'[g] = req[g]
          BY <2>2 DEF Moves, Disciplined
    <3>2. /\ DOMAIN req[g] = {"claims", "lesson", "sections", "slot"}
          /\ req[g].slot \in Slots
          /\ \A x \in req[g].sections : Timetable(x) \in req[g].claims
          /\ \A m \in DOMAIN lesson : ~lesson[m].cancelled =>
               KeepApart(lesson[m].sections, lesson[m].slot, req[g].sections, req[g].slot)
          BY <2>2 DEF LessonsSound, Scheduling
    <3>3. \A x \in xs \cap req[g].sections : Timetable(x) \in disturbed'
          BY <1>4, <1>5, <2>2, <3>2 DEF Disciplined, Apart
    <3>4. ASSUME NEW m \in DOMAIN lesson', ~lesson'[m].cancelled
          PROVE  KeepApart(lesson[m].sections, lesson[m].slot, req[g].sections, req[g].slot)'
      <4>1. CASE m = l
            BY <1>2, <1>3, <3>1, <3>3, <4>1 DEF KeepApart
      <4>2. CASE m # l
        <5>1. /\ m \in DOMAIN lesson /\ lesson'[m] = lesson[m]
              /\ KeepApart(lesson[m].sections, lesson[m].slot, req[g].sections, req[g].slot)
              BY <1>3, <3>2, <3>4, <4>2
        <5>. QED BY <1>5, <3>1, <5>1 DEF KeepApart
      <4>. QED BY <4>1, <4>2
    <3>. QED BY <3>1, <3>2, <3>4 DEF Scheduling
  <2>3. CASE g # h /\ pc[g] # "schedule"
        BY <2>3 DEF Scheduling, Moves, Disciplined
  <2>. QED BY <2>1, <2>2, <2>3
<1>. QED BY <1>6, <1>8, <1>9 DEF LessonsSound

LEMMA CancelSound ==
    ASSUME Disciplined, LessonsSound, NEW h \in Desks, Moves(h, LearningCalls), Cancel(h)
    PROVE  LessonsSound'
<1>0. PICK l : l = req[h].lesson
      OBVIOUS
<1>1. pc'[h] = "idle" /\ lesson' = [lesson EXCEPT ![l].cancelled = TRUE]
      BY <1>0 DEF Cancel, Finish, Leave, Disciplined
<1>2. DOMAIN lesson' = DOMAIN lesson
      BY <1>1
<1>3. ASSUME NEW m \in DOMAIN lesson
      PROVE  /\ DOMAIN lesson'[m] = LessonFields
             /\ lesson'[m].sections = lesson[m].sections
             /\ lesson'[m].slot = lesson[m].slot
             /\ lesson'[m].cancelled \in BOOLEAN
             /\ lesson[m].cancelled => lesson'[m].cancelled
  <2>1. DOMAIN lesson[m] = LessonFields /\ lesson[m].cancelled \in BOOLEAN
        BY DEF LessonsSound, LessonsTyped
  <2>2. CASE m = l
    <3>1. lesson'[m] = [lesson[m] EXCEPT !.cancelled = TRUE]
          BY <1>1, <2>2
    <3>. QED BY <2>1, <3>1 DEF LessonFields
  <2>3. CASE m # l
        BY <1>1, <2>1, <2>3
  <2>. QED BY <2>2, <2>3
<1>. QED BY <1>1, <1>2, <1>3, LessonsBeside

LEMMA AttendSound ==
    ASSUME Disciplined, LessonsSound, NEW h \in Desks, Moves(h, LearningCalls), Attend(h)
    PROVE  LessonsSound'
<1>0. PICK l, s : l = req[h].lesson /\ s = req[h].pupil
      OBVIOUS
<1>1. /\ pc'[h] = "idle"
      /\ lesson' = [lesson EXCEPT ![l].attendees[s] = lesson[l].attendees[s] + 1]
      BY <1>0 DEF Attend, Finish, Leave, Disciplined
<1>2. DOMAIN lesson' = DOMAIN lesson
      BY <1>1
<1>3. ASSUME NEW m \in DOMAIN lesson
      PROVE  /\ DOMAIN lesson'[m] = LessonFields
             /\ lesson'[m].sections = lesson[m].sections
             /\ lesson'[m].slot = lesson[m].slot
             /\ lesson'[m].cancelled \in BOOLEAN
             /\ lesson[m].cancelled => lesson'[m].cancelled
  <2>1. DOMAIN lesson[m] = LessonFields /\ lesson[m].cancelled \in BOOLEAN
        BY DEF LessonsSound, LessonsTyped
  <2>2. CASE m = l
    <3>1. \E v : lesson'[m] = [lesson[m] EXCEPT !.attendees = v]
          BY <1>1, <2>2
    <3>. QED BY <2>1, <3>1 DEF LessonFields
  <2>3. CASE m # l
        BY <1>1, <2>1, <2>3
  <2>. QED BY <2>2, <2>3
<1>. QED BY <1>1, <1>2, <1>3, LessonsBeside

LEMMA LessonsArrive ==
    ASSUME Disciplined, LessonsSound, NEW h \in Desks, Moves(h, LearningCalls),
           LearningArrive(h)
    PROVE  LessonsSound'
<1>1. ASSUME NEW a, NEW status, NEW mode, EditWork(h, a, status, mode)
      PROVE  LessonsSound'
  <2>1. lesson' = lesson /\ pc'[h] = "idle"
        BY <1>1 DEF EditWork, Once, Asked, Open, Idle
  <2>. QED BY <2>1, LessonsAside
<1>2. ASSUME NEW a, NEW status, BeginStage(h, a, status)
      PROVE  LessonsSound'
  <2>1. lesson' = lesson /\ pc'[h] = "stage"
        BY <1>2 DEF BeginStage, Begin, Asked, Open, Idle, learning, Disciplined
  <2>. QED BY <2>1, LessonsAside
<1>3. ASSUME NEW a, NEW s, BeginSubmit(h, a, s) \/ BeginGrade(h, a, s)
      PROVE  LessonsSound'
  <2>1. lesson' = lesson /\ pc'[h] \in {"existing", "grade"}
    <3>1. CASE BeginSubmit(h, a, s)
          BY <3>1 DEF BeginSubmit, Begin, Asked, Open, Idle, learning, Disciplined
    <3>2. CASE BeginGrade(h, a, s)
          BY <3>2 DEF BeginGrade, Begin, Asked, Open, Idle, learning, Disciplined
    <3>. QED BY <1>3, <3>1, <3>2
  <2>. QED BY <2>1, LessonsAside
<1>4. ASSUME NEW a, NEW ticked, BeginCollect(h, a, ticked)
      PROVE  LessonsSound'
  <2>1. lesson' = lesson /\ pc'[h] = "rows as they are"
        BY <1>4 DEF BeginCollect, Begin, Asked, Open, Idle, learning, Disciplined
  <2>. QED BY <2>1, LessonsAside
<1>5. ASSUME NEW l, BeginCancel(h, l)
      PROVE  LessonsSound'
  <2>1. lesson' = lesson /\ pc'[h] = "cancel"
        BY <1>5 DEF BeginCancel, Begin, Asked, Open, Idle, learning, Disciplined
  <2>. QED BY <2>1, LessonsAside
<1>6. ASSUME NEW l, NEW s, BeginJoin(h, l, s)
      PROVE  LessonsSound'
  <2>1. lesson' = lesson /\ pc'[h] = "join"
        BY <1>6 DEF BeginJoin, Begin, Asked, Open, Idle, learning, Disciplined
  <2>. QED BY <2>1, LessonsAside
<1>. QED BY <1>1, <1>2, <1>3, <1>4, <1>5, <1>6, BeginScheduleSound DEF LearningArrive

LEMMA LessonsStepSound ==
    ASSUME Disciplined, LessonsSound, NEW h \in Desks, LearningStep(h)
    PROVE  LessonsSound'
<1>1. Moves(h, LearningCalls)
      BY LearningMoves
<1>2. CASE StoreStage(h) \/ ReadExisting(h) \/ Resubmit(h) \/ HandIn(h) \/ CountIn(h)
  <2>1. lesson' = lesson /\ pc'[h] \in {"idle", "hand in", "resubmit", "count in"}
        BY <1>2 DEF StoreStage, ReadExisting, Resubmit, HandIn, CountIn, learning,
                    Goto, Finish, Leave, Disciplined
  <2>. QED BY <1>1, <2>1, LessonsAside
<1>3. CASE ReadRows(h) \/ CollectOne(h) \/ Recount(h) \/ StoreCount(h)
  <2>1. lesson' = lesson /\ pc'[h] \in {"idle", "recount", "collect", "store count"}
        BY <1>3 DEF ReadRows, CollectOne, Recount, StoreCount, learning,
                    Carry, Finish, BreakOff, Leave, Disciplined
  <2>. QED BY <1>1, <2>1, LessonsAside
<1>4. CASE StoreGrade(h) \/ CountGraded(h) \/ Join(h)
  <2>1. lesson' = lesson /\ pc'[h] \in {"idle", "count graded", "attend"}
        BY <1>4 DEF StoreGrade, CountGraded, Join, learning,
                    Goto, Finish, Leave, Disciplined
  <2>. QED BY <1>1, <2>1, LessonsAside
<1>. QED BY <1>1, <1>2, <1>3, <1>4, LessonsArrive, ScheduleSound, CancelSound, AttendSound
         DEF LearningStep, LearningResume

LEMMA LessonsAlways == Spec => [](Disciplined /\ LessonsSound)
<1>1. Init => Disciplined /\ LessonsSound
      BY DisciplineStarts, LessonsStart
<1>2. Disciplined /\ LessonsSound /\ [Next]_vars => (Disciplined /\ LessonsSound)'
      BY DisciplineKept, NextPasses, LessonsPassed, LessonsStepSound DEF NextIsTheirs
<1>. QED BY <1>1, <1>2, PTL DEF Spec

-----------------------------------------------------------------------------
(* Homework.  What a request about a submission knows of it, what a        *)
(* collection has seen of those it has still to go through, and, of each   *)
(* assignment, what its counts are still to be told.                       *)

HandingIn == {"existing", "resubmit", "hand in", "count in"}
Grading    == {"grade", "count graded"}
Collecting == {"rows as they are", "collect", "recount", "store count"}

WorkFields    == {"status", "mode", "submitted", "graded"}
CollectFields == {"claims", "work", "ticked", "left", "seen", "counted"}
HandedRow           == [status : {"submitted", "graded"}, offline : BOOLEAN]

HandedTyped(f) == DOMAIN f \subseteq Assignments \X Pupils /\ \A e \in DOMAIN f : f[e] \in HandedRow

Rows(a)       == {e \in DOMAIN handed : e[1] = a}
GradedRows(a) == {e \in Rows(a) : handed[e].status = "graded"}

HomeTyped ==
    /\ DOMAIN work = Assignments /\ \A a \in Assignments : DOMAIN work[a] = WorkFields
    /\ HandedTyped(handed) /\ \A a \in Assignments : IsFiniteSet(Rows(a))

HomeShaped(h) ==
    /\ pc[h] \in HandingIn \cup Grading =>
         /\ req[h].work \in Assignments /\ req[h].pupil \in Pupils
         /\ Handed(req[h].work, req[h].pupil) \in req[h].claims
    /\ pc[h] \in Collecting =>
         /\ DOMAIN req[h] = CollectFields
         /\ req[h].work \in Assignments /\ req[h].left \subseteq Pupils
         /\ \A s \in Pupils : Handed(req[h].work, s) \in req[h].claims
         /\ HandedTyped(req[h].seen)

\* Request h is about this submission.
About(h, a, s)  == req[h].work = a /\ req[h].pupil = s
Seen(h, a, s)   == IF <<a, s>> \in DOMAIN req[h].seen THEN req[h].seen[<<a, s>>]
                   ELSE NotHanded

RowTrue(h, a, s) ==
    Handed(a, s) \notin disturbed =>
      /\ pc[h] = "resubmit" /\ About(h, a, s) => Submission(a, s).status # "graded"
      /\ pc[h] = "count in" /\ About(h, a, s) => <<a, s>> \in DOMAIN handed
      /\ pc[h] = "grade" /\ About(h, a, s) =>
           req[h].first = (Submission(a, s).status # "graded")
      /\ pc[h] = "count graded" /\ About(h, a, s) => <<a, s>> \in GradedRows(a)
      /\ pc[h] = "collect" /\ req[h].work = a /\ s \in req[h].left =>
           Seen(h, a, s) = Submission(a, s)

CountsIn(h, a, s) == pc[h] = "count in" /\ About(h, a, s)
Records(h, a, s)  == pc[h] = "count graded" /\ About(h, a, s)
Collects(h, a)    == pc[h] \in Collecting /\ req[h].work = a /\ Pupils # {}

\* Handed in and not yet counted so; graded and not yet counted so.
Uncounted(a)  == {e \in Rows(a) : \E h \in Desks : CountsIn(h, a, e[2])}
Unrecorded(a) == {e \in GradedRows(a) : \E h \in Desks : Records(h, a, e[2])}

Undisturbed(a) == \A s \in Pupils : Handed(a, s) \notin disturbed
Recounted(h, a) ==
    pc[h] = "store count" /\ req[h].work = a => req[h].counted = Cardinality(Rows(a))

CountTrue(a) ==
    Undisturbed(a) =>
      /\ \A h \in Desks : Recounted(h, a)
      /\ (\A h \in Desks : ~Collects(h, a)) =>
           work[a].submitted = Cardinality(Rows(a) \ Uncounted(a))
      /\ work[a].graded = Cardinality(GradedRows(a) \ Unrecorded(a))

HomeSound ==
    /\ HomeTyped /\ \A h \in Desks : HomeShaped(h)
    /\ \A h \in Desks, a \in Assignments, s \in Pupils : RowTrue(h, a, s)
    /\ \A a \in Assignments : CountTrue(a)

-----------------------------------------------------------------------------
LEMMA HomeStart == ASSUME Init PROVE HomeSound
<1>1. PICK early \in SUBSET There, mode \in {"online", "offline"} :
        /\ handed = [e \in Assignments \X early |->
                       [status |-> "submitted", offline |-> mode = "offline"]]
        /\ work = [a \in Assignments |-> [status |-> "published", mode |-> mode,
                     submitted |-> Cardinality(early), graded |-> 0]]
      BY DEF Init, LearningInit
<1>2. pc = [h \in Desks |-> "idle"]
      BY DEF Init, RequestsInit
<1>3. early \subseteq Pupils /\ IsFiniteSet(early)
      BY PeopleAssumption, FS_Subset
<1>4. ASSUME NEW e \in DOMAIN handed PROVE handed[e] \in HandedRow /\ handed[e].status = "submitted"
  <2>1. handed[e] = [status |-> "submitted", offline |-> mode = "offline"]
        BY <1>1, <1>4
  <2>2. (mode = "offline") \in BOOLEAN
        OBVIOUS
  <2>. QED BY <2>1, <2>2 DEF HandedRow
<1>5. HandedTyped(handed)
  <2>1. DOMAIN handed = Assignments \X early
        BY <1>1
  <2>. QED BY <1>3, <1>4, <2>1 DEF HandedTyped
<1>6. ASSUME NEW a \in Assignments
      PROVE  IsFiniteSet(Rows(a)) /\ Cardinality(Rows(a)) = Cardinality(early)
             /\ GradedRows(a) = {}
  <2>. DEFINE f == [s \in early |-> <<a, s>>]
  <2>1. Rows(a) = {<<a, s>> : s \in early}
        BY <1>1 DEF Rows
  <2>2. f \in Bijection(early, Rows(a))
    <3>1. f \in [early -> Rows(a)]
          BY <2>1
    <3>2. \A s, t \in early : f[s] = f[t] => s = t
          OBVIOUS
    <3>3. \A e \in Rows(a) : \E s \in early : f[s] = e
          BY <2>1
    <3>. QED BY <3>1, <3>2, <3>3 DEF Bijection, Injection, Surjection, IsInjective
  <2>3. IsFiniteSet(Rows(a)) /\ Cardinality(Rows(a)) = Cardinality(early)
        BY <1>3, <2>2, FS_Bijection DEF ExistsBijection
  <2>. QED BY <1>4, <2>3 DEF GradedRows, Rows
<1>7. ASSUME NEW a \in Assignments
      PROVE  DOMAIN work[a] = WorkFields /\ work[a].submitted = Cardinality(early)
             /\ work[a].graded = 0
      BY <1>1 DEF WorkFields
<1>8. HomeTyped
      BY <1>1, <1>5, <1>6, <1>7 DEF HomeTyped
<1>9. ASSUME NEW h \in Desks
      PROVE  /\ HomeShaped(h) /\ \A a \in Assignments, s \in Pupils : RowTrue(h, a, s)
      BY <1>2 DEF HomeShaped, RowTrue, HandingIn, Grading, Collecting
<1>10. ASSUME NEW a \in Assignments PROVE CountTrue(a)
  <2>1. Rows(a) \ Uncounted(a) = Rows(a)
        BY <1>2 DEF Uncounted, CountsIn
  <2>2. GradedRows(a) \ Unrecorded(a) = {}
        BY <1>6
  <2>. QED BY <1>2, <1>6, <1>7, <2>1, <2>2, FS_EmptySet DEF CountTrue, Recounted
<1>. QED BY <1>8, <1>9, <1>10 DEF HomeSound

-----------------------------------------------------------------------------
(* What stays of it when its own rows and requests do.                     *)

LEMMA ShapeStays ==
    ASSUME NEW g \in Desks, HomeShaped(g), pc'[g] = pc[g], req'[g] = req[g]
    PROVE  HomeShaped(g)'
BY DEF HomeShaped, HandedTyped

LEMMA RowStays ==
    ASSUME disturbed \subseteq disturbed', NEW g \in Desks, NEW a, NEW s,
           RowTrue(g, a, s), pc'[g] = pc[g], req'[g] = req[g],
           \/ Handed(a, s) \in disturbed'
           \/ /\ <<a, s>> \in DOMAIN handed' <=> <<a, s>> \in DOMAIN handed
              /\ <<a, s>> \in DOMAIN handed => handed'[<<a, s>>] = handed[<<a, s>>]
    PROVE  RowTrue(g, a, s)'
<1>1. SUFFICES ASSUME Handed(a, s) \notin disturbed' PROVE RowTrue(g, a, s)'
      BY DEF RowTrue
<1>2. /\ <<a, s>> \in DOMAIN handed' <=> <<a, s>> \in DOMAIN handed
      /\ <<a, s>> \in DOMAIN handed => handed'[<<a, s>>] = handed[<<a, s>>]
      BY <1>1
<1>3. Submission(a, s)' = Submission(a, s)
      BY <1>2 DEF Submission
<1>4. <<a, s>> \in GradedRows(a)' <=> <<a, s>> \in GradedRows(a)
      BY <1>2 DEF GradedRows, Rows
<1>. QED BY <1>1, <1>2, <1>3, <1>4 DEF RowTrue, About, Seen

LEMMA NoRow ==
    ASSUME NEW h \in Desks, NEW a, NEW s,
           pc[h] \notin {"resubmit", "count in", "grade", "count graded", "collect"}
    PROVE  RowTrue(h, a, s)
BY DEF RowTrue

LEMMA CountStays ==
    ASSUME disturbed \subseteq disturbed', NEW a \in Assignments, CountTrue(a),
           Rows(a)' = Rows(a), GradedRows(a)' = GradedRows(a),
           work'[a].submitted = work[a].submitted, work'[a].graded = work[a].graded,
           Undisturbed(a)' =>
             \A g \in Desks :
               /\ Collects(g, a) => Collects(g, a)'
               /\ Recounted(g, a)'
               /\ \A s \in Pupils : /\ CountsIn(g, a, s)' <=> CountsIn(g, a, s)
                                    /\ Records(g, a, s)' <=> Records(g, a, s),
           \A e \in Rows(a) : e[2] \in Pupils
    PROVE  CountTrue(a)'
<1>1. SUFFICES ASSUME Undisturbed(a)' PROVE CountTrue(a)'
      BY DEF CountTrue
<1>2. Undisturbed(a)
      BY <1>1 DEF Undisturbed
<1>3. Uncounted(a)' = Uncounted(a)
      BY <1>1 DEF Uncounted
<1>4. Unrecorded(a)' = Unrecorded(a)
      BY <1>1 DEF Unrecorded, GradedRows
<1>. QED BY <1>1, <1>2, <1>3, <1>4 DEF CountTrue

LEMMA HomePassed ==
    ASSUME Disciplined, HomeSound, Passes(LearningCalls), UNCHANGED learning
    PROVE  HomeSound'
<1>1. work' = work /\ handed' = handed /\ disturbed \subseteq disturbed'
      BY DEF learning, Passes
<1>2. HomeTyped'
      BY <1>1 DEF HomeSound, HomeTyped, HandedTyped, Rows
<1>3. ASSUME NEW h \in Desks
      PROVE  HomeShaped(h)' /\ \A a \in Assignments, s \in Pupils : RowTrue(h, a, s)'
  <2>1. CASE pc'[h] \in LearningCalls
    <3>1. pc'[h] = pc[h] /\ req'[h] = req[h]
          BY <2>1 DEF Passes
    <3>. QED BY <1>1, <3>1, ShapeStays, RowStays DEF HomeSound
  <2>2. CASE pc'[h] \notin LearningCalls
    <3>1. /\ pc'[h] \notin HandingIn \cup Grading \cup Collecting
          /\ pc'[h] \notin {"resubmit", "count in", "grade", "count graded", "collect"}
          BY <2>2 DEF LearningCalls, HandingIn, Grading, Collecting
    <3>. QED BY <3>1 DEF HomeShaped, RowTrue
  <2>. QED BY <2>1, <2>2
<1>4. ASSUME NEW a \in Assignments PROVE CountTrue(a)'
  <2>1. Rows(a)' = Rows(a) /\ GradedRows(a)' = GradedRows(a)
        BY <1>1 DEF Rows, GradedRows
  <2>2. \A e \in Rows(a) : e[2] \in Pupils
        BY DEF HomeSound, HomeTyped, HandedTyped, Rows
  <2>3. ASSUME Undisturbed(a)', NEW g \in Desks
        PROVE  /\ Collects(g, a) => Collects(g, a)'
               /\ Recounted(g, a)'
               /\ \A s \in Pupils : /\ CountsIn(g, a, s)' <=> CountsIn(g, a, s)
                                    /\ Records(g, a, s)' <=> Records(g, a, s)
    <3>1. pc'[g] \in LearningCalls => pc'[g] = pc[g] /\ req'[g] = req[g]
          BY DEF Passes
    <3>2. ASSUME NEW s \in Pupils, Handed(a, s) \in req[g].claims, pc[g] \in LearningCalls
          PROVE  pc'[g] = pc[g]
          BY <2>3, <3>2 DEF Passes, Undisturbed
    <3>3. ASSUME Collects(g, a) PROVE Collects(g, a)'
      <4>1. PICK s \in Pupils : TRUE
            BY <3>3 DEF Collects
      <4>2. Handed(a, s) \in req[g].claims /\ pc[g] \in LearningCalls
            BY <3>3, <4>1 DEF Collects, HomeSound, HomeShaped, LearningCalls, Collecting
      <4>3. pc'[g] = pc[g] /\ req'[g] = req[g]
            BY <3>1, <3>2, <4>1, <4>2
      <4>. QED BY <3>3, <4>3 DEF Collects
    <3>4. ASSUME NEW s \in Pupils, CountsIn(g, a, s) \/ Records(g, a, s)
          PROVE  pc'[g] = pc[g] /\ req'[g] = req[g]
      <4>1. Handed(a, s) \in req[g].claims /\ pc[g] \in LearningCalls
            BY <3>4 DEF CountsIn, Records, About, HomeSound, HomeShaped, LearningCalls,
                        HandingIn, Grading
      <4>. QED BY <3>1, <3>2, <4>1
    <3>5. Recounted(g, a)'
      <4>1. SUFFICES ASSUME pc'[g] = "store count", req'[g].work = a
                     PROVE  req'[g].counted = Cardinality(Rows(a))
            BY <2>1 DEF Recounted
      <4>2. pc'[g] = pc[g] /\ req'[g] = req[g]
            BY <3>1, <4>1 DEF LearningCalls
      <4>3. Undisturbed(a)
            BY <1>1, <2>3 DEF Undisturbed
      <4>. QED BY <4>1, <4>2, <4>3 DEF HomeSound, CountTrue, Recounted
    <3>6. ASSUME NEW s \in Pupils, CountsIn(g, a, s)' \/ Records(g, a, s)'
          PROVE  pc'[g] = pc[g] /\ req'[g] = req[g]
          BY <3>1, <3>6 DEF CountsIn, Records, LearningCalls
    <3>. QED BY <3>3, <3>4, <3>5, <3>6 DEF CountsIn, Records, About
  <2>. QED BY <1>1, <2>1, <2>2, <2>3, CountStays DEF HomeSound
<1>. QED BY <1>2, <1>3, <1>4 DEF HomeSound


-----------------------------------------------------------------------------
(* A step about no more than one submission.                               *)

LEMMA OthersAt ==
    ASSUME Disciplined, HomeSound, NEW h \in Desks, Moves(h, LearningCalls),
           NEW g \in Desks, g # h, NEW a \in Assignments, NEW s \in Pupils,
           Handed(a, s) \in req[h].claims, Handed(a, s) \notin disturbed'
    PROVE  /\ pc'[g] = pc[g] /\ req'[g] = req[g]
           /\ ~CountsIn(g, a, s) /\ ~Records(g, a, s) /\ ~Collects(g, a)
           /\ ~(pc[g] = "store count" /\ req[g].work = a)
<1>1. Handed(a, s) \notin req[g].claims
      BY DEF Disciplined, Apart, Moves
<1>2. pc[g] \in Collecting => req[g].work # a
      BY <1>1 DEF HomeSound, HomeShaped
<1>3. pc'[g] = pc[g] /\ req'[g] = req[g]
      BY DEF Moves, Disciplined
<1>4. pc[g] \in {"count in", "count graded"} => ~About(g, a, s)
      BY <1>1 DEF HomeSound, HomeShaped, About, HandingIn, Grading
<1>. QED BY <1>2, <1>3, <1>4 DEF CountsIn, Records, Collects, Collecting

\* So such a step is sound if it is for its own request, its submission and
\* the counts of its assignment.
LEMMA HomeOne ==
    ASSUME Disciplined, HomeSound, NEW h \in Desks, Moves(h, LearningCalls),
           NEW a \in Assignments, NEW s,
           UNCHANGED handed \/ Handed(a, s) \in req[h].claims,
           pc[h] \in {"idle"} \/ req[h].work = a, pc'[h] \in {"idle"} \/ req'[h].work = a,
           HandedTyped(handed)',
           \A e : e # <<a, s>> => /\ e \in DOMAIN handed' <=> e \in DOMAIN handed
                                  /\ e \in DOMAIN handed => handed'[e] = handed[e],
           DOMAIN work' = Assignments, DOMAIN work'[a] = WorkFields,
           \A b \in Assignments \ {a} : work'[b] = work[b],
           HomeShaped(h)', \A t \in Pupils : RowTrue(h, a, t)', CountTrue(a)'
    PROVE  HomeSound'
<1>1. disturbed \subseteq disturbed'
      BY DEF Moves
<1>2. ASSUME NEW b \in Assignments, b # a
      PROVE  Rows(b)' = Rows(b) /\ GradedRows(b)' = GradedRows(b)
             /\ \A e \in Rows(b) : e[2] \in Pupils
      BY <1>2 DEF Rows, GradedRows, HomeSound, HomeTyped, HandedTyped
<1>3. IsFiniteSet(Rows(a)')
  <2>1. IsFiniteSet(Rows(a) \cup {<<a, s>>})
        BY FS_AddElement DEF HomeSound, HomeTyped
  <2>2. Rows(a)' \subseteq Rows(a) \cup {<<a, s>>}
        BY DEF Rows
  <2>. QED BY <2>1, <2>2, FS_Subset
<1>4. HomeTyped'
      BY <1>2, <1>3 DEF HomeSound, HomeTyped
<1>5. ASSUME NEW g \in Desks, g # h
      PROVE  HomeShaped(g)' /\ \A b \in Assignments, t \in Pupils : RowTrue(g, b, t)'
  <2>1. pc'[g] = pc[g] /\ req'[g] = req[g]
        BY <1>5 DEF Moves, Disciplined
  <2>2. ASSUME NEW b \in Assignments, NEW t \in Pupils PROVE RowTrue(g, b, t)'
    <3>1. CASE <<b, t>> # <<a, s>> \/ UNCHANGED handed
          BY <1>1, <2>1, <3>1, RowStays DEF HomeSound
    <3>2. CASE <<b, t>> = <<a, s>> /\ Handed(a, s) \in req[h].claims
      <4>1. SUFFICES ASSUME Handed(a, s) \notin disturbed' PROVE RowTrue(g, a, s)'
            BY <3>2 DEF RowTrue
      <4>2. Handed(a, s) \notin req[g].claims
            BY <1>1, <1>5, <3>2, <4>1 DEF Disciplined, Apart
      <4>3. pc[g] \in HandingIn \cup Grading => ~About(g, a, s)
            BY <4>2 DEF HomeSound, HomeShaped, About
      <4>4. pc[g] \in Collecting => req[g].work # a
            BY <3>2, <4>2 DEF HomeSound, HomeShaped
      <4>. QED BY <2>1, <4>3, <4>4
               DEF RowTrue, About, HandingIn, Grading, Collecting
    <3>. QED BY <3>1, <3>2
  <2>. QED BY <2>1, <2>2, ShapeStays DEF HomeSound
<1>6. ASSUME NEW b \in Assignments, NEW t \in Pupils, b # a PROVE RowTrue(h, b, t)'
      BY <1>6 DEF RowTrue, About
<1>7. ASSUME NEW b \in Assignments, b # a PROVE CountTrue(b)'
  <2>1. ASSUME NEW g \in Desks, Undisturbed(b)'
        PROVE  /\ Collects(g, b) => Collects(g, b)'
               /\ Recounted(g, b)'
               /\ \A t \in Pupils : /\ CountsIn(g, b, t)' <=> CountsIn(g, b, t)
                                    /\ Records(g, b, t)' <=> Records(g, b, t)
    <3>1. CASE g = h
          BY <1>7, <3>1 DEF Collects, Recounted, CountsIn, Records, About, Collecting
    <3>2. CASE g # h
      <4>1. pc'[g] = pc[g] /\ req'[g] = req[g]
            BY <3>2 DEF Moves, Disciplined
      <4>2. Recounted(g, b)
            BY <1>1, <2>1 DEF HomeSound, CountTrue, Undisturbed
      <4>3. Recounted(g, b)'
            BY <1>2, <1>7, <4>1, <4>2 DEF Recounted
      <4>. QED BY <4>1, <4>3 DEF Collects, CountsIn, Records, About
    <3>. QED BY <3>1, <3>2
  <2>. QED BY <1>1, <1>2, <1>7, <2>1, CountStays DEF HomeSound
<1>. QED BY <1>4, <1>5, <1>6, <1>7 DEF HomeSound

\* A step that changes no submission and no count.
LEMMA HomeAside ==
    ASSUME Disciplined, HomeSound, NEW h \in Desks, Moves(h, LearningCalls),
           UNCHANGED handed, DOMAIN work' = Assignments,
           \A a \in Assignments :
             /\ DOMAIN work'[a] = WorkFields
             /\ work'[a].submitted = work[a].submitted /\ work'[a].graded = work[a].graded,
           HomeShaped(h)', \A a \in Assignments, s \in Pupils : RowTrue(h, a, s)',
           pc[h] \notin {"count in", "count graded", "store count"},
           pc'[h] \notin {"count in", "count graded"},
           \A a \in Assignments : Recounted(h, a)' /\ (Collects(h, a) => Collects(h, a)')
    PROVE  HomeSound'
<1>1. disturbed \subseteq disturbed'
      BY DEF Moves
<1>2. \A a : Rows(a)' = Rows(a) /\ GradedRows(a)' = GradedRows(a)
      BY DEF Rows, GradedRows
<1>3. HomeTyped'
      BY <1>2 DEF HomeSound, HomeTyped, HandedTyped
<1>4. ASSUME NEW g \in Desks, g # h
      PROVE  /\ pc'[g] = pc[g] /\ req'[g] = req[g]
             /\ HomeShaped(g)' /\ \A a \in Assignments, s \in Pupils : RowTrue(g, a, s)'
  <2>1. pc'[g] = pc[g] /\ req'[g] = req[g]
        BY <1>4 DEF Moves, Disciplined
  <2>. QED BY <1>1, <2>1, ShapeStays, RowStays DEF HomeSound
<1>5. ASSUME NEW a \in Assignments PROVE CountTrue(a)'
  <2>1. ASSUME NEW g \in Desks, Undisturbed(a)'
        PROVE  /\ Collects(g, a) => Collects(g, a)'
               /\ Recounted(g, a)'
               /\ \A t \in Pupils : /\ CountsIn(g, a, t)' <=> CountsIn(g, a, t)
                                    /\ Records(g, a, t)' <=> Records(g, a, t)
    <3>1. CASE g = h
          BY <3>1 DEF CountsIn, Records
    <3>2. CASE g # h
      <4>1. pc'[g] = pc[g] /\ req'[g] = req[g]
            BY <1>4, <3>2
      <4>2. Recounted(g, a)
            BY <1>1, <2>1 DEF HomeSound, CountTrue, Undisturbed
      <4>3. Recounted(g, a)'
            BY <1>2, <4>1, <4>2 DEF Recounted
      <4>. QED BY <4>1, <4>3 DEF Collects, CountsIn, Records, About
    <3>. QED BY <3>1, <3>2
  <2>2. \A e \in Rows(a) : e[2] \in Pupils
        BY DEF HomeSound, HomeTyped, HandedTyped, Rows
  <2>. QED BY <1>1, <1>2, <2>1, <2>2, CountStays DEF HomeSound
<1>. QED BY <1>3, <1>4, <1>5 DEF HomeSound

-----------------------------------------------------------------------------
(* Handing in.                                                             *)

LEMMA ResubmitSound ==
    ASSUME Disciplined, HomeSound, NEW h \in Desks, Moves(h, LearningCalls), Resubmit(h)
    PROVE  HomeSound'
<1>0. PICK a, s : a = req[h].work /\ s = req[h].pupil
      OBVIOUS
<1>1. /\ pc[h] = "resubmit" /\ pc'[h] = "idle" /\ work' = work
      /\ handed' = IF <<a, s>> \in DOMAIN handed
                   THEN [handed EXCEPT ![<<a, s>>] = [status |-> "submitted", offline |-> FALSE]]
                   ELSE handed
      BY <1>0 DEF Resubmit, Finish, Leave, Disciplined
<1>2. a \in Assignments /\ s \in Pupils /\ Handed(a, s) \in req[h].claims
      BY <1>0, <1>1 DEF HomeSound, HomeShaped, HandingIn
<1>3. /\ DOMAIN handed' = DOMAIN handed
      /\ \A e \in DOMAIN handed : e # <<a, s>> => handed'[e] = handed[e]
      /\ <<a, s>> \in DOMAIN handed =>
           handed'[<<a, s>>] = [status |-> "submitted", offline |-> FALSE]
      BY <1>1
<1>4. HandedTyped(handed)'
  <2>1. [status |-> "submitted", offline |-> FALSE] \in HandedRow
        BY DEF HandedRow
  <2>. QED BY <1>3, <2>1 DEF HomeSound, HomeTyped, HandedTyped
<1>5. HomeShaped(h)' /\ \A t \in Pupils : RowTrue(h, a, t)'
      BY <1>1 DEF HomeShaped, RowTrue, HandingIn, Grading, Collecting
<1>6. CountTrue(a)'
  <2>1. SUFFICES ASSUME Undisturbed(a)' PROVE CountTrue(a)'
        BY DEF CountTrue
  <2>2. Handed(a, s) \notin disturbed' /\ Handed(a, s) \notin disturbed
        /\ disturbed \subseteq disturbed'
        BY <1>2, <2>1 DEF Undisturbed, Moves
  <2>3. <<a, s>> \notin GradedRows(a)
    <3>1. Submission(a, s).status # "graded"
          BY <1>0, <1>1, <1>2, <2>2 DEF HomeSound, RowTrue, About
    <3>. QED BY <3>1 DEF Submission, GradedRows, Rows
  <2>4. Rows(a)' = Rows(a)
        BY <1>3 DEF Rows
  <2>5. GradedRows(a)' = GradedRows(a)
        BY <1>3, <2>3, <2>4 DEF GradedRows, Rows
  <2>6. ASSUME NEW g \in Desks
        PROVE  /\ Collects(g, a) => Collects(g, a)'
               /\ Recounted(g, a)'
               /\ \A t \in Pupils : /\ CountsIn(g, a, t)' <=> CountsIn(g, a, t)
                                    /\ Records(g, a, t)' <=> Records(g, a, t)
    <3>1. CASE g = h
          BY <1>1, <3>1 DEF Collects, Recounted, CountsIn, Records, Collecting
    <3>2. CASE g # h
          BY <1>2, <2>2, <3>2, OthersAt DEF Collects, Recounted, CountsIn, Records, About
    <3>. QED BY <3>1, <3>2
  <2>7. \A e \in Rows(a) : e[2] \in Pupils
        BY DEF HomeSound, HomeTyped, HandedTyped, Rows
  <2>. QED BY <1>1, <1>2, <2>2, <2>4, <2>5, <2>6, <2>7, CountStays DEF HomeSound
<1>. QED BY <1>0, <1>1, <1>2, <1>3, <1>4, <1>5, <1>6, HomeOne DEF HomeSound, HomeTyped

LEMMA HandInSound ==
    ASSUME Disciplined, HomeSound, NEW h \in Desks, Moves(h, LearningCalls), HandIn(h)
    PROVE  HomeSound'
<1>0. PICK a, s : a = req[h].work /\ s = req[h].pupil
      OBVIOUS
<1>. DEFINE new == [status |-> "submitted", offline |-> FALSE]
<1>1. /\ pc[h] = "hand in" /\ work' = work
      /\ \/ handed' = handed /\ pc'[h] = "idle"
         \/ /\ <<a, s>> \notin DOMAIN handed /\ handed' = With(handed, <<a, s>>, new)
            /\ pc'[h] = "count in" /\ req'[h] = req[h]
      BY <1>0 DEF HandIn, Goto, Finish, Leave, Disciplined
<1>2. a \in Assignments /\ s \in Pupils /\ Handed(a, s) \in req[h].claims
      BY <1>0, <1>1 DEF HomeSound, HomeShaped, HandingIn
<1>3. CASE handed' = handed /\ pc'[h] = "idle"
  <2>1. HomeShaped(h)' /\ \A b \in Assignments, t \in Pupils : RowTrue(h, b, t)'
        BY <1>3 DEF HomeShaped, RowTrue, HandingIn, Grading, Collecting
  <2>2. \A b \in Assignments : Recounted(h, b)' /\ (Collects(h, b) => Collects(h, b)')
        BY <1>1, <1>3 DEF Recounted, Collects, Collecting
  <2>. QED BY <1>1, <1>3, <2>1, <2>2, HomeAside DEF HomeSound, HomeTyped
<1>4. CASE /\ <<a, s>> \notin DOMAIN handed /\ handed' = With(handed, <<a, s>>, new)
           /\ pc'[h] = "count in" /\ req'[h] = req[h]
  <2>1. /\ DOMAIN handed' = DOMAIN handed \cup {<<a, s>>} /\ handed'[<<a, s>>] = new
        /\ \A e \in DOMAIN handed : handed'[e] = handed[e]
        BY <1>4 DEF With
  <2>2. new \in HandedRow /\ new.status = "submitted"
        BY DEF HandedRow
  <2>. HIDE DEF new
  <2>3. HandedTyped(handed)'
        BY <1>2, <2>1, <2>2 DEF HomeSound, HomeTyped, HandedTyped
  <2>4. HomeShaped(h)'
        BY <1>0, <1>2, <1>4 DEF HomeShaped, HandingIn, Grading, Collecting
  <2>5. \A t \in Pupils : RowTrue(h, a, t)'
        BY <1>0, <1>4, <2>1 DEF RowTrue, About
  <2>6. CountTrue(a)'
    <3>1. SUFFICES ASSUME Undisturbed(a)' PROVE CountTrue(a)'
          BY DEF CountTrue
    <3>2. Undisturbed(a) /\ Handed(a, s) \notin disturbed'
          BY <1>2, <3>1 DEF Undisturbed, Moves
    <3>3. \A g \in Desks \ {h} :
            /\ pc'[g] = pc[g] /\ req'[g] = req[g]
            /\ ~CountsIn(g, a, s) /\ ~Records(g, a, s) /\ ~Collects(g, a)
            /\ ~(pc[g] = "store count" /\ req[g].work = a)
          BY <1>2, <3>2, OthersAt
    <3>4. \A g \in Desks : ~Collects(g, a) /\ Recounted(g, a)'
          BY <1>1, <1>4, <3>3 DEF Collects, Recounted, Collecting
    <3>5. ASSUME NEW t \in Pupils
          PROVE  /\ (\E g \in Desks : CountsIn(g, a, t)') <=>
                    t = s \/ \E g \in Desks : CountsIn(g, a, t)
                 /\ (\E g \in Desks : Records(g, a, t)') <=>
                    \E g \in Desks : Records(g, a, t)
      <4>1. \A g \in Desks \ {h} : /\ CountsIn(g, a, t)' <=> CountsIn(g, a, t)
                                   /\ Records(g, a, t)' <=> Records(g, a, t)
            BY <3>3 DEF CountsIn, Records, About
      <4>2. CountsIn(h, a, t)' <=> t = s
            BY <1>0, <1>4 DEF CountsIn, About
      <4>3. ~CountsIn(h, a, t) /\ ~Records(h, a, t) /\ ~Records(h, a, t)'
            BY <1>1, <1>4 DEF CountsIn, Records
      <4>. QED BY <4>1, <4>2, <4>3
    <3>6. Rows(a)' = Rows(a) \cup {<<a, s>>} /\ <<a, s>> \notin Rows(a)
      <4>1. <<a, s>>[1] = a
            OBVIOUS
      <4>2. \A e : e \in Rows(a)' <=> e \in Rows(a) \/ e = <<a, s>>
            BY <2>1, <4>1 DEF Rows
      <4>. QED BY <1>4, <4>2 DEF Rows
    <3>7. GradedRows(a)' = GradedRows(a)
          BY <2>1, <2>2, <3>6 DEF GradedRows, Rows
    <3>8. \A e \in Rows(a)' : e[2] \in Pupils /\ e = <<a, e[2]>>
          BY <2>3 DEF HandedTyped, Rows
    <3>9. Rows(a)' \ Uncounted(a)' = Rows(a) \ Uncounted(a)
          BY <3>5, <3>6, <3>8 DEF Uncounted
    <3>10. Unrecorded(a)' = Unrecorded(a)
          BY <3>5, <3>6, <3>7, <3>8 DEF Unrecorded, GradedRows
    <3>11. /\ work[a].submitted = Cardinality(Rows(a) \ Uncounted(a))
           /\ work[a].graded = Cardinality(GradedRows(a) \ Unrecorded(a))
          BY <1>2, <3>2, <3>4 DEF HomeSound, CountTrue
    <3>. QED BY <1>1, <3>4, <3>7, <3>9, <3>10, <3>11 DEF CountTrue
  <2>. QED BY <1>0, <1>1, <1>2, <1>4, <2>1, <2>3, <2>4, <2>5, <2>6, HomeOne
           DEF HomeSound, HomeTyped
<1>. QED BY <1>1, <1>3, <1>4


\* A submission is counted in once: nobody else is at it.
LEMMA CountInSound ==
    ASSUME Disciplined, HomeSound, NEW h \in Desks, Moves(h, LearningCalls), CountIn(h)
    PROVE  HomeSound'
<1>0. PICK a, s : a = req[h].work /\ s = req[h].pupil
      OBVIOUS
<1>1. /\ pc[h] = "count in" /\ pc'[h] = "idle" /\ handed' = handed
      /\ work' = [work EXCEPT ![a].submitted = work[a].submitted + 1]
      BY <1>0 DEF CountIn, Finish, Leave, Disciplined
<1>2. a \in Assignments /\ s \in Pupils /\ Handed(a, s) \in req[h].claims
      BY <1>0, <1>1 DEF HomeSound, HomeShaped, HandingIn
<1>3. /\ DOMAIN work' = Assignments /\ \A b \in Assignments \ {a} : work'[b] = work[b]
      /\ work'[a] = [work[a] EXCEPT !.submitted = work[a].submitted + 1]
      BY <1>1, <1>2 DEF HomeSound, HomeTyped
<1>4. /\ DOMAIN work'[a] = WorkFields /\ work'[a].submitted = work[a].submitted + 1
      /\ work'[a].graded = work[a].graded
      BY <1>2, <1>3 DEF HomeSound, HomeTyped, WorkFields
<1>5. HomeShaped(h)' /\ \A t \in Pupils : RowTrue(h, a, t)'
      BY <1>1 DEF HomeShaped, RowTrue, HandingIn, Grading, Collecting
<1>6. CountTrue(a)'
  <2>1. SUFFICES ASSUME Undisturbed(a)' PROVE CountTrue(a)'
        BY DEF CountTrue
  <2>2. Undisturbed(a) /\ Handed(a, s) \notin disturbed' /\ Handed(a, s) \notin disturbed
        BY <1>2, <2>1 DEF Undisturbed, Moves
  <2>3. \A g \in Desks \ {h} :
          /\ pc'[g] = pc[g] /\ req'[g] = req[g]
          /\ ~CountsIn(g, a, s) /\ ~Records(g, a, s) /\ ~Collects(g, a)
          /\ ~(pc[g] = "store count" /\ req[g].work = a)
        BY <1>2, <2>2, OthersAt
  <2>4. \A g \in Desks : ~Collects(g, a) /\ Recounted(g, a)'
        BY <1>1, <2>3 DEF Collects, Recounted, Collecting
  <2>5. ASSUME NEW t \in Pupils
        PROVE  /\ (\E g \in Desks : CountsIn(g, a, t)') <=>
                  t # s /\ \E g \in Desks : CountsIn(g, a, t)
               /\ (\E g \in Desks : Records(g, a, t)') <=>
                  \E g \in Desks : Records(g, a, t)
    <3>1. \A g \in Desks \ {h} : /\ CountsIn(g, a, t)' <=> CountsIn(g, a, t)
                                 /\ Records(g, a, t)' <=> Records(g, a, t)
          BY <2>3 DEF CountsIn, Records, About
    <3>2. CountsIn(h, a, t) <=> t = s
          BY <1>0, <1>1 DEF CountsIn, About
    <3>3. ~CountsIn(h, a, t)' /\ ~Records(h, a, t) /\ ~Records(h, a, t)'
          BY <1>1 DEF CountsIn, Records
    <3>4. \A g \in Desks \ {h} : ~CountsIn(g, a, s)
          BY <2>3
    <3>. QED BY <3>1, <3>2, <3>3, <3>4
  <2>6. CountsIn(h, a, s)
        BY <1>0, <1>1 DEF CountsIn, About
  <2>7. Rows(a)' = Rows(a) /\ GradedRows(a)' = GradedRows(a)
        BY <1>1 DEF Rows, GradedRows
  <2>8. \A e \in Rows(a) : e[2] \in Pupils /\ e = <<a, e[2]>>
        BY DEF HomeSound, HomeTyped, HandedTyped, Rows
  <2>9. <<a, s>> \in Rows(a) /\ <<a, s>> \in Uncounted(a)
    <3>1. RowTrue(h, a, s)
          BY <1>2 DEF HomeSound
    <3>2. <<a, s>> \in DOMAIN handed
          BY <1>0, <1>1, <2>2, <3>1 DEF RowTrue, About
    <3>. QED BY <2>6, <3>2 DEF Rows, Uncounted
  <2>10. Rows(a)' \ Uncounted(a)' = (Rows(a) \ Uncounted(a)) \cup {<<a, s>>}
    <3>1. ASSUME NEW e \in Rows(a)
          PROVE  e \in Uncounted(a)' <=> e # <<a, s>> /\ e \in Uncounted(a)
          BY <2>5, <2>7, <2>8, <3>1 DEF Uncounted
    <3>. QED BY <2>7, <2>9, <3>1
  <2>11. Unrecorded(a)' = Unrecorded(a)
        BY <2>5, <2>7, <2>8 DEF Unrecorded, GradedRows
  <2>12. /\ work[a].submitted = Cardinality(Rows(a) \ Uncounted(a))
         /\ work[a].graded = Cardinality(GradedRows(a) \ Unrecorded(a))
        BY <1>2, <2>2, <2>4 DEF HomeSound, CountTrue
  <2>13. IsFiniteSet(Rows(a) \ Uncounted(a))
        BY <1>2, FS_Difference DEF HomeSound, HomeTyped
  <2>14. Cardinality((Rows(a) \ Uncounted(a)) \cup {<<a, s>>}) = work[a].submitted + 1
        BY <2>9, <2>12, <2>13, FS_AddElement
  <2>. QED BY <1>4, <2>4, <2>7, <2>10, <2>11, <2>12, <2>14 DEF CountTrue
<1>. QED BY <1>0, <1>1, <1>2, <1>3, <1>4, <1>5, <1>6, HomeOne DEF HomeSound, HomeTyped

-----------------------------------------------------------------------------
(* Grading.                                                                *)

LEMMA StoreGradeSound ==
    ASSUME Disciplined, HomeSound, NEW h \in Desks, Moves(h, LearningCalls), StoreGrade(h)
    PROVE  HomeSound'
<1>0. PICK a, s : a = req[h].work /\ s = req[h].pupil
      OBVIOUS
<1>1. /\ pc[h] = "grade" /\ work' = work
      /\ \/ handed' = handed /\ pc'[h] = "idle"
         \/ /\ <<a, s>> \in DOMAIN handed
            /\ handed' = [handed EXCEPT ![<<a, s>>].status = "graded"]
            /\ \/ req[h].first /\ pc'[h] = "count graded" /\ req'[h] = req[h]
               \/ ~req[h].first /\ pc'[h] = "idle"
      BY <1>0 DEF StoreGrade, Goto, Finish, Leave, Disciplined
<1>2. a \in Assignments /\ s \in Pupils /\ Handed(a, s) \in req[h].claims
      BY <1>0, <1>1 DEF HomeSound, HomeShaped, Grading
<1>3. CASE handed' = handed /\ pc'[h] = "idle"
  <2>1. HomeShaped(h)' /\ \A b \in Assignments, t \in Pupils : RowTrue(h, b, t)'
        BY <1>3 DEF HomeShaped, RowTrue, HandingIn, Grading, Collecting
  <2>2. \A b \in Assignments : Recounted(h, b)' /\ (Collects(h, b) => Collects(h, b)')
        BY <1>1, <1>3 DEF Recounted, Collects, Collecting
  <2>. QED BY <1>1, <1>3, <2>1, <2>2, HomeAside DEF HomeSound, HomeTyped
<1>4. CASE /\ <<a, s>> \in DOMAIN handed
           /\ handed' = [handed EXCEPT ![<<a, s>>].status = "graded"]
           /\ \/ req[h].first /\ pc'[h] = "count graded" /\ req'[h] = req[h]
              \/ ~req[h].first /\ pc'[h] = "idle"
  <2>1. /\ DOMAIN handed' = DOMAIN handed
        /\ \A e \in DOMAIN handed : e # <<a, s>> => handed'[e] = handed[e]
        /\ handed'[<<a, s>>] = [handed[<<a, s>>] EXCEPT !.status = "graded"]
        BY <1>4
  <2>2. handed'[<<a, s>>] \in HandedRow /\ handed'[<<a, s>>].status = "graded"
    <3>1. handed[<<a, s>>] \in HandedRow
          BY <1>4 DEF HomeSound, HomeTyped, HandedTyped
    <3>. QED BY <2>1, <3>1 DEF HandedRow
  <2>3. HandedTyped(handed)'
        BY <2>1, <2>2 DEF HomeSound, HomeTyped, HandedTyped
  <2>4. HomeShaped(h)'
        BY <1>0, <1>2, <1>4 DEF HomeShaped, HandingIn, Grading, Collecting
  <2>5. Rows(a)' = Rows(a) /\ <<a, s>> \in Rows(a)
        BY <1>4, <2>1 DEF Rows
  <2>6. GradedRows(a)' = GradedRows(a) \cup {<<a, s>>}
        BY <2>1, <2>2, <2>5 DEF GradedRows, Rows
  <2>7. \A t \in Pupils : RowTrue(h, a, t)'
        BY <1>0, <1>4, <2>6 DEF RowTrue, About
  <2>8. CountTrue(a)'
    <3>1. SUFFICES ASSUME Undisturbed(a)' PROVE CountTrue(a)'
          BY DEF CountTrue
    <3>2. Undisturbed(a) /\ Handed(a, s) \notin disturbed' /\ Handed(a, s) \notin disturbed
          BY <1>2, <3>1 DEF Undisturbed, Moves
    <3>3. \A g \in Desks \ {h} :
            /\ pc'[g] = pc[g] /\ req'[g] = req[g]
            /\ ~CountsIn(g, a, s) /\ ~Records(g, a, s) /\ ~Collects(g, a)
            /\ ~(pc[g] = "store count" /\ req[g].work = a)
          BY <1>2, <3>2, OthersAt
    <3>4. \A g \in Desks : ~Collects(g, a) /\ Recounted(g, a)'
          BY <1>1, <1>4, <3>3 DEF Collects, Recounted, Collecting
    <3>5. req[h].first = (<<a, s>> \notin GradedRows(a))
      <4>1. RowTrue(h, a, s)
            BY <1>2 DEF HomeSound
      <4>2. req[h].first = (Submission(a, s).status # "graded")
            BY <1>0, <1>1, <3>2, <4>1 DEF RowTrue, About
      <4>3. (Submission(a, s).status # "graded") = (<<a, s>> \notin GradedRows(a))
            BY <1>4, <2>5 DEF Submission, GradedRows
      <4>. QED BY <4>2, <4>3
    <3>6. ASSUME NEW t \in Pupils
          PROVE  /\ (\E g \in Desks : CountsIn(g, a, t)') <=>
                    \E g \in Desks : CountsIn(g, a, t)
                 /\ (\E g \in Desks : Records(g, a, t)') <=>
                    (t = s /\ pc'[h] = "count graded") \/ \E g \in Desks : Records(g, a, t)
      <4>1. \A g \in Desks \ {h} : /\ CountsIn(g, a, t)' <=> CountsIn(g, a, t)
                                   /\ Records(g, a, t)' <=> Records(g, a, t)
            BY <3>3 DEF CountsIn, Records, About
      <4>2. Records(h, a, t)' <=> t = s /\ pc'[h] = "count graded"
            BY <1>0, <1>4 DEF Records, About
      <4>3. ~CountsIn(h, a, t) /\ ~Records(h, a, t) /\ ~CountsIn(h, a, t)'
            BY <1>1, <1>4 DEF CountsIn, Records
      <4>. QED BY <4>1, <4>2, <4>3
    <3>7. \A e \in Rows(a) : e[2] \in Pupils /\ e = <<a, e[2]>>
          BY DEF HomeSound, HomeTyped, HandedTyped, Rows
    <3>8. Uncounted(a)' = Uncounted(a)
          BY <2>5, <3>6, <3>7 DEF Uncounted
    <3>9. GradedRows(a)' \ Unrecorded(a)' = GradedRows(a) \ Unrecorded(a)
      <4>1. ASSUME NEW e \in GradedRows(a)'
            PROVE  e \in Unrecorded(a)' <=> \/ e = <<a, s>> /\ pc'[h] = "count graded"
                                            \/ \E g \in Desks : Records(g, a, e[2])
        <5>1. e \in Rows(a) /\ e[2] \in Pupils /\ e = <<a, e[2]>>
              BY <2>5, <3>7, <4>1 DEF GradedRows
        <5>2. e[2] = s <=> e = <<a, s>>
              BY <5>1
        <5>3. e \in Unrecorded(a)' <=> \E g \in Desks : Records(g, a, e[2])'
              BY <4>1 DEF Unrecorded
        <5>. QED BY <3>6, <5>1, <5>2, <5>3
      <4>2. \A e \in GradedRows(a) :
              e \in Unrecorded(a) <=> \E g \in Desks : Records(g, a, e[2])
            BY DEF Unrecorded
      <4>3. ~\E g \in Desks : Records(g, a, s)
            BY <1>1, <3>3 DEF Records
      <4>4. CASE <<a, s>> \in GradedRows(a)
        <5>1. GradedRows(a)' = GradedRows(a) /\ pc'[h] # "count graded"
              BY <1>4, <2>6, <3>5, <4>4
        <5>. QED BY <4>1, <4>2, <5>1
      <4>5. CASE <<a, s>> \notin GradedRows(a)
        <5>1. pc'[h] = "count graded"
              BY <1>4, <3>5, <4>5
        <5>2. <<a, s>> \in Unrecorded(a)'
              BY <2>6, <4>1, <5>1
        <5>. QED BY <2>6, <4>1, <4>2, <4>5, <5>1, <5>2
      <4>. QED BY <4>4, <4>5
    <3>10. /\ work[a].submitted = Cardinality(Rows(a) \ Uncounted(a))
           /\ work[a].graded = Cardinality(GradedRows(a) \ Unrecorded(a))
          BY <1>2, <3>2, <3>4 DEF HomeSound, CountTrue
    <3>. QED BY <1>1, <2>5, <3>4, <3>8, <3>9, <3>10 DEF CountTrue
  <2>. QED BY <1>0, <1>1, <1>2, <1>4, <2>1, <2>3, <2>4, <2>7, <2>8, HomeOne
           DEF HomeSound, HomeTyped
<1>. QED BY <1>1, <1>3, <1>4

LEMMA CountGradedSound ==
    ASSUME Disciplined, HomeSound, NEW h \in Desks, Moves(h, LearningCalls), CountGraded(h)
    PROVE  HomeSound'
<1>0. PICK a, s : a = req[h].work /\ s = req[h].pupil
      OBVIOUS
<1>1. /\ pc[h] = "count graded" /\ pc'[h] = "idle" /\ handed' = handed
      /\ work' = [work EXCEPT ![a].graded = work[a].graded + 1]
      BY <1>0 DEF CountGraded, Finish, Leave, Disciplined
<1>2. a \in Assignments /\ s \in Pupils /\ Handed(a, s) \in req[h].claims
      BY <1>0, <1>1 DEF HomeSound, HomeShaped, Grading
<1>3. /\ DOMAIN work' = Assignments /\ \A b \in Assignments \ {a} : work'[b] = work[b]
      /\ work'[a] = [work[a] EXCEPT !.graded = work[a].graded + 1]
      BY <1>1, <1>2 DEF HomeSound, HomeTyped
<1>4. /\ DOMAIN work'[a] = WorkFields /\ work'[a].graded = work[a].graded + 1
      /\ work'[a].submitted = work[a].submitted
      BY <1>2, <1>3 DEF HomeSound, HomeTyped, WorkFields
<1>5. HomeShaped(h)' /\ \A t \in Pupils : RowTrue(h, a, t)'
      BY <1>1 DEF HomeShaped, RowTrue, HandingIn, Grading, Collecting
<1>6. CountTrue(a)'
  <2>1. SUFFICES ASSUME Undisturbed(a)' PROVE CountTrue(a)'
        BY DEF CountTrue
  <2>2. Undisturbed(a) /\ Handed(a, s) \notin disturbed' /\ Handed(a, s) \notin disturbed
        BY <1>2, <2>1 DEF Undisturbed, Moves
  <2>3. \A g \in Desks \ {h} :
          /\ pc'[g] = pc[g] /\ req'[g] = req[g]
          /\ ~CountsIn(g, a, s) /\ ~Records(g, a, s) /\ ~Collects(g, a)
          /\ ~(pc[g] = "store count" /\ req[g].work = a)
        BY <1>2, <2>2, OthersAt
  <2>4. \A g \in Desks : ~Collects(g, a) /\ Recounted(g, a)'
        BY <1>1, <2>3 DEF Collects, Recounted, Collecting
  <2>5. ASSUME NEW t \in Pupils
        PROVE  /\ (\E g \in Desks : Records(g, a, t)') <=>
                  t # s /\ \E g \in Desks : Records(g, a, t)
               /\ (\E g \in Desks : CountsIn(g, a, t)') <=>
                  \E g \in Desks : CountsIn(g, a, t)
    <3>1. \A g \in Desks \ {h} : /\ CountsIn(g, a, t)' <=> CountsIn(g, a, t)
                                 /\ Records(g, a, t)' <=> Records(g, a, t)
          BY <2>3 DEF CountsIn, Records, About
    <3>2. Records(h, a, t) <=> t = s
          BY <1>0, <1>1 DEF Records, About
    <3>3. ~Records(h, a, t)' /\ ~CountsIn(h, a, t) /\ ~CountsIn(h, a, t)'
          BY <1>1 DEF CountsIn, Records
    <3>4. \A g \in Desks \ {h} : ~Records(g, a, s)
          BY <2>3
    <3>. QED BY <3>1, <3>2, <3>3, <3>4
  <2>6. Records(h, a, s)
        BY <1>0, <1>1 DEF Records, About
  <2>7. Rows(a)' = Rows(a) /\ GradedRows(a)' = GradedRows(a)
        BY <1>1 DEF Rows, GradedRows
  <2>8. \A e \in Rows(a) : e[2] \in Pupils /\ e = <<a, e[2]>>
        BY DEF HomeSound, HomeTyped, HandedTyped, Rows
  <2>9. <<a, s>> \in GradedRows(a) /\ <<a, s>> \in Unrecorded(a)
    <3>1. RowTrue(h, a, s)
          BY <1>2 DEF HomeSound
    <3>2. <<a, s>> \in GradedRows(a)
          BY <1>0, <1>1, <2>2, <3>1 DEF RowTrue, About
    <3>. QED BY <2>6, <3>2 DEF Unrecorded
  <2>10. GradedRows(a)' \ Unrecorded(a)' = (GradedRows(a) \ Unrecorded(a)) \cup {<<a, s>>}
    <3>1. ASSUME NEW e \in GradedRows(a)
          PROVE  e \in Unrecorded(a)' <=> e # <<a, s>> /\ e \in Unrecorded(a)
          BY <2>5, <2>7, <2>8, <3>1 DEF Unrecorded, GradedRows
    <3>. QED BY <2>7, <2>9, <3>1
  <2>11. Uncounted(a)' = Uncounted(a)
        BY <2>5, <2>7, <2>8 DEF Uncounted
  <2>12. /\ work[a].submitted = Cardinality(Rows(a) \ Uncounted(a))
         /\ work[a].graded = Cardinality(GradedRows(a) \ Unrecorded(a))
        BY <1>2, <2>2, <2>4 DEF HomeSound, CountTrue
  <2>13. IsFiniteSet(GradedRows(a) \ Unrecorded(a))
    <3>1. IsFiniteSet(Rows(a)) /\ GradedRows(a) \ Unrecorded(a) \subseteq Rows(a)
          BY <1>2 DEF HomeSound, HomeTyped, GradedRows
    <3>. QED BY <3>1, FS_Subset
  <2>14. Cardinality((GradedRows(a) \ Unrecorded(a)) \cup {<<a, s>>}) = work[a].graded + 1
        BY <2>9, <2>12, <2>13, FS_AddElement
  <2>. QED BY <1>4, <2>4, <2>7, <2>10, <2>11, <2>12, <2>14 DEF CountTrue
<1>. QED BY <1>0, <1>1, <1>2, <1>3, <1>4, <1>5, <1>6, HomeOne DEF HomeSound, HomeTyped


-----------------------------------------------------------------------------
(* Collecting.                                                             *)

LEMMA BeginCollectSound ==
    ASSUME Disciplined, PeopleShaped, HomeSound, NEW h \in Desks, Moves(h, LearningCalls),
           NEW a \in Assignments, NEW ticked, BeginCollect(h, a, ticked)
    PROVE  HomeSound'
<1>. DEFINE left == Active(Home)
            claims == {Handed(a, s) : s \in Pupils}
            r == [claims |-> claims, work |-> a, ticked |-> ticked, left |-> left,
                  seen |-> handed, counted |-> 0]
<1>1. /\ pc[h] = "idle" /\ pc'[h] = "rows as they are" /\ req'[h] = r
      /\ work' = work /\ handed' = handed
      BY DEF BeginCollect, Begin, Asked, Open, Idle, learning, Disciplined
<1>2. /\ DOMAIN r = CollectFields /\ r.claims = claims /\ r.work = a /\ r.left = left
      /\ r.seen = handed
      BY DEF CollectFields
<1>3. left \subseteq Pupils
      BY DEF Active, Living, PeopleShaped, PupilsTyped
<1>4. \A s \in Pupils : Handed(a, s) \in claims
      OBVIOUS
<1>5. HandedTyped(handed)
      BY DEF HomeSound, HomeTyped
<1>. HIDE DEF r, left, claims
<1>6. HomeShaped(h)'
      BY <1>1, <1>2, <1>3, <1>4, <1>5 DEF HomeShaped, HandedTyped, HandingIn, Grading
<1>7. \A b \in Assignments, s \in Pupils : RowTrue(h, b, s)'
      BY <1>1 DEF RowTrue
<1>8. \A b \in Assignments : Recounted(h, b)' /\ (Collects(h, b) => Collects(h, b)')
      BY <1>1 DEF Recounted, Collects, Collecting
<1>. QED BY <1>1, <1>6, <1>7, <1>8, HomeAside DEF HomeSound, HomeTyped

LEMMA ReadRowsSound ==
    ASSUME Disciplined, HomeSound, NEW h \in Desks, Moves(h, LearningCalls), ReadRows(h)
    PROVE  HomeSound'
<1>. DEFINE r == [req[h] EXCEPT !.seen = handed]
<1>1. /\ pc[h] = "rows as they are" /\ pc'[h] \in {"recount", "collect"} /\ req'[h] = r
      /\ work' = work /\ handed' = handed
      BY DEF ReadRows, Carry, learning, Disciplined
<1>2. /\ DOMAIN req[h] = CollectFields /\ req[h].work \in Assignments
      /\ req[h].left \subseteq Pupils
      /\ \A s \in Pupils : Handed(req[h].work, s) \in req[h].claims
      BY <1>1 DEF HomeSound, HomeShaped, Collecting
<1>3. /\ DOMAIN r = CollectFields /\ r.claims = req[h].claims /\ r.work = req[h].work
      /\ r.left = req[h].left /\ r.seen = handed
      BY <1>2 DEF CollectFields
<1>4. HandedTyped(handed)
      BY DEF HomeSound, HomeTyped
<1>. HIDE DEF r
<1>5. HomeShaped(h)'
      BY <1>1, <1>2, <1>3, <1>4 DEF HomeShaped, HandedTyped, HandingIn, Grading
<1>6. \A b \in Assignments, s \in Pupils : RowTrue(h, b, s)'
      BY <1>1, <1>3 DEF RowTrue, Seen, Submission
<1>7. \A b \in Assignments : Recounted(h, b)' /\ (Collects(h, b) => Collects(h, b)')
      BY <1>1, <1>3 DEF Recounted, Collects, Collecting
<1>. QED BY <1>1, <1>5, <1>6, <1>7, HomeAside DEF HomeSound, HomeTyped

\* What becomes of one row of a collection, and that its grade does not
\* change if it is still as it was seen.
LEMMA CollectOneDoes ==
    ASSUME Disciplined, HomeSound, NEW h \in Desks, CollectOne(h),
           NEW a, a = req[h].work
    PROVE  /\ pc[h] = "collect" /\ work' = work
           /\ \E s \in req[h].left :
                /\ \A e : e # <<a, s>> =>
                     /\ e \in DOMAIN handed' <=> e \in DOMAIN handed
                     /\ e \in DOMAIN handed => handed'[e] = handed[e]
                /\ HandedTyped(handed)'
                /\ \/ /\ pc'[h] = "idle" /\ req[h].claims \subseteq disturbed'
                      /\ handed' = handed
                   \/ /\ pc'[h] \in {"recount", "collect"}
                      /\ req'[h] = [req[h] EXCEPT !.left = req[h].left \ {s}]
                /\ Seen(h, a, s) = Submission(a, s) =>
                     (Submission(a, s)'.status = "graded" <=>
                      Submission(a, s).status = "graded")
<1>0. a = req[h].work
      OBVIOUS
<1>1. /\ pc[h] = "collect" /\ work' = work /\ HandedTyped(handed) /\ HandedTyped(req[h].seen)
      BY DEF CollectOne, HomeSound, HomeTyped, HomeShaped, Collecting
<1>2. PICK s \in req[h].left :
        LET e    == <<req[h].work, s>>
            was  == IF e \in DOMAIN req[h].seen THEN req[h].seen[e] ELSE NotHanded
            what == Collected(s \in req[h].ticked, was)
            on   == Carry(h, IF req[h].left = {s} THEN "recount" ELSE "collect",
                          [req[h] EXCEPT !.left = req[h].left \ {s}])
        IN \/ what = "leave" /\ on /\ UNCHANGED handed
           \/ /\ what = "create" /\ e \notin DOMAIN handed /\ on
              /\ handed' = With(handed, e, [status |-> "submitted", offline |-> TRUE])
           \/ /\ what = "update" /\ e \in DOMAIN handed /\ on
              /\ handed' = [handed EXCEPT ![e] = [status |-> was.status, offline |-> TRUE]]
           \/ /\ what = "delete" /\ e \in DOMAIN handed /\ on
              /\ handed' = Without(handed, e)
           \/ /\ what # "leave"
              /\ what = "create" <=> e \in DOMAIN handed
              /\ BreakOff(h, req[h].claims)
              /\ UNCHANGED handed
      BY DEF CollectOne
<1>3. PICK e, was : e = <<a, s>> /\ was = Seen(h, a, s)
      OBVIOUS
<1>. DEFINE what == Collected(s \in req[h].ticked, was)
            on == /\ pc'[h] \in {"recount", "collect"}
                  /\ req'[h] = [req[h] EXCEPT !.left = req[h].left \ {s}]
<1>4. \/ on /\ handed' = handed
      \/ /\ e \notin DOMAIN handed /\ on
         /\ handed' = With(handed, e, [status |-> "submitted", offline |-> TRUE])
      \/ /\ what = "update" /\ e \in DOMAIN handed /\ on
         /\ handed' = [handed EXCEPT ![e] = [status |-> was.status, offline |-> TRUE]]
      \/ what = "delete" /\ e \in DOMAIN handed /\ on /\ handed' = Without(handed, e)
      \/ pc'[h] = "idle" /\ req[h].claims \subseteq disturbed' /\ handed' = handed
  <2>1. was = IF e \in DOMAIN req[h].seen THEN req[h].seen[e] ELSE NotHanded
        BY <1>3 DEF Seen
  <2>2. Carry(h, IF req[h].left = {s} THEN "recount" ELSE "collect",
              [req[h] EXCEPT !.left = req[h].left \ {s}]) => on
        BY DEF Carry, Disciplined
  <2>3. BreakOff(h, req[h].claims) => pc'[h] = "idle" /\ req[h].claims \subseteq disturbed'
        BY DEF BreakOff, Leave, Disciplined
  <2>. HIDE DEF on, what
  <2>. QED BY <1>0, <1>2, <1>3, <2>1, <2>2, <2>3 DEF what
<1>5. /\ what = "update" => was # NotHanded /\ was.status # "graded"
      /\ what = "delete" => was.status # "graded"
      BY DEF Collected, Removable
<1>. HIDE DEF what
<1>6. was # NotHanded => was \in HandedRow
      BY <1>1, <1>3 DEF Seen, HandedTyped
<1>7. \A f : f # e => /\ f \in DOMAIN handed' <=> f \in DOMAIN handed
                      /\ f \in DOMAIN handed => handed'[f] = handed[f]
      BY <1>4 DEF With, Without
<1>8. e \in DOMAIN handed' =>
        \/ e \in DOMAIN handed /\ handed'[e] = handed[e]
        \/ e \notin DOMAIN handed /\ handed'[e] = [status |-> "submitted", offline |-> TRUE]
        \/ /\ e \in DOMAIN handed /\ what = "update"
           /\ handed'[e] = [status |-> was.status, offline |-> TRUE]
      BY <1>4 DEF With, Without
<1>9. e \in Assignments \X Pupils
      BY <1>0, <1>1, <1>3 DEF HomeSound, HomeShaped, Collecting
<1>10. HandedTyped(handed)'
  <2>1. ASSUME e \in DOMAIN handed' PROVE handed'[e] \in HandedRow
    <3>1. [status |-> "submitted", offline |-> TRUE] \in HandedRow
          BY DEF HandedRow
    <3>2. what = "update" => [status |-> was.status, offline |-> TRUE] \in HandedRow
          BY <1>5, <1>6 DEF HandedRow
    <3>. QED BY <1>1, <1>8, <2>1, <3>1, <3>2 DEF HandedTyped
  <2>. QED BY <1>1, <1>7, <1>9, <2>1 DEF HandedTyped
<1>11. ASSUME was = Submission(a, s)
       PROVE  Submission(a, s)'.status = "graded" <=> Submission(a, s).status = "graded"
  <2>1. /\ Submission(a, s) = IF e \in DOMAIN handed THEN handed[e] ELSE NotHanded
        /\ Submission(a, s)' = IF e \in DOMAIN handed' THEN handed'[e] ELSE NotHanded
        BY <1>3 DEF Submission
  <2>2. NotHanded.status # "graded"
        BY DEF NotHanded
  <2>3. CASE e \in DOMAIN handed'
        BY <1>5, <1>8, <1>11, <2>1, <2>2, <2>3
  <2>4. CASE e \notin DOMAIN handed'
    <3>1. e \in DOMAIN handed => what = "delete"
          BY <1>4, <2>4
    <3>. QED BY <1>5, <1>11, <2>1, <2>2, <2>4, <3>1
  <2>. QED BY <2>3, <2>4
<1>. QED BY <1>0, <1>1, <1>3, <1>4, <1>7, <1>10, <1>11

LEMMA CollectOneSound ==
    ASSUME Disciplined, HomeSound, NEW h \in Desks, Moves(h, LearningCalls), CollectOne(h)
    PROVE  HomeSound'
<1>0. PICK a : a = req[h].work
      OBVIOUS
<1>1. pc[h] = "collect" /\ work' = work
      BY CollectOneDoes
<1>2. PICK s \in req[h].left :
        /\ \A e : e # <<a, s>> => /\ e \in DOMAIN handed' <=> e \in DOMAIN handed
                                  /\ e \in DOMAIN handed => handed'[e] = handed[e]
        /\ HandedTyped(handed)'
        /\ \/ pc'[h] = "idle" /\ req[h].claims \subseteq disturbed' /\ handed' = handed
           \/ /\ pc'[h] \in {"recount", "collect"}
              /\ req'[h] = [req[h] EXCEPT !.left = req[h].left \ {s}]
        /\ Seen(h, a, s) = Submission(a, s) =>
             (Submission(a, s)'.status = "graded" <=> Submission(a, s).status = "graded")
      BY <1>0, CollectOneDoes
<1>3. /\ DOMAIN req[h] = CollectFields /\ a \in Assignments /\ req[h].left \subseteq Pupils
      /\ \A t \in Pupils : Handed(a, t) \in req[h].claims
      /\ HandedTyped(req[h].seen)
      BY <1>0, <1>1 DEF HomeSound, HomeShaped, Collecting
<1>4. \/ pc'[h] = "idle" /\ Handed(a, s) \in disturbed'
      \/ /\ pc'[h] \in {"recount", "collect"} /\ DOMAIN req'[h] = CollectFields
         /\ req'[h].work = a /\ req'[h].claims = req[h].claims
         /\ req'[h].left = req[h].left \ {s} /\ req'[h].seen = req[h].seen
  <2>. DEFINE r == [req[h] EXCEPT !.left = req[h].left \ {s}]
  <2>1. /\ DOMAIN r = CollectFields /\ r.work = a /\ r.claims = req[h].claims
        /\ r.left = req[h].left \ {s} /\ r.seen = req[h].seen
        BY <1>0, <1>3 DEF CollectFields
  <2>2. \/ pc'[h] = "idle" /\ req[h].claims \subseteq disturbed'
        \/ pc'[h] \in {"recount", "collect"} /\ req'[h] = r
        BY <1>2
  <2>. HIDE DEF r
  <2>. QED BY <1>3, <2>1, <2>2
<1>5. HomeShaped(h)'
      BY <1>3, <1>4 DEF HomeShaped, HandedTyped, HandingIn, Grading, Collecting
<1>6. ASSUME NEW t \in Pupils PROVE RowTrue(h, a, t)'
  <2>1. SUFFICES ASSUME Handed(a, t) \notin disturbed', pc'[h] = "collect",
                        t \in req'[h].left
                 PROVE  Seen(h, a, t)' = Submission(a, t)'
        BY <1>4 DEF RowTrue
  <2>2. t # s /\ t \in req[h].left /\ req'[h].seen = req[h].seen
        BY <1>4, <2>1
  <2>3. Seen(h, a, t) = Submission(a, t)
    <3>1. RowTrue(h, a, t) /\ Handed(a, t) \notin disturbed
          BY <1>3, <2>1 DEF HomeSound, Moves
    <3>. QED BY <1>0, <1>1, <2>2, <3>1 DEF RowTrue
  <2>4. Submission(a, t)' = Submission(a, t)
    <3>1. <<a, t>> # <<a, s>>
          BY <2>2
    <3>. QED BY <1>2, <3>1 DEF Submission
  <2>. QED BY <2>2, <2>3, <2>4 DEF Seen
<1>7. CountTrue(a)'
  <2>1. SUFFICES ASSUME Undisturbed(a)' PROVE CountTrue(a)'
        BY DEF CountTrue
  <2>2. Undisturbed(a) /\ Handed(a, s) \notin disturbed' /\ Handed(a, s) \notin disturbed
        /\ s \in Pupils
        BY <1>3, <2>1 DEF Undisturbed, Moves
  <2>3. pc'[h] \in {"recount", "collect"} /\ Collects(h, a)'
        BY <1>4, <2>2 DEF Collects, Collecting
  <2>4. \A g \in Desks \ {h} :
          /\ pc'[g] = pc[g] /\ req'[g] = req[g]
          /\ ~CountsIn(g, a, s) /\ ~Records(g, a, s) /\ ~Collects(g, a)
          /\ ~(pc[g] = "store count" /\ req[g].work = a)
        BY <1>3, <2>2, OthersAt
  <2>5. \A g \in Desks : Recounted(g, a)'
        BY <2>3, <2>4 DEF Recounted
  <2>6. GradedRows(a)' = GradedRows(a)
    <3>1. Seen(h, a, s) = Submission(a, s)
      <4>1. RowTrue(h, a, s)
            BY <1>3 DEF HomeSound
      <4>. QED BY <1>0, <1>1, <2>2, <4>1 DEF RowTrue
    <3>2. Submission(a, s)'.status = "graded" <=> Submission(a, s).status = "graded"
          BY <1>2, <3>1
    <3>3. NotHanded.status # "graded"
          BY DEF NotHanded
    <3>4. <<a, s>> \in GradedRows(a)' <=> <<a, s>> \in GradedRows(a)
          BY <3>2, <3>3 DEF Submission, GradedRows, Rows
    <3>5. \A e : e # <<a, s>> => (e \in GradedRows(a)' <=> e \in GradedRows(a))
          BY <1>2 DEF GradedRows, Rows
    <3>. QED BY <3>4, <3>5
  <2>7. Unrecorded(a)' = Unrecorded(a)
    <3>1. \A g \in Desks : \A t : Records(g, a, t)' <=> Records(g, a, t)
          BY <1>1, <2>3, <2>4 DEF Records, About
    <3>. QED BY <2>6, <3>1 DEF Unrecorded
  <2>8. work[a].graded = Cardinality(GradedRows(a) \ Unrecorded(a))
        BY <1>3, <2>2 DEF HomeSound, CountTrue
  <2>. QED BY <1>1, <2>3, <2>5, <2>6, <2>7, <2>8 DEF CountTrue
<1>8. s \in Pupils /\ Handed(a, s) \in req[h].claims
      BY <1>3
<1>. QED BY <1>0, <1>1, <1>2, <1>3, <1>4, <1>5, <1>6, <1>7, <1>8, HomeOne
         DEF HomeSound, HomeTyped

LEMMA RecountSound ==
    ASSUME Disciplined, HomeSound, NEW h \in Desks, Moves(h, LearningCalls), Recount(h)
    PROVE  HomeSound'
<1>0. PICK a : a = req[h].work
      OBVIOUS
<1>. DEFINE n == Cardinality(Rows(a))
            r == [req[h] EXCEPT !.counted = n]
<1>1. /\ pc[h] = "recount" /\ pc'[h] = "store count" /\ req'[h] = r
      /\ work' = work /\ handed' = handed
      BY <1>0 DEF Recount, Carry, learning, Disciplined, Rows
<1>2. /\ DOMAIN req[h] = CollectFields /\ a \in Assignments
      /\ req[h].left \subseteq Pupils
      /\ \A s \in Pupils : Handed(a, s) \in req[h].claims
      /\ HandedTyped(req[h].seen)
      BY <1>0, <1>1 DEF HomeSound, HomeShaped, Collecting
<1>3. /\ DOMAIN r = CollectFields /\ r.claims = req[h].claims /\ r.work = a
      /\ r.left = req[h].left /\ r.seen = req[h].seen /\ r.counted = n
      BY <1>0, <1>2 DEF CollectFields
<1>4. n = Cardinality(Rows(a))'
      BY <1>1 DEF Rows
<1>. HIDE DEF r, n
<1>5. HomeShaped(h)'
      BY <1>1, <1>2, <1>3 DEF HomeShaped, HandedTyped, HandingIn, Grading
<1>6. \A b \in Assignments, s \in Pupils : RowTrue(h, b, s)'
      BY <1>1 DEF RowTrue
<1>7. \A b \in Assignments : Recounted(h, b)' /\ (Collects(h, b) => Collects(h, b)')
      BY <1>0, <1>1, <1>3, <1>4 DEF Recounted, Collects, Collecting
<1>. QED BY <1>1, <1>5, <1>6, <1>7, HomeAside DEF HomeSound, HomeTyped


\* A count written is the count there is: nobody handed in since it was taken.
LEMMA StoreCountSound ==
    ASSUME Disciplined, HomeSound, NEW h \in Desks, Moves(h, LearningCalls), StoreCount(h)
    PROVE  HomeSound'
<1>0. PICK a, n : a = req[h].work /\ n = req[h].counted
      OBVIOUS
<1>1. /\ pc[h] = "store count" /\ pc'[h] = "idle" /\ handed' = handed
      /\ work' = [work EXCEPT ![a].submitted = n]
      BY <1>0 DEF StoreCount, Finish, Leave, Disciplined
<1>2. a \in Assignments /\ \A s \in Pupils : Handed(a, s) \in req[h].claims
      BY <1>0, <1>1 DEF HomeSound, HomeShaped, Collecting
<1>3. /\ DOMAIN work' = Assignments /\ \A b \in Assignments \ {a} : work'[b] = work[b]
      /\ work'[a] = [work[a] EXCEPT !.submitted = n]
      BY <1>1, <1>2 DEF HomeSound, HomeTyped
<1>4. /\ DOMAIN work'[a] = WorkFields /\ work'[a].submitted = n
      /\ work'[a].graded = work[a].graded
      BY <1>2, <1>3 DEF HomeSound, HomeTyped, WorkFields
<1>5. HomeShaped(h)' /\ \A t \in Pupils : RowTrue(h, a, t)'
      BY <1>1 DEF HomeShaped, RowTrue, HandingIn, Grading, Collecting
<1>6. CountTrue(a)'
  <2>1. SUFFICES ASSUME Undisturbed(a)' PROVE CountTrue(a)'
        BY DEF CountTrue
  <2>2. Undisturbed(a)
        BY <2>1 DEF Undisturbed, Moves
  <2>3. \A g \in Desks \ {h} : pc'[g] = pc[g] /\ req'[g] = req[g]
        BY DEF Moves, Disciplined
  <2>4. Rows(a)' = Rows(a) /\ GradedRows(a)' = GradedRows(a)
        BY <1>1 DEF Rows, GradedRows
  <2>5. \A g \in Desks : Recounted(g, a)
        BY <1>2, <2>2 DEF HomeSound, CountTrue
  <2>6. \A g \in Desks : Recounted(g, a)'
        BY <1>1, <2>3, <2>4, <2>5 DEF Recounted
  <2>7. \A e \in Rows(a) : e[2] \in Pupils
        BY DEF HomeSound, HomeTyped, HandedTyped, Rows
  <2>8. ASSUME NEW e \in Rows(a), NEW g \in Desks PROVE ~CountsIn(g, a, e[2])'
    <3>1. CASE g = h
          BY <1>1, <3>1 DEF CountsIn
    <3>2. CASE g # h
      <4>1. PICK t \in Pupils : t = e[2]
            BY <2>7
      <4>2. ~CountsIn(g, a, t) /\ pc'[g] = pc[g] /\ req'[g] = req[g]
            BY <1>2, <2>1, <3>2, OthersAt DEF Undisturbed
      <4>. QED BY <4>1, <4>2 DEF CountsIn, About
    <3>. QED BY <3>1, <3>2
  <2>9. Uncounted(a)' = {}
        BY <2>4, <2>8 DEF Uncounted
  <2>10. n = Cardinality(Rows(a))
        BY <1>0, <1>1, <2>5 DEF Recounted
  <2>11. Unrecorded(a)' = Unrecorded(a)
    <3>1. \A g \in Desks : \A t : Records(g, a, t)' <=> Records(g, a, t)
          BY <1>1, <2>3 DEF Records, About
    <3>. QED BY <2>4, <3>1 DEF Unrecorded
  <2>12. work[a].graded = Cardinality(GradedRows(a) \ Unrecorded(a))
        BY <1>2, <2>2 DEF HomeSound, CountTrue
  <2>13. Rows(a)' \ Uncounted(a)' = Rows(a)
        BY <2>4, <2>9
  <2>. QED BY <1>4, <2>4, <2>6, <2>10, <2>11, <2>12, <2>13 DEF CountTrue
<1>. QED BY <1>0, <1>1, <1>2, <1>3, <1>4, <1>5, <1>6, HomeOne DEF HomeSound, HomeTyped

-----------------------------------------------------------------------------
(* The other steps.                                                        *)

\* Elsewhere h knows nothing of a submission.
LEMMA HomeIdle ==
    ASSUME Disciplined, HomeSound, NEW h \in Desks, Moves(h, LearningCalls),
           UNCHANGED handed, DOMAIN work' = Assignments,
           \A a \in Assignments :
             /\ DOMAIN work'[a] = WorkFields
             /\ work'[a].submitted = work[a].submitted /\ work'[a].graded = work[a].graded,
           pc[h] \notin Collecting \cup {"count in", "count graded"},
           pc'[h] \notin HandingIn \cup Grading \cup Collecting
    PROVE  HomeSound'
<1>1. HomeShaped(h)' /\ \A a \in Assignments, s \in Pupils : RowTrue(h, a, s)'
      BY DEF HomeShaped, RowTrue, HandingIn, Grading, Collecting
<1>2. \A a \in Assignments : Recounted(h, a)' /\ (Collects(h, a) => Collects(h, a)')
      BY DEF Recounted, Collects, Collecting
<1>. QED BY <1>1, <1>2, HomeAside DEF HandingIn, Grading, Collecting

LEMMA HomeArrive ==
    ASSUME Disciplined, PeopleShaped, HomeSound, NEW h \in Desks, Moves(h, LearningCalls),
           LearningArrive(h)
    PROVE  HomeSound'
<1>. USE DEF HandingIn, Grading, Collecting
<1>0. /\ DOMAIN work = Assignments /\ \A a \in Assignments : DOMAIN work[a] = WorkFields
      BY DEF HomeSound, HomeTyped
<1>1. ASSUME NEW a \in Assignments, NEW status, NEW mode, EditWork(h, a, status, mode)
      PROVE  HomeSound'
  <2>1. /\ handed' = handed /\ pc[h] = "idle" /\ pc'[h] = "idle"
        /\ work' = [work EXCEPT ![a].status = status, ![a].mode = mode]
        BY <1>1 DEF EditWork, Once, Asked, Open, Idle
  <2>2. ASSUME NEW b \in Assignments
        PROVE  /\ DOMAIN work'[b] = WorkFields
               /\ work'[b].submitted = work[b].submitted /\ work'[b].graded = work[b].graded
    <3>1. CASE b = a
      <4>1. work'[b] = [work[b] EXCEPT !.status = status, !.mode = mode]
            BY <1>0, <2>1, <3>1
      <4>. QED BY <1>0, <4>1 DEF WorkFields
    <3>2. CASE b # a
          BY <1>0, <2>1, <3>2
    <3>. QED BY <3>1, <3>2
  <2>3. DOMAIN work' = Assignments
        BY <1>0, <2>1
  <2>. QED BY <2>1, <2>2, <2>3, HomeIdle
<1>2. ASSUME NEW a, NEW status, BeginStage(h, a, status)
      PROVE  HomeSound'
  <2>1. handed' = handed /\ work' = work /\ pc[h] = "idle" /\ pc'[h] = "stage"
        BY <1>2 DEF BeginStage, Begin, Asked, Open, Idle, learning, Disciplined
  <2>. QED BY <1>0, <2>1, HomeIdle
<1>3. ASSUME NEW a \in Assignments, NEW s \in Pupils, BeginSubmit(h, a, s)
      PROVE  HomeSound'
  <2>1. /\ handed' = handed /\ work' = work /\ pc[h] = "idle" /\ pc'[h] = "existing"
        /\ req'[h] = [claims |-> {Handed(a, s)}, work |-> a, pupil |-> s]
        BY <1>3 DEF BeginSubmit, Begin, Asked, Open, Idle, learning, Disciplined
  <2>2. HomeShaped(h)' /\ \A b \in Assignments, t \in Pupils : RowTrue(h, b, t)'
        BY <2>1 DEF HomeShaped, RowTrue
  <2>3. \A b \in Assignments : Recounted(h, b)' /\ (Collects(h, b) => Collects(h, b)')
        BY <2>1 DEF Recounted, Collects
  <2>. QED BY <1>0, <2>1, <2>2, <2>3, HomeAside
<1>4. ASSUME NEW a \in Assignments, NEW s \in Pupils, BeginGrade(h, a, s)
      PROVE  HomeSound'
  <2>. DEFINE first == FirstGrade(handed[<<a, s>>])
              r == [claims |-> {Handed(a, s)}, work |-> a, pupil |-> s, first |-> first]
  <2>1. /\ handed' = handed /\ work' = work /\ pc[h] = "idle" /\ pc'[h] = "grade"
        /\ req'[h] = r /\ <<a, s>> \in DOMAIN handed
        BY <1>4 DEF BeginGrade, Begin, Asked, Open, Idle, learning, Disciplined
  <2>2. r.claims = {Handed(a, s)} /\ r.work = a /\ r.pupil = s /\ r.first = first
        OBVIOUS
  <2>3. first = (Submission(a, s)'.status # "graded")
        BY <2>1 DEF Submission, FirstGrade
  <2>. HIDE DEF r, first
  <2>4. HomeShaped(h)'
        BY <2>1, <2>2 DEF HomeShaped
  <2>5. \A b \in Assignments, t \in Pupils : RowTrue(h, b, t)'
        BY <2>1, <2>2, <2>3 DEF RowTrue, About
  <2>6. \A b \in Assignments : Recounted(h, b)' /\ (Collects(h, b) => Collects(h, b)')
        BY <2>1 DEF Recounted, Collects
  <2>. QED BY <1>0, <2>1, <2>4, <2>5, <2>6, HomeAside
<1>5. ASSUME NEW l, NEW sections, NEW t, BeginSchedule(h, l, sections, t)
      PROVE  HomeSound'
  <2>1. handed' = handed /\ work' = work /\ pc[h] = "idle" /\ pc'[h] = "schedule"
        BY <1>5 DEF BeginSchedule, Begin, Asked, Open, Idle, learning, Disciplined
  <2>. QED BY <1>0, <2>1, HomeIdle
<1>6. ASSUME NEW l, BeginCancel(h, l)
      PROVE  HomeSound'
  <2>1. handed' = handed /\ work' = work /\ pc[h] = "idle" /\ pc'[h] = "cancel"
        BY <1>6 DEF BeginCancel, Begin, Asked, Open, Idle, learning, Disciplined
  <2>. QED BY <1>0, <2>1, HomeIdle
<1>7. ASSUME NEW l, NEW s, BeginJoin(h, l, s)
      PROVE  HomeSound'
  <2>1. handed' = handed /\ work' = work /\ pc[h] = "idle" /\ pc'[h] = "join"
        BY <1>7 DEF BeginJoin, Begin, Asked, Open, Idle, learning, Disciplined
  <2>. QED BY <1>0, <2>1, HomeIdle
<1>. QED BY <1>1, <1>2, <1>3, <1>4, <1>5, <1>6, <1>7, BeginCollectSound DEF LearningArrive

LEMMA ReadExistingSound ==
    ASSUME Disciplined, HomeSound, NEW h \in Desks, Moves(h, LearningCalls), ReadExisting(h)
    PROVE  HomeSound'
<1>. USE DEF HandingIn, Grading, Collecting
<1>0. PICK a, s : a = req[h].work /\ s = req[h].pupil
      OBVIOUS
<1>1. /\ pc[h] = "existing" /\ work' = work /\ handed' = handed
      /\ \/ pc'[h] = "idle"
         \/ pc'[h] = "hand in" /\ req'[h] = req[h]
         \/ pc'[h] = "resubmit" /\ req'[h] = req[h] /\ Submission(a, s).status # "graded"
      BY <1>0 DEF ReadExisting, StillOpen, Goto, Finish, Leave, learning, Disciplined
<1>2. a \in Assignments /\ s \in Pupils /\ Handed(a, s) \in req[h].claims
      BY <1>0, <1>1 DEF HomeSound, HomeShaped
<1>3. HomeShaped(h)'
      BY <1>0, <1>1, <1>2 DEF HomeShaped
<1>4. Submission(a, s)' = Submission(a, s)
      BY <1>1 DEF Submission
<1>5. \A b \in Assignments, t \in Pupils : RowTrue(h, b, t)'
      BY <1>0, <1>1, <1>4 DEF RowTrue, About
<1>6. \A b \in Assignments : Recounted(h, b)' /\ (Collects(h, b) => Collects(h, b)')
      BY <1>1 DEF Recounted, Collects
<1>. QED BY <1>1, <1>3, <1>5, <1>6, HomeAside DEF HomeSound, HomeTyped

LEMMA StoreStageSound ==
    ASSUME Disciplined, HomeSound, NEW h \in Desks, Moves(h, LearningCalls), StoreStage(h)
    PROVE  HomeSound'
<1>0. PICK a, status : a = req[h].work /\ status = req[h].status
      OBVIOUS
<1>1. /\ pc[h] = "stage" /\ pc'[h] = "idle" /\ handed' = handed
      /\ work' = [work EXCEPT ![a].status = status]
      BY <1>0 DEF StoreStage, Finish, Leave, Disciplined
<1>2. /\ DOMAIN work = Assignments /\ \A b \in Assignments : DOMAIN work[b] = WorkFields
      BY DEF HomeSound, HomeTyped
<1>3. ASSUME NEW b \in Assignments
      PROVE  /\ DOMAIN work'[b] = WorkFields
             /\ work'[b].submitted = work[b].submitted /\ work'[b].graded = work[b].graded
  <2>1. CASE b = a
    <3>1. work'[b] = [work[b] EXCEPT !.status = status]
          BY <1>1, <1>2, <2>1
    <3>. QED BY <1>2, <3>1 DEF WorkFields
  <2>2. CASE b # a
        BY <1>1, <1>2, <2>2
  <2>. QED BY <2>1, <2>2
<1>4. DOMAIN work' = Assignments
      BY <1>1, <1>2
<1>. QED BY <1>1, <1>3, <1>4, HomeIdle DEF HandingIn, Grading, Collecting

LEMMA HomeStepSound ==
    ASSUME Disciplined, PeopleShaped, HomeSound, NEW h \in Desks, LearningStep(h)
    PROVE  HomeSound'
<1>1. Moves(h, LearningCalls)
      BY LearningMoves
<1>2. CASE Schedule(h) \/ Cancel(h) \/ Join(h) \/ Attend(h)
  <2>1. /\ handed' = handed /\ work' = work
        /\ pc[h] \in {"schedule", "cancel", "join", "attend"} /\ pc'[h] \in {"idle", "attend"}
        BY <1>2 DEF Schedule, Cancel, Join, Attend, Goto, Finish, Leave, learning, Disciplined
  <2>2. /\ DOMAIN work = Assignments /\ \A b \in Assignments : DOMAIN work[b] = WorkFields
        BY DEF HomeSound, HomeTyped
  <2>. QED BY <1>1, <2>1, <2>2, HomeIdle DEF HandingIn, Grading, Collecting
<1>. QED BY <1>1, <1>2, HomeArrive, ReadExistingSound, StoreStageSound, ResubmitSound,
            HandInSound, CountInSound, ReadRowsSound, CollectOneSound, RecountSound,
            StoreCountSound, StoreGradeSound, CountGradedSound
         DEF LearningStep, LearningResume

-----------------------------------------------------------------------------
(* The counts and the grades.                                              *)

LEMMA HomeAlways == Spec => [](Disciplined /\ PeopleShaped /\ HomeSound)
<1>1. Init => Disciplined /\ PeopleShaped /\ HomeSound
      BY DisciplineStarts, PeopleStart, HomeStart
<1>2. Disciplined /\ PeopleShaped /\ HomeSound /\ [Next]_vars
        => (Disciplined /\ PeopleShaped /\ HomeSound)'
      BY DisciplineKept, NextPasses, PeopleKeepsShape, HomePassed, HomeStepSound
         DEF NextIsTheirs
<1>. QED BY <1>1, <1>2, PTL DEF Spec

\* An assignment's counts are the rows handed in and those of them graded, and
\* no section has two live classes at a time: unless two requests about the same
\* submission, or two about one section's timetable, met, or one failed.
THEOREM CountsAndTimetable == Spec => []LearningInOrder
<1>1. HomeSound => CountsMatch
  <2>1. SUFFICES ASSUME HomeSound, NEW a \in Assignments,
                        \A s \in Pupils : Calm(Handed(a, s))
                 PROVE  /\ work[a].submitted = Cardinality(Rows(a))
                        /\ work[a].graded = Cardinality(GradedRows(a))
        BY DEF CountsMatch, Rows, GradedRows
  <2>2. Undisturbed(a) /\ \A h \in Desks, s \in Pupils : Handed(a, s) \notin req[h].claims
        BY <2>1 DEF Calm, Undisturbed
  <2>3. ASSUME NEW h \in Desks
        PROVE  ~Collects(h, a)
    <3>1. SUFFICES ASSUME Collects(h, a) PROVE FALSE
          OBVIOUS
    <3>2. PICK s \in Pupils : TRUE
          BY <3>1 DEF Collects
    <3>. QED BY <2>1, <2>2, <3>1, <3>2 DEF Collects, HomeSound, HomeShaped
  <2>4. \A h \in Desks, s \in Pupils : ~CountsIn(h, a, s) /\ ~Records(h, a, s)
        BY <2>1, <2>2
           DEF CountsIn, Records, About, HomeSound, HomeShaped, HandingIn, Grading
  <2>5. \A e \in Rows(a) : e[2] \in Pupils
        BY <2>1 DEF HomeSound, HomeTyped, HandedTyped, Rows
  <2>6. Uncounted(a) = {} /\ Unrecorded(a) = {}
        BY <2>4, <2>5 DEF Uncounted, Unrecorded, GradedRows
  <2>7. Rows(a) \ Uncounted(a) = Rows(a) /\ GradedRows(a) \ Unrecorded(a) = GradedRows(a)
        BY <2>6
  <2>. QED BY <2>1, <2>2, <2>3, <2>7 DEF HomeSound, CountTrue
<1>2. LessonsSound => NoClash
      BY DEF LessonsSound
<1>. QED BY <1>1, <1>2, HomeAlways, LessonsAlways, PTL DEF LearningInOrder

\* No step takes a grade back, but one about a submission two requests met at.
LEMMA GradeKept ==
    ASSUME Disciplined, HomeSound, NEW h \in Desks, LearningStep(h),
           NEW a \in Assignments, NEW s \in Pupils,
           Submission(a, s).status = "graded", Handed(a, s) \notin disturbed'
    PROVE  Submission(a, s)'.status = "graded"
<1>. DEFINE e == <<a, s>>
<1>1. Moves(h, LearningCalls) /\ Handed(a, s) \notin disturbed
      BY LearningMoves DEF Moves
<1>2. e \in DOMAIN handed /\ handed[e].status = "graded"
  <2>1. NotHanded.status # "graded"
        BY DEF NotHanded
  <2>. QED BY <2>1 DEF Submission
<1>3. CASE handed' = handed
      BY <1>3 DEF Submission
<1>4. CASE Resubmit(h)
  <2>1. PICK f, new : /\ f = <<req[h].work, req[h].pupil>> /\ pc[h] = "resubmit"
                      /\ \/ handed' = handed
                         \/ f \in DOMAIN handed /\ handed' = [handed EXCEPT ![f] = new]
        BY <1>4 DEF Resubmit
  <2>2. e # f
    <3>1. RowTrue(h, a, s)
          BY DEF HomeSound
    <3>2. ~About(h, a, s)
          BY <1>1, <2>1, <3>1 DEF RowTrue
    <3>. QED BY <2>1, <3>2 DEF About
  <2>. QED BY <1>2, <1>3, <2>1, <2>2 DEF Submission
<1>5. CASE HandIn(h)
  <2>1. \/ handed' = handed
        \/ \E f, new : f \notin DOMAIN handed /\ handed' = With(handed, f, new)
        BY <1>5 DEF HandIn
  <2>2. e \in DOMAIN handed' /\ handed'[e] = handed[e]
        BY <1>2, <2>1 DEF With
  <2>. QED BY <1>2, <2>2 DEF Submission
<1>6. CASE CollectOne(h)
  <2>1. PICK b : b = req[h].work
        OBVIOUS
  <2>2. PICK t \in req[h].left :
          /\ \A f : f # <<b, t>> =>
               /\ f \in DOMAIN handed' <=> f \in DOMAIN handed
               /\ f \in DOMAIN handed => handed'[f] = handed[f]
          /\ HandedTyped(handed)'
          /\ \/ /\ pc'[h] = "idle" /\ req[h].claims \subseteq disturbed'
                /\ handed' = handed
             \/ /\ pc'[h] \in {"recount", "collect"}
                /\ req'[h] = [req[h] EXCEPT !.left = req[h].left \ {t}]
          /\ Seen(h, b, t) = Submission(b, t) =>
               (Submission(b, t)'.status = "graded" <=>
                Submission(b, t).status = "graded")
        BY <1>6, <2>1, CollectOneDoes
  <2>3. CASE e # <<b, t>>
        BY <1>2, <2>2, <2>3 DEF Submission
  <2>4. CASE e = <<b, t>>
    <3>1. b = a /\ t = s
          BY <2>4
    <3>2. RowTrue(h, a, s) /\ pc[h] = "collect"
          BY <1>6 DEF HomeSound, CollectOne
    <3>3. Seen(h, a, s) = Submission(a, s)
          BY <1>1, <2>1, <2>2, <3>1, <3>2 DEF RowTrue
    <3>. QED BY <2>2, <3>1, <3>3
  <2>. QED BY <2>3, <2>4
<1>7. CASE StoreGrade(h)
  <2>1. PICK f : \/ handed' = handed
                 \/ handed' = [handed EXCEPT ![f].status = "graded"]
        BY <1>7 DEF StoreGrade
  <2>2. e \in DOMAIN handed' /\ handed'[e].status = "graded"
    <3>1. handed[e] \in HandedRow
          BY <1>2 DEF HomeSound, HomeTyped, HandedTyped
    <3>. QED BY <1>2, <2>1, <3>1 DEF HandedRow
  <2>. QED BY <2>2 DEF Submission
<1>8. ASSUME ~Resubmit(h), ~HandIn(h), ~CollectOne(h), ~StoreGrade(h) PROVE handed' = handed
  <2>1. CASE LearningArrive(h)
        BY <2>1 DEF LearningArrive, EditWork, BeginStage, BeginSubmit, BeginGrade,
                    BeginCollect, BeginSchedule, BeginCancel, BeginJoin, learning
  <2>2. CASE LearningResume(h)
        BY <1>8, <2>2 DEF LearningResume, StoreStage, ReadExisting, CountIn, ReadRows,
             Recount, StoreCount, CountGraded, Schedule, Cancel, Join, Attend, learning
  <2>. QED BY <2>1, <2>2 DEF LearningStep
<1>. QED BY <1>3, <1>4, <1>5, <1>6, <1>7, <1>8

\* A grade given stays given, whatever is handed in or collected after it:
\* unless two requests about the submission met, or one failed.
THEOREM GradesStand == Spec => GradedStays
<1>1. Disciplined /\ HomeSound /\ [Next]_vars =>
        [\A a \in Assignments, s \in Pupils :
           Submission(a, s).status = "graded" /\ Handed(a, s) \notin disturbed' =>
             Submission(a, s)'.status = "graded"]_handed
  <2>1. SUFFICES ASSUME Disciplined, HomeSound, [Next]_vars, handed' # handed,
                        NEW a \in Assignments, NEW s \in Pupils,
                        Submission(a, s).status = "graded", Handed(a, s) \notin disturbed'
                 PROVE  Submission(a, s)'.status = "graded"
        OBVIOUS
  <2>2. PICK h \in Desks : LearningStep(h)
        BY <2>1, NextPasses DEF NextIsTheirs, learning
  <2>. QED BY <2>1, <2>2, GradeKept
<1>. QED BY <1>1, HomeAlways, PTL DEF Spec, GradedStays
=============================================================================
