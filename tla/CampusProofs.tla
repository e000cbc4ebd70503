---------------------------- MODULE CampusProofs ----------------------------
(***************************************************************************)
(* Theorems about Campus: the requests of one institution and the platform *)
(* it runs on, for any number of desks, any scenarios and documents, with  *)
(* any request overlapping any other or failing at any of its calls.       *)
(*                                                                         *)
(* First the discipline all requests keep, component by component; then,   *)
(* for each component, its own invariant: what its documents are like and  *)
(* what a request of it holds at each of its calls.  A step of another     *)
(* component leaves both alone, which one lemma says for all.              *)
(***************************************************************************)
EXTENDS Campus, FiniteSetTheorems, SequenceTheorems, TLAPS

-----------------------------------------------------------------------------
(* The calls at which the requests of each component stand.                *)

PeopleCalls ==
    {"count", "strength", "seat", "insert student", "insert guardian",
     "file guardians", "enrol", "open login", "edit", "remove", "promote",
     "close", "reopen", "move up", "status", "login", "link"}
RegistersCalls == {"lock?", "rows", "sheet", "release", "restate", "device"}
LearningCalls ==
    {"stage", "existing", "resubmit", "hand in", "count in", "rows as they are",
     "collect", "recount", "store count", "grade", "count graded", "schedule",
     "cancel", "join", "attend"}
ExamsCalls == {"store scheme", "scale", "marks", "scheme", "regrade"}
TrackingCalls ==
    {"start trip", "previous", "insert", "stops", "add up", "end trip"}
MessagesCalls == {"open thread", "insert message", "unread", "pull", "read by"}
RecordsCalls ==
    {"next number", "is it free", "unique", "insert record", "write record", "erase"}
PlatformCalls ==
    {"look up", "read tenant", "remember", "forget", "weigh", "write tenant",
     "look up plan", "upsert subscription", "end subscriptions", "retire plan",
     "insert tenant", "seed role", "insert owner", "count owner", "insert year",
     "set year", "seed defaults", "insert subscription", "hand over"}

Calls == PeopleCalls \cup RegistersCalls \cup LearningCalls \cup ExamsCalls
           \cup TrackingCalls \cup MessagesCalls \cup RecordsCalls
           \cup PlatformCalls \cup {"idle"}

-----------------------------------------------------------------------------
(* The discipline.                                                         *)

\* The calls that still look at where to go on, and where they may.
Turning == {"count", "strength", "seat", "insert student", "insert guardian",
            "file guardians", "edit", "promote", "close", "reopen", "move up",
            "status"}
Choosing == {"next number", "is it free", "unique"}
Looking  == {"look up", "read tenant", "remember"}

Fits(call, r) ==
    /\ "claims" \in DOMAIN r
    /\ call = "idle" => r = NoRequest
    /\ call \in Turning =>
         "then" \in DOMAIN r /\ r.then \in {"enrol", "login", "idle"}
    /\ call \in Choosing =>
         "then" \in DOMAIN r /\ r.then \in {"insert record", "write record"}
    /\ call \in Looking =>
         "then" \in DOMAIN r /\ r.then \in {"guard", "weigh"}
    /\ call = "write tenant" =>
         /\ "then" \in DOMAIN r
         /\ r.then \in {"forget", "answer owner", "upsert subscription",
                        "end subscriptions"}

\* What two requests are about is disturbed.
Apart == \A g, h \in Desks : g # h => req[g].claims \cap req[h].claims \subseteq disturbed

Disciplined ==
    /\ pc \in [Desks -> Calls]
    /\ DOMAIN req = Desks
    /\ \A h \in Desks : Fits(pc[h], req[h])
    /\ Apart

\* Desk h moves, within the calls of its component, and nobody else does.
Moves(h, calls) ==
    /\ pc[h] \in calls \cup {"idle"} /\ pc'[h] \in calls \cup {"idle"}
    /\ DOMAIN req' = Desks
    /\ pc' = [pc EXCEPT ![h] = pc'[h]]
    /\ \A g \in Desks \ {h} : req'[g] = req[g]
    /\ disturbed \subseteq disturbed'
    /\ \A c \in req'[h].claims : \/ c \in req[h].claims \cup disturbed'
                                 \/ c \notin HeldByOthers(h)
    /\ Fits(pc[h], req[h])'

-----------------------------------------------------------------------------
LEMMA DisciplineStarts == ASSUME Init PROVE Disciplined
<1>1. pc = [h \in Desks |-> "idle"] /\ req = [h \in Desks |-> NoRequest]
      BY DEF Init, RequestsInit
<1>2. pc \in [Desks -> Calls] /\ DOMAIN req = Desks
      BY <1>1 DEF Calls
<1>3. \A h \in Desks : Fits(pc[h], req[h])
      BY <1>1 DEF Fits, NoRequest, Turning, Choosing, Looking
<1>4. Apart
      BY <1>1 DEF Apart, NoRequest
<1>. QED BY <1>2, <1>3, <1>4 DEF Disciplined

\* A step of one desk keeps the discipline.
LEMMA MovesDisciplined ==
    ASSUME Disciplined, NEW calls \in SUBSET Calls, NEW h \in Desks, Moves(h, calls)
    PROVE  Disciplined'
<1>1. pc' \in [Desks -> Calls]
      BY DEF Disciplined, Moves, Calls
<1>2. DOMAIN req' = Desks
      BY DEF Moves
<1>3. ASSUME NEW g \in Desks PROVE Fits(pc[g], req[g])'
  <2>1. CASE g = h
        BY <2>1 DEF Moves
  <2>2. CASE g # h
    <3>1. pc'[g] = pc[g] /\ req'[g] = req[g]
          BY <2>2 DEF Moves, Disciplined
    <3>. QED BY <3>1 DEF Fits, Disciplined
  <2>. QED BY <2>1, <2>2
<1>4. Apart'
  <2>1. ASSUME NEW g \in Desks, g # h,
               NEW c, c \in req'[g].claims, c \in req'[h].claims
        PROVE  c \in disturbed'
    <3>1. req'[g] = req[g]
          BY <2>1 DEF Moves
    <3>2. c \in HeldByOthers(h)
          BY <2>1, <3>1 DEF HeldByOthers
    <3>3. c \in req[h].claims \cup disturbed'
          BY <2>1, <3>2 DEF Moves
    <3>. QED BY <2>1, <3>1, <3>3 DEF Moves, Disciplined, Apart
  <2>2. ASSUME NEW g \in Desks, NEW k \in Desks, g # k, g # h, k # h
        PROVE  req'[g].claims \cap req'[k].claims \subseteq disturbed'
        BY <2>2 DEF Moves, Disciplined, Apart
  <2>. QED BY <2>1, <2>2 DEF Apart
<1>. QED BY <1>1, <1>2, <1>3, <1>4 DEF Disciplined

-----------------------------------------------------------------------------
(* Every operation of every component moves one desk so: first the steps a *)
(* request is made of.                                                     *)

LEMMA MovesTo ==
    ASSUME Disciplined, NEW h \in Desks, NEW calls, pc[h] \in calls \cup {"idle"},
           NEW call \in calls \cup {"idle"}, NEW r, Fits(call, r),
           pc' = [pc EXCEPT ![h] = call], req' = [req EXCEPT ![h] = r],
           disturbed \subseteq disturbed',
           \A c \in r.claims : c \in req[h].claims \cup disturbed'
                               \/ c \notin HeldByOthers(h)
    PROVE  Moves(h, calls)
BY DEF Moves, Disciplined

LEMMA BeginMoves ==
    ASSUME Disciplined, NEW h \in Desks, NEW calls,
           NEW op, NEW call \in calls, NEW r, Begin(h, op, call, r), Fits(call, r)
    PROVE  Moves(h, calls)
<1>1. pc[h] = "idle" /\ disturbed = {}
      BY DEF Begin, Asked, Open, Idle
<1>2. \A c \in r.claims : c \in disturbed' \/ c \notin HeldByOthers(h)
      BY DEF Begin
<1>. QED BY <1>1, <1>2, MovesTo DEF Begin

LEMMA OnceMoves ==
    ASSUME Disciplined, NEW h \in Desks, NEW calls,
           NEW op, NEW claims, Once(h, op, claims)
    PROVE  Moves(h, calls)
BY DEF Once, Asked, Open, Idle, Moves, Disciplined

LEMMA GotoMoves ==
    ASSUME Disciplined, NEW h \in Desks, NEW calls, pc[h] \in calls,
           NEW call \in calls, Goto(h, call), Fits(call, req[h])
    PROVE  Moves(h, calls)
BY DEF Goto, Moves, Disciplined

LEMMA CarryMoves ==
    ASSUME Disciplined, NEW h \in Desks, NEW calls, pc[h] \in calls,
           NEW call \in calls, NEW r, Carry(h, call, r), Fits(call, r),
           r.claims \subseteq req[h].claims
    PROVE  Moves(h, calls)
BY MovesTo DEF Carry

LEMMA TakeOnMoves ==
    ASSUME Disciplined, NEW h \in Desks, NEW calls, pc[h] \in calls,
           NEW call \in calls, NEW r, TakeOn(h, call, r), Fits(call, r)
    PROVE  Moves(h, calls)
BY MovesTo DEF TakeOn

LEMMA FinishMoves ==
    ASSUME Disciplined, NEW h \in Desks, NEW calls, pc[h] \in calls, Finish(h)
    PROVE  Moves(h, calls)
<1>1. Fits("idle", NoRequest) /\ NoRequest.claims = {}
      BY DEF Fits, NoRequest, Turning, Choosing, Looking
<1>. QED BY <1>1, MovesTo DEF Finish, Leave

LEMMA BreakOffMoves ==
    ASSUME Disciplined, NEW h \in Desks, NEW calls, pc[h] \in calls,
           NEW left, BreakOff(h, left)
    PROVE  Moves(h, calls)
<1>1. Fits("idle", NoRequest) /\ NoRequest.claims = {}
      BY DEF Fits, NoRequest, Turning, Choosing, Looking
<1>. QED BY <1>1, MovesTo DEF BreakOff, Leave

LEMMA PeopleMoves ==
    ASSUME Disciplined, NEW h \in Desks, PeopleStep(h)
    PROVE  Moves(h, PeopleCalls)
<1>. USE DEF Fits, Turning, Choosing, Looking, PeopleCalls
<1>0. Fits(pc[h], req[h])
      BY DEF Disciplined
<1>1. ASSUME NEW s, NEW x, NEW family, NEW signs, BeginAdmission(h, s, x, family, signs)
      PROVE  Moves(h, PeopleCalls)
      BY <1>1 DEF BeginAdmission, Begin, Asked, Open, Idle, Moves, Disciplined
<1>2. ASSUME NEW op, NEW s, NEW field, NEW value, BeginEdit(h, op, s, field, value)
      PROVE  Moves(h, PeopleCalls)
      BY <1>2 DEF BeginEdit, Begin, Asked, Open, Idle, Moves, Disciplined
<1>3. ASSUME NEW cohort, NEW x, NEW y, BeginPromotion(h, cohort, x, y)
      PROVE  Moves(h, PeopleCalls)
      BY <1>3 DEF BeginPromotion, Begin, Asked, Open, Idle, Moves, Disciplined
<1>4. ASSUME NEW s, NEW status, BeginStatus(h, s, status)
      PROVE  Moves(h, PeopleCalls)
      BY <1>4 DEF BeginStatus, Begin, Asked, Open, Idle, Moves, Disciplined
<1>5. ASSUME NEW s, NEW g, BeginRemoval(h, s) \/ Restore(h, s) \/ LinkChild(h, s, g)
      PROVE  Moves(h, PeopleCalls)
  <2>1. CASE BeginRemoval(h, s)
        BY <2>1 DEF BeginRemoval, Begin, Asked, Open, Idle, Moves, Disciplined
  <2>2. CASE Restore(h, s)
        BY <2>2, OnceMoves DEF Restore
  <2>3. CASE LinkChild(h, s, g)
        BY <2>3 DEF LinkChild, Begin, Asked, Open, Idle, Moves, Disciplined
  <2>. QED BY <1>5, <2>1, <2>2, <2>3
<1>6. CASE PeopleArrive(h)
      BY <1>1, <1>2, <1>3, <1>4, <1>5, <1>6 DEF PeopleArrive
<1>7. CASE CountActive(h)
  <2>1. PICK v : Carry(h, "strength", [req[h] EXCEPT !.counted = v])
        BY <1>7 DEF CountActive
  <2>. DEFINE r == [req[h] EXCEPT !.counted = v]
  <2>2. pc[h] = "count" /\ Fits("strength", r) /\ r.claims = req[h].claims
        BY <1>0, <1>7 DEF CountActive
  <2>. HIDE DEF r
  <2>. QED BY <2>1, <2>2, CarryMoves DEF r
<1>8. CASE WriteStrength(h)
  <2>. DEFINE r == [req[h] EXCEPT !.recount = Tail(req[h].recount)]
  <2>1. /\ pc[h] = "strength" /\ Fits("count", r) /\ r.claims = req[h].claims
        /\ req[h].then # "idle" => Fits(req[h].then, r)
        BY <1>0, <1>8 DEF WriteStrength
  <2>2. \/ Carry(h, "count", r) \/ Finish(h)
        \/ Carry(h, req[h].then, r) /\ req[h].then # "idle"
        BY <1>8 DEF WriteStrength
  <2>3. req[h].then \in {"enrol", "login", "idle"}
        BY <1>0, <2>1
  <2>. HIDE DEF r
  <2>. QED BY <2>1, <2>2, <2>3, CarryMoves, FinishMoves
<1>9. CASE StoreEdit(h)
  <2>1. PICK v, w : \/ Finish(h)
                    \/ TakeOn(h, "count", [req[h] EXCEPT !.recount = v, !.claims = w])
        BY <1>9 DEF StoreEdit
  <2>. DEFINE r == [req[h] EXCEPT !.recount = v, !.claims = w]
  <2>2. pc[h] = "edit" /\ Fits("count", r)
        BY <1>0, <1>9 DEF StoreEdit
  <2>3. Finish(h) \/ TakeOn(h, "count", r)
        BY <2>1
  <2>. HIDE DEF r
  <2>. QED BY <2>2, <2>3, TakeOnMoves, FinishMoves
<1>10. CASE NextOfCohort(h)
  <2>1. PICK v, w : \/ Goto(h, "count")
                    \/ \E call \in {"close", "promote"} :
                         Carry(h, call, [req[h] EXCEPT !.left = v, !.pupil = w])
        BY <1>10 DEF NextOfCohort
  <2>. DEFINE r == [req[h] EXCEPT !.left = v, !.pupil = w]
  <2>2. /\ pc[h] = "promote" /\ r.claims = req[h].claims
        /\ Fits("promote", r) /\ Fits("close", r) /\ Fits("count", req[h])
        BY <1>0, <1>10 DEF NextOfCohort
  <2>3. Goto(h, "count") \/ \E call \in {"close", "promote"} : Carry(h, call, r)
        BY <2>1
  <2>. HIDE DEF r
  <2>. QED BY <2>3, <2>2, CarryMoves, GotoMoves
<1>11. CASE CheckSeat(h) \/ InsertStudent(h) \/ InsertGuardian(h)
       BY <1>0, <1>11, GotoMoves, FinishMoves
          DEF CheckSeat, InsertStudent, InsertGuardian
<1>12. CASE FileGuardians(h) \/ Enrol(h) \/ OpenLogin(h)
       BY <1>0, <1>12, GotoMoves, FinishMoves, BreakOffMoves
          DEF FileGuardians, Enrol, OpenLogin
<1>13. CASE Remove(h) \/ CloseEnrolments(h)
       BY <1>0, <1>13, GotoMoves, FinishMoves DEF Remove, CloseEnrolments
<1>14. CASE OpenEnrolment(h) \/ MoveUp(h) \/ StoreStatus(h)
       BY <1>0, <1>14, GotoMoves, BreakOffMoves DEF OpenEnrolment, MoveUp, StoreStatus
<1>15. CASE CloseLogin(h) \/ LinkGuardian(h)
       BY <1>0, <1>15, FinishMoves DEF CloseLogin, LinkGuardian
<1>. QED BY <1>6, <1>7, <1>8, <1>9, <1>10, <1>11, <1>12, <1>13, <1>14, <1>15
         DEF PeopleStep, PeopleResume

LEMMA RegistersMoves ==
    ASSUME Disciplined, NEW h \in Desks, RegistersStep(h)
    PROVE  Moves(h, RegistersCalls)
<1>. USE DEF Fits, Turning, Choosing, Looking, RegistersCalls
<1>0. Fits(pc[h], req[h])
      BY DEF Disciplined
<1>1. ASSUME NEW x, NEW entries, NEW admin, NEW despite,
             BeginRegister(h, x, entries, admin, despite)
      PROVE  Moves(h, RegistersCalls)
      BY <1>1 DEF BeginRegister, Begin, Asked, Open, Idle, Moves, Disciplined
<1>2. ASSUME NEW k, BeginRelease(h, k)
      PROVE  Moves(h, RegistersCalls)
      BY <1>2 DEF BeginRelease, Begin, Asked, Open, Idle, Moves, Disciplined
<1>3. ASSUME NEW s, BeginDevice(h, s)
      PROVE  Moves(h, RegistersCalls)
      BY <1>3 DEF BeginDevice, Begin, Asked, Open, Idle, Moves, Disciplined
<1>4. ASSUME NEW x, NEW locked, SetLock(h, x, locked)
      PROVE  Moves(h, RegistersCalls)
      BY <1>4, OnceMoves DEF SetLock
<1>5. ASSUME NEW k, NEW classes, NEW required,
             Declare(h, k, classes, required) \/ Withdraw(h, k)
      PROVE  Moves(h, RegistersCalls)
      BY <1>5, OnceMoves DEF Declare, Withdraw
<1>6. CASE RegistersArrive(h)
      BY <1>1, <1>2, <1>3, <1>4, <1>5, <1>6 DEF RegistersArrive
<1>7. CASE CheckLock(h) \/ StoreSheet(h) \/ DeviceMarks(h)
      BY <1>0, <1>7, GotoMoves, FinishMoves DEF CheckLock, StoreSheet, DeviceMarks
<1>8. CASE MarkRow(h) \/ RestateRow(h)
  <2>1. PICK v : \/ Finish(h)
                 \/ \E call \in {"sheet", "rows", "restate"} :
                      Carry(h, call, [req[h] EXCEPT !.left = v])
        BY <1>8 DEF MarkRow, RestateRow
  <2>. DEFINE r == [req[h] EXCEPT !.left = v]
  <2>2. /\ pc[h] \in {"rows", "restate"} /\ r.claims = req[h].claims
        /\ Fits("sheet", r) /\ Fits("rows", r) /\ Fits("restate", r)
        BY <1>0, <1>8 DEF MarkRow, RestateRow
  <2>3. Finish(h) \/ \E call \in {"sheet", "rows", "restate"} : Carry(h, call, r)
        BY <2>1
  <2>. HIDE DEF r
  <2>. QED BY <2>2, <2>3, CarryMoves, FinishMoves
<1>9. CASE ReadHoliday(h)
  <2>1. PICK v : Carry(h, "restate", [req[h] EXCEPT !.classes = v])
        BY <1>9 DEF ReadHoliday
  <2>. DEFINE r == [req[h] EXCEPT !.classes = v]
  <2>2. pc[h] = "release" /\ Fits("restate", r) /\ r.claims = req[h].claims
        BY <1>0, <1>9 DEF ReadHoliday
  <2>. HIDE DEF r
  <2>. QED BY <2>1, <2>2, CarryMoves DEF r
<1>. QED BY <1>6, <1>7, <1>8, <1>9 DEF RegistersStep, RegistersResume

LEMMA LearningMoves ==
    ASSUME Disciplined, NEW h \in Desks, LearningStep(h)
    PROVE  Moves(h, LearningCalls)
<1>. USE DEF Fits, Turning, Choosing, Looking, LearningCalls
<1>0. Fits(pc[h], req[h])
      BY DEF Disciplined
<1>1. ASSUME NEW a, NEW status, NEW mode, EditWork(h, a, status, mode)
      PROVE  Moves(h, LearningCalls)
      BY <1>1, OnceMoves DEF EditWork
<1>2. ASSUME NEW a, NEW status, BeginStage(h, a, status)
      PROVE  Moves(h, LearningCalls)
      BY <1>2 DEF BeginStage, Begin, Asked, Open, Idle, Moves, Disciplined
<1>3. ASSUME NEW a, NEW s, BeginSubmit(h, a, s)
      PROVE  Moves(h, LearningCalls)
      BY <1>3 DEF BeginSubmit, Begin, Asked, Open, Idle, Moves, Disciplined
<1>4. ASSUME NEW a, NEW s, BeginGrade(h, a, s)
      PROVE  Moves(h, LearningCalls)
      BY <1>4 DEF BeginGrade, Begin, Asked, Open, Idle, Moves, Disciplined
<1>5. ASSUME NEW a, NEW ticked, BeginCollect(h, a, ticked)
      PROVE  Moves(h, LearningCalls)
      BY <1>5 DEF BeginCollect, Begin, Asked, Open, Idle, Moves, Disciplined
<1>6. ASSUME NEW l, NEW sections, NEW t, BeginSchedule(h, l, sections, t)
      PROVE  Moves(h, LearningCalls)
      BY <1>6 DEF BeginSchedule, Begin, Asked, Open, Idle, Moves, Disciplined
<1>7. ASSUME NEW l, BeginCancel(h, l)
      PROVE  Moves(h, LearningCalls)
      BY <1>7 DEF BeginCancel, Begin, Asked, Open, Idle, Moves, Disciplined
<1>8. ASSUME NEW l, NEW s, BeginJoin(h, l, s)
      PROVE  Moves(h, LearningCalls)
      BY <1>8 DEF BeginJoin, Begin, Asked, Open, Idle, Moves, Disciplined
<1>9. CASE LearningArrive(h)
      BY <1>1, <1>2, <1>3, <1>4, <1>5, <1>6, <1>7, <1>8, <1>9 DEF LearningArrive
<1>10. CASE ReadRows(h)
  <2>1. PICK v : \E call \in {"recount", "collect"} :
                   Carry(h, call, [req[h] EXCEPT !.seen = v])
        BY <1>10 DEF ReadRows
  <2>. DEFINE r == [req[h] EXCEPT !.seen = v]
  <2>2. /\ pc[h] = "rows as they are" /\ r.claims = req[h].claims
        /\ Fits("recount", r) /\ Fits("collect", r)
        BY <1>0, <1>10 DEF ReadRows
  <2>3. \E call \in {"recount", "collect"} : Carry(h, call, r)
        BY <2>1
  <2>. HIDE DEF r
  <2>. QED BY <2>2, <2>3, CarryMoves
<1>11. CASE CollectOne(h)
  <2>1. PICK v : \/ BreakOff(h, req[h].claims)
                 \/ \E call \in {"recount", "collect"} :
                      Carry(h, call, [req[h] EXCEPT !.left = v])
        BY <1>11 DEF CollectOne
  <2>. DEFINE r == [req[h] EXCEPT !.left = v]
  <2>2. /\ pc[h] = "collect" /\ r.claims = req[h].claims
        /\ Fits("recount", r) /\ Fits("collect", r)
        BY <1>0, <1>11 DEF CollectOne
  <2>3. \/ BreakOff(h, req[h].claims)
        \/ \E call \in {"recount", "collect"} : Carry(h, call, r)
        BY <2>1
  <2>. HIDE DEF r
  <2>. QED BY <2>2, <2>3, CarryMoves, BreakOffMoves
<1>12. CASE Recount(h)
  <2>1. PICK v : Carry(h, "store count", [req[h] EXCEPT !.counted = v])
        BY <1>12 DEF Recount
  <2>. DEFINE r == [req[h] EXCEPT !.counted = v]
  <2>2. pc[h] = "recount" /\ Fits("store count", r) /\ r.claims = req[h].claims
        BY <1>0, <1>12 DEF Recount
  <2>. HIDE DEF r
  <2>. QED BY <2>1, <2>2, CarryMoves DEF r
<1>13. CASE StoreStage(h) \/ ReadExisting(h) \/ Resubmit(h) \/ HandIn(h)
       BY <1>0, <1>13, GotoMoves, FinishMoves
          DEF StoreStage, ReadExisting, Resubmit, HandIn
<1>14. CASE CountIn(h) \/ StoreCount(h) \/ CountGraded(h)
       BY <1>0, <1>14, FinishMoves DEF CountIn, StoreCount, CountGraded
<1>16. CASE StoreGrade(h)
       BY <1>0, <1>16, GotoMoves, FinishMoves DEF StoreGrade
<1>15. CASE Schedule(h) \/ Cancel(h) \/ Join(h) \/ Attend(h)
       BY <1>0, <1>15, GotoMoves, FinishMoves DEF Schedule, Cancel, Join, Attend
<1>. QED BY <1>9, <1>10, <1>11, <1>12, <1>13, <1>14, <1>15, <1>16
         DEF LearningStep, LearningResume

LEMMA ExamsMoves ==
    ASSUME Disciplined, NEW h \in Desks, ExamsStep(h)
    PROVE  Moves(h, ExamsCalls)
<1>. USE DEF Fits, Turning, Choosing, Looking, ExamsCalls
<1>0. Fits(pc[h], req[h])
      BY DEF Disciplined
<1>1. ASSUME NEW s, NEW obtained, NEW shown,
             EnterMark(h, s, obtained, shown) \/ RemoveMark(h, s)
      PROVE  Moves(h, ExamsCalls)
      BY <1>1, OnceMoves DEF EnterMark, RemoveMark
<1>2. ASSUME NEW at, NEW set, NEW c, EditScale(h, at) \/ EditPaper(h, set, c)
      PROVE  Moves(h, ExamsCalls)
      BY <1>2, OnceMoves DEF EditScale, EditPaper
<1>3. ASSUME NEW c, BeginScheme(h, c)
      PROVE  Moves(h, ExamsCalls)
      BY <1>3 DEF BeginScheme, Begin, Asked, Open, Idle, Moves, Disciplined
<1>4. CASE BeginRegrade(h)
      BY <1>4 DEF BeginRegrade, Begin, Asked, Open, Idle, Moves, Disciplined
<1>5. CASE ExamsArrive(h)
      BY <1>1, <1>2, <1>3, <1>4, <1>5 DEF ExamsArrive
<1>6. CASE StoreScheme(h)
      BY <1>0, <1>6, GotoMoves DEF StoreScheme
<1>7. CASE ReadScale(h)
  <2>1. PICK v : Carry(h, "marks", [req[h] EXCEPT !.at = v])
        BY <1>7 DEF ReadScale
  <2>. DEFINE r == [req[h] EXCEPT !.at = v]
  <2>2. pc[h] = "scale" /\ Fits("marks", r) /\ r.claims = req[h].claims
        BY <1>0, <1>7 DEF ReadScale
  <2>. HIDE DEF r
  <2>. QED BY <2>1, <2>2, CarryMoves DEF r
<1>8. CASE ReadMarks(h)
  <2>1. PICK v, w : \/ Finish(h)
                    \/ Carry(h, "scheme", [req[h] EXCEPT !.seen = v, !.left = w])
        BY <1>8 DEF ReadMarks
  <2>. DEFINE r == [req[h] EXCEPT !.seen = v, !.left = w]
  <2>2. pc[h] = "marks" /\ Fits("scheme", r) /\ r.claims = req[h].claims
        BY <1>0, <1>8 DEF ReadMarks
  <2>3. Finish(h) \/ Carry(h, "scheme", r)
        BY <2>1
  <2>. HIDE DEF r
  <2>. QED BY <2>2, <2>3, CarryMoves, FinishMoves
<1>9. CASE ReadScheme(h)
  <2>1. PICK v : Carry(h, "regrade", [req[h] EXCEPT !.scheme = v])
        BY <1>9 DEF ReadScheme
  <2>. DEFINE r == [req[h] EXCEPT !.scheme = v]
  <2>2. pc[h] = "scheme" /\ Fits("regrade", r) /\ r.claims = req[h].claims
        BY <1>0, <1>9 DEF ReadScheme
  <2>. HIDE DEF r
  <2>. QED BY <2>1, <2>2, CarryMoves DEF r
<1>10. CASE RegradeOne(h)
  <2>1. PICK v : Finish(h) \/ Carry(h, "regrade", [req[h] EXCEPT !.left = v])
        BY <1>10 DEF RegradeOne
  <2>. DEFINE r == [req[h] EXCEPT !.left = v]
  <2>2. pc[h] = "regrade" /\ Fits("regrade", r) /\ r.claims = req[h].claims
        BY <1>0, <1>10 DEF RegradeOne
  <2>3. Finish(h) \/ Carry(h, "regrade", r)
        BY <2>1
  <2>. HIDE DEF r
  <2>. QED BY <2>2, <2>3, CarryMoves, FinishMoves
<1>. QED BY <1>5, <1>6, <1>7, <1>8, <1>9, <1>10 DEF ExamsStep, ExamsResume

LEMMA TrackingMoves ==
    ASSUME Disciplined, NEW h \in Desks, TrackingStep(h)
    PROVE  Moves(h, TrackingCalls)
<1>. USE DEF Fits, Turning, Choosing, Looking, TrackingCalls
<1>0. Fits(pc[h], req[h])
      BY DEF Disciplined
<1>1. ASSUME NEW v, NEW t, BeginTrip(h, v, t)
      PROVE  Moves(h, TrackingCalls)
      BY <1>1 DEF BeginTrip, Begin, Asked, Open, Idle, Moves, Disciplined
<1>2. ASSUME NEW t, NEW fix, BeginPosition(h, t, fix)
      PROVE  Moves(h, TrackingCalls)
      BY <1>2 DEF BeginPosition, Begin, Asked, Open, Idle, Moves, Disciplined
<1>3. ASSUME NEW t, BeginEnd(h, t)
      PROVE  Moves(h, TrackingCalls)
      BY <1>3 DEF BeginEnd, Begin, Asked, Open, Idle, Moves, Disciplined
<1>4. CASE TrackingArrive(h)
      BY <1>1, <1>2, <1>3, <1>4 DEF TrackingArrive
<1>5. CASE StartTrip(h) \/ AddUp(h) \/ EndTrip(h)
      BY ZenonT(40), <1>0, <1>5, FinishMoves DEF StartTrip, AddUp, EndTrip
<1>8. CASE InsertPosition(h)
      BY <1>0, <1>8, GotoMoves DEF InsertPosition
<1>6. CASE ReadPrevious(h)
  <2>1. PICK v : Goto(h, "insert") \/ Carry(h, "insert", [req[h] EXCEPT !.leg = v])
        BY <1>6 DEF ReadPrevious
  <2>. DEFINE r == [req[h] EXCEPT !.leg = v]
  <2>2. /\ pc[h] = "previous" /\ r.claims = req[h].claims
        /\ Fits("insert", r) /\ Fits("insert", req[h])
        BY <1>0, <1>6 DEF ReadPrevious
  <2>3. Goto(h, "insert") \/ Carry(h, "insert", r)
        BY <2>1
  <2>. HIDE DEF r
  <2>. QED BY <2>2, <2>3, CarryMoves, GotoMoves
<1>7. CASE CheckStops(h)
  <2>1. PICK v : Carry(h, "add up", [req[h] EXCEPT !.stop = v])
        BY <1>7 DEF CheckStops
  <2>. DEFINE r == [req[h] EXCEPT !.stop = v]
  <2>2. pc[h] = "stops" /\ Fits("add up", r) /\ r.claims = req[h].claims
        BY <1>0, <1>7 DEF CheckStops
  <2>. HIDE DEF r
  <2>. QED BY <2>1, <2>2, CarryMoves DEF r
<1>. QED BY <1>4, <1>5, <1>6, <1>7, <1>8 DEF TrackingStep, TrackingResume

LEMMA MessagesMoves ==
    ASSUME Disciplined, NEW h \in Desks, MessagesStep(h)
    PROVE  Moves(h, MessagesCalls)
<1>. USE DEF Fits, Turning, Choosing, Looking, MessagesCalls
<1>0. Fits(pc[h], req[h])
      BY DEF Disciplined
<1>1. ASSUME NEW p, NEW others, NEW plain, NEW says, NEW t,
             BeginThread(h, p, others, plain, says, t)
      PROVE  Moves(h, MessagesCalls)
      BY <1>1 DEF BeginThread, Begin, Asked, Open, Idle, Moves, Disciplined
<1>2. ASSUME NEW p, NEW t, BeginSend(h, p, t)
      PROVE  Moves(h, MessagesCalls)
      BY <1>2 DEF BeginSend, Begin, Asked, Open, Idle, Moves, Disciplined
<1>3. ASSUME NEW p, NEW t, BeginRead(h, p, t)
      PROVE  Moves(h, MessagesCalls)
      BY <1>3 DEF BeginRead, Begin, Asked, Open, Idle, Moves, Disciplined
<1>4. ASSUME NEW t, Archive(h, t)
      PROVE  Moves(h, MessagesCalls)
      BY <1>4, OnceMoves DEF Archive
<1>5. CASE MessagesArrive(h)
      BY <1>1, <1>2, <1>3, <1>4, <1>5 DEF MessagesArrive
<1>6. CASE MessagesResume(h)
      BY ZenonT(40), <1>0, <1>6, GotoMoves, FinishMoves
         DEF MessagesResume, OpenThread, InsertMessage, MarkUnread, PullUnread, AddReader
<1>. QED BY <1>5, <1>6 DEF MessagesStep

LEMMA RecordsMoves ==
    ASSUME Disciplined, NEW h \in Desks, RecordsStep(h)
    PROVE  Moves(h, RecordsCalls)
<1>. USE DEF Fits, Turning, Choosing, Looking, RecordsCalls
<1>0. Fits(pc[h], req[h])
      BY DEF Disciplined
<1>1. ASSUME NEW f, NEW n, BeginCreate(h, f, n)
      PROVE  Moves(h, RecordsCalls)
      BY <1>1 DEF BeginCreate, Begin, Asked, Open, Idle, Moves, Disciplined
<1>2. ASSUME NEW f, NEW n, BeginUpdate(h, f, n)
      PROVE  Moves(h, RecordsCalls)
      BY <1>2 DEF BeginUpdate, Begin, Asked, Open, Idle, Moves, Disciplined
<1>3. ASSUME NEW fs, BeginErase(h, fs)
      PROVE  Moves(h, RecordsCalls)
      BY <1>3 DEF BeginErase, Begin, Asked, Open, Idle, Moves, Disciplined
<1>4. ASSUME NEW f, BringBack(h, f)
      PROVE  Moves(h, RecordsCalls)
      BY <1>4, OnceMoves DEF BringBack
<1>5. CASE RecordsArrive(h)
      BY <1>1, <1>2, <1>3, <1>4, <1>5 DEF RecordsArrive
<1>6. CASE NextNumber(h)
  <2>1. PICK v, w, x : TakeOn(h, "is it free", [req[h] EXCEPT !.number = v, !.tries = w,
                                                              !.claims = x])
        BY <1>6 DEF NextNumber
  <2>. DEFINE r == [req[h] EXCEPT !.number = v, !.tries = w, !.claims = x]
  <2>2. pc[h] = "next number" /\ Fits("is it free", r)
        BY <1>0, <1>6 DEF NextNumber
  <2>. HIDE DEF r
  <2>. QED BY <2>1, <2>2, TakeOnMoves DEF r
<1>7. CASE IsFree(h) \/ CheckUnique(h)
      BY <1>0, <1>7, GotoMoves, FinishMoves DEF IsFree, CheckUnique, Refuse
<1>8. CASE InsertRecord(h) \/ WriteRecord(h)
      BY <1>0, <1>8, FinishMoves DEF InsertRecord, WriteRecord, Refuse
<1>9. CASE Erase(h)
  <2>1. PICK v : Finish(h) \/ Carry(h, "erase", [req[h] EXCEPT !.left = v])
        BY <1>9 DEF Erase
  <2>. DEFINE r == [req[h] EXCEPT !.left = v]
  <2>2. pc[h] = "erase" /\ Fits("erase", r) /\ r.claims = req[h].claims
        BY <1>0, <1>9 DEF Erase
  <2>3. Finish(h) \/ Carry(h, "erase", r)
        BY <2>1
  <2>. HIDE DEF r
  <2>. QED BY <2>2, <2>3, CarryMoves, FinishMoves
<1>. QED BY <1>5, <1>6, <1>7, <1>8, <1>9 DEF RecordsStep, RecordsResume

LEMMA TenancyMoves ==
    ASSUME Disciplined, NEW h \in Desks,
           LookUp(h) \/ ReadTenant(h) \/ Remember(h) \/ Forget(h)
    PROVE  Moves(h, PlatformCalls)
<1>. USE DEF Fits, Turning, Choosing, Looking, PlatformCalls
<1>0. Fits(pc[h], req[h])
      BY DEF Disciplined
<1>1. ASSUME NEW i, NEW doc, pc[h] \in Looking, GoBy(h, i, doc)
      PROVE  Moves(h, PlatformCalls)
  <2>1. CASE req[h].then = "guard"
        BY <1>1, <2>1, BreakOffMoves DEF GoBy
  <2>2. CASE req[h].then # "guard"
    <3>. DEFINE r == [claims |-> {Inst(i)}, worker |-> req[h].worker, inst |-> i,
                      word |-> doc, wanted |-> req[h].wanted]
    <3>1. /\ pc' = [pc EXCEPT ![h] = "weigh"]
          /\ req' = [req EXCEPT ![h] = r]
          /\ disturbed \subseteq disturbed'
          /\ {Inst(i)} \cap HeldByOthers(h) \subseteq disturbed'
          BY <1>0, <1>1, <2>2 DEF GoBy
    <3>2. Fits("weigh", r) /\ r.claims = {Inst(i)}
          OBVIOUS
    <3>. HIDE DEF r
    <3>. QED BY <1>1, <3>1, <3>2, MovesTo
  <2>. QED BY <2>1, <2>2
<1>2. CASE LookUp(h)
  <2>1. PICK i, doc : GoBy(h, i, doc) \/ Goto(h, "read tenant")
        BY <1>2 DEF LookUp
  <2>2. pc[h] = "look up" /\ pc[h] \in Looking
        BY <1>2 DEF LookUp
  <2>3. CASE GoBy(h, i, doc)
    <3>. HIDE DEF Fits, Turning, Choosing, Looking, PlatformCalls
    <3>. QED BY <1>1, <2>2, <2>3
  <2>4. CASE Goto(h, "read tenant")
        BY <1>0, <2>2, <2>4, GotoMoves
  <2>. QED BY <2>1, <2>3, <2>4
<1>3. CASE ReadTenant(h)
  <2>1. CASE Finish(h)
        BY <1>3, <2>1, FinishMoves DEF ReadTenant
  <2>2. CASE ~Finish(h)
    <3>1. PICK i : TakeOn(h, "remember",
                     [c \in DOMAIN req[h] \cup {"claims", "inst", "word"} |->
                        CASE c = "claims" -> {Inst(i)} [] c = "inst" -> i
                          [] c = "word" -> tenant[i] [] OTHER -> req[h][c]])
          BY <1>3, <2>2 DEF ReadTenant
    <3>. DEFINE r == [c \in DOMAIN req[h] \cup {"claims", "inst", "word"} |->
                        CASE c = "claims" -> {Inst(i)} [] c = "inst" -> i
                          [] c = "word" -> tenant[i] [] OTHER -> req[h][c]]
    <3>2. pc[h] = "read tenant" /\ Fits("remember", r)
          BY <1>0, <1>3 DEF ReadTenant
    <3>3. TakeOn(h, "remember", r)
          BY <3>1
    <3>. HIDE DEF r
    <3>. QED BY <3>2, <3>3, TakeOnMoves
  <2>. QED BY <2>1, <2>2
<1>4. CASE Remember(h)
  <2>1. PICK i, doc : GoBy(h, i, doc)
        BY <1>4 DEF Remember
  <2>2. pc[h] \in Looking
        BY <1>4 DEF Remember
  <2>. HIDE DEF Fits, Turning, Choosing, Looking, PlatformCalls
  <2>. QED BY <1>1, <2>1, <2>2
<1>5. CASE Forget(h)
      BY <1>5, FinishMoves DEF Forget
<1>. QED BY <1>2, <1>3, <1>4, <1>5

LEMMA ConsoleMoves ==
    ASSUME Disciplined, NEW h \in Desks,
           \/ LookUpPlan(h) \/ WriteTenant(h) \/ UpsertSubscription(h)
           \/ EndSubscriptions(h) \/ Weigh(h) \/ RetirePlan(h)
    PROVE  Moves(h, PlatformCalls)
<1>. USE DEF Fits, Turning, Choosing, Looking, PlatformCalls
<1>0. Fits(pc[h], req[h])
      BY DEF Disciplined
<1>1. ASSUME NEW a, NEW b, NEW v, NEW then \in {"upsert subscription", "answer owner"},
             pc[h] \in {"look up plan", "weigh"},
             Carry(h, "write tenant", [claims |-> req[h].claims, worker |-> a,
                        inst |-> b, change |-> v, then |-> then])
      PROVE  Moves(h, PlatformCalls)
  <2>. DEFINE r == [claims |-> req[h].claims, worker |-> a, inst |-> b,
                    change |-> v, then |-> then]
  <2>1. Fits("write tenant", r) /\ r.claims = req[h].claims
        BY <1>1
  <2>2. Carry(h, "write tenant", r)
        BY <1>1
  <2>. HIDE DEF r
  <2>. QED BY <1>1, <2>1, <2>2, CarryMoves
<1>2. CASE LookUpPlan(h)
  <2>1. PICK a, b, v : \/ Finish(h)
                       \/ Carry(h, "write tenant", [claims |-> req[h].claims, worker |-> a,
                            inst |-> b, change |-> v, then |-> "upsert subscription"])
        BY <1>2 DEF LookUpPlan
  <2>. QED BY <1>1, <1>2, <2>1, FinishMoves DEF LookUpPlan
<1>3. CASE Weigh(h)
  <2>1. PICK a, b, v : \/ Finish(h)
                       \/ Carry(h, "write tenant", [claims |-> req[h].claims, worker |-> a,
                            inst |-> b, change |-> v, then |-> "answer owner"])
        BY <1>3 DEF Weigh
  <2>. QED BY <1>1, <1>3, <2>1, FinishMoves DEF Weigh
<1>4. CASE WriteTenant(h)
  <2>1. PICK call \in {"forget", "upsert subscription", "end subscriptions"} : Goto(h, call)
        BY <1>0, <1>4 DEF WriteTenant
  <2>. QED BY <1>0, <1>4, <2>1, GotoMoves DEF WriteTenant
<1>5. CASE UpsertSubscription(h) \/ EndSubscriptions(h)
  <2>1. Goto(h, "forget") /\ pc[h] \in {"upsert subscription", "end subscriptions"}
        BY <1>5 DEF UpsertSubscription, EndSubscriptions
  <2>2. Fits("forget", req[h])
        BY <1>0
  <2>. QED BY <2>1, <2>2, GotoMoves
<1>7. CASE RetirePlan(h)
      BY <1>7, FinishMoves DEF RetirePlan
<1>. QED BY <1>2, <1>3, <1>4, <1>5, <1>7

LEMMA ProvisioningMoves ==
    ASSUME Disciplined, NEW h \in Desks,
           \/ InsertTenant(h) \/ SeedRole(h) \/ InsertOwner(h) \/ CountOwner(h)
           \/ InsertYear(h) \/ SetYear(h) \/ SeedDefaults(h)
           \/ InsertSubscription(h) \/ HandOver(h)
    PROVE  Moves(h, PlatformCalls)
<1>. USE DEF Fits, Turning, Choosing, Looking, PlatformCalls
<1>0. Fits(pc[h], req[h])
      BY DEF Disciplined
<1>1. ASSUME NEW a \in PlatformCalls \ (Looking \cup {"idle", "write tenant"}),
             NEW b \in PlatformCalls \ (Looking \cup {"idle", "write tenant"}),
             pc[h] = a, Goto(h, b)
      PROVE  Moves(h, PlatformCalls)
  <2>1. Fits(b, req[h])
        BY <1>0, <1>1
  <2>. QED BY <1>1, <2>1, GotoMoves
<1>2. CASE InsertTenant(h) \/ HandOver(h)
      BY <1>1, <1>2, FinishMoves DEF InsertTenant, HandOver
<1>3. CASE SeedRole(h)
  <2>1. PICK call \in {"insert owner", "seed role"} : Goto(h, call)
        BY <1>3 DEF SeedRole
  <2>. QED BY <1>1, <1>3, <2>1 DEF SeedRole
<1>4. CASE SeedDefaults(h)
  <2>1. PICK call \in {"seed defaults", "hand over", "insert subscription"} : Goto(h, call)
        BY <1>4 DEF SeedDefaults
  <2>. QED BY <1>1, <1>4, <2>1 DEF SeedDefaults
<1>5. CASE InsertOwner(h) \/ CountOwner(h) \/ InsertYear(h)
      BY <1>1, <1>5 DEF InsertOwner, CountOwner, InsertYear
<1>6. CASE SetYear(h) \/ InsertSubscription(h)
      BY <1>1, <1>6 DEF SetYear, InsertSubscription
<1>. QED BY <1>2, <1>3, <1>4, <1>5, <1>6

LEMMA PlatformMoves ==
    ASSUME Disciplined, NEW h \in Desks, PlatformStep(h)
    PROVE  Moves(h, PlatformCalls)
<1>. USE DEF Fits, Turning, Choosing, Looking, PlatformCalls
<1>1. ASSUME NEW w, NEW i, NEW op, NEW change, BeginWrite(h, op, w, i, change)
      PROVE  Moves(h, PlatformCalls)
      BY <1>1 DEF BeginWrite, Begin, Asked, Open, Idle, Moves, Disciplined
<1>2. ASSUME NEW w, NEW i, Convert(h, w, i)
      PROVE  Moves(h, PlatformCalls)
      BY <1>2 DEF Convert, Begin, Asked, Open, Idle, Moves, Disciplined
<1>3. ASSUME NEW w, NEW i, NEW p, NEW lifetime, BeginSubscribe(h, w, i, p, lifetime)
      PROVE  Moves(h, PlatformCalls)
      BY <1>3 DEF BeginSubscribe, Begin, Asked, Open, Idle, Moves, Disciplined
<1>4. ASSUME NEW p, NEW ms, UpsertPlan(h, p, ms)
      PROVE  Moves(h, PlatformCalls)
      BY <1>4, OnceMoves DEF UpsertPlan
<1>5. ASSUME NEW p, BeginRetire(h, p)
      PROVE  Moves(h, PlatformCalls)
      BY <1>5 DEF BeginRetire, Begin, Asked, Open, Idle, Moves, Disciplined
<1>6. ASSUME NEW w, NEW key, NEW m, BeginVisit(h, w, key, m)
      PROVE  Moves(h, PlatformCalls)
      BY <1>6 DEF BeginVisit, Begin, Asked, Open, Idle, Moves, Disciplined
<1>7. ASSUME NEW w, NEW key, NEW ms, BeginSwitch(h, w, key, ms)
      PROVE  Moves(h, PlatformCalls)
      BY <1>7 DEF BeginSwitch, Begin, Asked, Open, Idle, Moves, Disciplined
<1>8. ASSUME NEW w, NEW i, NEW s, NEW p, NEW dedicated, NEW chosen,
             BeginProvision(h, w, i, s, p, dedicated, chosen)
      PROVE  Moves(h, PlatformCalls)
      BY <1>8 DEF BeginProvision, Begin, Asked, Open, Idle, Moves, Disciplined
<1>9. ASSUME NEW w, NEW i, ToInstitution(h, w, i)
      PROVE  Moves(h, PlatformCalls)
      BY <1>1, <1>2, <1>3, <1>9 DEF ToInstitution, SetTenantStatus, UpdateTenant
<1>10. CASE PlatformArrive(h)
       BY <1>4, <1>5, <1>6, <1>7, <1>8, <1>9, <1>10 DEF PlatformArrive
<1>11. CASE PlatformResume(h)
       BY <1>11, TenancyMoves, ConsoleMoves, ProvisioningMoves DEF PlatformResume
<1>. QED BY <1>10, <1>11 DEF PlatformStep

-----------------------------------------------------------------------------
(* What a step of another component, a failure and the passing of time are *)
(* to a component whose requests stand at `calls`: none of these begins or *)
(* moves on, and one that ends leaves what it was about disturbed.         *)

Passes(calls) ==
    /\ disturbed \subseteq disturbed'
    /\ \A g \in Desks : pc'[g] \in calls => pc[g] = pc'[g] /\ req[g] = req'[g]
    /\ \A g \in Desks : pc[g] \in calls => \/ pc[g] = pc'[g]
                                           \/ req[g].claims \subseteq disturbed'

LEMMA AbortPasses ==
    ASSUME Disciplined, NEW h \in Desks, Abort(h),
           NEW calls \in SUBSET Calls, "idle" \notin calls
    PROVE  Moves(h, Calls) /\ Passes(calls)
<1>1. Moves(h, Calls)
      BY BreakOffMoves DEF Abort, Disciplined
<1>2. Passes(calls)
      BY DEF Abort, BreakOff, Leave, Idle, Passes, Disciplined
<1>. QED BY <1>1, <1>2

LEMMA MovesPass ==
    ASSUME Disciplined, NEW h \in Desks, NEW others \in SUBSET Calls, Moves(h, others),
           NEW calls \in SUBSET Calls, calls \cap (others \cup {"idle"}) = {}
    PROVE  Passes(calls)
BY DEF Moves, Passes, Disciplined

LEMMA StaysPass ==
    ASSUME NEW calls, UNCHANGED requests
    PROVE  Passes(calls)
BY DEF Passes, requests

\* Every step keeps the discipline, and is one of a component or passes it.
LEMMA DisciplineKept == ASSUME Disciplined, [Next]_vars PROVE Disciplined'
<1>1. ASSUME NEW h \in Desks, School(h) \/ Yard(h) \/ PlatformStep(h) \/ Abort(h)
      PROVE  Disciplined'
  <2>1. \E calls \in SUBSET Calls : Moves(h, calls)
    <3>1. /\ PeopleCalls \in SUBSET Calls /\ RegistersCalls \in SUBSET Calls
          /\ LearningCalls \in SUBSET Calls /\ ExamsCalls \in SUBSET Calls
          /\ TrackingCalls \in SUBSET Calls /\ MessagesCalls \in SUBSET Calls
          /\ RecordsCalls \in SUBSET Calls /\ PlatformCalls \in SUBSET Calls
          /\ Calls \in SUBSET Calls
          BY DEF Calls
    <3>2. CASE School(h)
          BY <3>1, <3>2, PeopleMoves, RegistersMoves, LearningMoves, ExamsMoves
             DEF School
    <3>3. CASE Yard(h)
          BY <3>1, <3>3, TrackingMoves, MessagesMoves, RecordsMoves DEF Yard
    <3>4. CASE PlatformStep(h)
          BY <3>1, <3>4, PlatformMoves
    <3>5. CASE Abort(h)
          BY <3>1, <3>5, BreakOffMoves DEF Abort, Disciplined
    <3>. QED BY <1>1, <3>2, <3>3, <3>4, <3>5
  <2>. QED BY <2>1, MovesDisciplined
<1>2. CASE UNCHANGED requests
      BY <1>2 DEF requests, Disciplined, Apart
<1>. QED BY <1>1, <1>2 DEF Next, vars, Tick

LEMMA CallsApart ==
    /\ \A c \in {PeopleCalls, RegistersCalls, LearningCalls, ExamsCalls, TrackingCalls,
                 MessagesCalls, RecordsCalls, PlatformCalls} :
          c \in SUBSET Calls /\ "idle" \notin c
    /\ PeopleCalls \cap (RegistersCalls \cup LearningCalls \cup ExamsCalls
         \cup TrackingCalls \cup MessagesCalls \cup RecordsCalls \cup PlatformCalls) = {}
    /\ RegistersCalls \cap (LearningCalls \cup ExamsCalls \cup TrackingCalls
         \cup MessagesCalls \cup RecordsCalls \cup PlatformCalls) = {}
    /\ LearningCalls \cap (ExamsCalls \cup TrackingCalls \cup MessagesCalls
         \cup RecordsCalls \cup PlatformCalls) = {}
    /\ ExamsCalls \cap (TrackingCalls \cup MessagesCalls \cup RecordsCalls
         \cup PlatformCalls) = {}
    /\ TrackingCalls \cap (MessagesCalls \cup RecordsCalls \cup PlatformCalls) = {}
    /\ MessagesCalls \cap (RecordsCalls \cup PlatformCalls) = {}
    /\ RecordsCalls \cap (PlatformCalls) = {}
BY DEF PeopleCalls, RegistersCalls, LearningCalls, ExamsCalls, TrackingCalls,
       MessagesCalls, RecordsCalls, PlatformCalls, Calls

NextIsTheirs ==
    /\ (\E h \in Desks : PeopleStep(h)) \/ (Passes(PeopleCalls) /\ UNCHANGED people)
    /\ (\E h \in Desks : RegistersStep(h)) \/ (Passes(RegistersCalls) /\ UNCHANGED registers)
    /\ (\E h \in Desks : LearningStep(h)) \/ (Passes(LearningCalls) /\ UNCHANGED learning)
    /\ (\E h \in Desks : ExamsStep(h)) \/ (Passes(ExamsCalls) /\ UNCHANGED exams)
    /\ (\E h \in Desks : TrackingStep(h)) \/ (Passes(TrackingCalls) /\ UNCHANGED tracking)
    /\ (\E h \in Desks : MessagesStep(h)) \/ (Passes(MessagesCalls) /\ UNCHANGED conversations)
    /\ (\E h \in Desks : RecordsStep(h)) \/ (Passes(RecordsCalls) /\ UNCHANGED records)
    /\ \/ \E h \in Desks : PlatformStep(h)
       \/ Passes(PlatformCalls) /\ UNCHANGED platform
       \/ Passes(PlatformCalls) /\ Tick /\ UNCHANGED <<commerce, founding>>

LEMMA NextPasses == ASSUME Disciplined, [Next]_vars PROVE NextIsTheirs
<1>1. ASSUME NEW h \in Desks, PeopleStep(h)
      PROVE  /\ Passes(RegistersCalls) /\ Passes(LearningCalls) /\ Passes(ExamsCalls)
             /\ Passes(TrackingCalls) /\ Passes(MessagesCalls)
             /\ Passes(RecordsCalls) /\ Passes(PlatformCalls)
      BY <1>1, CallsApart, MovesPass, PeopleMoves
<1>2. ASSUME NEW h \in Desks, RegistersStep(h)
      PROVE  /\ Passes(PeopleCalls) /\ Passes(LearningCalls) /\ Passes(ExamsCalls)
             /\ Passes(TrackingCalls) /\ Passes(MessagesCalls)
             /\ Passes(RecordsCalls) /\ Passes(PlatformCalls)
      BY <1>2, CallsApart, MovesPass, RegistersMoves
<1>3. ASSUME NEW h \in Desks, LearningStep(h)
      PROVE  /\ Passes(PeopleCalls) /\ Passes(RegistersCalls) /\ Passes(ExamsCalls)
             /\ Passes(TrackingCalls) /\ Passes(MessagesCalls)
             /\ Passes(RecordsCalls) /\ Passes(PlatformCalls)
      BY <1>3, CallsApart, MovesPass, LearningMoves
<1>4. ASSUME NEW h \in Desks, ExamsStep(h)
      PROVE  /\ Passes(PeopleCalls) /\ Passes(RegistersCalls) /\ Passes(LearningCalls)
             /\ Passes(TrackingCalls) /\ Passes(MessagesCalls)
             /\ Passes(RecordsCalls) /\ Passes(PlatformCalls)
      BY <1>4, CallsApart, MovesPass, ExamsMoves
<1>5. ASSUME NEW h \in Desks, TrackingStep(h)
      PROVE  /\ Passes(PeopleCalls) /\ Passes(RegistersCalls) /\ Passes(LearningCalls)
             /\ Passes(ExamsCalls) /\ Passes(MessagesCalls)
             /\ Passes(RecordsCalls) /\ Passes(PlatformCalls)
      BY <1>5, CallsApart, MovesPass, TrackingMoves
<1>6. ASSUME NEW h \in Desks, MessagesStep(h)
      PROVE  /\ Passes(PeopleCalls) /\ Passes(RegistersCalls) /\ Passes(LearningCalls)
             /\ Passes(ExamsCalls) /\ Passes(TrackingCalls)
             /\ Passes(RecordsCalls) /\ Passes(PlatformCalls)
      BY <1>6, CallsApart, MovesPass, MessagesMoves
<1>7. ASSUME NEW h \in Desks, RecordsStep(h)
      PROVE  /\ Passes(PeopleCalls) /\ Passes(RegistersCalls) /\ Passes(LearningCalls)
             /\ Passes(ExamsCalls) /\ Passes(TrackingCalls)
             /\ Passes(MessagesCalls) /\ Passes(PlatformCalls)
      BY <1>7, CallsApart, MovesPass, RecordsMoves
<1>8. ASSUME NEW h \in Desks, PlatformStep(h)
      PROVE  /\ Passes(PeopleCalls) /\ Passes(RegistersCalls) /\ Passes(LearningCalls)
             /\ Passes(ExamsCalls) /\ Passes(TrackingCalls)
             /\ Passes(MessagesCalls) /\ Passes(RecordsCalls)
      BY <1>8, CallsApart, MovesPass, PlatformMoves
<1>9. ASSUME NEW h \in Desks, School(h), UNCHANGED <<yard, platform>>
      PROVE  NextIsTheirs
      BY <1>1, <1>2, <1>3, <1>4, <1>9 DEF School, yard, NextIsTheirs
<1>10. ASSUME NEW h \in Desks, Yard(h), UNCHANGED <<school, platform>>
       PROVE  NextIsTheirs
       BY <1>5, <1>6, <1>7, <1>10 DEF Yard, school, NextIsTheirs
<1>11. ASSUME NEW h \in Desks, PlatformStep(h), UNCHANGED <<school, yard>>
       PROVE  NextIsTheirs
       BY <1>8, <1>11 DEF school, yard, NextIsTheirs
<1>12. ASSUME NEW h \in Desks, Abort(h), UNCHANGED <<school, yard, platform>>
       PROVE  NextIsTheirs
       BY <1>12, AbortPasses, CallsApart DEF school, yard, NextIsTheirs
<1>13. CASE Tick /\ UNCHANGED <<school, yard, commerce, founding>>
       BY <1>13, StaysPass DEF Tick, school, yard, NextIsTheirs
<1>14. CASE UNCHANGED vars
       BY <1>14, StaysPass DEF vars, school, yard, NextIsTheirs
<1>. QED BY <1>9, <1>10, <1>11, <1>12, <1>13, <1>14 DEF Next

-----------------------------------------------------------------------------
(* Records.  A request that creates a document still has room for it, and  *)
(* one that carries a made number finds it free: unless disturbed.         *)

Creating(h) == \/ pc[h] \in {"next number", "is it free", "insert record"}
               \/ pc[h] = "unique" /\ req[h].then = "insert record"

CreateHolds(h) ==
    Creating(h) =>
      /\ DOMAIN req[h] = {"claims", "file", "number", "tries", "made", "then"}
      /\ req[h].then = "insert record" /\ req[h].number \in Nat
      /\ req[h].made \in BOOLEAN /\ List \in req[h].claims
      /\ pc[h] # "next number" => Number(req[h].number) \in req[h].claims

UpdateHolds(h) ==
    pc[h] \in {"unique", "write record"} /\ ~Creating(h) =>
      /\ DOMAIN req[h] = {"claims", "file", "number", "made", "then"}
      /\ req[h].then = "write record" /\ req[h].number \in Nat /\ req[h].made = FALSE
      /\ Number(req[h].number) \in req[h].claims

EraseHolds(h) ==
    pc[h] = "erase" => /\ DOMAIN req[h] = {"claims", "left"}
                       /\ req[h].left \subseteq DOMAIN file

MadeIsFree(h) ==
    pc[h] \in {"unique", "insert record"} /\ req[h].made
      /\ Number(req[h].number) \notin disturbed => ~Taken(req[h].number, req[h].file)

FileTyped == /\ file \in [DOMAIN file -> [number : Nat, live : BOOLEAN]]
             /\ IsFiniteSet(DOMAIN file) /\ issued \in Nat

NumbersUnique == \A f, g \in Kept : file[f].number = file[g].number => f = g

WithinCeiling == List \notin disturbed /\ ~restored =>
    /\ Cardinality(Kept) <= Ceiling
    /\ (\E h \in Desks : Creating(h)) => Cardinality(Kept) < Ceiling

RefusedWasMet == \A n \in refused : Number(n) \in disturbed

RecordsSound ==
    /\ FileTyped /\ NumbersUnique /\ WithinCeiling /\ RefusedWasMet
    /\ \A h \in Desks : CreateHolds(h) /\ UpdateHolds(h) /\ EraseHolds(h) /\ MadeIsFree(h)

-----------------------------------------------------------------------------
LEMMA RecordsStart == ASSUME Init PROVE RecordsSound
<1>1. /\ file = [f \in Filed |-> [number |-> f, live |-> TRUE]] /\ issued = 0
      /\ refused = {} /\ pc = [h \in Desks |-> "idle"]
      BY DEF Init, RecordsInit, RequestsInit
<1>2. FileTyped /\ Kept = Filed
      BY <1>1, RecordsAssumption DEF FileTyped, Kept
<1>3. NumbersUnique
      BY <1>1, <1>2 DEF NumbersUnique
<1>4. \A h \in Desks : ~Creating(h)
      BY <1>1 DEF Creating
<1>5. WithinCeiling /\ RefusedWasMet
      BY <1>1, <1>2, <1>4, RecordsAssumption DEF WithinCeiling, RefusedWasMet
<1>6. ASSUME NEW h \in Desks
      PROVE  CreateHolds(h) /\ UpdateHolds(h) /\ EraseHolds(h) /\ MadeIsFree(h)
      BY <1>1, <1>4 DEF CreateHolds, UpdateHolds, EraseHolds, MadeIsFree
<1>. QED BY <1>2, <1>3, <1>5, <1>6 DEF RecordsSound

LEMMA RecordsPassed ==
    ASSUME Disciplined, RecordsSound, Passes(RecordsCalls), UNCHANGED records
    PROVE  RecordsSound'
<1>1. /\ file' = file /\ issued' = issued /\ refused' = refused /\ restored' = restored
      /\ Kept' = Kept /\ disturbed \subseteq disturbed'
      BY DEF records, Kept, Passes
<1>2. ASSUME NEW h \in Desks, pc'[h] \in RecordsCalls
      PROVE  pc'[h] = pc[h] /\ req'[h] = req[h]
      BY <1>2 DEF Passes
<1>3. \A h \in Desks : Creating(h)' => Creating(h)
      BY <1>2 DEF Creating, RecordsCalls
<1>4. FileTyped' /\ NumbersUnique' /\ WithinCeiling' /\ RefusedWasMet'
      BY <1>1, <1>3 DEF RecordsSound, FileTyped, NumbersUnique, WithinCeiling, RefusedWasMet
<1>5. ASSUME NEW h \in Desks
      PROVE  CreateHolds(h)' /\ UpdateHolds(h)' /\ EraseHolds(h)' /\ MadeIsFree(h)'
  <2>1. CASE pc'[h] \in RecordsCalls
    <3>1. Creating(h)' <=> Creating(h)
          BY <1>2, <2>1 DEF Creating
    <3>2. CreateHolds(h)' /\ UpdateHolds(h)' /\ EraseHolds(h)'
          BY <1>1, <1>2, <2>1, <3>1 DEF RecordsSound, CreateHolds, UpdateHolds, EraseHolds
    <3>3. MadeIsFree(h)'
          BY <1>1, <1>2, <2>1 DEF RecordsSound, MadeIsFree, Taken
    <3>. QED BY <3>2, <3>3
  <2>2. CASE pc'[h] \notin RecordsCalls
        BY <2>2 DEF CreateHolds, UpdateHolds, EraseHolds, MadeIsFree, Creating, RecordsCalls
  <2>. QED BY <2>1, <2>2
<1>. QED BY <1>4, <1>5 DEF RecordsSound

\* The requests a step does not move.
LEMMA OthersHold ==
    ASSUME Disciplined, RecordsSound, NEW h \in Desks, Moves(h, RecordsCalls),
           DOMAIN file \subseteq DOMAIN file', NEW g \in Desks, g # h
    PROVE  /\ pc'[g] = pc[g] /\ req'[g] = req[g] /\ (Creating(g)' <=> Creating(g))
           /\ CreateHolds(g)' /\ UpdateHolds(g)' /\ EraseHolds(g)'
<1>1. pc'[g] = pc[g] /\ req'[g] = req[g]
      BY DEF Moves, Disciplined
<1>2. Creating(g)' <=> Creating(g)
      BY <1>1 DEF Creating
<1>. QED BY <1>1, <1>2 DEF RecordsSound, CreateHolds, UpdateHolds, EraseHolds

\* A step that writes no document.
LEMMA RecordsUnwritten ==
    ASSUME Disciplined, RecordsSound, NEW h \in Desks, Moves(h, RecordsCalls),
           UNCHANGED <<file, restored>>, issued' \in Nat, RefusedWasMet',
           CreateHolds(h)', UpdateHolds(h)', EraseHolds(h)', MadeIsFree(h)',
           Creating(h)' => \/ Creating(h)
                           \/ List \in disturbed' \/ Cardinality(Kept) < Ceiling
    PROVE  RecordsSound'
<1>1. Kept' = Kept /\ disturbed \subseteq disturbed'
      BY DEF Kept, Moves
<1>2. FileTyped' /\ NumbersUnique'
      BY <1>1 DEF RecordsSound, FileTyped, NumbersUnique
<1>3. \A g \in Desks \ {h} : Creating(g)' <=> Creating(g)
      BY OthersHold
<1>4. WithinCeiling'
      BY <1>1, <1>3 DEF RecordsSound, WithinCeiling
<1>5. ASSUME NEW g \in Desks, g # h PROVE MadeIsFree(g)'
  <2>1. pc'[g] = pc[g] /\ req'[g] = req[g]
        BY <1>5, OthersHold
  <2>. QED BY <1>1, <2>1 DEF RecordsSound, MadeIsFree, Taken
<1>. QED BY <1>2, <1>4, <1>5, OthersHold DEF RecordsSound

LEMMA BeginCreateSound ==
    ASSUME Disciplined, RecordsSound, NEW h \in Desks, NEW f, NEW n \in Nat,
           BeginCreate(h, f, n), Moves(h, RecordsCalls)
    PROVE  RecordsSound'
<1>. DEFINE r == [claims |-> {File(f), List, Number(n)}, file |-> f, number |-> n,
                  tries |-> 0, made |-> n = 0, then |-> "insert record"]
<1>1. /\ pc'[h] = IF n = 0 THEN "next number" ELSE "unique"
      /\ req'[h] = r /\ disturbed' = r.claims \cap HeldByOthers(h)
      /\ UNCHANGED records /\ RoomFor
      BY DEF BeginCreate, Begin, Disciplined
<1>6. /\ DOMAIN r = {"claims", "file", "number", "tries", "made", "then"}
      /\ r.then = "insert record" /\ r.number = n /\ List \in r.claims
      /\ Number(n) \in r.claims /\ r.made \in BOOLEAN /\ (r.made <=> n = 0)
      OBVIOUS
<1>. HIDE DEF r
<1>2. Creating(h)' /\ CreateHolds(h)' /\ UpdateHolds(h)' /\ EraseHolds(h)'
      BY <1>1, <1>6 DEF Creating, CreateHolds, UpdateHolds, EraseHolds
<1>3. MadeIsFree(h)'
      BY <1>1, <1>6 DEF MadeIsFree
<1>4. issued' \in Nat /\ RefusedWasMet'
      BY <1>1 DEF RecordsSound, FileTyped, RefusedWasMet, records, Moves
<1>5. Cardinality(Kept) < Ceiling
      BY <1>1 DEF RoomFor
<1>. QED BY <1>1, <1>2, <1>3, <1>4, <1>5, RecordsUnwritten DEF records

LEMMA BeginUpdateSound ==
    ASSUME Disciplined, RecordsSound, NEW h \in Desks, NEW f, NEW n \in Nat,
           BeginUpdate(h, f, n), Moves(h, RecordsCalls)
    PROVE  RecordsSound'
<1>. DEFINE r == [claims |-> {File(f), Number(n)}, file |-> f, number |-> n,
                  made |-> FALSE, then |-> "write record"]
<1>1. pc'[h] = "unique" /\ req'[h] = r /\ UNCHANGED records
      BY DEF BeginUpdate, Begin, Disciplined
<1>5. /\ DOMAIN r = {"claims", "file", "number", "made", "then"}
      /\ r.then = "write record" /\ r.number = n /\ Number(n) \in r.claims
      /\ r.made = FALSE
      OBVIOUS
<1>. HIDE DEF r
<1>2. ~Creating(h)'
      BY <1>1, <1>5 DEF Creating
<1>4. CreateHolds(h)' /\ UpdateHolds(h)' /\ EraseHolds(h)' /\ MadeIsFree(h)'
      BY <1>1, <1>2, <1>5 DEF CreateHolds, UpdateHolds, EraseHolds, MadeIsFree
<1>3. issued' \in Nat /\ RefusedWasMet'
      BY <1>1 DEF RecordsSound, FileTyped, RefusedWasMet, records, Moves
<1>. QED BY <1>1, <1>2, <1>3, <1>4, RecordsUnwritten DEF records

LEMMA BeginEraseSound ==
    ASSUME Disciplined, RecordsSound, NEW h \in Desks, NEW fs,
           BeginErase(h, fs), Moves(h, RecordsCalls)
    PROVE  RecordsSound'
<1>1. /\ pc'[h] = "erase" /\ fs \subseteq DOMAIN file
      /\ req'[h] = [claims |-> {File(f) : f \in fs}, left |-> fs]
      /\ UNCHANGED records
      BY DEF BeginErase, Begin, Disciplined
<1>2. ~Creating(h)' /\ CreateHolds(h)' /\ UpdateHolds(h)' /\ EraseHolds(h)' /\ MadeIsFree(h)'
      BY <1>1 DEF Creating, CreateHolds, UpdateHolds, EraseHolds, MadeIsFree, records
<1>3. issued' \in Nat /\ RefusedWasMet'
      BY <1>1 DEF RecordsSound, FileTyped, RefusedWasMet, records, Moves
<1>. QED BY <1>1, <1>2, <1>3, RecordsUnwritten DEF records

LEMMA NextNumberSound ==
    ASSUME Disciplined, RecordsSound, NEW h \in Desks, NextNumber(h),
           Moves(h, RecordsCalls)
    PROVE  RecordsSound'
<1>1. pc[h] = "next number" /\ Creating(h)
      BY DEF NextNumber, Creating
<1>2. /\ DOMAIN req[h] = {"claims", "file", "number", "tries", "made", "then"}
      /\ req[h].then = "insert record" /\ req[h].made \in BOOLEAN
      /\ List \in req[h].claims
      BY <1>1 DEF RecordsSound, CreateHolds
<1>. DEFINE r == [req[h] EXCEPT !.number = issued + 1, !.tries = req[h].tries + 1,
                    !.claims = req[h].claims \cup {Number(issued + 1)}]
<1>3. issued + 1 \in Nat /\ issued' = issued + 1
  <2>1. issued \in Nat
        BY DEF RecordsSound, FileTyped
  <2>2. issued' = issued + 1
        BY DEF NextNumber
  <2>. QED BY <2>1, <2>2
<1>4. /\ pc'[h] = "is it free" /\ req'[h] = r
      /\ UNCHANGED <<file, refused, restored>>
      BY DEF NextNumber, TakeOn, Disciplined
<1>5. /\ DOMAIN r = {"claims", "file", "number", "tries", "made", "then"}
      /\ r.then = "insert record" /\ r.number = issued + 1 /\ List \in r.claims
      /\ Number(r.number) \in r.claims /\ r.made \in BOOLEAN
      BY <1>2
<1>. HIDE DEF r
<1>6. Creating(h)' /\ CreateHolds(h)' /\ UpdateHolds(h)' /\ EraseHolds(h)' /\ MadeIsFree(h)'
      BY <1>3, <1>4, <1>5 DEF Creating, CreateHolds, UpdateHolds, EraseHolds, MadeIsFree
<1>7. issued' \in Nat /\ RefusedWasMet'
      BY <1>3, <1>4 DEF RecordsSound, RefusedWasMet, Moves
<1>. QED BY <1>1, <1>4, <1>6, <1>7, RecordsUnwritten

LEMMA IsFreeSound ==
    ASSUME Disciplined, RecordsSound, NEW h \in Desks, IsFree(h), Moves(h, RecordsCalls)
    PROVE  RecordsSound'
<1>1. pc[h] = "is it free" /\ Creating(h) /\ UNCHANGED records
      BY DEF IsFree, Creating
<1>2. CreateHolds(h)
      BY DEF RecordsSound
<1>3. issued' \in Nat /\ RefusedWasMet'
      BY <1>1 DEF RecordsSound, FileTyped, RefusedWasMet, records, Moves
<1>4. CASE Goto(h, "unique") \/ Goto(h, "next number")
  <2>1. req'[h] = req[h] /\ pc'[h] \in {"unique", "next number"}
        BY <1>4 DEF Goto, Disciplined
  <2>2. pc'[h] = "unique" => ~Taken(req[h].number, req[h].file)
        BY <1>4, <2>1 DEF IsFree, Goto, Finish, Leave, Disciplined
  <2>3. Creating(h)' /\ CreateHolds(h)' /\ UpdateHolds(h)' /\ EraseHolds(h)'
        BY <1>1, <1>2, <2>1 DEF Creating, CreateHolds, UpdateHolds, EraseHolds
  <2>4. MadeIsFree(h)'
        BY <1>1, <2>1, <2>2 DEF MadeIsFree, Taken, Kept, records
  <2>. QED BY <1>1, <1>3, <2>3, <2>4, RecordsUnwritten DEF records
<1>5. CASE Finish(h)
  <2>1. pc'[h] = "idle"
        BY <1>5 DEF Finish, Leave, Disciplined
  <2>2. ~Creating(h)' /\ CreateHolds(h)' /\ UpdateHolds(h)' /\ EraseHolds(h)' /\ MadeIsFree(h)'
        BY <2>1 DEF Creating, CreateHolds, UpdateHolds, EraseHolds, MadeIsFree
  <2>. QED BY <1>1, <1>3, <2>2, RecordsUnwritten DEF records
<1>. QED BY <1>4, <1>5 DEF IsFree

\* A made number that is turned down is one another request was about.
LEMMA RefuseSound ==
    ASSUME Disciplined, RecordsSound, NEW h \in Desks, Refuse(h), Moves(h, RecordsCalls),
           pc[h] \in {"unique", "insert record"}, Taken(req[h].number, req[h].file)
    PROVE  RecordsSound'
<1>1. pc'[h] = "idle" /\ UNCHANGED <<file, issued, restored>>
      BY DEF Refuse, Finish, Leave, Disciplined
<1>2. ~Creating(h)' /\ CreateHolds(h)' /\ UpdateHolds(h)' /\ EraseHolds(h)' /\ MadeIsFree(h)'
      BY <1>1 DEF Creating, CreateHolds, UpdateHolds, EraseHolds, MadeIsFree
<1>3. req[h].made => Number(req[h].number) \in disturbed
      BY DEF RecordsSound, MadeIsFree
<1>4. RefusedWasMet'
      BY <1>3 DEF RecordsSound, RefusedWasMet, Refuse, Moves
<1>5. issued' \in Nat
      BY <1>1 DEF RecordsSound, FileTyped
<1>. QED BY <1>1, <1>2, <1>4, <1>5, RecordsUnwritten

LEMMA CheckUniqueSound ==
    ASSUME Disciplined, RecordsSound, NEW h \in Desks, CheckUnique(h),
           Moves(h, RecordsCalls)
    PROVE  RecordsSound'
<1>1. CASE Taken(req[h].number, req[h].file)
      BY <1>1, RefuseSound DEF CheckUnique
<1>2. CASE ~Taken(req[h].number, req[h].file)
  <2>1. /\ pc[h] = "unique" /\ pc'[h] = req[h].then /\ req'[h] = req[h]
        /\ UNCHANGED records
        BY <1>2 DEF CheckUnique, Goto, Disciplined
  <2>2. req[h].then \in {"insert record", "write record"}
        BY <2>1 DEF Disciplined, Fits, Choosing
  <2>3. CreateHolds(h) /\ UpdateHolds(h)
        BY DEF RecordsSound
  <2>4. Creating(h)' <=> Creating(h)
        BY <2>1, <2>2 DEF Creating
  <2>5. CreateHolds(h)' /\ UpdateHolds(h)' /\ EraseHolds(h)'
        BY <2>1, <2>2, <2>3, <2>4 DEF CreateHolds, UpdateHolds, EraseHolds, Creating
  <2>6. MadeIsFree(h)'
        BY <1>2, <2>1 DEF MadeIsFree, Taken, Kept, records
  <2>7. issued' \in Nat /\ RefusedWasMet'
        BY <2>1 DEF RecordsSound, FileTyped, RefusedWasMet, records, Moves
  <2>. QED BY <2>1, <2>4, <2>5, <2>6, <2>7, RecordsUnwritten DEF records
<1>. QED BY <1>1, <1>2

\* Document f gets number n, which no other has, and is kept.
LEMMA PutSound ==
    ASSUME Disciplined, RecordsSound, NEW h \in Desks, Moves(h, RecordsCalls),
           NEW f, NEW n \in Nat, ~Taken(n, f),
           file' = [g \in DOMAIN file \cup {f} |-> file'[g]],
           file'[f] = [number |-> n, live |-> TRUE],
           \A g \in DOMAIN file \ {f} : file'[g] = file[g],
           UNCHANGED <<issued, refused>>, WithinCeiling', pc'[h] = "idle",
           \A g \in Desks \ {h} : Number(n) \in req[g].claims => Number(n) \in disturbed'
    PROVE  RecordsSound'
<1>1. FileTyped'
  <2>1. [number |-> n, live |-> TRUE] \in [number : Nat, live : BOOLEAN]
        OBVIOUS
  <2>2. DOMAIN file' = DOMAIN file \cup {f}
        OBVIOUS
  <2>3. \A g \in DOMAIN file' : file'[g] \in [number : Nat, live : BOOLEAN]
        BY <2>1, <2>2 DEF RecordsSound, FileTyped
  <2>4. IsFiniteSet(DOMAIN file')
        BY <2>2, FS_AddElement DEF RecordsSound, FileTyped
  <2>5. issued' \in Nat
        BY DEF RecordsSound, FileTyped
  <2>. QED BY <2>2, <2>3, <2>4, <2>5 DEF FileTyped
<1>2. Kept' = Kept \cup {f}
      BY DEF Kept
<1>3. \A g \in Kept \ {f} : file[g].number # n
      BY DEF Taken
<1>4. file'[f].number = n /\ \A g \in Kept \ {f} : file'[g].number = file[g].number
      BY DEF Kept
<1>5. NumbersUnique'
      BY <1>2, <1>3, <1>4 DEF RecordsSound, NumbersUnique
<1>6. RefusedWasMet'
      BY DEF RecordsSound, RefusedWasMet, Moves
<1>7. CreateHolds(h)' /\ UpdateHolds(h)' /\ EraseHolds(h)' /\ MadeIsFree(h)'
      BY DEF CreateHolds, UpdateHolds, EraseHolds, MadeIsFree, Creating
<1>8. ASSUME NEW g \in Desks, g # h PROVE MadeIsFree(g)'
  <2>. DEFINE m == req[g].number
              k == req[g].file
  <2>1. /\ pc'[g] = pc[g] /\ req'[g] = req[g] /\ CreateHolds(g) /\ UpdateHolds(g)
        /\ MadeIsFree(g)
        BY <1>8, OthersHold DEF RecordsSound
  <2>2. SUFFICES ASSUME pc[g] \in {"unique", "insert record"}, req[g].made,
                        Number(m) \notin disturbed', ~Taken(m, k)
                 PROVE  ~Taken(m, k)'
        BY <2>1 DEF MadeIsFree, Moves
  <2>3. Number(m) \in req[g].claims
        BY <2>1, <2>2 DEF CreateHolds, UpdateHolds, Creating
  <2>4. m # n
        BY <2>2, <2>3, <1>8
  <2>5. k' = k /\ m' = m
        BY <2>1
  <2>. HIDE DEF m, k
  <2>6. \A j \in Kept \ {k} : file[j].number # m
        BY <2>2 DEF Taken
  <2>7. \A j \in Kept' \ {k} : file'[j].number # m
        BY <2>4, <2>6, <1>2, <1>4
  <2>. QED BY <2>5, <2>7 DEF Taken
<1>9. DOMAIN file \subseteq DOMAIN file'
      OBVIOUS
<1>. QED BY <1>1, <1>5, <1>6, <1>7, <1>8, <1>9, OthersHold DEF RecordsSound

LEMMA KeptCounted ==
    ASSUME FileTyped, NEW f
    PROVE  /\ IsFiniteSet(Kept) /\ Cardinality(Kept) \in Nat
           /\ Cardinality(Kept \cup {f}) \in Nat
           /\ Cardinality(Kept \cup {f}) <= Cardinality(Kept) + 1
<1>1. IsFiniteSet(Kept)
      BY FS_Subset DEF FileTyped, Kept
<1>2. Cardinality(Kept) \in Nat
      BY <1>1, FS_CardinalityType
<1>3. CASE f \in Kept
  <2>1. Kept \cup {f} = Kept
        BY <1>3
  <2>. QED BY <1>1, <1>2, <2>1
<1>4. CASE f \notin Kept
  <2>1. Cardinality(Kept \cup {f}) = Cardinality(Kept) + 1
        BY <1>1, <1>4, FS_AddElement
  <2>. QED BY <1>1, <1>2, <2>1
<1>. QED BY <1>3, <1>4

LEMMA InsertRecordSound ==
    ASSUME Disciplined, RecordsSound, NEW h \in Desks, InsertRecord(h),
           Moves(h, RecordsCalls)
    PROVE  RecordsSound'
<1>1. CASE Taken(req[h].number, req[h].file)
      BY <1>1, RefuseSound DEF InsertRecord
<1>2. CASE ~Taken(req[h].number, req[h].file)
  <2>. DEFINE f == req[h].file
              n == req[h].number
  <2>1. /\ pc[h] = "insert record" /\ pc'[h] = "idle"
        /\ file' = With(file, f, [number |-> n, live |-> TRUE])
        /\ UNCHANGED <<issued, refused, restored>>
        BY <1>2 DEF InsertRecord, Finish, Leave, Disciplined
  <2>2. /\ Creating(h) /\ List \in req[h].claims /\ n \in Nat
        /\ Number(n) \in req[h].claims
        BY <2>1 DEF RecordsSound, CreateHolds, Creating
  <2>3. /\ file' = [g \in DOMAIN file \cup {f} |-> file'[g]]
        /\ file'[f] = [number |-> n, live |-> TRUE]
        /\ \A g \in DOMAIN file \ {f} : file'[g] = file[g]
        BY <2>1 DEF With
  <2>4. ~Taken(n, f)
        BY <1>2
  <2>. HIDE DEF f, n
  <2>5. \A g \in Desks \ {h} : Number(n) \in req[g].claims => Number(n) \in disturbed'
        BY <2>2 DEF Disciplined, Apart, Moves
  <2>6. ASSUME NEW g \in Desks, g # h PROVE Creating(g)' => List \in disturbed'
    <3>1. DOMAIN file \subseteq DOMAIN file'
          BY <2>3
    <3>2. Creating(g)' => Creating(g) /\ List \in req[g].claims
          BY <3>1, <2>6, OthersHold DEF RecordsSound, CreateHolds
    <3>. QED BY <3>2, <2>2, <2>6 DEF Disciplined, Apart, Moves
  <2>7. WithinCeiling'
    <3>1. ~Creating(h)' /\ Kept' = Kept \cup {f}
      <4>1. DOMAIN file' = DOMAIN file \cup {f} /\ file'[f].live = TRUE
            BY <2>3
      <4>. QED BY <2>1, <2>3, <4>1 DEF Creating, Kept
    <3>2. SUFFICES ASSUME List \notin disturbed', ~restored'
                   PROVE  Cardinality(Kept') <= Ceiling
          BY <3>1, <2>6 DEF WithinCeiling
    <3>3. Cardinality(Kept) < Ceiling
          BY <3>2, <2>1, <2>2 DEF RecordsSound, WithinCeiling, Moves
    <3>4. Ceiling \in Nat
          BY RecordsAssumption
    <3>5. /\ Cardinality(Kept) \in Nat /\ Cardinality(Kept \cup {f}) \in Nat
          /\ Cardinality(Kept \cup {f}) <= Cardinality(Kept) + 1
          BY KeptCounted DEF RecordsSound
    <3>. QED BY <3>1, <3>3, <3>4, <3>5
  <2>. QED BY <2>1, <2>2, <2>3, <2>4, <2>5, <2>7, PutSound
<1>. QED BY <1>1, <1>2

LEMMA WriteRecordSound ==
    ASSUME Disciplined, RecordsSound, NEW h \in Desks, WriteRecord(h),
           Moves(h, RecordsCalls)
    PROVE  RecordsSound'
<1>. DEFINE f == req[h].file
            n == req[h].number
<1>1. /\ pc[h] = "write record" /\ pc'[h] = "idle"
      /\ UNCHANGED <<issued, refused, restored>>
      BY DEF WriteRecord, Finish, Leave, Disciplined
<1>2. n \in Nat /\ Number(n) \in req[h].claims /\ ~Creating(h)
      BY <1>1 DEF RecordsSound, UpdateHolds, Creating
<1>3. ~Creating(h)' /\ CreateHolds(h)' /\ UpdateHolds(h)' /\ EraseHolds(h)' /\ MadeIsFree(h)'
      BY <1>1 DEF CreateHolds, UpdateHolds, EraseHolds, MadeIsFree, Creating
<1>4. CASE f \notin Kept \/ Taken(n, f)
  <2>1. UNCHANGED file
        BY <1>4 DEF WriteRecord
  <2>2. issued' \in Nat /\ RefusedWasMet'
        BY <1>1 DEF RecordsSound, FileTyped, RefusedWasMet, Moves
  <2>. QED BY <1>1, <1>3, <2>1, <2>2, RecordsUnwritten
<1>5. CASE f \in Kept /\ ~Taken(n, f)
  <2>1. file' = [file EXCEPT ![f].number = n]
        BY <1>5 DEF WriteRecord
  <2>2. f \in DOMAIN file /\ file[f] \in [number : Nat, live : BOOLEAN] /\ file[f].live = TRUE
        BY <1>5 DEF Kept, RecordsSound, FileTyped
  <2>3. /\ file' = [g \in DOMAIN file \cup {f} |-> file'[g]]
        /\ \A g \in DOMAIN file \ {f} : file'[g] = file[g]
        BY <2>1, <2>2
  <2>4. file'[f] = [number |-> n, live |-> TRUE]
        BY <2>1, <2>2
  <2>5. \A g \in Desks \ {h} : Number(n) \in req[g].claims => Number(n) \in disturbed'
        BY <1>2 DEF Disciplined, Apart, Moves
  <2>. HIDE DEF f, n
  <2>6. WithinCeiling'
    <3>1. Kept' = Kept
          BY <2>3, <2>4, <1>5 DEF Kept
    <3>2. \A g \in Desks \ {h} : Creating(g)' <=> Creating(g)
          BY <2>3, OthersHold
    <3>. QED BY <1>1, <1>3, <3>1, <3>2 DEF RecordsSound, WithinCeiling, Moves
  <2>. QED BY <1>1, <1>2, <1>5, <2>3, <2>4, <2>5, <2>6, PutSound
<1>. QED BY <1>4, <1>5

LEMMA BringBackSound ==
    ASSUME Disciplined, RecordsSound, NEW h \in Desks, NEW f, BringBack(h, f),
           Moves(h, RecordsCalls)
    PROVE  RecordsSound'
<1>. DEFINE n == file[f].number
<1>1. /\ pc[h] = "idle" /\ pc' = pc /\ f \in DOMAIN file /\ ~Taken(n, f)
      /\ file' = [file EXCEPT ![f].live = TRUE]
      /\ restored' = TRUE /\ UNCHANGED <<issued, refused>>
      /\ disturbed' = {File(f), List, Number(n)} \cap HeldByOthers(h)
      BY DEF BringBack, Once, Asked, Open, Idle
<1>2. file[f] \in [number : Nat, live : BOOLEAN] /\ n \in Nat
      BY <1>1 DEF RecordsSound, FileTyped
<1>3. /\ file' = [g \in DOMAIN file \cup {f} |-> file'[g]]
      /\ \A g \in DOMAIN file \ {f} : file'[g] = file[g]
      BY <1>1
<1>4. file'[f] = [number |-> n, live |-> TRUE]
      BY <1>1, <1>2
<1>5. \A g \in Desks \ {h} : Number(n) \in req[g].claims => Number(n) \in disturbed'
      BY <1>1 DEF HeldByOthers
<1>6. WithinCeiling'
      BY <1>1 DEF WithinCeiling
<1>7. pc'[h] = "idle"
      BY <1>1
<1>. HIDE DEF n
<1>. QED BY <1>1, <1>2, <1>3, <1>4, <1>5, <1>6, <1>7, PutSound

LEMMA EraseSound ==
    ASSUME Disciplined, RecordsSound, NEW h \in Desks, Erase(h), Moves(h, RecordsCalls)
    PROVE  RecordsSound'
<1>1. PICK f \in req[h].left :
        /\ file' = [file EXCEPT ![f].live = FALSE]
        /\ \/ Finish(h)
           \/ Carry(h, "erase", [req[h] EXCEPT !.left = req[h].left \ {f}])
      BY DEF Erase
<1>2. /\ pc[h] = "erase" /\ UNCHANGED <<issued, refused, restored>>
      /\ DOMAIN req[h] = {"claims", "left"} /\ f \in DOMAIN file
      /\ req[h].left \subseteq DOMAIN file
      BY <1>1 DEF Erase, RecordsSound, EraseHolds
<1>3. DOMAIN file' = DOMAIN file /\ file' = [g \in DOMAIN file |-> file'[g]]
      BY <1>1
<1>4. \A g \in DOMAIN file : file'[g].number = file[g].number
                             /\ file'[g] \in [number : Nat, live : BOOLEAN]
      BY <1>1, <1>2 DEF RecordsSound, FileTyped
<1>5. Kept' \subseteq Kept
  <2>1. \A g \in DOMAIN file : file'[g].live => file[g].live
        BY <1>1, <1>2 DEF RecordsSound, FileTyped
  <2>. QED BY <1>3, <2>1 DEF Kept
<1>6. FileTyped' /\ NumbersUnique' /\ RefusedWasMet'
  <2>1. FileTyped'
        BY <1>2, <1>3, <1>4 DEF RecordsSound, FileTyped
  <2>2. NumbersUnique'
        BY <1>3, <1>4, <1>5 DEF RecordsSound, NumbersUnique, Kept
  <2>3. RefusedWasMet'
        BY <1>2 DEF RecordsSound, RefusedWasMet, Moves
  <2>. QED BY <2>1, <2>2, <2>3
<1>7. pc'[h] \in {"erase", "idle"}
      BY <1>1 DEF Finish, Leave, Carry, Disciplined
<1>8. ~Creating(h)' /\ CreateHolds(h)' /\ UpdateHolds(h)' /\ MadeIsFree(h)'
      BY <1>7 DEF Creating, CreateHolds, UpdateHolds, MadeIsFree
<1>9. EraseHolds(h)'
  <2>1. CASE pc'[h] = "idle"
        BY <2>1 DEF EraseHolds
  <2>2. CASE pc'[h] = "erase"
    <3>1. req'[h] = [req[h] EXCEPT !.left = req[h].left \ {f}]
          BY <1>1, <2>2 DEF Finish, Leave, Carry, Disciplined
    <3>. QED BY <1>2, <1>3, <3>1 DEF EraseHolds
  <2>. QED BY <1>7, <2>1, <2>2
<1>10. WithinCeiling'
  <2>1. Cardinality(Kept') <= Cardinality(Kept) /\ Cardinality(Kept') \in Nat
        /\ Cardinality(Kept) \in Nat
    <3>1. IsFiniteSet(Kept) /\ Cardinality(Kept) \in Nat
          BY KeptCounted DEF RecordsSound
    <3>. QED BY <3>1, <1>5, FS_Subset, FS_CardinalityType
  <2>2. \A g \in Desks \ {h} : Creating(g)' <=> Creating(g)
        BY <1>3, OthersHold
  <2>3. Ceiling \in Nat
        BY RecordsAssumption
  <2>. QED BY <1>2, <1>8, <2>1, <2>2, <2>3 DEF RecordsSound, WithinCeiling, Moves
<1>11. ASSUME NEW g \in Desks, g # h PROVE MadeIsFree(g)'
  <2>1. pc'[g] = pc[g] /\ req'[g] = req[g]
        BY <1>3, <1>11, OthersHold
  <2>. DEFINE m == req[g].number
              k == req[g].file
  <2>2. SUFFICES ASSUME pc[g] \in {"unique", "insert record"}, req[g].made,
                        Number(m) \notin disturbed'
                 PROVE  ~Taken(m, k)'
        BY <2>1 DEF MadeIsFree
  <2>3. ~Taken(m, k)
        BY <2>2 DEF RecordsSound, MadeIsFree, Moves
  <2>4. k' = k /\ m' = m
        BY <2>1
  <2>. HIDE DEF m, k
  <2>5. \A j \in Kept' \ {k} : file'[j].number # m
        BY <2>3, <1>3, <1>4, <1>5 DEF Taken, Kept
  <2>. QED BY <2>4, <2>5 DEF Taken
<1>. QED BY <1>3, <1>6, <1>8, <1>9, <1>10, <1>11, OthersHold DEF RecordsSound

LEMMA RecordsStepSound ==
    ASSUME Disciplined, RecordsSound, NEW h \in Desks, RecordsStep(h)
    PROVE  RecordsSound'
<1>1. Moves(h, RecordsCalls)
      BY RecordsMoves
<1>2. CASE RecordsArrive(h)
  <2>1. Numbers \cup {0} \subseteq Nat
        BY RecordsAssumption
  <2>. QED BY <1>1, <1>2, <2>1, BeginCreateSound, BeginUpdateSound, BeginEraseSound,
              BringBackSound DEF RecordsArrive
<1>3. CASE RecordsResume(h)
      BY <1>1, <1>3, NextNumberSound, IsFreeSound, CheckUniqueSound, InsertRecordSound,
         WriteRecordSound, EraseSound DEF RecordsResume
<1>. QED BY <1>2, <1>3 DEF RecordsStep

LEMMA RecordsAlways == Spec => [](Disciplined /\ RecordsSound)
<1>1. Init => Disciplined /\ RecordsSound
      BY DisciplineStarts, RecordsStart
<1>2. Disciplined /\ RecordsSound /\ [Next]_vars => (Disciplined /\ RecordsSound)'
      BY DisciplineKept, NextPasses, RecordsPassed, RecordsStepSound DEF NextIsTheirs
<1>. QED BY <1>1, <1>2, PTL DEF Spec

\* A list stays in order, however many desks create, change, delete and
\* restore documents of it: numbers unique, the ceiling kept, no made number
\* turned down, with the exceptions ListInOrder names.
THEOREM ListsStayInOrder == Spec => []ListInOrder
<1>1. Disciplined /\ RecordsSound => ListInOrder
      BY DEF RecordsSound, NumbersUnique, WithinCeiling, RefusedWasMet, ListInOrder, Calm
<1>. QED BY <1>1, RecordsAlways, PTL

-----------------------------------------------------------------------------
(* Messages.  Between the two writes of a sending or a reading the badge   *)
(* is wrong in a way its request knows of.                                 *)

ThreadDoc == [members : SUBSET Members, plain : BOOLEAN, unread : SUBSET Members,
              archived : BOOLEAN]

TalksTyped ==
    /\ thread = [t \in DOMAIN thread |-> thread[t]] /\ DOMAIN thread \subseteq Threads
    /\ \A t \in DOMAIN thread : thread[t] \in ThreadDoc
    /\ messages \in [Threads -> Seq(SUBSET Members)]
    /\ \A t \in Threads \ DOMAIN thread : Len(messages[t]) = 0

TalkHolds(h) ==
    /\ pc[h] \in MessagesCalls =>
         /\ req[h].thread \in Threads /\ Talk(req[h].thread) \in req[h].claims
         /\ req[h].by \in Members
    /\ pc[h] = "open thread" =>
         /\ req[h].thread \notin DOMAIN thread
         /\ req[h].all \in SUBSET Members /\ req[h].plain \in BOOLEAN
         /\ Pair(req[h].all) \in req[h].claims
    /\ pc[h] \in MessagesCalls \ {"open thread"} => req[h].thread \in DOMAIN thread
    /\ pc[h] \in {"insert message", "unread"} =>
         req[h].all = thread[req[h].thread].members

OpensApart == \A g, h \in Desks :
    g # h /\ pc[g] = "open thread" /\ pc[h] = "open thread" => req[g].thread # req[h].thread

\* Request h has half written who is waiting for thread t.
HalfWay(h, t) == pc[h] \in {"unread", "read by"} /\ req[h].thread = t

Awaited(t) ==
    Talk(t) \notin disturbed /\ Len(messages[t]) > 0 =>
      /\ (\A h \in Desks : ~HalfWay(h, t)) =>
           thread[t].unread = thread[t].members \ Newest(t)
      /\ \A h \in Desks : HalfWay(h, t) /\ pc[h] = "read by" =>
           thread[t].unread = (thread[t].members \ Newest(t)) \ {req[h].by}

\* A message just sent is the newest, read by its sender only.
JustSent(h) ==
    pc[h] = "unread" /\ Talk(req[h].thread) \notin disturbed =>
        Len(messages[req[h].thread]) > 0 /\ Newest(req[h].thread) = {req[h].by}

OnePlain ==
    /\ \A t, u \in DOMAIN thread :
         thread[t].plain /\ thread[u].plain /\ thread[t].members = thread[u].members
           /\ Cardinality(thread[t].members) = 2 /\ t # u =>
             Pair(thread[t].members) \in disturbed
    /\ \A h \in Desks :
         pc[h] = "open thread" /\ req[h].plain /\ Cardinality(req[h].all) = 2
           /\ Pair(req[h].all) \notin disturbed => Direct(req[h].all) = {}

MessagesSound ==
    /\ TalksTyped /\ OpensApart /\ OnePlain
    /\ \A t \in DOMAIN thread : Awaited(t)
    /\ \A h \in Desks : TalkHolds(h) /\ JustSent(h)

-----------------------------------------------------------------------------
LEMMA MessagesStart == ASSUME Init PROVE MessagesSound
<1>1. /\ thread = [t \in {} |-> {}] /\ messages = [t \in Threads |-> <<>>]
      /\ pc = [h \in Desks |-> "idle"]
      BY DEF Init, MessagesInit, RequestsInit
<1>2. DOMAIN thread = {}
      BY <1>1
<1>3. TalksTyped
  <2>1. messages \in [Threads -> Seq(SUBSET Members)]
        BY <1>1
  <2>2. \A t \in Threads : Len(messages[t]) = 0
        BY <1>1
  <2>. QED BY <1>1, <1>2, <2>1, <2>2 DEF TalksTyped
<1>4. OpensApart /\ OnePlain /\ \A t \in DOMAIN thread : Awaited(t)
      BY <1>1, <1>2 DEF OpensApart, OnePlain
<1>5. ASSUME NEW h \in Desks PROVE TalkHolds(h) /\ JustSent(h)
      BY <1>1 DEF TalkHolds, JustSent, MessagesCalls
<1>. QED BY <1>3, <1>4, <1>5 DEF MessagesSound

LEMMA MessagesPassed ==
    ASSUME Disciplined, MessagesSound, Passes(MessagesCalls), UNCHANGED conversations
    PROVE  MessagesSound'
<1>1. /\ thread' = thread /\ messages' = messages /\ disturbed \subseteq disturbed'
      BY DEF conversations, Passes
<1>2. ASSUME NEW h \in Desks, pc'[h] \in MessagesCalls
      PROVE  pc'[h] = pc[h] /\ req'[h] = req[h]
      BY <1>2 DEF Passes
<1>3. \A t : Newest(t)' = Newest(t) /\ Direct(t)' = Direct(t)
      BY <1>1 DEF Newest, Direct
<1>4. TalksTyped'
      BY <1>1 DEF MessagesSound, TalksTyped
<1>5. OpensApart'
      BY <1>2 DEF MessagesSound, OpensApart, MessagesCalls
<1>6. OnePlain'
      BY <1>1, <1>2, <1>3 DEF MessagesSound, OnePlain, MessagesCalls
<1>7. ASSUME NEW h \in Desks PROVE TalkHolds(h)' /\ JustSent(h)'
  <2>1. CASE pc'[h] \in MessagesCalls
        BY <1>1, <1>2, <1>3, <2>1 DEF MessagesSound, TalkHolds, JustSent
  <2>2. CASE pc'[h] \notin MessagesCalls
        BY <2>2 DEF TalkHolds, JustSent, MessagesCalls
  <2>. QED BY <2>1, <2>2
<1>8. ASSUME NEW t \in DOMAIN thread PROVE Awaited(t)'
  <2>1. \A h \in Desks : HalfWay(h, t)' => HalfWay(h, t) /\ pc'[h] = pc[h] /\ req'[h] = req[h]
        BY <1>2 DEF HalfWay, MessagesCalls
  <2>2. \A h \in Desks : HalfWay(h, t) => HalfWay(h, t)' \/ Talk(t) \in disturbed'
    <3>1. SUFFICES ASSUME NEW h \in Desks, HalfWay(h, t)
                   PROVE  HalfWay(h, t)' \/ Talk(t) \in disturbed'
          OBVIOUS
    <3>2. pc[h] \in MessagesCalls /\ Talk(t) \in req[h].claims
          BY <3>1 DEF HalfWay, MessagesSound, TalkHolds, MessagesCalls
    <3>3. CASE pc'[h] = pc[h]
          BY <1>2, <3>1, <3>2, <3>3 DEF HalfWay
    <3>4. CASE pc'[h] # pc[h]
          BY <3>2, <3>4 DEF Passes
    <3>. QED BY <3>3, <3>4
  <2>. QED BY <1>1, <1>3, <2>1, <2>2 DEF MessagesSound, Awaited
<1>. QED BY <1>1, <1>4, <1>5, <1>6, <1>7, <1>8 DEF MessagesSound

-----------------------------------------------------------------------------
\* The requests a step does not move.
LEMMA OtherTalks ==
    ASSUME Disciplined, MessagesSound, NEW h \in Desks, Moves(h, MessagesCalls),
           DOMAIN thread \subseteq DOMAIN thread',
           \A t \in DOMAIN thread : thread'[t].members = thread[t].members,
           NEW g \in Desks, g # h,
           pc[g] = "open thread" => req[g].thread \notin DOMAIN thread'
    PROVE  pc'[g] = pc[g] /\ req'[g] = req[g] /\ TalkHolds(g)'
<1>1. pc'[g] = pc[g] /\ req'[g] = req[g]
      BY DEF Moves, Disciplined
<1>. QED BY <1>1 DEF MessagesSound, TalkHolds, MessagesCalls

\* The conversations a step is not about.
LEMMA AwaitedElsewhere ==
    ASSUME Disciplined, MessagesSound, NEW h \in Desks, Moves(h, MessagesCalls),
           NEW u \in DOMAIN thread, messages'[u] = messages[u],
           thread'[u].unread = thread[u].unread, thread'[u].members = thread[u].members,
           ~HalfWay(h, u), ~HalfWay(h, u)'
    PROVE  Awaited(u)'
<1>1. \A g \in Desks \ {h} : pc'[g] = pc[g] /\ req'[g] = req[g]
      BY DEF Moves, Disciplined
<1>2. \A g \in Desks : (HalfWay(g, u)' <=> HalfWay(g, u))
                       /\ (HalfWay(g, u)' => pc'[g] = pc[g] /\ req'[g] = req[g])
      BY <1>1 DEF HalfWay
<1>3. Newest(u)' = Newest(u)
      BY DEF Newest
<1>4. Awaited(u) /\ disturbed \subseteq disturbed'
      BY DEF MessagesSound, Moves
<1>5. SUFFICES ASSUME Talk(u) \notin disturbed', Len(messages'[u]) > 0
               PROVE  /\ (\A g \in Desks : ~HalfWay(g, u)') =>
                           thread'[u].unread = thread[u].members \ Newest(u)
                      /\ \A g \in Desks : HalfWay(g, u)' /\ pc'[g] = "read by" =>
                           thread'[u].unread
                             = (thread[u].members \ Newest(u)) \ {req'[g].by}
      BY <1>3 DEF Awaited
<1>6. Talk(u) \notin disturbed /\ Len(messages[u]) > 0
      BY <1>4, <1>5
<1>. QED BY <1>2, <1>4, <1>6 DEF Awaited

\* Two requests half way about one conversation have disturbed it.
LEMMA Alone ==
    ASSUME Disciplined, MessagesSound, NEW g \in Desks, NEW h \in Desks, g # h,
           pc[g] \in MessagesCalls, pc[h] \in MessagesCalls, req[g].thread = req[h].thread
    PROVE  Talk(req[h].thread) \in disturbed
BY DEF MessagesSound, TalkHolds, Disciplined, Apart

\* A step that writes nothing, of a request not half way.
LEMMA MessagesUnwritten ==
    ASSUME Disciplined, MessagesSound, NEW h \in Desks, Moves(h, MessagesCalls),
           UNCHANGED conversations, pc[h] = "idle", TalkHolds(h)',
           pc'[h] \notin {"unread", "read by"},
           pc'[h] = "open thread" =>
             /\ \A g \in Desks \ {h} : pc[g] = "open thread" => req[g].thread # req'[h].thread
             /\ req'[h].plain /\ Cardinality(req'[h].all) = 2 => Direct(req'[h].all) = {}
    PROVE  MessagesSound'
<1>1. thread' = thread /\ messages' = messages /\ disturbed \subseteq disturbed'
      BY DEF conversations, Moves
<1>2. \A g \in Desks \ {h} : pc'[g] = pc[g] /\ req'[g] = req[g] /\ TalkHolds(g)'
      BY <1>1, OtherTalks DEF MessagesSound, TalkHolds, MessagesCalls
<1>3. TalksTyped' /\ OpensApart'
      BY ZenonT(40), <1>1, <1>2 DEF MessagesSound, TalksTyped, OpensApart
<1>4. \A t \in DOMAIN thread' : Awaited(t)'
      BY <1>1, AwaitedElsewhere DEF HalfWay
<1>5. \A a : Direct(a)' = Direct(a)
      BY <1>1 DEF Direct
<1>6. OnePlain'
      BY <1>1, <1>2, <1>5 DEF MessagesSound, OnePlain
<1>7. \A g \in Desks : JustSent(g)'
  <2>1. \A u : Newest(u)' = Newest(u)
        BY <1>1 DEF Newest
  <2>. QED BY <1>1, <1>2, <2>1 DEF MessagesSound, JustSent
<1>. QED BY <1>2, <1>3, <1>4, <1>6, <1>7 DEF MessagesSound

LEMMA BeginThreadSound ==
    ASSUME Disciplined, MessagesSound, NEW h \in Desks, Moves(h, MessagesCalls),
           NEW p \in Members, NEW others \in SUBSET Members, NEW plain \in BOOLEAN,
           NEW says, NEW t \in Threads, BeginThread(h, p, others, plain, says, t)
    PROVE  MessagesSound'
<1>. DEFINE all == others \cup {p}
            known == IF plain /\ Cardinality(all) = 2 THEN Direct(all) ELSE {}
            r == [claims |-> {Talk(t), Pair(all)}, thread |-> t, by |-> p,
                  all |-> all, plain |-> plain, says |-> says]
<1>1. /\ IF known = {} THEN t \notin DOMAIN thread /\ New(h, Talk(t)) ELSE t \in known
      /\ pc'[h] = IF known = {} THEN "open thread" ELSE "insert message"
      /\ req'[h] = r /\ pc[h] = "idle" /\ UNCHANGED conversations
      BY DEF BeginThread, Begin, Asked, Open, Idle, Disciplined
<1>2. /\ r.thread = t /\ r.by = p /\ r.all = all /\ r.plain = plain
      /\ Talk(t) \in r.claims /\ Pair(all) \in r.claims
      OBVIOUS
<1>3. all \in SUBSET Members
      OBVIOUS
<1>4. known # {} => t \in DOMAIN thread /\ thread[t].members = all
      BY <1>1 DEF Direct
<1>5. known = {} /\ plain /\ Cardinality(all) = 2 => Direct(all) = {}
      OBVIOUS
<1>. HIDE DEF r, all, known
<1>6. TalkHolds(h)'
      BY <1>1, <1>2, <1>3, <1>4 DEF TalkHolds, MessagesCalls, conversations
<1>7. \A g \in Desks \ {h} : pc[g] = "open thread" /\ known = {} => req[g].thread # t
      BY <1>1 DEF New, HeldByOthers, MessagesSound, TalkHolds, MessagesCalls
<1>. QED BY <1>1, <1>2, <1>5, <1>6, <1>7, MessagesUnwritten

LEMMA BeginSendReadSound ==
    ASSUME Disciplined, MessagesSound, NEW h \in Desks, Moves(h, MessagesCalls),
           NEW p \in Members, NEW t \in Threads, BeginSend(h, p, t) \/ BeginRead(h, p, t)
    PROVE  MessagesSound'
<1>1. /\ pc'[h] \in {"insert message", "pull"} /\ pc[h] = "idle" /\ UNCHANGED conversations
      /\ req'[h].thread = t /\ req'[h].by = p /\ Talk(t) \in req'[h].claims
      /\ t \in DOMAIN thread
      /\ pc'[h] = "insert message" => req'[h].all = thread[t].members
  <2>1. CASE BeginSend(h, p, t)
        BY <2>1 DEF BeginSend, Begin, Asked, Open, Idle, Disciplined
  <2>2. CASE BeginRead(h, p, t)
        BY <2>2 DEF BeginRead, Begin, Asked, Open, Idle, Disciplined
  <2>. QED BY <2>1, <2>2
<1>2. TalkHolds(h)'
      BY <1>1 DEF TalkHolds, MessagesCalls, conversations
<1>. QED BY <1>1, <1>2, MessagesUnwritten

\* A step of a request about conversation t that writes only there.
LEMMA MessagesWritten ==
    ASSUME Disciplined, MessagesSound, NEW h \in Desks, Moves(h, MessagesCalls),
           pc[h] \in MessagesCalls \ {"open thread"}, pc'[h] # "open thread",
           NEW t, t = req[h].thread, pc'[h] # "idle" => req'[h] = req[h],
           DOMAIN thread' = DOMAIN thread,
           \A u \in DOMAIN thread : /\ thread'[u].members = thread[u].members
                                    /\ thread'[u].plain = thread[u].plain,
           \A u \in DOMAIN thread \ {t} : thread'[u] = thread[u] /\ messages'[u] = messages[u],
           TalksTyped', Awaited(t)', JustSent(h)',
           pc'[h] \in {"insert message", "unread"} => req[h].all = thread[t].members
    PROVE  MessagesSound'
<1>1. TalkHolds(h) /\ t \in DOMAIN thread
      BY DEF MessagesSound, TalkHolds
<1>2. TalkHolds(h)'
  <2>1. CASE pc'[h] = "idle"
        BY <2>1 DEF TalkHolds, MessagesCalls
  <2>2. CASE pc'[h] # "idle"
        BY <1>1, <2>2 DEF TalkHolds, Moves, MessagesCalls
  <2>. QED BY <2>1, <2>2
<1>3. ASSUME NEW g \in Desks, g # h
      PROVE  pc'[g] = pc[g] /\ req'[g] = req[g] /\ TalkHolds(g)'
  <2>1. pc[g] = "open thread" => req[g].thread \notin DOMAIN thread'
        BY DEF MessagesSound, TalkHolds
  <2>. QED BY <1>3, <2>1, OtherTalks
<1>4. OpensApart'
  <2>1. SUFFICES ASSUME NEW g \in Desks, NEW k \in Desks, g # k,
                        pc'[g] = "open thread", pc'[k] = "open thread"
                 PROVE  req'[g].thread # req'[k].thread
        BY DEF OpensApart
  <2>2. /\ pc[g] = "open thread" /\ req[g] = req'[g]
        /\ pc[k] = "open thread" /\ req[k] = req'[k]
        BY <2>1 DEF Moves, Disciplined
  <2>. QED BY <2>1, <2>2 DEF MessagesSound, OpensApart
<1>5. ASSUME NEW u \in DOMAIN thread, u # t PROVE Awaited(u)'
      BY <1>5, AwaitedElsewhere DEF HalfWay
<1>6. \A a : Direct(a)' = Direct(a)
      BY DEF Direct
<1>7. OnePlain'
      <2>1. OnePlain /\ disturbed \subseteq disturbed'
        BY DEF MessagesSound, Moves
  <2>2. ASSUME NEW g \in Desks, pc'[g] = "open thread", req'[g].plain,
               Cardinality(req'[g].all) = 2, Pair(req'[g].all) \notin disturbed'
        PROVE  \A u \in DOMAIN thread' :
                 ~(thread'[u].members = req'[g].all /\ thread'[u].plain)
    <3>1. pc[g] = "open thread" /\ req'[g] = req[g]
          BY <2>2 DEF Moves, Disciplined
    <3>2. Direct(req[g].all) = {}
          BY <2>1, <2>2, <3>1 DEF OnePlain
    <3>. QED BY <3>1, <3>2 DEF Direct
  <2>3. ASSUME NEW u \in DOMAIN thread, NEW w \in DOMAIN thread,
               thread'[u].plain, thread'[w].plain, thread'[u].members = thread'[w].members,
               Cardinality(thread'[u].members) = 2, u # w
        PROVE  Pair(thread'[u].members) \in disturbed'
        BY ZenonT(40), <2>1, <2>3 DEF OnePlain
  <2>. QED BY <2>2, <2>3 DEF OnePlain, Direct
<1>8. ASSUME NEW g \in Desks, g # h PROVE JustSent(g)'
  <2>1. CASE pc[g] = "unread" /\ req[g].thread = t
    <3>1. Talk(t) \in disturbed'
          BY ZenonT(40), <1>8, <2>1, Alone DEF MessagesCalls, Moves
    <3>2. pc'[g] = pc[g] /\ req'[g] = req[g]
          BY <1>3, <1>8
    <3>. QED BY <2>1, <3>1, <3>2 DEF JustSent
  <2>2. CASE pc[g] = "unread" /\ req[g].thread # t
    <3>1. pc'[g] = pc[g] /\ req'[g] = req[g] /\ req[g].thread \in DOMAIN thread
          BY <1>3, <1>8, <2>2 DEF MessagesSound, TalkHolds, MessagesCalls
    <3>2. messages'[req[g].thread] = messages[req[g].thread]
          BY <2>2, <3>1
    <3>3. JustSent(g) /\ disturbed \subseteq disturbed'
          BY DEF MessagesSound, Moves
    <3>. QED BY <3>1, <3>2, <3>3 DEF JustSent, Newest
  <2>3. CASE pc[g] # "unread"
        BY <1>3, <1>8, <2>3 DEF JustSent
  <2>. QED BY <2>1, <2>2, <2>3
<1>. QED BY <1>2, <1>3, <1>4, <1>5, <1>7, <1>8 DEF MessagesSound

LEMMA InsertMessageSound ==
    ASSUME Disciplined, MessagesSound, NEW h \in Desks, Moves(h, MessagesCalls),
           InsertMessage(h)
    PROVE  MessagesSound'
<1>0. PICK t, p : t = req[h].thread /\ p = req[h].by
      OBVIOUS
<1>1. /\ pc[h] = "insert message" /\ pc'[h] = "unread" /\ req' = req
      /\ messages' = [messages EXCEPT ![t] = Append(messages[t], {p})] /\ thread' = thread
      BY <1>0 DEF InsertMessage, Goto, Disciplined
<1>2. /\ t \in DOMAIN thread /\ t \in Threads /\ p \in Members
      /\ req[h].all = thread[t].members
      BY <1>0, <1>1 DEF MessagesSound, TalkHolds, TalksTyped, MessagesCalls
<1>3. messages \in [Threads -> Seq(SUBSET Members)] /\ {p} \in SUBSET Members
      BY <1>2 DEF MessagesSound, TalksTyped
<1>4. messages'[t] = Append(messages[t], {p}) /\ messages[t] \in Seq(SUBSET Members)
      BY <1>0, <1>1, <1>2, <1>3
<1>5. Len(messages'[t]) > 0 /\ messages'[t][Len(messages'[t])] = {p}
      BY <1>3, <1>4
<1>6. TalksTyped'
  <2>1. messages' \in [Threads -> Seq(SUBSET Members)]
    <3>1. Append(messages[t], {p}) \in Seq(SUBSET Members)
          BY <1>3, <1>4
    <3>. QED BY <1>0, <1>1, <1>3, <3>1
  <2>. QED BY <1>0, <1>1, <1>2, <2>1 DEF MessagesSound, TalksTyped
<1>7. JustSent(h)'
      BY <1>0, <1>1, <1>5 DEF JustSent, Newest
<1>8. Awaited(t)'
  <2>1. HalfWay(h, t)'
        BY <1>0, <1>1 DEF HalfWay
  <2>2. ASSUME NEW g \in Desks, HalfWay(g, t)', pc'[g] = "read by"
        PROVE  Talk(t) \in disturbed'
    <3>1. g # h /\ pc[g] = pc'[g] /\ req[g] = req'[g]
          BY <1>0, <1>1, <2>2 DEF Moves, Disciplined
    <3>. QED BY <1>0, <1>1, <2>2, <3>1, Alone DEF HalfWay, MessagesCalls, Moves
  <2>. QED BY <2>1, <2>2 DEF Awaited
<1>10. \A u \in DOMAIN thread \ {t} : messages'[u] = messages[u]
       BY <1>0, <1>1, <1>3 DEF MessagesSound, TalksTyped
<1>. QED BY <1>0, <1>1, <1>2, <1>6, <1>7, <1>8, <1>10, MessagesWritten DEF MessagesCalls

LEMMA MarkUnreadSound ==
    ASSUME Disciplined, MessagesSound, NEW h \in Desks, Moves(h, MessagesCalls),
           MarkUnread(h)
    PROVE  MessagesSound'
<1>0. PICK t, p : t = req[h].thread /\ p = req[h].by
      OBVIOUS
<1>1. /\ pc[h] = "unread" /\ pc'[h] = "idle" /\ messages' = messages
      /\ thread' = [thread EXCEPT ![t].unread = req[h].all \ {p}]
      BY <1>0 DEF MarkUnread, Unread, Finish, Leave, Disciplined
<1>2. /\ t \in DOMAIN thread /\ t \in Threads /\ p \in Members
      /\ req[h].all = thread[t].members
      BY <1>0, <1>1 DEF MessagesSound, TalkHolds, TalksTyped, MessagesCalls
<1>3. thread[t] \in ThreadDoc /\ DOMAIN thread' = DOMAIN thread
      /\ \A u \in DOMAIN thread \ {t} : thread'[u] = thread[u]
      BY <1>0, <1>1, <1>2 DEF MessagesSound, TalksTyped
<1>4. /\ thread'[t] \in ThreadDoc /\ thread'[t].members = thread[t].members
      /\ thread'[t].plain = thread[t].plain
      /\ thread'[t].unread = thread[t].members \ {p}
      BY <1>0, <1>1, <1>2, <1>3 DEF ThreadDoc
<1>5. TalksTyped'
      BY <1>0, <1>1, <1>3, <1>4 DEF MessagesSound, TalksTyped
<1>6. JustSent(h)'
      BY <1>0, <1>1 DEF JustSent
<1>7. Awaited(t)'
  <2>1. ASSUME NEW g \in Desks, HalfWay(g, t)' PROVE Talk(t) \in disturbed'
    <3>1. g # h /\ pc[g] = pc'[g] /\ req[g] = req'[g]
          BY <1>0, <1>1, <2>1 DEF Moves, Disciplined, HalfWay
    <3>. QED BY <1>0, <1>1, <2>1, <3>1, Alone DEF HalfWay, MessagesCalls, Moves
  <2>2. Talk(t) \notin disturbed' => Newest(t)' = {p}
        BY <1>0, <1>1 DEF MessagesSound, JustSent, Newest, Moves
  <2>3. thread'[t].unread = thread'[t].members \ {p}
        BY <1>4
  <2>. QED BY <2>1, <2>2, <2>3 DEF Awaited
<1>. QED BY <1>0, <1>1, <1>2, <1>3, <1>4, <1>5, <1>6, <1>7, MessagesWritten DEF MessagesCalls

LEMMA PullUnreadSound ==
    ASSUME Disciplined, MessagesSound, NEW h \in Desks, Moves(h, MessagesCalls),
           PullUnread(h)
    PROVE  MessagesSound'
<1>0. PICK t, p : t = req[h].thread /\ p = req[h].by
      OBVIOUS
<1>1. /\ pc[h] = "pull" /\ pc'[h] = "read by" /\ req' = req /\ messages' = messages
      /\ thread' = [thread EXCEPT ![t].unread = thread[t].unread \ {p}]
      BY <1>0 DEF PullUnread, Goto, Disciplined
<1>2. t \in DOMAIN thread /\ t \in Threads /\ p \in Members
      BY <1>0, <1>1 DEF MessagesSound, TalkHolds, TalksTyped, MessagesCalls
<1>3. thread[t] \in ThreadDoc /\ DOMAIN thread' = DOMAIN thread
      /\ \A u \in DOMAIN thread \ {t} : thread'[u] = thread[u]
      BY <1>0, <1>1, <1>2 DEF MessagesSound, TalksTyped
<1>4. /\ thread'[t] \in ThreadDoc /\ thread'[t].members = thread[t].members
      /\ thread'[t].plain = thread[t].plain
      /\ thread'[t].unread = thread[t].unread \ {p}
      BY <1>0, <1>1, <1>2, <1>3 DEF ThreadDoc
<1>5. TalksTyped'
      BY <1>0, <1>1, <1>3, <1>4 DEF MessagesSound, TalksTyped
<1>6. JustSent(h)'
      BY <1>0, <1>1 DEF JustSent
<1>7. Awaited(t)'
  <2>1. ASSUME NEW g \in Desks, HalfWay(g, t) PROVE Talk(t) \in disturbed
    <3>1. g # h
          BY <1>0, <1>1, <2>1 DEF HalfWay
    <3>. QED BY <1>0, <1>1, <2>1, <3>1, Alone DEF HalfWay, MessagesCalls
  <2>2. ASSUME NEW g \in Desks, HalfWay(g, t)', g # h PROVE Talk(t) \in disturbed
    <3>1. pc[g] = pc'[g] /\ req[g] = req'[g]
          BY <2>2 DEF Moves, Disciplined
    <3>. QED BY <2>1, <2>2, <3>1 DEF HalfWay
  <2>3. Talk(t) \notin disturbed /\ Len(messages[t]) > 0 =>
          thread[t].unread = thread[t].members \ Newest(t)
        BY <1>2, <2>1 DEF MessagesSound, Awaited
  <2>4. /\ HalfWay(h, t)' /\ req'[h].by = p /\ Newest(t)' = Newest(t)
        /\ thread'[t].unread = thread[t].unread \ {p}
        /\ thread'[t].members = thread[t].members
        BY <1>0, <1>1, <1>4 DEF HalfWay, Newest
  <2>5. disturbed \subseteq disturbed'
        BY DEF Moves
  <2>. QED BY <1>0, <1>1, <2>2, <2>3, <2>4, <2>5 DEF Awaited
<1>. QED BY <1>0, <1>1, <1>2, <1>3, <1>4, <1>5, <1>6, <1>7, MessagesWritten DEF MessagesCalls

LEMMA AddReaderSound ==
    ASSUME Disciplined, MessagesSound, NEW h \in Desks, Moves(h, MessagesCalls),
           AddReader(h)
    PROVE  MessagesSound'
<1>0. PICK t, p : t = req[h].thread /\ p = req[h].by
      OBVIOUS
<1>1. /\ pc[h] = "read by" /\ pc'[h] = "idle" /\ thread' = thread
      /\ messages' = [messages EXCEPT ![t] =
                        [i \in 1 .. Len(messages[t]) |-> messages[t][i] \cup {p}]]
      BY <1>0 DEF AddReader, Finish, Leave, Disciplined
<1>2. t \in DOMAIN thread /\ t \in Threads /\ p \in Members
      BY <1>0, <1>1 DEF MessagesSound, TalkHolds, TalksTyped, MessagesCalls
<1>3. messages \in [Threads -> Seq(SUBSET Members)] /\ messages[t] \in Seq(SUBSET Members)
      BY <1>2 DEF MessagesSound, TalksTyped
<1>4. /\ messages'[t] = [i \in 1 .. Len(messages[t]) |-> messages[t][i] \cup {p}]
      /\ \A u \in Threads \ {t} : messages'[u] = messages[u]
      BY <1>1, <1>2, <1>3
<1>5. /\ messages'[t] \in Seq(SUBSET Members) /\ Len(messages'[t]) = Len(messages[t])
      /\ Len(messages[t]) > 0 =>
           messages'[t][Len(messages'[t])] = messages[t][Len(messages[t])] \cup {p}
  <2>1. /\ Len(messages[t]) \in Nat
        /\ \A i \in 1 .. Len(messages[t]) : messages[t][i] \in SUBSET Members
        BY <1>3
  <2>2. \A i \in 1 .. Len(messages[t]) : messages[t][i] \cup {p} \in SUBSET Members
        BY <1>2, <2>1
  <2>3. messages'[t] \in Seq(SUBSET Members)
        BY <1>4, <2>1, <2>2, SeqDef
  <2>4. DOMAIN messages'[t] = 1 .. Len(messages[t])
        BY <1>4
  <2>5. Len(messages'[t]) = Len(messages[t])
        BY <2>1, <2>3, <2>4, LenProperties
  <2>. QED BY <1>4, <2>1, <2>3, <2>5
<1>6. TalksTyped'
  <2>1. messages' \in [Threads -> Seq(SUBSET Members)]
        BY <1>1, <1>3, <1>4, <1>5
  <2>. QED BY <1>1, <1>2, <1>4, <2>1 DEF MessagesSound, TalksTyped
<1>7. JustSent(h)'
      BY <1>1 DEF JustSent
<1>8. Awaited(t)'
  <2>1. ASSUME NEW g \in Desks, HalfWay(g, t)' PROVE Talk(t) \in disturbed'
    <3>1. g # h /\ pc[g] = pc'[g] /\ req[g] = req'[g]
          BY <1>0, <1>1, <2>1 DEF Moves, Disciplined, HalfWay
    <3>. QED BY <1>0, <1>1, <2>1, <3>1, Alone DEF HalfWay, MessagesCalls, Moves
  <2>2. Talk(t) \notin disturbed' /\ Len(messages[t]) > 0 =>
          thread[t].unread = (thread[t].members \ Newest(t)) \ {p}
        BY <1>0, <1>1, <1>2 DEF MessagesSound, Awaited, HalfWay, Moves
  <2>3. Len(messages[t]) > 0 => Newest(t)' = Newest(t) \cup {p}
        BY <1>5 DEF Newest
  <2>. QED BY <1>1, <1>5, <2>1, <2>2, <2>3 DEF Awaited
<1>9. \A u \in DOMAIN thread \ {t} : messages'[u] = messages[u]
      BY <1>4 DEF MessagesSound, TalksTyped
<1>. QED BY <1>0, <1>1, <1>2, <1>6, <1>7, <1>8, <1>9, MessagesWritten DEF MessagesCalls

LEMMA ArchiveSound ==
    ASSUME Disciplined, MessagesSound, NEW h \in Desks, Moves(h, MessagesCalls),
           NEW t \in Threads, Archive(h, t)
    PROVE  MessagesSound'
<1>1. /\ t \in DOMAIN thread /\ thread' = [thread EXCEPT ![t].archived = TRUE]
      /\ messages' = messages /\ pc' = pc /\ req' = req /\ pc[h] = "idle"
      /\ disturbed \subseteq disturbed'
      BY DEF Archive, Once, Asked, Open, Idle, Moves
<1>2. thread[t] \in ThreadDoc /\ DOMAIN thread' = DOMAIN thread
      /\ \A u \in DOMAIN thread \ {t} : thread'[u] = thread[u]
      BY <1>1 DEF MessagesSound, TalksTyped
<1>3. /\ thread'[t] \in ThreadDoc /\ thread'[t].members = thread[t].members
      /\ thread'[t].plain = thread[t].plain /\ thread'[t].unread = thread[t].unread
      BY <1>1, <1>2 DEF ThreadDoc
<1>4. TalksTyped' /\ OpensApart'
      BY <1>1, <1>2, <1>3 DEF MessagesSound, TalksTyped, OpensApart
<1>5. \A u \in DOMAIN thread :
        /\ thread'[u].members = thread[u].members /\ thread'[u].plain = thread[u].plain
        /\ thread'[u].unread = thread[u].unread
      BY <1>2, <1>3
<1>6. ASSUME NEW u \in DOMAIN thread PROVE Awaited(u)'
      BY <1>1, <1>5, AwaitedElsewhere DEF HalfWay
<1>7. ASSUME NEW g \in Desks PROVE TalkHolds(g)' /\ JustSent(g)'
  <2>1. TalkHolds(g) /\ JustSent(g)
        BY DEF MessagesSound
  <2>2. TalkHolds(g)'
        BY <1>1, <1>2, <1>5, <2>1 DEF TalkHolds, MessagesCalls
  <2>. QED BY <1>1, <2>1, <2>2 DEF JustSent, Newest
<1>8. OnePlain'
  <2>1. \A a : Direct(a)' = Direct(a)
        BY <1>2, <1>5 DEF Direct
  <2>2. OnePlain
        BY DEF MessagesSound
  <2>3. ASSUME NEW g \in Desks, pc'[g] = "open thread", req'[g].plain,
               Cardinality(req'[g].all) = 2, Pair(req'[g].all) \notin disturbed'
        PROVE  Direct(req[g].all)' = {}
        BY <1>1, <2>1, <2>2, <2>3 DEF OnePlain
  <2>4. ASSUME NEW u \in DOMAIN thread, NEW w \in DOMAIN thread,
               thread'[u].plain, thread'[w].plain, thread'[u].members = thread'[w].members,
               Cardinality(thread'[u].members) = 2, u # w
        PROVE  Pair(thread'[u].members) \in disturbed'
        BY <1>1, <1>5, <2>2, <2>4 DEF OnePlain
  <2>. QED BY <1>2, <2>3, <2>4 DEF OnePlain
<1>. QED BY <1>2, <1>4, <1>6, <1>7, <1>8 DEF MessagesSound

LEMMA OpenThreadSound ==
    ASSUME Disciplined, MessagesSound, NEW h \in Desks, Moves(h, MessagesCalls),
           OpenThread(h)
    PROVE  MessagesSound'
<1>0. PICK t, all, plain : t = req[h].thread /\ all = req[h].all /\ plain = req[h].plain
      OBVIOUS
<1>. DEFINE doc == [members |-> all, plain |-> plain, unread |-> {}, archived |-> FALSE]
<1>1. /\ pc[h] = "open thread" /\ thread' = With(thread, t, doc) /\ messages' = messages
      /\ \/ pc'[h] = "idle"
         \/ pc'[h] = "insert message" /\ req' = req
      BY <1>0 DEF OpenThread, Goto, Finish, Leave, Disciplined
<1>2. /\ t \in Threads \ DOMAIN thread /\ all \in SUBSET Members /\ plain \in BOOLEAN
      /\ TalkHolds(h) /\ Pair(all) \in req[h].claims
      BY <1>0, <1>1 DEF MessagesSound, TalkHolds, MessagesCalls
<1>3. /\ doc \in ThreadDoc /\ doc.members = all /\ doc.plain = plain
      BY <1>2 DEF ThreadDoc
<1>. HIDE DEF doc
<1>4. /\ DOMAIN thread' = DOMAIN thread \cup {t} /\ thread'[t] = doc
      /\ \A u \in DOMAIN thread : thread'[u] = thread[u]
      /\ thread' = [u \in DOMAIN thread' |-> thread'[u]]
      BY <1>1, <1>2 DEF With
<1>5. TalksTyped'
      BY <1>1, <1>2, <1>3, <1>4 DEF MessagesSound, TalksTyped
<1>6. ASSUME NEW g \in Desks, g # h
      PROVE  pc'[g] = pc[g] /\ req'[g] = req[g] /\ TalkHolds(g)'
  <2>1. pc[g] = "open thread" => req[g].thread \notin DOMAIN thread'
        BY <1>0, <1>1, <1>4, <1>6 DEF MessagesSound, TalkHolds, OpensApart
  <2>. QED BY <1>4, <1>6, <2>1, OtherTalks
<1>7. OpensApart'
  <2>1. SUFFICES ASSUME NEW g \in Desks, NEW k \in Desks, g # k,
                        pc'[g] = "open thread", pc'[k] = "open thread"
                 PROVE  req'[g].thread # req'[k].thread
        BY DEF OpensApart
  <2>2. /\ pc[g] = "open thread" /\ req[g] = req'[g]
        /\ pc[k] = "open thread" /\ req[k] = req'[k]
        BY <1>1, <2>1 DEF Moves, Disciplined
  <2>. QED BY <2>1, <2>2 DEF MessagesSound, OpensApart
<1>8. TalkHolds(h)'
  <2>1. CASE pc'[h] = "idle"
        BY <2>1 DEF TalkHolds, MessagesCalls
  <2>2. CASE pc'[h] = "insert message" /\ req' = req
        BY <1>0, <1>1, <1>2, <1>3, <1>4, <2>2 DEF TalkHolds, MessagesCalls
  <2>. QED BY <1>1, <2>1, <2>2
<1>9. ASSUME NEW u \in DOMAIN thread PROVE Awaited(u)'
      BY <1>0, <1>1, <1>2, <1>4, <1>9, AwaitedElsewhere DEF HalfWay
<1>10. Awaited(t)'
  <2>1. Len(messages[t]) = 0
        BY <1>2 DEF MessagesSound, TalksTyped
  <2>2. messages' = messages
        BY <1>1
  <2>3. ~(Len(messages'[t]) > 0)
        BY <2>1, <2>2
  <2>4. Awaited(t)' <=> (Talk(t) \notin disturbed' /\ Len(messages'[t]) > 0 =>
                           Awaited(t)')
        BY DEF Awaited
  <2>. QED BY <2>3, <2>4
<1>11. ASSUME NEW g \in Desks PROVE JustSent(g)'
  <2>1. pc'[g] = "unread" => pc[g] = "unread" /\ req'[g] = req[g]
        BY <1>1, <1>6
  <2>. QED BY <1>1, <2>1 DEF MessagesSound, JustSent, Newest, Moves
<1>12. OnePlain'
  <2>0. OnePlain /\ disturbed \subseteq disturbed'
        BY DEF MessagesSound, Moves
  <2>1. plain /\ Cardinality(all) = 2 /\ Pair(all) \notin disturbed =>
          \A u \in DOMAIN thread : ~(thread[u].plain /\ thread[u].members = all)
        BY <1>0, <1>1, <2>0 DEF OnePlain, Direct
  <2>2. ASSUME NEW u \in DOMAIN thread', NEW w \in DOMAIN thread',
               thread'[u].plain, thread'[w].plain, thread'[u].members = thread'[w].members,
               Cardinality(thread'[u].members) = 2, u # w
        PROVE  Pair(thread'[u].members) \in disturbed'
        BY <1>3, <1>4, <2>0, <2>1, <2>2 DEF OnePlain
  <2>3. ASSUME NEW g \in Desks, pc'[g] = "open thread", req'[g].plain,
               Cardinality(req'[g].all) = 2, Pair(req'[g].all) \notin disturbed'
        PROVE  \A u \in DOMAIN thread' :
                 ~(thread'[u].members = req'[g].all /\ thread'[u].plain)
    <3>1. g # h /\ pc[g] = "open thread" /\ req'[g] = req[g]
          BY <1>1, <1>6, <2>3
    <3>2. \A u \in DOMAIN thread : ~(thread[u].members = req[g].all /\ thread[u].plain)
          BY <2>0, <2>3, <3>1 DEF OnePlain, Direct
    <3>3. Pair(req[g].all) \in req[g].claims
          BY <3>1 DEF MessagesSound, TalkHolds
    <3>4. req[g].all # all
          BY <1>2, <2>0, <2>3, <3>1, <3>3 DEF Disciplined, Apart
    <3>. QED BY <1>3, <1>4, <3>1, <3>2, <3>4
  <2>. QED BY <2>2, <2>3 DEF OnePlain, Direct
<1>. QED BY <1>4, <1>5, <1>6, <1>7, <1>8, <1>9, <1>10, <1>11, <1>12 DEF MessagesSound

LEMMA MessagesStepSound ==
    ASSUME Disciplined, MessagesSound, NEW h \in Desks, MessagesStep(h)
    PROVE  MessagesSound'
<1>1. Moves(h, MessagesCalls)
      BY MessagesMoves
<1>2. CASE MessagesArrive(h)
      BY <1>1, <1>2, BeginThreadSound, BeginSendReadSound, ArchiveSound DEF MessagesArrive
<1>3. CASE MessagesResume(h)
      BY <1>1, <1>3, OpenThreadSound, InsertMessageSound, MarkUnreadSound,
         PullUnreadSound, AddReaderSound DEF MessagesResume
<1>. QED BY <1>2, <1>3 DEF MessagesStep

LEMMA MessagesAlways == Spec => [](Disciplined /\ MessagesSound)
<1>1. Init => Disciplined /\ MessagesSound
      BY DisciplineStarts, MessagesStart
<1>2. Disciplined /\ MessagesSound /\ [Next]_vars => (Disciplined /\ MessagesSound)'
      BY DisciplineKept, NextPasses, MessagesPassed, MessagesStepSound DEF NextIsTheirs
<1>. QED BY <1>1, <1>2, PTL DEF Spec

\* However the members of a conversation answer and read, each has it waiting
\* exactly when the newest message is one they have not read, and two people
\* have one plain conversation: with the exceptions UnreadIsUnseen names.
THEOREM BadgesTellTheTruth == Spec => []UnreadIsUnseen
<1>1. Disciplined /\ MessagesSound => UnreadIsUnseen
  <2>1. SUFFICES ASSUME Disciplined, MessagesSound, NEW t \in DOMAIN thread
                 PROVE  /\ Calm(Talk(t)) /\ messages[t] # <<>> =>
                             thread[t].unread = thread[t].members \ Newest(t)
                        /\ thread[t].plain /\ Cardinality(thread[t].members) = 2
                             /\ Calm(Pair(thread[t].members)) =>
                                  Direct(thread[t].members) = {t}
        BY DEF UnreadIsUnseen
  <2>2. ASSUME Calm(Talk(t)), messages[t] # <<>>
        PROVE  thread[t].unread = thread[t].members \ Newest(t)
    <3>1. Len(messages[t]) > 0
      <4>1. messages[t] \in Seq(SUBSET Members)
            BY <2>1 DEF MessagesSound, TalksTyped
      <4>. QED BY <2>2, <4>1, EmptySeq, LenProperties
    <3>2. \A h \in Desks : ~HalfWay(h, t)
          BY <2>1, <2>2 DEF MessagesSound, TalkHolds, HalfWay, Calm, MessagesCalls
    <3>. QED BY <2>1, <2>2, <3>1, <3>2 DEF MessagesSound, Awaited, Calm
  <2>3. ASSUME thread[t].plain, Cardinality(thread[t].members) = 2,
               Calm(Pair(thread[t].members))
        PROVE  Direct(thread[t].members) = {t}
        BY <2>1, <2>3 DEF MessagesSound, OnePlain, Direct, Calm
  <2>. QED BY <2>2, <2>3
<1>. QED BY <1>1, MessagesAlways, PTL

-----------------------------------------------------------------------------
(* Tracking.  Between the position it inserts and the sum it writes, a     *)
(* request owes the trip a leg; once it has told a stop, the stop as well. *)

Underway == {"previous", "insert", "stops", "add up"}
TripDoc  == [vehicle : Vehicles, active : BOOLEAN, distance : Int, points : Int,
             reached : SUBSET Stops]

TripsTyped ==
    /\ trip = [t \in DOMAIN trip |-> trip[t]] /\ DOMAIN trip \subseteq Trips
    /\ \A t \in DOMAIN trip : trip[t] \in TripDoc
    /\ positions \in [Trips -> SUBSET (Nat \X Nat)]
    /\ told \in [Trips -> [Stops -> Int]] /\ driven \in [Trips -> Int]
    /\ \A t \in Trips \ DOMAIN trip : driven[t] = 0 /\ \A s \in Stops : told[t][s] = 0

RunHolds(h) ==
    /\ pc[h] \in TrackingCalls =>
         /\ req[h].trip \in Trips /\ Run(req[h].trip) \in req[h].claims
         /\ (pc[h] = "start trip" <=> req[h].trip \notin DOMAIN trip)
    /\ pc[h] = "start trip" =>
         req[h].vehicle \in Vehicles /\ Vehicle(req[h].vehicle) \in req[h].claims
    /\ pc[h] \in Underway =>
         /\ DOMAIN req[h] = {"claims", "trip", "fix", "leg", "reached", "stop"}
         /\ req[h].fix \in Nat \X Nat /\ req[h].leg \in Int
         /\ req[h].reached \subseteq Stops /\ req[h].stop \subseteq Stops
    /\ pc[h] = "previous" => req[h].leg = 0
    /\ pc[h] = "end trip" => req[h].distance \in Int

\* What a request read of its trip is still so.
RunTrue(h) ==
    pc[h] \in TrackingCalls \ {"start trip"} /\ Run(req[h].trip) \notin disturbed =>
      /\ pc[h] \in {"previous", "insert", "stops"} => req[h].reached = trip[req[h].trip].reached
      /\ pc[h] = "end trip" => req[h].distance = trip[req[h].trip].distance

Owing(h, t)   == pc[h] \in {"stops", "add up"} /\ req[h].trip = t
Telling(h, t) == pc[h] = "add up" /\ req[h].trip = t

DistanceTrue(t) ==
    /\ (\A h \in Desks : ~Owing(h, t)) => trip[t].distance = driven[t]
    /\ \A h \in Desks : Owing(h, t) => trip[t].distance + req[h].leg = driven[t]

StopsTrue(t) ==
    /\ (\A h \in Desks : ~Telling(h, t)) =>
         \A s \in Stops : told[t][s] = IF s \in trip[t].reached THEN 1 ELSE 0
    /\ \A h \in Desks : Telling(h, t) =>
         \A s \in Stops : told[t][s] = IF s \in trip[t].reached \cup req[h].stop THEN 1 ELSE 0

TripTrue(t) == Run(t) \notin disturbed => DistanceTrue(t) /\ StopsTrue(t)

StartsApart == \A g, h \in Desks :
    g # h /\ pc[g] = "start trip" /\ pc[h] = "start trip" => req[g].trip # req[h].trip

OneTrip == \A v \in Vehicles : Vehicle(v) \notin disturbed =>
    /\ \A t, u \in Ongoing(v) : t = u
    /\ \A h \in Desks : pc[h] = "start trip" /\ req[h].vehicle = v => Ongoing(v) = {}

TripsSound ==
    /\ TripsTyped /\ StartsApart /\ OneTrip
    /\ \A t \in DOMAIN trip : TripTrue(t)
    /\ \A h \in Desks : RunHolds(h) /\ RunTrue(h)

-----------------------------------------------------------------------------
LEMMA TripsStart == ASSUME Init PROVE TripsSound
<1>1. /\ trip = [t \in {} |-> {}] /\ positions = [t \in Trips |-> {}]
      /\ told = [t \in Trips |-> [s \in Stops |-> 0]] /\ driven = [t \in Trips |-> 0]
      /\ pc = [h \in Desks |-> "idle"]
      BY DEF Init, TrackingInit, RequestsInit
<1>2. DOMAIN trip = {}
      BY <1>1
<1>3. TripsTyped
      BY <1>1, <1>2 DEF TripsTyped
<1>4. StartsApart /\ OneTrip /\ \A t \in DOMAIN trip : TripTrue(t)
      BY <1>1, <1>2 DEF StartsApart, OneTrip, Ongoing
<1>5. ASSUME NEW h \in Desks PROVE RunHolds(h) /\ RunTrue(h)
      BY <1>1 DEF RunHolds, RunTrue, TrackingCalls, Underway
<1>. QED BY <1>3, <1>4, <1>5 DEF TripsSound

LEMMA TripsPassed ==
    ASSUME Disciplined, TripsSound, Passes(TrackingCalls), UNCHANGED tracking
    PROVE  TripsSound'
<1>1. /\ trip' = trip /\ positions' = positions /\ told' = told /\ driven' = driven
      /\ disturbed \subseteq disturbed'
      BY DEF tracking, Passes
<1>2. ASSUME NEW h \in Desks, pc'[h] \in TrackingCalls
      PROVE  pc'[h] = pc[h] /\ req'[h] = req[h]
      BY <1>2 DEF Passes
<1>3. \A v : Ongoing(v)' = Ongoing(v)
      BY <1>1 DEF Ongoing
<1>4. TripsTyped' /\ StartsApart' /\ OneTrip'
      BY ZenonT(40), <1>1, <1>2, <1>3 DEF TripsSound, TripsTyped, StartsApart, OneTrip, TrackingCalls
<1>5. ASSUME NEW h \in Desks PROVE RunHolds(h)' /\ RunTrue(h)'
  <2>1. CASE pc'[h] \in TrackingCalls
        BY <1>1, <1>2, <2>1 DEF TripsSound, RunHolds, RunTrue
  <2>2. CASE pc'[h] \notin TrackingCalls
        BY <2>2 DEF RunHolds, RunTrue, TrackingCalls, Underway
  <2>. QED BY <2>1, <2>2
<1>6. ASSUME NEW t \in DOMAIN trip PROVE TripTrue(t)'
  <2>1. SUFFICES ASSUME Run(t) \notin disturbed' PROVE DistanceTrue(t)' /\ StopsTrue(t)'
        BY DEF TripTrue
  <2>2. ASSUME NEW h \in Desks, pc[h] \in {"stops", "add up"}, req[h].trip = t
        PROVE  pc'[h] = pc[h] /\ req'[h] = req[h]
    <3>1. pc[h] \in TrackingCalls /\ Run(t) \in req[h].claims
          BY <2>2 DEF TripsSound, RunHolds, TrackingCalls
    <3>2. pc'[h] = pc[h]
          BY <2>1, <3>1 DEF Passes
    <3>. QED BY <1>2, <3>1, <3>2
  <2>3. ASSUME NEW h \in Desks
        PROVE  /\ Owing(h, t)' <=> Owing(h, t)
               /\ Telling(h, t)' <=> Telling(h, t)
               /\ Owing(h, t) \/ Telling(h, t) => req'[h] = req[h]
        BY <1>2, <2>2 DEF Owing, Telling, TrackingCalls
  <2>4. DistanceTrue(t) /\ StopsTrue(t)
        BY <1>1, <2>1 DEF TripsSound, TripTrue
  <2>5. DistanceTrue(t)'
        BY <1>1, <2>3, <2>4 DEF DistanceTrue
  <2>6. StopsTrue(t)'
        BY <1>1, <2>3, <2>4 DEF StopsTrue
  <2>. QED BY <2>5, <2>6
<1>. QED BY <1>1, <1>4, <1>5, <1>6 DEF TripsSound

-----------------------------------------------------------------------------
\* The requests a step does not move.
LEMMA OtherRuns ==
    ASSUME Disciplined, TripsSound, NEW h \in Desks, Moves(h, TrackingCalls),
           DOMAIN trip \subseteq DOMAIN trip', NEW g \in Desks, g # h,
           pc[g] = "start trip" => req[g].trip \notin DOMAIN trip'
    PROVE  pc'[g] = pc[g] /\ req'[g] = req[g] /\ RunHolds(g)'
<1>1. pc'[g] = pc[g] /\ req'[g] = req[g]
      BY DEF Moves, Disciplined
<1>. QED BY <1>1 DEF TripsSound, RunHolds

\* The trips a step is not about.
LEMMA TrueElsewhere ==
    ASSUME Disciplined, TripsSound, NEW h \in Desks, Moves(h, TrackingCalls),
           NEW u \in DOMAIN trip, trip'[u].reached = trip[u].reached,
           trip'[u].distance = trip[u].distance, told'[u] = told[u], driven'[u] = driven[u],
           ~Owing(h, u), ~Owing(h, u)'
    PROVE  TripTrue(u)'
<1>1. \A g \in Desks \ {h} : pc'[g] = pc[g] /\ req'[g] = req[g]
      BY DEF Moves, Disciplined
<1>2. \A g \in Desks :
        /\ Owing(g, u)' <=> Owing(g, u)
        /\ Telling(g, u)' <=> Telling(g, u)
        /\ Owing(g, u) \/ Telling(g, u) => req'[g] = req[g]
      BY <1>1 DEF Owing, Telling
<1>3. TripTrue(u) /\ disturbed \subseteq disturbed'
      BY DEF TripsSound, Moves
<1>4. SUFFICES ASSUME Run(u) \notin disturbed' PROVE DistanceTrue(u)' /\ StopsTrue(u)'
      BY DEF TripTrue
<1>5. DistanceTrue(u) /\ StopsTrue(u)
      BY <1>3, <1>4 DEF TripTrue
<1>6. DistanceTrue(u)'
      BY <1>2, <1>5 DEF DistanceTrue
<1>7. StopsTrue(u)'
      BY <1>2, <1>5 DEF StopsTrue
<1>. QED BY <1>6, <1>7

\* Two requests about one trip have disturbed it.
LEMMA RunsApart ==
    ASSUME Disciplined, TripsSound, NEW g \in Desks, NEW h \in Desks, g # h,
           pc[g] \in TrackingCalls, pc[h] \in TrackingCalls, req[g].trip = req[h].trip
    PROVE  Run(req[h].trip) \in disturbed
BY DEF TripsSound, RunHolds, Disciplined, Apart

\* A request that arrives.
LEMMA TripsUnwritten ==
    ASSUME Disciplined, TripsSound, NEW h \in Desks, Moves(h, TrackingCalls),
           UNCHANGED tracking, pc[h] = "idle", RunHolds(h)', RunTrue(h)',
           pc'[h] \notin {"stops", "add up"},
           pc'[h] = "start trip" =>
             /\ \A g \in Desks \ {h} : pc[g] = "start trip" => req[g].trip # req'[h].trip
             /\ Ongoing(req'[h].vehicle) = {}
    PROVE  TripsSound'
<1>1. /\ trip' = trip /\ positions' = positions /\ told' = told /\ driven' = driven
      /\ disturbed \subseteq disturbed'
      BY DEF tracking, Moves
<1>2. ASSUME NEW g \in Desks, g # h
      PROVE  pc'[g] = pc[g] /\ req'[g] = req[g] /\ RunHolds(g)'
  <2>1. pc[g] = "start trip" => req[g].trip \notin DOMAIN trip'
        BY <1>1 DEF TripsSound, RunHolds, TrackingCalls
  <2>. QED BY <1>1, <1>2, <2>1, OtherRuns
<1>3. TripsTyped'
      BY <1>1 DEF TripsSound, TripsTyped
<1>4. StartsApart'
      BY ZenonT(40), <1>2 DEF TripsSound, StartsApart
<1>5. ASSUME NEW t \in DOMAIN trip PROVE TripTrue(t)'
      BY <1>1, <1>5, TrueElsewhere DEF Owing
<1>6. OneTrip'
  <2>1. \A v : Ongoing(v)' = Ongoing(v)
        BY <1>1 DEF Ongoing
  <2>. QED BY <1>1, <1>2, <2>1 DEF TripsSound, OneTrip
<1>7. ASSUME NEW g \in Desks, g # h PROVE RunTrue(g)'
      BY <1>1, <1>2, <1>7 DEF TripsSound, RunTrue
<1>. QED BY <1>1, <1>2, <1>3, <1>4, <1>5, <1>6, <1>7 DEF TripsSound

\* A step of a request about trip t that writes only there.
LEMMA TripsWritten ==
    ASSUME Disciplined, TripsSound, NEW h \in Desks, Moves(h, TrackingCalls),
           pc[h] \in TrackingCalls \ {"start trip"}, pc'[h] # "start trip",
           NEW t, t = req[h].trip, pc'[h] # "idle" => req'[h].trip = t,
           DOMAIN trip' = DOMAIN trip,
           \A u \in DOMAIN trip : /\ trip'[u].vehicle = trip[u].vehicle
                                  /\ trip'[u].active => trip[u].active,
           \A u \in DOMAIN trip \ {t} :
             trip'[u] = trip[u] /\ told'[u] = told[u] /\ driven'[u] = driven[u],
           TripsTyped', TripTrue(t)', RunHolds(h)', RunTrue(h)'
    PROVE  TripsSound'
<1>1. disturbed \subseteq disturbed' /\ t \in DOMAIN trip
      BY DEF Moves, TripsSound, RunHolds
<1>2. ASSUME NEW g \in Desks, g # h
      PROVE  pc'[g] = pc[g] /\ req'[g] = req[g] /\ RunHolds(g)'
  <2>1. pc[g] = "start trip" => req[g].trip \notin DOMAIN trip'
        BY DEF TripsSound, RunHolds, TrackingCalls
  <2>. QED BY <1>2, <2>1, OtherRuns
<1>3. StartsApart'
  <2>1. SUFFICES ASSUME NEW g \in Desks, NEW k \in Desks, g # k,
                        pc'[g] = "start trip", pc'[k] = "start trip"
                 PROVE  req'[g].trip # req'[k].trip
        BY DEF StartsApart
  <2>2. /\ pc[g] = "start trip" /\ req[g] = req'[g]
        /\ pc[k] = "start trip" /\ req[k] = req'[k]
        BY <2>1 DEF Moves, Disciplined
  <2>3. g # k
        BY <2>1
  <2>4. req[g].trip # req[k].trip
        BY <2>2, <2>3 DEF TripsSound, StartsApart
  <2>. QED BY <2>2, <2>4
<1>4. ASSUME NEW u \in DOMAIN trip, u # t PROVE TripTrue(u)'
      BY <1>4, TrueElsewhere DEF Owing
<1>5. OneTrip'
  <2>1. \A v : Ongoing(v)' \subseteq Ongoing(v)
        BY DEF Ongoing
  <2>2. \A g \in Desks : pc'[g] = "start trip" =>
          pc[g] = "start trip" /\ req'[g] = req[g]
        BY <1>2
  <2>3. ASSUME NEW v \in Vehicles, Vehicle(v) \notin disturbed'
        PROVE  /\ \A r, u \in Ongoing(v)' : r = u
               /\ \A g \in Desks : pc'[g] = "start trip" /\ req'[g].vehicle = v =>
                    Ongoing(v)' = {}
    <3>1. /\ \A r, u \in Ongoing(v) : r = u
          /\ \A g \in Desks : pc[g] = "start trip" /\ req[g].vehicle = v =>
               Ongoing(v) = {}
          BY <1>1, <2>3 DEF TripsSound, OneTrip
    <3>. QED BY <2>1, <2>2, <3>1
  <2>. QED BY <2>3 DEF OneTrip
<1>6. ASSUME NEW g \in Desks, g # h PROVE RunTrue(g)'
  <2>1. pc'[g] = pc[g] /\ req'[g] = req[g] /\ RunTrue(g)
        BY <1>2, <1>6 DEF TripsSound
  <2>2. CASE pc[g] \in TrackingCalls \ {"start trip"} /\ req[g].trip = t
    <3>1. Run(t) \in disturbed'
          BY <1>1, <1>6, <2>2, RunsApart
    <3>. QED BY <2>1, <2>2, <3>1 DEF RunTrue
  <2>3. CASE pc[g] \in TrackingCalls \ {"start trip"} /\ req[g].trip # t
    <3>1. req[g].trip \in DOMAIN trip
          BY <2>3 DEF TripsSound, RunHolds
    <3>2. trip'[req[g].trip] = trip[req[g].trip]
          BY <2>3, <3>1
    <3>. QED BY ZenonT(40), <1>1, <2>1, <2>3, <3>2 DEF RunTrue
  <2>4. CASE pc[g] \notin TrackingCalls \ {"start trip"}
        BY <2>1, <2>4 DEF RunTrue
  <2>. QED BY <2>2, <2>3, <2>4
<1>. QED BY <1>1, <1>2, <1>3, <1>4, <1>5, <1>6 DEF TripsSound

LEMMA TripsBeginSound ==
    ASSUME Disciplined, TripsSound, NEW h \in Desks, Moves(h, TrackingCalls),
           NEW t \in Trips, \/ \E v \in Vehicles : BeginTrip(h, v, t)
                            \/ \E fix \in Fixes : BeginPosition(h, t, fix)
                            \/ BeginEnd(h, t)
    PROVE  TripsSound'
<1>1. ASSUME NEW v \in Vehicles, BeginTrip(h, v, t) PROVE TripsSound'
  <2>. DEFINE r == [claims |-> {Vehicle(v), Run(t)}, vehicle |-> v, trip |-> t]
  <2>1. /\ pc[h] = "idle" /\ pc'[h] = "start trip" /\ req'[h] = r /\ UNCHANGED tracking
        /\ t \notin DOMAIN trip /\ New(h, Run(t)) /\ Ongoing(v) = {}
        BY <1>1 DEF BeginTrip, Begin, Asked, Open, Idle, Disciplined
  <2>2. r.vehicle = v /\ r.trip = t /\ Vehicle(v) \in r.claims /\ Run(t) \in r.claims
        OBVIOUS
  <2>. HIDE DEF r
  <2>3. RunHolds(h)' /\ RunTrue(h)'
        BY <2>1, <2>2 DEF RunHolds, RunTrue, TrackingCalls, Underway, tracking
  <2>4. \A g \in Desks \ {h} : pc[g] = "start trip" => req[g].trip # t
        BY ZenonT(40), <2>1 DEF New, HeldByOthers, TripsSound, RunHolds, TrackingCalls
  <2>. QED BY <2>1, <2>2, <2>3, <2>4, TripsUnwritten
<1>2. ASSUME NEW fix \in Fixes, BeginPosition(h, t, fix) PROVE TripsSound'
  <2>. DEFINE r == [claims |-> {Run(t)}, trip |-> t, fix |-> fix, leg |-> 0,
                    reached |-> trip[t].reached, stop |-> {}]
  <2>1. /\ pc[h] = "idle" /\ pc'[h] = "previous" /\ req'[h] = r /\ UNCHANGED tracking
        /\ t \in DOMAIN trip
        BY <1>2 DEF BeginPosition, Begin, Asked, Open, Idle, Disciplined
  <2>2. fix \in Nat \X Nat /\ trip[t].reached \subseteq Stops
        BY <2>1, TrackingAssumption DEF TripsSound, TripsTyped, TripDoc
  <2>3. /\ DOMAIN r = {"claims", "trip", "fix", "leg", "reached", "stop"}
        /\ r.trip = t /\ r.fix = fix /\ r.leg = 0 /\ r.reached = trip[t].reached
        /\ r.stop = {} /\ Run(t) \in r.claims
        OBVIOUS
  <2>. HIDE DEF r
  <2>4. RunHolds(h)'
    <3>1. r.trip \in DOMAIN trip' /\ r.trip \in Trips /\ Run(r.trip) \in r.claims
          BY <2>1, <2>3 DEF tracking
    <3>2. r.fix \in Nat \X Nat /\ r.leg \in Int /\ r.reached \subseteq Stops
          /\ r.stop \subseteq Stops
          BY <2>2, <2>3
    <3>. QED BY <2>1, <2>3, <3>1, <3>2 DEF RunHolds, TrackingCalls, Underway
  <2>5. RunTrue(h)'
        BY <2>1, <2>3 DEF RunTrue, tracking
  <2>. QED BY <2>1, <2>4, <2>5, TripsUnwritten
<1>3. CASE BeginEnd(h, t)
  <2>. DEFINE r == [claims |-> {Run(t)}, trip |-> t, distance |-> trip[t].distance]
  <2>1. /\ pc[h] = "idle" /\ pc'[h] = "end trip" /\ req'[h] = r /\ UNCHANGED tracking
        /\ t \in DOMAIN trip
        BY <1>3 DEF BeginEnd, Begin, Asked, Open, Idle, Disciplined
  <2>2. trip[t].distance \in Int
        BY <2>1 DEF TripsSound, TripsTyped, TripDoc
  <2>3. r.trip = t /\ r.distance = trip[t].distance /\ Run(t) \in r.claims
        OBVIOUS
  <2>. HIDE DEF r
  <2>4. RunHolds(h)' /\ RunTrue(h)'
        BY <2>1, <2>2, <2>3 DEF RunHolds, RunTrue, TrackingCalls, Underway, tracking
  <2>. QED BY <2>1, <2>4, TripsUnwritten
<1>. QED BY <1>1, <1>2, <1>3

LEMMA StartTripSound ==
    ASSUME Disciplined, TripsSound, NEW h \in Desks, Moves(h, TrackingCalls), StartTrip(h)
    PROVE  TripsSound'
<1>0. PICK t, v : t = req[h].trip /\ v = req[h].vehicle
      OBVIOUS
<1>. DEFINE doc == [vehicle |-> v, active |-> TRUE, distance |-> 0, points |-> 0,
                    reached |-> {}]
<1>1. /\ pc[h] = "start trip" /\ pc'[h] = "idle" /\ trip' = With(trip, t, doc)
      /\ UNCHANGED <<positions, told, driven>>
      BY <1>0 DEF StartTrip, Finish, Leave, Disciplined
<1>2. /\ t \in Trips \ DOMAIN trip /\ v \in Vehicles /\ Vehicle(v) \in req[h].claims
      BY <1>0, <1>1 DEF TripsSound, RunHolds, TrackingCalls
<1>3. /\ doc \in TripDoc /\ doc.vehicle = v /\ doc.distance = 0 /\ doc.reached = {}
      BY <1>2 DEF TripDoc
<1>. HIDE DEF doc
<1>4. /\ DOMAIN trip' = DOMAIN trip \cup {t} /\ trip'[t] = doc
      /\ \A u \in DOMAIN trip : trip'[u] = trip[u]
      /\ trip' = [u \in DOMAIN trip' |-> trip'[u]]
      BY <1>1, <1>2 DEF With
<1>5. TripsTyped'
      BY ZenonT(40), <1>1, <1>2, <1>3, <1>4 DEF TripsSound, TripsTyped
<1>6. ASSUME NEW g \in Desks, g # h
      PROVE  pc'[g] = pc[g] /\ req'[g] = req[g] /\ RunHolds(g)'
  <2>1. pc[g] = "start trip" => req[g].trip # t
        BY <1>0, <1>1, <1>6 DEF TripsSound, StartsApart
  <2>2. pc[g] = "start trip" => req[g].trip \notin DOMAIN trip'
        BY <1>4, <2>1 DEF TripsSound, RunHolds, TrackingCalls
  <2>. QED BY <1>4, <1>6, <2>2, OtherRuns
<1>7. StartsApart'
  <2>1. SUFFICES ASSUME NEW g \in Desks, NEW k \in Desks, g # k,
                        pc'[g] = "start trip", pc'[k] = "start trip"
                 PROVE  req'[g].trip # req'[k].trip
        BY DEF StartsApart
  <2>2. /\ pc[g] = "start trip" /\ req[g] = req'[g]
        /\ pc[k] = "start trip" /\ req[k] = req'[k]
        BY <1>1, <2>1 DEF Moves, Disciplined
  <2>3. g # k
        BY <2>1
  <2>4. req[g].trip # req[k].trip
        BY <2>2, <2>3 DEF TripsSound, StartsApart
  <2>. QED BY <2>2, <2>4
<1>8. RunHolds(h)' /\ RunTrue(h)'
      BY <1>1 DEF RunHolds, RunTrue, TrackingCalls, Underway
<1>9. ASSUME NEW u \in DOMAIN trip PROVE TripTrue(u)'
  <2>1. ~Owing(h, u) /\ ~Owing(h, u)'
        BY <1>1 DEF Owing
  <2>2. trip'[u] = trip[u] /\ told'[u] = told[u] /\ driven'[u] = driven[u]
        BY <1>1, <1>4
  <2>. QED BY <2>1, <2>2, TrueElsewhere
<1>10. TripTrue(t)'
  <2>1. ASSUME NEW g \in Desks PROVE ~Owing(g, t)' /\ ~Telling(g, t)'
    <3>1. pc[g] \in {"stops", "add up"} => req[g].trip # t
          BY <1>2 DEF TripsSound, RunHolds, TrackingCalls
    <3>2. pc'[h] = "idle" /\ (g # h => pc'[g] = pc[g] /\ req'[g] = req[g])
          BY <1>1, <1>6
    <3>. QED BY <3>1, <3>2 DEF Owing, Telling
  <2>2. driven'[t] = 0 /\ \A s \in Stops : told'[t][s] = 0
        BY <1>1, <1>2 DEF TripsSound, TripsTyped
  <2>3. DistanceTrue(t)'
        BY <1>3, <1>4, <2>1, <2>2 DEF DistanceTrue
  <2>4. StopsTrue(t)'
        BY <1>3, <1>4, <2>1, <2>2 DEF StopsTrue
  <2>. QED BY <2>3, <2>4 DEF TripTrue
<1>11. OneTrip'
  <2>0. OneTrip /\ disturbed \subseteq disturbed'
        BY DEF TripsSound, Moves
  <2>1. \A w : Ongoing(w)' \subseteq Ongoing(w) \cup (IF w = v THEN {t} ELSE {})
        BY <1>3, <1>4 DEF Ongoing
  <2>2. \A g \in Desks : pc'[g] = "start trip" =>
          g # h /\ pc[g] = "start trip" /\ req'[g] = req[g]
        BY <1>1, <1>6
  <2>3. ASSUME NEW w \in Vehicles, Vehicle(w) \notin disturbed', w # v
        PROVE  /\ \A r, u \in Ongoing(w)' : r = u
               /\ \A g \in Desks : pc'[g] = "start trip" /\ req'[g].vehicle = w =>
                    Ongoing(w)' = {}
    <3>1. Ongoing(w)' \subseteq Ongoing(w) /\ Vehicle(w) \notin disturbed
          BY <2>0, <2>1, <2>3
    <3>. QED BY <2>0, <2>2, <3>1 DEF OneTrip
  <2>4. ASSUME Vehicle(v) \notin disturbed'
        PROVE  /\ \A r, u \in Ongoing(v)' : r = u
               /\ \A g \in Desks : pc'[g] = "start trip" => req'[g].vehicle # v
    <3>1. Ongoing(v) = {}
          BY <1>0, <1>1, <1>2, <2>0, <2>4 DEF OneTrip
    <3>2. ASSUME NEW g \in Desks, pc'[g] = "start trip" PROVE req'[g].vehicle # v
      <4>1. g # h /\ pc[g] = "start trip" /\ req'[g] = req[g]
            BY <2>2, <3>2
      <4>2. Vehicle(req[g].vehicle) \in req[g].claims
            BY <4>1 DEF TripsSound, RunHolds
      <4>3. req[g].vehicle # v
            BY <1>2, <2>0, <2>4, <4>1, <4>2 DEF Disciplined, Apart
      <4>. QED BY <4>1, <4>3
    <3>. QED BY <2>1, <3>1, <3>2
  <2>. QED BY <2>3, <2>4 DEF OneTrip
<1>12. ASSUME NEW g \in Desks, g # h PROVE RunTrue(g)'
  <2>1. pc'[g] = pc[g] /\ req'[g] = req[g] /\ RunTrue(g) /\ disturbed \subseteq disturbed'
        BY <1>6, <1>12 DEF TripsSound, Moves
  <2>2. CASE pc[g] \in TrackingCalls \ {"start trip"}
    <3>1. trip'[req[g].trip] = trip[req[g].trip]
          BY <1>4, <2>2 DEF TripsSound, RunHolds
    <3>. QED BY <2>1, <2>2, <3>1 DEF RunTrue
  <2>3. CASE pc[g] \notin TrackingCalls \ {"start trip"}
        BY <2>1, <2>3 DEF RunTrue
  <2>. QED BY <2>2, <2>3
<1>. QED BY <1>4, <1>5, <1>6, <1>7, <1>8, <1>9, <1>10, <1>11, <1>12 DEF TripsSound

\* A position, from the previous one to the sum.
LEMMA ReadPreviousSound ==
    ASSUME Disciplined, TripsSound, NEW h \in Desks, Moves(h, TrackingCalls),
           ReadPrevious(h)
    PROVE  TripsSound'
<1>0. PICK t : t = req[h].trip
      OBVIOUS
<1>1. pc[h] = "previous" /\ UNCHANGED tracking
      BY DEF ReadPrevious
<1>2. /\ DOMAIN req[h] = {"claims", "trip", "fix", "leg", "reached", "stop"}
      /\ t \in DOMAIN trip /\ t \in Trips /\ Run(t) \in req[h].claims
      /\ req[h].fix \in Nat \X Nat /\ req[h].leg = 0
      /\ req[h].reached \subseteq Stops /\ req[h].stop \subseteq Stops
      BY <1>0, <1>1 DEF TripsSound, RunHolds, TrackingCalls, Underway
<1>3. PICK r : /\ pc'[h] = "insert" /\ req'[h] = r
               /\ DOMAIN r = DOMAIN req[h] /\ r.leg \in Int /\ r.claims = req[h].claims
               /\ r.trip = t /\ r.fix = req[h].fix /\ r.reached = req[h].reached
               /\ r.stop = req[h].stop
  <2>1. CASE positions[t] = {}
        BY <1>0, <1>2, <2>1 DEF ReadPrevious, Goto, Disciplined
  <2>2. CASE positions[t] # {}
    <3>1. PICK p \in Latest(positions[t]) :
                 Carry(h, "insert", [req[h] EXCEPT !.leg = Leg(p, req[h].fix)])
          BY <1>0, <2>2 DEF ReadPrevious
    <3>2. p \in Nat \X Nat
          BY <1>2 DEF Latest, TripsSound, TripsTyped
    <3>. DEFINE l == Leg(p, req[h].fix)
    <3>3. l \in Int
          BY <1>2, <3>2, TrackingAssumption DEF Leg, Distance
    <3>4. pc'[h] = "insert" /\ req'[h] = [req[h] EXCEPT !.leg = l]
          BY <3>1 DEF Carry, Disciplined
    <3>. HIDE DEF l
    <3>. QED BY <1>0, <1>2, <3>3, <3>4
  <2>. QED BY <2>1, <2>2
<1>4. trip' = trip
      BY <1>1 DEF tracking
<1>5. RunHolds(h)'
      BY <1>2, <1>3, <1>4 DEF RunHolds, TrackingCalls, Underway
<1>6. RunTrue(h)'
      BY ZenonT(40), <1>0, <1>1, <1>3, <1>4 DEF TripsSound, RunTrue, TrackingCalls, Moves
<1>7. TripTrue(t)'
      BY <1>1, <1>2, <1>3, TrueElsewhere DEF tracking, Owing
<1>8. TripsTyped'
      BY <1>1 DEF TripsSound, TripsTyped, tracking
<1>. QED BY <1>0, <1>1, <1>3, <1>5, <1>6, <1>7, <1>8, TripsWritten
         DEF tracking, TrackingCalls

LEMMA InsertPositionSound ==
    ASSUME Disciplined, TripsSound, NEW h \in Desks, Moves(h, TrackingCalls),
           InsertPosition(h)
    PROVE  TripsSound'
<1>0. PICK t : t = req[h].trip
      OBVIOUS
<1>1. /\ pc[h] = "insert" /\ pc'[h] = "stops" /\ req' = req /\ trip' = trip /\ told' = told
      /\ positions' = [positions EXCEPT ![t] = positions[t] \cup {req[h].fix}]
      /\ driven' = [driven EXCEPT ![t] = driven[t] + req[h].leg]
      BY <1>0 DEF InsertPosition, Goto, Disciplined
<1>2. /\ RunHolds(h) /\ t \in DOMAIN trip /\ t \in Trips
      /\ req[h].fix \in Nat \X Nat /\ req[h].leg \in Int
      BY <1>0, <1>1 DEF TripsSound, RunHolds, TrackingCalls, Underway
<1>3. /\ driven' \in [Trips -> Int] /\ driven'[t] = driven[t] + req[h].leg
      /\ \A u \in Trips \ {t} : driven'[u] = driven[u]
      BY <1>1, <1>2 DEF TripsSound, TripsTyped
<1>4. positions' \in [Trips -> SUBSET (Nat \X Nat)]
  <2>1. positions \in [Trips -> SUBSET (Nat \X Nat)]
        BY DEF TripsSound, TripsTyped
  <2>2. positions[t] \cup {req[h].fix} \in SUBSET (Nat \X Nat)
        BY <1>2, <2>1
  <2>. QED BY <1>1, <2>1, <2>2
<1>5. TripsTyped'
      BY <1>1, <1>2, <1>3, <1>4 DEF TripsSound, TripsTyped
<1>6. RunHolds(h)'
      BY <1>1, <1>2 DEF RunHolds, TrackingCalls, Underway
<1>7. RunTrue(h)'
      BY <1>1 DEF TripsSound, RunTrue, TrackingCalls, Moves
<1>8. TripTrue(t)'
  <2>1. SUFFICES ASSUME Run(t) \notin disturbed' PROVE DistanceTrue(t)' /\ StopsTrue(t)'
        BY DEF TripTrue
  <2>2. DistanceTrue(t) /\ StopsTrue(t) /\ Run(t) \notin disturbed
        BY <1>2, <2>1 DEF TripsSound, TripTrue, Moves
  <2>3. ASSUME NEW g \in Desks, g # h PROVE ~Owing(g, t) /\ ~Telling(g, t)
                                            /\ ~Owing(g, t)' /\ ~Telling(g, t)'
    <3>1. pc'[g] = pc[g] /\ req'[g] = req[g]
          BY <2>3 DEF Moves, Disciplined
    <3>. QED BY <1>0, <1>1, <2>2, <2>3, <3>1, RunsApart DEF Owing, Telling, TrackingCalls
  <2>4. ~Owing(h, t) /\ ~Telling(h, t) /\ Owing(h, t)' /\ ~Telling(h, t)'
        BY <1>0, <1>1 DEF Owing, Telling
  <2>5. trip[t].distance = driven[t]
        BY <2>2, <2>3, <2>4 DEF DistanceTrue
  <2>6. DistanceTrue(t)'
        BY <1>1, <1>3, <2>3, <2>4, <2>5 DEF DistanceTrue
  <2>7. StopsTrue(t)'
        BY <1>1, <2>2, <2>3, <2>4 DEF StopsTrue
  <2>. QED BY <2>6, <2>7
<1>9. \A u \in DOMAIN trip \ {t} : driven'[u] = driven[u]
      BY <1>3 DEF TripsSound, TripsTyped
<1>. QED BY <1>0, <1>1, <1>5, <1>6, <1>7, <1>8, <1>9, TripsWritten DEF TrackingCalls

LEMMA CheckStopsSound ==
    ASSUME Disciplined, TripsSound, NEW h \in Desks, Moves(h, TrackingCalls),
           CheckStops(h)
    PROVE  TripsSound'
<1>0. PICK t : t = req[h].trip
      OBVIOUS
<1>. DEFINE at == FreshlyAt(req[h].fix[1], req[h].reached)
            r  == [req[h] EXCEPT !.stop = at]
<1>1. /\ pc[h] = "stops" /\ pc'[h] = "add up" /\ req'[h] = r
      /\ trip' = trip /\ positions' = positions /\ driven' = driven
      /\ told' = [told EXCEPT ![t] = [s \in Stops |->
                    told[t][s] + (IF s \in at THEN 1 ELSE 0)]]
      BY <1>0 DEF CheckStops, Carry, Disciplined
<1>2. /\ DOMAIN req[h] = {"claims", "trip", "fix", "leg", "reached", "stop"}
      /\ t \in DOMAIN trip /\ t \in Trips /\ Run(t) \in req[h].claims
      /\ req[h].fix \in Nat \X Nat /\ req[h].leg \in Int /\ req[h].reached \subseteq Stops
      BY <1>0, <1>1 DEF TripsSound, RunHolds, TrackingCalls, Underway
<1>3. at \subseteq Stops /\ at \cap req[h].reached = {}
      BY DEF FreshlyAt
<1>4. /\ DOMAIN r = DOMAIN req[h] /\ r.stop = at /\ r.claims = req[h].claims /\ r.trip = t
      /\ r.fix = req[h].fix /\ r.leg = req[h].leg /\ r.reached = req[h].reached
      BY <1>0, <1>2
<1>. HIDE DEF at, r
<1>5. PICK new : /\ new \subseteq Stops /\ new \cap req[h].reached = {} /\ req'[h].stop = new
                 /\ told' = [told EXCEPT ![t] = [s \in Stops |->
                               told[t][s] + (IF s \in new THEN 1 ELSE 0)]]
      BY <1>1, <1>3, <1>4
<1>6. /\ told' \in [Trips -> [Stops -> Int]]
      /\ \A s \in Stops : told'[t][s] = told[t][s] + (IF s \in new THEN 1 ELSE 0)
      /\ \A s \in Stops : told[t][s] \in Int
      /\ \A u \in Trips \ {t} : told'[u] = told[u]
      BY <1>2, <1>5 DEF TripsSound, TripsTyped
<1>7. TripsTyped'
  <2>1. TripsTyped /\ told' \in [Trips -> [Stops -> Int]]
        BY <1>6 DEF TripsSound
  <2>2. trip' = trip /\ positions' = positions /\ driven' = driven
        BY <1>1
  <2>3. ASSUME NEW u \in Trips \ DOMAIN trip
        PROVE  driven[u] = 0 /\ \A s \in Stops : told'[u][s] = 0
    <3>1. told'[u] = told[u]
          BY <1>2, <1>6, <2>3
    <3>. QED BY <2>1, <3>1 DEF TripsTyped
  <2>. QED BY <2>1, <2>2, <2>3 DEF TripsTyped
<1>8. RunHolds(h)'
      BY <1>1, <1>2, <1>3, <1>4 DEF RunHolds, TrackingCalls, Underway
<1>9. RunTrue(h)'
      BY <1>1 DEF RunTrue
<1>10. TripTrue(t)'
  <2>1. SUFFICES ASSUME Run(t) \notin disturbed' PROVE DistanceTrue(t)' /\ StopsTrue(t)'
        BY DEF TripTrue
  <2>2. DistanceTrue(t) /\ StopsTrue(t) /\ Run(t) \notin disturbed
        BY <1>2, <2>1 DEF TripsSound, TripTrue, Moves
  <2>3. ASSUME NEW g \in Desks, g # h PROVE ~Owing(g, t)' /\ ~Telling(g, t)'
                                            /\ ~Owing(g, t) /\ ~Telling(g, t)
    <3>1. pc'[g] = pc[g] /\ req'[g] = req[g]
          BY <2>3 DEF Moves, Disciplined
    <3>. QED BY <1>0, <1>1, <2>2, <2>3, <3>1, RunsApart DEF Owing, Telling, TrackingCalls
  <2>4. Owing(h, t) /\ ~Telling(h, t) /\ req'[h].leg = req[h].leg
        BY <1>0, <1>1, <1>4 DEF Owing, Telling
  <2>5. req[h].reached = trip[t].reached
        BY <1>0, <1>1, <2>2 DEF TripsSound, RunTrue, TrackingCalls
  <2>6. \A s \in Stops : told[t][s] = IF s \in trip[t].reached THEN 1 ELSE 0
        BY <2>2, <2>3, <2>4 DEF StopsTrue
  <2>7. \A s \in Stops : told'[t][s] = IF s \in trip[t].reached \cup new THEN 1 ELSE 0
        BY <1>5, <1>6, <2>5, <2>6
  <2>8. DistanceTrue(t)'
    <3>1. Owing(h, t)'
          BY <1>1, <1>4 DEF Owing
    <3>2. trip[t].distance + req[h].leg = driven[t]
          BY <2>2, <2>4 DEF DistanceTrue
    <3>. QED BY <1>1, <2>3, <2>4, <3>1, <3>2 DEF DistanceTrue
  <2>9. StopsTrue(t)'
    <3>1. Telling(h, t)'
          BY <1>1, <1>4 DEF Telling
    <3>. QED BY <1>1, <1>5, <2>3, <2>7, <3>1 DEF StopsTrue
  <2>. QED BY <2>8, <2>9
<1>11. \A u \in DOMAIN trip \ {t} : told'[u] = told[u]
       BY <1>6 DEF TripsSound, TripsTyped
<1>. QED BY <1>0, <1>1, <1>4, <1>7, <1>8, <1>9, <1>10, <1>11, TripsWritten DEF TrackingCalls

LEMMA AddUpSound ==
    ASSUME Disciplined, TripsSound, NEW h \in Desks, Moves(h, TrackingCalls), AddUp(h)
    PROVE  TripsSound'
<1>0. PICK t, l, at : t = req[h].trip /\ l = req[h].leg /\ at = req[h].stop
      OBVIOUS
<1>1. /\ pc[h] = "add up" /\ pc'[h] = "idle" /\ UNCHANGED <<positions, told, driven>>
      /\ trip' = [trip EXCEPT ![t].distance = trip[t].distance + l,
                              ![t].points = trip[t].points + 1,
                              ![t].reached = trip[t].reached \cup at]
      BY <1>0 DEF AddUp, Finish, Leave, Disciplined
<1>2. t \in DOMAIN trip /\ t \in Trips /\ l \in Int /\ at \subseteq Stops
      BY <1>0, <1>1 DEF TripsSound, RunHolds, TrackingCalls, Underway
<1>3. trip[t] \in TripDoc /\ DOMAIN trip' = DOMAIN trip
      /\ \A u \in DOMAIN trip \ {t} : trip'[u] = trip[u]
      BY <1>1, <1>2 DEF TripsSound, TripsTyped
<1>4. /\ trip'[t] = [trip[t] EXCEPT !.distance = trip[t].distance + l,
                                    !.points = trip[t].points + 1,
                                    !.reached = trip[t].reached \cup at]
      BY <1>1, <1>2
<1>5. /\ trip'[t] \in TripDoc /\ trip'[t].vehicle = trip[t].vehicle
      /\ trip'[t].active = trip[t].active /\ trip'[t].distance = trip[t].distance + l
      /\ trip'[t].reached = trip[t].reached \cup at
  <2>. DEFINE d == trip[t].distance + l
              n == trip[t].points + 1
              z == trip[t].reached \cup at
  <2>1. d \in Int /\ n \in Int /\ z \in SUBSET Stops
        BY <1>2, <1>3 DEF TripDoc
  <2>2. trip'[t] = [trip[t] EXCEPT !.distance = d, !.points = n, !.reached = z]
        BY <1>4
  <2>. HIDE DEF d, n, z
  <2>3. /\ trip'[t] \in TripDoc /\ trip'[t].vehicle = trip[t].vehicle
        /\ trip'[t].active = trip[t].active /\ trip'[t].distance = d
        /\ trip'[t].reached = z
        BY <1>3, <2>1, <2>2 DEF TripDoc
  <2>. QED BY <2>3 DEF d, z
<1>6. TripsTyped'
  <2>1. TripsTyped
        BY DEF TripsSound
  <2>2. DOMAIN trip' \subseteq Trips
        BY <1>3, <2>1 DEF TripsTyped
  <2>3. \A u \in DOMAIN trip' : trip'[u] \in TripDoc
        BY <1>3, <1>5, <2>1 DEF TripsTyped
  <2>4. trip' = [u \in DOMAIN trip' |-> trip'[u]]
        BY <1>1
  <2>. QED BY ZenonT(40), <1>1, <1>3, <2>1, <2>2, <2>3, <2>4 DEF TripsTyped
<1>7. RunHolds(h)' /\ RunTrue(h)'
      BY <1>1 DEF RunHolds, RunTrue, TrackingCalls, Underway
<1>8. TripTrue(t)'
  <2>1. SUFFICES ASSUME Run(t) \notin disturbed' PROVE DistanceTrue(t)' /\ StopsTrue(t)'
        BY DEF TripTrue
  <2>2. DistanceTrue(t) /\ StopsTrue(t) /\ Run(t) \notin disturbed
        BY <1>2, <2>1 DEF TripsSound, TripTrue, Moves
  <2>3. Owing(h, t) /\ Telling(h, t)
        BY <1>0, <1>1 DEF Owing, Telling
  <2>4. ASSUME NEW g \in Desks PROVE ~Owing(g, t)' /\ ~Telling(g, t)'
    <3>1. g # h => pc'[g] = pc[g] /\ req'[g] = req[g]
          BY DEF Moves, Disciplined
    <3>. QED BY <1>0, <1>1, <2>2, <3>1, RunsApart DEF Owing, Telling, TrackingCalls
  <2>5. DistanceTrue(t)'
    <3>1. trip[t].distance + l = driven[t]
          BY <1>0, <2>2, <2>3 DEF DistanceTrue
    <3>. QED BY <1>1, <1>5, <2>4, <3>1 DEF DistanceTrue
  <2>6. StopsTrue(t)'
    <3>1. \A s \in Stops : told[t][s] = IF s \in trip[t].reached \cup at THEN 1 ELSE 0
          BY <1>0, <2>2, <2>3 DEF StopsTrue
    <3>. QED BY <1>1, <1>5, <2>4, <3>1 DEF StopsTrue
  <2>. QED BY <2>5, <2>6
<1>9. \A u \in DOMAIN trip : /\ trip'[u].vehicle = trip[u].vehicle
                             /\ trip'[u].active => trip[u].active
      BY <1>3, <1>5
<1>. QED BY <1>0, <1>1, <1>3, <1>6, <1>7, <1>8, <1>9, TripsWritten DEF TrackingCalls

\* The distance an ending writes back is the one it read.
LEMMA EndTripSound ==
    ASSUME Disciplined, TripsSound, NEW h \in Desks, Moves(h, TrackingCalls), EndTrip(h)
    PROVE  TripsSound'
<1>0. PICK t, d : t = req[h].trip /\ d = req[h].distance
      OBVIOUS
<1>1. /\ pc[h] = "end trip" /\ pc'[h] = "idle" /\ UNCHANGED <<positions, told, driven>>
      /\ trip' = [trip EXCEPT ![t].active = FALSE, ![t].distance = d]
      BY <1>0 DEF EndTrip, Finish, Leave, Disciplined
<1>2. t \in DOMAIN trip /\ t \in Trips /\ d \in Int
      BY <1>0, <1>1 DEF TripsSound, RunHolds, TrackingCalls
<1>3. trip[t] \in TripDoc /\ DOMAIN trip' = DOMAIN trip
      /\ \A u \in DOMAIN trip \ {t} : trip'[u] = trip[u]
      BY <1>1, <1>2 DEF TripsSound, TripsTyped
<1>4. trip'[t] = [trip[t] EXCEPT !.active = FALSE, !.distance = d]
      BY <1>1, <1>2
<1>5. /\ trip'[t] \in TripDoc /\ trip'[t].vehicle = trip[t].vehicle
      /\ ~trip'[t].active /\ trip'[t].distance = d
      /\ trip'[t].reached = trip[t].reached
      BY <1>2, <1>3, <1>4 DEF TripDoc
<1>6. TripsTyped'
      BY ZenonT(40), <1>1, <1>3, <1>5 DEF TripsSound, TripsTyped
<1>7. RunHolds(h)' /\ RunTrue(h)'
      BY <1>1 DEF RunHolds, RunTrue, TrackingCalls, Underway
<1>8. TripTrue(t)'
  <2>1. CASE Run(t) \in disturbed'
        BY <2>1 DEF TripTrue
  <2>2. CASE Run(t) \notin disturbed'
    <3>1. trip[t].distance = d
          BY <1>0, <1>1, <2>2 DEF TripsSound, RunTrue, TrackingCalls, Moves
    <3>2. ~Owing(h, t) /\ ~Owing(h, t)'
          BY <1>1 DEF Owing
    <3>. QED BY <1>1, <1>2, <1>5, <3>1, <3>2, TrueElsewhere
  <2>. QED BY <2>1, <2>2
<1>9. \A u \in DOMAIN trip : /\ trip'[u].vehicle = trip[u].vehicle
                             /\ trip'[u].active => trip[u].active
      BY <1>3, <1>5
<1>. QED BY <1>0, <1>1, <1>3, <1>6, <1>7, <1>8, <1>9, TripsWritten DEF TrackingCalls

LEMMA TripsStepSound ==
    ASSUME Disciplined, TripsSound, NEW h \in Desks, TrackingStep(h)
    PROVE  TripsSound'
<1>1. Moves(h, TrackingCalls)
      BY TrackingMoves
<1>2. CASE TrackingArrive(h)
      BY <1>1, <1>2, TripsBeginSound DEF TrackingArrive
<1>3. CASE TrackingResume(h)
      BY <1>1, <1>3, StartTripSound, ReadPreviousSound, InsertPositionSound,
         CheckStopsSound, AddUpSound, EndTripSound DEF TrackingResume
<1>. QED BY <1>2, <1>3 DEF TrackingStep

LEMMA TripsAlways == Spec => [](Disciplined /\ TripsSound)
<1>1. Init => Disciplined /\ TripsSound
      BY DisciplineStarts, TripsStart
<1>2. Disciplined /\ TripsSound /\ [Next]_vars => (Disciplined /\ TripsSound)'
      BY DisciplineKept, NextPasses, TripsPassed, TripsStepSound DEF NextIsTheirs
<1>. QED BY <1>1, <1>2, PTL DEF Spec

\* However many positions, starts and ends are under way, a trip's stops are
\* those whose families were told, each once, its distance is what its
\* positions add up to, and a vehicle is on one trip: with the exceptions
\* TripsAreTrue names.
THEOREM TripsStayTrue == Spec => []TripsAreTrue
<1>1. Disciplined /\ TripsSound => TripsAreTrue
  <2>. SUFFICES ASSUME Disciplined, TripsSound PROVE TripsAreTrue
       OBVIOUS
  <2>1. ASSUME NEW t \in DOMAIN trip, Calm(Run(t))
        PROVE  /\ \A s \in Stops : told[t][s] = (IF s \in trip[t].reached THEN 1 ELSE 0)
               /\ trip[t].distance = driven[t]
    <3>1. \A h \in Desks : ~Owing(h, t) /\ ~Telling(h, t)
          BY <2>1 DEF TripsSound, RunHolds, Owing, Telling, Calm, TrackingCalls
    <3>2. DistanceTrue(t) /\ StopsTrue(t)
          BY <2>1 DEF TripsSound, TripTrue, Calm
    <3>. QED BY <3>1, <3>2 DEF DistanceTrue, StopsTrue
  <2>2. ASSUME NEW v \in Vehicles, Calm(Vehicle(v)) PROVE Cardinality(Ongoing(v)) <= 1
    <3>1. \A t, u \in Ongoing(v) : t = u
          BY <2>2 DEF TripsSound, OneTrip, Calm
    <3>2. CASE Ongoing(v) = {}
          BY <3>2, FS_EmptySet
    <3>3. CASE Ongoing(v) # {}
      <4>1. PICK t : Ongoing(v) = {t}
            BY <3>1, <3>3
      <4>2. Cardinality({t}) = 1
            BY FS_Singleton
      <4>. QED BY <4>1, <4>2
    <3>. QED BY <3>2, <3>3
  <2>. QED BY <2>1, <2>2 DEF TripsAreTrue
<1>. QED BY <1>1, TripsAlways, PTL

-----------------------------------------------------------------------------
(* Exams.  A regrading in progress has the scheme and the scale as they    *)
(* are, and the marks still to do as it read them.                         *)

ByScheme(s) == mark[s] = Derived(mark[s].obtained, Scheme, cut)

OutOfStep == {"scale", "marks", "scheme", "regrade"}

PaperHeld(h) ==
    pc[h] \in ExamsCalls =>
      /\ Paper \in req[h].claims
      /\ DOMAIN req[h] = {"claims", "scheme", "at", "left", "seen"}

Regrading(h) ==
    Paper \notin disturbed =>
      /\ pc[h] \in {"marks", "scheme", "regrade"} => req[h].at = cut
      /\ pc[h] = "scheme" => req[h].left = DOMAIN mark
      /\ pc[h] \in {"scheme", "regrade"} =>
           /\ req[h].left \subseteq DOMAIN mark
           /\ \A s \in req[h].left : req[h].seen[s] = mark[s]
      /\ pc[h] = "regrade" =>
           /\ req[h].scheme = Scheme
           /\ \A s \in DOMAIN mark \ req[h].left : ByScheme(s)

Graded ==
    Paper \notin disturbed /\ (\A h \in Desks : pc[h] \notin OutOfStep) =>
        \A s \in DOMAIN mark \ figures : ByScheme(s)

MarksSound ==
    /\ DOMAIN mark \subseteq Pupils /\ Graded
    /\ \A h \in Desks : PaperHeld(h) /\ Regrading(h)

-----------------------------------------------------------------------------
\* The marks themselves are the one figure a regrading does not derive.
LEMMA DerivedKeeps ==
    ASSUME NEW o, NEW c, NEW at
    PROVE  /\ Derived(o, c, at).obtained = o
           /\ [Derived(o, c, at) EXCEPT !.obtained = o] = Derived(o, c, at)
BY DEF Derived

LEMMA MarksStart == ASSUME Init PROVE MarksSound
<1>1. mark = [s \in {} |-> 0] /\ pc = [h \in Desks |-> "idle"]
      BY DEF Init, ExamsInit, RequestsInit
<1>2. DOMAIN mark = {}
      BY <1>1
<1>3. Graded
      BY <1>2 DEF Graded
<1>4. ASSUME NEW h \in Desks PROVE PaperHeld(h) /\ Regrading(h)
      BY <1>1 DEF PaperHeld, Regrading, ExamsCalls
<1>. QED BY <1>2, <1>3, <1>4 DEF MarksSound

LEMMA MarksPassed ==
    ASSUME Disciplined, MarksSound, Passes(ExamsCalls), UNCHANGED exams
    PROVE  MarksSound'
<1>1. /\ paper' = paper /\ cut' = cut /\ mark' = mark /\ figures' = figures
      /\ disturbed \subseteq disturbed' /\ Scheme' = Scheme
      BY DEF exams, Scheme, Passes
<1>2. \A s : ByScheme(s)' <=> ByScheme(s)
      BY <1>1 DEF ByScheme
<1>3. ASSUME NEW h \in Desks PROVE PaperHeld(h)' /\ Regrading(h)'
  <2>1. CASE pc'[h] \in ExamsCalls
    <3>1. pc'[h] = pc[h] /\ req'[h] = req[h] /\ PaperHeld(h) /\ Regrading(h)
          BY <2>1 DEF Passes, MarksSound
    <3>. QED BY <1>1, <1>2, <3>1 DEF PaperHeld, Regrading
  <2>2. CASE pc'[h] \notin ExamsCalls
        BY <2>2 DEF PaperHeld, Regrading, ExamsCalls
  <2>. QED BY <2>1, <2>2
<1>4. Graded'
  <2>1. SUFFICES ASSUME Paper \notin disturbed', \A h \in Desks : pc'[h] \notin OutOfStep
                 PROVE  \A s \in DOMAIN mark \ figures : ByScheme(s)
        BY <1>1, <1>2 DEF Graded
  <2>2. ASSUME NEW h \in Desks PROVE pc[h] \notin OutOfStep
    <3>1. SUFFICES ASSUME pc[h] \in OutOfStep PROVE FALSE
          OBVIOUS
    <3>2. pc[h] \in ExamsCalls /\ Paper \in req[h].claims
          BY <3>1 DEF MarksSound, PaperHeld, OutOfStep, ExamsCalls
    <3>3. pc'[h] = pc[h]
          BY <2>1, <3>2 DEF Passes
    <3>. QED BY <2>1, <3>1, <3>3
  <2>. QED BY <1>1, <2>1, <2>2 DEF MarksSound, Graded
<1>. QED BY <1>1, <1>3, <1>4 DEF MarksSound

-----------------------------------------------------------------------------
\* Two requests about the exam have disturbed it: what one does, the others
\* need not answer for.
LEMMA MarksAlone ==
    ASSUME Disciplined, MarksSound, NEW h \in Desks, Moves(h, ExamsCalls),
           pc[h] \in ExamsCalls \/ {Paper} \cap HeldByOthers(h) \subseteq disturbed',
           NEW g \in Desks, g # h
    PROVE  /\ pc'[g] = pc[g] /\ PaperHeld(g)' /\ Regrading(g)'
           /\ Paper \in disturbed' \/ pc'[g] \notin ExamsCalls
<1>1. pc'[g] = pc[g] /\ req'[g] = req[g] /\ disturbed \subseteq disturbed'
      BY DEF Moves, Disciplined
<1>2. PaperHeld(g)'
      BY <1>1 DEF MarksSound, PaperHeld
<1>3. ASSUME pc[g] \in ExamsCalls PROVE Paper \in disturbed'
  <2>1. Paper \in req[g].claims
        BY <1>3 DEF MarksSound, PaperHeld
  <2>2. CASE pc[h] \in ExamsCalls
    <3>1. Paper \in req[h].claims
          BY <2>2 DEF MarksSound, PaperHeld
    <3>. QED BY <1>1, <2>1, <3>1 DEF Disciplined, Apart
  <2>3. CASE {Paper} \cap HeldByOthers(h) \subseteq disturbed'
        BY <2>1, <2>3 DEF HeldByOthers
  <2>. QED BY <2>2, <2>3
<1>4. Regrading(g)'
      BY <1>1, <1>3 DEF Regrading, ExamsCalls
<1>. QED BY <1>1, <1>2, <1>3, <1>4

\* So a step is sound if it is for its own request.
LEMMA MarksMoved ==
    ASSUME Disciplined, MarksSound, NEW h \in Desks, Moves(h, ExamsCalls),
           pc[h] \in ExamsCalls \/ {Paper} \cap HeldByOthers(h) \subseteq disturbed',
           DOMAIN mark' \subseteq Pupils, PaperHeld(h)', Regrading(h)',
           Paper \notin disturbed' /\ pc'[h] \notin OutOfStep =>
             \A s \in DOMAIN mark' \ figures' : ByScheme(s)'
    PROVE  MarksSound'
<1>1. ASSUME NEW g \in Desks PROVE PaperHeld(g)' /\ Regrading(g)'
      BY MarksAlone
<1>2. Graded'
      BY DEF Graded
<1>. QED BY <1>1, <1>2 DEF MarksSound

\* Before a request there is nobody half way.
LEMMA GradedAlone ==
    ASSUME Disciplined, MarksSound, NEW h \in Desks, Moves(h, ExamsCalls),
           pc[h] \in ExamsCalls \/ {Paper} \cap HeldByOthers(h) \subseteq disturbed',
           pc[h] \notin OutOfStep, Paper \notin disturbed'
    PROVE  \A s \in DOMAIN mark \ figures : ByScheme(s)
<1>1. \A g \in Desks \ {h} : pc[g] \notin OutOfStep
      BY MarksAlone DEF OutOfStep, ExamsCalls
<1>. QED BY <1>1 DEF MarksSound, Graded, Moves

LEMMA ExamsArriveSound ==
    ASSUME Disciplined, MarksSound, NEW h \in Desks, Moves(h, ExamsCalls), ExamsArrive(h)
    PROVE  MarksSound'
<1>1. ASSUME NEW s \in Pupils, NEW obtained, NEW shown, EnterMark(h, s, obtained, shown)
      PROVE  MarksSound'
  <2>1. /\ pc[h] = "idle" /\ pc' = pc /\ req' = req
        /\ disturbed' = {Paper} \cap HeldByOthers(h) /\ UNCHANGED <<paper, cut>>
        /\ mark' = With(mark, s, Derived(obtained, shown, cut))
        /\ figures' = figures \cup {s}
        BY <1>1 DEF EnterMark, Once, Asked, Open, Idle
  <2>2. DOMAIN mark' = DOMAIN mark \cup {s} /\ \A u \in DOMAIN mark \ {s} : mark'[u] = mark[u]
        BY <2>1 DEF With
  <2>3. PaperHeld(h)' /\ Regrading(h)'
        BY <2>1 DEF PaperHeld, Regrading, ExamsCalls
  <2>4. Scheme' = Scheme
        BY <2>1 DEF Scheme
  <2>5. Paper \notin disturbed' => \A u \in DOMAIN mark' \ figures' : ByScheme(u)'
    <3>1. SUFFICES ASSUME Paper \notin disturbed', NEW u \in DOMAIN mark' \ figures'
                   PROVE  ByScheme(u)'
          OBVIOUS
    <3>2. ByScheme(u) /\ mark'[u] = mark[u]
          BY <2>1, <2>2, <3>1, GradedAlone DEF OutOfStep
    <3>. QED BY <2>1, <2>4, <3>2 DEF ByScheme
  <2>. QED BY <2>1, <2>2, <2>3, <2>5, MarksMoved DEF MarksSound
<1>2. ASSUME NEW s, RemoveMark(h, s) PROVE MarksSound'
  <2>1. /\ pc[h] = "idle" /\ pc' = pc /\ req' = req
        /\ disturbed' = {Paper} \cap HeldByOthers(h) /\ UNCHANGED <<paper, cut, figures>>
        /\ mark' = Without(mark, s)
        BY <1>2 DEF RemoveMark, Once, Asked, Open, Idle
  <2>2. DOMAIN mark' = DOMAIN mark \ {s} /\ \A u \in DOMAIN mark \ {s} : mark'[u] = mark[u]
        BY <2>1 DEF Without
  <2>3. PaperHeld(h)' /\ Regrading(h)'
        BY <2>1 DEF PaperHeld, Regrading, ExamsCalls
  <2>4. Scheme' = Scheme
        BY <2>1 DEF Scheme
  <2>5. Paper \notin disturbed' => \A u \in DOMAIN mark' \ figures' : ByScheme(u)'
    <3>1. SUFFICES ASSUME Paper \notin disturbed', NEW u \in DOMAIN mark' \ figures'
                   PROVE  ByScheme(u)'
          OBVIOUS
    <3>2. ByScheme(u) /\ mark'[u] = mark[u]
          BY <2>1, <2>2, <3>1, GradedAlone DEF OutOfStep
    <3>. QED BY <2>1, <2>4, <3>2 DEF ByScheme
  <2>. QED BY <2>1, <2>2, <2>3, <2>5, MarksMoved DEF MarksSound
<1>3. ASSUME NEW at, NEW set, NEW c, EditScale(h, at) \/ EditPaper(h, set, c)
      PROVE  MarksSound'
  <2>1. /\ pc[h] = "idle" /\ pc' = pc /\ req' = req
        /\ disturbed' = {Paper} \cap HeldByOthers(h) /\ mark' = mark /\ figures' = Pupils
        BY <1>3 DEF EditScale, EditPaper, Once, Asked, Open, Idle
  <2>2. PaperHeld(h)' /\ Regrading(h)'
        BY <2>1 DEF PaperHeld, Regrading, ExamsCalls
  <2>3. DOMAIN mark' \ figures' = {}
        BY <2>1 DEF MarksSound
  <2>. QED BY <2>1, <2>2, <2>3, MarksMoved DEF MarksSound
<1>4. ASSUME NEW c, BeginScheme(h, c) \/ BeginRegrade(h) PROVE MarksSound'
  <2>1. /\ pc[h] = "idle" /\ pc'[h] \in {"store scheme", "scale"} /\ UNCHANGED exams
        /\ disturbed' = {Paper} \cap HeldByOthers(h) /\ Paper \in req'[h].claims
        /\ DOMAIN req'[h] = {"claims", "scheme", "at", "left", "seen"}
    <3>1. CASE BeginScheme(h, c)
          BY <3>1 DEF BeginScheme, Begin, Asked, Open, Idle, Disciplined
    <3>2. CASE BeginRegrade(h)
          BY <3>2 DEF BeginRegrade, Begin, Asked, Open, Idle, Disciplined
    <3>. QED BY <1>4, <3>1, <3>2
  <2>2. PaperHeld(h)' /\ Regrading(h)'
        BY <2>1 DEF PaperHeld, Regrading
  <2>3. \A u : ByScheme(u)' <=> ByScheme(u)
        BY <2>1 DEF ByScheme, Scheme, exams
  <2>4. Paper \notin disturbed' => \A u \in DOMAIN mark' \ figures' : ByScheme(u)'
        BY <2>1, <2>3, GradedAlone DEF OutOfStep, exams
  <2>. QED BY <2>1, <2>2, <2>4, MarksMoved DEF MarksSound, exams
<1>. QED BY <1>1, <1>2, <1>3, <1>4 DEF ExamsArrive

LEMMA ExamsReadSound ==
    ASSUME Disciplined, MarksSound, NEW h \in Desks, Moves(h, ExamsCalls),
           StoreScheme(h) \/ ReadScale(h) \/ ReadMarks(h) \/ ReadScheme(h)
    PROVE  MarksSound'
<1>1. CASE StoreScheme(h)
  <2>1. /\ pc[h] = "store scheme" /\ pc'[h] = "scale" /\ req' = req /\ mark' = mark
        BY <1>1 DEF StoreScheme, Goto, Disciplined
  <2>2. PaperHeld(h)' /\ Regrading(h)'
        BY <2>1 DEF MarksSound, PaperHeld, Regrading, ExamsCalls
  <2>. QED BY <2>1, <2>2, MarksMoved DEF MarksSound, ExamsCalls, OutOfStep
<1>2. CASE ReadScale(h)
  <2>. DEFINE r == [req[h] EXCEPT !.at = cut]
  <2>1. pc[h] = "scale" /\ pc'[h] = "marks" /\ req'[h] = r /\ UNCHANGED exams
        BY <1>2 DEF ReadScale, Carry, Disciplined
  <2>2. /\ DOMAIN r = {"claims", "scheme", "at", "left", "seen"} /\ r.at = cut
        /\ Paper \in r.claims
        BY <2>1 DEF MarksSound, PaperHeld, ExamsCalls
  <2>. HIDE DEF r
  <2>3. PaperHeld(h)' /\ Regrading(h)'
        BY <2>1, <2>2 DEF PaperHeld, Regrading, exams
  <2>. QED BY <2>1, <2>3, MarksMoved DEF MarksSound, ExamsCalls, OutOfStep, exams
<1>3. CASE ReadMarks(h)
  <2>1. pc[h] = "marks" /\ PaperHeld(h) /\ Regrading(h) /\ UNCHANGED <<paper, cut, mark>>
        /\ disturbed \subseteq disturbed'
        BY <1>3 DEF ReadMarks, MarksSound, Moves
  <2>2. CASE DOMAIN mark = {}
    <3>1. pc'[h] = "idle"
          BY <1>3, <2>2 DEF ReadMarks, Finish, Leave, Disciplined
    <3>2. PaperHeld(h)' /\ Regrading(h)'
          BY <3>1 DEF PaperHeld, Regrading, ExamsCalls
    <3>. QED BY <2>1, <2>2, <3>1, <3>2, MarksMoved DEF MarksSound, ExamsCalls
  <2>3. CASE DOMAIN mark # {}
    <3>. DEFINE r == [req[h] EXCEPT !.seen = mark, !.left = DOMAIN mark]
    <3>1. pc'[h] = "scheme" /\ req'[h] = r
          BY <1>3, <2>3 DEF ReadMarks, Carry, Disciplined
    <3>2. /\ DOMAIN r = {"claims", "scheme", "at", "left", "seen"} /\ Paper \in r.claims
          /\ r.at = req[h].at /\ r.left = DOMAIN mark /\ r.seen = mark
          BY <2>1 DEF PaperHeld, ExamsCalls
    <3>. HIDE DEF r
    <3>3. PaperHeld(h)' /\ Regrading(h)'
          BY <2>1, <3>1, <3>2 DEF PaperHeld, Regrading
    <3>. QED BY <2>1, <3>1, <3>3, MarksMoved DEF MarksSound, ExamsCalls, OutOfStep
  <2>. QED BY <2>2, <2>3
<1>4. CASE ReadScheme(h)
  <2>. DEFINE r == [req[h] EXCEPT !.scheme = Scheme]
  <2>1. /\ pc[h] = "scheme" /\ pc'[h] = "regrade" /\ req'[h] = r /\ UNCHANGED exams
        /\ PaperHeld(h) /\ Regrading(h) /\ disturbed \subseteq disturbed'
        BY <1>4 DEF ReadScheme, Carry, Disciplined, MarksSound, Moves
  <2>2. /\ DOMAIN r = {"claims", "scheme", "at", "left", "seen"} /\ Paper \in r.claims
        /\ r.at = req[h].at /\ r.left = req[h].left /\ r.seen = req[h].seen
        /\ r.scheme = Scheme
        BY <2>1 DEF PaperHeld, ExamsCalls
  <2>. HIDE DEF r
  <2>3. PaperHeld(h)'
        BY <2>1, <2>2 DEF PaperHeld
  <2>4. Regrading(h)'
    <3>1. Scheme' = Scheme
          BY <2>1 DEF Scheme, exams
    <3>. QED BY <2>1, <2>2, <3>1 DEF Regrading, exams
  <2>. QED BY <2>1, <2>3, <2>4, MarksMoved DEF MarksSound, ExamsCalls, OutOfStep, exams
<1>. QED BY <1>1, <1>2, <1>3, <1>4

LEMMA RegradeOneSound ==
    ASSUME Disciplined, MarksSound, NEW h \in Desks, Moves(h, ExamsCalls), RegradeOne(h)
    PROVE  MarksSound'
<1>1. /\ pc[h] = "regrade" /\ PaperHeld(h) /\ Regrading(h) /\ UNCHANGED <<paper, cut>>
      /\ disturbed \subseteq disturbed'
      BY DEF RegradeOne, MarksSound, Moves
<1>2. PICK s \in req[h].left :
        LET was == req[h].seen[s]
            now == Derived(was.obtained, req[h].scheme, req[h].at)
        IN /\ mark' = IF Stale(was, now) /\ s \in DOMAIN mark
                      THEN [mark EXCEPT ![s] = [now EXCEPT !.obtained = mark[s].obtained]]
                      ELSE mark
           /\ IF req[h].left = {s}
              THEN Finish(h) /\ figures' = {}
              ELSE /\ Carry(h, "regrade", [req[h] EXCEPT !.left = req[h].left \ {s}])
                   /\ UNCHANGED figures
      BY DEF RegradeOne
<1>3. DOMAIN mark' = DOMAIN mark /\ \A u \in DOMAIN mark \ {s} : mark'[u] = mark[u]
      BY <1>2
<1>4. Scheme' = Scheme
      BY <1>1 DEF Scheme
<1>5. ASSUME Paper \notin disturbed'
      PROVE  \A u \in DOMAIN mark \ (req[h].left \ {s}) : ByScheme(u)'
  <2>1. /\ req[h].at = cut /\ req[h].scheme = Scheme /\ req[h].left \subseteq DOMAIN mark
        /\ req[h].seen[s] = mark[s] /\ \A u \in DOMAIN mark \ req[h].left : ByScheme(u)
        BY <1>1, <1>5 DEF Regrading
  <2>2. ASSUME NEW u \in DOMAIN mark \ req[h].left PROVE ByScheme(u)'
    <3>1. mark'[u] = mark[u] /\ ByScheme(u)
          BY <1>3, <2>1
    <3>. QED BY <1>1, <1>4, <3>1 DEF ByScheme
  <2>3. ByScheme(s)'
    <3>1. PICK o : o = mark[s].obtained
          OBVIOUS
    <3>2. PICK now : now = Derived(o, Scheme, cut)
          OBVIOUS
    <3>3. mark' = IF mark[s] # now THEN [mark EXCEPT ![s] = [now EXCEPT !.obtained = o]]
                  ELSE mark
          BY <1>2, <2>1, <3>1, <3>2 DEF Stale
    <3>4. now.obtained = o /\ [now EXCEPT !.obtained = o] = now
          BY <3>2, DerivedKeeps
    <3>5. mark'[s] = now
          BY <2>1, <3>3, <3>4
    <3>. QED BY <1>1, <1>4, <3>2, <3>4, <3>5 DEF ByScheme
  <2>. QED BY <2>1, <2>2, <2>3
<1>6. CASE req[h].left = {s}
  <2>1. pc'[h] = "idle" /\ figures' = {}
        BY <1>2, <1>6 DEF Finish, Leave, Disciplined
  <2>2. PaperHeld(h)' /\ Regrading(h)'
        BY <2>1 DEF PaperHeld, Regrading, ExamsCalls
  <2>3. Paper \notin disturbed' => \A u \in DOMAIN mark' \ figures' : ByScheme(u)'
        BY <1>3, <1>5, <1>6, <2>1
  <2>. QED BY <1>1, <1>3, <2>2, <2>3, MarksMoved DEF MarksSound, ExamsCalls
<1>7. CASE req[h].left # {s}
  <2>. DEFINE r == [req[h] EXCEPT !.left = req[h].left \ {s}]
  <2>1. pc'[h] = "regrade" /\ req'[h] = r
        BY <1>2, <1>7 DEF Carry, Disciplined
  <2>2. /\ DOMAIN r = {"claims", "scheme", "at", "left", "seen"} /\ Paper \in r.claims
        /\ r.at = req[h].at /\ r.left = req[h].left \ {s} /\ r.seen = req[h].seen
        /\ r.scheme = req[h].scheme
        BY <1>1 DEF PaperHeld, ExamsCalls
  <2>. HIDE DEF r
  <2>3. PaperHeld(h)'
        BY <2>1, <2>2 DEF PaperHeld
  <2>4. Regrading(h)'
    <3>1. SUFFICES ASSUME Paper \notin disturbed'
                   PROVE  /\ r.at = cut /\ r.left \subseteq DOMAIN mark
                          /\ \A u \in r.left : r.seen[u] = mark'[u]
                          /\ r.scheme = Scheme
                          /\ \A u \in DOMAIN mark \ r.left : ByScheme(u)'
          BY <1>1, <1>3, <1>4, <2>1 DEF Regrading
    <3>2. /\ req[h].at = cut /\ req[h].scheme = Scheme /\ req[h].left \subseteq DOMAIN mark
          /\ \A u \in req[h].left : req[h].seen[u] = mark[u]
          BY <1>1, <3>1 DEF Regrading
    <3>. QED BY <1>3, <1>5, <2>2, <3>1, <3>2
  <2>. QED BY <1>1, <1>3, <2>1, <2>3, <2>4, MarksMoved DEF MarksSound, ExamsCalls, OutOfStep
<1>. QED BY <1>6, <1>7

LEMMA MarksStepSound ==
    ASSUME Disciplined, MarksSound, NEW h \in Desks, ExamsStep(h)
    PROVE  MarksSound'
BY ExamsMoves, ExamsArriveSound, ExamsReadSound, RegradeOneSound DEF ExamsStep, ExamsResume

LEMMA MarksAlways == Spec => [](Disciplined /\ MarksSound)
<1>1. Init => Disciplined /\ MarksSound
      BY DisciplineStarts, MarksStart
<1>2. Disciplined /\ MarksSound /\ [Next]_vars => (Disciplined /\ MarksSound)'
      BY DisciplineKept, NextPasses, MarksPassed, MarksStepSound DEF NextIsTheirs
<1>. QED BY <1>1, <1>2, PTL DEF Spec

\* However schemes, scales and marks change, a finished regrading leaves every
\* mark entered before it graded by the scheme and scale as they are: unless
\* two requests about the exam met, or one failed.
THEOREM RegradedByScheme == Spec => []MarksFollowScheme
<1>1. Disciplined /\ MarksSound => MarksFollowScheme
  <2>1. SUFFICES ASSUME MarksSound, Calm(Paper)
                 PROVE  \A s \in DOMAIN mark \ figures : ByScheme(s)
        BY DEF MarksFollowScheme, ByScheme
  <2>2. \A h \in Desks : pc[h] \notin OutOfStep
        BY <2>1 DEF MarksSound, PaperHeld, Calm, OutOfStep, ExamsCalls
  <2>. QED BY <2>1, <2>2 DEF MarksSound, Graded, Calm
<1>. QED BY <1>1, MarksAlways, PTL

-----------------------------------------------------------------------------
(* Registers.  A submission has written the rows it has done with, and     *)
(* found the register open and the school too: unless disturbed.           *)

Submitting == {"lock?", "rows", "sheet"}

RowDone(h, s) ==
    Row(s) \notin disturbed => s \in DOMAIN row /\ row[s].status = req[h].entries[s]

Submits(h) ==
    pc[h] \in Submitting =>
      /\ DOMAIN req[h] = {"claims", "section", "entries", "left", "admin", "despite"}
      /\ req[h].section \in Sections /\ Register(req[h].section) \in req[h].claims
      /\ \A s \in DOMAIN req[h].entries : Row(s) \in req[h].claims
      /\ req[h].left \subseteq DOMAIN req[h].entries
      /\ pc[h] = "lock?" => req[h].left = DOMAIN req[h].entries
      /\ pc[h] = "sheet" => req[h].left = {}
      /\ \A s \in DOMAIN req[h].entries \ req[h].left : RowDone(h, s)

Admitted(h) ==
    pc[h] \in {"lock?", "rows"} /\ Register(req[h].section) \notin disturbed =>
      /\ Shut(req[h].section) => req[h].despite
      /\ pc[h] = "rows" /\ Locked(req[h].section) => req[h].admin

Restates(h) ==
    pc[h] \in {"release", "restate"} =>
      /\ DOMAIN req[h] = {"claims", "holiday", "classes", "left"}
      /\ \A s \in req[h].left : Row(s) \in req[h].claims

AtDevice(h) == pc[h] = "device" => Row(req[h].pupil) \in req[h].claims

HoldsRegister(h) == Submits(h) /\ Admitted(h) /\ Restates(h) /\ AtDevice(h)

\* The summary of a section is of the rows it was last written for.
Summed(x) ==
    x \in DOMAIN sheet =>
      /\ sheet[x].total = Cardinality(listed[x])
      /\ (\A s \in listed[x] : Row(s) \notin disturbed /\ <<x, s>> \notin strayed) =>
           /\ listed[x] \subseteq DOMAIN row
           /\ \A m \in Counted :
                sheet[x].count[m] = Cardinality({s \in listed[x] : row[s].status = m})

RowsTyped ==
    /\ \A s \in DOMAIN row : DOMAIN row[s] = {"section", "status", "remark"}
    /\ DOMAIN sheet \subseteq Sections
    /\ \A x \in DOMAIN sheet : DOMAIN sheet[x] = {"total", "count", "locked"}
    /\ DOMAIN listed = Sections

RegistersSound ==
    /\ RowsTyped
    /\ \A x \in Sections : Summed(x)
    /\ \A h \in Desks : HoldsRegister(h)

-----------------------------------------------------------------------------
LEMMA RegistersStart == ASSUME Init PROVE RegistersSound
<1>1. /\ pc = [h \in Desks |-> "idle"] /\ DOMAIN row = There
      /\ \A s \in There : row[s] = [section |-> Home, status |-> "present", remark |-> ""]
      /\ DOMAIN sheet = {Home} /\ listed = [x \in Sections |-> IF x = Home THEN There ELSE {}]
      /\ sheet[Home] = [total |-> Cardinality(There), locked |-> FALSE,
                        count |-> Tally([s \in There |-> "present"])]
      BY DEF Init, RegistersInit, RequestsInit
<1>2. Home \in Sections
      BY PeopleAssumption
<1>3. RowsTyped
  <2>1. ASSUME NEW s \in DOMAIN row PROVE DOMAIN row[s] = {"section", "status", "remark"}
    <3>1. row[s] = [section |-> Home, status |-> "present", remark |-> ""]
          BY <1>1
    <3>. QED BY <3>1
  <2>2. \A x \in DOMAIN sheet : DOMAIN sheet[x] = {"total", "count", "locked"}
    <3>1. \A x \in DOMAIN sheet : x = Home
          BY <1>1
    <3>2. DOMAIN sheet[Home] = {"total", "count", "locked"}
          BY <1>1
    <3>. QED BY <3>1, <3>2
  <2>. QED BY <1>1, <1>2, <2>1, <2>2 DEF RowsTyped
<1>4. ASSUME NEW x \in Sections PROVE Summed(x)
  <2>1. CASE x # Home
        BY <1>1, <2>1 DEF Summed
  <2>2. CASE x = Home
    <3>1. PICK e : e = [s \in There |-> "present"]
          OBVIOUS
    <3>2. DOMAIN e = There /\ \A s \in There : e[s] = row[s].status
      <4>1. ASSUME NEW s \in There PROVE row[s].status = "present"
        <5>1. PICK r : r = row[s]
              OBVIOUS
        <5>2. r = [section |-> Home, status |-> "present", remark |-> ""]
              BY <1>1, <5>1
        <5>3. r.status = "present"
              BY <5>2
        <5>. QED BY <5>1, <5>3
      <4>. QED BY <3>1, <4>1
    <3>3. ASSUME NEW m \in Counted
          PROVE  Tally(e)[m] = Cardinality({s \in There : row[s].status = m})
      <4>1. {s \in DOMAIN e : e[s] = m} = {s \in There : row[s].status = m}
            BY <3>2
      <4>. QED BY <4>1 DEF Tally
    <3>4. listed[Home] = There
          BY <1>1, <1>2
    <3>5. sheet[Home].total = Cardinality(There) /\ sheet[Home].count = Tally(e)
      <4>1. PICK t, c : /\ t = Tally(e) /\ c = Cardinality(There)
                        /\ sheet[Home] = [total |-> c, locked |-> FALSE, count |-> t]
            BY <1>1, <3>1
      <4>. QED BY <4>1
    <3>. QED BY <1>1, <2>2, <3>3, <3>4, <3>5 DEF Summed
  <2>. QED BY <2>1, <2>2
<1>5. ASSUME NEW h \in Desks PROVE HoldsRegister(h)
      BY <1>1 DEF HoldsRegister, Submits, Admitted, Restates, AtDevice, Submitting
<1>. QED BY <1>3, <1>4, <1>5 DEF RegistersSound

\* What a request holds stays so when its rows, its lock and its day do.
LEMMA HoldsOn ==
    ASSUME NEW g \in Desks, HoldsRegister(g), pc'[g] = pc[g], req'[g] = req[g],
           disturbed \subseteq disturbed',
           \A s : Row(s) \in req[g].claims \ disturbed' =>
                    (s \in DOMAIN row => s \in DOMAIN row' /\ row'[s] = row[s]),
           \A x \in Sections : Register(x) \in req[g].claims \ disturbed' =>
                    (Locked(x)' => Locked(x)) /\ (Shut(x)' => Shut(x))
    PROVE  HoldsRegister(g)'
<1>1. Submits(g)'
  <2>1. ASSUME pc[g] \in Submitting, NEW s \in DOMAIN req[g].entries, RowDone(g, s)
        PROVE  RowDone(g, s)'
        BY <2>1 DEF RowDone, HoldsRegister, Submits
  <2>. QED BY <2>1 DEF HoldsRegister, Submits
<1>2. Admitted(g)'
  <2>1. SUFFICES ASSUME pc[g] \in {"lock?", "rows"},
                        Register(req[g].section) \notin disturbed'
                 PROVE  /\ Shut(req[g].section)' => req[g].despite
                        /\ pc[g] = "rows" /\ Locked(req[g].section)' => req[g].admin
    <3>1. PICK x : x = req[g].section
          OBVIOUS
    <3>. QED BY <3>1 DEF Admitted, Shut, Covering, Locked
  <2>2. PICK x : x = req[g].section
        OBVIOUS
  <2>3. x \in Sections /\ Register(x) \in req[g].claims
        BY <2>1, <2>2 DEF HoldsRegister, Submits, Submitting
  <2>4. (Locked(x)' => Locked(x)) /\ (Shut(x)' => Shut(x))
        BY <2>1, <2>2, <2>3
  <2>. QED BY <2>1, <2>2, <2>4 DEF HoldsRegister, Admitted
<1>3. Restates(g)' /\ AtDevice(g)'
      BY DEF HoldsRegister, Restates, AtDevice
<1>. QED BY <1>1, <1>2, <1>3 DEF HoldsRegister

\* The summary of a section stays right: a row that changed has strayed.
LEMMA SummedOn ==
    ASSUME NEW x, Summed(x), x \in DOMAIN sheet, x \in DOMAIN sheet',
           sheet'[x].total = sheet[x].total, sheet'[x].count = sheet[x].count,
           listed'[x] = listed[x], disturbed \subseteq disturbed',
           \A s \in DOMAIN row : <<x, s>> \notin strayed' =>
             <<x, s>> \notin strayed /\ s \in DOMAIN row' /\ row'[s] = row[s],
           \A s : <<x, s>> \notin strayed' => <<x, s>> \notin strayed
    PROVE  Summed(x)'
<1>1. SUFFICES ASSUME \A s \in listed[x] : Row(s) \notin disturbed' /\ <<x, s>> \notin strayed'
               PROVE  /\ listed[x] \subseteq DOMAIN row'
                      /\ \A m \in Counted : sheet[x].count[m]
                           = Cardinality({s \in listed[x] : row'[s].status = m})
      BY DEF Summed
<1>2. /\ listed[x] \subseteq DOMAIN row
      /\ \A m \in Counted :
           sheet[x].count[m] = Cardinality({s \in listed[x] : row[s].status = m})
      BY <1>1 DEF Summed
<1>3. listed[x] \subseteq DOMAIN row' /\ \A s \in listed[x] : row'[s] = row[s]
      BY <1>1, <1>2
<1>4. ASSUME NEW m \in Counted
      PROVE  {s \in listed[x] : row'[s].status = m} = {s \in listed[x] : row[s].status = m}
      BY <1>3
<1>. QED BY <1>2, <1>3, <1>4

LEMMA RegistersPassed ==
    ASSUME Disciplined, RegistersSound, Passes(RegistersCalls), UNCHANGED registers
    PROVE  RegistersSound'
<1>1. /\ row' = row /\ sheet' = sheet /\ holiday' = holiday /\ listed' = listed
      /\ strayed' = strayed /\ disturbed \subseteq disturbed'
      BY DEF registers, Passes
<1>2. ASSUME NEW h \in Desks PROVE HoldsRegister(h)'
  <2>1. CASE pc'[h] \in RegistersCalls
    <3>1. pc'[h] = pc[h] /\ req'[h] = req[h] /\ HoldsRegister(h)
          BY <2>1 DEF Passes, RegistersSound
    <3>2. ASSUME NEW x PROVE (Locked(x)' <=> Locked(x)) /\ (Shut(x)' <=> Shut(x))
          BY <1>1 DEF Locked, Shut, Covering
    <3>. QED BY <1>1, <3>1, <3>2, HoldsOn
  <2>2. CASE pc'[h] \notin RegistersCalls
        BY <2>2 DEF HoldsRegister, Submits, Admitted, Restates, AtDevice, Submitting,
                    RegistersCalls
  <2>. QED BY <2>1, <2>2
<1>3. RowsTyped'
      BY <1>1 DEF RegistersSound, RowsTyped
<1>4. ASSUME NEW x \in Sections PROVE Summed(x)'
  <2>1. CASE x \in DOMAIN sheet
        BY <1>1, <2>1, SummedOn DEF RegistersSound
  <2>2. CASE x \notin DOMAIN sheet
        BY <1>1, <2>2 DEF Summed
  <2>. QED BY <2>1, <2>2
<1>. QED BY <1>2, <1>3, <1>4 DEF RegistersSound

\* So a step is sound if its own request is, and it touched only what the
\* request is about.
LEMMA RegistersMoved ==
    ASSUME Disciplined, RegistersSound, NEW h \in Desks, Moves(h, RegistersCalls),
           RowsTyped', HoldsRegister(h)',
           \A s : Row(s) \in HeldByOthers(h) \ disturbed' =>
                    (s \in DOMAIN row => s \in DOMAIN row' /\ row'[s] = row[s]),
           \A x \in Sections : Register(x) \in HeldByOthers(h) \ disturbed' =>
                    (Locked(x)' => Locked(x)) /\ (Shut(x)' => Shut(x)),
           \A x \in Sections : Summed(x)'
    PROVE  RegistersSound'
<1>1. ASSUME NEW g \in Desks, g # h PROVE HoldsRegister(g)'
  <2>1. /\ pc'[g] = pc[g] /\ req'[g] = req[g] /\ disturbed \subseteq disturbed'
        /\ req[g].claims \subseteq HeldByOthers(h) /\ HoldsRegister(g)
        BY <1>1 DEF Moves, Disciplined, HeldByOthers, RegistersSound
  <2>. QED BY <2>1, HoldsOn
<1>. QED BY <1>1 DEF RegistersSound

\* Nobody else holds, undisturbed, what a request is about.
LEMMA OwnOnly ==
    ASSUME Disciplined, NEW h \in Desks, NEW c, c \in HeldByOthers(h)
    PROVE  c \in req[h].claims => c \in disturbed
BY DEF Disciplined, Apart, HeldByOthers

LEMMA RegistersArriveSound ==
    ASSUME Disciplined, RegistersSound, NEW h \in Desks, Moves(h, RegistersCalls),
           RegistersArrive(h)
    PROVE  RegistersSound'
<1>0. disturbed = {} /\ pc[h] = "idle"
      BY DEF RegistersArrive, Open, Idle
<1>1. ASSUME UNCHANGED <<row, strayed, listed>>, DOMAIN sheet' = DOMAIN sheet,
             \A x \in DOMAIN sheet : /\ sheet'[x].total = sheet[x].total
                                     /\ sheet'[x].count = sheet[x].count
      PROVE  \A x \in Sections : Summed(x)'
  <2>1. ASSUME NEW x \in Sections PROVE Summed(x)'
    <3>1. disturbed \subseteq disturbed' /\ Summed(x)
          BY DEF Moves, RegistersSound
    <3>2. CASE x \in DOMAIN sheet
          BY <1>1, <3>1, <3>2, SummedOn
    <3>3. CASE x \notin DOMAIN sheet
          BY <1>1, <3>3 DEF Summed
    <3>. QED BY <3>2, <3>3
  <2>. QED BY <2>1
<1>2. ASSUME UNCHANGED registers, HoldsRegister(h)'
      PROVE  RegistersSound'
  <2>1. /\ UNCHANGED <<row, strayed, listed, sheet, holiday>>
        /\ \A x : (Locked(x)' <=> Locked(x)) /\ (Shut(x)' <=> Shut(x))
    <3>1. UNCHANGED <<row, strayed, listed, sheet, holiday>>
          BY <1>2 DEF registers
    <3>2. ASSUME NEW x PROVE (Locked(x)' <=> Locked(x)) /\ (Shut(x)' <=> Shut(x))
          BY <3>1 DEF Locked, Shut, Covering
    <3>. QED BY <3>1, <3>2
  <2>2. RowsTyped' /\ \A x \in Sections : Summed(x)'
        BY <1>1, <2>1 DEF RowsTyped, RegistersSound
  <2>. QED BY <1>2, <2>1, <2>2, RegistersMoved
<1>3. ASSUME NEW sub \in Submissions, NEW admin \in BOOLEAN, NEW despite \in BOOLEAN,
             BeginRegister(h, sub[1], sub[2], admin, despite)
      PROVE  RegistersSound'
  <2>. DEFINE x == sub[1]  entries == sub[2]
              r == [claims |-> {Register(x)} \cup {Row(s) : s \in DOMAIN entries},
                    section |-> x, entries |-> entries, left |-> DOMAIN entries,
                    admin |-> admin, despite |-> despite]
  <2>1. pc'[h] = "lock?" /\ req'[h] = r /\ (~Shut(x) \/ despite) /\ UNCHANGED registers
        BY <1>3 DEF BeginRegister, Begin, Disciplined
  <2>2. x \in Sections
        BY RegistersAssumption
  <2>3. /\ DOMAIN r = {"claims", "section", "entries", "left", "admin", "despite"}
        /\ r.section = x /\ r.entries = entries /\ r.left = DOMAIN entries
        /\ r.despite = despite /\ Register(x) \in r.claims
        /\ \A s \in DOMAIN entries : Row(s) \in r.claims
        OBVIOUS
  <2>. HIDE DEF r
  <2>4. Shut(x)' <=> Shut(x)
        BY <2>1 DEF registers, Shut, Covering
  <2>5. Admitted(h)'
    <3>1. PICK y : y = x
          OBVIOUS
    <3>2. (~Shut(y) \/ despite) /\ (Shut(y)' <=> Shut(y)) /\ req'[h].section = y
          /\ req'[h].despite = despite
          BY <2>1, <2>3, <2>4, <3>1
    <3>. QED BY <2>1, <3>2 DEF Admitted, Shut, Covering
  <2>6. Submits(h)' /\ Restates(h)' /\ AtDevice(h)'
        BY <2>1, <2>2, <2>3 DEF Submits, Restates, AtDevice
  <2>. QED BY <1>2, <2>1, <2>5, <2>6 DEF HoldsRegister
<1>4. ASSUME NEW k, BeginRelease(h, k) PROVE RegistersSound'
  <2>. DEFINE r == [claims |-> {Register(x) : x \in Sections} \cup {Row(s) : s \in Pupils},
                    holiday |-> k, classes |-> {}, left |-> Pupils]
  <2>1. pc'[h] = "release" /\ req'[h] = r /\ UNCHANGED registers
        BY <1>4 DEF BeginRelease, Begin, Disciplined
  <2>2. /\ DOMAIN r = {"claims", "holiday", "classes", "left"}
        /\ \A s \in r.left : Row(s) \in r.claims
        OBVIOUS
  <2>. HIDE DEF r
  <2>3. HoldsRegister(h)'
        BY <2>1, <2>2 DEF HoldsRegister, Submits, Admitted, Restates, AtDevice, Submitting
  <2>. QED BY <1>2, <2>1, <2>3
<1>5. ASSUME NEW s, BeginDevice(h, s) PROVE RegistersSound'
  <2>1. pc'[h] = "device" /\ Row(req'[h].pupil) \in req'[h].claims /\ UNCHANGED registers
        BY <1>5 DEF BeginDevice, Begin, Disciplined
  <2>2. HoldsRegister(h)'
        BY <2>1 DEF HoldsRegister, Submits, Admitted, Restates, AtDevice, Submitting
  <2>. QED BY <1>2, <2>1, <2>2
<1>6. ASSUME pc' = pc, req' = req PROVE HoldsRegister(h)'
      BY <1>0, <1>6 DEF HoldsRegister, Submits, Admitted, Restates, AtDevice, Submitting
<1>7. ASSUME NEW x \in Sections, NEW locked, SetLock(h, x, locked) PROVE RegistersSound'
  <2>1. /\ pc' = pc /\ req' = req /\ disturbed' = {Register(x)} \cap HeldByOthers(h)
        /\ sheet' = [sheet EXCEPT ![x].locked = locked] /\ x \in DOMAIN sheet
        /\ UNCHANGED <<row, holiday, listed, strayed>>
        BY <1>7 DEF SetLock, Once
  <2>2. /\ DOMAIN sheet' = DOMAIN sheet
        /\ \A y \in DOMAIN sheet \ {x} : sheet'[y] = sheet[y]
        /\ sheet'[x] = [sheet[x] EXCEPT !.locked = locked]
        BY <2>1
  <2>3. /\ DOMAIN sheet[x] = {"total", "count", "locked"}
        BY <2>1 DEF RegistersSound, RowsTyped
  <2>4. /\ DOMAIN sheet'[x] = {"total", "count", "locked"}
        /\ sheet'[x].total = sheet[x].total /\ sheet'[x].count = sheet[x].count
        BY <2>2, <2>3
  <2>5. RowsTyped'
        BY <2>1, <2>2, <2>4 DEF RegistersSound, RowsTyped
  <2>6. \A y \in Sections : Summed(y)'
        BY <1>1, <2>1, <2>2, <2>4
  <2>7. ASSUME NEW y \in Sections, Register(y) \in HeldByOthers(h) \ disturbed'
        PROVE  (Locked(y)' => Locked(y)) /\ (Shut(y)' => Shut(y))
    <3>1. y # x
          BY <2>1, <2>7
    <3>. QED BY <2>1, <2>2, <3>1 DEF Locked, Shut, Covering
  <2>. QED BY <1>6, <2>1, <2>5, <2>6, <2>7, RegistersMoved
<1>8. ASSUME NEW k, NEW classes, NEW required, Declare(h, k, classes, required) \/ Withdraw(h, k)
      PROVE  RegistersSound'
  <2>1. /\ pc' = pc /\ req' = req /\ UNCHANGED <<row, sheet, listed, strayed>>
        /\ disturbed' = {Register(x) : x \in Sections} \cap HeldByOthers(h)
        BY <1>8 DEF Declare, Withdraw, Once
  <2>2. \A y \in Sections : Register(y) \in HeldByOthers(h) => Register(y) \in disturbed'
        BY <2>1
  <2>3. RowsTyped' /\ \A y \in Sections : Summed(y)'
        BY <1>1, <2>1 DEF RegistersSound, RowsTyped
  <2>. QED BY <1>6, <2>1, <2>2, <2>3, RegistersMoved
<1>. QED BY <1>3, <1>4, <1>5, <1>7, <1>8 DEF RegistersArrive

\* A step that touches no summary: rows of its own it may change, astray.
LEMMA RowsTouched ==
    ASSUME Disciplined, RegistersSound, NEW h \in Desks, Moves(h, RegistersCalls),
           UNCHANGED <<sheet, holiday, listed>>, RowsTyped', HoldsRegister(h)',
           strayed \subseteq strayed',
           \A s \in DOMAIN row :
             \/ s \in DOMAIN row' /\ row'[s] = row[s]
             \/ Row(s) \in req[h].claims /\ \A x \in Sections : <<x, s>> \in strayed'
    PROVE  RegistersSound'
<1>1. disturbed \subseteq disturbed'
      BY DEF Moves
<1>2. ASSUME NEW x \in Sections PROVE Summed(x)'
  <2>1. CASE x \in DOMAIN sheet
        BY <1>1, <1>2, <2>1, SummedOn DEF RegistersSound
  <2>2. CASE x \notin DOMAIN sheet
        BY <2>2 DEF Summed
  <2>. QED BY <2>1, <2>2
<1>3. ASSUME NEW s, Row(s) \in HeldByOthers(h) \ disturbed', s \in DOMAIN row
      PROVE  s \in DOMAIN row' /\ row'[s] = row[s]
      BY <1>1, <1>3, OwnOnly
<1>4. ASSUME NEW x PROVE (Locked(x)' => Locked(x)) /\ (Shut(x)' => Shut(x))
      BY DEF Locked, Shut, Covering
<1>. QED BY <1>2, <1>3, <1>4, RegistersMoved

LEMMA CheckLockSound ==
    ASSUME Disciplined, RegistersSound, NEW h \in Desks, Moves(h, RegistersCalls),
           CheckLock(h) \/ ReadHoliday(h)
    PROVE  RegistersSound'
<1>1. UNCHANGED <<row, sheet, holiday, listed, strayed>> /\ RowsTyped'
      BY DEF CheckLock, ReadHoliday, registers, RegistersSound, RowsTyped
<1>2. CASE CheckLock(h) /\ RefusedAt(req[h].section, req[h])
  <2>1. pc'[h] = "idle"
        BY <1>2 DEF CheckLock, Finish, Leave, Disciplined
  <2>2. HoldsRegister(h)'
        BY <2>1 DEF HoldsRegister, Submits, Admitted, Restates, AtDevice, Submitting
  <2>. QED BY <1>1, <2>2, RowsTouched
<1>3. CASE CheckLock(h) /\ ~RefusedAt(req[h].section, req[h])
  <2>1. /\ pc[h] = "lock?" /\ pc'[h] = "rows" /\ req' = req /\ disturbed' = disturbed
        /\ HoldsRegister(h) /\ (Locked(req[h].section) => req[h].admin)
        BY <1>3 DEF CheckLock, Goto, RefusedAt, Disciplined, RegistersSound
  <2>2. Submits(h)'
    <3>1. ASSUME NEW s PROVE RowDone(h, s)' <=> RowDone(h, s)
          BY <1>1, <2>1 DEF RowDone
    <3>. QED BY <2>1, <3>1 DEF HoldsRegister, Submits, Submitting
  <2>3. Admitted(h)'
        BY <1>1, <2>1 DEF HoldsRegister, Admitted, Shut, Covering, Locked
  <2>4. HoldsRegister(h)'
        BY <2>1, <2>2, <2>3 DEF HoldsRegister, Restates, AtDevice
  <2>. QED BY <1>1, <2>4, RowsTouched
<1>4. CASE ReadHoliday(h)
  <2>1. PICK v : v = holiday[req[h].holiday].classes
        OBVIOUS
  <2>. DEFINE r == [req[h] EXCEPT !.classes = v]
  <2>2. pc[h] = "release" /\ pc'[h] = "restate" /\ req'[h] = r /\ HoldsRegister(h)
        BY <1>4, <2>1 DEF ReadHoliday, Carry, Disciplined, RegistersSound
  <2>3. /\ DOMAIN r = {"claims", "holiday", "classes", "left"}
        /\ \A s \in r.left : Row(s) \in r.claims
        BY <2>2 DEF HoldsRegister, Restates
  <2>. HIDE DEF r
  <2>4. HoldsRegister(h)'
        BY <2>2, <2>3 DEF HoldsRegister, Submits, Admitted, Restates, AtDevice, Submitting
  <2>. QED BY <1>1, <2>4, RowsTouched
<1>. QED BY <1>2, <1>3, <1>4

LEMMA MarkRowSound ==
    ASSUME Disciplined, RegistersSound, NEW h \in Desks, Moves(h, RegistersCalls),
           MarkRow(h)
    PROVE  RegistersSound'
<1>1. /\ pc[h] = "rows" /\ UNCHANGED <<sheet, holiday, listed>> /\ HoldsRegister(h)
      BY DEF MarkRow, RegistersSound
<1>2. PICK s \in req[h].left :
        /\ row' = With(row, s, [section |-> req[h].section,
                                status |-> req[h].entries[s], remark |-> ""])
        /\ strayed' = strayed \cup (Sections \X {s})
        /\ Carry(h, IF req[h].left = {s} THEN "sheet" ELSE "rows",
                 [req[h] EXCEPT !.left = req[h].left \ {s}])
      BY DEF MarkRow
<1>. DEFINE r == [req[h] EXCEPT !.left = req[h].left \ {s}]
            new == [section |-> req[h].section, status |-> req[h].entries[s], remark |-> ""]
<1>3. /\ pc'[h] = (IF req[h].left = {s} THEN "sheet" ELSE "rows") /\ req'[h] = r
      /\ disturbed' = disturbed
      BY <1>2 DEF Carry, Disciplined
<1>4. /\ DOMAIN req[h] = {"claims", "section", "entries", "left", "admin", "despite"}
      /\ req[h].section \in Sections /\ Register(req[h].section) \in req[h].claims
      /\ \A u \in DOMAIN req[h].entries : Row(u) \in req[h].claims
      /\ req[h].left \subseteq DOMAIN req[h].entries
      /\ \A u \in DOMAIN req[h].entries \ req[h].left : RowDone(h, u)
      BY <1>1 DEF HoldsRegister, Submits, Submitting
<1>5. /\ DOMAIN r = DOMAIN req[h] /\ r.section = req[h].section /\ r.claims = req[h].claims
      /\ r.entries = req[h].entries /\ r.left = req[h].left \ {s}
      /\ r.admin = req[h].admin /\ r.despite = req[h].despite
      BY <1>4
<1>6. /\ DOMAIN row' = DOMAIN row \cup {s} /\ row'[s] = new
      /\ \A u \in DOMAIN row \ {s} : row'[u] = row[u]
      BY <1>2 DEF With
<1>7. DOMAIN new = {"section", "status", "remark"} /\ new.status = req[h].entries[s]
      OBVIOUS
<1>. HIDE DEF r, new
<1>8. RowsTyped'
      BY <1>1, <1>6, <1>7 DEF RegistersSound, RowsTyped
<1>9. Submits(h)'
  <2>1. ASSUME NEW u \in DOMAIN r.entries \ r.left PROVE RowDone(h, u)'
    <3>1. CASE u = s
          BY <1>3, <1>5, <1>6, <1>7, <3>1 DEF RowDone
    <3>2. CASE u # s
      <4>1. RowDone(h, u)
            BY <1>4, <1>5, <2>1, <3>2
      <4>. QED BY <1>3, <1>5, <1>6, <3>2, <4>1 DEF RowDone
    <3>. QED BY <3>1, <3>2
  <2>2. /\ r.left \subseteq DOMAIN r.entries /\ pc'[h] # "lock?"
        /\ pc'[h] = "sheet" => r.left = {}
        BY <1>3, <1>4, <1>5
  <2>. QED BY <1>3, <1>4, <1>5, <2>1, <2>2 DEF Submits
<1>10. Admitted(h)'
       BY <1>1, <1>3, <1>5 DEF HoldsRegister, Admitted, Shut, Covering, Locked
<1>11. HoldsRegister(h)'
       BY <1>3, <1>9, <1>10 DEF HoldsRegister, Restates, AtDevice
<1>12. ASSUME NEW u \in DOMAIN row
       PROVE  \/ u \in DOMAIN row' /\ row'[u] = row[u]
              \/ Row(u) \in req[h].claims /\ \A x \in Sections : <<x, u>> \in strayed'
       BY <1>2, <1>4, <1>6
<1>. QED BY <1>1, <1>2, <1>8, <1>11, <1>12, RowsTouched

LEMMA RestateSound ==
    ASSUME Disciplined, RegistersSound, NEW h \in Desks, Moves(h, RegistersCalls),
           RestateRow(h) \/ DeviceMarks(h)
    PROVE  RegistersSound'
<1>1. CASE RestateRow(h)
  <2>1. /\ pc[h] = "restate" /\ UNCHANGED <<sheet, holiday, listed>> /\ HoldsRegister(h)
        BY <1>1 DEF RestateRow, RegistersSound
  <2>2. PICK s \in req[h].left :
          /\ IF InConflict(s, req[h].classes)
             THEN /\ row' = [row EXCEPT ![s].status = "holiday", ![s].remark = "Holiday"]
                  /\ strayed' = strayed \cup (Sections \X {s})
             ELSE UNCHANGED <<row, strayed>>
          /\ IF req[h].left = {s} THEN Finish(h)
             ELSE Carry(h, "restate", [req[h] EXCEPT !.left = req[h].left \ {s}])
        BY <1>1 DEF RestateRow
  <2>3. /\ DOMAIN req[h] = {"claims", "holiday", "classes", "left"}
        /\ \A u \in req[h].left : Row(u) \in req[h].claims
        BY <2>1 DEF HoldsRegister, Restates
  <2>4. HoldsRegister(h)'
    <3>1. CASE req[h].left = {s}
      <4>1. pc'[h] = "idle"
            BY <2>2, <3>1 DEF Finish, Leave, Disciplined
      <4>. QED BY <4>1 DEF HoldsRegister, Submits, Admitted, Restates, AtDevice, Submitting
    <3>2. CASE req[h].left # {s}
      <4>. DEFINE r == [req[h] EXCEPT !.left = req[h].left \ {s}]
      <4>1. pc'[h] = "restate" /\ req'[h] = r
            BY <2>2, <3>2 DEF Carry, Disciplined
      <4>2. /\ DOMAIN r = {"claims", "holiday", "classes", "left"}
            /\ \A u \in r.left : Row(u) \in r.claims
            BY <2>3
      <4>. HIDE DEF r
      <4>. QED BY <4>1, <4>2 DEF HoldsRegister, Submits, Admitted, Restates, AtDevice,
                                 Submitting
    <3>. QED BY <3>1, <3>2
  <2>5. /\ DOMAIN row' = DOMAIN row /\ \A u \in DOMAIN row \ {s} : row'[u] = row[u]
        /\ \A u \in DOMAIN row : DOMAIN row'[u] = DOMAIN row[u]
    <3>1. CASE InConflict(s, req[h].classes)
      <4>1. DOMAIN row' = DOMAIN row /\ \A u \in DOMAIN row \ {s} : row'[u] = row[u]
            BY <2>2, <3>1
      <4>2. ASSUME s \in DOMAIN row PROVE DOMAIN row'[s] = DOMAIN row[s]
            BY <2>2, <3>1, <4>2
      <4>. QED BY <4>1, <4>2
    <3>2. CASE ~InConflict(s, req[h].classes)
          BY <2>2, <3>2
    <3>. QED BY <3>1, <3>2
  <2>6. RowsTyped'
        BY <2>1, <2>5 DEF RegistersSound, RowsTyped
  <2>7. strayed \subseteq strayed' /\ (row' = row \/ strayed' = strayed \cup (Sections \X {s}))
        BY <2>2
  <2>8. ASSUME NEW u \in DOMAIN row
        PROVE  \/ u \in DOMAIN row' /\ row'[u] = row[u]
               \/ Row(u) \in req[h].claims /\ \A x \in Sections : <<x, u>> \in strayed'
        BY <2>3, <2>5, <2>7
  <2>. QED BY <2>1, <2>4, <2>6, <2>7, <2>8, RowsTouched
<1>2. CASE DeviceMarks(h)
  <2>1. /\ pc[h] = "device" /\ UNCHANGED <<sheet, holiday, listed>> /\ HoldsRegister(h)
        /\ strayed' = strayed \cup (Sections \X {req[h].pupil}) /\ pc'[h] = "idle"
        BY <1>2 DEF DeviceMarks, RegistersSound, Finish, Leave, Disciplined
  <2>2. PICK s, x, v : /\ s = req[h].pupil
                       /\ row' = With(row, s, [section |-> x, status |-> v,
                                               remark |-> "Biometric"])
        BY <1>2 DEF DeviceMarks
  <2>3. Row(s) \in req[h].claims
        BY <2>1, <2>2 DEF HoldsRegister, AtDevice
  <2>4. /\ DOMAIN row' = DOMAIN row \cup {s} /\ \A u \in DOMAIN row \ {s} : row'[u] = row[u]
        /\ row'[s] = [section |-> x, status |-> v, remark |-> "Biometric"]
        BY <2>2 DEF With
  <2>5. DOMAIN row'[s] = {"section", "status", "remark"}
        BY <2>4
  <2>6. RowsTyped'
        BY <2>1, <2>4, <2>5 DEF RegistersSound, RowsTyped
  <2>7. HoldsRegister(h)'
        BY <2>1 DEF HoldsRegister, Submits, Admitted, Restates, AtDevice, Submitting
  <2>8. ASSUME NEW u \in DOMAIN row
        PROVE  \/ u \in DOMAIN row' /\ row'[u] = row[u]
               \/ Row(u) \in req[h].claims /\ \A y \in Sections : <<y, u>> \in strayed'
        BY <2>1, <2>2, <2>3, <2>4
  <2>. QED BY <2>1, <2>6, <2>7, <2>8, RowsTouched
<1>. QED BY <1>1, <1>2

LEMMA StoreSheetSound ==
    ASSUME Disciplined, RegistersSound, NEW h \in Desks, Moves(h, RegistersCalls),
           StoreSheet(h)
    PROVE  RegistersSound'
<1>1. PICK x, entries : x = req[h].section /\ entries = req[h].entries
      OBVIOUS
<1>2. /\ pc[h] = "sheet" /\ pc'[h] = "idle" /\ UNCHANGED <<row, holiday>>
      /\ sheet' = With(sheet, x, Sheet(x, entries))
      /\ listed' = [listed EXCEPT ![x] = DOMAIN entries]
      /\ strayed' = strayed \ ({x} \X DOMAIN entries)
      /\ disturbed' = disturbed
      BY <1>1 DEF StoreSheet, Finish, Leave, Disciplined
<1>3. /\ x \in Sections /\ \A s \in DOMAIN entries : RowDone(h, s)
      BY <1>1, <1>2 DEF RegistersSound, HoldsRegister, Submits, Submitting
<1>4. PICK total, count, locked :
        /\ total = Cardinality(DOMAIN entries) /\ count = Tally(entries)
        /\ locked = Locked(x)
        /\ Sheet(x, entries) = [total |-> total, count |-> count, locked |-> locked]
      BY DEF Sheet
<1>5. /\ DOMAIN sheet' = DOMAIN sheet \cup {x}
      /\ sheet'[x] = [total |-> total, count |-> count, locked |-> locked]
      /\ \A y \in DOMAIN sheet \ {x} : sheet'[y] = sheet[y]
      BY <1>2, <1>4 DEF With
<1>6. /\ DOMAIN sheet'[x] = {"total", "count", "locked"} /\ sheet'[x].total = total
      /\ sheet'[x].count = count /\ sheet'[x].locked = locked
      BY <1>5
<1>7. /\ DOMAIN listed' = Sections /\ listed'[x] = DOMAIN entries
      /\ \A y \in Sections \ {x} : listed'[y] = listed[y]
      BY <1>2, <1>3 DEF RegistersSound, RowsTyped
<1>8. RowsTyped'
      BY <1>2, <1>3, <1>5, <1>6, <1>7 DEF RegistersSound, RowsTyped
<1>9. Summed(x)'
  <2>1. SUFFICES ASSUME \A s \in DOMAIN entries : Row(s) \notin disturbed
                 PROVE  /\ DOMAIN entries \subseteq DOMAIN row
                        /\ \A m \in Counted : count[m]
                             = Cardinality({s \in DOMAIN entries : row[s].status = m})
        BY ZenonT(40), <1>2, <1>4, <1>6, <1>7 DEF Summed
  <2>2. \A s \in DOMAIN entries : s \in DOMAIN row /\ row[s].status = entries[s]
        BY <1>1, <1>3, <2>1 DEF RowDone
  <2>3. ASSUME NEW m \in Counted
        PROVE  {s \in DOMAIN entries : entries[s] = m}
                 = {s \in DOMAIN entries : row[s].status = m}
        BY <2>2
  <2>. QED BY <1>4, <2>2, <2>3 DEF Tally
<1>10. ASSUME NEW y \in Sections, y # x PROVE Summed(y)'
  <2>1. Summed(y) /\ \A s : <<y, s>> \notin strayed' => <<y, s>> \notin strayed
        BY <1>2, <1>10 DEF RegistersSound
  <2>2. CASE y \in DOMAIN sheet
        BY <1>2, <1>5, <1>7, <1>10, <2>1, <2>2, SummedOn
  <2>3. CASE y \notin DOMAIN sheet
        BY <1>5, <1>10, <2>3 DEF Summed
  <2>. QED BY <2>2, <2>3
<1>11. ASSUME NEW y \in Sections PROVE (Locked(y)' => Locked(y)) /\ (Shut(y)' => Shut(y))
  <2>1. CASE y = x
        BY <1>2, <1>4, <1>6, <2>1 DEF Locked, Shut, Covering
  <2>2. CASE y # x
        BY <1>2, <1>5, <2>2 DEF Locked, Shut, Covering
  <2>. QED BY <2>1, <2>2
<1>12. HoldsRegister(h)'
       BY <1>2 DEF HoldsRegister, Submits, Admitted, Restates, AtDevice, Submitting
<1>. QED BY <1>2, <1>8, <1>9, <1>10, <1>11, <1>12, RegistersMoved

LEMMA RegistersStepSound ==
    ASSUME Disciplined, RegistersSound, NEW h \in Desks, RegistersStep(h)
    PROVE  RegistersSound'
BY RegistersMoves, RegistersArriveSound, CheckLockSound, MarkRowSound, RestateSound,
   StoreSheetSound DEF RegistersStep, RegistersResume

LEMMA RegistersAlways == Spec => [](Disciplined /\ RegistersSound)
<1>1. Init => Disciplined /\ RegistersSound
      BY DisciplineStarts, RegistersStart
<1>2. Disciplined /\ RegistersSound /\ [Next]_vars => (Disciplined /\ RegistersSound)'
      BY DisciplineKept, NextPasses, RegistersPassed, RegistersStepSound DEF NextIsTheirs
<1>. QED BY <1>1, <1>2, PTL DEF Spec

\* What a register's page shows, its summary, and what reports add up, the
\* rows it was written with, agree until a row is written by other means: if
\* no two requests met on it and none that is about it failed.
THEOREM SheetsAgreeWithRows == Spec => []SheetSaysRows
<1>1. RegistersSound => SheetSaysRows
      BY DEF RegistersSound, RowsTyped, Summed, SheetSaysRows, Calm
<1>. QED BY <1>1, RegistersAlways, PTL

-----------------------------------------------------------------------------
\* What a teacher writes by hand.
ByHand(x, s) == /\ row'[s].section = x /\ row'[s].remark = ""
                /\ s \in DOMAIN row => row[s] # row'[s]

MayWrite(x) == \E h \in Desks : /\ pc[h] = "rows" /\ req[h].section = x
                                /\ Locked(x) => req[h].admin
                                /\ Shut(x) => req[h].despite

WrittenByRight == \A x \in Sections : Register(x) \notin disturbed' =>
                    \A s \in DOMAIN row' : ByHand(x, s) => MayWrite(x)

LEMMA WrittenSo ==
    ASSUME Disciplined, RegistersSound, NEW h \in Desks, RegistersStep(h)
    PROVE  WrittenByRight \/ UNCHANGED row
<1>1. CASE MarkRow(h)
  <2>1. SUFFICES ASSUME NEW x \in Sections, Register(x) \notin disturbed',
                        NEW s \in DOMAIN row', ByHand(x, s)
                 PROVE  MayWrite(x)
        BY DEF WrittenByRight
  <2>2. pc[h] = "rows" /\ HoldsRegister(h) /\ disturbed' = disturbed
        BY <1>1 DEF MarkRow, Carry, RegistersSound
  <2>3. PICK u, v : row' = With(row, u, [section |-> req[h].section, status |-> v,
                                         remark |-> ""])
        BY <1>1 DEF MarkRow
  <2>4. s = u /\ req[h].section = x
    <3>1. DOMAIN row' = DOMAIN row \cup {u} /\ \A w \in DOMAIN row \ {u} : row'[w] = row[w]
          BY <2>3 DEF With
    <3>2. s = u
          BY <2>1, <3>1 DEF ByHand
    <3>3. PICK k : k = req[h].section
          OBVIOUS
    <3>4. PICK r : r = row'[u]
          OBVIOUS
    <3>5. r = [section |-> k, status |-> v, remark |-> ""]
          BY <2>3, <3>3, <3>4 DEF With
    <3>6. r.section = k
          BY <3>5
    <3>. QED BY <2>1, <3>2, <3>3, <3>4, <3>6 DEF ByHand
  <2>5. (Locked(x) => req[h].admin) /\ (Shut(x) => req[h].despite)
        BY <2>1, <2>2, <2>4 DEF HoldsRegister, Admitted
  <2>. QED BY <2>2, <2>4, <2>5 DEF MayWrite
<1>2. CASE RestateRow(h)
  <2>1. PICK u : row' = row \/ row' = [row EXCEPT ![u].status = "holiday",
                                                  ![u].remark = "Holiday"]
        BY <1>2 DEF RestateRow
  <2>2. ASSUME NEW x, NEW s \in DOMAIN row', ByHand(x, s), row' # row PROVE FALSE
    <3>1. DOMAIN row' = DOMAIN row /\ \A w \in DOMAIN row \ {u} : row'[w] = row[w]
          BY <2>1, <2>2
    <3>2. s = u /\ s \in DOMAIN row
          BY <2>2, <3>1 DEF ByHand
    <3>3. DOMAIN row[s] = {"section", "status", "remark"}
          BY <3>2 DEF RegistersSound, RowsTyped
    <3>4. row'[s].remark = "Holiday"
          BY ZenonT(40), <2>1, <2>2, <3>2, <3>3
    <3>. QED BY <2>2, <3>4 DEF ByHand
  <2>. QED BY <2>2 DEF WrittenByRight
<1>3. CASE DeviceMarks(h)
  <2>1. PICK u, k, v : row' = With(row, u, [section |-> k, status |-> v,
                                            remark |-> "Biometric"])
        BY <1>3 DEF DeviceMarks
  <2>2. ASSUME NEW x, NEW s \in DOMAIN row', ByHand(x, s) PROVE FALSE
    <3>1. DOMAIN row' = DOMAIN row \cup {u} /\ \A w \in DOMAIN row \ {u} : row'[w] = row[w]
          BY <2>1 DEF With
    <3>2. s = u
          BY <2>2, <3>1 DEF ByHand
    <3>3. row'[s] = [section |-> k, status |-> v, remark |-> "Biometric"]
          BY <2>1, <3>2 DEF With
    <3>4. row'[s].remark = "Biometric"
          BY <3>3
    <3>. QED BY <2>2, <3>4 DEF ByHand
  <2>. QED BY <2>2 DEF WrittenByRight
<1>4. CASE RegistersArrive(h) \/ CheckLock(h) \/ StoreSheet(h) \/ ReadHoliday(h)
      BY <1>4 DEF RegistersArrive, BeginRegister, SetLock, Declare, Withdraw, BeginRelease,
                  BeginDevice, CheckLock, StoreSheet, ReadHoliday, registers
<1>. QED BY <1>1, <1>2, <1>3, <1>4 DEF RegistersStep, RegistersResume

\* A teacher's mark in a locked register is an administrator's, and on a day
\* the class is shut it is made by one who said so: unless the lock or the
\* holiday met the submission.
THEOREM LocksAndClosuresHold == Spec => LockAndClosureHold
<1>1. Disciplined /\ RegistersSound /\ [Next]_vars => [WrittenByRight]_row
  <2>1. CASE Disciplined /\ RegistersSound /\ [Next]_vars /\ ~(\E h \in Desks : RegistersStep(h))
        BY <2>1, NextPasses DEF NextIsTheirs, registers
  <2>. QED BY <2>1, WrittenSo
<1>2. [WrittenByRight]_row <=>
        [\A x \in Sections : Register(x) \notin disturbed' =>
           \A s \in DOMAIN row' :
             row'[s].section = x /\ row'[s].remark = ""
             /\ (s \in DOMAIN row => row[s] # row'[s]) =>
               \E h \in Desks : /\ pc[h] = "rows" /\ req[h].section = x
                                /\ Locked(x) => req[h].admin
                                /\ Shut(x) => req[h].despite]_row
      BY DEF WrittenByRight, ByHand, MayWrite
<1>. QED BY <1>1, <1>2, RegistersAlways, PTL DEF Spec, LockAndClosureHold

-----------------------------------------------------------------------------
(* The platform.  What every request of it holds: the process it runs on,  *)
(* the institution it is about, and the change it is to write.             *)

TenantFields == {"slug", "dedicated", "year", "plan", "modules", "status", "sub"}

Founding == {"seed role", "insert owner", "count owner", "insert year", "set year",
             "seed defaults", "insert subscription", "hand over"}
Changing == {"look up plan", "weigh", "write tenant", "upsert subscription",
             "end subscriptions", "forget"}

ChangeShaped(then, change) ==
    /\ "year" \notin DOMAIN change /\ "slug" \notin DOMAIN change
    /\ "plan" \in DOMAIN change => "modules" \in DOMAIN change
    /\ "dedicated" \in DOMAIN change => change.dedicated = TRUE
    /\ then = "upsert subscription" => DOMAIN change = {"plan", "status", "sub", "modules"}
    /\ then = "end subscriptions" => "dedicated" \in DOMAIN change
    /\ then = "answer owner" => DOMAIN change = {"modules"}
    /\ then = "forget" => DOMAIN change \subseteq {"status", "sub", "modules"}

DocShaped(doc) == DOMAIN doc = TenantFields /\ doc.dedicated \in BOOLEAN /\ doc.year \in BOOLEAN

PlatformDesk(h) ==
    /\ pc[h] \in Looking =>
         {"worker", "key", "then"} \subseteq DOMAIN req[h] /\ req[h].worker \in Workers
    /\ pc[h] = "remember" =>
         req[h].inst \in DOMAIN tenant /\ Inst(req[h].inst) \in req[h].claims
    /\ pc[h] \in Founding \cup Changing =>
         /\ req[h].inst \in DOMAIN tenant /\ Inst(req[h].inst) \in req[h].claims
         /\ req[h].worker \in Workers
    /\ pc[h] = "look up plan" => Plan(req[h].plan) \in req[h].claims
    /\ pc[h] = "write tenant" => ChangeShaped(req[h].then, req[h].change)
    /\ pc[h] = "insert tenant" =>
         /\ req[h].inst \in Institutions \ DOMAIN tenant
         /\ Inst(req[h].inst) \in req[h].claims
         /\ req[h].worker \in Workers /\ DocShaped(req[h].doc) /\ ~req[h].doc.year

InsertsApart == \A g, h \in Desks :
    g # h /\ pc[g] = "insert tenant" /\ pc[h] = "insert tenant" => req[g].inst # req[h].inst

\* What process w remembers.
Recalled(w) == {cache[w][k] : k \in DOMAIN cache[w]}

RecallShaped == \A w \in Workers : \A e \in Recalled(w) : e.inst \in DOMAIN tenant

PlatformShaped ==
    /\ RecallShaped
    /\ \A i \in DOMAIN tenant : DocShaped(tenant[i])
    /\ DOMAIN subs = DOMAIN tenant /\ DOMAIN granted = DOMAIN tenant
    /\ DOMAIN kit = DOMAIN tenant /\ DOMAIN cache = Workers
    /\ InsertsApart
    /\ \A h \in Desks : PlatformDesk(h)

-----------------------------------------------------------------------------
LEMMA NewTenantShaped ==
    ASSUME NEW s, NEW p, NEW dedicated \in BOOLEAN, NEW chosen
    PROVE  /\ DocShaped(NewTenant(s, p, dedicated, chosen))
           /\ ~NewTenant(s, p, dedicated, chosen).year
           /\ NewTenant(s, p, dedicated, chosen).dedicated = dedicated
BY DEF NewTenant, DocShaped, TenantFields

LEMMA AmendedShaped ==
    ASSUME NEW doc, DocShaped(doc), NEW change,
           "year" \in DOMAIN change => change.year \in BOOLEAN,
           "dedicated" \in DOMAIN change => change.dedicated \in BOOLEAN
    PROVE  /\ DocShaped(Amended(doc, change))
           /\ \A c \in TenantFields :
                Amended(doc, change)[c] = IF c \in DOMAIN change THEN change[c] ELSE doc[c]
BY DEF DocShaped, TenantFields, Amended

LEMMA PlatformStart == ASSUME Init PROVE PlatformShaped
<1>. DEFINE new == NewTenant(Founded.slug, Founded.plan, FALSE, {})
            doc == [new EXCEPT !.year = TRUE]
<1>1. DocShaped(doc)
  <2>1. DocShaped(new)
        BY NewTenantShaped
  <2>. HIDE DEF new
  <2>. QED BY <2>1 DEF DocShaped, TenantFields
<1>2. /\ tenant = [i \in {Founded.inst} |-> doc]
      /\ DOMAIN granted = {Founded.inst} /\ DOMAIN kit = {Founded.inst}
      /\ DOMAIN subs = {Founded.inst} /\ DOMAIN cache = Workers
      /\ pc = [h \in Desks |-> "idle"]
      BY DEF Init, PlatformInit, RequestsInit
<1>. HIDE DEF doc
<1>3. InsertsApart
      BY <1>2 DEF InsertsApart
<1>4. ASSUME NEW h \in Desks PROVE PlatformDesk(h)
      BY <1>2 DEF PlatformDesk, Looking, Founding, Changing
<1>5. RecallShaped
  <2>1. \A w \in Workers : cache[w] = Nothing
        BY DEF Init, PlatformInit
  <2>. QED BY <2>1 DEF RecallShaped, Recalled, Nothing
<1>. QED BY <1>1, <1>2, <1>3, <1>4, <1>5 DEF PlatformShaped

\* The requests a step does not move.
LEMMA OtherDesks ==
    ASSUME PlatformShaped, DOMAIN tenant \subseteq DOMAIN tenant',
           NEW g \in Desks, pc'[g] = pc[g], req'[g] = req[g],
           pc[g] = "insert tenant" => req[g].inst \notin DOMAIN tenant'
    PROVE  PlatformDesk(g)'
BY DEF PlatformShaped, PlatformDesk

LEMMA PlatformPassed ==
    ASSUME Disciplined, PlatformShaped, Passes(PlatformCalls),
           UNCHANGED <<tenant, cache, subs, granted, kit>>
    PROVE  PlatformShaped'
<1>1. ASSUME NEW h \in Desks PROVE PlatformDesk(h)'
  <2>1. CASE pc'[h] \in PlatformCalls
    <3>1. pc'[h] = pc[h] /\ req'[h] = req[h]
          BY <2>1 DEF Passes
    <3>. QED BY <3>1, OtherDesks DEF PlatformShaped, PlatformDesk
  <2>2. CASE pc'[h] \notin PlatformCalls
        BY <2>2 DEF PlatformDesk, PlatformCalls, Looking, Founding, Changing
  <2>. QED BY <2>1, <2>2
<1>2. InsertsApart'
  <2>1. \A h \in Desks : pc'[h] = "insert tenant" =>
          pc[h] = "insert tenant" /\ req'[h] = req[h]
        BY DEF Passes, PlatformCalls
  <2>. QED BY <2>1 DEF PlatformShaped, InsertsApart
<1>3. RecallShaped'
      BY DEF PlatformShaped, RecallShaped, Recalled
<1>. QED BY <1>1, <1>2, <1>3 DEF PlatformShaped

\* A step that founds nothing is sound if it leaves its own request in shape.
LEMMA PlatformMoved ==
    ASSUME Disciplined, PlatformShaped, NEW h \in Desks, Moves(h, PlatformCalls),
           DOMAIN tenant' = DOMAIN tenant, \A i \in DOMAIN tenant : DocShaped(tenant'[i]),
           DOMAIN subs' = DOMAIN subs, DOMAIN granted' = DOMAIN granted,
           DOMAIN kit' = DOMAIN kit, DOMAIN cache' = DOMAIN cache,
           cache' = cache \/ RecallShaped',
           PlatformDesk(h)',
           pc'[h] = "insert tenant" =>
             \A g \in Desks \ {h} : pc[g] = "insert tenant" => req[g].inst # req'[h].inst
    PROVE  PlatformShaped'
<1>1. \A g \in Desks \ {h} : pc'[g] = pc[g] /\ req'[g] = req[g]
      BY DEF Moves, Disciplined
<1>2. ASSUME NEW g \in Desks PROVE PlatformDesk(g)'
  <2>1. CASE g = h
        BY <2>1
  <2>2. CASE g # h
    <3>1. pc[g] = "insert tenant" => req[g].inst \notin DOMAIN tenant'
          BY DEF PlatformShaped, PlatformDesk
    <3>. QED BY <1>1, <2>2, <3>1, OtherDesks
  <2>. QED BY <2>1, <2>2
<1>3. InsertsApart'
      BY <1>1 DEF PlatformShaped, InsertsApart
<1>4. RecallShaped'
      BY DEF PlatformShaped, RecallShaped, Recalled
<1>. QED BY <1>2, <1>3, <1>4 DEF PlatformShaped

\* Going on to another call about the same institution, or ending.
LEMMA DeskGoesOn ==
    ASSUME Disciplined, PlatformShaped, NEW h \in Desks, pc[h] \in Founding \cup Changing,
           NEW call \in (Founding \cup Changing) \ {"write tenant", "look up plan"},
           Goto(h, call), DOMAIN tenant' = DOMAIN tenant
    PROVE  PlatformDesk(h)'
<1>1. pc'[h] = call /\ req' = req
      BY DEF Goto, Disciplined
<1>. QED BY <1>1 DEF PlatformShaped, PlatformDesk, Founding, Changing, Looking

LEMMA DeskIdle == ASSUME NEW h \in Desks, pc'[h] = "idle" PROVE PlatformDesk(h)'
BY DEF PlatformDesk, Founding, Changing, Looking

-----------------------------------------------------------------------------
LEMMA ArriveShaped ==
    ASSUME Disciplined, PlatformShaped, NEW h \in Desks, PlatformArrive(h),
           Moves(h, PlatformCalls)
    PROVE  PlatformShaped'
<1>. USE DEF Founding, Changing, Looking
<1>1. ASSUME NEW op, NEW w \in Workers, NEW i, NEW change, UNCHANGED founding,
             DOMAIN change \subseteq {"status", "sub", "modules"},
             BeginWrite(h, op, w, i, change)
      PROVE  PlatformShaped'
  <2>. DEFINE r == [claims |-> {Inst(i)}, worker |-> w, inst |-> i, change |-> change,
                    then |-> "forget"]
  <2>1. /\ pc'[h] = "write tenant" /\ req'[h] = r /\ i \in DOMAIN tenant
        /\ UNCHANGED <<tenancy, commerce>>
        BY <1>1 DEF BeginWrite, Begin, Disciplined
  <2>2. Inst(i) \in r.claims /\ r.worker = w /\ r.inst = i /\ r.change = change
        /\ r.then = "forget"
        OBVIOUS
  <2>. HIDE DEF r
  <2>3. ChangeShaped("forget", change)
        BY <1>1 DEF ChangeShaped
  <2>4. PlatformDesk(h)'
        BY <1>1, <2>1, <2>2, <2>3 DEF PlatformDesk, tenancy
  <2>. QED BY <1>1, <2>1, <2>4, PlatformMoved DEF PlatformShaped, tenancy, commerce, founding
<1>2. ASSUME NEW w \in Workers, NEW i, UNCHANGED founding, Convert(h, w, i)
      PROVE  PlatformShaped'
  <2>. DEFINE change == [dedicated |-> TRUE, plan |-> "lifetime", status |-> "active",
                         sub |-> "lifetime", modules |-> Modules]
              r == [claims |-> {Inst(i)}, worker |-> w, inst |-> i, change |-> change,
                    then |-> "end subscriptions"]
  <2>1. /\ pc'[h] = "write tenant" /\ req'[h] = r /\ i \in DOMAIN tenant
        /\ UNCHANGED <<tenancy, commerce>>
        BY <1>2 DEF Convert, Begin, Disciplined
  <2>3. ChangeShaped("end subscriptions", change)
        BY DEF ChangeShaped
  <2>. HIDE DEF change
  <2>2. Inst(i) \in r.claims /\ r.worker = w /\ r.inst = i /\ r.change = change
        /\ r.then = "end subscriptions"
        OBVIOUS
  <2>. HIDE DEF r
  <2>4. PlatformDesk(h)'
        BY <1>2, <2>1, <2>2, <2>3 DEF PlatformDesk, tenancy
  <2>. QED BY <1>2, <2>1, <2>4, PlatformMoved DEF PlatformShaped, tenancy, commerce, founding
<1>3. ASSUME NEW w \in Workers, NEW i, NEW p, NEW lifetime, UNCHANGED founding,
             BeginSubscribe(h, w, i, p, lifetime)
      PROVE  PlatformShaped'
  <2>1. /\ pc'[h] = "look up plan" /\ req'[h].worker = w /\ req'[h].inst = i
        /\ req'[h].plan = p /\ req'[h].claims = {Inst(i), Plan(p)} /\ i \in DOMAIN tenant
        /\ UNCHANGED <<tenancy, commerce>>
        BY <1>3 DEF BeginSubscribe, Begin, Disciplined
  <2>2. PlatformDesk(h)'
        BY <1>3, <2>1 DEF PlatformDesk, tenancy
  <2>. QED BY <1>3, <2>1, <2>2, PlatformMoved DEF PlatformShaped, tenancy, commerce, founding
<1>4. ASSUME NEW w \in Workers, NEW i, UNCHANGED founding, ToInstitution(h, w, i)
      PROVE  PlatformShaped'
  <2>1. ASSUME NEW s, SetTenantStatus(h, w, i, s) PROVE PlatformShaped'
    <3>1. PICK change : DOMAIN change \subseteq {"status", "sub", "modules"}
                        /\ BeginWrite(h, "suspend", w, i, change)
      <4>1. CASE s = "cancelled"
            BY <2>1, <4>1 DEF SetTenantStatus
      <4>2. CASE s = "active"
            BY <2>1, <4>2 DEF SetTenantStatus
      <4>3. CASE s \notin {"cancelled", "active"}
            BY <2>1, <4>3 DEF SetTenantStatus
      <4>. QED BY <4>1, <4>2, <4>3
    <3>. QED BY <1>1, <1>4, <3>1
  <2>2. ASSUME NEW ms, UpdateTenant(h, w, i, ms) PROVE PlatformShaped'
    <3>. DEFINE change == [modules |-> ms]
    <3>1. DOMAIN change \subseteq {"status", "sub", "modules"}
          OBVIOUS
    <3>2. BeginWrite(h, "allow", w, i, change)
          BY <2>2 DEF UpdateTenant
    <3>. HIDE DEF change
    <3>. QED BY <1>1, <1>4, <3>1, <3>2
  <2>. QED BY <1>2, <1>3, <1>4, <2>1, <2>2 DEF ToInstitution
<1>5. ASSUME NEW p, NEW ms, UNCHANGED founding, UpsertPlan(h, p, ms) PROVE PlatformShaped'
  <2>1. /\ UNCHANGED <<pc, req, tenancy, subs>> /\ pc[h] = "idle"
        /\ DOMAIN granted' = DOMAIN granted
        BY <1>5 DEF UpsertPlan, Once, Asked, Open, Idle
  <2>. QED BY <1>5, <2>1, PlatformMoved, DeskIdle DEF PlatformShaped, tenancy, founding
<1>6. ASSUME NEW p, UNCHANGED founding, BeginRetire(h, p) PROVE PlatformShaped'
  <2>1. pc'[h] = "retire plan" /\ UNCHANGED <<tenancy, commerce>>
        BY <1>6 DEF BeginRetire, Begin, Disciplined
  <2>2. PlatformDesk(h)'
        BY <2>1 DEF PlatformDesk
  <2>. QED BY <1>6, <2>1, <2>2, PlatformMoved DEF PlatformShaped, tenancy, commerce, founding
<1>7. ASSUME NEW w \in Workers, NEW key, NEW m, UNCHANGED <<commerce, founding>>,
             BeginVisit(h, w, key, m) \/ BeginSwitch(h, w, key, m)
      PROVE  PlatformShaped'
  <2>1. /\ pc'[h] = "look up" /\ UNCHANGED tenancy /\ req'[h].worker = w
        /\ {"worker", "key", "then"} \subseteq DOMAIN req'[h]
    <3>1. CASE BeginVisit(h, w, key, m)
          BY <3>1 DEF BeginVisit, Begin, Disciplined
    <3>2. CASE BeginSwitch(h, w, key, m)
          BY <3>2 DEF BeginSwitch, Begin, Disciplined
    <3>. QED BY <1>7, <3>1, <3>2
  <2>2. PlatformDesk(h)'
        BY <1>7, <2>1 DEF PlatformDesk
  <2>. QED BY <1>7, <2>1, <2>2, PlatformMoved DEF PlatformShaped, tenancy, commerce, founding
<1>8. ASSUME NEW w \in Workers, NEW i \in Institutions, NEW s, NEW p,
             NEW dedicated \in BOOLEAN, NEW chosen,
             BeginProvision(h, w, i, s, p, dedicated, chosen)
      PROVE  PlatformShaped'
  <2>. DEFINE doc == NewTenant(s, p, dedicated, chosen)
              r == [claims |-> {Inst(i), BySlug(s)}, worker |-> w, inst |-> i, doc |-> doc]
  <2>1. DocShaped(doc) /\ ~doc.year
        BY NewTenantShaped
  <2>2. /\ pc'[h] = "insert tenant" /\ req'[h] = r /\ UNCHANGED platform
        /\ i \notin DOMAIN tenant /\ New(h, Inst(i))
        BY <1>8 DEF BeginProvision, Begin, Disciplined
  <2>. HIDE DEF doc
  <2>3. Inst(i) \in r.claims /\ r.worker = w /\ r.inst = i /\ r.doc = doc
        OBVIOUS
  <2>. HIDE DEF r
  <2>4. PlatformDesk(h)'
        BY <1>8, <2>1, <2>2, <2>3 DEF PlatformDesk, platform, tenancy
  <2>5. \A g \in Desks \ {h} : pc[g] = "insert tenant" => req[g].inst # i
        BY <2>2 DEF New, HeldByOthers, PlatformShaped, PlatformDesk
  <2>. QED BY <2>2, <2>3, <2>4, <2>5, PlatformMoved
           DEF PlatformShaped, platform, tenancy, commerce, founding
<1>. QED
  <2>1. ASSUME NEW w \in Workers, NEW i \in Institutions, NEW s, NEW o \in Orders,
               BeginProvision(h, w, i, s, o.plan, o.lifetime, o.chosen)
        PROVE  PlatformShaped'
        BY <1>8, <2>1, ProvisioningAssumption
  <2>. QED BY <1>4, <1>5, <1>6, <1>7, <2>1 DEF PlatformArrive

-----------------------------------------------------------------------------
LEMMA StoreShaped ==
    ASSUME Disciplined, PlatformShaped, NEW h \in Desks, NEW change, Store(h, change),
           pc[h] \in Founding, NEW call \in Founding, Goto(h, call), Moves(h, PlatformCalls)
    PROVE  PlatformShaped'
<1>1. /\ UNCHANGED <<tenancy, commerce, offered>> /\ DOMAIN kit' = DOMAIN kit
      /\ pc'[h] = call
      BY DEF Store, Goto, Disciplined
<1>2. PlatformDesk(h)'
      BY <1>1, DeskGoesOn DEF Founding, tenancy
<1>. QED BY <1>1, <1>2, PlatformMoved DEF PlatformShaped, tenancy, commerce, Founding

LEMMA AmendShaped ==
    ASSUME Disciplined, PlatformShaped, NEW h \in Desks, Moves(h, PlatformCalls),
           NEW w, NEW i \in DOMAIN tenant, NEW change, Amend(w, i, change),
           "year" \in DOMAIN change => change.year \in BOOLEAN,
           "dedicated" \in DOMAIN change => change.dedicated \in BOOLEAN,
           DOMAIN granted' = DOMAIN granted, UNCHANGED <<cache, subs, kit>>,
           pc[h] \in Founding \cup Changing,
           NEW call \in (Founding \cup Changing) \ {"write tenant", "look up plan"},
           Goto(h, call)
    PROVE  PlatformShaped'
<1>. DEFINE d == Amended(tenant[i], change)
<1>1. DocShaped(d)
      BY AmendedShaped DEF PlatformShaped
<1>2. tenant' = [tenant EXCEPT ![i] = d]
      BY DEF Amend
<1>. HIDE DEF d
<1>3. DOMAIN tenant' = DOMAIN tenant /\ \A k \in DOMAIN tenant : DocShaped(tenant'[k])
      BY <1>1, <1>2 DEF PlatformShaped
<1>4. PlatformDesk(h)' /\ pc'[h] = call
      BY <1>3, DeskGoesOn DEF Goto, Disciplined
<1>. QED BY <1>3, <1>4, PlatformMoved DEF Founding, Changing

LEMMA TenancyShaped ==
    ASSUME Disciplined, PlatformShaped, NEW h \in Desks, Moves(h, PlatformCalls),
           LookUp(h) \/ ReadTenant(h) \/ Remember(h) \/ Forget(h),
           UNCHANGED <<commerce, founding>>
    PROVE  PlatformShaped'
<1>. USE DEF Founding, Changing, Looking
<1>1. Fits(pc[h], req[h])
      BY DEF Disciplined
<1>2. ASSUME NEW i \in DOMAIN tenant, NEW doc, GoBy(h, i, doc), UNCHANGED tenant,
             req[h].then \in {"guard", "weigh"}, req[h].worker \in Workers,
             DOMAIN cache' = DOMAIN cache, cache' = cache \/ RecallShaped'
      PROVE  PlatformShaped'
  <2>1. CASE req[h].then = "guard"
    <3>1. pc'[h] = "idle"
          BY <1>2, <2>1 DEF GoBy, BreakOff, Leave, Disciplined
    <3>. QED BY <1>2, <3>1, DeskIdle, PlatformMoved DEF PlatformShaped, commerce, founding
  <2>2. CASE req[h].then = "weigh"
    <3>1. /\ pc'[h] = "weigh" /\ req'[h].inst = i /\ req'[h].claims = {Inst(i)}
          /\ req'[h].worker = req[h].worker
          BY <1>2, <2>2 DEF GoBy, Disciplined
    <3>2. PlatformDesk(h)'
          BY <1>2, <3>1 DEF PlatformDesk
    <3>. QED BY <1>2, <3>1, <3>2, PlatformMoved DEF PlatformShaped, commerce, founding
  <2>. QED BY <1>2, <2>1, <2>2
<1>3. CASE LookUp(h)
  <2>1. /\ pc[h] = "look up" /\ req[h].then \in {"guard", "weigh"}
        /\ {"worker", "key", "then"} \subseteq DOMAIN req[h] /\ req[h].worker \in Workers
        /\ UNCHANGED <<tenant, cache>>
        BY <1>1, <1>3 DEF LookUp, Fits, PlatformShaped, PlatformDesk
  <2>2. CASE Hit(req[h].worker, req[h].key)
    <3>. DEFINE e == cache[req[h].worker][req[h].key]
    <3>1. GoBy(h, e.inst, e.doc)
          BY <1>3, <2>2 DEF LookUp
    <3>2. e.inst \in DOMAIN tenant
          BY <2>1, <2>2 DEF Hit, PlatformShaped, RecallShaped, Recalled
    <3>. QED BY <1>2, <2>1, <3>1, <3>2
  <2>3. CASE ~Hit(req[h].worker, req[h].key)
    <3>1. pc'[h] = "read tenant" /\ req' = req
          BY <1>3, <2>3 DEF LookUp, Goto, Disciplined
    <3>2. PlatformDesk(h)'
          BY <2>1, <3>1 DEF PlatformDesk
    <3>. QED BY <2>1, <3>1, <3>2, PlatformMoved DEF PlatformShaped, commerce, founding
  <2>. QED BY <2>2, <2>3
<1>4. CASE ReadTenant(h)
  <2>1. /\ pc[h] = "read tenant" /\ UNCHANGED tenancy
        /\ {"worker", "key", "then"} \subseteq DOMAIN req[h] /\ req[h].worker \in Workers
        BY <1>4 DEF ReadTenant, PlatformShaped, PlatformDesk
  <2>2. CASE Finish(h)
    <3>1. pc'[h] = "idle"
          BY <2>2 DEF Finish, Leave, Disciplined
    <3>. QED BY <2>1, <3>1, DeskIdle, PlatformMoved
             DEF PlatformShaped, commerce, founding, tenancy
  <2>3. ASSUME NEW i \in Matches(req[h].key),
               TakeOn(h, "remember", [c \in DOMAIN req[h] \cup {"claims", "inst", "word"} |->
                 CASE c = "claims" -> {Inst(i)} [] c = "inst" -> i
                   [] c = "word" -> tenant[i] [] OTHER -> req[h][c]])
        PROVE  PlatformShaped'
    <3>1. /\ pc'[h] = "remember" /\ req'[h].inst = i /\ req'[h].claims = {Inst(i)}
          /\ req'[h].worker = req[h].worker
          /\ {"worker", "key", "then"} \subseteq DOMAIN req'[h]
          BY <2>1, <2>3 DEF TakeOn, Disciplined
    <3>2. PlatformDesk(h)'
          BY <2>1, <3>1 DEF PlatformDesk, Matches, tenancy
    <3>. QED BY <2>1, <3>1, <3>2, PlatformMoved DEF PlatformShaped, commerce, founding, tenancy
  <2>. QED BY <1>4, <2>2, <2>3 DEF ReadTenant
<1>5. CASE Remember(h)
  <2>1. /\ pc[h] = "remember" /\ req[h].then \in {"guard", "weigh"}
        /\ {"worker", "key", "then"} \subseteq DOMAIN req[h] /\ req[h].worker \in Workers
        /\ req[h].inst \in DOMAIN tenant /\ UNCHANGED tenant
        /\ GoBy(h, req[h].inst, req[h].word)
        BY <1>1, <1>5 DEF Remember, Fits, PlatformShaped, PlatformDesk
  <2>2. RecallShaped' /\ DOMAIN cache' = DOMAIN cache
        BY <1>5, <2>1 DEF Remember, With, PlatformShaped, RecallShaped, Recalled
  <2>. QED BY <1>2, <2>1, <2>2
<1>6. CASE Forget(h)
  <2>1. pc'[h] = "idle" /\ UNCHANGED tenant /\ DOMAIN cache' = DOMAIN cache
        BY <1>6 DEF Forget, Forgotten, Finish, Leave, Disciplined
  <2>2. RecallShaped'
        BY <1>6 DEF Forget, Forgotten, Nothing, PlatformShaped, RecallShaped, Recalled
  <2>. QED BY <2>1, <2>2, DeskIdle, PlatformMoved DEF PlatformShaped, commerce, founding
<1>. QED BY <1>3, <1>4, <1>5, <1>6

LEMMA ConsoleShaped ==
    ASSUME Disciplined, PlatformShaped, NEW h \in Desks, Moves(h, PlatformCalls),
           \/ LookUpPlan(h) \/ WriteTenant(h) \/ UpsertSubscription(h)
           \/ EndSubscriptions(h) \/ Weigh(h) \/ RetirePlan(h),
           UNCHANGED founding
    PROVE  PlatformShaped'
<1>. USE DEF Founding, Changing, Looking
<1>1. Fits(pc[h], req[h]) /\ PlatformDesk(h)
      BY DEF Disciplined, PlatformShaped
<1>2. CASE pc'[h] = "idle" /\ UNCHANGED <<tenancy, subs, granted>>
      BY <1>2, DeskIdle, PlatformMoved DEF PlatformShaped, founding, tenancy
<1>3. ASSUME NEW change, NEW then, ChangeShaped(then, change), pc[h] \in Changing,
             Carry(h, "write tenant", [claims |-> req[h].claims, worker |-> req[h].worker,
                     inst |-> req[h].inst, change |-> change, then |-> then]),
             UNCHANGED <<tenancy, subs, granted>>
      PROVE  PlatformShaped'
  <2>1. /\ pc'[h] = "write tenant" /\ req'[h].claims = req[h].claims
        /\ req'[h].worker = req[h].worker /\ req'[h].inst = req[h].inst
        /\ req'[h].change = change /\ req'[h].then = then
        BY <1>3 DEF Carry, Disciplined
  <2>2. PlatformDesk(h)'
        BY <1>1, <1>3, <2>1 DEF PlatformDesk, tenancy
  <2>. QED BY <1>3, <2>1, <2>2, PlatformMoved DEF PlatformShaped, founding, tenancy
<1>4. ASSUME NEW call \in {"forget", "end subscriptions"}, pc[h] \in Changing, Goto(h, call),
             UNCHANGED <<tenancy, granted>>, DOMAIN subs' = DOMAIN subs
      PROVE  PlatformShaped'
  <2>1. PlatformDesk(h)' /\ pc'[h] = call
        BY <1>4, DeskGoesOn DEF tenancy, Goto, Disciplined
  <2>. QED BY <1>4, <2>1, PlatformMoved DEF PlatformShaped, founding, tenancy
<1>5. CASE LookUpPlan(h)
  <2>1. pc[h] = "look up plan" /\ UNCHANGED <<tenancy, subs, granted>>
        BY <1>5 DEF LookUpPlan, commerce
  <2>2. CASE Finish(h)
        BY <1>2, <2>1, <2>2 DEF Finish, Leave, Disciplined
  <2>3. CASE ~Finish(h)
    <3>. DEFINE p == req[h].plan  s == req[h].state
                change == [plan |-> p, status |-> "active", sub |-> s,
                           modules |-> IF p \in DOMAIN plan THEN plan[p].modules
                                       ELSE Catalogue[p]]
    <3>1. Carry(h, "write tenant",
              [claims |-> req[h].claims, worker |-> req[h].worker, inst |-> req[h].inst,
               change |-> change, then |-> "upsert subscription"])
          BY <1>5, <2>3 DEF LookUpPlan
    <3>2. ChangeShaped("upsert subscription", change)
          BY DEF ChangeShaped
    <3>. HIDE DEF change
    <3>. QED BY <1>3, <2>1, <3>1, <3>2
  <2>. QED BY <2>2, <2>3
<1>6. CASE WriteTenant(h)
  <2>1. PICK i, change, then, call :
          /\ pc[h] = "write tenant" /\ i = req[h].inst /\ i \in DOMAIN tenant
          /\ change = req[h].change /\ then = req[h].then
          /\ ChangeShaped(then, change)
          /\ call \in {"forget", "upsert subscription", "end subscriptions"}
          /\ Amend(req[h].worker, i, change) /\ Goto(h, call)
    <3>. DEFINE call == IF req[h].then = "answer owner" THEN "forget" ELSE req[h].then
    <3>1. /\ pc[h] = "write tenant" /\ Amend(req[h].worker, req[h].inst, req[h].change)
          /\ Goto(h, call)
          BY <1>6 DEF WriteTenant
    <3>2. /\ req[h].inst \in DOMAIN tenant /\ ChangeShaped(req[h].then, req[h].change)
          /\ call \in {"forget", "upsert subscription", "end subscriptions"}
          BY <1>1, <3>1 DEF PlatformDesk, Fits
    <3>. QED BY <3>1, <3>2
  <2>2. DOMAIN granted' = DOMAIN granted /\ UNCHANGED <<cache, subs, kit>>
    <3>1. CASE "plan" \in DOMAIN req[h].change
          BY <1>6, <3>1 DEF WriteTenant, founding
    <3>2. CASE "plan" \notin DOMAIN req[h].change /\ req[h].then = "answer owner"
          BY <1>6, <3>2 DEF WriteTenant, founding
    <3>3. CASE "plan" \notin DOMAIN req[h].change /\ req[h].then # "answer owner"
          BY <1>6, <3>3 DEF WriteTenant, founding
    <3>. QED BY <3>1, <3>2, <3>3
  <2>3. /\ "year" \in DOMAIN change => change.year \in BOOLEAN
        /\ "dedicated" \in DOMAIN change => change.dedicated \in BOOLEAN
        BY <2>1 DEF ChangeShaped
  <2>. QED BY <2>1, <2>2, <2>3, AmendShaped
<1>7. CASE UpsertSubscription(h)
      BY <1>4, <1>7 DEF UpsertSubscription
<1>8. CASE EndSubscriptions(h)
      BY <1>4, <1>8 DEF EndSubscriptions
<1>9. CASE Weigh(h)
  <2>1. pc[h] = "weigh" /\ UNCHANGED <<tenancy, subs, granted>>
        BY <1>9 DEF Weigh, commerce
  <2>2. CASE Finish(h)
        BY <1>2, <2>1, <2>2 DEF Finish, Leave, Disciplined
  <2>3. CASE ~Finish(h)
    <3>. DEFINE change == [modules |-> req[h].wanted \cup CoreModules]
    <3>1. Carry(h, "write tenant",
              [claims |-> req[h].claims, worker |-> req[h].worker, inst |-> req[h].inst,
               change |-> change, then |-> "answer owner"])
          BY <1>9, <2>3 DEF Weigh
    <3>2. ChangeShaped("answer owner", change)
          BY DEF ChangeShaped
    <3>. HIDE DEF change
    <3>. QED BY <1>3, <2>1, <3>1, <3>2
  <2>. QED BY <2>2, <2>3
<1>10. CASE RetirePlan(h)
      BY <1>2, <1>10 DEF RetirePlan, Finish, Leave, Disciplined
<1>. QED BY <1>5, <1>6, <1>7, <1>8, <1>9, <1>10

LEMMA ProvisioningShaped ==
    ASSUME Disciplined, PlatformShaped, NEW h \in Desks, Moves(h, PlatformCalls),
           \/ InsertTenant(h) \/ SeedRole(h) \/ InsertOwner(h) \/ CountOwner(h)
           \/ InsertYear(h) \/ SetYear(h) \/ SeedDefaults(h)
           \/ InsertSubscription(h) \/ HandOver(h)
    PROVE  PlatformShaped'
<1>1. PlatformDesk(h)
      BY DEF PlatformShaped
<1>2. CASE InsertTenant(h)
  <2>. USE DEF Founding, Changing, Looking
  <2>1. /\ pc[h] = "insert tenant" /\ req[h].inst \notin DOMAIN tenant
        /\ DocShaped(req[h].doc) /\ req[h].worker \in Workers
        /\ Inst(req[h].inst) \in req[h].claims
        BY <1>1, <1>2 DEF InsertTenant, PlatformDesk
  <2>2. CASE Finish(h) /\ UNCHANGED platform
    <3>1. pc'[h] = "idle"
          BY <2>2 DEF Finish, Leave, Disciplined
    <3>. QED BY <2>2, <3>1, DeskIdle, PlatformMoved
             DEF PlatformShaped, platform, tenancy, commerce, founding
  <2>3. CASE ~(Finish(h) /\ UNCHANGED platform)
    <3>1. PICK i, doc : i = req[h].inst /\ doc = req[h].doc
          OBVIOUS
    <3>2. /\ tenant'  = With(tenant, i, doc) /\ subs' = With(subs, i, <<>>)
          /\ kit' = With(kit, i, EmptyKit) /\ DOMAIN granted' = DOMAIN granted \cup {i}
          /\ Goto(h, "seed role") /\ UNCHANGED cache
          BY <1>2, <2>3, <3>1 DEF InsertTenant, With
    <3>3. /\ pc'[h] = "seed role" /\ req' = req
          /\ \A g \in Desks \ {h} : pc'[g] = pc[g]
          BY <3>2 DEF Goto, Disciplined
    <3>4. DOMAIN tenant' = DOMAIN tenant \cup {i} /\ \A k \in DOMAIN tenant' : DocShaped(tenant'[k])
          BY <2>1, <3>1, <3>2 DEF With, PlatformShaped
    <3>5. /\ DOMAIN subs' = DOMAIN tenant' /\ DOMAIN granted' = DOMAIN tenant'
          /\ DOMAIN kit' = DOMAIN tenant' /\ DOMAIN cache' = Workers /\ RecallShaped'
      <4>1. /\ DOMAIN subs' = DOMAIN tenant' /\ DOMAIN granted' = DOMAIN tenant'
            /\ DOMAIN kit' = DOMAIN tenant' /\ DOMAIN cache' = Workers
            BY <3>2, <3>4 DEF With, PlatformShaped
      <4>2. RecallShaped'
            BY <3>2, <3>4 DEF PlatformShaped, RecallShaped, Recalled
      <4>. QED BY <4>1, <4>2
    <3>6. ASSUME NEW g \in Desks PROVE PlatformDesk(g)'
      <4>1. CASE g = h
            BY <2>1, <3>1, <3>3, <3>4, <4>1 DEF PlatformDesk
      <4>2. CASE g # h
        <5>1. pc[g] = "insert tenant" => req[g].inst \notin DOMAIN tenant'
              BY <2>1, <3>1, <3>4, <4>2 DEF PlatformShaped, PlatformDesk, InsertsApart
        <5>. QED BY <3>3, <3>4, <4>2, <5>1, OtherDesks
      <4>. QED BY <4>1, <4>2
    <3>7. InsertsApart'
          BY <3>3 DEF PlatformShaped, InsertsApart
    <3>. QED BY <3>4, <3>5, <3>6, <3>7 DEF PlatformShaped
  <2>. QED BY <2>2, <2>3
<1>3. CASE SeedRole(h)
  <2>1. PICK roles, call :
          call \in {"insert owner", "seed role"} /\ pc[h] = "seed role" /\ Store(h, [roles |-> roles]) /\ Goto(h, call)
        BY <1>3 DEF SeedRole
  <2>. QED BY <2>1, StoreShaped DEF Founding
<1>4. CASE InsertOwner(h)
      BY <1>4, StoreShaped DEF InsertOwner, Founding
<1>5. CASE CountOwner(h)
      BY <1>5, StoreShaped DEF CountOwner, Founding
<1>6. CASE InsertYear(h)
      BY <1>6, StoreShaped DEF InsertYear, Founding
<1>7. CASE SetYear(h)
  <2>. DEFINE change == [year |-> TRUE]
  <2>1. /\ pc[h] = "set year" /\ Amend(req[h].worker, req[h].inst, change)
        /\ Goto(h, "seed defaults") /\ UNCHANGED <<cache, granted, subs, kit>>
        BY <1>7 DEF SetYear, commerce, founding
  <2>2. req[h].inst \in DOMAIN tenant
        BY <1>1, <2>1 DEF PlatformDesk, Founding
  <2>3. /\ "year" \in DOMAIN change => change.year \in BOOLEAN
        /\ "dedicated" \in DOMAIN change => change.dedicated \in BOOLEAN
        OBVIOUS
  <2>. HIDE DEF change
  <2>. QED BY <2>1, <2>2, <2>3, AmendShaped DEF Founding
<1>8. CASE SeedDefaults(h)
  <2>1. PICK defaults, call :
          /\ call \in {"seed defaults", "hand over", "insert subscription"}
          /\ pc[h] = "seed defaults" /\ Store(h, [defaults |-> defaults]) /\ Goto(h, call)
        BY <1>8 DEF SeedDefaults
  <2>. QED BY <2>1, StoreShaped DEF Founding
<1>9. CASE InsertSubscription(h)
  <2>1. /\ pc[h] = "insert subscription" /\ Goto(h, "hand over")
        /\ DOMAIN subs' = DOMAIN subs /\ UNCHANGED <<tenancy, plan, granted, founding>>
        BY <1>9 DEF InsertSubscription
  <2>2. PlatformDesk(h)' /\ pc'[h] = "hand over"
        BY <2>1, DeskGoesOn DEF tenancy, Goto, Disciplined, Founding
  <2>. QED BY <2>1, <2>2, PlatformMoved DEF PlatformShaped, founding, tenancy
<1>10. CASE HandOver(h)
  <2>1. /\ pc'[h] = "idle" /\ UNCHANGED tenant /\ DOMAIN cache' = DOMAIN cache
        /\ UNCHANGED <<commerce, kit>>
        BY <1>10 DEF HandOver, Forgotten, Finish, Leave, Disciplined
  <2>2. RecallShaped'
        BY <1>10 DEF HandOver, Forgotten, Nothing, PlatformShaped, RecallShaped, Recalled
  <2>. QED BY <2>1, <2>2, DeskIdle, PlatformMoved DEF PlatformShaped, commerce
<1>. QED BY <1>2, <1>3, <1>4, <1>5, <1>6, <1>7, <1>8, <1>9, <1>10

LEMMA TickShaped ==
    ASSUME Disciplined, PlatformShaped, Passes(PlatformCalls), Tick,
           UNCHANGED <<commerce, founding>>
    PROVE  PlatformShaped'
BY PlatformPassed DEF Tick, commerce, founding

LEMMA PlatformStepShaped ==
    ASSUME Disciplined, PlatformShaped, [Next]_vars
    PROVE  PlatformShaped'
<1>1. ASSUME NEW h \in Desks, PlatformStep(h) PROVE PlatformShaped'
  <2>1. Moves(h, PlatformCalls)
        BY <1>1, PlatformMoves
  <2>. QED BY <1>1, <2>1, ArriveShaped, TenancyShaped, ConsoleShaped, ProvisioningShaped
           DEF PlatformStep, PlatformResume
<1>2. CASE Passes(PlatformCalls) /\ UNCHANGED platform
      BY <1>2, PlatformPassed DEF platform, tenancy, commerce, founding
<1>. QED BY <1>1, <1>2, TickShaped, NextPasses DEF NextIsTheirs

LEMMA PlatformAlways == Spec => [](Disciplined /\ PlatformShaped)
<1>1. Init => Disciplined /\ PlatformShaped
      BY DisciplineStarts, PlatformStart
<1>2. Disciplined /\ PlatformShaped /\ [Next]_vars => (Disciplined /\ PlatformShaped)'
      BY DisciplineKept, PlatformStepShaped
<1>. QED BY <1>1, <1>2, PTL DEF Spec

-----------------------------------------------------------------------------
(* What an institution has switched on, and what it was given.             *)

\* A plan on file gives no module that institution i was not given with it.
PlanGave(i) == tenant[i].plan \in DOMAIN plan => plan[tenant[i].plan].modules \subseteq granted[i]

Undisputed(i) == /\ Inst(i) \notin disturbed /\ Plan(tenant[i].plan) \notin disturbed
                 /\ ~tenant[i].dedicated

\* A subscription carries the modules its plan has still; the owner's request
\* goes by the institution as it is, and carries what it was given at most.
BuyingDesk(h) ==
    /\ pc[h] = "write tenant" /\ req[h].then = "upsert subscription" =>
         /\ Plan(req[h].change.plan) \in req[h].claims
         /\ Plan(req[h].change.plan) \notin disturbed /\ req[h].change.plan \in DOMAIN plan =>
              plan[req[h].change.plan].modules \subseteq req[h].change.modules
    /\ pc[h] = "write tenant" /\ req[h].then = "answer owner" /\ Undisputed(req[h].inst) =>
         req[h].change.modules \subseteq CoreModules \cup granted[req[h].inst]
    /\ pc[h] = "weigh" /\ Inst(req[h].inst) \notin disturbed => req[h].word = tenant[req[h].inst]

Bought(i) == Undisputed(i) => /\ tenant[i].modules \subseteq CoreModules \cup granted[i]
                              /\ PlanGave(i)

BoughtSound ==
    /\ \A i \in DOMAIN tenant : Bought(i)
    /\ \A h \in Desks : BuyingDesk(h)

LEMMA BoughtStart == ASSUME Init PROVE BoughtSound
<1>. DEFINE new == NewTenant(Founded.slug, Founded.plan, FALSE, {})
            doc == [new EXCEPT !.year = TRUE]
<1>1. /\ doc.plan = Founded.plan /\ doc.modules = Catalogue[Priced(Founded.plan)]
      BY DEF NewTenant
<1>2. /\ tenant = [i \in {Founded.inst} |-> doc]
      /\ granted = [i \in {Founded.inst} |-> doc.modules]
      /\ plan = [p \in Plans |-> [modules |-> Catalogue[p], retired |-> FALSE]]
      /\ pc = [h \in Desks |-> "idle"]
      BY DEF Init, PlatformInit, RequestsInit
<1>. HIDE DEF doc
<1>3. ASSUME NEW h \in Desks PROVE BuyingDesk(h)
      BY <1>2 DEF BuyingDesk
<1>4. ASSUME NEW i \in DOMAIN tenant PROVE Bought(i)
      BY <1>1, <1>2 DEF Bought, PlanGave, Priced
<1>. QED BY <1>3, <1>4 DEF BoughtSound

\* The requests a step does not move: it disturbs what it changes of theirs.
LEMMA OtherBuyers ==
    ASSUME PlatformShaped, disturbed \subseteq disturbed',
           NEW g \in Desks, pc'[g] = pc[g], req'[g] = req[g], BuyingDesk(g),
           pc[g] \in Changing =>
             \/ Inst(req[g].inst) \in disturbed'
             \/ /\ tenant'[req[g].inst] = tenant[req[g].inst]
                /\ granted[req[g].inst] \subseteq granted'[req[g].inst],
           \A p : Plan(p) \in req[g].claims =>
             \/ Plan(p) \in disturbed'
             \/ p \in DOMAIN plan' => p \in DOMAIN plan /\ plan'[p].modules = plan[p].modules
    PROVE  BuyingDesk(g)'
BY DEF BuyingDesk, Undisputed, Changing

LEMMA BoughtPassed ==
    ASSUME Disciplined, PlatformShaped, BoughtSound, Passes(PlatformCalls),
           UNCHANGED <<tenant, plan, granted>>
    PROVE  BoughtSound'
<1>1. ASSUME NEW h \in Desks PROVE BuyingDesk(h)'
  <2>1. CASE pc'[h] \in PlatformCalls
    <3>1. pc'[h] = pc[h] /\ req'[h] = req[h] /\ disturbed \subseteq disturbed'
          BY <2>1 DEF Passes
    <3>. QED BY <3>1, OtherBuyers DEF BoughtSound
  <2>2. CASE pc'[h] \notin PlatformCalls
        BY <2>2 DEF BuyingDesk, PlatformCalls
  <2>. QED BY <2>1, <2>2
<1>2. ASSUME NEW i \in DOMAIN tenant PROVE Bought(i)'
      BY DEF Passes, BoughtSound, Bought, Undisputed, PlanGave
<1>. QED BY <1>1, <1>2 DEF BoughtSound

\* A step that gives and takes nothing is sound if its own request is.
LEMMA BoughtMoved ==
    ASSUME Disciplined, PlatformShaped, BoughtSound, NEW h \in Desks,
           Moves(h, PlatformCalls), UNCHANGED <<tenant, plan, granted>>, BuyingDesk(h)'
    PROVE  BoughtSound'
<1>1. \A g \in Desks \ {h} : pc'[g] = pc[g] /\ req'[g] = req[g]
      BY DEF Moves, Disciplined
<1>2. disturbed \subseteq disturbed'
      BY DEF Moves
<1>3. ASSUME NEW g \in Desks PROVE BuyingDesk(g)'
      BY <1>1, <1>2, OtherBuyers DEF BoughtSound
<1>4. ASSUME NEW i \in DOMAIN tenant PROVE Bought(i)'
      BY <1>2 DEF BoughtSound, Bought, Undisputed, PlanGave
<1>. QED BY <1>3, <1>4 DEF BoughtSound

\* One that changes the document of its own institution only.
LEMMA BoughtAmended ==
    ASSUME Disciplined, PlatformShaped, PlatformShaped', BoughtSound, NEW h \in Desks,
           Moves(h, PlatformCalls), UNCHANGED plan, NEW i \in DOMAIN tenant,
           Inst(i) \in req[h].claims, Inst(i) \in req'[h].claims,
           DOMAIN tenant' = DOMAIN tenant,
           \A k \in DOMAIN tenant \ {i} :
             tenant'[k] = tenant[k] /\ granted'[k] = granted[k],
           pc'[h] \notin {"write tenant", "weigh"}, Bought(i)'
    PROVE  BoughtSound'
<1>1. \A g \in Desks \ {h} : pc'[g] = pc[g] /\ req'[g] = req[g]
      BY DEF Moves, Disciplined
<1>2. disturbed \subseteq disturbed'
      BY DEF Moves
<1>3. ASSUME NEW g \in Desks PROVE BuyingDesk(g)'
  <2>1. CASE g = h
        BY <2>1 DEF BuyingDesk
  <2>2. CASE g # h
    <3>1. pc[g] \in Changing /\ req[g].inst = i => Inst(i) \in disturbed
          BY <2>2 DEF PlatformShaped, PlatformDesk, Disciplined, Apart
    <3>2. pc[g] \in Changing => req[g].inst \in DOMAIN tenant
          BY DEF PlatformShaped, PlatformDesk
    <3>3. BuyingDesk(g) /\ pc'[g] = pc[g] /\ req'[g] = req[g]
          BY <1>1, <2>2 DEF BoughtSound
    <3>. QED BY <1>2, <3>1, <3>2, <3>3, OtherBuyers
  <2>. QED BY <2>1, <2>2
<1>4. ASSUME NEW k \in DOMAIN tenant PROVE Bought(k)'
      BY <1>2 DEF BoughtSound, Bought, Undisputed, PlanGave
<1>. QED BY <1>3, <1>4 DEF BoughtSound

LEMMA BoughtAnyway ==
    ASSUME Disciplined, PlatformShaped, BoughtSound, NEW h \in Desks,
           Moves(h, PlatformCalls), UNCHANGED <<tenant, plan, granted>>,
           \/ pc'[h] \notin {"write tenant", "weigh"}
           \/ pc'[h] = "write tenant" /\ req'[h].then \in {"forget", "end subscriptions"}
    PROVE  BoughtSound'
<1>1. BuyingDesk(h)'
      BY DEF BuyingDesk
<1>. QED BY <1>1, BoughtMoved

LEMMA BoughtArrive ==
    ASSUME Disciplined, PlatformShaped, BoughtSound, NEW h \in Desks, PlatformArrive(h),
           Moves(h, PlatformCalls)
    PROVE  BoughtSound'
<1>1. ASSUME NEW op, NEW w, NEW i, NEW change, BeginWrite(h, op, w, i, change)
      PROVE  BoughtSound'
  <2>1. pc'[h] = "write tenant" /\ req'[h].then = "forget" /\ UNCHANGED <<tenancy, commerce>>
        BY <1>1 DEF BeginWrite, Begin, Disciplined
  <2>. QED BY <2>1, BoughtAnyway DEF tenancy, commerce
<1>2. ASSUME NEW w, NEW i, Convert(h, w, i) PROVE BoughtSound'
  <2>1. /\ pc'[h] = "write tenant" /\ req'[h].then = "end subscriptions"
        /\ UNCHANGED <<tenancy, commerce>>
        BY <1>2 DEF Convert, Begin, Disciplined
  <2>. QED BY <2>1, BoughtAnyway DEF tenancy, commerce
<1>3. ASSUME NEW w, NEW i, NEW p, NEW lifetime, BeginSubscribe(h, w, i, p, lifetime)
      PROVE  BoughtSound'
  <2>1. pc'[h] = "look up plan" /\ UNCHANGED <<tenancy, commerce>>
        BY <1>3 DEF BeginSubscribe, Begin, Disciplined
  <2>. QED BY <2>1, BoughtAnyway DEF tenancy, commerce
<1>4. ASSUME NEW w, NEW i, ToInstitution(h, w, i) PROVE BoughtSound'
      BY <1>1, <1>2, <1>3, <1>4 DEF ToInstitution, SetTenantStatus, UpdateTenant
<1>5. ASSUME NEW p, NEW ms, UpsertPlan(h, p, ms) PROVE BoughtSound'
  <2>1. /\ UNCHANGED <<pc, req, tenant, subs>> /\ pc[h] = "idle" /\ disturbed = {}
        /\ disturbed' = {Plan(p)} \cap HeldByOthers(h)
        /\ plan' = With(plan, p, [modules |-> ms,
                                  retired |-> p \in DOMAIN plan /\ plan[p].retired])
        /\ granted' = [i \in DOMAIN granted |-> granted[i] \cup
                         IF i \in OnPlan(p) THEN ms ELSE {}]
        BY <1>5 DEF UpsertPlan, Once, Asked, Open, Idle, tenancy
  <2>2. /\ \A q \in DOMAIN plan' : q # p => q \in DOMAIN plan /\ plan'[q] = plan[q]
        /\ p \in DOMAIN plan' /\ plan'[p].modules = ms
        BY <2>1 DEF With
  <2>3. ASSUME NEW g \in Desks PROVE BuyingDesk(g)'
    <3>1. CASE pc[g] = "idle"
          BY <2>1, <3>1 DEF BuyingDesk
    <3>2. CASE pc[g] # "idle"
      <4>1. Plan(p) \in req[g].claims => Plan(p) \in disturbed'
            BY <2>1, <3>2 DEF HeldByOthers
      <4>2. pc[g] \in Changing => req[g].inst \in DOMAIN granted
            BY DEF PlatformShaped, PlatformDesk
      <4>3. pc[g] \in Changing => granted[req[g].inst] \subseteq granted'[req[g].inst]
            BY <2>1, <4>2
      <4>4. BuyingDesk(g) /\ pc'[g] = pc[g] /\ req'[g] = req[g] /\ disturbed \subseteq disturbed'
            BY <2>1 DEF BoughtSound
      <4>5. \A q : Plan(q) \in req[g].claims =>
              \/ Plan(q) \in disturbed'
              \/ q \in DOMAIN plan' => q \in DOMAIN plan /\ plan'[q].modules = plan[q].modules
            BY <2>2, <4>1
      <4>. QED BY <2>1, <4>3, <4>4, <4>5, OtherBuyers
    <3>. QED BY <3>1, <3>2
  <2>4. ASSUME NEW i \in DOMAIN tenant, Undisputed(i)' PROVE /\ tenant'[i].modules \subseteq CoreModules \cup granted'[i]
                                                             /\ PlanGave(i)'
    <3>1. Undisputed(i)
          BY <2>1, <2>4 DEF Undisputed
    <3>2. /\ tenant[i].modules \subseteq CoreModules \cup granted[i] /\ PlanGave(i)
          /\ i \in DOMAIN granted
          BY <3>1 DEF BoughtSound, Bought, PlatformShaped
    <3>3. granted[i] \subseteq granted'[i] /\ (tenant[i].plan = p => ms \subseteq granted'[i])
          BY <2>1, <3>2 DEF OnPlan
    <3>4. PlanGave(i)'
          BY <2>1, <2>2, <3>2, <3>3 DEF PlanGave
    <3>. QED BY <2>1, <3>2, <3>3, <3>4
  <2>5. \A i \in DOMAIN tenant : Bought(i)'
        BY <2>4 DEF Bought
  <2>. QED BY <2>1, <2>3, <2>5 DEF BoughtSound
<1>6. ASSUME NEW p, BeginRetire(h, p) PROVE BoughtSound'
  <2>1. pc'[h] = "retire plan" /\ UNCHANGED <<tenancy, commerce>>
        BY <1>6 DEF BeginRetire, Begin, Disciplined
  <2>. QED BY <2>1, BoughtAnyway DEF tenancy, commerce
<1>7. ASSUME NEW w, NEW key, NEW m, UNCHANGED <<commerce, founding>>,
             BeginVisit(h, w, key, m) \/ BeginSwitch(h, w, key, m)
      PROVE  BoughtSound'
  <2>1. pc'[h] = "look up" /\ UNCHANGED <<tenancy, commerce>>
        BY <1>7 DEF BeginVisit, BeginSwitch, Begin, Disciplined
  <2>. QED BY <2>1, BoughtAnyway DEF tenancy, commerce
<1>8. ASSUME NEW w, NEW i, NEW s, NEW o, BeginProvision(h, w, i, s, o.plan, o.lifetime, o.chosen)
      PROVE  BoughtSound'
  <2>1. pc'[h] = "insert tenant" /\ UNCHANGED platform
        BY <1>8 DEF BeginProvision, Begin, Disciplined
  <2>. QED BY <2>1, BoughtAnyway DEF platform, tenancy, commerce
<1>. QED BY <1>4, <1>5, <1>6, <1>7, <1>8 DEF PlatformArrive

LEMMA TenancyBought ==
    ASSUME Disciplined, PlatformShaped, BoughtSound, NEW h \in Desks, Moves(h, PlatformCalls),
           LookUp(h) \/ ReadTenant(h) \/ Remember(h) \/ Forget(h),
           UNCHANGED <<commerce, founding>>
    PROVE  BoughtSound'
<1>1. UNCHANGED <<tenant, plan, granted>>
      BY DEF LookUp, ReadTenant, Remember, Forget, tenancy, commerce
<1>2. Fits(pc[h], req[h])
      BY DEF Disciplined
<1>3. ASSUME NEW i, NEW doc, GoBy(h, i, doc), req[h].then \in {"guard", "weigh"}
      PROVE  BoughtSound'
  <2>1. CASE req[h].then = "guard"
    <3>1. pc'[h] = "idle"
          BY <1>3, <2>1 DEF GoBy, BreakOff, Leave, Disciplined
    <3>. QED BY <1>1, <3>1, BoughtAnyway
  <2>2. CASE req[h].then = "weigh"
    <3>1. /\ pc'[h] = "weigh" /\ req'[h].inst = i /\ req'[h].word = doc
          /\ doc # tenant[i] => Inst(i) \in disturbed'
          BY <1>3, <2>2 DEF GoBy, Disciplined
    <3>2. BuyingDesk(h)'
          BY <1>1, <3>1 DEF BuyingDesk
    <3>. QED BY <1>1, <3>2, BoughtMoved
  <2>. QED BY <1>3, <2>1, <2>2
<1>4. CASE pc'[h] \in {"idle", "read tenant", "remember"}
      BY <1>1, <1>4, BoughtAnyway
<1>5. CASE LookUp(h)
  <2>1. req[h].then \in {"guard", "weigh"}
        BY <1>2, <1>5 DEF LookUp, Fits, Looking
  <2>2. CASE Hit(req[h].worker, req[h].key)
        BY <1>3, <1>5, <2>1, <2>2 DEF LookUp
  <2>3. CASE ~Hit(req[h].worker, req[h].key)
        BY <1>4, <1>5, <2>3 DEF LookUp, Goto, Disciplined
  <2>. QED BY <2>2, <2>3
<1>6. CASE ReadTenant(h)
      BY <1>4, <1>6 DEF ReadTenant, Finish, Leave, TakeOn, Disciplined
<1>7. CASE Remember(h)
  <2>1. req[h].then \in {"guard", "weigh"}
        BY <1>2, <1>7 DEF Remember, Fits, Looking
  <2>. QED BY <1>3, <1>7, <2>1 DEF Remember
<1>8. CASE Forget(h)
      BY <1>4, <1>8 DEF Forget, Finish, Leave, Disciplined
<1>. QED BY <1>5, <1>6, <1>7, <1>8

LEMMA OwnerSwitches ==
    ASSUME NEW change, ChangeShaped("answer owner", change)
    PROVE  "plan" \notin DOMAIN change
<1>1. DOMAIN change = {"modules"}
      BY DEF ChangeShaped
<1>. QED BY <1>1

LEMMA ConsoleBought ==
    ASSUME Disciplined, PlatformShaped, PlatformShaped', BoughtSound, NEW h \in Desks,
           Moves(h, PlatformCalls),
           \/ LookUpPlan(h) \/ WriteTenant(h) \/ UpsertSubscription(h)
           \/ EndSubscriptions(h) \/ Weigh(h) \/ RetirePlan(h)
    PROVE  BoughtSound'
<1>. USE DEF Changing
<1>1. Fits(pc[h], req[h]) /\ PlatformDesk(h) /\ BuyingDesk(h)
      BY DEF Disciplined, PlatformShaped, BoughtSound
<1>2. CASE LookUpPlan(h)
  <2>1. pc[h] = "look up plan" /\ UNCHANGED <<tenant, plan, granted>>
        BY <1>2 DEF LookUpPlan, tenancy, commerce
  <2>2. CASE Finish(h)
        BY <2>1, <2>2, BoughtAnyway DEF Finish, Leave, Disciplined
  <2>3. CASE ~Finish(h)
    <3>. DEFINE p == req[h].plan  s == req[h].state
                ms == IF p \in DOMAIN plan THEN plan[p].modules ELSE Catalogue[p]
                change == [plan |-> p, status |-> "active", sub |-> s, modules |-> ms]
    <3>1. Carry(h, "write tenant",
              [claims |-> req[h].claims, worker |-> req[h].worker, inst |-> req[h].inst,
               change |-> change, then |-> "upsert subscription"])
          BY <1>2, <2>3 DEF LookUpPlan
    <3>2. change.plan = p /\ change.modules = ms
          OBVIOUS
    <3>. HIDE DEF change
    <3>3. /\ pc'[h] = "write tenant" /\ req'[h].then = "upsert subscription"
          /\ req'[h].change = change /\ req'[h].claims = req[h].claims
          BY <3>1 DEF Carry, Disciplined
    <3>4. disturbed' = disturbed
          BY <3>1 DEF Carry
    <3>5. BuyingDesk(h)'
          BY <1>1, <2>1, <3>2, <3>3, <3>4 DEF BuyingDesk, PlatformDesk
    <3>. QED BY <2>1, <3>5, BoughtMoved
  <2>. QED BY <2>2, <2>3
<1>3. CASE WriteTenant(h)
  <2>. DEFINE d == Amended(tenant[req[h].inst], req[h].change)
  <2>1. PICK i, change, then : i = req[h].inst /\ change = req[h].change /\ then = req[h].then
        OBVIOUS
  <2>2. /\ pc[h] = "write tenant" /\ i \in DOMAIN tenant /\ Inst(i) \in req[h].claims
        /\ ChangeShaped(then, change)
        BY <1>1, <1>3, <2>1 DEF WriteTenant, PlatformDesk
  <2>3. /\ tenant' = [tenant EXCEPT ![i] = d]
        /\ req' = req /\ pc'[h] \notin {"write tenant", "weigh"} /\ UNCHANGED plan
        BY <1>1, <1>3, <2>1 DEF WriteTenant, Amend, Goto, Fits, Disciplined
  <2>4. \A c \in TenantFields : d[c] = IF c \in DOMAIN change THEN change[c] ELSE tenant[i][c]
    <3>1. d = Amended(tenant[i], change)
          BY <2>1
    <3>2. DocShaped(tenant[i])
          BY <2>2 DEF PlatformShaped
    <3>3. /\ "year" \in DOMAIN change => change.year \in BOOLEAN
          /\ "dedicated" \in DOMAIN change => change.dedicated \in BOOLEAN
          BY <2>2 DEF ChangeShaped
    <3>. QED BY <3>1, <3>2, <3>3, AmendedShaped
  <2>5. /\ "plan" \in DOMAIN change => granted' = [granted EXCEPT ![i] = change.modules]
        /\ "plan" \notin DOMAIN change /\ then = "answer owner" => granted' = granted
        /\ "plan" \notin DOMAIN change /\ then # "answer owner" =>
             granted' = [granted EXCEPT ![i] = granted[i] \cup
                           IF "modules" \in DOMAIN change THEN change.modules ELSE {}]
    <3>1. ASSUME "plan" \in DOMAIN req[h].change
          PROVE  granted' = [granted EXCEPT ![req[h].inst] = req[h].change.modules]
      <4>1. req[h].then # "answer owner"
            BY <2>1, <2>2, <3>1, OwnerSwitches
      <4>. QED BY <1>3, <3>1, <4>1 DEF WriteTenant
    <3>2. ASSUME "plan" \notin DOMAIN req[h].change, req[h].then = "answer owner"
          PROVE  granted' = granted
          BY <1>3, <3>2 DEF WriteTenant
    <3>3. ASSUME "plan" \notin DOMAIN req[h].change, req[h].then # "answer owner"
          PROVE  granted' = [granted EXCEPT ![req[h].inst] = granted[req[h].inst] \cup
                     IF "modules" \in DOMAIN req[h].change THEN req[h].change.modules ELSE {}]
          BY <1>3, <3>3 DEF WriteTenant
    <3>. QED BY <2>1, <3>1, <3>2, <3>3
  <2>6. /\ \A k \in DOMAIN tenant \ {i} : tenant'[k] = tenant[k] /\ granted'[k] = granted[k]
        /\ tenant'[i] = d /\ i \in DOMAIN granted
        BY <2>2, <2>3, <2>5 DEF PlatformShaped
  <2>. HIDE DEF d
  <2>7. disturbed \subseteq disturbed'
        BY DEF Moves
  <2>8. ASSUME ~d.dedicated, Inst(i) \notin disturbed', Plan(d.plan) \notin disturbed'
        PROVE  /\ d.modules \subseteq CoreModules \cup granted'[i]
               /\ d.plan \in DOMAIN plan => plan[d.plan].modules \subseteq granted'[i]
    <3>0. /\ d.dedicated = IF "dedicated" \in DOMAIN change THEN change.dedicated
                           ELSE tenant[i].dedicated
          /\ d.plan = IF "plan" \in DOMAIN change THEN change.plan ELSE tenant[i].plan
          /\ d.modules = IF "modules" \in DOMAIN change THEN change.modules
                         ELSE tenant[i].modules
          BY <2>4 DEF TenantFields
    <3>1. ~tenant[i].dedicated /\ "dedicated" \notin DOMAIN change
          BY <2>2, <2>8, <3>0 DEF ChangeShaped
    <3>2. CASE "plan" \in DOMAIN change
      <4>1. then = "upsert subscription"
            BY <1>1, <2>1, <2>2, <3>1, <3>2 DEF ChangeShaped, Fits
      <4>2. "modules" \in DOMAIN change /\ d.modules = change.modules /\ d.plan = change.plan
            BY <2>2, <3>0, <3>2 DEF ChangeShaped
      <4>3. granted'[i] = change.modules
            BY <2>5, <2>6, <3>2
      <4>. QED BY <1>1, <2>1, <2>2, <2>7, <2>8, <4>1, <4>2, <4>3 DEF BuyingDesk
    <3>3. CASE "plan" \notin DOMAIN change
      <4>1. Undisputed(i) /\ d.plan = tenant[i].plan
            BY <2>7, <2>8, <3>0, <3>1, <3>3 DEF Undisputed
      <4>2. tenant[i].modules \subseteq CoreModules \cup granted[i] /\ PlanGave(i)
            BY <2>2, <4>1 DEF BoughtSound, Bought
      <4>3. granted[i] \subseteq granted'[i]
            BY <2>5, <2>6, <3>3
      <4>4. CASE then = "answer owner"
        <5>1. change.modules \subseteq CoreModules \cup granted[i]
              BY <1>1, <2>1, <2>2, <4>1, <4>4 DEF BuyingDesk
        <5>. QED BY <3>0, <4>1, <4>2, <4>3, <5>1 DEF PlanGave
      <4>5. CASE then # "answer owner"
        <5>1. "modules" \in DOMAIN change => change.modules \subseteq granted'[i]
              BY <2>5, <2>6, <3>3, <4>5
        <5>. QED BY <3>0, <4>1, <4>2, <4>3, <5>1 DEF PlanGave
      <4>. QED BY <4>4, <4>5
    <3>. QED BY <3>2, <3>3
  <2>9. Bought(i)'
        BY <2>3, <2>6, <2>8 DEF Bought, Undisputed, PlanGave
  <2>10. DOMAIN tenant' = DOMAIN tenant
        BY <2>3
  <2>. QED BY <2>1, <2>2, <2>3, <2>6, <2>9, <2>10, BoughtAmended
<1>4. CASE UpsertSubscription(h) \/ EndSubscriptions(h)
  <2>1. pc'[h] = "forget" /\ UNCHANGED <<tenant, plan, granted>>
        BY <1>4 DEF UpsertSubscription, EndSubscriptions, Goto, tenancy, Disciplined
  <2>. QED BY <2>1, BoughtAnyway
<1>5. CASE Weigh(h)
  <2>1. pc[h] = "weigh" /\ UNCHANGED <<tenant, plan, granted>> /\ disturbed' = disturbed
        BY <1>5 DEF Weigh, tenancy, commerce, Carry, Finish
  <2>2. CASE Finish(h)
        BY <2>1, <2>2, BoughtAnyway DEF Finish, Leave, Disciplined
  <2>3. CASE ~Finish(h)
    <3>1. PICK i, word, ms : i = req[h].inst /\ word = req[h].word
                             /\ ms = req[h].wanted \cup CoreModules
          OBVIOUS
    <3>. DEFINE change == [modules |-> ms]
    <3>0. Carry(h, "write tenant",
              [claims |-> req[h].claims, worker |-> req[h].worker, inst |-> req[h].inst,
               change |-> change, then |-> "answer owner"])
          /\ (word.dedicated \/ ms \ CoreModules \subseteq Allowed(word))
          BY <1>5, <2>3, <3>1 DEF Weigh
    <3>5. change.modules = ms
          OBVIOUS
    <3>. HIDE DEF change
    <3>6. /\ pc'[h] = "write tenant" /\ req'[h].then = "answer owner"
          /\ req'[h].change = change /\ req'[h].inst = req[h].inst
          BY <3>0 DEF Carry, Disciplined
    <3>2. /\ pc'[h] = "write tenant" /\ req'[h].then = "answer owner"
          /\ req'[h].change.modules = ms /\ req'[h].inst = i
          /\ word.dedicated \/ ms \ CoreModules \subseteq Allowed(word)
          BY <3>0, <3>1, <3>5, <3>6
    <3>3. ASSUME Undisputed(i) PROVE ms \subseteq CoreModules \cup granted[i]
      <4>1. word = tenant[i] /\ i \in DOMAIN tenant
            BY <1>1, <2>1, <3>1, <3>3 DEF Undisputed, BuyingDesk, PlatformDesk
      <4>2. tenant[i].modules \subseteq CoreModules \cup granted[i] /\ PlanGave(i)
            BY <3>3, <4>1 DEF BoughtSound, Bought
      <4>3. Allowed(word) \subseteq CoreModules \cup granted[i]
            BY <4>1, <4>2 DEF Allowed, PlanGave
      <4>. QED BY <3>2, <3>3, <4>1, <4>3 DEF Undisputed
    <3>4. BuyingDesk(h)'
          BY <2>1, <3>2, <3>3 DEF BuyingDesk, Undisputed
    <3>. QED BY <2>1, <3>4, BoughtMoved
  <2>. QED BY <2>2, <2>3
<1>6. CASE RetirePlan(h)
  <2>1. /\ pc'[h] = "idle" /\ UNCHANGED <<tenant, granted>> /\ disturbed' = disturbed
        /\ DOMAIN plan' = DOMAIN plan
        /\ \A p \in DOMAIN plan : plan'[p].modules = plan[p].modules
    <3>1. plan' = [p \in DOMAIN plan |-> IF p = req[h].plan
                    THEN [modules |-> plan[p].modules, retired |-> TRUE] ELSE plan[p]]
          BY <1>6 DEF RetirePlan
    <3>2. \A p \in DOMAIN plan : plan'[p].modules = plan[p].modules
          BY <3>1
    <3>. QED BY <1>6, <3>1, <3>2 DEF RetirePlan, Finish, Leave, tenancy, Disciplined
  <2>2. ASSUME NEW g \in Desks PROVE BuyingDesk(g)'
    <3>1. CASE g = h
          BY <2>1, <3>1 DEF BuyingDesk
    <3>2. CASE g # h
      <4>1. pc'[g] = pc[g] /\ req'[g] = req[g] /\ BuyingDesk(g) /\ disturbed \subseteq disturbed'
            BY <2>1, <3>2 DEF Moves, Disciplined, BoughtSound
      <4>. QED BY <2>1, <4>1, OtherBuyers
    <3>. QED BY <3>1, <3>2
  <2>3. ASSUME NEW i \in DOMAIN tenant PROVE Bought(i)'
        BY <2>1 DEF BoughtSound, Bought, Undisputed, PlanGave
  <2>. QED BY <2>1, <2>2, <2>3 DEF BoughtSound
<1>. QED BY <1>2, <1>3, <1>4, <1>5, <1>6

LEMMA ProvisioningBought ==
    ASSUME Disciplined, PlatformShaped, PlatformShaped', BoughtSound, NEW h \in Desks,
           Moves(h, PlatformCalls),
           \/ InsertTenant(h) \/ SeedRole(h) \/ InsertOwner(h) \/ CountOwner(h)
           \/ InsertYear(h) \/ SetYear(h) \/ SeedDefaults(h)
           \/ InsertSubscription(h) \/ HandOver(h)
    PROVE  BoughtSound'
<1>1. PlatformDesk(h)
      BY DEF PlatformShaped
<1>2. CASE InsertTenant(h)
  <2>1. pc[h] = "insert tenant" /\ req[h].inst \notin DOMAIN tenant
        BY <1>1, <1>2 DEF InsertTenant, PlatformDesk
  <2>2. CASE Finish(h) /\ UNCHANGED platform
        BY <2>2, BoughtAnyway DEF Finish, Leave, platform, tenancy, commerce, Disciplined
  <2>3. CASE ~(Finish(h) /\ UNCHANGED platform)
    <3>1. PICK i, doc : i = req[h].inst /\ doc = req[h].doc
          OBVIOUS
    <3>2. /\ tenant' = With(tenant, i, doc) /\ UNCHANGED plan
          /\ granted' = With(granted, i, doc.modules \cup
                          IF doc.plan \in DOMAIN plan THEN plan[doc.plan].modules ELSE {})
          /\ Goto(h, "seed role")
          BY <1>2, <2>3, <3>1 DEF InsertTenant
    <3>3. /\ pc'[h] = "seed role" /\ req' = req /\ disturbed' = disturbed
          /\ \A g \in Desks \ {h} : pc'[g] = pc[g]
          BY <3>2 DEF Goto, Disciplined
    <3>4. /\ DOMAIN tenant' = DOMAIN tenant \cup {i} /\ tenant'[i] = doc
          /\ \A k \in DOMAIN tenant : tenant'[k] = tenant[k] /\ granted'[k] = granted[k]
          /\ granted'[i] = doc.modules \cup
               IF doc.plan \in DOMAIN plan THEN plan[doc.plan].modules ELSE {}
          BY <2>1, <3>1, <3>2 DEF With, PlatformShaped
    <3>5. ASSUME NEW g \in Desks PROVE BuyingDesk(g)'
      <4>1. CASE g = h
            BY <3>3, <4>1 DEF BuyingDesk
      <4>2. CASE g # h
        <5>1. pc[g] \in Changing => req[g].inst \in DOMAIN tenant
              BY DEF PlatformShaped, PlatformDesk
        <5>. QED BY <3>2, <3>3, <3>4, <4>2, <5>1, OtherBuyers DEF BoughtSound
      <4>. QED BY <4>1, <4>2
    <3>6. ASSUME NEW k \in DOMAIN tenant' PROVE Bought(k)'
      <4>1. CASE k = i
            BY <3>2, <3>4, <4>1 DEF Bought, PlanGave
      <4>2. CASE k \in DOMAIN tenant
            BY <3>2, <3>3, <3>4, <4>2 DEF BoughtSound, Bought, Undisputed, PlanGave
      <4>. QED BY <3>4, <4>1, <4>2
    <3>. QED BY <3>5, <3>6 DEF BoughtSound
  <2>. QED BY <2>2, <2>3
<1>3. CASE SetYear(h)
  <2>. DEFINE change == [year |-> TRUE]
  <2>1. PICK i : i = req[h].inst
        OBVIOUS
  <2>2. /\ pc[h] = "set year" /\ tenant' = [tenant EXCEPT ![i] = Amended(tenant[i], change)]
        /\ Goto(h, "seed defaults") /\ UNCHANGED <<plan, granted>>
        BY <1>3, <2>1 DEF SetYear, Amend, commerce
  <2>3. i \in DOMAIN tenant /\ Inst(i) \in req[h].claims
        BY <1>1, <2>1, <2>2 DEF PlatformDesk, Founding
  <2>4. /\ DOMAIN change = {"year"} /\ change.year = TRUE
        OBVIOUS
  <2>. HIDE DEF change
  <2>5. \A c \in TenantFields \ {"year"} : Amended(tenant[i], change)[c] = tenant[i][c]
    <3>1. DocShaped(tenant[i])
          BY <2>3 DEF PlatformShaped
    <3>. QED BY <2>4, <3>1, AmendedShaped
  <2>6. /\ DOMAIN tenant' = DOMAIN tenant /\ tenant'[i].plan = tenant[i].plan
        /\ tenant'[i].modules = tenant[i].modules /\ tenant'[i].dedicated = tenant[i].dedicated
        BY <2>2, <2>3, <2>5 DEF TenantFields
  <2>7. pc'[h] = "seed defaults" /\ req' = req /\ disturbed' = disturbed
        BY <2>2 DEF Goto, Disciplined
  <2>8. Bought(i)'
        BY <2>2, <2>3, <2>6, <2>7 DEF BoughtSound, Bought, Undisputed, PlanGave
  <2>. QED BY <2>1, <2>2, <2>3, <2>6, <2>7, <2>8, BoughtAmended
<1>4. CASE SeedRole(h)
  <2>1. UNCHANGED <<tenant, plan, granted>> /\ pc'[h] \notin {"write tenant", "weigh"}
        BY <1>4 DEF SeedRole, Store, Goto, tenancy, commerce, Disciplined
  <2>. QED BY <2>1, BoughtAnyway
<1>5. CASE InsertOwner(h) \/ CountOwner(h) \/ InsertYear(h)
  <2>1. UNCHANGED <<tenant, plan, granted>> /\ pc'[h] \notin {"write tenant", "weigh"}
        BY <1>5 DEF InsertOwner, CountOwner, InsertYear, Store, Goto, tenancy, commerce,
                    Disciplined
  <2>. QED BY <2>1, BoughtAnyway
<1>6. CASE SeedDefaults(h)
  <2>1. UNCHANGED <<tenant, plan, granted>> /\ pc'[h] \notin {"write tenant", "weigh"}
        BY <1>6 DEF SeedDefaults, Store, Goto, tenancy, commerce, Disciplined
  <2>. QED BY <2>1, BoughtAnyway
<1>7. CASE InsertSubscription(h)
  <2>1. UNCHANGED <<tenant, plan, granted>> /\ pc'[h] = "hand over"
        BY <1>7 DEF InsertSubscription, Goto, tenancy, Disciplined
  <2>. QED BY <2>1, BoughtAnyway
<1>8. CASE HandOver(h)
  <2>1. UNCHANGED <<tenant, plan, granted>> /\ pc'[h] = "idle"
        BY <1>8 DEF HandOver, Finish, Leave, commerce, Disciplined
  <2>. QED BY <2>1, BoughtAnyway
<1>. QED BY <1>2, <1>3, <1>4, <1>5, <1>6, <1>7, <1>8

LEMMA BoughtStepSound ==
    ASSUME Disciplined, PlatformShaped, PlatformShaped', BoughtSound, [Next]_vars
    PROVE  BoughtSound'
<1>1. ASSUME NEW h \in Desks, PlatformStep(h) PROVE BoughtSound'
  <2>1. Moves(h, PlatformCalls)
        BY <1>1, PlatformMoves
  <2>. QED BY <1>1, <2>1, BoughtArrive, TenancyBought, ConsoleBought, ProvisioningBought
           DEF PlatformStep, PlatformResume
<1>2. CASE Passes(PlatformCalls) /\ UNCHANGED platform
      BY <1>2, BoughtPassed DEF platform, tenancy, commerce
<1>3. CASE Passes(PlatformCalls) /\ Tick /\ UNCHANGED <<commerce, founding>>
      BY <1>3, BoughtPassed DEF Tick, commerce
<1>. QED BY <1>1, <1>2, <1>3, NextPasses DEF NextIsTheirs

LEMMA BoughtAlways == Spec => []BoughtSound
<1>1. Init => BoughtSound
      BY BoughtStart
<1>2. Disciplined /\ PlatformShaped /\ (Disciplined /\ PlatformShaped)' /\ BoughtSound
        /\ [Next]_vars => BoughtSound'
      BY BoughtStepSound
<1>. QED BY <1>1, <1>2, PlatformAlways, PTL DEF Spec

(***************************************************************************)
(* Nothing unbought is switched on where requests ran one after another:   *)
(* an institution outside a licence of its own, and neither it nor its     *)
(* plan met by two requests or by a request that went by an old word, has  *)
(* only modules it was given, whatever the console, the catalogue and its  *)
(* owner did to it and to others (update_modules, change_subscription,     *)
(* upsert_plan, update_tenant).                                            *)
(***************************************************************************)
THEOREM OnlyWhatWasBought == Spec => []NothingUnbought
<1>1. BoughtSound => NothingUnbought
      BY DEF BoughtSound, Bought, Undisputed, NothingUnbought, Within, Calm
<1>. QED BY <1>1, BoughtAlways, PTL

-----------------------------------------------------------------------------
(* What an institution has been given, by how far its founding has come.   *)

Kit(roles, owner, owners, year, defaults) ==
    [roles |-> roles, owner |-> owner, owners |-> owners, year |-> year,
     defaults |-> defaults]

\* Names for what is done and not done yet, for a lemma to be instantiated with.
Done == TRUE
Due  == FALSE

Dated   == {"seed defaults", "insert subscription", "hand over"}

KitAsFar(call, k) ==
    /\ call = "seed role" => \E roles \in SUBSET Presets : k = Kit(roles, Due, 0, Due, {})
    /\ call = "insert owner" => k = Kit(Presets, Due, 0, Due, {})
    /\ call = "count owner" => k = Kit(Presets, Done, 0, Due, {})
    /\ call = "insert year" => k = Kit(Presets, Done, 1, Due, {})
    /\ call = "set year" => k = Kit(Presets, Done, 1, Done, {})
    /\ call = "seed defaults" =>
         \E defaults \in SUBSET Defaults : k = Kit(Presets, Done, 1, Done, defaults)
    /\ call \in {"insert subscription", "hand over"} => k = FullKit

\* One subscription, on the plan given.
BilledOn(s, p) == \E x : s = <<x>> /\ x.plan = p

FoundingDesk(h) == pc[h] \in Founding =>
    /\ req[h].inst \notin offered
    /\ KitAsFar(pc[h], kit[req[h].inst])
    /\ pc[h] \in Dated => tenant[req[h].inst].year
    /\ req[h].doc.dedicated => tenant[req[h].inst].dedicated
    /\ Inst(req[h].inst) \notin disturbed =>
         /\ tenant[req[h].inst].plan = req[h].doc.plan
         /\ pc[h] # "hand over" => subs[req[h].inst] = <<>>
         /\ pc[h] = "hand over" /\ ~tenant[req[h].inst].dedicated =>
              BilledOn(subs[req[h].inst], tenant[req[h].inst].plan)

\* The plan is on the institution before it is on its subscription.
UpsertingDesk(h) == pc[h] = "upsert subscription" /\ Inst(req[h].inst) \notin disturbed =>
    tenant[req[h].inst].plan = req[h].change.plan

FoundersApart == \A g, h \in Desks :
    g # h /\ pc[g] \in Founding /\ pc[h] \in Founding => req[g].inst # req[h].inst

NoUpsert(i) == \A h \in Desks : pc[h] = "upsert subscription" => req[h].inst # i

HandedOver(i) ==
    /\ kit[i] = FullKit /\ tenant[i].year
    /\ Inst(i) \notin disturbed /\ ~tenant[i].dedicated =>
         \E x : subs[i] = <<x>> /\ (NoUpsert(i) => x.plan = tenant[i].plan)

ReadySound ==
    /\ offered \subseteq DOMAIN tenant
    /\ \A i \in offered : HandedOver(i)
    /\ FoundersApart
    /\ \A h \in Desks : FoundingDesk(h) /\ UpsertingDesk(h)

-----------------------------------------------------------------------------
LEMMA ReadyStart == ASSUME Init PROVE ReadySound
<1>. DEFINE new == NewTenant(Founded.slug, Founded.plan, FALSE, {})
            doc == [new EXCEPT !.year = TRUE]
            x == [plan |-> doc.plan, state |-> doc.sub]
<1>1. doc.year
      BY DEF NewTenant
<1>2. x.plan = doc.plan
      OBVIOUS
<1>3. /\ tenant = [i \in {Founded.inst} |-> doc]
      /\ kit = [i \in {Founded.inst} |-> FullKit]
      /\ subs = [i \in {Founded.inst} |-> <<x>>]
      /\ offered = {Founded.inst}
      /\ pc = [h \in Desks |-> "idle"]
      BY DEF Init, PlatformInit, RequestsInit
<1>. HIDE DEF x, doc
<1>4. ASSUME NEW i \in offered PROVE HandedOver(i)
  <2>1. /\ i = Founded.inst /\ kit[i] = FullKit /\ tenant[i] = doc /\ subs[i] = <<x>>
        BY <1>3
  <2>. QED BY <1>1, <1>2, <2>1 DEF HandedOver
<1>5. FoundersApart /\ \A h \in Desks : FoundingDesk(h) /\ UpsertingDesk(h)
      BY <1>3 DEF FoundersApart, FoundingDesk, UpsertingDesk, Founding
<1>. QED BY <1>3, <1>4, <1>5 DEF ReadySound

LEMMA FullKitIs == FullKit = Kit(Presets, Done, 1, Done, Defaults)
                   /\ EmptyKit = Kit({}, Due, 0, Due, {})
BY DEF FullKit, EmptyKit, Kit, Done, Due

LEMMA AnewIsOne ==
    ASSUME NEW x, NEW y
    PROVE  /\ [<<x>> EXCEPT ![1] = y] = <<y>>
           /\ DOMAIN <<x>> = {1} /\ <<x>> # <<>> /\ Append(<<>>, x) = <<x>>
           /\ Len(<<x>>) = 1 /\ <<x>>[1] = x
OBVIOUS

-----------------------------------------------------------------------------
\* The requests a step does not move.
LEMMA OtherFounders ==
    ASSUME disturbed \subseteq disturbed', NEW g \in Desks,
           pc'[g] = pc[g], req'[g] = req[g], FoundingDesk(g),
           pc[g] \in Founding =>
             /\ req[g].inst \notin offered'
             /\ kit'[req[g].inst] = kit[req[g].inst]
             /\ tenant[req[g].inst].year => tenant'[req[g].inst].year
             /\ tenant[req[g].inst].dedicated => tenant'[req[g].inst].dedicated
             /\ \/ Inst(req[g].inst) \in disturbed'
                \/ /\ tenant'[req[g].inst] = tenant[req[g].inst]
                   /\ subs'[req[g].inst] = subs[req[g].inst]
    PROVE  FoundingDesk(g)'
BY DEF FoundingDesk

LEMMA OtherUpserting ==
    ASSUME disturbed \subseteq disturbed', NEW g \in Desks,
           pc'[g] = pc[g], req'[g] = req[g], UpsertingDesk(g),
           pc[g] = "upsert subscription" =>
             \/ Inst(req[g].inst) \in disturbed'
             \/ tenant'[req[g].inst] = tenant[req[g].inst]
    PROVE  UpsertingDesk(g)'
BY DEF UpsertingDesk

LEMMA HandedStays ==
    ASSUME disturbed \subseteq disturbed', NEW i, HandedOver(i),
           kit'[i] = kit[i], tenant'[i] = tenant[i], subs'[i] = subs[i],
           Inst(i) \notin disturbed' /\ NoUpsert(i)' => NoUpsert(i)
    PROVE  HandedOver(i)'
<1>1. kit'[i] = FullKit /\ tenant'[i].year
      BY DEF HandedOver
<1>2. ASSUME Inst(i) \notin disturbed', ~tenant'[i].dedicated
      PROVE  \E x : subs'[i] = <<x>> /\ (NoUpsert(i)' => x.plan = tenant'[i].plan)
  <2>1. PICK x : subs[i] = <<x>> /\ (NoUpsert(i) => x.plan = tenant[i].plan)
        BY <1>2 DEF HandedOver
  <2>2. NoUpsert(i)' => NoUpsert(i)
        BY <1>2
  <2>. QED BY <2>1, <2>2
<1>. QED BY <1>1, <1>2 DEF HandedOver

LEMMA ReadyPassed ==
    ASSUME Disciplined, PlatformShaped, ReadySound, Passes(PlatformCalls),
           UNCHANGED <<tenant, subs, kit, offered>>
    PROVE  ReadySound'
<1>0. disturbed \subseteq disturbed'
      BY DEF Passes
<1>1. ASSUME NEW h \in Desks PROVE FoundingDesk(h)' /\ UpsertingDesk(h)'
  <2>1. CASE pc'[h] \in PlatformCalls
    <3>1. pc'[h] = pc[h] /\ req'[h] = req[h] /\ FoundingDesk(h) /\ UpsertingDesk(h)
          BY <2>1 DEF Passes, ReadySound
    <3>2. pc[h] \in Founding => req[h].inst \notin offered
          BY <3>1 DEF FoundingDesk
    <3>. QED BY <1>0, <3>1, <3>2, OtherFounders, OtherUpserting
  <2>2. CASE pc'[h] \notin PlatformCalls
        BY <2>2 DEF FoundingDesk, UpsertingDesk, PlatformCalls, Founding
  <2>. QED BY <2>1, <2>2
<1>2. FoundersApart'
  <2>1. \A h \in Desks : pc'[h] \in Founding => pc[h] \in Founding /\ req'[h] = req[h]
        BY DEF Passes, PlatformCalls, Founding
  <2>. QED BY <2>1 DEF ReadySound, FoundersApart
<1>3. ASSUME NEW i \in offered PROVE HandedOver(i)'
  <2>1. ASSUME Inst(i) \notin disturbed', NoUpsert(i)', NEW h \in Desks,
               pc[h] = "upsert subscription", req[h].inst = i
        PROVE  FALSE
    <3>1. pc[h] = pc'[h] \/ req[h].claims \subseteq disturbed'
          BY <2>1 DEF Passes, PlatformCalls
    <3>2. Inst(i) \in req[h].claims
          BY <2>1 DEF PlatformShaped, PlatformDesk, Changing
    <3>3. pc'[h] = "upsert subscription" => req'[h] = req[h]
          BY DEF Passes, PlatformCalls
    <3>. QED BY <2>1, <3>1, <3>2, <3>3 DEF NoUpsert
  <2>2. HandedOver(i)
        BY DEF ReadySound
  <2>3. Inst(i) \notin disturbed' /\ NoUpsert(i)' => NoUpsert(i)
        BY <2>1 DEF NoUpsert
  <2>. QED BY <1>0, <2>2, <2>3, HandedStays
<1>. QED BY <1>1, <1>2, <1>3 DEF ReadySound

\* A step that changes no institution is sound if its own request is.
LEMMA ReadyMoved ==
    ASSUME Disciplined, PlatformShaped, ReadySound, NEW h \in Desks,
           Moves(h, PlatformCalls), UNCHANGED <<tenant, subs, kit, offered>>,
           pc[h] # "upsert subscription", pc'[h] \notin Founding \cup {"upsert subscription"}
    PROVE  ReadySound'
<1>1. /\ \A g \in Desks \ {h} : pc'[g] = pc[g] /\ req'[g] = req[g]
      /\ disturbed \subseteq disturbed'
      BY DEF Moves, Disciplined
<1>2. ASSUME NEW g \in Desks PROVE FoundingDesk(g)' /\ UpsertingDesk(g)'
  <2>1. CASE g = h
        BY <2>1 DEF FoundingDesk, UpsertingDesk
  <2>2. CASE g # h
    <3>1. FoundingDesk(g) /\ UpsertingDesk(g)
          BY DEF ReadySound
    <3>2. pc[g] \in Founding => req[g].inst \notin offered
          BY <3>1 DEF FoundingDesk
    <3>. QED BY <1>1, <2>2, <3>1, <3>2, OtherFounders, OtherUpserting
  <2>. QED BY <2>1, <2>2
<1>3. FoundersApart'
      BY <1>1 DEF ReadySound, FoundersApart
<1>4. ASSUME NEW i \in offered PROVE HandedOver(i)'
  <2>1. NoUpsert(i)' => NoUpsert(i)
        BY <1>1 DEF NoUpsert
  <2>. QED BY <1>1, <2>1, HandedStays DEF ReadySound
<1>. QED BY <1>2, <1>3, <1>4 DEF ReadySound

\* One that touches its own institution only.
LEMMA ReadyTouched ==
    ASSUME Disciplined, PlatformShaped, ReadySound, NEW h \in Desks,
           Moves(h, PlatformCalls), NEW i \in DOMAIN tenant,
           req[h].inst = i, Inst(i) \in req[h].claims, DOMAIN tenant' = DOMAIN tenant,
           \A k \in DOMAIN tenant \ {i} :
             tenant'[k] = tenant[k] /\ subs'[k] = subs[k] /\ kit'[k] = kit[k],
           offered' \subseteq offered \cup {i},
           \/ pc[h] \in Founding
           \/ /\ UNCHANGED <<kit, offered>> /\ pc'[h] \notin Founding
              /\ tenant[i].year => tenant'[i].year
              /\ tenant[i].dedicated => tenant'[i].dedicated,
           pc'[h] \in Founding => req'[h] = req[h],
           FoundingDesk(h)', UpsertingDesk(h)', i \in offered' => HandedOver(i)'
    PROVE  ReadySound'
<1>1. /\ \A g \in Desks \ {h} : pc'[g] = pc[g] /\ req'[g] = req[g]
      /\ disturbed \subseteq disturbed'
      BY DEF Moves, Disciplined
<1>2. ASSUME NEW g \in Desks PROVE FoundingDesk(g)' /\ UpsertingDesk(g)'
  <2>1. CASE g = h
        BY <2>1
  <2>2. CASE g # h
    <3>1. FoundingDesk(g) /\ UpsertingDesk(g) /\ PlatformDesk(g)
          BY DEF ReadySound, PlatformShaped
    <3>2. pc[g] \in Founding => req[g].inst \notin offered
          BY <3>1 DEF FoundingDesk
    <3>3. pc[g] \in Founding \cup Changing /\ req[g].inst = i => Inst(i) \in disturbed
          BY <2>2, <3>1 DEF PlatformDesk, Disciplined, Apart
    <3>4. pc[g] \in Founding \cup Changing => req[g].inst \in DOMAIN tenant
          BY <3>1 DEF PlatformDesk
    <3>5. pc[g] \in Founding /\ pc[h] \in Founding => req[g].inst # i
          BY <2>2 DEF ReadySound, FoundersApart
    <3>6. UpsertingDesk(g)'
          BY <1>1, <2>2, <3>1, <3>3, <3>4, OtherUpserting DEF Changing
    <3>7. ASSUME pc[g] \in Founding
          PROVE  /\ req[g].inst \notin offered'
                 /\ kit'[req[g].inst] = kit[req[g].inst]
                 /\ tenant[req[g].inst].year => tenant'[req[g].inst].year
                 /\ tenant[req[g].inst].dedicated => tenant'[req[g].inst].dedicated
                 /\ \/ Inst(req[g].inst) \in disturbed'
                    \/ /\ tenant'[req[g].inst] = tenant[req[g].inst]
                       /\ subs'[req[g].inst] = subs[req[g].inst]
          BY <1>1, <3>2, <3>3, <3>4, <3>5, <3>7
    <3>8. FoundingDesk(g)'
          BY <1>1, <2>2, <3>1, <3>7, OtherFounders
    <3>. QED BY <3>6, <3>8
  <2>. QED BY <2>1, <2>2
<1>3. FoundersApart'
      BY <1>1 DEF ReadySound, FoundersApart
<1>4. ASSUME NEW k \in offered' PROVE HandedOver(k)'
  <2>1. CASE k = i
        BY <2>1
  <2>2. CASE k # i
    <3>1. k \in offered /\ k \in DOMAIN tenant /\ HandedOver(k)
          BY <2>2 DEF ReadySound
    <3>2. NoUpsert(k)' => NoUpsert(k)
          BY <1>1, <2>2 DEF NoUpsert
    <3>. QED BY <1>1, <2>2, <3>1, <3>2, HandedStays
  <2>. QED BY <2>1, <2>2
<1>5. offered' \subseteq DOMAIN tenant'
      BY DEF ReadySound
<1>. QED BY <1>2, <1>3, <1>4, <1>5 DEF ReadySound

-----------------------------------------------------------------------------
LEMMA ReadyArrive ==
    ASSUME Disciplined, PlatformShaped, ReadySound, NEW h \in Desks, PlatformArrive(h),
           Moves(h, PlatformCalls)
    PROVE  ReadySound'
<1>1. pc[h] = "idle"
      BY DEF PlatformArrive, Open, Idle
<1>2. UNCHANGED <<tenant, subs, kit, offered>>
      /\ pc'[h] \notin Founding \cup {"upsert subscription"}
  <2>1. ASSUME NEW op, NEW w, NEW i, NEW change, BeginWrite(h, op, w, i, change)
        PROVE  pc'[h] = "write tenant" /\ UNCHANGED <<tenancy, commerce>>
        BY <2>1 DEF BeginWrite, Begin, Disciplined
  <2>2. ASSUME NEW w, NEW i, ToInstitution(h, w, i)
        PROVE  pc'[h] \in {"write tenant", "look up plan"} /\ UNCHANGED <<tenancy, commerce>>
    <3>1. ASSUME Convert(h, w, i)
          PROVE  pc'[h] = "write tenant" /\ UNCHANGED <<tenancy, commerce>>
          BY <3>1 DEF Convert, Begin, Disciplined
    <3>2. ASSUME NEW p, NEW lifetime, BeginSubscribe(h, w, i, p, lifetime)
          PROVE  pc'[h] = "look up plan" /\ UNCHANGED <<tenancy, commerce>>
          BY <3>2 DEF BeginSubscribe, Begin, Disciplined
    <3>. QED BY <2>1, <2>2, <3>1, <3>2 DEF ToInstitution, SetTenantStatus, UpdateTenant
  <2>3. ASSUME NEW p, NEW ms, UpsertPlan(h, p, ms)
        PROVE  pc'[h] = "idle" /\ UNCHANGED <<tenancy, subs>>
        BY <1>1, <2>3 DEF UpsertPlan, Once
  <2>4. ASSUME NEW p, BeginRetire(h, p)
        PROVE  pc'[h] = "retire plan" /\ UNCHANGED <<tenancy, commerce>>
        BY <2>4 DEF BeginRetire, Begin, Disciplined
  <2>5. ASSUME NEW w, NEW key, NEW m, BeginVisit(h, w, key, m) \/ BeginSwitch(h, w, key, m)
        PROVE  pc'[h] = "look up" /\ UNCHANGED tenancy
        BY <2>5 DEF BeginVisit, BeginSwitch, Begin, Disciplined
  <2>6. ASSUME NEW w, NEW i, NEW s, NEW o,
               BeginProvision(h, w, i, s, o.plan, o.lifetime, o.chosen)
        PROVE  pc'[h] = "insert tenant" /\ UNCHANGED platform
        BY <2>6 DEF BeginProvision, Begin, Disciplined
  <2>7. CASE UNCHANGED founding /\ (\/ \E w \in Workers, i \in Institutions : ToInstitution(h, w, i)
                                    \/ \E p, ms : UpsertPlan(h, p, ms)
                                    \/ \E p : BeginRetire(h, p))
        BY <2>2, <2>3, <2>4, <2>7 DEF tenancy, commerce, founding, Founding
  <2>8. CASE UNCHANGED <<commerce, founding>>
             /\ \E w, key, m : BeginVisit(h, w, key, m) \/ BeginSwitch(h, w, key, m)
        BY <2>5, <2>8 DEF tenancy, commerce, founding, Founding
  <2>9. CASE \E w, i, s, o : BeginProvision(h, w, i, s, o.plan, o.lifetime, o.chosen)
        BY <2>6, <2>9 DEF platform, tenancy, commerce, founding, Founding
  <2>. QED BY <2>7, <2>8, <2>9 DEF PlatformArrive
<1>. QED BY <1>1, <1>2, ReadyMoved

LEMMA TenancyReady ==
    ASSUME Disciplined, PlatformShaped, ReadySound, NEW h \in Desks, Moves(h, PlatformCalls),
           LookUp(h) \/ ReadTenant(h) \/ Remember(h) \/ Forget(h),
           UNCHANGED <<commerce, founding>>
    PROVE  ReadySound'
<1>1. UNCHANGED <<tenant, subs, kit, offered>> /\ pc[h] # "upsert subscription"
      BY DEF LookUp, ReadTenant, Remember, Forget, tenancy, commerce, founding
<1>2. Fits(pc[h], req[h])
      BY DEF Disciplined
<1>3. ASSUME NEW i, NEW doc, GoBy(h, i, doc), req[h].then \in {"guard", "weigh"}
      PROVE  pc'[h] \in {"idle", "weigh"}
  <2>1. CASE req[h].then = "guard"
        BY <1>3, <2>1 DEF GoBy, BreakOff, Leave, Disciplined
  <2>2. CASE req[h].then = "weigh"
        BY <1>3, <2>2 DEF GoBy, Disciplined
  <2>. QED BY <1>3, <2>1, <2>2
<1>4. pc'[h] \in {"idle", "weigh", "read tenant", "remember"}
  <2>1. CASE LookUp(h)
    <3>1. req[h].then \in {"guard", "weigh"}
          BY <1>2, <2>1 DEF LookUp, Fits, Looking
    <3>2. CASE Hit(req[h].worker, req[h].key)
          BY <1>3, <2>1, <3>1, <3>2 DEF LookUp
    <3>3. CASE ~Hit(req[h].worker, req[h].key)
          BY <2>1, <3>3 DEF LookUp, Goto, Disciplined
    <3>. QED BY <3>2, <3>3
  <2>2. CASE ReadTenant(h)
        BY <2>2 DEF ReadTenant, Finish, Leave, TakeOn, Disciplined
  <2>3. CASE Remember(h)
    <3>1. req[h].then \in {"guard", "weigh"}
          BY <1>2, <2>3 DEF Remember, Fits, Looking
    <3>. QED BY <1>3, <2>3, <3>1 DEF Remember
  <2>4. CASE Forget(h)
        BY <2>4 DEF Forget, Finish, Leave, Disciplined
  <2>. QED BY <2>1, <2>2, <2>3, <2>4
<1>. QED BY <1>1, <1>4, ReadyMoved DEF Founding

LEMMA ConsoleReady ==
    ASSUME Disciplined, PlatformShaped, ReadySound, NEW h \in Desks, Moves(h, PlatformCalls),
           \/ LookUpPlan(h) \/ WriteTenant(h) \/ UpsertSubscription(h)
           \/ EndSubscriptions(h) \/ Weigh(h) \/ RetirePlan(h),
           UNCHANGED founding
    PROVE  ReadySound'
<1>0. /\ UNCHANGED <<kit, offered>>
      /\ Fits(pc[h], req[h]) /\ PlatformDesk(h) /\ UpsertingDesk(h)
      BY DEF founding, Disciplined, PlatformShaped, ReadySound
<1>1. CASE LookUpPlan(h)
  <2>1. /\ UNCHANGED <<tenant, subs>> /\ pc[h] = "look up plan"
        /\ pc'[h] \in {"idle", "write tenant"}
        BY <1>1 DEF LookUpPlan, Finish, Leave, Carry, tenancy, commerce, Disciplined
  <2>. QED BY <1>0, <2>1, ReadyMoved DEF Founding
<1>2. CASE Weigh(h)
  <2>1. /\ UNCHANGED <<tenant, subs>> /\ pc[h] = "weigh"
        /\ pc'[h] \in {"idle", "write tenant"}
        BY <1>2 DEF Weigh, Finish, Leave, Carry, tenancy, commerce, Disciplined
  <2>. QED BY <1>0, <2>1, ReadyMoved DEF Founding
<1>3. CASE RetirePlan(h)
  <2>1. UNCHANGED <<tenant, subs>> /\ pc[h] = "retire plan" /\ pc'[h] = "idle"
        BY <1>3 DEF RetirePlan, Finish, Leave, tenancy, Disciplined
  <2>. QED BY <1>0, <2>1, ReadyMoved DEF Founding
<1>4. CASE WriteTenant(h)
  <2>1. PICK i, change, then : i = req[h].inst /\ change = req[h].change /\ then = req[h].then
        OBVIOUS
  <2>2. /\ pc[h] = "write tenant" /\ i \in DOMAIN tenant /\ Inst(i) \in req[h].claims
        /\ ChangeShaped(then, change)
        BY <1>0, <1>4, <2>1 DEF WriteTenant, PlatformDesk, Changing
  <2>. DEFINE d == Amended(tenant[i], change)
  <2>3. /\ tenant' = [tenant EXCEPT ![i] = d] /\ req' = req /\ UNCHANGED subs
        /\ pc'[h] = IF then = "answer owner" THEN "forget" ELSE then
        /\ disturbed' = disturbed
        BY <1>4, <2>1 DEF WriteTenant, Amend, Goto, Disciplined
  <2>4. \A c \in TenantFields : d[c] = IF c \in DOMAIN change THEN change[c] ELSE tenant[i][c]
    <3>1. DocShaped(tenant[i])
          BY <2>2 DEF PlatformShaped
    <3>2. /\ "year" \in DOMAIN change => change.year \in BOOLEAN
          /\ "dedicated" \in DOMAIN change => change.dedicated \in BOOLEAN
          BY <2>2 DEF ChangeShaped
    <3>. QED BY <3>1, <3>2, AmendedShaped
  <2>. HIDE DEF d
  <2>5. /\ tenant[i].year => d.year
        /\ tenant[i].dedicated => d.dedicated
        /\ d.plan = IF "plan" \in DOMAIN change THEN change.plan ELSE tenant[i].plan
        /\ d.dedicated = IF "dedicated" \in DOMAIN change THEN change.dedicated
                         ELSE tenant[i].dedicated
        BY <2>2, <2>4 DEF TenantFields, ChangeShaped
  <2>6. /\ DOMAIN tenant' = DOMAIN tenant /\ tenant'[i] = d
        /\ \A k \in DOMAIN tenant \ {i} : tenant'[k] = tenant[k]
        BY <2>2, <2>3
  <2>7. then \in {"forget", "answer owner", "upsert subscription", "end subscriptions"}
        BY <1>0, <2>1, <2>2 DEF Fits
  <2>8. pc'[h] \in {"forget", "upsert subscription", "end subscriptions"}
        BY <2>3, <2>7
  <2>9. FoundingDesk(h)'
        BY <2>8 DEF FoundingDesk, Founding
  <2>10. UpsertingDesk(h)'
    <3>1. then = "upsert subscription" => d.plan = change.plan
          BY <2>2, <2>5 DEF ChangeShaped
    <3>2. pc'[h] = "upsert subscription" => then = "upsert subscription"
          BY <2>3, <2>7
    <3>. QED BY <2>1, <2>3, <2>6, <3>1, <3>2 DEF UpsertingDesk
  <2>11. ASSUME i \in offered PROVE HandedOver(i)'
    <3>1. HandedOver(i)
          BY <2>11 DEF ReadySound
    <3>2. kit'[i] = FullKit /\ tenant'[i].year
          BY <1>0, <2>5, <2>6, <3>1 DEF HandedOver
    <3>3. ASSUME Inst(i) \notin disturbed', ~tenant'[i].dedicated
          PROVE  \E x : subs[i] = <<x>> /\ (NoUpsert(i)' => x.plan = tenant'[i].plan)
      <4>1. PICK x : subs[i] = <<x>> /\ (NoUpsert(i) => x.plan = tenant[i].plan)
            BY <2>3, <2>5, <2>6, <3>1, <3>3 DEF HandedOver
      <4>2. ASSUME NoUpsert(i)' PROVE x.plan = tenant'[i].plan
        <5>1. \A g \in Desks \ {h} : pc'[g] = pc[g]
              BY DEF Moves, Disciplined
        <5>2. NoUpsert(i)
              BY <2>2, <2>3, <4>2, <5>1 DEF NoUpsert
        <5>3. pc'[h] # "upsert subscription"
              BY <2>1, <2>3, <4>2 DEF NoUpsert
        <5>4. "dedicated" \notin DOMAIN change
              BY <2>2, <2>5, <2>6, <3>3 DEF ChangeShaped
        <5>5. "plan" \notin DOMAIN change
          <6>1. CASE then = "forget"
                BY <2>2, <6>1 DEF ChangeShaped
          <6>2. CASE then = "answer owner"
            <7>1. DOMAIN change = {"modules"}
                  BY <2>2, <6>2 DEF ChangeShaped
            <7>. QED BY <7>1
          <6>3. CASE then = "end subscriptions"
                BY <2>2, <5>4, <6>3 DEF ChangeShaped
          <6>4. then # "upsert subscription"
                BY <2>3, <5>3
          <6>. QED BY <2>7, <6>1, <6>2, <6>3, <6>4
        <5>. QED BY <2>5, <2>6, <4>1, <5>2, <5>5
      <4>. QED BY <4>1, <4>2
    <3>. QED BY <2>3, <3>2, <3>3 DEF HandedOver
  <2>12. pc'[h] \notin Founding
        BY <2>8 DEF Founding
  <2>. QED BY <1>0, <2>1, <2>2, <2>3, <2>5, <2>6, <2>9, <2>10, <2>11, <2>12, ReadyTouched
<1>5. ASSUME NEW i, NEW s, i = req[h].inst, subs' = [subs EXCEPT ![i] = s],
             UNCHANGED tenant, Goto(h, "forget"),
             pc[h] \in {"upsert subscription", "end subscriptions"},
             i \in offered => HandedOver(i)'
      PROVE  ReadySound'
  <2>1. i \in DOMAIN tenant /\ Inst(i) \in req[h].claims /\ i \in DOMAIN subs
        BY <1>0, <1>5 DEF PlatformDesk, PlatformShaped, Changing
  <2>2. pc'[h] = "forget" /\ req' = req
        BY <1>5 DEF Goto, Disciplined
  <2>3. FoundingDesk(h)' /\ UpsertingDesk(h)' /\ pc'[h] \notin Founding
        BY <2>2 DEF FoundingDesk, UpsertingDesk, Founding
  <2>4. \A k \in DOMAIN tenant \ {i} : tenant'[k] = tenant[k] /\ subs'[k] = subs[k]
        BY <1>5 DEF PlatformShaped
  <2>. QED BY <1>0, <1>5, <2>1, <2>2, <2>3, <2>4, ReadyTouched
<1>6. CASE UpsertSubscription(h)
  <2>1. PICK i : i = req[h].inst
        OBVIOUS
  <2>. DEFINE c == req[h].change
              y == [plan |-> c.plan, state |-> c.sub]
  <2>2. PICK s \in Subscribed(subs[i], c.plan, c.sub) : subs' = [subs EXCEPT ![i] = s]
        BY <1>6, <2>1 DEF UpsertSubscription
  <2>3. pc[h] = "upsert subscription" /\ UNCHANGED tenant /\ Goto(h, "forget")
        BY <1>6 DEF UpsertSubscription, tenancy
  <2>4. i \in DOMAIN subs
        BY <1>0, <2>1, <2>3 DEF PlatformDesk, PlatformShaped, Changing
  <2>5. ASSUME i \in offered PROVE HandedOver(i)'
    <3>1. HandedOver(i) /\ disturbed' = disturbed
          BY <2>3, <2>5 DEF ReadySound, Goto
    <3>2. ASSUME Inst(i) \notin disturbed, ~tenant[i].dedicated
          PROVE  \E x : s = <<x>> /\ x.plan = tenant[i].plan
      <4>1. PICK x : subs[i] = <<x>>
            BY <3>1, <3>2 DEF HandedOver
      <4>2. y.plan = tenant[i].plan
            BY <1>0, <2>1, <2>3, <3>2 DEF UpsertingDesk
      <4>3. \E k \in DOMAIN <<x>> : s = [<<x>> EXCEPT ![k] = y]
            BY <2>2, <4>1, AnewIsOne DEF Subscribed
      <4>. HIDE DEF y
      <4>4. s = <<y>>
            BY <4>3, AnewIsOne
      <4>. QED BY <4>2, <4>4
    <3>3. subs'[i] = s
          BY <2>2, <2>4
    <3>. QED BY <1>0, <2>3, <3>1, <3>2, <3>3 DEF HandedOver
  <2>. QED BY <1>5, <2>1, <2>2, <2>3, <2>5
<1>7. CASE EndSubscriptions(h)
  <2>1. PICK i : i = req[h].inst
        OBVIOUS
  <2>. DEFINE s == [k \in DOMAIN subs[i] |->
                     IF subs[i][k].state \in {"trialing", "active", "past_due"}
                     THEN [plan |-> subs[i][k].plan, state |-> "lifetime"]
                     ELSE subs[i][k]]
  <2>2. subs' = [subs EXCEPT ![i] = s]
        BY <1>7, <2>1 DEF EndSubscriptions
  <2>3. pc[h] = "end subscriptions" /\ UNCHANGED tenant /\ Goto(h, "forget")
        BY <1>7 DEF EndSubscriptions, tenancy
  <2>4. i \in DOMAIN subs
        BY <1>0, <2>1, <2>3 DEF PlatformDesk, PlatformShaped, Changing
  <2>5. ASSUME NEW x, subs[i] = <<x>> PROVE \E z : s = <<z>> /\ z.plan = x.plan
    <3>. DEFINE z == IF x.state \in {"trialing", "active", "past_due"}
                     THEN [plan |-> x.plan, state |-> "lifetime"] ELSE x
    <3>1. DOMAIN subs[i] = {1} /\ subs[i][1] = x
          BY <2>5, AnewIsOne
    <3>2. s = [k \in {1} |-> z]
          BY <3>1
    <3>3. z.plan = x.plan
          OBVIOUS
    <3>. HIDE DEF z
    <3>4. [k \in {1} |-> z] = <<z>>
          OBVIOUS
    <3>. QED BY <3>2, <3>3, <3>4
  <2>. HIDE DEF s
  <2>6. ASSUME i \in offered PROVE HandedOver(i)'
    <3>1. HandedOver(i) /\ disturbed' = disturbed
          BY <2>3, <2>6 DEF ReadySound, Goto
    <3>2. NoUpsert(i)' => NoUpsert(i)
          BY <2>3 DEF NoUpsert, Moves, Disciplined
    <3>3. subs'[i] = s
          BY <2>2, <2>4
    <3>4. ASSUME Inst(i) \notin disturbed, ~tenant[i].dedicated
          PROVE  \E z : s = <<z>> /\ (NoUpsert(i)' => z.plan = tenant[i].plan)
      <4>1. PICK x : subs[i] = <<x>> /\ (NoUpsert(i) => x.plan = tenant[i].plan)
            BY <3>1, <3>4 DEF HandedOver
      <4>. QED BY <2>5, <3>2, <4>1
    <3>. QED BY <1>0, <2>3, <3>1, <3>3, <3>4 DEF HandedOver
  <2>. QED BY <1>5, <2>1, <2>2, <2>3, <2>6
<1>. QED BY <1>1, <1>2, <1>3, <1>4, <1>6, <1>7

\* One more thing stored for the institution that is being founded.
LEMMA StoreReady ==
    ASSUME Disciplined, PlatformShaped, ReadySound, NEW h \in Desks, Moves(h, PlatformCalls),
           NEW change, Store(h, change), pc[h] \in Founding \ {"hand over"},
           NEW call \in Founding, Goto(h, call),
           KitAsFar(call, Amended(kit[req[h].inst], change)),
           call \in Dated => tenant[req[h].inst].year,
           call = "hand over" => req[h].doc.dedicated
    PROVE  ReadySound'
<1>1. PICK i : i = req[h].inst
      OBVIOUS
<1>. DEFINE k == Amended(kit[i], change)
<1>2. /\ i \in DOMAIN tenant /\ Inst(i) \in req[h].claims /\ i \in DOMAIN kit
      /\ FoundingDesk(h)
      BY <1>1 DEF PlatformShaped, PlatformDesk, ReadySound
<1>3. /\ kit' = [kit EXCEPT ![i] = k] /\ UNCHANGED <<tenant, subs, offered>>
      /\ pc'[h] = call /\ req' = req /\ disturbed' = disturbed
      BY <1>1 DEF Store, Goto, tenancy, commerce, Disciplined
<1>4. KitAsFar(call, k)
      BY <1>1
<1>. HIDE DEF k
<1>5. kit'[i] = k /\ \A j \in DOMAIN tenant \ {i} : kit'[j] = kit[j]
      BY <1>2, <1>3 DEF PlatformShaped
<1>6. i \notin offered
      BY <1>1, <1>2 DEF FoundingDesk
<1>7. FoundingDesk(h)'
  <2>1. KitAsFar(pc'[h], kit'[i])
        BY <1>3, <1>4, <1>5
  <2>2. /\ req[h].doc.dedicated => tenant[i].dedicated
        /\ Inst(i) \notin disturbed => /\ tenant[i].plan = req[h].doc.plan
                                       /\ subs[i] = <<>>
        BY <1>1, <1>2 DEF FoundingDesk
  <2>. QED BY <1>1, <1>3, <1>6, <2>1, <2>2 DEF FoundingDesk
<1>8. UpsertingDesk(h)'
      BY <1>3 DEF UpsertingDesk, Founding
<1>. QED BY <1>1, <1>2, <1>3, <1>5, <1>6, <1>7, <1>8, ReadyTouched

LEMMA ProvisioningReady ==
    ASSUME Disciplined, PlatformShaped, PlatformShaped', ReadySound, NEW h \in Desks,
           Moves(h, PlatformCalls),
           \/ InsertTenant(h) \/ SeedRole(h) \/ InsertOwner(h) \/ CountOwner(h)
           \/ InsertYear(h) \/ SetYear(h) \/ SeedDefaults(h)
           \/ InsertSubscription(h) \/ HandOver(h)
    PROVE  ReadySound'
<1>. USE DEF Founding
<1>1. PlatformDesk(h) /\ FoundingDesk(h)
      BY DEF PlatformShaped, ReadySound
<1>2. CASE InsertTenant(h)
  <2>1. pc[h] = "insert tenant" /\ req[h].inst \notin DOMAIN tenant
        BY <1>1, <1>2 DEF InsertTenant, PlatformDesk
  <2>2. CASE Finish(h) /\ UNCHANGED platform
    <3>1. pc'[h] = "idle"
          BY <2>2 DEF Finish, Leave, Disciplined
    <3>. QED BY <2>1, <2>2, <3>1, ReadyMoved DEF platform, tenancy, commerce, founding
  <2>3. CASE ~(Finish(h) /\ UNCHANGED platform)
    <3>1. PICK i, doc : i = req[h].inst /\ doc = req[h].doc
          OBVIOUS
    <3>2. /\ tenant' = With(tenant, i, doc) /\ subs' = With(subs, i, <<>>)
          /\ kit' = With(kit, i, EmptyKit) /\ Goto(h, "seed role") /\ UNCHANGED offered
          BY <1>2, <2>3, <3>1 DEF InsertTenant
    <3>3. /\ pc'[h] = "seed role" /\ req' = req /\ disturbed' = disturbed
          /\ \A g \in Desks \ {h} : pc'[g] = pc[g]
          BY <3>2 DEF Goto, Disciplined
    <3>4. /\ DOMAIN tenant' = DOMAIN tenant \cup {i} /\ tenant'[i] = doc
          /\ subs'[i] = <<>> /\ kit'[i] = EmptyKit
          /\ \A k \in DOMAIN tenant :
               tenant'[k] = tenant[k] /\ subs'[k] = subs[k] /\ kit'[k] = kit[k]
          BY <2>1, <3>1, <3>2 DEF With, PlatformShaped
    <3>5. offered \subseteq DOMAIN tenant
          BY DEF ReadySound
    <3>6. ASSUME NEW g \in Desks PROVE FoundingDesk(g)' /\ UpsertingDesk(g)'
      <4>1. CASE g = h
        <5>1. KitAsFar("seed role", EmptyKit)
              BY FullKitIs DEF KitAsFar
        <5>2. KitAsFar(pc'[h], kit'[i])
              BY <3>3, <3>4, <5>1
        <5>3. FoundingDesk(h)'
              BY <2>1, <3>1, <3>2, <3>3, <3>4, <3>5, <5>2 DEF FoundingDesk, Dated
        <5>. QED BY <3>3, <4>1, <5>3 DEF UpsertingDesk
      <4>2. CASE g # h
        <5>1. pc[g] \in Changing \cup Founding => req[g].inst \in DOMAIN tenant
              BY DEF PlatformShaped, PlatformDesk
        <5>2. FoundingDesk(g) /\ UpsertingDesk(g)
              BY DEF ReadySound
        <5>3. pc[g] \in Founding => req[g].inst \notin offered
              BY <5>2 DEF FoundingDesk
        <5>4. FoundingDesk(g)'
              BY <3>2, <3>3, <3>4, <4>2, <5>1, <5>2, <5>3, OtherFounders
        <5>5. UpsertingDesk(g)'
              BY <3>3, <3>4, <4>2, <5>1, <5>2, OtherUpserting DEF Changing
        <5>. QED BY <5>4, <5>5
      <4>. QED BY <4>1, <4>2
    <3>7. FoundersApart'
      <4>1. \A g \in Desks : pc[g] \in Founding => req[g].inst # i
            BY <2>1, <3>1 DEF PlatformShaped, PlatformDesk
      <4>2. ASSUME NEW f \in Desks, NEW g \in Desks, f # g, pc'[f] \in Founding,
                   pc'[g] \in Founding
            PROVE  req'[f].inst # req'[g].inst
        <5>1. CASE f # h /\ g # h
              BY <3>3, <4>2, <5>1 DEF ReadySound, FoundersApart
        <5>2. CASE f = h \/ g = h
              BY <3>1, <3>3, <4>1, <4>2, <5>2
        <5>. QED BY <5>1, <5>2
      <4>. QED BY <4>2 DEF FoundersApart
    <3>8. ASSUME NEW k \in offered PROVE HandedOver(k)'
      <4>1. NoUpsert(k)' => NoUpsert(k)
            BY <2>1, <3>3 DEF NoUpsert
      <4>. QED BY <3>3, <3>4, <3>5, <4>1, HandedStays DEF ReadySound
    <3>. QED BY <3>2, <3>4, <3>5, <3>6, <3>7, <3>8 DEF ReadySound
  <2>. QED BY <2>2, <2>3
<1>3. CASE SeedRole(h)
  <2>1. PICK r \in Presets \ kit[req[h].inst].roles :
          LET roles == kit[req[h].inst].roles \cup {r} IN
          /\ Store(h, [roles |-> roles])
          /\ Goto(h, IF roles = Presets THEN "insert owner" ELSE "seed role")
        BY <1>3 DEF SeedRole
  <2>2. PICK all, call : /\ all = kit[req[h].inst].roles \cup {r}
                         /\ call = IF all = Presets THEN "insert owner" ELSE "seed role"
        OBVIOUS
  <2>3. pc[h] = "seed role" /\ Store(h, [roles |-> all]) /\ Goto(h, call)
        BY <1>3, <2>1, <2>2 DEF SeedRole
  <2>4. PICK roles \in SUBSET Presets : kit[req[h].inst] = Kit(roles, Due, 0, Due, {})
        BY <1>1, <2>3 DEF FoundingDesk, KitAsFar
  <2>5. all \in SUBSET Presets
    <3>1. kit[req[h].inst].roles = roles
          BY <2>4 DEF Kit
    <3>. QED BY <2>2, <3>1
  <2>6. Amended(kit[req[h].inst], [roles |-> all]) = Kit(all, Due, 0, Due, {})
    <3>1. Amended(Kit(roles, Due, 0, Due, {}), [roles |-> all]) = Kit(all, Due, 0, Due, {})
          BY DEF Amended, Kit
    <3>. QED BY <2>4, <3>1
  <2>7. KitAsFar(call, Amended(kit[req[h].inst], [roles |-> all])) /\ call \in Founding
        /\ call \notin Dated
        BY <2>2, <2>5, <2>6 DEF KitAsFar, Dated
  <2>. QED BY <2>3, <2>7, StoreReady DEF Dated
<1>4. CASE InsertOwner(h)
  <2>1. pc[h] = "insert owner" /\ Store(h, [owner |-> Done]) /\ Goto(h, "count owner")
        BY <1>4 DEF InsertOwner, Done
  <2>2. KitAsFar("count owner", Amended(kit[req[h].inst], [owner |-> Done]))
    <3>1. kit[req[h].inst] = Kit(Presets, Due, 0, Due, {})
          BY <1>1, <2>1 DEF FoundingDesk, KitAsFar
    <3>2. Amended(Kit(Presets, Due, 0, Due, {}), [owner |-> Done])
            = Kit(Presets, Done, 0, Due, {})
          BY DEF Amended, Kit
    <3>3. KitAsFar("count owner", Kit(Presets, Done, 0, Due, {}))
          BY DEF KitAsFar
    <3>. QED BY <3>1, <3>2, <3>3
  <2>. QED BY <2>1, <2>2, StoreReady DEF Dated
<1>5. CASE CountOwner(h)
  <2>1. PICK n : n = kit[req[h].inst].owners + 1
        OBVIOUS
  <2>2. pc[h] = "count owner" /\ Store(h, [owners |-> n]) /\ Goto(h, "insert year")
        BY <1>5, <2>1 DEF CountOwner
  <2>3. kit[req[h].inst] = Kit(Presets, Done, 0, Due, {})
        BY <1>1, <2>2 DEF FoundingDesk, KitAsFar
  <2>4. n = 1
    <3>1. kit[req[h].inst].owners = 0
          BY <2>3 DEF Kit
    <3>. QED BY <2>1, <3>1
  <2>5. KitAsFar("insert year", Amended(kit[req[h].inst], [owners |-> n]))
    <3>1. Amended(Kit(Presets, Done, 0, Due, {}), [owners |-> n])
            = Kit(Presets, Done, n, Due, {})
          BY DEF Amended, Kit
    <3>2. KitAsFar("insert year", Kit(Presets, Done, 1, Due, {}))
          BY DEF KitAsFar
    <3>. QED BY <2>3, <2>4, <3>1, <3>2
  <2>. QED BY <2>2, <2>5, StoreReady DEF Dated
<1>6. CASE InsertYear(h)
  <2>1. pc[h] = "insert year" /\ Store(h, [year |-> Done]) /\ Goto(h, "set year")
        BY <1>6 DEF InsertYear, Done
  <2>2. KitAsFar("set year", Amended(kit[req[h].inst], [year |-> Done]))
    <3>1. kit[req[h].inst] = Kit(Presets, Done, 1, Due, {})
          BY <1>1, <2>1 DEF FoundingDesk, KitAsFar
    <3>2. Amended(Kit(Presets, Done, 1, Due, {}), [year |-> Done])
            = Kit(Presets, Done, 1, Done, {})
          BY DEF Amended, Kit
    <3>3. KitAsFar("set year", Kit(Presets, Done, 1, Done, {}))
          BY DEF KitAsFar
    <3>. QED BY <3>1, <3>2, <3>3
  <2>. QED BY <2>1, <2>2, StoreReady DEF Dated
<1>7. CASE SetYear(h)
  <2>1. PICK i : i = req[h].inst
        OBVIOUS
  <2>. DEFINE change == [year |-> TRUE]
              d == Amended(tenant[i], change)
  <2>2. /\ pc[h] = "set year" /\ tenant' = [tenant EXCEPT ![i] = d]
        /\ UNCHANGED <<subs, kit, offered>>
        /\ pc'[h] = "seed defaults" /\ req' = req /\ disturbed' = disturbed
        BY <1>7, <2>1 DEF SetYear, Amend, Goto, commerce, founding, Disciplined
  <2>3. /\ i \in DOMAIN tenant /\ Inst(i) \in req[h].claims
        BY <1>1, <2>1, <2>2 DEF PlatformDesk
  <2>4. /\ DOMAIN change = {"year"} /\ change.year = TRUE
        OBVIOUS
  <2>5. \A c \in TenantFields : d[c] = IF c \in DOMAIN change THEN change[c] ELSE tenant[i][c]
    <3>1. DocShaped(tenant[i])
          BY <2>3 DEF PlatformShaped
    <3>. QED BY <2>4, <3>1, AmendedShaped
  <2>. HIDE DEF change, d
  <2>6. d.year /\ d.dedicated = tenant[i].dedicated /\ d.plan = tenant[i].plan
        BY <2>4, <2>5 DEF TenantFields
  <2>7. /\ DOMAIN tenant' = DOMAIN tenant /\ tenant'[i] = d
        /\ \A k \in DOMAIN tenant \ {i} : tenant'[k] = tenant[k]
        BY <2>2, <2>3
  <2>8. i \notin offered
        BY <1>1, <2>1, <2>2 DEF FoundingDesk
  <2>9. FoundingDesk(h)'
    <3>1. KitAsFar("seed defaults", kit[i])
          BY <1>1, <2>1, <2>2 DEF FoundingDesk, KitAsFar
    <3>2. KitAsFar(pc'[h], kit'[i])
          BY <2>2, <3>1
    <3>3. /\ req[h].doc.dedicated => tenant[i].dedicated
          /\ Inst(i) \notin disturbed => /\ tenant[i].plan = req[h].doc.plan
                                         /\ subs[i] = <<>>
          BY <1>1, <2>1, <2>2 DEF FoundingDesk
    <3>. QED BY <2>1, <2>2, <2>6, <2>7, <2>8, <3>2, <3>3 DEF FoundingDesk
  <2>10. UpsertingDesk(h)'
        BY <2>2 DEF UpsertingDesk
  <2>. QED BY <2>1, <2>2, <2>3, <2>7, <2>8, <2>9, <2>10, ReadyTouched
<1>8. CASE SeedDefaults(h)
  <2>1. PICK r \in Defaults \ kit[req[h].inst].defaults :
          LET defaults == kit[req[h].inst].defaults \cup {r} IN
          /\ Store(h, [defaults |-> defaults])
          /\ Goto(h, IF defaults # Defaults THEN "seed defaults"
                     ELSE IF req[h].doc.dedicated THEN "hand over"
                     ELSE "insert subscription")
        BY <1>8 DEF SeedDefaults
  <2>2. PICK all, call : /\ all = kit[req[h].inst].defaults \cup {r}
                         /\ call = IF all # Defaults THEN "seed defaults"
                                   ELSE IF req[h].doc.dedicated THEN "hand over"
                                   ELSE "insert subscription"
        OBVIOUS
  <2>3. pc[h] = "seed defaults" /\ Store(h, [defaults |-> all]) /\ Goto(h, call)
        BY <1>8, <2>1, <2>2 DEF SeedDefaults
  <2>4. PICK before \in SUBSET Defaults : kit[req[h].inst] = Kit(Presets, Done, 1, Done, before)
        BY <1>1, <2>3 DEF FoundingDesk, KitAsFar
  <2>5. all \in SUBSET Defaults
    <3>1. kit[req[h].inst].defaults = before
          BY <2>4 DEF Kit
    <3>. QED BY <2>2, <3>1
  <2>6. Amended(kit[req[h].inst], [defaults |-> all]) = Kit(Presets, Done, 1, Done, all)
    <3>1. Amended(Kit(Presets, Done, 1, Done, before), [defaults |-> all])
            = Kit(Presets, Done, 1, Done, all)
          BY DEF Amended, Kit
    <3>. QED BY <2>4, <3>1
  <2>7. /\ KitAsFar(call, Amended(kit[req[h].inst], [defaults |-> all]))
        /\ call \in Founding /\ (call = "hand over" => req[h].doc.dedicated)
        BY <2>2, <2>5, <2>6, FullKitIs DEF KitAsFar
  <2>8. tenant[req[h].inst].year
        BY <1>1, <2>3 DEF FoundingDesk, Dated
  <2>. QED BY <2>3, <2>7, <2>8, StoreReady
<1>9. CASE InsertSubscription(h)
  <2>1. PICK i, p : i = req[h].inst /\ p = req[h].doc.plan
        OBVIOUS
  <2>. DEFINE x == [plan |-> p, state |-> IF OnTrial(p) THEN "trialing" ELSE "active"]
  <2>2. /\ pc[h] = "insert subscription" /\ subs' = [subs EXCEPT ![i] = Append(subs[i], x)]
        /\ UNCHANGED <<tenant, kit, offered>>
        /\ pc'[h] = "hand over" /\ req' = req /\ disturbed' = disturbed
        BY <1>9, <2>1 DEF InsertSubscription, Goto, tenancy, founding, Disciplined
  <2>3. x.plan = p
        OBVIOUS
  <2>. HIDE DEF x
  <2>4. /\ i \in DOMAIN tenant /\ Inst(i) \in req[h].claims /\ i \in DOMAIN subs
        BY <1>1, <2>1, <2>2 DEF PlatformDesk, PlatformShaped
  <2>5. \A k \in DOMAIN tenant \ {i} : subs'[k] = subs[k]
        BY <2>2, <2>4 DEF PlatformShaped
  <2>6. /\ i \notin offered /\ KitAsFar("hand over", kit[i]) /\ tenant[i].year
        /\ req[h].doc.dedicated => tenant[i].dedicated
        /\ Inst(i) \notin disturbed => tenant[i].plan = p /\ subs[i] = <<>>
        BY <1>1, <2>1, <2>2 DEF FoundingDesk, KitAsFar, Dated
  <2>7. Inst(i) \notin disturbed => BilledOn(subs'[i], tenant[i].plan)
    <3>1. ASSUME Inst(i) \notin disturbed PROVE subs'[i] = <<x>>
      <4>1. subs'[i] = Append(<<>>, x)
            BY <2>2, <2>4, <2>6, <3>1
      <4>. QED BY <4>1, AnewIsOne
    <3>. QED BY <2>3, <2>6, <3>1 DEF BilledOn
  <2>8. FoundingDesk(h)'
    <3>1. KitAsFar(pc'[h], kit'[i])
          BY <2>2, <2>6
    <3>. QED BY <2>1, <2>2, <2>6, <2>7, <3>1 DEF FoundingDesk
  <2>9. UpsertingDesk(h)'
        BY <2>2 DEF UpsertingDesk
  <2>. QED BY <2>1, <2>2, <2>4, <2>5, <2>6, <2>8, <2>9, ReadyTouched
<1>10. CASE HandOver(h)
  <2>1. PICK i : i = req[h].inst
        OBVIOUS
  <2>2. /\ pc[h] = "hand over" /\ offered' = offered \cup {i} /\ pc'[h] = "idle"
        /\ UNCHANGED <<tenant, subs, kit>> /\ disturbed' = disturbed
        BY <1>10, <2>1 DEF HandOver, Finish, Leave, commerce, Disciplined
  <2>3. /\ i \in DOMAIN tenant /\ Inst(i) \in req[h].claims
        BY <1>1, <2>1, <2>2 DEF PlatformDesk
  <2>4. FoundingDesk(h)' /\ UpsertingDesk(h)'
        BY <2>2 DEF FoundingDesk, UpsertingDesk
  <2>5. HandedOver(i)'
    <3>1. kit[i] = FullKit /\ tenant[i].year
          BY <1>1, <2>1, <2>2 DEF FoundingDesk, KitAsFar, Dated
    <3>2. Inst(i) \notin disturbed /\ ~tenant[i].dedicated => BilledOn(subs[i], tenant[i].plan)
          BY <1>1, <2>1, <2>2 DEF FoundingDesk
    <3>. QED BY <2>2, <3>1, <3>2 DEF HandedOver, BilledOn
  <2>. QED BY <2>1, <2>2, <2>3, <2>4, <2>5, ReadyTouched
<1>. QED BY <1>2, <1>3, <1>4, <1>5, <1>6, <1>7, <1>8, <1>9, <1>10

LEMMA ReadyStepSound ==
    ASSUME Disciplined, PlatformShaped, PlatformShaped', ReadySound, [Next]_vars
    PROVE  ReadySound'
<1>1. ASSUME NEW h \in Desks, PlatformStep(h) PROVE ReadySound'
  <2>1. Moves(h, PlatformCalls)
        BY <1>1, PlatformMoves
  <2>. QED BY <1>1, <2>1, ReadyArrive, TenancyReady, ConsoleReady, ProvisioningReady
           DEF PlatformStep, PlatformResume
<1>2. CASE Passes(PlatformCalls) /\ UNCHANGED platform
      BY <1>2, ReadyPassed DEF platform, tenancy, commerce, founding
<1>3. CASE Passes(PlatformCalls) /\ Tick /\ UNCHANGED <<commerce, founding>>
      BY <1>3, ReadyPassed DEF Tick, commerce, founding
<1>. QED BY <1>1, <1>2, <1>3, NextPasses DEF NextIsTheirs

(***************************************************************************)
(* An institution handed to its owner has every role, an owner counted     *)
(* once, a current year, the defaults and, without a licence of its own,   *)
(* one subscription on the plan it is on: after twelve separate inserts,   *)
(* and whatever the console changed since (provision_institution,          *)
(* change_subscription, convert_to_dedicated).                             *)
(***************************************************************************)
THEOREM InstitutionsAreReady == Spec => []ReadyWhenOffered
<1>1. Init => ReadySound
      BY ReadyStart
<1>2. Disciplined /\ PlatformShaped /\ (Disciplined /\ PlatformShaped)' /\ ReadySound
        /\ [Next]_vars => ReadySound'
      BY ReadyStepSound
<1>3. PlatformShaped /\ ReadySound => ReadyWhenOffered
  <2>. SUFFICES ASSUME PlatformShaped, ReadySound, NEW i \in offered
                PROVE  /\ kit[i] = FullKit /\ tenant[i].year
                       /\ Calm(Inst(i)) /\ ~tenant[i].dedicated =>
                            Len(subs[i]) = 1 /\ subs[i][1].plan = tenant[i].plan
        BY DEF ReadyWhenOffered
  <2>1. HandedOver(i)
        BY DEF ReadySound
  <2>2. ASSUME Calm(Inst(i)), ~tenant[i].dedicated
        PROVE  Len(subs[i]) = 1 /\ subs[i][1].plan = tenant[i].plan
    <3>1. NoUpsert(i) /\ Inst(i) \notin disturbed
          BY <2>2 DEF NoUpsert, Calm, PlatformShaped, PlatformDesk, Changing
    <3>2. PICK x : subs[i] = <<x>> /\ x.plan = tenant[i].plan
          BY <2>1, <2>2, <3>1 DEF HandedOver
    <3>. QED BY <3>2, AnewIsOne
  <2>. QED BY <2>1, <2>2 DEF HandedOver
<1>. QED BY <1>1, <1>2, <1>3, PlatformAlways, PTL DEF Spec

-----------------------------------------------------------------------------
(* What a process remembers of an institution, and how old it can be.      *)

\* A request that changed an institution, and has its cache yet to clear.
Cleaning == {"upsert subscription", "end subscriptions", "forget", "seed defaults",
             "insert subscription", "hand over"}

ToForget(w, i) ==
    \E g \in Desks : pc[g] \in Cleaning /\ req[g].worker = w /\ req[g].inst = i

\* What process w remembers is what is stored, or was less than TTL before it
\* lapses; and its own changes it has forgotten, or is about to.
RecentWord(w, e) == Inst(e.inst) \notin disturbed =>
    \/ e.doc = tenant[e.inst]
    \/ \E r \in replaced : /\ r.inst = e.inst /\ r.doc = e.doc /\ e.until <= r.at + TTL
                           /\ r.by # w \/ ToForget(w, e.inst)

EntrySound(w, e) == e.until \in Int /\ e.until <= clock + TTL /\ RecentWord(w, e)

WordKept(h) == pc[h] = "remember" /\ Inst(req[h].inst) \notin disturbed =>
    req[h].word = tenant[req[h].inst]

RecentSound ==
    /\ clock \in Int /\ \A r \in replaced : r.at \in Int
    /\ \A w \in Workers : \A e \in Recalled(w) : EntrySound(w, e)
    /\ \A h \in Desks : WordKept(h)
    /\ AdmittedOnRecentWord

LEMMA RecentStart == ASSUME Init PROVE RecentSound
<1>1. /\ clock = 0 /\ replaced = {} /\ heard = Nobody
      /\ \A w \in Workers : cache[w] = Nothing
      /\ pc = [h \in Desks |-> "idle"]
      BY DEF Init, PlatformInit, RequestsInit
<1>2. \A w \in Workers : Recalled(w) = {}
      BY <1>1 DEF Recalled, Nothing
<1>3. \A h \in Desks : WordKept(h)
      BY <1>1 DEF WordKept
<1>. QED BY <1>1, <1>2, <1>3 DEF RecentSound, AdmittedOnRecentWord

\* The requests of process w that were to clear its cache still are, or have
\* disturbed what they changed.
CleaningGoesOn(w) == \A g \in Desks : pc[g] \in Cleaning /\ req[g].worker = w =>
    \/ pc'[g] \in Cleaning /\ req'[g] = req[g]
    \/ req[g].claims \subseteq disturbed'

LEMMA EntryStays ==
    ASSUME PlatformShaped, disturbed \subseteq disturbed', replaced \subseteq replaced',
           NEW w, NEW e, tenant'[e.inst] = tenant[e.inst], CleaningGoesOn(w),
           RecentWord(w, e)
    PROVE  RecentWord(w, e)'
<1>. SUFFICES ASSUME Inst(e.inst) \notin disturbed'
              PROVE  \/ e.doc = tenant'[e.inst]
                     \/ \E r \in replaced' :
                          /\ r.inst = e.inst /\ r.doc = e.doc /\ e.until <= r.at + TTL
                          /\ r.by # w \/ ToForget(w, e.inst)'
      BY DEF RecentWord
<1>1. ToForget(w, e.inst) => ToForget(w, e.inst)'
  <2>1. ASSUME NEW g \in Desks, pc[g] \in Cleaning, req[g].worker = w, req[g].inst = e.inst
        PROVE  ToForget(w, e.inst)'
    <3>1. Inst(e.inst) \in req[g].claims
          BY <2>1 DEF PlatformShaped, PlatformDesk, Cleaning, Founding, Changing
    <3>2. pc'[g] \in Cleaning /\ req'[g] = req[g]
          BY <2>1, <3>1 DEF CleaningGoesOn
    <3>. QED BY <2>1, <3>2 DEF ToForget
  <2>. QED BY <2>1 DEF ToForget
<1>. QED BY <1>1 DEF RecentWord

LEMMA HeardStays ==
    ASSUME AdmittedOnRecentWord, disturbed \subseteq disturbed',
           replaced \subseteq replaced', UNCHANGED heard
    PROVE  AdmittedOnRecentWord'
BY DEF AdmittedOnRecentWord

LEMMA WordStays ==
    ASSUME PlatformShaped, disturbed \subseteq disturbed', NEW g \in Desks, WordKept(g),
           pc'[g] = pc[g], req'[g] = req[g],
           pc[g] = "remember" => \/ Inst(req[g].inst) \in disturbed'
                                 \/ tenant'[req[g].inst] = tenant[req[g].inst]
    PROVE  WordKept(g)'
BY DEF WordKept

LEMMA RecentPassed ==
    ASSUME Disciplined, PlatformShaped, RecentSound, Passes(PlatformCalls),
           UNCHANGED <<tenant, cache, replaced, heard>>,
           clock' \in Int, clock <= clock'
    PROVE  RecentSound'
<1>1. disturbed \subseteq disturbed'
      BY DEF Passes
<1>2. ASSUME NEW h \in Desks PROVE WordKept(h)'
  <2>1. CASE pc'[h] = "remember"
    <3>1. pc'[h] = pc[h] /\ req'[h] = req[h]
          BY <2>1 DEF Passes, PlatformCalls
    <3>. QED BY <1>1, <3>1, WordStays DEF RecentSound
  <2>2. CASE pc'[h] # "remember"
        BY <2>2 DEF WordKept
  <2>. QED BY <2>1, <2>2
<1>3. ASSUME NEW w \in Workers, NEW e \in Recalled(w)' PROVE EntrySound(w, e)'
  <2>1. e \in Recalled(w)
        BY DEF Recalled
  <2>2. EntrySound(w, e)
        BY <2>1 DEF RecentSound
  <2>3. CleaningGoesOn(w)
        BY DEF CleaningGoesOn, Passes, Cleaning, PlatformCalls
  <2>4. RecentWord(w, e)'
        BY <1>1, <2>2, <2>3, EntryStays DEF EntrySound
  <2>5. e.until <= clock' + TTL
        BY <2>2, TenancyAssumption DEF EntrySound, RecentSound
  <2>. QED BY <2>2, <2>4, <2>5 DEF EntrySound
<1>. QED BY <1>1, <1>2, <1>3, HeardStays DEF RecentSound

LEMMA OtherWords ==
    ASSUME Disciplined, PlatformShaped, RecentSound, NEW h \in Desks,
           Moves(h, PlatformCalls), \A k \in DOMAIN tenant : tenant'[k] = tenant[k],
           WordKept(h)'
    PROVE  \A g \in Desks : WordKept(g)'
<1>1. /\ \A g \in Desks \ {h} : pc'[g] = pc[g] /\ req'[g] = req[g]
      /\ disturbed \subseteq disturbed'
      BY DEF Moves, Disciplined
<1>2. ASSUME NEW g \in Desks, g # h PROVE WordKept(g)'
  <2>1. pc[g] = "remember" => req[g].inst \in DOMAIN tenant
        BY DEF PlatformShaped, PlatformDesk
  <2>. QED BY <1>1, <1>2, <2>1, WordStays DEF RecentSound
<1>. QED BY <1>2

LEMMA OthersClean ==
    ASSUME Disciplined, NEW h \in Desks, Moves(h, PlatformCalls), NEW w,
           \/ pc[h] \notin Cleaning \/ req[h].worker # w
           \/ pc'[h] \in Cleaning /\ req'[h] = req[h]
    PROVE  CleaningGoesOn(w)
BY DEF CleaningGoesOn, Moves, Disciplined

\* A step that changes no document is sound if its own word is.
LEMMA RecentMoved ==
    ASSUME Disciplined, PlatformShaped, RecentSound, NEW h \in Desks,
           Moves(h, PlatformCalls), \A k \in DOMAIN tenant : tenant'[k] = tenant[k],
           UNCHANGED <<cache, clock, replaced>>,
           heard' = heard \/ AdmittedOnRecentWord',
           pc[h] \in Cleaning => pc'[h] \in Cleaning /\ req'[h] = req[h],
           WordKept(h)'
    PROVE  RecentSound'
<1>1. disturbed \subseteq disturbed'
      BY DEF Moves
<1>2. ASSUME NEW w \in Workers, NEW e \in Recalled(w)' PROVE EntrySound(w, e)'
  <2>1. e \in Recalled(w)
        BY DEF Recalled
  <2>2. EntrySound(w, e) /\ e.inst \in DOMAIN tenant
        BY <2>1 DEF RecentSound, PlatformShaped, RecallShaped
  <2>3. RecentWord(w, e)'
        BY <1>1, <2>2, OthersClean, EntryStays DEF EntrySound
  <2>. QED BY <2>2, <2>3 DEF EntrySound
<1>3. AdmittedOnRecentWord'
      BY <1>1, HeardStays DEF RecentSound
<1>. QED BY <1>2, <1>3, OtherWords DEF RecentSound

\* One that clears the cache of its process.
LEMMA RecentForgotten ==
    ASSUME Disciplined, PlatformShaped, RecentSound, NEW h \in Desks,
           Moves(h, PlatformCalls), pc[h] \in Cleaning, pc'[h] = "idle",
           cache' = Forgotten(req[h].worker), UNCHANGED <<tenant, clock, replaced, heard>>
    PROVE  RecentSound'
<1>1. disturbed \subseteq disturbed' /\ WordKept(h)' /\ req[h].worker \in Workers
      BY DEF Moves, WordKept, PlatformShaped, PlatformDesk, Cleaning, Founding, Changing
<1>2. ASSUME NEW w \in Workers, NEW e \in Recalled(w)' PROVE EntrySound(w, e)'
  <2>1. w # req[h].worker /\ e \in Recalled(w)
        BY <1>1 DEF Recalled, Forgotten, Nothing, PlatformShaped
  <2>2. EntrySound(w, e) /\ e.inst \in DOMAIN tenant
        BY <2>1 DEF RecentSound, PlatformShaped, RecallShaped
  <2>3. RecentWord(w, e)'
        BY <1>1, <2>1, <2>2, OthersClean, EntryStays DEF EntrySound
  <2>. QED BY <2>2, <2>3 DEF EntrySound
<1>. QED BY <1>1, <1>2, OtherWords, HeardStays DEF RecentSound

\* One that changes a document, and goes on to clear the cache of its process.
LEMMA RecentAmended ==
    ASSUME Disciplined, PlatformShaped, RecentSound, NEW h \in Desks,
           Moves(h, PlatformCalls), pc[h] \in {"write tenant", "set year"},
           pc'[h] \in Cleaning, req'[h] = req[h], NEW w \in Workers, NEW i \in DOMAIN tenant,
           req[h].worker = w, req[h].inst = i, Inst(i) \in req[h].claims,
           NEW change, Amend(w, i, change), UNCHANGED <<cache, clock, heard>>
    PROVE  RecentSound'
<1>1. /\ \A g \in Desks \ {h} : pc'[g] = pc[g] /\ req'[g] = req[g]
      /\ disturbed \subseteq disturbed'
      BY DEF Moves, Disciplined
<1>2. PICK r : /\ r.inst = i /\ r.doc = tenant[i] /\ r.by = w /\ r.at = clock
               /\ replaced' = replaced \cup {r}
      BY DEF Amend
<1>3. \A k \in DOMAIN tenant \ {i} : tenant'[k] = tenant[k]
      BY DEF Amend
<1>4. ASSUME NEW g \in Desks PROVE WordKept(g)'
  <2>1. CASE g = h
        BY <2>1 DEF WordKept, Cleaning
  <2>2. CASE g # h
    <3>1. pc[g] = "remember" => req[g].inst \in DOMAIN tenant
                                /\ (req[g].inst = i => Inst(i) \in disturbed)
          BY <2>2 DEF PlatformShaped, PlatformDesk, Disciplined, Apart
    <3>. QED BY <1>1, <1>3, <2>2, <3>1, WordStays DEF RecentSound
  <2>. QED BY <2>1, <2>2
<1>5. ASSUME NEW v \in Workers, NEW e \in Recalled(v)' PROVE EntrySound(v, e)'
  <2>1. e \in Recalled(v)
        BY DEF Recalled
  <2>2. EntrySound(v, e) /\ e.inst \in DOMAIN tenant
        BY <2>1 DEF RecentSound, PlatformShaped, RecallShaped
  <2>3. CleaningGoesOn(v)
        BY OthersClean DEF Cleaning
  <2>4. CASE e.inst # i
    <3>1. RecentWord(v, e)'
          BY <1>1, <1>2, <1>3, <2>2, <2>3, <2>4, EntryStays DEF EntrySound
    <3>. QED BY <2>2, <3>1 DEF EntrySound
  <2>5. CASE e.inst = i /\ e.doc = tenant[i]
    <3>1. r.by # v \/ ToForget(v, e.inst)'
          BY <1>2, <2>5 DEF ToForget
    <3>2. e.until <= r.at + TTL
          BY <1>2, <2>2 DEF EntrySound
    <3>3. RecentWord(v, e)'
          BY <1>2, <2>5, <3>1, <3>2 DEF RecentWord
    <3>. QED BY <2>2, <3>3 DEF EntrySound
  <2>6. CASE e.inst = i /\ e.doc # tenant[i]
    <3>1. ASSUME Inst(i) \notin disturbed'
          PROVE  \E x \in replaced' : /\ x.inst = e.inst /\ x.doc = e.doc
                                      /\ e.until <= x.at + TTL
                                      /\ x.by # v \/ ToForget(v, e.inst)'
      <4>1. PICK x \in replaced : /\ x.inst = e.inst /\ x.doc = e.doc
                                  /\ e.until <= x.at + TTL
                                  /\ x.by # v \/ ToForget(v, e.inst)
            BY <1>1, <2>2, <2>6, <3>1 DEF EntrySound, RecentWord
      <4>2. ToForget(v, e.inst) => ToForget(v, e.inst)'
            BY <1>1 DEF ToForget, Cleaning
      <4>. QED BY <1>2, <4>1, <4>2
    <3>2. RecentWord(v, e)'
          BY <2>6, <3>1 DEF RecentWord
    <3>. QED BY <2>2, <3>2 DEF EntrySound
  <2>. QED BY <2>4, <2>5, <2>6
<1>6. clock' \in Int /\ \A x \in replaced' : x.at \in Int
      BY <1>2 DEF RecentSound
<1>. QED BY <1>1, <1>2, <1>4, <1>5, <1>6, HeardStays DEF RecentSound

-----------------------------------------------------------------------------
LEMMA RecentArrive ==
    ASSUME Disciplined, PlatformShaped, RecentSound, NEW h \in Desks, PlatformArrive(h),
           Moves(h, PlatformCalls)
    PROVE  RecentSound'
<1>1. pc[h] = "idle"
      BY DEF PlatformArrive, Open, Idle
<1>2. UNCHANGED tenancy /\ pc'[h] # "remember"
  <2>1. ASSUME NEW op, NEW w, NEW i, NEW change, BeginWrite(h, op, w, i, change)
        PROVE  UNCHANGED tenancy /\ pc'[h] = "write tenant"
        BY <2>1 DEF BeginWrite, Begin, Disciplined
  <2>2. ASSUME NEW w, NEW i, ToInstitution(h, w, i)
        PROVE  UNCHANGED tenancy /\ pc'[h] # "remember"
    <3>1. ASSUME Convert(h, w, i) PROVE UNCHANGED tenancy /\ pc'[h] = "write tenant"
          BY <3>1 DEF Convert, Begin, Disciplined
    <3>2. ASSUME NEW p, NEW lifetime, BeginSubscribe(h, w, i, p, lifetime)
          PROVE  UNCHANGED tenancy /\ pc'[h] = "look up plan"
          BY <3>2 DEF BeginSubscribe, Begin, Disciplined
    <3>. QED BY <2>1, <2>2, <3>1, <3>2 DEF ToInstitution, SetTenantStatus, UpdateTenant
  <2>3. ASSUME NEW p, NEW ms, UpsertPlan(h, p, ms)
        PROVE  UNCHANGED tenancy /\ pc'[h] # "remember"
        BY <1>1, <2>3 DEF UpsertPlan, Once
  <2>4. ASSUME NEW p, BeginRetire(h, p) PROVE UNCHANGED tenancy /\ pc'[h] # "remember"
        BY <2>4 DEF BeginRetire, Begin, Disciplined
  <2>5. ASSUME NEW w, NEW key, NEW m, BeginVisit(h, w, key, m) \/ BeginSwitch(h, w, key, m)
        PROVE  UNCHANGED tenancy /\ pc'[h] # "remember"
        BY <2>5 DEF BeginVisit, BeginSwitch, Begin, Disciplined
  <2>6. ASSUME NEW w, NEW i, NEW s, NEW o,
               BeginProvision(h, w, i, s, o.plan, o.lifetime, o.chosen)
        PROVE  UNCHANGED tenancy /\ pc'[h] # "remember"
        BY <2>6 DEF BeginProvision, Begin, platform, Disciplined
  <2>7. CASE \E w, i : ToInstitution(h, w, i)
        BY <2>2, <2>7
  <2>8. CASE \E p, ms : UpsertPlan(h, p, ms) \/ BeginRetire(h, p)
        BY <2>3, <2>4, <2>8
  <2>9. CASE \E w, key, m : BeginVisit(h, w, key, m) \/ BeginSwitch(h, w, key, m)
        BY <2>5, <2>9
  <2>10. CASE \E w, i, s, o : BeginProvision(h, w, i, s, o.plan, o.lifetime, o.chosen)
        BY <2>6, <2>10
  <2>. QED BY <2>7, <2>8, <2>9, <2>10 DEF PlatformArrive
<1>3. WordKept(h)'
      BY <1>2 DEF WordKept
<1>. QED BY <1>1, <1>2, <1>3, RecentMoved DEF tenancy, Cleaning

\* What the guard says, going by a recent word.
LEMMA GuardSound ==
    ASSUME Disciplined, PlatformShaped, RecentSound, NEW h \in Desks,
           Moves(h, PlatformCalls), pc[h] \in Looking, UNCHANGED <<tenant, clock, replaced>>,
           NEW i \in DOMAIN tenant, NEW doc, GoBy(h, i, doc),
           Inst(i) \notin disturbed =>
             \/ doc = tenant[i]
             \/ \E r \in replaced :
                  /\ r.inst = i /\ r.doc = doc /\ clock < r.at + TTL
                  /\ r.by # req[h].worker \/ ToForget(req[h].worker, i)
    PROVE  AdmittedOnRecentWord'
<1>1. disturbed \subseteq disturbed'
      BY DEF Moves
<1>2. CASE req[h].then # "guard"
  <2>1. heard' = heard
        BY <1>2 DEF GoBy
  <2>. QED BY <1>1, <2>1, HeardStays DEF RecentSound
<1>3. CASE req[h].then = "guard"
  <2>1. PICK w, m : w = req[h].worker /\ m = req[h].module
        OBVIOUS
  <2>. DEFINE said == [inst |-> i, worker |-> w, at |-> clock, module |-> m,
                       stored |-> tenant[i], admitted |-> LetIn(doc, m)]
  <2>2. heard' = said
        BY <1>3, <2>1 DEF GoBy
  <2>3. /\ said.inst = i /\ said.worker = w /\ said.at = clock /\ said.module = m
        /\ said.stored = tenant[i] /\ said.admitted = LetIn(doc, m)
        OBVIOUS
  <2>. HIDE DEF said
  <2>4. {Inst(i)} \cap HeldByOthers(h) \subseteq disturbed'
        BY <1>3 DEF GoBy, BreakOff
  <2>5. ASSUME Inst(i) \notin disturbed'
        PROVE  \/ said.admitted = LetIn(said.stored, said.module)
               \/ \E r \in replaced : /\ r.inst = i /\ r.by # w
                                      /\ said.admitted = LetIn(r.doc, said.module)
                                      /\ said.at < r.at + TTL
    <3>1. CASE doc = tenant[i]
          BY <2>3, <3>1
    <3>2. CASE doc # tenant[i]
      <4>1. PICK r \in replaced : /\ r.inst = i /\ r.doc = doc /\ clock < r.at + TTL
                                  /\ r.by # w \/ ToForget(w, i)
            BY <1>1, <2>1, <2>5, <3>2
      <4>2. ASSUME NEW g \in Desks, pc[g] \in Cleaning, req[g].inst = i PROVE FALSE
        <5>1. Inst(i) \in req[g].claims
              BY <4>2 DEF PlatformShaped, PlatformDesk, Cleaning, Founding, Changing
        <5>2. g # h
              BY <4>2 DEF Cleaning, Looking
        <5>. QED BY <2>4, <2>5, <5>1, <5>2 DEF HeldByOthers
      <4>3. r.by # w
            BY <4>1, <4>2 DEF ToForget
      <4>. QED BY <2>3, <4>1, <4>3
    <3>. QED BY <3>1, <3>2
  <2>. QED BY <2>2, <2>3, <2>5 DEF AdmittedOnRecentWord
<1>. QED BY <1>2, <1>3

LEMMA GoByEnds ==
    ASSUME Disciplined, NEW h \in Desks, NEW i, NEW doc, GoBy(h, i, doc),
           req[h].then \in {"guard", "weigh"}
    PROVE  pc'[h] \in {"idle", "weigh"}
<1>1. CASE req[h].then = "guard"
      BY <1>1 DEF GoBy, BreakOff, Leave, Disciplined
<1>2. CASE req[h].then = "weigh"
      BY <1>2 DEF GoBy, Disciplined
<1>. QED BY <1>1, <1>2

LEMMA TenancyRecent ==
    ASSUME Disciplined, PlatformShaped, RecentSound, NEW h \in Desks, Moves(h, PlatformCalls),
           LookUp(h) \/ ReadTenant(h) \/ Remember(h) \/ Forget(h)
    PROVE  RecentSound'
<1>1. /\ Fits(pc[h], req[h]) /\ PlatformDesk(h) /\ WordKept(h)
      /\ disturbed \subseteq disturbed' /\ clock \in Int
      BY DEF Disciplined, PlatformShaped, RecentSound, Moves
<1>2. CASE LookUp(h)
  <2>1. /\ pc[h] = "look up" /\ req[h].then \in {"guard", "weigh"}
        /\ req[h].worker \in Workers /\ UNCHANGED <<tenant, cache, clock, replaced>>
        BY <1>1, <1>2 DEF LookUp, Fits, Looking, PlatformDesk
  <2>2. CASE ~Hit(req[h].worker, req[h].key)
    <3>1. pc'[h] = "read tenant" /\ UNCHANGED heard
          BY <1>2, <2>2 DEF LookUp, Goto, Disciplined
    <3>2. WordKept(h)'
          BY <3>1 DEF WordKept
    <3>. QED BY <2>1, <3>1, <3>2, RecentMoved DEF Cleaning
  <2>3. CASE Hit(req[h].worker, req[h].key)
    <3>1. PICK w, e : /\ w = req[h].worker /\ e = cache[w][req[h].key]
                      /\ req[h].key \in DOMAIN cache[w]
          BY <2>3 DEF Hit
    <3>2. GoBy(h, e.inst, e.doc) /\ e.until > clock
          BY <1>2, <2>3, <3>1 DEF LookUp, Hit
    <3>3. w \in Workers /\ e \in Recalled(w)
          BY <2>1, <3>1 DEF Recalled
    <3>4. e.inst \in DOMAIN tenant /\ EntrySound(w, e)
          BY <3>3 DEF PlatformShaped, RecallShaped, RecentSound
    <3>5. ASSUME Inst(e.inst) \notin disturbed, e.doc # tenant[e.inst]
          PROVE  \E r \in replaced :
                   /\ r.inst = e.inst /\ r.doc = e.doc /\ clock < r.at + TTL
                   /\ r.by # w \/ ToForget(w, e.inst)
      <4>1. PICK r \in replaced : /\ r.inst = e.inst /\ r.doc = e.doc
                                  /\ e.until <= r.at + TTL
                                  /\ r.by # w \/ ToForget(w, e.inst)
            BY <3>4, <3>5 DEF EntrySound, RecentWord
      <4>2. r.at \in Int /\ e.until \in Int /\ TTL \in Int
            BY <3>4, TenancyAssumption DEF EntrySound, RecentSound
      <4>3. clock < r.at + TTL
            BY <1>1, <3>2, <4>1, <4>2
      <4>. QED BY <4>1, <4>3
    <3>6. AdmittedOnRecentWord'
          BY <2>1, <3>1, <3>2, <3>4, <3>5, GuardSound DEF Looking
    <3>7. WordKept(h)'
          BY <2>1, <3>2, GoByEnds DEF WordKept
    <3>. QED BY <2>1, <3>6, <3>7, RecentMoved DEF Cleaning
  <2>. QED BY <2>2, <2>3
<1>3. CASE ReadTenant(h)
  <2>1. pc[h] = "read tenant" /\ UNCHANGED tenancy
        BY <1>3 DEF ReadTenant
  <2>2. WordKept(h)'
    <3>1. CASE Finish(h)
          BY <3>1 DEF Finish, Leave, WordKept, Disciplined
    <3>2. ASSUME NEW i, TakeOn(h, "remember",
                   [c \in DOMAIN req[h] \cup {"claims", "inst", "word"} |->
                     CASE c = "claims" -> {Inst(i)} [] c = "inst" -> i
                       [] c = "word" -> tenant[i] [] OTHER -> req[h][c]])
          PROVE  WordKept(h)'
      <4>1. req'[h].inst = i /\ req'[h].word = tenant[i]
            BY <3>2 DEF TakeOn, Disciplined
      <4>. QED BY <2>1, <4>1 DEF WordKept, tenancy
    <3>. QED BY <1>3, <3>1, <3>2 DEF ReadTenant
  <2>. QED BY <2>1, <2>2, RecentMoved DEF Cleaning, tenancy
<1>4. CASE Remember(h)
  <2>1. PICK w, i, word : w = req[h].worker /\ i = req[h].inst /\ word = req[h].word
        OBVIOUS
  <2>2. /\ pc[h] = "remember" /\ req[h].then \in {"guard", "weigh"}
        /\ w \in Workers /\ i \in DOMAIN tenant /\ UNCHANGED <<tenant, clock, replaced>>
        /\ GoBy(h, i, word)
        BY <1>1, <1>4, <2>1 DEF Remember, Fits, Looking, PlatformDesk
  <2>3. Inst(i) \notin disturbed => word = tenant[i]
        BY <1>1, <2>1, <2>2 DEF WordKept
  <2>4. AdmittedOnRecentWord'
        BY <2>2, <2>3, GuardSound DEF Looking
  <2>5. WordKept(h)'
        BY <2>2, GoByEnds DEF WordKept
  <2>. DEFINE new == [inst |-> i, doc |-> word, until |-> clock + TTL]
  <2>6. cache' = [cache EXCEPT ![w] = With(cache[w], req[h].key, new)]
        BY <1>4, <2>1 DEF Remember
  <2>7. new.inst = i /\ new.doc = word /\ new.until = clock + TTL
        OBVIOUS
  <2>. HIDE DEF new
  <2>8. ASSUME NEW v \in Workers, NEW e \in Recalled(v)' PROVE EntrySound(v, e)'
    <3>1. e = new \/ e \in Recalled(v)
          BY <2>2, <2>6 DEF Recalled, With, PlatformShaped
    <3>2. CASE e = new
      <4>1. RecentWord(v, e)'
            BY <1>1, <2>2, <2>3, <2>7, <3>2 DEF RecentWord
      <4>2. e.until \in Int /\ e.until <= clock + TTL
            BY <1>1, <2>7, <3>2, TenancyAssumption
      <4>. QED BY <2>2, <4>1, <4>2 DEF EntrySound
    <3>3. CASE e \in Recalled(v)
      <4>1. EntrySound(v, e) /\ CleaningGoesOn(v)
            BY <2>2, <3>3, OthersClean DEF RecentSound, Cleaning
      <4>2. RecentWord(v, e)'
            BY <1>1, <2>2, <4>1, EntryStays DEF EntrySound
      <4>. QED BY <2>2, <4>1, <4>2 DEF EntrySound
    <3>. QED BY <3>1, <3>2, <3>3
  <2>. QED BY <2>2, <2>4, <2>5, <2>8, OtherWords DEF RecentSound
<1>5. CASE Forget(h)
  <2>1. /\ pc[h] = "forget" /\ pc'[h] = "idle" /\ cache' = Forgotten(req[h].worker)
        /\ UNCHANGED <<tenant, clock, replaced, heard>>
        BY <1>5 DEF Forget, Finish, Leave, Disciplined
  <2>. QED BY <2>1, RecentForgotten DEF Cleaning
<1>. QED BY <1>2, <1>3, <1>4, <1>5

LEMMA ConsoleRecent ==
    ASSUME Disciplined, PlatformShaped, RecentSound, NEW h \in Desks, Moves(h, PlatformCalls),
           \/ LookUpPlan(h) \/ WriteTenant(h) \/ UpsertSubscription(h)
           \/ EndSubscriptions(h) \/ Weigh(h) \/ RetirePlan(h)
    PROVE  RecentSound'
<1>1. Fits(pc[h], req[h]) /\ PlatformDesk(h)
      BY DEF Disciplined, PlatformShaped
<1>2. CASE WriteTenant(h)
  <2>1. /\ pc[h] = "write tenant" /\ req' = req /\ UNCHANGED <<cache, clock, heard>>
        /\ pc'[h] = IF req[h].then = "answer owner" THEN "forget" ELSE req[h].then
        /\ Amend(req[h].worker, req[h].inst, req[h].change)
        BY <1>2 DEF WriteTenant, Goto, Disciplined
  <2>2. /\ req[h].inst \in DOMAIN tenant /\ Inst(req[h].inst) \in req[h].claims
        /\ req[h].worker \in Workers /\ pc'[h] \in Cleaning
        BY <1>1, <2>1 DEF PlatformDesk, Changing, Fits, Cleaning
  <2>. QED BY <2>1, <2>2, RecentAmended
<1>3. CASE LookUpPlan(h) \/ Weigh(h) \/ RetirePlan(h)
  <2>1. /\ pc[h] \in {"look up plan", "weigh", "retire plan"} /\ UNCHANGED tenancy
        /\ pc'[h] \in {"idle", "write tenant"}
        BY <1>3 DEF LookUpPlan, Weigh, RetirePlan, Finish, Leave, Carry, Disciplined
  <2>2. WordKept(h)'
        BY <2>1 DEF WordKept
  <2>. QED BY <2>1, <2>2, RecentMoved DEF Cleaning, tenancy
<1>4. CASE UpsertSubscription(h) \/ EndSubscriptions(h)
  <2>1. UNCHANGED tenancy /\ pc'[h] = "forget" /\ req' = req
        BY <1>4 DEF UpsertSubscription, EndSubscriptions, Goto, Disciplined
  <2>2. WordKept(h)'
        BY <2>1 DEF WordKept
  <2>. QED BY <2>1, <2>2, RecentMoved DEF Cleaning, tenancy
<1>. QED BY <1>2, <1>3, <1>4

LEMMA ProvisioningRecent ==
    ASSUME Disciplined, PlatformShaped, RecentSound, NEW h \in Desks, Moves(h, PlatformCalls),
           \/ InsertTenant(h) \/ SeedRole(h) \/ InsertOwner(h) \/ CountOwner(h)
           \/ InsertYear(h) \/ SetYear(h) \/ SeedDefaults(h)
           \/ InsertSubscription(h) \/ HandOver(h)
    PROVE  RecentSound'
<1>1. PlatformDesk(h)
      BY DEF PlatformShaped
<1>2. CASE InsertTenant(h)
  <2>1. pc[h] = "insert tenant" /\ req[h].inst \notin DOMAIN tenant
        BY <1>1, <1>2 DEF InsertTenant, PlatformDesk
  <2>2. pc'[h] \in {"idle", "seed role"} /\ UNCHANGED <<cache, clock, replaced, heard>>
        BY <1>2 DEF InsertTenant, Finish, Leave, Goto, platform, tenancy, Disciplined
  <2>3. \A k \in DOMAIN tenant : tenant'[k] = tenant[k]
        BY ZenonT(40), <1>2, <2>1 DEF InsertTenant, With, platform, tenancy
  <2>4. WordKept(h)'
        BY <2>2 DEF WordKept
  <2>. QED BY <2>1, <2>2, <2>3, <2>4, RecentMoved DEF Cleaning
<1>3. CASE SetYear(h)
  <2>. DEFINE change == [year |-> TRUE]
  <2>1. /\ pc[h] = "set year" /\ req' = req /\ UNCHANGED <<cache, clock, heard>>
        /\ pc'[h] = "seed defaults" /\ Amend(req[h].worker, req[h].inst, change)
        BY <1>3 DEF SetYear, Goto, Disciplined
  <2>2. /\ req[h].inst \in DOMAIN tenant /\ Inst(req[h].inst) \in req[h].claims
        /\ req[h].worker \in Workers /\ pc'[h] \in Cleaning
        BY <1>1, <2>1 DEF PlatformDesk, Founding, Cleaning
  <2>. HIDE DEF change
  <2>. QED BY <2>1, <2>2, RecentAmended
<1>4. CASE SeedRole(h) \/ InsertOwner(h) \/ CountOwner(h) \/ InsertYear(h)
  <2>1. /\ pc[h] \notin Cleaning /\ UNCHANGED tenancy /\ pc'[h] # "remember"
        BY <1>4 DEF SeedRole, InsertOwner, CountOwner, InsertYear, Store, Goto, Cleaning,
                    Disciplined
  <2>2. WordKept(h)'
        BY <2>1 DEF WordKept
  <2>. QED BY <2>1, <2>2, RecentMoved DEF tenancy
<1>5. CASE SeedDefaults(h) \/ InsertSubscription(h)
  <2>1. pc'[h] \in Cleaning /\ req' = req /\ UNCHANGED tenancy
    <3>1. CASE SeedDefaults(h)
      <4>1. PICK call \in {"seed defaults", "hand over", "insert subscription"} : Goto(h, call)
            BY <3>1 DEF SeedDefaults
      <4>. QED BY <3>1, <4>1 DEF SeedDefaults, Store, Goto, Cleaning, Disciplined
    <3>2. CASE InsertSubscription(h)
          BY <3>2 DEF InsertSubscription, Goto, Cleaning, Disciplined
    <3>. QED BY <1>5, <3>1, <3>2
  <2>2. WordKept(h)'
        BY <2>1 DEF WordKept, Cleaning
  <2>. QED BY <2>1, <2>2, RecentMoved DEF tenancy
<1>6. CASE HandOver(h)
  <2>1. /\ pc[h] = "hand over" /\ pc'[h] = "idle" /\ cache' = Forgotten(req[h].worker)
        /\ UNCHANGED <<tenant, clock, replaced, heard>>
        BY <1>6 DEF HandOver, Finish, Leave, Disciplined
  <2>. QED BY <2>1, RecentForgotten DEF Cleaning
<1>. QED BY <1>2, <1>3, <1>4, <1>5, <1>6

LEMMA RecentStepSound ==
    ASSUME Disciplined, PlatformShaped, RecentSound, [Next]_vars
    PROVE  RecentSound'
<1>1. ASSUME NEW h \in Desks, PlatformStep(h) PROVE RecentSound'
  <2>1. Moves(h, PlatformCalls)
        BY <1>1, PlatformMoves
  <2>. QED BY <1>1, <2>1, RecentArrive, TenancyRecent, ConsoleRecent, ProvisioningRecent
           DEF PlatformStep, PlatformResume
<1>2. CASE Passes(PlatformCalls) /\ UNCHANGED platform
      BY <1>2, RecentPassed DEF platform, tenancy, RecentSound
<1>3. CASE Passes(PlatformCalls) /\ Tick /\ UNCHANGED <<commerce, founding>>
  <2>1. clock' = clock + 1 /\ UNCHANGED <<tenant, cache, replaced, heard>> /\ clock \in Int
        BY <1>3 DEF Tick, RecentSound
  <2>2. clock' \in Int /\ clock <= clock'
        BY <2>1
  <2>. QED BY <1>3, <2>1, <2>2, RecentPassed
<1>. QED BY <1>1, <1>2, <1>3, NextPasses DEF NextIsTheirs

(***************************************************************************)
(* An institution is let in or refused by its document as stored, or as it *)
(* was less than the lifetime of the cache ago, before another process     *)
(* changed it (_load, build_context and the cache of core/tenancy.py,      *)
(* invalidate_tenant_cache).                                               *)
(***************************************************************************)
THEOREM GuardsGoByARecentWord == Spec => []AdmittedOnRecentWord
<1>1. Init => RecentSound
      BY RecentStart
<1>2. Disciplined /\ PlatformShaped /\ RecentSound /\ [Next]_vars => RecentSound'
      BY RecentStepSound
<1>3. RecentSound => AdmittedOnRecentWord
      BY DEF RecentSound
<1>. QED BY <1>1, <1>2, <1>3, PlatformAlways, PTL DEF Spec
=============================================================================
