----------------------------- MODULE Registers -----------------------------
(***************************************************************************)
(* One day's attendance: the registers of the sections, their locks, the   *)
(* holidays that shut the school, and the rows the device writes.          *)
(* Source: app/modules/attendance; the device as app/modules/biometrics    *)
(* uses the same rows.                                                     *)
(*                                                                         *)
(* `listed` and `strayed` are history variables: whom a section's summary  *)
(* was last written for, and whose row was written by other means since.   *)
(***************************************************************************)
EXTENDS People

CONSTANTS Holidays,     \* the holiday documents that may cover the day
          Closures,     \* bound: the classes they name
          Submissions   \* bound: what is handed in, <<section, entries>>

\* take_register refuses any other status.
Statuses == {"present", "absent", "late", "half_day", "excused", "leave",
             "holiday"}

ASSUME RegistersAssumption ==
    /\ Closures \subseteq SUBSET Sections
    /\ \A sub \in Submissions :
         /\ sub[1] \in Sections /\ DOMAIN sub[2] \subseteq Pupils
         /\ DOMAIN sub[2] # {} /\ \A s \in DOMAIN sub[2] : sub[2][s] \in Statuses

VARIABLES
    row,       \* the attendance documents: a partial function of the pupil
    sheet,     \* the attendance_sessions: a partial function of the section
    holiday,   \* a partial function of Holidays
    listed, strayed

registers == <<row, sheet, holiday, listed, strayed>>

-----------------------------------------------------------------------------
NonTeaching == {"holiday", "excused"}
Counted     == {"present", "absent", "late", "leave"}   \* has a field of its own

Register(x) == <<"register", x>>
Row(s)      == <<"row", s>>

\* A holiday with no class named is the whole institution's.
Names(classes, x) == classes = {} \/ x \in classes
Covering(x) == {k \in DOMAIN holiday :
                  ~holiday[k].deleted /\ Names(holiday[k].classes, x)}

\* holiday_on: of several, one that requires a register wins.
Shut(x) == Covering(x) # {} /\ \A k \in Covering(x) : ~holiday[k].required

\* set_lock reopens or closes what has been taken.
Locked(x) == x \in DOMAIN sheet /\ sheet[x].locked

Tally(entries) ==
    [m \in Counted |-> Cardinality({s \in DOMAIN entries : entries[s] = m})]

-----------------------------------------------------------------------------
(* take_register: the holiday and the lock are read, then the rows are     *)
(* written in no order, then the summary.                                  *)

BeginRegister(h, x, entries, admin, despite) ==
    /\ ~Shut(x) \/ despite
    /\ Begin(h, "register", "lock?",
             [claims |-> {Register(x)} \cup {Row(s) : s \in DOMAIN entries},
              section |-> x, entries |-> entries, left |-> DOMAIN entries,
              admin |-> admin, despite |-> despite])
    /\ UNCHANGED registers

KeptOut(x, r)      == Locked(x) /\ ~r.admin /\ ~r.despite
RefusedAt(x, r)    == Locked(x) /\ ~r.admin

CheckLock(h) ==
    /\ pc[h] = "lock?"
    /\ IF RefusedAt(req[h].section, req[h]) THEN Finish(h) ELSE Goto(h, "rows")
    /\ UNCHANGED registers

MarkRow(h) ==
    /\ pc[h] = "rows"
    /\ \E s \in req[h].left :
         /\ row' = With(row, s, [section |-> req[h].section,
                                 status |-> req[h].entries[s], remark |-> ""])
         /\ strayed' = strayed \cup (Sections \X {s})
         /\ Carry(h, IF req[h].left = {s} THEN "sheet" ELSE "rows",
                  [req[h] EXCEPT !.left = req[h].left \ {s}])
    /\ UNCHANGED <<sheet, holiday, listed>>

\* The upsert of the summary; a lock stays as it is.
FirstSheet(x, entries) ==
    IF x \in DOMAIN sheet THEN sheet[x]
    ELSE [total |-> Cardinality(DOMAIN entries), count |-> Tally(entries),
          locked |-> FALSE]
Sheet(x, entries) ==
    [total |-> Cardinality(DOMAIN entries), count |-> Tally(entries),
     locked |-> Locked(x)]

StoreSheet(h) ==
    /\ pc[h] = "sheet"
    /\ LET x == req[h].section  entries == req[h].entries IN
       /\ sheet' = With(sheet, x, Sheet(x, entries))
       /\ listed' = [listed EXCEPT ![x] = DOMAIN entries]
       /\ strayed' = strayed \ ({x} \X DOMAIN entries)
    /\ Finish(h)
    /\ UNCHANGED <<row, holiday>>

SetLock(h, x, locked) ==
    /\ x \in DOMAIN sheet
    /\ Once(h, "lock", {Register(x)})
    /\ sheet' = [sheet EXCEPT ![x].locked = locked]
    /\ UNCHANGED <<row, holiday, listed, strayed>>

-----------------------------------------------------------------------------
(* Holidays are declared, edited and withdrawn through the CRUD factory.   *)

Declare(h, k, classes, required) ==
    /\ Once(h, "holiday", {Register(x) : x \in Sections})
    /\ holiday' = With(holiday, k, [classes |-> classes, required |-> required,
                                     deleted |-> FALSE])
    /\ UNCHANGED <<row, sheet, listed, strayed>>

Withdraw(h, k) ==
    /\ k \in DOMAIN holiday
    /\ Once(h, "holiday", {Register(x) : x \in Sections})
    /\ holiday' = [holiday EXCEPT ![k].deleted = TRUE]
    /\ UNCHANGED <<row, sheet, listed, strayed>>

\* release_holiday_attendance: there must be conflicts.
InConflict(s, classes) ==
    s \in DOMAIN row /\ row[s].status \notin NonTeaching
                     /\ Names(classes, row[s].section)

BeginRelease(h, k) ==
    /\ k \in DOMAIN holiday /\ ~holiday[k].deleted /\ ~holiday[k].required
    /\ \E s \in Pupils : InConflict(s, holiday[k].classes)
    /\ Begin(h, "release", "release",
             [claims |-> {Register(x) : x \in Sections} \cup {Row(s) : s \in Pupils},
              holiday |-> k, classes |-> {}, left |-> Pupils])
    /\ UNCHANGED registers

\* The holiday is read a second time for the query, deleted or not.
ReadHoliday(h) ==
    /\ pc[h] = "release"
    /\ Carry(h, "restate", [req[h] EXCEPT !.classes = holiday[req[h].holiday].classes])
    /\ UNCHANGED registers

\* update_many, document by document; locks do not matter and no summary is
\* restated.
RestateRow(h) ==
    /\ pc[h] = "restate"
    /\ \E s \in req[h].left :
         /\ IF InConflict(s, req[h].classes)
            THEN /\ row' = [row EXCEPT ![s].status = "holiday",
                                       ![s].remark = "Holiday"]
                 /\ strayed' = strayed \cup (Sections \X {s})
            ELSE UNCHANGED <<row, strayed>>
         /\ IF req[h].left = {s} THEN Finish(h)
            ELSE Carry(h, "restate", [req[h] EXCEPT !.left = req[h].left \ {s}])
    /\ UNCHANGED <<sheet, holiday, listed>>

-----------------------------------------------------------------------------
(* The device's row of a pupil, in the section apply_punches read.         *)

BeginDevice(h, s) ==
    /\ s \in DOMAIN student
    /\ Begin(h, "device", "device",
             [claims |-> {Row(s)}, pupil |-> s, section |-> student[s].section])
    /\ UNCHANGED registers

DeviceMarks(h) ==
    /\ pc[h] = "device"
    /\ \E mark \in {"present", "half_day"} :
         row' = With(row, req[h].pupil,
                     [section |-> req[h].section, status |-> mark,
                      remark |-> "Biometric"])
    /\ strayed' = strayed \cup (Sections \X {req[h].pupil})
    /\ Finish(h)
    /\ UNCHANGED <<sheet, holiday, listed>>

-----------------------------------------------------------------------------
RegistersInit ==
    /\ row = [s \in There |->
                [section |-> Home, status |-> "present", remark |-> ""]]
    /\ sheet = [x \in {Home} |->
         [total |-> Cardinality(There), locked |-> FALSE,
          count |-> Tally([s \in There |-> "present"])]]
    /\ holiday = [k \in {} |-> {}]
    /\ listed = [x \in Sections |-> IF x = Home THEN There ELSE {}]
    /\ strayed = {}

RegistersArrive(h) ==
    Open(h) /\
      \/ \E sub \in Submissions, admin, despite \in BOOLEAN :
           BeginRegister(h, sub[1], sub[2], admin, despite)
      \/ \E x \in Sections, locked \in BOOLEAN : SetLock(h, x, locked)
      \/ \E k \in Holidays :
           \/ \E classes \in Closures, required \in BOOLEAN :
                Declare(h, k, classes, required)
           \/ Withdraw(h, k) \/ BeginRelease(h, k)
      \/ \E s \in Pupils : BeginDevice(h, s)

RegistersResume(h) ==
    \/ CheckLock(h) \/ MarkRow(h) \/ StoreSheet(h)
    \/ ReadHoliday(h) \/ RestateRow(h) \/ DeviceMarks(h)

RegistersStep(h) == RegistersArrive(h) \/ RegistersResume(h)

-----------------------------------------------------------------------------
(* What the module promises.                                               *)

\* A section's summary counts the rows it was written with, first submission
\* or correction: what reports add up from rows and what the register page
\* shows agree, until a row is written by other means.
SheetSaysRows ==
    \A x \in DOMAIN sheet :
        Calm(Register(x)) /\ (\A s \in listed[x] : Calm(Row(s)) /\ <<x, s>> \notin strayed)
          => /\ sheet[x].total = Cardinality(listed[x])
             /\ \A m \in Counted : sheet[x].count[m] =
                  Cardinality({s \in listed[x] : row[s].status = m})

\* Who writes a pupil's row in a locked register, a teacher by hand, is an
\* administrator; on a day the class is shut, one who said so: unless the
\* lock or the holiday met the submission.
LockAndClosureHold ==
    [][\A x \in Sections : Register(x) \notin disturbed' =>
         \A s \in DOMAIN row' :
           row'[s].section = x /\ row'[s].remark = ""
           /\ (s \in DOMAIN row => row[s] # row'[s]) =>
             \E h \in Desks : /\ pc[h] = "rows" /\ req[h].section = x
                              /\ Locked(x) => req[h].admin
                              /\ Shut(x) => req[h].despite]_row
=============================================================================
