----------------------------- MODULE Biometrics -----------------------------
(***************************************************************************)
(* Biometric attendance for one school day.  A reader pushes the punches   *)
(* it holds, again and again until it is answered; the push stores them    *)
(* raw, applies whatever is pending to the attendance rows and marks what  *)
(* it applied, a database call at a time.  An administrator may ask for    *)
(* the second half alone.  Sources: app/modules/biometrics/service.py and  *)
(* the device routes of its router.py.                                     *)
(*                                                                         *)
(* A person is known by their enrolment number.  What a device prints and  *)
(* what the server parses is a set of punches, each an id and an hour.     *)
(*                                                                         *)
(* A definition just above another with its parameters, and used nowhere,  *)
(* is the slip a programmer could have made there.                         *)
(***************************************************************************)
EXTENDS Integers, FiniteSets, FiniteSetsExt

CONSTANTS
    Ids,                      \* enrolment numbers in use at the reader
    StaffIds,                 \* those of staff: an out-time is kept for them
    LateAfter, HalfDayAfter,  \* settings, as hours
    Pushes, Syncs,            \* handlers of /iclock/cdata and of /sync
    NoTime,                   \* an empty out_time
    LastHour, MaxFailures     \* bounds: hours in the day, failed handlers

Handlers == Pushes \cup Syncs
Hours == 0..LastHour
Punch == Ids \X Hours

ASSUME BiometricsAssumption ==
    /\ StaffIds \subseteq Ids
    /\ {LateAfter, HalfDayAfter, LastHour, MaxFailures} \subseteq Nat
    /\ NoTime \notin Nat

VARIABLES
    hour,         \* the reader's clock
    made, acked,  \* at the reader: punches it holds, those it was answered for
    stored,       \* biometric_punches: processed or not, by punch
    counted,      \* punch_count of the device
    enrolled,     \* ids linked to a person
    row,          \* staff_attendance and attendance of the day, by id
    pc, req,      \* per handler: the next database call, its locals
    failures,     \* handlers that failed, up to MaxFailures
    applied       \* history: the batches a row was written from, by id

vars == <<hour, made, acked, stored, counted, enrolled, row, pc, req, failures,
          applied>>
log  == <<made, acked, stored, counted>>      \* the reader's and the raw log
book == <<enrolled, row, applied>>

-----------------------------------------------------------------------------
Row == [status : {"present", "late", "half_day"}, in : Hours,
        out : Hours \cup {NoTime}]

NoRequest == [sent |-> {}]

Idle(h) == pc[h] = "idle"

Goto(h, label, locals) == /\ pc' = [pc EXCEPT ![h] = label]
                          /\ req' = [req EXCEPT ![h] = locals]

Finish(h) == Goto(h, "idle", NoRequest)

\* The reader counts a push as done when it gets its OK.
Answer(h) == /\ acked' = acked \cup req[h].sent
             /\ Finish(h)

-----------------------------------------------------------------------------
(* The reader.                                                             *)

Touch(i) ==
    /\ <<i, hour>> \notin made
    /\ made' = made \cup {<<i, hour>>}
    /\ UNCHANGED <<hour, acked, stored, counted, book, pc, req, failures>>

HourPasses ==
    /\ hour < LastHour
    /\ hour' = hour + 1
    /\ UNCHANGED <<log, book, pc, req, failures>>

\* push_attendance begins, with any of the reader's punches: what it was not
\* answered for, or all it has once more.
Push(h, payload) ==
    /\ h \in Pushes /\ Idle(h)
    /\ payload # {}
    /\ Goto(h, "ingest", [sent |-> payload, todo |-> payload, new |-> 0])
    /\ UNCHANGED <<hour, log, book, failures>>

-----------------------------------------------------------------------------
(* ingest_punches: an upsert each, then the device's count.                *)

StorePunch(h) ==
    /\ pc[h] = "ingest"
    /\ \E k \in req[h].todo :
         /\ stored' = IF k \in DOMAIN stored THEN stored
                      ELSE [j \in DOMAIN stored \cup {k} |->
                              IF j = k THEN "pending" ELSE stored[j]]
         /\ Goto(h, "ingest",
                 [sent |-> req[h].sent, todo |-> req[h].todo \ {k},
                  new |-> req[h].new + IF k \in DOMAIN stored THEN 0 ELSE 1])
    /\ UNCHANGED <<hour, made, acked, counted, book, failures>>

Counted(h)    == req[h].new

IfSomethingNew(h) == req[h].new > 0
AppliesNext(h)    == TRUE

CountPunches(h) ==
    /\ pc[h] = "ingest" /\ req[h].todo = {}
    /\ counted' = counted + Counted(h)
    /\ IF AppliesNext(h) THEN /\ Goto(h, "pending", [sent |-> req[h].sent])
                            /\ UNCHANGED acked
       ELSE Answer(h)
    /\ UNCHANGED <<hour, made, stored, book, failures>>

-----------------------------------------------------------------------------
(* apply_punches.                                                          *)

BeginSync(h) ==
    /\ h \in Syncs /\ Idle(h)
    /\ Goto(h, "pending", [sent |-> {}])
    /\ UNCHANGED <<hour, log, book, failures>>

ReadPending(h) ==
    LET batch == {k \in DOMAIN stored : stored[k] = "pending"} IN
    /\ pc[h] = "pending"
    /\ IF batch = {} THEN Answer(h) ELSE
         /\ Goto(h, "people", [sent |-> req[h].sent, batch |-> batch])
         /\ UNCHANGED acked
    /\ UNCHANGED <<hour, made, stored, counted, book, failures>>

\* The punches that will be applied, and marked: an id nobody is enrolled
\* under is left for later.
WholeBatch(batch) == batch
Matched(batch)    == {k \in batch : k[1] \in enrolled}

ReadPeople(h) ==
    LET matched == Matched(req[h].batch) IN
    /\ pc[h] = "people"
    /\ Goto(h, "apply",
            [sent |-> req[h].sent, matched |-> matched,
             todo |-> {k[1] : k \in {j \in matched : j[1] \in enrolled}}])
    /\ UNCHANGED <<hour, log, book, failures>>

Stamps(batch, i) == {k[2] : k \in {j \in batch : j[1] = i}}

StatusAt(first) == IF first > HalfDayAfter THEN "half_day"
                   ELSE IF first > LateAfter THEN "late" ELSE "present"

ByTheLast(i, stamps) ==
    [status |-> StatusAt(Max(stamps)), in |-> Min(stamps),
     out |-> IF i \in StaffIds /\ Max(stamps) # Min(stamps) THEN Max(stamps)
             ELSE NoTime]
DayOf(i, stamps) ==
    [status |-> StatusAt(Min(stamps)), in |-> Min(stamps),
     out |-> IF i \in StaffIds /\ Max(stamps) # Min(stamps) THEN Max(stamps)
             ELSE NoTime]

\* The row is set from this batch alone, whatever it said before.
ApplyDay(h) ==
    /\ pc[h] = "apply"
    /\ \E i \in req[h].todo :
         LET stamps == Stamps(req[h].matched, i) IN
         /\ row' = [j \in DOMAIN row \cup {i} |->
              IF j = i THEN DayOf(i, stamps) ELSE row[j]]
         /\ applied' = [applied EXCEPT ![i] = applied[i] \cup {stamps}]
         /\ Goto(h, "apply", [sent |-> req[h].sent, matched |-> req[h].matched,
                              todo |-> req[h].todo \ {i}])
    /\ UNCHANGED <<hour, log, enrolled, failures>>

MarkProcessed(h) ==
    /\ pc[h] = "apply" /\ req[h].todo = {}
    /\ stored' = [k \in DOMAIN stored |->
         IF k \in req[h].matched THEN "processed" ELSE stored[k]]
    /\ Answer(h)
    /\ UNCHANGED <<hour, made, counted, book, failures>>

-----------------------------------------------------------------------------
Enrol(i) ==
    /\ i \notin enrolled
    /\ enrolled' = enrolled \cup {i}
    /\ UNCHANGED <<hour, log, row, applied, pc, req, failures>>

\* The handler fails or dies, and the reader gets no answer.
Abort(h) ==
    /\ ~Idle(h) /\ failures < MaxFailures
    /\ failures' = failures + 1
    /\ Finish(h)
    /\ UNCHANGED <<hour, log, book>>

Init ==
    /\ hour = 0
    /\ made = {} /\ acked = {}
    /\ stored = [k \in {} |-> "pending"]
    /\ counted = 0
    /\ enrolled \in SUBSET Ids
    /\ row = [i \in {} |-> 0]
    /\ pc = [h \in Handlers |-> "idle"]
    /\ req = [h \in Handlers |-> NoRequest]
    /\ failures = 0
    /\ applied = [i \in Ids |-> {}]

Resume(h) == \/ StorePunch(h) \/ CountPunches(h) \/ ReadPending(h)
             \/ ReadPeople(h) \/ ApplyDay(h) \/ MarkProcessed(h)

Next ==
    \/ HourPasses
    \/ \E i \in Ids : Touch(i) \/ Enrol(i)
    \/ \E h \in Handlers :
         \/ \E payload \in {made \ acked, made} : Push(h, payload)
         \/ BeginSync(h) \/ Resume(h) \/ Abort(h)

Spec == Init /\ [][Next]_vars

\* A request that was accepted runs on, and the reader goes on pushing what it
\* was not answered for, as the handshake tells it to (Delay, ErrorDelay).
Retry == \E h \in Pushes : Push(h, made \ acked)

FairSpec == Spec /\ SF_vars(Retry) /\ \A h \in Handlers : WF_vars(Resume(h))

-----------------------------------------------------------------------------
(* What the module promises.                                               *)

AppliedTimes(i) == UNION applied[i]

\* A punch is marked processed only once it has been applied, whatever fails,
\* overlaps or is enrolled meanwhile: what is marked is never looked at again.
ProcessedWasApplied ==
    \A k \in DOMAIN stored :
        stored[k] = "processed" => k[2] \in AppliedTimes(k[1])

\* The device's counter is the length of its log once pushes are over, unless
\* a push failed: a re-sent punch is not counted twice.
CountMatchesLog ==
    failures = 0 /\ (\A h \in Pushes : pc[h] # "ingest") =>
        counted = Cardinality(DOMAIN stored)

\* The first punch is the in-time, the last the out-time, and the first says
\* whether the person was late, for whoever's day was applied in one batch.
\* Nothing in the code keeps the two settings in order.
OneBatchOneDay ==
    \A i \in DOMAIN row : \A stamps \in applied[i] :
        applied[i] = {stamps} =>
          /\ row[i].in \in stamps /\ \A t \in stamps : row[i].in <= t
          /\ i \in StaffIds /\ Cardinality(stamps) > 1 =>
               row[i].out \in stamps /\ \A t \in stamps : t <= row[i].out
          /\ row[i].status = "present" <=>
               row[i].in <= LateAfter /\ row[i].in <= HalfDayAfter
          /\ row[i].status = "half_day" <=> row[i].in > HalfDayAfter

\* What a device pushed is in the log once, and a day read from it as a whole
\* is read right.
LogAndDayAgree == CountMatchesLog /\ OneBatchOneDay

\* A punch of an enrolled person counts in the end, though pushes fail.
EveryPunchCounts ==
    \A i \in Ids : \A t \in Hours :
        [](i \in enrolled) =>
            (<<i, t>> \in made ~> t \in AppliedTimes(i))

\* The service's opening comment: the first punch of a day is the in-time.
FirstIsIn ==
    \A i \in DOMAIN row :
        \A k \in DOMAIN stored :
            k[1] = i /\ stored[k] = "processed" => row[i].in <= k[2]
=============================================================================
