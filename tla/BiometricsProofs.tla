-------------------------- MODULE BiometricsProofs --------------------------
(***************************************************************************)
(* Proofs about Biometrics, for any number of pushes, syncs, people and    *)
(* hours, any settings and any number of failures.                         *)
(*                                                                         *)
(* BioSound is inductive.  It says what a handler holds at each of its     *)
(* database calls (Shaped, Applying), that a person's row was read from a  *)
(* batch applied to it (RowsRead), and that, as long as nothing failed,    *)
(* the log is as long as the device's counter and what the pushes storing  *)
(* punches have still to add to it (Counting).                             *)
(***************************************************************************)
EXTENDS Biometrics, SumTheorems

Labels == {"idle", "ingest", "pending", "people", "apply"}

BioTyped ==
    /\ hour \in Hours /\ failures \in Nat /\ counted \in Nat
    /\ made \subseteq Punch /\ enrolled \subseteq Ids
    /\ DOMAIN stored \subseteq Punch /\ IsFiniteSet(DOMAIN stored)
    /\ DOMAIN row \subseteq Ids
    /\ DOMAIN applied = Ids
    /\ \A i \in Ids : \A stamps \in applied[i] :
         stamps # {} /\ stamps \subseteq Hours
    /\ pc \in [Handlers -> Labels]
    /\ DOMAIN req = Handlers

Shaped(h) ==
    /\ pc[h] = "ingest" =>
         h \in Pushes /\ req[h].todo \subseteq Punch /\ req[h].new \in Nat
    /\ pc[h] = "people" => req[h].batch \subseteq Punch
    /\ pc[h] = "apply" =>
         /\ req[h].matched \subseteq Punch
         /\ req[h].todo \subseteq {k[1] : k \in req[h].matched}

\* Each punch of a batch is of someone still to be done, or was applied.
Applying(h) ==
    pc[h] = "apply" =>
      \A k \in req[h].matched :
        k[1] \in req[h].todo \/ k[2] \in AppliedTimes(k[1])

RowsRead ==
    \A i \in DOMAIN row :
        \E stamps \in applied[i] : row[i] = DayOf(i, stamps)

Ingesting == {h \in Handlers : pc[h] = "ingest"}
NewOnes   == [h \in Ingesting |-> req[h].new]
Counting ==
    /\ IsFiniteSet(Ingesting)
    /\ failures = 0 =>
         Cardinality(DOMAIN stored) = counted + SumFunction(NewOnes)

BioSound ==
    /\ BioTyped /\ ProcessedWasApplied /\ RowsRead /\ Counting
    /\ \A h \in Handlers : Shaped(h) /\ Applying(h)

-----------------------------------------------------------------------------
(* The first and the last of a day's punches.                              *)

LEMMA FirstOfDay ==
    ASSUME NEW S \in SUBSET Hours, S # {}
    PROVE  Min(S) \in S /\ \A y \in S : Min(S) <= y
<1>. DEFINE W == {0..x : x \in S}
<1>1. LastHour \in Nat /\ Hours = 0..LastHour
      BY BiometricsAssumption DEF Hours
<1>2. IsFiniteSet(Hours)
      BY <1>1, FS_Interval
<1>3. \A x \in S : x \in Nat /\ x <= LastHour
      BY <1>1
<1>4. \A x \in S : 0..x \in SUBSET Hours
      BY <1>1, <1>3
<1>5. W \in SUBSET (SUBSET Hours) /\ W # {}
      BY <1>4
<1>6. PICK T \in W : \A U \in SUBSET T : U # T => U \notin W
  <2>. HIDE DEF W
  <2>. QED BY <1>2, <1>5, SmallestSubset
<1>7. PICK x \in S : T = 0..x
      OBVIOUS
<1>8. ASSUME NEW y \in S, y < x PROVE FALSE
  <2>1. x \in Nat /\ y \in Nat
        BY <1>3
  <2>2. 0..y \in SUBSET T /\ x \in T /\ x \notin 0..y
        BY <2>1, <1>7, <1>8
  <2>3. 0..y \in W
        OBVIOUS
  <2>. QED BY <1>6, <2>2, <2>3
<1>9. ASSUME NEW y \in S PROVE x <= y
      BY <1>8, <1>3
<1>10. \E u \in S : \A y \in S : u =< y
      BY <1>9
<1>. QED BY <1>10 DEF Min

LEMMA LastOfDay ==
    ASSUME NEW S \in SUBSET Hours, S # {}
    PROVE  Max(S) \in S /\ \A y \in S : y <= Max(S)
<1>. DEFINE Left == {t \in Hours : LastHour - t \in S}
<1>1. LastHour \in Nat /\ Hours = 0..LastHour
      BY BiometricsAssumption DEF Hours
<1>2. \A s \in S : s \in Nat /\ s <= LastHour
      BY <1>1
<1>3. \A s \in S : LastHour - s \in Left
  <2>1. SUFFICES ASSUME NEW s \in S PROVE LastHour - s \in Left
        OBVIOUS
  <2>2. s \in Nat /\ s <= LastHour
        BY <1>2
  <2>3. LastHour - s \in 0..LastHour /\ LastHour - (LastHour - s) = s
        BY <1>1, <2>2
  <2>. QED BY <1>1, <2>3
<1>4. Left \in SUBSET Hours
      OBVIOUS
<1>5. Left # {}
      BY <1>3
<1>. DEFINE x == Min(Left)
<1>6. x \in Left /\ \A y \in Left : x <= y
  <2>. HIDE DEF Left
  <2>. QED BY <1>4, <1>5, FirstOfDay
<1>. HIDE DEF x
<1>7. LastHour - x \in S /\ x \in Nat
      BY <1>1, <1>6
<1>8. ASSUME NEW y \in S PROVE LastHour - x >= y
  <2>1. LastHour - y \in Left /\ y \in Nat
        BY <1>2, <1>3
  <2>2. x <= LastHour - y
        BY <2>1, <1>6
  <2>. QED BY <2>1, <2>2, <1>1, <1>7
<1>9. \E u \in S : \A y \in S : u >= y
      BY <1>7, <1>8
<1>10. Max(S) \in S /\ \A y \in S : Max(S) >= y
      BY <1>9 DEF Max
<1>11. Max(S) \in Nat
      BY <1>2, <1>10
<1>. QED BY <1>2, <1>10, <1>11

-----------------------------------------------------------------------------
LEMMA BioStart == ASSUME Init PROVE BioSound
<1>1. Ingesting = {} /\ DOMAIN stored = {} /\ DOMAIN row = {}
      BY DEF Init, Ingesting
<1>2. DOMAIN NewOnes = {}
      BY <1>1 DEF NewOnes
<1>3. IsFiniteSet({}) /\ Cardinality({}) = 0
      BY FS_EmptySet
<1>4. SumFunction(NewOnes) = 0
      BY <1>2, SumOfNone
<1>5. Counting
      BY <1>1, <1>3, <1>4 DEF Init, Counting
<1>6. BioTyped
      BY <1>1, <1>3, BiometricsAssumption DEF Init, BioTyped, Hours, Labels
<1>7. ProcessedWasApplied /\ RowsRead
      BY <1>1 DEF ProcessedWasApplied, RowsRead
<1>8. ASSUME NEW h \in Handlers PROVE Shaped(h) /\ Applying(h)
      BY DEF Init, Shaped, Applying
<1>. QED BY <1>5, <1>6, <1>7, <1>8 DEF BioSound

-----------------------------------------------------------------------------
(* What a step of one handler leaves alone.                                *)

OthersAlone(h) ==
    \A g \in Handlers : g # h => pc'[g] = pc[g] /\ req'[g] = req[g]

LEMMA Moved ==
    ASSUME BioTyped, NEW h \in Handlers, NEW label \in Labels, NEW locals,
           Goto(h, label, locals)
    PROVE  /\ pc' \in [Handlers -> Labels] /\ DOMAIN req' = Handlers
           /\ pc'[h] = label /\ req'[h] = locals /\ OthersAlone(h)
  BY DEF BioTyped, Goto, OthersAlone

\* Times are only ever added to what was applied.
LEMMA OthersStay ==
    ASSUME NEW h \in Handlers, OthersAlone(h),
           \A g \in Handlers : Shaped(g) /\ Applying(g),
           \A i \in Ids : applied[i] \subseteq applied'[i]
    PROVE  \A g \in Handlers : g # h => Shaped(g)' /\ Applying(g)'
<1>1. SUFFICES ASSUME NEW g \in Handlers, g # h PROVE Shaped(g)' /\ Applying(g)'
      OBVIOUS
<1>2. pc'[g] = pc[g] /\ req'[g] = req[g]
      BY <1>1 DEF OthersAlone
<1>3. Shaped(g) /\ Applying(g)
      OBVIOUS
<1>4. Shaped(g)'
      BY <1>2, <1>3 DEF Shaped
<1>5. ASSUME pc[g] = "apply", NEW k \in req[g].matched,
             k[1] \notin req[g].todo
      PROVE  k[2] \in AppliedTimes(k[1])'
  <2>1. k[2] \in UNION applied[k[1]]
        BY <1>3, <1>5 DEF Applying, AppliedTimes
  <2>2. k[1] \in Ids
        BY <1>3, <1>5 DEF Shaped, Punch
  <2>3. applied[k[1]] \subseteq applied'[k[1]]
        BY <2>2
  <2>4. k[2] \in UNION applied'[k[1]]
        BY <2>1, <2>3
  <2>. QED BY <2>4 DEF AppliedTimes
<1>6. Applying(g)'
      BY <1>2, <1>5 DEF Applying
<1>. QED BY <1>4, <1>6

LEMMA CountingStays ==
    ASSUME Counting, NEW h \in Handlers, OthersAlone(h),
           pc[h] # "ingest", pc'[h] # "ingest",
           DOMAIN stored' = DOMAIN stored, counted' = counted,
           failures' = failures
    PROVE  Counting'
<1>1. \A g \in Handlers : pc'[g] = "ingest" <=> pc[g] = "ingest"
      BY DEF OthersAlone
<1>2. Ingesting' = Ingesting
      BY <1>1 DEF Ingesting
<1>3. \A g \in Ingesting : req'[g] = req[g]
      BY DEF Ingesting, OthersAlone
<1>4. NewOnes' = NewOnes
      BY <1>2, <1>3 DEF NewOnes
<1>. QED BY <1>2, <1>4 DEF Counting

\* No handler does anything: the reader, its clock, an enrolment.
LEMMA HandlersStay ==
    ASSUME BioSound, UNCHANGED <<pc, req, applied>>
    PROVE  \A g \in Handlers : Shaped(g)' /\ Applying(g)'
  BY DEF BioSound, Shaped, Applying, AppliedTimes

LEMMA CountsStay ==
    ASSUME Counting, UNCHANGED <<pc, req, stored, counted, failures>>
    PROVE  Counting'
<1>1. Ingesting' = Ingesting
      BY DEF Ingesting
<1>2. NewOnes' = NewOnes
      BY <1>1 DEF NewOnes
<1>. QED BY <1>1, <1>2 DEF Counting

\* Rows are kept, and so is what they were read from.
LEMMA RowsStay ==
    ASSUME BioTyped, RowsRead, row' = row, applied' = applied
    PROVE  RowsRead'
  BY DEF RowsRead

LEMMA MarksStay ==
    ASSUME ProcessedWasApplied, stored' = stored, applied' = applied
    PROVE  ProcessedWasApplied'
  BY DEF ProcessedWasApplied, AppliedTimes

-----------------------------------------------------------------------------
LEMMA TouchKeeps ==
    ASSUME BioSound, NEW i \in Ids, Touch(i) PROVE BioSound'
<1>1. BioTyped'
      BY DEF BioSound, BioTyped, Touch, Punch, book
<1>2. UNCHANGED <<pc, req, applied, stored, counted, failures, row>>
      BY DEF Touch, book
<1>3. ProcessedWasApplied' /\ RowsRead' /\ Counting'
      BY <1>2, CountsStay, RowsStay, MarksStay DEF BioSound
<1>. QED BY <1>1, <1>2, <1>3, HandlersStay DEF BioSound

LEMMA HourPassesKeeps ==
    ASSUME BioSound, HourPasses PROVE BioSound'
<1>1. UNCHANGED <<pc, req, applied, stored, counted, failures, row, made,
                  enrolled>>
      BY DEF HourPasses, book, log
<1>2. hour' \in Hours
      BY BiometricsAssumption DEF HourPasses, BioSound, BioTyped, Hours
<1>3. BioTyped'
      BY <1>1, <1>2 DEF BioSound, BioTyped
<1>4. ProcessedWasApplied' /\ RowsRead' /\ Counting'
      BY <1>1, CountsStay, RowsStay, MarksStay DEF BioSound
<1>. QED BY <1>1, <1>3, <1>4, HandlersStay DEF BioSound

LEMMA EnrolKeeps ==
    ASSUME BioSound, NEW i \in Ids, Enrol(i) PROVE BioSound'
<1>1. UNCHANGED <<pc, req, applied, stored, counted, failures, row, made,
                  hour>>
      BY DEF Enrol, log
<1>2. BioTyped'
      BY <1>1 DEF BioSound, BioTyped, Enrol
<1>3. ProcessedWasApplied' /\ RowsRead' /\ Counting'
      BY <1>1, CountsStay, RowsStay, MarksStay DEF BioSound
<1>. QED BY <1>1, <1>2, <1>3, HandlersStay DEF BioSound

\* A push begins with nothing new counted.
LEMMA PushKeeps ==
    ASSUME BioSound, NEW h \in Handlers, NEW payload \in SUBSET made,
           Push(h, payload)
    PROVE  BioSound'
<1>. DEFINE new == [sent |-> payload, todo |-> payload, new |-> 0]
<1>1. /\ h \in Pushes /\ pc[h] = "idle" /\ Goto(h, "ingest", new)
      /\ UNCHANGED <<hour, made, stored, counted, enrolled, row, applied,
                     failures>>
      BY DEF Push, Idle, log, book
<1>2. new.todo = payload /\ new.new = 0
      OBVIOUS
<1>. HIDE DEF new
<1>3. BioTyped
      BY DEF BioSound
<1>4. /\ pc' \in [Handlers -> Labels] /\ DOMAIN req' = Handlers
      /\ pc'[h] = "ingest" /\ req'[h] = new /\ OthersAlone(h)
      BY <1>1, <1>3, Moved DEF Labels
<1>5. BioTyped'
      BY <1>1, <1>3, <1>4 DEF BioTyped
<1>6. Shaped(h)' /\ Applying(h)'
      BY <1>1, <1>2, <1>3, <1>4 DEF Shaped, Applying, BioTyped
<1>7. \A g \in Handlers : g # h => Shaped(g)' /\ Applying(g)'
      BY <1>1, <1>4, OthersStay DEF BioSound
<1>8. Counting'
  <2>1. h \notin Ingesting /\ Ingesting' = Ingesting \cup {h}
        BY <1>1, <1>4 DEF Ingesting, OthersAlone
  <2>2. IsFiniteSet(Ingesting) /\ IsFiniteSet(Ingesting')
        BY <2>1, FS_AddElement DEF BioSound, Counting
  <2>3. \A g \in Ingesting : req[g].new \in Int /\ req'[g] = req[g]
        BY <1>4, <2>1 DEF BioSound, Shaped, Ingesting, OthersAlone
  <2>4. NewOnes' \in [Ingesting \cup {h} -> Int] /\ NewOnes'[h] = 0
        BY <1>2, <1>4, <2>1, <2>3 DEF NewOnes
  <2>5. SumFunction(NewOnes') =
          NewOnes'[h] + SumFunction([g \in Ingesting |-> NewOnes'[g]])
        BY <2>1, <2>2, <2>4, SumWithOneMore
  <2>6. [g \in Ingesting |-> NewOnes'[g]] = NewOnes
        BY <2>1, <2>3 DEF NewOnes
  <2>7. NewOnes \in [Ingesting -> Int]
        BY <2>3 DEF NewOnes
  <2>8. SumFunction(NewOnes) \in Int
        BY <2>2, <2>7, SumInt DEF SumFunction
  <2>9. SumFunction(NewOnes') = SumFunction(NewOnes)
        BY <2>4, <2>5, <2>6, <2>8
  <2>. QED BY <1>1, <2>2, <2>9 DEF BioSound, Counting
<1>9. ProcessedWasApplied' /\ RowsRead'
      BY <1>1, <1>3, RowsStay, MarksStay DEF BioSound
<1>. QED BY <1>5, <1>6, <1>7, <1>8, <1>9 DEF BioSound

\* One punch is stored: if it was new, the log and what is to be counted grow.
LEMMA StorePunchKeeps ==
    ASSUME BioSound, NEW h \in Handlers, StorePunch(h) PROVE BioSound'
<1>1. PICK k \in req[h].todo :
        /\ stored' = IF k \in DOMAIN stored THEN stored
                     ELSE [j \in DOMAIN stored \cup {k} |->
                             IF j = k THEN "pending" ELSE stored[j]]
        /\ Goto(h, "ingest",
                [sent |-> req[h].sent, todo |-> req[h].todo \ {k},
                 new |-> req[h].new + IF k \in DOMAIN stored THEN 0 ELSE 1])
      BY DEF StorePunch
<1>. DEFINE more == IF k \in DOMAIN stored THEN 0 ELSE 1
            new == [sent |-> req[h].sent, todo |-> req[h].todo \ {k},
                    new |-> req[h].new + more]
<1>2. /\ pc[h] = "ingest" /\ Goto(h, "ingest", new)
      /\ UNCHANGED <<hour, made, counted, enrolled, row, applied, failures>>
      BY <1>1 DEF StorePunch, book
<1>3. new.todo = req[h].todo \ {k} /\ new.new = req[h].new + more
      OBVIOUS
<1>4. more \in Nat
      OBVIOUS
<1>5. Shaped(h) /\ BioTyped
      BY DEF BioSound
<1>6. h \in Pushes /\ k \in Punch /\ req[h].new \in Nat
        /\ req[h].todo \subseteq Punch
      BY <1>2, <1>5 DEF Shaped
<1>7. DOMAIN stored' = DOMAIN stored \cup {k}
      BY <1>1
<1>8. /\ IsFiniteSet(DOMAIN stored')
      /\ Cardinality(DOMAIN stored') = Cardinality(DOMAIN stored) + more
  <2>1. IsFiniteSet(DOMAIN stored)
        BY <1>5 DEF BioTyped
  <2>2. Cardinality(DOMAIN stored) \in Nat
        BY <2>1, FS_CardinalityType
  <2>3. /\ IsFiniteSet(DOMAIN stored \cup {k})
        /\ Cardinality(DOMAIN stored \cup {k}) =
             IF k \in DOMAIN stored THEN Cardinality(DOMAIN stored)
             ELSE Cardinality(DOMAIN stored) + 1
        BY <2>1, FS_AddElement
  <2>. QED BY <1>7, <2>2, <2>3
<1>9. ProcessedWasApplied'
  <2>1. ASSUME NEW j \in DOMAIN stored', stored'[j] = "processed"
        PROVE  j \in DOMAIN stored /\ stored[j] = "processed"
        BY <1>1, <1>7, <2>1
  <2>2. ASSUME NEW j \in DOMAIN stored', stored'[j] = "processed"
        PROVE  j[2] \in UNION applied'[j[1]]
        BY <1>2, <2>1, <2>2 DEF BioSound, ProcessedWasApplied, AppliedTimes
  <2>. QED BY <2>2 DEF ProcessedWasApplied, AppliedTimes
<1>. HIDE DEF new, more
<1>10. /\ pc' \in [Handlers -> Labels] /\ DOMAIN req' = Handlers
       /\ pc'[h] = "ingest" /\ req'[h] = new /\ OthersAlone(h)
      BY <1>2, <1>5, Moved DEF Labels
<1>11. BioTyped'
      BY <1>2, <1>5, <1>6, <1>7, <1>8, <1>10 DEF BioTyped
<1>12. Shaped(h)' /\ Applying(h)'
      BY <1>3, <1>4, <1>6, <1>10 DEF Shaped, Applying
<1>13. \A g \in Handlers : g # h => Shaped(g)' /\ Applying(g)'
      BY <1>2, <1>10, OthersStay DEF BioSound
<1>14. Counting'
  <2>1. Ingesting' = Ingesting /\ h \in Ingesting
        BY <1>2, <1>10 DEF Ingesting, OthersAlone
  <2>2. IsFiniteSet(Ingesting)
        BY DEF BioSound, Counting
  <2>3. \A g \in Ingesting : g \in Handlers /\ req[g].new \in Int
        BY DEF BioSound, Shaped, Ingesting
  <2>4. NewOnes \in [Ingesting -> Int] /\ NewOnes[h] = req[h].new
        BY <2>1, <2>3 DEF NewOnes
  <2>5. \A g \in Ingesting \ {h} : NewOnes'[g] = NewOnes[g]
        BY <1>10, <2>1, <2>3 DEF NewOnes, OthersAlone
  <2>6. NewOnes' = [g \in Ingesting |-> req'[g].new]
        BY <2>1 DEF NewOnes
  <2>7. NewOnes'[h] = req[h].new + more
        BY <1>3, <1>10, <2>1, <2>6
  <2>8. NewOnes' \in [Ingesting -> Int]
    <3>1. \A g \in Ingesting : NewOnes'[g] \in Int
          BY <1>4, <1>6, <2>4, <2>5, <2>7
    <3>. QED BY <2>6, <3>1
  <2>9. SumFunction(NewOnes') = SumFunction(NewOnes) - NewOnes[h] + NewOnes'[h]
        BY <2>1, <2>2, <2>4, <2>5, <2>8, SumWithOneChanged
  <2>10. SumFunction(NewOnes) \in Int
        BY <2>2, <2>4, SumInt DEF SumFunction
  <2>11. SumFunction(NewOnes') = SumFunction(NewOnes) + more
        BY <1>4, <1>6, <2>4, <2>7, <2>9, <2>10
  <2>12. counted \in Nat /\ failures' = failures /\ counted' = counted
        BY <1>2, <1>5 DEF BioTyped
  <2>13. Cardinality(DOMAIN stored) \in Nat
        BY <1>5, FS_CardinalityType DEF BioTyped
  <2>14. failures' = 0 => Cardinality(DOMAIN stored') =
                            counted' + SumFunction(NewOnes')
        BY <1>4, <1>8, <2>10, <2>11, <2>12, <2>13 DEF BioSound, Counting
  <2>. QED BY <2>1, <2>2, <2>14 DEF Counting
<1>15. RowsRead'
      BY <1>2, <1>5, RowsStay DEF BioSound
<1>. QED BY <1>9, <1>11, <1>12, <1>13, <1>14, <1>15 DEF BioSound

\* A sum is the value at one element and the sum of the rest.
LEMMA SumWithoutOne ==
    ASSUME NEW S, IsFiniteSet(S), NEW a \in S, NEW f \in [S -> Int],
           NEW R, R = S \ {a},
           NEW g \in [R -> Int], \A x \in R : g[x] = f[x]
    PROVE  SumFunction(f) = f[a] + SumFunction(g)
<1>1. SumFunctionOnSet(f, S) = f[a] + SumFunctionOnSet(f, R)
      BY SumSplit
<1>2. IsFiniteSet(R)
      BY FS_Subset
<1>3. SumFunctionOnSet(f, R) = SumFunctionOnSet(g, R)
      BY <1>2, SumAgree
<1>4. SumFunction(f) = SumFunctionOnSet(f, S) /\ SumFunction(g) = SumFunctionOnSet(g, R)
      BY DEF SumFunction
<1>. QED BY <1>1, <1>3, <1>4

\* A push that stops storing: what it counted, if it lived to, is counted.
LEMMA IngestEnds ==
    ASSUME BioSound, NEW h \in Handlers, OthersAlone(h),
           pc[h] = "ingest", pc'[h] # "ingest", stored' = stored,
           \/ failures' = failures /\ counted' = counted + req[h].new
           \/ failures' # 0
    PROVE  Counting'
<1>1. h \in Ingesting /\ Ingesting' = Ingesting \ {h}
      BY DEF Ingesting, OthersAlone
<1>2. IsFiniteSet(Ingesting) /\ IsFiniteSet(Ingesting \ {h})
      BY FS_RemoveElement DEF BioSound, Counting
<1>3. \A g \in Ingesting : g \in Handlers /\ req[g].new \in Int
      BY DEF BioSound, Shaped, Ingesting
<1>4. NewOnes \in [Ingesting -> Int] /\ NewOnes[h] = req[h].new
      BY <1>1, <1>3 DEF NewOnes
<1>5. \A g \in Ingesting' : g \in Ingesting /\ req'[g] = req[g]
      BY <1>1, <1>3 DEF OthersAlone
<1>6. /\ NewOnes' \in [Ingesting' -> Int]
      /\ \A g \in Ingesting' : NewOnes'[g] = NewOnes[g]
      BY <1>3, <1>5 DEF NewOnes
<1>7. SumFunction(NewOnes) = NewOnes[h] + SumFunction(NewOnes')
      BY <1>1, <1>2, <1>4, <1>6, SumWithoutOne
<1>8. SumFunction(NewOnes') \in Int
      BY <1>1, <1>2, <1>6, SumInt DEF SumFunction
<1>9. ASSUME failures' = 0 PROVE Cardinality(DOMAIN stored') =
                                    counted' + SumFunction(NewOnes')
  <2>1. failures = 0 /\ counted' = counted + req[h].new
        BY <1>9
  <2>2. Cardinality(DOMAIN stored) = counted + SumFunction(NewOnes)
        BY <2>1 DEF BioSound, Counting
  <2>3. counted \in Nat /\ req[h].new \in Int
        BY <1>1, <1>3 DEF BioSound, BioTyped
  <2>. QED BY <1>4, <1>7, <1>8, <2>1, <2>2, <2>3
<1>. QED BY <1>1, <1>2, <1>9 DEF Counting

\* The push goes on to apply what is pending.
LEMMA CountPunchesKeeps ==
    ASSUME BioSound, NEW h \in Handlers, CountPunches(h) PROVE BioSound'
<1>. DEFINE new == [sent |-> req[h].sent]
<1>1. /\ pc[h] = "ingest" /\ Goto(h, "pending", new)
      /\ counted' = counted + req[h].new
      /\ UNCHANGED <<hour, made, stored, enrolled, row, applied, failures>>
      BY DEF CountPunches, AppliesNext, Counted, book
<1>. HIDE DEF new
<1>2. BioTyped /\ Shaped(h)
      BY DEF BioSound
<1>3. /\ pc' \in [Handlers -> Labels] /\ DOMAIN req' = Handlers
      /\ pc'[h] = "pending" /\ OthersAlone(h)
      BY <1>1, <1>2, Moved DEF Labels
<1>4. counted' \in Nat
      BY <1>1, <1>2 DEF BioTyped, Shaped
<1>5. BioTyped'
      BY <1>1, <1>2, <1>3, <1>4 DEF BioTyped
<1>6. Shaped(h)' /\ Applying(h)'
      BY <1>3 DEF Shaped, Applying
<1>7. \A g \in Handlers : g # h => Shaped(g)' /\ Applying(g)'
      BY <1>1, <1>3, OthersStay DEF BioSound
<1>8. Counting'
      BY <1>1, <1>3, IngestEnds
<1>9. ProcessedWasApplied' /\ RowsRead'
      BY <1>1, <1>2, RowsStay, MarksStay DEF BioSound
<1>. QED BY <1>5, <1>6, <1>7, <1>8, <1>9 DEF BioSound

\* A handler that stores, counts and applies nothing in this step.
LEMMA QuietStep ==
    ASSUME BioSound, NEW h \in Handlers, NEW label \in Labels, NEW locals,
           pc[h] # "ingest", label # "ingest", Goto(h, label, locals),
           UNCHANGED <<hour, made, stored, counted, enrolled, row, applied,
                       failures>>,
           Shaped(h)', Applying(h)'
    PROVE  BioSound'
<1>1. BioTyped
      BY DEF BioSound
<1>2. /\ pc' \in [Handlers -> Labels] /\ DOMAIN req' = Handlers
      /\ pc'[h] = label /\ OthersAlone(h)
      BY <1>1, Moved
<1>3. BioTyped'
      BY <1>1, <1>2 DEF BioTyped
<1>4. \A g \in Handlers : g # h => Shaped(g)' /\ Applying(g)'
      BY <1>2, OthersStay DEF BioSound
<1>5. Counting'
      BY <1>2, CountingStays DEF BioSound
<1>6. ProcessedWasApplied' /\ RowsRead'
      BY <1>1, RowsStay, MarksStay DEF BioSound
<1>. QED BY <1>3, <1>4, <1>5, <1>6 DEF BioSound

LEMMA BeginSyncKeeps ==
    ASSUME BioSound, NEW h \in Handlers, BeginSync(h) PROVE BioSound'
<1>. DEFINE new == [sent |-> {}]
<1>1. /\ pc[h] = "idle" /\ Goto(h, "pending", new)
      /\ UNCHANGED <<hour, made, stored, counted, enrolled, row, applied,
                     failures>>
      BY DEF BeginSync, Idle, log, book
<1>. HIDE DEF new
<1>2. pc'[h] = "pending"
      BY <1>1, Moved DEF BioSound, Labels
<1>3. Shaped(h)' /\ Applying(h)'
      BY <1>2 DEF Shaped, Applying
<1>. QED BY <1>1, <1>3, QuietStep DEF Labels

LEMMA ReadPendingKeeps ==
    ASSUME BioSound, NEW h \in Handlers, ReadPending(h) PROVE BioSound'
<1>. DEFINE batch == {k \in DOMAIN stored : stored[k] = "pending"}
            new == [sent |-> req[h].sent, batch |-> batch]
<1>1. /\ pc[h] = "pending"
      /\ UNCHANGED <<hour, made, stored, counted, enrolled, row, applied,
                     failures>>
      BY DEF ReadPending, book
<1>2. batch \subseteq Punch
      BY DEF BioSound, BioTyped
<1>3. CASE batch = {}
  <2>1. Goto(h, "idle", NoRequest)
        BY <1>3 DEF ReadPending, Answer, Finish
  <2>2. pc'[h] = "idle"
        BY <2>1, Moved DEF BioSound, Labels
  <2>3. Shaped(h)' /\ Applying(h)'
        BY <2>2 DEF Shaped, Applying
  <2>. QED BY <1>1, <2>1, <2>3, QuietStep DEF Labels
<1>4. CASE batch # {}
  <2>1. Goto(h, "people", new) /\ new.batch = batch
        BY <1>4 DEF ReadPending
  <2>. HIDE DEF new, batch
  <2>2. pc'[h] = "people" /\ req'[h] = new
        BY <2>1, Moved DEF BioSound, Labels
  <2>3. Shaped(h)' /\ Applying(h)'
        BY <1>2, <2>1, <2>2 DEF Shaped, Applying
  <2>. QED BY <1>1, <2>1, <2>3, QuietStep DEF Labels
<1>. QED BY <1>3, <1>4

\* Everyone of the batch is still to be done.
LEMMA ReadPeopleKeeps ==
    ASSUME BioSound, NEW h \in Handlers, ReadPeople(h) PROVE BioSound'
<1>. DEFINE matched == Matched(req[h].batch)
            todo == {k[1] : k \in {j \in matched : j[1] \in enrolled}}
            new == [sent |-> req[h].sent, matched |-> matched, todo |-> todo]
<1>1. /\ pc[h] = "people" /\ Goto(h, "apply", new)
      /\ UNCHANGED <<hour, made, stored, counted, enrolled, row, applied,
                     failures>>
      BY DEF ReadPeople, log, book
<1>2. new.matched = matched /\ new.todo = todo
      OBVIOUS
<1>3. req[h].batch \subseteq Punch
      BY <1>1 DEF BioSound, Shaped
<1>4. /\ matched \subseteq Punch /\ todo \subseteq {k[1] : k \in matched}
      /\ \A k \in matched : k[1] \in todo
      BY <1>3 DEF Matched
<1>. HIDE DEF new, matched, todo
<1>5. pc'[h] = "apply" /\ req'[h] = new
      BY <1>1, Moved DEF BioSound, Labels
<1>6. Shaped(h)' /\ Applying(h)'
      BY <1>2, <1>4, <1>5 DEF Shaped, Applying
<1>. QED BY <1>1, <1>6, QuietStep DEF Labels

LEMMA MarkProcessedKeeps ==
    ASSUME BioSound, NEW h \in Handlers, MarkProcessed(h) PROVE BioSound'
<1>1. /\ pc[h] = "apply" /\ req[h].todo = {}
      /\ Goto(h, "idle", NoRequest)
      /\ stored' = [k \in DOMAIN stored |->
           IF k \in req[h].matched THEN "processed" ELSE stored[k]]
      /\ UNCHANGED <<hour, made, counted, enrolled, row, applied, failures>>
      BY DEF MarkProcessed, Answer, Finish, book
<1>2. BioTyped /\ Applying(h)
      BY DEF BioSound
<1>3. /\ pc' \in [Handlers -> Labels] /\ DOMAIN req' = Handlers
      /\ pc'[h] = "idle" /\ OthersAlone(h)
      BY <1>1, <1>2, Moved DEF Labels
<1>4. DOMAIN stored' = DOMAIN stored
      BY <1>1
<1>5. BioTyped'
      BY <1>1, <1>2, <1>3, <1>4 DEF BioTyped
<1>6. Shaped(h)' /\ Applying(h)'
      BY <1>3 DEF Shaped, Applying
<1>7. \A g \in Handlers : g # h => Shaped(g)' /\ Applying(g)'
      BY <1>1, <1>3, OthersStay DEF BioSound
<1>8. Counting'
      BY <1>1, <1>3, <1>4, CountingStays DEF BioSound
<1>9. ProcessedWasApplied'
  <2>1. ASSUME NEW k \in DOMAIN stored, stored'[k] = "processed"
        PROVE  k[2] \in UNION applied'[k[1]]
    <3>1. CASE k \in req[h].matched
          BY <1>1, <1>2, <3>1 DEF Applying, AppliedTimes
    <3>2. CASE k \notin req[h].matched
          BY <1>1, <2>1, <3>2 DEF BioSound, ProcessedWasApplied, AppliedTimes
    <3>. QED BY <3>1, <3>2
  <2>. QED BY <1>4, <2>1 DEF ProcessedWasApplied, AppliedTimes
<1>10. RowsRead'
      BY <1>1, <1>2, RowsStay DEF BioSound
<1>. QED BY <1>5, <1>6, <1>7, <1>8, <1>9, <1>10 DEF BioSound

\* The row is written, and the times it was read from are on record.
LEMMA ApplyDayKeeps ==
    ASSUME BioSound, NEW h \in Handlers, ApplyDay(h) PROVE BioSound'
<1>1. PICK i \in req[h].todo :
        LET stamps == Stamps(req[h].matched, i) IN
        /\ row' = [j \in DOMAIN row \cup {i} |->
             IF j = i THEN DayOf(i, stamps) ELSE row[j]]
        /\ applied' = [applied EXCEPT ![i] = applied[i] \cup {stamps}]
        /\ Goto(h, "apply", [sent |-> req[h].sent, matched |-> req[h].matched,
                             todo |-> req[h].todo \ {i}])
      BY DEF ApplyDay
<1>. DEFINE stamps == Stamps(req[h].matched, i)
            new == [sent |-> req[h].sent, matched |-> req[h].matched,
                    todo |-> req[h].todo \ {i}]
<1>2. /\ pc[h] = "apply" /\ Goto(h, "apply", new)
      /\ row' = [j \in DOMAIN row \cup {i} |->
           IF j = i THEN DayOf(i, stamps) ELSE row[j]]
      /\ applied' = [applied EXCEPT ![i] = applied[i] \cup {stamps}]
      /\ UNCHANGED <<hour, made, stored, counted, enrolled, failures>>
      BY <1>1 DEF ApplyDay, log
<1>3. new.matched = req[h].matched /\ new.todo = req[h].todo \ {i}
      OBVIOUS
<1>4. BioTyped /\ Shaped(h) /\ Applying(h)
      BY DEF BioSound
<1>5. /\ req[h].matched \subseteq Punch
      /\ req[h].todo \subseteq {k[1] : k \in req[h].matched}
      BY <1>2, <1>4 DEF Shaped
<1>6. i \in Ids
      BY <1>5 DEF Punch
<1>7. /\ stamps # {} /\ stamps \subseteq Hours
      /\ \A k \in req[h].matched : k[1] = i => k[2] \in stamps
      BY <1>5 DEF Punch, Stamps
<1>. HIDE DEF new, stamps
<1>8. /\ pc' \in [Handlers -> Labels] /\ DOMAIN req' = Handlers
      /\ pc'[h] = "apply" /\ req'[h] = new /\ OthersAlone(h)
      BY <1>2, <1>4, Moved DEF Labels
<1>9. /\ DOMAIN row' = DOMAIN row \cup {i} /\ row'[i] = DayOf(i, stamps)
      /\ \A j \in DOMAIN row : j # i => row'[j] = row[j]
      BY <1>2
<1>10. /\ DOMAIN applied' = Ids /\ applied'[i] = applied[i] \cup {stamps}
       /\ \A j \in Ids : j # i => applied'[j] = applied[j]
      BY <1>2, <1>4, <1>6 DEF BioTyped
<1>11. \A j \in Ids : applied[j] \subseteq applied'[j]
      BY <1>10
<1>12. \A j \in Ids : \A s \in applied'[j] : s # {} /\ s \subseteq Hours
      BY <1>4, <1>7, <1>10 DEF BioTyped
<1>13. BioTyped'
      BY <1>2, <1>4, <1>6, <1>8, <1>9, <1>10, <1>12 DEF BioTyped
<1>14. Shaped(h)'
      BY <1>3, <1>5, <1>8 DEF Shaped
<1>15. Applying(h)'
  <2>1. ASSUME NEW k \in req[h].matched, k[1] \notin req[h].todo \ {i}
        PROVE  k[2] \in UNION applied'[k[1]]
    <3>1. k[1] \in Ids
          BY <1>5 DEF Punch
    <3>2. CASE k[1] = i
          BY <1>7, <1>10, <3>2
    <3>3. CASE k[1] # i
          BY <1>2, <1>4, <1>11, <2>1, <3>1, <3>3 DEF Applying, AppliedTimes
    <3>. QED BY <3>2, <3>3
  <2>. QED BY <1>3, <1>8, <2>1 DEF Applying, AppliedTimes
<1>16. \A g \in Handlers : g # h => Shaped(g)' /\ Applying(g)'
      BY <1>8, <1>11, OthersStay DEF BioSound
<1>17. Counting'
      BY <1>2, <1>8, CountingStays DEF BioSound
<1>18. ProcessedWasApplied'
  <2>1. ASSUME NEW k \in DOMAIN stored, stored[k] = "processed"
        PROVE  k[2] \in UNION applied'[k[1]]
    <3>1. k[1] \in Ids
          BY <1>4 DEF BioTyped, Punch
    <3>2. k[2] \in UNION applied[k[1]]
          BY <2>1 DEF BioSound, ProcessedWasApplied, AppliedTimes
    <3>. QED BY <1>11, <3>1, <3>2
  <2>. QED BY <1>2, <2>1 DEF ProcessedWasApplied, AppliedTimes
<1>19. RowsRead'
  <2>1. ASSUME NEW j \in DOMAIN row' PROVE \E s \in applied'[j] : row'[j] = DayOf(j, s)
    <3>1. CASE j = i
          BY <1>9, <1>10, <3>1
    <3>2. CASE j # i
          BY <1>4, <1>9, <1>10, <3>2 DEF BioSound, RowsRead, BioTyped
    <3>. QED BY <3>1, <3>2
  <2>2. ASSUME NEW j, NEW s PROVE DayOf(j, s)' = DayOf(j, s)
        BY DEF DayOf
  <2>. QED BY <2>1 DEF RowsRead
<1>. QED BY <1>13, <1>14, <1>15, <1>16, <1>17, <1>18, <1>19 DEF BioSound

\* Whatever was stored or applied stays so.
LEMMA AbortKeeps ==
    ASSUME BioSound, NEW h \in Handlers, Abort(h) PROVE BioSound'
<1>1. /\ pc[h] # "idle" /\ Goto(h, "idle", NoRequest)
      /\ failures' = failures + 1
      /\ UNCHANGED <<hour, made, stored, counted, enrolled, row, applied>>
      BY DEF Abort, Idle, Finish, log, book
<1>2. BioTyped
      BY DEF BioSound
<1>3. failures' \in Nat /\ failures' # 0
      BY <1>1, <1>2 DEF BioTyped
<1>4. /\ pc' \in [Handlers -> Labels] /\ DOMAIN req' = Handlers
      /\ pc'[h] = "idle" /\ OthersAlone(h)
      BY <1>1, <1>2, Moved DEF Labels
<1>5. BioTyped'
      BY <1>1, <1>2, <1>3, <1>4 DEF BioTyped
<1>6. Shaped(h)' /\ Applying(h)'
      BY <1>4 DEF Shaped, Applying
<1>7. \A g \in Handlers : g # h => Shaped(g)' /\ Applying(g)'
      BY <1>1, <1>4, OthersStay DEF BioSound
<1>8. Counting'
  <2>1. CASE pc[h] = "ingest"
        BY <1>1, <1>3, <1>4, <2>1, IngestEnds
  <2>2. CASE pc[h] # "ingest"
    <3>1. Ingesting' = Ingesting
          BY <1>4, <2>2 DEF Ingesting, OthersAlone
    <3>. QED BY <1>3, <3>1 DEF BioSound, Counting
  <2>. QED BY <2>1, <2>2
<1>9. ProcessedWasApplied' /\ RowsRead'
      BY <1>1, <1>2, RowsStay, MarksStay DEF BioSound
<1>. QED BY <1>5, <1>6, <1>7, <1>8, <1>9 DEF BioSound

-----------------------------------------------------------------------------
LEMMA BioStepSound == ASSUME BioSound, [Next]_vars PROVE BioSound'
<1>1. CASE HourPasses
      BY <1>1, HourPassesKeeps
<1>2. ASSUME NEW i \in Ids, Touch(i) \/ Enrol(i) PROVE BioSound'
      BY <1>2, TouchKeeps, EnrolKeeps
<1>3. ASSUME NEW h \in Handlers, NEW payload \in {made \ acked, made},
             Push(h, payload)
      PROVE  BioSound'
  <2>1. payload \in SUBSET made
        OBVIOUS
  <2>. QED BY <1>3, <2>1, PushKeeps
<1>4. ASSUME NEW h \in Handlers, BeginSync(h) \/ Abort(h) PROVE BioSound'
      BY <1>4, BeginSyncKeeps, AbortKeeps
<1>5. ASSUME NEW h \in Handlers, Resume(h) PROVE BioSound'
      BY <1>5, StorePunchKeeps, CountPunchesKeeps, ReadPendingKeeps,
         ReadPeopleKeeps, ApplyDayKeeps, MarkProcessedKeeps DEF Resume
<1>6. CASE UNCHANGED vars
  <2>1. /\ UNCHANGED <<pc, req, applied, stored, counted, failures, row>>
        /\ UNCHANGED <<hour, made, enrolled>>
        BY <1>6 DEF vars
  <2>2. BioTyped'
        BY <2>1 DEF BioSound, BioTyped
  <2>3. ProcessedWasApplied' /\ RowsRead' /\ Counting'
        BY <2>1, CountsStay, RowsStay, MarksStay DEF BioSound
  <2>. QED BY <2>1, <2>2, <2>3, HandlersStay DEF BioSound
<1>. QED BY <1>1, <1>2, <1>3, <1>4, <1>5, <1>6 DEF Next

LEMMA BioAlways == Spec => []BioSound
<1>1. Init => BioSound
      BY BioStart
<1>2. BioSound /\ [Next]_vars => BioSound'
      BY BioStepSound
<1>. QED BY <1>1, <1>2, PTL DEF Spec

\* Once no push is storing, nothing is left to be counted.
LEMMA NothingLeftToCount == ASSUME BioSound PROVE CountMatchesLog
<1>1. SUFFICES ASSUME failures = 0, \A h \in Pushes : pc[h] # "ingest"
               PROVE  counted = Cardinality(DOMAIN stored)
      BY DEF CountMatchesLog
<1>2. Ingesting = {}
      BY <1>1 DEF BioSound, Shaped, Ingesting
<1>3. DOMAIN NewOnes = {}
      BY <1>2 DEF NewOnes
<1>4. SumFunction(NewOnes) = 0
      BY <1>3, SumOfNone
<1>5. Cardinality(DOMAIN stored) = counted + SumFunction(NewOnes)
      BY <1>1 DEF BioSound, Counting
<1>6. counted \in Nat
      BY DEF BioSound, BioTyped
<1>. QED BY <1>4, <1>5, <1>6

\* A row read from one batch alone tells that batch's first and last punch.
LEMMA OneBatchReadRight == ASSUME BioSound PROVE OneBatchOneDay
<1>1. SUFFICES ASSUME NEW i \in DOMAIN row, NEW stamps \in applied[i],
                      applied[i] = {stamps}
               PROVE  /\ row[i].in \in stamps /\ \A t \in stamps : row[i].in <= t
                      /\ i \in StaffIds /\ Cardinality(stamps) > 1 =>
                           row[i].out \in stamps /\ \A t \in stamps : t <= row[i].out
                      /\ row[i].status = "present" <=>
                           row[i].in <= LateAfter /\ row[i].in <= HalfDayAfter
                      /\ row[i].status = "half_day" <=> row[i].in > HalfDayAfter
      BY DEF OneBatchOneDay
<1>2. row[i] = DayOf(i, stamps)
      BY <1>1 DEF BioSound, RowsRead
<1>3. stamps # {} /\ stamps \in SUBSET Hours
      BY DEF BioSound, BioTyped
<1>4. Min(stamps) \in stamps /\ \A t \in stamps : Min(stamps) <= t
      BY <1>3, FirstOfDay
<1>5. Max(stamps) \in stamps /\ \A t \in stamps : t <= Max(stamps)
      BY <1>3, LastOfDay
<1>6. /\ row[i].in = Min(stamps) /\ row[i].status = StatusAt(Min(stamps))
      /\ i \in StaffIds /\ Max(stamps) # Min(stamps) =>
           row[i].out = Max(stamps)
      BY <1>2 DEF DayOf
<1>7. ASSUME Max(stamps) = Min(stamps) PROVE ~(Cardinality(stamps) > 1)
  <2>1. \A t \in stamps : t \in Nat
        BY <1>3, BiometricsAssumption DEF Hours
  <2>2. \A t \in stamps : t = Min(stamps)
        BY <1>4, <1>5, <1>7, <2>1
  <2>3. stamps = {Min(stamps)}
        BY <1>4, <2>2
  <2>4. Cardinality(stamps) = 1
        BY <2>3, FS_Singleton
  <2>. QED BY <2>4
<1>8. Min(stamps) \in Nat /\ LateAfter \in Nat /\ HalfDayAfter \in Nat
  <2>1. \A t \in Hours : t \in Nat
        BY BiometricsAssumption DEF Hours
  <2>2. LateAfter \in Nat /\ HalfDayAfter \in Nat
        BY BiometricsAssumption
  <2>. QED BY <1>3, <1>4, <2>1, <2>2
<1>9. /\ row[i].status = "present" <=>
           row[i].in <= LateAfter /\ row[i].in <= HalfDayAfter
      /\ row[i].status = "half_day" <=> row[i].in > HalfDayAfter
      BY <1>6, <1>8 DEF StatusAt
<1>10. row[i].in \in stamps /\ \A t \in stamps : row[i].in <= t
      BY <1>4, <1>6
<1>11. ASSUME i \in StaffIds /\ Cardinality(stamps) > 1
       PROVE  row[i].out \in stamps /\ \A t \in stamps : t <= row[i].out
      BY <1>5, <1>6, <1>7, <1>11
<1>. QED BY <1>9, <1>10, <1>11

-----------------------------------------------------------------------------
\* What is marked processed, and so never looked at again, was applied,
\* whatever fails, overlaps or is enrolled meanwhile (apply_punches marks what
\* it matched, once the rows are written).
THEOREM MarkedWasApplied == Spec => []ProcessedWasApplied
<1>1. BioSound => ProcessedWasApplied
      BY DEF BioSound
<1>. QED BY <1>1, BioAlways, PTL

\* However pushes overlap, re-send and interleave with syncs, the device's count
\* is the length of its log, and a day applied in one batch is read right, the
\* two settings in whatever order (ingest_punches, apply_punches).
THEOREM LogAndDayAlwaysAgree == Spec => []LogAndDayAgree
<1>1. BioSound => LogAndDayAgree
      BY NothingLeftToCount, OneBatchReadRight DEF LogAndDayAgree
<1>. QED BY <1>1, BioAlways, PTL
=============================================================================
