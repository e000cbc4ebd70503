------------------------------- MODULE Campus -------------------------------
(***************************************************************************)
(* The components that share the requests of one institution, composed,    *)
(* and the platform the institution runs on: at most one request per desk, *)
(* of any component, and each call of one leaves the documents of the      *)
(* others alone.                                                           *)
(***************************************************************************)
EXTENDS Registers, Learning, Exams, Tracking, Messages, Records, Provisioning

school == <<people, registers, learning, exams>>
yard   == <<tracking, conversations, records>>

vars == <<requests, school, yard, platform>>

Init == /\ RequestsInit /\ PeopleInit /\ RegistersInit /\ LearningInit /\ ExamsInit
        /\ TrackingInit /\ MessagesInit /\ RecordsInit /\ PlatformInit

School(h) ==
    \/ PeopleStep(h)    /\ UNCHANGED <<registers, learning, exams>>
    \/ RegistersStep(h) /\ UNCHANGED <<people, learning, exams>>
    \/ LearningStep(h)  /\ UNCHANGED <<people, registers, exams>>
    \/ ExamsStep(h)     /\ UNCHANGED <<people, registers, learning>>

Yard(h) ==
    \/ TrackingStep(h) /\ UNCHANGED <<conversations, records>>
    \/ MessagesStep(h) /\ UNCHANGED <<tracking, records>>
    \/ RecordsStep(h)  /\ UNCHANGED <<tracking, conversations>>

Next ==
    \/ \E h \in Desks :
         \/ School(h)       /\ UNCHANGED <<yard, platform>>
         \/ Yard(h)         /\ UNCHANGED <<school, platform>>
         \/ PlatformStep(h) /\ UNCHANGED <<school, yard>>
         \/ Abort(h)        /\ UNCHANGED <<school, yard, platform>>
    \/ Tick /\ UNCHANGED <<school, yard, commerce, founding>>

Spec == Init /\ [][Next]_vars
=============================================================================
