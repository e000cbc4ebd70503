------------------------------ MODULE Tracking ------------------------------
(***************************************************************************)
(* School vehicles on their trips: the positions a driver's telephone      *)
(* sends, the distance, and the stops whose families are told.             *)
(* Source: app/modules/tracking.                                           *)
(*                                                                         *)
(* A road is a line of whole numbers.  `told` and `driven` are history     *)
(* variables: how often a stop's families were told on a trip, and the     *)
(* distance its positions add up to.                                       *)
(***************************************************************************)
EXTENDS Requests

CONSTANTS Vehicles, Trips,     \* the trip documents
          Stops,               \* places of the route: a set of numbers
          Fixes,               \* bound: <<place, time>> a telephone sends
          TopSpeed,            \* faster than this is not a bus
          GlitchWindow         \* sooner than this, the fix has jumped

ASSUME TrackingAssumption ==
    /\ Stops \subseteq Nat /\ Fixes \subseteq Nat \X Nat
    /\ TopSpeed \in Nat /\ GlitchWindow \in Nat

VARIABLES trip,       \* vehicle_trips: a partial function
          positions,  \* vehicle_positions, of each trip
          told, driven

tracking == <<trip, positions, told, driven>>

-----------------------------------------------------------------------------
Vehicle(v) == <<"vehicle", v>>
Run(t)     == <<"trip", t>>
Ongoing(v) == {t \in DOMAIN trip : trip[t].vehicle = v /\ trip[t].active}

Distance(p, q) == IF p > q THEN p - q ELSE q - p

\* The leg from the latest position there is: nothing when the telephone
\* jumped, the whole of it when it was only offline.
Leg(previous, fix) ==
    LET way == Distance(previous[1], fix[1])  gap == fix[2] - previous[2] IN
    IF gap > 0 /\ way > TopSpeed * gap /\ gap < GlitchWindow THEN 0 ELSE way

\* find_one sorted on recorded_at, of several at one time any.
Latest(fixes) == {p \in fixes : \A q \in fixes : q[2] <= p[2]}

-----------------------------------------------------------------------------
(* start_trip.                                                             *)

BeginTrip(h, v, t) ==
    /\ t \notin DOMAIN trip /\ New(h, Run(t))
    /\ Ongoing(v) = {}                          \* else it is rejoined
    /\ Begin(h, "trip", "start trip",
             [claims |-> {Vehicle(v), Run(t)}, vehicle |-> v, trip |-> t])
    /\ UNCHANGED tracking

StartTrip(h) ==
    /\ pc[h] = "start trip"
    /\ trip' = With(trip, req[h].trip,
         [vehicle |-> req[h].vehicle, active |-> TRUE, distance |-> 0,
          points |-> 0, reached |-> {}])
    /\ Finish(h)
    /\ UNCHANGED <<positions, told, driven>>

-----------------------------------------------------------------------------
(* record_position.                                                        *)

\* The trip by its id, ended or not, or the vehicle's active one.
BeginPosition(h, t, fix) ==
    /\ t \in DOMAIN trip
    /\ Begin(h, "position", "previous",
             [claims |-> {Run(t)}, trip |-> t, fix |-> fix, leg |-> 0,
              reached |-> trip[t].reached, stop |-> {}])
    /\ UNCHANGED tracking

ReadPrevious(h) ==
    /\ pc[h] = "previous"
    /\ LET t == req[h].trip IN
       IF positions[t] = {} THEN Goto(h, "insert")
       ELSE \E p \in Latest(positions[t]) :
              Carry(h, "insert", [req[h] EXCEPT !.leg = Leg(p, req[h].fix)])
    /\ UNCHANGED tracking

InsertPosition(h) ==
    /\ pc[h] = "insert"
    /\ LET t == req[h].trip IN
       /\ positions' = [positions EXCEPT ![t] = positions[t] \cup {req[h].fix}]
       /\ driven' = [driven EXCEPT ![t] = driven[t] + req[h].leg]
    /\ Goto(h, "stops")
    /\ UNCHANGED <<trip, told>>

\* The first stop in reach that the trip had not reached when it was read.
ArrivedAt(place, reached)   == {s \in Stops : s = place}
FreshlyAt(place, reached)   == {s \in Stops : s = place} \ reached

CheckStops(h) ==
    /\ pc[h] = "stops"
    /\ LET t == req[h].trip
           at == FreshlyAt(req[h].fix[1], req[h].reached)
       IN /\ told' = [told EXCEPT ![t] = [s \in Stops |->
                        told[t][s] + (IF s \in at THEN 1 ELSE 0)]]
          /\ Carry(h, "add up", [req[h] EXCEPT !.stop = at])
    /\ UNCHANGED <<trip, positions, driven>>

AddUp(h) ==
    /\ pc[h] = "add up"
    /\ LET t == req[h].trip IN
       trip' = [trip EXCEPT ![t].distance = trip[t].distance + req[h].leg,
                            ![t].points = trip[t].points + 1,
                            ![t].reached = trip[t].reached \cup req[h].stop]
    /\ Finish(h)
    /\ UNCHANGED <<positions, told, driven>>

-----------------------------------------------------------------------------
(* end_trip, which writes the distance back.                               *)

BeginEnd(h, t) ==
    /\ t \in DOMAIN trip /\ trip[t].active
    /\ Begin(h, "end", "end trip",
             [claims |-> {Run(t)}, trip |-> t, distance |-> trip[t].distance])
    /\ UNCHANGED tracking

EndTrip(h) ==
    /\ pc[h] = "end trip"
    /\ trip' = [trip EXCEPT ![req[h].trip].active = FALSE,
                            ![req[h].trip].distance = req[h].distance]
    /\ Finish(h)
    /\ UNCHANGED <<positions, told, driven>>

-----------------------------------------------------------------------------
TrackingInit ==
    /\ trip = [t \in {} |-> {}] /\ positions = [t \in Trips |-> {}]
    /\ told = [t \in Trips |-> [s \in Stops |-> 0]]
    /\ driven = [t \in Trips |-> 0]

TrackingArrive(h) ==
    Open(h) /\
      \E t \in Trips :
        \/ \E v \in Vehicles : BeginTrip(h, v, t)
        \/ \E fix \in Fixes : BeginPosition(h, t, fix)
        \/ BeginEnd(h, t)

TrackingResume(h) ==
    \/ StartTrip(h)
    \/ ReadPrevious(h) \/ InsertPosition(h) \/ CheckStops(h) \/ AddUp(h)
    \/ EndTrip(h)

TrackingStep(h) == TrackingArrive(h) \/ TrackingResume(h)

-----------------------------------------------------------------------------
(* What the module promises.                                               *)

\* A trip says what happened on it: the stops it reached are those whose
\* families were told, each once, and its distance is what its positions add
\* up to, ended or not.  A vehicle is on one trip at a time.  All unless two
\* requests about the trip or the vehicle met, or one failed.
TripsAreTrue ==
    /\ \A t \in DOMAIN trip : Calm(Run(t)) =>
         /\ \A s \in Stops : told[t][s] = (IF s \in trip[t].reached THEN 1 ELSE 0)
         /\ trip[t].distance = driven[t]
    /\ \A v \in Vehicles : Calm(Vehicle(v)) => Cardinality(Ongoing(v)) <= 1
=============================================================================
