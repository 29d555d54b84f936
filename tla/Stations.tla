------------------------------- MODULE Stations -------------------------------
(****************************************************************************)
(* StationsService without its staff: registering stations under counted    *)
(* codes, the signals that decide whether customers see them, and strikes   *)
(* for false listings.  A station is named by its code.                     *)
(****************************************************************************)
EXTENDS Requests, Naturals, FiniteSets

CONSTANTS
    NumStations,    \* bound: stations that are registered
    MaxStrikes      \* bound: false listings reported

ASSUME StationsAssumption == NumStations \in Nat /\ MaxStrikes \in Nat

VARIABLES
    station,        \* gas_stations, by code
    reported        \* reports of false availability that were booked

stationVars == <<station, reported>>

Stations == 1 .. NumStations

StockStatus == {"AVAILABLE", "SHORTAGE", "OUT_OF_STOCK"}
StationReview == {"PENDING", "VERIFIED", "REJECTED"}

NoStation == [status |-> "absent"]
GasStation == [status : StationReview, isActive : BOOLEAN, stockStatus : StockStatus,
               falseAvailabilityStrikes : 0 .. MaxStrikes]

StationCalls ==
         [op : {"saveStation"}, code : Nat]
    \cup [op : {"strike"}, station : Stations, read : 0 .. MaxStrikes]

StationsTypeOK ==
    /\ station \in [Stations -> {NoStation} \cup GasStation]
    /\ reported \in [Stations -> 0 .. MaxStrikes]

StationsInit ==
    /\ station = [s \in Stations |-> NoStation]
    /\ reported = [s \in Stations |-> 0]

Known == {s \in Stations : station[s] # NoStation}

--------------------------------------------------------------------------------
(* Registration and signals.                                                *)

\* Bug: stations that are closed are not counted.
CountedWhenOpen == Cardinality({s \in Known : station[s].isActive}) + 1

\* generateCode.
GeneratedCode == Cardinality(Known) + 1

CreateStation(w) ==
    /\ MayStart(w)
    /\ GeneratedCode \in Stations
    /\ Continue(w, [op |-> "saveStation", code |-> GeneratedCode])
    /\ UNCHANGED stationVars

\* code is unique: the second of two registrations that counted alike fails.
CreateStationSave(w) ==
    LET s == call[w].code
    IN  /\ call[w].op = "saveStation"
        /\ station' = IF s \in Known THEN station
                      ELSE [station EXCEPT ![s] =
                              [status |-> "PENDING", isActive |-> TRUE,
                               stockStatus |-> "AVAILABLE", falseAvailabilityStrikes |-> 0]]
        /\ Finish(w)
        /\ UNCHANGED reported

\* updateStockStatus, updateOpenStatus and reviewVerification set one column each.
SetSignal(s) ==
    /\ \/ \E x \in StockStatus : station' = [station EXCEPT ![s].stockStatus = x]
       \/ \E x \in BOOLEAN : station' = [station EXCEPT ![s].isActive = x]
       \/ \E x \in StationReview \ {"PENDING"} : station' = [station EXCEPT ![s].status = x]
    /\ serial => AtRest
    /\ NoRequest
    /\ UNCHANGED reported

ReportFalseAvailability(w, s) ==
    /\ MayStart(w)
    /\ station[s].falseAvailabilityStrikes < MaxStrikes
    /\ Continue(w, [op |-> "strike", station |-> s,
                    read |-> station[s].falseAvailabilityStrikes])
    /\ UNCHANGED stationVars

\* Bug: the counter is not raised.
StrikeForgotten(w) ==
    LET s == call[w].station
    IN  /\ call[w].op = "strike"
        /\ reported[s] < MaxStrikes
        /\ station' = [station EXCEPT ![s].stockStatus = "OUT_OF_STOCK",
                                      ![s].falseAvailabilityStrikes = call[w].read]
        /\ reported' = [reported EXCEPT ![s] = @ + 1]
        /\ Finish(w)

\* The counter goes on from the station that was read.
Strike(w) ==
    LET s == call[w].station
    IN  /\ call[w].op = "strike"
        /\ reported[s] < MaxStrikes
        /\ station' = [station EXCEPT ![s].stockStatus = "OUT_OF_STOCK",
                                      ![s].falseAvailabilityStrikes = call[w].read + 1]
        /\ reported' = [reported EXCEPT ![s] = @ + 1]
        /\ Finish(w)

--------------------------------------------------------------------------------
StationsNext ==
    \/ \E s \in Known : SetSignal(s)
    \/ \E w \in Slots :
          \/ CreateStation(w) \/ CreateStationSave(w)
          \/ \E s \in Known : ReportFalseAvailability(w, s)
          \/ Strike(w)
          \/ Crash(w) /\ UNCHANGED stationVars

--------------------------------------------------------------------------------
(* Properties.                                                              *)

\* A registration that nobody races finds its code free: it never fails.
SerialCodeIsFree ==
    serial => \A w \in Slots : call[w].op = "saveStation" => call[w].code \notin Known

\* The strikes an admin reviews are the reports that were booked; two riders
\* reporting at once leave one.
SerialStrikesCounted ==
    serial => \A s \in Known : station[s].falseAvailabilityStrikes = reported[s]

================================================================================
