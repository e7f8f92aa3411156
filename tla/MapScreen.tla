----------------------------- MODULE MapScreen -----------------------------
(***************************************************************************)
(* The map screen: refreshes that are started by a timer and by every      *)
(* rebuild and that nobody waits for, the markers and the index made from  *)
(* the answer that came last, and taps on markers that may be older. An    *)
(* answer is the list of the cars with their places, in the order of the   *)
(* tables; moving the map, following a car and searching the sidebar are   *)
(* left out.                                                               *)
(***************************************************************************)
EXTENDS Integers, Sequences, SequencesExt, FiniteSets

CONSTANTS
  MapCars,     \* cars that may come to have a table
  Places,      \* positions
  MaxRefresh   \* bound on the refreshes under way

ASSUME MapAssumption == MaxRefresh \in Nat \ {0}

VARIABLES
  fleet,          \* the newest row of each table, in the order of the tables
  visited,        \* history: which cars have been where
  confusing,      \* history: a table sorted before others, or two cars at one place
  answers,        \* answers on their way to the screen
  markers,        \* _markers
  index,          \* latlongToMarkerId, as the answer it was made from
  screen,         \* the markers on the screen
  selectedCarId,  \* "" if none
  selectedIdx,    \* selectedMarkerIdx
  rawData         \* rawVehicleDataMapList; <<>> if no car

mapVars == <<fleet, visited, confusing, answers, markers, index, screen, selectedCarId,
             selectedIdx, rawData>>
serverVars == <<fleet, visited, confusing>>
screenVars == <<answers, markers, index, screen, selectedCarId, selectedIdx, rawData>>

Known == {fleet[i].car : i \in DOMAIN fleet}
Shared(car, place) == \E c \in MapCars \ {car} : <<c, place>> \in visited

\* A new table, anywhere in the order, or a new row of a known car.
Reported(car, place) ==
  /\ \/ /\ car \notin Known
        /\ \E i \in 1..(Len(fleet) + 1) :
             /\ fleet' = InsertAt(fleet, i, [car |-> car, place |-> place])
             /\ confusing' = (confusing \/ i <= Len(fleet) \/ Shared(car, place))
     \/ \E i \in DOMAIN fleet :
             /\ fleet[i].car = car /\ fleet' = [fleet EXCEPT ![i].place = place]
             /\ confusing' = (confusing \/ Shared(car, place))
  /\ visited' = visited \cup {<<car, place>>}
  /\ UNCHANGED screenVars

\* A refresh reads the tables now and its answer arrives at some later time.
Refresh == /\ Cardinality(answers) < MaxRefresh
           /\ answers' = answers \cup {fleet}
           /\ UNCHANGED <<serverVars, markers, index, screen, selectedCarId, selectedIdx, rawData>>

\* generateMarkersFromVehicleData after its await. An answer too short for the
\* selected index leaves no markers.
Answered(answer) ==
  /\ answers' = answers \ {answer}
  /\ index' = answer
  /\ IF selectedCarId # "" /\ selectedIdx > Len(answer) /\ answer # <<>>
     THEN markers' = <<>> /\ UNCHANGED rawData
     ELSE /\ markers' = answer
          /\ rawData' = IF answer = <<>> THEN rawData
                        ELSE IF selectedCarId = "" THEN <<>> ELSE answer[selectedIdx]
  /\ UNCHANGED <<serverVars, screen, selectedCarId, selectedIdx>>

Rebuild == /\ screen' = markers
           /\ UNCHANGED <<serverVars, answers, markers, index, selectedCarId, selectedIdx, rawData>>

\* A tap on a marker of the screen: its place is looked up in the newest index,
\* and the car of that index in the answer the marker was built from.
At(place) == {i \in DOMAIN index : index[i].place = place}

\* Mutant: a tap selects the car and leaves the index of the one before.
TapKeepsIndex(marker) ==
  /\ selectedIdx \in DOMAIN screen
  /\ selectedCarId' = marker.car /\ rawData' = screen[selectedIdx]
  /\ UNCHANGED <<serverVars, answers, markers, index, screen, selectedIdx>>

Tap(marker) ==
  /\ \/ /\ selectedCarId = marker.car
        /\ selectedCarId' = "" /\ rawData' = <<>> /\ UNCHANGED selectedIdx
     \/ /\ selectedCarId # marker.car
        /\ \E i \in At(marker.place) :
             /\ \A j \in At(marker.place) : j <= i
             /\ selectedIdx' = i
             /\ IF i \in DOMAIN screen
                THEN selectedCarId' = marker.car /\ rawData' = screen[i]
                ELSE UNCHANGED <<selectedCarId, rawData>>
  /\ UNCHANGED <<serverVars, answers, markers, index, screen>>

MapNext == \/ \E car \in MapCars, place \in Places : Reported(car, place)
           \/ Refresh \/ Rebuild
           \/ \E answer \in answers : Answered(answer)
           \/ \E i \in DOMAIN screen : Tap(screen[i])

MapInit == /\ fleet = <<>> /\ visited = {} /\ confusing = FALSE /\ answers = {}
           /\ markers = <<>> /\ index = <<>> /\ screen = <<>>
           /\ selectedCarId = "" /\ selectedIdx = 1 /\ rawData = <<>>
MapSpec == MapInit /\ [][MapNext]_mapVars
-----------------------------------------------------------------------------
Row == [car : MapCars, place : Places]
MapTypeOK ==
  /\ {fleet, markers, index, screen} \cup answers \subseteq Seq(Row)
  /\ visited \subseteq MapCars \X Places
  /\ selectedCarId \in MapCars \cup {""} /\ selectedIdx \in 1..Cardinality(MapCars)
  /\ rawData \in Row \cup {<<>>}

\* The sidebar shows the selected car, although it is kept as an index and taken
\* from answers that overtake each other, as long as tables only come behind the
\* others and no place is shared.
SidebarIsSelected ==
  (selectedCarId # "" /\ ~confusing) => rawData # <<>> /\ rawData.car = selectedCarId
=============================================================================
