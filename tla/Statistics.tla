----------------------------- MODULE Statistics -----------------------------
(***************************************************************************)
(* The statistics screen: cars and a parameter are selected, a search      *)
(* downloads the history of one car after the other, and every download    *)
(* works on the same fields of the screen. A line of the chart is reduced  *)
(* to its car and parameter; points, axes and colours are left out.        *)
(***************************************************************************)
EXTENDS Integers, Sequences, SequencesExt, FiniteSets

CONSTANTS
  ChartCars,         \* cars offered for selection
  Parameters,        \* vehicle parameters
  OfferedParameters, \* those offered before the first download
  CarParameters,     \* for each car, those its first row has a value for
  MaxSearches        \* bound on the downloads under way at once

ASSUME StatisticsAssumption ==
  /\ CarParameters \in [ChartCars -> SUBSET Parameters]
  /\ OfferedParameters \subseteq Parameters
  /\ MaxSearches \in Nat \ {0}

VARIABLES
  vehicleIdsSelected,      \* cars selected
  dropDownValue,           \* vehicleParameterDropDownValue; "" at first
  validVehicleParameters,  \* parameters offered
  displayedData,           \* lines of the chart
  searches,                \* downloads under way
  chartFor,                \* history: the download that ended last
  disturbed                \* history: downloads overlapped, one failed, or another
                           \* parameter was selected meanwhile

statVars == <<vehicleIdsSelected, dropDownValue, validVehicleParameters, displayedData,
              searches, chartFor, disturbed>>

\* What a download is for, and whether the selection changed since: history, except
\* that the iterator remembers the number of cars.
Selection == [cars |-> vehicleIdsSelected, parameter |-> dropDownValue, toggled |-> FALSE]

\* A download waits for the answer about one car, at one place of the list.
Fetch(selection, at) == [of |-> selection, at |-> at, car |-> vehicleIdsSelected[at]]

\* The widget adds the car to the very list a download iterates, or removes it.
Toggle(car) ==
  /\ \/ \E at \in DOMAIN vehicleIdsSelected :
          vehicleIdsSelected[at] = car /\ vehicleIdsSelected' = RemoveAt(vehicleIdsSelected, at)
     \/ /\ ~Contains(vehicleIdsSelected, car)
        /\ vehicleIdsSelected' = Append(vehicleIdsSelected, car)
  /\ searches' = [i \in DOMAIN searches |-> [searches[i] EXCEPT !.of.toggled = TRUE]]
  /\ UNCHANGED <<dropDownValue, validVehicleParameters, displayedData, chartFor, disturbed>>

SelectParameter(p) ==
  /\ p \in validVehicleParameters /\ dropDownValue' = p
  /\ disturbed' = (disturbed \/ searches # <<>>)
  /\ UNCHANGED <<vehicleIdsSelected, validVehicleParameters, displayedData, searches, chartFor>>

\* Mutant: the lines of the last search stay.
SearchAdds ==
  /\ Len(searches) < MaxSearches /\ vehicleIdsSelected # <<>>
  /\ searches' = Append(searches, Fetch(Selection, 1))
  /\ disturbed' = (searches # <<>>)
  /\ UNCHANGED <<vehicleIdsSelected, dropDownValue, validVehicleParameters, displayedData, chartFor>>

\* The search button starts a download, whether or not one is under way; without a
\* car it ends at once.
Search ==
  /\ Len(searches) < MaxSearches
  /\ displayedData' = <<>>
  /\ disturbed' = (searches # <<>>)
  /\ IF vehicleIdsSelected = <<>>
     THEN chartFor' = Selection /\ UNCHANGED searches
     ELSE searches' = Append(searches, Fetch(Selection, 1)) /\ UNCHANGED chartFor
  /\ UNCHANGED <<vehicleIdsSelected, dropDownValue, validVehicleParameters>>

\* fetchHistoricalVehicleData: the first row decides what is offered, and a value
\* that is not offered is replaced by the first that is.
Offer(car) ==
  /\ validVehicleParameters' = CarParameters[car]
  /\ IF dropDownValue \in CarParameters[car] THEN UNCHANGED dropDownValue
     ELSE dropDownValue' \in CarParameters[car]

NoRows == validVehicleParameters' = {} /\ UNCHANGED dropDownValue

\* The answer about a car: its line goes to the chart there is.
Draw(car) ==
  /\ (CarParameters[car] # {} /\ Offer(car)) \/ NoRows
  /\ displayedData' = Append(displayedData, [car |-> car, parameter |-> dropDownValue'])

\* The iterator then looks at the list as it is now. It throws when the number of
\* cars is another one than at the start.
NextCar(i) ==
  /\ Len(vehicleIdsSelected) = Len(searches[i].of.cars) /\ searches[i].at < Len(vehicleIdsSelected)
  /\ searches' = [searches EXCEPT ![i] = Fetch(searches[i].of, searches[i].at + 1)]
  /\ UNCHANGED <<chartFor, disturbed>>

LastCar(i) ==
  /\ Len(vehicleIdsSelected) = Len(searches[i].of.cars) /\ searches[i].at = Len(vehicleIdsSelected)
  /\ searches' = RemoveAt(searches, i) /\ chartFor' = searches[i].of /\ UNCHANGED disturbed

Aborts(i) == searches' = RemoveAt(searches, i) /\ disturbed' = TRUE /\ UNCHANGED chartFor
ListChanged(i) == Len(vehicleIdsSelected) # Len(searches[i].of.cars) /\ Aborts(i)

Downloaded(i) == /\ Draw(searches[i].car)
                 /\ NextCar(i) \/ LastCar(i) \/ ListChanged(i)
                 /\ UNCHANGED vehicleIdsSelected

\* An answer that fails is an exception.
Failed(i) ==
  /\ Aborts(i)
  /\ UNCHANGED <<vehicleIdsSelected, dropDownValue, validVehicleParameters, displayedData>>

StatNext == \/ \E car \in ChartCars : Toggle(car)
            \/ \E p \in Parameters : SelectParameter(p)
            \/ Search
            \/ \E i \in DOMAIN searches : Downloaded(i) \/ Failed(i)

StatInit ==
  /\ vehicleIdsSelected = <<>> /\ dropDownValue = "" /\ validVehicleParameters = OfferedParameters
  /\ displayedData = <<>> /\ searches = <<>> /\ chartFor = Selection /\ disturbed = FALSE
StatSpec == StatInit /\ [][StatNext]_statVars
-----------------------------------------------------------------------------
StatTypeOK ==
  /\ vehicleIdsSelected \in Seq(ChartCars)
  /\ dropDownValue \in Parameters \cup {""}
  /\ validVehicleParameters \subseteq Parameters
  /\ displayedData \in Seq([car : ChartCars, parameter : Parameters \cup {""}])
  /\ {chartFor} \cup {searches[i].of : i \in DOMAIN searches}
       \subseteq [cars : Seq(ChartCars), parameter : Parameters \cup {""}, toggled : BOOLEAN]
  /\ \A i \in DOMAIN searches : searches[i].at \in Nat \ {0} /\ searches[i].car \in ChartCars

\* A download that nothing disturbed leaves as many lines as cars were selected at
\* its start, even if others were selected meanwhile; one line per car, in the order
\* of the selection, if none were; and every line shows the parameter that was
\* selected, if all the cars have it.
ChartComplete ==
  (searches = <<>> /\ ~disturbed) =>
    /\ Len(displayedData) = Len(chartFor.cars)
    /\ ~chartFor.toggled =>
         [i \in DOMAIN displayedData |-> displayedData[i].car] = chartFor.cars
    /\ (\A i \in DOMAIN displayedData :
           chartFor.parameter \in CarParameters[displayedData[i].car]) =>
         \A i \in DOMAIN displayedData : displayedData[i].parameter = chartFor.parameter

\* Compared cars only offer the parameters all of them have.
OfferedForAll ==
  (searches = <<>> /\ ~disturbed) =>
    \A i \in DOMAIN chartFor.cars : validVehicleParameters \subseteq CarParameters[chartFor.cars[i]]
=============================================================================
