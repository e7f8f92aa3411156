---------------------------- MODULE ScreenProofs ----------------------------
(***************************************************************************)
(* The proofs about the two screens of the web application.                *)
(* MapScreen: while nothing is confusing, a position in any answer means   *)
(* the same car, so that the sidebar shows the car that was selected.      *)
(* Statistics: an undisturbed comparison draws as many lines as cars.      *)
(***************************************************************************)
EXTENDS MapScreen, Statistics, SequenceTheorems, TLAPS

(* The map screen. *)

\* A version of the fleet: what was read of it at some time.
Version(s, now, seen) ==
  /\ s \in Seq(Row) /\ Len(s) <= Len(now)
  /\ \A i \in 1..Len(s) : s[i].car = now[i].car /\ <<s[i].car, s[i].place>> \in seen

\* No car has two tables.
Apart(s) == \A i, j \in 1..Len(s) : s[i].car = s[j].car => i = j

\* While nothing is confusing every answer, whenever it comes, is a version of the
\* fleet; a place names its car; and the selected index is that of the selected car
\* in the fleet, and so in every version long enough.
MapInv ==
  /\ visited \subseteq MapCars \X Places
  /\ ~confusing =>
       /\ Version(fleet, fleet, visited) /\ Version(markers, fleet, visited)
       /\ Version(index, fleet, visited) /\ Version(screen, fleet, visited)
       /\ \A answer \in answers : Version(answer, fleet, visited)
       /\ \A c, d \in MapCars, p \in Places :
            <<c, p>> \in visited /\ <<d, p>> \in visited => c = d
       /\ Apart(fleet)
       /\ selectedCarId # "" =>
            /\ selectedIdx \in 1..Len(fleet) /\ fleet[selectedIdx].car = selectedCarId
            /\ rawData \in Row /\ rawData.car = selectedCarId

\* A record is not the empty sequence.
LEMMA RowIsSome == \A r \in Row : r # <<>>
  BY DEF Row

\* What a version shows at its positions.
LEMMA VersionAt ==
  ASSUME NEW s, NEW now, NEW seen, Version(s, now, seen), NEW i \in 1..Len(s)
  PROVE  s[i] \in Row /\ s[i].car = now[i].car /\ <<s[i].car, s[i].place>> \in seen
  BY DEF Version

LEMMA VersionType ==
  ASSUME NEW s, NEW now, NEW seen, Version(s, now, seen)
  PROVE  s \in Seq(Row) /\ Len(s) \in Nat /\ Len(s) <= Len(now) /\ DOMAIN s = 1..Len(s)
  BY LenProperties DEF Version

\* Positions of a shorter sequence are positions of a longer one.
LEMMA Positions ==
  ASSUME NEW k \in Nat, NEW n \in Nat, k <= n, NEW i \in 1..k
  PROVE  i \in 1..n
  OBVIOUS

LEMMA Position ==
  ASSUME NEW k \in Nat, NEW n \in Nat, NEW i \in 1..n, ~(i > k)
  PROVE  i \in 1..k
  OBVIOUS

LEMMA VersionOfNothing ==
  ASSUME NEW now \in Seq(Row), NEW seen
  PROVE  Version(<<>>, now, seen)
  BY EmptySeq DEF Version

\* A version stays one when the fleet grows behind or a car moves.
LEMMA VersionStays ==
  ASSUME NEW s, NEW now \in Seq(Row), NEW later \in Seq(Row), NEW seen, NEW more,
         Version(s, now, seen), Len(now) <= Len(later), seen \subseteq more,
         \A i \in 1..Len(now) : later[i].car = now[i].car
  PROVE  Version(s, later, more)
  BY DEF Version

LEMMA InsertBehind ==
  ASSUME NEW s \in Seq(Row), NEW r \in Row
  PROVE  InsertAt(s, Len(s) + 1, r) = Append(s, r)
<1>1. SubSeq(s, 1, Len(s)) = s /\ (Len(s) + 1) - 1 = Len(s)
  BY SubSeqFull
<1>4. SubSeq(s, Len(s) + 1, Len(s)) = <<>>
  BY SubSeqEmpty
<1>2. s \o <<r>> = Append(s, r) /\ Append(s, r) \in Seq(Row)
  BY AppendIsConcat, AppendProperties
<1>3. Append(s, r) \o <<>> = Append(s, r)
  BY <1>2, ConcatEmptySeq
<1> QED
  BY <1>1, <1>2, <1>3, <1>4 DEF InsertAt

\* A car that moves gets another row.
LEMMA RowReplaced ==
  ASSUME NEW s \in Seq(Row), NEW i \in 1..Len(s), NEW r \in Row, NEW t, t = [s EXCEPT ![i] = r]
  PROVE  /\ t \in Seq(Row) /\ Len(t) = Len(s)
         /\ \A j \in 1..Len(s) : t[j] = IF j = i THEN r ELSE s[j]
<1> DEFINE u == [s EXCEPT ![i] = r]
<1>1. /\ u \in Seq(Row) /\ Len(u) = Len(s)
      /\ \A j \in 1..Len(s) : u[j] = IF j = i THEN r ELSE s[j]
  BY ExceptSeq
<1>2. t = u
  OBVIOUS
<1> HIDE DEF u
<1> QED
  BY <1>1, <1>2

LEMMA ReportedStep ==
  ASSUME MapInv, NEW car \in MapCars, NEW place \in Places, Reported(car, place)
  PROVE  MapInv'
<1> DEFINE row == [car |-> car, place |-> place]
<1>0. visited' = visited \cup {<<car, place>>} /\ visited \subseteq MapCars \X Places
  BY DEF Reported, MapInv
<1>1. visited' = visited \cup {<<car, place>>} /\ visited' \subseteq MapCars \X Places
  BY <1>0
<1> SUFFICES ASSUME ~confusing' PROVE MapInv'
  BY <1>1 DEF MapInv
<1>2. ~confusing /\ ~Shared(car, place) /\ row \in Row
  BY DEF Reported, Row
<1>9. Version(fleet, fleet, visited)
  BY <1>2 DEF MapInv
<1>3. fleet \in Seq(Row) /\ Len(fleet) \in Nat
  BY <1>9 DEF Version
<1>13. Apart(fleet)
  BY <1>2 DEF MapInv
<1> HIDE DEF row
<1>4. /\ fleet' \in Seq(Row) /\ Len(fleet) <= Len(fleet') /\ Apart(fleet')
      /\ \A i \in 1..Len(fleet) : fleet'[i].car = fleet[i].car
      /\ \A i \in 1..Len(fleet') : fleet'[i] = row \/ (i \in 1..Len(fleet) /\ fleet'[i] = fleet[i])
  <2>1. CASE car \notin Known
    <3>1. fleet' = Append(fleet, row)
      <4>1. PICK i \in 1..(Len(fleet) + 1) :
              fleet' = InsertAt(fleet, i, row) /\ confusing' = (confusing \/ i <= Len(fleet) \/ Shared(car, place))
        BY <2>1 DEF Reported, Known, row
      <4>2. ~(i <= Len(fleet))
        BY <4>1, Zenon
      <4>3. i = Len(fleet) + 1
        BY <1>3, <4>2
      <4> QED
        BY <1>2, <1>3, <4>1, <4>3, InsertBehind
    <3>2. /\ fleet' \in Seq(Row) /\ Len(fleet') = Len(fleet) + 1 /\ fleet'[Len(fleet) + 1] = row
          /\ \A i \in 1..Len(fleet) : fleet'[i] = fleet[i]
      BY <1>2, <1>3, <3>1, AppendProperties
    <3>3. \A i \in 1..Len(fleet) : fleet[i].car # car
      BY <1>3, <2>1, LenProperties DEF Known
    <3>4. row.car = car
      BY DEF row
    <3> QED
      BY <1>3, <1>13, <3>2, <3>3, <3>4 DEF Apart
  <2>2. CASE car \in Known
    <3>1. PICK i \in 1..Len(fleet) : fleet[i].car = car /\ fleet' = [fleet EXCEPT ![i].place = place]
      BY <1>3, <2>2 DEF Reported
    <3>2. fleet[i] \in Row
      BY <1>3
    <3>3. [fleet[i] EXCEPT !.place = place] = row
      BY <3>1, <3>2 DEF Row, row
    <3>4. fleet' = [fleet EXCEPT ![i] = row]
      BY <3>1, <3>3
    <3>5. /\ fleet' \in Seq(Row) /\ Len(fleet') = Len(fleet)
          /\ \A j \in 1..Len(fleet) : fleet'[j] = IF j = i THEN row ELSE fleet[j]
      BY <1>2, <1>3, <3>4, RowReplaced
    <3>6. row.car = car
      BY DEF row
    <3>7. \A j \in 1..Len(fleet) : fleet'[j].car = fleet[j].car
      BY <3>1, <3>5, <3>6
    <3> QED
      BY <1>3, <1>13, <3>5, <3>7 DEF Apart
  <2> QED
    BY <2>1, <2>2
<1>5. \A s : Version(s, fleet, visited) => Version(s, fleet', visited')
  BY <1>1, <1>3, <1>4, VersionStays
<1>6. Version(fleet', fleet', visited')
  <2>1. \A i \in 1..Len(fleet) : <<fleet[i].car, fleet[i].place>> \in visited
    BY <1>2 DEF MapInv, Version
  <2>2. ASSUME NEW i \in 1..Len(fleet') PROVE <<fleet'[i].car, fleet'[i].place>> \in visited'
    <3>1. CASE fleet'[i] = row
      BY <1>1, <3>1 DEF row
    <3>2. CASE i \in 1..Len(fleet) /\ fleet'[i] = fleet[i]
      BY <1>1, <2>1, <3>2
    <3> QED
      BY <1>4, <3>1, <3>2
  <2> QED
    BY <1>4, <2>2 DEF Version
<1>7. \A c, d \in MapCars, p \in Places :
         <<c, p>> \in visited' /\ <<d, p>> \in visited' => c = d
  BY <1>1, <1>2 DEF MapInv, Shared
<1>8. UNCHANGED <<answers, markers, index, screen, selectedCarId, selectedIdx, rawData>>
  BY DEF Reported, screenVars
<1>10. /\ Version(markers', fleet', visited') /\ Version(index', fleet', visited')
       /\ Version(screen', fleet', visited')
       /\ \A answer \in answers' : Version(answer, fleet', visited')
  BY <1>2, <1>5, <1>8 DEF MapInv
<1>11. selectedCarId' # "" =>
         /\ selectedIdx' \in 1..Len(fleet') /\ fleet'[selectedIdx'].car = selectedCarId'
         /\ rawData' \in Row /\ rawData'.car = selectedCarId'
  <2> SUFFICES ASSUME selectedCarId # ""
               PROVE  selectedIdx \in 1..Len(fleet') /\ fleet'[selectedIdx].car = selectedCarId
    BY <1>2, <1>8 DEF MapInv
  <2>1. selectedIdx \in 1..Len(fleet) /\ fleet[selectedIdx].car = selectedCarId
    BY <1>2 DEF MapInv
  <2>4. Len(fleet') \in Nat /\ Len(fleet) <= Len(fleet')
    BY <1>3, <1>4, LenProperties
  <2>2. selectedIdx \in 1..Len(fleet')
    BY <1>3, <2>1, <2>4, Positions
  <2>3. fleet'[selectedIdx].car = fleet[selectedIdx].car
    BY <1>4, <2>1
  <2> QED
    BY <2>1, <2>2, <2>3
<1> QED
  BY <1>1, <1>4, <1>6, <1>7, <1>10, <1>11 DEF MapInv

LEMMA AnsweredStep ==
  ASSUME MapInv, NEW answer \in answers, Answered(answer)
  PROVE  MapInv'
<1>1. UNCHANGED <<fleet, visited, confusing, screen, selectedCarId, selectedIdx>>
      /\ answers' \subseteq answers /\ index' = answer
  BY DEF Answered, serverVars
<1> SUFFICES ASSUME ~confusing PROVE MapInv'
  BY <1>1 DEF MapInv
<1>2. Version(answer, fleet, visited) /\ Version(fleet, fleet, visited)
  BY DEF MapInv
<1>3. Version(markers', fleet, visited)
  <2>1. markers' = <<>> \/ markers' = answer
    BY DEF Answered
  <2>2. fleet \in Seq(Row)
    BY <1>2 DEF Version
  <2> QED
    BY <1>2, <2>1, <2>2, VersionOfNothing
<1>4. selectedCarId # "" => rawData' \in Row /\ rawData'.car = selectedCarId
  <2> SUFFICES ASSUME selectedCarId # ""
               PROVE  rawData' \in Row /\ rawData'.car = selectedCarId
    OBVIOUS
  <2>1. /\ selectedIdx \in 1..Len(fleet) /\ fleet[selectedIdx].car = selectedCarId
        /\ rawData \in Row /\ rawData.car = selectedCarId
    BY DEF MapInv
  <2>2. CASE answer = <<>> \/ selectedIdx > Len(answer)
    <3>1. rawData' = rawData
      BY <2>2 DEF Answered
    <3> QED
      BY <2>1, <3>1
  <2>3. CASE answer # <<>> /\ ~(selectedIdx > Len(answer))
    <3>1. rawData' = answer[selectedIdx]
      BY <2>3 DEF Answered
    <3>3. Len(answer) \in Nat /\ Len(fleet) \in Nat
      BY <1>2, VersionType
    <3>2. selectedIdx \in 1..Len(answer)
      BY <2>1, <2>3, <3>3, Position
    <3> QED
      BY <1>2, <2>1, <3>1, <3>2, VersionAt
  <2> QED
    BY <2>2, <2>3
<1> QED
  BY <1>1, <1>2, <1>3, <1>4 DEF MapInv

LEMMA TapStep ==
  ASSUME MapInv, NEW m \in DOMAIN screen, Tap(screen[m])
  PROVE  MapInv'
<1> DEFINE marker == screen[m]
<1>1. UNCHANGED <<fleet, visited, confusing, answers, markers, index, screen>>
  BY DEF Tap, serverVars
<1> SUFFICES ASSUME ~confusing, selectedCarId' # ""
             PROVE  /\ selectedIdx' \in 1..Len(fleet) /\ fleet[selectedIdx'].car = selectedCarId'
                    /\ rawData' \in Row /\ rawData'.car = selectedCarId'
  BY <1>1 DEF MapInv
<1>2. Version(screen, fleet, visited) /\ Version(index, fleet, visited)
  BY DEF MapInv
<1>3. PICK i \in At(marker.place) :
        /\ selectedIdx' = i
        /\ IF i \in DOMAIN screen
           THEN selectedCarId' = marker.car /\ rawData' = screen[i]
           ELSE UNCHANGED <<selectedCarId, rawData>>
  BY DEF Tap
<1>4. m \in 1..Len(screen) /\ DOMAIN screen = 1..Len(screen)
  BY <1>2, VersionType
<1>5. i \in 1..Len(index) /\ index[i].place = marker.place
  BY <1>2, VersionType DEF At
<1>6. 1..Len(index) \subseteq 1..Len(fleet) /\ 1..Len(screen) \subseteq 1..Len(fleet)
  <2>1. Version(fleet, fleet, visited)
    BY DEF MapInv
  <2>2. /\ Len(fleet) \in Nat /\ Len(index) \in Nat /\ Len(screen) \in Nat
        /\ Len(index) <= Len(fleet) /\ Len(screen) <= Len(fleet)
    BY <1>2, <2>1, VersionType
  <2> QED
    BY <2>2, Positions
<1>7. marker \in Row /\ <<marker.car, marker.place>> \in visited
  BY <1>2, <1>4, VersionAt
<1>8. index[i] \in Row /\ index[i].car = fleet[i].car /\ <<index[i].car, index[i].place>> \in visited
  BY <1>2, <1>5, VersionAt
<1>9. index[i].car = marker.car
  <2>1. /\ marker.car \in MapCars /\ index[i].car \in MapCars /\ marker.place \in Places
    BY <1>7, <1>8 DEF Row
  <2> QED
    BY <1>5, <1>7, <1>8, <2>1 DEF MapInv
<1>10. CASE i \in DOMAIN screen
  <2>1. selectedCarId' = marker.car /\ rawData' = screen[i]
    BY <1>3, <1>10
  <2>2. i \in 1..Len(screen)
    BY <1>4, <1>10
  <2>3. screen[i] \in Row /\ screen[i].car = fleet[i].car
    BY <1>2, <2>2, VersionAt
  <2> QED
    BY <1>3, <1>5, <1>6, <1>8, <1>9, <2>1, <2>3
<1>11. i = m
  <2>1. m \in 1..Len(fleet) /\ marker.car = fleet[m].car
    BY <1>2, <1>4, <1>6, VersionAt
  <2>2. Apart(fleet)
    BY DEF MapInv
  <2> QED
    BY <1>5, <1>6, <1>8, <1>9, <2>1, <2>2 DEF Apart
<1> QED
  BY <1>4, <1>10, <1>11

LEMMA MapStep == MapInv /\ [MapNext]_mapVars => MapInv'
<1> SUFFICES ASSUME MapInv, [MapNext]_mapVars PROVE MapInv'
  OBVIOUS
<1>1. CASE Refresh
  BY <1>1 DEF Refresh, serverVars, MapInv
<1>2. CASE Rebuild
  BY <1>2 DEF Rebuild, serverVars, MapInv
<1>3. CASE UNCHANGED mapVars
  BY <1>3 DEF mapVars, MapInv
<1> QED
  BY <1>1, <1>2, <1>3, ReportedStep, AnsweredStep, TapStep DEF MapNext

\* The sidebar never shows a car that is not the selected one, although its index
\* is taken from answers that overtake each other.
THEOREM ShowsSelected == MapSpec => []SidebarIsSelected
<1>1. MapInit => MapInv
  <2> SUFFICES ASSUME MapInit PROVE MapInv
    OBVIOUS
  <2>1. <<>> \in Seq(Row) /\ Apart(<<>>)
    BY EmptySeq DEF Apart
  <2>2. Version(<<>>, <<>>, {})
    BY <2>1, VersionOfNothing
  <2> QED
    BY <2>1, <2>2 DEF MapInit, MapInv
<1>2. MapInv => SidebarIsSelected
  BY RowIsSome DEF MapInv, SidebarIsSelected
<1> QED
  BY <1>1, <1>2, MapStep, PTL DEF MapSpec

-----------------------------------------------------------------------------
(* The statistics screen. *)

Selections == [cars : Seq(ChartCars), parameter : Parameters \cup {""}, toggled : BOOLEAN]
Fetches == [of : Selections, at : Nat \ {0}, car : ChartCars]
Lines == [car : ChartCars, parameter : Parameters \cup {""}]

StatType ==
  /\ vehicleIdsSelected \in Seq(ChartCars) /\ dropDownValue \in Parameters \cup {""}
  /\ displayedData \in Seq(Lines) /\ searches \in Seq(Fetches) /\ chartFor \in Selections

\* The lines on the chart are those of the first cars, in order.
Drawn(lines, cars) ==
  /\ Len(lines) <= Len(cars)
  /\ \A i \in 1..Len(lines) : lines[i].car = cars[i]

\* If every car drawn has the parameter of the download, every line shows it.
Faithful(lines, p) == \A i \in 1..Len(lines) : lines[i].parameter = p
AllHave(lines, p) == \A i \in 1..Len(lines) : p \in CarParameters[lines[i].car]

\* A download that ended: as many lines as cars.
Ended ==
  /\ Len(displayedData) = Len(chartFor.cars)
  /\ ~chartFor.toggled => Drawn(displayedData, chartFor.cars)
  /\ AllHave(displayedData, chartFor.parameter) => Faithful(displayedData, chartFor.parameter)

\* A download that waits for an answer: the cars before this one have their lines; if
\* the selection is still the same, it is the next of it.
UnderWay(f) ==
  /\ f.at = Len(displayedData) + 1 /\ f.at <= Len(f.of.cars)
  /\ ~f.of.toggled => /\ vehicleIdsSelected = f.of.cars /\ Drawn(displayedData, f.of.cars)
                      /\ f.car = f.of.cars[f.at]
  /\ AllHave(displayedData, f.of.parameter) =>
       Faithful(displayedData, f.of.parameter) /\ dropDownValue = f.of.parameter

\* An undisturbed download is alone.
StatInv ==
  /\ StatType
  /\ ~disturbed => /\ Len(searches) <= 1
                   /\ searches = <<>> => Ended
                   /\ Len(searches) = 1 => UnderWay(searches[1])

LEMMA Only ==
  ASSUME NEW k \in Nat, k <= 1, NEW n \in 1..k
  PROVE  k = 1 /\ n = 1
OBVIOUS

LEMMA RemovedType ==
  ASSUME NEW S, NEW s \in Seq(S), NEW n \in 1..Len(s)
  PROVE  RemoveAt(s, n) \in Seq(S) /\ Len(RemoveAt(s, n)) = Len(s) - 1
<1>1. Len(s) \in Nat
  BY LenProperties
<1>2. /\ SubSeq(s, 1, n - 1) \in Seq(S) /\ SubSeq(s, n + 1, Len(s)) \in Seq(S)
      /\ Len(SubSeq(s, 1, n - 1)) = n - 1 /\ Len(SubSeq(s, n + 1, Len(s))) = Len(s) - n
  BY <1>1, SubSeqProperties
<1>3. (n - 1) + (Len(s) - n) = Len(s) - 1
  BY <1>1
<1>4. RemoveAt(s, n) = SubSeq(s, 1, n - 1) \o SubSeq(s, n + 1, Len(s))
  BY DEF RemoveAt
<1>5. \A a, b \in Seq(S) : a \o b \in Seq(S) /\ Len(a \o b) = Len(a) + Len(b)
  BY ConcatProperties
<1> QED
  BY <1>2, <1>3, <1>4, <1>5

\* A toggle changes the list, and every download under way knows.
LEMMA ToggleStep ==
  ASSUME StatInv, NEW car \in ChartCars, Toggle(car)
  PROVE  StatInv'
<1>1. /\ vehicleIdsSelected \in Seq(ChartCars) /\ searches \in Seq(Fetches)
      /\ Len(searches) \in Nat /\ DOMAIN searches = 1..Len(searches)
  BY LenProperties DEF StatInv, StatType
<1>2. vehicleIdsSelected' \in Seq(ChartCars)
  <2>1. CASE \E at \in DOMAIN vehicleIdsSelected : vehicleIdsSelected' = RemoveAt(vehicleIdsSelected, at)
    BY <1>1, <2>1, LenProperties, RemovedType
  <2>2. CASE vehicleIdsSelected' = Append(vehicleIdsSelected, car)
    BY <1>1, <2>2, AppendProperties
  <2> QED
    BY <2>1, <2>2 DEF Toggle
<1>3. /\ searches' = [i \in 1..Len(searches) |-> [searches[i] EXCEPT !.of.toggled = TRUE]]
      /\ UNCHANGED <<dropDownValue, validVehicleParameters, displayedData, chartFor, disturbed>>
  BY <1>1 DEF Toggle
<1>4. ASSUME NEW i \in 1..Len(searches)
      PROVE  LET f == searches[i] IN
             /\ searches'[i] \in Fetches /\ searches'[i].at = f.at
             /\ searches'[i].of.cars = f.of.cars /\ searches'[i].of.parameter = f.of.parameter
             /\ searches'[i].of.toggled
  <2>1. searches[i] \in Fetches
    BY <1>1, ElementOfSeq
  <2>2. searches[i].of \in Selections
    BY <2>1 DEF Fetches
  <2> QED
    BY <1>3, <2>1, <2>2 DEF Fetches, Selections
<1>5. searches' \in Seq(Fetches) /\ Len(searches') = Len(searches)
  <2>1. searches' \in [1..Len(searches) -> Fetches]
    BY <1>3, <1>4
  <2> QED
    BY <1>1, <2>1
<1>6. StatType'
  BY <1>2, <1>3, <1>5 DEF StatInv, StatType
<1> SUFFICES ASSUME ~disturbed PROVE StatInv'
  BY <1>3, <1>6 DEF StatInv
<1>7. searches' = <<>> => searches = <<>>
  BY <1>1, <1>5, EmptySeq
<1>8. ASSUME Len(searches) = 1 PROVE UnderWay(searches[1])'
  <2>1. UnderWay(searches[1]) /\ 1 \in 1..Len(searches)
    BY <1>8 DEF StatInv
  <2> QED
    BY <1>3, <1>4, <2>1 DEF UnderWay, Drawn, Faithful, AllHave
<1>9. searches = <<>> => Ended'
  BY <1>3 DEF StatInv, Ended, Drawn, Faithful, AllHave
<1> QED
  BY <1>5, <1>6, <1>7, <1>8, <1>9 DEF StatInv

LEMMA SelectParameterStep ==
  ASSUME StatInv, NEW p \in Parameters, SelectParameter(p)
  PROVE  StatInv'
<1>1. UNCHANGED <<vehicleIdsSelected, displayedData, searches, chartFor>> /\ dropDownValue' = p
  BY DEF SelectParameter
<1>2. ~disturbed' => ~disturbed /\ searches = <<>>
  BY DEF SelectParameter
<1>3. Len(<<>>) # 1
  OBVIOUS
<1> QED
  BY <1>1, <1>2, <1>3 DEF StatInv, StatType, Ended, Drawn, Faithful, AllHave

LEMMA SearchStep ==
  ASSUME StatInv, Search
  PROVE  StatInv'
<1>1. Selection \in Selections /\ Selection.cars = vehicleIdsSelected /\ Selection.parameter = dropDownValue
      /\ ~Selection.toggled
  BY DEF StatInv, StatType, Selection, Selections
<1>2. /\ displayedData' = <<>> /\ Len(displayedData') = 0 /\ displayedData' \in Seq(Lines)
      /\ vehicleIdsSelected \in Seq(ChartCars) /\ Len(vehicleIdsSelected) \in Nat
      /\ searches \in Seq(Fetches) /\ Len(searches) \in Nat
  BY EmptySeq, LenProperties DEF Search, StatInv, StatType
<1>3. UNCHANGED <<vehicleIdsSelected, dropDownValue>> /\ (~disturbed' => searches = <<>>)
  BY DEF Search
<1>4. Drawn(displayedData', vehicleIdsSelected) /\ Faithful(displayedData', dropDownValue)
  BY <1>2 DEF Drawn, Faithful
<1>5. CASE vehicleIdsSelected = <<>>
  <2>1. chartFor' = Selection /\ searches' = searches
    BY <1>5 DEF Search
  <2>2. StatType'
    BY <1>1, <1>2, <1>3, <2>1 DEF StatInv, StatType
  <2>3. Len(vehicleIdsSelected) = 0 /\ Len(<<>>) = 0
    BY <1>5, EmptySeq
  <2>4. Ended'
    BY <1>1, <1>2, <1>3, <1>4, <2>1, <2>3 DEF Ended, Drawn, Faithful, AllHave
  <2> QED
    BY <1>3, <2>1, <2>2, <2>3, <2>4 DEF StatInv
<1>6. CASE vehicleIdsSelected # <<>>
  <2> DEFINE f == Fetch(Selection, 1)
  <2>1. searches' = Append(searches, f) /\ chartFor' = chartFor
    BY <1>6 DEF Search
  <2>2. Len(vehicleIdsSelected) >= 1 /\ vehicleIdsSelected[1] \in ChartCars
    <3>1. Len(vehicleIdsSelected) # 0
      BY <1>2, <1>6, EmptySeq
    <3> QED
      BY <1>2, <3>1, ElementOfSeq
  <2>3. f \in Fetches /\ f.of = Selection /\ f.at = 1 /\ f.car = vehicleIdsSelected[1]
    BY <1>1, <2>2 DEF Fetch, Fetches
  <2> HIDE DEF f
  <2>4. /\ searches' \in Seq(Fetches) /\ Len(searches') = Len(searches) + 1
        /\ searches'[Len(searches) + 1] = f
    BY <1>2, <2>1, <2>3, AppendProperties
  <2>5. searches' # <<>>
    BY <1>2, <2>4, EmptySeq
  <2>6. StatType'
    BY <1>2, <1>3, <2>1, <2>4 DEF StatInv, StatType
  <2>7. ASSUME searches = <<>> PROVE Len(searches') = 1 /\ searches'[1] = f
    <3>1. Len(searches) = 0
      BY <2>7, EmptySeq
    <3> QED
      BY <2>4, <3>1
  <2>8. f.at = Len(displayedData') + 1 /\ f.at <= Len(f.of.cars) /\ f.car = f.of.cars[f.at]
    BY <1>1, <1>2, <2>2, <2>3
  <2>9. ASSUME searches = <<>> PROVE UnderWay(searches[1])'
    <3>1. searches'[1] = f
      BY <2>7, <2>9
    <3>2. f.of.cars = vehicleIdsSelected' /\ f.of.parameter = dropDownValue'
      BY <1>1, <1>3, <2>3
    <3>3. Drawn(displayedData', f.of.cars) /\ Faithful(displayedData', f.of.parameter)
      BY <1>3, <1>4, <3>2
    <3> QED
      BY <2>8, <3>1, <3>2, <3>3 DEF UnderWay
  <2> SUFFICES ASSUME ~disturbed' PROVE StatInv'
    BY <2>6 DEF StatInv
  <2>10. Len(searches') = 1 /\ UnderWay(searches[1])'
    BY <1>3, <2>7, <2>9
  <2>11. Len(searches') <= 1
    BY <2>10
  <2> QED
    BY <2>5, <2>6, <2>10, <2>11 DEF StatInv
<1> QED
  BY <1>5, <1>6

\* The line of the next car comes behind the others, with the parameter that was
\* selected if this car has it too.
LEMMA DrawStep ==
  ASSUME StatType, NEW car \in ChartCars, Draw(car)
  PROVE  /\ dropDownValue' \in Parameters \cup {""}
         /\ displayedData' \in Seq(Lines) /\ Len(displayedData') = Len(displayedData) + 1
         /\ Len(displayedData) \in Nat
         /\ \A i \in 1..Len(displayedData) : displayedData'[i] = displayedData[i]
         /\ displayedData'[Len(displayedData) + 1].car = car
         /\ \A p : /\ AllHave(displayedData, p) =>
                        Faithful(displayedData, p) /\ dropDownValue = p
                   /\ AllHave(displayedData', p)
                   => Faithful(displayedData', p) /\ dropDownValue' = p
<1> DEFINE line == [car |-> car, parameter |-> dropDownValue']
<1>1. /\ dropDownValue' \in Parameters \cup {""}
      /\ \A p : dropDownValue = p /\ p \in CarParameters[car] => dropDownValue' = p
  BY StatisticsAssumption DEF Draw, Offer, NoRows, StatType
<1>2. line \in Lines /\ line.car = car /\ line.parameter = dropDownValue'
  BY <1>1 DEF Lines
<1>3. displayedData' = Append(displayedData, line) /\ displayedData \in Seq(Lines)
  BY DEF Draw, StatType
<1> HIDE DEF line
<1>4. /\ displayedData' \in Seq(Lines) /\ Len(displayedData') = Len(displayedData) + 1
      /\ Len(displayedData) \in Nat
      /\ \A i \in 1..Len(displayedData) : displayedData'[i] = displayedData[i]
      /\ displayedData'[Len(displayedData) + 1] = line
  BY <1>2, <1>3, AppendProperties, LenProperties
<1>5. ASSUME NEW p, AllHave(displayedData, p) => Faithful(displayedData, p) /\ dropDownValue = p,
             AllHave(displayedData', p)
      PROVE  Faithful(displayedData', p) /\ dropDownValue' = p
  <2>1. AllHave(displayedData, p) /\ p \in CarParameters[car]
    BY <1>2, <1>4, <1>5 DEF AllHave
  <2>2. dropDownValue' = p
    BY <1>1, <1>5, <2>1
  <2>3. ASSUME NEW i \in 1..Len(displayedData') PROVE displayedData'[i].parameter = p
    <3>1. CASE i \in 1..Len(displayedData)
      BY <1>4, <1>5, <2>1, <3>1 DEF Faithful
    <3>2. CASE i = Len(displayedData) + 1
      BY <1>2, <1>4, <2>2, <3>2
    <3> QED
      BY <1>4, <3>1, <3>2
  <2> QED
    BY <2>2, <2>3 DEF Faithful
<1>6. displayedData'[Len(displayedData) + 1].car = car
  BY <1>2, <1>4
<1> QED
  BY <1>1, <1>4, <1>5, <1>6

LEMMA DownloadedStep ==
  ASSUME StatInv, NEW n \in DOMAIN searches, Downloaded(n)
  PROVE  StatInv'
<1> DEFINE f == searches[n]
           next == Fetch(f.of, f.at + 1)
<1>1. /\ StatType /\ searches \in Seq(Fetches) /\ Len(searches) \in Nat /\ n \in 1..Len(searches)
      /\ vehicleIdsSelected \in Seq(ChartCars) /\ Len(vehicleIdsSelected) \in Nat
      /\ f \in Fetches
  BY LenProperties, ElementOfSeq DEF StatInv, StatType
<1>2. f.of \in Selections /\ f.at \in Nat \ {0} /\ f.car \in ChartCars
  BY <1>1 DEF Fetches
<1>3. Draw(f.car) /\ vehicleIdsSelected' = vehicleIdsSelected
  BY DEF Downloaded
<1>4. /\ dropDownValue' \in Parameters \cup {""}
      /\ displayedData' \in Seq(Lines) /\ Len(displayedData') = Len(displayedData) + 1
      /\ Len(displayedData) \in Nat
      /\ \A i \in 1..Len(displayedData) : displayedData'[i] = displayedData[i]
      /\ displayedData'[Len(displayedData) + 1].car = f.car
      /\ \A p : /\ AllHave(displayedData, p) => Faithful(displayedData, p) /\ dropDownValue = p
                /\ AllHave(displayedData', p)
                => Faithful(displayedData', p) /\ dropDownValue' = p
  <2> HIDE DEF f
  <2> QED
    BY <1>1, <1>2, <1>3, DrawStep
<1>5. ASSUME ~disturbed
      PROVE  /\ n = 1 /\ Len(searches) = 1
             /\ f.at = Len(displayedData') /\ f.at <= Len(f.of.cars)
             /\ ~f.of.toggled => vehicleIdsSelected = f.of.cars /\ Drawn(displayedData', f.of.cars)
             /\ AllHave(displayedData', f.of.parameter) =>
                  Faithful(displayedData', f.of.parameter) /\ dropDownValue' = f.of.parameter
  <2>1. n = 1 /\ Len(searches) = 1
    <3>1. Len(searches) <= 1
      BY <1>5 DEF StatInv
    <3> QED
      BY <1>1, <3>1, Only
  <2>2. UnderWay(f)
    BY <1>5, <2>1 DEF StatInv
  <2>3. f.at = Len(displayedData') /\ f.at <= Len(f.of.cars)
    BY <1>4, <2>2 DEF UnderWay
  <2>4. ASSUME ~f.of.toggled PROVE Drawn(displayedData', f.of.cars)
    <3>1. Drawn(displayedData, f.of.cars) /\ f.car = f.of.cars[f.at]
      BY <2>2, <2>4 DEF UnderWay
    <3>2. ASSUME NEW i \in 1..Len(displayedData') PROVE displayedData'[i].car = f.of.cars[i]
      <4>1. CASE i \in 1..Len(displayedData)
        BY <1>4, <3>1, <4>1 DEF Drawn
      <4>2. CASE i = Len(displayedData) + 1
        <5>1. i = f.at
          BY <1>4, <2>3, <4>2
        <5>2. displayedData'[i].car = f.car
          BY <1>4, <4>2
        <5> QED
          BY <3>1, <5>1, <5>2
      <4>3. Len(displayedData') = Len(displayedData) + 1 /\ Len(displayedData) \in Nat
        BY <1>4
      <4>4. i \in 1..Len(displayedData) \/ i = Len(displayedData) + 1
        BY <4>3
      <4> QED
        BY <4>1, <4>2, <4>4
    <3> QED
      BY <2>3, <3>2 DEF Drawn
  <2>5. AllHave(displayedData', f.of.parameter) =>
          Faithful(displayedData', f.of.parameter) /\ dropDownValue' = f.of.parameter
    BY <1>4, <2>2 DEF UnderWay
  <2> QED
    BY <2>1, <2>2, <2>3, <2>4, <2>5 DEF UnderWay
<1>6. CASE NextCar(n)
  <2>1. /\ Len(vehicleIdsSelected) = Len(f.of.cars) /\ f.at < Len(vehicleIdsSelected)
        /\ searches' = [searches EXCEPT ![n] = next] /\ UNCHANGED <<chartFor, disturbed>>
    BY <1>6 DEF NextCar
  <2>2. next \in Fetches /\ next.of = f.of /\ next.at = f.at + 1 /\ next.car = vehicleIdsSelected[f.at + 1]
    <3>1. f.at + 1 \in 1..Len(vehicleIdsSelected)
      BY <1>1, <1>2, <2>1
    <3>2. vehicleIdsSelected[f.at + 1] \in ChartCars
      BY <1>1, <3>1, ElementOfSeq
    <3> QED
      BY <1>2, <3>2 DEF Fetch, Fetches
  <2> HIDE DEF f, next
  <2>3. searches' \in Seq(Fetches) /\ Len(searches') = Len(searches) /\ searches'[n] = next
    BY <1>1, <2>1, <2>2, ExceptSeq
  <2>4. StatType'
    BY <1>3, <1>4, <2>1, <2>3 DEF StatInv, StatType
  <2> SUFFICES ASSUME ~disturbed PROVE StatInv'
    BY <2>1, <2>4 DEF StatInv
  <2>5. searches'[1] = next /\ Len(searches') = 1
    BY <1>5, <2>3
  <2>6. searches' # <<>>
    BY <2>5, EmptySeq
  <2>7. next.at = Len(displayedData') + 1 /\ next.at <= Len(next.of.cars)
    BY <1>1, <1>2, <1>5, <2>1, <2>2
  <2>8. ~next.of.toggled =>
          vehicleIdsSelected' = next.of.cars /\ Drawn(displayedData', next.of.cars)
          /\ next.car = next.of.cars[next.at]
    BY <1>3, <1>5, <2>2
  <2>9. UnderWay(searches[1])'
    BY <1>5, <2>2, <2>5, <2>7, <2>8 DEF UnderWay
  <2> QED
    BY <2>4, <2>5, <2>6, <2>9 DEF StatInv
<1>7. CASE LastCar(n)
  <2>1. /\ Len(vehicleIdsSelected) = Len(f.of.cars) /\ f.at = Len(vehicleIdsSelected)
        /\ searches' = RemoveAt(searches, n) /\ chartFor' = f.of /\ UNCHANGED disturbed
    BY <1>7 DEF LastCar
  <2>2. searches' \in Seq(Fetches) /\ Len(searches') = Len(searches) - 1
    BY <1>1, <2>1, RemovedType
  <2>3. StatType'
    BY <1>2, <1>3, <1>4, <2>1, <2>2 DEF StatInv, StatType
  <2> SUFFICES ASSUME ~disturbed PROVE StatInv'
    BY <2>1, <2>3 DEF StatInv
  <2>4. Len(searches') = 0
    BY <1>5, <2>2
  <2>5. Ended'
    BY <1>5, <2>1 DEF Ended
  <2> QED
    BY <2>3, <2>4, <2>5 DEF StatInv
<1>8. CASE ListChanged(n)
  <2>1. searches' = RemoveAt(searches, n) /\ disturbed' = TRUE /\ UNCHANGED chartFor
    BY <1>8 DEF ListChanged, Aborts
  <2>2. searches' \in Seq(Fetches)
    BY <1>1, <2>1, RemovedType
  <2> QED
    BY <1>3, <1>4, <2>1, <2>2 DEF StatInv, StatType
<1> QED
  BY <1>6, <1>7, <1>8 DEF Downloaded

LEMMA FailedStep ==
  ASSUME StatInv, NEW n \in DOMAIN searches, Failed(n)
  PROVE  StatInv'
<1>1. searches \in Seq(Fetches) /\ n \in 1..Len(searches)
  BY LenProperties DEF StatInv, StatType
<1>2. RemoveAt(searches, n) \in Seq(Fetches)
  BY <1>1, RemovedType
<1> QED
  BY <1>2 DEF Failed, Aborts, StatInv, StatType

LEMMA StatStep == StatInv /\ [StatNext]_statVars => StatInv'
<1> SUFFICES ASSUME StatInv, [StatNext]_statVars PROVE StatInv'
  OBVIOUS
<1>1. CASE UNCHANGED statVars
  BY <1>1 DEF statVars, StatInv, StatType, Ended, UnderWay, Drawn, Faithful, AllHave
<1> QED
  BY <1>1, ToggleStep, SelectParameterStep, SearchStep, DownloadedStep, FailedStep DEF StatNext

\* The screen starts without a selection and a chart.
LEMMA StatStarts ==
  ASSUME StatInit
  PROVE  StatInv
<1>1. <<>> \in Seq(ChartCars) /\ <<>> \in Seq(Lines) /\ <<>> \in Seq(Fetches) /\ Len(<<>>) = 0
  BY EmptySeq
<1>2. Selection \in Selections /\ Selection.cars = <<>>
  BY <1>1 DEF StatInit, Selection, Selections
<1>3. /\ searches = <<>> /\ displayedData = <<>> /\ chartFor = Selection
      /\ vehicleIdsSelected = <<>> /\ dropDownValue = ""
  BY DEF StatInit
<1>4. Len(searches) = 0 /\ Len(displayedData) = 0 /\ Len(chartFor.cars) = 0
  BY <1>1, <1>2, <1>3
<1>5. StatType
  BY <1>1, <1>2, <1>3 DEF StatType
<1>6. Ended
  BY <1>4 DEF Ended, Drawn, Faithful
<1> QED
  BY <1>4, <1>5, <1>6 DEF StatInv

\* An undisturbed comparison has as many lines as cars were selected, one for each of
\* them in order if the list was left alone, and shows the selected parameter of
\* every car if all of them have it.
THEOREM ShowsComparison == StatSpec => []ChartComplete
<1>1. StatInit => StatInv
  BY StatStarts
<1>2. StatInv => ChartComplete
  <2> SUFFICES ASSUME StatInv, searches = <<>>, ~disturbed
               PROVE  /\ Len(displayedData) = Len(chartFor.cars)
                      /\ ~chartFor.toggled =>
                           [i \in DOMAIN displayedData |-> displayedData[i].car] = chartFor.cars
                      /\ (\A i \in DOMAIN displayedData :
                            chartFor.parameter \in CarParameters[displayedData[i].car]) =>
                           \A i \in DOMAIN displayedData :
                             displayedData[i].parameter = chartFor.parameter
    BY DEF ChartComplete
  <2>1. Ended /\ displayedData \in Seq(Lines) /\ chartFor.cars \in Seq(ChartCars)
    BY DEF StatInv, StatType, Selections
  <2>2. /\ DOMAIN displayedData = 1..Len(displayedData)
        /\ chartFor.cars \in [1..Len(chartFor.cars) -> ChartCars]
    BY <2>1, LenProperties
  <2>3. ~chartFor.toggled => [i \in DOMAIN displayedData |-> displayedData[i].car] = chartFor.cars
    BY <2>1, <2>2 DEF Ended, Drawn
  <2> QED
    BY <2>1, <2>2, <2>3 DEF Ended, AllHave, Faithful
<1> QED
  BY <1>1, <1>2, StatStep, PTL DEF StatSpec
=============================================================================
