------------------------- MODULE LunixModuleProofs -------------------------
(* Machine-checked proofs about LunixModule, for every number of sensors,  *)
(* measurements, loads and files.  Only what concerns the users needs that *)
(* terminals take the discipline no sooner than the module is live.        *)
EXTENDS LunixModule, FiniteSetTheorems, TLAPS

(* A load fails once at most, at the step it is at.                        *)
Loading == {"sensors", "ldisc", "region", "cdev"}

Counted == phase \in Loading => failures < loads

(* The sensors up to si_done are complete, the next one is on its way, and *)
(* those after it have nothing.                                            *)
Building ==
  phase = "sensors" =>
    /\ si_done + 1 \in Sensor
    /\ \A s \in Sensor :
         /\ s <= si_done => msr_data[s] = Msr
         /\ s > si_done + 1 => msr_data[s] = {}
    /\ \E k \in Msr : msr_data[si_done + 1] = 0..k - 1

Complete ==
  phase \in {"ldisc", "region", "cdev", "live", "out_with_ldisc"} =>
    /\ si_done = lunix_sensor_cnt - 1
    /\ \A s \in Sensor : msr_data[s] = Msr

(* On the way out all sensors after si_done are empty but one at most, and *)
(* if there is one its pages are those the last failure may cost.          *)
Cost(n) == (N_LUNIX_MSR - 1) * n

Partial(t) == Cardinality(msr_data[t]) <= N_LUNIX_MSR - 1

Undone(t) == \A s \in Sensor : s > si_done /\ s # t => msr_data[s] = {}

Accounted ==
  IF phase # "out_with_sensors"
  THEN lost <= Cost(failures)
  ELSE \/ /\ \A s \in Sensor : s > si_done => msr_data[s] = {}
          /\ lost <= Cost(failures)
       \/ /\ \E t \in Sensor : t > si_done /\ Undone(t) /\ Partial(t)
          /\ lost + (N_LUNIX_MSR - 1) <= Cost(failures)

Pages == TypeOK /\ Counted /\ Building /\ Complete /\ Accounted

(* Who may come in, and when.                                              *)
Doors ==
  /\ ldisc => phase \in {"region", "cdev", "live", "out_with_ldisc"}
  /\ region => phase \in {"cdev", "live"}
  /\ cdev => phase = "live"
  /\ attached \/ files > 0 => phase = "live"

MInv == Pages /\ Doors

Live == AttachPhases = {"live"}

-----------------------------------------------------------------------------
LEMMA CostFacts ==
  /\ N_LUNIX_MSR - 1 \in Nat
  /\ \A n \in Nat : /\ Cost(n) \in Nat
                    /\ Cost(n + 1) = Cost(n) + (N_LUNIX_MSR - 1)
<1>1. N_LUNIX_MSR - 1 \in Nat
  BY ModuleAssumption
<1>2. ASSUME NEW d \in Nat, NEW n \in Nat
      PROVE  d * n \in Nat /\ d * (n + 1) = d * n + d
  BY SMT
<1> QED
  BY <1>1, <1>2 DEF Cost

LEMMA SensorFacts ==
  /\ lunix_sensor_cnt \in Nat /\ lunix_sensor_cnt > 0
  /\ lunix_sensor_cnt - 1 \in Sensor /\ 0 \in Sensor /\ 0 \in Msr
  /\ \A s \in Sensor : s \in Int /\ s >= 0 /\ s <= lunix_sensor_cnt - 1
BY ModuleAssumption DEF Sensor, Msr

LEMMA InitPages == Init => Pages
<1> SUFFICES ASSUME Init PROVE Pages
  OBVIOUS
<1>1. TypeOK
  <2>1. /\ msr_data \in [Sensor -> SUBSET Msr]
        /\ si_done \in Sensor \cup {-1} /\ phase = "unloaded"
    BY DEF Init, NoPages
  <2>2. files \in 0..MaxOpen /\ loads \in Nat /\ failures \in 0..loads /\ lost \in Nat
    BY ModuleAssumption DEF Init
  <2> QED
    BY <2>1, <2>2 DEF Init, TypeOK
<1>2. Counted /\ Building /\ Complete
  BY DEF Init, Counted, Loading, Building, Complete
<1>3. Accounted
  BY CostFacts DEF Init, Accounted
<1> QED
  BY <1>1, <1>2, <1>3 DEF Pages

LEMMA InsmodPages == Pages /\ Insmod => Pages'
<1> SUFFICES ASSUME Pages, Insmod PROVE Pages'
  OBVIOUS
<1>1. /\ phase = "unloaded" /\ phase' \in {"sensors", "unloaded"}
      /\ loads' = loads + 1
      /\ phase' = "sensors" => failures' = failures
      /\ phase' # "sensors" => failures' = failures + 1
      /\ si_done' = -1 /\ msr_data' = NoPages
      /\ UNCHANGED <<registrations, users, lost>>
  BY DEF Insmod, Fail
<1>2. TypeOK' /\ Counted'
  BY <1>1 DEF Pages, TypeOK, Counted, Loading, NoPages, registrations, users
<1>3. Building'
  <2>1. \A s \in Sensor : msr_data'[s] = {}
    BY <1>1 DEF NoPages
  <2>2. msr_data'[si_done' + 1] = 0..0 - 1
    BY <1>1, <2>1, SensorFacts
  <2>3. si_done' + 1 = 0 /\ \A s \in Sensor : ~(s <= si_done')
    BY <1>1, SensorFacts
  <2> QED
    BY <2>1, <2>2, <2>3, SensorFacts DEF Building
<1>4. Complete'
  BY <1>1 DEF Complete
<1>5. Accounted'
  <2>1. failures \in Nat /\ lost \in Nat /\ lost <= Cost(failures)
    BY <1>1 DEF Pages, TypeOK, Accounted
  <2>2. Cost(failures) <= Cost(failures')
    BY <1>1, <2>1, CostFacts
  <2> QED
    BY <1>1, <2>1, <2>2, CostFacts DEF Accounted
<1> QED
  BY <1>2, <1>3, <1>4, <1>5 DEF Pages

(* One page more: the next one, until the sensor has all.                  *)
LEMMA PageFacts ==
  ASSUME Pages, phase = "sensors"
  PROVE  LET s == si_done + 1
             i == Cardinality(msr_data[s])
         IN  /\ s \in Sensor /\ i \in Msr
             /\ msr_data[s] \cup {i} = 0..i
             /\ msr_data[s] \cup {i} \in SUBSET Msr
<1> DEFINE s == si_done + 1
<1>1. s \in Sensor
  BY DEF Pages, Building
<1>2. PICK k \in Msr : msr_data[s] = 0..k - 1
  BY DEF Pages, Building
<1>3. k \in Nat /\ k <= N_LUNIX_MSR - 1 /\ N_LUNIX_MSR \in Nat
  BY ModuleAssumption DEF Msr
<1>4. Cardinality(0..k - 1) = k
  <2>1. CASE k = 0
    BY <2>1, FS_EmptySet
  <2>2. CASE k > 0
    BY <1>3, <2>2, FS_Interval
  <2> QED
    BY <1>3, <2>1, <2>2
<1>5. (0..k - 1) \cup {k} = 0..k
  BY <1>3
<1>6. 0..k \in SUBSET Msr
  BY <1>3 DEF Msr
<1> QED
  BY <1>1, <1>2, <1>4, <1>5, <1>6

(* A page that cannot be had leaves the sensor it was for partial.         *)
LEMMA SensorFails ==
  ASSUME Pages, SensorInit, Fail("out_with_sensors"), UNCHANGED <<msr_data, si_done>>
  PROVE  Pages'
<1> DEFINE s == si_done + 1
<1>1. /\ phase = "sensors" /\ phase' = "out_with_sensors" /\ failures' = failures + 1
      /\ UNCHANGED <<si_done, msr_data, registrations, users, loads, lost>>
  BY DEF SensorInit, Fail
<1>2. TypeOK' /\ Counted'
  BY <1>1 DEF Pages, TypeOK, Counted, Loading, registrations, users
<1>3. Building' /\ Complete'
  BY <1>1 DEF Building, Complete
<1>4. s \in Sensor /\ s > si_done /\ Undone(s) /\ Partial(s)
  <2>1. s \in Sensor /\ s > si_done /\ Cardinality(msr_data[s]) \in Msr
    BY <1>1, PageFacts DEF Pages, TypeOK, Sensor
  <2>2. Partial(s)
    BY <2>1, ModuleAssumption DEF Partial, Msr
  <2>3. Undone(s)
    BY <1>1, <2>1, SensorFacts DEF Pages, Building, Undone, TypeOK
  <2> QED
    BY <2>1, <2>2, <2>3
<1>5. \E t \in Sensor : t > si_done' /\ Undone(t)' /\ Partial(t)'
  BY <1>1, <1>4 DEF Undone, Partial
<1>6. lost' + (N_LUNIX_MSR - 1) <= Cost(failures')
  <2>1. failures \in Nat /\ lost \in Nat /\ lost <= Cost(failures)
    BY <1>1 DEF Pages, TypeOK, Accounted
  <2> QED
    BY <1>1, <2>1, CostFacts
<1>7. Accounted'
  BY <1>1, <1>5, <1>6 DEF Accounted
<1> QED
  BY <1>2, <1>3, <1>7 DEF Pages

LEMMA SensorInitPages == Pages /\ SensorInit => Pages'
<1> SUFFICES ASSUME Pages, SensorInit PROVE Pages'
  OBVIOUS
<1> DEFINE s == si_done + 1
           i == Cardinality(msr_data[s])
<1>1. /\ s \in Sensor /\ i \in Msr /\ msr_data[s] \cup {i} = 0..i
      /\ msr_data[s] \cup {i} \in SUBSET Msr
  BY PageFacts DEF SensorInit
<1>2. phase = "sensors" /\ UNCHANGED <<registrations, users, loads, lost>>
  BY DEF SensorInit
<1>3. CASE Fail("out_with_sensors") /\ UNCHANGED <<msr_data, si_done>>
  BY <1>3, SensorFails
<1>4. CASE /\ msr_data' = [msr_data EXCEPT ![s] = @ \cup {i}]
           /\ si_done' = IF i = N_LUNIX_MSR - 1 THEN s ELSE si_done
           /\ phase' = IF si_done' = lunix_sensor_cnt - 1 THEN "ldisc" ELSE phase
           /\ UNCHANGED failures
  <2>1. /\ msr_data' \in [Sensor -> SUBSET Msr] /\ msr_data'[s] = 0..i
        /\ \A q \in Sensor : q # s => msr_data'[q] = msr_data[q]
    BY <1>1, <1>4 DEF Pages, TypeOK
  <2>2. /\ i \in Nat /\ i <= N_LUNIX_MSR - 1 /\ N_LUNIX_MSR \in Nat
        /\ s \in Nat /\ s <= lunix_sensor_cnt - 1 /\ lunix_sensor_cnt \in Nat
        /\ si_done \in Int /\ si_done = s - 1
    BY <1>1, ModuleAssumption DEF Msr, Sensor, Pages, TypeOK
  <2> HIDE DEF s, i
  <2>3. phase' \in {"sensors", "ldisc"} /\ si_done' \in Sensor \cup {-1}
    BY <1>1, <1>2, <1>4 DEF Pages, TypeOK
  <2>4. TypeOK' /\ Counted'
    BY <1>2, <1>4, <2>1, <2>3
       DEF Pages, TypeOK, Counted, Loading, registrations, users
  <2>5. Accounted'
    BY <1>2, <1>4, <2>3 DEF Pages, Accounted, Cost
  <2>6. /\ \A q \in Sensor : q < s => msr_data'[q] = Msr
        /\ \A q \in Sensor : q > s => msr_data'[q] = {}
    BY <1>2, <2>1, <2>2 DEF Pages, Building, Sensor
  <2>7. Building' /\ Complete'
    <3>1. CASE i < N_LUNIX_MSR - 1
      <4>1. si_done' = si_done
        BY <1>4, <2>2, <3>1
      <4>2. si_done # lunix_sensor_cnt - 1 /\ phase' = "sensors"
        BY <1>2, <1>4, <2>2, <4>1
      <4>3. i + 1 \in Msr /\ msr_data'[s] = 0..(i + 1) - 1
        BY <2>1, <2>2, <3>1 DEF Msr
      <4>4. si_done' + 1 = s
        BY <2>2, <4>1
      <4>5. /\ \A q \in Sensor : q <= si_done' => msr_data'[q] = Msr
            /\ \A q \in Sensor : q > si_done' + 1 => msr_data'[q] = {}
        BY <2>2, <2>6, <4>1, <4>4, SensorFacts
      <4>6. \E k \in Msr : msr_data'[si_done' + 1] = 0..k - 1
        BY <4>3, <4>4
      <4> QED
        BY <1>1, <4>2, <4>4, <4>5, <4>6 DEF Building, Complete
    <3>2. CASE i = N_LUNIX_MSR - 1
      <4>1. si_done' = s /\ msr_data'[s] = Msr
        BY <1>4, <2>1, <3>2 DEF Msr
      <4>2. CASE s = lunix_sensor_cnt - 1
        <5>1. phase' = "ldisc"
          BY <1>4, <4>1, <4>2
        <5>2. \A q \in Sensor : msr_data'[q] = Msr
          BY <2>2, <2>6, <4>1, <4>2, SensorFacts
        <5> QED
          BY <4>1, <4>2, <5>1, <5>2 DEF Building, Complete
      <4>3. CASE s # lunix_sensor_cnt - 1
        <5>1. phase' = "sensors"
          BY <1>2, <1>4, <4>1, <4>3
        <5>2. s + 1 \in Sensor
          BY <2>2, <4>3 DEF Sensor
        <5>3. msr_data'[s + 1] = 0..0 - 1
          BY <2>2, <2>6, <5>2
        <5>4. Building'
          BY <2>2, <2>6, <4>1, <5>2, <5>3, SensorFacts DEF Building
        <5> QED
          BY <5>1, <5>4 DEF Complete
      <4> QED
        BY <4>2, <4>3
    <3> QED
      BY <2>2, <3>1, <3>2
  <2> QED
    BY <2>4, <2>5, <2>7 DEF Pages
<1> QED
  BY <1>3, <1>4 DEF SensorInit

-----------------------------------------------------------------------------
(* Once the sensors are complete a failure costs nothing: they are all     *)
(* undone.                                                                 *)
LEMMA RegisterPages ==
  ASSUME Pages, phase \in {"ldisc", "region", "cdev"},
         UNCHANGED <<si_done, msr_data, users, loads, lost>>,
         ldisc' \in BOOLEAN, region' \in BOOLEAN, cdev' \in BOOLEAN,
         \/ phase' \in {"region", "cdev", "live"} /\ UNCHANGED failures
         \/ Fail("out_with_sensors") \/ Fail("out_with_ldisc")
  PROVE  Pages'
<1>1. /\ failures' \in {failures, failures + 1}
      /\ phase' \in {"region", "cdev", "live", "out_with_sensors", "out_with_ldisc"}
      /\ phase' \in {"region", "cdev", "live"} => failures' = failures
  BY DEF Fail
<1>2. failures \in Nat /\ failures < loads /\ loads \in Nat
  BY DEF Pages, TypeOK, Counted, Loading
<1>3. TypeOK' /\ Counted'
  BY <1>1, <1>2 DEF Pages, TypeOK, Counted, Loading, users
<1>4. Building' /\ Complete'
  BY <1>1 DEF Pages, Building, Complete
<1>5. lost' <= Cost(failures')
  <2>1. lost \in Nat /\ lost <= Cost(failures)
    BY DEF Pages, TypeOK, Accounted
  <2> QED
    BY <1>1, <1>2, <2>1, CostFacts
<1>6. \A s \in Sensor : ~(s > si_done')
  BY SensorFacts DEF Pages, Complete
<1>7. Accounted'
  BY <1>5, <1>6 DEF Accounted
<1> QED
  BY <1>3, <1>4, <1>7 DEF Pages

LEMMA RegistersPages ==
  Pages /\ (LdiscInit \/ RegisterRegion \/ CdevAdd) => Pages'
<1>1. ASSUME Pages, LdiscInit PROVE Pages'
  BY <1>1, RegisterPages DEF LdiscInit, Pages, TypeOK
<1>2. ASSUME Pages, RegisterRegion PROVE Pages'
  BY <1>2, RegisterPages DEF RegisterRegion, Pages, TypeOK
<1>3. ASSUME Pages, CdevAdd PROVE Pages'
  BY <1>3, RegisterPages DEF CdevAdd, Pages, TypeOK
<1> QED
  BY <1>1, <1>2, <1>3

LEMMA LdiscDestroyPages == Pages /\ LdiscDestroy => Pages'
<1> SUFFICES ASSUME Pages, LdiscDestroy PROVE Pages'
  OBVIOUS
<1> USE DEF LdiscDestroy, users, history
<1>1. TypeOK' /\ Counted'
  BY DEF Pages, TypeOK, Counted, Loading
<1>2. Building' /\ Complete'
  BY DEF Pages, Building, Complete
<1>3. \A s \in Sensor : ~(s > si_done')
  BY SensorFacts DEF Pages, Complete
<1>4. lost' <= Cost(failures')
  BY DEF Pages, Accounted
<1>5. Accounted'
  BY <1>3, <1>4 DEF Accounted
<1> QED
  BY <1>1, <1>2, <1>5 DEF Pages

(* What is left when the last sensor initialised is undone.                *)
LEMMA HeldPartial ==
  ASSUME TypeOK, NEW t \in Sensor, Partial(t),
         \A s \in Sensor : s # t => msr_data[s] = {}
  PROVE  Held \in Nat /\ Held <= N_LUNIX_MSR - 1
<1>1. msr_data[t] \in SUBSET Msr /\ IsFiniteSet(msr_data[t])
  <2>1. msr_data[t] \in SUBSET Msr
    BY DEF TypeOK
  <2>2. IsFiniteSet(Msr)
    BY ModuleAssumption, FS_Interval DEF Msr
  <2> QED
    BY <2>1, <2>2, FS_Subset
<1>2. {p \in Sensor \X Msr : p[2] \in msr_data[p[1]]} = {t} \X msr_data[t]
  BY <1>1
<1>3. /\ Cardinality({t} \X msr_data[t]) = Cardinality({t}) * Cardinality(msr_data[t])
      /\ Cardinality({t}) = 1
  BY <1>1, FS_Product, FS_Singleton
<1>4. Cardinality(msr_data[t]) \in Nat
  BY <1>1, FS_CardinalityType
<1>5. Held = Cardinality({t} \X msr_data[t])
  BY <1>2, Zenon DEF Held
<1>6. Held = Cardinality(msr_data[t])
  BY <1>3, <1>4, <1>5
<1> QED
  BY <1>4, <1>6 DEF Partial

LEMMA HeldNothing ==
  ASSUME TypeOK, \A s \in Sensor : msr_data[s] = {}
  PROVE  Held = 0
<1>1. {p \in Sensor \X Msr : p[2] \in msr_data[p[1]]} = {}
  OBVIOUS
<1> QED
  BY <1>1, FS_EmptySet DEF Held

LEMMA SensorDestroyPages == Pages /\ SensorDestroy => Pages'
<1> SUFFICES ASSUME Pages, SensorDestroy PROVE Pages'
  OBVIOUS
<1>1. /\ phase = "out_with_sensors" /\ phase' \in {"unloaded", "out_with_sensors"}
      /\ UNCHANGED <<registrations, users, loads, failures>>
  BY DEF SensorDestroy
<1>2. Counted' /\ Building' /\ Complete'
  BY <1>1 DEF Pages, Counted, Loading, Building, Complete
<1>3. si_done \in Int /\ failures \in Nat /\ lost \in Nat /\ Cost(failures) \in Nat
  BY SensorFacts, CostFacts DEF Pages, TypeOK
<1>4. CASE si_done >= 0
  <2>1. si_done \in Sensor /\ si_done - 1 \in Sensor \cup {-1}
    BY <1>4, ModuleAssumption DEF Pages, TypeOK, Sensor
  <2>2. /\ si_done' = si_done - 1 /\ msr_data' = [msr_data EXCEPT ![si_done] = {}]
        /\ UNCHANGED <<phase, lost>>
    BY <1>4 DEF SensorDestroy
  <2>3. TypeOK'
    BY <1>1, <2>1, <2>2 DEF Pages, TypeOK, registrations, users
  <2>4. /\ msr_data'[si_done] = {}
        /\ \A s \in Sensor : s # si_done => msr_data'[s] = msr_data[s]
        /\ \A s \in Sensor : s > si_done' <=> s > si_done \/ s = si_done
    BY <1>3, <2>1, <2>2, SensorFacts DEF Pages, TypeOK
  <2>5. ASSUME \A s \in Sensor : s > si_done => msr_data[s] = {}
        PROVE  \A s \in Sensor : s > si_done' => msr_data'[s] = {}
    BY <2>4, <2>5
  <2>6. ASSUME NEW t \in Sensor, t > si_done, Undone(t), Partial(t)
        PROVE  t > si_done' /\ Undone(t)' /\ Partial(t)'
    <3>1. t # si_done /\ msr_data'[t] = msr_data[t]
      BY <1>3, <2>4, <2>6, SensorFacts
    <3>2. t > si_done' /\ Partial(t)'
      BY <2>4, <2>6, <3>1 DEF Partial
    <3>3. Undone(t)'
      BY <2>4, <2>6 DEF Undone
    <3> QED
      BY <3>2, <3>3
  <2>7. Accounted'
    BY <1>1, <2>2, <2>5, <2>6 DEF Pages, Accounted
  <2> QED
    BY <1>2, <2>3, <2>7 DEF Pages
<1>5. CASE ~(si_done >= 0)
  <2>1. phase' = "unloaded" /\ lost' = lost + Held /\ UNCHANGED <<msr_data, si_done>>
    BY <1>5 DEF SensorDestroy
  <2>2. \A s \in Sensor : s > si_done
    BY <1>3, <1>5, SensorFacts
  <2>3. Held \in Nat /\ lost + Held <= Cost(failures)
    <3>1. CASE /\ \A s \in Sensor : s > si_done => msr_data[s] = {}
               /\ lost <= Cost(failures)
      <4>1. Held = 0
        BY <2>2, <3>1, HeldNothing DEF Pages
      <4> QED
        BY <1>3, <3>1, <4>1
    <3>2. CASE /\ \E t \in Sensor : t > si_done /\ Undone(t) /\ Partial(t)
               /\ lost + (N_LUNIX_MSR - 1) <= Cost(failures)
      <4>1. PICK t \in Sensor : Undone(t) /\ Partial(t)
        BY <3>2
      <4>2. \A s \in Sensor : s # t => msr_data[s] = {}
        BY <2>2, <4>1 DEF Undone
      <4>3. Held \in Nat /\ Held <= N_LUNIX_MSR - 1
        BY <4>1, <4>2, HeldPartial DEF Pages
      <4> QED
        BY <1>3, <3>2, <4>3, CostFacts
    <3> QED
      BY <1>1, <3>1, <3>2 DEF Pages, Accounted
  <2>4. TypeOK'
    BY <1>1, <1>3, <2>1, <2>3 DEF Pages, TypeOK, registrations, users
  <2>5. Accounted'
    BY <1>1, <2>1, <2>3 DEF Accounted
  <2> QED
    BY <1>2, <2>4, <2>5 DEF Pages
<1> QED
  BY <1>4, <1>5

LEMMA RmmodPages == Pages /\ Rmmod => Pages'
<1> SUFFICES ASSUME Pages, Rmmod PROVE Pages'
  OBVIOUS
<1> USE DEF Rmmod, users, history
<1>1. TypeOK' /\ Counted'
  BY SensorFacts DEF Pages, TypeOK, Counted, Loading
<1>2. Building' /\ Complete'
  BY DEF Pages, Building, Complete
<1>3. Accounted'
  BY DEF Pages, Accounted
<1> QED
  BY <1>1, <1>2, <1>3 DEF Pages

LEMMA UsersPages ==
  Pages /\ (OpenFile \/ CloseFile \/ Attach \/ Detach \/ UNCHANGED vars) => Pages'
<1> SUFFICES ASSUME Pages, OpenFile \/ CloseFile \/ Attach \/ Detach \/ UNCHANGED vars
             PROVE  Pages'
  OBVIOUS
<1>1. UNCHANGED <<phase, si_done, msr_data, ldisc, region, cdev, loads, failures, lost>>
  BY DEF OpenFile, CloseFile, Attach, Detach, registrations, history, vars
<1>2. attached' \in BOOLEAN /\ files' \in 0..MaxOpen
  <2>1. attached \in BOOLEAN /\ files \in 0..MaxOpen /\ MaxOpen \in Nat
    BY ModuleAssumption DEF Pages, TypeOK
  <2>2. CASE OpenFile \/ CloseFile
    BY <2>1, <2>2 DEF OpenFile, CloseFile
  <2>3. CASE Attach \/ Detach \/ UNCHANGED vars
    BY <2>1, <2>3 DEF Attach, Detach, vars
  <2> QED
    BY <2>2, <2>3
<1>3. TypeOK' /\ Counted'
  BY <1>1, <1>2 DEF Pages, TypeOK, Counted, Loading
<1>4. Building' /\ Complete'
  BY <1>1 DEF Pages, Building, Complete
<1>5. Accounted'
  BY <1>1 DEF Pages, Accounted, Undone, Partial, Cost
<1> QED
  BY <1>3, <1>4, <1>5 DEF Pages

LEMMA NextPages == Pages /\ [Next]_vars => Pages'
BY InsmodPages, SensorInitPages, RegistersPages, LdiscDestroyPages, SensorDestroyPages,
   RmmodPages, UsersPages DEF Next

(* The pages of the sensors are accounted for, whenever terminals attach.  *)
THEOREM PagesInvariance == Spec => []Pages
BY InitPages, NextPages, PTL DEF Spec

-----------------------------------------------------------------------------
(* The invariant of the users, who are not there while the module changes  *)
(* under them.                                                             *)
LEMMA UsersDoors ==
  Live /\ Pages /\ Doors /\ (OpenFile \/ CloseFile \/ Attach \/ Detach) => Doors'
<1> SUFFICES ASSUME Live, Pages, Doors, OpenFile \/ CloseFile \/ Attach \/ Detach
             PROVE  Doors'
  OBVIOUS
<1>1. UNCHANGED <<phase, ldisc, region, cdev>>
  BY DEF OpenFile, CloseFile, Attach, Detach, registrations
<1>2. attached' \/ files' > 0 => attached \/ files > 0 \/ phase = "live"
  <2>1. files \in Nat
    BY ModuleAssumption DEF Pages, TypeOK
  <2>2. CASE OpenFile
    BY <2>2 DEF OpenFile
  <2>3. CASE CloseFile
    BY <2>1, <2>3 DEF CloseFile
  <2>4. CASE Attach
    BY <2>4 DEF Attach, Live
  <2>5. CASE Detach
    BY <2>5 DEF Detach
  <2> QED
    BY <2>2, <2>3, <2>4, <2>5
<1> QED
  BY <1>1, <1>2 DEF Doors

(* No terminal holds the discipline when it is unregistered.               *)
LEMMA ModuleDoors ==
  /\ Pages /\ Doors
  /\ \/ Insmod \/ SensorInit \/ LdiscInit \/ RegisterRegion \/ CdevAdd
     \/ LdiscDestroy \/ SensorDestroy \/ Rmmod \/ UNCHANGED vars
  => Doors'
<1> USE DEF Doors, registrations, users, history, Fail
<1>1. ASSUME Pages, Doors, Insmod \/ SensorInit PROVE Doors'
  <2>1. phase \in {"unloaded", "sensors"} /\ UNCHANGED <<registrations, users>>
    BY <1>1 DEF Insmod, SensorInit
  <2> QED
    BY <1>1, <2>1
<1>2. ASSUME Pages, Doors, LdiscInit PROVE Doors'
  BY <1>2 DEF LdiscInit, Pages, TypeOK
<1>3. ASSUME Pages, Doors, RegisterRegion PROVE Doors'
  BY <1>3 DEF RegisterRegion, Pages, TypeOK
<1>4. ASSUME Pages, Doors, CdevAdd PROVE Doors'
  BY <1>4 DEF CdevAdd, Pages, TypeOK
<1>5. ASSUME Pages, Doors, LdiscDestroy PROVE Doors'
  BY <1>5 DEF LdiscDestroy, Pages, TypeOK
<1>6. ASSUME Pages, Doors, SensorDestroy PROVE Doors'
  BY <1>6 DEF SensorDestroy
<1>7. ASSUME Pages, Doors, Rmmod PROVE Doors'
  BY <1>7 DEF Rmmod
<1>8. ASSUME Pages, Doors, UNCHANGED vars PROVE Doors'
  BY <1>8 DEF vars
<1> QED
  BY <1>1, <1>2, <1>3, <1>4, <1>5, <1>6, <1>7, <1>8

LEMMA NextMInv == Live /\ MInv /\ [Next]_vars => MInv'
BY NextPages, UsersDoors, ModuleDoors DEF Next, MInv

LEMMA Inductive == Live /\ Spec => []MInv
<1> SUFFICES ASSUME Live PROVE Spec => []MInv
  OBVIOUS
<1>1. MInv /\ [Next]_vars => MInv'
  BY NextMInv
<1>2. Init => MInv
  BY InitPages DEF Init, Doors, MInv
<1> QED
  BY <1>1, <1>2, PTL DEF Spec

-----------------------------------------------------------------------------
(* The loops over sensors and measurements stay inside their arrays.       *)
THEOREM ModuleTypeCorrect == Spec => []TypeOK
<1>1. Pages => TypeOK
  BY DEF Pages
<1> QED
  BY <1>1, PagesInvariance, PTL

(* Loads that fail at any step lose the pages of one sensor each, at most: *)
(* out_with_sensors undoes every sensor but the one it failed in.          *)
THEOREM FailureCostsOneSensor == Spec => []LosesOneSensorAtMost
<1>1. Pages => LosesOneSensorAtMost
  <2> SUFFICES ASSUME Pages PROVE lost <= Cost(failures)
    BY DEF LosesOneSensorAtMost, Cost
  <2>1. failures \in Nat /\ lost \in Nat
    BY DEF Pages, TypeOK
  <2> QED
    BY <2>1, CostFacts DEF Pages, Accounted
<1> QED
  BY <1>1, PagesInvariance, PTL

(* Whoever may call the driver finds every buffer of every sensor: what    *)
(* init allocates before it registers, cleanup frees after it unregisters. *)
THEOREM BuffersBeforeUsers == AttachPhases = {"live"} /\ Spec => []UsersHaveBuffers
<1>1. MInv => UsersHaveBuffers
  BY DEF MInv, Pages, Complete, Doors, UsersHaveBuffers
<1> QED
  BY <1>1, Inductive, PTL DEF Live

(* Nothing of a module that is not loaded is left with the kernel.         *)
THEOREM UndoneCompletely == AttachPhases = {"live"} /\ Spec => []NothingRegistered
<1>1. MInv => NothingRegistered
  BY DEF MInv, Doors, NothingRegistered
<1> QED
  BY <1>1, Inductive, PTL DEF Live
=============================================================================
