------------------------- MODULE VirtioModuleProofs -------------------------
(* Machine-checked proofs about VirtioModule, for every set of processes   *)
(* and devices and any number of structs, minors and loads.                *)
EXTENDS VirtioModule, TLAPS

Types ==
  /\ mod \in {"out", "chrdev", "lists", "in", "fini"}
  /\ inited \in BOOLEAN /\ next_minor \in Nat
  /\ minor \in [Structs -> Nat]
  /\ priv \in [Devs -> Structs \cup {None}]
  /\ fresh \subseteq Structs /\ devs \subseteq Structs
  /\ pc \in [Procs -> {"closed", "opening", "open", "dead"}]
  /\ crdev \in [Procs -> Structs \cup {None}]

(* The list and the drivers' private pointers say the same, and what is    *)
(* allocated is in the list or forgotten.                                  *)
Bound ==
  /\ \A d \in Devs : priv[d] # None => priv[d] \in devs
  /\ \A c \in devs : \E d \in Devs : priv[d] = c
  /\ \A d, e \in Devs : priv[d] # None /\ priv[d] = priv[e] => d = e

Memory ==
  /\ heap = leaked \cup devs /\ leaked \cap devs = {}
  /\ fresh \cap (heap \cup pulled) = {}

(* What the steps of init and fini leave to each other.                    *)
Phases ==
  /\ mod \in {"out", "chrdev", "lists"} => devs = {}
  /\ mod \in {"out", "fini"} => \A p \in Procs : pc[p] = "closed"
  /\ mod = "chrdev" => ~inited
  /\ mod \in {"lists", "in"} => inited

(* Before the driver is registered no file is open, and who is opening one *)
(* began in the window.                                                    *)
Early ==
  mod \in {"chrdev", "lists"} =>
    \A p \in Procs : pc[p] # "closed" => pc[p] # "open" /\ p \notin late

Holding ==
  \A p \in Procs : crdev[p] # None =>
    pc[p] = "open" /\ crdev[p] \in devs \cup pulled

Numbered == \A c \in devs \cup pulled : c \in Structs /\ minor[c] < next_minor

VInv == /\ Types /\ Bound /\ Memory /\ Phases /\ Early /\ Holding /\ Numbered
        /\ CrashOnlyDuringInit

-----------------------------------------------------------------------------
LEMMA InitVInv == Init => VInv
<1> SUFFICES ASSUME Init PROVE VInv
  OBVIOUS
<1> USE ModuleAssumption DEF Init
<1>1. Types
  BY DEF Types
<1>2. Bound /\ Memory /\ Phases /\ Early /\ Holding /\ Numbered
  BY DEF Bound, Memory, Phases, Early, Holding, Numbered
<1>3. CrashOnlyDuringInit
  BY DEF CrashOnlyDuringInit
<1> QED
  BY <1>1, <1>2, <1>3 DEF VInv

(* The steps of init and fini touch no device.                             *)
LEMMA InsmodVInv == VInv /\ Insmod => VInv'
<1> SUFFICES ASSUME VInv, Insmod PROVE VInv'
  OBVIOUS
<1> USE DEF VInv, Insmod, files
<1>1. Types' /\ Bound' /\ Memory'
  BY DEF Types, Bound, Memory, Phases
<1>2. Phases' /\ Early' /\ CrashOnlyDuringInit'
  BY DEF Phases, Early, CrashOnlyDuringInit
<1>3. Holding' /\ Numbered'
  BY DEF Holding, Numbered, Phases, Types
<1> QED
  BY <1>1, <1>2, <1>3

LEMMA LoadVInv ==
  VInv /\ (InitLists \/ RegisterDriver \/ RegisterFails \/ Fini \/ Unregistered)
    => VInv'
<1> SUFFICES ASSUME VInv,
             InitLists \/ RegisterDriver \/ RegisterFails \/ Fini \/ Unregistered
             PROVE VInv'
  OBVIOUS
<1> USE DEF VInv, files, driver
<1>1. CASE InitLists
  BY <1>1 DEF InitLists, Types, Bound, Memory, Phases, Early, Holding, Numbered,
              CrashOnlyDuringInit
<1>2. CASE RegisterDriver
  BY <1>2 DEF RegisterDriver, Types, Bound, Memory, Phases, Early, Holding,
              Numbered, CrashOnlyDuringInit
<1>3. CASE RegisterFails
  <2> USE <1>3 DEF RegisterFails
  <2>1. Types' /\ Bound' /\ Memory' /\ Phases' /\ Early' /\ Numbered'
    BY DEF Types, Bound, Memory, Phases, Early, Numbered
  <2>2. Holding'
    BY DEF Holding, Early, Types
  <2>3. CrashOnlyDuringInit'
    BY DEF CrashOnlyDuringInit, Early
  <2> QED
    BY <2>1, <2>2, <2>3
<1>4. CASE Fini
  BY <1>4 DEF Fini, Types, Bound, Memory, Phases, Early, Holding, Numbered,
              CrashOnlyDuringInit
<1>5. CASE Unregistered
  <2> USE <1>5 DEF Unregistered
  <2>1. Types' /\ Bound' /\ Memory' /\ Early' /\ Holding' /\ Numbered'
        /\ CrashOnlyDuringInit'
    BY DEF Types, Bound, Memory, Early, Holding, Numbered, CrashOnlyDuringInit
  <2>2. devs = {}
    BY ModuleAssumption DEF Bound, Types
  <2>3. mod = "fini" /\ mod' = "out" /\ UNCHANGED <<devs, inited, pc>>
    OBVIOUS
  <2>4. Phases'
    BY <2>2, <2>3 DEF Phases
  <2> QED
    BY <2>1, <2>4
<1> QED
  BY <1>1, <1>2, <1>3, <1>4, <1>5

-----------------------------------------------------------------------------
(* A device is bound to a struct never allocated before, under a minor     *)
(* above those given out.                                                  *)
LEMMA ProbeVInv == \A d \in Devs : VInv /\ Probe(d) => VInv'
<1> SUFFICES ASSUME NEW d \in Devs, VInv, Probe(d) PROVE VInv'
  OBVIOUS
<1> PICK c \in fresh :
      /\ mod = "in" /\ d \in plugged /\ priv[d] = None
      /\ priv' = [priv EXCEPT ![d] = c]
      /\ minor' = [minor EXCEPT ![c] = next_minor] /\ next_minor' = next_minor + 1
      /\ devs' = devs \cup {c}
      /\ fresh' = fresh \ {c} /\ heap' = heap \cup {c}
      /\ UNCHANGED <<mod, loads, inited, leaked, pulled, plugged, files>>
  BY DEF Probe
<1> USE DEF VInv, files
<1>1. c \in Structs /\ c # None
  BY ModuleAssumption DEF Types
<1>2. c \notin heap /\ c \notin pulled /\ c \notin devs /\ c \notin leaked
  BY DEF Memory
<1>3. Types'
  BY <1>1 DEF Types
<1>4. Bound'
  <2>1. priv'[d] = c /\ \A e \in Devs : e # d => priv'[e] = priv[e]
    BY <1>1 DEF Types
  <2>2. \A e \in Devs : priv'[e] # None => priv'[e] \in devs'
    BY <2>1 DEF Bound
  <2>3. \A k \in devs' : \E e \in Devs : priv'[e] = k
    <3> TAKE k \in devs'
    <3>1. CASE k = c
      BY <2>1, <3>1
    <3>2. CASE k \in devs
      <4> PICK e \in Devs : priv[e] = k
        BY <3>2 DEF Bound
      <4>1. e # d
        BY <3>2, ModuleAssumption DEF Types
      <4> QED
        BY <2>1, <4>1
    <3> QED
      BY <3>1, <3>2
  <2>4. \A e \in Devs : e # d => priv'[e] # c
    BY <2>1, <1>1, <1>2 DEF Bound
  <2>5. \A e, f \in Devs : priv'[e] # None /\ priv'[e] = priv'[f] => e = f
    BY <2>1, <2>4 DEF Bound
  <2> QED
    BY <2>2, <2>3, <2>5 DEF Bound
<1>5. Memory' /\ Phases' /\ Early' /\ CrashOnlyDuringInit'
  BY <1>1, <1>2 DEF Memory, Phases, Early, CrashOnlyDuringInit
<1>6. Holding'
  BY DEF Holding
<1>7. Numbered'
  BY <1>1, <1>2 DEF Numbered, Types
<1> QED
  BY <1>3, <1>4, <1>5, <1>6, <1>7

LEMMA ProbeFailsVInv == \A d \in Devs : VInv /\ ProbeFails(d) => VInv'
BY DEF ProbeFails, VInv, files, Types, Bound, Memory, Phases, Early, Holding,
       Numbered, CrashOnlyDuringInit

(* A device goes: its struct is in the list, and no other device's.        *)
LEMMA RemoveFacts ==
  ASSUME VInv, NEW d \in Devs, Remove(d)
  PROVE  /\ priv[d] \in devs /\ Bound'
         /\ heap' = leaked' \cup devs' /\ leaked' \cap devs' = {}
<1>1. priv[d] \in devs /\ priv[d] \notin leaked
  BY DEF VInv, Bound, Memory, Remove
<1>2. Bound'
  BY ModuleAssumption, <1>1 DEF VInv, Types, Bound, Remove
<1> QED
  BY <1>1, <1>2 DEF VInv, Memory, Remove

LEMMA RemoveByFiniVInv == \A d \in Devs : VInv /\ RemoveByFini(d) => VInv'
<1> SUFFICES ASSUME NEW d \in Devs, VInv, RemoveByFini(d) PROVE VInv'
  OBVIOUS
<1>1. priv[d] \in devs /\ Bound' /\ Memory'
  BY RemoveFacts DEF RemoveByFini, Remove, VInv, Memory
<1>2. Types' /\ Phases' /\ Early' /\ Numbered' /\ CrashOnlyDuringInit'
  BY <1>1 DEF RemoveByFini, Remove, files, VInv, Types, Phases, Early, Numbered,
              CrashOnlyDuringInit
<1>3. Holding'
  BY DEF RemoveByFini, Remove, files, VInv, Holding, Phases
<1> QED
  BY <1>1, <1>2, <1>3 DEF VInv

LEMMA UnplugVInv == \A d \in Devs : VInv /\ Unplug(d) => VInv'
<1> SUFFICES ASSUME NEW d \in Devs, VInv, Unplug(d) PROVE VInv'
  OBVIOUS
<1>1. CASE priv[d] = None
  BY <1>1 DEF Unplug, driver, files, VInv, Types, Bound, Memory, Phases, Early,
              Holding, Numbered, CrashOnlyDuringInit
<1>2. CASE priv[d] # None
  <2>1. Remove(d) /\ pulled' = pulled \cup {priv[d]} /\ UNCHANGED <<mod, files>>
    BY <1>2 DEF Unplug
  <2>2. priv[d] \in devs /\ Bound' /\ Memory'
    BY <2>1, RemoveFacts DEF Remove, VInv, Memory
  <2>3. Types' /\ Phases' /\ Early' /\ Numbered' /\ CrashOnlyDuringInit'
    BY <2>1, <2>2 DEF Remove, files, VInv, Types, Phases, Early, Numbered,
                      CrashOnlyDuringInit
  <2>4. Holding'
    BY <2>1, <2>2 DEF Remove, files, VInv, Holding
  <2> QED
    BY <2>2, <2>3, <2>4 DEF VInv
<1> QED
  BY <1>1, <1>2

-----------------------------------------------------------------------------
LEMMA OpenFileVInv == \A p \in Procs : VInv /\ OpenFile(p) => VInv'
<1> SUFFICES ASSUME NEW p \in Procs, VInv, OpenFile(p) PROVE VInv'
  OBVIOUS
<1> USE DEF OpenFile, driver, VInv
<1>1. Types' /\ Bound' /\ Memory' /\ Numbered' /\ CrashOnlyDuringInit'
  BY DEF Types, Bound, Memory, Numbered, CrashOnlyDuringInit
<1>2. Phases' /\ Early' /\ Holding'
  BY DEF Types, Phases, Early, Holding
<1> QED
  BY <1>1, <1>2

(* A file can find a device only with the driver registered.               *)
LEMMA OpenedVInv == \A p \in Procs : VInv /\ Opened(p) => VInv'
<1> SUFFICES ASSUME NEW p \in Procs, NEW n \in 0..CRYPTO_NR_DEVICES - 1, VInv,
                    Find(p, n), UNCHANGED <<mod, loads, plugged, driver>>
             PROVE  VInv'
  BY DEF Opened
<1> USE DEF driver, VInv
<1>1. CASE \E c \in devs : minor[c] = n
  <2> DEFINE found == CHOOSE c \in devs : minor[c] = n
  <2>1. found \in devs
    BY <1>1
  <2>2. crdev' = [crdev EXCEPT ![p] = found] /\ pc' = [pc EXCEPT ![p] = "open"]
        /\ UNCHANGED <<late, crashed>> /\ pc[p] = "opening"
    BY <1>1 DEF Find
  <2> HIDE DEF found
  <2>3. Types' /\ Bound' /\ Memory' /\ Numbered' /\ CrashOnlyDuringInit'
    BY <2>1, <2>2 DEF Types, Bound, Memory, Numbered, CrashOnlyDuringInit
  <2>4. Phases' /\ Early' /\ Holding'
    BY <2>1, <2>2 DEF Types, Phases, Early, Holding
  <2> QED
    BY <2>3, <2>4
<1>2. CASE ~\E c \in devs : minor[c] = n
  BY <1>2 DEF Find, Types, Bound, Memory, Numbered, CrashOnlyDuringInit, Phases,
              Early, Holding
<1> QED
  BY <1>1, <1>2

LEMMA OpenCrashesVInv == \A p \in Procs : VInv /\ OpenCrashes(p) => VInv'
<1> SUFFICES ASSUME NEW p \in Procs, VInv, OpenCrashes(p) PROVE VInv'
  OBVIOUS
<1> USE DEF OpenCrashes, driver, VInv
<1>1. Types' /\ Bound' /\ Memory' /\ Numbered'
  BY DEF Types, Bound, Memory, Numbered
<1>2. mod = "chrdev"
  BY DEF Types, Phases
<1>3. CrashOnlyDuringInit'
  BY <1>2 DEF CrashOnlyDuringInit, Early
<1>4. Phases' /\ Early' /\ Holding'
  BY <1>2 DEF Types, Phases, Early, Holding
<1> QED
  BY <1>1, <1>3, <1>4

LEMMA CloseVInv == \A p \in Procs : VInv /\ Close(p) => VInv'
BY DEF Close, driver, VInv, Types, Bound, Memory, Numbered, CrashOnlyDuringInit,
       Phases, Early, Holding

LEMMA PlugVInv == \A d \in Devs : VInv /\ Plug(d) => VInv'
BY DEF Plug, driver, files, VInv, Types, Bound, Memory, Numbered,
       CrashOnlyDuringInit, Phases, Early, Holding

LEMMA StutterVInv == VInv /\ UNCHANGED vars => VInv'
BY DEF vars, driver, files, VInv, Types, Bound, Memory, Numbered,
       CrashOnlyDuringInit, Phases, Early, Holding

LEMMA NextVInv == VInv /\ [Next]_vars => VInv'
BY InsmodVInv, LoadVInv, ProbeVInv, ProbeFailsVInv, RemoveByFiniVInv, UnplugVInv,
   PlugVInv, OpenFileVInv, OpenedVInv, OpenCrashesVInv, CloseVInv, StutterVInv
   DEF Next

LEMMA Inductive == Spec => []VInv
BY InitVInv, NextVInv, PTL DEF Spec

-----------------------------------------------------------------------------
(* An open file has its device, unless that was unplugged under it.        *)
THEOREM FilesKeepDevices == Spec => []FileHasDevice
<1>1. VInv => FileHasDevice
  BY DEF VInv, Holding, Memory, FileHasDevice
<1> QED
  BY <1>1, Inductive, PTL

(* A module that is gone leaves the structs of failed probes, and no file. *)
THEOREM UnloadsCleanly == Spec => []GoneWithoutTrace
<1>1. VInv => GoneWithoutTrace
  BY DEF VInv, Holding, Memory, Phases, GoneWithoutTrace
<1> QED
  BY <1>1, Inductive, PTL

(* An open that begins after insmod never meets an uninitialised list.     *)
THEOREM LateOpensSafe == Spec => []CrashOnlyDuringInit
<1>1. VInv => CrashOnlyDuringInit
  BY DEF VInv
<1> QED
  BY <1>1, Inductive, PTL

(* A device node never comes to mean a second device while the module is   *)
(* loaded, however many devices are plugged and unplugged.                 *)
THEOREM NodesKeepMeaning == Spec => MinorsNeverReused
<1> DEFINE A == \A c \in devs' \ devs : \A e \in devs \cup pulled :
                  minor'[c] # minor'[e]
<1>1. ASSUME VInv, Next PROVE A
  <2>1. CASE \E d \in Devs : Probe(d)
    <3> PICK d \in Devs : Probe(d)
      BY <2>1
    <3> PICK c \in fresh :
          /\ minor' = [minor EXCEPT ![c] = next_minor]
          /\ devs' = devs \cup {c}
      BY DEF Probe
    <3>1. c \in Structs /\ c \notin devs \cup pulled
      BY <1>1 DEF VInv, Types, Memory
    <3>2. \A e \in devs \cup pulled : minor'[e] = minor[e] /\ minor[e] < next_minor
      BY <1>1, <3>1 DEF VInv, Types, Numbered
    <3>3. minor'[c] = next_minor /\ next_minor \in Nat
      BY <1>1, <3>1 DEF VInv, Types
    <3>4. \A e \in devs \cup pulled : minor'[e] \in Nat
      BY <1>1, <3>2 DEF VInv, Types, Numbered
    <3> QED
      BY <3>2, <3>3, <3>4
  <2>2. CASE ~\E d \in Devs : Probe(d)
    <3>1. devs' \subseteq devs
      BY <1>1, <2>2 DEF Next, Insmod, InitLists, RegisterDriver, RegisterFails, Fini,
           Unregistered, ProbeFails, RemoveByFini, Remove, Unplug, Plug, OpenFile,
           Opened, OpenCrashes, Close, driver
    <3> QED
      BY <3>1
  <2> QED
    BY <2>1, <2>2
<1>2. VInv /\ [Next]_vars => [A]_vars
  BY <1>1
<1> QED
  BY <1>2, Inductive, PTL DEF Spec, MinorsNeverReused
=============================================================================
