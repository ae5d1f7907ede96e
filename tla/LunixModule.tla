---------------------------- MODULE LunixModule ----------------------------
(***************************************************************************)
(* Loading and unloading the Lunix:TNG module (lunix-module.c, the init    *)
(* and destroy functions of lunix-sensors.c, lunix-ldisc.c and             *)
(* lunix-chrdev.c), step by step, while users open the device and set the  *)
(* line discipline.  Every allocation and registration may fail.           *)
(***************************************************************************)
EXTENDS Integers, FiniteSets

CONSTANTS
  lunix_sensor_cnt,
  N_LUNIX_MSR,
  MaxLoads,            \* bound: attempts to load the module
  MaxOpen,             \* bound: open files
  AttachPhases         \* when a terminal may take a registered discipline

ASSUME ModuleAssumption ==
  /\ lunix_sensor_cnt \in Nat \ {0} /\ N_LUNIX_MSR \in Nat \ {0}
  /\ MaxLoads \in Nat /\ MaxOpen \in Nat
  /\ AttachPhases \subseteq {"region", "cdev", "live"}

Sensor == 0..lunix_sensor_cnt - 1
Msr    == 0..N_LUNIX_MSR - 1

VARIABLES
  phase,        \* the next statement of init, of its undoing or of cleanup
  si_done,      \* local: last sensor initialised
  msr_data,     \* per sensor, measurements that have their page
  ldisc,        \* the line discipline is registered
  region, cdev, \* the device numbers and the character device are
  attached,     \* a terminal has the discipline
  files,        \* open files of the device
  loads, failures,   \* history: attempts to load, and how many failed
  lost          \* history: pages nobody points to any more

vars == <<phase, si_done, msr_data, ldisc, region, cdev, attached, files,
          loads, failures, lost>>
registrations == <<ldisc, region, cdev>>
users   == <<attached, files>>
history == <<loads, failures, lost>>

NoPages == [s \in Sensor |-> {}]

Init ==
  /\ phase = "unloaded" /\ si_done = -1 /\ msr_data = NoPages
  /\ ldisc = FALSE /\ region = FALSE /\ cdev = FALSE
  /\ attached = FALSE /\ files = 0
  /\ loads = 0 /\ failures = 0 /\ lost = 0

-----------------------------------------------------------------------------
Fail(label) == phase' = label /\ failures' = failures + 1

(* lunix_module_init.  The module's own data start afresh on every load.   *)
Insmod ==
  /\ phase = "unloaded" /\ loads < MaxLoads
  /\ loads' = loads + 1
  /\ \/ phase' = "sensors" /\ UNCHANGED failures
     \/ Fail("unloaded")                                  \* kzalloc fails
  /\ si_done' = -1 /\ msr_data' = NoPages
  /\ UNCHANGED <<registrations, users, lost>>

(* One iteration of lunix_sensor_init; the last one ends the sensor.       *)
SensorInit ==
  LET s == si_done + 1
      i == Cardinality(msr_data[s])
  IN  /\ phase = "sensors"
      /\ \/ /\ msr_data' = [msr_data EXCEPT ![s] = @ \cup {i}]
            /\ si_done' = IF i = N_LUNIX_MSR - 1 THEN s ELSE si_done
            /\ phase' = IF si_done' = lunix_sensor_cnt - 1 THEN "ldisc"
                                                           ELSE phase
            /\ UNCHANGED failures
         \/ /\ Fail("out_with_sensors")
            /\ UNCHANGED <<msr_data, si_done>>
      /\ UNCHANGED <<registrations, users, loads, lost>>

LdiscInit ==
  /\ phase = "ldisc"
  /\ \/ ldisc' = TRUE /\ phase' = "region" /\ UNCHANGED failures
     \/ Fail("out_with_sensors") /\ UNCHANGED ldisc
  /\ UNCHANGED <<si_done, msr_data, region, cdev, users, loads, lost>>

(* lunix_chrdev_init. *)
RegisterRegion ==
  /\ phase = "region"
  /\ \/ region' = TRUE /\ phase' = "cdev" /\ UNCHANGED failures
     \/ Fail("out_with_ldisc") /\ UNCHANGED region
  /\ UNCHANGED <<si_done, msr_data, ldisc, cdev, users, loads, lost>>

CdevAdd ==
  /\ phase = "cdev"
  /\ \/ cdev' = TRUE /\ phase' = "live" /\ UNCHANGED <<region, failures>>
     \/ Fail("out_with_ldisc") /\ region' = FALSE /\ UNCHANGED cdev
  /\ UNCHANGED <<si_done, msr_data, ldisc, users, loads, lost>>

(* tty_unregister_ldisc refuses while a terminal holds the discipline, and *)
(* lunix_ldisc_destroy does not look at its answer.                        *)
LdiscDestroy ==
  /\ phase = "out_with_ldisc"
  /\ ldisc' = attached
  /\ phase' = "out_with_sensors"
  /\ UNCHANGED <<si_done, msr_data, region, cdev, users, history>>

(* The pages the sensors still point to. *)
Held == Cardinality({p \in Sensor \X Msr : p[2] \in msr_data[p[1]]})

(* Broken variant: the loop stops before the first sensor. *)
SensorDestroyButFirst ==
  /\ phase = "out_with_sensors"
  /\ IF si_done > 0
     THEN /\ msr_data' = [msr_data EXCEPT ![si_done] = {}]
          /\ si_done' = si_done - 1
          /\ UNCHANGED <<phase, lost>>
     ELSE /\ phase' = "unloaded" /\ lost' = lost + Held
          /\ UNCHANGED <<msr_data, si_done>>
  /\ UNCHANGED <<registrations, users, loads, failures>>

(* out_with_sensors: the sensors initialised, last one first, and then the *)
(* array with whatever pages it still points to.                           *)
SensorDestroy ==
  /\ phase = "out_with_sensors"
  /\ IF si_done >= 0
     THEN /\ msr_data' = [msr_data EXCEPT ![si_done] = {}]
          /\ si_done' = si_done - 1
          /\ UNCHANGED <<phase, lost>>
     ELSE /\ phase' = "unloaded" /\ lost' = lost + Held
          /\ UNCHANGED <<msr_data, si_done>>
  /\ UNCHANGED <<registrations, users, loads, failures>>

(* Broken variant: cleanup leaves the chrdev for after the sensors.        *)
RmmodKeepsCdev ==
  /\ phase = "live" /\ ~attached /\ files = 0
  /\ phase' = "out_with_ldisc"
  /\ si_done' = lunix_sensor_cnt - 1
  /\ UNCHANGED <<msr_data, registrations, users, history>>

(* lunix_module_cleanup: the kernel unloads a module nobody uses.  Then    *)
(* the discipline and the sensors go, as when init is undone.              *)
Rmmod ==
  /\ phase = "live" /\ ~attached /\ files = 0
  /\ cdev' = FALSE /\ region' = FALSE             \* lunix_chrdev_destroy
  /\ phase' = "out_with_ldisc"
  /\ si_done' = lunix_sensor_cnt - 1
  /\ UNCHANGED <<msr_data, ldisc, users, history>>

-----------------------------------------------------------------------------
(* The users: the kernel lets them in once something is registered, holds  *)
(* the module for them, and turns them away from one being unloaded.       *)
OpenFile ==
  /\ cdev /\ phase = "live" /\ files < MaxOpen
  /\ files' = files + 1
  /\ UNCHANGED <<phase, si_done, msr_data, registrations, attached, history>>

CloseFile ==
  /\ files > 0
  /\ files' = files - 1
  /\ UNCHANGED <<phase, si_done, msr_data, registrations, attached, history>>

Attach ==
  /\ ldisc /\ ~attached /\ phase \in AttachPhases
  /\ attached' = TRUE
  /\ UNCHANGED <<phase, si_done, msr_data, registrations, files, history>>

Detach ==
  /\ attached
  /\ attached' = FALSE
  /\ UNCHANGED <<phase, si_done, msr_data, registrations, files, history>>

Next ==
  \/ Insmod \/ SensorInit \/ LdiscInit \/ RegisterRegion \/ CdevAdd
  \/ LdiscDestroy \/ SensorDestroy \/ Rmmod
  \/ OpenFile \/ CloseFile \/ Attach \/ Detach

Spec == Init /\ [][Next]_vars

-----------------------------------------------------------------------------
(* The loops of lunix_module_init and its undoing stay inside the array of *)
(* sensors and the pages of a sensor.                                      *)
TypeOK ==
  /\ phase \in {"unloaded", "sensors", "ldisc", "region", "cdev", "live",
                "out_with_ldisc", "out_with_sensors"}
  /\ si_done \in Sensor \cup {-1}
  /\ msr_data \in [Sensor -> SUBSET Msr]
  /\ ldisc \in BOOLEAN /\ region \in BOOLEAN /\ cdev \in BOOLEAN
  /\ attached \in BOOLEAN /\ files \in 0..MaxOpen
  /\ loads \in Nat /\ failures \in 0..loads /\ lost \in Nat

(* Whoever may call the driver, a file operation, a terminal or anyone the *)
(* kernel would let in, finds all the buffers of all the sensors there.    *)
UsersHaveBuffers ==
  ldisc \/ cdev \/ attached \/ files > 0 =>
    \A s \in Sensor : msr_data[s] = Msr

(* Loads, failures at any step and unloads in any order lose at most the   *)
(* pages of the one sensor whose initialisation failed.                    *)
LosesOneSensorAtMost == lost <= (N_LUNIX_MSR - 1) * failures

(* A module that is not loaded has nothing registered with the kernel.     *)
NothingRegistered == phase = "unloaded" => ~ldisc /\ ~region /\ ~cdev
=============================================================================
