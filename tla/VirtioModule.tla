---------------------------- MODULE VirtioModule ----------------------------
(***************************************************************************)
(* The life of the virtio-cryptodev guest module and of the devices it     *)
(* drives (guest/crypto-module.c): insmod registers the character device,  *)
(* then the list of devices, then the driver; devices are plugged and      *)
(* unplugged; processes open and close files meanwhile.  What a file does  *)
(* with its device is VirtioCrypto.                                        *)
(***************************************************************************)
EXTENDS Integers, FiniteSets

CONSTANTS
  Procs,              \* processes that open files
  Devs,               \* virtio devices QEMU may plug in
  Structs,            \* struct crypto_device, each allocated once (a bound)
  CRYPTO_NR_DEVICES,  \* minors that have a device node (32)
  MaxLoads,           \* bound: times the module is inserted
  None

ASSUME ModuleAssumption ==
  /\ IsFiniteSet(Structs) /\ None \notin Structs
  /\ CRYPTO_NR_DEVICES \in Nat \ {0} /\ MaxLoads \in Nat

VARIABLES
  mod,          \* how far init and fini are
  loads,        \* times init has run
  inited,       \* the list of devices and its lock are initialised
  next_minor,
  devs,         \* the list: structs
  minor,        \* per struct
  plugged,      \* devices on the bus
  priv,         \* per device: the struct of the bound driver
  fresh, heap,  \* structs never allocated, and allocated ones
  leaked,       \* history: structs of probes that failed
  pulled,       \* history: structs freed by unplugging
  pc, crdev,    \* per process: its file, and the device of the file
  late,         \* history: processes whose open began after insmod
  crashed       \* history: processes that used a list or a module not there

driver == <<inited, next_minor, devs, minor, priv, fresh, heap, leaked, pulled>>
files  == <<pc, crdev, late, crashed>>
vars   == <<mod, loads, plugged, driver, files>>

Init ==
  /\ mod = "out" /\ loads = 0 /\ inited = FALSE /\ next_minor = 0
  /\ devs = {} /\ minor = [c \in Structs |-> 0]
  /\ plugged \in SUBSET Devs /\ priv = [d \in Devs |-> None]
  /\ fresh = Structs /\ heap = {} /\ leaked = {} /\ pulled = {}
  /\ pc = [p \in Procs |-> "closed"] /\ crdev = [p \in Procs |-> None]
  /\ late = {} /\ crashed = {}

-----------------------------------------------------------------------------
(* init: crypto_chrdev_init, which undoes itself when it fails, ...        *)
Insmod ==
  /\ mod = "out" /\ loads < MaxLoads
  /\ mod' = "chrdev" /\ loads' = loads + 1
  /\ inited' = FALSE /\ next_minor' = 0 /\ devs' = {} /\ pulled' = {}
  /\ UNCHANGED <<minor, priv, fresh, heap, leaked, plugged, files>>

(* Broken variant: INIT_LIST_HEAD is left out. *)
InitListsForgotten ==
  /\ mod = "chrdev" /\ mod' = "lists"
  /\ UNCHANGED <<loads, driver, plugged, files>>

(* ... the list and its lock, ... *)
InitLists ==
  /\ mod = "chrdev" /\ mod' = "lists"
  /\ inited' = TRUE /\ devs' = {}
  /\ UNCHANGED <<loads, next_minor, minor, priv, fresh, heap, leaked, pulled,
                 plugged, files>>

(* ... and register_virtio_driver.                                         *)
RegisterDriver ==
  /\ mod = "lists" /\ mod' = "in"
  /\ UNCHANGED <<loads, driver, plugged, files>>

(* When that fails the module goes, whoever is in an open of it.           *)
RegisterFails ==
  /\ mod = "lists" /\ mod' = "out"
  /\ crashed' = crashed \cup {p \in Procs : pc[p] # "closed"}
  /\ pc' = [p \in Procs |-> "closed"]
  /\ UNCHANGED <<loads, driver, plugged, crdev, late>>

(* Broken variant: the driver stays registered. *)
FiniChrdevOnly ==
  /\ mod = "in" /\ \A p \in Procs : pc[p] = "closed"
  /\ mod' = "out"
  /\ UNCHANGED <<loads, driver, plugged, files>>

(* fini: rmmod is refused while files are open, and no file can be opened  *)
(* once it has started.  The character device goes first, ...              *)
Fini ==
  /\ mod = "in" /\ \A p \in Procs : pc[p] = "closed"
  /\ mod' = "fini"
  /\ UNCHANGED <<loads, driver, plugged, files>>

(* ... then unregister_virtio_driver returns, with all devices removed.    *)
Unregistered ==
  /\ mod = "fini" /\ \A d \in Devs : priv[d] = None
  /\ mod' = "out"
  /\ UNCHANGED <<loads, driver, plugged, files>>

-----------------------------------------------------------------------------
(* Broken variant: the lowest minor that is free. *)
ProbeLowest(d) == \E c \in fresh :
  /\ mod = "in" /\ d \in plugged /\ priv[d] = None
  /\ priv' = [priv EXCEPT ![d] = c]
  /\ LET n == CHOOSE k \in 0..Cardinality(devs) :
                /\ \A e \in devs : minor[e] # k
                /\ \A j \in 0..k - 1 : \E e \in devs : minor[e] = j
     IN  minor' = [minor EXCEPT ![c] = n]
  /\ devs' = devs \cup {c}
  /\ fresh' = fresh \ {c} /\ heap' = heap \cup {c}
  /\ UNCHANGED <<mod, loads, inited, next_minor, leaked, pulled, plugged, files>>

(* virtcons_probe. *)
Probe(d) == \E c \in fresh :
  /\ mod = "in" /\ d \in plugged /\ priv[d] = None
  /\ priv' = [priv EXCEPT ![d] = c]
  /\ minor' = [minor EXCEPT ![c] = next_minor] /\ next_minor' = next_minor + 1
  /\ devs' = devs \cup {c}
  /\ fresh' = fresh \ {c} /\ heap' = heap \cup {c}
  /\ UNCHANGED <<mod, loads, inited, leaked, pulled, plugged, files>>

(* The virtqueue is not found: the device stays without a driver and its   *)
(* struct is forgotten.  (Without memory for the struct nothing changes.)  *)
ProbeFails(d) == \E c \in fresh :
  /\ mod = "in" /\ d \in plugged /\ priv[d] = None
  /\ fresh' = fresh \ {c} /\ heap' = heap \cup {c}
  /\ leaked' = leaked \cup {c}
  /\ UNCHANGED <<mod, loads, inited, next_minor, devs, minor, priv, pulled,
                 plugged, files>>

(* virtcons_remove. *)
Remove(d) ==
  /\ priv[d] # None
  /\ devs' = devs \ {priv[d]}
  /\ priv' = [priv EXCEPT ![d] = None] /\ heap' = heap \ {priv[d]}
  /\ UNCHANGED <<inited, next_minor, minor, fresh, leaked>>

RemoveByFini(d) ==
  /\ mod = "fini" /\ Remove(d)
  /\ UNCHANGED <<mod, loads, pulled, plugged, files>>

Unplug(d) ==
  /\ d \in plugged /\ plugged' = plugged \ {d}
  /\ IF priv[d] = None THEN UNCHANGED driver
     ELSE Remove(d) /\ pulled' = pulled \cup {priv[d]}
  /\ UNCHANGED <<mod, loads, files>>

Plug(d) ==
  /\ plugged' = plugged \cup {d} /\ plugged' # plugged
  /\ UNCHANGED <<mod, loads, driver, files>>

-----------------------------------------------------------------------------
(* Broken variant: a file does not hold the module (.owner is missing), so *)
(* that it may be closed without the module knowing.                       *)
FindUnowned(p, n) ==
  /\ pc[p] = "opening" /\ inited
  /\ \E c \in devs : minor[c] = n /\ crdev' = [crdev EXCEPT ![p] = c]
  /\ pc' = [pc EXCEPT ![p] = "closed"]
  /\ UNCHANGED <<late, crashed>>

(* An open holds the module from here on; it has not looked at the list.   *)
OpenFile(p) ==
  /\ mod \in {"chrdev", "lists", "in"} /\ pc[p] = "closed" /\ p \notin crashed
  /\ pc' = [pc EXCEPT ![p] = "opening"]
  /\ late' = IF mod = "in" THEN late \cup {p} ELSE late \ {p}
  /\ UNCHANGED <<mod, loads, plugged, driver, crdev, crashed>>

(* get_crypto_dev_by_minor; the node the process opened has minor n.       *)
Find(p, n) ==
  /\ pc[p] = "opening" /\ inited
  /\ IF \E c \in devs : minor[c] = n
     THEN /\ crdev' = [crdev EXCEPT ![p] = CHOOSE c \in devs : minor[c] = n]
          /\ pc' = [pc EXCEPT ![p] = "open"]
     ELSE pc' = [pc EXCEPT ![p] = "closed"] /\ UNCHANGED crdev
  /\ UNCHANGED <<late, crashed>>

Opened(p) == \E n \in 0..CRYPTO_NR_DEVICES - 1 :
  Find(p, n) /\ UNCHANGED <<mod, loads, plugged, driver>>

(* The list head is still null; the process takes its hold of the module   *)
(* with it.                                                                *)
OpenCrashes(p) ==
  /\ pc[p] = "opening" /\ ~inited
  /\ crashed' = crashed \cup {p} /\ pc' = [pc EXCEPT ![p] = "dead"]
  /\ UNCHANGED <<mod, loads, plugged, driver, crdev, late>>

Close(p) ==
  /\ pc[p] = "open"
  /\ pc' = [pc EXCEPT ![p] = "closed"] /\ crdev' = [crdev EXCEPT ![p] = None]
  /\ UNCHANGED <<mod, loads, plugged, driver, late, crashed>>

Next ==
  \/ Insmod \/ InitLists \/ RegisterDriver \/ RegisterFails
  \/ Fini \/ Unregistered
  \/ \E d \in Devs : \/ Probe(d) \/ ProbeFails(d) \/ RemoveByFini(d)
                     \/ Unplug(d) \/ Plug(d)
  \/ \E p \in Procs : OpenFile(p) \/ Opened(p) \/ OpenCrashes(p) \/ Close(p)

Spec == Init /\ [][Next]_vars

-----------------------------------------------------------------------------
(* Type invariant; the devices in the list are those bound to the driver.  *)
TypeOK ==
  /\ mod \in {"out", "chrdev", "lists", "in", "fini"}
  /\ devs = {priv[d] : d \in {e \in Devs : priv[e] # None}}
  /\ devs \cup leaked \subseteq heap /\ heap \subseteq Structs \ fresh
  /\ minor \in [Structs -> 0..next_minor + Cardinality(Structs)]
  /\ pc \in [Procs -> {"closed", "opening", "open", "dead"}]
  /\ crdev \in [Procs -> Structs \cup {None}]

(* A node keeps its meaning: a minor is not given to a second device while *)
(* the module is loaded, however many come and go.                         *)
MinorsNeverReused ==
  [][\A c \in devs' \ devs :
       \A e \in devs \cup pulled : minor'[c] # minor'[e]]_vars

(* The device of an open file is allocated, unless it was unplugged under  *)
(* the file (virtcons_remove asks nobody); rmmod never frees it.           *)
FileHasDevice ==
  \A p \in Procs : crdev[p] # None =>
    crdev[p] \in heap \/ crdev[p] \in pulled

(* What a module that is gone leaves in memory is what failed probes       *)
(* forgot, and no file of it is open.                                      *)
GoneWithoutTrace ==
  mod = "out" => heap = leaked /\ \A p \in Procs : crdev[p] = None

(* The character device is usable before the list of devices is: opens     *)
(* that begin in this window may crash, later ones never do.               *)
CrashOnlyDuringInit == crashed \cap late = {}
=============================================================================
