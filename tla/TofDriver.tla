----------------------------- MODULE TofDriver -----------------------------
(***************************************************************************)
(* The VL53L1X distance sensor's kernel driver: loading and its unwinding, *)
(* probe, and driver_read's measurement, with several readers of the       *)
(* character device through VL53L1XKernelDriver.                           *)
(*                                                                         *)
(* The sensor ranges while started; when it has ranged it raises data      *)
(* ready, which stays until the interrupt is cleared, and the next ranging *)
(* waits for that.  A ranging has a number, so that a result can be told   *)
(* from an earlier one's.  A fault is a transfer that fails, a ranging     *)
(* that takes longer than all the polls, or a reader held up for a whole   *)
(* ranging before it stops the sensor.                                     *)
(***************************************************************************)
EXTENDS Integers, Sequences

CONSTANTS
  Readers,       \* processes that read the device
  MaxRanged,     \* bound: rangings
  MaxFaults      \* bound: faults

ConstantAssumption == MaxRanged \in Nat /\ MaxFaults \in Nat

VARIABLES
  stage,         \* the module: the registration mod_init is at, or what became of it
  registered,    \* what it has registered and not undone
  client,        \* vl53l1x_client set
  pc,            \* each reader: its place
  ret,           \* each reader: the number of the ranging read, 0 invalid, -1 error
  initialised, ranging, ready, ranged,   \* the sensor
  faults
\* History: rangings when the read began, distances older than their read,
\* and whether two readers ever measured at once.
VARIABLES began, stale, overlapped

moduleVars == <<stage, registered, client>>
sensorVars == <<initialised, ranging, ready, ranged>>
readerVars == <<pc, ret, began, stale, overlapped>>
vars == <<moduleVars, sensorVars, readerVars, faults>>

Fails == faults < MaxFaults /\ faults' = faults + 1
Works == UNCHANGED faults

-----------------------------------------------------------------------------
(* mod_init, mod_exit                                                      *)

Order == <<"region", "class", "device", "cdev", "adapter", "i2c_client", "driver">>
Loaded == Len(Order) + 1
Failed == 0
Unloaded == -1
Oopsed == -2

\* Registrations that answer a failure with an ERR_PTR, tested for NULL, or an
\* errno, compared with -1: mod_init goes on without them.
Unnoticed == {"device", "cdev", "i2c_client"}

\* What a failure that is noticed undoes.
err_cdev == {"region", "class", "device", "cdev"}
Undone(item) ==
  CASE item = "region"  -> {}
    [] item = "adapter" -> err_cdev
    [] item = "driver"  -> err_cdev \cup {"adapter", "i2c_client"}

\* A registration.  class_create's ERR_PTR is written through at once.
Register(i) ==
  /\ stage = i /\ i < Len(Order)
  /\ \/ Works /\ registered' = registered \cup {Order[i]} /\ stage' = i + 1
     \/ Fails /\ Order[i] \in Unnoticed /\ stage' = i + 1 /\ UNCHANGED registered
     \/ Fails /\ Order[i] = "class" /\ stage' = Oopsed /\ UNCHANGED registered
     \/ /\ Fails /\ Order[i] \in {"region", "adapter"}
        /\ registered' = registered \ Undone(Order[i]) /\ stage' = Failed
  /\ UNCHANGED <<client, sensorVars, readerVars>>

\* i2c_add_driver probes the client, if there is one: the sensor is initialised
\* with a ranging of its own, or the probe fails and leaves it as it may be; the
\* driver stays.
AddDriver ==
  /\ stage = Len(Order)
  /\ \/ /\ registered' = registered \cup {"driver"} /\ stage' = Loaded
        /\ client' = ("i2c_client" \in registered)
        /\ \/ Works /\ initialised' = client' /\ UNCHANGED <<ranging, ready, ranged>>
           \/ /\ client' /\ Fails
              /\ ranging' \in BOOLEAN /\ ready' \in BOOLEAN /\ UNCHANGED <<initialised, ranged>>
     \/ /\ Fails /\ registered' = registered \ Undone("driver") /\ stage' = Failed
        /\ UNCHANGED <<client, sensorVars>>
  /\ UNCHANGED readerVars

\* rmmod waits for open files; the adapter's reference is not given back.
Unload ==
  /\ stage = Loaded /\ \A r \in Readers : pc[r] = "closed"
  /\ stage' = Unloaded /\ registered' = registered \cap {"adapter"}
  /\ UNCHANGED <<client, sensorVars, readerVars, faults>>

-----------------------------------------------------------------------------
(* The sensor                                                              *)

Range ==
  /\ ranging /\ ~ready /\ ranged < MaxRanged
  /\ ready' = TRUE /\ ranged' = ranged + 1
  /\ IF \E r \in Readers : pc[r] = "stop" THEN Fails ELSE Works
  /\ UNCHANGED <<moduleVars, initialised, ranging, readerVars>>

-----------------------------------------------------------------------------
(* driver_read, one transfer at a time; readDistance opens and closes      *)

Measuring(r) == pc[r] \in {"wait", "status", "range", "clear", "stop"}

Goto(r, place, value) ==
  /\ pc' = [pc EXCEPT ![r] = place]
  /\ ret' = [ret EXCEPT ![r] = value]

\* The node and the character device behind it.
Open(r) ==
  /\ pc[r] = "closed" /\ {"device", "cdev"} \subseteq registered
  /\ pc' = [pc EXCEPT ![r] = "open"]
  /\ UNCHANGED <<moduleVars, sensorVars, ret, began, stale, overlapped, faults>>

\* Before a probe has run there is no client to transfer with.
Start(r) ==
  /\ pc[r] = "open" /\ ranged < MaxRanged
  /\ \/ ~client /\ Goto(r, "oops", -1) /\ Works /\ UNCHANGED <<ranging, began, overlapped>>
     \/ /\ client /\ Works /\ ranging' = TRUE /\ Goto(r, "wait", -1)
        /\ began' = [began EXCEPT ![r] = ranged]
        /\ overlapped' = (overlapped \/ \E q \in Readers \ {r} : Measuring(q))
     \/ client /\ Fails /\ Goto(r, "closed", -1) /\ UNCHANGED <<ranging, began, overlapped>>
  /\ UNCHANGED <<moduleVars, initialised, ready, ranged, stale>>

\* wait_data_ready: polls until ready; a transfer fails or the sensor is late;
\* or another reader has stopped the sensor, and time runs out.
WaitDataReady(r) ==
  /\ pc[r] = "wait"
  /\ \/ ready /\ Works /\ Goto(r, "status", -1)
     \/ Fails /\ Goto(r, "stop", -1)
     \/ ~ready /\ (~ranging \/ ranged = MaxRanged) /\ Works /\ Goto(r, "stop", -1)
  /\ UNCHANGED <<moduleVars, sensorVars, began, stale, overlapped>>

\* A failure here goes past the clearing of the interrupt.
ReadStatus(r) ==
  /\ pc[r] = "status"
  /\ \/ Works /\ (Goto(r, "range", -1) \/ Goto(r, "clear", 0))
     \/ Fails /\ Goto(r, "stop", -1)
  /\ UNCHANGED <<moduleVars, sensorVars, began, stale, overlapped>>

\* Bug: the way out of a good measurement skips the clearing.
BugNoClear == "stop"

AfterRange == "clear"

ReadRange(r) ==
  /\ pc[r] = "range"
  /\ \/ Works /\ Goto(r, AfterRange, ranged)
        /\ stale' = IF ranged = began[r] THEN stale + 1 ELSE stale
     \/ Fails /\ Goto(r, "clear", -1) /\ UNCHANGED stale
  /\ UNCHANGED <<moduleVars, sensorVars, began, overlapped>>

\* What the two last writes return is not looked at.
ClearInterrupt(r) ==
  /\ pc[r] = "clear" /\ pc' = [pc EXCEPT ![r] = "stop"]
  /\ \/ Works /\ ready' = FALSE
     \/ Fails /\ UNCHANGED ready
  /\ UNCHANGED <<moduleVars, initialised, ranging, ranged, ret, began, stale, overlapped>>

StopRanging(r) ==
  /\ pc[r] = "stop" /\ pc' = [pc EXCEPT ![r] = "closed"]
  /\ \/ Works /\ ranging' = FALSE
     \/ Fails /\ UNCHANGED ranging
  /\ UNCHANGED <<moduleVars, initialised, ready, ranged, ret, began, stale, overlapped>>

-----------------------------------------------------------------------------

Init ==
  /\ stage = 1 /\ registered = {} /\ client = FALSE
  /\ pc = [r \in Readers |-> "closed"] /\ ret = [r \in Readers |-> -1]
  /\ began = [r \in Readers |-> 0] /\ stale = 0 /\ overlapped = FALSE
  /\ initialised = FALSE /\ ranging = FALSE /\ ready = FALSE /\ ranged = 0 /\ faults = 0

driver_read(r) ==
  Start(r) \/ WaitDataReady(r) \/ ReadStatus(r) \/ ReadRange(r) \/ ClearInterrupt(r) \/ StopRanging(r)

Next ==
  \/ \E i \in 1 .. Len(Order) : Register(i)
  \/ AddDriver \/ Unload \/ Range
  \/ \E r \in Readers : Open(r) \/ driver_read(r)

Spec ==
  /\ Init /\ [][Next]_vars
  /\ WF_vars(Range) /\ \A r \in Readers : WF_vars(driver_read(r))

-----------------------------------------------------------------------------
(* Properties                                                              *)

\* Nothing is registered ahead of its turn, and a result is of a ranging.
TypeOK ==
  /\ stage \in Oopsed .. Loaded
  /\ stage > 0 => registered \subseteq {Order[i] : i \in 1 .. stage - 1}
  /\ \A r \in Readers : ret[r] \in -1 .. ranged

\* A load that returns an error leaves nothing registered, whatever failed
\* unnoticed before; only the oops at class_create leaves the region behind.
FailedLoadLeavesNothing ==
  /\ stage = Failed => registered = {}
  /\ stage = Oopsed => registered = {"region"}

\* Readers that take turns get an earlier ranging's distance at most once for
\* each fault.
EachFaultOneStaleRead == ~overlapped => stale <= faults

\* The invariants of the driver: a load that returns an error leaves nothing
\* behind, and a fault of the bus makes at most one read stale.
Safety == TypeOK /\ FailedLoadLeavesNothing /\ EachFaultOneStaleRead

=============================================================================
