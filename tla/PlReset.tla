------------------------------ MODULE PlReset -------------------------------
(***************************************************************************)
(* The pl_reset driver: writing the sysfs attribute "reset" of the device  *)
(* pulses the reset line of the programmable logic, which is active low.   *)
(* Several processes may call reset_pl() of the user library at once; each *)
(* opens the attribute for itself, so their stores run concurrently, with  *)
(* each other and with the steps of probe and remove.                      *)
(*                                                                         *)
(* The kernel (not in the repository) is modelled by what the driver       *)
(* relies on: a store enters only through a file that was not removed,     *)
(* device_remove_file() waits for the stores that have entered, and what   *)
(* is device-managed is released, last acquired first, behind a failed     *)
(* probe and behind remove.                                                *)
(***************************************************************************)
EXTENDS Naturals, FiniteSets

CONSTANTS
  Writers,          \* processes that call reset_pl()
  MaxProbes         \* bound: how often the driver is probed

ASSUME ResetAssumption == MaxProbes \in Nat

VARIABLES
  probes,           \* calls of pl_reset_probe() so far
  place,            \* where the driver is: see Places
  held,             \* device-managed resources that are acquired
  drvdata,          \* whether dev_get_drvdata() is not null
  reset_gpiod,      \* whether priv->reset_gpiod is not null
  attribute,        \* the sysfs file: number of the probe that made it, or 0
  resetn,           \* level of the GPIO: 0 resets the logic
  writer,           \* where each writer is: see WriterStates
  opened,           \* the file that each writer has opened last
  pulsed            \* a store has finished since the GPIO was acquired

driver == <<probes, place, held, drvdata, reset_gpiod, attribute>>
vars == <<driver, resetn, writer, opened, pulsed>>

\* Probing goes on with the GPIO and with the file; remove waits in "drain".
Places == {"unbound", "gpio", "file", "bound", "drain", "release"}

Resources == {"priv", "gpio"}

\* "opened" holds a file open; "entered" is in reset_store(), and "low" in its
\* msleep(10).
WriterStates ==
  {"idle", "opened", "entered", "low",
   "ERR_NONE", "ERR_NO_DEVICE", "ERR_WRITE"}

Init ==
  /\ probes = 0
  /\ place = "unbound" /\ held = {}
  /\ drvdata = FALSE /\ reset_gpiod = FALSE
  /\ attribute = 0
  /\ resetn \in {0, 1}
  /\ writer = [w \in Writers |-> "idle"]
  /\ opened = [w \in Writers |-> 0]
  /\ pulsed = FALSE

-----------------------------------------------------------------------------
(* The driver.                                                             *)

\* pl_reset_probe() allocates priv, ...
AllocatePriv ==
  /\ place = "unbound"
  /\ probes < MaxProbes
  /\ probes' = probes + 1
  /\ \/ /\ held' = {"priv"} /\ drvdata' = TRUE /\ reset_gpiod' = FALSE
        /\ place' = "gpio"
     \/ UNCHANGED <<held, drvdata, reset_gpiod, place>>
  /\ UNCHANGED <<attribute, resetn, writer, opened, pulsed>>

\* Mutant: GPIOD_OUT_HIGH.
ProbeLevelHigh == 1

\* GPIOD_OUT_LOW: getting the GPIO drives it low.
ProbeLevel == 0

\* ... gets the GPIO, where a failure leaves an error pointer behind, ...
GetGpio ==
  /\ place = "gpio"
  /\ reset_gpiod' = TRUE
  /\ \/ /\ held' = held \union {"gpio"}
        /\ resetn' = ProbeLevel
        /\ pulsed' = FALSE
        /\ place' = "file"
     \/ place' = "release" /\ UNCHANGED <<held, resetn, pulsed>>
  /\ UNCHANGED <<probes, drvdata, attribute, writer, opened>>

\* ... and creates the file.
CreateFile ==
  /\ place = "file"
  /\ \/ attribute' = probes /\ place' = "bound"
     \/ UNCHANGED attribute /\ place' = "release"
  /\ UNCHANGED <<probes, held, drvdata, reset_gpiod, resetn, writer, opened,
                 pulsed>>

\* Mutant: pl_reset_remove() leaves the file there.
RemoveForgotten == UNCHANGED attribute

\* device_remove_file(): no store enters any more, ...
RemoveFile == attribute' = 0

Remove ==
  /\ place = "bound"
  /\ RemoveFile
  /\ place' = "drain"
  /\ UNCHANGED <<probes, held, drvdata, reset_gpiod, resetn, writer, opened,
                 pulsed>>

Inside(w) == writer[w] \in {"entered", "low"}

NobodyStores == \A w \in Writers : ~Inside(w)

\* ... and it returns when those that have entered are over.
Drained ==
  /\ place = "drain"
  /\ NobodyStores
  /\ place' = "release"
  /\ UNCHANGED <<probes, held, drvdata, reset_gpiod, attribute, resetn,
                 writer, opened, pulsed>>

\* The kernel gives the GPIO back, which keeps its level, and then priv.
Release ==
  /\ place = "release"
  /\ IF "gpio" \in held
     THEN held' = held \ {"gpio"} /\ UNCHANGED <<drvdata, place>>
     ELSE held' = {} /\ drvdata' = FALSE /\ place' = "unbound"
  /\ UNCHANGED <<probes, reset_gpiod, attribute, resetn, writer, opened,
                 pulsed>>

Driver ==
  AllocatePriv \/ GetGpio \/ CreateFile \/ Remove \/ Drained \/ Release

-----------------------------------------------------------------------------
(* reset_pl() and reset_store().                                           *)

At(w, s) == writer' = [writer EXCEPT ![w] = s]

Open(w) ==
  /\ writer[w] = "idle"
  /\ At(w, IF attribute # 0 THEN "opened" ELSE "ERR_NO_DEVICE")
  /\ opened' = [opened EXCEPT ![w] = attribute]
  /\ UNCHANGED <<driver, resetn, pulsed>>

\* write() enters reset_store(), or fails: the file that was opened is gone,
\* though the driver may be bound again.
Enter(w) ==
  /\ writer[w] = "opened"
  /\ At(w, IF attribute = opened[w] THEN "entered" ELSE "ERR_WRITE")
  /\ UNCHANGED <<driver, resetn, opened, pulsed>>

\* reset_store() up to its sleep, or -EINVAL.
StoreLow(w) ==
  /\ writer[w] = "entered"
  /\ IF drvdata /\ reset_gpiod
     THEN resetn' = 0 /\ At(w, "low")
     ELSE UNCHANGED resetn /\ At(w, "ERR_WRITE")
  /\ UNCHANGED <<driver, opened, pulsed>>

\* Mutant: the line stays low.
DeassertForgotten == UNCHANGED resetn

Deassert == resetn' = 1

\* reset_store() behind the sleep; write() returns.
StoreHigh(w) ==
  /\ writer[w] = "low"
  /\ Deassert
  /\ pulsed' = TRUE
  /\ At(w, "ERR_NONE")
  /\ UNCHANGED <<driver, opened>>

\* The process is done, or tries again.
Again(w) ==
  /\ writer[w] \in {"ERR_NONE", "ERR_NO_DEVICE", "ERR_WRITE"}
  /\ At(w, "idle")
  /\ UNCHANGED <<driver, resetn, opened, pulsed>>

Store(w) == StoreLow(w) \/ StoreHigh(w)

Next ==
  \/ Driver
  \/ \E w \in Writers : Open(w) \/ Enter(w) \/ Store(w) \/ Again(w)

Spec == Init /\ [][Next]_vars /\ \A w \in Writers : WF_vars(Store(w))

-----------------------------------------------------------------------------
(* Properties.                                                             *)

TypeOK ==
  /\ probes \in 0 .. MaxProbes
  /\ place \in Places
  /\ held \in SUBSET Resources
  /\ drvdata \in BOOLEAN /\ reset_gpiod \in BOOLEAN /\ pulsed \in BOOLEAN
  /\ attribute \in 0 .. MaxProbes
  /\ resetn \in {0, 1}
  /\ writer \in [Writers -> WriterStates]
  /\ opened \in [Writers -> 0 .. MaxProbes]

\* However stores overlap with each other, with probe and with remove: while
\* the driver has the GPIO and no store is under way, the logic is out of
\* reset if and only if a store has finished since.  Binding alone leaves it
\* in reset.
ReleasedAtRest ==
  "gpio" \in held /\ NobodyStores => (resetn = 1 <=> pulsed)

\* A store, which dereferences priv and drives the GPIO, runs only while both
\* are held, and only that of the binding whose file it was written to: the
\* file is created behind them and removed before them, whatever fails.
UsesOnlyHeld ==
  \A w \in Writers : Inside(w) => held = Resources /\ opened[w] = probes

\* A store that has entered drives the line low and high again, and reset_pl()
\* returns success: never -EINVAL, also when the driver is removed meanwhile.
EveryStoreReleases ==
  \A w \in Writers :
    writer[w] = "entered" ~> writer[w] = "ERR_NONE" /\ resetn = 1

\* pl_reset.c:23-25: a store asserts resetn, sleeps, and deasserts it.  So
\* resetn is low while a store sleeps.
LowWhileAsleep == \A w \in Writers : writer[w] = "low" => resetn = 0

=============================================================================
