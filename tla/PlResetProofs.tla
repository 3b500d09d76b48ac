---------------------------- MODULE PlResetProofs ----------------------------
(***************************************************************************)
(* The reset driver, for any number of writers and bindings.               *)
(***************************************************************************)
EXTENDS PlReset, TLAPS

\* What is held at each place of the driver, and where stores may be: the file
\* is there only behind a complete probe, and the stores that have entered
\* through it hold remove back.
Stages ==
  /\ attribute # 0 => place = "bound" /\ attribute = probes
  /\ place = "unbound" => held = {}
  /\ place = "gpio" => held = {"priv"} /\ drvdata = TRUE
  /\ place \in {"file", "bound", "drain"} =>
       held = Resources /\ drvdata = TRUE /\ reset_gpiod = TRUE
  /\ \A w \in Writers :
       /\ writer[w] = "opened" => opened[w] # 0
       /\ Inside(w) => place \in {"bound", "drain"} /\ opened[w] = probes

\* The last store leaves the line as it should.
ResetInv == TypeOK /\ Stages /\ ReleasedAtRest

LEMMA InitReset == Init => ResetInv
  <1> SUFFICES ASSUME Init PROVE ResetInv
    OBVIOUS
  <1>1. TypeOK
    <2>1. probes \in 0 .. MaxProbes /\ attribute \in 0 .. MaxProbes
          /\ 0 \in 0 .. MaxProbes
      BY ResetAssumption DEF Init
    <2>2. drvdata \in BOOLEAN /\ reset_gpiod \in BOOLEAN /\ pulsed \in BOOLEAN
      BY Zenon DEF Init
    <2>3. writer \in [Writers -> WriterStates]
          /\ opened \in [Writers -> 0 .. MaxProbes]
      BY <2>1 DEF Init, WriterStates
    <2> QED BY <2>1, <2>2, <2>3 DEF Init, TypeOK, Places
  <1>2. Stages
    BY DEF Init, Stages, Inside
  <1>3. ReleasedAtRest
    BY DEF Init, ReleasedAtRest
  <1> QED BY <1>1, <1>2, <1>3 DEF ResetInv

\* Steps of the driver move no writer.
LEMMA DriverTyped ==
  ASSUME ResetInv, Driver
  PROVE  TypeOK' /\ UNCHANGED <<writer, opened>>
  <1>1. probes' \in 0 .. MaxProbes /\ attribute' \in 0 .. MaxProbes
    BY ResetAssumption
       DEF Driver, AllocatePriv, GetGpio, CreateFile, Remove, RemoveFile,
           Drained, Release, ResetInv, TypeOK
  <1>2. place' \in Places /\ held' \in SUBSET Resources
    BY DEF Driver, AllocatePriv, GetGpio, CreateFile, Remove, Drained, Release,
       ResetInv, TypeOK, Places, Resources
  <1>3. /\ drvdata' \in BOOLEAN /\ reset_gpiod' \in BOOLEAN
        /\ pulsed' \in BOOLEAN
    BY Zenon
       DEF Driver, AllocatePriv, GetGpio, CreateFile, Remove, Drained, Release,
           ResetInv, TypeOK
  <1>4. resetn' \in {0, 1} /\ UNCHANGED <<writer, opened>>
    BY DEF Driver, AllocatePriv, GetGpio, ProbeLevel, CreateFile, Remove,
       Drained, Release, ResetInv, TypeOK
  <1> QED BY <1>1, <1>2, <1>3, <1>4 DEF ResetInv, TypeOK

LEMMA DriverStages ==
  ASSUME ResetInv, Driver
  PROVE  Stages'
  <1>0. Stages /\ TypeOK /\ TypeOK' /\ UNCHANGED <<writer, opened>>
    BY DriverTyped DEF ResetInv
  <1>1. CASE AllocatePriv
    <2>1. /\ attribute' = attribute /\ attribute = 0
          /\ \A w \in Writers : ~Inside(w)
          /\ place = "unbound" /\ held = {}
      BY <1>0, <1>1 DEF AllocatePriv, Stages
    <2>2. \/ held' = {"priv"} /\ drvdata' = TRUE /\ place' = "gpio"
          \/ held' = {} /\ place' = "unbound"
      BY <1>1, <2>1 DEF AllocatePriv
    <2> QED BY <1>0, <2>1, <2>2 DEF Stages, Inside
  <1>2. CASE GetGpio
    <2>1. /\ UNCHANGED <<attribute, probes, drvdata>> /\ attribute = 0
          /\ \A w \in Writers : ~Inside(w)
          /\ place = "gpio" /\ held = {"priv"} /\ drvdata = TRUE
          /\ reset_gpiod' = TRUE
      BY <1>0, <1>2 DEF GetGpio, Stages
    <2>2. \/ held' = Resources /\ place' = "file"
          \/ place' = "release"
      BY <1>2, <2>1 DEF GetGpio, Resources
    <2> QED BY <1>0, <2>1, <2>2 DEF Stages, Inside
  <1>3. CASE CreateFile
    <2>1. /\ UNCHANGED <<probes, held, drvdata, reset_gpiod>>
          /\ attribute = 0 /\ \A w \in Writers : ~Inside(w)
          /\ place = "file"
      BY <1>0, <1>3 DEF CreateFile, Stages
    <2>2. \/ attribute' = probes /\ place' = "bound"
          \/ attribute' = attribute /\ place' = "release"
      BY <1>3 DEF CreateFile
    <2> QED BY <1>0, <2>1, <2>2 DEF Stages, Inside
  <1>4. CASE Remove
    BY <1>0, <1>4 DEF Remove, RemoveFile, Stages, Inside
  <1>5. CASE Drained
    BY <1>0, <1>5 DEF Drained, NobodyStores, Stages, Inside
  <1>6. CASE Release
    <2>1. /\ place = "release" /\ place' \in {"release", "unbound"}
          /\ place' = "unbound" => held' = {}
          /\ attribute' = attribute
      BY <1>6 DEF Release
    <2> QED BY <1>0, <2>1 DEF Stages, Inside
  <1> QED BY <1>1, <1>2, <1>3, <1>4, <1>5, <1>6 DEF Driver

LEMMA DriverReset ==
  ASSUME ResetInv, Driver
  PROVE  ResetInv'
  <1>0. TypeOK' /\ Stages' /\ Stages /\ ReleasedAtRest
        /\ UNCHANGED <<writer, opened>>
    BY DriverTyped, DriverStages DEF ResetInv
  <1>1. CASE GetGpio
    <2>1. \/ resetn' = 0 /\ pulsed' = FALSE
          \/ UNCHANGED <<held, resetn, pulsed>>
      BY <1>1 DEF GetGpio, ProbeLevel
    <2>2. CASE resetn' = 0 /\ pulsed' = FALSE
      <3>1. resetn' # 1
        BY <2>2
      <3>2. ReleasedAtRest'
        BY <2>2, <3>1, Zenon DEF ReleasedAtRest
      <3> QED BY <1>0, <3>2 DEF ResetInv
    <2>3. CASE UNCHANGED <<held, resetn, pulsed>>
      <3>1. ReleasedAtRest'
        BY <1>0, <2>3, Zenon DEF ReleasedAtRest, NobodyStores, Inside
      <3> QED BY <1>0, <3>1 DEF ResetInv
    <2> QED BY <2>1, <2>2, <2>3
  <1>2. CASE ~GetGpio
    <2>1. UNCHANGED <<resetn, pulsed>>
          /\ ("gpio" \in held' => "gpio" \in held)
      BY <1>2 DEF Driver, AllocatePriv, CreateFile, Remove, Drained, Release
    <2>2. ReleasedAtRest'
      BY <1>0, <2>1, Zenon DEF ReleasedAtRest, NobodyStores, Inside
    <2> QED BY <1>0, <2>2 DEF ResetInv
  <1> QED BY <1>1, <1>2

\* Steps of a writer outside its store.
LEMMA OutsideReset ==
  ASSUME ResetInv, NEW w \in Writers, Open(w) \/ Again(w)
  PROVE  ResetInv'
  <1>1. /\ UNCHANGED <<driver, resetn, pulsed>> /\ ~Inside(w)
        /\ \E s \in WriterStates \ {"entered", "low"} :
             /\ writer' = [writer EXCEPT ![w] = s]
             /\ \E f \in {opened[w], attribute} :
                  /\ opened' = [opened EXCEPT ![w] = f]
                  /\ s = "opened" => f # 0
    BY DEF Open, Again, At, Inside, WriterStates, ResetInv, TypeOK
  <1>2. TypeOK' /\ \A v \in Writers : Inside(v)' <=> Inside(v)
    BY <1>1 DEF ResetInv, TypeOK, Inside, driver
  <1>3. \A v \in Writers : /\ writer'[v] = "opened" => opened'[v] # 0
                           /\ Inside(v) => opened'[v] = opened[v]
    BY <1>1 DEF ResetInv, TypeOK, Stages
  <1>4. Stages'
    BY <1>1, <1>2, <1>3 DEF ResetInv, Stages, driver
  <1>5. ReleasedAtRest'
    BY <1>1, <1>2, Zenon DEF ResetInv, ReleasedAtRest, NobodyStores, driver
  <1> QED BY <1>2, <1>4, <1>5 DEF ResetInv

\* A store enters through the file of the driver that is bound.
LEMMA EnterReset ==
  ASSUME ResetInv, NEW w \in Writers, Enter(w)
  PROVE  ResetInv'
  <1>1. /\ UNCHANGED <<driver, resetn, opened, pulsed>> /\ writer[w] = "opened"
        /\ \/ writer' = [writer EXCEPT ![w] = "entered"]
              /\ attribute = opened[w]
           \/ writer' = [writer EXCEPT ![w] = "ERR_WRITE"]
    BY DEF Enter, At
  <1>2. TypeOK'
    BY <1>1 DEF ResetInv, TypeOK, WriterStates, driver
  <1>3. /\ Inside(w)' => place = "bound" /\ opened[w] = probes
        /\ \A v \in Writers : v # w => writer'[v] = writer[v]
        /\ writer'[w] # "opened" /\ ~Inside(w)
    BY <1>1 DEF ResetInv, TypeOK, Stages, Inside
  <1>4. Stages'
    BY <1>1, <1>3 DEF ResetInv, Stages, Inside, driver
  <1>5. \A v \in Writers : Inside(v) => Inside(v)'
    BY <1>3 DEF Inside
  <1>6. ReleasedAtRest'
    BY <1>1, <1>5, Zenon DEF ResetInv, ReleasedAtRest, NobodyStores, driver
  <1> QED BY <1>2, <1>4, <1>6 DEF ResetInv

\* A store that has entered finds what it dereferences.
LEMMA StoreLowReset ==
  ASSUME ResetInv, NEW w \in Writers, StoreLow(w)
  PROVE  ResetInv'
  <1>1. Inside(w) /\ drvdata = TRUE /\ reset_gpiod = TRUE
    BY DEF StoreLow, Inside, ResetInv, Stages
  <1>2. /\ UNCHANGED <<driver, opened, pulsed>> /\ resetn' = 0
        /\ writer' = [writer EXCEPT ![w] = "low"]
    BY <1>1, Zenon DEF StoreLow, At
  <1>3. TypeOK' /\ Inside(w)' /\ writer'[w] # "opened"
        /\ \A v \in Writers : v # w => writer'[v] = writer[v]
    BY <1>2 DEF ResetInv, TypeOK, WriterStates, Inside, driver
  <1>4. Stages'
    BY <1>1, <1>2, <1>3 DEF ResetInv, Stages, Inside, driver
  <1>5. ReleasedAtRest'
    BY <1>3 DEF ReleasedAtRest, NobodyStores
  <1> QED BY <1>3, <1>4, <1>5 DEF ResetInv

\* The store that ends last leaves the line high.
LEMMA StoreHighReset ==
  ASSUME ResetInv, NEW w \in Writers, StoreHigh(w)
  PROVE  ResetInv'
  <1>1. /\ UNCHANGED <<driver, opened>> /\ resetn' = 1 /\ pulsed' = TRUE
        /\ writer' = [writer EXCEPT ![w] = "ERR_NONE"]
    BY DEF StoreHigh, Deassert, At
  <1>2. TypeOK' /\ ~Inside(w)' /\ writer'[w] # "opened"
        /\ \A v \in Writers : v # w => writer'[v] = writer[v]
    BY <1>1 DEF ResetInv, TypeOK, WriterStates, Inside, driver
  <1>3. Stages'
    BY <1>1, <1>2 DEF ResetInv, Stages, Inside, driver
  <1>4. ReleasedAtRest'
    BY <1>1, Zenon DEF ReleasedAtRest
  <1> QED BY <1>2, <1>3, <1>4 DEF ResetInv

THEOREM ResetInvariance == Spec => []ResetInv
  <1>1. ResetInv /\ [Next]_vars => ResetInv'
    <2>1. ResetInv /\ UNCHANGED vars => ResetInv'
      BY DEF vars, driver, ResetInv, TypeOK, Stages, ReleasedAtRest,
         NobodyStores, Inside
    <2> QED BY <2>1, OutsideReset, EnterReset, StoreLowReset, StoreHighReset,
               DriverReset
            DEF Next, Store
  <1> QED BY InitReset, <1>1, PTL DEF Spec

\* However stores overlap with each other, with probe and with remove, the
\* logic ends up out of reset if and only if a store has finished.
THEOREM EndsReleased == Spec => []ReleasedAtRest
  <1>1. ResetInv => ReleasedAtRest
    BY DEF ResetInv
  <1> QED BY ResetInvariance, <1>1, PTL

\* A store finds the GPIO and priv held, at each of its steps, and they are of
\* the binding whose file it was written to.
THEOREM StoresUseHeld == Spec => []UsesOnlyHeld
  <1>1. ResetInv => UsesOnlyHeld
    BY DEF ResetInv, Stages, UsesOnlyHeld
  <1> QED BY ResetInvariance, <1>1, PTL

\* The guard of reset_store().
GuardPasses ==
  \A w \in Writers :
    writer[w] = "entered" => drvdata = TRUE /\ reset_gpiod = TRUE

\* Hence reset_store() never returns -EINVAL: its guard always passes.
THEOREM GuardNeverFails == Spec => []GuardPasses
  <1>1. ResetInv => GuardPasses
    BY DEF ResetInv, Stages, Inside, GuardPasses
  <1> QED BY ResetInvariance, <1>1, PTL

=============================================================================
