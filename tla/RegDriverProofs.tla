--------------------------- MODULE RegDriverProofs ---------------------------
(***************************************************************************)
(* The register drivers, for any number of clients and registers and for   *)
(* whatever offsets the clients ask; and programs that use                 *)
(* axi_multiplier.c, any number of them at once and with any number of     *)
(* multipliers: the test is right about what it prints, and resets leave   *)
(* the multiplier running.  The theorems about the driver, up to Lands,    *)
(* rest on RegAssumption alone.                                            *)
(***************************************************************************)
EXTENDS AxiMultiplier, TLAPS

-----------------------------------------------------------------------------
(* Positions.                                                              *)

\* The handlers cut positions, all of which are shorter, to 32 bits.
LEMMA CutShort ==
  ASSUME NEW n \in Int
  PROVE  /\ n % Word \in 0 .. Word - 1
         /\ n \in 0 .. Word - 1 => n % Word = n
  BY RegAssumption

LEMMA RegistersShort ==
  /\ Registers \subseteq 0 .. Word - 1
  /\ MaxOffset \in Registers /\ 0 \in Registers
  BY RegAssumption DEF Registers

\* What the handlers take for valid is a register.
LEMMA ValidIsRegister ==
  ASSUME NEW n \in Int, RegIsValid(n % Word)
  PROVE  n % Word \in Registers
  BY CutShort DEF RegIsValid, Registers

-----------------------------------------------------------------------------
(* The driver.                                                             *)

\* What is held when a resource is the last that was acquired.
UpTo == [mem    |-> {"mem"},
         region |-> {"mem", "region"},
         cdev   |-> {"mem", "region", "cdev"},
         class  |-> {"mem", "region", "cdev", "class"},
         device |-> Resources]

\* What is held follows from where probe or remove is: the resources acquired
\* before the next one, or those not released yet.  When the first acquisition
\* fails there is nothing to release.
Holding ==
  \/ phase = "unbound" /\ next = "none" /\ held = {}
  \/ phase = "probing" /\ next \in Resources /\ held = UpTo[next] \ {next}
  \/ phase = "bound" /\ next = "none" /\ held = Resources
  \/ /\ phase = "releasing" /\ next \in Resources
     /\ held = UpTo[next] \/ (next = "mem" /\ held = {})

LEMMA UpToEach ==
  /\ UpTo["mem"] = {"mem"}
  /\ UpTo["region"] = {"mem", "region"}
  /\ UpTo["cdev"] = {"mem", "region", "cdev"}
  /\ UpTo["class"] = {"mem", "region", "cdev", "class"}
  /\ UpTo["device"] = Resources
  BY DEF UpTo

\* The order of acquisition is that of UpTo, and the labels behind a failed
\* acquisition continue there.
LEMMA Chain ==
  ASSUME NEW r \in Resources
  PROVE  /\ After[r] \in Resources \union {"none"}
         /\ Before[r] \in Resources \union {"none"}
         /\ UnwindFrom[r] \in Resources
         /\ After[r] = "none" <=> r = "device"
         /\ Before[r] = "none" <=> r = "mem"
         /\ r # "device" => UpTo[r] = UpTo[After[r]] \ {After[r]}
         /\ r # "mem" => UpTo[r] \ {r} = UpTo[Before[r]]
                          /\ UnwindFrom[r] = Before[r]
         /\ UpTo["mem"] \ {"mem"} = {} /\ UnwindFrom["mem"] = "mem"
         /\ r \in UpTo[r]
  BY UpToEach DEF Resources, After, Before, UnwindFrom

LEMMA InitHolding == Init => Holding
  BY DEF Init, Holding

LEMMA BindingHolding == ASSUME Holding, Binding PROVE Holding'
  <1>1. CASE Probe
    BY <1>1, UpToEach DEF Probe, Holding, Resources
  <1>2. CASE Acquire
    <2>1. /\ next \in Resources /\ held = UpTo[next] \ {next}
          /\ held' = held \union {next} /\ next' = After[next]
      BY <1>2 DEF Acquire, Holding
    <2>2. held' = UpTo[next]
      BY <2>1, Chain
    <2>3. CASE next = "device"
      BY <1>2, <2>1, <2>2, <2>3, Chain, UpToEach DEF Acquire, Holding
    <2>4. CASE next # "device"
      BY <1>2, <2>1, <2>2, <2>4, Chain DEF Acquire, Holding
    <2> QED BY <2>3, <2>4
  <1>3. CASE AcquireFails
    <2>1. /\ next \in Resources /\ held = UpTo[next] \ {next}
          /\ held' = held /\ next' = UnwindFrom[next] /\ phase' = "releasing"
      BY <1>3 DEF AcquireFails, Holding
    <2>2. CASE next = "mem"
      BY <2>1, <2>2, Chain DEF Holding
    <2>3. CASE next # "mem"
      BY <2>1, <2>3, Chain DEF Holding
    <2> QED BY <2>2, <2>3
  <1>4. CASE Remove
    BY <1>4, UpToEach DEF Remove, RemoveFrom, Holding, Resources
  <1>5. CASE Release
    <2>1. next \in Resources /\ held' = held \ {next} /\ next' = Before[next]
      BY <1>5 DEF Release, Holding
    <2>2. CASE next = "mem"
      BY <1>5, <2>1, <2>2, Chain, UpToEach DEF Release, Holding, Resources
    <2>3. CASE next # "mem"
      BY <1>5, <2>1, <2>3, Chain DEF Release, Holding
    <2> QED BY <2>2, <2>3
  <1> QED BY <1>1, <1>2, <1>3, <1>4, <1>5 DEF Binding

LEMMA ClientKeepsDevice ==
  ASSUME NEW c \in Clients, Client(c)
  PROVE  UNCHANGED device
  BY DEF Client, Open, Close, Lseek, Read, Write, Handler, Fault, Astray,
     Direct, device

LEMMA HoldingInvariance == Spec => []Holding
  <1>1. Holding /\ [Next]_vars => Holding'
    BY BindingHolding, ClientKeepsDevice DEF Next, vars, device, Holding
  <1> QED BY InitHolding, <1>1, PTL DEF Spec

\* After remove, and after a failure anywhere in probe, nothing is left.
THEOREM Leakless == Spec => []NothingLeaks
  <1>1. Holding => NothingLeaks
    BY DEF Holding, NothingLeaks
  <1> QED BY <1>1, HoldingInvariance, PTL

\* The node exists only while everything behind it does.
THEOREM Served == Spec => []NodeServed
  <1>1. Holding => NodeServed
    BY UpToEach DEF Holding, NodeServed, Resources
  <1> QED BY <1>1, HoldingInvariance, PTL

-----------------------------------------------------------------------------
(* The clients.                                                            *)

AccessTyped ==
  /\ file \in [Clients -> {"closed", "open", "asked"}]
  /\ pos \in [Clients -> Registers \union {MaxOffset + 4}]
  /\ want \in [Clients -> Asked \union {0}]
  /\ after \in [Clients -> Registers \union {MaxOffset + 4}]
  /\ access \in [kind : {"none", "read", "write"}, at : Registers,
                 want : Asked \union {0},
                 after : Registers \union {MaxOffset + 4}, direct : BOOLEAN]

\* An open file stands behind the register accessed last; between lseek() and
\* the access it stands at the register that was asked for, if there is one.
AccessInv ==
  /\ AccessTyped
  /\ \A c \in Clients :
       /\ file[c] = "open" => pos[c] = after[c]
       /\ file[c] = "asked" =>
            pos[c] = IF want[c] \in Registers THEN want[c] ELSE after[c]
  /\ access.kind = "write" => access.at # 0
  /\ LandsWhereAsked

\* Where no access was made, there is nothing to show of it.
LEMMA NoneLands ==
  ASSUME NoneMade
  PROVE  /\ access' \in [kind : {"none", "read", "write"}, at : Registers,
                        want : Asked \union {0},
                        after : Registers \union {MaxOffset + 4},
                        direct : BOOLEAN]
         /\ access'.kind # "write" /\ LandsWhereAsked'
  BY RegistersShort DEF NoneMade, NoAccess, LandsWhereAsked

LEMMA InitAccess == Init => AccessInv
  BY RegistersShort DEF Init, NoAccess, AccessInv, AccessTyped,
     LandsWhereAsked

\* axi_llseek() takes every register, and nothing else.
LEMMA LlseekLands ==
  ASSUME NEW old \in Registers \union {MaxOffset + 4}, NEW off \in Int
  PROVE  /\ Llseek(old, off) \in Registers \union {MaxOffset + 4}
         /\ off \in Registers => Llseek(old, off) = off
         /\ off \notin Registers => Llseek(old, off) = old
  BY RegAssumption DEF Llseek, Registers

\* What is permitted is an access to a register, the one the position names.
LEMMA PermittedRegister ==
  ASSUME AccessInv, NEW c \in Clients, NEW kind,
         Permitted(kind, pos[c] % Word)
  PROVE  /\ pos[c] \in Registers /\ pos[c] % Word = pos[c]
         /\ kind = "write" => pos[c] # 0
  <1>1. pos[c] \in Registers \union {MaxOffset + 4}
    BY DEF AccessInv, AccessTyped
  <1>2. pos[c] \in 0 .. Word - 1
    BY <1>1, RegAssumption DEF Registers
  <1>3. pos[c] % Word = pos[c]
    BY <1>2, CutShort
  <1>4. pos[c] \in Registers
    BY <1>1, <1>3, RegAssumption DEF Registers, RegIsValid, Permitted
  <1> QED BY <1>3, <1>4 DEF Permitted, RegIsWritable

LEMMA TouchStep ==
  ASSUME AccessInv, NEW c \in Clients, NEW kind \in {"read", "write"},
         file[c] = "asked", Permitted(kind, pos[c] % Word), Touch(c, kind)
  PROVE  /\ access' \in [kind : {"none", "read", "write"}, at : Registers,
                        want : Asked \union {0},
                        after : Registers \union {MaxOffset + 4},
                        direct : BOOLEAN]
         /\ access'.kind = "write" => access'.at # 0
         /\ LandsWhereAsked'
  <1>1. pos[c] \in Registers /\ pos[c] % Word = pos[c]
        /\ (kind = "write" => pos[c] # 0)
    BY PermittedRegister
  <1>2. access' = [kind |-> kind, at |-> pos[c], want |-> want[c],
                  after |-> after[c], direct |-> FALSE]
    BY <1>1 DEF Touch
  <1>3. /\ want[c] \in Asked \union {0}
        /\ after[c] \in Registers \union {MaxOffset + 4}
        /\ pos[c] = IF want[c] \in Registers THEN want[c] ELSE after[c]
    BY DEF AccessInv, AccessTyped
  <1> QED BY <1>1, <1>2, <1>3 DEF LandsWhereAsked

LEMMA SucceedsStep ==
  ASSUME AccessInv, NEW c \in Clients, NEW kind,
         Permitted(kind, pos[c] % Word), Succeeds(c)
  PROVE  /\ file' \in [Clients -> {"closed", "open", "asked"}]
         /\ pos' \in [Clients -> Registers \union {MaxOffset + 4}]
         /\ want' \in [Clients -> Asked \union {0}]
         /\ after' \in [Clients -> Registers \union {MaxOffset + 4}]
         /\ file'[c] = "open" /\ pos'[c] = pos[c] + 4
         /\ \A d \in Clients :
              /\ file'[d] = "open" => pos'[d] = after'[d]
              /\ file'[d] = "asked" =>
                   pos'[d] = IF want'[d] \in Registers THEN want'[d]
                             ELSE after'[d]
  <1>1. pos[c] \in Registers /\ pos[c] % Word = pos[c]
    BY PermittedRegister
  <1>2. pos[c] + 4 \in Registers \union {MaxOffset + 4}
    BY <1>1, RegAssumption DEF Registers
  <1>3. /\ file' = [file EXCEPT ![c] = "open"]
        /\ pos' = [pos EXCEPT ![c] = pos[c] + 4]
        /\ want' = [want EXCEPT ![c] = 0]
        /\ after' = [after EXCEPT ![c] = pos[c] + 4]
    BY <1>1 DEF Succeeds
  <1> QED BY <1>2, <1>3 DEF AccessInv, AccessTyped

LEMMA ClosedStep ==
  ASSUME AccessInv, NEW c \in Clients, Closed(c)
  PROVE  /\ file' \in [Clients -> {"closed", "open", "asked"}]
         /\ pos' \in [Clients -> Registers \union {MaxOffset + 4}]
         /\ want' \in [Clients -> Asked \union {0}]
         /\ after' \in [Clients -> Registers \union {MaxOffset + 4}]
         /\ \A d \in Clients :
              /\ file'[d] = "open" => pos'[d] = after'[d]
              /\ file'[d] = "asked" =>
                   pos'[d] = IF want'[d] \in Registers THEN want'[d]
                             ELSE after'[d]
  BY RegistersShort DEF Closed, AccessInv, AccessTyped

LEMMA DirectStep ==
  ASSUME AccessInv, NEW c \in Clients, NEW o \in Asked,
         NEW kind \in {"read", "write"}, Direct(c, kind, o)
  PROVE  AccessInv'
  <1>1. o % Word \in Registers /\ (kind = "write" => o % Word # 0)
    BY RegAssumption, ValidIsRegister DEF Direct, Permitted, RegIsWritable
  <1>2. /\ access' = [kind |-> kind, at |-> o % Word, want |-> o,
                     after |-> after[c], direct |-> TRUE]
        /\ UNCHANGED <<file, pos, want, after>>
    BY DEF Direct, clients
  <1> QED BY <1>1, <1>2 DEF AccessInv, AccessTyped, LandsWhereAsked

LEMMA ClientAccess ==
  ASSUME AccessInv, NEW c \in Clients, Client(c)
  PROVE  AccessInv'
  <1>1. CASE Open(c)
    BY <1>1, NoneLands, RegistersShort DEF Open, AccessInv, AccessTyped
  <1>2. CASE Close(c)
    BY <1>2, NoneLands, ClosedStep DEF Close, AccessInv, AccessTyped
  <1>3. ASSUME NEW o \in Asked, Lseek(c, o) PROVE AccessInv'
    <2>1. o \in Int
      BY RegAssumption
    <2>2. pos[c] \in Registers \union {MaxOffset + 4} /\ pos[c] = after[c]
      BY <1>3 DEF Lseek, AccessInv, AccessTyped
    <2>3. /\ Llseek(pos[c], o) \in Registers \union {MaxOffset + 4}
          /\ Llseek(pos[c], o) = IF o \in Registers THEN o ELSE after[c]
      BY <2>1, <2>2, LlseekLands
    <2> QED BY <1>3, <2>3, NoneLands DEF Lseek, AccessInv, AccessTyped
  <1>4. ASSUME NEW kind \in {"read", "write"}, Handler(c, kind)
        PROVE  AccessInv'
    <2>1. CASE Permitted(kind, pos[c] % Word)
      BY <1>4, <2>1, TouchStep, SucceedsStep
         DEF Handler, AccessInv, AccessTyped
    <2>2. CASE ~Permitted(kind, pos[c] % Word)
      BY <1>4, <2>2, NoneLands, ClosedStep
         DEF Handler, GiveUp, AccessInv, AccessTyped
    <2> QED BY <2>1, <2>2
  <1>5. CASE Fault(c)
    <2>1. CASE /\ Permitted("read", pos[c] % Word)
               /\ Touch(c, "read") /\ Closed(c)
      BY <1>5, <2>1, TouchStep, ClosedStep DEF Fault, AccessInv, AccessTyped
    <2>2. CASE GiveUp(c)
      BY <2>2, NoneLands, ClosedStep DEF GiveUp, AccessInv, AccessTyped
    <2> QED BY <1>5, <2>1, <2>2 DEF Fault
  <1>6. CASE Astray(c)
    <2>1. NoneMade /\ Permitted("read", pos[c] % Word)
      BY <1>6 DEF Astray
    <2>2. CASE Succeeds(c)
      BY <2>1, <2>2, NoneLands, SucceedsStep DEF AccessInv, AccessTyped
    <2>3. CASE Closed(c)
      BY <2>1, <2>3, NoneLands, ClosedStep DEF AccessInv, AccessTyped
    <2> QED BY <1>6, <2>2, <2>3 DEF Astray
  <1>7. CASE \E o \in Asked, kind \in {"read", "write"} : Direct(c, kind, o)
    BY <1>7, DirectStep
  <1> QED BY <1>1, <1>2, <1>3, <1>4, <1>5, <1>6, <1>7 DEF Client, Read, Write

LEMMA AccessInvariance == Spec => []AccessInv
  <1>1. ASSUME AccessInv, [Next]_vars PROVE AccessInv'
    <2>1. CASE Binding
      BY <1>1, <2>1, NoneLands
         DEF Binding, Probe, Acquire, AcquireFails, Remove, Release,
             clients, AccessInv, AccessTyped
    <2>2. CASE UNCHANGED vars
      BY <1>1, <2>2
         DEF vars, clients, AccessInv, AccessTyped, LandsWhereAsked
    <2> QED BY <1>1, <2>1, <2>2, ClientAccess DEF Next
  <1> QED BY InitAccess, <1>1, PTL DEF Spec

\* While the module is being unloaded no file is open: none was when it began,
\* and open() fails from then on.  Otherwise an open file is orphaned, or the
\* cdev is still there, behind which there is the data.
FatesInv ==
  /\ going \in BOOLEAN /\ (going => Unused)
  /\ freed \subseteq Clients /\ orphaned \subseteq Clients
  /\ \A c \in Clients :
       file[c] # "closed" /\ c \notin orphaned =>
         "cdev" \in held /\ c \notin freed

\* What a client's step does to its file.
LEMMA ClientFiles ==
  ASSUME AccessTyped, NEW c \in Clients, Client(c)
  PROVE  /\ \A d \in Clients \ {c} : file'[d] = file[d]
         /\ \/ Open(c)
            \/ UNCHANGED fate /\ file[c] # "closed"
            \/ /\ file'[c] = "closed" /\ file[c] # "closed"
               /\ freed' = freed \ {c} /\ orphaned' = orphaned \ {c}
  <1>1. CASE Open(c)
    BY <1>1 DEF Open, AccessTyped
  <1>2. ASSUME Closed(c), file[c] # "closed"
        PROVE  /\ \A d \in Clients \ {c} : file'[d] = file[d]
               /\ file'[c] = "closed" /\ file[c] # "closed"
               /\ freed' = freed \ {c} /\ orphaned' = orphaned \ {c}
    BY <1>2 DEF Closed, AccessTyped
  <1>3. ASSUME Succeeds(c), file[c] # "closed"
        PROVE  /\ \A d \in Clients \ {c} : file'[d] = file[d]
               /\ UNCHANGED fate /\ file[c] # "closed"
    BY <1>3 DEF Succeeds, AccessTyped
  <1>4. CASE Close(c)
    BY <1>2, <1>4 DEF Close
  <1>5. ASSUME NEW o \in Asked, Lseek(c, o)
        PROVE  /\ \A d \in Clients \ {c} : file'[d] = file[d]
               /\ UNCHANGED fate /\ file[c] # "closed"
    BY <1>5 DEF Lseek, AccessTyped
  <1>6. ASSUME NEW kind, Handler(c, kind)
        PROVE  file[c] # "closed" /\ (Closed(c) \/ Succeeds(c))
    BY <1>6 DEF Handler, GiveUp
  <1>7. CASE Fault(c)
    BY <1>2, <1>7 DEF Fault, GiveUp
  <1>8. CASE Astray(c)
    BY <1>2, <1>3, <1>8 DEF Astray
  <1>9. ASSUME NEW o \in Asked, NEW kind \in {"read", "write"},
               Direct(c, kind, o)
        PROVE  /\ \A d \in Clients \ {c} : file'[d] = file[d]
               /\ UNCHANGED fate /\ file[c] # "closed"
    BY <1>9 DEF Direct, clients
  <1> QED BY <1>1, <1>2, <1>3, <1>4, <1>5, <1>6, <1>7, <1>8, <1>9
          DEF Client, Read, Write

LEMMA FatesInvariance == Spec => []FatesInv
  <1>1. Init => FatesInv
    BY DEF Init, FatesInv, Unused, Using
  <1>2. ASSUME FatesInv, Holding, AccessTyped, [Next]_vars PROVE FatesInv'
    <2>1. CASE Release
      <3>0. /\ next \in Resources
            /\ held = UpTo[next] \/ (next = "mem" /\ held = {})
        BY <1>2, <2>1 DEF Release, Holding
      <3>1. /\ next \in Resources /\ held' = held \ {next} /\ going' = going
            /\ file' = file
            /\ orphaned' = orphaned \union
                             (IF next = "cdev" /\ ~going THEN Using ELSE {})
            /\ freed' = freed \union (IF next = "mem" THEN Using ELSE {})
        BY <2>1, <3>0 DEF Release, clients
      <3>2. Using \subseteq Clients
            /\ \A c \in Clients : c \in Using <=> file[c] # "closed"
        BY DEF Using
      <3>3. next = "mem" => "cdev" \notin held
        BY <3>0, UpToEach
      <3>4. ASSUME NEW c \in Clients, file'[c] # "closed", c \notin orphaned'
            PROVE  "cdev" \in held' /\ c \notin freed'
        <4>1. "cdev" \in held /\ c \notin freed /\ c \in Using
          BY <1>2, <3>1, <3>2, <3>4 DEF FatesInv
        <4>2. ~going
          BY <1>2, <4>1 DEF FatesInv, Unused
        <4> QED BY <3>1, <3>3, <3>4, <4>1, <4>2
      <3>5. going' \in BOOLEAN /\ (going' => Unused')
        BY <1>2, <3>1 DEF FatesInv, Unused, Using
      <3> QED BY <1>2, <3>1, <3>2, <3>4, <3>5 DEF FatesInv
    <2>2. CASE Probe \/ Acquire \/ AcquireFails \/ Remove
      <3>1. file' = file /\ UNCHANGED fate /\ held \subseteq held'
        BY <2>2 DEF Probe, Acquire, AcquireFails, Remove, clients
      <3>2. going' \in {FALSE, going} \/ (Unused /\ going' = TRUE)
        BY <2>2 DEF Probe, Acquire, AcquireFails, Remove
      <3>3. Unused' = Unused
        BY <3>1 DEF Unused, Using
      <3>4. going' \in BOOLEAN /\ (going' => Unused')
        <4>1. CASE going' = FALSE
          BY <4>1
        <4>2. CASE going' = going
          BY <1>2, <3>3, <4>2 DEF FatesInv
        <4>3. CASE Unused /\ going' = TRUE
          BY <3>3, <4>3
        <4> QED BY <3>2, <4>1, <4>2, <4>3
      <3> QED BY <1>2, <3>1, <3>4 DEF FatesInv, fate
    <2>3. ASSUME NEW c \in Clients, Client(c) PROVE FatesInv'
      <3>1. UNCHANGED <<going, held>>
        BY <2>3, ClientKeepsDevice DEF device
      <3>2. \A d \in Clients \ {c} : file'[d] = file[d]
        BY <1>2, <2>3, ClientFiles
      <3>3. CASE Open(c)
        <4>1. ~going /\ "cdev" \in held /\ "mem" \in held
          BY <1>2, <3>3, UpToEach DEF Open, Holding, Resources
        <4> QED BY <1>2, <3>1, <3>2, <3>3, <4>1 DEF Open, FatesInv
      <3>4. ASSUME file[c] # "closed"
            PROVE  ~going
        BY <1>2, <3>4 DEF FatesInv, Unused, Using
      <3>5. CASE UNCHANGED fate /\ file[c] # "closed"
        BY <1>2, <3>1, <3>2, <3>4, <3>5 DEF FatesInv, fate
      <3>6. CASE /\ file'[c] = "closed" /\ file[c] # "closed"
                 /\ freed' = freed \ {c} /\ orphaned' = orphaned \ {c}
        BY <1>2, <3>1, <3>2, <3>4, <3>6 DEF FatesInv
      <3> QED BY <1>2, <2>3, <3>3, <3>5, <3>6, ClientFiles
    <2>4. CASE UNCHANGED vars
      BY <1>2, <2>4 DEF vars, device, clients, fate, FatesInv, Unused, Using
    <2> QED BY <1>2, <2>1, <2>2, <2>3, <2>4 DEF Next, Binding
  <1>3. AccessInv => AccessTyped
    BY DEF AccessInv
  <1> QED BY <1>1, <1>2, <1>3, HoldingInvariance, AccessInvariance, PTL
          DEF Spec

\* Only a file that was open as the driver was unbound, or as a probe failed,
\* leads to freed data; unloading the module frees none under an open file.
THEOREM FilesServed == Spec => []NoUseAfterFree
  <1>1. FatesInv => NoUseAfterFree
    BY DEF FatesInv, NoUseAfterFree
  <1> QED BY <1>1, FatesInvariance, PTL

\* Every variable keeps its type; the position stays on the registers or right
\* behind them.
THEOREM RegTyped == Spec => []TypeOK
  <1>1. Holding /\ FatesInv /\ AccessInv => TypeOK
    BY UpToEach DEF Holding, FatesInv, AccessInv, AccessTyped, TypeOK,
       Resources
  <1> QED BY <1>1, HoldingInvariance, FatesInvariance, AccessInvariance, PTL

\* No call leaves the registers or writes the version.
THEOREM Bounded == Spec => []InBounds
  <1>1. AccessInv => InBounds
    BY DEF AccessInv, AccessTyped, InBounds
  <1> QED BY <1>1, AccessInvariance, PTL

\* A library call for a register accesses that one, whatever was called before;
\* any other call that accesses one hits the one behind the last.
THEOREM Lands == Spec => []LandsWhereAsked
  <1>1. AccessInv => LandsWhereAsked
    BY DEF AccessInv
  <1> QED BY <1>1, AccessInvariance, PTL

-----------------------------------------------------------------------------
(* Registers and values.                                                   *)

LEMMA RegistersOfMultiplier ==
  /\ {IP_VER, KILL} \subseteq Registers
  /\ Tested \subseteq Registers \ {IP_VER}
  /\ KILL # IP_VER /\ IP_VER = 0
  BY MultAssumption, RegAssumption DEF IP_VER, KILL, TEST_POINT, CHANNEL,
     MULT0, Multipliers, Tested, Registers

LEMMA Powers == 2^1 = 2 /\ 2^3 = 8 /\ 2^15 = 32768 /\ 2^16 = 65536
  OBVIOUS

LEMMA KeptBits ==
  ASSUME NEW o, NEW val
  PROVE  /\ Width(o) = 1 => Kept(o, val) = val % 2
         /\ Width(o) = 3 => Kept(o, val) = val % 8
         /\ Width(o) = 16 => Kept(o, val) = val % 65536
  <1>1. ASSUME Width(o) = 1 PROVE Kept(o, val) = val % 2
    <2>1. 2^Width(o) = 2^1
      BY <1>1
    <2>2. 2^Width(o) = 2
      BY <2>1, Powers
    <2> QED BY <2>2 DEF Kept
  <1>2. ASSUME Width(o) = 3 PROVE Kept(o, val) = val % 8
    <2>1. 2^Width(o) = 2^3
      BY <1>2
    <2>2. 2^Width(o) = 8
      BY <2>1, Powers
    <2> QED BY <2>2 DEF Kept
  <1>3. ASSUME Width(o) = 16 PROVE Kept(o, val) = val % 65536
    <2>1. 2^Width(o) = 2^16
      BY <1>3
    <2>2. 2^Width(o) = 65536
      BY <2>1, Powers
    <2> QED BY <2>2 DEF Kept
  <1> QED BY <1>1, <1>2, <1>3

LEMMA WidthBound ==
  ASSUME NEW o \in Registers \ {IP_VER}
  PROVE  2^Width(o) \in {2, 8, 65536}
  <1>1. Width(o) = 1 \/ Width(o) = 3 \/ Width(o) = 16
    BY DEF Width, IP_VER, KILL, TEST_POINT, CHANNEL
  <1>2. 2^Width(o) = 2^1 \/ 2^Width(o) = 2^3 \/ 2^Width(o) = 2^16
    BY <1>1
  <1> QED BY <1>2, Powers

\* No register holds more bits than it has, the version apart.
LEMMA KeptBounded ==
  ASSUME NEW o \in Registers \ {IP_VER}, NEW val \in Int
  PROVE  Kept(o, val) \in 0 .. 2^Width(o) - 1
  <1> DEFINE n == 2^Width(o)
  <1>1. Kept(o, val) = val % n
    BY DEF Kept
  <1>2. n \in {2, 8, 65536}
    BY WidthBound
  <1> HIDE DEF n
  <1>3. val % n \in 0 .. n - 1
    BY <1>2
  <1> QED BY <1>1, <1>3 DEF n

LEMMA WidthTested ==
  ASSUME NEW o \in Tested
  PROVE  Width(o) = IF o \in Multipliers THEN 16 ELSE 3
  BY DEF Tested, Multipliers, Width, IP_VER, KILL, TEST_POINT, CHANNEL, MULT0

\* A value that fits comes back.
LEMMA SeenKept ==
  ASSUME NEW o \in Tested, NEW val \in Int, Fits(o, val)
  PROVE  Seen(o, Kept(o, val)) = val
  <1>1. CASE o \in Multipliers
    <2>1. Kept(o, val) = val % 65536
      BY <1>1, WidthTested, KeptBits
    <2>2. val \in -(2^15) .. 2^15 - 1
      BY <1>1 DEF Fits
    <2>3. val >= -32768 /\ val <= 32767
      BY <2>2, Powers
    <2>4. val >= 0 => val % 65536 = val
      BY <2>3
    <2>6. val < 0 => val % 65536 = val + 65536
      BY <2>3
    <2>5. \A word :
            Seen(o, word) = IF word >= 32768 THEN word - 65536 ELSE word
      BY <1>1, Powers DEF Seen
    <2> QED BY <2>1, <2>3, <2>4, <2>5, <2>6
  <1>2. CASE o \notin Multipliers
    <2>1. Kept(o, val) = val % 8
      BY <1>2, WidthTested, KeptBits
    <2>2. val \in 0 .. 7
      BY <1>2 DEF Fits
    <2>3. val % 8 = val
      BY <2>2
    <2> QED BY <1>2, <2>1, <2>3 DEF Seen
  <1> QED BY <1>1, <1>2

\* What is read tells what is there.
LEMMA SeenTells ==
  ASSUME NEW o \in Tested, NEW word \in Nat, word < 65536
  PROVE  Seen(o, word) % 2^16 = word
  <1>1. Seen(o, word) \in {word, word - 65536}
    BY Powers DEF Seen
  <1>2. word % 65536 = word /\ (word - 65536) % 65536 = word
    OBVIOUS
  <1> QED BY <1>1, <1>2, Powers

-----------------------------------------------------------------------------
(* Calls.                                                                  *)

CallType == [kind : {"set", "get", "check"}, at : Asked, val : Int]

LEMMA Calls ==
  ASSUME NEW c \in Clients
  PROVE  /\ Program[c] \in Seq(CallType) /\ Len(Program[c]) \in Nat
         /\ DOMAIN Program[c] = 1 .. Len(Program[c])
         /\ \A k \in DOMAIN Program[c] : Program[c][k] \in CallType
  <1>1. Program[c] \in Seq(CallType)
    BY MultAssumption DEF CallType
  <1> QED BY <1>1

LEMMA SoundStep ==
  ASSUME NEW c \in Clients, NEW k \in Nat \ {0}
  PROVE  Sound(c, k) <=> /\ Sound(c, k - 1)
                         /\ Target(c, k) \in Registers
                         /\ Program[c][k].kind = "set" => Target(c, k) # IP_VER
  BY DEF Sound

\* Where the programs are.
PcInv ==
  /\ stage \in [Clients -> {"idle", "running", "done", "refused"}]
  /\ pc \in [Clients -> Nat]
  /\ \A c \in Clients :
       /\ pc[c] \in 1 .. Len(Program[c]) + 1
       /\ stage[c] = "idle" => pc[c] = 1
       /\ stage[c] = "done" => pc[c] = Len(Program[c]) + 1

\* A call under way is one of the program.
LEMMA CallTyped ==
  ASSUME PcInv, NEW c \in Clients, Calling(c)
  PROVE  pc[c] \in DOMAIN Program[c] /\ Program[c][pc[c]] \in CallType
  <1>1. pc[c] \in 1 .. Len(Program[c])
    BY Calls DEF PcInv, Calling
  <1> QED BY <1>1, Calls

\* Each step of a program is one of the driver and its clients.
LEMMA DriverStep == PcInv /\ [MultNext]_multVars => [Next]_vars
  <1>0. SUFFICES ASSUME PcInv, [MultNext]_multVars PROVE [Next]_vars
    OBVIOUS
  <1>1. ASSUME NEW c \in Clients, Step(c) PROVE [Next]_vars
    <2>1. Begin(c) \/ Finish(c) => Client(c) \/ UNCHANGED vars
      BY DEF Begin, Finish, Client
    <2>2. Seek(c) => Client(c)
      <3>1. SUFFICES ASSUME Seek(c) PROVE Client(c)
        OBVIOUS
      <3>2. Program[c][pc[c]].at \in Asked
        BY <1>0, <3>1, CallTyped DEF Seek, CallType
      <3> QED BY <3>1, <3>2 DEF Seek, Client
    <2>3. Put(c) \/ Take(c) => Client(c)
      BY DEF Put, Take, Client
    <2>4. CallLost(c) => UNCHANGED vars
      BY DEF CallLost
    <2> QED BY <1>1, <2>1, <2>2, <2>3, <2>4 DEF Step, Next
  <1>2. CASE Rebind
    BY <1>2 DEF Rebind, Next
  <1>3. CASE UNCHANGED multVars
    BY <1>3 DEF multVars
  <1> QED BY <1>0, <1>1, <1>2, <1>3 DEF MultNext

LEMMA PcInvariance == MultSpec => []PcInv
  <1>1. MultInit => PcInv
    BY Calls DEF MultInit, PcInv
  <1>2. PcInv /\ [MultNext]_multVars => PcInv'
    <2> SUFFICES ASSUME PcInv, [MultNext]_multVars PROVE PcInv'
      OBVIOUS
    <2>1. ASSUME NEW c \in Clients, Begin(c) PROVE PcInv'
      BY <2>1 DEF Begin, PcInv
    <2>2. ASSUME NEW c \in Clients, Seek(c) PROVE PcInv'
      BY <2>2 DEF Seek, programs, PcInv
    <2>3. ASSUME NEW c \in Clients, Calling(c), Return(c) PROVE PcInv'
      BY <2>3, Calls DEF Calling, Return, PcInv
    <2>4. ASSUME NEW c \in Clients, Finish(c) PROVE PcInv'
      BY <2>4, Calls DEF Finish, PcInv
    <2>5. CASE Rebind \/ UNCHANGED multVars
      BY <2>5 DEF Rebind, multVars, programs, PcInv
    <2> QED BY <2>1, <2>2, <2>3, <2>4, <2>5
            DEF MultNext, Step, Put, Take, CallLost
  <1> QED BY <1>1, <1>2, PTL DEF MultSpec

\* So the programs are clients as RegDriver has them, and all that is proved of
\* these holds.
THEOREM ProgramsAreClients == MultSpec => Spec
  <1>1. MultInit => Init
    BY DEF MultInit
  <1> QED BY <1>1, DriverStep, PcInvariance, PTL DEF MultSpec, Spec

-----------------------------------------------------------------------------
(* Files.                                                                  *)

\* A file is open while its program runs and all of its calls have succeeded,
\* and stands behind the last one, or at the register of the one under way.
FilesInv ==
  \A c \in Clients :
    /\ file[c] # "closed" => stage[c] = "running"
    /\ stage[c] = "running" => (file[c] # "closed" <=> Sound(c, pc[c] - 1))
    /\ file[c] = "asked" =>
         pc[c] \in DOMAIN Program[c] /\ pos[c] = Target(c, pc[c])
    /\ file[c] = "open" =>
         pos[c] = IF pc[c] = 1 THEN 0 ELSE Target(c, pc[c] - 1) + 4

BaseInv == AccessInv /\ PcInv /\ FilesInv

\* What a call does, be it the second half of one or one after the file is
\* lost.
Effect(c) ==
  LET k == pc[c]
      call == Program[c][k]
      at == Target(c, k)
  IN
  /\ Return(c)
  /\ file' = [file EXCEPT ![c] = IF Sound(c, k) THEN "open" ELSE "closed"]
  /\ \A d \in Clients \ {c} : pos'[d] = pos[d]
  /\ Sound(c, k) => pos'[c] = at + 4
  /\ IF Sound(c, k) /\ call.kind = "set"
     THEN /\ value' = [value EXCEPT ![at] = Kept(at, call.val)]
          /\ writer' = [writer EXCEPT ![at] = c]
     ELSE UNCHANGED <<value, writer>>
  /\ \/ alarm' = alarm
     \/ /\ call.kind = "check"
        /\ alarm' = [alarm EXCEPT ![c] = @ \union {call.at}]
  /\ Sound(c, k) /\ call.kind = "check" =>
       (alarm' = alarm /\ Seen(call.at, value[at]) = call.val)
       \/ (Seen(call.at, value[at]) # call.val
           /\ alarm' = [alarm EXCEPT ![c] = @ \union {call.at}])

\* The second half of a call succeeds if its target is a register that may be
\* accessed in this way.
LEMMA AskedSound ==
  ASSUME BaseInv, NEW c \in Clients, file[c] = "asked"
  PROVE  /\ pc[c] \in DOMAIN Program[c] /\ Program[c][pc[c]] \in CallType
         /\ pos[c] = Target(c, pc[c]) /\ pos[c] % Word = pos[c]
         /\ \A kind :
              (kind = "write" <=> Program[c][pc[c]].kind = "set") =>
                (Permitted(kind, pos[c] % Word) <=> Sound(c, pc[c]))
  <1>1. pc[c] \in DOMAIN Program[c] /\ Program[c][pc[c]] \in CallType
    BY Calls DEF BaseInv, FilesInv
  <1>2. pos[c] = Target(c, pc[c])
    BY DEF BaseInv, FilesInv
  <1>3. pos[c] \in Registers \union {MaxOffset + 4}
    BY DEF BaseInv, AccessInv, AccessTyped
  <1>4. pos[c] \in 0 .. Word - 1 /\ pos[c] % Word = pos[c]
    <2>1. pos[c] \in 0 .. Word - 1
      BY <1>3, RegAssumption DEF Registers
    <2> QED BY <2>1, CutShort
  <1>5. RegIsValid(pos[c]) <=> pos[c] \in Registers
    BY <1>3, <1>4, RegAssumption DEF RegIsValid, Registers
  <1>6. RegIsWritable(pos[c]) <=> pos[c] # IP_VER
    BY DEF RegIsWritable, IP_VER
  <1>7. Sound(c, pc[c] - 1)
    BY DEF BaseInv, FilesInv
  <1>8. pc[c] \in Nat \ {0}
    BY DEF BaseInv, PcInv
  <1>9. Sound(c, pc[c]) <=>
          /\ Target(c, pc[c]) \in Registers
          /\ Program[c][pc[c]].kind = "set" => Target(c, pc[c]) # IP_VER
    BY <1>7, <1>8, SoundStep
  <1> QED BY <1>1, <1>2, <1>4, <1>5, <1>6, <1>9 DEF Permitted

\* What a handler does to the file.
LEMMA HandlerEffect ==
  ASSUME BaseInv, NEW c \in Clients, NEW kind \in {"read", "write"},
         Handler(c, kind),
         kind = "write" <=> Program[c][pc[c]].kind = "set"
  PROVE  /\ file' = [file EXCEPT ![c] =
                       IF Sound(c, pc[c]) THEN "open" ELSE "closed"]
         /\ file'[c] = "open" <=> Sound(c, pc[c])
         /\ \A d \in Clients \ {c} : pos'[d] = pos[d]
         /\ Sound(c, pc[c]) =>
              pos'[c] = Target(c, pc[c]) + 4 /\ access'.at = Target(c, pc[c])
  <1>1. file[c] = "asked"
    BY DEF Handler
  <1>2. /\ pos[c] = Target(c, pc[c]) /\ pos[c] % Word = pos[c]
        /\ Sound(c, pc[c]) <=> Permitted(kind, pos[c] % Word)
    BY <1>1, AskedSound
  <1>3. file \in [Clients -> {"closed", "open", "asked"}]
        /\ pos \in [Clients -> Registers \union {MaxOffset + 4}]
    BY DEF BaseInv, AccessInv, AccessTyped
  <1>4. CASE Sound(c, pc[c])
    <2>1. Touch(c, kind) /\ Succeeds(c)
      BY <1>2, <1>4 DEF Handler
    <2>2. access'.at = Target(c, pc[c])
      BY <1>2, <2>1 DEF Touch
    <2> QED BY <1>2, <1>3, <1>4, <2>1, <2>2 DEF Succeeds
  <1>5. CASE ~Sound(c, pc[c])
    <2>1. Closed(c)
      BY <1>2, <1>5 DEF Handler, GiveUp
    <2> QED BY <1>3, <1>5, <2>1 DEF Closed
  <1> QED BY <1>4, <1>5

LEMMA PutEffect ==
  ASSUME BaseInv, NEW c \in Clients, Put(c)
  PROVE  Effect(c)
  <1>1. Handler(c, "write") /\ Program[c][pc[c]].kind = "set"
    BY DEF Put, Write
  <1>2. /\ file' = [file EXCEPT ![c] =
                      IF Sound(c, pc[c]) THEN "open" ELSE "closed"]
        /\ file'[c] = "open" <=> Sound(c, pc[c])
        /\ \A d \in Clients \ {c} : pos'[d] = pos[d]
        /\ Sound(c, pc[c]) =>
             pos'[c] = Target(c, pc[c]) + 4 /\ access'.at = Target(c, pc[c])
    BY <1>1, HandlerEffect
  <1>3. Return(c) /\ alarm' = alarm
    BY DEF Put
  <1>4. CASE Sound(c, pc[c])
    <2>1. /\ value' = [value EXCEPT ![Target(c, pc[c])] =
                         Kept(Target(c, pc[c]), Program[c][pc[c]].val)]
          /\ writer' = [writer EXCEPT ![Target(c, pc[c])] = c]
      BY <1>2, <1>4 DEF Put
    <2> QED BY <1>1, <1>2, <1>3, <1>4, <2>1 DEF Effect
  <1>5. CASE ~Sound(c, pc[c])
    <2>1. UNCHANGED <<value, writer>>
      BY <1>2, <1>5 DEF Put
    <2> QED BY <1>1, <1>2, <1>3, <1>5, <2>1 DEF Effect
  <1> QED BY <1>4, <1>5

LEMMA TakeEffect ==
  ASSUME BaseInv, NEW c \in Clients, Take(c)
  PROVE  Effect(c)
  <1>1. Handler(c, "read") /\ Program[c][pc[c]].kind # "set"
    BY DEF Take, Read
  <1>2. /\ file' = [file EXCEPT ![c] =
                      IF Sound(c, pc[c]) THEN "open" ELSE "closed"]
        /\ file'[c] = "open" <=> Sound(c, pc[c])
        /\ \A d \in Clients \ {c} : pos'[d] = pos[d]
        /\ Sound(c, pc[c]) =>
             pos'[c] = Target(c, pc[c]) + 4 /\ access'.at = Target(c, pc[c])
    BY <1>1, HandlerEffect
  <1>3. Return(c) /\ UNCHANGED <<value, writer>>
    BY DEF Take
  <1>4. alarm' = alarm
        \/ (Program[c][pc[c]].kind = "check"
            /\ alarm' = [alarm EXCEPT ![c] = @ \union {Program[c][pc[c]].at}])
    BY DEF Take, Alarms
  <1>5. Sound(c, pc[c]) /\ Program[c][pc[c]].kind = "check" =>
          (alarm' = alarm
           /\ Seen(Program[c][pc[c]].at, value[Target(c, pc[c])])
                = Program[c][pc[c]].val)
          \/ (Seen(Program[c][pc[c]].at, value[Target(c, pc[c])])
                # Program[c][pc[c]].val
              /\ alarm' = [alarm EXCEPT ![c] =
                             @ \union {Program[c][pc[c]].at}])
    BY <1>2 DEF Take, Alarms
  <1> QED BY <1>1, <1>2, <1>3, <1>4, <1>5 DEF Effect

LEMMA LostEffect ==
  ASSUME BaseInv, NEW c \in Clients, CallLost(c)
  PROVE  Effect(c)
  <1>1. /\ file[c] = "closed" /\ stage[c] = "running"
        /\ Return(c) /\ UNCHANGED <<file, pos, value, writer>>
    BY DEF CallLost, Calling, vars, clients
  <1>2. pc[c] \in Nat \ {0}
    BY DEF BaseInv, PcInv
  <1>3. ~Sound(c, pc[c])
    BY <1>1, <1>2, SoundStep DEF BaseInv, FilesInv
  <1>4. file \in [Clients -> {"closed", "open", "asked"}]
    BY DEF BaseInv, AccessInv, AccessTyped
  <1>5. alarm' = alarm
        \/ (Program[c][pc[c]].kind = "check"
            /\ alarm' = [alarm EXCEPT ![c] = @ \union {Program[c][pc[c]].at}])
    BY DEF CallLost, Alarms
  <1>6. file' = [file EXCEPT ![c] = "closed"]
    BY <1>1, <1>4
  <1> QED BY <1>1, <1>3, <1>5, <1>6 DEF Effect

\* Every other step leaves registers and alarms alone and closes no file of a
\* program that has calls left.
Quiet ==
  /\ UNCHANGED <<pc, value, alarm, writer>>
  /\ \A d \in Clients :
       file[d] # "closed" /\ pc[d] \in DOMAIN Program[d] =>
         file'[d] # "closed"

LEMMA StepKinds ==
  ASSUME BaseInv, [MultNext]_multVars
  PROVE  Quiet \/ \E c \in Clients : Calling(c) /\ Effect(c)
  <1>0. file \in [Clients -> {"closed", "open", "asked"}]
    BY DEF BaseInv, AccessInv, AccessTyped
  <1>1. ASSUME NEW c \in Clients, Begin(c) PROVE Quiet
    BY <1>0, <1>1 DEF Begin, Open, Quiet, vars, clients
  <1>2. ASSUME NEW c \in Clients, Seek(c) PROVE Quiet
    BY <1>0, <1>2 DEF Seek, Lseek, Quiet, programs
  <1>3. ASSUME NEW c \in Clients, Finish(c) PROVE Quiet
    <2>1. pc[c] \notin DOMAIN Program[c]
      BY <1>3, Calls DEF Finish
    <2>2. \A d \in Clients \ {c} : file'[d] = file[d]
      BY <1>0, <1>3 DEF Finish, Close, Closed, vars, clients
    <2> QED BY <1>3, <2>1, <2>2 DEF Finish, Quiet
  <1>4. CASE Rebind
    BY <1>4 DEF Rebind, Binding, Probe, Acquire, AcquireFails, Remove, Release,
       clients, programs, Quiet
  <1>5. CASE UNCHANGED multVars
    BY <1>5 DEF multVars, vars, clients, programs, Quiet
  <1>6. ASSUME NEW c \in Clients, Put(c) \/ Take(c) \/ CallLost(c)
        PROVE  Calling(c) /\ Effect(c)
    BY <1>6, PutEffect, TakeEffect, LostEffect DEF Put, Take, CallLost
  <1> QED BY <1>1, <1>2, <1>3, <1>4, <1>5, <1>6 DEF MultNext, Step

\* lseek() goes to the target of the call.
LEMMA SeekLands ==
  ASSUME StraysApart, BaseInv, NEW c \in Clients, Calling(c), file[c] = "open"
  PROVE  Llseek(pos[c], Program[c][pc[c]].at) = Target(c, pc[c])
  <1>1. pc[c] \in DOMAIN Program[c] /\ Program[c][pc[c]] \in CallType
    BY CallTyped DEF BaseInv
  <1>2. Program[c][pc[c]].at \in Int
    BY <1>1, RegAssumption DEF CallType
  <1>3. CASE Program[c][pc[c]].at \in Registers
    BY <1>2, <1>3, LlseekLands DEF Target, BaseInv, AccessInv, AccessTyped
  <1>4. CASE Program[c][pc[c]].at \notin Registers
    <2>1. Llseek(pos[c], Program[c][pc[c]].at) = pos[c]
      BY <1>2, <1>4, RegAssumption DEF Llseek, Registers
    <2>2. CASE pc[c] = 1
      BY <1>4, <2>1, <2>2 DEF Target, BaseInv, FilesInv
    <2>3. CASE pc[c] # 1
      <3>1. Program[c][pc[c] - 1].at \in Registers
        BY <1>1, <1>4, <2>3 DEF StraysApart
      <3>2. Target(c, pc[c] - 1) = Program[c][pc[c] - 1].at
        BY <3>1 DEF Target
      <3> QED BY <1>4, <2>1, <2>3, <3>2 DEF Target, BaseInv, FilesInv
    <2> QED BY <2>2, <2>3
  <1> QED BY <1>3, <1>4

LEMMA FilesStep ==
  ASSUME StraysApart, BaseInv, [MultNext]_multVars
  PROVE  FilesInv'
  <1>0. file \in [Clients -> {"closed", "open", "asked"}]
        /\ pos \in [Clients -> Registers \union {MaxOffset + 4}]
    BY DEF BaseInv, AccessInv, AccessTyped
  <1>a. /\ stage \in [Clients -> {"idle", "running", "done", "refused"}]
        /\ pc \in [Clients -> Nat] /\ \A c \in Clients : pc[c] # 0
    BY DEF BaseInv, PcInv
  <1>1. ASSUME NEW c \in Clients, Begin(c) PROVE FilesInv'
    <2>1. pc' = pc
      BY <1>1 DEF Begin
    <2>2. pc[c] = 1
      BY <1>1 DEF Begin, BaseInv, PcInv
    <2>3. Sound(c, pc[c] - 1)
      BY <2>2 DEF Sound
    <2>4. CASE "device" \in held /\ ~going
      BY <1>0, <1>a, <1>1, <2>1, <2>2, <2>3, <2>4
         DEF Begin, Open, BaseInv, FilesInv
    <2>5. CASE ~("device" \in held /\ ~going)
      BY <1>0, <1>a, <1>1, <2>1, <2>5
         DEF Begin, vars, clients, BaseInv, FilesInv
    <2> QED BY <2>4, <2>5
  <1>2. ASSUME NEW c \in Clients, Seek(c) PROVE FilesInv'
    <2>1. /\ file[c] = "open" /\ file' = [file EXCEPT ![c] = "asked"]
          /\ UNCHANGED <<stage, pc>> /\ Calling(c)
          /\ pos' = [pos EXCEPT ![c] = Llseek(@, Program[c][pc[c]].at)]
      BY <1>2 DEF Seek, Lseek, programs
    <2>2. pos'[c] = Target(c, pc[c])
      BY <1>0, <2>1, SeekLands
    <2>3. pc[c] \in DOMAIN Program[c]
      BY <2>1, CallTyped DEF BaseInv
    <2> QED BY <1>0, <2>1, <2>2, <2>3 DEF BaseInv, FilesInv
  <1>3. ASSUME NEW c \in Clients, Calling(c), Effect(c) PROVE FilesInv'
    <2>1. /\ stage' = stage /\ pc' = [pc EXCEPT ![c] = pc[c] + 1]
          /\ file' = [file EXCEPT ![c] =
                        IF Sound(c, pc[c]) THEN "open" ELSE "closed"]
          /\ \A d \in Clients \ {c} : pos'[d] = pos[d]
          /\ Sound(c, pc[c]) => pos'[c] = Target(c, pc[c]) + 4
          /\ stage[c] = "running"
      BY <1>3 DEF Effect, Return, Calling
    <2>2. pc'[c] - 1 = pc[c] /\ pc'[c] # 1
      BY <1>a, <2>1
    <2>3. \A d \in Clients \ {c} :
            pc'[d] = pc[d] /\ file'[d] = file[d] /\ pos'[d] = pos[d]
      BY <1>0, <1>a, <2>1
    <2>4. ASSUME NEW d \in Clients \ {c}
          PROVE  /\ file'[d] # "closed" => stage'[d] = "running"
                 /\ stage'[d] = "running" =>
                      (file'[d] # "closed" <=> Sound(d, pc'[d] - 1))
                 /\ file'[d] = "asked" =>
                      pc'[d] \in DOMAIN Program[d]
                      /\ pos'[d] = Target(d, pc'[d])
                 /\ file'[d] = "open" =>
                      pos'[d] = IF pc'[d] = 1 THEN 0
                                ELSE Target(d, pc'[d] - 1) + 4
      BY <2>1, <2>3 DEF BaseInv, FilesInv
    <2>5. /\ file'[c] # "closed" <=> Sound(c, pc'[c] - 1)
          /\ file'[c] # "asked"
          /\ file'[c] = "open" => pos'[c] = Target(c, pc'[c] - 1) + 4
      BY <1>0, <2>1, <2>2
    <2> QED BY <2>1, <2>2, <2>4, <2>5 DEF FilesInv
  <1>4. ASSUME NEW c \in Clients, Finish(c) PROVE FilesInv'
    <2>1. CASE file[c] = "open"
      BY <1>0, <1>a, <1>4, <2>1 DEF Finish, Close, Closed, BaseInv, FilesInv
    <2>2. CASE file[c] # "open"
      <3>1. file[c] # "asked"
        BY <1>4, Calls DEF Finish, BaseInv, FilesInv
      <3> QED BY <1>0, <1>a, <1>4, <2>2, <3>1
              DEF Finish, vars, clients, BaseInv, FilesInv
    <2> QED BY <2>1, <2>2
  <1>5. CASE Rebind
    BY <1>5 DEF Rebind, Binding, Probe, Acquire, AcquireFails, Remove, Release,
       clients, programs, BaseInv, FilesInv
  <1>6. CASE UNCHANGED multVars
    BY <1>6 DEF multVars, vars, clients, programs, BaseInv, FilesInv
  <1>7. ASSUME NEW c \in Clients, Put(c) \/ Take(c) \/ CallLost(c)
        PROVE  Calling(c) /\ Effect(c)
    BY <1>7, PutEffect, TakeEffect, LostEffect DEF Put, Take, CallLost
  <1> QED BY <1>1, <1>2, <1>3, <1>4, <1>5, <1>6, <1>7 DEF MultNext, Step

LEMMA BaseInvariance == StraysApart /\ MultSpec => []BaseInv
  <1> SUFFICES ASSUME StraysApart PROVE MultSpec => []BaseInv
    OBVIOUS
  <1>1. MultInit => FilesInv
    BY DEF MultInit, Init, FilesInv
  <1>2. AccessInv /\ PcInv /\ FilesInv /\ [MultNext]_multVars => FilesInv'
    BY FilesStep DEF BaseInv
  <1>3. MultSpec => []AccessInv
    BY ProgramsAreClients, AccessInvariance, PTL
  <1>4. MultSpec => []FilesInv
    BY <1>1, <1>2, <1>3, PcInvariance, PTL DEF MultSpec
  <1>5. AccessInv /\ PcInv /\ FilesInv => BaseInv
    BY DEF BaseInv
  <1> QED BY <1>3, <1>4, <1>5, PcInvariance, PTL

-----------------------------------------------------------------------------
(* Registers.                                                              *)

ValueInv ==
  /\ value \in [Registers -> Nat]
  /\ value[IP_VER] = 65537
  /\ \A o \in Registers \ {IP_VER} : value[o] \in 0 .. 2^Width(o) - 1
  /\ writer \in [Registers -> Clients \union {"nobody"}]
  /\ alarm \in [Clients -> SUBSET Registers]

\* While the multiplier is stopped, a program that stopped it, or that will set
\* it running for another one, is about to do so.
KillInv ==
  value[KILL] # 0 =>
    \E c \in Clients :
      /\ file[c] # "closed" /\ pc[c] \in DOMAIN Program[c]
      /\ Program[c][pc[c]].kind = "set" /\ Program[c][pc[c]].at = KILL
      /\ Kept(KILL, Program[c][pc[c]].val) = 0

\* What a program has set stays until someone sets it again.
WrittenInv ==
  \A c \in Clients : \A o \in Registers : \A j \in 1 .. pc[c] - 1 :
    Sets(c, j, o) =>
      /\ writer[o] \in Clients
      /\ writer[o] = c /\ (\A i \in j + 1 .. pc[c] - 1 : ~Sets(c, i, o)) =>
           value[o] = Kept(o, Program[c][j].val)

\* A check that was silent has seen the value, which is there until someone
\* sets it again.
SilentInv ==
  \A c \in Clients : \A o \in Registers : \A k \in ChecksOf(c, o) :
    /\ pc[c] > k /\ o \notin alarm[c] /\ writer[o] = c
    /\ \A i \in k + 1 .. Len(Program[c]) : ~Sets(c, i, o)
    => value[o] = Given(c, o) % 2^16

DataInv == ValueInv /\ KillInv /\ WrittenInv /\ SilentInv

\* One register's share of an effect.
LEMMA RegisterEffect ==
  ASSUME ValueInv, BaseInv, NEW c \in Clients, Calling(c), Effect(c),
         NEW o \in Registers
  PROVE  /\ Sets(c, pc[c], o) =>
              /\ value'[o] = Kept(o, Program[c][pc[c]].val)
              /\ writer'[o] = c
         /\ ~Sets(c, pc[c], o) =>
              value'[o] = value[o] /\ writer'[o] = writer[o]
  <1>1. CASE Sets(c, pc[c], o)
    BY <1>1 DEF Sets, Effect, ValueInv
  <1>2. CASE ~Sets(c, pc[c], o)
    <2>1. CASE Sound(c, pc[c]) /\ Program[c][pc[c]].kind = "set"
      <3>1. Target(c, pc[c]) # o
        BY <1>2, <2>1 DEF Sets
      <3> QED BY <1>2, <2>1, <3>1 DEF Effect, ValueInv
    <2>2. CASE ~(Sound(c, pc[c]) /\ Program[c][pc[c]].kind = "set")
      BY <1>2, <2>2 DEF Effect
    <2> QED BY <2>1, <2>2
  <1> QED BY <1>1, <1>2

\* And the rest of it.
LEMMA OtherEffects ==
  ASSUME ValueInv, BaseInv, NEW c \in Clients, Calling(c), Effect(c)
  PROVE  /\ pc[c] \in DOMAIN Program[c] /\ Program[c][pc[c]] \in CallType
         /\ pc'[c] = pc[c] + 1 /\ pc[c] \in Nat \ {0}
         /\ \A d \in Clients \ {c} :
              pc'[d] = pc[d] /\ file'[d] = file[d] /\ alarm'[d] = alarm[d]
         /\ alarm[c] \subseteq alarm'[c]
         /\ alarm'[c] \ alarm[c] \subseteq {Program[c][pc[c]].at}
         /\ alarm' # alarm => Program[c][pc[c]].kind = "check"
         /\ file'[c] # "closed" <=> Sound(c, pc[c])
  <1>1. pc[c] \in DOMAIN Program[c] /\ Program[c][pc[c]] \in CallType
    BY CallTyped DEF BaseInv
  <1>2. pc \in [Clients -> Nat] /\ pc[c] # 0
    BY DEF BaseInv, PcInv
  <1>3. file \in [Clients -> {"closed", "open", "asked"}]
    BY DEF BaseInv, AccessInv, AccessTyped
  <1>4. alarm \in [Clients -> SUBSET Registers]
    BY DEF ValueInv
  <1>5. alarm' = alarm
        \/ (Program[c][pc[c]].kind = "check"
            /\ alarm' = [alarm EXCEPT ![c] = @ \union {Program[c][pc[c]].at}])
    BY DEF Effect
  <1>6. /\ pc' = [pc EXCEPT ![c] = @ + 1]
        /\ file' = [file EXCEPT ![c] =
                      IF Sound(c, pc[c]) THEN "open" ELSE "closed"]
    BY DEF Effect, Return
  <1> QED BY <1>1, <1>2, <1>3, <1>4, <1>5, <1>6

LEMMA ValueStep ==
  ASSUME ChecksFollowSets, ValueInv, BaseInv, NEW c \in Clients, Calling(c),
         Effect(c)
  PROVE  ValueInv'
  <1>1. pc[c] \in DOMAIN Program[c] /\ Program[c][pc[c]] \in CallType
    BY OtherEffects
  <1>2. ASSUME Sound(c, pc[c]), Program[c][pc[c]].kind = "set"
        PROVE  Target(c, pc[c]) \in Registers \ {IP_VER}
    <2>1. pc[c] \in 1 .. pc[c]
      BY OtherEffects
    <2> QED BY <1>2, <2>1 DEF Sound
  <1>3. \/ Kept(Target(c, pc[c]), Program[c][pc[c]].val)
             \in 0 .. 2^Width(Target(c, pc[c])) - 1
        \/ ~(Sound(c, pc[c]) /\ Program[c][pc[c]].kind = "set")
    BY <1>1, <1>2, KeptBounded DEF CallType
  <1>4. /\ value' \in [Registers -> Nat]
        /\ value'[IP_VER] = 65537
        /\ \A o \in Registers \ {IP_VER} : value'[o] \in 0 .. 2^Width(o) - 1
        /\ writer' \in [Registers -> Clients \union {"nobody"}]
    <2>1. CASE Sound(c, pc[c]) /\ Program[c][pc[c]].kind = "set"
      BY <1>2, <1>3, <2>1, RegistersOfMultiplier DEF Effect, ValueInv
    <2>2. CASE ~(Sound(c, pc[c]) /\ Program[c][pc[c]].kind = "set")
      BY <2>2 DEF Effect, ValueInv
    <2> QED BY <2>1, <2>2
  <1>5. alarm' \in [Clients -> SUBSET Registers]
    <2>1. ASSUME Program[c][pc[c]].kind = "check"
          PROVE  Program[c][pc[c]].at \in Registers
      <3>1. pc[c] \in ChecksOf(c, Program[c][pc[c]].at)
            /\ Program[c][pc[c]].at \in Asked
        BY <1>1, <2>1 DEF ChecksOf, CallType
      <3> QED BY <3>1, RegistersOfMultiplier DEF ChecksFollowSets
    <2> QED BY <2>1 DEF Effect, ValueInv
  <1> QED BY <1>4, <1>5 DEF ValueInv

LEMMA KillStep ==
  ASSUME ResetsWhole, ValueInv, KillInv, BaseInv, NEW c \in Clients,
         Calling(c), Effect(c)
  PROVE  KillInv'
  <1>0. SUFFICES ASSUME value'[KILL] # 0
                 PROVE  \E d \in Clients :
                          /\ file'[d] # "closed"
                          /\ pc'[d] \in DOMAIN Program[d]
                          /\ Program[d][pc'[d]].kind = "set"
                          /\ Program[d][pc'[d]].at = KILL
                          /\ Kept(KILL, Program[d][pc'[d]].val) = 0
    BY DEF KillInv
  <1>1. KILL \in Registers /\ KILL # IP_VER
    BY RegistersOfMultiplier
  <1>2. CASE Sets(c, pc[c], KILL)
    <2>1. Kept(KILL, Program[c][pc[c]].val) # 0
      BY <1>0, <1>1, <1>2, RegisterEffect
    <2>2. file'[c] # "closed" /\ pc'[c] = pc[c] + 1
      BY <1>2, OtherEffects DEF Sets
    <2> QED BY <1>2, <2>1, <2>2, OtherEffects DEF ResetsWhole
  <1>3. CASE ~Sets(c, pc[c], KILL)
    <2>1. value[KILL] # 0
      BY <1>0, <1>1, <1>3, RegisterEffect
    <2>2. PICK d \in Clients :
            /\ file[d] # "closed" /\ pc[d] \in DOMAIN Program[d]
            /\ Program[d][pc[d]].kind = "set" /\ Program[d][pc[d]].at = KILL
            /\ Kept(KILL, Program[d][pc[d]].val) = 0
      BY <2>1 DEF KillInv
    <2>3. d # c
      <3>1. SUFFICES ASSUME d = c PROVE FALSE
        OBVIOUS
      <3>2. Target(c, pc[c]) = KILL
        BY <1>1, <2>2, <3>1 DEF Target
      <3>3. Sound(c, pc[c] - 1)
        BY <2>2, <3>1 DEF BaseInv, FilesInv
      <3>4. Sound(c, pc[c])
        BY <1>1, <3>2, <3>3, SoundStep, OtherEffects
      <3> QED BY <1>3, <2>2, <3>1, <3>2, <3>4 DEF Sets
    <2> QED BY <2>2, <2>3, OtherEffects
  <1> QED BY <1>2, <1>3

LEMMA WrittenStep ==
  ASSUME ValueInv, WrittenInv, BaseInv, NEW c \in Clients, Calling(c),
         Effect(c)
  PROVE  WrittenInv'
  <1>0. SUFFICES
          ASSUME NEW d \in Clients, NEW o \in Registers,
                 NEW j \in 1 .. pc'[d] - 1, Sets(d, j, o)
          PROVE  /\ writer'[o] \in Clients
                 /\ writer'[o] = d
                    /\ (\A i \in j + 1 .. pc'[d] - 1 : ~Sets(d, i, o)) =>
                      value'[o] = Kept(o, Program[d][j].val)
    BY DEF WrittenInv
  <1>1. CASE d # c
    <2>1. pc'[d] = pc[d]
      BY <1>1, OtherEffects
    <2>2. CASE Sets(c, pc[c], o)
      BY <1>1, <2>2, RegisterEffect
    <2>3. CASE ~Sets(c, pc[c], o)
      BY <1>0, <2>1, <2>3, RegisterEffect DEF WrittenInv
    <2> QED BY <2>2, <2>3
  <1>2. CASE d = c
    <2>1. pc'[d] - 1 = pc[c] /\ pc[c] \in Nat \ {0}
      BY <1>2, OtherEffects
    <2>2. CASE j = pc[c]
      BY <1>0, <1>2, <2>2, RegisterEffect
    <2>3. CASE j # pc[c] /\ Sets(c, pc[c], o)
      <3>1. pc[c] \in j + 1 .. pc'[d] - 1
        BY <2>1, <2>3
      <3> QED BY <1>2, <2>3, <3>1, RegisterEffect
    <2>4. CASE j # pc[c] /\ ~Sets(c, pc[c], o)
      <3>1. j \in 1 .. pc[c] - 1
        BY <2>1, <2>4
      <3>2. \A i \in j + 1 .. pc[c] - 1 : i \in j + 1 .. pc'[d] - 1
        BY <2>1
      <3> QED BY <1>0, <1>2, <2>4, <3>1, <3>2, RegisterEffect DEF WrittenInv
    <2> QED BY <2>2, <2>3, <2>4
  <1> QED BY <1>1, <1>2

\* What a check that ends in a program's call sees: the register it asked for,
\* as the program's last call for it left it unless someone else wrote it.
LEMMA CheckSees ==
  ASSUME ChecksFollowSets, ValueInv, BaseInv, NEW c \in Clients, Calling(c),
         Effect(c), Program[c][pc[c]].kind = "check"
  PROVE  /\ Program[c][pc[c]].at \in Tested
         /\ pc[c] \in ChecksOf(c, Program[c][pc[c]].at)
         /\ Program[c][pc[c]].val = Given(c, Program[c][pc[c]].at)
         /\ Seen(Program[c][pc[c]].at, value[Program[c][pc[c]].at])
              = Program[c][pc[c]].val
            \/ Program[c][pc[c]].at \in alarm'[c]
         /\ Seen(Program[c][pc[c]].at, value[Program[c][pc[c]].at])
              # Program[c][pc[c]].val
            \/ alarm' = alarm
         /\ UNCHANGED <<value, writer>>
  <1> DEFINE o == Program[c][pc[c]].at
  <1>1. pc[c] \in ChecksOf(c, o) /\ o \in Asked
    BY OtherEffects DEF ChecksOf, CallType
  <1>2. o \in Tested /\ Sound(c, pc[c]) /\ Program[c][pc[c]].val = Given(c, o)
    BY <1>1 DEF ChecksFollowSets
  <1>3. Target(c, pc[c]) = o
    BY <1>2, RegistersOfMultiplier DEF Target
  <1>4. alarm \in [Clients -> SUBSET Registers]
    BY DEF ValueInv
  <1> HIDE DEF o
  <1>5. (alarm' = alarm /\ Seen(o, value[o]) = Program[c][pc[c]].val)
        \/ (Seen(o, value[o]) # Program[c][pc[c]].val
            /\ alarm' = [alarm EXCEPT ![c] = @ \union {o}])
    BY <1>2, <1>3 DEF Effect, o
  <1>6. UNCHANGED <<value, writer>>
    BY DEF Effect
  <1>7. Seen(o, value[o]) = Program[c][pc[c]].val \/ o \in alarm'[c]
    BY <1>4, <1>5
  <1>8. Seen(o, value[o]) # Program[c][pc[c]].val \/ alarm' = alarm
    BY <1>5
  <1> QED BY <1>1, <1>2, <1>6, <1>7, <1>8 DEF o

LEMMA SilentStep ==
  ASSUME ChecksFollowSets, ValueInv, SilentInv, BaseInv, NEW c \in Clients,
         Calling(c), Effect(c)
  PROVE  SilentInv'
  <1>0. SUFFICES
          ASSUME NEW d \in Clients, NEW o \in Registers,
                 NEW k \in ChecksOf(d, o),
                 pc'[d] > k, o \notin alarm'[d], writer'[o] = d,
                 \A i \in k + 1 .. Len(Program[d]) : ~Sets(d, i, o)
          PROVE  value'[o] = Given(d, o) % 2^16
    BY DEF SilentInv
  <1>1. CASE d # c
    <2>1. pc'[d] = pc[d] /\ alarm'[d] = alarm[d]
      BY <1>1, OtherEffects
    <2>2. ~Sets(c, pc[c], o)
      BY <1>0, <1>1, RegisterEffect
    <2> QED BY <1>0, <2>1, <2>2, RegisterEffect DEF SilentInv
  <1>2. CASE d = c
    <2>0. k \in DOMAIN Program[c] /\ k \in Nat /\ Program[c][k].kind = "check"
          /\ Program[c][k].at = o
      BY <1>2, Calls DEF ChecksOf
    <2>1. CASE k = pc[c]
      <3>1. /\ o \in Tested /\ Seen(o, value[o]) = Given(c, o)
            /\ value' = value
        BY <1>0, <1>2, <2>0, <2>1, CheckSees
      <3>2. value[o] \in Nat /\ value[o] < 65536
        <4>1. o \in Registers \ {IP_VER}
          BY <3>1, RegistersOfMultiplier
        <4>2. value[o] \in 0 .. 2^Width(o) - 1
          BY <4>1 DEF ValueInv
        <4> QED BY <4>1, <4>2, WidthBound
      <3>3. Seen(o, value[o]) % 2^16 = value[o]
        BY <3>1, <3>2, SeenTells
      <3> QED BY <1>2, <3>1, <3>3
    <2>2. CASE k # pc[c]
      <3>1. pc[c] > k /\ pc[c] \in k + 1 .. Len(Program[c])
        BY <1>0, <1>2, <2>0, <2>2, OtherEffects, Calls
      <3>2. ~Sets(c, pc[c], o) /\ o \notin alarm[c]
        BY <1>0, <1>2, <3>1, OtherEffects
      <3> QED BY <1>0, <1>2, <3>1, <3>2, RegisterEffect DEF SilentInv
    <2> QED BY <2>1, <2>2
  <1> QED BY <1>1, <1>2

LEMMA QuietData ==
  ASSUME BaseInv, DataInv, Quiet
  PROVE  DataInv'
  <1>1. UNCHANGED <<pc, value, alarm, writer>>
    BY DEF Quiet
  <1>2. ValueInv'
    BY <1>1 DEF DataInv, ValueInv
  <1>3. KillInv'
    BY <1>1 DEF DataInv, KillInv, Quiet
  <1>4. WrittenInv'
    BY <1>1 DEF DataInv, WrittenInv
  <1>5. SilentInv'
    BY <1>1 DEF DataInv, SilentInv
  <1> QED BY <1>2, <1>3, <1>4, <1>5 DEF DataInv

\* However many programs interleave their calls, and whatever else they do to
\* the multiplier.
LEMMA DataInvariance == Disciplined /\ MultSpec => [](BaseInv /\ DataInv)
  <1> SUFFICES ASSUME Disciplined PROVE MultSpec => [](BaseInv /\ DataInv)
    OBVIOUS
  <1>1. StraysApart /\ ResetsWhole /\ ChecksFollowSets
    BY DEF Disciplined
  <1>2. ASSUME MultInit PROVE DataInv
    <2>1. ValueInv
      <3>1. \A o \in Registers \ {IP_VER} : 0 \in 0 .. 2^Width(o) - 1
        BY WidthBound
      <3> QED BY <1>2, <3>1, RegistersOfMultiplier DEF MultInit, ValueInv
    <2>2. KillInv
      BY <1>2, RegistersOfMultiplier DEF MultInit, KillInv
    <2>3. \A c \in Clients : pc[c] = 1
      BY <1>2 DEF MultInit
    <2>4. WrittenInv
      BY <2>3 DEF WrittenInv
    <2>5. SilentInv
      <3>1. \A c \in Clients : \A o : \A k \in ChecksOf(c, o) :
              k \in Nat /\ k # 0
        BY Calls DEF ChecksOf
      <3> QED BY <2>3, <3>1 DEF SilentInv
    <2> QED BY <2>1, <2>2, <2>4, <2>5 DEF DataInv
  <1>3. ASSUME BaseInv, DataInv, [MultNext]_multVars PROVE DataInv'
    <2>1. ASSUME NEW c \in Clients, Calling(c), Effect(c) PROVE DataInv'
      <3>1. ValueInv' /\ KillInv' /\ WrittenInv' /\ SilentInv'
        BY <1>1, <1>3, <2>1, ValueStep, KillStep, WrittenStep, SilentStep
           DEF DataInv
      <3> QED BY <3>1 DEF DataInv
    <2> QED BY <1>3, <2>1, StepKinds, QuietData
  <1>4. MultSpec => []BaseInv
    BY <1>1, BaseInvariance, PTL
  <1> QED BY <1>2, <1>3, <1>4, PTL DEF MultSpec

-----------------------------------------------------------------------------
(* What the programs may rely on.                                          *)

\* Every variable keeps its type, each register its width, and the version its
\* value.
THEOREM MultTyped == Disciplined /\ MultSpec => []MultTypeOK
  <1>1. BaseInv /\ DataInv /\ TypeOK => MultTypeOK
    <2>1. SUFFICES ASSUME BaseInv, DataInv, TypeOK PROVE MultTypeOK
      OBVIOUS
    <2> QED BY <2>1 DEF MultTypeOK, BaseInv, PcInv, DataInv, ValueInv
  <1>2. MultSpec => []TypeOK
    BY ProgramsAreClients, RegTyped, PTL
  <1> QED BY <1>1, <1>2, DataInvariance, PTL

\* The multiplier runs when all programs have ended.
THEOREM LeftRunning == Disciplined /\ MultSpec => []RunsAfterReset
  <1>1. BaseInv /\ DataInv => RunsAfterReset
    BY DEF BaseInv, FilesInv, DataInv, KillInv, RunsAfterReset
  <1> QED BY <1>1, DataInvariance, PTL

\* A test that prints nothing has done what it was told.
THEOREM SilenceTells == Disciplined /\ MultSpec => []SilentIsSet
  <1> SUFFICES ASSUME Disciplined PROVE MultSpec => []SilentIsSet
    OBVIOUS
  <1>1. ASSUME BaseInv, DataInv PROVE SilentIsSet
    <2>1. SUFFICES
            ASSUME NEW c \in Tests, stage[c] = "done", alarm[c] = {},
                   NEW o \in Tested
            PROVE  \/ writer[o] \in Clients \ {c}
                   \/ writer[o] = c /\ value[o] = Given(c, o) % 2^16
      BY DEF SilentIsSet
    <2>2. PICK k \in ChecksOf(c, o) :
            \A i \in k + 1 .. Len(Program[c]) : ~Sets(c, i, o)
      BY DEF Disciplined, TestsWhole
    <2>3. c \in Clients /\ o \in Registers
      BY RegistersOfMultiplier DEF Tests
    <2>4. k \in DOMAIN Program[c] /\ k \in 1 .. Len(Program[c])
          /\ o \in Asked
      BY <2>2, <2>3, Calls DEF ChecksOf, CallType
    <2>5. pc[c] = Len(Program[c]) + 1 /\ pc[c] > k
      BY <1>1, <2>1, <2>3, <2>4, Calls DEF BaseInv, PcInv
    <2>6. PICK j \in 1 .. k - 1 : Sets(c, j, o)
      BY <2>2, <2>3, <2>4 DEF Disciplined, ChecksFollowSets
    <2>7. j \in 1 .. pc[c] - 1
      BY <2>3, <2>4, <2>5, Calls
    <2>8. writer[o] \in Clients
      BY <1>1, <2>3, <2>6, <2>7 DEF DataInv, WrittenInv
    <2>9. writer[o] = c => value[o] = Given(c, o) % 2^16
      BY <1>1, <2>1, <2>2, <2>3, <2>5 DEF DataInv, SilentInv
    <2> QED BY <2>8, <2>9
  <1> QED BY <1>1, DataInvariance, PTL

\* An alarm is someone else's doing, or the value did not fit.
THEOREM AlarmsTrue == Disciplined /\ MultSpec => NoFalseAlarm
  <1> SUFFICES ASSUME Disciplined PROVE MultSpec => NoFalseAlarm
    OBVIOUS
  <1>1. ASSUME BaseInv, DataInv, [MultNext]_multVars
        PROVE  [\A c \in Clients : \A o \in alarm'[c] \ alarm[c] :
                  writer[o] # c \/ ~Fits(o, Given(c, o))]_multVars
    <2>1. SUFFICES
            ASSUME NEW d \in Clients, NEW o \in alarm'[d] \ alarm[d]
            PROVE  writer[o] # d \/ ~Fits(o, Given(d, o))
      OBVIOUS
    <2>2. PICK c \in Clients : Calling(c) /\ Effect(c)
      BY <1>1, <2>1, StepKinds DEF Quiet
    <2>3. d = c /\ o = Program[c][pc[c]].at
          /\ Program[c][pc[c]].kind = "check"
      BY <1>1, <2>1, <2>2, OtherEffects DEF DataInv
    <2>4. ChecksFollowSets
      BY DEF Disciplined
    <2>5. /\ o \in Tested /\ pc[c] \in ChecksOf(c, o)
          /\ Seen(o, value[o]) # Given(c, o)
      BY <1>1, <2>1, <2>2, <2>3, <2>4, CheckSees DEF DataInv
    <2>6. o \in Asked /\ Given(c, o) \in Int
      BY <1>1, <2>2, <2>3, <2>4, CheckSees, OtherEffects
         DEF DataInv, CallType
    <2>7. PICK j \in 1 .. pc[c] - 1 :
            /\ Sets(c, j, o) /\ Program[c][j].val = Given(c, o)
            /\ \A i \in j + 1 .. pc[c] - 1 : ~Sets(c, i, o)
      BY <2>4, <2>5, <2>6 DEF ChecksFollowSets
    <2>8. o \in Registers
      BY <2>5, RegistersOfMultiplier
    <2>9. writer[o] = c => value[o] = Kept(o, Given(c, o))
      BY <1>1, <2>7, <2>8 DEF DataInv, WrittenInv
    <2> QED BY <2>3, <2>5, <2>6, <2>9, SeenKept
  <1> QED BY <1>1, DataInvariance, PTL DEF NoFalseAlarm, MultSpec

-----------------------------------------------------------------------------
(* The programs that are there keep this discipline.                       *)

\* The calls of a test, one by one.
LEMMA TestCalls ==
  ASSUME NEW mult \in Int, NEW ch \in Int, NEW p, p = Test(mult, ch)
  PROVE  /\ DOMAIN p = 1 .. 5 + 2 * Channels /\ Len(p) = 5 + 2 * Channels
         /\ p[1] = Call("get", IP_VER, 0)
         /\ p[2] = Call("set", TEST_POINT, 0)
         /\ p[3] = Call("check", TEST_POINT, 0)
         /\ p[4] = Call("set", CHANNEL, ch)
         /\ p[5] = Call("check", CHANNEL, ch)
         /\ \A n \in 0 .. Channels - 1 :
              /\ p[6 + 2 * n] = Call("set", MULT0 + 4 * n, mult)
              /\ p[7 + 2 * n] = Call("check", MULT0 + 4 * n, mult)
  <1> DEFINE a == <<Call("get", IP_VER, 0),
                    Call("set", TEST_POINT, 0), Call("check", TEST_POINT, 0),
                    Call("set", CHANNEL, ch), Call("check", CHANNEL, ch)>>
             b == [k \in 1 .. 2 * Channels |->
                     Mult(IF k % 2 = 1 THEN "set" ELSE "check", mult,
                          (k - 1) \div 2)]
             S == [kind : {"set", "get", "check"}, at : Int, val : Int]
  <1>1. Channels \in Nat /\ 2 * Channels \in Nat
    BY MultAssumption
  <1>2. a \in Seq(S) /\ Len(a) = 5
    BY DEF Call, IP_VER, TEST_POINT, CHANNEL
  <1>3. \A k \in 1 .. 2 * Channels : (k - 1) \div 2 \in Int
    BY <1>1
  <1>4. b \in Seq(S) /\ Len(b) = 2 * Channels
    <2>1. b \in [1 .. 2 * Channels -> S]
      BY <1>1, <1>3 DEF Mult, Call, MultAddress, MULT0
    <2> QED BY <1>1, <2>1
  <1>5. p = a \o b
    BY DEF Test
  <1>6. /\ Len(p) = 5 + 2 * Channels /\ p \in Seq(S)
        /\ \A i \in 1 .. 5 : p[i] = a[i]
        /\ \A i \in 1 .. 2 * Channels : p[5 + i] = b[i]
    <2> HIDE DEF a, b, S
    <2>1. Len(b) = 2 * Channels /\ Len(a) = 5
      BY <1>2, <1>4
    <2>2. a \in Seq(S)
      BY <1>2
    <2>3. b \in Seq(S)
      BY <1>4
    <2>4. Len(p) = Len(a) + Len(b)
      BY <1>5, <2>2, <2>3
    <2>5. p \in Seq(S)
      BY <1>5, <2>2, <2>3
    <2>6. \A i \in 1 .. Len(a) : p[i] = a[i]
      BY <1>5, <2>2, <2>3
    <2>7. \A i \in 1 .. Len(b) : p[Len(a) + i] = b[i]
      BY <1>5, <2>2, <2>3
    <2> QED BY <2>1, <2>4, <2>5, <2>6, <2>7
  <1>7. ASSUME NEW n \in 0 .. Channels - 1
        PROVE  /\ p[6 + 2 * n] = Call("set", MULT0 + 4 * n, mult)
               /\ p[7 + 2 * n] = Call("check", MULT0 + 4 * n, mult)
    <2>1. /\ 1 + 2 * n \in 1 .. 2 * Channels /\ 2 + 2 * n \in 1 .. 2 * Channels
          /\ (1 + 2 * n) % 2 = 1 /\ (2 + 2 * n) % 2 = 0
          /\ (1 + 2 * n - 1) \div 2 = n /\ (2 + 2 * n - 1) \div 2 = n
          /\ 5 + (1 + 2 * n) = 6 + 2 * n /\ 5 + (2 + 2 * n) = 7 + 2 * n
      BY <1>1
    <2>2. b[1 + 2 * n] = Mult("set", mult, n)
          /\ b[2 + 2 * n] = Mult("check", mult, n)
      BY <2>1
    <2> HIDE DEF a, b, S
    <2>3. /\ p[5 + (1 + 2 * n)] = b[1 + 2 * n]
          /\ p[5 + (2 + 2 * n)] = b[2 + 2 * n]
      BY <1>6, <2>1
    <2> QED BY <2>1, <2>2, <2>3 DEF Mult, MultAddress
  <1>8. DOMAIN p = 1 .. 5 + 2 * Channels
    BY <1>1, <1>6
  <1>9. /\ a[1] = Call("get", IP_VER, 0)
        /\ a[2] = Call("set", TEST_POINT, 0)
        /\ a[3] = Call("check", TEST_POINT, 0)
        /\ a[4] = Call("set", CHANNEL, ch)
        /\ a[5] = Call("check", CHANNEL, ch)
    OBVIOUS
  <1> QED BY <1>6, <1>7, <1>8, <1>9

\* Behind the version a test sets and checks one register after the other.
Expected(mult, ch, n) == IF n = 0 THEN 0 ELSE IF n = 1 THEN ch ELSE mult

LEMMA TestPairs ==
  ASSUME NEW mult \in Int, NEW ch \in Int, NEW p, p = Test(mult, ch)
  PROVE  /\ DOMAIN p = 1 .. 5 + 2 * Channels /\ Len(p) = 5 + 2 * Channels
         /\ p[1].kind = "get" /\ p[1].at = IP_VER
         /\ \A n \in 0 .. Channels + 1 :
              /\ 2 + 2 * n \in DOMAIN p /\ p[2 + 2 * n].kind = "set"
              /\ p[2 + 2 * n].at = 8 + 4 * n
              /\ p[2 + 2 * n].val = Expected(mult, ch, n)
              /\ 3 + 2 * n \in DOMAIN p /\ p[3 + 2 * n].kind = "check"
              /\ p[3 + 2 * n].at = 8 + 4 * n
              /\ p[3 + 2 * n].val = Expected(mult, ch, n)
         /\ \A k \in DOMAIN p :
              \/ k = 1
              \/ \E n \in 0 .. Channels + 1 : k \in {2 + 2 * n, 3 + 2 * n}
  <1>1. Channels \in Nat /\ Channels # 0
    BY MultAssumption
  <1>2. DOMAIN p = 1 .. 5 + 2 * Channels /\ Len(p) = 5 + 2 * Channels
        /\ p[1].kind = "get" /\ p[1].at = IP_VER
    <2>1. /\ DOMAIN p = 1 .. 5 + 2 * Channels /\ Len(p) = 5 + 2 * Channels
          /\ p[1] = Call("get", IP_VER, 0)
      BY TestCalls
    <2>2. p[1].kind = "get" /\ p[1].at = IP_VER
      BY <2>1 DEF Call
    <2> QED BY <2>1, <2>2
  <1>3. ASSUME NEW n \in 0 .. Channels + 1
        PROVE  /\ 2 + 2 * n \in DOMAIN p /\ 3 + 2 * n \in DOMAIN p
               /\ p[2 + 2 * n] = Call("set", 8 + 4 * n, Expected(mult, ch, n))
               /\ p[3 + 2 * n] = Call("check", 8 + 4 * n,
                                      Expected(mult, ch, n))
    <2>1. 2 + 2 * n \in DOMAIN p /\ 3 + 2 * n \in DOMAIN p
      BY <1>1, <1>2
    <2>2. CASE n = 0
      BY <2>1, <2>2, TestCalls DEF Expected, TEST_POINT
    <2>3. CASE n = 1
      BY <2>1, <2>3, TestCalls DEF Expected, CHANNEL
    <2>4. CASE n \notin {0, 1}
      <3>1. /\ n - 2 \in 0 .. Channels - 1
            /\ 6 + 2 * (n - 2) = 2 + 2 * n /\ 7 + 2 * (n - 2) = 3 + 2 * n
            /\ 16 + 4 * (n - 2) = 8 + 4 * n
        BY <1>1, <2>4
      <3>2. p[6 + 2 * (n - 2)] = Call("set", MULT0 + 4 * (n - 2), mult)
            /\ p[7 + 2 * (n - 2)] = Call("check", MULT0 + 4 * (n - 2), mult)
        BY <3>1, TestCalls
      <3>3. Expected(mult, ch, n) = mult
        BY <2>4 DEF Expected
      <3> QED BY <2>1, <3>1, <3>2, <3>3 DEF MULT0
    <2> QED BY <2>2, <2>3, <2>4
  <1>4. ASSUME NEW k \in 1 .. 5 + 2 * Channels, k # 1
        PROVE  \E n \in 0 .. Channels + 1 : k \in {2 + 2 * n, 3 + 2 * n}
    <2>1. (k - 2) \div 2 \in 0 .. Channels + 1
          /\ k \in {2 + 2 * ((k - 2) \div 2), 3 + 2 * ((k - 2) \div 2)}
      BY <1>1, <1>4
    <2> QED BY <2>1
  <1>5. ASSUME NEW n \in 0 .. Channels + 1
        PROVE  /\ 2 + 2 * n \in DOMAIN p /\ p[2 + 2 * n].kind = "set"
               /\ p[2 + 2 * n].at = 8 + 4 * n
               /\ p[2 + 2 * n].val = Expected(mult, ch, n)
               /\ 3 + 2 * n \in DOMAIN p /\ p[3 + 2 * n].kind = "check"
               /\ p[3 + 2 * n].at = 8 + 4 * n
               /\ p[3 + 2 * n].val = Expected(mult, ch, n)
    <2>1. \A kind, at, val :
            /\ Call(kind, at, val).kind = kind /\ Call(kind, at, val).at = at
            /\ Call(kind, at, val).val = val
      BY DEF Call
    <2> QED BY <1>3, <2>1
  <1> QED BY <1>2, <1>4, <1>5

\* The registers a test is about, in the order it takes them.
LEMMA TestedInOrder ==
  /\ \A n \in 0 .. Channels + 1 :
       8 + 4 * n \in Tested /\ 8 + 4 * n \in Registers
       /\ 8 + 4 * n \notin {IP_VER, KILL}
  /\ \A o \in Tested : \E n \in 0 .. Channels + 1 : o = 8 + 4 * n
  <1>1. Channels \in Nat /\ Channels # 0
    BY MultAssumption
  <1>2. ASSUME NEW n \in 0 .. Channels + 1 PROVE 8 + 4 * n \in Tested
    <2>1. CASE n \in {0, 1}
      BY <2>1 DEF Tested, TEST_POINT, CHANNEL
    <2>2. CASE n \notin {0, 1}
      <3>1. n - 2 \in 0 .. Channels - 1 /\ 8 + 4 * n = 16 + 4 * (n - 2)
        BY <1>1, <2>2
      <3> QED BY <3>1 DEF Tested, Multipliers, MULT0
    <2> QED BY <2>1, <2>2
  <1>3. ASSUME NEW o \in Tested
        PROVE  \E n \in 0 .. Channels + 1 : o = 8 + 4 * n
    <2>1. CASE o = TEST_POINT
      <3>1. o = 8 + 4 * 0 /\ 0 \in 0 .. Channels + 1
        BY <1>1, <2>1 DEF TEST_POINT
      <3> QED BY <3>1
    <2>2. CASE o = CHANNEL
      <3>1. o = 8 + 4 * 1 /\ 1 \in 0 .. Channels + 1
        BY <1>1, <2>2 DEF CHANNEL
      <3> QED BY <3>1
    <2>3. CASE o \in Multipliers
      <3>1. PICK m \in 0 .. Channels - 1 : o = 16 + 4 * m
        BY <2>3 DEF Multipliers, MULT0
      <3>2. m + 2 \in 0 .. Channels + 1 /\ o = 8 + 4 * (m + 2)
        BY <1>1, <3>1
      <3> QED BY <3>2
    <2> QED BY <2>1, <2>2, <2>3 DEF Tested
  <1>4. \A n \in 0 .. Channels + 1 : 8 + 4 * n \notin {IP_VER, KILL}
    BY DEF IP_VER, KILL
  <1> QED BY <1>2, <1>3, <1>4, RegistersOfMultiplier

\* A test sets each register once, just before it checks it.
LEMMA TestCalm ==
  ASSUME NEW c \in Clients, NEW mult \in Int, NEW ch \in Int,
         Program[c] = Test(mult, ch)
  PROVE  /\ \A k \in DOMAIN Program[c] :
              Program[c][k].at \in Registers /\ Sound(c, k)
         /\ \A k \in DOMAIN Program[c] : \A o :
              Sets(c, k, o) <=> \E n \in 0 .. Channels + 1 :
                                  k = 2 + 2 * n /\ o = 8 + 4 * n
         /\ \A o : \A k \in ChecksOf(c, o) :
              \E n \in 0 .. Channels + 1 : k = 3 + 2 * n /\ o = 8 + 4 * n
         /\ \A n \in 0 .. Channels + 1 :
              ChecksOf(c, 8 + 4 * n) = {3 + 2 * n}
  <1> DEFINE p == Program[c]
             N == 0 .. Channels + 1
  <1>1. /\ DOMAIN p = 1 .. 5 + 2 * Channels
        /\ p[1].kind = "get" /\ p[1].at = IP_VER
        /\ \A n \in N :
             /\ 2 + 2 * n \in DOMAIN p /\ p[2 + 2 * n].kind = "set"
             /\ p[2 + 2 * n].at = 8 + 4 * n
             /\ 3 + 2 * n \in DOMAIN p /\ p[3 + 2 * n].kind = "check"
             /\ p[3 + 2 * n].at = 8 + 4 * n
        /\ \A k \in DOMAIN p :
             k = 1 \/ \E n \in N : k \in {2 + 2 * n, 3 + 2 * n}
    BY TestPairs
  <1> HIDE DEF p
  <1>2. ASSUME NEW n \in N
        PROVE  8 + 4 * n \in Registers /\ 8 + 4 * n # IP_VER
    BY TestedInOrder
  <1>3. ASSUME NEW k \in DOMAIN p
        PROVE  p[k].at \in Registers /\ (p[k].kind = "set" => p[k].at # IP_VER)
    <2>1. CASE k = 1
      BY <1>1, <2>1, RegistersOfMultiplier
    <2>2. ASSUME NEW n \in N, k \in {2 + 2 * n, 3 + 2 * n}
          PROVE  /\ p[k].at \in Registers
                 /\ p[k].kind = "set" => p[k].at # IP_VER
      <3>1. p[k].at = 8 + 4 * n
        BY <1>1, <2>2
      <3> QED BY <1>2, <3>1
    <2> QED BY <1>1, <2>1, <2>2
  <1>4. \A k \in DOMAIN p : Target(c, k) = p[k].at
    BY <1>3 DEF Target, p
  <1>5. ASSUME NEW k \in DOMAIN p PROVE Sound(c, k)
    <2>1. \A j \in 1 .. k : j \in DOMAIN p
      BY <1>1, MultAssumption
    <2> QED BY <1>3, <1>4, <2>1 DEF Sound, p
  <1>6. ASSUME NEW k \in DOMAIN p, NEW o
        PROVE  Sets(c, k, o) <=> p[k].kind = "set" /\ p[k].at = o
    BY <1>4, <1>5 DEF Sets, p
  <1>7. ASSUME NEW k \in DOMAIN p, NEW o
        PROVE  Sets(c, k, o) <=>
                 \E n \in N : k = 2 + 2 * n /\ o = 8 + 4 * n
    <2>1. ASSUME Sets(c, k, o)
          PROVE  \E n \in N : k = 2 + 2 * n /\ o = 8 + 4 * n
      <3>1. p[k].kind = "set" /\ p[k].at = o
        BY <1>6, <2>1
      <3>2. k # 1
        BY <1>1, <3>1
      <3>3. PICK n \in N : k \in {2 + 2 * n, 3 + 2 * n}
        BY <1>1, <3>2
      <3>4. k = 2 + 2 * n
        BY <1>1, <3>1, <3>3
      <3>5. o = 8 + 4 * n
        BY <1>1, <3>1, <3>4
      <3> QED BY <3>4, <3>5
    <2>2. ASSUME NEW n \in N, k = 2 + 2 * n, o = 8 + 4 * n
          PROVE  Sets(c, k, o)
      BY <1>1, <1>6, <2>2
    <2> QED BY <2>1, <2>2
  <1>8. ASSUME NEW o, NEW k \in ChecksOf(c, o)
        PROVE  \E n \in N : k = 3 + 2 * n /\ o = 8 + 4 * n
    <2>1. k \in DOMAIN p /\ p[k].kind = "check" /\ p[k].at = o
      BY DEF ChecksOf, p
    <2>2. k # 1
      BY <1>1, <2>1
    <2>3. PICK n \in N : k \in {2 + 2 * n, 3 + 2 * n}
      BY <1>1, <2>1, <2>2
    <2>4. k = 3 + 2 * n
      BY <1>1, <2>1, <2>3
    <2>5. o = 8 + 4 * n
      BY <1>1, <2>1, <2>4
    <2> QED BY <2>4, <2>5
  <1>9. ASSUME NEW n \in N PROVE ChecksOf(c, 8 + 4 * n) = {3 + 2 * n}
    <2>1. 3 + 2 * n \in ChecksOf(c, 8 + 4 * n)
      <3>1. 3 + 2 * n \in DOMAIN p /\ p[3 + 2 * n].kind = "check"
            /\ p[3 + 2 * n].at = 8 + 4 * n
        BY <1>1
      <3> QED BY <3>1 DEF ChecksOf, p
    <2>2. ASSUME NEW k \in ChecksOf(c, 8 + 4 * n) PROVE k = 3 + 2 * n
      <3>1. PICK m \in N : k = 3 + 2 * m /\ 8 + 4 * n = 8 + 4 * m
        BY <1>8
      <3>2. m = n
        BY <3>1, MultAssumption
      <3> QED BY <3>1, <3>2
    <2> QED BY <2>1, <2>2
  <1> QED BY <1>3, <1>5, <1>7, <1>8, <1>9 DEF p

TestOrReset(c) ==
  Program[c] = Reset \/ \E mult, ch \in Int : Program[c] = Test(mult, ch)

\* The calls of a reset.
LEMMA ResetCalls ==
  ASSUME NEW c \in Clients, Program[c] = Reset
  PROVE  /\ DOMAIN Program[c] = {1, 2}
         /\ Program[c][1] = Call("set", KILL, 1)
         /\ Program[c][2] = Call("set", KILL, 0)
         /\ \A o : ChecksOf(c, o) = {}
  <1>1. /\ DOMAIN Program[c] = {1, 2}
        /\ Program[c][1] = Call("set", KILL, 1)
        /\ Program[c][2] = Call("set", KILL, 0)
    BY DEF Reset
  <1> QED BY <1>1 DEF ChecksOf, Call

\* Any number of tests, each with whatever arguments, and of resets.
THEOREM TestsDisciplined ==
  ASSUME \A c \in Clients : TestOrReset(c)
  PROVE  Disciplined
  <1>1. StraysApart
    <2>1. SUFFICES ASSUME NEW c \in Clients, NEW k \in DOMAIN Program[c] \ {1}
                   PROVE  Program[c][k].at \in Registers
      BY DEF StraysApart
    <2>2. CASE Program[c] = Reset
      <3>1. k = 2 /\ Program[c][2].at = KILL
        BY <2>2, ResetCalls DEF Call
      <3> QED BY <3>1, RegistersOfMultiplier
    <2>3. CASE \E mult, ch \in Int : Program[c] = Test(mult, ch)
      BY <2>3, TestCalm
    <2> QED BY <2>2, <2>3 DEF TestOrReset
  <1>2. ResetsWhole
    <2>1. SUFFICES ASSUME NEW c \in Clients, NEW k \in DOMAIN Program[c],
                          Sets(c, k, KILL), Kept(KILL, Program[c][k].val) # 0
                   PROVE  /\ k + 1 \in DOMAIN Program[c]
                          /\ Program[c][k + 1].kind = "set"
                          /\ Program[c][k + 1].at = KILL
                          /\ Kept(KILL, Program[c][k + 1].val) = 0
      BY DEF ResetsWhole
    <2>2. CASE Program[c] = Reset
      <3>1. Kept(KILL, 0) = 0
        <4>1. Width(KILL) = 1
          BY DEF Width, KILL, IP_VER, TEST_POINT, CHANNEL
        <4> QED BY <4>1, KeptBits
      <3>2. k = 1
        BY <2>1, <2>2, <3>1, ResetCalls DEF Call
      <3> QED BY <2>2, <3>1, <3>2, ResetCalls DEF Call
    <2>3. CASE \E mult, ch \in Int : Program[c] = Test(mult, ch)
      <3>1. PICK n \in 0 .. Channels + 1 : KILL = 8 + 4 * n
        BY <2>1, <2>3, TestCalm
      <3> QED BY <3>1, TestedInOrder
    <2> QED BY <2>2, <2>3 DEF TestOrReset
  <1>3. ASSUME NEW c \in Clients, NEW o, NEW k \in ChecksOf(c, o)
        PROVE  /\ o \in Tested /\ Sound(c, k)
               /\ Program[c][k].val = Given(c, o)
               /\ \E j \in 1 .. k - 1 :
                    /\ Sets(c, j, o) /\ Program[c][j].val = Given(c, o)
                    /\ \A i \in j + 1 .. k - 1 : ~Sets(c, i, o)
               /\ \A i \in k + 1 .. Len(Program[c]) : ~Sets(c, i, o)
    <2>1. PICK mult \in Int, ch \in Int : Program[c] = Test(mult, ch)
      BY <1>3, ResetCalls DEF TestOrReset
    <2>2. PICK n \in 0 .. Channels + 1 : k = 3 + 2 * n /\ o = 8 + 4 * n
      BY <2>1, TestCalm
    <2>3. k \in DOMAIN Program[c] /\ o \in Tested /\ Sound(c, k)
      BY <2>1, <2>2, TestCalm, TestedInOrder DEF ChecksOf
    <2>4. Given(c, o) = Program[c][k].val
      BY <2>1, <2>2, TestCalm DEF Given
    <2>5. /\ Program[c][2 + 2 * n].val = Program[c][k].val
          /\ 2 + 2 * n \in DOMAIN Program[c]
      <3>1. /\ 2 + 2 * n \in DOMAIN Program[c]
            /\ Program[c][2 + 2 * n].val = Expected(mult, ch, n)
            /\ Program[c][3 + 2 * n].val = Expected(mult, ch, n)
        BY <2>1, TestPairs
      <3> QED BY <2>2, <3>1
    <2>6. Sets(c, 2 + 2 * n, o)
      BY <2>1, <2>2, <2>5, TestCalm
    <2>7. 2 + 2 * n \in 1 .. k - 1 /\ (2 + 2 * n) + 1 .. k - 1 = {}
      BY <2>2, MultAssumption
    <2>8. ASSUME NEW i \in k + 1 .. Len(Program[c]), Sets(c, i, o) PROVE FALSE
      <3>1. i \in DOMAIN Program[c]
        BY <2>2, Calls, MultAssumption
      <3>2. PICK m \in 0 .. Channels + 1 : i = 2 + 2 * m /\ o = 8 + 4 * m
        BY <2>1, <2>8, <3>1, TestCalm
      <3> QED BY <2>2, <2>8, <3>2, MultAssumption
    <2> QED BY <2>3, <2>4, <2>5, <2>6, <2>7, <2>8
  <1>4. ChecksFollowSets
    BY <1>3 DEF ChecksFollowSets
  <1>5. TestsWhole
    <2>1. SUFFICES ASSUME NEW c \in Tests, NEW o \in Tested
                   PROVE  \E k \in ChecksOf(c, o) :
                            \A i \in k + 1 .. Len(Program[c]) : ~Sets(c, i, o)
      BY DEF TestsWhole
    <2>2. c \in Clients /\ ChecksOf(c, TEST_POINT) # {}
      BY DEF Tests
    <2>3. PICK mult \in Int, ch \in Int : Program[c] = Test(mult, ch)
      BY <2>2, ResetCalls DEF TestOrReset
    <2>4. PICK n \in 0 .. Channels + 1 : o = 8 + 4 * n
      BY TestedInOrder
    <2>5. 3 + 2 * n \in ChecksOf(c, o)
      BY <2>2, <2>3, <2>4, TestCalm
    <2> QED BY <1>3, <2>2, <2>5
  <1> QED BY <1>1, <1>2, <1>4, <1>5 DEF Disciplined

=============================================================================
