------------------------------ MODULE RegDriver ------------------------------
(***************************************************************************)
(* The register drivers rls_mini_pl and axi_multiplier, which are the same *)
(* code up to their names and their last register: how probe and remove    *)
(* acquire and release what the character device needs, and how clients    *)
(* reach registers through it with the user libraries (axi_dsp.cpp,        *)
(* axi_multiplier.c): lseek() to the register, then read() or write().     *)
(*                                                                         *)
(* Each client has a file of its own.  What registers hold is left out.    *)
(***************************************************************************)
EXTENDS Integers, FiniteSets

CONSTANTS
  Clients,          \* processes
  MaxOffset,        \* REG_MAX_OFFSET: 0x170 or 0x2c
  Word,             \* 2^32: handlers cut the position to a u32
  Asked             \* offsets clients ask for

ASSUME RegAssumption ==
  /\ MaxOffset \in Nat /\ MaxOffset % 4 = 0
  /\ Word \in Nat /\ Word > MaxOffset + 4 /\ Word % 4 = 0
  /\ Asked \subseteq Int

VARIABLES
  phase,            \* "unbound", "probing", "bound" or "releasing"
  next,             \* the resource to acquire, or to release, next
  held,             \* resources held for the device
  going,            \* the module is being unloaded: open() fails
  file,             \* file[c]: "closed", "open", or "asked" behind lseek()
  pos,              \* pos[c]: f_pos
  want,             \* want[c]: offset the library was called with
  after,            \* after[c]: the register behind the one accessed last
  freed,            \* clients whose file leads to data that has been freed
  orphaned,         \* clients whose file was open when cdev_del() ran, without
                    \* the module being unloaded
  access            \* the access to a register that was just made, if any

device  == <<phase, next, held, going>>
clients == <<file, pos, want, after>>
fate    == <<freed, orphaned>>
vars    == <<device, clients, fate, access>>

\* In the order probe acquires them; "mem" stands for the two device-managed
\* ones, the driver's data and the mapping of the registers.
Resources == {"mem", "region", "cdev", "class", "device"}

After  == [mem |-> "region", region |-> "cdev", cdev |-> "class",
           class |-> "device", device |-> "none"]

\* Mutant: cdev_del() is forgotten.
BeforeSkipping ==
  [device |-> "class", class |-> "region", cdev |-> "region",
   region |-> "mem", mem |-> "none"]

\* In the order remove and the labels release them.
Before ==
  [device |-> "class", class |-> "cdev", cdev |-> "region",
   region |-> "mem", mem |-> "none"]

Registers == {o \in 0 .. MaxOffset : o % 4 = 0}

NoAccess ==
  [kind |-> "none", at |-> 0, want |-> 0, after |-> 0, direct |-> FALSE]

NoneMade == access' = NoAccess

Init ==
  /\ phase = "unbound" /\ next = "none" /\ held = {}
  /\ going = FALSE
  /\ file = [c \in Clients |-> "closed"]
  /\ pos = [c \in Clients |-> 0]
  /\ want = [c \in Clients |-> 0]
  /\ after = [c \in Clients |-> 0]
  /\ freed = {} /\ orphaned = {}
  /\ access = NoAccess

-----------------------------------------------------------------------------
(* probe and remove.                                                       *)

Probe ==
  /\ phase = "unbound"
  /\ phase' = "probing"
  /\ next' = "mem"
  /\ going' = FALSE
  /\ UNCHANGED <<held, clients, fate>> /\ NoneMade

Acquire ==
  /\ phase = "probing"
  /\ held' = held \union {next}
  /\ next' = After[next]
  /\ phase' = IF next = "device" THEN "bound" ELSE phase
  /\ UNCHANGED <<going, clients, fate>> /\ NoneMade

\* Mutant: the label behind the right one.
UnwindFromSkipping ==
  [mem |-> "mem", region |-> "mem", cdev |-> "region",
   class |-> "region", device |-> "cdev"]

\* The first thing released when the acquisition of a resource fails.
UnwindFrom ==
  [mem |-> "mem", region |-> "mem", cdev |-> "region",
   class |-> "cdev", device |-> "class"]

\* An acquisition fails: goto err_..., or return.
AcquireFails ==
  /\ phase = "probing"
  /\ phase' = "releasing"
  /\ next' = UnwindFrom[next]
  /\ UNCHANGED <<held, going, clients, fate>> /\ NoneMade

Using == {c \in Clients : file[c] # "closed"}

\* .owner = THIS_MODULE: an open file keeps the module loaded.
Unused == Using = {}

\* Mutant: remove starts with the class.
RemoveFromClass == "class"

RemoveFrom == "device"

\* remove, by rmmod or by unbinding through sysfs, which open files do not
\* stop.
Remove ==
  /\ phase = "bound"
  /\ going' \in {FALSE} \union (IF Unused THEN {TRUE} ELSE {})
  /\ phase' = "releasing"
  /\ next' = RemoveFrom
  /\ UNCHANGED <<held, clients, fate>> /\ NoneMade

\* One line of the unwinding, or of remove; the last is done by devres, which
\* frees the data that open files lead to.
Release ==
  /\ phase = "releasing"
  /\ held' = held \ {next}
  /\ next' = Before[next]
  /\ phase' = IF next = "mem" THEN "unbound" ELSE phase
  /\ orphaned' =
       orphaned \union (IF next = "cdev" /\ ~going THEN Using ELSE {})
  /\ freed' = freed \union (IF next = "mem" THEN Using ELSE {})
  /\ UNCHANGED <<going, clients>> /\ NoneMade

Binding == Probe \/ Acquire \/ AcquireFails \/ Remove \/ Release

-----------------------------------------------------------------------------
(* The file operations, and the library on top of them.                    *)

\* Mutant: the register behind the last one is valid.
RegIsValidLate(off) == off % 4 = 0 /\ off <= MaxOffset + 4

RegIsValid(off) == off % 4 = 0 /\ off <= MaxOffset

RegIsWritable(off) == off # 0

\* Mutant: the offset counts from the position.
LlseekRelative(old, off) == IF old + off >= 0 THEN old + off ELSE old

\* axi_llseek() with SEEK_SET.
Llseek(old, off) ==
  IF off >= 0 /\ off <= MaxOffset /\ off % 4 = 0 THEN off ELSE old

\* open() gets to axi_open() from cdev_add() to cdev_del(): its path may have
\* been looked up before, or be a node of somebody's own, so that the device
\* node does not matter.  The file leads to the data around the cdev.
Open(c) ==
  /\ file[c] = "closed"
  /\ "cdev" \in held
  /\ ~going
  /\ file' = [file EXCEPT ![c] = "open"]
  /\ pos' = [pos EXCEPT ![c] = 0]
  /\ after' = [after EXCEPT ![c] = 0]
  /\ freed' = IF "mem" \in held THEN freed \ {c} ELSE freed \union {c}
  /\ orphaned' = orphaned \ {c}
  /\ UNCHANGED <<device, want>> /\ NoneMade

\* With the file its position is gone, and what is said about it.
Closed(c) ==
  /\ file' = [file EXCEPT ![c] = "closed"]
  /\ pos' = [pos EXCEPT ![c] = 0]
  /\ want' = [want EXCEPT ![c] = 0]
  /\ after' = [after EXCEPT ![c] = 0]
  /\ freed' = freed \ {c} /\ orphaned' = orphaned \ {c}

Close(c) == file[c] = "open" /\ Closed(c) /\ UNCHANGED device /\ NoneMade

\* The library ignores whether lseek() succeeds.
Lseek(c, off) ==
  /\ file[c] = "open"
  /\ want' = [want EXCEPT ![c] = off]
  /\ pos' = [pos EXCEPT ![c] = Llseek(@, off)]
  /\ file' = [file EXCEPT ![c] = "asked"]
  /\ UNCHANGED <<device, after, fate>> /\ NoneMade

\* readl() or writel(), with d->base.
Touch(c, kind) ==
  access' = [kind |-> kind, at |-> pos[c] % Word, want |-> want[c],
             after |-> after[c], direct |-> FALSE]

\* A handler that succeeds moves on by one register.
Succeeds(c) ==
  /\ file' = [file EXCEPT ![c] = "open"]
  /\ pos' = [pos EXCEPT ![c] = @ + 4]
  /\ want' = [want EXCEPT ![c] = 0]
  /\ after' = [after EXCEPT ![c] = (pos[c] % Word) + 4]
  /\ UNCHANGED fate

\* When it fails the library closes the file.
GiveUp(c) == Closed(c) /\ NoneMade

\* What a handler lets pass before it looks into the data.
Permitted(kind, off) ==
  /\ RegIsValid(off)
  /\ kind = "write" => RegIsWritable(off)

Handler(c, kind) ==
  /\ file[c] = "asked"
  /\ IF Permitted(kind, pos[c] % Word)
     THEN c \notin freed /\ Touch(c, kind) /\ Succeeds(c)
     ELSE GiveUp(c)
  /\ UNCHANGED device

Read(c) == Handler(c, "read")

Write(c) == Handler(c, "write")

\* copy_to_user() fails, behind readl(); copy_from_user() does, or the length
\* is too short, before anything has happened.  None of it happens to the
\* libraries, which pass variables of their own.
Fault(c) ==
  /\ file[c] = "asked"
  /\ \/ /\ Permitted("read", pos[c] % Word) /\ c \notin freed
        /\ Touch(c, "read") /\ Closed(c)
     \/ GiveUp(c)
  /\ UNCHANGED device

\* A handler uses data that has been freed, and d->base, which is unmapped.
\* What it hits is not modelled: it returns, fails, or kills the process.
Astray(c) ==
  /\ file[c] = "asked" /\ c \in freed
  /\ Permitted("read", pos[c] % Word)
  /\ Succeeds(c) \/ Closed(c)
  /\ UNCHANGED device /\ NoneMade

\* pread() and pwrite(), which no library here uses: a 64-bit offset reaches
\* the handlers without axi_llseek(), and the position stays.
Direct(c, kind, off) ==
  /\ file[c] = "open" /\ c \notin freed
  /\ off >= 0
  /\ Permitted(kind, off % Word)
  /\ access' = [kind |-> kind, at |-> off % Word, want |-> off,
                after |-> after[c], direct |-> TRUE]
  /\ UNCHANGED <<device, clients, fate>>

Client(c) ==
  \/ Open(c) \/ Close(c)
  \/ \E o \in Asked : Lseek(c, o)
  \/ Read(c) \/ Write(c) \/ Fault(c) \/ Astray(c)
  \/ \E o \in Asked, kind \in {"read", "write"} : Direct(c, kind, o)

Next == Binding \/ \E c \in Clients : Client(c)

Spec == Init /\ [][Next]_vars

-----------------------------------------------------------------------------
(* Properties.                                                             *)

TypeOK ==
  /\ phase \in {"unbound", "probing", "bound", "releasing"}
  /\ next \in Resources \union {"none"}
  /\ held \subseteq Resources
  /\ going \in BOOLEAN
  /\ file \in [Clients -> {"closed", "open", "asked"}]
  /\ pos \in [Clients -> Registers \union {MaxOffset + 4}]
  /\ want \in [Clients -> Asked \union {0}]
  /\ after \in [Clients -> Registers \union {MaxOffset + 4}]
  /\ freed \subseteq Clients /\ orphaned \subseteq Clients
  /\ access \in [kind : {"none", "read", "write"}, at : Registers,
                 want : Asked \union {0},
                 after : Registers \union {MaxOffset + 4}, direct : BOOLEAN]

\* Whatever acquisition fails, and after remove, everything is given back, so
\* that the driver can be bound again.
NothingLeaks == phase = "unbound" => held = {}

\* The device node is visible only while everything that serves it is there,
\* in the midst of probe and remove, too.
NodeServed == "device" \in held => held = Resources

\* Handlers look into the data of the driver, which an open file does not keep.
\* A file leads to freed data only if it was open as the driver was unbound
\* through sysfs, or as a probe failed behind cdev_add(): unloading the module
\* never frees the data of an open file, and a file that is opened later leads
\* to live data, under whatever binding.
NoUseAfterFree ==
  \A c \in Clients : file[c] # "closed" /\ c \in freed => c \in orphaned

\* No call reaches beyond the registers or writes the version, not with a
\* position left behind the last register, nor with an offset beyond 32 bits.
InBounds ==
  access.kind # "none" =>
    /\ access.at \in Registers
    /\ access.kind = "write" => access.at # 0

\* A library call for a register accesses that register, wherever an earlier
\* call left the position.  A call for anything else, for which lseek() fails
\* unnoticed, hits the register behind the one that was accessed last.
LandsWhereAsked ==
  access.kind # "none" /\ ~access.direct =>
    access.at = IF access.want \in Registers THEN access.want ELSE access.after

=============================================================================
