---------------------------- MODULE AxiMultiplier ----------------------------
(***************************************************************************)
(* Programs that use the library axi_multiplier.c, each in a process of    *)
(* its own, on the driver of RegDriver: above all the repository's test,   *)
(* test_axi_multiplier.c, which sets registers, reads them back and prints *)
(* an alarm where the two differ.                                          *)
(*                                                                         *)
(* A program is the sequence of the library's calls, each of which is      *)
(* lseek() followed by read() or write().  Nobody unbinds the driver while *)
(* a file is open: what happens then is RegDriver's matter.                *)
(***************************************************************************)
EXTENDS RegDriver, Sequences

CONSTANTS
  Channels,         \* multipliers: 8
  Program           \* Program[c]: the calls of c between init and deinit

VARIABLES
  stage,            \* stage[c]: "idle", "running", "done", or "refused" when
                    \* init failed
  pc,               \* pc[c]: number of c's call under way; deinit is behind
                    \* the last of its program
  value,            \* what the registers hold
  alarm,            \* alarm[c]: registers of which c has printed an alarm
  writer            \* writer[o]: who wrote the register last

programs == <<stage, pc, value, alarm, writer>>

-----------------------------------------------------------------------------
(* regs.h: the addresses and widths of the registers.                      *)

IP_VER     == 0
KILL       == 4
TEST_POINT == 8
CHANNEL    == 12
MULT0      == 16

Width(o) ==
  CASE o = IP_VER                   -> 32
    [] o = KILL                     -> 1
    [] o \in {TEST_POINT, CHANNEL}  -> 3
    [] OTHER                        -> 16

Multipliers == {MULT0 + 4 * n : n \in 0 .. Channels - 1}

ASSUME MultAssumption ==
  /\ Channels \in Nat \ {0}
  /\ MaxOffset = MULT0 + 4 * (Channels - 1)
  /\ Program \in [Clients -> Seq([kind : {"set", "get", "check"}, at : Asked,
                                  val : Int])]

-----------------------------------------------------------------------------
(* The library.                                                            *)

\* "set", or "get", the result of which "check" compares with val.
Call(kind, at, val) == [kind |-> kind, at |-> at, val |-> val]

\* Mutant: the channel does not count.
MultAddressFirst(num) == MULT0

MultAddress(num) == MULT0 + 4 * num

Mult(kind, val, num) == Call(kind, MultAddress(num), val)

\* Mutant: reserved bits are kept.
KeptWhole(o, val) == val

\* A register keeps the lower bits of the uint32_t to which val is converted.
Kept(o, val) == val % 2^Width(o)

\* Mutant: uint16_t for int16_t.
SeenUnsigned(o, word) == word

\* Multipliers are read as int16_t, anything else as it is.
Seen(o, word) ==
  IF o \in Multipliers /\ word >= 2^15 THEN word - 2^16 ELSE word

\* Mutant: axi_multiplier_reset() in the order of axi_dsp_kill().
ResetSwapped == <<Call("set", KILL, 0), Call("set", KILL, 1)>>

\* axi_multiplier_reset()
Reset == <<Call("set", KILL, 1), Call("set", KILL, 0)>>

\* test_axi_multiplier <mult> <ch>
Test(mult, ch) ==
  <<Call("get", IP_VER, 0),
    Call("set", TEST_POINT, 0), Call("check", TEST_POINT, 0),
    Call("set", CHANNEL, ch), Call("check", CHANNEL, ch)>>
  \o [k \in 1 .. 2 * Channels |->
        Mult(IF k % 2 = 1 THEN "set" ELSE "check", mult, (k - 1) \div 2)]

-----------------------------------------------------------------------------
(* Behaviour.                                                              *)

MultInit ==
  /\ Init
  /\ stage = [c \in Clients |-> "idle"]
  /\ pc = [c \in Clients |-> 1]
  /\ value = [o \in Registers |-> IF o = IP_VER THEN 65537 ELSE 0]
  /\ alarm = [c \in Clients |-> {}]
  /\ writer = [o \in Registers |-> "nobody"]

Rebind == Unused /\ Binding /\ UNCHANGED programs

Calling(c) == stage[c] = "running" /\ pc[c] <= Len(Program[c])

Return(c) == pc' = [pc EXCEPT ![c] = @ + 1] /\ UNCHANGED stage

\* Mutant: tries again.
BeginRetrying(c) ==
  /\ stage[c] = "idle"
  /\ "device" \in held /\ ~going
  /\ Open(c)
  /\ stage' = [stage EXCEPT ![c] = "running"]
  /\ UNCHANGED <<pc, value, alarm, writer>>

\* axi_multiplier_init(); without a device the program returns 1.
Begin(c) ==
  /\ stage[c] = "idle"
  /\ IF "device" \in held /\ ~going
     THEN Open(c) /\ stage' = [stage EXCEPT ![c] = "running"]
     ELSE UNCHANGED vars /\ stage' = [stage EXCEPT ![c] = "refused"]
  /\ UNCHANGED <<pc, value, alarm, writer>>

\* The first half of a call.
Seek(c) ==
  /\ Calling(c)
  /\ Lseek(c, Program[c][pc[c]].at)
  /\ UNCHANGED programs

\* The second half of a setter's call.
Put(c) ==
  LET call == Program[c][pc[c]] IN
  /\ Calling(c)
  /\ call.kind = "set"
  /\ Write(c)
  /\ IF file'[c] = "open"
     THEN /\ value' = [value EXCEPT ![access'.at] = Kept(access'.at, call.val)]
          /\ writer' = [writer EXCEPT ![access'.at] = c]
     ELSE UNCHANGED <<value, writer>>
  /\ Return(c)
  /\ UNCHANGED alarm

Alarms(c, call) ==
  alarm' = IF call.kind = "check"
           THEN [alarm EXCEPT ![c] = @ \union {call.at}]
           ELSE alarm

\* The second half of a getter's call.  When reading fails its result is an
\* uninitialized variable.
Take(c) ==
  LET call == Program[c][pc[c]] IN
  /\ Calling(c)
  /\ call.kind # "set"
  /\ Read(c)
  /\ \/ /\ file'[c] = "open" => Seen(call.at, value[access'.at]) = call.val
        /\ UNCHANGED alarm
     \/ /\ file'[c] = "open" => Seen(call.at, value[access'.at]) # call.val
        /\ Alarms(c, call)
  /\ Return(c)
  /\ UNCHANGED <<value, writer>>

\* A call after an earlier one has failed and closed the file.
CallLost(c) ==
  LET call == Program[c][pc[c]] IN
  /\ Calling(c)
  /\ file[c] = "closed"
  /\ UNCHANGED alarm \/ (call.kind # "set" /\ Alarms(c, call))
  /\ Return(c)
  /\ UNCHANGED <<vars, value, writer>>

\* axi_multiplier_deinit()
Finish(c) ==
  /\ stage[c] = "running" /\ pc[c] > Len(Program[c])
  /\ IF file[c] = "open" THEN Close(c) ELSE UNCHANGED vars
  /\ stage' = [stage EXCEPT ![c] = "done"]
  /\ UNCHANGED <<pc, value, alarm, writer>>

Step(c) ==
  Begin(c) \/ Seek(c) \/ Put(c) \/ Take(c) \/ CallLost(c) \/ Finish(c)

MultNext == Rebind \/ \E c \in Clients : Step(c)

multVars == <<vars, programs>>

\* Processes run on; nothing else has to happen.
MultSpec ==
  MultInit /\ [][MultNext]_multVars /\ \A c \in Clients : WF_multVars(Step(c))

-----------------------------------------------------------------------------
(* Properties.                                                             *)

MultTypeOK ==
  /\ TypeOK
  /\ stage \in [Clients -> {"idle", "running", "done", "refused"}]
  /\ \A c \in Clients : pc[c] \in 1 .. Len(Program[c]) + 1
  /\ \A o \in Registers \ {IP_VER} : value[o] \in 0 .. 2^Width(o) - 1
  /\ value[IP_VER] = 65537
  /\ alarm \in [Clients -> SUBSET Registers]
  /\ writer \in [Registers -> Clients \union {"nobody"}]

\* The programs that are tests, with the values they set.
ChecksOf(c, o) ==
  {k \in DOMAIN Program[c] :
     Program[c][k].kind = "check" /\ Program[c][k].at = o}

Given(c, o) == Program[c][CHOOSE k \in ChecksOf(c, o) : TRUE].val

Tests == {c \in Clients : ChecksOf(c, TEST_POINT) # {}}

\* The registers that a test is about.
Tested == {TEST_POINT, CHANNEL} \union Multipliers

Fits(o, val) ==
  IF o \in Multipliers THEN val \in -(2^15) .. 2^15 - 1 ELSE val \in 0 .. 7

\* The test raises no false alarm: of a value that fits in the register it
\* prints an alarm only if another process has written the register since the
\* test did, be it through a call for a channel that does not exist.
NoFalseAlarm ==
  [][\A c \in Clients : \A o \in alarm'[c] \ alarm[c] :
       writer[o] # c \/ ~Fits(o, Given(c, o))]_multVars

\* A test that ends in silence has set the test point, the channel and every
\* multiplier to what it was called with (of which 16 bits count), unless
\* another process has written the register later.
SilentIsSet ==
  \A c \in Tests : stage[c] = "done" /\ alarm[c] = {} =>
    \A o \in Tested :
      \/ writer[o] \in Clients \ {c}
      \/ writer[o] = c /\ value[o] = Given(c, o) % 2^16

\* Whatever resets overlap, when all have ended the multiplier runs.
RunsAfterReset ==
  (\A c \in Clients : stage[c] # "running") => value[KILL] = 0

\* Every program ends, whether or not there is a device and whatever the others
\* do.
ProgramsEnd == <>(\A c \in Clients : stage[c] \in {"done", "refused"})

-----------------------------------------------------------------------------
(* What the properties ask of the programs, beyond the two tests of a run. *)

\* The register that call k accesses: lseek() to one that does not exist fails
\* and leaves the file where the call before left it.
Target(c, k) ==
  IF Program[c][k].at \in Registers THEN Program[c][k].at
  ELSE IF k = 1 THEN 0 ELSE Program[c][k - 1].at + 4

\* The first k calls succeed: behind one that fails all calls are lost.
Sound(c, k) ==
  \A i \in 1 .. k :
    /\ Target(c, i) \in Registers
    /\ Program[c][i].kind = "set" => Target(c, i) # IP_VER

Sets(c, k, o) == Program[c][k].kind = "set" /\ Target(c, k) = o /\ Sound(c, k)

\* No two calls in a row are for registers that do not exist.
StraysApart ==
  \A c \in Clients : \A k \in DOMAIN Program[c] \ {1} :
    Program[c][k].at \in Registers \/ Program[c][k - 1].at \in Registers

\* Only a reset stops the multiplier.
ResetsWhole ==
  \A c \in Clients : \A k \in DOMAIN Program[c] :
    Sets(c, k, KILL) /\ Kept(KILL, Program[c][k].val) # 0 =>
      /\ k + 1 \in DOMAIN Program[c]
      /\ Program[c][k + 1].kind = "set" /\ Program[c][k + 1].at = KILL
      /\ Kept(KILL, Program[c][k + 1].val) = 0

\* What is checked has been set to the value that is expected.
ChecksFollowSets ==
  \A c \in Clients : \A o \in Asked : \A k \in ChecksOf(c, o) :
    /\ o \in Tested /\ Sound(c, k)
    /\ Program[c][k].val = Given(c, o)
    /\ \E j \in 1 .. k - 1 :
         /\ Sets(c, j, o) /\ Program[c][j].val = Given(c, o)
         /\ \A i \in j + 1 .. k - 1 : ~Sets(c, i, o)

\* A test checks everything, and leaves it as it is then.
TestsWhole ==
  \A c \in Tests : \A o \in Tested : \E k \in ChecksOf(c, o) :
    \A i \in k + 1 .. Len(Program[c]) : ~Sets(c, i, o)

Disciplined == StraysApart /\ ResetsWhole /\ ChecksFollowSets /\ TestsWhole

=============================================================================
