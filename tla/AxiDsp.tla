------------------------------- MODULE AxiDsp -------------------------------
(***************************************************************************)
(* The axi_dsp library: setters and getters for the registers of the       *)
(* signal processor (regs.h), axi_dsp_apply(), and what the library does    *)
(* with its file when the device cannot be opened or written.              *)
(*                                                                         *)
(* A register is the set of its bits that are 1, and keeps the bits of its *)
(* fields only.  A setting is a tuple of fields, each an integer; the      *)
(* units are chosen so that every value of interest is one: 2^-14 for      *)
(* complex numbers and the compensation reference, an eighth of a turn for *)
(* angles.  That an access with a valid *)
(* offset hits its register is shown of RegDriver.                         *)
(***************************************************************************)
EXTENDS Integers, Sequences, FiniteSets, FiniteSetsExt

CONSTANTS
  Processes,        \* each has a library, and a file, of its own
  Inputs,           \* [name, num, value] that callers may set in this instance
  MayOpenReadOnly,  \* opening for writing may fail, reading succeed
  MayFailToOpen     \* or both may fail

VARIABLES
  reg,              \* the registers: address -> set of bits
  pending,          \* addresses written since the processor took them over
  asked,            \* asked[s]: value a setting was last given
  got,              \* the last result of a getter, and of what setting
  fd,               \* fd[p]: "rw", "ro" or "closed"
  toggle,           \* toggle[p]: what axi_dsp_apply() will write, or Idle
  due,              \* due[p]: what was pending when axi_dsp_apply() was called
                    \* and has not been taken over
  killing           \* processes between the two writes of axi_dsp_kill()

vars == <<reg, pending, asked, got, fd, toggle, due, killing>>

-----------------------------------------------------------------------------
(* regs.h.                                                                 *)

KILL                   == 4
TEST_POINT             == 8
CHANNEL                == 12
COMPENSATION_MODE      == 16
MANUAL_COMPENSATION_0  == 20
DIAGRAM_0_0            == 52
DIAGRAM_1_0            == 84
DIAGRAM_2_0            == 116
DIAGRAM_3_0            == 148
DIAGRAM_4_0            == 180
DIAGRAM_5_0            == 212
DIAGRAM_6_0            == 244
DIAGRAM_7_0            == 276
MOTION_SELECTOR        == 308
DIAGRAM_ANGLE_0        == 312
OUTPUT_SOURCE          == 344
APU_RANK               == 348
DETECTOR_LEVEL_0       == 352
AZIMUTH_ANGLE          == 360
APPLY                  == 364
COMPENSATION_REFERENCE == 368

Addresses == {a \in 0 .. COMPENSATION_REFERENCE : a % 4 = 0}

\* The bits that a register has.
Implemented(address) ==
  IF address \in {KILL, APPLY} THEN {0}
  ELSE IF address \in {TEST_POINT, CHANNEL} THEN 0 .. 2
  ELSE IF address = MOTION_SELECTOR THEN 0 .. 8
  ELSE IF address \in {APU_RANK, COMPENSATION_REFERENCE} THEN 0 .. 15
  ELSE 0 .. 31

\* Fields as <<least significant bit, width>>.
Bits32    == <<<<0, 32>>>>
ComplexOf == <<<<0, 16>>, <<16, 16>>>>
MotionOf  == <<<<0, 8>>, <<8, 1>>>>
SourceOf  == <<<<0, 16>>, <<16, 3>>, <<19, 8>>>>
RankOf    == <<<<0, 8>>, <<8, 8>>>>

\* Where and how a setter writes: all 32 bits of a uint32_t, or bit-fields.
At(base, fields) == [base |-> base, fields |-> fields]

Setter ==
  [test_point          |-> At(TEST_POINT, Bits32),
   channel             |-> At(CHANNEL, Bits32),
   compensation_mode   |-> At(COMPENSATION_MODE, Bits32),
   manual_compensation |-> At(MANUAL_COMPENSATION_0, ComplexOf),
   diagram_0           |-> At(DIAGRAM_0_0, ComplexOf),
   diagram_1           |-> At(DIAGRAM_1_0, ComplexOf),
   diagram_2           |-> At(DIAGRAM_2_0, ComplexOf),
   diagram_3           |-> At(DIAGRAM_3_0, ComplexOf),
   diagram_4           |-> At(DIAGRAM_4_0, ComplexOf),
   diagram_5           |-> At(DIAGRAM_5_0, ComplexOf),
   diagram_6           |-> At(DIAGRAM_6_0, ComplexOf),
   diagram_7           |-> At(DIAGRAM_7_0, ComplexOf),
   motion_selector     |-> At(MOTION_SELECTOR, MotionOf),
   diagram_angle       |-> At(DIAGRAM_ANGLE_0, Bits32),
   output_source       |-> At(OUTPUT_SOURCE, SourceOf),
   apu_rank            |-> At(APU_RANK, RankOf),
   detector_level      |-> At(DETECTOR_LEVEL_0, <<<<24, 8>>>>),
   azimuth_angle       |-> At(AZIMUTH_ANGLE, Bits32),
   compensation_ref    |-> At(COMPENSATION_REFERENCE, Bits32)]

\* The getters differ: CSR_OUTPUT_SOURCE_RANGE_GATE_MASK has five bits, two
\* getters read from CSR_OUTPUT_SOURCE_ADDR on, and the level is not shifted
\* back.
Getter ==
  [Setter EXCEPT
      !.output_source    = At(OUTPUT_SOURCE,
                              <<<<0, 16>>, <<16, 3>>, <<19, 5>>>>),
     !.apu_rank         = At(OUTPUT_SOURCE, RankOf),
     !.detector_level   = At(OUTPUT_SOURCE, Bits32),
     !.compensation_ref = At(COMPENSATION_REFERENCE, <<<<0, 16>>>>)]

\* Mutant: the number does not count.
AddressFirst(base, num) == base

\* Registers of one kind are numbered.
Address(base, num) == base + 4 * num

Angles  == {"diagram_angle", "azimuth_angle"}
Complex == {"manual_compensation", "diagram_0", "diagram_1", "diagram_2",
            "diagram_3", "diagram_4", "diagram_5", "diagram_6", "diagram_7"}
Names   == Angles \union Complex \union
           {"test_point", "channel", "compensation_mode", "motion_selector",
            "output_source", "apu_rank", "detector_level", "compensation_ref"}

\* There are eight channels, eight diagrams and two levels.
NumberOf(name) ==
  IF name \in Complex \union {"diagram_angle"} THEN 8
  ELSE IF name = "detector_level" THEN 2 ELSE 1

\* Callers stay within: the library does not look.
ASSUME InputsAssumption ==
  \A c \in Inputs :
    /\ c.name \in Names
    /\ c.num \in 0 .. NumberOf(c.name) - 1
    /\ c.value \in [DOMAIN Setter[c.name].fields -> Int]

-----------------------------------------------------------------------------
(* Conversions.                                                            *)

\* Bit b of n in two's complement.
Bit(n, b) == IF b = 31 THEN n < 0 ELSE (n \div 2^b) % 2 = 1

\* The value of a field is cut to its width.
Pack(n, field) == {field[1] + b : b \in {b \in 0 .. field[2] - 1 : Bit(n, b)}}

\* What the bits of a field read as: never negative.
Number(word, field) ==
  MapThenSumSet(LAMBDA b : 2^(b - field[1]),
                word \intersect (field[1] .. field[1] + field[2] - 1))

\* deg_to_fix() converts through int32_t.  Half a turn and more do not fit,
\* which leaves the result to the processor: the greatest int32_t on ARM, the
\* least on x86.
FromDegrees(eighths) ==
  IF eighths \in -4 .. 3 THEN {Pack(eighths, <<29, 3>>)} ELSE {0 .. 30, {31}}

\* fix_to_deg() takes the register as unsigned, and rounds.
ToDegrees(word) == IF word = 0 .. 30 THEN 4 ELSE Number(word, <<29, 3>>)

\* The words a setter may write for a value.
Encode(name, value) ==
  IF name \in Angles
  THEN FromDegrees(value[1])
  ELSE {UNION {Pack(value[f], Setter[name].fields[f]) : f \in DOMAIN value}}

\* A getter of the compensation reference returns 2^14 units for each.
Unit(name) == IF name = "compensation_ref" THEN 2^14 ELSE 1

Decode(name, word) ==
  IF name \in Angles
  THEN <<ToDegrees(word)>>
  ELSE [f \in DOMAIN Getter[name].fields |->
          Unit(name) * Number(word, Getter[name].fields[f])]

-----------------------------------------------------------------------------
(* The library.                                                            *)

Settings == {<<c.name, c.num>> : c \in Inputs}

Idle    == {32}     \* no word has this bit
Unset   == <<>>
Garbage == <<>>     \* what a getter makes of an uninitialized variable

Init ==
  /\ reg = [a \in Addresses |-> {}]
  /\ pending = {}
  /\ asked = [s \in Settings |-> Unset]
  /\ got = [name |-> "none", given |-> Unset, value |-> Unset]
  /\ fd = [p \in Processes |-> "closed"]
  /\ toggle = [p \in Processes |-> Idle]
  /\ due = [p \in Processes |-> {}]
  /\ killing = {}

\* axi_dsp_init(): for reading and writing, else for reading, else not.
Open(p) ==
  /\ fd[p] = "closed"
  /\ \E how \in {"rw"} \union (IF MayOpenReadOnly THEN {"ro"} ELSE {})
                       \union (IF MayFailToOpen THEN {"failed"} ELSE {}) :
       fd' = [fd EXCEPT ![p] = how]
  /\ UNCHANGED <<reg, pending, asked, got, toggle, due, killing>>

\* p calls anything else; whether init failed is not looked at.
Calls(p) == fd[p] # "closed" /\ toggle[p] = Idle /\ p \notin killing

\* axi_write() and axi_read() close the file when they fail.
Lose(p) == fd' = [fd EXCEPT ![p] = "lost"]

Write(p, address, word) ==
  IF fd[p] = "rw"
  THEN /\ reg' = [reg EXCEPT ![address] = word \intersect Implemented(address)]
       /\ UNCHANGED fd
  ELSE /\ Lose(p)
       /\ UNCHANGED reg

\* axi_dsp_set_...()
Set(p, c) ==
  LET address == Address(Setter[c.name].base, c.num) IN
  /\ Calls(p)
  /\ \E word \in Encode(c.name, c.value) : Write(p, address, word)
  /\ IF fd[p] = "rw"
     THEN /\ asked' = [asked EXCEPT ![<<c.name, c.num>>] = c.value]
          /\ pending' = pending \union {address}
     ELSE UNCHANGED <<asked, pending>>
  /\ UNCHANGED <<got, toggle, due, killing>>

\* axi_dsp_get_...(); a result is used although reading may have failed.
Get(p, s) ==
  /\ Calls(p)
  /\ got' = [name |-> s[1], given |-> asked[s],
             value |-> IF fd[p] \in {"rw", "ro"}
                       THEN Decode(s[1], reg[Address(Getter[s[1]].base, s[2])])
                       ELSE Garbage]
  /\ IF fd[p] \in {"rw", "ro"} THEN UNCHANGED fd ELSE Lose(p)
  /\ UNCHANGED <<reg, pending, asked, toggle, due, killing>>

\* axi_dsp_kill(), which writes 0 ...
Kill(p) ==
  /\ Calls(p)
  /\ Write(p, KILL, {})
  /\ killing' = killing \union {p}
  /\ UNCHANGED <<pending, asked, got, toggle, due>>

\* ... and then 1, also if the first write failed.
KillAgain(p) ==
  /\ p \in killing
  /\ Write(p, KILL, {0})
  /\ killing' = killing \ {p}
  /\ UNCHANGED <<pending, asked, got, toggle, due>>

\* axi_dsp_deinit()
Deinit(p) ==
  /\ Calls(p)
  /\ fd' = [fd EXCEPT ![p] = "closed"]
  /\ UNCHANGED <<reg, pending, asked, got, toggle, due, killing>>

\* Mutant: writes 1.
ToggledOne(word) == {0}

\* Mutant: ~raw for !raw.
ToggledBitwise(word) == (0 .. 31) \ word

Toggled(word) == IF word = {} THEN {0} ELSE {}

\* axi_dsp_apply(), which reads the register ...
ApplyRead(p) ==
  /\ Calls(p)
  /\ \E word \in IF fd[p] \in {"rw", "ro"} THEN {reg[APPLY]} ELSE {{}, {0}} :
       toggle' = [toggle EXCEPT ![p] = Toggled(word)]
  /\ due' = [due EXCEPT ![p] = pending]
  /\ IF fd[p] \in {"rw", "ro"} THEN UNCHANGED fd ELSE Lose(p)
  /\ UNCHANGED <<reg, pending, asked, got, killing>>

\* ... and writes it.  The processor takes everything over on a change.
ApplyWrite(p) ==
  /\ toggle[p] # Idle
  /\ Write(p, APPLY, toggle[p])
  /\ IF reg'[APPLY] # reg[APPLY]
     THEN pending' = {} /\ due' = [q \in Processes |-> {}]
     ELSE UNCHANGED <<pending, due>>
  /\ toggle' = [toggle EXCEPT ![p] = Idle]
  /\ UNCHANGED <<asked, got, killing>>

\* The process is killed, maybe in the midst of axi_dsp_apply() or
\* axi_dsp_kill(); another one may take its place.
Crash(p) ==
  /\ fd[p] # "closed"
  /\ fd' = [fd EXCEPT ![p] = "closed"]
  /\ toggle' = [toggle EXCEPT ![p] = Idle]
  /\ due' = [due EXCEPT ![p] = {}]
  /\ killing' = killing \ {p}
  /\ UNCHANGED <<reg, pending, asked, got>>

Next ==
  \E p \in Processes :
    \/ Open(p)
    \/ \E c \in Inputs : Set(p, c)
    \/ \E s \in Settings : Get(p, s)
    \/ Kill(p) \/ KillAgain(p) \/ Deinit(p)
    \/ ApplyRead(p) \/ ApplyWrite(p)
    \/ Crash(p)

Spec == Init /\ [][Next]_vars

-----------------------------------------------------------------------------
(* Properties.                                                             *)

ApplyType ==
  /\ reg \in [Addresses -> SUBSET (0 .. 31)]
  /\ \A a \in Addresses : reg[a] \subseteq Implemented(a)
  /\ pending \subseteq Addresses
  /\ fd \in [Processes -> {"closed", "rw", "ro", "failed", "lost"}]
  /\ toggle \in [Processes -> {Idle, {}, {0}}]
  /\ due \in [Processes -> SUBSET Addresses]
  /\ killing \subseteq Processes

TypeOK ==
  /\ ApplyType
  /\ \A s \in Settings :
       asked[s] \in {c.value : c \in Inputs} \union {Unset}
  /\ got.name \in {s[1] : s \in Settings} \union {"none"}

\* What the register of a setting keeps of a word.
Stored(name, word) == word \intersect Implemented(Setter[name].base)

\* The values of a field that its register holds and its getter gives back:
\* none where the getter is wrong, and no negative ones.
Fits(name, f, value) ==
  LET field == Getter[name].fields[f]
      width == Cardinality((field[1] .. field[1] + field[2] - 1)
                             \intersect Implemented(Getter[name].base))
  IN  /\ name \notin {"apu_rank", "detector_level", "compensation_ref"}
      /\ IF name \in Angles THEN value \in -4 .. 3
         ELSE value >= 0 /\ (width < 32 => value < 2^width)

\* Angles are equal modulo a turn.
Same(name, given, value) ==
  IF name \in Angles THEN given % 8 = value % 8 ELSE given = value

\* Every field that fits comes back, whatever the others of its register are
\* given, values wider than their fields included.
Returned(name, given, value) ==
  \A f \in DOMAIN given :
    Fits(name, f, given[f]) => Same(name, given[f], value[f])

\* Converting to a register and back changes nothing else.
Exact(name, value) ==
  \A word \in Encode(name, value) :
    Returned(name, value, Decode(name, Stored(name, word)))

ConversionsExact == \A c \in Inputs : Exact(c.name, c.value)

Answered == got.given # Unset /\ got.value # Garbage

\* A getter returns what the setting was last given, whatever was set in
\* between, field by field where the value fits: a neighbouring field that was
\* given too wide a value does not spill.
RoundTrips == Answered => Returned(got.name, got.given, got.value)

\* When axi_dsp_apply() returns and the device is still open, the processor has
\* taken over everything that was set before the call, also by processes killed
\* since, although reading and writing the register are two accesses and
\* another process may call axi_dsp_apply(), too: then the other one's write
\* took it over.
ApplyTakesEffect ==
  [][\A p \in Processes :
       toggle[p] # Idle /\ toggle'[p] = Idle /\ fd'[p] = "rw"
         => due'[p] = {}]_vars

\* Why: while something is due, the register still has the value that was read.
ApplyInv ==
  /\ ApplyType
  /\ \A p \in Processes :
       toggle[p] # Idle =>
         /\ fd[p] # "closed"
         /\ fd[p] = "rw" /\ due[p] # {} => toggle[p] # reg[APPLY]

\* regs.h:1665, and README.md:45 of ip_comm_test: the range gate has 8 bits.
GateKept ==
  Answered /\ got.name = "output_source" => got.value[3] = got.given[3]

=============================================================================
