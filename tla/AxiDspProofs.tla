---------------------------- MODULE AxiDspProofs ----------------------------
(***************************************************************************)
(* axi_dsp_apply() takes effect for any number of processes, whatever they *)
(* set and whenever they call it.                                          *)
(***************************************************************************)
EXTENDS AxiDsp, TLAPS

-----------------------------------------------------------------------------
(* Registers and words.                                                    *)

LEMMA WordsDiffer == {} # Idle /\ {0} # Idle /\ {} # {0}
  BY DEF Idle

LEMMA ApplyAddress ==
  /\ APPLY \in Addresses /\ KILL \in Addresses /\ KILL # APPLY
  /\ Implemented(APPLY) = {0}
  BY DEF APPLY, KILL, Addresses, COMPENSATION_REFERENCE, Implemented

\* What axi_dsp_apply() writes differs from what it has read.
LEMMA ToggledDiffers ==
  ASSUME NEW word \in {{}, {0}}
  PROVE  Toggled(word) \in {{}, {0}} /\ Toggled(word) # word
  BY DEF Toggled

\* A field that lies within the register is written within the register.
LEMMA PackBounded ==
  ASSUME NEW n, NEW field \in Nat \X Nat, field[1] + field[2] <= 32
  PROVE  Pack(n, field) \subseteq 0 .. 31
  BY DEF Pack

\* Setter, name by name.
LEMMA ComplexSetter ==
  \A name \in Complex :
    \E b \in {20, 52, 84, 116, 148, 180, 212, 244, 276} :
      Setter[name] = At(b, ComplexOf)
  BY DEF Complex, Setter, MANUAL_COMPENSATION_0, DIAGRAM_0_0, DIAGRAM_1_0,
     DIAGRAM_2_0, DIAGRAM_3_0, DIAGRAM_4_0, DIAGRAM_5_0, DIAGRAM_6_0,
     DIAGRAM_7_0

LEMMA OtherSetter ==
  /\ Setter["diagram_angle"] = At(312, Bits32)
  /\ Setter["azimuth_angle"] = At(360, Bits32)
  /\ Setter["test_point"] = At(8, Bits32)
  /\ Setter["channel"] = At(12, Bits32)
  /\ Setter["compensation_mode"] = At(16, Bits32)
  /\ Setter["motion_selector"] = At(308, MotionOf)
  /\ Setter["output_source"] = At(344, SourceOf)
  /\ Setter["apu_rank"] = At(348, RankOf)
  /\ Setter["detector_level"] = At(352, <<<<24, 8>>>>)
  /\ Setter["compensation_ref"] = At(368, Bits32)
  BY DEF Setter, DIAGRAM_ANGLE_0, AZIMUTH_ANGLE, TEST_POINT, CHANNEL,
     COMPENSATION_MODE, MOTION_SELECTOR, OUTPUT_SOURCE, APU_RANK,
     DETECTOR_LEVEL_0, COMPENSATION_REFERENCE

OtherFields == {Bits32, MotionOf, SourceOf, RankOf, <<<<24, 8>>>>}

LEMMA FieldsOf ==
  ASSUME NEW name \in Names
  PROVE  Setter[name].fields \in OtherFields \union {ComplexOf}
  <1>1. CASE name \in Complex
    BY <1>1, ComplexSetter DEF At
  <1>2. CASE name \notin Complex
    BY <1>2, OtherSetter DEF Names, Angles, At, OtherFields
  <1> QED BY <1>1, <1>2

\* The fields of every setter lie within the register.
LEMMA FieldsBounded ==
  ASSUME NEW name \in Names
  PROVE  \A f \in DOMAIN Setter[name].fields :
           /\ Setter[name].fields[f] \in Nat \X Nat
           /\ Setter[name].fields[f][1] + Setter[name].fields[f][2] <= 32
  <1> DEFINE Within(fields) ==
        \A f \in DOMAIN fields :
          fields[f] \in Nat \X Nat /\ fields[f][1] + fields[f][2] <= 32
  <1>1. Within(ComplexOf) BY DEF ComplexOf
  <1>2. Within(Bits32) BY DEF Bits32
  <1>3. Within(MotionOf) BY DEF MotionOf
  <1>4. Within(SourceOf) BY DEF SourceOf
  <1>5. Within(RankOf) BY DEF RankOf
  <1>6. Within(<<<<24, 8>>>>) OBVIOUS
  <1>7. Within(Setter[name].fields)
    <2> HIDE DEF Within
    <2> QED BY <1>1, <1>2, <1>3, <1>4, <1>5, <1>6, FieldsOf DEF OtherFields
  <1> QED BY <1>7

\* So a setter writes words of 32 bits.
LEMMA EncodeBounded ==
  ASSUME NEW c \in Inputs
  PROVE  Encode(c.name, c.value) \subseteq SUBSET (0 .. 31)
  <1>1. c.name \in Names /\ DOMAIN c.value = DOMAIN Setter[c.name].fields
    BY InputsAssumption
  <1>2. CASE c.name \in Angles
    <2>1. \A n : Pack(n, <<29, 3>>) \subseteq 0 .. 31
      BY PackBounded
    <2> QED BY <1>2, <2>1 DEF Encode, FromDegrees
  <1>3. CASE c.name \notin Angles
    <2>1. \A f \in DOMAIN c.value :
            Pack(c.value[f], Setter[c.name].fields[f]) \subseteq 0 .. 31
      BY <1>1, FieldsBounded, PackBounded
    <2> QED BY <1>3, <2>1, Zenon DEF Encode
  <1> QED BY <1>2, <1>3

LEMMA InBlock ==
  ASSUME NEW b \in 8 .. 368, NEW i \in 0 .. 7, b % 4 = 0,
         b + 4 * i # 364, b + 4 * i <= 368
  PROVE  Address(b, i) \in Addresses \ {APPLY, KILL}
  <1>1. (b + 4 * i) % 4 = 0
    OBVIOUS
  <1> QED BY <1>1 DEF Address, Addresses, APPLY, KILL, COMPENSATION_REFERENCE

\* No setter reaches APPLY or KILL.
LEMMA SetterElsewhere ==
  ASSUME NEW c \in Inputs
  PROVE  Address(Setter[c.name].base, c.num) \in Addresses \ {APPLY, KILL}
  <1> DEFINE Base == Setter[c.name].base
  <1>1. c.name \in Names /\ c.num \in 0 .. NumberOf(c.name) - 1
    BY InputsAssumption
  <1>2. CASE c.name \in Complex
    <2>1. Base \in {20, 52, 84, 116, 148, 180, 212, 244, 276}
      BY <1>2, ComplexSetter DEF At
    <2>2. c.num \in 0 .. 7
      BY <1>1, <1>2 DEF NumberOf
    <2> HIDE DEF Base
    <2>3. Address(Base, c.num) \in Addresses \ {APPLY, KILL}
      BY <2>1, <2>2, InBlock
    <2> QED BY <2>3 DEF Base
  <1>3. CASE c.name \notin Complex
    <2>1. CASE c.name \in {"diagram_angle", "detector_level"}
      <3>1. /\ c.num \in 0 .. 7 /\ Base \in {312, 352}
            /\ Base = 352 => c.num \in 0 .. 1
        BY <1>1, <1>3, <2>1, OtherSetter DEF NumberOf, At
      <3> HIDE DEF Base
      <3>2. Address(Base, c.num) \in Addresses \ {APPLY, KILL}
        BY <3>1, InBlock
      <3> QED BY <3>2 DEF Base
    <2>2. CASE c.name \notin {"diagram_angle", "detector_level"}
      <3>1. c.num = 0
        BY <1>1, <1>3, <2>2 DEF NumberOf
      <3>2. Base \in {360, 8, 12, 16, 308, 344, 348, 368}
        BY <1>1, <1>3, <2>2, OtherSetter DEF Names, Angles, At
      <3> HIDE DEF Base
      <3>3. Address(Base, c.num) \in Addresses \ {APPLY, KILL}
        BY <3>1, <3>2, InBlock
      <3> QED BY <3>3 DEF Base
    <2> QED BY <2>1, <2>2
  <1> QED BY <1>2, <1>3

\* The settings of several parts and of one lie in blocks of registers.
LEMMA Bases ==
  /\ Setter["manual_compensation"].base = 20
  /\ Setter["diagram_0"].base = 52
  /\ Setter["diagram_1"].base = 84
  /\ Setter["diagram_2"].base = 116
  /\ Setter["diagram_3"].base = 148
  /\ Setter["diagram_4"].base = 180
  /\ Setter["diagram_5"].base = 212
  /\ Setter["diagram_6"].base = 244
  /\ Setter["diagram_7"].base = 276
  BY DEF Setter, At, MANUAL_COMPENSATION_0, DIAGRAM_0_0, DIAGRAM_1_0,
     DIAGRAM_2_0, DIAGRAM_3_0, DIAGRAM_4_0, DIAGRAM_5_0, DIAGRAM_6_0,
     DIAGRAM_7_0

\* The register of a setting.
SettingAt(name, num) == Address(Setter[name].base, num)

\* Every setting has a register of its own.
LEMMA AddressesApart ==
  ASSUME NEW n \in Names, NEW i \in 0 .. NumberOf(n) - 1,
         NEW m \in Names, NEW j \in 0 .. NumberOf(m) - 1,
         SettingAt(n, i) = SettingAt(m, j)
  PROVE  n = m /\ i = j
  <1> DEFINE B(x) == Setter[x].base
  <1>1. \A x \in Complex :
          /\ B(x) \in {20, 52, 84, 116, 148, 180, 212, 244, 276}
          /\ NumberOf(x) = 8
    BY Bases DEF Complex, NumberOf
  <1>2. \A x \in Complex : \A y \in Complex : B(x) = B(y) => x = y
    BY Bases DEF Complex
  <1>3. \A x \in Names \ Complex :
          /\ x = "diagram_angle" \/ x = "detector_level" \/ NumberOf(x) = 1
          /\ B(x) \in {312, 360, 8, 12, 16, 308, 344, 348, 352, 368}
          /\ B(x) = 312 <=> x = "diagram_angle"
          /\ B(x) = 352 <=> x = "detector_level"
    BY OtherSetter DEF Names, Complex, Angles, At, NumberOf
  <1>4. \A x \in Names \ Complex : \A y \in Names \ Complex :
          B(x) = B(y) => x = y
    BY OtherSetter DEF Names, Complex, Angles, At
  <1>5. B(n) + 4 * i = B(m) + 4 * j
    BY DEF SettingAt, Address
  <1>6. NumberOf("diagram_angle") = 8 /\ NumberOf("detector_level") = 2
    BY DEF NumberOf, Complex
  <1> HIDE DEF B
  <1>7. CASE n \in Complex /\ m \in Complex
    <2>1. i \in 0 .. 7 /\ j \in 0 .. 7
      BY <1>1, <1>7
    <2>2. B(n) = B(m)
      BY <1>1, <1>5, <1>7, <2>1
    <2> QED BY <1>1, <1>2, <1>5, <1>7, <2>1, <2>2
  <1>8. CASE n \notin Complex /\ m \notin Complex
    <2>1. /\ i \in 0 .. 7 /\ j \in 0 .. 7
          /\ B(n) # 312 => i \in 0 .. 1 /\ (B(n) # 352 => i = 0)
          /\ B(m) # 312 => j \in 0 .. 1 /\ (B(m) # 352 => j = 0)
      BY <1>3, <1>6, <1>8
    <2>2. B(n) = B(m)
      BY <1>3, <1>5, <1>8, <2>1
    <2> QED BY <1>3, <1>4, <1>5, <1>8, <2>1, <2>2
  <1>9. CASE (n \in Complex) # (m \in Complex)
    <2>1. i \in 0 .. 7 /\ j \in 0 .. 7
      BY <1>1, <1>3, <1>6, <1>9
    <2> QED BY <1>1, <1>3, <1>5, <1>9, <2>1
  <1> QED BY <1>7, <1>8, <1>9

-----------------------------------------------------------------------------
(* The invariant.                                                          *)

LEMMA InitApply == Init => ApplyInv
  BY DEF Init, ApplyInv, ApplyType

\* A write elsewhere leaves the register, and loses the device at most.
LEMMA WriteElsewhere ==
  ASSUME ApplyInv, NEW p \in Processes,
         NEW address \in Addresses \ {APPLY}, NEW word \in SUBSET (0 .. 31),
         Write(p, address, word)
  PROVE  /\ reg' \in [Addresses -> SUBSET (0 .. 31)]
         /\ \A a \in Addresses : reg'[a] \subseteq Implemented(a)
         /\ reg'[APPLY] = reg[APPLY]
         /\ fd' \in [Processes -> {"closed", "rw", "ro", "failed", "lost"}]
         /\ \A q \in Processes : fd'[q] = fd[q] \/ fd'[q] = "lost"
  BY ApplyAddress DEF ApplyInv, ApplyType, Write, Lose

LEMMA SetStep ==
  ASSUME ApplyInv, NEW p \in Processes, NEW c \in Inputs, Set(p, c)
  PROVE  ApplyInv'
  <1> DEFINE address == Address(Setter[c.name].base, c.num)
  <1>1. PICK word \in Encode(c.name, c.value) : Write(p, address, word)
    BY DEF Set
  <1>2. word \in SUBSET (0 .. 31) /\ address \in Addresses \ {APPLY}
    BY EncodeBounded, SetterElsewhere
  <1>3. pending' \subseteq Addresses /\ UNCHANGED <<toggle, due, killing>>
    BY <1>2 DEF Set, ApplyInv, ApplyType
  <1> HIDE DEF address
  <1> QED BY <1>1, <1>2, <1>3, WriteElsewhere DEF ApplyInv, ApplyType

LEMMA KillStep ==
  ASSUME ApplyInv, NEW p \in Processes, Kill(p) \/ KillAgain(p)
  PROVE  ApplyInv'
  <1>1. \E word \in SUBSET (0 .. 31) : Write(p, KILL, word)
    BY DEF Kill, KillAgain
  <1>2. UNCHANGED <<pending, toggle, due>> /\ killing' \subseteq Processes
    BY DEF Kill, KillAgain, ApplyInv, ApplyType
  <1> QED BY <1>1, <1>2, WriteElsewhere, ApplyAddress DEF ApplyInv, ApplyType

LEMMA FileStep ==
  ASSUME ApplyInv, NEW p \in Processes,
         Open(p) \/ Deinit(p) \/ Crash(p) \/ \E s \in Settings : Get(p, s)
  PROVE  ApplyInv'
  <1>1. CASE Open(p)
    BY <1>1 DEF Open, ApplyInv, ApplyType
  <1>2. CASE Deinit(p)
    BY <1>2 DEF Deinit, Calls, ApplyInv, ApplyType
  <1>3. CASE \E s \in Settings : Get(p, s)
    BY <1>3 DEF Get, Lose, Calls, ApplyInv, ApplyType
  <1>4. CASE Crash(p)
    BY <1>4 DEF Crash, ApplyInv, ApplyType
  <1> QED BY <1>1, <1>2, <1>3, <1>4

LEMMA ReadStep ==
  ASSUME ApplyInv, NEW p \in Processes, ApplyRead(p)
  PROVE  ApplyInv'
  <1>1. PICK word \in {{}, {0}} :
          /\ toggle' = [toggle EXCEPT ![p] = Toggled(word)]
          /\ fd[p] \in {"rw", "ro"} => word = reg[APPLY]
    <2>1. reg[APPLY] \in {{}, {0}}
      BY ApplyAddress DEF ApplyInv, ApplyType
    <2> QED BY <2>1 DEF ApplyRead
  <1>2. Toggled(word) \in {{}, {0}} /\ Toggled(word) # word
    BY ToggledDiffers
  <1> QED BY <1>1, <1>2 DEF ApplyRead, Lose, Calls, ApplyInv, ApplyType

LEMMA WriteStep ==
  ASSUME ApplyInv, NEW p \in Processes, ApplyWrite(p)
  PROVE  ApplyInv' /\ (fd'[p] = "rw" => due'[p] = {})
  <1>1. toggle[p] \in {{}, {0}}
    BY DEF ApplyWrite, ApplyInv, ApplyType
  <1>2. CASE fd[p] = "rw"
    <2>1. reg' = [reg EXCEPT ![APPLY] = toggle[p]] /\ fd' = fd
      <3>1. toggle[p] \intersect Implemented(APPLY) = toggle[p]
        BY <1>1, ApplyAddress
      <3> QED BY <1>2, <3>1 DEF ApplyWrite, Write
    <2>2. /\ reg'[APPLY] = toggle[p]
          /\ reg' \in [Addresses -> SUBSET (0 .. 31)]
          /\ \A a \in Addresses : reg'[a] \subseteq Implemented(a)
      BY <1>1, <2>1, ApplyAddress DEF ApplyInv, ApplyType
    <2>3. CASE toggle[p] # reg[APPLY]
      BY <1>1, <2>1, <2>2, <2>3 DEF ApplyWrite, ApplyInv, ApplyType
    <2>4. CASE toggle[p] = reg[APPLY]
      BY <1>1, <1>2, <2>1, <2>2, <2>4 DEF ApplyWrite, ApplyInv, ApplyType
    <2> QED BY <2>3, <2>4
  <1>3. CASE fd[p] # "rw"
    BY <1>3 DEF ApplyWrite, Write, Lose, ApplyInv, ApplyType
  <1> QED BY <1>2, <1>3

LEMMA NextApply == ApplyInv /\ [Next]_vars => ApplyInv'
  <1> SUFFICES ASSUME ApplyInv, [Next]_vars PROVE ApplyInv'
    OBVIOUS
  <1>1. CASE Next
    BY <1>1, SetStep, KillStep, FileStep, ReadStep, WriteStep DEF Next
  <1>2. CASE UNCHANGED vars
    BY <1>2 DEF vars, ApplyInv, ApplyType
  <1> QED BY <1>1, <1>2

\* While something is due to a call of axi_dsp_apply(), APPLY keeps the value
\* that the call has read, so that its write will toggle it.
THEOREM ApplyInvariance == Spec => []ApplyInv
  BY InitApply, NextApply, PTL DEF Spec

\* axi_dsp_apply() takes effect however many processes call it: two that read
\* the same value do not undo each other.
THEOREM ApplyEffective == Spec => ApplyTakesEffect
  <1> DEFINE Effect == \A p \in Processes :
        toggle[p] # Idle /\ toggle'[p] = Idle /\ fd'[p] = "rw" => due'[p] = {}
  <1>1. ApplyInv /\ [Next]_vars => [Effect]_vars
    <2> SUFFICES ASSUME ApplyInv, Next, NEW q \in Processes, toggle[q] # Idle,
                        toggle'[q] = Idle, fd'[q] = "rw"
                 PROVE  due'[q] = {}
      OBVIOUS
    <2>1. PICK p \in Processes :
            \/ Open(p) \/ Kill(p) \/ KillAgain(p) \/ Deinit(p) \/ Crash(p)
            \/ \E c \in Inputs : Set(p, c)
            \/ \E s \in Settings : Get(p, s)
            \/ ApplyRead(p) \/ ApplyWrite(p)
      BY DEF Next
    <2>2. CASE ApplyWrite(p)
      <3>1. p = q
        BY <2>2 DEF ApplyWrite, ApplyInv, ApplyType
      <3> QED BY <2>2, <3>1, WriteStep
    <2>3. CASE ApplyRead(p)
      BY <2>3, WordsDiffer DEF ApplyRead, Calls, Toggled, ApplyInv, ApplyType
    <2>4. CASE Crash(p)
      BY <2>4 DEF Crash, ApplyInv, ApplyType
    <2>5. CASE ~ApplyRead(p) /\ ~ApplyWrite(p) /\ ~Crash(p)
      BY <2>1, <2>5 DEF Open, Kill, KillAgain, Deinit, Set, Get
    <2> QED BY <2>2, <2>3, <2>4, <2>5
  <1>2. ApplyTakesEffect <=> [][Effect]_vars
    BY PTL DEF ApplyTakesEffect
  <1> QED BY <1>1, <1>2, ApplyInvariance, PTL DEF Spec

-----------------------------------------------------------------------------
(* What getters give back.                                                 *)

\* All registers of one kind have the same bits.
LEMMA SameBits ==
  ASSUME NEW name \in Names, NEW num \in 0 .. NumberOf(name) - 1
  PROVE  Implemented(SettingAt(name, num)) = Implemented(Setter[name].base)
  <1> DEFINE Base == Setter[name].base
  <1>1. CASE name \in Complex \union {"diagram_angle"}
    <2>1. num \in 0 .. 7
      BY <1>1 DEF NumberOf
    <2>2. Base \in {20, 52, 84, 116, 148, 180, 212, 244, 276, 312}
      BY <1>1, Bases, OtherSetter DEF Complex, At
    <2> HIDE DEF Base
    <2>3. Implemented(Base + 4 * num) = 0 .. 31 /\ Implemented(Base) = 0 .. 31
      BY <2>1, <2>2 DEF Implemented, KILL, APPLY, TEST_POINT, CHANNEL,
         MOTION_SELECTOR, APU_RANK, COMPENSATION_REFERENCE
    <2> QED BY <2>3 DEF Base, SettingAt, Address
  <1>2. CASE name = "detector_level"
    <2>1. num \in 0 .. 1 /\ Base = 352
      BY <1>2, OtherSetter DEF NumberOf, Complex, At
    <2> QED BY <2>1 DEF SettingAt, Address, Implemented, KILL, APPLY,
            TEST_POINT, CHANNEL, MOTION_SELECTOR, APU_RANK,
            COMPENSATION_REFERENCE
  <1>3. CASE name \notin Complex \union {"diagram_angle", "detector_level"}
    <2>1. num = 0
      BY <1>3 DEF NumberOf
    <2>2. Base \in {360, 8, 12, 16, 308, 344, 348, 368}
      BY <1>3, OtherSetter DEF Names, Angles, At
    <2>3. Base + 4 * num = Base
      BY <2>1, <2>2
    <2> QED BY <2>3 DEF SettingAt, Address
  <1> QED BY <1>1, <1>2, <1>3

\* Two getters read the register of another setting.
Astray == {"apu_rank", "detector_level"}

LEMMA GetterAddress ==
  ASSUME NEW name \in Names \ Astray
  PROVE  Getter[name].base = Setter[name].base
  <1>1. name \in DOMAIN Setter
    BY DEF Setter, Names, Angles, Complex
  <1>2. CASE name = "output_source"
    <2>1. Getter[name].base = OUTPUT_SOURCE
      BY <1>1, <1>2 DEF Getter, At
    <2> QED BY <1>2, <2>1, OtherSetter DEF At, OUTPUT_SOURCE
  <1>3. CASE name = "compensation_ref"
    <2>1. Getter[name].base = COMPENSATION_REFERENCE
      BY <1>1, <1>3 DEF Getter, At
    <2> QED BY <1>3, <2>1, OtherSetter DEF At, COMPENSATION_REFERENCE
  <1>4. CASE name \notin {"output_source", "compensation_ref"}
    BY <1>1, <1>4 DEF Getter, Astray
  <1> QED BY <1>2, <1>3, <1>4

\* The last result of a getter that reads the register of its setting is what
\* it makes of a word that the setter writes for the value given last, negative
\* and too wide values and angles from half a turn on included.
ReadOwn ==
  Answered /\ got.name \notin Astray =>
    \E word \in Encode(got.name, got.given) :
      got.value = Decode(got.name, Stored(got.name, word))

\* Every register holds what it keeps of a word of what its setting was last
\* given, and results were read from such words.
GivenInv ==
  /\ asked \in [Settings -> {c.value : c \in Inputs} \union {Unset}]
  /\ \A s \in Settings : asked[s] # Unset =>
       \E word \in Encode(s[1], asked[s]) :
         reg[SettingAt(s[1], s[2])] = Stored(s[1], word)
  /\ \A c \in Inputs : asked[<<c.name, c.num>>] # Unset =>
       \E d \in Inputs :
         d.name = c.name /\ d.value = asked[<<c.name, c.num>>]
  /\ got.name \in {s[1] : s \in Settings} \union {"none"}
  /\ got.given # Unset =>
       \E c \in Inputs : c.name = got.name /\ c.value = got.given
  /\ ReadOwn

\* Settings have a name and a number of their own.
LEMMA SettingTyped ==
  ASSUME NEW s \in Settings
  PROVE  /\ s[1] \in Names /\ s[2] \in 0 .. NumberOf(s[1]) - 1
         /\ s = <<s[1], s[2]>>
         /\ SettingAt(s[1], s[2]) \in Addresses \ {APPLY, KILL}
         /\ \E c \in Inputs : s = <<c.name, c.num>>
  <1>1. PICK c \in Inputs : s = <<c.name, c.num>>
    BY DEF Settings
  <1> QED BY <1>1, InputsAssumption, SetterElsewhere DEF SettingAt

LEMMA InitGiven == Init => GivenInv
  <1> SUFFICES ASSUME Init PROVE GivenInv
    OBVIOUS
  <1>1. \A c \in Inputs : <<c.name, c.num>> \in Settings
    BY DEF Settings
  <1> QED BY <1>1 DEF Init, GivenInv, ReadOwn, Answered

LEMMA SetGiven ==
  ASSUME ApplyInv, GivenInv, NEW p \in Processes, NEW c \in Inputs, Set(p, c)
  PROVE  GivenInv'
  <1> DEFINE t == <<c.name, c.num>>
  <1>1. t \in Settings /\ UNCHANGED got
    BY DEF Settings, Set
  <1>2. CASE fd[p] = "rw"
    <2>1. PICK word \in Encode(c.name, c.value) :
            reg' = [reg EXCEPT ![SettingAt(c.name, c.num)] =
                      Stored(c.name, word)]
      <3>1. PICK word \in Encode(c.name, c.value) :
              Write(p, SettingAt(c.name, c.num), word)
        BY DEF Set, SettingAt
      <3>2. Implemented(SettingAt(c.name, c.num))
              = Implemented(Setter[c.name].base)
        BY InputsAssumption, SameBits
      <3> QED BY <1>2, <3>1, <3>2 DEF Write, Stored
    <2>2. asked' = [asked EXCEPT ![t] = c.value]
      BY <1>2 DEF Set
    <2>3. \A s \in Settings : s # t =>
            SettingAt(s[1], s[2]) # SettingAt(c.name, c.num)
      BY <1>1, SettingTyped, AddressesApart
    <2>4. ASSUME NEW s \in Settings, asked'[s] # Unset
          PROVE  \E w \in Encode(s[1], asked'[s]) :
                   reg'[SettingAt(s[1], s[2])] = Stored(s[1], w)
      <3>1. SettingAt(s[1], s[2]) \in Addresses
        BY SettingTyped
      <3>2. CASE s = t
        BY <1>1, <2>1, <2>2, <3>1, <3>2 DEF ApplyInv, ApplyType, GivenInv
      <3>3. CASE s # t
        BY <1>1, <2>1, <2>2, <2>3, <2>4, <3>1, <3>3
        DEF ApplyInv, ApplyType, GivenInv
      <3> QED BY <3>2, <3>3
    <2>5. /\ asked' \in [Settings -> {d.value : d \in Inputs} \union {Unset}]
          /\ \A e \in Inputs : asked'[<<e.name, e.num>>] # Unset =>
               \E d \in Inputs :
                 d.name = e.name /\ d.value = asked'[<<e.name, e.num>>]
      BY <1>1, <2>2 DEF GivenInv, Settings
    <2> QED BY <1>1, <2>4, <2>5 DEF GivenInv, ReadOwn, Answered
  <1>3. CASE fd[p] # "rw"
    BY <1>1, <1>3 DEF Set, Write, GivenInv, ReadOwn, Answered
  <1> QED BY <1>2, <1>3

LEMMA GetGiven ==
  ASSUME ApplyInv, GivenInv, NEW p \in Processes, NEW s \in Settings, Get(p, s)
  PROVE  GivenInv'
  <1>1. /\ got'.name = s[1] /\ got'.given = asked[s]
        /\ got'.value # Garbage =>
             got'.value = Decode(s[1], reg[Address(Getter[s[1]].base, s[2])])
        /\ UNCHANGED <<reg, asked>>
    BY DEF Get
  <1>2. asked[s] # Unset =>
          \E c \in Inputs : c.name = s[1] /\ c.value = asked[s]
    BY SettingTyped DEF GivenInv
  <1>3. s[1] \notin Astray =>
          Address(Getter[s[1]].base, s[2]) = SettingAt(s[1], s[2])
    BY SettingTyped, GetterAddress DEF SettingAt
  <1>4. ReadOwn'
    BY <1>1, <1>3 DEF GivenInv, ReadOwn, Answered
  <1> QED BY <1>1, <1>2, <1>4 DEF GivenInv

\* All other steps leave the registers of settings alone.
LEMMA OtherGiven ==
  ASSUME ApplyInv, GivenInv, UNCHANGED <<asked, got>>,
         \A a \in Addresses \ {APPLY, KILL} : reg'[a] = reg[a]
  PROVE  GivenInv'
  BY SettingTyped DEF GivenInv, ReadOwn, Answered

LEMMA NextGiven == ApplyInv /\ GivenInv /\ [Next]_vars => GivenInv'
  <1> SUFFICES ASSUME ApplyInv, GivenInv, [Next]_vars PROVE GivenInv'
    OBVIOUS
  <1>1. ASSUME NEW p \in Processes, Open(p) \/ Deinit(p) \/ Crash(p)
                                   \/ ApplyRead(p)
        PROVE  GivenInv'
    BY <1>1, OtherGiven DEF Open, Deinit, Crash, ApplyRead
  <1>2. ASSUME NEW p \in Processes, Kill(p) \/ KillAgain(p)
                                   \/ ApplyWrite(p)
        PROVE  GivenInv'
    BY <1>2, OtherGiven
    DEF Kill, KillAgain, ApplyWrite, Write, ApplyInv, ApplyType
  <1>3. CASE UNCHANGED vars
    BY <1>3, OtherGiven DEF vars
  <1> QED BY <1>1, <1>2, <1>3, SetGiven, GetGiven DEF Next

LEMMA GivenInvariance == Spec => []GivenInv
  BY InitGiven, NextGiven, ApplyInvariance, PTL DEF Spec

\* Every variable keeps its type, above all the registers the bits they have.
THEOREM DspTyped == Spec => []TypeOK
  <1>1. ApplyInv /\ GivenInv => TypeOK
    BY DEF ApplyInv, GivenInv, TypeOK
  <1> QED BY <1>1, ApplyInvariance, GivenInvariance, PTL

\* Whatever processes do in between, no setting spills into the register of
\* another: results come from what the setting itself was last given.
THEOREM SettingsSeparate == Spec => []ReadOwn
  <1>1. GivenInv => ReadOwn
    BY DEF GivenInv
  <1> QED BY <1>1, GivenInvariance, PTL

LEMMA AstrayNeverFits ==
  ASSUME NEW name \in Astray, NEW f, NEW value
  PROVE  ~Fits(name, f, value)
  BY DEF Astray, Fits

\* So a getter gives back every field that fits, whatever processes do in
\* between and whatever else they set, if converting a value to the bits that
\* its register keeps and back is exact.
THEOREM ValuesRoundTrip == ConversionsExact /\ Spec => []RoundTrips
  <1> SUFFICES ASSUME ConversionsExact PROVE Spec => []RoundTrips
    OBVIOUS
  <1>1. GivenInv => RoundTrips
    <2> SUFFICES ASSUME GivenInv, Answered
                 PROVE  Returned(got.name, got.given, got.value)
      BY DEF RoundTrips
    <2>1. CASE got.name \in Astray
      BY <2>1, AstrayNeverFits DEF Returned
    <2>2. CASE got.name \notin Astray
      BY <2>2 DEF GivenInv, ReadOwn, Answered, ConversionsExact, Exact
    <2> QED BY <2>1, <2>2
  <1> QED BY <1>1, GivenInvariance, PTL

=============================================================================
