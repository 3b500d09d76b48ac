-------------------------- MODULE SampleFileProofs --------------------------
(***************************************************************************)
(* The reader of the input file, for any file, any number of channels and  *)
(* any size of the window.                                                 *)
(***************************************************************************)
EXTENDS SampleFile, SequenceTheorems, FiniteSetTheorems, TLAPS

-----------------------------------------------------------------------------
(* The inductive invariant.                                                *)

FileOK ==
  /\ file \in Seq({"complete", "short"})
  /\ Len(file) <= MaxLines

\* Sample s of the window that is being read is in place: it comes, in every
\* channel, from the same complete line, the right one.
Placed(s) ==
  \E l \in 1 .. Len(file) :
    /\ file[l] = "complete"
    /\ CompleteUpTo(l) = Window * cnt + s + 1
    /\ \A c \in Channels : buffers[c][s] = Sample(c, l)

\* What a call knows of the file is how many complete lines lie behind pos:
\* those it skipped, all of the windows before unless the file is too short,
\* and those it put into the buffers.
Reading ==
  /\ pos <= Len(file)
  /\ pc # "open" =>
       /\ cnt < MaxWindows
       /\ samples_skipped <= Window * cnt
       /\ samples_skipped + sample_count = CompleteUpTo(pos)
  /\ pc = "skip" => sample_count = 0
  /\ pc = "read" =>
       /\ \/ samples_skipped = Window * cnt
          \/ pos = Len(file) /\ sample_count = 0
       /\ \A s \in Samples : s < sample_count => Placed(s)

ReaderInv == FileOK /\ TypeOK /\ Reading /\ WindowsTile

-----------------------------------------------------------------------------
(* Counting lines.                                                         *)

\* The lines of the file are complete or short, and numbered from 1 on.
LEMMA FileLines ==
  ASSUME FileOK
  PROVE  /\ Len(file) \in 0 .. MaxLines
         /\ DOMAIN file = 1 .. Len(file)
         /\ \A l \in 1 .. Len(file) : file[l] \in {"complete", "short"}
  BY LenProperties, FileAssumption DEF FileOK

\* No line is complete before the first, and a line that is taken counts as
\* one if it is complete: the sum the two loops keep.
LEMMA CountStep ==
  /\ CompleteUpTo(0) = 0
  /\ \A p \in Nat : /\ CompleteUpTo(p) \in 0 .. p
                    /\ CompleteUpTo(p + 1)
                         = CompleteUpTo(p) + SkippedWith(file[p + 1])
<1> DEFINE C(p) == {l \in 1 .. p : file[l] = "complete"}
<1>1. CompleteUpTo(0) = 0
  <2>1. C(0) = {}
    OBVIOUS
  <2> QED BY <2>1, FS_EmptySet DEF CompleteUpTo
<1>2. ASSUME NEW p \in Nat
      PROVE  IsFiniteSet(C(p)) /\ CompleteUpTo(p) \in 0 .. p
  <2>1. IsFiniteSet(1 .. p) /\ Cardinality(1 .. p) = p
    BY FS_Interval
  <2>2. C(p) \subseteq 1 .. p
    OBVIOUS
  <2>3. IsFiniteSet(C(p)) /\ Cardinality(C(p)) <= Cardinality(1 .. p)
    BY <2>1, <2>2, FS_Subset
  <2>4. Cardinality(C(p)) \in Nat
    BY <2>3, FS_CardinalityType
  <2> QED BY <2>1, <2>3, <2>4 DEF CompleteUpTo
<1>3. ASSUME NEW p \in Nat
      PROVE  CompleteUpTo(p + 1) = CompleteUpTo(p) + SkippedWith(file[p + 1])
  <2>1. CASE file[p + 1] = "complete"
    <3>1. C(p + 1) = C(p) \cup {p + 1}
      BY <2>1
    <3>2. p + 1 \notin C(p)
      OBVIOUS
    <3>3. Cardinality(C(p) \cup {p + 1}) = Cardinality(C(p)) + 1
      BY <1>2, <3>2, FS_AddElement
    <3> QED BY <2>1, <3>1, <3>3 DEF CompleteUpTo, SkippedWith
  <2>2. CASE file[p + 1] # "complete"
    <3>1. C(p + 1) = C(p)
      BY <2>2
    <3> QED BY <1>2, <2>2, <3>1 DEF CompleteUpTo, SkippedWith
  <2> QED BY <2>1, <2>2
<1> QED BY <1>1, <1>2, <1>3

\* Complete lines are counted in the order of the file.
LEMMA CountGrows ==
  ASSUME NEW p \in Nat, NEW q \in Nat, p <= q
  PROVE  CompleteUpTo(p) <= CompleteUpTo(q)
<1> DEFINE C(n) == {l \in 1 .. n : file[l] = "complete"}
<1>1. IsFiniteSet(1 .. q)
  BY FS_Interval
<1>2. C(q) \subseteq 1 .. q /\ C(p) \subseteq C(q)
  OBVIOUS
<1>3. IsFiniteSet(C(q))
  BY <1>1, <1>2, FS_Subset
<1>4. Cardinality(C(p)) <= Cardinality(C(q))
  BY <1>2, <1>3, FS_Subset
<1> QED BY <1>4 DEF CompleteUpTo

-----------------------------------------------------------------------------
(* What a line gives to the channels.                                      *)

\* The samples of a line take all its groups, whatever the order of the
\* channels.
LEMMA GroupsCovered ==
  ASSUME NEW l
  PROVE  UNION {{Sample(c, l).re, Sample(c, l).im} : c \in Channels} = Groups
<1> DEFINE U == UNION {{Sample(c, l).re, Sample(c, l).im} : c \in Channels}
<1>1. ASSUME NEW c \in Channels
      PROVE  {Sample(c, l).re, Sample(c, l).im} \subseteq Groups
  BY FileAssumption DEF Sample, Channels, Groups
<1>2. ASSUME NEW g \in Groups
      PROVE  \E c \in Channels : g \in {Sample(c, l).re, Sample(c, l).im}
  <2> DEFINE h == g \div 2
             c == NumChannels - 1 - h
  <2>1. g \in Int /\ 0 <= g /\ g <= 2 * NumChannels - 1 /\ NumChannels \in Nat
    BY FileAssumption DEF Groups
  <2>2. h \in Int /\ (g = 2 * h \/ g = 2 * h + 1)
    BY <2>1
  <2>3. 0 <= h /\ h <= NumChannels - 1
    BY <2>1, <2>2
  <2>4. c \in Channels /\ NumChannels - 1 - c = h
    BY <2>1, <2>2, <2>3 DEF Channels
  <2>5. Sample(c, l).re = h * 2 + 1 /\ Sample(c, l).im = h * 2
    BY <2>4 DEF Sample
  <2>6. g \in {Sample(c, l).re, Sample(c, l).im}
    <3> HIDE DEF h, c
    <3> QED BY <2>2, <2>5
  <2> HIDE DEF h, c
  <2> QED BY <2>4, <2>6
<1> QED BY <1>1, <1>2

LEMMA SampleTyped ==
  ASSUME NEW c \in Channels, NEW l \in 1 .. MaxLines
  PROVE  /\ Sample(c, l) \in [line : -1 .. MaxLines, re : Groups, im : Groups]
         /\ Sample(c, l).line = l
  BY FileAssumption DEF Sample, Channels, Groups

LEMMA ZeroTyped ==
  /\ Zero \in [line : -1 .. MaxLines, re : Groups, im : Groups]
  /\ [Zero EXCEPT !.line = -1]
       \in [line : -1 .. MaxLines, re : Groups, im : Groups]
  BY FileAssumption DEF Zero, Groups

-----------------------------------------------------------------------------
(* The steps.                                                              *)

\* No step writes to the file, and the windows before are a whole number of
\* samples.
LEMMA FileStays ==
  ASSUME FileOK, UNCHANGED file
  PROVE  FileOK' /\ \A p : CompleteUpTo(p)' = CompleteUpTo(p)
  BY DEF FileOK, CompleteUpTo

LEMMA SamplesBefore ==
  ASSUME TypeOK
  PROVE  Window * cnt \in Nat
  BY FileAssumption DEF TypeOK

\* A sample in place stays there while its buffers keep it.
LEMMA PlacedStays ==
  ASSUME FileOK, UNCHANGED <<file, cnt>>, NEW s \in Samples, Placed(s),
         \A c \in Channels : buffers'[c][s] = buffers[c][s]
  PROVE  Placed(s)'
<1>1. PICK l \in 1 .. Len(file) :
        /\ file[l] = "complete"
        /\ CompleteUpTo(l) = Window * cnt + s + 1
        /\ \A c \in Channels : buffers[c][s] = Sample(c, l)
  BY DEF Placed
<1>2. CompleteUpTo(l)' = CompleteUpTo(l)
  BY FileStays
<1>3. \A c \in Channels : buffers'[c][s] = Sample(c, l)
  BY <1>1
<1>4. Window * cnt' + s + 1 = Window * cnt + s + 1
  OBVIOUS
<1> QED BY <1>1, <1>2, <1>3, <1>4 DEF Placed

LEMMA InitStep == Init => ReaderInv
<1> SUFFICES ASSUME Init PROVE ReaderInv
  OBVIOUS
<1>1. FileOK
  <2>1. PICK n \in 0 .. MaxLines : file \in [1 .. n -> {"complete", "short"}]
    BY DEF Init
  <2>2. n \in Nat
    BY <2>1, FileAssumption
  <2>3. file \in Seq({"complete", "short"})
    BY <2>1, <2>2, SeqDef
  <2>4. DOMAIN file = 1 .. n /\ DOMAIN file = 1 .. Len(file)
    BY <2>1, <2>3, LenProperties
  <2>5. Len(file) = n
    BY <2>2, <2>3, <2>4, LenProperties
  <2> QED BY <2>1, <2>3, <2>5, FileAssumption DEF FileOK
<1>2. TypeOK
  BY FileAssumption, ZeroTyped DEF Init, TypeOK
<1>3. Reading
  BY <1>1, FileLines DEF Init, Reading
<1>4. WindowsTile
  BY DEF Init, WindowsTile
<1> QED BY <1>1, <1>2, <1>3, <1>4 DEF ReaderInv

LEMMA FopenStep == ReaderInv /\ Fopen => ReaderInv'
<1> SUFFICES ASSUME ReaderInv, Fopen PROVE ReaderInv'
  OBVIOUS
<1> USE DEF Fopen
<1>1. FileOK' /\ \A p : CompleteUpTo(p)' = CompleteUpTo(p)
  BY FileStays DEF ReaderInv
<1>2. TypeOK'
  BY FileAssumption DEF ReaderInv, TypeOK
<1>3. Reading'
  <2>1. CompleteUpTo(pos)' = 0
    BY <1>1, CountStep
  <2>2. Len(file) >= 0
    BY FileLines, FileAssumption DEF ReaderInv
  <2>3. 0 <= Window * cnt
    BY SamplesBefore DEF ReaderInv
  <2> QED BY <2>1, <2>2, <2>3 DEF Reading
<1>4. WindowsTile'
  BY DEF WindowsTile
<1> QED BY <1>1, <1>2, <1>3, <1>4 DEF ReaderInv

LEMMA SkipLineStep == ReaderInv /\ SkipLine => ReaderInv'
<1> SUFFICES ASSUME ReaderInv, SkipLine PROVE ReaderInv'
  OBVIOUS
<1> USE DEF SkipLine
<1>1. FileOK' /\ \A p : CompleteUpTo(p)' = CompleteUpTo(p)
  BY FileStays DEF ReaderInv
<1>2. /\ pos \in Nat /\ pos < Len(file)
      /\ Len(file) \in Nat /\ Len(file) <= MaxLines
      /\ samples_skipped \in Nat /\ samples_skipped < Window * cnt
      /\ samples_skipped = CompleteUpTo(pos)
  BY FileLines, FileAssumption
  DEF ReaderInv, TypeOK, Reading, MoreToSkip
<1>3. /\ samples_skipped' = CompleteUpTo(pos + 1)
      /\ CompleteUpTo(pos + 1) \in 0 .. pos + 1
      /\ CompleteUpTo(pos + 1) <= samples_skipped + 1
  <2>1. /\ CompleteUpTo(pos + 1)
             = samples_skipped + SkippedWith(file[pos + 1])
        /\ pos + 1 \in Nat
    BY <1>2, CountStep
  <2>2. SkippedWith(file[pos + 1]) \in 0 .. 1
    BY DEF SkippedWith
  <2>3. CompleteUpTo(pos + 1) \in 0 .. pos + 1
    BY <2>1, CountStep
  <2> QED BY <1>2, <2>1, <2>2, <2>3
<1>4. TypeOK'
  BY <1>2, <1>3, FileAssumption DEF ReaderInv, TypeOK
<1>5. Reading'
  <2>1. CompleteUpTo(pos)' = CompleteUpTo(pos + 1)
    BY <1>1
  <2>2. Window * cnt \in Nat
    BY SamplesBefore DEF ReaderInv
  <2> QED BY <1>2, <1>3, <2>1, <2>2 DEF ReaderInv, Reading
<1>6. WindowsTile'
  BY DEF WindowsTile
<1> QED BY <1>1, <1>4, <1>5, <1>6 DEF ReaderInv

LEMMA SkipEndStep == ReaderInv /\ SkipEnd => ReaderInv'
<1> SUFFICES ASSUME ReaderInv, SkipEnd PROVE ReaderInv'
  OBVIOUS
<1> USE DEF SkipEnd
<1>1. FileOK' /\ \A p : CompleteUpTo(p)' = CompleteUpTo(p)
  BY FileStays DEF ReaderInv
<1>2. TypeOK'
  BY DEF ReaderInv, TypeOK
<1>3. Reading'
  <2>1. CompleteUpTo(pos)' = CompleteUpTo(pos)
    BY <1>1
  <2>2. /\ Window * cnt \in Nat /\ Len(file) \in Nat
        /\ pos \in Nat /\ samples_skipped \in Nat
    BY SamplesBefore, FileLines, FileAssumption DEF ReaderInv, TypeOK
  <2>3. samples_skipped = Window * cnt \/ pos = Len(file)
    BY <2>2 DEF ReaderInv, Reading, MoreToSkip
  <2> QED BY <2>1, <2>2, <2>3 DEF ReaderInv, Reading, Samples
<1>4. WindowsTile'
  BY DEF WindowsTile
<1> QED BY <1>1, <1>2, <1>3, <1>4 DEF ReaderInv

LEMMA ReadLineStep == ReaderInv /\ ReadLine => ReaderInv'
<1> SUFFICES ASSUME ReaderInv, ReadLine PROVE ReaderInv'
  OBVIOUS
<1>1. FileOK' /\ \A p : CompleteUpTo(p)' = CompleteUpTo(p)
  BY FileStays DEF ReaderInv, ReadLine
<1>2. /\ pos \in Nat /\ pos < Len(file)
      /\ Len(file) \in Nat /\ Len(file) <= MaxLines
      /\ samples_skipped \in Nat /\ samples_skipped = Window * cnt
      /\ sample_count \in Samples
      /\ samples_skipped + sample_count = CompleteUpTo(pos)
  <2>1. /\ pos \in Nat /\ pos < Len(file)
        /\ Len(file) \in Nat /\ Len(file) <= MaxLines
        /\ samples_skipped \in Nat
    BY FileLines, FileAssumption
    DEF ReaderInv, TypeOK, ReadLine, MoreToRead
  <2>2. samples_skipped = Window * cnt
    BY <2>1 DEF ReaderInv, Reading, ReadLine
  <2>3. sample_count \in Samples
    BY FileAssumption DEF ReaderInv, TypeOK, ReadLine, MoreToRead, Samples
  <2>4. samples_skipped + sample_count = CompleteUpTo(pos)
    BY DEF ReaderInv, Reading, ReadLine
  <2> QED BY <2>1, <2>2, <2>3, <2>4
<1>3. CompleteUpTo(pos + 1) = CompleteUpTo(pos) + SkippedWith(file[pos + 1])
  BY <1>2, CountStep
<1>4. CompleteUpTo(pos)' = CompleteUpTo(pos + 1)
  BY <1>1 DEF ReadLine
<1>5. TypeOK'
  <2>1. ASSUME NEW c \in Channels
        PROVE  [buffers[c] EXCEPT ![sample_count] = Sample(c, pos + 1)]
                 \in [Samples ->
                        [line : -1 .. MaxLines, re : Groups, im : Groups]]
    <3>1. pos + 1 \in 1 .. MaxLines
      BY <1>2, FileAssumption
    <3> QED BY <3>1, SampleTyped DEF ReaderInv, TypeOK
  <2>2. buffers' \in [Channels -> [Samples ->
                        [line : -1 .. MaxLines, re : Groups, im : Groups]]]
    <3>1. buffers' = buffers
            \/ buffers' = [c \in Channels |->
                   [buffers[c] EXCEPT ![sample_count] = Sample(c, pos + 1)]]
      BY DEF ReadLine
    <3>2. CASE buffers' = buffers
      BY <3>2 DEF ReaderInv, TypeOK
    <3>3. CASE buffers' = [c \in Channels |->
                   [buffers[c] EXCEPT ![sample_count] = Sample(c, pos + 1)]]
      <4> DEFINE B(c) ==
            [buffers[c] EXCEPT ![sample_count] = Sample(c, pos + 1)]
      <4>1. buffers' = [c \in Channels |-> B(c)]
        BY <3>3
      <4>2. \A c \in Channels :
              B(c) \in [Samples ->
                          [line : -1 .. MaxLines, re : Groups, im : Groups]]
        BY <2>1
      <4> HIDE DEF B
      <4> QED BY <4>1, <4>2
    <3> QED BY <3>1, <3>2, <3>3
  <2>3. pos' \in 0 .. MaxLines /\ sample_count' \in 0 .. Window
    BY <1>2, FileAssumption DEF ReadLine, ReaderInv, TypeOK, Samples
  <2> QED BY <2>2, <2>3 DEF ReadLine, ReaderInv, TypeOK
<1>6. /\ samples_skipped' + sample_count' = CompleteUpTo(pos)'
      /\ \A s \in Samples : s < sample_count' => Placed(s)'
  <2>1. CASE file[pos + 1] = "complete"
    <3>1. sample_count' = sample_count + 1
      BY <2>1 DEF ReadLine
    <3>2. SkippedWith(file[pos + 1]) = 1
      BY <2>1 DEF SkippedWith
    <3>3. samples_skipped' + sample_count' = CompleteUpTo(pos)'
      BY <1>2, <1>3, <1>4, <3>1, <3>2 DEF ReadLine, Samples
    <3>4. ASSUME NEW s \in Samples
          PROVE  \A c \in Channels :
                   buffers'[c][s] = IF s = sample_count THEN Sample(c, pos + 1)
                                    ELSE buffers[c][s]
      BY <2>1 DEF ReadLine, ReaderInv, TypeOK
    <3>5. ASSUME NEW s \in Samples, s = sample_count
          PROVE  Placed(s)'
      <4>1. PICK l \in 1 .. Len(file) : l = pos + 1
        BY <1>2
      <4>2. file[l] = "complete"
        BY <2>1, <4>1
      <4>3. CompleteUpTo(l) = CompleteUpTo(pos) + 1
        BY <1>3, <3>2, <4>1
      <4>4. CompleteUpTo(l)' = CompleteUpTo(l)
        BY <1>1
      <4>5. CompleteUpTo(l)' = Window * cnt + s + 1
        BY <1>2, <3>5, <4>3, <4>4 DEF Samples
      <4>6. \A c \in Channels : buffers'[c][s] = Sample(c, l)
        BY <3>4, <3>5, <4>1
      <4> QED BY <4>2, <4>5, <4>6 DEF Placed, ReadLine
    <3>6. ASSUME NEW s \in Samples, s < sample_count
          PROVE  Placed(s)'
      <4>1. Placed(s)
        BY <3>6 DEF ReaderInv, Reading, ReadLine
      <4>2. \A c \in Channels : buffers'[c][s] = buffers[c][s]
        BY <1>2, <3>4, <3>6 DEF Samples
      <4> QED BY <4>1, <4>2, PlacedStays DEF ReaderInv, ReadLine
    <3>7. ASSUME NEW s \in Samples, s < sample_count + 1
          PROVE  Placed(s)'
      <4>1. s = sample_count \/ s < sample_count
        BY <1>2, <3>7 DEF Samples
      <4> QED BY <3>5, <3>6, <4>1
    <3> QED BY <3>1, <3>3, <3>7
  <2>2. CASE file[pos + 1] # "complete"
    <3>1. UNCHANGED <<buffers, sample_count>>
      BY <2>2 DEF ReadLine
    <3>2. SkippedWith(file[pos + 1]) = 0
      BY <2>2 DEF SkippedWith
    <3>3. ASSUME NEW s \in Samples, s < sample_count
          PROVE  Placed(s)'
      <4>1. Placed(s)
        BY <3>3 DEF ReaderInv, Reading, ReadLine
      <4> QED BY <3>1, <4>1, PlacedStays DEF ReaderInv, ReadLine
    <3> QED BY <1>2, <1>3, <1>4, <3>1, <3>2, <3>3 DEF ReadLine, Samples
  <2> QED BY <2>1, <2>2
<1>7. Reading'
  BY <1>2, <1>6 DEF ReaderInv, Reading, ReadLine
<1>8. WindowsTile'
  BY DEF ReadLine, WindowsTile
<1> QED BY <1>1, <1>5, <1>7, <1>8 DEF ReaderInv

LEMMA PadStep == ReaderInv /\ Pad => ReaderInv'
<1> SUFFICES ASSUME ReaderInv, Pad PROVE ReaderInv'
  OBVIOUS
<1>1. FileOK' /\ \A p : CompleteUpTo(p)' = CompleteUpTo(p)
  BY FileStays DEF ReaderInv, Pad
<1>2. /\ pos \in Nat /\ pos <= Len(file) /\ Len(file) \in Nat
      /\ samples_skipped \in Nat /\ Window * cnt \in Nat
      /\ sample_count \in 0 .. Window /\ Window \in Nat
      /\ cnt \in 0 .. MaxWindows /\ cnt < MaxWindows
  <2>1. /\ pos \in Nat /\ Len(file) \in Nat /\ samples_skipped \in Nat
        /\ sample_count \in 0 .. Window /\ Window \in Nat
        /\ cnt \in 0 .. MaxWindows
    BY FileLines, FileAssumption DEF ReaderInv, TypeOK
  <2>2. pos <= Len(file) /\ cnt < MaxWindows
    BY DEF ReaderInv, Reading, Pad
  <2> QED BY <2>1, <2>2, SamplesBefore DEF ReaderInv
<1>3. /\ samples_skipped <= Window * cnt
      /\ samples_skipped + sample_count = CompleteUpTo(pos)
      /\ \/ samples_skipped = Window * cnt
         \/ pos = Len(file) /\ sample_count = 0
      /\ sample_count = Window \/ pos = Len(file)
  <2>1. /\ samples_skipped <= Window * cnt
        /\ samples_skipped + sample_count = CompleteUpTo(pos)
        /\ \/ samples_skipped = Window * cnt
           \/ pos = Len(file) /\ sample_count = 0
    BY DEF ReaderInv, Reading, Pad
  <2>2. sample_count = Window \/ pos = Len(file)
    BY <1>2 DEF Pad, MoreToRead
  <2> QED BY <2>1, <2>2
<1>4. ASSUME NEW c \in Channels, NEW s \in Samples
      PROVE  /\ buffers'[c][s] =
                  IF s >= sample_count THEN Zero ELSE buffers[c][s]
             /\ buffers'[c][s]
                  \in [line : -1 .. MaxLines, re : Groups, im : Groups]
  BY ZeroTyped DEF Pad, Padding, ReaderInv, TypeOK
<1>5. TypeOK'
  <2>1. buffers' = [c \in Channels |-> [s \in Samples |-> buffers'[c][s]]]
    BY DEF Pad
  <2>2. buffers' \in [Channels -> [Samples ->
                        [line : -1 .. MaxLines, re : Groups, im : Groups]]]
    BY <1>4, <2>1
  <2>3. cnt' \in 0 .. MaxWindows
    BY <1>2, FileAssumption DEF Pad
  <2> QED BY <2>2, <2>3 DEF Pad, ReaderInv, TypeOK
<1>6. Reading'
  BY DEF Pad, ReaderInv, Reading
<1>7. WindowsTile'
  <2> SUFFICES ASSUME NEW s \in Samples PROVE Tiled(s)'
    BY DEF WindowsTile
  <2> DEFINE n == Window * cnt + s
  <2>1. Window * (cnt' - 1) + s = n
    <3>1. cnt' - 1 = cnt
      BY <1>2 DEF Pad
    <3> QED BY <3>1
  <2>2. CompleteUpTo(Len(file))' = CompleteUpTo(Len(file))
    BY <1>1 DEF Pad
  <2>3. n \in Nat /\ s \in Nat /\ s < Window
    BY <1>2 DEF Samples
  <2>4. CASE s < sample_count
    <3>1. Placed(s)
      BY <2>4 DEF ReaderInv, Reading, Pad
    <3>2. PICK l \in 1 .. Len(file) :
            /\ file[l] = "complete"
            /\ CompleteUpTo(l) = Window * cnt + s + 1
            /\ \A c \in Channels : buffers[c][s] = Sample(c, l)
      BY <3>1 DEF Placed
    <3>3. n < CompleteUpTo(Len(file))
      <4>1. CompleteUpTo(l) <= CompleteUpTo(Len(file))
        BY <1>2, CountGrows
      <4>2. CompleteUpTo(Len(file)) \in Nat
        BY <1>2, CountStep
      <4> QED BY <2>3, <3>2, <4>1, <4>2
    <3>4. \A c \in Channels : buffers'[c][s] = Sample(c, l)
      BY <1>2, <1>4, <2>3, <2>4, <3>2
    <3>5. \A c \in Channels : buffers'[c][s].line = l
      <4>1. \A c \in Channels : Sample(c, l).line = l
        BY DEF Sample
      <4> QED BY <3>4, <4>1
    <3>6. {{buffers'[c][s].re, buffers'[c][s].im} : c \in Channels}
            = {{Sample(c, l).re, Sample(c, l).im} : c \in Channels}
      BY <3>4
    <3>7. UNION {{buffers'[c][s].re, buffers'[c][s].im} : c \in Channels}
            = Groups
      BY <3>6, GroupsCovered
    <3>8. CompleteUpTo(l)' = n + 1 /\ l \in DOMAIN file /\ file' = file
      BY <1>1, <3>2, FileLines DEF ReaderInv, Pad
    <3> QED BY <2>1, <2>2, <3>2, <3>3, <3>5, <3>7, <3>8 DEF Tiled
  <2>5. CASE s >= sample_count
    <3>1. pos = Len(file)
      BY <1>2, <1>3, <2>3, <2>5
    <3>2. CompleteUpTo(Len(file)) <= n
      BY <1>2, <1>3, <2>3, <2>5, <3>1
    <3>3. ~(n < CompleteUpTo(Len(file)))
      <4>1. CompleteUpTo(Len(file)) \in Nat
        BY <1>2, CountStep
      <4> QED BY <2>3, <3>2, <4>1
    <3>4. \A c \in Channels : buffers'[c][s] = Zero
      BY <1>4, <2>5
    <3> QED BY <2>1, <2>2, <3>3, <3>4 DEF Tiled, Zero
  <2> QED BY <1>2, <2>3, <2>4, <2>5
<1> QED BY <1>1, <1>5, <1>6, <1>7 DEF ReaderInv

-----------------------------------------------------------------------------
(* The theorems.                                                           *)

\* The inductive invariant: whatever the file, a call has skipped and read
\* as many complete lines as lie behind its place in the file, and every
\* sample it has read is in place.
THEOREM ReaderInvariance == Spec => []ReaderInv
<1>1. ReaderInv /\ [Next]_vars => ReaderInv'
  <2> SUFFICES ASSUME ReaderInv, [Next]_vars PROVE ReaderInv'
    OBVIOUS
  <2>1. CASE UNCHANGED vars
    <3>1. FileOK' /\ \A p : CompleteUpTo(p)' = CompleteUpTo(p)
      BY <2>1, FileStays DEF ReaderInv, vars
    <3>2. CompleteUpTo(pos)' = CompleteUpTo(pos)
      BY <2>1, <3>1 DEF vars
    <3>3. TypeOK' /\ WindowsTile'
      BY <2>1 DEF ReaderInv, TypeOK, WindowsTile, Tiled, CompleteUpTo, vars
    <3>4. \A s \in Samples : Placed(s) => Placed(s)'
      BY <2>1, PlacedStays DEF ReaderInv, vars
    <3>5. Reading'
      BY <2>1, <3>2, <3>4 DEF ReaderInv, Reading, vars
    <3> QED BY <3>1, <3>3, <3>5 DEF ReaderInv
  <2> QED BY <2>1, FopenStep, SkipLineStep, SkipEndStep, ReadLineStep, PadStep
          DEF Next
<1> QED BY <1>1, InitStep, PTL DEF Spec

\* The counters of misc_read_8chs_from_file() and what it writes stay in
\* their bounds: no sample is written behind a buffer.
THEOREM ReaderTyped == Spec => []TypeOK
<1>1. ReaderInv => TypeOK
  BY DEF ReaderInv
<1> QED BY <1>1, ReaderInvariance, PTL

\* The windows of successive calls tile the file: none of its complete lines
\* is lost, doubled or mixed over the channels, and what lies behind its end
\* is zeros.
THEOREM ReaderTiles == Spec => []WindowsTile
<1>1. ReaderInv => WindowsTile
  BY DEF ReaderInv
<1> QED BY <1>1, ReaderInvariance, PTL

=============================================================================
