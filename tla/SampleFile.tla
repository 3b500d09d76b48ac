----------------------------- MODULE SampleFile -----------------------------
(***************************************************************************)
(* misc_read_8chs_from_file(): how one window after the other of the input *)
(* file gets into the transmit buffers.  Every call opens the file anew,   *)
(* skips the complete lines of the windows before, reads lines until the   *)
(* buffers are full or the file ends, and pads with zeros.                 *)
(*                                                                         *)
(* A line, more exactly what one fgets() returns of it, is "complete" with *)
(* 64 characters and more, or "short".  A sample in a buffer is the number *)
(* of its line and which two of the line's groups of four hex digits it    *)
(* took as its parts.  A file that cannot be opened is left to TxStream.   *)
(***************************************************************************)
EXTENDS Integers, Sequences, FiniteSets

CONSTANTS
  NumChannels,      \* 8
  Window,           \* samples a buffer holds: max_samples
  MaxLines,         \* bound: fgets() calls a file is good for
  MaxWindows        \* bound: how often main() reads

ASSUME FileAssumption ==
  /\ NumChannels \in Nat \ {0}
  /\ Window \in Nat \ {0}
  /\ MaxLines \in Nat /\ MaxWindows \in Nat

VARIABLES
  file,             \* the input file
  pc,               \* "open", "skip" or "read"
  cnt,              \* windows read, counted by main()
  pos,              \* lines taken from the file
  samples_skipped,
  sample_count,
  buffers           \* buffers[c][s]

vars == <<file, pc, cnt, pos, samples_skipped, sample_count, buffers>>

Channels == 0 .. NumChannels - 1
Samples  == 0 .. Window - 1
Groups   == 0 .. 2 * NumChannels - 1

Zero == [line |-> 0, re |-> 0, im |-> 0]

\* Line -1: what the buffers hold before the first call is not known.
Init ==
  /\ file \in UNION {[1 .. n -> {"complete", "short"}] : n \in 0 .. MaxLines}
  /\ pc = "open" /\ cnt = 0 /\ pos = 0
  /\ samples_skipped = 0 /\ sample_count = 0
  /\ buffers =
       [c \in Channels |-> [s \in Samples |-> [Zero EXCEPT !.line = -1]]]

Fopen ==
  /\ pc = "open"
  /\ cnt < MaxWindows
  /\ pc' = "skip"
  /\ pos' = 0 /\ samples_skipped' = 0 /\ sample_count' = 0
  /\ UNCHANGED <<file, cnt, buffers>>

\* Mutant: a short line counts as skipped.
SkippedBy(line) == 1

SkippedWith(line) == IF line = "complete" THEN 1 ELSE 0

MoreToSkip == samples_skipped < Window * cnt /\ pos < Len(file)

SkipLine ==
  /\ pc = "skip"
  /\ MoreToSkip
  /\ pos' = pos + 1
  /\ samples_skipped' = samples_skipped + SkippedWith(file[pos + 1])
  /\ UNCHANGED <<file, pc, cnt, sample_count, buffers>>

SkipEnd ==
  /\ pc = "skip"
  /\ ~MoreToSkip
  /\ pc' = "read"
  /\ UNCHANGED <<file, cnt, pos, samples_skipped, sample_count, buffers>>

\* Mutant: one line too many.
MoreToReadLate == sample_count <= Window /\ pos < Len(file)

MoreToRead == sample_count < Window /\ pos < Len(file)

\* Sample of channel c: the imaginary part comes first in the line, and the
\* channels come in reverse.
Sample(c, line) ==
  LET ch == NumChannels - 1 - c
  IN  [line |-> line, re |-> ch * 2 + 1, im |-> ch * 2]

\* A short line is passed over.
ReadLine ==
  /\ pc = "read"
  /\ MoreToRead
  /\ pos' = pos + 1
  /\ IF file[pos + 1] = "complete"
     THEN /\ buffers' =
               [c \in Channels |->
                  [buffers[c] EXCEPT ![sample_count] = Sample(c, pos + 1)]]
          /\ sample_count' = sample_count + 1
     ELSE UNCHANGED <<buffers, sample_count>>
  /\ UNCHANGED <<file, pc, cnt, samples_skipped>>

\* The first sample to pad.
Padding == sample_count

Pad ==
  /\ pc = "read"
  /\ ~MoreToRead
  /\ buffers' = [c \in Channels |-> [s \in Samples |->
                   IF s >= Padding THEN Zero ELSE buffers[c][s]]]
  /\ pc' = "open"
  /\ cnt' = cnt + 1
  /\ UNCHANGED <<file, pos, samples_skipped, sample_count>>

Next == Fopen \/ SkipLine \/ SkipEnd \/ ReadLine \/ Pad

Spec == Init /\ [][Next]_vars

-----------------------------------------------------------------------------
(* Properties.                                                             *)

TypeOK ==
  /\ pc \in {"open", "skip", "read"}
  /\ cnt \in 0 .. MaxWindows
  /\ pos \in 0 .. MaxLines
  /\ samples_skipped \in 0 .. MaxLines
  /\ sample_count \in 0 .. Window
  /\ buffers \in [Channels -> [Samples ->
                    [line : -1 .. MaxLines, re : Groups, im : Groups]]]

\* How many of the first p lines are complete.
CompleteUpTo(p) == Cardinality({l \in 1 .. p : file[l] = "complete"})

\* Sample s of the window read last is, in all channels, from the complete
\* line it stands for, or zero if the file has no such line.
Tiled(s) ==
  LET n == Window * (cnt - 1) + s IN
  IF n < CompleteUpTo(Len(file))
  THEN \E l \in DOMAIN file :
         /\ file[l] = "complete" /\ CompleteUpTo(l) = n + 1
         /\ \A c \in Channels : buffers[c][s].line = l
         /\ UNION {{buffers[c][s].re, buffers[c][s].im} : c \in Channels}
              = Groups
  ELSE \A c \in Channels : buffers[c][s] = Zero

\* Window w holds, from sample 0 on, the complete lines from number w * Window
\* on, and behind the last line zeros, never samples of an earlier window:
\* the windows of successive calls tile the file although each call opens and
\* skips anew, wherever the short lines are.
WindowsTile == pc = "open" /\ cnt > 0 => \A s \in Samples : Tiled(s)

=============================================================================
