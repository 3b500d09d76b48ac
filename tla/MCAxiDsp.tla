------------------------------ MODULE MCAxiDsp ------------------------------
(***************************************************************************)
(* Instances of AxiDsp: what callers may set in each run.                  *)
(***************************************************************************)
EXTENDS AxiDsp, TLC

Give(name, num, values) == [name : {name}, num : {num}, value : values]

\* Settings at the limits of their fields, two of them of one kind.  The source
\* and its channel are one bit wider than their fields and a real part is
\* negative: what does not fit would change the next field.
Limits ==
  Give("diagram_7", 0, {<<8602, 13944>>})
    \union Give("diagram_7", 7, {<<-1, 32767>>})
    \union Give("output_source", 0, {<<65547, 14, 30>>})

Symmetry == Permutations(Processes)

\* A range gate of more than five bits.
Gates == Give("output_source", 0, {<<0, 0, 100>>})

-----------------------------------------------------------------------------
(* What does not depend on a state, for all settings at once.              *)

\* The greatest value of a field (for 32 bits, of an integer of TLC).
Most(width) == IF width = 32 THEN 2^30 - 1 + 2^30 ELSE 2^width - 1

\* Values at the limits of their fields and beyond, and all angles.
Corners(name) ==
  LET fields == Setter[name].fields
      widths == {fields[f][2] : f \in DOMAIN fields}
      most   == {Most(w) : w \in widths}
      beyond == {2^w : w \in widths \ {32}}
      below  == IF name \in Complex THEN {-1} ELSE {}
  IN  IF name \in Angles THEN {<<eighths>> : eighths \in -4 .. 3}
      ELSE [DOMAIN fields ->
              {0, 1, 7, 8, 31} \union most \union beyond \union below]

\* Whatever fits comes back, an angle modulo a turn.
ASSUME ValuesGivenBack ==
  /\ ConversionsExact
  /\ \A name \in Names : \A value \in Corners(name) : Exact(name, value)

=============================================================================
