--------------------------- MODULE MCAxiMultiplier ---------------------------
(***************************************************************************)
(* An instance of AxiMultiplier: two tests at once, one with the least     *)
(* int16_t and one with a channel of more than three bits.  Both processes *)
(* also reset the multiplier and call for a channel that does not exist,   *)
(* the second one before its test, where the call hits another register,   *)
(* the first one behind it, where the call fails and the file is lost.     *)
(***************************************************************************)
EXTENDS AxiMultiplier

Programs ==
  [least |-> Test(-32768, 2) \o Reset \o
               <<Mult("get", 0, Channels - 1), Mult("get", 0, Channels),
                 Mult("set", 1, 0)>>,
   wide  |-> Reset \o <<Mult("set", 1, Channels)>> \o Test(7, 9)]

\* All registers and what is behind the last.
Offsets == Registers \union {MaxOffset + 4}

=============================================================================
