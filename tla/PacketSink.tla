----------------------------- MODULE PacketSink -----------------------------
(***************************************************************************)
(* What the receive channel promises to the rest of ip_comm_test, without  *)
(* buffers, threads or the DMA engine: it takes the packets of the signal  *)
(* processor strictly one after the other, at most limit of them, writes   *)
(* each to the dump file once, and when it stops it stops for good, either *)
(* complete (all limit packets taken) or faulted.  Packets are identified  *)
(* by the order in which the signal processor emits them: 1, 2, 3, ...     *)
(***************************************************************************)
EXTENDS Naturals, Sequences

CONSTANT Limits     \* how many packets the sink may be asked to take

VARIABLES
  status,           \* "idle", "collecting", "complete" or "faulted"
  limit,            \* how many it is asked to take
  logging,          \* whether the dump file could be opened
  taken,            \* number of packets taken
  file              \* the packets in the dump file, oldest first

vars == <<status, limit, logging, taken, file>>

Init ==
  /\ status = "idle"
  /\ limit \in Limits
  /\ logging = FALSE
  /\ taken = 0
  /\ file = <<>>

Open ==
  /\ status = "idle"
  /\ status' = "collecting"
  /\ limit' \in Limits
  /\ logging' \in BOOLEAN
  /\ UNCHANGED <<taken, file>>

Receive ==
  /\ status = "collecting"
  /\ taken < limit
  /\ taken' = taken + 1
  /\ file' = IF logging THEN Append(file, taken + 1) ELSE file
  /\ UNCHANGED <<status, limit, logging>>

Complete ==
  /\ status = "collecting"
  /\ taken = limit
  /\ status' = "complete"
  /\ UNCHANGED <<limit, logging, taken, file>>

Fault ==
  /\ status = "collecting"
  /\ status' = "faulted"
  /\ UNCHANGED <<limit, logging, taken, file>>

Next == Open \/ Receive \/ Complete \/ Fault

Spec == Init /\ [][Next]_vars

=============================================================================
