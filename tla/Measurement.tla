---------------------------- MODULE Measurement -----------------------------
(***************************************************************************)
(* What a run of ip_comm_test promises to whoever starts it, without       *)
(* channels, buffers or threads: so many windows of the input file are     *)
(* sent, each answer is recorded once and behind the windows it is for,    *)
(* and the run finishes when everything was sent and recorded - or at any  *)
(* time, if something fails.  It may break off: killed, or crashed.        *)
(***************************************************************************)
EXTENDS Naturals

CONSTANTS
  Orders,           \* [send, record]: windows to send, answers to record
  PacksPerBuffer,   \* input packets in a window
  Decimation,       \* input packets for an answer
  MayFail           \* whether transfers may fail in this instance

VARIABLES
  phase,            \* "preparing", "running", "finished" or "broken"
  order,            \* what was ordered
  sent,             \* windows sent, whole
  recorded          \* answers recorded

vars == <<phase, order, sent, recorded>>

Init ==
  /\ phase = "preparing"
  /\ order \in Orders
  /\ sent = 0
  /\ recorded = 0

Start ==
  /\ phase = "preparing"
  /\ phase' = "running"
  /\ UNCHANGED <<order, sent, recorded>>

\* What was handed to the DMA engines is sent even if the program is gone.
Send ==
  /\ phase # "preparing"
  /\ sent < order.send
  /\ sent' = sent + 1
  /\ UNCHANGED <<phase, order, recorded>>

Record ==
  /\ phase = "running"
  /\ recorded < order.record
  /\ (recorded + 1) * Decimation <= sent * PacksPerBuffer
  /\ recorded' = recorded + 1
  /\ UNCHANGED <<phase, order, sent>>

Finish ==
  /\ phase = "running"
  /\ MayFail \/ (sent = order.send /\ recorded = order.record)
  /\ phase' = "finished"
  /\ UNCHANGED <<order, sent, recorded>>

Break ==
  /\ phase \in {"preparing", "running"}
  /\ phase' = "broken"
  /\ UNCHANGED <<order, sent, recorded>>

Next == Start \/ Send \/ Record \/ Finish \/ Break

Spec == Init /\ [][Next]_vars

=============================================================================
