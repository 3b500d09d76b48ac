----------------------------- MODULE Descriptors -----------------------------
(***************************************************************************)
(* The file descriptors of ip_comm_test.  The main thread and the receive  *)
(* thread open and close files of one table, the kernel gives out the      *)
(* lowest free number, and several variables keep a number after it was    *)
(* closed: axi_dsp's when a call has failed, the receive channel's when    *)
(* its thread has ended.  Both are closed again when the program ends.     *)
(*                                                                         *)
(* Failures to open a device are left out: without the receive channel or  *)
(* a transmit channel the program crashes before it closes anything        *)
(* (RxChannel).                                                            *)
(***************************************************************************)
EXTENDS Integers, FiniteSets, FiniteSetsExt

CONSTANTS
  NumTx,            \* NUM_CHANNELS_TX
  NumTransfers      \* how often the input file is read

ASSUME DescAssumption == NumTx \in Nat \ {0} /\ NumTransfers \in Nat

VARIABLES
  main,             \* where main() is
  n,                \* channels opened, or passes of the loop, or channels left
  thread,           \* the receive thread: "off", "on", "done"
  table,            \* table[f]: owner of the file with descriptor f, or Free
  held,             \* held[x]: the number that x keeps, or -1
  closed            \* the last close(): whose number, and what it closed

vars == <<main, n, thread, table, held, closed>>

\* The variables that keep descriptors.  Channels have their index in
\* dma_channels: 0 is the receive channel.
Tx     == 1 .. NumTx
rx     == 0
fd     == NumTx + 1     \* of axi_dsp.cpp
dump_file == NumTx + 2
fp     == NumTx + 3     \* in misc_read_8chs_from_file()
Owners == rx .. fp
Free   == -1

\* The standard streams have 0 to 2.  There is a number for every device and
\* file, and for as many more as a forgotten fclose() could use up.
Numbers == 3 .. 3 + Cardinality(Owners) + NumTransfers

Init ==
  /\ main = "axi_dsp_init" /\ n = 0 /\ thread = "off"
  /\ table = [f \in Numbers |-> Free]
  /\ held = [x \in Owners |-> -1]
  /\ closed = [by |-> Free, what |-> Free]

Lowest == Min({f \in Numbers : table[f] = Free})

OpenFor(x) ==
  /\ table' = [table EXCEPT ![Lowest] = x]
  /\ held' = [held EXCEPT ![x] = Lowest]

\* close() of a number that is not open fails and does nothing.
CloseOf(x) ==
  /\ closed' = [by |-> x,
                what |-> IF held[x] \in Numbers THEN table[held[x]] ELSE Free]
  /\ table' = [f \in Numbers |-> IF f = held[x] THEN Free ELSE table[f]]

-----------------------------------------------------------------------------
(* main().                                                                 *)

\* axi_dsp_init(); nobody looks at the result.
AxiDspInit ==
  /\ main = "axi_dsp_init"
  /\ OpenFor(fd) \/ UNCHANGED <<table, held>>
  /\ main' = "configure"
  /\ UNCHANGED <<n, thread, closed>>

\* Mutant: axi_dsp is used behind the initialisation of the channels, too.
ConfiguresLate == main \in {"configure", "start"}

\* axi_dsp is used before the channels are initialised only.
Configures == main = "configure"

\* A call of the library fails and closes the file, as will the next one.
AxiDspFails ==
  /\ Configures
  /\ CloseOf(fd)
  /\ UNCHANGED <<main, n, thread, held>>

InitRx ==
  /\ main = "configure"
  /\ OpenFor(rx)
  /\ main' = "dump"
  /\ UNCHANGED <<n, thread, closed>>

\* set_save_to_file(): dump_file is never closed.
OpenDump ==
  /\ main = "dump"
  /\ OpenFor(dump_file) \/ UNCHANGED <<table, held>>
  /\ main' = "init_tx"
  /\ n' = 1
  /\ UNCHANGED <<thread, closed>>

\* Mutant: one channel too many.
LastTxLate == n > NumTx

LastTx == n = NumTx

InitTx ==
  /\ main = "init_tx"
  /\ OpenFor(n)
  /\ n' = IF LastTx THEN 0 ELSE n + 1
  /\ main' = IF LastTx THEN "start" ELSE main
  /\ UNCHANGED <<thread, closed>>

Start ==
  /\ main = "start"
  /\ thread' = "on"
  /\ main' = "loop"
  /\ UNCHANGED <<n, table, held, closed>>

\* misc_read_8chs_from_file()
Fopen ==
  /\ main = "loop" /\ n < NumTransfers
  /\ \/ OpenFor(fp) /\ main' = "reading" /\ UNCHANGED n
     \/ n' = n + 1 /\ UNCHANGED <<main, table, held>>
  /\ UNCHANGED <<thread, closed>>

\* Mutant: the input file stays open.
FcloseForgotten == UNCHANGED <<table, closed>>

Fclose == CloseOf(fp)

ReadFile ==
  /\ main = "reading"
  /\ Fclose
  /\ main' = "loop"
  /\ n' = n + 1
  /\ UNCHANGED <<thread, held>>

WaitForFinish ==
  /\ main = "loop" /\ n = NumTransfers
  /\ thread = "done"
  /\ main' = "cleanup"
  /\ n' = NumTx
  /\ UNCHANGED <<thread, table, held, closed>>

\* cleanup() of all channels, from the last to the receive channel, which is 0
\* and was cleaned up by its thread.
Cleanup ==
  /\ main = "cleanup"
  /\ CloseOf(n)
  /\ n' = IF n = 0 THEN 0 ELSE n - 1
  /\ main' = IF n = 0 THEN "axi_dsp_deinit" ELSE main
  /\ UNCHANGED <<thread, held>>

AxiDspDeinit ==
  /\ main = "axi_dsp_deinit"
  /\ CloseOf(fd)
  /\ main' = "return"
  /\ UNCHANGED <<n, thread, held>>

\* The receive thread collects its packets, or fails, and cleans up.
End ==
  /\ thread = "on"
  /\ CloseOf(rx)
  /\ thread' = "done"
  /\ UNCHANGED <<main, n, held>>

Next ==
  \/ AxiDspInit \/ AxiDspFails \/ InitRx \/ OpenDump \/ InitTx \/ Start
  \/ Fopen \/ ReadFile \/ WaitForFinish \/ Cleanup \/ AxiDspDeinit
  \/ End

Spec == Init /\ [][Next]_vars

-----------------------------------------------------------------------------
(* Properties.                                                             *)

TypeOK ==
  /\ main \in {"axi_dsp_init", "configure", "dump", "init_tx", "start", "loop",
               "reading", "cleanup", "axi_dsp_deinit", "return"}
  /\ n \in 0 .. Max({NumTx, NumTransfers})
  /\ thread \in {"off", "on", "done"}
  /\ table \in [Numbers -> Owners \union {Free}]
  /\ held \in [Owners -> Numbers \union {-1}]

\* However stale numbers are closed again, none of them has been given to
\* another file in the meantime: a close() closes what it means, or nothing.
NoForeignClose == closed.what \in {closed.by, Free}

\* Until its own cleanup, each device that was opened stays open under the
\* number its object keeps.
DevicesOpen ==
  /\ thread = "on" => table[held[rx]] = rx
  /\ main \in {"start", "loop", "reading"} =>
       \A c \in Tx : table[held[c]] = c

=============================================================================
