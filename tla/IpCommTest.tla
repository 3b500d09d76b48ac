----------------------------- MODULE IpCommTest -----------------------------
(***************************************************************************)
(* The whole of ip_comm_test: main() with its transmit loop (TxStream),    *)
(* the thread of the receive channel (RxChannel), the signal processor     *)
(* that turns transmitted buffers into received packets, and the handling  *)
(* of SIGINT.                                                              *)
(*                                                                         *)
(* Each frame of transmitted buffers carries PacksPerBuffer input packets. *)
(* The signal processor answers every Decimation input packets with one    *)
(* packet, or with none when it works on detections and found nothing      *)
(* (README.md:50-54 of ip_comm_test).                                      *)
(***************************************************************************)
EXTENDS TxStream

CONSTANTS
  RxBufferCount,    \* RX_BUFFER_COUNT, 8 in the application
  PacksPerBuffer,   \* N_PACKS_IN_TX_BUF, 4 in the application
  Decimation,       \* 20 or 1, depending on the test point
  Word,             \* 2^32: num_rx_transfer is a uint32_t
  FlushPeriod,
  RxFaultStatuses,
  MayDetectNothing  \* whether an answer may be missing

MaxOf(S) == CHOOSE m \in S : \A n \in S : n <= m

ASSUME IpAssumption ==
  /\ RxBufferCount \in Nat \ {0}
  /\ PacksPerBuffer \in Nat \ {0}
  /\ Decimation \in Nat \ {0}
  /\ Word \in Nat \ {0}
  /\ FlushPeriod \in Nat \ {0}
  /\ RxFaultStatuses \subseteq {"PROXY_BUSY", "PROXY_TIMEOUT", "PROXY_ERROR"}
  /\ MayDetectNothing \in BOOLEAN
  \* num_transfers is a uint32_t: some argument is the largest.
  /\ \E m \in Arguments : \A n \in Arguments : n <= m

VARIABLES
  stage,              \* of the process: see Stages
  exiting,            \* PIKbdListener::exiting
  silent,             \* answers left out because nothing was detected
  pc, buffer_id, counter, in_progress_count, rx_transfers, buf_ptr, dump_file,
  dump, flushed, owner, data, order, offered, arrived   \* the receive channel

Stages == {"init", "loop", "exited", "crashed", "killed"}

\* set_num_transfers() takes an int.
ToInt(n) == IF n < Word \div 2 THEN n ELSE n - Word

\* Mutant: the decimation of the test point is forgotten.
NumRxUndecimated(n) == ToInt((n * PacksPerBuffer) % Word)

\* num_rx_transfer, computed in uint32_t and divided by 20 for some points.
NumRx(n) == ToInt(((n * PacksPerBuffer) % Word) \div Decimation)

Rx == INSTANCE RxChannel
        WITH BufferCount <- RxBufferCount, num_transfers <- rx_transfers,
             Numbers <- {NumRx(n) : n \in Arguments},
             MaxPackets <- MaxOf(Arguments) * PacksPerBuffer,
             FaultStatuses <- RxFaultStatuses

process == <<stage, exiting>>
rxvars == <<pc, buffer_id, counter, in_progress_count, rx_transfers, buf_ptr,
            dump_file, dump, flushed, owner, data, order, offered, arrived>>
ipvars == <<process, silent, txvars, rxvars>>

IpInit ==
  /\ stage = "init"
  /\ exiting = FALSE
  /\ silent = 0
  /\ TxInit
  /\ Rx!Init

\* main() up to its loop: the receive channel ...
Prepare ==
  /\ stage = "init"
  /\ \/ Rx!InitChannel
     \/ Rx!SetSaveToFile /\ rx_transfers' = NumRx(num_transfers)
  /\ UNCHANGED <<process, silent, txvars>>

\* ... and the transmit channels.
PrepareTx ==
  /\ stage = "init"
  /\ pc = "ready"
  /\ InitChannels
  /\ UNCHANGED <<process, silent, rxvars>>

\* dma_channels[0]->start()
StartRx ==
  /\ stage = "init"
  /\ main = "read"
  /\ Rx!Start
  /\ stage' = "loop"
  /\ UNCHANGED <<exiting, silent, txvars>>

\* Writing through a null pointer ends the process.
CrashedIf(null) == stage' = IF null THEN "crashed" ELSE stage

TransmitLoop ==
  /\ stage = "loop"
  /\ MainLoop
  /\ CrashedIf(main' = "crashed")
  /\ UNCHANGED <<exiting, silent, rxvars>>

\* The receive thread.
Receive ==
  /\ stage = "loop"
  /\ Rx!Thread
  /\ CrashedIf(pc' = "crashed")
  /\ UNCHANGED <<exiting, silent, txvars>>

\* Mutant: main() does not wait for the thread.
JoinedEarly == main = "finish"

Joined == main = "finish" /\ pc = "done"

\* waitForFinish() returns; main() cleans up every channel, the receive channel
\* for the second time, and returns.
Exit ==
  /\ stage = "loop"
  /\ Joined
  /\ stage' = "exited"
  /\ buf_ptr' = FALSE
  /\ UNCHANGED <<exiting, silent, txvars, pc, buffer_id, counter,
                 in_progress_count, rx_transfers, dump_file, dump, flushed,
                 owner, data, order, offered, arrived>>

\* The first SIGINT or SIGTERM sets PIKbdListener::exiting, which main() never
\* reads, and gives the signal back to its default action; the second kills the
\* process.
Interrupt ==
  /\ stage \in {"init", "loop"}
  /\ exiting' = TRUE
  /\ stage' = IF exiting THEN "killed" ELSE stage
  /\ UNCHANGED <<silent, txvars, rxvars>>

\* The engines and the input of the signal processor.
MoveIn ==
  /\ Hardware
  /\ UNCHANGED <<process, silent, rxvars>>

MoveOut ==
  /\ Rx!Deliver
  /\ UNCHANGED <<process, silent, txvars>>

\* The signal processor has an answer due.
AnswerDue ==
  (offered + silent + 1) * Decimation <= Len(frames) * PacksPerBuffer

Answer ==
  /\ AnswerDue
  /\ Rx!Offer
  /\ UNCHANGED <<process, silent, txvars>>

DetectNothing ==
  /\ MayDetectNothing
  /\ AnswerDue
  /\ silent' = silent + 1
  /\ UNCHANGED <<process, txvars, rxvars>>

Process == Prepare \/ PrepareTx \/ StartRx \/ Exit \/ TransmitLoop

IpNext ==
  \/ Process \/ Receive \/ Interrupt
  \/ MoveIn \/ MoveOut \/ Answer \/ DetectNothing

IpSpec == IpInit /\ [][IpNext]_ipvars

\* main() and the thread are scheduled; the hardware goes on.
IpFairSpec ==
  /\ IpSpec
  /\ WF_ipvars(Process) /\ WF_ipvars(Receive)
  /\ WF_ipvars(MoveOut) /\ WF_ipvars(Answer)
  /\ WF_ipvars(Combine /\ MoveIn)
  /\ \A c \in Channels : WF_ipvars(Engine(c) /\ MoveIn)

\* Only the software is scheduled and FINISH_XFER returns; the hardware may be
\* stuck.
IpWaitSpec == IpSpec /\ WF_ipvars(Process) /\ WF_ipvars(Receive)

-----------------------------------------------------------------------------
(* Properties.                                                             *)

IpTypeOK ==
  /\ stage \in Stages
  /\ exiting \in BOOLEAN
  /\ silent \in 0 .. num_transfers * PacksPerBuffer
  /\ TxTypeOK
  /\ Rx!TypeOK

\* Composition: the receive channel and the transmit loop still behave as their
\* own specifications say, whatever main(), a signal or the processor do, so
\* that what is shown of each holds here; main() in particular does not unmap
\* the receive channel under its thread.
Parts == Rx!Spec /\ TxSpec

\* The program as a whole does what whoever starts it is promised: it records
\* every answer once, and behind the windows that the answer is for, sends no
\* window too many, and unless something fails it finishes only when everything
\* is sent and recorded.  A window is sent when all channels have sent theirs.
Orders ==
  {[send |-> n, record |-> Rx!LimitOf(NumRx(n))] : n \in Arguments}

WholeWindows ==
  CHOOSE n \in {SentOf(c) : c \in Channels} :
    \A c \in Channels : n <= SentOf(c)

Phase ==
  CASE stage = "init" -> "preparing"
    [] stage = "loop" -> "running"
    [] stage = "exited" -> "finished"
    [] OTHER -> "broken"

Ordered ==
  [send |-> num_transfers, record |-> Rx!LimitOf(NumRx(num_transfers))]

Run == INSTANCE Measurement
         WITH phase <- Phase, order <- Ordered, sent <- WholeWindows,
              recorded <- counter,
              MayFail <- FaultStatuses \union RxFaultStatuses # {}

MeasurementSpec == Run!Spec

\* When the program ends by itself and nothing failed, every window was sent
\* and every packet the processor owes for them is in the dump: num_transfers
\* and num_rx_transfer fit together, and waitForFinish() comes late enough.
NothingLost ==
  stage = "exited" => /\ \A c \in Channels : SentOf(c) = num_transfers
                      /\ counter = NumRx(num_transfers)
                      /\ ~AnswerDue
                      /\ dump_file => Len(dump) = counter

\* Once every channel is mapped the program ends by itself, unless it is
\* killed: with all answers present if nothing fails, by the timeouts of the
\* driver if answers are missing.
Ends == buf_ptr /\ AllMapped ~> stage \in {"exited", "killed"}

\* Somebody can go on: main(), that is, it prepares, is at work in its loop, or
\* what it waits for is there or may time out; ...
MainCanGo ==
  \/ stage = "init"
  \/ /\ stage = "loop"
     /\ \/ main \in {"read", "fill", "start"}
        \/ main = "wait" /\ ~mapped[k]
        \/ /\ main = "wait" /\ tx_in_progress[k] > 0
           /\ Sent \/ FaultStatuses # {}
        \/ Joined

\* ... the receive thread; ...
ThreadCanGo ==
  /\ stage = "loop"
  /\ \/ pc \in {"begin", "save", "next", "end"}
     \/ pc = "wait" /\ in_progress_count = 0
     \/ pc = "wait" /\ (owner[buffer_id] = "done" \/ RxFaultStatuses # {})

\* ... an engine or the signal processor.
HardwareCanGo ==
  \/ \E c \in Channels : tx_order[c] # <<>>
  \/ \A c \in Channels : line[c] # <<>>
  \/ arrived < offered /\ order # <<>>
  \/ AnswerDue /\ offered < MaxOf(Arguments) * PacksPerBuffer

NeverStuck ==
  stage \in {"init", "loop"} => MainCanGo \/ ThreadCanGo \/ HardwareCanGo

\* How far each of those who take steps is, and how far it can get: main()
\* takes up to Pass steps for a window, the thread three for an answer, and an
\* engine one for a sample.
Reading == TxBufferCount * SamplesPerBuffer

Pass == Reading + 2 * NumChannels + 1

MainPlace ==
  CASE main = "init"  -> 0
    [] main = "read"  -> 1 + i * Pass
    [] main = "fill"  -> 2 + i * Pass + sample_count
    [] main = "start" -> 2 + i * Pass + Reading + NumChannels - k
    [] main = "wait"  -> 2 + i * Pass + Reading + 2 * NumChannels - k
    [] OTHER          -> 2 + num_transfers * Pass

ThreadPlace ==
  CASE pc = "new"    -> 0
    [] pc = "inited" -> 1
    [] pc = "ready"  -> 2
    [] pc = "begin"  -> 3 + buffer_id
    [] pc = "next"   -> 2 + RxBufferCount + 3 * counter
    [] pc = "wait"   -> 3 + RxBufferCount + 3 * counter
    [] pc = "save"   -> 4 + RxBufferCount + 3 * counter
    [] pc = "end"    -> 3 + RxBufferCount + 3 * Ordered.record
    [] OTHER         -> 4 + RxBufferCount + 3 * Ordered.record

ProcessPlace ==
  (CASE stage = "init" -> 0 [] stage = "loop" -> 2 [] OTHER -> 4)
    + (IF exiting THEN 1 ELSE 0)

Place ==
  [main |-> MainPlace, thread |-> ThreadPlace, process |-> ProcessPlace,
   combined |-> Len(frames), answered |-> offered + silent,
   delivered |-> arrived]

Last ==
  [main |-> 2 + num_transfers * Pass,
   thread |-> 4 + RxBufferCount + 3 * Ordered.record,
   process |-> 5,
   combined |-> num_transfers, answered |-> num_transfers * PacksPerBuffer,
   delivered |-> num_transfers * PacksPerBuffer]

SamplesOf(c) == SentOf(c) * SamplesPerBuffer + Len(fetched[c])

WithinReach ==
  /\ \A p \in DOMAIN Place : Place[p] \in 0 .. Last[p]
  /\ \A c \in Channels : SamplesOf(c) \in 0 .. num_transfers * SamplesPerBuffer

\* Every step takes somebody further, and nobody back.
Onward ==
  /\ \A p \in DOMAIN Place : Place[p] <= Place'[p]
  /\ \A c \in Channels : SamplesOf(c) <= SamplesOf(c)'
  /\ \/ \E p \in DOMAIN Place : Place[p] < Place'[p]
     \/ \E c \in Channels : SamplesOf(c) < SamplesOf(c)'

\* Why the program ends, apart from fairness: nobody spins, and main(), the
\* thread and the hardware never all wait for each other.
MovesOn ==
  /\ NeverStuck /\ WithinReach
  /\ [][Onward /\ NeverStuck' /\ WithinReach']_ipvars

\* README.md:27 of ip_comm_test: Ctrl+C ends the program.  So once it was
\* caught, main() starts no further transfer.
StopsOnExit ==
  [][exiting => \A c \in Channels : Started(c)' <= Started(c)]_ipvars

=============================================================================
