--------------------------- MODULE IpCommTestProofs ---------------------------
(***************************************************************************)
(* The whole program, for any number of channels, buffers and windows:     *)
(* it is a composition of its parts, so that what is proved of them holds, *)
(* it does what a measurement promises, and nothing keeps it from ending   *)
(* but the fairness of those who take its steps.                           *)
(***************************************************************************)
EXTENDS IpCommTest, TxStreamProofs

-----------------------------------------------------------------------------
(* The transmit side.                                                      *)

LEMMA TransmitStep == [IpNext]_ipvars => [TxNext]_txvars
  <1> SUFFICES ASSUME [IpNext]_ipvars PROVE [TxNext]_txvars
    OBVIOUS
  <1>1. CASE Process
    BY <1>1 DEF Process, Prepare, PrepareTx, StartRx, Exit, TransmitLoop,
       TxNext
  <1>2. CASE Receive \/ Interrupt \/ MoveIn
    BY <1>2 DEF Receive, Interrupt, MoveIn, TxNext
  <1>3. CASE MoveOut \/ Answer \/ DetectNothing \/ UNCHANGED ipvars
    BY <1>3 DEF MoveOut, Answer, DetectNothing, ipvars
  <1> QED BY <1>1, <1>2, <1>3 DEF IpNext

\* What the steps of the transmit side leave alone.
LEMMA HardwareLeaves ==
  ASSUME Hardware
  PROVE  /\ UNCHANGED <<main, num_transfers, i, cnt, k, sample_count>>
         /\ UNCHANGED <<mapped, tx_counter, tx_in_progress, tx_buffer_id>>
         /\ UNCHANGED memory
         /\ (\E c \in Channels : Engine(c)) => frames' = frames
  BY DEF Hardware, Combine, Engine, Fetch, Send, loop, channels

LEMMA SoftwareLeaves ==
  ASSUME InitChannels \/ MainLoop
  PROVE  /\ UNCHANGED <<num_transfers, fetched, line, frames>>
         /\ main \notin {"init", "read", "fill", "start", "wait"} => FALSE
         /\ main' # "init"
  <1>1. CASE ReadFile
    BY <1>1, ReadSteps
  <1>2. CASE \/ InitChannels \/ ReadCrash \/ StartTransfer \/ WaitOk
             \/ (\E s \in FaultStatuses : WaitFault(s))
             \/ WaitCrash \/ LoopEnd
    BY <1>2 DEF InitChannels, ReadCrash, ReadBegins, StartTransfer, WaitOk,
       WaitFault, WaitCrash, LoopEnd, Waited, NextChannel, loop, hardware
  <1> QED BY <1>1, <1>2 DEF MainLoop

LEMMA TransmitLeaves ==
  ASSUME [TxNext]_txvars
  PROVE  /\ num_transfers' = num_transfers
         /\ main \notin {"init", "read", "fill", "start", "wait"} =>
              main' = main
  BY HardwareLeaves, SoftwareLeaves DEF TxNext, txvars, loop

\* In the whole program the transmit side is what TxStream says, ...
THEOREM Transmits == IpSpec => TxSpec
  <1>1. IpInit => TxInit
    BY DEF IpInit
  <1> QED BY <1>1, TransmitStep, PTL DEF IpSpec, TxSpec

\* ... so that what is proved of it holds: with all failures, ...
THEOREM ProgramAccounts == IpSpec => []Accounted
  BY Transmits, TransfersAccounted, PTL

THEOREM ProgramAscends == TxBufferCount = 1 /\ IpSpec => []NeverBackwards
  BY Transmits, WindowsAscend, PTL

\* ... and without.
THEOREM ProgramInOrder == NoFaults /\ IpSpec => [](InStep /\ FramesInOrder)
  BY Transmits, ChannelsInStep, FramesOrdered, PTL

THEOREM ProgramBuffersSafe == NoFaults /\ IpSpec => WritesOnlyOwned
  BY Transmits, BuffersSafe, PTL

-----------------------------------------------------------------------------
(* The receive side.                                                       *)

LEMMA LargestArgument ==
  /\ MaxOf(Arguments) \in Arguments
  /\ \A n \in Arguments : n <= MaxOf(Arguments)
  BY IpAssumption DEF MaxOf

\* The program gives the channel constants that RxAssumption allows.
LEMMA RxAssumed ==
  /\ RxBufferCount \in Nat \ {0}
  /\ {NumRx(n) : n \in Arguments} \subseteq Int
  /\ MaxOf(Arguments) * PacksPerBuffer \in Nat
  /\ FlushPeriod \in Nat \ {0}
  /\ RxFaultStatuses \subseteq {"PROXY_BUSY", "PROXY_TIMEOUT", "PROXY_ERROR"}
  <1>1. ASSUME NEW n \in Arguments PROVE NumRx(n) \in Int
    <2>1. ((n * PacksPerBuffer) % Word) \div Decimation \in Int
      BY TxAssumption, IpAssumption
    <2>2. Word \div 2 \in Int
      BY IpAssumption
    <2> QED BY <2>1, <2>2, IpAssumption DEF NumRx, ToInt
  <1>2. MaxOf(Arguments) * PacksPerBuffer \in Nat
    <2>1. MaxOf(Arguments) \in Nat /\ PacksPerBuffer \in Nat
      BY TxAssumption, IpAssumption, LargestArgument
    <2> QED BY <2>1
  <1> QED BY <1>1, <1>2, IpAssumption

\* The receive channel is unmapped by its own thread before main() does it, and
\* its number belongs to one of the arguments.
JoinInv ==
  /\ num_transfers \in Arguments
  /\ pc = "done" => buf_ptr = FALSE

LEMMA RxThread ==
  Rx!Thread => Rx!Next /\ (pc' = "done" => buf_ptr' = FALSE)
  BY DEF Rx!Thread, Rx!BeginBuffer, Rx!BeginCrash, Rx!WaitIdle, Rx!Finish,
     Rx!FinishOk, Rx!FinishFault, Rx!Save, Rx!StopCollected, Rx!Advance,
     Rx!End, Rx!Next

LEMMA RxSetup ==
  Rx!InitChannel \/ Rx!SetSaveToFile \/ Rx!Start => Rx!Next /\ pc' # "done"
  BY DEF Rx!InitChannel, Rx!SetSaveToFile, Rx!Start, Rx!Setup, Rx!Next

LEMMA RxHardware ==
  Rx!Deliver \/ Rx!Offer => Rx!Next /\ UNCHANGED <<pc, buf_ptr>>
  BY DEF Rx!Deliver, Rx!Offer, Rx!thread, Rx!Next

LEMMA RxQuiet ==
  UNCHANGED rxvars => UNCHANGED Rx!vars /\ UNCHANGED <<pc, buf_ptr>>
  BY DEF rxvars, Rx!vars, Rx!thread, Rx!file, Rx!engine

LEMMA ReceiveStep ==
  ASSUME JoinInv, [IpNext]_ipvars
  PROVE  JoinInv' /\ [Rx!Next]_Rx!vars
  <1>1. num_transfers' = num_transfers
    BY TransmitStep, TransmitLeaves
  <1>2. CASE UNCHANGED rxvars
    BY <1>1, <1>2, RxQuiet DEF JoinInv
  <1>3. CASE Prepare \/ StartRx
    BY <1>1, <1>3, RxSetup DEF Prepare, StartRx, JoinInv
  <1>4. CASE Receive
    BY <1>1, <1>4, RxThread DEF Receive, JoinInv
  <1>5. CASE MoveOut \/ Answer
    BY <1>1, <1>5, RxHardware DEF MoveOut, Answer, JoinInv
  <1>6. CASE Exit
    <2>1. UNCHANGED Rx!vars /\ buf_ptr' = FALSE /\ UNCHANGED pc
      BY <1>6 DEF Exit, Joined, JoinInv, Rx!vars, Rx!thread, Rx!file, Rx!engine
    <2> QED BY <1>1, <2>1 DEF JoinInv
  <1>7. \/ UNCHANGED rxvars \/ Prepare \/ StartRx \/ Receive
        \/ MoveOut \/ Answer \/ Exit
    BY DEF IpNext, Process, PrepareTx, TransmitLoop, Interrupt, MoveIn,
       DetectNothing, ipvars
  <1> QED BY <1>2, <1>3, <1>4, <1>5, <1>6, <1>7

\* In the whole program the receive side is what RxChannel says: the second
\* cleanup by main() finds nothing to do.
THEOREM Receives == IpSpec => Rx!Spec
  <1>1. IpInit => JoinInv /\ Rx!Init
    BY DEF IpInit, TxInit, JoinInv, Rx!Init
  <1>2. JoinInv /\ [IpNext]_ipvars => JoinInv' /\ [Rx!Next]_Rx!vars
    BY ReceiveStep
  <1> QED BY <1>1, <1>2, PTL DEF IpSpec, Rx!Spec

\* The program is a composition of its parts.
THEOREM Composition == IpSpec => Parts
  BY Transmits, Receives, PTL DEF Parts

\* The theorems of RxChannelProofs, for the channel of the program.
Channel ==
  INSTANCE RxChannelProofs
    WITH BufferCount <- RxBufferCount, num_transfers <- rx_transfers,
         Numbers <- {NumRx(n) : n \in Arguments},
         MaxPackets <- MaxOf(Arguments) * PacksPerBuffer,
         FaultStatuses <- RxFaultStatuses

LEMMA ChannelAssumed == Channel!RxAssumption
  BY RxAssumed DEF Channel!RxAssumption

LEMMA SameVariables == UNCHANGED Rx!vars <=> UNCHANGED Channel!vars
  BY DEF Rx!vars, Channel!vars, Rx!thread, Channel!thread, Rx!file,
     Channel!file, Rx!engine, Channel!engine

LEMMA SameChannel ==
  /\ Rx!Init => Channel!Init
  /\ [Rx!Next]_Rx!vars <=> [Channel!Next]_Channel!vars
  <1>1. Rx!Init => Channel!Init
    BY DEF Rx!Init, Channel!Init, Rx!Buffers, Channel!Buffers
  <1>2. Rx!Setup <=> Channel!Setup
    BY Zenon
    DEF Rx!Setup, Rx!InitChannel, Rx!SetSaveToFile, Rx!Start, Rx!file,
        Rx!engine,
        Channel!Setup, Channel!InitChannel, Channel!SetSaveToFile,
        Channel!Start, Channel!file, Channel!engine
  <1>3. Rx!Thread <=> Channel!Thread
    BY Zenon
    DEF Rx!Thread, Rx!BeginBuffer, Rx!BeginCrash, Rx!WaitIdle, Rx!Finish,
        Rx!FinishOk, Rx!FinishFault, Rx!Save, Rx!StopCollected, Rx!Advance,
        Rx!End, Rx!HandOut, Rx!StartXfer, Rx!FinishXfer, Rx!BegunEnough,
        Rx!Collected, Rx!TransfersLeft, Rx!NextBuffer, Rx!Count, Rx!FlushDue,
        Rx!file, Rx!engine,
        Channel!Thread, Channel!BeginBuffer, Channel!BeginCrash,
        Channel!WaitIdle, Channel!Finish, Channel!FinishOk,
        Channel!FinishFault, Channel!Save, Channel!StopCollected,
        Channel!Advance, Channel!End, Channel!HandOut, Channel!StartXfer,
        Channel!FinishXfer, Channel!BegunEnough, Channel!Collected,
        Channel!TransfersLeft, Channel!NextBuffer, Channel!Count,
        Channel!FlushDue, Channel!file, Channel!engine
  <1>4. (Rx!Offer <=> Channel!Offer) /\ (Rx!Deliver <=> Channel!Deliver)
    BY Zenon
    DEF Rx!Offer, Rx!Deliver, Rx!thread, Rx!file, Rx!engine,
        Channel!Offer, Channel!Deliver, Channel!thread, Channel!file,
        Channel!engine
  <1> QED BY <1>1, <1>2, <1>3, <1>4, SameVariables DEF Rx!Next, Channel!Next

LEMMA SameInvariant == Rx!RxInv <=> Channel!RxInv
  <1>1. Rx!TypeOK <=> Channel!TypeOK
    BY Zenon DEF Rx!TypeOK, Channel!TypeOK, Rx!Locations, Channel!Locations,
       Rx!Buffers, Channel!Buffers
  <1>2. Rx!Accounts <=> Channel!Accounts
    BY Zenon
    DEF Rx!Accounts, Rx!Base, Rx!Buffers, Rx!Taken, Rx!Uncounted,
        Rx!Outstanding, Rx!Behind, Rx!Landed, Rx!Limit, Rx!LimitOf,
        Channel!Accounts, Channel!Base, Channel!Buffers, Channel!Taken,
        Channel!Uncounted, Channel!Outstanding, Channel!Behind,
        Channel!Landed, Channel!Limit, Channel!LimitOf
  <1>3. /\ Rx!Beginning <=> Channel!Beginning
        /\ Rx!Running <=> Channel!Running
    BY Zenon
    DEF Rx!Beginning, Rx!Running, Rx!Buffers, Rx!Limit, Rx!LimitOf,
        Channel!Beginning, Channel!Running, Channel!Buffers, Channel!Limit,
        Channel!LimitOf
  <1>4. Rx!Ring <=> Channel!Ring
    BY Zenon
    DEF Rx!Ring, Rx!Buffers, Rx!Slot, Rx!Wrap, Rx!Base, Rx!Behind, Rx!Landed,
        Rx!Taken, Rx!Uncounted, Rx!Outstanding,
        Channel!Ring, Channel!Buffers, Channel!Slot, Channel!Wrap,
        Channel!Base, Channel!Behind, Channel!Landed, Channel!Taken,
        Channel!Uncounted, Channel!Outstanding
  <1>5. /\ Rx!Saving <=> Channel!Saving
        /\ Rx!DumpInOrder <=> Channel!DumpInOrder
    BY DEF Rx!Saving, Channel!Saving, Rx!DumpInOrder, Channel!DumpInOrder
  <1> QED BY <1>1, <1>2, <1>3, <1>4, <1>5 DEF Rx!RxInv, Channel!RxInv

LEMMA InitRing == Rx!Init => Rx!RxInv
  BY ChannelAssumed, SameChannel, SameInvariant, Channel!InitInv

LEMMA RingStep ==
  ASSUME Rx!RxInv, [Rx!Next]_Rx!vars
  PROVE  Rx!RxInv'
  <1>1. Channel!RxInv /\ [Channel!Next]_Channel!vars
    BY SameChannel, SameInvariant
  <1>2. Channel!RxInv'
    BY <1>1, ChannelAssumed, Channel!Inductive
  <1>3. Rx!RxInv' <=> Channel!RxInv'
    BY SameInvariant, PTL
  <1> QED BY <1>2, <1>3

\* ... so that what is proved of it holds too, whatever fails on either side:
\* the dump is in order, the ring is kept full, a clean stop leaves no buffer
\* in the engine, few packets are lost to a kill, only owned buffers are handed
\* out, and the channel implements the abstract sink.
THEOREM ProgramCollects ==
  IpSpec => /\ [](Rx!DumpInOrder /\ Rx!RingFull /\ Rx!CleanStop)
            /\ []Rx!LossBounded
            /\ Rx!StartsOnlyOwned
            /\ Rx!SinkSpec
  <1>1. Rx!Spec => Channel!Spec
    BY SameChannel, PTL DEF Rx!Spec, Channel!Spec
  <1>2. Channel!Spec => /\ []Channel!DumpInOrder /\ []Channel!RingFull
                        /\ []Channel!CleanStop /\ []Channel!LossBounded
                        /\ Channel!StartsOnlyOwned /\ Channel!SinkSpec
    BY ChannelAssumed, Channel!DumpCorrect, Channel!RingKeptFull,
       Channel!StopIsClean, Channel!FewLost, Channel!HandsOutOwned,
       Channel!Refinement
  <1>3. /\ Channel!DumpInOrder => Rx!DumpInOrder
        /\ Channel!LossBounded => Rx!LossBounded
    BY DEF Rx!DumpInOrder, Channel!DumpInOrder, Rx!LossBounded,
       Channel!LossBounded
  <1>4. /\ Channel!RingFull => Rx!RingFull
        /\ Channel!CleanStop => Rx!CleanStop
    BY DEF Rx!RingFull, Channel!RingFull, Rx!CleanStop, Channel!CleanStop,
       Rx!Limit, Channel!Limit, Rx!LimitOf, Channel!LimitOf, Rx!Buffers,
       Channel!Buffers
  <1>5. Channel!StartsOnlyOwned => Rx!StartsOnlyOwned
    <2> DEFINE Owned ==
                 \A b \in Rx!Buffers :
                   order' = Append(order, b) => owner[b] = "app"
    <2>1. Channel!StartsOnlyOwned <=> [][Owned]_Channel!vars
      BY DEF Channel!StartsOnlyOwned, Channel!Buffers, Rx!Buffers
    <2>2. Rx!StartsOnlyOwned <=> [][Owned]_Rx!vars
      BY DEF Rx!StartsOnlyOwned
    <2>3. [Owned]_Channel!vars => [Owned]_Rx!vars
      BY SameVariables
    <2> HIDE DEF Owned
    <2> QED BY <2>1, <2>2, <2>3, PTL
  <1>6. Channel!SinkSpec => Rx!SinkSpec
    <2> USE DEF Channel!Limit, Rx!Limit, Channel!LimitOf, Rx!LimitOf,
                Channel!Status, Rx!Status
    <2>1. Channel!Sink!Init => Rx!Sink!Init
      BY DEF Channel!Sink!Init, Rx!Sink!Init
    <2>2. [Channel!Sink!Next]_(Channel!Sink!vars)
            => [Rx!Sink!Next]_(Rx!Sink!vars)
      BY Zenon DEF Channel!Sink!Next, Channel!Sink!vars, Channel!Sink!Open,
         Channel!Sink!Receive, Channel!Sink!Complete, Channel!Sink!Fault,
         Rx!Sink!Next, Rx!Sink!vars, Rx!Sink!Open, Rx!Sink!Receive,
         Rx!Sink!Complete, Rx!Sink!Fault
    <2> QED BY <2>1, <2>2, PTL DEF Channel!SinkSpec, Rx!SinkSpec,
            Channel!Sink!Spec, Rx!Sink!Spec
  <1> QED BY Receives, <1>1, <1>2, <1>3, <1>4, <1>5, <1>6, PTL

-----------------------------------------------------------------------------
(* The two sides together.                                                 *)

\* How far the process is, and what binds the two sides: the loop waits for the
\* receive channel to be set up, and no answer comes before its frames.
Joining ==
  /\ stage \in Stages
  /\ exiting \in BOOLEAN
  /\ stage = "init" =>
       main \in {"init", "read"} /\ i = 0 /\ pc \in {"new", "inited", "ready"}
  /\ stage = "loop" => pc \notin {"new", "inited", "ready"}
  /\ stage = "exited" => Joined
  /\ pc \notin {"new", "inited"} => rx_transfers = NumRx(num_transfers)
  /\ RxFaultStatuses = {} /\ pc \in {"end", "done"} => counter = Rx!Limit

Answers ==
  /\ silent \in Nat
  /\ (offered + silent) * Decimation <= Len(frames) * PacksPerBuffer

IpInv ==
  /\ ProgressInv
  /\ JoinInv
  /\ Rx!RxInv
  /\ Joining
  /\ Answers

LEMMA IpShape ==
  ASSUME IpInv
  PROVE  LoopInv /\ TxShape /\ LineType /\ Bounds /\ ProgressInv
  BY DEF IpInv, ProgressInv, ShapeInv, TxShape

LEMMA HasShape == IpInv => TxShape
  BY IpShape

LEMMA Product ==
  ASSUME NEW a \in Nat, NEW b \in Nat, NEW n \in Nat, a <= b
  PROVE  a * n \in Nat /\ b * n \in Nat /\ a * n <= b * n
  <1>1. b - a \in Nat
    OBVIOUS
  <1>2. (b - a) * n \in Nat
    BY <1>1
  <1>3. (b - a) * n = b * n - a * n /\ a * n \in Nat /\ b * n \in Nat
    OBVIOUS
  <1> QED BY <1>2, <1>3

LEMMA Quotient ==
  ASSUME NEW a \in Nat, NEW n \in Nat \ {0}
  PROVE  /\ a \div n \in Nat
         /\ (a \div n) * n <= a
         /\ a < (a \div n + 1) * n
  <1> DEFINE q == a \div n
             m == a % n
  <1>1. q \in Nat /\ m \in 0 .. n - 1 /\ a = n * q + m
    OBVIOUS
  <1> HIDE DEF q, m
  <1>2. (q + 1) * n = n * q + n /\ q * n = n * q /\ n * q \in Nat
    BY <1>1
  <1>3. q * n <= a /\ a < (q + 1) * n
    BY <1>1, <1>2
  <1> QED BY <1>1, <1>3 DEF q

LEMMA InitIp == IpInit => IpInv
  <1> SUFFICES ASSUME IpInit PROVE IpInv
    OBVIOUS
  <1>1. ProgressInv /\ Rx!RxInv
    BY InitProgress, InitRing DEF IpInit
  <1>2. JoinInv
    BY DEF IpInit, TxInit, JoinInv, Rx!Init
  <1>3. Joining
    BY DEF IpInit, TxInit, Rx!Init, Joining, Stages
  <1>4. Answers
    <2>1. silent = 0 /\ offered = 0 /\ Len(frames) = 0
      BY DEF IpInit, TxInit, Rx!Init
    <2>2. (0 + 0) * Decimation = 0 /\ 0 * PacksPerBuffer = 0
      BY IpAssumption
    <2> QED BY <2>1, <2>2 DEF Answers
  <1> QED BY <1>1, <1>2, <1>3, <1>4 DEF IpInv

\* What the steps of the thread do to the place of the channel.
LEMMA ThreadLeaves ==
  ASSUME Rx!RxInv, Rx!Thread
  PROVE  /\ pc' \notin {"new", "inited", "ready"}
         /\ rx_transfers' = rx_transfers
         /\ pc \notin {"new", "inited", "ready"}
         /\ offered' = offered
         /\ RxFaultStatuses = {} /\ pc' \in {"end", "done"} =>
              \/ counter' = Rx!Limit
              \/ pc \in {"end", "done"} /\ counter' = counter
  <1>1. CASE Rx!StopCollected
    <2>1. counter = Rx!Limit
      <3>1. Channel!RxInv /\ pc = "next" /\ Channel!Collected
        BY <1>1, SameInvariant
           DEF Rx!StopCollected, Rx!Collected, Channel!Collected
      <3>2. counter = Channel!Limit
        BY <3>1, ChannelAssumed, Channel!CollectedAll
      <3> QED BY <3>2 DEF Channel!Limit, Rx!Limit, Channel!LimitOf, Rx!LimitOf
    <2> QED BY <1>1, <2>1 DEF Rx!StopCollected
  <1>2. CASE ~Rx!StopCollected
    BY <1>2 DEF Rx!Thread, Rx!BeginBuffer, Rx!BeginCrash, Rx!WaitIdle,
       Rx!Finish, Rx!FinishOk, Rx!FinishFault, Rx!Save, Rx!Advance, Rx!End
  <1> QED BY <1>1, <1>2

LEMMA JoiningStep ==
  ASSUME IpInv, [IpNext]_ipvars
  PROVE  Joining'
  <1>0. /\ Joining /\ Rx!RxInv
        /\ num_transfers' = num_transfers
        /\ main \notin {"init", "read", "fill", "start", "wait"} =>
             main' = main
        /\ NumRx(num_transfers)' = NumRx(num_transfers)
    BY TransmitStep, TransmitLeaves DEF IpInv, NumRx, ToInt
  <1>1. CASE Prepare
    BY <1>0, <1>1
       DEF Prepare, Rx!InitChannel, Rx!SetSaveToFile, process, txvars, loop,
           Joining
  <1>2. CASE PrepareTx
    <2>1. /\ main' = "read" /\ i' = i
          /\ UNCHANGED <<stage, exiting, pc, rx_transfers, counter>>
      BY <1>2 DEF PrepareTx, InitChannels, loop, process, rxvars
    <2>2. stage = "init" /\ pc = "ready"
      BY <1>2 DEF PrepareTx
    <2> QED BY <1>0, <2>1, <2>2 DEF Joining, Rx!Limit
  <1>3. CASE StartRx
    BY <1>0, <1>3 DEF StartRx, Rx!Start, Joining, Stages
  <1>4. CASE Exit
    BY <1>0, <1>4 DEF Exit, Joined, Joining, Stages, txvars, Rx!Limit
  <1>5. CASE TransmitLoop
    BY <1>0, <1>5
       DEF TransmitLoop, CrashedIf, rxvars, Joining, Stages, Rx!Limit
  <1>6. CASE Receive
    <2>1. /\ pc' \notin {"new", "inited", "ready"}
          /\ rx_transfers' = rx_transfers
          /\ pc \notin {"new", "inited", "ready"}
          /\ RxFaultStatuses = {} /\ pc' \in {"end", "done"} =>
               counter' = Rx!Limit
      BY <1>0, <1>6, ThreadLeaves DEF Receive, Joining
    <2>2. stage = "loop" /\ stage' \in {"loop", "crashed"}
            /\ exiting' = exiting
      BY <1>6 DEF Receive, CrashedIf
    <2> QED BY <1>0, <2>1, <2>2 DEF Joining, Stages, Rx!Limit
  <1>7. CASE Interrupt
    BY <1>0, <1>7
       DEF Interrupt, txvars, loop, rxvars, Joining, Stages, Joined, Rx!Limit
  <1>8. CASE MoveIn
    <2>1. UNCHANGED <<main, i>>
      BY <1>8, HardwareLeaves DEF MoveIn
    <2> QED BY <1>0, <1>8, <2>1
            DEF MoveIn, process, rxvars, Joining, Joined, Rx!Limit
  <1>9. CASE MoveOut \/ Answer \/ DetectNothing \/ UNCHANGED ipvars
    <2>1. UNCHANGED <<stage, exiting, main, i, pc, rx_transfers, counter>>
      BY <1>9 DEF MoveOut, Answer, DetectNothing, Rx!Deliver, Rx!Offer,
         Rx!thread, process, txvars, loop, rxvars, ipvars
    <2> QED BY <1>0, <2>1 DEF Joining, Joined, Rx!Limit
  <1> QED BY <1>1, <1>2, <1>3, <1>4, <1>5, <1>6, <1>7, <1>8, <1>9
          DEF IpNext, Process

LEMMA AnswersStep ==
  ASSUME IpInv, [IpNext]_ipvars
  PROVE  Answers'
  <1>0. /\ Answers /\ Rx!TypeOK /\ TxShape
        /\ offered \in Nat /\ silent \in Nat /\ Len(frames) \in Nat
        /\ PacksPerBuffer \in Nat /\ Decimation \in Nat
    BY IpAssumption, RxAssumed, IpShape
       DEF IpInv, TxShape, LineType, Rx!RxInv, Rx!TypeOK, Answers
  <1>1. CASE UNCHANGED <<offered, silent, frames>>
    BY <1>0, <1>1 DEF Answers
  <1>2. CASE MoveIn
    <2>1. offered' = offered /\ silent' = silent
      BY <1>2 DEF MoveIn, rxvars
    <2>2. Len(frames') \in Nat /\ Len(frames) <= Len(frames')
      <3>1. CASE Combine
        <4>1. [c \in Channels |-> Head(line[c])] \in [Channels -> Contents]
          BY <1>0, <3>1 DEF Combine, TxShape, LineType
        <4> QED BY <1>0, <3>1, <4>1 DEF Combine, TxShape, LineType
      <3>2. CASE frames' = frames
        BY <1>0, <3>2
      <3> QED BY <1>2, <3>1, <3>2, HardwareLeaves DEF MoveIn, Hardware
    <2> DEFINE f == Len(frames)
               g == Len(frames')
    <2>3. f * PacksPerBuffer <= g * PacksPerBuffer
      <3>1. f \in Nat /\ g \in Nat /\ f <= g
        BY <1>0, <2>2
      <3> HIDE DEF f, g
      <3> QED BY <1>0, <3>1, Product
    <2>4. /\ (offered + silent) * Decimation \in Nat
          /\ f * PacksPerBuffer \in Nat /\ g * PacksPerBuffer \in Nat
      BY <1>0, <2>2
    <2>5. (offered + silent) * Decimation <= g * PacksPerBuffer
      <3>1. (offered + silent) * Decimation <= f * PacksPerBuffer
        BY <1>0 DEF Answers
      <3> HIDE DEF f, g
      <3> QED BY <2>3, <2>4, <3>1
    <2> QED BY <1>0, <2>1, <2>5 DEF Answers
  <1>3. CASE Answer
    <2>1. offered' = offered + 1 /\ silent' = silent /\ frames' = frames
      BY <1>3 DEF Answer, Rx!Offer, txvars, hardware
    <2>2. offered' + silent' = offered + silent + 1
      BY <1>0, <2>1
    <2> QED BY <1>0, <1>3, <2>1, <2>2 DEF Answer, AnswerDue, Answers
  <1>4. CASE DetectNothing
    <2>1. offered' = offered /\ silent' = silent + 1 /\ frames' = frames
      BY <1>4 DEF DetectNothing, txvars, rxvars, hardware
    <2>2. offered' + silent' = offered + silent + 1
      BY <1>0, <2>1
    <2> QED BY <1>0, <1>4, <2>1, <2>2 DEF DetectNothing, AnswerDue, Answers
  <1>5. CASE Receive
    <2>1. offered' = offered
      BY <1>5, ThreadLeaves DEF Receive, IpInv
    <2> QED BY <1>1, <1>5, <2>1 DEF Receive, txvars, hardware
  <1>6. CASE Prepare \/ StartRx \/ Exit
    BY <1>1, <1>6 DEF Prepare, StartRx, Exit, Rx!InitChannel,
       Rx!SetSaveToFile, Rx!Start, txvars, hardware
  <1>7. CASE PrepareTx \/ TransmitLoop
    BY <1>1, <1>7, SoftwareLeaves DEF PrepareTx, TransmitLoop, rxvars
  <1>8. CASE Interrupt \/ MoveOut \/ UNCHANGED ipvars
    BY <1>1, <1>8 DEF Interrupt, MoveOut, Rx!Deliver, txvars, rxvars, ipvars,
       hardware
  <1> QED BY <1>2, <1>3, <1>4, <1>5, <1>6, <1>7, <1>8 DEF IpNext, Process

LEMMA NextIp == IpInv /\ [IpNext]_ipvars => IpInv'
  <1> SUFFICES ASSUME IpInv, [IpNext]_ipvars PROVE IpInv'
    OBVIOUS
  <1>1. ProgressInv'
    BY TransmitStep, NextProgress DEF IpInv
  <1>2. JoinInv' /\ Rx!RxInv'
    BY ReceiveStep, RingStep DEF IpInv
  <1>3. Joining' /\ Answers'
    BY JoiningStep, AnswersStep
  <1> QED BY <1>1, <1>2, <1>3 DEF IpInv

\* The invariant of the whole program: both sides are where their own
\* invariants put them, and neither is ahead of the other.
THEOREM IpInvariance == IpSpec => []IpInv
  BY InitIp, NextIp, PTL DEF IpSpec

\* What the numbers of the two sides have to do with each other.
LEMMA Numbers ==
  ASSUME IpInv, NEW c \in Channels
  PROVE  /\ Len(frames) \in Nat /\ SentOf(c) \in Nat
         /\ Len(frames) <= SentOf(c) /\ SentOf(c) <= num_transfers
         /\ num_transfers \in Nat /\ num_transfers \in Arguments
         /\ offered \in Nat /\ silent \in Nat /\ counter \in Nat
         /\ counter <= offered /\ counter <= Rx!Limit
         /\ Rx!Limit \in Nat \ {0}
         /\ PacksPerBuffer \in Nat \ {0} /\ Decimation \in Nat \ {0}
  <1>1. /\ Len(frames) \in Nat /\ SentOf(c) \in Nat
        /\ Len(frames) <= SentOf(c)
        /\ num_transfers \in Nat /\ num_transfers \in Arguments
    <2>1. Len(frames) \in Nat /\ Len(line[c]) \in Nat
      BY SentTyped, IpShape
    <2>2. SentOf(c) \in Nat /\ Len(frames) <= SentOf(c)
      BY <2>1 DEF SentOf
    <2>3. num_transfers \in Arguments
      BY IpShape DEF Bounds
    <2> QED BY <2>1, <2>2, <2>3, TxAssumption
  <1>2. SentOf(c) <= num_transfers
    <2>1. /\ Len(tx_order[c]) \in Nat
          /\ SentOf(c) + Len(tx_order[c]) <= num_transfers
      BY SentTyped, IpShape DEF ProgressInv, Progress
    <2> QED BY <1>1, <2>1
  <1>3. Rx!Limit \in Nat \ {0}
    <2>1. rx_transfers \in Int /\ RxBufferCount \in Nat \ {0}
      BY RxAssumed DEF IpInv, Rx!RxInv, Rx!TypeOK
    <2> QED BY <2>1 DEF Rx!Limit, Rx!LimitOf
  <1>4. /\ offered \in Nat /\ counter \in Nat /\ silent \in Nat
        /\ counter <= offered /\ counter <= Rx!Limit
    <2>1. /\ offered \in Nat /\ counter \in Nat /\ arrived \in Nat
          /\ in_progress_count \in Nat /\ silent \in Nat
      BY RxAssumed DEF IpInv, Rx!RxInv, Rx!TypeOK, Answers
    <2>2. counter <= Rx!Taken
      BY <2>1 DEF Rx!Taken, Rx!Uncounted
    <2>3. /\ Rx!Taken <= arrived /\ arrived <= offered
          /\ counter + in_progress_count <= Rx!Limit
      BY DEF IpInv, Rx!RxInv, Rx!Accounts
    <2>4. Rx!Taken \in Nat
      BY <2>1 DEF Rx!Taken, Rx!Uncounted
    <2> QED BY <1>3, <2>1, <2>2, <2>3, <2>4
  <1> QED BY <1>1, <1>2, <1>3, <1>4, IpAssumption

\* Each answer needs its packets.
LEMMA AnswersPaid ==
  ASSUME IpInv, NEW c \in Channels, NEW n \in Nat, n <= offered + silent
  PROVE  /\ n * Decimation <= SentOf(c) * PacksPerBuffer
         /\ n * Decimation <= num_transfers * PacksPerBuffer
  <1> DEFINE a == offered + silent
             f == Len(frames)
             s == SentOf(c)
  <1>1. /\ a \in Nat /\ f \in Nat /\ s \in Nat /\ num_transfers \in Nat
        /\ f <= s /\ s <= num_transfers
        /\ PacksPerBuffer \in Nat /\ Decimation \in Nat
    BY Numbers
  <1>2. a * Decimation <= f * PacksPerBuffer
    BY DEF IpInv, Answers
  <1> HIDE DEF a, f, s
  <1>3. n <= a
    BY DEF a
  <1>4. /\ n * Decimation \in Nat /\ a * Decimation \in Nat
        /\ n * Decimation <= a * Decimation
    BY <1>1, <1>3, Product
  <1>5. /\ f * PacksPerBuffer \in Nat /\ s * PacksPerBuffer \in Nat
        /\ num_transfers * PacksPerBuffer \in Nat
        /\ f * PacksPerBuffer <= s * PacksPerBuffer
        /\ s * PacksPerBuffer <= num_transfers * PacksPerBuffer
    BY <1>1, Product
  <1>6. /\ n * Decimation <= s * PacksPerBuffer
        /\ n * Decimation <= num_transfers * PacksPerBuffer
    BY <1>2, <1>4, <1>5
  <1> QED BY <1>6 DEF s

LEMMA IpTyped == IpInv => IpTypeOK
  <1> SUFFICES ASSUME IpInv PROVE IpTypeOK
    OBVIOUS
  <1>1. PICK c \in Channels : TRUE
    BY ChannelsOrdered
  <1> DEFINE w == num_transfers * PacksPerBuffer
  <1>2. silent \in 0 .. w
    <2>1. /\ silent \in Nat /\ offered \in Nat /\ silent <= offered + silent
          /\ num_transfers \in Nat /\ PacksPerBuffer \in Nat
          /\ Decimation \in Nat \ {0}
      BY Numbers
    <2>2. silent * Decimation <= w
      BY <2>1, AnswersPaid
    <2>3. silent <= silent * Decimation
      <3>1. 1 * silent <= Decimation * silent
        BY <2>1, Product
      <3> QED BY <2>1, <3>1
    <2>4. w \in Nat /\ silent * Decimation \in Nat
      BY <2>1
    <2> HIDE DEF w
    <2> QED BY <2>1, <2>2, <2>3, <2>4
  <1> QED BY <1>2, WellTyped DEF IpInv, Joining, Rx!RxInv, IpTypeOK

\* Every part of the program keeps its types, and the processor is never ahead
\* of what it was sent.
THEOREM ProgramTyped == IpSpec => []IpTypeOK
  BY IpInvariance, IpTyped, PTL

\* The products fit into uint32_t, and the number of answers into int.
NumbersFit ==
  \A n \in Arguments : /\ n * PacksPerBuffer < Word
                       /\ (n * PacksPerBuffer) \div Decimation < Word \div 2

LEMMA Fitting ==
  ASSUME NumbersFit, NEW n \in Arguments
  PROVE  NumRx(n) = (n * PacksPerBuffer) \div Decimation
  <1> DEFINE p == n * PacksPerBuffer
  <1>1. p \in Nat /\ p < Word /\ p \div Decimation < Word \div 2
    BY TxAssumption, IpAssumption DEF NumbersFit
  <1> HIDE DEF p
  <1>2. p % Word = p
    BY <1>1, IpAssumption
  <1> QED BY <1>1, <1>2 DEF NumRx, ToInt, p

\* A program that ends by itself although nothing fails has sent every window
\* and recorded every answer: num_rx_transfer (main.cpp:143) is what the
\* processor owes, as long as the numbers fit into their types.
THEOREM ProgramLosesNothing ==
  FaultStatuses = {} /\ RxFaultStatuses = {} /\ NumbersFit /\ IpSpec
    => []NothingLost
  <1>0. SUFFICES ASSUME FaultStatuses = {}, RxFaultStatuses = {}, NumbersFit
                 PROVE  IpSpec => []NothingLost
    OBVIOUS
  <1>1. ASSUME IpInv, stage = "exited" PROVE NothingLost
    <2>1. main = "finish" /\ pc = "done"
      BY <1>0, <1>1 DEF IpInv, Joining, Joined
    <2>2. \A c \in Channels : SentOf(c) = num_transfers
      BY <1>0, <1>1, <2>1, AllSent DEF IpInv
    <2>3. PICK c \in Channels : TRUE
      BY ChannelsOrdered
    <2> DEFINE p == num_transfers * PacksPerBuffer
               q == p \div Decimation
    <2>4. counter = Rx!Limit /\ rx_transfers = q
      <3>1. rx_transfers = NumRx(num_transfers)
        BY <1>0, <1>1, <2>1 DEF IpInv, Joining
      <3>2. NumRx(num_transfers) = q
        BY <1>0, <1>1, Fitting DEF IpInv, JoinInv
      <3> QED BY <1>0, <1>1, <2>1, <3>1, <3>2 DEF IpInv, Joining
    <2>5. /\ num_transfers \in Nat /\ PacksPerBuffer \in Nat
          /\ Decimation \in Nat \ {0}
          /\ counter \in Nat \ {0} /\ counter <= offered
          /\ offered \in Nat /\ silent \in Nat /\ Len(frames) \in Nat
          /\ Len(frames) <= num_transfers
      BY <1>0, <1>1, <2>2, <2>4, Numbers
    <2>6. p \in Nat /\ q \in Nat /\ p < (q + 1) * Decimation
      <3>1. p \in Nat
        BY <2>5
      <3> HIDE DEF p
      <3> QED BY <2>5, <3>1, Quotient
    <2>7. counter = q
      <3>1. counter * Decimation <= p
        BY <1>0, <1>1, <2>5, AnswersPaid
      <3>2. counter = IF q = 0 THEN RxBufferCount ELSE q
        BY <2>4, <2>6 DEF Rx!Limit, Rx!LimitOf
      <3>3. q # 0
        <4> SUFFICES ASSUME q = 0 PROVE FALSE
          OBVIOUS
        <4>1. p < Decimation
          BY <2>5, <2>6
        <4>2. 1 * Decimation <= counter * Decimation
          BY <2>5, Product
        <4>3. counter * Decimation \in Nat
          BY <2>5
        <4> HIDE DEF p, q
        <4> QED BY <2>5, <2>6, <3>1, <4>1, <4>2, <4>3
      <3> QED BY <3>2, <3>3
    <2>8. ~AnswerDue
      <3> DEFINE o == offered + silent + 1
                 f == Len(frames)
      <3>1. f * PacksPerBuffer <= p /\ f * PacksPerBuffer \in Nat
        BY <2>5, Product
      <3>2. (q + 1) * Decimation <= o * Decimation
        <4>1. q + 1 <= o /\ o \in Nat /\ q + 1 \in Nat /\ Decimation \in Nat
          BY <2>5, <2>6, <2>7
        <4> HIDE DEF o, q
        <4> QED BY <4>1, Product
      <3>3. (q + 1) * Decimation \in Nat /\ o * Decimation \in Nat
        BY <2>5, <2>6
      <3>4. ~(o * Decimation <= f * PacksPerBuffer)
        <4> HIDE DEF o, q, f, p
        <4> QED BY <2>6, <3>1, <3>2, <3>3
      <3> QED BY <3>4 DEF AnswerDue
    <2>9. dump_file => Len(dump) = counter
      BY <1>0, <1>1, <2>5 DEF IpInv, Rx!RxInv, Rx!DumpInOrder
    <2>10. counter = NumRx(num_transfers)
      BY <1>0, <1>1, <2>7, Fitting DEF IpInv, JoinInv
    <2> QED BY <2>2, <2>8, <2>9, <2>10 DEF NothingLost
  <1>2. IpInv => NothingLost
    BY <1>1 DEF NothingLost
  <1> QED BY <1>2, IpInvariance, PTL

-----------------------------------------------------------------------------
(* What the program promises.                                              *)

\* A set of numbers has a least element.
LEMMA LeastNumber ==
  ASSUME NEW S \in SUBSET Nat, S # {}
  PROVE  \E m \in S : \A n \in S : m <= n
  <1>1. PICK m \in S : \A n \in S : <<n, m>> \notin OpToRel(<, Nat)
    BY WFMin, NatLessThanWellFounded, Zenon
  <1>2. \A n \in S : ~(n < m)
    BY <1>1, Zenon DEF OpToRel
  <1> QED BY <1>2

Least ==
  /\ WholeWindows \in Nat
  /\ \E c \in Channels : WholeWindows = SentOf(c)
  /\ \A c \in Channels : WholeWindows <= SentOf(c)

LEMMA LeastSent == TxShape => Least
  <1> SUFFICES ASSUME TxShape PROVE Least
    OBVIOUS
  <1> DEFINE S == {SentOf(c) : c \in Channels}
  <1>1. S \in SUBSET Nat /\ S # {}
    BY SentTyped, ChannelsOrdered
  <1>2. PICK m \in S : \A n \in S : m <= n
    BY <1>1, LeastNumber
  <1>3. WholeWindows \in S /\ \A c \in Channels : WholeWindows <= SentOf(c)
    BY <1>2 DEF WholeWindows
  <1> QED BY <1>1, <1>3 DEF Least

\* Where no channel sends, no window becomes whole; where one channel sends one
\* window, at most one does.
LEMMA WholeKept ==
  ASSUME \A c \in Channels : SentOf(c)' = SentOf(c)
  PROVE  WholeWindows' = WholeWindows
  BY DEF WholeWindows

LEMMA WholeGrows ==
  ASSUME TxShape, TxShape', NEW d \in Channels, SentOf(d)' = SentOf(d) + 1,
         \A c \in Channels : c # d => SentOf(c)' = SentOf(c)
  PROVE  WholeWindows' \in {WholeWindows, WholeWindows + 1}
  <1>1. Least /\ Least'
    BY LeastSent, PTL
  <1>2. \A c \in Channels : SentOf(c) \in Nat
    BY SentTyped
  <1> HIDE DEF WholeWindows, SentOf
  <1> QED BY <1>1, <1>2 DEF Least

\* The signal processor combines what is sent already; an engine sends one
\* window.
LEMMA CombineSends ==
  ASSUME IpInv, Combine
  PROVE  /\ Len(frames') = Len(frames) + 1
         /\ \A c \in Channels : SentOf(c)' = SentOf(c)
  <1>1. TxShape /\ \A c \in Channels : /\ Len(line[c]) \in Nat
                                       /\ Len(frames) \in Nat
    BY SentTyped, IpShape
  <1>2. Len(frames') = Len(frames) + 1
    <2>1. [d \in Channels |-> Head(line[d])] \in [Channels -> Contents]
      BY <1>1 DEF Combine, TxShape, LineType
    <2> QED BY <1>1, <2>1 DEF Combine, TxShape, LineType
  <1>3. ASSUME NEW c \in Channels PROVE SentOf(c)' = SentOf(c)
    <2> DEFINE l == Len(line[c])
               f == Len(frames)
    <2>1. Len(line'[c]) = l - 1
      BY <1>1 DEF Combine, TxShape, LineType
    <2>2. l \in Nat /\ f \in Nat
      BY <1>1
    <2>3. Len(frames') + Len(line'[c]) = f + l
      <3>1. Len(frames') = f + 1
        BY <1>2
      <3> HIDE DEF l, f
      <3> QED BY <2>1, <2>2, <3>1
    <2> QED BY <2>3 DEF SentOf
  <1> QED BY <1>2, <1>3

LEMMA SendSends ==
  ASSUME IpInv, NEW d \in Channels, Send(d)
  PROVE  /\ stage # "init"
         /\ SentOf(d)' = SentOf(d) + 1
         /\ \A c \in Channels : c # d => SentOf(c)' = SentOf(c)
  <1>1. TxShape /\ \A c \in Channels : /\ Len(line[c]) \in Nat
                                       /\ Len(frames) \in Nat
    BY SentTyped, IpShape
  <1>2. Len(tx_order[d]) \in Nat \ {0} /\ WithNext(d) \in Contents
    BY <1>1, NextTyped DEF Send, TxShape
  <1>3. line'[d] = Append(line[d], WithNext(d))
          /\ frames' = frames
          /\ \A c \in Channels : c # d => line'[c] = line[c]
    BY <1>1 DEF Send, TxShape, LineType
  <1>4. Len(line'[d]) = Len(line[d]) + 1
    BY <1>1, <1>2, <1>3 DEF TxShape, LineType
  <1>5. stage # "init"
    <2>1. /\ SentOf(d) \in Nat
          /\ main # "crashed" => SentOf(d) + Len(tx_order[d]) <= Started(d)
      BY <1>1, SentTyped, IpShape DEF ProgressInv, Progress
    <2>2. stage = "init" => main # "crashed" /\ Started(d) = 0
      BY DEF IpInv, Joining, Started
    <2> QED BY <1>2, <2>1, <2>2
  <1>6. SentOf(d)' = SentOf(d) + 1
    <2> DEFINE f == Len(frames)
               l == Len(line[d])
    <2>1. f \in Nat /\ l \in Nat
      BY <1>1
    <2>2. Len(frames') + Len(line'[d]) = f + (l + 1)
      BY <1>3, <1>4
    <2>3. f + (l + 1) = (f + l) + 1
      BY <2>1
    <2> QED BY <2>2, <2>3 DEF SentOf
  <1> QED BY <1>3, <1>5, <1>6 DEF SentOf

LEMMA HardwareSends ==
  ASSUME IpInv, Hardware
  PROVE  \/ \A c \in Channels : SentOf(c)' = SentOf(c)
         \/ /\ stage # "init"
            /\ \E d \in Channels :
                 /\ SentOf(d)' = SentOf(d) + 1
                 /\ \A c \in Channels : c # d => SentOf(c)' = SentOf(c)
  <1>1. ASSUME NEW d \in Channels, Fetch(d)
        PROVE  \A c \in Channels : SentOf(c)' = SentOf(c)
    BY <1>1 DEF Fetch, SentOf
  <1> QED BY <1>1, CombineSends, SendSends DEF Hardware, Engine

\* Every other step sends nothing.
LEMMA SoftwareSends ==
  ASSUME [IpNext]_ipvars, ~MoveIn
  PROVE  \A c \in Channels : SentOf(c)' = SentOf(c)
  <1>1. UNCHANGED <<line, frames>>
    <2>1. CASE PrepareTx \/ TransmitLoop
      BY <2>1, SoftwareLeaves DEF PrepareTx, TransmitLoop
    <2>2. CASE ~(PrepareTx \/ TransmitLoop)
      BY <2>2 DEF IpNext, Process, Prepare, StartRx, Exit, Receive, Interrupt,
         MoveOut, Answer, DetectNothing, ipvars, txvars, hardware
    <2> QED BY <2>1, <2>2
  <1> QED BY <1>1 DEF SentOf

\* The thread records an answer or none.
LEMMA ThreadRecords ==
  ASSUME IpInv, Receive, WholeWindows' = WholeWindows
  PROVE  [Run!Next]_(Run!vars)
  <1>1. /\ stage = "loop"
        /\ stage' = IF pc' = "crashed" THEN "crashed" ELSE stage
        /\ Ordered' = Ordered
    BY DEF Receive, CrashedIf, Ordered, txvars, loop, Rx!LimitOf, NumRx, ToInt
  <1>2. CASE Rx!Save
    <2>1. pc = "save" /\ pc' = "next" /\ counter' = counter + 1
      BY <1>2 DEF Rx!Save, Rx!Count
    <2>2. counter < Ordered.record
      <3>1. counter + in_progress_count <= Rx!Limit /\ in_progress_count > 0
        BY <2>1, RxAssumed
           DEF IpInv, Rx!RxInv, Rx!TypeOK, Rx!Accounts, Rx!Outstanding,
               Rx!Uncounted
      <3>2. counter \in Nat /\ in_progress_count \in Nat /\ Rx!Limit \in Nat
        BY Numbers, ChannelsOrdered, RxAssumed
           DEF IpInv, Rx!RxInv, Rx!TypeOK
      <3>3. Rx!Limit = Ordered.record
        BY <2>1 DEF IpInv, Joining, Rx!Limit, Ordered
      <3> QED BY <3>1, <3>2, <3>3
    <2>3. (counter + 1) * Decimation <= WholeWindows * PacksPerBuffer
      <3>1. PICK c \in Channels : WholeWindows = SentOf(c)
        BY LeastSent, IpShape DEF Least
      <3>2. counter + 1 \in Nat /\ counter + 1 <= offered + silent
        <4>1. counter + 1 <= arrived /\ arrived <= offered
          BY <2>1 DEF IpInv, Rx!RxInv, Rx!Accounts, Rx!Taken, Rx!Uncounted
        <4>2. /\ counter \in Nat /\ arrived \in Nat /\ offered \in Nat
              /\ silent \in Nat
          BY Numbers, ChannelsOrdered DEF IpInv, Rx!RxInv, Rx!TypeOK
        <4> QED BY <4>1, <4>2
      <3> QED BY <3>1, <3>2, AnswersPaid
    <2>4. Phase = "running" /\ Phase' = "running"
      BY <1>1, <2>1 DEF Phase
    <2> QED BY <1>1, <2>1, <2>2, <2>3, <2>4 DEF Run!Next, Run!Record
  <1>3. CASE ~Rx!Save
    <2>1. counter' = counter
      BY <1>3 DEF Receive, Rx!Thread, Rx!BeginBuffer, Rx!BeginCrash,
         Rx!WaitIdle, Rx!Finish, Rx!FinishOk, Rx!FinishFault,
         Rx!StopCollected, Rx!Advance, Rx!End
    <2>2. Phase = "running" /\ Phase' \in {"running", "broken"}
      BY <1>1 DEF Phase
    <2> QED BY <1>1, <2>1, <2>2 DEF Run!Next, Run!Break, Run!vars
  <1> QED BY <1>2, <1>3

\* The end of the program is the end of the measurement.
LEMMA ExitFinishes ==
  ASSUME IpInv, Exit, WholeWindows' = WholeWindows
  PROVE  Run!Finish
  <1>1. /\ Phase = "running" /\ Phase' = "finished"
        /\ Ordered' = Ordered /\ counter' = counter
        /\ main = "finish" /\ pc = "done"
    BY DEF Exit, Joined, Phase, Ordered, txvars, loop, Rx!LimitOf, NumRx,
       ToInt
  <1>2. ASSUME FaultStatuses = {}, RxFaultStatuses = {}
        PROVE  WholeWindows = Ordered.send /\ counter = Ordered.record
    <2>1. \A c \in Channels : SentOf(c) = num_transfers
      BY <1>1, <1>2, AllSent DEF IpInv
    <2>2. WholeWindows = num_transfers
      BY <2>1, LeastSent, IpShape DEF Least
    <2>3. counter = Rx!Limit /\ rx_transfers = NumRx(num_transfers)
      BY <1>1, <1>2 DEF IpInv, Joining
    <2> QED BY <2>2, <2>3 DEF Ordered, Rx!Limit
  <1> QED BY <1>1, <1>2 DEF Run!Finish

SentWithin == \A c \in Channels : SentOf(c) <= num_transfers

LEMMA SentFew == IpInv => SentWithin
  BY Numbers DEF SentWithin

LEMMA MeasurementStep ==
  ASSUME IpInv, IpInv', [IpNext]_ipvars
  PROVE  [Run!Next]_(Run!vars)
  <1>1. CASE MoveIn
    <2>1. /\ Phase' = Phase /\ Ordered' = Ordered /\ counter' = counter
          /\ stage = "init" <=> Phase = "preparing"
      <3>1. UNCHANGED <<num_transfers, stage, counter>>
        BY <1>1, TransmitStep, TransmitLeaves DEF MoveIn, process, rxvars
      <3> QED BY <3>1 DEF Phase, Ordered, Rx!LimitOf, NumRx, ToInt
    <2>2. CASE \A c \in Channels : SentOf(c)' = SentOf(c)
      BY <2>1, <2>2, WholeKept DEF Run!vars
    <2>3. CASE ~\A c \in Channels : SentOf(c)' = SentOf(c)
      <3>1. PICK d \in Channels :
              /\ SentOf(d)' = SentOf(d) + 1
              /\ \A c \in Channels : c # d => SentOf(c)' = SentOf(c)
        BY <1>1, <2>3, HardwareSends DEF MoveIn
      <3>2. Phase # "preparing"
        BY <1>1, <2>1, <2>3, HardwareSends DEF MoveIn
      <3>3. WholeWindows' \in {WholeWindows, WholeWindows + 1}
        <4>1. TxShape /\ TxShape'
          BY HasShape, PTL
        <4> QED BY <3>1, <4>1, WholeGrows
      <3>4. WholeWindows' <= Ordered.send /\ WholeWindows \in Nat
              /\ WholeWindows' \in Nat /\ Ordered.send \in Nat
        <4>1. WholeWindows \in Nat
          BY LeastSent, IpShape DEF Least
        <4>2. Least'
          BY LeastSent, HasShape, PTL
        <4>3. SentWithin'
          BY SentFew, PTL
        <4>4. num_transfers' = num_transfers /\ num_transfers \in Nat
          BY TransmitStep, TransmitLeaves, TxAssumption DEF IpInv, JoinInv
        <4> QED BY <4>1, <4>2, <4>3, <4>4 DEF Ordered, Least, SentWithin
      <3>5. CASE WholeWindows' = WholeWindows
        BY <2>1, <3>5 DEF Run!vars
      <3>6. CASE WholeWindows' = WholeWindows + 1
        BY <2>1, <3>2, <3>4, <3>6 DEF Run!Next, Run!Send
      <3> QED BY <3>3, <3>5, <3>6
    <2> QED BY <2>2, <2>3
  <1>2. CASE ~MoveIn
    <2>1. WholeWindows' = WholeWindows
      BY <1>2, SoftwareSends, WholeKept
    <2>2. Ordered' = Ordered
      BY TransmitStep, TransmitLeaves DEF Ordered, Rx!LimitOf, NumRx, ToInt
    <2>3. CASE Prepare \/ PrepareTx
      <3>1. stage' = stage /\ counter' = counter
        BY <2>3 DEF Prepare, PrepareTx, Rx!InitChannel, Rx!SetSaveToFile,
           process, rxvars
      <3> QED BY <2>1, <2>2, <3>1 DEF Phase, Run!vars
    <2>4. CASE StartRx
      <3>1. Phase = "preparing" /\ Phase' = "running" /\ counter' = counter
        BY <2>4 DEF StartRx, Rx!Start, Phase
      <3> QED BY <2>1, <2>2, <3>1 DEF Run!Next, Run!Start
    <2>5. CASE Exit
      BY <2>1, <2>5, ExitFinishes DEF Run!Next
    <2>6. CASE TransmitLoop
      <3>1. /\ Phase = "running" /\ Phase' \in {"running", "broken"}
            /\ counter' = counter
        BY <2>6 DEF TransmitLoop, CrashedIf, rxvars, Phase
      <3> QED BY <2>1, <2>2, <3>1 DEF Run!Next, Run!Break, Run!vars
    <2>7. CASE Receive
      BY <2>1, <2>7, ThreadRecords
    <2>8. CASE Interrupt
      <3>1. /\ Phase \in {"preparing", "running"}
            /\ Phase' \in {Phase, "broken"} /\ counter' = counter
        BY <2>8 DEF Interrupt, rxvars, Phase
      <3> QED BY <2>1, <2>2, <3>1 DEF Run!Next, Run!Break, Run!vars
    <2>9. CASE MoveOut \/ Answer \/ DetectNothing \/ UNCHANGED ipvars
      <3>1. UNCHANGED <<stage, counter>>
        BY <2>9 DEF MoveOut, Answer, DetectNothing, Rx!Deliver, Rx!Offer,
           Rx!thread, process, rxvars, ipvars
      <3> QED BY <2>1, <2>2, <3>1 DEF Phase, Run!vars
    <2> QED BY <1>2, <2>3, <2>4, <2>5, <2>6, <2>7, <2>8, <2>9
            DEF IpNext, Process
  <1> QED BY <1>1, <1>2

\* Whatever fails, the program does what a measurement promises: no window too
\* many, no answer before its windows, and no finish before everything is sent
\* and recorded unless something failed.
THEOREM Measures == IpSpec => MeasurementSpec
  <1>1. IpInit => Run!Init
    <2> SUFFICES ASSUME IpInit PROVE Run!Init
      OBVIOUS
    <2>1. \A c \in Channels : SentOf(c) = 0
      BY DEF IpInit, TxInit, SentOf
    <2>2. WholeWindows = 0
      BY <2>1, InitProgress, LeastSent
         DEF IpInit, ProgressInv, ShapeInv, Least
    <2>3. Ordered \in Orders
      BY DEF IpInit, TxInit, Ordered, Orders
    <2> QED BY <2>2, <2>3 DEF IpInit, Rx!Init, Phase, Run!Init
  <1>2. IpInv /\ IpInv' /\ [IpNext]_ipvars => [Run!Next]_(Run!vars)
    BY MeasurementStep
  <1> QED BY <1>1, <1>2, IpInvariance, PTL
          DEF IpSpec, MeasurementSpec, Run!Spec

-----------------------------------------------------------------------------
(* Why the program ends.                                                   *)

\* A channel counts at most one transfer in each pass of the loop.
Passing ==
  main # "crashed" =>
    \A c \in Channels :
      tx_counter[c] <= i + (IF main = "wait" /\ c > k THEN 1 ELSE 0)

\* A loop is entered with something left to do, the crash of either side is the
\* end of the process, and answers are missing only if nothing was detected.
LiveInv ==
  /\ Passing
  /\ stage = "loop" => main \notin {"init", "crashed"} /\ pc # "crashed"
  /\ pc \in {"begin", "wait", "save"} /\ rx_transfers # 0 =>
       counter < Rx!Limit
  /\ ~MayDetectNothing => silent = 0

LEMMA ThreadLeft ==
  ASSUME IpInv, LiveInv, Rx!Thread
  PROVE  pc' \in {"begin", "wait", "save"} /\ rx_transfers' # 0 =>
           counter' < Rx!Limit'
  <1>1. /\ rx_transfers \in Int /\ counter \in Nat
        /\ rx_transfers' = rx_transfers /\ Rx!Limit' = Rx!Limit
    <2>1. rx_transfers \in Int /\ counter \in Nat
      BY RxAssumed DEF IpInv, Rx!RxInv, Rx!TypeOK
    <2>2. rx_transfers' = rx_transfers
      BY ThreadLeaves DEF IpInv
    <2> QED BY <2>1, <2>2 DEF Rx!Limit
  <1>2. CASE Rx!Advance
    <2>1. counter' = counter
      BY <1>2 DEF Rx!Advance
    <2>2. rx_transfers # 0 => counter < rx_transfers
      BY <1>1, <1>2 DEF Rx!Advance, Rx!Collected
    <2>3. rx_transfers # 0 => counter < Rx!Limit
      BY <1>1, <2>2 DEF Rx!Limit, Rx!LimitOf
    <2> QED BY <1>1, <2>1, <2>3
  <1>3. CASE Rx!BeginBuffer
    BY <1>1, <1>3 DEF Rx!BeginBuffer, LiveInv
  <1>4. CASE Rx!FinishOk
    BY <1>1, <1>4 DEF Rx!FinishOk, LiveInv
  <1> QED BY <1>1, <1>2, <1>3, <1>4
          DEF Rx!Thread, Rx!BeginCrash, Rx!WaitIdle, Rx!Finish,
              Rx!FinishFault, Rx!Save, Rx!StopCollected, Rx!End

LEMMA PassingStep ==
  ASSUME LoopInv, Passing, [TxNext]_txvars
  PROVE  Passing'
  <1>1. /\ i \in Nat /\ k \in Channels /\ tx_counter \in [Channels -> Nat]
        /\ \A c \in Channels : tx_counter[c] \in Nat
    BY DEF LoopInv
  <1>2. CASE WaitOk \/ \E s \in FaultStatuses : WaitFault(s)
    <2>1. /\ main = "wait" /\ Waited
          /\ \/ tx_counter' = tx_counter
             \/ tx_counter' = [tx_counter EXCEPT ![k] = @ + 1]
      BY <1>2 DEF WaitOk, WaitFault
    <2>2. \A c \in Channels :
            tx_counter'[c] <= i + (IF c >= k THEN 1 ELSE 0)
      BY <1>1, <2>1, ChannelsOrdered DEF Passing
    <2>3. CASE k = 1
      BY <1>1, <2>1, <2>2, <2>3, ChannelsOrdered
         DEF Waited, NextChannel, Passing
    <2>4. CASE k # 1
      BY <1>1, <2>1, <2>2, <2>4, ChannelsOrdered
         DEF Waited, NextChannel, Passing
    <2> QED BY <2>3, <2>4
  <1>3. CASE StartTransfer
    <2>1. main = "start" /\ UNCHANGED <<i, tx_counter>> /\ NextChannel("wait")
      BY <1>3 DEF StartTransfer
    <2>2. \A c \in Channels : c <= NumChannels
      BY ChannelsOrdered
    <2> QED BY <1>1, <2>1, <2>2, ChannelsOrdered DEF NextChannel, Passing
  <1>4. CASE ReadFile
    BY <1>1, <1>4, ReadSteps DEF Passing
  <1>5. CASE InitChannels \/ ReadCrash \/ WaitCrash \/ LoopEnd
    BY <1>1, <1>5
       DEF InitChannels, ReadCrash, ReadBegins, WaitCrash, LoopEnd, loop,
           channels, Passing
  <1>6. CASE Hardware \/ UNCHANGED txvars
    BY <1>1, <1>6, HardwareLeaves DEF txvars, loop, channels, Passing
  <1> QED BY <1>2, <1>3, <1>4, <1>5, <1>6 DEF TxNext, MainLoop

LEMMA InitLive == IpInit => LiveInv
  BY DEF IpInit, TxInit, Rx!Init, Passing, LiveInv

LEMMA NextLive == IpInv /\ LiveInv /\ [IpNext]_ipvars => LiveInv'
  <1> SUFFICES ASSUME IpInv, LiveInv, [IpNext]_ipvars PROVE LiveInv'
    OBVIOUS
  <1>0. Passing'
    BY TransmitStep, PassingStep, IpShape DEF LiveInv
  <1>1. CASE Prepare
    <2>1. pc' \in {"inited", "ready"} /\ stage' = "init" /\ silent' = silent
      BY <1>1 DEF Prepare, Rx!InitChannel, Rx!SetSaveToFile, process
    <2> QED BY <1>0, <2>1 DEF LiveInv
  <1>2. CASE PrepareTx
    <2>1. pc' = "ready" /\ stage' = "init" /\ silent' = silent
      BY <1>2 DEF PrepareTx, process, rxvars
    <2> QED BY <1>0, <2>1 DEF LiveInv
  <1>3. CASE StartRx
    <2>1. /\ pc' = "begin" /\ main' = "read" /\ silent' = silent
          /\ counter' = counter /\ counter = 0
          /\ Rx!Limit' = Rx!Limit
      BY <1>3 DEF StartRx, Rx!Start, txvars, IpInv, Rx!RxInv, Rx!Beginning,
         Rx!Limit
    <2>2. Rx!Limit \in Nat \ {0}
      BY Numbers, ChannelsOrdered
    <2> QED BY <1>0, <2>1, <2>2 DEF LiveInv
  <1>4. CASE Exit
    BY <1>0, <1>4 DEF Exit, LiveInv, Rx!Limit, Joined
  <1>5. CASE TransmitLoop
    <2>1. main' # "init"
      BY <1>5, SoftwareLeaves DEF TransmitLoop
    <2> QED BY <1>0, <1>5, <2>1
            DEF TransmitLoop, CrashedIf, rxvars, LiveInv, Rx!Limit
  <1>6. CASE Receive
    <2>1. UNCHANGED <<main, silent>>
      BY <1>6 DEF Receive, txvars
    <2>2. pc' # "crashed" \/ stage' # "loop"
      BY <1>6 DEF Receive, CrashedIf
    <2> QED BY <1>0, <1>6, <2>1, <2>2, ThreadLeft DEF Receive, LiveInv
  <1>7. CASE Interrupt
    BY <1>0, <1>7 DEF Interrupt, LiveInv, txvars, rxvars, Rx!Limit
  <1>8. CASE MoveIn
    <2>1. main' = main
      BY <1>8, HardwareLeaves DEF MoveIn
    <2> QED BY <1>0, <1>8, <2>1 DEF MoveIn, process, rxvars, LiveInv, Rx!Limit
  <1>9. CASE MoveOut \/ Answer \/ UNCHANGED ipvars
    BY <1>0, <1>9 DEF MoveOut, Answer, Rx!Deliver, Rx!Offer, Rx!thread,
       process, txvars, rxvars, ipvars, LiveInv, Rx!Limit
  <1>10. CASE DetectNothing
    BY <1>0, <1>10 DEF DetectNothing, process, txvars, rxvars, LiveInv,
       Rx!Limit
  <1> QED BY <1>1, <1>2, <1>3, <1>4, <1>5, <1>6, <1>7, <1>8, <1>9, <1>10
          DEF IpNext, Process

LEMMA LiveInvariance == IpSpec => []LiveInv
  BY IpInvariance, InitLive, NextLive, PTL DEF IpSpec

\* The thread never waits for nothing: without a number of answers it would
\* wait for RxBufferCount of them, but then not even one is due.
LEMMA NeverIdle ==
  ASSUME NumbersFit, IpInv, LiveInv, pc = "wait"
  PROVE  in_progress_count > 0 /\ counter < Rx!Limit
  <1>1. /\ counter \in Nat /\ in_progress_count \in Nat
        /\ rx_transfers \in Int /\ RxBufferCount \in Nat \ {0}
        /\ Rx!Limit \in Nat \ {0} /\ counter <= offered
        /\ offered \in Nat /\ silent \in Nat
        /\ PacksPerBuffer \in Nat \ {0} /\ Decimation \in Nat \ {0}
        /\ num_transfers \in Nat /\ num_transfers \in Arguments
    BY Numbers, ChannelsOrdered, RxAssumed DEF IpInv, Rx!RxInv, Rx!TypeOK
  <1>2. \/ counter + in_progress_count = Rx!Limit
        \/ in_progress_count = RxBufferCount
    BY <1>1 DEF IpInv, Rx!RxInv, Rx!Running
  <1>3. counter + in_progress_count <= Rx!Limit
    BY DEF IpInv, Rx!RxInv, Rx!Accounts
  <1>4. counter < Rx!Limit
    <2>1. CASE rx_transfers # 0
      BY <2>1 DEF LiveInv
    <2>2. CASE rx_transfers = 0
      <3> DEFINE p == num_transfers * PacksPerBuffer
      <3>1. p \div Decimation = 0
        BY <1>1, <2>2, Fitting DEF IpInv, Joining
      <3>2. p \in Nat /\ p < Decimation
        <4>1. p \in Nat
          BY <1>1
        <4>2. p < (p \div Decimation + 1) * Decimation
          <5> HIDE DEF p
          <5> QED BY <1>1, <4>1, Quotient
        <4> HIDE DEF p
        <4> QED BY <1>1, <3>1, <4>1, <4>2
      <3>3. counter * Decimation <= p
        BY <1>1, ChannelsOrdered, AnswersPaid
      <3>4. counter = 0
        <4> SUFFICES ASSUME counter # 0 PROVE FALSE
          OBVIOUS
        <4>1. 1 * Decimation <= counter * Decimation
          BY <1>1, Product
        <4>2. counter * Decimation \in Nat
          BY <1>1
        <4> HIDE DEF p
        <4> QED BY <1>1, <3>2, <3>3, <4>1, <4>2
      <3> QED BY <1>1, <3>4
    <2> QED BY <2>1, <2>2
  <1> QED BY <1>1, <1>2, <1>3, <1>4

\* No call fails and no answer is missing; and at least one is owed, since the
\* thread waits for one even if none is.
NothingFails ==
  /\ NoFaults
  /\ RxFaultStatuses = {}
  /\ ~MayDetectNothing
  /\ \A n \in Arguments : n * PacksPerBuffer >= Decimation

\* The driver gives up on a wait, on either side.
WaitsTimeOut == FaultStatuses # {} /\ RxFaultStatuses # {}

\* main() has what it waits for: the channel it is at has sent its buffer or is
\* about to, unless the wait times out.
LEMMA LoopWait ==
  ASSUME IpInv, LiveInv, NoFaults => SteadyInv, stage = "loop", main = "wait",
         NoFaults \/ FaultStatuses # {}
  PROVE  MainCanGo \/ HardwareCanGo
  <1>1. k \in Channels /\ i \in Nat
    BY IpShape DEF LoopInv
  <1>2. Busy(k)
    BY <1>1, ChannelsOrdered DEF Busy
  <1>3. CASE FaultStatuses # {}
    <2>1. /\ tx_counter[k] + tx_in_progress[k] = i + 1 /\ tx_counter[k] <= i
          /\ tx_counter[k] \in Nat /\ tx_in_progress[k] \in Nat
      BY <1>1, IpShape, ChannelsOrdered
         DEF LiveInv, Passing, LoopInv, Accounted, Started
    <2>2. tx_in_progress[k] > 0
      BY <1>1, <2>1
    <2> QED BY <1>3, <2>2 DEF MainCanGo
  <1>4. CASE NoFaults
    <2>1. tx_in_progress[k] = 1
      BY <1>1, <1>4, <1>2 DEF IpInv, ProgressInv, Waiting, NoFaults
    <2>2. Queued(k) \/ Gone(k)
      BY <1>1, <1>4, <1>2 DEF SteadyInv, Steady
    <2>3. CASE Queued(k)
      <3>1. tx_order[k] = <<BufferOf(k)>>
        BY <2>3 DEF Queued
      <3>2. <<BufferOf(k)>> # <<>>
        OBVIOUS
      <3>3. \E c \in Channels : tx_order[c] # <<>>
        BY <1>1, <3>1, <3>2
      <3> QED BY <3>3 DEF HardwareCanGo
    <2>4. CASE Gone(k)
      <3>1. BufferOf(k) \in TxBuffers
        BY <1>1, BufferInRange, IpShape
      <3>2. Sent
        BY <2>4, <3>1 DEF Gone, OwnedBy, Sent
      <3> QED BY <2>1, <3>2 DEF MainCanGo
    <2> QED BY <2>2, <2>3, <2>4
  <1> QED BY <1>3, <1>4

\* When nobody else can go on, the thread has what it waits for: all windows
\* are with the processor, so that the next answer is due.
LEMMA ThreadWait ==
  ASSUME NumbersFit, NothingFails, IpInv, LiveInv, stage = "loop",
         main = "finish", pc = "wait"
  PROVE  ThreadCanGo \/ HardwareCanGo
  <1> SUFFICES ASSUME ~ThreadCanGo, ~HardwareCanGo PROVE FALSE
    OBVIOUS
  <1>1. PICK c \in Channels : line[c] = <<>>
    BY DEF HardwareCanGo
  <1>2. in_progress_count > 0 /\ counter < Rx!Limit
    BY NeverIdle
  <1>3. /\ counter \in Nat /\ in_progress_count \in Nat
        /\ RxBufferCount \in Nat \ {0} /\ arrived \in Nat
        /\ Rx!Limit \in Nat \ {0} /\ counter <= offered
        /\ offered \in Nat /\ silent = 0
        /\ PacksPerBuffer \in Nat \ {0} /\ Decimation \in Nat \ {0}
        /\ num_transfers \in Nat /\ num_transfers \in Arguments
        /\ Len(frames) \in Nat
    BY <1>1, Numbers, RxAssumed
       DEF IpInv, Rx!RxInv, Rx!TypeOK, LiveInv, NothingFails
  \* The buffer that the thread waits for is queued, ...
  <1>4. arrived = counter /\ order # <<>>
    <2>1. /\ Rx!Outstanding = in_progress_count /\ Rx!Taken = counter
          /\ Rx!Landed = arrived - counter
      BY <1>3 DEF Rx!Outstanding, Rx!Taken, Rx!Uncounted, Rx!Landed
    <2>2. /\ Rx!Landed >= 0 /\ Len(order) = Rx!Outstanding - Rx!Landed
          /\ buffer_id \in Rx!Buffers /\ buffer_id < RxBufferCount
      BY <1>3 DEF IpInv, Rx!RxInv, Rx!Accounts, Rx!Base, Rx!Buffers
    <2>3. owner[buffer_id] # "done"
      BY DEF ThreadCanGo
    <2>4. ~(0 < Rx!Landed)
      <3>1. Rx!Slot(0) = buffer_id
        BY <2>2, RxAssumed DEF Rx!Slot, Rx!Wrap, Rx!Base, Rx!Behind, Rx!Buffers
      <3>2. 0 \in Rx!Buffers
        BY <1>3 DEF Rx!Buffers
      <3> QED BY <2>3, <3>1, <3>2 DEF IpInv, Rx!RxInv, Rx!Ring
    <2>5. arrived = counter
      BY <1>3, <2>1, <2>2, <2>4
    <2>6. Len(order) = in_progress_count
      BY <1>3, <2>1, <2>2, <2>5
    <2> QED BY <1>2, <1>3, <2>5, <2>6
  \* ... and the processor has been sent everything.
  <1>5. offered = counter
    BY <1>3, <1>4 DEF HardwareCanGo, IpInv, Rx!RxInv, Rx!Accounts
  <1>6. Len(frames) = num_transfers
    <2>1. SentOf(c) = num_transfers
      BY AllSent DEF IpInv, NothingFails, NoFaults
    <2> QED BY <1>1, <1>3, <2>1 DEF SentOf
  <1> DEFINE p == num_transfers * PacksPerBuffer
             q == p \div Decimation
  <1>7. p \in Nat /\ q \in Nat \ {0} /\ q * Decimation <= p
    <2>1. p \in Nat /\ p >= Decimation
      BY <1>3 DEF NothingFails
    <2> HIDE DEF p
    <2>2. /\ q \in Nat /\ q * Decimation <= p
          /\ p < (q + 1) * Decimation
      BY <1>3, <2>1, Quotient
    <2>3. q # 0
      BY <1>3, <2>1, <2>2
    <2> QED BY <2>1, <2>2, <2>3
  <1>8. Rx!Limit = q
    <2>1. rx_transfers = q
      BY <1>3, Fitting DEF IpInv, Joining
    <2> HIDE DEF q
    <2> QED BY <1>7, <2>1 DEF Rx!Limit, Rx!LimitOf
  <1>9. (offered + silent + 1) * Decimation <= p
    <2> HIDE DEF p, q
    <2>1. offered + silent + 1 \in Nat /\ offered + silent + 1 <= q
      BY <1>2, <1>3, <1>5, <1>7, <1>8
    <2>2. /\ (offered + silent + 1) * Decimation \in Nat
          /\ q * Decimation \in Nat
          /\ (offered + silent + 1) * Decimation <= q * Decimation
      BY <1>3, <1>7, <2>1, Product
    <2> QED BY <1>7, <2>2
  <1>10. offered < MaxOf(Arguments) * PacksPerBuffer
    <2> DEFINE m == MaxOf(Arguments)
    <2>1. m \in Nat /\ num_transfers <= m
      BY <1>3, LargestArgument, TxAssumption
    <2> HIDE DEF m
    <2>2. p <= m * PacksPerBuffer /\ m * PacksPerBuffer \in Nat
      BY <1>3, <2>1, Product
    <2>3. offered + 1 <= p
      <3> DEFINE a == offered + silent + 1
      <3>1. a \in Nat /\ a = offered + 1
        BY <1>3
      <3> HIDE DEF p, a
      <3>2. 1 * a <= Decimation * a /\ a * Decimation <= p
        BY <1>3, <1>9, <3>1, Product DEF a
      <3> QED BY <1>3, <1>7, <3>1, <3>2
    <2>4. p \in Nat
      BY <1>7
    <2> HIDE DEF p
    <2>5. offered < m * PacksPerBuffer
      BY <1>3, <2>2, <2>3, <2>4
    <2> QED BY <2>5 DEF m
  <1> QED BY <1>6, <1>9, <1>10 DEF HardwareCanGo, AnswerDue

\* Hence never does everybody wait.
LEMMA SomebodyCanGo ==
  ASSUME NumbersFit, NothingFails \/ WaitsTimeOut,
         IpInv, LiveInv, NoFaults => SteadyInv
  PROVE  NeverStuck
  <1> SUFFICES ASSUME stage = "loop"
               PROVE  MainCanGo \/ ThreadCanGo \/ HardwareCanGo
    BY DEF NeverStuck, MainCanGo
  <1>1. main \in {"read", "fill", "start", "wait", "finish"}
    BY IpShape DEF LoopInv, LiveInv
  <1>2. pc \in {"begin", "wait", "save", "next", "end", "done"}
    BY DEF IpInv, Joining, Rx!RxInv, Rx!TypeOK, Rx!Locations, LiveInv
  <1>3. CASE main \in {"read", "fill", "start"}
    BY <1>3 DEF MainCanGo
  <1>4. CASE main = "wait"
    BY <1>4, LoopWait DEF NothingFails, WaitsTimeOut
  <1>5. CASE main = "finish" /\ pc = "done"
    BY <1>5 DEF MainCanGo, Joined
  <1>6. CASE pc \in {"begin", "save", "next", "end"}
    BY <1>6 DEF ThreadCanGo
  <1>7. CASE main = "finish" /\ pc = "wait"
    <2>1. CASE NothingFails
      BY <1>7, <2>1, ThreadWait
    <2>2. CASE WaitsTimeOut
      BY <1>7, <2>2 DEF ThreadCanGo, WaitsTimeOut
    <2> QED BY <2>1, <2>2
  <1> QED BY <1>1, <1>2, <1>3, <1>4, <1>5, <1>6, <1>7

\* The passes of the loop, counted in steps.
LEMMA PassFits ==
  ASSUME NEW a \in Nat, NEW b \in Nat
  PROVE  /\ Pass \in Nat /\ NumChannels \in Nat /\ Reading \in Nat
         /\ Pass = Reading + 2 * NumChannels + 1
         /\ a * Pass \in Nat /\ b * Pass \in Nat
         /\ (a + 1) * Pass = a * Pass + Pass
         /\ a <= b => a * Pass <= b * Pass
         /\ a < b => a * Pass + Pass <= b * Pass
  <1>0. Reading \in Nat
    BY ReadingPositive DEF Reading
  <1> HIDE DEF Reading
  <1>1. /\ Pass \in Nat /\ NumChannels \in Nat
        /\ Pass = Reading + 2 * NumChannels + 1
    BY <1>0, ChannelsOrdered DEF Pass
  <1> HIDE DEF Pass
  <1>2. (a + 1) * Pass = a * Pass + Pass
    BY <1>1
  <1>3. a <= b => a * Pass <= b * Pass
    BY <1>1, Product
  <1>4. ASSUME a < b PROVE (a + 1) * Pass <= b * Pass
    <2>1. a + 1 \in Nat /\ a + 1 <= b
      BY <1>4
    <2> QED BY <1>1, <2>1, Product
  <1> QED BY <1>0, <1>1, <1>2, <1>3, <1>4

\* Where main() is while it is in the loop.
LEMMA MainTyped ==
  ASSUME IpInv
  PROVE  /\ i \in Nat /\ num_transfers \in Nat /\ i <= num_transfers
         /\ k \in Nat /\ 1 <= k /\ k <= NumChannels
         /\ main \in {"init", "read", "fill", "start", "wait", "finish",
                      "crashed"}
         /\ main \in {"fill", "start", "wait"} => i < num_transfers
         /\ main = "fill" => k = NumChannels
         /\ sample_count \in Nat /\ sample_count < Reading
         /\ Reading \in Nat
  <1>1. Reading \in Nat /\ sample_count \in 0 .. Reading - 1
    BY IpShape, ReadingPositive DEF Bounds, Reading
  <1>2. sample_count \in Nat /\ sample_count < Reading
    <2> HIDE DEF Reading
    <2> QED BY <1>1
  <1>3. /\ i \in Nat /\ num_transfers \in Arguments /\ i <= num_transfers
        /\ k \in Channels
        /\ main \in {"init", "read", "fill", "start", "wait", "finish",
                     "crashed"}
        /\ main \in {"fill", "start", "wait"} => i < num_transfers
        /\ main = "fill" => k = NumChannels
    BY IpShape DEF LoopInv, Bounds
  <1> HIDE DEF Reading
  <1> QED BY <1>1, <1>2, <1>3, ChannelsOrdered, TxAssumption

LEMMA MainReach == IpInv => MainPlace \in 0 .. 2 + num_transfers * Pass
  <1> SUFFICES ASSUME IpInv PROVE MainPlace \in 0 .. 2 + num_transfers * Pass
    OBVIOUS
  <1> DEFINE x == i * Pass
             y == num_transfers * Pass
             n == NumChannels
             d == Reading
             p == Pass
  <1>1. /\ p \in Nat /\ n \in Nat /\ d \in Nat /\ p = d + 2 * n + 1
        /\ x \in Nat /\ y \in Nat /\ x <= y
        /\ i < num_transfers => x + p <= y
    BY MainTyped, PassFits
  <1>2. \/ MainPlace \in {0, 1 + x, 2 + y}
        \/ /\ MainPlace \in {2 + x + sample_count, 2 + x + d + n - k,
                             2 + x + d + 2 * n - k}
           /\ i < num_transfers
    BY MainTyped DEF MainPlace
  <1>3. /\ k \in Nat /\ 1 <= k /\ k <= n
        /\ sample_count \in Nat /\ sample_count < d
    BY MainTyped
  <1> HIDE DEF x, y, n, d, p, MainPlace
  <1>4. ASSUME MainPlace \in {0, 1 + x, 2 + y} PROVE MainPlace \in 0 .. 2 + y
    BY <1>1, <1>4
  <1>5. ASSUME MainPlace \in {2 + x + sample_count, 2 + x + d + n - k,
                              2 + x + d + 2 * n - k},
               i < num_transfers
        PROVE  MainPlace \in 0 .. 2 + y
    BY <1>1, <1>3, <1>5
  <1>6. MainPlace \in 0 .. 2 + y
    BY <1>2, <1>4, <1>5
  <1> QED BY <1>6 DEF y

\* Each step of main() takes it further, round its loop.
LEMMA LoopForward ==
  ASSUME IpInv, InitChannels \/ MainLoop
  PROVE  MainPlace < MainPlace'
  <1> DEFINE x == i * Pass
             y == num_transfers * Pass
             n == NumChannels
             d == Reading
             p == Pass
             q == sample_count
  <1>1. /\ p \in Nat /\ n \in Nat /\ d \in Nat /\ p = d + 2 * n + 1
        /\ x \in Nat /\ y \in Nat /\ x <= y
        /\ i < num_transfers => x + p <= y
        /\ (i + 1) * Pass = x + p
    BY MainTyped, PassFits
  <1>2. /\ k \in Nat /\ 1 <= k /\ k <= n
        /\ main = "fill" => k = n
        /\ q \in Nat /\ q < d
    BY MainTyped
  <1>3. num_transfers' = num_transfers
    BY SoftwareLeaves
  <1>4. CASE InitChannels
    <2>1. MainPlace = 0 /\ MainPlace' = 1 + x
      BY <1>4 DEF InitChannels, loop, MainPlace
    <2> HIDE DEF x, MainPlace
    <2> QED BY <1>1, <2>1
  <1>5. CASE OpenFile
    <2>1. MainPlace = 1 + x /\ MainPlace' = 2 + x + q
      BY <1>5 DEF OpenFile, ReadBegins, loop, MainPlace
    <2> HIDE DEF x, q, MainPlace
    <2> QED BY <1>1, <1>2, <2>1
  <1>6. CASE WriteSample
    <2>1. MainPlace = 2 + x + q /\ main = "fill"
      BY <1>6 DEF WriteSample, MainPlace
    <2>2. MainPlace' = IF q + 1 = d THEN 2 + x + d + n - k
                       ELSE 2 + x + (q + 1)
      BY <1>6 DEF WriteSample, MainPlace, Reading
    <2> HIDE DEF x, n, d, q, MainPlace
    <2> QED BY <1>1, <1>2, <2>1, <2>2
  <1>7. CASE FileMissing \/ SkipRead
    <2>1. MainPlace = 1 + x /\ MainPlace' = 2 + x + d + n - k
      BY <1>7 DEF FileMissing, SkipRead, ReadBegins, loop, MainPlace
    <2> HIDE DEF x, n, d, MainPlace
    <2> QED BY <1>1, <1>2, <2>1
  <1>8. CASE ReadCrash \/ LoopEnd
    <2>1. MainPlace = 1 + x /\ MainPlace' = 2 + y
      BY <1>3, <1>8 DEF ReadCrash, ReadBegins, LoopEnd, MainPlace
    <2> HIDE DEF x, y, MainPlace
    <2> QED BY <1>1, <2>1
  <1>9. CASE StartTransfer
    <2>1. MainPlace = 2 + x + d + n - k
      BY <1>9 DEF StartTransfer, MainPlace
    <2>2. MainPlace' = IF k = 1 THEN 2 + x + d + 2 * n - n
                       ELSE 2 + x + d + n - (k - 1)
      BY <1>9 DEF StartTransfer, NextChannel, MainPlace
    <2> HIDE DEF x, n, d, MainPlace
    <2> QED BY <1>1, <1>2, <2>1, <2>2
  <1>10. CASE main = "wait" /\ Waited
    <2>1. MainPlace = 2 + x + d + 2 * n - k
      BY <1>10 DEF MainPlace
    <2>2. MainPlace' = IF k = 1 THEN 1 + (i + 1) * Pass
                       ELSE 2 + x + d + 2 * n - (k - 1)
      BY <1>10 DEF Waited, NextChannel, MainPlace
    <2> HIDE DEF x, n, d, p, MainPlace
    <2> QED BY <1>1, <1>2, <2>1, <2>2
  <1>11. CASE WaitCrash
    <2>1. /\ MainPlace = 2 + x + d + 2 * n - k /\ MainPlace' = 2 + y
          /\ i < num_transfers
      BY <1>11, MainTyped DEF WaitCrash, MainPlace, loop
    <2> HIDE DEF x, y, n, d, p, MainPlace
    <2> QED BY <1>1, <1>2, <2>1
  <1> QED BY <1>4, <1>5, <1>6, <1>7, <1>8, <1>9, <1>10, <1>11
          DEF MainLoop, ReadFile, WaitOk, WaitFault

\* Where the thread is.
LEMMA ThreadTyped ==
  ASSUME IpInv
  PROVE  /\ Ordered.record \in Nat \ {0} /\ RxBufferCount \in Nat \ {0}
         /\ counter \in Nat /\ counter <= Ordered.record
         /\ pc \in Rx!Locations
         /\ pc \notin {"new", "inited"} => Rx!Limit = Ordered.record
         /\ pc = "begin" => /\ counter = 0 /\ buffer_id \in Nat
                            /\ buffer_id < RxBufferCount
         /\ pc = "save" => counter < Ordered.record
  <1>1. /\ RxBufferCount \in Nat \ {0} /\ counter \in Nat
        /\ in_progress_count \in Nat /\ pc \in Rx!Locations
    BY RxAssumed DEF IpInv, Rx!RxInv, Rx!TypeOK
  <1>2. Ordered.record \in Nat \ {0}
    <2>1. NumRx(num_transfers) \in Int
      BY RxAssumed DEF IpInv, JoinInv
    <2> QED BY <1>1, <2>1 DEF Ordered, Rx!LimitOf
  <1>3. pc \notin {"new", "inited"} => Rx!Limit = Ordered.record
    BY DEF IpInv, Joining, Rx!Limit, Ordered
  <1>4. pc \in {"new", "inited", "begin"} => counter = 0
    BY DEF IpInv, Rx!RxInv, Rx!Beginning
  <1>5. counter <= Ordered.record
    <2>1. counter <= Rx!Limit
      BY Numbers, ChannelsOrdered
    <2> QED BY <1>1, <1>2, <1>3, <1>4, <2>1
  <1>6. pc = "begin" => buffer_id \in Nat /\ buffer_id < RxBufferCount
    BY <1>1 DEF IpInv, Rx!RxInv, Rx!Beginning, Rx!Buffers
  <1>7. pc = "save" => counter < Ordered.record
    <2> SUFFICES ASSUME pc = "save" PROVE counter < Ordered.record
      OBVIOUS
    <2>1. in_progress_count - 1 >= 0
      BY <1>1 DEF IpInv, Rx!RxInv, Rx!Accounts, Rx!Outstanding, Rx!Uncounted
    <2>2. counter + in_progress_count <= Ordered.record
      BY <1>3 DEF IpInv, Rx!RxInv, Rx!Accounts
    <2> QED BY <1>1, <1>2, <2>1, <2>2
  <1> QED BY <1>1, <1>2, <1>3, <1>4, <1>5, <1>6, <1>7

LEMMA ThreadReach ==
  IpInv => ThreadPlace \in 0 .. 4 + RxBufferCount + 3 * Ordered.record
  <1> SUFFICES ASSUME IpInv
               PROVE  ThreadPlace
                        \in 0 .. 4 + RxBufferCount + 3 * Ordered.record
    OBVIOUS
  <1> DEFINE l == Ordered.record
  <1>1. /\ l \in Nat \ {0} /\ RxBufferCount \in Nat \ {0}
        /\ counter \in Nat /\ counter <= l
        /\ pc = "begin" => /\ buffer_id \in Nat
                           /\ buffer_id < RxBufferCount
    BY ThreadTyped
  <1>2. \/ ThreadPlace \in {0, 1, 2}
        \/ pc = "begin" /\ ThreadPlace = 3 + buffer_id
        \/ ThreadPlace = 2 + RxBufferCount + 3 * counter
        \/ ThreadPlace = 3 + RxBufferCount + 3 * counter
        \/ ThreadPlace = 4 + RxBufferCount + 3 * counter
        \/ ThreadPlace = 3 + RxBufferCount + 3 * l
        \/ ThreadPlace = 4 + RxBufferCount + 3 * l
    BY DEF ThreadPlace
  <1> HIDE DEF l
  <1>3. ThreadPlace \in 0 .. 4 + RxBufferCount + 3 * l
    BY <1>1, <1>2
  <1> QED BY <1>3 DEF l

\* Each step of the thread takes it further, unless it waits for nothing.
LEMMA ThreadForward ==
  ASSUME NumbersFit, IpInv, LiveInv, Rx!Thread, Ordered' = Ordered
  PROVE  ThreadPlace < ThreadPlace'
  <1> DEFINE l == Ordered.record
             r == RxBufferCount
  <1>1. /\ l \in Nat \ {0} /\ r \in Nat \ {0} /\ Ordered.record' = l
        /\ counter \in Nat /\ counter <= l
        /\ pc \notin {"new", "inited"} => Rx!Limit = l
        /\ pc = "begin" => /\ counter = 0 /\ buffer_id \in Nat
                           /\ buffer_id < r
        /\ pc = "wait" => in_progress_count > 0 /\ counter < Rx!Limit
        /\ in_progress_count \in Nat
    BY ThreadTyped, NeverIdle, RxAssumed DEF IpInv, Rx!RxInv, Rx!TypeOK
  <1> HIDE DEF l, r
  <1>2. CASE Rx!BeginBuffer
    <2>1. /\ ThreadPlace = 3 + buffer_id
          /\ counter' = counter /\ pc = "begin"
          /\ \/ ThreadPlace' = 3 + (buffer_id + 1)
             \/ ThreadPlace' = 3 + r + 3 * counter
      BY <1>2 DEF Rx!BeginBuffer, ThreadPlace, r
    <2> QED BY <1>1, <2>1
  <1>3. CASE Rx!BeginCrash
    <2>1. /\ ThreadPlace = 3 + buffer_id /\ ThreadPlace' = 4 + r + 3 * l
          /\ pc = "begin"
      BY <1>1, <1>3 DEF Rx!BeginCrash, ThreadPlace, r
    <2> QED BY <1>1, <2>1
  <1>4. CASE Rx!WaitIdle
    BY <1>1, <1>4 DEF Rx!WaitIdle
  <1>5. CASE Rx!FinishOk
    <2>1. /\ ThreadPlace = 3 + r + 3 * counter
          /\ ThreadPlace' = 4 + r + 3 * counter
      BY <1>5 DEF Rx!FinishOk, ThreadPlace, r
    <2> QED BY <1>1, <2>1
  <1>6. CASE \E s \in RxFaultStatuses : Rx!FinishFault(s)
    <2>1. /\ ThreadPlace = 3 + r + 3 * counter
          /\ ThreadPlace' = 3 + r + 3 * l /\ pc = "wait"
      BY <1>1, <1>6 DEF Rx!FinishFault, ThreadPlace, r
    <2> QED BY <1>1, <2>1
  <1>7. CASE Rx!Save
    <2>1. /\ ThreadPlace = 4 + r + 3 * counter
          /\ ThreadPlace' = 2 + r + 3 * (counter + 1)
      BY <1>7 DEF Rx!Save, Rx!Count, ThreadPlace, r
    <2> QED BY <1>1, <2>1
  <1>8. CASE Rx!StopCollected
    <2>1. /\ ThreadPlace = 2 + r + 3 * counter
          /\ ThreadPlace' = 3 + r + 3 * l
      BY <1>1, <1>8 DEF Rx!StopCollected, ThreadPlace, r
    <2> QED BY <1>1, <2>1
  <1>9. CASE Rx!Advance
    <2>1. /\ ThreadPlace = 2 + r + 3 * counter
          /\ ThreadPlace' = 3 + r + 3 * counter
      BY <1>9 DEF Rx!Advance, ThreadPlace, r
    <2> QED BY <1>1, <2>1
  <1>10. CASE Rx!End
    <2>1. /\ ThreadPlace = 3 + r + 3 * l
          /\ ThreadPlace' = 4 + r + 3 * l
      BY <1>1, <1>10 DEF Rx!End, ThreadPlace, l, r
    <2> QED BY <1>1, <2>1
  <1> QED BY <1>2, <1>3, <1>4, <1>5, <1>6, <1>7, <1>8, <1>9, <1>10
          DEF Rx!Thread, Rx!Finish

\* No answer comes without its packets.
LEMMA AnswersReach ==
  IpInv => /\ offered + silent \in 0 .. num_transfers * PacksPerBuffer
           /\ arrived \in Nat /\ arrived <= offered + silent
  <1> SUFFICES ASSUME IpInv
               PROVE  /\ offered + silent
                           \in 0 .. num_transfers * PacksPerBuffer
                      /\ arrived \in Nat /\ arrived <= offered + silent
    OBVIOUS
  <1> DEFINE w == num_transfers * PacksPerBuffer
             a == offered + silent
  <1>1. PICK c \in Channels : TRUE
    BY ChannelsOrdered
  <1>2. /\ offered \in Nat /\ silent \in Nat /\ num_transfers \in Nat
        /\ PacksPerBuffer \in Nat /\ Decimation \in Nat \ {0}
        /\ arrived \in Nat /\ arrived <= offered
    BY <1>1, Numbers DEF IpInv, Rx!RxInv, Rx!TypeOK, Rx!Accounts
  <1>3. a \in Nat /\ w \in Nat /\ arrived <= a
    BY <1>2
  <1>4. a * Decimation <= w
    BY <1>1, <1>3, AnswersPaid
  <1>5. a <= w
    <2> HIDE DEF a, w
    <2>1. 1 * a <= Decimation * a
      BY <1>2, <1>3, Product
    <2>2. a * Decimation \in Nat
      BY <1>2, <1>3
    <2> QED BY <1>2, <1>3, <1>4, <2>1, <2>2
  <1>6. a \in 0 .. w
    <2> HIDE DEF a, w
    <2> QED BY <1>3, <1>5
  <1> QED BY <1>2, <1>3, <1>6

\* An engine fetches no sample of a buffer that it was not given.
LEMMA SamplesReach ==
  ASSUME IpInv, NEW c \in Channels
  PROVE  /\ SamplesOf(c) \in 0 .. num_transfers * SamplesPerBuffer
         /\ SentOf(c) * SamplesPerBuffer \in Nat
         /\ (SentOf(c) + 1) * SamplesPerBuffer
              = SentOf(c) * SamplesPerBuffer + SamplesPerBuffer
         /\ Len(fetched[c]) \in Nat /\ Len(fetched[c]) < SamplesPerBuffer
  <1> DEFINE s == SentOf(c)
             f == Len(fetched[c])
             o == Len(tx_order[c])
             m == SamplesPerBuffer
             w == num_transfers * SamplesPerBuffer
  <1>1. /\ s \in Nat /\ o \in Nat /\ num_transfers \in Nat /\ m \in Nat
        /\ s + o <= num_transfers
    BY IpShape, SentTyped, Numbers, TxAssumption DEF ProgressInv, Progress
  <1>2. f \in Nat /\ f < m /\ (o = 0 => f = 0)
    BY IpShape DEF TxShape
  <1>3. SamplesOf(c) = s * m + f
    BY DEF SamplesOf
  <1> HIDE DEF s, f, o, m
  <1>4. /\ s * m \in Nat /\ (s + 1) * m = s * m + m
        /\ w \in Nat
    BY <1>1 DEF m
  <1>5. s * m + f <= w
    <2>1. CASE o = 0
      <3>1. s * m <= w
        BY <1>1, <2>1, Product DEF m
      <3> HIDE DEF w
      <3> QED BY <1>2, <1>4, <2>1, <3>1
    <2>2. CASE o # 0
      <3>1. s + 1 \in Nat /\ s + 1 <= num_transfers
        BY <1>1, <2>2
      <3>2. (s + 1) * m <= w
        BY <1>1, <3>1, Product DEF m
      <3> DEFINE a == s * m
      <3>3. a \in Nat /\ a + m <= w
        BY <1>4, <3>2
      <3> HIDE DEF w, a
      <3>4. a + f <= w
        BY <1>1, <1>2, <1>4, <3>3
      <3> QED BY <3>4 DEF a
    <2> QED BY <2>1, <2>2
  <1>6. s * m + f \in 0 .. w
    <2> DEFINE a == s * m
    <2>1. a \in Nat /\ w \in Nat /\ a + f <= w
      BY <1>4, <1>5
    <2> HIDE DEF a, w
    <2>2. a + f \in 0 .. w
      BY <1>2, <2>1
    <2> QED BY <2>2 DEF a
  <1> QED BY <1>2, <1>3, <1>4, <1>6 DEF s, f, m, w

\* An engine gets one sample further, and no other with it.
LEMMA EngineForward ==
  ASSUME IpInv, NEW d \in Channels, Engine(d)
  PROVE  /\ SamplesOf(d)' = SamplesOf(d) + 1
         /\ \A c \in Channels : c # d => SamplesOf(c)' = SamplesOf(c)
  <1> DEFINE m == SamplesPerBuffer
             a == SentOf(d) * m
             f == Len(fetched[d])
  <1>1. /\ a \in Nat /\ (SentOf(d) + 1) * m = a + m
        /\ f \in Nat /\ m \in Nat
        /\ fetched \in [Channels -> Seq(Windows)]
    BY SamplesReach, IpShape, TxAssumption DEF TxShape
  <1>2. SamplesOf(d) = a + f
    BY DEF SamplesOf
  <1>3. CASE Fetch(d)
    <2>1. /\ UNCHANGED <<frames, line>>
          /\ fetched' = [fetched EXCEPT ![d] = WithNext(d)]
          /\ tx_order[d] # <<>>
      BY <1>3 DEF Fetch
    <2>2. Len(WithNext(d)) = f + 1
      BY <2>1, NextTyped, IpShape
    <2>3. SamplesOf(d)' = a + (f + 1)
      BY <1>1, <2>1, <2>2 DEF SamplesOf, SentOf
    <2>4. \A c \in Channels : c # d => SamplesOf(c)' = SamplesOf(c)
      BY <1>1, <2>1 DEF SamplesOf, SentOf
    <2> HIDE DEF a, f
    <2> QED BY <1>1, <1>2, <2>3, <2>4
  <1>4. CASE Send(d)
    <2>1. /\ SentOf(d)' = SentOf(d) + 1
          /\ \A c \in Channels : c # d => SentOf(c)' = SentOf(c)
      BY <1>4, SendSends
    <2>2. fetched' = [fetched EXCEPT ![d] = <<>>] /\ f + 1 = m
      BY <1>4 DEF Send
    <2>3. SamplesOf(d)' = (SentOf(d) + 1) * m + 0
      BY <1>1, <2>1, <2>2 DEF SamplesOf
    <2>4. \A c \in Channels : c # d => SamplesOf(c)' = SamplesOf(c)
      BY <1>1, <2>1, <2>2 DEF SamplesOf
    <2>5. SamplesOf(d)' = a + m + 0
      BY <1>1, <2>3
    <2> HIDE DEF a, f, m
    <2> QED BY <1>1, <1>2, <2>2, <2>4, <2>5
  <1> QED BY <1>3, <1>4 DEF Engine

LEMMA InReach == IpInv => WithinReach
  <1> SUFFICES ASSUME IpInv PROVE WithinReach
    OBVIOUS
  <1> DEFINE w == num_transfers * PacksPerBuffer
             l == 4 + RxBufferCount + 3 * Ordered.record
             z == 2 + num_transfers * Pass
             a == offered + silent
  <1>1. PICK c \in Channels : TRUE
    BY ChannelsOrdered
  <1>2. MainPlace \in 0 .. z /\ ThreadPlace \in 0 .. l
    BY MainReach, ThreadReach
  <1>3. ProcessPlace \in 0 .. 5
    BY DEF ProcessPlace
  <1>4. Len(frames) \in 0 .. num_transfers
    BY <1>1, Numbers
  <1>5. \A d \in Channels :
          SamplesOf(d) \in 0 .. num_transfers * SamplesPerBuffer
    BY SamplesReach
  <1>6. a \in 0 .. w
    BY AnswersReach
  <1>7. arrived \in 0 .. w
    <2>1. arrived \in Nat /\ arrived <= a /\ w \in Nat
      <3>1. num_transfers \in Nat /\ PacksPerBuffer \in Nat
        BY <1>1, Numbers
      <3> QED BY <3>1, AnswersReach
    <2> HIDE DEF a, w
    <2> QED BY <1>6, <2>1
  <1>8. Place = [main |-> MainPlace, thread |-> ThreadPlace,
                 process |-> ProcessPlace, combined |-> Len(frames),
                 answered |-> a, delivered |-> arrived]
    BY DEF Place
  <1>9. Last = [main |-> z, thread |-> l, process |-> 5,
                combined |-> num_transfers, answered |-> w, delivered |-> w]
    BY DEF Last
  <1> HIDE DEF a, w, l, z
  <1>10. \A p \in DOMAIN Place : Place[p] \in 0 .. Last[p]
    BY <1>2, <1>3, <1>4, <1>6, <1>7, <1>8, <1>9
  <1> QED BY <1>5, <1>10 DEF WithinReach

\* The places one by one.
NoneBack ==
  /\ MainPlace <= MainPlace' /\ ThreadPlace <= ThreadPlace'
  /\ ProcessPlace <= ProcessPlace'
  /\ Len(frames) <= Len(frames')
  /\ offered + silent <= offered' + silent' /\ arrived <= arrived'
  /\ \A c \in Channels : SamplesOf(c) <= SamplesOf(c)'

OneFurther ==
  \/ MainPlace < MainPlace' \/ ThreadPlace < ThreadPlace'
  \/ ProcessPlace < ProcessPlace'
  \/ Len(frames) < Len(frames')
  \/ offered + silent < offered' + silent' \/ arrived < arrived'
  \/ \E c \in Channels : SamplesOf(c) < SamplesOf(c)'

LEMMA OnwardParts == NoneBack /\ OneFurther => Onward
  <1> SUFFICES ASSUME NoneBack, OneFurther PROVE Onward
    OBVIOUS
  <1> DEFINE a == offered + silent
             b == offered' + silent'
  <1>1. Place = [main |-> MainPlace, thread |-> ThreadPlace,
                 process |-> ProcessPlace, combined |-> Len(frames),
                 answered |-> a, delivered |-> arrived]
    BY DEF Place
  <1>2. Place' = [main |-> MainPlace', thread |-> ThreadPlace',
                  process |-> ProcessPlace', combined |-> Len(frames'),
                  answered |-> b, delivered |-> arrived']
    BY DEF Place
  <1>3. /\ DOMAIN Place = {"main", "thread", "process", "combined",
                           "answered", "delivered"}
        /\ Place["main"] = MainPlace /\ Place'["main"] = MainPlace'
        /\ Place["thread"] = ThreadPlace /\ Place'["thread"] = ThreadPlace'
        /\ Place["process"] = ProcessPlace
        /\ Place'["process"] = ProcessPlace'
        /\ Place["combined"] = Len(frames)
        /\ Place'["combined"] = Len(frames')
        /\ Place["answered"] = a /\ Place'["answered"] = b
        /\ Place["delivered"] = arrived /\ Place'["delivered"] = arrived'
    BY <1>1, <1>2
  <1> HIDE DEF a, b, Place
  <1>4. \A p \in DOMAIN Place : Place[p] <= Place'[p]
    BY <1>3 DEF NoneBack, a, b
  <1>5. \/ \E p \in DOMAIN Place : Place[p] < Place'[p]
        \/ \E c \in Channels : SamplesOf(c) < SamplesOf(c)'
    BY <1>3 DEF OneFurther, a, b
  <1> QED BY <1>4, <1>5 DEF NoneBack, Onward

\* What all places are counted in.
Counted ==
  /\ MainPlace \in Nat /\ ThreadPlace \in Nat /\ ProcessPlace \in Nat
  /\ Len(frames) \in Nat
  /\ offered \in Nat /\ silent \in Nat /\ arrived \in Nat
  /\ \A c \in Channels : SamplesOf(c) \in Nat

LEMMA PlacesCounted == IpInv => Counted
  <1> SUFFICES ASSUME IpInv PROVE Counted
    OBVIOUS
  <1>1. MainPlace \in Nat /\ ThreadPlace \in Nat
    <2>1. num_transfers * Pass \in Nat
      BY MainTyped, PassFits
    <2>2. 3 * Ordered.record \in Nat /\ RxBufferCount \in Nat
      BY ThreadTyped
    <2> QED BY <2>1, <2>2, MainReach, ThreadReach
  <1>2. ProcessPlace \in Nat
    BY DEF ProcessPlace
  <1>3. \A c \in Channels : SamplesOf(c) \in Nat
    <2>1. num_transfers * SamplesPerBuffer \in Nat
      BY MainTyped, TxAssumption
    <2> QED BY <2>1, SamplesReach
  <1> QED BY <1>1, <1>2, <1>3, Numbers, ChannelsOrdered, AnswersReach
          DEF Counted

LEMMA ForwardStep ==
  ASSUME NumbersFit, IpInv, LiveInv, [IpNext]_ipvars
  PROVE  [Onward]_ipvars
  <1> DEFINE s == <<main, i, k, sample_count>>
             t == <<pc, buffer_id, counter>>
             h == <<fetched, line, frames, offered, silent, arrived>>
  <1>1. /\ MainPlace \in Nat /\ ThreadPlace \in Nat /\ ProcessPlace \in Nat
        /\ Len(frames) \in Nat
        /\ offered \in Nat /\ silent \in Nat /\ arrived \in Nat
        /\ \A c \in Channels : SamplesOf(c) \in Nat
        /\ MainPlace' \in Nat /\ ThreadPlace' \in Nat /\ ProcessPlace' \in Nat
    <2>1. Counted
      BY PlacesCounted
    <2>2. Counted'
      BY NextIp, PlacesCounted, PTL
    <2> QED BY <2>1, <2>2 DEF Counted
  <1>2. num_transfers' = num_transfers /\ Ordered' = Ordered
    BY TransmitStep, TransmitLeaves DEF Ordered, Rx!LimitOf, NumRx, ToInt
  <1>3. /\ UNCHANGED s => MainPlace' = MainPlace
        /\ UNCHANGED t => ThreadPlace' = ThreadPlace
        /\ UNCHANGED process => ProcessPlace' = ProcessPlace
    BY <1>2 DEF MainPlace, ThreadPlace, ProcessPlace, process
  \* A step of the software, ...
  <1>4. ASSUME MainPlace <= MainPlace', ThreadPlace <= ThreadPlace',
               ProcessPlace <= ProcessPlace', UNCHANGED h,
               \/ MainPlace < MainPlace' \/ ThreadPlace < ThreadPlace'
               \/ ProcessPlace < ProcessPlace'
        PROVE  Onward
    <2>1. \A c \in Channels : SamplesOf(c)' = SamplesOf(c)
      BY <1>4 DEF SamplesOf, SentOf
    <2> QED BY <1>1, <1>4, <2>1, OnwardParts DEF NoneBack, OneFurther
  \* ... and of the hardware.
  <1>5. ASSUME UNCHANGED <<s, t, process>>,
               Len(frames) <= Len(frames'),
               offered + silent <= offered' + silent', arrived <= arrived',
               \A c \in Channels : SamplesOf(c) <= SamplesOf(c)',
               \/ Len(frames) < Len(frames')
               \/ offered + silent < offered' + silent' \/ arrived < arrived'
               \/ \E c \in Channels : SamplesOf(c) < SamplesOf(c)'
        PROVE  Onward
    <2>1. /\ MainPlace <= MainPlace' /\ ThreadPlace <= ThreadPlace'
          /\ ProcessPlace <= ProcessPlace'
      BY <1>1, <1>3, <1>5
    <2> QED BY <1>5, <2>1, OnwardParts DEF NoneBack, OneFurther
  <1>6. CASE Prepare
    <2>1. ThreadPlace < ThreadPlace'
      BY <1>6 DEF Prepare, Rx!InitChannel, Rx!SetSaveToFile, ThreadPlace
    <2>2. UNCHANGED <<s, process, h>>
      BY <1>6 DEF Prepare, Rx!InitChannel, Rx!SetSaveToFile, Rx!engine,
         txvars, loop, hardware
    <2>3. /\ MainPlace <= MainPlace' /\ ThreadPlace <= ThreadPlace'
          /\ ProcessPlace <= ProcessPlace' /\ UNCHANGED h
      BY <1>1, <1>3, <2>1, <2>2
    <2>4. Onward
      BY <1>4, <2>1, <2>3
    <2> QED BY <2>4
  <1>7. CASE PrepareTx \/ TransmitLoop
    <2>1. MainPlace < MainPlace'
      BY <1>7, LoopForward DEF PrepareTx, TransmitLoop
    <2>2. UNCHANGED t /\ UNCHANGED h
      BY <1>7, SoftwareLeaves DEF PrepareTx, TransmitLoop, rxvars
    <2>3. ProcessPlace <= ProcessPlace'
      BY <1>7 DEF PrepareTx, TransmitLoop, CrashedIf, process, ProcessPlace
    <2>4. /\ MainPlace <= MainPlace' /\ ThreadPlace <= ThreadPlace'
          /\ ProcessPlace <= ProcessPlace' /\ UNCHANGED h
      BY <1>1, <1>3, <2>1, <2>2, <2>3
    <2>5. Onward
      BY <1>4, <2>1, <2>4
    <2> QED BY <2>5
  <1>8. CASE StartRx
    <2>1. ThreadPlace < ThreadPlace' /\ ProcessPlace <= ProcessPlace'
      BY <1>8 DEF StartRx, Rx!Start, ThreadPlace, ProcessPlace
    <2>2. UNCHANGED s /\ UNCHANGED h
      BY <1>8 DEF StartRx, Rx!Start, Rx!engine, txvars, loop, hardware
    <2>3. /\ MainPlace <= MainPlace' /\ ThreadPlace <= ThreadPlace'
          /\ ProcessPlace <= ProcessPlace' /\ UNCHANGED h
      BY <1>1, <1>3, <2>1, <2>2
    <2>4. Onward
      BY <1>4, <2>1, <2>3
    <2> QED BY <2>4
  <1>9. CASE Receive
    <2>1. ThreadPlace < ThreadPlace'
      BY <1>2, <1>9, ThreadForward DEF Receive
    <2>2. UNCHANGED s
      BY <1>9 DEF Receive, txvars, loop
    <2>3. UNCHANGED h
      BY <1>9 DEF Receive, Rx!Thread, Rx!BeginBuffer, Rx!BeginCrash,
         Rx!WaitIdle, Rx!Finish, Rx!FinishOk, Rx!FinishFault, Rx!Save,
         Rx!StopCollected, Rx!Advance, Rx!End, Rx!HandOut, Rx!StartXfer,
         Rx!FinishXfer, Rx!engine, txvars, hardware
    <2>4. ProcessPlace <= ProcessPlace'
      BY <1>9 DEF Receive, CrashedIf, ProcessPlace
    <2>5. /\ MainPlace <= MainPlace' /\ ThreadPlace <= ThreadPlace'
          /\ ProcessPlace <= ProcessPlace' /\ UNCHANGED h
      BY <1>1, <1>3, <2>1, <2>2, <2>3, <2>4
    <2>6. Onward
      BY <1>4, <2>1, <2>5
    <2> QED BY <2>6
  <1>10. CASE Exit \/ Interrupt
    <2>1. ProcessPlace < ProcessPlace'
      BY <1>10 DEF Exit, Interrupt, ProcessPlace, IpInv, Joining
    <2>2. UNCHANGED <<s, t, h>>
      BY <1>10 DEF Exit, Interrupt, txvars, loop, rxvars, hardware
    <2>3. /\ MainPlace <= MainPlace' /\ ThreadPlace <= ThreadPlace'
          /\ ProcessPlace <= ProcessPlace' /\ UNCHANGED h
      BY <1>1, <1>3, <2>1, <2>2
    <2>4. Onward
      BY <1>4, <2>1, <2>3
    <2> QED BY <2>4
  <1>11. CASE MoveIn
    <2>1. UNCHANGED <<s, t, process, offered, silent, arrived>>
      BY <1>11, HardwareLeaves DEF MoveIn, rxvars
    <2>2. CASE Combine
      <3>1. Len(frames') = Len(frames) + 1
        BY <2>2, CombineSends
      <3>2. \A c \in Channels : SamplesOf(c)' = SamplesOf(c)
        <4>1. \A c \in Channels : SentOf(c)' = SentOf(c)
          BY <2>2, CombineSends
        <4>2. fetched' = fetched
          BY <2>2 DEF Combine
        <4> QED BY <4>1, <4>2 DEF SamplesOf
      <3> HIDE DEF s, t, h, SamplesOf
      <3> QED BY <1>1, <1>5, <2>1, <3>1, <3>2
    <2>3. ASSUME NEW d \in Channels, Engine(d) PROVE Onward
      <3>1. /\ SamplesOf(d)' = SamplesOf(d) + 1
            /\ \A c \in Channels : c # d => SamplesOf(c)' = SamplesOf(c)
        BY <2>3, EngineForward
      <3>2. frames' = frames
        BY <2>3, HardwareLeaves DEF Hardware
      <3>3. /\ SamplesOf(d) < SamplesOf(d)'
            /\ \A c \in Channels : SamplesOf(c) <= SamplesOf(c)'
        BY <1>1, <3>1
      <3> HIDE DEF s, t, h
      <3> QED BY <1>1, <1>5, <2>1, <3>2, <3>3
    <2> QED BY <1>11, <2>2, <2>3 DEF MoveIn, Hardware
  <1>12. CASE MoveOut \/ Answer \/ DetectNothing
    <2>1. UNCHANGED <<s, t, process, fetched, line, frames>>
      BY <1>12 DEF MoveOut, Answer, DetectNothing, Rx!Deliver, Rx!Offer,
         Rx!thread, txvars, loop, rxvars, hardware
    <2>2. /\ offered + silent <= offered' + silent' /\ arrived <= arrived'
          /\ \/ offered + silent < offered' + silent' \/ arrived < arrived'
      BY <1>1, <1>12 DEF MoveOut, Answer, DetectNothing, Rx!Deliver,
         Rx!Offer, Rx!engine, rxvars
    <2>3. \A c \in Channels : SamplesOf(c)' = SamplesOf(c)
      BY <2>1 DEF SamplesOf, SentOf
    <2> QED BY <1>1, <1>5, <2>1, <2>2, <2>3
  <1> QED BY <1>6, <1>7, <1>8, <1>9, <1>10, <1>11, <1>12
          DEF IpNext, Process

\* Nobody spins, whatever fails: every step takes main(), the thread or the
\* hardware further towards a bound that num_transfers sets, so that no run of
\* the program is endless.
THEOREM NeverSpins ==
  NumbersFit /\ IpSpec => []WithinReach /\ [][Onward]_ipvars
  <1>0. SUFFICES ASSUME NumbersFit
                 PROVE  IpSpec => []WithinReach /\ [][Onward]_ipvars
    OBVIOUS
  <1>1. IpInv /\ LiveInv /\ [IpNext]_ipvars => [Onward]_ipvars
    BY <1>0, ForwardStep
  <1> QED BY <1>1, IpInvariance, LiveInvariance, InReach, PTL DEF IpSpec

\* Nor does everybody wait for everybody: until the program ends main(), the
\* thread or the hardware can take a step, if nothing fails and every answer is
\* there, or if the waits time out on both sides.
THEOREM ProgramMovesOn ==
  NumbersFit /\ (NothingFails \/ WaitsTimeOut) /\ IpSpec => MovesOn
  <1>0. SUFFICES ASSUME NumbersFit, NothingFails \/ WaitsTimeOut
                 PROVE  IpSpec => MovesOn
    OBVIOUS
  <1>1. IpSpec => [](NoFaults => SteadyInv)
    <2>1. CASE NoFaults
      <3>1. TxSpec => []SteadyInv
        BY <2>1, SteadyInvariance
      <3> QED BY <3>1, Transmits, PTL
    <2>2. CASE ~NoFaults
      <3>1. NoFaults => SteadyInv
        BY <2>2
      <3> QED BY <3>1, PTL
    <2> QED BY <2>1, <2>2
  <1>2. IpInv /\ LiveInv /\ (NoFaults => SteadyInv) => NeverStuck
    BY <1>0, SomebodyCanGo
  <1>3. IpSpec => []NeverStuck
    BY <1>1, <1>2, IpInvariance, LiveInvariance, PTL
  <1>4. IpSpec => []WithinReach /\ [][Onward]_ipvars
    BY <1>0, NeverSpins
  <1>5. [Onward]_ipvars /\ NeverStuck' /\ WithinReach'
          => [Onward /\ NeverStuck' /\ WithinReach']_ipvars
    OBVIOUS
  <1> QED BY <1>3, <1>4, <1>5, PTL DEF MovesOn

=============================================================================
