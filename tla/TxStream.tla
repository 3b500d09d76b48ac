------------------------------ MODULE TxStream ------------------------------
(***************************************************************************)
(* The transmit side of ip_comm_test: the loop of main() reads a window of *)
(* the input file into the transmit buffers, starts a transfer on every    *)
(* channel, waits for every channel, and goes on.  Each channel has a DMA  *)
(* engine of its own that moves buffers, in the order they were started,   *)
(* to the input line of the signal processor, which combines one buffer of *)
(* every line into a frame.                                                *)
(*                                                                         *)
(* A buffer is written, and fetched by its engine, sample by sample: after *)
(* a failed wait both may go on at once, and a buffer that is torn between *)
(* two windows is sent.  The content of a sample is the number of the file *)
(* window it is from; its place in the window is its place in the buffer.  *)
(* Engine and signal processor are modelled from how main() uses them.     *)
(***************************************************************************)
EXTENDS Integers, Sequences

CONSTANTS
  NumChannels,      \* NUM_CHANNELS_TX, 8 in the application
  TxBufferCount,    \* TX_BUFFER_COUNT, 1 in the application
  SamplesPerBuffer, \* buf_size / sizeof(unsigned int)
  Arguments,        \* what num_transfers may be on the command line
  FaultStatuses,    \* failures FINISH_XFER may report in this instance
  FileMayFail,      \* whether fopen of the input file may fail
  InitMayFail       \* whether init() of a channel may fail

ASSUME TxAssumption ==
  /\ NumChannels \in Nat \ {0}
  /\ TxBufferCount \in Nat \ {0}
  /\ SamplesPerBuffer \in Nat \ {0}
  /\ Arguments \subseteq Nat
  /\ FaultStatuses \subseteq {"PROXY_BUSY", "PROXY_TIMEOUT", "PROXY_ERROR"}
  /\ FileMayFail \in BOOLEAN
  /\ InitMayFail \in BOOLEAN

VARIABLES
  \* main()
  main,               \* where main() is
  num_transfers,      \* of the command line
  i,                  \* transfers of the loop done
  cnt,                \* windows read, one for all buffers of a channel
  k,                  \* channel the inner loop is at
  sample_count,       \* samples written by misc_read_8chs_from_file()
  \* the dma_channel objects of the transmit channels
  mapped,             \* mapped[c]: ch.buf_ptr is not null
  tx_counter,
  tx_in_progress,
  tx_buffer_id,
  \* the shared buffers, the engines and the signal processor
  memory,             \* memory[c][b][s]: window of sample s in buffer b of c
  tx_owner,           \* tx_owner[c][b]: "app", "dma" (queued) or "done" (sent)
  tx_order,           \* tx_order[c]: buffers queued, first to send first
  fetched,            \* fetched[c]: samples fetched of the first of these
  line,               \* line[c]: buffers waiting in the signal processor
  frames              \* combined so far: one buffer of each channel

channels == <<mapped, tx_counter, tx_in_progress, tx_buffer_id>>
hardware == <<tx_owner, tx_order, fetched, line, frames>>
loop     == <<num_transfers, i, cnt, k, sample_count>>
txvars   == <<main, loop, channels, memory, hardware>>

Channels  == 1 .. NumChannels
TxBuffers == 0 .. TxBufferCount - 1
Samples   == 1 .. SamplesPerBuffer

NoWindow == -1      \* what a fresh buffer holds

TxInit ==
  /\ main = "init"
  /\ num_transfers \in Arguments
  /\ i = 0 /\ cnt = 0 /\ k = NumChannels /\ sample_count = 0
  /\ mapped = [c \in Channels |-> FALSE]
  /\ tx_counter = [c \in Channels |-> 0]
  /\ tx_in_progress = [c \in Channels |-> 0]
  /\ tx_buffer_id = [c \in Channels |-> 0]
  /\ memory = [c \in Channels |->
                 [b \in TxBuffers |-> [s \in Samples |-> NoWindow]]]
  /\ tx_owner = [c \in Channels |-> [b \in TxBuffers |-> "app"]]
  /\ tx_order = [c \in Channels |-> <<>>]
  /\ fetched = [c \in Channels |-> <<>>]
  /\ line = [c \in Channels |-> <<>>]
  /\ frames = <<>>

-----------------------------------------------------------------------------
(* The loop of main().                                                     *)

\* init() of the channels; main() does not look at the results.
InitChannels ==
  /\ main = "init"
  /\ mapped' \in IF InitMayFail THEN [Channels -> BOOLEAN]
                 ELSE {[c \in Channels |-> TRUE]}
  /\ tx_buffer_id' =
       [c \in Channels |-> IF mapped'[c] THEN TxBufferCount ELSE 0]
  /\ main' = "read"
  /\ UNCHANGED <<loop, tx_counter, tx_in_progress, memory, hardware>>

\* Mutant: one pass too many.
LoopDoneLate == i > num_transfers

LoopDone == i >= num_transfers

\* Mutant: every pass of the loop reads.
ReadDueAlways == TRUE

ReadDue == i % TxBufferCount = 0

AllMapped == \A c \in Channels : mapped[c]

ReadBegins == main = "read" /\ ~LoopDone /\ ReadDue

\* Place of a sample among those of all buffers of a channel, from 1 on.
PlaceOf(b, s) == b * SamplesPerBuffer + s

\* misc_read_8chs_from_file() opens the file and goes to the window ...
OpenFile ==
  /\ ReadBegins
  /\ AllMapped
  /\ main' = "fill"
  /\ UNCHANGED <<loop, channels, memory, hardware>>

\* ... and writes, or pads with zeros, the buffers of a channel one sample
\* after the other.  The channels of a sample are one step: their engines do
\* not see who comes first.
WriteSample ==
  /\ main = "fill"
  /\ memory' = [c \in Channels |-> [b \in TxBuffers |-> [s \in Samples |->
                  IF PlaceOf(b, s) = sample_count + 1
                  THEN cnt * TxBufferCount + b
                  ELSE memory[c][b][s]]]]
  /\ IF sample_count + 1 = TxBufferCount * SamplesPerBuffer
     THEN sample_count' = 0 /\ cnt' = cnt + 1 /\ main' = "start"
     ELSE sample_count' = sample_count + 1 /\ UNCHANGED <<cnt, main>>
  /\ UNCHANGED <<num_transfers, i, k, channels, hardware>>

\* Mutant: it clears the buffers if the file cannot be opened.
ClearedIfMissing ==
  memory' = [c \in Channels |->
               [b \in TxBuffers |-> [s \in Samples |-> NoWindow]]]

KeptIfMissing == UNCHANGED memory

\* It leaves them as they are if the file cannot be opened; main() does not
\* look at the result.
FileMissing ==
  /\ ReadBegins
  /\ FileMayFail
  /\ KeptIfMissing
  /\ cnt' = cnt + 1
  /\ main' = "start"
  /\ UNCHANGED <<num_transfers, i, k, sample_count, channels, hardware>>

\* The buffers of a channel whose init() failed are at the null pointer.
ReadCrash ==
  /\ ReadBegins
  /\ ~AllMapped
  /\ main' = "crashed"
  /\ UNCHANGED <<loop, channels, memory, hardware>>

\* The next window is in the buffers already.
SkipRead ==
  /\ main = "read"
  /\ ~LoopDone /\ ~ReadDue
  /\ main' = "start"
  /\ UNCHANGED <<loop, channels, memory, hardware>>

ReadFile == OpenFile \/ WriteSample \/ FileMissing \/ SkipRead

\* The inner loops run from the last channel to the first.
NextChannel(behind) ==
  /\ k' = IF k = 1 THEN NumChannels ELSE k - 1
  /\ main' = IF k = 1 THEN behind ELSE main

BufferOf(c) == tx_counter[c] % TxBufferCount

\* start_transfer() on channel k; the ioctl fails where open() did.
StartTransfer ==
  /\ main = "start"
  /\ tx_buffer_id' = [tx_buffer_id EXCEPT ![k] = BufferOf(k)]
  /\ \/ /\ tx_owner' = [tx_owner EXCEPT ![k][BufferOf(k)] = "dma"]
        /\ tx_order' = [tx_order EXCEPT ![k] = Append(@, BufferOf(k))]
     \/ ~mapped[k] /\ UNCHANGED <<tx_owner, tx_order>>
  /\ tx_in_progress' = [tx_in_progress EXCEPT ![k] = @ + 1]
  /\ NextChannel("wait")
  /\ UNCHANGED <<num_transfers, i, cnt, sample_count, mapped, tx_counter,
                 memory, fetched, line, frames>>

\* The end of one call of wait_for_transfer() in the loop.
Waited ==
  /\ NextChannel("read")
  /\ i' = IF k = 1 THEN i + 1 ELSE i
  /\ UNCHANGED <<num_transfers, cnt, sample_count, mapped, memory,
                 tx_buffer_id, tx_order, fetched, line, frames>>

\* Mutant: does not wait for the engine.
SentUnchecked == TRUE

\* FINISH_XFER returns once the buffer was sent.
Sent == tx_owner[k][tx_buffer_id[k]] = "done"

\* wait_for_transfer() on channel k succeeds.
WaitOk ==
  /\ main = "wait" /\ mapped[k]
  /\ tx_in_progress[k] > 0
  /\ Sent
  /\ tx_owner' = [tx_owner EXCEPT ![k][tx_buffer_id[k]] = "app"]
  /\ tx_in_progress' = [tx_in_progress EXCEPT ![k] = @ - 1]
  /\ tx_counter' = [tx_counter EXCEPT ![k] = @ + 1]
  /\ Waited

\* Mutant: a failed transfer is no longer in progress.
FailedReset == tx_in_progress' = [tx_in_progress EXCEPT ![k] = 0]

Failed == UNCHANGED tx_in_progress

\* It fails: the counters stay, and main() ignores the status.
WaitFault(status) ==
  /\ main = "wait" /\ mapped[k]
  /\ tx_in_progress[k] > 0
  /\ status # "PROXY_NO_ERROR"
  /\ Failed
  /\ UNCHANGED <<tx_owner, tx_counter>>
  /\ Waited

\* It looks for the status behind the null pointer.
WaitCrash ==
  /\ main = "wait" /\ ~mapped[k]
  /\ main' = "crashed"
  /\ UNCHANGED <<loop, channels, memory, hardware>>

LoopEnd ==
  /\ main = "read"
  /\ LoopDone
  /\ main' = "finish"
  /\ UNCHANGED <<loop, channels, memory, hardware>>

MainLoop ==
  \/ ReadFile \/ ReadCrash \/ StartTransfer
  \/ WaitOk \/ (\E s \in FaultStatuses : WaitFault(s)) \/ WaitCrash
  \/ LoopEnd

-----------------------------------------------------------------------------
(* The hardware.                                                           *)

\* What the engine of channel c has of its first queued buffer, with the next
\* sample as it is in the buffer now.
WithNext(c) ==
  Append(fetched[c], memory[c][Head(tx_order[c])][Len(fetched[c]) + 1])

\* The engine fetches a sample ...
Fetch(c) ==
  /\ tx_order[c] # <<>>
  /\ Len(fetched[c]) + 1 < SamplesPerBuffer
  /\ fetched' = [fetched EXCEPT ![c] = WithNext(c)]
  /\ UNCHANGED <<main, loop, channels, memory, tx_owner, tx_order, line,
                 frames>>

\* ... and with the last one has sent the buffer.
Send(c) ==
  /\ tx_order[c] # <<>>
  /\ Len(fetched[c]) + 1 = SamplesPerBuffer
  /\ line' = [line EXCEPT ![c] = Append(@, WithNext(c))]
  /\ fetched' = [fetched EXCEPT ![c] = <<>>]
  /\ tx_owner' = [tx_owner EXCEPT ![c][Head(tx_order[c])] = "done"]
  /\ tx_order' = [tx_order EXCEPT ![c] = Tail(@)]
  /\ UNCHANGED <<main, loop, channels, memory, frames>>

Engine(c) == Fetch(c) \/ Send(c)

\* The signal processor takes one buffer from every line.
Combine ==
  /\ \A c \in Channels : line[c] # <<>>
  /\ frames' = Append(frames, [c \in Channels |-> Head(line[c])])
  /\ line' = [c \in Channels |-> Tail(line[c])]
  /\ UNCHANGED <<main, loop, channels, memory, tx_owner, tx_order, fetched>>

Hardware == Combine \/ \E c \in Channels : Engine(c)

TxNext == InitChannels \/ MainLoop \/ Hardware

TxSpec == TxInit /\ [][TxNext]_txvars

-----------------------------------------------------------------------------
(* Properties.                                                             *)

Contents == [Samples -> Nat \union {NoWindow}]

TxTypeOK ==
  /\ main \in {"init", "read", "fill", "start", "wait", "finish", "crashed"}
  /\ num_transfers \in Arguments
  /\ i \in 0 .. num_transfers /\ cnt \in 0 .. num_transfers /\ k \in Channels
  /\ sample_count \in 0 .. TxBufferCount * SamplesPerBuffer - 1
  /\ mapped \in [Channels -> BOOLEAN]
  /\ tx_counter \in [Channels -> 0 .. num_transfers]
  /\ tx_in_progress \in [Channels -> 0 .. num_transfers]
  /\ tx_buffer_id \in [Channels -> 0 .. TxBufferCount]
  /\ memory \in [Channels -> [TxBuffers -> Contents]]
  /\ tx_owner \in [Channels -> [TxBuffers -> {"app", "dma", "done"}]]
  /\ \A c \in Channels : /\ tx_order[c] \in Seq(TxBuffers)
                         /\ line[c] \in Seq(Contents)
                         /\ fetched[c] \in Seq(Nat \union {NoWindow})
                         /\ Len(fetched[c]) < SamplesPerBuffer
  /\ frames \in Seq([Channels -> Contents])

\* Transfers of channel c started so far.
Started(c) ==
  i + (IF main = "wait" \/ (main = "start" /\ c > k) THEN 1 ELSE 0)

\* Even if waits fail, every transfer started is either counted as completed
\* or still in progress: a failed wait leaves its transfer in progress for
\* good, so that in_progress_count counts the failures between transfers.
Accounted ==
  main # "crashed" =>
    \A c \in Channels : tx_counter[c] + tx_in_progress[c] = Started(c)

\* Without failures no channel gets more than one transfer ahead of another,
\* wherever main(), the engines and the signal processor are.
SentOf(c) == Len(frames) + Len(line[c])

InStep == \A c, d \in Channels : SentOf(c) <= SentOf(d) + 1

\* Without failures the signal processor combines the windows of the file in
\* order, all channels of a frame from the same window and no buffer torn.
FramesInOrder ==
  \A n \in 1 .. Len(frames) :
    frames[n] = [c \in Channels |-> [s \in Samples |-> n - 1]]

\* Buffers that channel c has sent, oldest first.
WindowsOf(c) == [n \in 1 .. Len(frames) |-> frames[n][c]] \o line[c]

\* With one buffer for each channel, as in the application, the windows go out
\* in the order of the file on every channel and at every place of a buffer,
\* although failed waits and a missing file are ignored and the file may be
\* read into a buffer under its engine: a sample may be sent twice, or be
\* overwritten before it is sent, and a buffer may be torn between windows, but
\* no place of a buffer goes back to an older window.
NeverBackwards ==
  \A c \in Channels : \A n \in 2 .. Len(WindowsOf(c)) : \A s \in Samples :
    WindowsOf(c)[n - 1][s] <= WindowsOf(c)[n][s]

\* Without failures the file is read into a buffer only while the application
\* owns it: never under a transfer.
WritesOnlyOwned ==
  [][memory' # memory =>
       \A c \in Channels, b \in TxBuffers : tx_owner[c][b] = "app"]_txvars

=============================================================================
