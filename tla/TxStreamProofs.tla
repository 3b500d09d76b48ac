---------------------------- MODULE TxStreamProofs ----------------------------
(***************************************************************************)
(* The transmit loop, for any number of channels, buffers and windows.     *)
(***************************************************************************)
EXTENDS TxStream, FiniteSetTheorems, TLAPS

-----------------------------------------------------------------------------
(* The counters, whatever fails.                                           *)

\* The inner loops start at the last channel.
LoopInv ==
  /\ main \in {"init", "read", "fill", "start", "wait", "finish", "crashed"}
  /\ i \in Nat
  /\ k \in Channels
  /\ main \in {"init", "read", "fill", "finish"} => k = NumChannels
  /\ tx_counter \in [Channels -> Nat]
  /\ tx_in_progress \in [Channels -> Nat]
  /\ Accounted

LEMMA ChannelsOrdered ==
  /\ NumChannels \in Nat \ {0} /\ NumChannels \in Channels
  /\ \A c \in Channels : c \in Nat /\ 1 <= c /\ c <= NumChannels
  /\ \A c \in Channels : c # 1 => c - 1 \in Channels
  BY TxAssumption DEF Channels

\* What reading the file does to the loop and the channels: nothing.
LEMMA ReadSteps ==
  ASSUME ReadFile
  PROVE  /\ UNCHANGED <<num_transfers, i, k, mapped, tx_counter>>
         /\ UNCHANGED <<tx_in_progress, tx_buffer_id, tx_owner, tx_order>>
         /\ UNCHANGED <<fetched, line, frames>>
         /\ main \in {"read", "fill"} /\ main' \in {"fill", "start"}
  BY DEF ReadFile, OpenFile, WriteSample, FileMissing, SkipRead, ReadBegins,
     loop, channels, hardware

LEMMA InitLoop == TxInit => LoopInv
  BY ChannelsOrdered DEF TxInit, LoopInv, Accounted, Started

LEMMA StartLoop ==
  ASSUME LoopInv, StartTransfer
  PROVE  LoopInv'
  <1>1. /\ main = "start" /\ UNCHANGED <<i, tx_counter>>
        /\ tx_in_progress' = [tx_in_progress EXCEPT ![k] = @ + 1]
        /\ NextChannel("wait")
    BY DEF StartTransfer
  <1>2. CASE k = 1
    BY <1>1, <1>2, ChannelsOrdered DEF NextChannel, LoopInv, Accounted, Started
  <1>3. CASE k # 1
    BY <1>1, <1>3, ChannelsOrdered DEF NextChannel, LoopInv, Accounted, Started
  <1> QED BY <1>2, <1>3

\* One call of wait_for_transfer() leaves the sum as it is.
LEMMA WaitLoop ==
  ASSUME LoopInv, main = "wait", Waited,
         \/ UNCHANGED <<tx_counter, tx_in_progress>>
         \/ /\ tx_in_progress[k] > 0
            /\ tx_in_progress' = [tx_in_progress EXCEPT ![k] = @ - 1]
            /\ tx_counter' = [tx_counter EXCEPT ![k] = @ + 1]
  PROVE  LoopInv'
  <1>1. /\ tx_counter' \in [Channels -> Nat]
        /\ tx_in_progress' \in [Channels -> Nat]
        /\ \A c \in Channels : tx_counter'[c] + tx_in_progress'[c]
                                 = tx_counter[c] + tx_in_progress[c]
    BY DEF LoopInv
  <1>2. \A c \in Channels : tx_counter[c] + tx_in_progress[c] = i + 1
    BY DEF LoopInv, Accounted, Started
  <1>3. CASE k = 1
    BY <1>1, <1>2, <1>3, ChannelsOrdered
       DEF Waited, NextChannel, LoopInv, Accounted, Started
  <1>4. CASE k # 1
    BY <1>1, <1>2, <1>4, ChannelsOrdered
       DEF Waited, NextChannel, LoopInv, Accounted, Started
  <1> QED BY <1>3, <1>4

LEMMA NextLoop == LoopInv /\ [TxNext]_txvars => LoopInv'
  <1> SUFFICES ASSUME LoopInv, [TxNext]_txvars PROVE LoopInv'
    OBVIOUS
  <1>1. CASE InitChannels
    BY <1>1 DEF InitChannels, loop, LoopInv, Accounted, Started
  <1>2. CASE ReadFile
    <2>1. k \in Nat /\ k = NumChannels /\ \A c \in Channels : ~(c > k)
      BY <1>2, ReadSteps, ChannelsOrdered DEF LoopInv
    <2> QED BY <1>2, <2>1, ReadSteps DEF LoopInv, Accounted, Started
  <1>3. CASE ReadCrash \/ WaitCrash
    BY <1>3 DEF ReadCrash, WaitCrash, loop, channels, LoopInv, Accounted
  <1>4. CASE WaitOk
    BY <1>4, WaitLoop DEF WaitOk
  <1>5. CASE \E s \in FaultStatuses : WaitFault(s)
    BY <1>5, WaitLoop DEF WaitFault, Failed
  <1>6. CASE LoopEnd
    BY <1>6 DEF LoopEnd, loop, channels, LoopInv, Accounted, Started
  <1>7. CASE Hardware \/ UNCHANGED txvars
    BY <1>7 DEF Hardware, Engine, Combine, Fetch, Send, txvars, loop, channels,
       LoopInv, Accounted, Started
  <1> QED BY <1>1, <1>2, <1>3, <1>4, <1>5, <1>6, <1>7, StartLoop
          DEF TxNext, MainLoop

\* However many waits fail, the counters account for every transfer.
THEOREM TransfersAccounted == TxSpec => []Accounted
  <1>1. LoopInv => Accounted
    BY DEF LoopInv
  <1> QED BY InitLoop, NextLoop, <1>1, PTL DEF TxSpec

-----------------------------------------------------------------------------
(* Types, and how far the loop is, whatever fails.                         *)

Windows == Nat \union {NoWindow}

LineType ==
  /\ frames \in Seq([Channels -> Contents])
  /\ line \in [Channels -> Seq(Contents)]

TxShape ==
  /\ mapped \in [Channels -> BOOLEAN]
  /\ tx_buffer_id \in [Channels -> 0 .. TxBufferCount]
  /\ memory \in [Channels -> [TxBuffers -> Contents]]
  /\ tx_owner \in [Channels -> [TxBuffers -> {"app", "dma", "done"}]]
  /\ tx_order \in [Channels -> Seq(TxBuffers)]
  /\ fetched \in [Channels -> Seq(Windows)]
  /\ LineType
  /\ \A c \in Channels : tx_in_progress[c] > 0 => tx_buffer_id[c] \in TxBuffers
  /\ \A c \in Channels : /\ Len(fetched[c]) < SamplesPerBuffer
                         /\ tx_order[c] = <<>> => fetched[c] = <<>>

Bounds ==
  /\ num_transfers \in Arguments
  /\ i <= num_transfers
  /\ main = "init" => i = 0
  /\ main \in {"fill", "start", "wait"} => i < num_transfers
  /\ main = "finish" => i = num_transfers
  /\ cnt \in 0 .. num_transfers
  /\ main # "crashed" =>
       cnt <= i + (IF main \in {"start", "wait"} THEN 1 ELSE 0)
  /\ sample_count \in 0 .. TxBufferCount * SamplesPerBuffer - 1
  /\ main # "fill" => sample_count = 0

ShapeInv == LoopInv /\ TxShape /\ Bounds

LEMMA ReadingPositive ==
  /\ TxBufferCount * SamplesPerBuffer \in Nat
  /\ 0 < TxBufferCount * SamplesPerBuffer
  <1>1. ASSUME NEW n \in Nat \ {0}, NEW m \in Nat \ {0}
        PROVE  n * m \in Nat /\ 0 < n * m
    BY <1>1
  <1> QED BY <1>1, TxAssumption

LEMMA BufferInRange ==
  ASSUME LoopInv, NEW c \in Channels
  PROVE  BufferOf(c) \in TxBuffers
  BY TxAssumption DEF LoopInv, BufferOf, TxBuffers

LEMMA WholeBuffer ==
  ASSUME NEW t \in Seq(Windows), Len(t) = SamplesPerBuffer
  PROVE  t \in Contents
  <1>1. t \in [1 .. Len(t) -> Windows]
    OBVIOUS
  <1> QED BY <1>1 DEF Contents, Samples, Windows

\* What an engine fetches next, and when it has the whole buffer.
LEMMA NextTyped ==
  ASSUME TxShape, NEW c \in Channels, tx_order[c] # <<>>
  PROVE  /\ Head(tx_order[c]) \in TxBuffers
         /\ Tail(tx_order[c]) \in Seq(TxBuffers)
         /\ Len(tx_order[c]) \in Nat
         /\ Len(Tail(tx_order[c])) = Len(tx_order[c]) - 1
         /\ Len(fetched[c]) \in Nat /\ Len(fetched[c]) + 1 \in Samples
         /\ memory[c][Head(tx_order[c])][Len(fetched[c]) + 1] \in Windows
         /\ WithNext(c) \in Seq(Windows)
         /\ Len(WithNext(c)) = Len(fetched[c]) + 1
         /\ \A s \in 1 .. Len(fetched[c]) : WithNext(c)[s] = fetched[c][s]
         /\ WithNext(c)[Len(fetched[c]) + 1]
              = memory[c][Head(tx_order[c])][Len(fetched[c]) + 1]
         /\ Len(fetched[c]) + 1 = SamplesPerBuffer => WithNext(c) \in Contents
  <1> DEFINE o == tx_order[c]
             f == fetched[c]
             w == memory[c][Head(o)][Len(f) + 1]
  <1>1. o \in Seq(TxBuffers) /\ o # <<>>
    BY DEF TxShape
  <1>2. /\ Head(o) \in TxBuffers /\ Tail(o) \in Seq(TxBuffers)
        /\ Len(o) \in Nat /\ Len(Tail(o)) = Len(o) - 1
    <2> HIDE DEF o
    <2> QED BY <1>1
  <1>3. f \in Seq(Windows) /\ Len(f) \in Nat /\ Len(f) < SamplesPerBuffer
    BY DEF TxShape
  <1>4. Len(f) + 1 \in Samples
    <2> HIDE DEF f
    <2> QED BY <1>3, TxAssumption DEF Samples
  <1>5. w \in Windows
    <2>1. memory[c][Head(o)] \in Contents
      BY <1>2 DEF TxShape
    <2> HIDE DEF o, f
    <2> QED BY <1>4, <2>1 DEF Contents, Windows
  <1>6. WithNext(c) = Append(f, w)
    BY DEF WithNext
  <1> HIDE DEF o, f, w
  <1>7. /\ Append(f, w) \in Seq(Windows) /\ Len(Append(f, w)) = Len(f) + 1
        /\ \A s \in 1 .. Len(f) : Append(f, w)[s] = f[s]
        /\ Append(f, w)[Len(f) + 1] = w
    BY <1>3, <1>5
  <1>8. Len(f) + 1 = SamplesPerBuffer => Append(f, w) \in Contents
    BY <1>7, WholeBuffer
  <1> QED BY <1>2, <1>3, <1>4, <1>5, <1>6, <1>7, <1>8 DEF o, f, w

LEMMA InitShape == TxInit => ShapeInv
  <1> SUFFICES ASSUME TxInit PROVE ShapeInv
    OBVIOUS
  <1>1. TxShape
    <2>1. [s \in Samples |-> NoWindow] \in Contents
      BY DEF Contents
    <2>2. memory \in [Channels -> [TxBuffers -> Contents]]
      BY <2>1 DEF TxInit
    <2>3. fetched \in [Channels -> Seq(Windows)]
            /\ \A c \in Channels : Len(fetched[c]) < SamplesPerBuffer
      BY TxAssumption DEF TxInit
    <2>4. mapped \in [Channels -> BOOLEAN]
      BY DEF TxInit
    <2>5. /\ tx_buffer_id \in [Channels -> 0 .. TxBufferCount]
          /\ tx_owner \in [Channels -> [TxBuffers -> {"app", "dma", "done"}]]
          /\ \A c \in Channels : tx_in_progress[c] = 0
      BY TxAssumption DEF TxInit
    <2>6. /\ tx_order \in [Channels -> Seq(TxBuffers)]
          /\ \A c \in Channels : fetched[c] = <<>>
          /\ LineType
      BY DEF TxInit, LineType
    <2> QED BY <2>2, <2>3, <2>4, <2>5, <2>6 DEF TxShape
  <1>2. Bounds
    <2>1. num_transfers \in Nat
      BY TxAssumption DEF TxInit
    <2>2. 0 \in 0 .. TxBufferCount * SamplesPerBuffer - 1
      BY ReadingPositive
    <2> QED BY <2>1, <2>2 DEF TxInit, Bounds
  <1> QED BY <1>1, <1>2, InitLoop DEF ShapeInv

LEMMA ShapeStep ==
  ASSUME ShapeInv, [TxNext]_txvars
  PROVE  TxShape'
  <1> USE DEF ShapeInv
  <1>1. CASE InitChannels
    <2>0. mapped' \in [Channels -> BOOLEAN]
      BY <1>1 DEF InitChannels
    <2>1. tx_buffer_id' \in [Channels -> 0 .. TxBufferCount]
      <3>1. 0 \in 0 .. TxBufferCount /\ TxBufferCount \in 0 .. TxBufferCount
        BY TxAssumption
      <3> QED BY <1>1, <3>1 DEF InitChannels
    <2>2. \A c \in Channels : tx_in_progress[c] = 0
      BY <1>1 DEF InitChannels, LoopInv, Accounted, Started, Bounds
    <2> QED BY <1>1, <2>0, <2>1, <2>2 DEF InitChannels, hardware, TxShape,
            LineType
  <1>2. CASE ReadFile
    <2>1. memory' \in [Channels -> [TxBuffers -> Contents]]
      <3>1. CASE WriteSample
        <4>1. \A b \in TxBuffers : cnt * TxBufferCount + b \in Nat
          BY TxAssumption DEF Bounds, TxBuffers
        <4>2. \A c \in Channels, b \in TxBuffers, s \in Samples :
                memory[c][b][s] \in Nat \union {NoWindow}
          BY DEF TxShape, Contents
        <4> QED BY <3>1, <4>1, <4>2 DEF WriteSample, Contents
      <3>2. CASE UNCHANGED memory
        BY <3>2 DEF TxShape
      <3> QED BY <1>2, <3>1, <3>2 DEF ReadFile, OpenFile, FileMissing,
              KeptIfMissing, SkipRead
    <2> QED BY <1>2, <2>1, ReadSteps DEF TxShape, LineType
  <1>3. CASE StartTransfer
    <2>1. k \in Channels /\ BufferOf(k) \in TxBuffers
      BY BufferInRange DEF LoopInv
    <2>2. TxBuffers \subseteq 0 .. TxBufferCount
      BY TxAssumption DEF TxBuffers
    <2>3. /\ Append(tx_order[k], BufferOf(k)) \in Seq(TxBuffers)
          /\ Append(tx_order[k], BufferOf(k)) # <<>>
      <3>1. tx_order[k] \in Seq(TxBuffers)
        BY <2>1 DEF TxShape
      <3>2. ASSUME NEW t \in Seq(TxBuffers), NEW b \in TxBuffers
            PROVE  Append(t, b) \in Seq(TxBuffers) /\ Append(t, b) # <<>>
        <4>1. /\ Append(t, b) \in Seq(TxBuffers)
              /\ Len(Append(t, b)) = Len(t) + 1 /\ Len(t) \in Nat
          OBVIOUS
        <4>2. Len(Append(t, b)) # 0
          BY <4>1
        <4>3. Append(t, b) = <<>> => Len(Append(t, b)) = 0
          OBVIOUS
        <4> QED BY <4>1, <4>2, <4>3, Zenon
      <3> HIDE DEF BufferOf
      <3> QED BY <2>1, <3>1, <3>2
    <2> HIDE DEF BufferOf
    <2>4. tx_owner' \in [Channels -> [TxBuffers -> {"app", "dma", "done"}]]
      <3>1. tx_owner \in [Channels -> [TxBuffers -> {"app", "dma", "done"}]]
        BY DEF TxShape
      <3>2. \/ tx_owner' = [tx_owner EXCEPT ![k][BufferOf(k)] = "dma"]
            \/ tx_owner' = tx_owner
        BY <1>3 DEF StartTransfer
      <3> QED BY <2>1, <3>1, <3>2
    <2>7. /\ tx_order' \in [Channels -> Seq(TxBuffers)]
          /\ \A c \in Channels : tx_order'[c] = <<>> => tx_order[c] = <<>>
      BY <1>3, <2>1, <2>3 DEF StartTransfer, TxShape
    <2>6. tx_buffer_id' \in [Channels -> 0 .. TxBufferCount]
      BY <1>3, <2>1, <2>2 DEF StartTransfer, TxShape
    <2>5. \A c \in Channels :
            tx_in_progress'[c] > 0 => tx_buffer_id'[c] \in TxBuffers
      BY <1>3, <2>1 DEF StartTransfer, TxShape, LoopInv
    <2> QED BY <1>3, <2>4, <2>5, <2>6, <2>7
            DEF StartTransfer, TxShape, LineType
  <1>4. CASE WaitOk
    <2>1. /\ tx_owner' \in [Channels -> [TxBuffers -> {"app", "dma", "done"}]]
          /\ \A c \in Channels :
               tx_in_progress'[c] > 0 => tx_in_progress[c] > 0
      BY <1>4 DEF WaitOk, TxShape, LoopInv
    <2> QED BY <1>4, <2>1 DEF WaitOk, Waited, TxShape, LineType
  <1>5. CASE \E s \in FaultStatuses : WaitFault(s)
    BY <1>5 DEF WaitFault, Waited, Failed, TxShape, LineType
  <1>6. CASE ReadCrash \/ WaitCrash \/ LoopEnd \/ UNCHANGED txvars
    BY <1>6 DEF ReadCrash, WaitCrash, LoopEnd, txvars, channels, hardware,
       TxShape, LineType
  <1>7. ASSUME NEW c \in Channels, Send(c) PROVE TxShape'
    <2>1. /\ tx_order[c] # <<>> /\ Head(tx_order[c]) \in TxBuffers
          /\ Tail(tx_order[c]) \in Seq(TxBuffers)
          /\ WithNext(c) \in Contents
      BY <1>7, NextTyped DEF Send
    <2>2. Append(line[c], WithNext(c)) \in Seq(Contents)
      BY <2>1 DEF TxShape, LineType
    <2>3. /\ tx_owner' \in [Channels -> [TxBuffers -> {"app", "dma", "done"}]]
          /\ tx_order' \in [Channels -> Seq(TxBuffers)]
          /\ line' \in [Channels -> Seq(Contents)]
      BY <1>7, <2>1, <2>2 DEF Send, TxShape, LineType
    <2>4. /\ fetched' \in [Channels -> Seq(Windows)]
          /\ \A d \in Channels :
               \/ fetched'[d] = <<>>
               \/ fetched'[d] = fetched[d] /\ tx_order'[d] = tx_order[d]
      <3>1. <<>> \in Seq(Windows)
        OBVIOUS
      <3> QED BY <1>7, <3>1 DEF Send, TxShape
    <2>5. \A d \in Channels :
            /\ Len(fetched'[d]) < SamplesPerBuffer
            /\ tx_order'[d] = <<>> => fetched'[d] = <<>>
      BY <2>4, TxAssumption DEF TxShape
    <2> QED BY <1>7, <2>3, <2>4, <2>5 DEF Send, channels, TxShape, LineType
  <1>8. CASE Combine
    <2>1. \A c \in Channels : line[c] \in Seq(Contents) /\ line[c] # <<>>
      BY <1>8 DEF Combine, TxShape, LineType
    <2>2. [c \in Channels |-> Head(line[c])] \in [Channels -> Contents]
      BY <2>1
    <2>3. line' \in [Channels -> Seq(Contents)]
      BY <1>8, <2>1 DEF Combine
    <2>4. frames' \in Seq([Channels -> Contents])
      BY <1>8, <2>2 DEF Combine, TxShape, LineType
    <2> QED BY <1>8, <2>3, <2>4 DEF Combine, channels, TxShape, LineType
  <1>9. ASSUME NEW c \in Channels, Fetch(c) PROVE TxShape'
    <2>1. /\ tx_order[c] # <<>> /\ WithNext(c) \in Seq(Windows)
          /\ Len(WithNext(c)) < SamplesPerBuffer
      BY <1>9, NextTyped DEF Fetch
    <2>2. /\ fetched' \in [Channels -> Seq(Windows)]
          /\ \A d \in Channels :
               /\ Len(fetched'[d]) < SamplesPerBuffer
               /\ tx_order[d] = <<>> => fetched'[d] = <<>>
      BY <1>9, <2>1 DEF Fetch, TxShape
    <2> QED BY <1>9, <2>2 DEF Fetch, channels, TxShape, LineType
  <1> QED BY <1>1, <1>2, <1>3, <1>4, <1>5, <1>6, <1>7, <1>8, <1>9
          DEF TxNext, MainLoop, Hardware, Engine

LEMMA BoundsStep ==
  ASSUME ShapeInv, [TxNext]_txvars
  PROVE  Bounds'
  <1> USE DEF ShapeInv
  <1> DEFINE all == TxBufferCount * SamplesPerBuffer
  <1>0. /\ i \in Nat /\ num_transfers \in Nat /\ cnt \in Nat
        /\ all \in Nat /\ 0 < all
        /\ sample_count \in 0 .. all - 1
        /\ main # "fill" => sample_count = 0
    BY TxAssumption, ReadingPositive DEF LoopInv, Bounds
  <1>1. CASE InitChannels
    BY <1>1 DEF InitChannels, loop, Bounds
  <1>2. CASE ReadFile
    <2>1. CASE WriteSample
      <3>1. \/ sample_count + 1 = all /\ sample_count' = 0 /\ cnt' = cnt + 1
                 /\ main' = "start"
            \/ sample_count + 1 # all /\ sample_count' = sample_count + 1
                 /\ UNCHANGED <<cnt, main>>
        BY <2>1 DEF WriteSample
      <3>2. UNCHANGED <<num_transfers, i>> /\ main = "fill"
              /\ i < num_transfers /\ cnt <= i /\ num_transfers \in Arguments
        BY <1>0, <2>1 DEF WriteSample, Bounds
      <3>3. /\ sample_count' \in 0 .. all - 1
            /\ main' # "fill" => sample_count' = 0
        <4> HIDE DEF all
        <4> QED BY <1>0, <3>1, <3>2
      <3>4. cnt' \in 0 .. num_transfers
              /\ cnt' <= i + (IF main' \in {"start", "wait"} THEN 1 ELSE 0)
              /\ main' \in {"fill", "start"}
        <4> HIDE DEF all
        <4> QED BY <1>0, <3>1, <3>2
      <3> QED BY <1>0, <3>2, <3>3, <3>4 DEF Bounds
    <2>2. CASE OpenFile \/ SkipRead
      BY <1>0, <2>2 DEF OpenFile, SkipRead, ReadBegins, LoopDone, loop, Bounds
    <2>3. CASE FileMissing
      <3>1. UNCHANGED <<num_transfers, i, sample_count>> /\ cnt' = cnt + 1
              /\ main = "read" /\ main' = "start" /\ ~(i >= num_transfers)
        BY <2>3 DEF FileMissing, ReadBegins, LoopDone
      <3>2. i < num_transfers /\ cnt' \in 0 .. num_transfers /\ cnt' <= i + 1
        BY <1>0, <3>1 DEF Bounds
      <3> QED BY <1>0, <3>1, <3>2 DEF Bounds
    <2> QED BY <1>2, <2>1, <2>2, <2>3 DEF ReadFile
  <1> HIDE DEF all
  <1>3. CASE StartTransfer
    BY <1>0, <1>3 DEF StartTransfer, NextChannel, Bounds
  <1>4. CASE main = "wait" /\ Waited
    BY <1>0, <1>4 DEF Waited, NextChannel, Bounds
  <1>5. CASE LoopEnd
    BY <1>0, <1>5 DEF LoopEnd, LoopDone, loop, Bounds
  <1>6. CASE ReadCrash \/ WaitCrash
    BY <1>0, <1>6 DEF ReadCrash, WaitCrash, ReadBegins, loop, Bounds
  <1>7. CASE Hardware \/ UNCHANGED txvars
    BY <1>0, <1>7 DEF Hardware, Engine, Fetch, Send, Combine, txvars, loop,
       Bounds
  <1>8. \/ InitChannels \/ ReadFile \/ StartTransfer \/ ReadCrash \/ WaitCrash
        \/ LoopEnd \/ (main = "wait" /\ Waited) \/ Hardware \/ UNCHANGED txvars
    BY DEF TxNext, MainLoop, WaitOk, WaitFault
  <1> QED BY <1>1, <1>2, <1>3, <1>4, <1>5, <1>6, <1>7, <1>8

LEMMA NextShape == ShapeInv /\ [TxNext]_txvars => ShapeInv'
  BY NextLoop, ShapeStep, BoundsStep DEF ShapeInv

-----------------------------------------------------------------------------
(* What the signal processor gets.                                         *)

\* The windows of c when f is combined and l waits in the line.
Joint(f, l, c) == [n \in 1 .. Len(f) |-> f[n][c]] \o l

LEMMA JointElements ==
  ASSUME NEW f \in Seq([Channels -> Contents]), NEW l \in Seq(Contents),
         NEW c \in Channels
  PROVE  /\ Joint(f, l, c) \in Seq(Contents)
         /\ Len(Joint(f, l, c)) = Len(f) + Len(l)
         /\ \A n \in 1 .. Len(f) : Joint(f, l, c)[n] = f[n][c]
         /\ \A n \in Len(f) + 1 .. Len(f) + Len(l) :
              Joint(f, l, c)[n] = l[n - Len(f)]
  <1>1. [n \in 1 .. Len(f) |-> f[n][c]] \in Seq(Contents)
    OBVIOUS
  <1> QED BY <1>1 DEF Joint

LEMMA ConcatAppend ==
  ASSUME NEW s \in Seq(Contents), NEW l \in Seq(Contents), NEW w \in Contents
  PROVE  s \o Append(l, w) = Append(s \o l, w)
  <1>1. /\ s \o Append(l, w) \in Seq(Contents)
        /\ Append(s \o l, w) \in Seq(Contents)
        /\ Len(s) \in Nat /\ Len(l) \in Nat
        /\ Len(s \o Append(l, w)) = Len(s) + Len(l) + 1
        /\ Len(Append(s \o l, w)) = Len(s) + Len(l) + 1
    OBVIOUS
  <1>2. \A n \in 1 .. Len(s) + Len(l) + 1 :
          (s \o Append(l, w))[n] = Append(s \o l, w)[n]
    OBVIOUS
  <1> QED BY <1>1, <1>2

LEMMA SameElements ==
  ASSUME NEW s \in Seq(Contents), NEW t \in Seq(Contents), Len(s) = Len(t),
         \A n \in 1 .. Len(s) : s[n] = t[n]
  PROVE  s = t
  OBVIOUS

\* Combining a frame moves a window of c from one to the other.
LEMMA JointCombined ==
  ASSUME NEW f \in Seq([Channels -> Contents]), NEW l \in Seq(Contents),
         l # <<>>,
         NEW c \in Channels, NEW frame \in [Channels -> Contents],
         frame[c] = Head(l)
  PROVE  Joint(Append(f, frame), Tail(l), c) = Joint(f, l, c)
  <1> DEFINE g == Append(f, frame)
             t == Tail(l)
  <1>1. /\ g \in Seq([Channels -> Contents]) /\ Len(g) = Len(f) + 1
             /\ Len(f) \in Nat
        /\ \A n \in 1 .. Len(f) : g[n] = f[n]
        /\ g[Len(f) + 1] = frame
    OBVIOUS
  <1>2. /\ t \in Seq(Contents) /\ Len(t) = Len(l) - 1 /\ Len(l) \in Nat
             /\ Len(l) > 0
        /\ \A n \in 1 .. Len(l) - 1 : t[n] = l[n + 1]
        /\ frame[c] = l[1]
    OBVIOUS
  <1> HIDE DEF g, t
  <1> DEFINE before == Joint(f, l, c)
             after  == Joint(g, t, c)
  <1>a. /\ before \in Seq(Contents) /\ Len(before) = Len(f) + Len(l)
        /\ \A n \in 1 .. Len(f) : before[n] = f[n][c]
        /\ \A n \in Len(f) + 1 .. Len(f) + Len(l) : before[n] = l[n - Len(f)]
    BY JointElements, Zenon
  <1>b. /\ after \in Seq(Contents) /\ Len(after) = Len(g) + Len(t)
        /\ \A n \in 1 .. Len(g) : after[n] = g[n][c]
        /\ \A n \in Len(g) + 1 .. Len(g) + Len(t) : after[n] = t[n - Len(g)]
    BY <1>1, <1>2, JointElements, Zenon
  <1> HIDE DEF before, after
  <1>3. Len(after) = Len(before) /\ Len(before) = Len(f) + Len(l)
    BY <1>1, <1>2, <1>a, <1>b
  <1>4. ASSUME NEW n \in 1 .. Len(f) + Len(l)
        PROVE  after[n] = before[n]
    <2>1. CASE n <= Len(f)
      <3>1. n \in 1 .. Len(f) /\ n \in 1 .. Len(g)
        BY <1>1, <1>2, <2>1
      <3> QED BY <1>1, <1>a, <1>b, <3>1
    <2>2. CASE n = Len(f) + 1
      <3>1. n \in 1 .. Len(g) /\ n \in Len(f) + 1 .. Len(f) + Len(l)
              /\ n - Len(f) = 1
        BY <1>1, <1>2, <2>2
      <3>2. after[n] = g[n][c] /\ before[n] = l[n - Len(f)]
        BY <1>a, <1>b, <3>1
      <3> QED BY <1>1, <1>2, <2>2, <3>1, <3>2
    <2>3. CASE n > Len(f) + 1
      <3>1. /\ n \in Len(g) + 1 .. Len(g) + Len(t)
            /\ n \in Len(f) + 1 .. Len(f) + Len(l)
        BY <1>1, <1>2, <2>3
      <3>2. after[n] = t[n - Len(g)] /\ before[n] = l[n - Len(f)]
        BY <1>a, <1>b, <3>1
      <3>3. n - Len(g) \in 1 .. Len(l) - 1 /\ (n - Len(g)) + 1 = n - Len(f)
        BY <1>1, <1>2, <2>3
      <3> QED BY <1>2, <3>2, <3>3
    <2> QED BY <2>1, <2>2, <2>3, <1>1, <1>2
  <1>5. after = before
    <2>1. \A n \in 1 .. Len(after) : after[n] = before[n]
      BY <1>3, <1>4
    <2>2. after \in Seq(Contents) /\ before \in Seq(Contents)
      BY <1>a, <1>b
    <2> QED BY <1>3, <2>1, <2>2, SameElements, Zenon
  <1> QED BY <1>5 DEF g, t, after, before

LEMMA WindowsJoint ==
  ASSUME NEW c \in Channels
  PROVE  WindowsOf(c) = Joint(frames, line[c], c)
  BY DEF WindowsOf, Joint

LEMMA WindowsLength ==
  ASSUME LineType, NEW c \in Channels
  PROVE  /\ WindowsOf(c) \in Seq(Contents)
         /\ Len(WindowsOf(c)) = SentOf(c)
         /\ Len(frames) \in Nat /\ Len(frames) <= SentOf(c)
              /\ SentOf(c) \in Nat
         /\ \A n \in 1 .. Len(frames) : WindowsOf(c)[n] = frames[n][c]
  <1>1. /\ frames \in Seq([Channels -> Contents]) /\ line[c] \in Seq(Contents)
        /\ Len(frames) \in Nat /\ Len(line[c]) \in Nat
    BY DEF LineType
  <1>2. /\ Joint(frames, line[c], c) \in Seq(Contents)
        /\ Len(Joint(frames, line[c], c)) = Len(frames) + Len(line[c])
        /\ \A n \in 1 .. Len(frames) :
             Joint(frames, line[c], c)[n] = frames[n][c]
    BY <1>1, JointElements, Zenon
  <1>3. WindowsOf(c) = Joint(frames, line[c], c)
    BY WindowsJoint
  <1>4. /\ WindowsOf(c) \in Seq(Contents)
        /\ Len(WindowsOf(c)) = Len(frames) + Len(line[c])
        /\ \A n \in 1 .. Len(frames) : WindowsOf(c)[n] = frames[n][c]
    BY <1>2, <1>3, Zenon
  <1>5. SentOf(c) = Len(frames) + Len(line[c])
    BY DEF SentOf
  <1>6. Len(frames) <= SentOf(c) /\ SentOf(c) \in Nat
    BY <1>1, <1>5
  <1> QED BY <1>1, <1>4, <1>5, <1>6, Zenon

LEMMA CombineWindows ==
  ASSUME LineType, Combine
  PROVE  /\ LineType'
         /\ \A c \in Channels : WindowsOf(c)' = WindowsOf(c)
  <1> DEFINE frame == [d \in Channels |-> Head(line[d])]
  <1>1. /\ \A d \in Channels : line[d] \in Seq(Contents) /\ line[d] # <<>>
        /\ frames' = Append(frames, frame)
        /\ line' = [d \in Channels |-> Tail(line[d])]
    BY DEF Combine, LineType
  <1>2. frame \in [Channels -> Contents]
          /\ \A d \in Channels : frame[d] = Head(line[d])
    BY <1>1
  <1> HIDE DEF frame
  <1>3. LineType'
    BY <1>1, <1>2 DEF LineType
  <1>4. ASSUME NEW c \in Channels PROVE WindowsOf(c)' = WindowsOf(c)
    <2>1. WindowsOf(c)' = Joint(frames', line'[c], c)
      BY DEF WindowsOf, Joint
    <2>2. line'[c] = Tail(line[c])
      BY <1>1
    <2>3. Joint(Append(frames, frame), Tail(line[c]), c)
            = Joint(frames, line[c], c)
      BY <1>1, <1>2, JointCombined DEF LineType
    <2> QED BY <1>1, <2>1, <2>2, <2>3, WindowsJoint
  <1> QED BY <1>3, <1>4

\* Sending appends a window on one channel.
LEMMA SendWindows ==
  ASSUME TxShape, NEW c \in Channels, Send(c)
  PROVE  /\ LineType'
         /\ WindowsOf(c)' = Append(WindowsOf(c), WithNext(c))
         /\ \A d \in Channels \ {c} : WindowsOf(d)' = WindowsOf(d)
  <1> DEFINE w == WithNext(c)
  <1>1. line' = [line EXCEPT ![c] = Append(@, w)] /\ frames' = frames
          /\ w \in Contents
    BY NextTyped DEF Send
  <1>0. LineType
    BY DEF TxShape
  <1> HIDE DEF w
  <1>2. LineType' /\ line'[c] = Append(line[c], w)
        /\ \A d \in Channels \ {c} : line'[d] = line[d]
    BY <1>0, <1>1 DEF LineType
  <1>3. \A d \in Channels : WindowsOf(d)' = Joint(frames, line'[d], d)
    BY <1>1 DEF WindowsOf, Joint
  <1>4. [n \in 1 .. Len(frames) |-> frames[n][c]] \in Seq(Contents)
    BY <1>0 DEF LineType
  <1>5. Joint(frames, Append(line[c], w), c)
          = Append(Joint(frames, line[c], c), w)
    BY <1>0, <1>1, <1>4, ConcatAppend DEF Joint, LineType
  <1> QED BY <1>2, <1>3, <1>5, WindowsJoint DEF w

-----------------------------------------------------------------------------
(* One buffer for each channel, whatever fails.                            *)

\* At every place of a buffer, the window sent last is no newer than the one
\* the engine has fetched, that is no newer than the one in the buffer, and
\* that is older than the one to be read next, or is the one being read.
BackInv ==
  /\ TxBufferCount = 1
  /\ ShapeInv
  /\ \A c \in Channels, s \in Samples :
       memory[c][0][s] <= cnt /\ (main # "fill" => memory[c][0][s] < cnt)
  /\ \A c \in Channels : \A n \in 1 .. Len(WindowsOf(c)) : \A s \in Samples :
       WindowsOf(c)[n][s] <= memory[c][0][s]
  /\ \A c \in Channels : \A s \in 1 .. Len(fetched[c]) :
       fetched[c][s] <= memory[c][0][s]
  /\ \A c \in Channels : \A n \in 1 .. Len(WindowsOf(c)) :
       \A s \in 1 .. Len(fetched[c]) : WindowsOf(c)[n][s] <= fetched[c][s]
  /\ NeverBackwards

LEMMA OneBuffer == TxBufferCount = 1 => TxBuffers = {0}
  BY DEF TxBuffers

LEMMA BackTyped ==
  ASSUME BackInv, NEW c \in Channels
  PROVE  /\ LineType /\ cnt \in Nat
         /\ WindowsOf(c) \in Seq(Contents) /\ Len(WindowsOf(c)) \in Nat
         /\ \A n \in 1 .. Len(WindowsOf(c)) : \A s \in Samples :
              WindowsOf(c)[n][s] \in Int
         /\ \A s \in Samples : memory[c][0][s] \in Int
         /\ Len(fetched[c]) \in Nat
         /\ \A s \in 1 .. Len(fetched[c]) :
              s \in Samples /\ fetched[c][s] \in Int
  <1>1. LineType /\ TxShape /\ cnt \in Nat
    BY TxAssumption DEF BackInv, ShapeInv, TxShape, Bounds
  <1>2. WindowsOf(c) \in Seq(Contents)
    BY <1>1, WindowsLength
  <1>3. /\ Len(WindowsOf(c)) \in Nat
        /\ \A n \in 1 .. Len(WindowsOf(c)) : WindowsOf(c)[n] \in Contents
    BY <1>2
  <1>4. memory[c][0] \in Contents
    BY <1>1, OneBuffer DEF BackInv, TxShape
  <1>5. \A w \in Contents : \A s \in Samples : w[s] \in Int
    BY DEF Contents, NoWindow
  <1>6. fetched[c] \in Seq(Windows) /\ Len(fetched[c]) < SamplesPerBuffer
    BY <1>1 DEF TxShape
  <1>7. /\ Len(fetched[c]) \in Nat
        /\ \A s \in 1 .. Len(fetched[c]) : fetched[c][s] \in Windows
    BY <1>6
  <1>8. \A s \in 1 .. Len(fetched[c]) : s \in Samples
    BY <1>6, <1>7, TxAssumption DEF Samples
  <1>9. \A w \in Windows : w \in Int
    BY DEF Windows, NoWindow
  <1> QED BY <1>1, <1>2, <1>3, <1>4, <1>5, <1>7, <1>8, <1>9, Zenon

LEMMA InitBack == TxBufferCount = 1 /\ TxInit => BackInv
  <1> SUFFICES ASSUME TxBufferCount = 1, TxInit PROVE BackInv
    OBVIOUS
  <1>1. /\ LineType /\ cnt = 0
        /\ \A c \in Channels, s \in Samples : memory[c][0][s] < 0
        /\ \A c \in Channels : Len(fetched[c]) = 0
    BY OneBuffer DEF TxInit, LineType, NoWindow
  <1>2. ASSUME NEW c \in Channels
        PROVE  WindowsOf(c) \in Seq(Contents) /\ Len(WindowsOf(c)) = 0
    <2>1. SentOf(c) = 0
      BY DEF TxInit, SentOf
    <2> QED BY <1>1, <2>1, WindowsLength
  <1>3. \A c \in Channels, s \in Samples :
          memory[c][0][s] <= cnt /\ memory[c][0][s] < cnt
    <2>1. \A c \in Channels, s \in Samples : memory[c][0][s] = NoWindow
      BY OneBuffer DEF TxInit
    <2> QED BY <1>1, <2>1 DEF NoWindow
  <1> QED BY <1>1, <1>2, <1>3, InitShape DEF BackInv, NeverBackwards

\* Steps that fetch and send nothing, and write windows no older than before.
LEMMA QuietBack ==
  ASSUME BackInv, ShapeInv', UNCHANGED <<fetched, frames, line>>,
         \A c \in Channels, s \in Samples :
           /\ memory[c][0][s] <= memory'[c][0][s]
           /\ memory'[c][0][s] <= cnt'
           /\ main' # "fill" => memory'[c][0][s] < cnt'
  PROVE  BackInv'
  <1>1. \A c \in Channels : WindowsOf(c)' = WindowsOf(c)
    BY DEF WindowsOf
  <1>2. ASSUME NEW c \in Channels, NEW s \in Samples
        PROVE  memory'[c][0][s] \in Int
    <2>1. memory'[c][0] \in Contents
      BY OneBuffer DEF BackInv, ShapeInv, TxShape
    <2> QED BY <2>1 DEF Contents, NoWindow
  <1>3. ASSUME NEW c \in Channels, NEW n \in 1 .. Len(WindowsOf(c)),
               NEW s \in Samples
        PROVE  WindowsOf(c)[n][s] <= memory'[c][0][s]
    <2>1. WindowsOf(c)[n][s] \in Int /\ memory[c][0][s] \in Int
      BY BackTyped
    <2>2. WindowsOf(c)[n][s] <= memory[c][0][s]
      BY DEF BackInv
    <2> QED BY <1>2, <2>1, <2>2
  <1>4. ASSUME NEW c \in Channels, NEW s \in 1 .. Len(fetched[c])
        PROVE  fetched[c][s] <= memory'[c][0][s]
    <2>1. s \in Samples /\ fetched[c][s] \in Int /\ memory[c][0][s] \in Int
      BY BackTyped
    <2>2. fetched[c][s] <= memory[c][0][s]
      BY DEF BackInv
    <2> QED BY <1>2, <2>1, <2>2
  <1> QED BY <1>1, <1>3, <1>4 DEF BackInv, NeverBackwards

\* A new window is newer than all that was sent.
LEMMA ReadBack ==
  ASSUME BackInv, ShapeInv', ReadFile
  PROVE  BackInv'
  <1>1. /\ UNCHANGED <<fetched, frames, line>>
        /\ TxBuffers = {0} /\ TxBufferCount = 1 /\ cnt \in Nat
    BY ReadSteps, OneBuffer, TxAssumption DEF BackInv, ShapeInv, Bounds
  <1>2. ASSUME NEW c \in Channels, NEW s \in Samples
        PROVE  /\ memory[c][0][s] <= memory'[c][0][s]
               /\ memory'[c][0][s] <= cnt'
               /\ main' # "fill" => memory'[c][0][s] < cnt'
    <2>1. /\ memory[c][0][s] \in Int /\ memory[c][0][s] <= cnt
          /\ main # "fill" => memory[c][0][s] < cnt
      BY BackTyped DEF BackInv
    <2>2. CASE WriteSample
      <3>1. memory'[c][0][s] = cnt \/ memory'[c][0][s] = memory[c][0][s]
        BY <1>1, <2>2 DEF WriteSample
      <3>2. main = "fill" /\ \/ cnt' = cnt + 1
                             \/ cnt' = cnt /\ main' = "fill"
        BY <2>2 DEF WriteSample
      <3> QED BY <1>1, <2>1, <3>1, <3>2
    <2>3. CASE OpenFile \/ SkipRead
      BY <2>1, <2>3 DEF OpenFile, SkipRead, ReadBegins, loop
    <2>4. CASE FileMissing
      BY <1>1, <2>1, <2>4 DEF FileMissing, KeptIfMissing, ReadBegins
    <2> QED BY <2>2, <2>3, <2>4 DEF ReadFile
  <1> QED BY <1>1, <1>2, QuietBack

LEMMA FetchBack ==
  ASSUME BackInv, ShapeInv', NEW c \in Channels, Fetch(c)
  PROVE  BackInv'
  <1> DEFINE f == fetched[c]
             w == memory[c][0][Len(f) + 1]
  <1>1. UNCHANGED <<main, cnt, memory, frames, line>>
    BY DEF Fetch, loop
  <1>2. \A d \in Channels : WindowsOf(d)' = WindowsOf(d)
    BY <1>1 DEF WindowsOf
  <1>3. \A d \in Channels : d # c => fetched'[d] = fetched[d]
    BY DEF Fetch, BackInv, ShapeInv, TxShape
  <1>4. /\ fetched'[c] = WithNext(c) /\ Len(f) \in Nat
        /\ Len(f) + 1 \in Samples
        /\ Len(WithNext(c)) = Len(f) + 1
        /\ \A s \in 1 .. Len(f) : WithNext(c)[s] = f[s]
        /\ WithNext(c)[Len(f) + 1] = w
    BY NextTyped, OneBuffer DEF Fetch, BackInv, ShapeInv, TxShape
  <1> DEFINE new == WithNext(c)
  <1>5. ASSUME NEW s \in 1 .. Len(new)
        PROVE  new[s] <= memory[c][0][s]
    <2>1. s \in 1 .. Len(f) \/ s = Len(f) + 1
      <3> HIDE DEF f, new
      <3> QED BY <1>4 DEF new
    <2>2. s \in 1 .. Len(f) => new[s] <= memory[c][0][s]
      BY <1>4 DEF BackInv
    <2>3. s = Len(f) + 1 => new[s] <= memory[c][0][s]
      <3>1. w \in Int
        BY <1>4, BackTyped
      <3>2. w <= w
        <4> HIDE DEF w
        <4> QED BY <3>1
      <3> QED BY <1>4, <3>2
    <2> QED BY <2>1, <2>2, <2>3
  <1>6. ASSUME NEW s \in 1 .. Len(new), NEW n \in 1 .. Len(WindowsOf(c))
        PROVE  WindowsOf(c)[n][s] <= new[s]
    <2>1. s \in 1 .. Len(f) \/ s = Len(f) + 1
      <3> HIDE DEF f, new
      <3> QED BY <1>4 DEF new
    <2>2. s \in 1 .. Len(f) => WindowsOf(c)[n][s] <= new[s]
      BY <1>4 DEF BackInv
    <2>3. s = Len(f) + 1 => WindowsOf(c)[n][s] <= new[s]
      BY <1>4 DEF BackInv
    <2> QED BY <2>1, <2>2, <2>3
  <1> HIDE DEF f, w
  <1> QED BY <1>1, <1>2, <1>3, <1>4, <1>5, <1>6
          DEF BackInv, NeverBackwards, new

\* The engine sends what it has fetched.
LEMMA SendBack ==
  ASSUME BackInv, ShapeInv', NEW c \in Channels, Send(c)
  PROVE  BackInv'
  <1> DEFINE f == fetched[c]
             w == WithNext(c)
  <1>1. /\ LineType'
        /\ WindowsOf(c)' = Append(WindowsOf(c), w)
        /\ \A d \in Channels \ {c} : WindowsOf(d)' = WindowsOf(d)
    BY SendWindows DEF BackInv, ShapeInv
  <1>2. /\ UNCHANGED <<main, cnt, memory>>
        /\ Len(fetched'[c]) = 0
        /\ \A d \in Channels : d # c => fetched'[d] = fetched[d]
    BY DEF Send, loop, BackInv, ShapeInv, TxShape
  <1>3. /\ w \in Contents /\ Len(f) \in Nat /\ Len(f) + 1 = SamplesPerBuffer
        /\ \A s \in 1 .. Len(f) : w[s] = f[s]
        /\ w[Len(f) + 1] = memory[c][0][Len(f) + 1]
    BY NextTyped, OneBuffer DEF Send, BackInv, ShapeInv, TxShape
  <1>4. ASSUME NEW s \in Samples
        PROVE  /\ w[s] <= memory[c][0][s]
               /\ \A n \in 1 .. Len(WindowsOf(c)) : WindowsOf(c)[n][s] <= w[s]
    <2>1. s \in 1 .. Len(f) \/ s = Len(f) + 1
      <3> HIDE DEF f, w
      <3> QED BY <1>3 DEF Samples
    <2>2. CASE s \in 1 .. Len(f)
      BY <1>3, <2>2 DEF BackInv
    <2>3. CASE s = Len(f) + 1
      <3>1. memory[c][0][s] \in Int /\ w[s] = memory[c][0][s]
        BY <1>3, <2>3, BackTyped
      <3>2. memory[c][0][s] <= memory[c][0][s]
        BY <3>1
      <3>3. \A n \in 1 .. Len(WindowsOf(c)) :
              WindowsOf(c)[n][s] <= memory[c][0][s]
        BY DEF BackInv
      <3> QED BY <3>1, <3>2, <3>3
    <2> QED BY <2>1, <2>2, <2>3
  <1> DEFINE old == WindowsOf(c)
             new == WindowsOf(c)'
  <1>5. old \in Seq(Contents) /\ new = Append(old, w)
    BY <1>1, BackTyped
  <1>6. /\ \A n \in 1 .. Len(old) : \A s \in Samples :
             old[n][s] <= memory[c][0][s]
        /\ \A n \in 2 .. Len(old) : \A s \in Samples :
             old[n - 1][s] <= old[n][s]
    BY DEF BackInv, NeverBackwards
  <1> HIDE DEF old, new, f, w
  <1>7. /\ Len(old) \in Nat /\ Len(new) = Len(old) + 1
        /\ \A n \in 1 .. Len(old) : new[n] = old[n]
        /\ new[Len(old) + 1] = w
    BY <1>3, <1>5
  <1>8. ASSUME NEW n \in 1 .. Len(new), NEW s \in Samples
        PROVE  new[n][s] <= memory[c][0][s]
    <2>1. CASE n \in 1 .. Len(old)
      BY <1>6, <1>7, <2>1
    <2>2. CASE n = Len(old) + 1
      BY <1>4, <1>7, <2>2
    <2> QED BY <1>7, <2>1, <2>2
  <1>9. ASSUME NEW n \in 2 .. Len(new), NEW s \in Samples
        PROVE  new[n - 1][s] <= new[n][s]
    <2>1. CASE n \in 2 .. Len(old)
      <3>1. n \in 1 .. Len(old) /\ n - 1 \in 1 .. Len(old)
        BY <1>7, <2>1
      <3> QED BY <1>6, <1>7, <2>1, <3>1
    <2>2. CASE n = Len(old) + 1
      <3>1. n - 1 \in 1 .. Len(old) /\ n - 1 = Len(old)
        BY <1>7, <2>2
      <3>2. new[n] = w /\ new[n - 1] = old[n - 1]
        BY <1>7, <2>2, <3>1
      <3> QED BY <1>4, <3>1, <3>2 DEF old
    <2> QED BY <1>7, <2>1, <2>2
  <1>10. \A d \in Channels : d # c =>
           /\ \A n \in 1 .. Len(WindowsOf(d)') : \A s \in Samples :
                WindowsOf(d)'[n][s] <= memory'[d][0][s]
           /\ \A n \in 1 .. Len(WindowsOf(d)') :
                \A s \in 1 .. Len(fetched'[d]) :
                  WindowsOf(d)'[n][s] <= fetched'[d][s]
           /\ \A s \in 1 .. Len(fetched'[d]) :
                fetched'[d][s] <= memory'[d][0][s]
           /\ \A n \in 2 .. Len(WindowsOf(d)') : \A s \in Samples :
                WindowsOf(d)'[n - 1][s] <= WindowsOf(d)'[n][s]
    BY <1>1, <1>2 DEF BackInv, NeverBackwards
  <1>11. /\ \A n \in 1 .. Len(WindowsOf(c)') : \A s \in Samples :
              WindowsOf(c)'[n][s] <= memory'[c][0][s]
         /\ \A n \in 2 .. Len(WindowsOf(c)') : \A s \in Samples :
              WindowsOf(c)'[n - 1][s] <= WindowsOf(c)'[n][s]
         /\ \A s : s \notin 1 .. Len(fetched'[c])
    BY <1>2, <1>8, <1>9 DEF new
  <1>12. \A d \in Channels, s \in Samples :
           /\ memory'[d][0][s] <= cnt'
           /\ main' # "fill" => memory'[d][0][s] < cnt'
    BY <1>2 DEF BackInv
  <1> QED BY <1>10, <1>11, <1>12 DEF BackInv, NeverBackwards

LEMMA CombineBack ==
  ASSUME BackInv, ShapeInv', Combine
  PROVE  BackInv'
  <1>1. \A c \in Channels : WindowsOf(c)' = WindowsOf(c)
    BY CombineWindows DEF BackInv, ShapeInv, TxShape
  <1>2. UNCHANGED <<main, cnt, memory, fetched>>
    BY DEF Combine, loop
  <1> QED BY <1>1, <1>2 DEF BackInv, NeverBackwards

LEMMA NextBack == BackInv /\ [TxNext]_txvars => BackInv'
  <1> SUFFICES ASSUME BackInv, [TxNext]_txvars PROVE BackInv'
    OBVIOUS
  <1>0. ShapeInv'
    BY NextShape DEF BackInv
  <1>1. CASE ReadFile
    BY <1>0, <1>1, ReadBack
  <1>2. CASE /\ UNCHANGED <<cnt, memory, fetched, frames, line>>
             /\ main = "fill" => main' = "fill"
    <2>1. ASSUME NEW c \in Channels, NEW s \in Samples
          PROVE  /\ memory[c][0][s] <= memory'[c][0][s]
                 /\ memory'[c][0][s] <= cnt'
                 /\ main' # "fill" => memory'[c][0][s] < cnt'
      <3>1. memory[c][0][s] \in Int
        BY BackTyped
      <3>2. memory[c][0][s] <= memory[c][0][s]
        BY <3>1
      <3> QED BY <1>2, <3>2 DEF BackInv
    <2> QED BY <1>0, <1>2, <2>1, QuietBack
  <1>3. CASE InitChannels \/ ReadCrash \/ WaitCrash \/ LoopEnd
    BY <1>2, <1>3 DEF InitChannels, ReadCrash, ReadBegins, WaitCrash, LoopEnd,
       hardware, loop
  <1>4. CASE \/ StartTransfer \/ WaitOk
             \/ (\E s \in FaultStatuses : WaitFault(s)) \/ UNCHANGED txvars
    BY <1>2, <1>4 DEF StartTransfer, WaitOk, WaitFault, Waited, txvars, loop,
       hardware
  <1>5. CASE Combine
    BY <1>0, <1>5, CombineBack
  <1>6. CASE \E c \in Channels : Engine(c)
    BY <1>0, <1>6, FetchBack, SendBack DEF Engine
  <1> QED BY <1>1, <1>3, <1>4, <1>5, <1>6 DEF TxNext, MainLoop, Hardware

\* With one buffer for each channel no place of a buffer ever goes back to an
\* older window, although the loop ignores failed waits and a missing file, and
\* may write a buffer under its engine.
THEOREM WindowsAscend == TxBufferCount = 1 /\ TxSpec => []NeverBackwards
  <1>1. BackInv => NeverBackwards
    BY DEF BackInv
  <1> QED BY InitBack, NextBack, <1>1, PTL DEF TxSpec

-----------------------------------------------------------------------------
(* Without failures, for any number of buffers.                            *)

NoFaults == FaultStatuses = {} /\ FileMayFail = FALSE

\* Channel c has been started in this pass of the loop, and not waited for.
Busy(c) == (main = "start" /\ c > k) \/ (main = "wait" /\ c <= k)

\* The owners of the buffers of c, if the one in use belongs to who.
OwnedBy(c, who) == [b \in TxBuffers |-> IF b = BufferOf(c) THEN who ELSE "app"]

Resting(c) ==
  /\ tx_order[c] = <<>>
  /\ fetched[c] = <<>>
  /\ tx_owner[c] = [b \in TxBuffers |-> "app"]
  /\ SentOf(c) = tx_counter[c]

Queued(c) ==
  /\ tx_buffer_id[c] = BufferOf(c)
  /\ tx_order[c] = <<BufferOf(c)>>
  /\ tx_owner[c] = OwnedBy(c, "dma")
  /\ \A s \in 1 .. Len(fetched[c]) : fetched[c][s] = tx_counter[c]
  /\ SentOf(c) = tx_counter[c]

Gone(c) ==
  /\ tx_buffer_id[c] = BufferOf(c)
  /\ tx_order[c] = <<>>
  /\ fetched[c] = <<>>
  /\ tx_owner[c] = OwnedBy(c, "done")
  /\ SentOf(c) = tx_counter[c] + 1

Steady(c) == IF Busy(c) THEN Queued(c) \/ Gone(c) ELSE Resting(c)

\* All channels are in pass i of the loop.
SamePass ==
  \A c \in Channels :
    tx_counter[c] = i + (IF main = "wait" /\ c > k THEN 1 ELSE 0)

\* The buffers hold the windows before cnt * TxBufferCount, and i is among
\* them from the reading on.  While the file is read the places behind are
\* those of the next windows.
Position ==
  /\ main = "init" => cnt = 0
  /\ main \in {"init", "read", "fill"} =>
       i <= cnt * TxBufferCount /\ cnt * TxBufferCount - TxBufferCount < i
  /\ main \in {"start", "wait"} =>
       i < cnt * TxBufferCount /\ cnt * TxBufferCount - TxBufferCount <= i
  /\ main = "fill" =>
       /\ AllMapped /\ i = cnt * TxBufferCount
       /\ \A c \in Channels, b \in TxBuffers, s \in Samples :
            PlaceOf(b, s) <= sample_count =>
              memory[c][b][s] = cnt * TxBufferCount + b
  /\ cnt > 0 /\ main # "fill" =>
       /\ AllMapped
       /\ \A c \in Channels, b \in TxBuffers, s \in Samples :
            memory[c][b][s] = cnt * TxBufferCount - TxBufferCount + b

Whole(w) == [s \in Samples |-> w]

InOrder ==
  \A c \in Channels :
    \A n \in 1 .. Len(WindowsOf(c)) : WindowsOf(c)[n] = Whole(n - 1)

SteadyInv ==
  /\ NoFaults
  /\ ShapeInv
  /\ SamePass
  /\ Position
  /\ \A c \in Channels : Steady(c)
  /\ InOrder

LEMMA SteadyTyped ==
  ASSUME SteadyInv
  PROVE  /\ LoopInv /\ TxShape /\ LineType /\ Bounds
         /\ i \in Nat /\ cnt \in Nat /\ k \in Channels /\ k \in Nat
         /\ cnt * TxBufferCount \in Nat
         /\ TxBufferCount \in Nat \ {0}
  <1>1. LoopInv /\ TxShape /\ LineType /\ Bounds
    BY DEF SteadyInv, ShapeInv, TxShape
  <1>2. i \in Nat /\ cnt \in Nat /\ k \in Channels /\ k \in Nat
    BY <1>1, ChannelsOrdered DEF LoopInv, Bounds
  <1>3. \A n \in Nat, m \in Nat \ {0} : n * m \in Nat
    OBVIOUS
  <1> QED BY <1>1, <1>2, <1>3, TxAssumption

\* A sample has a place among those of all buffers, none behind the last.
LEMMA PlaceBound ==
  ASSUME NEW b \in TxBuffers, NEW s \in Samples
  PROVE  /\ PlaceOf(b, s) \in Nat /\ 1 <= PlaceOf(b, s)
         /\ PlaceOf(b, s) <= TxBufferCount * SamplesPerBuffer
  <1> DEFINE n == SamplesPerBuffer
             m == TxBufferCount
  <1>1. /\ n \in Nat /\ m \in Nat /\ b \in Nat /\ b + 1 <= m
        /\ s \in Nat /\ 1 <= s /\ s <= n
    BY TxAssumption DEF TxBuffers, Samples
  <1>2. b * n \in Nat /\ (b + 1) * n = b * n + n
    BY <1>1
  <1>3. (b + 1) * n <= m * n
    <2> HIDE DEF n, m
    <2>1. PICK d \in Nat : m = (b + 1) + d
      <3>1. m - (b + 1) \in Nat /\ m = (b + 1) + (m - (b + 1))
        BY <1>1
      <3> QED BY <3>1
    <2>2. m * n = (b + 1) * n + d * n /\ d * n \in Nat
             /\ (b + 1) * n \in Nat
      BY <1>1, <2>1
    <2> QED BY <2>2
  <1>4. m * n \in Nat
    BY <1>1
  <1> HIDE DEF n, m
  <1>5. b * n + s <= m * n
    BY <1>1, <1>2, <1>3, <1>4
  <1>6. PlaceOf(b, s) = b * n + s
    BY DEF PlaceOf, n
  <1> QED BY <1>1, <1>2, <1>5, <1>6 DEF n, m

LEMMA Remainder ==
  ASSUME NEW q \in Nat, NEW n \in Nat \ {0}, NEW r \in 0 .. n - 1
  PROVE  (q * n + r) % n = r
  <1> DEFINE a == q * n + r
             d == a \div n
             m == a % n
  <1>1. q * n \in Nat
    OBVIOUS
  <1>2. /\ a \in Nat /\ d \in Int /\ m \in 0 .. n - 1
        /\ a = n * d + m
    BY <1>1
  <1>3. a = q * n + r
    OBVIOUS
  <1> HIDE DEF a, d, m
  <1>4. n * d + m = n * q + r
    BY <1>2, <1>3
  <1>5. n * (d - q) = r - m
    BY <1>2, <1>4
  <1>6. CASE d - q >= 1
    BY <1>2, <1>5, <1>6
  <1>7. CASE d - q <= -1
    BY <1>2, <1>5, <1>7
  <1>8. CASE d = q
    BY <1>2, <1>4, <1>8
  <1> QED BY <1>2, <1>6, <1>7, <1>8 DEF a, m

\* Place of pass i among the windows read last.
LEMMA PlaceOfPass ==
  ASSUME cnt \in Nat, i \in Nat,
         i < cnt * TxBufferCount, cnt * TxBufferCount - TxBufferCount <= i
  PROVE  /\ cnt > 0
         /\ i % TxBufferCount = i - (cnt * TxBufferCount - TxBufferCount)
         /\ i % TxBufferCount \in TxBuffers
  <1> DEFINE q == cnt - 1
             r == i - q * TxBufferCount
  <1>1. cnt > 0
    <2>1. CASE cnt = 0
      BY <2>1, TxAssumption
    <2> QED BY <2>1
  <1>2. q \in Nat /\ q * TxBufferCount = cnt * TxBufferCount - TxBufferCount
    BY <1>1, TxAssumption
  <1>3. r \in 0 .. TxBufferCount - 1 /\ q * TxBufferCount + r = i
    BY <1>2, TxAssumption
  <1> HIDE DEF q, r
  <1>4. (q * TxBufferCount + r) % TxBufferCount = r
    BY <1>2, <1>3, TxAssumption, Remainder
  <1>5. i % TxBufferCount = r
    BY <1>3, <1>4
  <1>6. r = i - q * TxBufferCount
    BY DEF r
  <1> QED BY <1>1, <1>2, <1>3, <1>5, <1>6 DEF TxBuffers

\* The file is read when all windows in the buffers have been sent.
LEMMA DueWhenSpent ==
  ASSUME cnt \in Nat, i \in Nat,
         i <= cnt * TxBufferCount, cnt * TxBufferCount - TxBufferCount < i
  PROVE  ReadDue <=> i = cnt * TxBufferCount
  <1>1. CASE i = cnt * TxBufferCount
    <2>1. 0 \in 0 .. TxBufferCount - 1 /\ cnt * TxBufferCount + 0 = i
      BY <1>1, TxAssumption
    <2>2. (cnt * TxBufferCount + 0) % TxBufferCount = 0
      BY <2>1, TxAssumption, Remainder
    <2> QED BY <1>1, <2>1, <2>2 DEF ReadDue
  <1>2. CASE i # cnt * TxBufferCount
    <2>1. cnt * TxBufferCount \in Nat
      BY TxAssumption
    <2>2. i < cnt * TxBufferCount /\ cnt * TxBufferCount - TxBufferCount <= i
      BY <1>2, <2>1, TxAssumption
    <2>3. i % TxBufferCount = i - (cnt * TxBufferCount - TxBufferCount)
      BY <2>2, PlaceOfPass
    <2> QED BY <1>2, <2>1, <2>3, TxAssumption DEF ReadDue
  <1> QED BY <1>1, <1>2

LEMMA InitSteady == NoFaults /\ TxInit => SteadyInv
  <1> SUFFICES ASSUME NoFaults, TxInit PROVE SteadyInv
    OBVIOUS
  <1>1. ShapeInv
    BY InitShape
  <1>2. SamePass /\ \A c \in Channels : ~Busy(c)
    BY DEF TxInit, SamePass, Busy
  <1>3. Position
    BY TxAssumption DEF TxInit, Position
  <1>4. \A c \in Channels : SentOf(c) = 0 /\ Resting(c)
    BY DEF TxInit, SentOf, Resting
  <1>5. InOrder
    BY <1>1, <1>4, WindowsLength DEF InOrder, ShapeInv, TxShape
  <1> QED BY <1>1, <1>2, <1>3, <1>4, <1>5 DEF SteadyInv, Steady

\* A step that leaves channel c where it is.
LEMMA Untouched ==
  ASSUME NEW c \in Channels, Steady(c), Busy(c)' = Busy(c),
         tx_counter'[c] = tx_counter[c], tx_buffer_id'[c] = tx_buffer_id[c],
         tx_order'[c] = tx_order[c], tx_owner'[c] = tx_owner[c],
         fetched'[c] = fetched[c], SentOf(c)' = SentOf(c)
  PROVE  Steady(c)'
  <1>1. BufferOf(c)' = BufferOf(c)
          /\ \A who : OwnedBy(c, who)' = OwnedBy(c, who)
    BY DEF BufferOf, OwnedBy
  <1> QED BY <1>1 DEF Steady, Queued, Gone, Resting

\* What a channel in steady state has sent.
LEMMA SentByPass ==
  ASSUME SteadyInv, NEW c \in Channels
  PROVE  /\ SentOf(c) \in Nat /\ i \in Nat
         /\ SentOf(c) = i \/ SentOf(c) = i + 1
         /\ Busy(c) => tx_counter[c] = i
         /\ ~Busy(c) => SentOf(c) = tx_counter[c]
  <1>1. SentOf(c) \in Nat /\ i \in Nat /\ c \in Nat /\ k \in Nat
    BY WindowsLength, ChannelsOrdered, SteadyTyped
  <1>2. tx_counter[c] = i \/ tx_counter[c] = i + 1
    BY <1>1 DEF SteadyInv, SamePass
  <1>3. Busy(c) => tx_counter[c] = i
    BY <1>1 DEF SteadyInv, SamePass, Busy
  <1> QED BY <1>1, <1>2, <1>3 DEF SteadyInv, Steady, Queued, Gone, Resting

LEMMA SentLater ==
  ASSUME LineType', NEW c \in Channels
  PROVE  Len(WindowsOf(c)') = SentOf(c)'
  <1>1. WindowsOf(c)' = Joint(frames', line'[c], c)
    BY DEF WindowsOf, Joint
  <1>2. frames' \in Seq([Channels -> Contents]) /\ line'[c] \in Seq(Contents)
    BY DEF LineType
  <1>3. Len(Joint(frames', line'[c], c)) = Len(frames') + Len(line'[c])
    BY <1>2, JointElements, Zenon
  <1> QED BY <1>1, <1>3 DEF SentOf

\* Only the buffer of this pass is with an engine, and it holds window i.
LEMMA EngineSteady ==
  ASSUME SteadyInv, NEW c \in Channels, tx_order[c] # <<>>
  PROVE  /\ Busy(c) /\ Queued(c)
         /\ tx_counter[c] = i /\ SentOf(c) = i
         /\ Head(tx_order[c]) = BufferOf(c) /\ Tail(tx_order[c]) = <<>>
         /\ \A s \in 1 .. Len(WithNext(c)) : WithNext(c)[s] = i
  <1>1. Busy(c) /\ Queued(c)
    BY DEF SteadyInv, Steady, Gone, Resting
  <1>2. /\ main \in {"start", "wait"} /\ tx_counter[c] = i
        /\ SentOf(c) = i
    BY <1>1, SentByPass DEF Busy, Queued
  <1>3. /\ cnt > 0 /\ BufferOf(c) \in TxBuffers
        /\ BufferOf(c) = i - (cnt * TxBufferCount - TxBufferCount)
    BY <1>2, SteadyTyped, PlaceOfPass DEF SteadyInv, Position, BufferOf
  <1>4. \A s \in Samples : memory[c][BufferOf(c)][s] = i
    <2>1. \A s \in Samples : memory[c][BufferOf(c)][s]
            = cnt * TxBufferCount - TxBufferCount + BufferOf(c)
      BY <1>2, <1>3 DEF SteadyInv, Position
    <2> DEFINE q == cnt * TxBufferCount
    <2>2. q \in Nat /\ TxBufferCount \in Nat /\ i \in Nat
      BY SteadyTyped
    <2>3. q - TxBufferCount + BufferOf(c) = i
      <3> HIDE DEF q
      <3>1. BufferOf(c) = i - (q - TxBufferCount)
        BY <1>3 DEF q
      <3> HIDE DEF BufferOf
      <3> QED BY <2>2, <3>1
    <2> QED BY <2>1, <2>3
  <1>5. Head(tx_order[c]) = BufferOf(c) /\ Tail(tx_order[c]) = <<>>
    BY <1>1 DEF Queued
  <1>6. \A s \in 1 .. Len(WithNext(c)) : WithNext(c)[s] = i
    <2> DEFINE w == WithNext(c)
               f == fetched[c]
    <2>1. /\ Len(f) \in Nat /\ Len(f) + 1 \in Samples /\ Len(w) = Len(f) + 1
          /\ \A s \in 1 .. Len(f) : w[s] = f[s]
          /\ w[Len(f) + 1] = memory[c][Head(tx_order[c])][Len(f) + 1]
      BY NextTyped, SteadyTyped
    <2>2. w[Len(f) + 1] = i
      BY <1>4, <1>5, <2>1
    <2>3. \A s \in 1 .. Len(f) : w[s] = i
      BY <1>1, <1>2, <2>1 DEF Queued
    <2> HIDE DEF w, f
    <2>4. \A s \in 1 .. Len(w) : w[s] = i
      BY <2>1, <2>2, <2>3
    <2> QED BY <2>4 DEF w
  <1> QED BY <1>1, <1>2, <1>5, <1>6

LEMMA FetchSteady ==
  ASSUME SteadyInv, ShapeInv', NEW c \in Channels, Fetch(c)
  PROVE  SteadyInv'
  <1>1. /\ Busy(c) /\ Queued(c) /\ tx_counter[c] = i
        /\ \A s \in 1 .. Len(WithNext(c)) : WithNext(c)[s] = i
    BY EngineSteady DEF Fetch
  <1>2. UNCHANGED <<main, i, cnt, k, sample_count, mapped, tx_counter,
                    tx_buffer_id, memory, tx_owner, tx_order, line, frames>>
    BY DEF Fetch, loop, channels
  <1>3. /\ fetched'[c] = WithNext(c)
        /\ \A d \in Channels : d # c => fetched'[d] = fetched[d]
    BY SteadyTyped DEF Fetch, TxShape
  <1>4. \A d \in Channels : /\ Busy(d)' = Busy(d) /\ SentOf(d)' = SentOf(d)
                            /\ WindowsOf(d)' = WindowsOf(d)
                            /\ BufferOf(d)' = BufferOf(d)
                            /\ OwnedBy(d, "dma")' = OwnedBy(d, "dma")
    BY <1>2 DEF Busy, SentOf, WindowsOf, BufferOf, OwnedBy
  <1>5. Steady(c)'
    BY <1>1, <1>2, <1>3, <1>4 DEF Steady, Queued
  <1>6. \A d \in Channels : d # c => Steady(d)'
    BY <1>2, <1>3, <1>4, Untouched DEF SteadyInv
  <1>7. SamePass' /\ Position' /\ InOrder'
    BY <1>2, <1>4 DEF SteadyInv, SamePass, Position, AllMapped, InOrder
  <1> QED BY <1>5, <1>6, <1>7 DEF SteadyInv

\* The engine sends window i, which it has at position i + 1.
LEMMA SendSteady ==
  ASSUME SteadyInv, ShapeInv', NEW c \in Channels, Send(c)
  PROVE  SteadyInv'
  <1>1. /\ Busy(c) /\ Queued(c) /\ tx_counter[c] = i /\ SentOf(c) = i
        /\ Head(tx_order[c]) = BufferOf(c) /\ Tail(tx_order[c]) = <<>>
        /\ \A s \in 1 .. Len(WithNext(c)) : WithNext(c)[s] = i
    BY EngineSteady DEF Send
  <1>2. i \in Nat /\ TxShape /\ BufferOf(c) \in TxBuffers
    BY SteadyTyped, BufferInRange
  <1>3. WithNext(c) = Whole(i) /\ WithNext(c) \in Contents
    <2>1. /\ WithNext(c) \in Contents /\ Len(WithNext(c)) = SamplesPerBuffer
      BY <1>2, NextTyped DEF Send
    <2>2. \A s \in Samples : WithNext(c)[s] = i
      BY <1>1, <2>1 DEF Samples
    <2> QED BY <2>1, <2>2 DEF Contents, Whole
  <1>6. UNCHANGED <<main, i, cnt, k, sample_count, mapped, tx_counter,
                    tx_buffer_id, memory, frames>>
    BY DEF Send, loop, channels
  <1>7. /\ LineType'
        /\ WindowsOf(c)' = Append(WindowsOf(c), Whole(i))
        /\ \A d \in Channels \ {c} : WindowsOf(d)' = WindowsOf(d)
    BY <1>2, <1>3, SendWindows
  <1>8. ASSUME NEW d \in Channels
        PROVE  /\ WindowsOf(d) \in Seq(Contents)
               /\ Len(WindowsOf(d)) = SentOf(d)
               /\ Len(WindowsOf(d)') = SentOf(d)'
    <2>1. Len(WindowsOf(d)) = SentOf(d) /\ WindowsOf(d) \in Seq(Contents)
      BY WindowsLength, SteadyTyped
    <2>2. Len(WindowsOf(d)') = SentOf(d)'
      BY <1>7, SentLater
    <2> QED BY <2>1, <2>2
  <1>9. SentOf(c)' = i + 1 /\ \A d \in Channels \ {c} : SentOf(d)' = SentOf(d)
    <2>1. Len(Append(WindowsOf(c), Whole(i))) = i + 1
      BY <1>1, <1>3, <1>8
    <2> QED BY <1>7, <1>8, <2>1
  <1>11. Steady(c)'
    <2>1. tx_order'[c] = <<>> /\ fetched'[c] = <<>>
      BY <1>1, <1>2 DEF Send, TxShape
    <2>2. tx_owner'[c] = [tx_owner[c] EXCEPT ![BufferOf(c)] = "done"]
      BY <1>1, <1>2 DEF Send, TxShape
    <2>3. tx_owner'[c] = OwnedBy(c, "done")
      BY <1>1, <2>2 DEF Queued, OwnedBy
    <2>4. BufferOf(c)' = BufferOf(c)
            /\ OwnedBy(c, "done")' = OwnedBy(c, "done")
      BY <1>6 DEF BufferOf, OwnedBy
    <2>5. Busy(c)'
      BY <1>1, <1>6 DEF Busy
    <2> QED BY <1>1, <1>6, <1>9, <2>1, <2>3, <2>4, <2>5
            DEF Steady, Gone, Queued
  <1>12. ASSUME NEW d \in Channels, d # c PROVE Steady(d)'
    <2>1. /\ tx_order'[d] = tx_order[d] /\ tx_owner'[d] = tx_owner[d]
          /\ fetched'[d] = fetched[d]
      BY <1>2, <1>12 DEF Send, TxShape
    <2>2. Busy(d)' = Busy(d)
      BY <1>6 DEF Busy
    <2> QED BY <1>6, <1>9, <1>12, <2>1, <2>2, Untouched DEF SteadyInv
  <1>13. InOrder'
    <2>1. ASSUME NEW n \in 1 .. Len(WindowsOf(c)')
          PROVE WindowsOf(c)'[n] = Whole(n - 1)
      <3> DEFINE old == WindowsOf(c)
                 w == Whole(i)
      <3>1. Len(old) = i /\ old \in Seq(Contents) /\ w \in Contents
        BY <1>1, <1>3, <1>8
      <3>2. n \in 1 .. i + 1
        BY <1>8, <1>9
      <3>3. CASE n \in 1 .. i
        <4>1. old[n] = Whole(n - 1)
          BY <3>1, <3>3 DEF SteadyInv, InOrder
        <4>2. Append(old, w)[n] = old[n]
          <5> HIDE DEF old, w
          <5> QED BY <3>1, <3>3
        <4> QED BY <1>7, <4>1, <4>2
      <3>4. CASE n = i + 1
        <4>1. Append(old, w)[Len(old) + 1] = w
          <5> HIDE DEF old, w
          <5> QED BY <3>1
        <4>2. n - 1 = i
          BY <1>2, <3>4
        <4> QED BY <1>7, <3>1, <3>4, <4>1, <4>2
      <3> QED BY <1>2, <3>2, <3>3, <3>4
    <2>2. \A d \in Channels : d # c =>
            \A n \in 1 .. Len(WindowsOf(d)') : WindowsOf(d)'[n] = Whole(n - 1)
      BY <1>7 DEF SteadyInv, InOrder
    <2>3. \A n : Whole(n - 1)' = Whole(n - 1)
      BY DEF Whole
    <2> QED BY <2>1, <2>2, <2>3 DEF InOrder
  <1>14. SamePass' /\ Position' /\ NoFaults
    BY <1>6 DEF SteadyInv, SamePass, Position, AllMapped
  <1> QED BY <1>11, <1>12, <1>13, <1>14 DEF SteadyInv

LEMMA CombineSteady ==
  ASSUME SteadyInv, ShapeInv', Combine
  PROVE  SteadyInv'
  <1>1. LineType' /\ \A d \in Channels : WindowsOf(d)' = WindowsOf(d)
    BY CombineWindows, SteadyTyped
  <1>2. UNCHANGED <<main, i, cnt, k, sample_count, mapped, tx_counter,
                    tx_buffer_id, memory, tx_owner, tx_order, fetched>>
    BY DEF Combine, loop, channels
  <1>3. ASSUME NEW d \in Channels PROVE SentOf(d)' = SentOf(d)
    <2>1. Len(WindowsOf(d)) = SentOf(d)
      BY WindowsLength, SteadyTyped
    <2> QED BY <1>1, <2>1, SentLater
  <1>4. ASSUME NEW d \in Channels PROVE Steady(d)'
    <2>1. Busy(d)' = Busy(d)
      BY <1>2 DEF Busy
    <2> QED BY <1>2, <1>3, <2>1, Untouched DEF SteadyInv
  <1>5. SamePass' /\ Position' /\ InOrder'
    BY <1>1, <1>2
       DEF SteadyInv, SamePass, Position, AllMapped, InOrder
  <1> QED BY <1>4, <1>5 DEF SteadyInv

LEMMA SameLines ==
  ASSUME SteadyInv, UNCHANGED <<frames, line>>
  PROVE  /\ InOrder'
         /\ \A c \in Channels : SentOf(c)' = SentOf(c)
  <1>1. \A c \in Channels : WindowsOf(c)' = WindowsOf(c)
          /\ SentOf(c)' = SentOf(c)
    BY DEF WindowsOf, SentOf
  <1> QED BY <1>1 DEF SteadyInv, InOrder

\* The inner loop goes down to the first channel.
LEMMA LoopDown ==
  ASSUME SteadyInv, NEW behind, NextChannel(behind)
  PROVE  /\ k = 1 => k' = NumChannels /\ main' = behind
         /\ k # 1 => k' = k - 1 /\ main' = main
         /\ k \in Channels /\ k' \in Channels
  BY ChannelsOrdered, SteadyTyped DEF NextChannel

LEMMA StartSteady ==
  ASSUME SteadyInv, ShapeInv', StartTransfer, NEW a \in Channels, a = k
  PROVE  SteadyInv'
  <1>1. /\ main = "start"
        /\ UNCHANGED <<i, cnt, sample_count, mapped, tx_counter, memory,
                       fetched, frames, line>>
        /\ tx_buffer_id' = [tx_buffer_id EXCEPT ![a] = BufferOf(a)]
        /\ NextChannel("wait")
    BY DEF StartTransfer
  <1>0. /\ k = 1 => k' = NumChannels /\ main' = "wait"
        /\ k # 1 => k' = k - 1 /\ main' = "start"
        /\ k' \in Channels
    BY <1>1, LoopDown
  <1>2. a \in Nat /\ ~Busy(a) /\ Resting(a)
    BY <1>1, ChannelsOrdered DEF SteadyInv, Busy, Steady
  <1>3. /\ tx_counter[a] = i /\ i \in Nat /\ cnt > 0
        /\ BufferOf(a) \in TxBuffers
    <2>1. tx_counter[a] = i
      BY <1>1, <1>2, SteadyTyped DEF SteadyInv, SamePass
    <2> QED BY <1>1, <2>1, PlaceOfPass, SteadyTyped
            DEF SteadyInv, Position, BufferOf
  <1>4. mapped[a] /\ TxShape
    BY <1>1, <1>2, <1>3, SteadyTyped DEF SteadyInv, Position, AllMapped
  <1>5. /\ tx_owner' = [tx_owner EXCEPT ![a][BufferOf(a)] = "dma"]
        /\ tx_order' = [tx_order EXCEPT ![a] = Append(@, BufferOf(a))]
    BY <1>4 DEF StartTransfer
  <1>6. InOrder' /\ \A c \in Channels : SentOf(c)' = SentOf(c)
    BY <1>1, SameLines
  <1>7. \A c \in Channels : BufferOf(c)' = BufferOf(c)
    BY <1>1 DEF BufferOf
  <1>8. /\ \A c \in Channels : c # a => Busy(c)' = Busy(c)
        /\ Busy(a)'
    <2>1. /\ \A c \in Channels : c \in Nat /\ 1 <= c /\ c <= NumChannels
          /\ NumChannels \in Nat
      BY ChannelsOrdered
    <2>2. CASE k = 1
      BY <1>0, <1>1, <2>1, <2>2 DEF Busy
    <2>3. CASE k # 1
      BY <1>0, <1>1, <2>1, <2>3 DEF Busy
    <2> QED BY <2>2, <2>3
  <1>10. SamePass'
    <2>1. \A c \in Channels : c \in Nat /\ 1 <= c /\ c <= NumChannels
      BY ChannelsOrdered
    <2>2. \A c \in Channels : tx_counter[c] = i
      BY <1>1, <1>3 DEF SteadyInv, SamePass
    <2>3. main' = "wait" => \A c \in Channels : ~(c > k')
      BY <1>0, <1>1, <2>1, ChannelsOrdered
    <2> QED BY <1>1, <1>3, <2>2, <2>3 DEF SamePass
  <1>11. Position'
    BY <1>0, <1>1 DEF SteadyInv, Position, AllMapped
  <1>12. ASSUME NEW c \in Channels, c # a PROVE Steady(c)'
    <2>1. /\ tx_order'[c] = tx_order[c] /\ tx_owner'[c] = tx_owner[c]
          /\ tx_buffer_id'[c] = tx_buffer_id[c]
      BY <1>1, <1>4, <1>5, <1>12 DEF TxShape
    <2> QED BY <1>1, <1>6, <1>8, <1>12, <2>1, Untouched DEF SteadyInv
  <1>13. Steady(a)'
    <2>1. tx_buffer_id'[a] = BufferOf(a)
      BY <1>1, <1>4 DEF TxShape
    <2>2. tx_order'[a] = <<BufferOf(a)>>
      BY <1>2, <1>4, <1>5 DEF TxShape, Resting
    <2>3. tx_owner'[a] = OwnedBy(a, "dma")
      <3>1. tx_owner'[a] = [tx_owner[a] EXCEPT ![BufferOf(a)] = "dma"]
        BY <1>4, <1>5 DEF TxShape
      <3> QED BY <1>2, <3>1 DEF Resting, OwnedBy
    <2>4. OwnedBy(a, "dma")' = OwnedBy(a, "dma")
      BY <1>7 DEF OwnedBy
    <2>5. \A s : s \notin 1 .. Len(fetched'[a])
      BY <1>1, <1>2 DEF Resting
    <2> QED BY <1>1, <1>2, <1>6, <1>7, <1>8, <2>1, <2>2, <2>3, <2>4, <2>5
            DEF Steady, Queued, Resting
  <1> QED BY <1>6, <1>10, <1>11, <1>12, <1>13 DEF SteadyInv

LEMMA WaitSteady ==
  ASSUME SteadyInv, ShapeInv', WaitOk, NEW a \in Channels, a = k
  PROVE  SteadyInv'
  <1>1. /\ main = "wait" /\ tx_owner[a][tx_buffer_id[a]] = "done"
        /\ UNCHANGED <<cnt, sample_count, mapped, memory, tx_buffer_id,
                       tx_order, fetched, line, frames>>
        /\ tx_owner' = [tx_owner EXCEPT ![a][tx_buffer_id[a]] = "app"]
        /\ tx_counter' = [tx_counter EXCEPT ![a] = @ + 1]
        /\ i' = IF a = 1 THEN i + 1 ELSE i
        /\ NextChannel("read")
    BY DEF WaitOk, Waited, Sent
  <1>0. /\ k = 1 => k' = NumChannels /\ main' = "read"
        /\ k # 1 => k' = k - 1 /\ main' = "wait"
        /\ k' \in Channels
    BY <1>1, LoopDown
  <1>2. /\ NumChannels \in Nat /\ i \in Nat /\ LoopInv /\ TxShape
        /\ \A c \in Channels : c \in Nat /\ 1 <= c /\ c <= NumChannels
    BY ChannelsOrdered, SteadyTyped
  <1>3. Busy(a) /\ tx_counter[a] = i /\ BufferOf(a) \in TxBuffers
    <2>1. Busy(a)
      BY <1>1, <1>2 DEF Busy
    <2>2. tx_counter[a] = i
      BY <2>1, SentByPass
    <2> QED BY <1>2, <2>1, <2>2, BufferInRange
  <1>4. Gone(a)
    <2>1. Queued(a) => tx_owner[a][tx_buffer_id[a]] = "dma"
      BY <1>3 DEF Queued, OwnedBy
    <2> QED BY <1>1, <1>3, <2>1 DEF SteadyInv, Steady
  <1>5. InOrder' /\ \A c \in Channels : SentOf(c)' = SentOf(c)
    BY <1>1, SameLines
  <1>6. /\ \A c \in Channels : c # a => Busy(c)' = Busy(c)
        /\ ~Busy(a)'
    <2>1. CASE k = 1
      BY <1>0, <1>1, <1>2, <2>1 DEF Busy
    <2>2. CASE k # 1
      BY <1>0, <1>1, <1>2, <2>2 DEF Busy
    <2> QED BY <2>1, <2>2
  <1>8. /\ tx_counter'[a] = i + 1
        /\ \A c \in Channels : c # a => tx_counter'[c] = tx_counter[c]
    BY <1>1, <1>2, <1>3 DEF LoopInv
  <1>9. SamePass'
    <2>1. CASE k = 1
      <3>1. \A c \in Channels : c # a => tx_counter[c] = i + 1
        BY <1>1, <1>2, <2>1 DEF SteadyInv, SamePass
      <3>2. \A c \in Channels : tx_counter'[c] = i + 1
        BY <1>8, <3>1
      <3> QED BY <1>0, <1>1, <1>2, <2>1, <3>2 DEF SamePass
    <2>2. CASE k # 1
      <3>1. ASSUME NEW c \in Channels
            PROVE  tx_counter'[c] = i + (IF c > k' THEN 1 ELSE 0)
        <4>1. k' = k - 1 /\ c \in Nat /\ k \in Nat
          BY <1>0, <1>2, <2>2
        <4>2. CASE c = a
          BY <1>8, <4>1, <4>2
        <4>3. CASE c # a
          BY <1>1, <1>2, <1>8, <4>1, <4>3 DEF SteadyInv, SamePass
        <4> QED BY <4>2, <4>3
      <3> QED BY <1>0, <1>1, <2>2, <3>1 DEF SamePass
    <2> QED BY <2>1, <2>2
  <1>10. Position'
    <2> DEFINE q == cnt * TxBufferCount
    <2>1. /\ q \in Nat /\ TxBufferCount \in Nat \ {0}
          /\ i < q /\ q - TxBufferCount <= i
      BY <1>1, SteadyTyped DEF SteadyInv, Position
    <2>2. i + 1 <= q /\ q - TxBufferCount < i + 1
      <3> HIDE DEF q
      <3> QED BY <1>2, <2>1
    <2>3. CASE k = 1
      BY <1>0, <1>1, <2>2, <2>3 DEF SteadyInv, Position, AllMapped
    <2>4. CASE k # 1
      BY <1>0, <1>1, <2>4 DEF SteadyInv, Position, AllMapped
    <2> QED BY <2>3, <2>4
  <1>11. ASSUME NEW c \in Channels, c # a PROVE Steady(c)'
    <2>1. tx_owner'[c] = tx_owner[c]
      BY <1>1, <1>2, <1>11 DEF TxShape
    <2> QED BY <1>1, <1>5, <1>6, <1>8, <1>11, <2>1, Untouched DEF SteadyInv
  <1>12. Steady(a)'
    <2>1. tx_owner'[a] = [tx_owner[a] EXCEPT ![BufferOf(a)] = "app"]
      BY <1>1, <1>2, <1>4 DEF TxShape, Gone
    <2>2. tx_owner'[a] = [b \in TxBuffers |-> "app"]
      BY <1>4, <2>1 DEF Gone, OwnedBy
    <2> QED BY <1>1, <1>3, <1>4, <1>5, <1>6, <1>8, <2>2
           DEF Steady, Resting, Gone
  <1> QED BY <1>5, <1>9, <1>10, <1>11, <1>12 DEF SteadyInv

\* The application owns all buffers between the passes.
LEMMA ReadSteady ==
  ASSUME SteadyInv, ShapeInv', ReadFile
  PROVE  SteadyInv'
         /\ \A c \in Channels, b \in TxBuffers : tx_owner[c][b] = "app"
  <1> DEFINE q == cnt * TxBufferCount
             all == TxBufferCount * SamplesPerBuffer
  <1>1. /\ UNCHANGED <<num_transfers, i, k, mapped, tx_counter>>
        /\ UNCHANGED <<tx_in_progress, tx_buffer_id, tx_owner, tx_order>>
        /\ UNCHANGED <<fetched, line, frames>>
        /\ main \in {"read", "fill"} /\ main' \in {"fill", "start"}
    BY ReadSteps
  <1>2. /\ k = NumChannels /\ i \in Nat /\ cnt \in Nat
        /\ \A c \in Channels : c \in Nat /\ c <= NumChannels
        /\ q \in Nat /\ TxBufferCount \in Nat \ {0}
        /\ i <= q /\ q - TxBufferCount < i
    BY <1>1, ChannelsOrdered, SteadyTyped DEF LoopInv, SteadyInv, Position
  <1>3. \A c \in Channels : ~Busy(c) /\ ~Busy(c)'
    BY <1>1, <1>2, ChannelsOrdered DEF Busy
  <1>4. InOrder' /\ \A c \in Channels : SentOf(c)' = SentOf(c)
    BY <1>1, SameLines
  <1>5. ASSUME NEW c \in Channels PROVE Steady(c)'
    <2>1. Busy(c)' = Busy(c)
      BY <1>3 DEF Busy
    <2> QED BY <1>1, <1>4, <2>1, Untouched DEF SteadyInv
  <1>6. SamePass'
    BY <1>1 DEF SteadyInv, SamePass
  <1>7. Position'
    <2>1. CASE OpenFile
      <3>1. /\ main = "read" /\ main' = "fill" /\ ReadDue /\ AllMapped
            /\ UNCHANGED <<cnt, sample_count, memory, mapped>>
        BY <2>1 DEF OpenFile, ReadBegins, loop, channels
      <3>2. i = q
        BY <1>2, <3>1, DueWhenSpent
      <3>3. \A b \in TxBuffers, s \in Samples :
              ~(PlaceOf(b, s) <= sample_count)
        <4>1. sample_count = 0
          BY <3>1, SteadyTyped DEF Bounds
        <4> QED BY <4>1, PlaceBound
      <3> QED BY <1>1, <1>2, <3>1, <3>2, <3>3 DEF Position, AllMapped
    <2>2. CASE SkipRead
      <3>1. /\ main = "read" /\ main' = "start" /\ ~ReadDue
            /\ UNCHANGED <<cnt, sample_count, memory, mapped>>
        BY <2>2 DEF SkipRead, loop, channels
      <3>2. i # q
        BY <1>2, <3>1, DueWhenSpent
      <3>3. i < q /\ q - TxBufferCount <= i
        <4> HIDE DEF q
        <4> QED BY <1>2, <3>2
      <3>4. /\ cnt > 0 => /\ AllMapped
               /\ \A c \in Channels, b \in TxBuffers, s \in Samples :
                    memory[c][b][s] = cnt * TxBufferCount - TxBufferCount + b
        BY <3>1 DEF SteadyInv, Position
      <3> QED BY <1>1, <3>1, <3>3, <3>4 DEF Position, AllMapped
    <2>3. CASE WriteSample
      <3>0. /\ main = "fill" /\ AllMapped /\ i = q
            /\ \A c \in Channels, b \in TxBuffers, s \in Samples :
                 PlaceOf(b, s) <= sample_count => memory[c][b][s] = q + b
            /\ sample_count \in Nat
        BY <2>3, SteadyTyped, ReadingPositive
           DEF WriteSample, SteadyInv, Position, Bounds
      <3>1. ASSUME NEW c \in Channels, NEW b \in TxBuffers, NEW s \in Samples,
                   PlaceOf(b, s) <= sample_count + 1
            PROVE  memory'[c][b][s] = q + b
        <4>1. memory'[c][b][s] = IF PlaceOf(b, s) = sample_count + 1
                                 THEN q + b ELSE memory[c][b][s]
          BY <2>3 DEF WriteSample
        <4>2. PlaceOf(b, s) = sample_count + 1 \/ PlaceOf(b, s) <= sample_count
          BY <3>0, <3>1, PlaceBound
        <4>3. PlaceOf(b, s) <= sample_count => memory[c][b][s] = q + b
          BY <3>0
        <4> HIDE DEF q
        <4> QED BY <4>1, <4>2, <4>3
      <3>2. CASE sample_count + 1 = all
        <4>1. /\ sample_count' = 0 /\ cnt' = cnt + 1 /\ main' = "start"
          BY <2>3, <3>2 DEF WriteSample
        <4>2. \A c \in Channels, b \in TxBuffers, s \in Samples :
                memory'[c][b][s] = q + b
          BY <3>1, <3>2, PlaceBound
        <4>3. cnt' * TxBufferCount = q + TxBufferCount
          BY <1>2, <4>1
        <4>4. i < q + TxBufferCount /\ q + TxBufferCount - TxBufferCount <= i
              /\ q + TxBufferCount - TxBufferCount = q
          <5> HIDE DEF q
          <5> QED BY <1>2, <3>0
        <4> QED BY <1>1, <1>2, <3>0, <4>1, <4>2, <4>3, <4>4
                DEF Position, AllMapped
      <3>3. CASE sample_count + 1 # all
        <4>1. /\ sample_count' = sample_count + 1 /\ main' = "fill"
              /\ cnt' = cnt
          BY <2>3, <3>3 DEF WriteSample
        <4> QED BY <1>1, <1>2, <3>0, <3>1, <4>1 DEF Position, AllMapped
      <3> QED BY <3>2, <3>3
    <2>4. ~FileMissing
      BY DEF FileMissing, SteadyInv, NoFaults
    <2> QED BY <2>1, <2>2, <2>3, <2>4 DEF ReadFile
  <1>8. \A c \in Channels, b \in TxBuffers : tx_owner[c][b] = "app"
    BY <1>3 DEF SteadyInv, Steady, Resting
  <1> QED BY <1>4, <1>5, <1>6, <1>7, <1>8 DEF SteadyInv

\* Steps between the passes.
LEMMA BetweenSteady ==
  ASSUME SteadyInv, ShapeInv',
         UNCHANGED <<i, cnt, k, tx_counter, memory, tx_owner, tx_order,
                   fetched, line, frames>>,
         main \notin {"fill", "start", "wait"},
         main' \notin {"fill", "start", "wait"},
         main' # "init" \/ main = "init",
         main' = "read" => main \in {"init", "read"},
         cnt > 0 => AllMapped'
  PROVE  SteadyInv'
  <1>1. \A c \in Channels : ~Busy(c) /\ ~Busy(c)'
    BY DEF Busy
  <1>2. InOrder' /\ \A c \in Channels : SentOf(c)' = SentOf(c)
    BY SameLines
  <1>3. ASSUME NEW c \in Channels PROVE Steady(c)'
    <2>1. Resting(c)
      BY <1>1 DEF SteadyInv, Steady
    <2>2. Resting(c)'
      BY <1>2, <2>1 DEF Resting
    <2> QED BY <1>1, <2>2 DEF Steady
  <1>4. SamePass'
    BY DEF SteadyInv, SamePass
  <1> QED BY <1>2, <1>3, <1>4 DEF SteadyInv, Position

LEMMA NextSteady == SteadyInv /\ [TxNext]_txvars => SteadyInv'
  <1> SUFFICES ASSUME SteadyInv, [TxNext]_txvars PROVE SteadyInv'
    OBVIOUS
  <1>0. ShapeInv'
    BY NextShape DEF SteadyInv
  <1>1. CASE InitChannels
    <2>1. cnt = 0
      BY <1>1 DEF InitChannels, SteadyInv, Position
    <2> QED BY <1>0, <1>1, <2>1, BetweenSteady DEF InitChannels, loop, hardware
  <1>2. CASE ReadFile
    BY <1>0, <1>2, ReadSteady
  <1>3. CASE ReadCrash \/ LoopEnd
    <2>1. main = "read" /\ cnt > 0 => AllMapped'
      BY <1>3 DEF ReadCrash, LoopEnd, channels, SteadyInv, Position,
         AllMapped
    <2> QED BY <1>0, <1>3, <2>1, BetweenSteady
            DEF ReadCrash, ReadBegins, LoopEnd, loop, channels, hardware
  <1>4. CASE StartTransfer
    BY <1>0, <1>4, StartSteady, SteadyTyped
  <1>5. CASE WaitOk
    BY <1>0, <1>5, WaitSteady, SteadyTyped
  <1>6. CASE WaitCrash
    <2>1. i \in Nat /\ k \in Channels
      BY SteadyTyped
    <2>2. cnt > 0
      BY <1>6, <2>1, PlaceOfPass, SteadyTyped
         DEF WaitCrash, SteadyInv, Position
    <2> QED BY <1>6, <2>1, <2>2 DEF WaitCrash, SteadyInv, Position, AllMapped
  <1>7. CASE \E s \in FaultStatuses : WaitFault(s)
    BY <1>7 DEF SteadyInv, NoFaults
  <1>8. CASE Combine
    BY <1>0, <1>8, CombineSteady
  <1>9. CASE \E c \in Channels : Engine(c)
    BY <1>0, <1>9, FetchSteady, SendSteady DEF Engine
  <1>10. CASE UNCHANGED txvars
    <2>1. UNCHANGED <<main, i, cnt, k, sample_count, mapped, tx_counter,
                      tx_buffer_id, memory, tx_owner, tx_order, fetched, line,
                      frames>>
      BY <1>10 DEF txvars, loop, channels, hardware
    <2>2. InOrder' /\ \A c \in Channels : SentOf(c)' = SentOf(c)
      BY <2>1, SameLines
    <2>3. \A c \in Channels : Busy(c)' = Busy(c)
      BY <2>1 DEF Busy
    <2>4. \A c \in Channels : Steady(c)'
      BY <2>1, <2>2, <2>3, Untouched DEF SteadyInv
    <2> QED BY <1>0, <2>1, <2>2, <2>4
            DEF SteadyInv, SamePass, Position, AllMapped
  <1> QED BY <1>1, <1>2, <1>3, <1>4, <1>5, <1>6, <1>7, <1>8, <1>9, <1>10
          DEF TxNext, MainLoop, Hardware

THEOREM SteadyInvariance == NoFaults /\ TxSpec => []SteadyInv
  BY InitSteady, NextSteady, PTL DEF TxSpec

\* Without failures no channel gets ahead of another by more than one transfer.
THEOREM ChannelsInStep == NoFaults /\ TxSpec => []InStep
  <1>1. SteadyInv => InStep
    BY SentByPass DEF InStep
  <1> QED BY SteadyInvariance, <1>1, PTL

\* Without failures frames are whole and in the order of the file.
THEOREM FramesOrdered == NoFaults /\ TxSpec => []FramesInOrder
  <1>1. ASSUME SteadyInv, NEW n \in 1 .. Len(frames)
        PROVE  frames[n] = [c \in Channels |-> [s \in Samples |-> n - 1]]
    <2>1. frames[n] \in [Channels -> Contents]
      BY <1>1, SteadyTyped DEF LineType
    <2>2. ASSUME NEW c \in Channels
          PROVE  frames[n][c] = [s \in Samples |-> n - 1]
      <3>1. WindowsOf(c)[n] = frames[n][c] /\ n \in 1 .. Len(WindowsOf(c))
        BY <1>1, WindowsLength, SteadyTyped
      <3> QED BY <1>1, <3>1 DEF SteadyInv, InOrder, Whole
    <2> QED BY <2>1, <2>2
  <1>2. SteadyInv => FramesInOrder
    BY <1>1 DEF FramesInOrder
  <1> QED BY SteadyInvariance, <1>2, PTL

\* Without failures nothing is read into a buffer under a transfer.
THEOREM BuffersSafe == NoFaults /\ TxSpec => WritesOnlyOwned
  <1>1. ASSUME SteadyInv, SteadyInv', [TxNext]_txvars, memory' # memory
        PROVE  \A c \in Channels, b \in TxBuffers : tx_owner[c][b] = "app"
    <2>1. ReadFile
      BY <1>1 DEF TxNext, MainLoop, Hardware, Engine, txvars, InitChannels,
         ReadCrash, StartTransfer, WaitOk, WaitFault, WaitCrash, LoopEnd,
         Waited, Combine, Fetch, Send
    <2> QED BY <1>1, <2>1, ReadSteady DEF SteadyInv
  <1>2. SteadyInv /\ SteadyInv' /\ [TxNext]_txvars =>
          [memory' # memory =>
             \A c \in Channels, b \in TxBuffers :
               tx_owner[c][b] = "app"]_txvars
    BY <1>1
  <1> QED BY SteadyInvariance, <1>2, PTL DEF TxSpec, WritesOnlyOwned

-----------------------------------------------------------------------------
(* What has been sent, whatever fails.                                     *)

DoneOf(c) == {b \in TxBuffers : tx_owner[c][b] = "done"}

\* What was sent is no more than what was started, and no less than what was
\* waited for: a buffer is waited for once after it was sent.
Progress(c) ==
  /\ tx_counter[c] + tx_in_progress[c] <= num_transfers
  /\ SentOf(c) + Len(tx_order[c]) <= num_transfers
  /\ main # "crashed" => SentOf(c) + Len(tx_order[c]) <= Started(c)
  /\ Cardinality(DoneOf(c)) + tx_counter[c] <= SentOf(c)

\* Where no wait fails, only the transfer of this pass is in progress.
Waiting(c) ==
  FaultStatuses = {} /\ main # "crashed" =>
    tx_in_progress[c] = IF Busy(c) THEN 1 ELSE 0

ProgressInv ==
  /\ ShapeInv
  /\ \A c \in Channels : Progress(c) /\ Waiting(c)

LEMMA BuffersFinite ==
  ASSUME NEW c
  PROVE  IsFiniteSet(DoneOf(c)) /\ Cardinality(DoneOf(c)) \in Nat
  <1>1. IsFiniteSet(TxBuffers)
    BY FS_Interval, TxAssumption DEF TxBuffers
  <1>2. DoneOf(c) \in SUBSET TxBuffers
    BY DEF DoneOf
  <1> QED BY <1>1, <1>2, FS_Subset, FS_CardinalityType

LEMMA SentTyped ==
  ASSUME TxShape, NEW c \in Channels
  PROVE  /\ Len(frames) \in Nat /\ Len(line[c]) \in Nat
         /\ SentOf(c) \in Nat /\ Len(tx_order[c]) \in Nat
  BY DEF TxShape, LineType, SentOf

LEMMA InitProgress == TxInit => ProgressInv
  <1> SUFFICES ASSUME TxInit PROVE ProgressInv
    OBVIOUS
  <1>1. ShapeInv
    BY InitShape
  <1>3. ASSUME NEW c \in Channels PROVE Progress(c) /\ Waiting(c)
    <2>1. DoneOf(c) = {}
      BY DEF TxInit, DoneOf
    <2>2. SentOf(c) = 0 /\ Len(tx_order[c]) = 0
      BY DEF TxInit, SentOf
    <2>3. Started(c) = 0 /\ ~Busy(c)
      BY DEF TxInit, Started, Busy
    <2> QED BY <2>1, <2>2, <2>3, FS_EmptySet, TxAssumption
            DEF TxInit, Progress, Waiting
  <1> QED BY <1>1, <1>3 DEF ProgressInv

\* Nothing gets ahead of the loop.
LEMMA StartedBound ==
  ASSUME ProgressInv, main # "crashed", NEW c \in Channels
  PROVE  Started(c) \in Nat /\ Started(c) <= num_transfers
  BY TxAssumption DEF ProgressInv, ShapeInv, Bounds, LoopInv, Started

LEMMA StartedStep ==
  ASSUME LoopInv, Bounds, [TxNext]_txvars, main # "crashed", main' # "crashed",
         NEW c \in Channels
  PROVE  /\ Started(c)' = Started(c)
                           + (IF StartTransfer /\ c = k THEN 1 ELSE 0)
         /\ Started(c)' \in Nat
  <1>0. /\ i \in Nat /\ k \in Nat /\ c \in Nat /\ 1 <= c /\ c <= NumChannels
        /\ NumChannels \in Nat /\ k <= NumChannels
    BY ChannelsOrdered DEF LoopInv
  <1>1. CASE StartTransfer
    BY <1>0, <1>1 DEF StartTransfer, NextChannel, Started
  <1>2. CASE main = "wait" /\ Waited /\ ~StartTransfer
    BY <1>0, <1>2 DEF Waited, NextChannel, Started
  <1>3. CASE ~StartTransfer /\ (InitChannels \/ ReadFile \/ LoopEnd)
    BY <1>0, <1>3, ReadSteps DEF InitChannels, LoopEnd, loop, LoopInv, Started
  <1>4. CASE ~StartTransfer /\ (Hardware \/ UNCHANGED txvars)
    BY <1>0, <1>4 DEF Hardware, Engine, Fetch, Send, Combine, txvars, loop,
       Started
  <1>5. \/ InitChannels \/ ReadFile \/ StartTransfer
        \/ LoopEnd \/ (main = "wait" /\ Waited) \/ Hardware \/ UNCHANGED txvars
    BY DEF TxNext, MainLoop, WaitOk, WaitFault, ReadCrash, WaitCrash
  <1> QED BY <1>1, <1>2, <1>3, <1>4, <1>5

LEMMA Untaken ==
  ASSUME ProgressInv, NEW c \in Channels, ShapeInv',
         main' # "crashed" => main # "crashed" /\ Started(c)' = Started(c),
         UNCHANGED <<num_transfers, frames>>,
         line'[c] = line[c], tx_order'[c] = tx_order[c],
         tx_owner'[c] = tx_owner[c],
         tx_counter'[c] = tx_counter[c],
         tx_in_progress'[c] = tx_in_progress[c]
  PROVE  Progress(c)'
  BY DEF ProgressInv, ShapeInv, Progress, SentOf, DoneOf

LEMMA ProgressStep ==
  ASSUME ProgressInv, [TxNext]_txvars, ShapeInv',
         NEW c \in Channels
  PROVE  Progress(c)'
  <1>1. /\ Progress(c) /\ LoopInv /\ Bounds /\ TxShape
        /\ tx_counter[c] \in Nat /\ tx_in_progress[c] \in Nat
        /\ k \in Channels
        /\ num_transfers \in Nat
    BY TxAssumption DEF ProgressInv, ShapeInv, LoopInv, Bounds
  <1>2. SentOf(c) \in Nat /\ Len(tx_order[c]) \in Nat
    BY <1>1, SentTyped
  <1>3. main # "crashed" /\ main' # "crashed" =>
          /\ Started(c)' = Started(c)
                            + (IF StartTransfer /\ c = k THEN 1 ELSE 0)
          /\ Started(c) \in Nat /\ Started(c)' \in Nat
    BY <1>1, StartedStep, StartedBound
  <1>4. main' # "crashed" =>
          /\ Started(c)' \in Nat /\ Started(c)' <= num_transfers'
          /\ tx_counter'[c] + tx_in_progress'[c] = Started(c)'
    <2>1. /\ i' \in Nat /\ num_transfers' \in Nat /\ i' <= num_transfers'
          /\ main' \in {"start", "wait"} => i' < num_transfers'
      BY TxAssumption DEF ShapeInv, Bounds, LoopInv
    <2>2. Started(c)' \in Nat /\ Started(c)' <= num_transfers'
      <3> DEFINE a == i'
                 n == num_transfers'
                 ahead == main' = "wait" \/ (main' = "start" /\ c > k')
      <3>1. a \in Nat /\ n \in Nat /\ a <= n
        BY <2>1
      <3>2. ahead => a < n
        BY <2>1
      <3>3. Started(c)' = a + IF ahead THEN 1 ELSE 0
        BY DEF Started
      <3>4. Started(c)' \in Nat /\ Started(c)' <= n
        <4> HIDE DEF a, n, ahead
        <4> QED BY <3>1, <3>2, <3>3
      <3> QED BY <3>4
    <2>3. main' # "crashed" =>
            tx_counter'[c] + tx_in_progress'[c] = Started(c)'
      BY DEF ShapeInv, LoopInv, Accounted
    <2> QED BY <2>2, <2>3
  <1>5. CASE StartTransfer
    <2>1. CASE c = k
      <3>1. main = "start" /\ main' # "crashed"
            /\ UNCHANGED <<num_transfers, tx_counter, line, frames>>
        BY <1>5 DEF StartTransfer, NextChannel
      <3>2. BufferOf(c) \in TxBuffers
        BY <1>1, BufferInRange
      <3>3. /\ Len(tx_order'[c]) \in Nat
            /\ Len(tx_order'[c]) <= Len(tx_order[c]) + 1
        <4>1. CASE tx_order'[c] = tx_order[c]
          BY <1>2, <4>1
        <4>2. CASE tx_order'[c] = Append(tx_order[c], BufferOf(c))
          BY <1>1, <1>2, <3>2, <4>2 DEF TxShape
        <4> QED BY <1>1, <1>5, <2>1, <4>1, <4>2 DEF StartTransfer, TxShape
      <3>4. DoneOf(c)' \in SUBSET DoneOf(c)
        <4>1. \A b \in TxBuffers :
                tx_owner'[c][b] = "done" => tx_owner[c][b] = "done"
          BY <1>1, <1>5, <2>1, <3>2 DEF StartTransfer, TxShape
        <4> QED BY <4>1 DEF DoneOf
      <3>5. Cardinality(DoneOf(c)') <= Cardinality(DoneOf(c))
        BY <3>4, BuffersFinite, FS_Subset
      <3>6. SentOf(c)' = SentOf(c)
        BY <3>1 DEF SentOf
      <3>7. Cardinality(DoneOf(c)') \in Nat /\ Cardinality(DoneOf(c)) \in Nat
        <4>1. IsFiniteSet(DoneOf(c)')
          BY <3>4, BuffersFinite, FS_Subset
        <4> QED BY <4>1, BuffersFinite, FS_CardinalityType
      <3>8. Started(c)' = Started(c) + 1 /\ Started(c) \in Nat
        BY <1>3, <1>5, <2>1, <3>1
      <3>9. /\ SentOf(c) + Len(tx_order[c]) <= Started(c)
            /\ Cardinality(DoneOf(c)) + tx_counter[c] <= SentOf(c)
        BY <1>1, <3>1 DEF Progress
      <3>10. /\ tx_counter'[c] + tx_in_progress'[c] <= num_transfers'
             /\ SentOf(c)' + Len(tx_order'[c]) <= Started(c)'
             /\ SentOf(c)' + Len(tx_order'[c]) <= num_transfers'
        BY <1>1, <1>2, <1>4, <3>1, <3>3, <3>6, <3>8, <3>9
      <3>11. Cardinality(DoneOf(c)') + tx_counter'[c] <= SentOf(c)'
        BY <1>1, <1>2, <3>1, <3>5, <3>6, <3>7, <3>9
      <3> QED BY <3>10, <3>11 DEF Progress
    <2>2. CASE c # k
      <3>1. main # "crashed" => Started(c)' = Started(c)
        <4>1. main' # "crashed"
          BY <1>5 DEF StartTransfer, NextChannel
        <4> QED BY <1>3, <1>5, <2>2, <4>1
      <3>2. main = "start"
              /\ UNCHANGED <<num_transfers, frames, line, tx_counter>>
        BY <1>5 DEF StartTransfer
      <3>3. tx_order'[c] = tx_order[c] /\ tx_owner'[c] = tx_owner[c]
              /\ tx_in_progress'[c] = tx_in_progress[c]
        BY <1>1, <1>5, <2>2 DEF StartTransfer, TxShape, LoopInv
      <3> QED BY <3>1, <3>2, <3>3, Untaken
    <2> QED BY <2>1, <2>2
  <1>6. CASE WaitOk
    <2>1. CASE c = k
      <3>1. /\ main = "wait" /\ main' # "crashed"
            /\ num_transfers' = num_transfers
            /\ tx_in_progress[c] > 0
            /\ tx_owner[c][tx_buffer_id[c]] = "done"
            /\ tx_counter'[c] = tx_counter[c] + 1
            /\ UNCHANGED <<line, frames, tx_order>>
        BY <1>1, <1>6, <2>1 DEF WaitOk, Waited, Sent, NextChannel, LoopInv
      <3>2. tx_buffer_id[c] \in TxBuffers
        BY <1>1, <3>1 DEF TxShape
      <3>3. tx_buffer_id[c] \in DoneOf(c)
              /\ DoneOf(c)' = DoneOf(c) \ {tx_buffer_id[c]}
        <4>1. tx_owner'[c] = [tx_owner[c] EXCEPT ![tx_buffer_id[c]] = "app"]
          BY <1>1, <1>6, <2>1 DEF WaitOk, TxShape
        <4> QED BY <1>1, <3>1, <3>2, <4>1 DEF DoneOf, TxShape
      <3>4. Cardinality(DoneOf(c)') = Cardinality(DoneOf(c)) - 1
              /\ Cardinality(DoneOf(c)) \in Nat
        BY <3>3, BuffersFinite, FS_RemoveElement
      <3>5. SentOf(c)' = SentOf(c) /\ ~StartTransfer
        BY <3>1 DEF SentOf, StartTransfer
      <3> QED BY <1>1, <1>2, <1>3, <1>4, <3>1, <3>4, <3>5 DEF Progress
    <2>2. CASE c # k
      <3>1. ~StartTransfer /\ main # "crashed"
        BY <1>6 DEF WaitOk, StartTransfer
      <3>2. main' # "crashed" => Started(c)' = Started(c)
        BY <1>3, <3>1
      <3>3. /\ UNCHANGED <<num_transfers, frames, line, tx_order>>
            /\ tx_counter'[c] = tx_counter[c] /\ tx_owner'[c] = tx_owner[c]
            /\ tx_in_progress'[c] = tx_in_progress[c]
        BY <1>1, <1>6, <2>2 DEF WaitOk, Waited, TxShape, LoopInv
      <3> QED BY <3>1, <3>2, <3>3, Untaken
    <2> QED BY <2>1, <2>2
  <1>7. ASSUME NEW d \in Channels, Send(d)
        PROVE  Progress(c)'
    <2>0. main' = main /\ ~StartTransfer /\ UNCHANGED <<num_transfers, frames>>
          /\ UNCHANGED <<tx_counter, tx_in_progress>>
      <3>1. main' = main /\ UNCHANGED <<num_transfers, frames, tx_counter>>
              /\ UNCHANGED <<tx_in_progress, tx_buffer_id, i, k>>
        BY <1>7 DEF Send, loop, channels
      <3>3. StartTransfer => tx_in_progress'[k] = tx_in_progress[k] + 1
        BY <1>1 DEF StartTransfer, LoopInv
      <3> QED BY <1>1, <3>1, <3>3 DEF LoopInv
    <2>1. CASE c = d
      <3> DEFINE b == Head(tx_order[c])
      <3>1. /\ b \in TxBuffers /\ tx_order[c] # <<>>
            /\ WithNext(c) \in Contents
        BY <1>1, <1>7, <2>1, NextTyped DEF Send
      <3>2. Len(tx_order'[c]) = Len(tx_order[c]) - 1
        <4>1. tx_order'[c] = Tail(tx_order[c])
          BY <1>1, <1>7, <2>1 DEF Send, TxShape
        <4> QED BY <1>1, <3>1, <4>1, NextTyped
      <3>3. SentOf(c)' = SentOf(c) + 1
        <4>1. line'[c] = Append(line[c], WithNext(c))
          BY <1>1, <1>7, <2>1 DEF Send, TxShape, LineType
        <4>3. Len(line'[c]) = Len(line[c]) + 1
          BY <1>1, <3>1, <4>1 DEF TxShape, LineType
        <4> QED BY <1>1, <2>0, <4>3, SentTyped DEF SentOf
      <3>4. DoneOf(c)' = DoneOf(c) \cup {b}
        <4>1. tx_owner'[c] = [tx_owner[c] EXCEPT ![b] = "done"]
          BY <1>1, <1>7, <2>1 DEF Send, TxShape
        <4> HIDE DEF b
        <4> QED BY <1>1, <3>1, <4>1 DEF DoneOf, TxShape
      <3>5. /\ Cardinality(DoneOf(c)') <= Cardinality(DoneOf(c)) + 1
            /\ Cardinality(DoneOf(c)) \in Nat
            /\ Cardinality(DoneOf(c)') \in Nat
        <4>1. /\ Cardinality(DoneOf(c) \cup {b}) =
                   IF b \in DoneOf(c) THEN Cardinality(DoneOf(c))
                                     ELSE Cardinality(DoneOf(c)) + 1
              /\ Cardinality(DoneOf(c)) \in Nat
          BY BuffersFinite, FS_AddElement
        <4> QED BY <3>4, <4>1
      <3> HIDE DEF b
      <3> QED BY <1>1, <1>2, <1>3, <2>0, <3>2, <3>3, <3>5 DEF Progress
    <2>2. CASE c # d
      <3>1. main' # "crashed" => Started(c)' = Started(c)
        BY <1>3, <2>0
      <3>2. /\ line'[c] = line[c] /\ tx_order'[c] = tx_order[c]
            /\ tx_owner'[c] = tx_owner[c]
        BY <1>1, <1>7, <2>2 DEF Send, TxShape
      <3> QED BY <2>0, <3>1, <3>2, Untaken
    <2> QED BY <2>1, <2>2
  <1>8. CASE Combine
    <2>1. /\ main' = main /\ UNCHANGED <<num_transfers, tx_order, tx_owner>>
          /\ UNCHANGED <<tx_counter, tx_in_progress>>
      BY <1>8 DEF Combine, loop, channels
    <2>2. ~StartTransfer
      BY <1>1, <2>1 DEF StartTransfer, LoopInv
    <2>3. SentOf(c)' = SentOf(c)
      <3>1. line[c] # <<>> /\ line[c] \in Seq(Contents)
              /\ line'[c] = Tail(line[c])
        BY <1>1, <1>8 DEF Combine, TxShape, LineType
      <3>2. Len(line'[c]) = Len(line[c]) - 1
        BY <3>1
      <3>3. Len(frames') = Len(frames) + 1
        <4>1. [d \in Channels |-> Head(line[d])] \in [Channels -> Contents]
          BY <1>1, <1>8 DEF Combine, TxShape, LineType
        <4> QED BY <1>1, <1>8, <4>1 DEF Combine, TxShape, LineType
      <3>4. Len(frames) \in Nat /\ Len(line[c]) \in Nat
        BY <1>1, SentTyped
      <3>5. Len(frames') + Len(line'[c]) = Len(frames) + Len(line[c])
        <4> DEFINE f == Len(frames)
                   l == Len(line[c])
        <4>1. /\ f \in Nat /\ l \in Nat
              /\ Len(frames') = f + 1 /\ Len(line'[c]) = l - 1
          BY <3>2, <3>3, <3>4
        <4> HIDE DEF f, l
        <4>2. Len(frames') + Len(line'[c]) = f + l
          BY <4>1
        <4> QED BY <4>2 DEF f, l
      <3> QED BY <3>5 DEF SentOf
    <2>4. DoneOf(c)' = DoneOf(c)
      BY <2>1 DEF DoneOf
    <2> QED BY <1>1, <1>3, <2>1, <2>2, <2>3, <2>4 DEF Progress
  <1>9. CASE /\ UNCHANGED <<num_transfers, frames, line, tx_order, tx_owner>>
             /\ UNCHANGED <<tx_counter, tx_in_progress>>
             /\ main' # "crashed" => main # "crashed"
    <2>1. ~StartTransfer
      BY <1>1, <1>9 DEF StartTransfer, LoopInv
    <2> QED BY <1>1, <1>3, <1>9, <2>1, Untaken
  <1>10. CASE \/ InitChannels \/ ReadFile \/ ReadCrash \/ WaitCrash \/ LoopEnd
              \/ (\E s \in FaultStatuses : WaitFault(s)) \/ UNCHANGED txvars
    BY <1>9, <1>10, ReadSteps DEF InitChannels, ReadCrash, ReadBegins,
       WaitCrash, LoopEnd, WaitFault, Failed, Waited, txvars, loop, channels,
       hardware
  <1>11. ASSUME NEW d \in Channels, Fetch(d) PROVE Progress(c)'
    BY <1>9, <1>11 DEF Fetch, loop, channels
  <1> QED BY <1>5, <1>6, <1>7, <1>8, <1>10, <1>11
          DEF TxNext, MainLoop, Hardware, Engine

LEMMA WaitingStep ==
  ASSUME ProgressInv, [TxNext]_txvars, NEW c \in Channels
  PROVE  Waiting(c)'
  <1> SUFFICES ASSUME FaultStatuses = {}, main' # "crashed"
               PROVE tx_in_progress'[c] = IF Busy(c)' THEN 1 ELSE 0
    BY DEF Waiting
  <1>0. main # "crashed"
    BY ReadSteps DEF TxNext, MainLoop, InitChannels, ReadCrash, ReadBegins,
       StartTransfer, WaitOk, WaitFault, WaitCrash, LoopEnd, Waited,
       Hardware, Engine, Combine, Fetch, Send, txvars
  <1>1. /\ tx_in_progress[c] = IF Busy(c) THEN 1 ELSE 0
        /\ k \in Channels /\ tx_in_progress \in [Channels -> Nat]
    BY <1>0 DEF ProgressInv, ShapeInv, Waiting, LoopInv
  <1>2. /\ k \in Nat /\ c \in Nat /\ 1 <= c /\ c <= NumChannels
        /\ NumChannels \in Nat /\ 1 <= k /\ k <= NumChannels
    BY <1>1, ChannelsOrdered
  <1>3. CASE StartTransfer
    BY <1>1, <1>2, <1>3 DEF StartTransfer, NextChannel, Busy
  <1>4. CASE WaitOk
    BY <1>1, <1>2, <1>4 DEF WaitOk, Waited, NextChannel, Busy
  <1>5. CASE InitChannels \/ ReadFile \/ LoopEnd
    <2>1. UNCHANGED <<k, tx_in_progress>>
      BY <1>5, ReadSteps DEF InitChannels, LoopEnd, loop, channels
    <2>2. ~Busy(c) /\ ~Busy(c)'
      BY <1>2, <1>5, <2>1, ReadSteps DEF InitChannels, LoopEnd, Busy,
         ProgressInv, ShapeInv, LoopInv
    <2> QED BY <1>1, <2>1, <2>2
  <1>6. CASE Hardware \/ UNCHANGED txvars
    BY <1>1, <1>6 DEF Hardware, Engine, Fetch, Send, Combine, txvars, loop,
       channels, Busy
  <1> QED BY <1>3, <1>4, <1>5, <1>6
          DEF TxNext, MainLoop, ReadCrash, WaitCrash

LEMMA NextProgress == ProgressInv /\ [TxNext]_txvars => ProgressInv'
  <1> SUFFICES ASSUME ProgressInv, [TxNext]_txvars PROVE ProgressInv'
    OBVIOUS
  <1>1. ShapeInv'
    BY NextShape DEF ProgressInv
  <1>2. \A c \in Channels : Progress(c)' /\ Waiting(c)'
    BY <1>1, ProgressStep, WaitingStep
  <1> QED BY <1>1, <1>2 DEF ProgressInv

\* The invariant holds whatever fails: what the loop started, the engines hold
\* and the processor got is in step with the counters of main().
THEOREM ProgressInvariance == TxSpec => []ProgressInv
  BY InitProgress, NextProgress, PTL DEF TxSpec

LEMMA WellTyped == ProgressInv => TxTypeOK
  <1> SUFFICES ASSUME ProgressInv PROVE TxTypeOK
    OBVIOUS
  <1>1. i \in 0 .. num_transfers /\ num_transfers \in Nat
    BY TxAssumption DEF ProgressInv, ShapeInv, Bounds, LoopInv
  <1>2. ASSUME NEW c \in Channels
        PROVE  /\ tx_counter[c] \in 0 .. num_transfers
               /\ tx_in_progress[c] \in 0 .. num_transfers
    BY <1>1 DEF ProgressInv, ShapeInv, Progress, LoopInv
  <1>3. /\ tx_counter \in [Channels -> 0 .. num_transfers]
        /\ tx_in_progress \in [Channels -> 0 .. num_transfers]
    BY <1>2 DEF ProgressInv, ShapeInv, LoopInv
  <1> QED BY <1>1, <1>3 DEF ProgressInv, ShapeInv, LoopInv, Bounds, TxShape,
          LineType, Windows, TxTypeOK

\* Whatever fails, no counter leaves its range: no more is started, sent or
\* counted than was ordered.
THEOREM TransmitTyped == TxSpec => []TxTypeOK
  BY ProgressInvariance, WellTyped, PTL

\* Where no wait fails, the loop ends when every channel has sent every window.
LEMMA AllSent ==
  ASSUME ProgressInv, FaultStatuses = {}, main = "finish", NEW c \in Channels
  PROVE  SentOf(c) = num_transfers
  <1>1. /\ i = num_transfers /\ Started(c) = i /\ ~Busy(c)
        /\ tx_counter[c] \in Nat /\ num_transfers \in Nat
    BY TxAssumption DEF ProgressInv, ShapeInv, Bounds, LoopInv, Started, Busy
  <1>2. tx_counter[c] = num_transfers
    BY <1>1 DEF ProgressInv, ShapeInv, LoopInv, Accounted, Waiting
  <1>3. /\ Cardinality(DoneOf(c)) + tx_counter[c] <= SentOf(c)
        /\ SentOf(c) + Len(tx_order[c]) <= num_transfers
    BY DEF ProgressInv, Progress
  <1> QED BY <1>1, <1>2, <1>3, BuffersFinite, SentTyped
          DEF ProgressInv, ShapeInv

=============================================================================
