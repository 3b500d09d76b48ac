-------------------------- MODULE DescriptorsProofs --------------------------
(***************************************************************************)
(* No close() of ip_comm_test hits a file of someone else, for any number  *)
(* of transmit channels and transfers.                                     *)
(***************************************************************************)
EXTENDS Descriptors, FiniteSetTheorems, WellFoundedInduction, TLAPS

-----------------------------------------------------------------------------
(* The table.                                                              *)

\* Min of a set of integers bounded from below is its least member.
LEMMA LeastNumber ==
  ASSUME NEW S \in SUBSET Nat, S # {}
  PROVE  Min(S) \in S /\ \A y \in S : Min(S) <= y
  <1>1. PICK x \in S : \A y \in S : <<y, x>> \notin OpToRel(<, Nat)
    BY WFMin, NatLessThanWellFounded, Zenon
  <1>2. \A y \in S : ~(y < x)
    BY <1>1, Zenon DEF OpToRel
  <1>3. \A y \in S : x <= y
    BY <1>2
  <1> QED BY <1>3 DEF Min

LEMMA Constants ==
  /\ Owners = 0 .. NumTx + 3 /\ Tx = 1 .. NumTx
  /\ rx = 0 /\ fd = NumTx + 1 /\ dump_file = NumTx + 2 /\ fp = NumTx + 3
  /\ Free = -1 /\ Tx \subseteq Owners
  /\ Numbers = 3 .. NumTx + 7 + NumTransfers
  <1>1. Owners = 0 .. NumTx + 3
    BY DEF Owners, rx, fp
  <1>2. Cardinality(Owners) = NumTx + 4
    BY <1>1, FS_Interval, DescAssumption
  <1> QED BY <1>1, <1>2, DescAssumption
          DEF Tx, rx, fd, dump_file, fp, Free, Numbers

\* Each open file belongs to the variable that holds its number.
Held ==
  /\ table \in [Numbers -> Owners \union {Free}]
  /\ held \in [Owners -> Numbers \union {-1}]
  /\ \A f \in Numbers : table[f] # Free => held[table[f]] = f

\* So there are no more open files than variables, and open() always finds a
\* number.
LEMMA LowestFree ==
  ASSUME Held
  PROVE  /\ Lowest \in Numbers /\ table[Lowest] = Free
         /\ \A f \in Numbers : table[f] = Free => Lowest <= f
  <1> DEFINE FreeOnes == {f \in Numbers : table[f] = Free}
             Used == Numbers \ FreeOnes
             g == [f \in Used |-> table[f]]
  <1>1. FreeOnes # {}
    <2>1. SUFFICES ASSUME FreeOnes = {} PROVE FALSE
      OBVIOUS
    <2>2. table \in [Numbers -> Owners]
      BY <2>1 DEF Held
    <2>3. /\ IsFiniteSet(Numbers) /\ IsFiniteSet(Owners)
          /\ Cardinality(Owners) < Cardinality(Numbers)
      BY Constants, FS_Interval, DescAssumption
    <2>4. PICK x, y \in Numbers : x # y /\ table[x] = table[y]
      BY <2>2, <2>3, FS_PigeonHole
    <2>5. table[x] \in Owners /\ table[y] \in Owners /\ Free \notin Owners
      BY <2>2, Constants, DescAssumption
    <2>6. held[table[x]] = x /\ held[table[y]] = y
      BY <2>5 DEF Held
    <2> QED BY <2>4, <2>6
  <1>2. FreeOnes \in SUBSET Nat
    BY Constants, DescAssumption
  <1>3. Min(FreeOnes) \in FreeOnes /\ \A f \in FreeOnes : Min(FreeOnes) <= f
    BY <1>1, <1>2, LeastNumber
  <1>4. Lowest = Min(FreeOnes)
    BY DEF Lowest
  <1> HIDE DEF FreeOnes
  <1>5. Lowest \in FreeOnes /\ \A f \in FreeOnes : Lowest <= f
    BY <1>3, <1>4
  <1> QED BY <1>5 DEF FreeOnes

\* So a file that is opened gets a number that nobody's open file has, the
\* lowest one.
LEMMA OpenStep ==
  ASSUME Held, NEW x \in Owners, OpenFor(x), \A f \in Numbers : table[f] # x
  PROVE  /\ Held'
         /\ held'[x] = Lowest /\ table'[Lowest] = x
         /\ \A y \in Owners \ {x} : held'[y] = held[y]
         /\ \A f \in Numbers : table[f] # Free => table'[f] = table[f]
         /\ \A f \in Numbers : table'[f] \in {table[f], x}
  <1>1. Lowest \in Numbers /\ table[Lowest] = Free
    BY LowestFree
  <1>2. Free \notin Owners
    BY Constants, DescAssumption
  <1> QED BY <1>1, <1>2 DEF OpenFor, Held

\* close() affects at most the file that has the number.
LEMMA CloseStep ==
  ASSUME Held, NEW x \in Owners, CloseOf(x), held' = held
  PROVE  /\ Held'
         /\ held[x] \in Numbers => table'[held[x]] = Free
         /\ \A f \in Numbers : table'[f] \in {table[f], Free}
         /\ \A f \in Numbers : f # held[x] => table'[f] = table[f]
         /\ closed'.by = x
         /\ held[x] \notin Numbers => closed'.what = Free
         /\ held[x] \in Numbers => closed'.what = table[held[x]]
  BY DEF CloseOf, Held

-----------------------------------------------------------------------------
(* The invariant.                                                          *)

Beginning == main \in {"axi_dsp_init", "configure"}

\* Where main() is, with its counter and the thread.
Progress ==
  \/ Beginning /\ n = 0 /\ thread = "off"
  \/ main = "dump" /\ n = 0 /\ thread = "off"
  \/ main = "init_tx" /\ n \in 1 .. NumTx /\ thread = "off"
  \/ main = "start" /\ n = 0 /\ thread = "off"
  \/ main = "loop" /\ n \in 0 .. NumTransfers /\ thread \in {"on", "done"}
  \/ main = "reading" /\ n \in 0 .. NumTransfers - 1
     /\ thread \in {"on", "done"}
  \/ main = "cleanup" /\ n \in 0 .. NumTx /\ thread = "done"
  \/ main \in {"axi_dsp_deinit", "return"} /\ n = 0 /\ thread = "done"

\* Up to the first channel only axi_dsp can have a file: the first one.
OnlyAxiDsp ==
  Beginning =>
    /\ \A f \in Numbers : table[f] # Free => f = 3 /\ table[f] = fd
    /\ \A x \in Owners \ {fd} : held[x] = -1
    /\ held[fd] \in {-1, 3}
    /\ main = "axi_dsp_init" => \A f \in Numbers : table[f] = Free

\* From then on the receive channel has its number, open until the thread ends,
\* and neither the dump nor a transmit channel ever gets the same one ...
RxNumber ==
  ~Beginning =>
    /\ held[rx] \in Numbers
    /\ table[held[rx]] \in {rx, fp, Free}
    /\ thread # "done" => table[held[rx]] = rx
    /\ thread = "done" => \A f \in Numbers : table[f] # rx
    /\ \A x \in Tx \union {dump_file} : held[x] # held[rx]

\* ... and if axi_dsp's number is stale, it is the same.
AxiDspNumber ==
  ~Beginning /\ main # "return" /\ held[fd] \in Numbers =>
    held[fd] = held[rx] \/ table[held[fd]] = fd

\* Transmit channels that have been initialised and not cleaned up.
Initialised ==
  {c \in Tx : \/ main = "init_tx" /\ c < n
              \/ main \in {"start", "loop", "reading"}
              \/ main = "cleanup" /\ c <= n}

\* They have their files; what is not initialised has none.
TxNumbers ==
  /\ \A c \in Initialised : held[c] \in Numbers /\ table[held[c]] = c
  /\ \A c \in Tx \ Initialised : \A f \in Numbers : table[f] # c
  /\ main = "dump" => held[dump_file] = -1
  /\ main \in {"dump", "init_tx"} => \A c \in Tx \ Initialised : held[c] = -1

\* The input file is open while it is read.
FileNumber ==
  /\ main = "reading" => held[fp] \in Numbers /\ table[held[fp]] = fp
  /\ main # "reading" => \A f \in Numbers : table[f] # fp

DescInv ==
  /\ Held
  /\ Progress
  /\ OnlyAxiDsp
  /\ RxNumber
  /\ AxiDspNumber
  /\ TxNumbers
  /\ FileNumber
  /\ NoForeignClose

LEMMA InitDesc == Init => DescInv
  <1> SUFFICES ASSUME Init PROVE DescInv
    OBVIOUS
  <1>1. Held /\ Progress /\ OnlyAxiDsp /\ RxNumber /\ AxiDspNumber
    BY Constants, DescAssumption
    DEF Init, Held, Beginning, Progress, OnlyAxiDsp, RxNumber, AxiDspNumber
  <1>2. TxNumbers /\ FileNumber /\ NoForeignClose
    BY Constants, DescAssumption
    DEF Init, Initialised, TxNumbers, FileNumber, NoForeignClose
  <1> QED BY <1>1, <1>2 DEF DescInv

\* From here on the parts of the invariant are visible.
USE DEF DescInv, Beginning, Progress, OnlyAxiDsp, RxNumber, AxiDspNumber,
        Initialised, TxNumbers, FileNumber, NoForeignClose

LEMMA AxiDspInitStep == ASSUME DescInv, AxiDspInit PROVE DescInv'
  <1>0. main = "axi_dsp_init" /\ \A f \in Numbers : table[f] = Free
    BY DEF AxiDspInit
  <1>1. CASE OpenFor(fd)
    <2>1. fd \in Owners /\ 3 \in Numbers /\ fd # Free
      BY Constants, DescAssumption
    <2>2. Lowest = 3
      BY <1>0, <2>1, LowestFree, Constants, DescAssumption
    <2>3. /\ Held' /\ held'[fd] = 3 /\ table'[3] = fd
          /\ \A y \in Owners \ {fd} : held'[y] = held[y]
          /\ \A f \in Numbers : table'[f] \in {table[f], fd}
      BY <1>0, <1>1, <2>1, <2>2, OpenStep
    <2>4. Progress' /\ OnlyAxiDsp' /\ RxNumber' /\ AxiDspNumber'
      BY <1>0, <2>3, Constants, DescAssumption DEF AxiDspInit, Held
    <2>5. TxNumbers' /\ FileNumber' /\ NoForeignClose'
      BY <1>0, <2>3, Constants, DescAssumption DEF AxiDspInit, Held
    <2> QED BY <2>3, <2>4, <2>5
  <1>2. CASE UNCHANGED <<table, held>>
    BY <1>0, <1>2, Constants, DescAssumption DEF AxiDspInit, Held
  <1> QED BY <1>1, <1>2 DEF AxiDspInit

LEMMA AxiDspFailsStep == ASSUME DescInv, AxiDspFails PROVE DescInv'
  <1>1. fd \in Owners
    BY Constants, DescAssumption
  <1>2. /\ Held' /\ \A f \in Numbers : table'[f] \in {table[f], Free}
        /\ closed'.by = fd
        /\ held[fd] \notin Numbers => closed'.what = Free
        /\ held[fd] \in Numbers => closed'.what = table[held[fd]]
    BY <1>1, CloseStep DEF AxiDspFails
  <1> QED BY <1>1, <1>2, Constants, DescAssumption
          DEF AxiDspFails, Configures, Held

LEMMA InitRxStep == ASSUME DescInv, InitRx PROVE DescInv'
  <1>1. rx \in Owners /\ rx # fd /\ rx # Free
    BY Constants, DescAssumption
  <1>2. main = "configure" /\ OnlyAxiDsp /\ Held
    BY DEF InitRx, DescInv
  <1>3. \A f \in Numbers : table[f] # rx
    BY <1>1, <1>2
  <1>4. /\ Held' /\ held'[rx] = Lowest /\ table'[Lowest] = rx
        /\ \A y \in Owners \ {rx} : held'[y] = held[y]
        /\ \A f \in Numbers : table'[f] \in {table[f], rx}
        /\ \A f \in Numbers : table[f] # Free => table'[f] = table[f]
    BY <1>1, <1>3, OpenStep DEF InitRx
  <1>5. Lowest \in Numbers /\ \A f \in Numbers : table[f] = Free => Lowest <= f
    BY LowestFree
  <1>6. held[fd] \in Numbers => held'[fd] = held'[rx] \/ table'[held'[fd]] = fd
    BY <1>1, <1>2, <1>4, <1>5, Constants, DescAssumption
  <1>7. Progress' /\ OnlyAxiDsp' /\ RxNumber' /\ AxiDspNumber'
    BY <1>1, <1>2, <1>4, <1>5, <1>6, Constants, DescAssumption DEF InitRx, Held
  <1>8. TxNumbers' /\ FileNumber' /\ NoForeignClose'
    BY <1>1, <1>2, <1>4, <1>5, Constants, DescAssumption DEF InitRx, Held
  <1> QED BY <1>4, <1>7, <1>8

LEMMA OpenDumpStep == ASSUME DescInv, OpenDump PROVE DescInv'
  <1>1. dump_file \in Owners /\ dump_file \notin {rx, fd, fp, Free} \union Tx
    BY Constants, DescAssumption
  <1>2. \A f \in Numbers : table[f] # dump_file
    BY <1>1, Constants, DescAssumption DEF OpenDump, Held
  <1>3. CASE OpenFor(dump_file)
    <2>1. /\ Held' /\ held'[dump_file] = Lowest
          /\ table'[Lowest] = dump_file
          /\ \A y \in Owners \ {dump_file} : held'[y] = held[y]
          /\ \A f \in Numbers : table'[f] \in {table[f], dump_file}
          /\ \A f \in Numbers : table[f] # Free => table'[f] = table[f]
      BY <1>1, <1>2, <1>3, OpenStep
    <2>2. Lowest \in Numbers /\ table[Lowest] = Free
      BY LowestFree
    <2>3. Progress' /\ OnlyAxiDsp' /\ RxNumber' /\ AxiDspNumber'
      BY <1>1, <2>1, <2>2, Constants, DescAssumption DEF OpenDump, Held
    <2>4. TxNumbers' /\ FileNumber' /\ NoForeignClose'
      BY <1>1, <2>1, <2>2, Constants, DescAssumption DEF OpenDump, Held
    <2> QED BY <2>1, <2>3, <2>4
  <1>4. CASE UNCHANGED <<table, held>>
    BY <1>4, Constants, DescAssumption DEF OpenDump, Held
  <1> QED BY <1>3, <1>4 DEF OpenDump

LEMMA InitTxStep == ASSUME DescInv, InitTx PROVE DescInv'
  <1>1. n \in Tx /\ n \in Owners /\ n \notin {rx, fd, fp, dump_file, Free}
    BY Constants, DescAssumption DEF InitTx
  <1>2. n \notin Initialised /\ \A f \in Numbers : table[f] # n
    BY <1>1, Constants, DescAssumption DEF InitTx
  <1>3. /\ Held' /\ held'[n] = Lowest /\ table'[Lowest] = n
        /\ \A y \in Owners \ {n} : held'[y] = held[y]
        /\ \A f \in Numbers : table'[f] \in {table[f], n}
        /\ \A f \in Numbers : table[f] # Free => table'[f] = table[f]
    BY <1>1, <1>2, OpenStep DEF InitTx
  <1>4. Lowest \in Numbers /\ table[Lowest] = Free
    BY LowestFree
  <1>5. Initialised' = Initialised \union {n}
    BY <1>1, Constants, DescAssumption DEF InitTx, LastTx
  <1>6. Progress' /\ OnlyAxiDsp' /\ RxNumber' /\ AxiDspNumber'
    BY <1>1, <1>3, <1>4, Constants, DescAssumption DEF InitTx, LastTx, Held
  <1>7. TxNumbers'
    <2>1. /\ \A c \in Initialised : held[c] \in Numbers /\ table[held[c]] = c
          /\ \A c \in Tx \ Initialised : \A f \in Numbers : table[f] # c
          /\ \A c \in Tx \ Initialised : held[c] = -1
      BY DEF InitTx
    <2>2. main' \in {"init_tx", "start"}
      BY DEF InitTx
    <2>3. Initialised \subseteq Tx /\ Tx \subseteq Owners /\ Free \notin Tx
      BY Constants, DescAssumption
    <2> HIDE DEF Initialised
    <2> QED BY <1>1, <1>3, <1>4, <1>5, <2>1, <2>2, <2>3 DEF Held
  <1>8. FileNumber' /\ NoForeignClose'
    BY <1>1, <1>3, Constants, DescAssumption DEF InitTx
  <1> QED BY <1>3, <1>6, <1>7, <1>8

LEMMA StartStep == ASSUME DescInv, Start PROVE DescInv'
  BY Constants, DescAssumption DEF Start, Held

LEMMA FopenStep == ASSUME DescInv, Fopen PROVE DescInv'
  <1>1. fp \in Owners /\ fp \notin {rx, fd, dump_file, Free} \union Tx
    BY Constants, DescAssumption
  <1>2. CASE OpenFor(fp) /\ main' = "reading" /\ UNCHANGED n
    <2>1. /\ Held' /\ held'[fp] = Lowest /\ table'[Lowest] = fp
          /\ \A y \in Owners \ {fp} : held'[y] = held[y]
          /\ \A f \in Numbers : table'[f] \in {table[f], fp}
          /\ \A f \in Numbers : table[f] # Free => table'[f] = table[f]
      BY <1>1, <1>2, OpenStep DEF Fopen
    <2>2. Lowest \in Numbers /\ table[Lowest] = Free
      BY LowestFree
    <2>3. Progress' /\ OnlyAxiDsp' /\ RxNumber' /\ AxiDspNumber'
      BY <1>1, <1>2, <2>1, <2>2, Constants, DescAssumption DEF Fopen, Held
    <2>4. TxNumbers' /\ FileNumber' /\ NoForeignClose'
      BY <1>1, <1>2, <2>1, <2>2, Constants, DescAssumption DEF Fopen, Held
    <2> QED BY <2>1, <2>3, <2>4
  <1>3. CASE n' = n + 1 /\ UNCHANGED <<main, table, held>>
    BY <1>3, Constants, DescAssumption DEF Fopen, Held
  <1> QED BY <1>2, <1>3 DEF Fopen

LEMMA ReadFileStep == ASSUME DescInv, ReadFile PROVE DescInv'
  <1>1. fp \in Owners /\ fp \notin {rx, fd, dump_file, Free} \union Tx
    BY Constants, DescAssumption
  <1>2. held[fp] \in Numbers /\ table[held[fp]] = fp
    BY DEF ReadFile
  <1>3. /\ Held' /\ table'[held[fp]] = Free
        /\ \A f \in Numbers : table'[f] \in {table[f], Free}
        /\ \A f \in Numbers : f # held[fp] => table'[f] = table[f]
        /\ closed'.what = fp /\ closed'.by = fp
    BY <1>1, <1>2, CloseStep DEF ReadFile, Fclose
  <1>4. \A f \in Numbers : table[f] = fp => f = held[fp]
    BY <1>1 DEF Held
  <1>5. Progress' /\ OnlyAxiDsp' /\ RxNumber' /\ AxiDspNumber'
    BY <1>1, <1>2, <1>3, <1>4, Constants, DescAssumption DEF ReadFile, Held
  <1>6. TxNumbers'
    <2>1. /\ Initialised' = Initialised /\ main' = "loop"
          /\ Initialised \subseteq Tx
      BY DEF ReadFile
    <2>2. /\ \A c \in Initialised : held[c] \in Numbers /\ table[held[c]] = c
          /\ \A c \in Tx \ Initialised : \A f \in Numbers : table[f] # c
      OBVIOUS
    <2>3. UNCHANGED held /\ Free \notin Tx /\ fp \notin Tx
      BY <1>1, Constants DEF ReadFile
    <2> HIDE DEF Initialised
    <2>4. \A c \in Initialised' : held'[c] \in Numbers /\ table'[held'[c]] = c
      BY <1>2, <1>3, <2>1, <2>2, <2>3
    <2>5. \A c \in Tx \ Initialised' : \A f \in Numbers : table'[f] # c
      BY <1>3, <2>1, <2>2, <2>3
    <2> QED BY <2>1, <2>4, <2>5
  <1>7. FileNumber' /\ NoForeignClose'
    BY <1>1, <1>3, <1>4, Constants, DescAssumption DEF ReadFile
  <1> QED BY <1>3, <1>5, <1>6, <1>7

LEMMA WaitForFinishStep == ASSUME DescInv, WaitForFinish PROVE DescInv'
  BY Constants, DescAssumption DEF WaitForFinish, Held

\* A transmit channel closes its own file, the receive channel a number that is
\* not in use any more.
LEMMA CleanupStep == ASSUME DescInv, Cleanup PROVE DescInv'
  <1>1. /\ n \in 0 .. NumTx /\ n \in Owners /\ main = "cleanup"
        /\ n \notin {fd, dump_file, fp, Free}
    BY Constants, DescAssumption DEF Cleanup
  <1>2. held[n] \in Numbers /\ table[held[n]] \in {n, Free}
    BY <1>1, Constants, DescAssumption DEF Cleanup
  <1>3. /\ Held' /\ table'[held[n]] = Free
        /\ \A f \in Numbers : table'[f] \in {table[f], Free}
        /\ \A f \in Numbers : f # held[n] => table'[f] = table[f]
        /\ closed'.what \in {n, Free} /\ closed'.by = n
    BY <1>1, <1>2, CloseStep DEF Cleanup
  <1>4. \A f \in Numbers : table[f] = n => f = held[n]
    BY <1>1 DEF Held
  <1>5. Progress' /\ OnlyAxiDsp' /\ RxNumber' /\ AxiDspNumber'
    BY <1>1, <1>2, <1>3, <1>4, Constants, DescAssumption DEF Cleanup, Held
  <1>6. TxNumbers'
    <2>1. /\ Initialised' = Initialised \ {n}
          /\ main' \notin {"dump", "init_tx"}
          /\ Initialised \subseteq Tx /\ n \in Tx => n \in Initialised
      BY <1>1, Constants, DescAssumption DEF Cleanup
    <2>2. /\ \A c \in Initialised : held[c] \in Numbers /\ table[held[c]] = c
          /\ \A c \in Tx \ Initialised : \A f \in Numbers : table[f] # c
      OBVIOUS
    <2>3. UNCHANGED held /\ Free \notin Tx
      BY Constants DEF Cleanup
    <2> HIDE DEF Initialised
    <2>4. \A c \in Initialised' : held'[c] \in Numbers /\ table'[held'[c]] = c
      BY <1>2, <1>3, <2>1, <2>2, <2>3
    <2>5. \A c \in Tx \ Initialised' : \A f \in Numbers : table'[f] # c
      BY <1>2, <1>3, <1>4, <2>1, <2>2, <2>3
    <2> QED BY <2>1, <2>4, <2>5
  <1>7. FileNumber' /\ NoForeignClose'
    BY <1>1, <1>3, Constants, DescAssumption DEF Cleanup
  <1> QED BY <1>3, <1>5, <1>6, <1>7

\* When the number of axi_dsp is stale it is the one that the receive channel
\* had, too, and all who may have had it since have closed it.
LEMMA AxiDspDeinitStep == ASSUME DescInv, AxiDspDeinit PROVE DescInv'
  <1>1. fd \in Owners /\ fd \notin {rx, dump_file, fp, Free} \union Tx
    BY Constants, DescAssumption
  <1>2. held[fd] \in Numbers => table[held[fd]] \in {fd, Free}
    BY DEF AxiDspDeinit
  <1>3. /\ Held'
        /\ \A f \in Numbers : table'[f] \in {table[f], Free}
        /\ closed'.what \in {fd, Free} /\ closed'.by = fd
    BY <1>1, <1>2, CloseStep DEF AxiDspDeinit
  <1> QED BY <1>1, <1>3, Constants, DescAssumption DEF AxiDspDeinit, Held

LEMMA EndStep == ASSUME DescInv, End PROVE DescInv'
  <1>1. rx \in Owners /\ rx \notin {fd, dump_file, fp, Free} \union Tx
    BY Constants, DescAssumption
  <1>2. ~Beginning /\ held[rx] \in Numbers /\ table[held[rx]] = rx
    BY DEF End
  <1>3. /\ Held' /\ table'[held[rx]] = Free
        /\ \A f \in Numbers : table'[f] \in {table[f], Free}
        /\ \A f \in Numbers : f # held[rx] => table'[f] = table[f]
        /\ closed'.what = rx /\ closed'.by = rx
    BY <1>1, <1>2, CloseStep DEF End
  <1>4. \A f \in Numbers : table[f] = rx => f = held[rx]
    BY <1>1 DEF Held
  <1>5. Progress' /\ OnlyAxiDsp' /\ RxNumber' /\ AxiDspNumber'
    BY <1>1, <1>2, <1>3, <1>4, Constants, DescAssumption DEF End, Held
  <1>6. TxNumbers' /\ FileNumber' /\ NoForeignClose'
    BY <1>1, <1>2, <1>3, <1>4, Constants, DescAssumption DEF End, Held
  <1> QED BY <1>3, <1>5, <1>6

LEMMA NextDesc == DescInv /\ [Next]_vars => DescInv'
  <1>1. CASE UNCHANGED vars
    BY <1>1 DEF vars, Held
  <1> QED BY <1>1, AxiDspInitStep, AxiDspFailsStep, InitRxStep, OpenDumpStep,
             InitTxStep, StartStep, FopenStep, ReadFileStep,
             WaitForFinishStep, CleanupStep, AxiDspDeinitStep, EndStep
          DEF Next

HIDE DEF DescInv, Beginning, Progress, OnlyAxiDsp, RxNumber, AxiDspNumber,
         Initialised, TxNumbers, FileNumber, NoForeignClose

-----------------------------------------------------------------------------
(* The theorems.                                                           *)

\* Whatever is opened and closed in the two threads, a stale number is that of
\* an own file, of nobody's, or will not be closed before its new owner has.
THEOREM DescInvariance == Spec => []DescInv
  BY InitDesc, NextDesc, PTL DEF Spec

\* No close() hits a file of someone else, however many channels there are and
\* however often the input file is read.
THEOREM ClosesOwn == Spec => []NoForeignClose
  <1>1. DescInv => NoForeignClose
    BY DEF DescInv
  <1> QED BY <1>1, DescInvariance, PTL

\* Every device stays open up to its own cleanup.
THEOREM DevicesStayOpen == Spec => []DevicesOpen
  <1>1. DescInv => DevicesOpen
    BY DEF DescInv, Progress, Beginning, RxNumber, TxNumbers, Initialised,
       DevicesOpen
  <1> QED BY <1>1, DescInvariance, PTL

\* Every variable keeps its type: there is always a number for open() to give
\* out.
THEOREM DescTyped == Spec => []TypeOK
  <1>1. Max({NumTx, NumTransfers}) >= NumTx
        /\ Max({NumTx, NumTransfers}) >= NumTransfers
        /\ Max({NumTx, NumTransfers}) \in Nat
    <2>1. \E x \in {NumTx, NumTransfers} :
            \A y \in {NumTx, NumTransfers} : x >= y
      BY DescAssumption
    <2> QED BY <2>1, DescAssumption DEF Max
  <1>2. DescInv => TypeOK
    <2> DEFINE m == Max({NumTx, NumTransfers})
    <2>1. m >= NumTx /\ m >= NumTransfers /\ m \in Nat
      BY <1>1
    <2> HIDE DEF m
    <2>2. DescInv => n \in 0 .. m
      BY <2>1, DescAssumption DEF DescInv, Progress, Beginning
    <2>3. DescInv => n \in 0 .. Max({NumTx, NumTransfers})
      BY <2>2 DEF m
    <2> QED BY <2>3 DEF DescInv, Progress, Beginning, Held, TypeOK
  <1> QED BY <1>2, DescInvariance, PTL

=============================================================================
