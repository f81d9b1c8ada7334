-------------------------- MODULE KSAEngineProofs --------------------------
(***************************************************************************)
(* swap_memory.sv implements the RC4 key schedule, for a table of any size, *)
(* every key and whatever byte the build puts where the source says 8'bx.   *)
(***************************************************************************)
EXTENDS KSAEngine, TLAPS

(* No two cells of a table are equal. *)
Distinct(t) == \A a, b \in Byte : t[a] = t[b] => a = b

(* A memory that shows old data on a write needs tables without equal cells, *)
(* which is what init_memory.sv prepares.                                    *)
MemoryFits == NewDataOnWrite \/ \A t \in Tables : Distinct(t)

(* ------------------------- the inductive invariant ---------------------- *)

Started ==
  /\ state # "IDLE" => start_flag
  /\ state = "DONE" => i_index = END_ADDR

(* What each state may rely on about the read that is under way. *)
ReadInv ==
  /\ state = "WAIT_I_ADDR" => address = i_index
  /\ state = "GET_I_DATA" => data_out = s_mem[i_index]
  /\ state \in {"ADD_SUM_J"} \cup BeforeSwap => i_data = s_mem[i_index]
  /\ state = "WAIT_J_ADDR" => address = j_index
  /\ state = "GET_J_DATA" => data_out = s_mem[j_index] /\ address = j_index

(* SWAP_DATA_I is entered with its exit condition true: its one edge writes *)
(* a left-over byte to s[j], which is dead from now on.                      *)
FirstWrite ==
  state = "SWAP_DATA_I" =>
    /\ address = j_index /\ data_out = j_data /\ s_mem[j_index] = j_data
    /\ i_index = j_index => i_data = j_data

(* In SWAP_DATA_J the write of s[i] is presented, then that of s[j].        *)
SecondWrite ==
  state = "SWAP_DATA_J" =>
    /\ i_index = j_index => i_data = j_data
    /\ \/ /\ address = i_index /\ data_in = j_data
          /\ data_out = s_mem[j_index] \/ (data_out = j_data /\ ~NewDataOnWrite)
       \/ /\ address = j_index /\ data_in = i_data
          /\ i_index # j_index => s_mem[i_index] = j_data

EngineInv ==
  /\ EngineTypeOK /\ Started /\ ReadInv /\ FirstWrite /\ SecondWrite
  /\ ~NewDataOnWrite /\ start_flag => Distinct(TableShown)

(* ---------------------------- the memory -------------------------------- *)

(* Indices and values of the table are one byte type, closed under % N. *)
LEMMA ByteFacts ==
  /\ 0 \in Byte /\ END_ADDR \in Byte /\ N \in Nat /\ N > 0
  /\ \A x \in Nat : x % N \in Byte
  /\ \A x \in Byte : x \in Nat
  /\ \A x \in Byte : x # END_ADDR => x + 1 \in Byte
  /\ Garbage \subseteq Byte
BY NAssumption, GarbageAssumption DEF Byte, END_ADDR

(* Every index picks a byte of the key. *)
LEMMA KeyFacts ==
  ASSUME secret_key \in Key, i_index \in Byte
  PROVE  secret_key[i_index % keylength] \in Byte
<1>1. i_index % 3 \in 0 .. 2
  BY ByteFacts
<1> QED BY <1>1 DEF Key, keylength

(* A swap of two cells keeps a table free of equal cells. *)
LEMMA SwapDistinct ==
  ASSUME NEW t \in [Byte -> Byte], Distinct(t), NEW a \in Byte, NEW b \in Byte
  PROVE  Distinct([t EXCEPT ![a] = t[b], ![b] = t[a]])
BY DEF Distinct

(* Writing a cell again with what it holds changes nothing. *)
LEMMA RewriteCells ==
  ASSUME NEW t \in [Byte -> Byte], NEW a \in Byte, NEW b \in Byte,
         NEW x \in Byte, NEW y \in Byte, a = b => x = y
  PROVE  LET u == [t EXCEPT ![a] = x, ![b] = y]
         IN  /\ u = [u EXCEPT ![a] = x, ![b] = y]
             /\ (a # b => t[a] = x) => u = [t EXCEPT ![b] = y]
<1>1. CASE a = b
  BY <1>1
<1>2. CASE a # b
  BY <1>2
<1> QED BY <1>1, <1>2

(* The memory after an edge. *)
LEMMA MemoryType ==
  ASSUME EngineTypeOK, Clock
  PROVE  s_mem' \in [Byte -> Byte] /\ data_out' \in Byte
BY DEF EngineTypeOK, TypeOK, Clock, RAM!CellsAfter, RAM!QAfter

(* ------------------------ the invariant, state by state ----------------- *)

(* An idle FSM relies on nothing. *)
LEMMA InitEngine == MemoryFits /\ Init => EngineInv
<1> SUFFICES ASSUME MemoryFits, Init PROVE EngineInv
  OBVIOUS
<1>1. EngineTypeOK
  BY ByteFacts, TablesAssumption
     DEF Init, Start, EngineTypeOK, TypeOK, States, START_ADDR
<1>2. Started /\ ReadInv /\ FirstWrite /\ SecondWrite /\ ~start_flag
  BY DEF Init, Start, Started, ReadInv, FirstWrite, SecondWrite, BeforeSwap
<1> QED BY <1>1, <1>2 DEF EngineInv

(* The types survive every edge. *)
LEMMA ClockType ==
  ASSUME EngineInv, Clock
  PROVE  EngineTypeOK'
<1> USE ByteFacts, MemoryType DEF EngineInv, EngineTypeOK, TypeOK, Clock, States
<1>1. CASE Idle
  BY <1>1 DEF Idle, Clear, START_ADDR
<1>2. CASE SetIAddr \/ WaitIAddr \/ SetJAddr \/ WaitJAddr
  BY <1>2 DEF SetIAddr, WaitIAddr, SetJAddr, WaitJAddr, Present
<1>3. CASE GetIData
  BY <1>3 DEF GetIData
<1>4. CASE AddSumJ
  <2>1. secret_key[i_index % keylength] \in Nat /\ j_index \in Nat /\ i_data \in Nat
    BY KeyFacts
  <2>2. j_index' \in Byte
    BY <1>4, <2>1 DEF AddSumJ
  <2> QED BY <1>4, <2>2 DEF AddSumJ
<1>5. CASE GetJData
  BY <1>5 DEF GetJData
<1>6. CASE SwapDataI \/ SwapDataJ
  BY <1>6 DEF SwapDataI, SwapDataJ, WriteUntilSeen
<1>7. CASE Increment
  BY <1>7 DEF Increment
<1>8. CASE Done
  BY <1>8 DEF Done
<1> QED BY <1>1, <1>2, <1>3, <1>4, <1>5, <1>6, <1>7, <1>8 DEF Tick

(* What the second write state knows of its two writes. *)
LEMMA SecondWriteCases ==
  ASSUME SecondWrite, state = "SWAP_DATA_J"
  PROVE  \/ /\ address = i_index /\ data_in = j_data
            /\ data_out = s_mem[j_index] \/ (data_out = j_data /\ ~NewDataOnWrite)
         \/ /\ address = j_index /\ data_in = i_data
            /\ i_index # j_index => s_mem[i_index] = j_data
BY DEF SecondWrite

(* Whenever it hands over, the swap is complete. *)
LEMMA SwapJTable ==
  ASSUME EngineInv, SwapDataJ,
         s_mem' = RAM!CellsAfter(s_mem, wren, address, data_in)
  PROVE  TableShown' = TableShown
<1>1. /\ state = "SWAP_DATA_J" /\ state' \in {"SWAP_DATA_J", "INCREMENT"}
      /\ s_mem' = [s_mem EXCEPT ![address] = data_in]
      /\ UNCHANGED <<i_index, j_index, i_data, j_data>>
      /\ state' = "INCREMENT" => data_out = i_data
  BY DEF SwapDataJ, WriteUntilSeen, RAM!CellsAfter, wren
<1>2. /\ s_mem \in [Byte -> Byte] /\ i_index \in Byte /\ j_index \in Byte
      /\ i_data \in Byte /\ j_data \in Byte
      /\ i_index = j_index => i_data = j_data
  BY <1>1 DEF EngineInv, EngineTypeOK, TypeOK, SecondWrite
<1>3. TableShown = [s_mem EXCEPT ![i_index] = j_data, ![j_index] = i_data]
  BY <1>1 DEF TableShown, Written, BeforeSwap, InSwap
<1>4. TableShown' = IF state' = "SWAP_DATA_J"
                      THEN [s_mem' EXCEPT ![i_index] = j_data, ![j_index] = i_data]
                      ELSE s_mem'
  BY <1>1 DEF TableShown, Written, BeforeSwap, InSwap
<1>5. CASE /\ address = j_index /\ data_in = i_data
           /\ i_index # j_index => s_mem[i_index] = j_data
  <2>1. s_mem' = [s_mem EXCEPT ![j_index] = i_data]
    BY <1>1, <1>5
  <2>2. s_mem' = TableShown
    BY <1>2, <1>3, <1>5, <2>1, RewriteCells
  <2>3. [s_mem' EXCEPT ![i_index] = j_data, ![j_index] = i_data] = s_mem'
    BY <1>2, <1>3, <2>2, RewriteCells
  <2> QED BY <1>4, <2>2, <2>3
<1>6. CASE /\ address = i_index /\ data_in = j_data
           /\ state' = "SWAP_DATA_J" \/ s_mem[j_index] = i_data
  <2>1. s_mem' = [s_mem EXCEPT ![i_index] = j_data]
    BY <1>1, <1>6
  <2>2. CASE state' = "SWAP_DATA_J"
    BY <1>2, <1>3, <1>4, <2>1, <2>2
  <2>3. CASE state' # "SWAP_DATA_J"
    BY <1>2, <1>3, <1>4, <1>6, <2>1, <2>3
  <2> QED BY <2>2, <2>3
<1>7. CASE /\ address = i_index /\ data_in = j_data /\ ~NewDataOnWrite
           /\ state' = "INCREMENT" /\ data_out = j_data
  <2>1. i_data = j_data
    BY <1>1, <1>7
  <2>2. Distinct(TableShown)
    BY <1>1, <1>7, Zenon DEF EngineInv, Started
  <2>3. TableShown[i_index] = TableShown[j_index]
    BY <1>2, <1>3, <2>1
  <2>4. i_index = j_index
    BY <1>2, <2>2, <2>3 DEF Distinct
  <2>5. s_mem' = [s_mem EXCEPT ![i_index] = j_data]
    BY <1>1, <1>7
  <2> QED BY <1>2, <1>3, <1>4, <1>7, <2>1, <2>4, <2>5
<1>8. SecondWrite
  BY DEF EngineInv
<1> QED BY <1>1, <1>5, <1>6, <1>7, <1>8, SecondWriteCases

(* The table shown is the memory itself but for a swap that is announced. *)
LEMMA ClockTable ==
  ASSUME EngineInv, MemoryFits, Clock
  PROVE  IF state = "ADD_SUM_J"
           THEN /\ TableShown = s_mem
                /\ TableShown' = [s_mem EXCEPT ![i_index] = s_mem[j_index'],
                                               ![j_index'] = s_mem[i_index]]
           ELSE TableShown' = TableShown
<1>0. /\ ReadInv /\ FirstWrite /\ SecondWrite
      /\ ~NewDataOnWrite /\ start_flag => Distinct(TableShown)
      /\ state # "IDLE" => start_flag
      /\ s_mem \in [Byte -> Byte] /\ i_index \in Byte /\ j_index \in Byte
      /\ i_data \in Byte /\ j_data \in Byte
  BY DEF EngineInv, EngineTypeOK, TypeOK, Started
<1> USE <1>0 DEF TableShown, Written, BeforeSwap, InSwap, Clock, RAM!CellsAfter, wren
<1>1. CASE Idle
  BY <1>1 DEF Idle
<1>2. CASE SetIAddr \/ WaitIAddr \/ SetJAddr \/ WaitJAddr
  BY <1>2 DEF SetIAddr, WaitIAddr, SetJAddr, WaitJAddr, Present
<1>3. CASE GetIData
  BY <1>3 DEF GetIData
<1>4. CASE AddSumJ
  BY <1>4 DEF AddSumJ
<1>5. CASE GetJData
  BY <1>5 DEF GetJData, ReadInv
<1>6. CASE SwapDataI
  <2>1. /\ state = "SWAP_DATA_I" /\ state' = "SWAP_DATA_J"
        /\ s_mem' = [s_mem EXCEPT ![j_index] = data_in]
        /\ UNCHANGED <<i_index, j_index, i_data, j_data>>
    BY <1>6 DEF SwapDataI, WriteUntilSeen, FirstWrite
  <2> QED BY <2>1
<1>7. CASE SwapDataJ
  <2>1. state = "SWAP_DATA_J"
    BY <1>7 DEF SwapDataJ, WriteUntilSeen
  <2> QED BY <1>7, <2>1, SwapJTable
<1>8. CASE Increment
  BY <1>8 DEF Increment
<1>9. CASE Done
  BY <1>9 DEF Done
<1> QED BY <1>1, <1>2, <1>3, <1>4, <1>5, <1>6, <1>7, <1>8, <1>9 DEF Tick

(* datapath keeps start_flag up for the whole pass (datapath.sv 114). *)
LEMMA ClockStarted ==
  ASSUME EngineInv, Clock
  PROVE  Started' /\ (start_flag' => start_flag)
<1>1. start_flag' = (start_flag /\ state # "DONE") /\ start_flag \in BOOLEAN
  BY DEF Clock, done_flag, EngineInv, EngineTypeOK
<1>2. state' # "IDLE" => start_flag /\ state # "DONE"
  BY DEF EngineInv, Started, Clock, Tick, Idle, SetIAddr, WaitIAddr, SetJAddr,
     WaitJAddr, Present, GetIData, AddSumJ, GetJData, SwapDataI, SwapDataJ,
     WriteUntilSeen, Increment, Done
<1>3. state' = "DONE" => i_index' = END_ADDR
  BY DEF Clock, Tick, Idle, SetIAddr, WaitIAddr, SetJAddr,
     WaitJAddr, Present, GetIData, AddSumJ, GetJData, SwapDataI, SwapDataJ,
     WriteUntilSeen, Increment, Done
<1> QED BY <1>1, <1>2, <1>3 DEF Started

(* Each wait state is as long as the memory needs to answer. *)
LEMMA ClockReads ==
  ASSUME EngineInv, Clock
  PROVE  ReadInv'
<1>0. /\ ReadInv
      /\ s_mem' = IF state \in {"SWAP_DATA_I", "SWAP_DATA_J"}
                    THEN [s_mem EXCEPT ![address] = data_in] ELSE s_mem
      /\ state \notin {"SWAP_DATA_I", "SWAP_DATA_J"} => data_out' = s_mem[address]
  BY DEF Clock, EngineInv, RAM!CellsAfter, RAM!QAfter, wren
<1> USE DEF ReadInv, BeforeSwap
<1>1. CASE Idle \/ Increment \/ Done
  BY <1>1 DEF Idle, Increment, Done
<1>2. CASE SetIAddr \/ WaitIAddr
  BY <1>0, <1>2 DEF SetIAddr, WaitIAddr, Present
<1>3. CASE GetIData
  BY <1>0, <1>3 DEF GetIData
<1>4. CASE AddSumJ
  BY <1>0, <1>4 DEF AddSumJ
<1>5. CASE SetJAddr \/ WaitJAddr
  BY <1>0, <1>5 DEF SetJAddr, WaitJAddr, Present
<1>6. CASE GetJData
  BY <1>6 DEF GetJData
<1>7. CASE SwapDataI \/ SwapDataJ
  BY <1>7 DEF SwapDataI, SwapDataJ, WriteUntilSeen
<1> QED BY <1>1, <1>2, <1>3, <1>4, <1>5, <1>6, <1>7 DEF Clock, Tick

(* The left-over byte is gone before the two writes are done. *)
LEMMA ClockWrites ==
  ASSUME EngineInv, Clock
  PROVE  FirstWrite' /\ SecondWrite'
<1> USE DEF FirstWrite, SecondWrite
<1>1. CASE \/ Idle \/ SetIAddr \/ WaitIAddr \/ GetIData \/ AddSumJ
           \/ SetJAddr \/ WaitJAddr \/ Increment \/ Done
  BY <1>1 DEF Idle, SetIAddr, WaitIAddr, GetIData, AddSumJ, SetJAddr, WaitJAddr,
     Present, Increment, Done
<1>2. CASE GetJData
  <2>1. /\ state = "GET_J_DATA" /\ state' = "SWAP_DATA_I"
        /\ address' = j_index /\ j_data' = data_out
        /\ UNCHANGED <<i_index, j_index, i_data>>
    BY <1>2 DEF GetJData
  <2>2. /\ data_out = s_mem[j_index] /\ address = j_index
        /\ i_data = s_mem[i_index]
    BY <2>1 DEF EngineInv, ReadInv, BeforeSwap
  <2>3. s_mem' = s_mem /\ data_out' = s_mem[address]
    BY <2>1 DEF Clock, RAM!CellsAfter, RAM!QAfter, wren
  <2> QED BY <2>1, <2>2, <2>3
<1>3. CASE SwapDataI
  <2>1. /\ state = "SWAP_DATA_I" /\ state' = "SWAP_DATA_J"
        /\ address' = i_index /\ data_in' = j_data
        /\ UNCHANGED <<i_index, j_index, i_data, j_data>>
        /\ address = j_index /\ s_mem[j_index] = j_data
        /\ i_index = j_index => i_data = j_data
    BY <1>3 DEF SwapDataI, WriteUntilSeen, EngineInv
  <2>2. /\ s_mem' = [s_mem EXCEPT ![j_index] = data_in]
        /\ data_out' = data_in \/ (data_out' = s_mem[j_index] /\ ~NewDataOnWrite)
    <3>1. wren
      BY <2>1 DEF wren
    <3>2. data_out' = RAM!QAfter(s_mem, wren, address, data_in)
      BY DEF Clock
    <3>3. s_mem' = [s_mem EXCEPT ![j_index] = data_in]
      BY <2>1, <3>1 DEF Clock, RAM!CellsAfter
    <3>4. CASE NewDataOnWrite
      BY <3>1, <3>2, <3>3, <3>4, Zenon DEF RAM!QAfter
    <3>5. CASE ~NewDataOnWrite
      BY <2>1, <3>1, <3>2, <3>3, <3>5, Zenon DEF RAM!QAfter
    <3> QED BY <3>4, <3>5, Zenon
  <2>3. s_mem \in [Byte -> Byte] /\ j_index \in Byte
    BY DEF EngineInv, EngineTypeOK, TypeOK
  <2>4. s_mem'[j_index] = data_in
    BY <2>2, <2>3
  <2> QED BY <2>1, <2>2, <2>4
<1>4. CASE SwapDataJ
  <2>1. /\ state = "SWAP_DATA_J"
        /\ address' = j_index /\ data_in' = i_data
        /\ UNCHANGED <<i_index, j_index, i_data, j_data>>
        /\ state' # "SWAP_DATA_I"
        /\ s_mem' = [s_mem EXCEPT ![address] = data_in]
    BY <1>4 DEF SwapDataJ, WriteUntilSeen, Clock, RAM!CellsAfter, wren
  <2>2. /\ i_index = j_index => i_data = j_data
        /\ \/ address = i_index /\ data_in = j_data
           \/ address = j_index /\ (i_index # j_index => s_mem[i_index] = j_data)
    BY <2>1 DEF EngineInv
  <2>3. /\ s_mem \in [Byte -> Byte] /\ i_index \in Byte /\ j_index \in Byte
        /\ j_data \in Byte
    BY DEF EngineInv, EngineTypeOK, TypeOK
  <2>4. i_index # j_index => s_mem'[i_index] = j_data
    BY <2>1, <2>2, <2>3
  <2> QED BY <2>1, <2>2, <2>4
<1> QED BY <1>1, <1>2, <1>3, <1>4 DEF Clock, Tick

(* A rising edge keeps the invariant. *)
LEMMA ClockInv ==
  ASSUME EngineInv, MemoryFits, Clock
  PROVE  EngineInv'
<1>1. ASSUME ~NewDataOnWrite, start_flag' PROVE Distinct(TableShown')
  <2>1. Distinct(TableShown)
    BY <1>1, ClockStarted, Zenon DEF EngineInv
  <2>2. CASE state = "ADD_SUM_J"
    <3>1. /\ TableShown = s_mem
          /\ TableShown' = [s_mem EXCEPT ![i_index] = s_mem[j_index'],
                                         ![j_index'] = s_mem[i_index]]
      BY <2>2, ClockTable
    <3>2. s_mem \in [Byte -> Byte] /\ i_index \in Byte /\ j_index' \in Byte
      BY ClockType DEF EngineInv, EngineTypeOK, TypeOK
    <3> QED BY <2>1, <3>1, <3>2, SwapDistinct
  <2>3. CASE state # "ADD_SUM_J"
    BY <2>1, <2>3, ClockTable
  <2> QED BY <2>2, <2>3
<1>2. Distinct(TableShown)' = Distinct(TableShown')
  BY DEF Distinct
<1> QED BY <1>1, <1>2, ClockType, ClockStarted, ClockReads, ClockWrites, Zenon
        DEF EngineInv

(* So does the start of a pass. *)
LEMMA LoadInv ==
  ASSUME EngineInv, MemoryFits, Load
  PROVE  EngineInv'
<1>1. EngineTypeOK'
  BY TablesAssumption DEF EngineInv, Load, EngineTypeOK, TypeOK, fsm
<1>2. Started' /\ ReadInv' /\ FirstWrite' /\ SecondWrite'
  BY DEF Load, fsm, Started, ReadInv, FirstWrite, SecondWrite, BeforeSwap
<1>3. TableShown' = s_mem' /\ s_mem' \in Tables
  BY DEF Load, fsm, TableShown, BeforeSwap, InSwap
<1>4. ~NewDataOnWrite => Distinct(s_mem')
  BY <1>3, Zenon DEF MemoryFits
<1>5. ~NewDataOnWrite => Distinct(TableShown)'
  BY <1>3, <1>4, Zenon DEF Distinct
<1> QED BY <1>1, <1>2, <1>5, Zenon DEF EngineInv

(* So does the asynchronous reset, wherever it strikes. *)
LEMMA ResetInv ==
  ASSUME EngineInv, ResetEngine
  PROVE  EngineInv'
<1>1. EngineTypeOK'
  BY ByteFacts DEF EngineInv, ResetEngine, Reset, Clear, EngineTypeOK, TypeOK,
     States, START_ADDR
<1>2. Started' /\ ReadInv' /\ FirstWrite' /\ SecondWrite' /\ start_flag' = FALSE
  BY DEF ResetEngine, Reset, Started, ReadInv, FirstWrite, SecondWrite, BeforeSwap
<1> QED BY <1>1, <1>2, Zenon DEF EngineInv

(* So does every step. *)
LEMMA EngineNext == MemoryFits /\ EngineInv /\ [Next]_vars => EngineInv'
<1> SUFFICES ASSUME MemoryFits, EngineInv, [Next]_vars PROVE EngineInv'
  OBVIOUS
<1>1. CASE Clock
  BY <1>1, ClockInv
<1>2. CASE Load
  BY <1>2, LoadInv
<1>3. CASE ResetEngine
  BY <1>3, ResetInv
<1>4. CASE UNCHANGED vars
  BY <1>4, Zenon DEF vars, fsm, EngineInv, EngineTypeOK, TypeOK, Started, ReadInv,
     FirstWrite, SecondWrite, TableShown, Written, Distinct
<1> QED BY <1>1, <1>2, <1>3, <1>4 DEF Next

(* ---------------------------- the refinement ---------------------------- *)

(* What the refinement shows is a table. *)
LEMMA TableShownType ==
  ASSUME EngineTypeOK
  PROVE  TableShown \in [Byte -> Byte]
BY DEF EngineTypeOK, TypeOK, TableShown, Written

(* ADD_SUM_J is the round of the algorithm: the swap it announces is the one *)
(* the write states perform.                                                 *)
LEMMA RoundSimulates ==
  ASSUME EngineInv, EngineInv', MemoryFits, Clock, AddSumJ
  PROVE  Algorithm!Round
<1>1. /\ state = "ADD_SUM_J" /\ state' = "SET_J_ADDR"
      /\ j_index' = (j_index + i_data + secret_key[i_index % keylength]) % N
      /\ i_index' = i_index
  BY DEF AddSumJ
<1>2. i_data = s_mem[i_index] /\ start_flag = TRUE /\ i_index \in Byte
  BY <1>1 DEF EngineInv, ReadInv, Started, EngineTypeOK, TypeOK
<1>3. /\ TableShown = s_mem
      /\ TableShown' = [s_mem EXCEPT ![i_index] = s_mem[j_index'],
                                     ![j_index'] = s_mem[i_index]]
  BY <1>1, ClockTable
<1>4. JShown' = Algorithm!NextJ
  BY <1>1, <1>2, <1>3
     DEF JShown, IShown, RoundCounted, BeforeSwap, InSwap, Algorithm!NextJ, keylength
<1>5. /\ IShown = i_index /\ IShown' = i_index + 1 /\ JShown' = j_index'
  BY <1>1 DEF IShown, JShown, RoundCounted, BeforeSwap, InSwap
<1>6. TableShown' = Algorithm!Swapped(TableShown, IShown, Algorithm!NextJ)
  BY <1>3, <1>4, <1>5 DEF Algorithm!Swapped
<1>7. start_flag' = start_flag /\ secret_key' = secret_key
  BY <1>1, <1>2 DEF Clock, done_flag
<1>8. IShown < N
  BY <1>2, <1>5, NAssumption DEF Byte
<1> QED BY <1>2, <1>4, <1>5, <1>6, <1>7, <1>8 DEF Algorithm!Round

(* DONE is the end of the pass, and every other edge is none of the         *)
(* algorithm's business.                                                     *)
LEMMA ClockSimulates ==
  ASSUME EngineInv, MemoryFits, Clock
  PROVE  Algorithm!Round \/ Algorithm!Finish \/ UNCHANGED Algorithm!vars
<1>1. CASE AddSumJ
  BY <1>1, ClockInv, RoundSimulates
<1>2. CASE Done
  <2>1. /\ state = "DONE" /\ state' = "IDLE"
        /\ i_index = N - 1 /\ start_flag = TRUE
    BY <1>2 DEF Done, EngineInv, Started, EngineTypeOK, END_ADDR
  <2>2. /\ IShown = N /\ IShown' = 0 /\ JShown' = 0
    BY <2>1, NAssumption DEF IShown, JShown, RoundCounted
  <2>3. start_flag' = FALSE /\ secret_key' = secret_key /\ TableShown' = TableShown
    BY <2>1, ClockTable DEF Clock, done_flag
  <2> QED BY <2>1, <2>2, <2>3 DEF Algorithm!Finish
<1>3. ASSUME state \notin {"ADD_SUM_J", "DONE"}
      PROVE  UNCHANGED Algorithm!vars
  <2>1. TableShown' = TableShown
    BY <1>3, ClockTable
  <2>2. start_flag' = start_flag /\ secret_key' = secret_key
    BY <1>3 DEF Clock, done_flag, EngineInv, EngineTypeOK
  <2>3. IShown' = IShown /\ JShown' = JShown
    <3> USE DEF IShown, JShown, RoundCounted, BeforeSwap, InSwap
    <3>1. CASE Idle
      BY <3>1 DEF Idle, Clear, START_ADDR
    <3>2. CASE SetIAddr \/ WaitIAddr \/ SetJAddr \/ WaitJAddr
      BY <3>2 DEF SetIAddr, WaitIAddr, SetJAddr, WaitJAddr, Present
    <3>3. CASE GetIData \/ GetJData
      BY <3>3 DEF GetIData, GetJData
    <3>4. CASE SwapDataI \/ SwapDataJ
      BY <3>4 DEF SwapDataI, SwapDataJ, WriteUntilSeen
    <3>5. CASE Increment
      BY <3>5 DEF Increment
    <3> QED BY <1>3, <3>1, <3>2, <3>3, <3>4, <3>5 DEF Clock, Tick, AddSumJ, Done
  <2> QED BY <2>1, <2>2, <2>3 DEF Algorithm!vars
<1> QED BY <1>1, <1>2, <1>3 DEF Clock, Tick, Idle, SetIAddr, WaitIAddr, SetJAddr,
       WaitJAddr, Present, GetIData, GetJData, SwapDataI, SwapDataJ,
       WriteUntilSeen, Increment

(* Every step of the FSM is a step of the key schedule or a stutter. *)
LEMMA StepSimulates ==
  ASSUME EngineInv, MemoryFits, [Next]_vars
  PROVE  [Algorithm!Next]_Algorithm!vars
<1>1. CASE Clock
  BY <1>1, ClockSimulates DEF Algorithm!Next
<1>2. CASE Load
  <2>1. /\ TableShown' = s_mem' /\ IShown' = IShown /\ JShown' = JShown
    BY <1>2 DEF Load, fsm, TableShown, IShown, JShown, BeforeSwap, InSwap
  <2>2. ~start_flag /\ start_flag' = TRUE /\ secret_key' \in Key /\ s_mem' \in Tables
    BY <1>2 DEF Load
  <2>3. Key = Algorithm!Key
    BY DEF Key, Algorithm!Key, keylength, Byte, Algorithm!Byte
  <2> QED BY <2>1, <2>2, <2>3 DEF Algorithm!Next, Algorithm!Begin
<1>3. CASE ResetEngine
  <2>1. state' = "IDLE" /\ start_flag' = FALSE /\ secret_key' = secret_key
    BY <1>3 DEF ResetEngine, Reset
  <2>2. IShown' = 0 /\ JShown' = 0
    BY <2>1 DEF IShown, JShown
  <2>3. TableShown' \in [Byte -> Byte]
    BY <1>3, <2>1 DEF ResetEngine, EngineInv, EngineTypeOK, TableShown, BeforeSwap, InSwap
  <2>4. [Byte -> Byte] = Algorithm!Table
    BY DEF Algorithm!Table, Byte, Algorithm!Byte
  <2> QED BY <2>1, <2>2, <2>3, <2>4 DEF Algorithm!Next, Algorithm!Abort
<1>4. CASE UNCHANGED vars
  BY <1>4 DEF vars, fsm, Algorithm!vars, TableShown, Written, IShown, JShown
<1> QED BY <1>1, <1>2, <1>3, <1>4 DEF Next

(* The FSM starts where the key schedule starts. *)
LEMMA InitSimulates == MemoryFits /\ Init => Algorithm!Init
<1> SUFFICES ASSUME Init PROVE Algorithm!Init
  OBVIOUS
<1>1. TableShown = s_mem /\ IShown = 0 /\ JShown = 0
  BY DEF Init, Start, TableShown, IShown, JShown, BeforeSwap, InSwap
<1>2. Key = Algorithm!Key
  BY DEF Key, Algorithm!Key, keylength, Byte, Algorithm!Byte
<1> QED BY <1>1, <1>2 DEF Init, Algorithm!Init

(* ------------------------------ the theorems ---------------------------- *)

(* What each state of swap_memory.sv relies on always holds. *)
THEOREM EngineInvariance == ASSUME MemoryFits PROVE Spec => []EngineInv
<1>1. Init => EngineInv
  BY InitEngine
<1>2. EngineInv /\ [Next]_vars => EngineInv'
  BY EngineNext
<1> QED BY <1>1, <1>2, PTL DEF Spec

(* All registers, the cells and q stay bytes: no index leaves the memory    *)
(* (swap_memory.sv 125-150, 215-233).                                        *)
THEOREM EngineTypeCorrect == ASSUME MemoryFits PROVE Spec => []EngineTypeOK
<1>1. EngineInv => EngineTypeOK
  BY DEF EngineInv
<1> QED BY <1>1, EngineInvariance, PTL

(* The FSM on its memory performs the RC4 key schedule exactly, for every   *)
(* size of the table, key and left-over byte: with the memory as configured *)
(* from any table, and with one that shows old data from any table without  *)
(* equal cells (swap_memory.sv 61-258).                                      *)
THEOREM EngineImplements == ASSUME MemoryFits PROVE Spec => ImplementsKeySchedule
<1>1. Init => Algorithm!Init
  BY InitSimulates
<1>2. EngineInv /\ [Next]_vars => [Algorithm!Next]_Algorithm!vars
  BY StepSimulates
<1> QED BY <1>1, <1>2, EngineInvariance, PTL
        DEF Spec, ImplementsKeySchedule, Algorithm!Spec

(* A swap of two cells loses no value. *)
LEMMA SwapPermutation ==
  ASSUME NEW t \in [Byte -> Byte], IsPermutation(t), NEW a \in Byte, NEW b \in Byte
  PROVE  IsPermutation([t EXCEPT ![a] = t[b], ![b] = t[a]])
<1> DEFINE u == [t EXCEPT ![a] = t[b], ![b] = t[a]]
<1>1. ASSUME NEW v \in Byte PROVE \E c \in Byte : u[c] = v
  <2>1. PICK c \in Byte : t[c] = v
    BY DEF IsPermutation
  <2>2. CASE c = a
    BY <2>1, <2>2
  <2>3. CASE c = b /\ c # a
    BY <2>1, <2>3
  <2>4. CASE c # a /\ c # b
    BY <2>1, <2>4
  <2> QED BY <2>2, <2>3, <2>4
<1> QED BY <1>1 DEF IsPermutation

(* If the pass starts on a rearrangement of the bytes, as init_memory.sv     *)
(* prepares one, every finished round leaves one: no value is lost to the    *)
(* left-over byte that SWAP_DATA_I writes first (swap_memory.sv 186-214).    *)
THEOREM PermutationKept ==
  ASSUME MemoryFits, \A t \in Tables : IsPermutation(t)
  PROVE  Spec => []RoundKeepsPermutation
<1> DEFINE Kept == start_flag => IsPermutation(TableShown)
<1>1. Init => Kept
  BY DEF Init
<1>2. ASSUME EngineInv, Kept, [Next]_vars PROVE Kept'
  <2> SUFFICES ASSUME start_flag' PROVE IsPermutation(TableShown')
    BY DEF IsPermutation
  <2>1. CASE Clock
    <3>1. IsPermutation(TableShown)
      BY <1>2, <2>1, ClockStarted, Zenon
    <3>2. CASE state = "ADD_SUM_J"
      <4>1. /\ TableShown = s_mem
            /\ TableShown' = [s_mem EXCEPT ![i_index] = s_mem[j_index'],
                                           ![j_index'] = s_mem[i_index]]
        BY <1>2, <2>1, <3>2, ClockTable
      <4>2. s_mem \in [Byte -> Byte] /\ i_index \in Byte /\ j_index' \in Byte
        BY <1>2, <2>1, ClockType DEF EngineInv, EngineTypeOK, TypeOK
      <4> QED BY <3>1, <4>1, <4>2, SwapPermutation
    <3>3. CASE state # "ADD_SUM_J"
      BY <1>2, <2>1, <3>1, <3>3, ClockTable
    <3> QED BY <3>2, <3>3
  <2>2. CASE Load
    BY <2>2 DEF Load, fsm, TableShown, BeforeSwap, InSwap
  <2>3. CASE ResetEngine
    BY <2>3 DEF ResetEngine
  <2>4. CASE UNCHANGED vars
    <3>1. start_flag /\ TableShown' = TableShown
      BY <2>4 DEF vars, fsm, TableShown, Written
    <3> QED BY <1>2, <3>1
  <2> QED BY <1>2, <2>1, <2>2, <2>3, <2>4 DEF Next
<1>3. EngineInv /\ Kept => RoundKeepsPermutation
  BY DEF RoundKeepsPermutation, TableShown, BeforeSwap, InSwap
<1> QED BY <1>1, <1>2, <1>3, EngineInvariance, PTL DEF Spec
=============================================================================
