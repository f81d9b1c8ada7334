-------------------------- MODULE PRGAEngineProofs --------------------------
(***************************************************************************)
(* decrypt_memory.sv implements RC4's key-stream loop, for memories of any  *)
(* size, any table, message and alphabet, either read-during-write          *)
(* behaviour and whatever byte the build puts where the source says 8'bx.   *)
(***************************************************************************)
EXTENDS PRGAEngine, SequenceTheorems, TLAPS

(* ------------------------- the inductive invariant ---------------------- *)

(* The address the key-stream byte is read from, and that byte. *)
FAddress == (i_data + j_data) % N
FByte == s_mem[FAddress]

WithBoth == {"SET_F_ADDR", "WAIT_F_ADDR", "GET_F_VALUE", "SET_K_ADDR", "WAIT_K_ADDR",
             "DECRYPT", "WAIT_DECRYPT", "VALIDATE"}
WithF == {"SET_K_ADDR", "WAIT_K_ADDR", "DECRYPT", "WAIT_DECRYPT", "VALIDATE"}

(* What each state may rely on about the read that is under way. *)
ReadInv ==
  /\ state = "WAIT_I_ADDR" => address = i_index
  /\ state = "GET_I_DATA" => s_data_out = s_mem[i_index]
  /\ state \in {"SET_J_ADDR"} \cup BeforeSwap => i_data = s_mem[i_index]
  /\ state \in BeforeSwap => address = j_index
  /\ state = "GET_J_DATA" => s_data_out = s_mem[j_index]

(* s_wren is set one state early, so SWAP_DATA_I writes a left-over byte    *)
(* to a cell of the pair; both cells have their bytes when the pair is left. *)
WriteInv ==
  /\ state \in InSwap => (i_index = j_index => i_data = j_data)
  /\ state = "SWAP_DATA_I" => address \in {i_index, j_index}
  /\ state = "WAIT_SWAP_I" => address = i_index /\ s_data_in = j_data
  /\ state \in {"SWAP_DATA_J", "WAIT_SWAP_J"} \cup WithBoth => s_mem[i_index] = j_data
  /\ state = "WAIT_SWAP_J" => address = j_index /\ s_data_in = i_data
  /\ state \in WithBoth => s_mem[j_index] = i_data

(* The key-stream byte and the character that is made of it. *)
CharInv ==
  /\ state = "WAIT_F_ADDR" => address = FAddress
  /\ state = "GET_F_VALUE" => s_data_out = FByte
  /\ state \in WithF => f_value = FByte
  /\ state \in {"WAIT_K_ADDR", "DECRYPT", "WAIT_DECRYPT"} => address = k_index
  /\ state \in {"DECRYPT", "WAIT_DECRYPT"} => e_data_out = Rom(k_index)
  /\ state \in {"WAIT_DECRYPT", "VALIDATE"} => d_data_in = ByteXor(f_value, Rom(k_index))
  /\ state \in {"VALIDATE", "INCREMENT"} => d_mem[k_index] = d_data_in
  /\ state = "INCREMENT" => d_data_in \in Letters /\ ~key_found_flag

(* What has been written of the message, and the verdict. *)
MessageInv ==
  /\ state \notin {"IDLE", "DONE"} => k_index < MessageLength
  /\ state # "IDLE" => \A n \in 0 .. MessageLength - 1 : n < k_index => d_mem[n] \in Letters
  /\ state = "DONE" =>
       IF key_found_flag THEN k_index = MessageLength
                         ELSE k_index < MessageLength /\ d_mem[k_index] \notin Letters

Started == state # "IDLE" => start_flag

EngineInv == EngineTypeOK /\ Started /\ ReadInv /\ WriteInv /\ CharInv /\ MessageInv

(* ------------------------------ arithmetic ------------------------------ *)

LEMMA ByteFacts ==
  /\ N \in Nat \ {0, 1} /\ 0 \in Byte /\ MessageLength \in Byte /\ MessageLength > 0
  /\ \A x \in Nat : x % N \in Byte
  /\ \A x \in Byte : x \in Nat
  /\ \A x, y \in Byte : (x + y) % N \in Byte
  /\ \A x, y \in Byte : ByteXor(x, y) \in Byte
  /\ Garbage \subseteq Byte
<1>1. \A x \in Nat : x % N \in Byte
  BY DecryptAssumption DEF Byte
<1>2. \A x, y \in Byte : x + y \in Nat
  BY DecryptAssumption DEF Byte
<1>3. QED
  BY <1>1, <1>2, DecryptAssumption DEF Byte

LEMMA LengthFacts ==
  /\ MessageLength \in Nat /\ MessageLength > 0 /\ N \in Nat /\ MessageLength < N
  /\ \A n \in 0 .. MessageLength - 1 : n \in Byte
BY DecryptAssumption DEF Byte

(* One step of an index that wraps, and back. *)
LEMMA StepBack ==
  ASSUME NEW a \in Byte
  PROVE  /\ (a + 1) % N \in Byte
         /\ (((a + 1) % N) + N - 1) % N = a
         /\ (a + N - 1) % N \in Byte
         /\ (((a + N - 1) % N) + 1) % N = a
<1>1. N \in Nat /\ N > 1 /\ a \in 0 .. N - 1
  BY ByteFacts DEF Byte
<1>2. CASE a = N - 1
  <2>1. (a + 1) % N = 0 /\ (0 + N - 1) % N = N - 1
    BY <1>1, <1>2
  <2>2. (a + N - 1) % N = N - 2
    BY <1>1, <1>2
  <2>3. (N - 2 + 1) % N = N - 1
    BY <1>1
  <2>4. QED
    BY <1>1, <1>2, <2>1, <2>2, <2>3 DEF Byte
<1>3. CASE a # N - 1
  <2>1. (a + 1) % N = a + 1 /\ (a + 1 + N - 1) % N = a
    BY <1>1, <1>3
  <2>2. CASE a = 0
    <3>1. (a + N - 1) % N = N - 1 /\ (N - 1 + 1) % N = 0
      BY <1>1, <2>2
    <3>2. QED
      BY <1>1, <2>1, <2>2, <3>1 DEF Byte
  <2>3. CASE a # 0
    <3>1. (a + N - 1) % N = a - 1 /\ (a - 1 + 1) % N = a
      BY <1>1, <2>3
    <3>2. QED
      BY <1>1, <1>3, <2>1, <3>1 DEF Byte
  <2>4. QED
    BY <2>2, <2>3
<1>4. QED
  BY <1>2, <1>3

(* ------------------------ the invariant, part by part ------------------- *)

LEMMA RomFacts ==
  ASSUME EngineTypeOK
  PROVE  /\ \A a \in Byte : Rom(a) \in Byte
         /\ e_mem \in [0 .. MessageLength - 1 -> Byte]
<1>1. e_mem \in [0 .. MessageLength - 1 -> Byte]
  BY EngineAssumption DEF EngineTypeOK
<1>2. \A a \in Byte : a < MessageLength => a \in 0 .. MessageLength - 1
  BY ByteFacts DEF Byte
<1>3. QED
  BY <1>1, <1>2, ByteFacts DEF Rom

LEMMA InitEngine == Init => EngineInv
<1> SUFFICES ASSUME Init PROVE EngineInv
  OBVIOUS
<1>1. e_mem \in [0 .. MessageLength - 1 -> Byte] /\ e_mem \in Messages
  BY EngineAssumption DEF Init
<1>2. Rom(0) \in Byte
  BY <1>1, ByteFacts DEF Rom
<1>3. EngineTypeOK
  BY <1>1, <1>2, ByteFacts, EngineAssumption
     DEF Init, Start, START_K_ADDR, EngineTypeOK, TypeOK, States
<1>4. /\ Started /\ ReadInv /\ WriteInv /\ CharInv /\ MessageInv
  BY DEF Init, Start, Started, ReadInv, WriteInv, CharInv, MessageInv, BeforeSwap, InSwap,
         WithBoth, WithF
<1>5. QED
  BY <1>3, <1>4 DEF EngineInv

LEMMA MemoryTypes ==
  ASSUME EngineTypeOK, Memories
  PROVE  /\ s_mem' \in [Byte -> Byte] /\ d_mem' \in [Byte -> Byte] /\ e_mem' \in Messages
         /\ s_data_out' \in Byte /\ d_data_out' \in Byte /\ e_data_out' \in Byte
BY RomFacts DEF EngineTypeOK, TypeOK, Memories, RAM!CellsAfter, RAM!QAfter

(* A wait state moves on to the state that takes the answer. *)
LEMMA WaitCases ==
  ASSUME Wait
  PROVE  /\ UNCHANGED <<i_index, j_index, k_index, i_data, j_data, f_value,
                        address, s_data_in, d_data_in, key_found_flag>>
         /\ \/ state = "WAIT_I_ADDR" /\ state' = "GET_I_DATA"
            \/ state = "WAIT_J_ADDR" /\ state' = "GET_J_DATA"
            \/ state = "WAIT_F_ADDR" /\ state' = "GET_F_VALUE"
            \/ state = "WAIT_K_ADDR" /\ state' = "DECRYPT"
            \/ state = "DONE" /\ state' = "IDLE"
<1>1. /\ state \in {"WAIT_I_ADDR", "WAIT_J_ADDR", "WAIT_F_ADDR", "WAIT_K_ADDR", "DONE"}
      /\ state' = WaitNext[state]
  BY DEF Wait, WaitNext
<1>2. /\ WaitNext["WAIT_I_ADDR"] = "GET_I_DATA" /\ WaitNext["WAIT_J_ADDR"] = "GET_J_DATA"
      /\ WaitNext["WAIT_F_ADDR"] = "GET_F_VALUE" /\ WaitNext["WAIT_K_ADDR"] = "DECRYPT"
      /\ WaitNext["DONE"] = "IDLE"
  BY DEF WaitNext
<1>3. QED
  BY <1>1, <1>2 DEF Wait, indices, values, writeData

LEMMA TickTypes ==
  ASSUME EngineTypeOK, Tick
  PROVE  TypeOK'
<1> USE ByteFacts DEF EngineTypeOK, TypeOK, States, indices, values, writeData
<1>1. CASE Idle
  BY <1>1 DEF Idle, Clear, START_K_ADDR
<1>2. CASE SetIAddr
  <2>1. (i_index + 1) % N \in Byte
    BY StepBack
  <2>2. QED
    BY <1>2, <2>1 DEF SetIAddr
<1>3. CASE Wait
  BY <1>3, WaitCases
<1>4. CASE GetIData \/ GetJData \/ GetFValue
  BY <1>4 DEF GetIData, GetJData, GetFValue
<1>5. CASE SetJAddr \/ SetFAddr
  <2>1. (j_index + i_data) % N \in Byte /\ (i_data + j_data) % N \in Byte
    OBVIOUS
  <2>2. QED
    BY <1>5, <2>1 DEF SetJAddr, SetFAddr
<1>6. CASE SwapDataI \/ SwapDataJ
  BY <1>6 DEF SwapDataI, SwapDataJ, Write
<1>7. CASE WaitSwapI \/ WaitSwapJ \/ WaitDecrypt
  BY <1>7 DEF WaitSwapI, WaitSwapJ, WaitDecrypt, Seen
<1>8. CASE SetKAddr \/ Validate
  BY <1>8 DEF SetKAddr, Validate
<1>9. CASE Decrypt
  BY <1>9 DEF Decrypt
<1>10. CASE Increment
  <2>1. (k_index + 1) % N \in Byte
    BY StepBack
  <2>2. QED
    BY <1>10, <2>1 DEF Increment
<1>11. QED
  BY <1>1, <1>2, <1>3, <1>4, <1>5, <1>6, <1>7, <1>8, <1>9, <1>10 DEF Tick

LEMMA ClockTypes ==
  ASSUME EngineTypeOK, Clock
  PROVE  EngineTypeOK'
BY TickTypes, MemoryTypes DEF Clock, EngineTypeOK

(* Where the cells and outputs are after an edge. *)
LEMMA MemoryAfter ==
  ASSUME EngineTypeOK, Memories
  PROVE  /\ s_mem' = IF s_wren THEN [s_mem EXCEPT ![address] = s_data_in] ELSE s_mem
         /\ d_mem' = IF d_wren THEN [d_mem EXCEPT ![address] = d_data_in] ELSE d_mem
         /\ ~s_wren => s_data_out' = s_mem[address]
         /\ e_data_out' = Rom(address) /\ e_mem' = e_mem
BY DEF Memories, RAM!CellsAfter, RAM!QAfter

LEMMA ClockStarted ==
  ASSUME EngineInv, Clock
  PROVE  Started' /\ (start_flag' => start_flag)
<1>1. start_flag' = (start_flag /\ state # "DONE") /\ start_flag \in BOOLEAN
  BY DEF Clock, done_flag, EngineInv, EngineTypeOK
<1>2. state' # "IDLE" => start_flag /\ state # "DONE"
  BY WaitCases DEF EngineInv, Started, Clock, Tick, Idle, SetIAddr, GetIData, SetJAddr, GetJData,
     SwapDataI, SwapDataJ, Write, WaitSwapI, WaitSwapJ, WaitDecrypt, Seen, SetFAddr, GetFValue,
     SetKAddr, Decrypt, Validate, Increment
<1>3. QED
  BY <1>1, <1>2 DEF Started

(* Each wait state is as long as the memory needs to answer. *)
LEMMA ClockReads ==
  ASSUME EngineInv, Clock
  PROVE  ReadInv'
<1>1. EngineTypeOK /\ ReadInv
  BY DEF EngineInv
<1>2. /\ state \notin InSwap => s_mem' = s_mem /\ s_data_out' = s_mem[address]
  BY <1>1, MemoryAfter DEF Clock, s_wren, InSwap
<1> USE DEF ReadInv, BeforeSwap
<1>3. CASE Idle \/ Validate \/ Increment
  BY <1>3 DEF Idle, Validate, Increment
<1>4. CASE SetIAddr
  BY <1>4 DEF SetIAddr
<1>5. CASE Wait
  BY <1>1, <1>2, <1>5, WaitCases DEF InSwap
<1>6. CASE GetIData
  BY <1>1, <1>2, <1>6 DEF GetIData, InSwap, indices
<1>7. CASE SetJAddr
  BY <1>1, <1>2, <1>7 DEF SetJAddr, InSwap, values
<1>8. CASE GetJData \/ GetFValue \/ SetFAddr \/ SetKAddr \/ Decrypt
  BY <1>8 DEF GetJData, GetFValue, SetFAddr, SetKAddr, Decrypt
<1>9. CASE SwapDataI \/ SwapDataJ
  BY <1>9 DEF SwapDataI, SwapDataJ, Write
<1>10. CASE WaitSwapI \/ WaitSwapJ \/ WaitDecrypt
  BY <1>10 DEF WaitSwapI, WaitSwapJ, WaitDecrypt, Seen
<1>11. QED
  BY <1>3, <1>4, <1>5, <1>6, <1>7, <1>8, <1>9, <1>10 DEF Clock, Tick

(* The left-over byte is overwritten before the pair is left. *)
LEMMA ClockWrites ==
  ASSUME EngineInv, Clock
  PROVE  WriteInv'
<1>1. /\ EngineTypeOK /\ ReadInv /\ WriteInv
      /\ s_mem \in [Byte -> Byte] /\ i_index \in Byte /\ j_index \in Byte
  BY DEF EngineInv, EngineTypeOK, TypeOK
<1>2. s_mem' = IF state \in {"SWAP_DATA_I", "WAIT_SWAP_I", "WAIT_SWAP_J"}
                 THEN [s_mem EXCEPT ![address] = s_data_in] ELSE s_mem
  BY <1>1, MemoryAfter DEF Clock, s_wren
<1> USE DEF WriteInv, InSwap, WithBoth
<1>3. CASE Idle \/ SetIAddr \/ GetIData \/ SetJAddr \/ Increment
  BY <1>3 DEF Idle, SetIAddr, GetIData, SetJAddr, Increment
<1>4. CASE Wait
  BY <1>1, <1>2, <1>4, WaitCases
<1>5. CASE GetJData
  <2>1. /\ state' = "SWAP_DATA_I" /\ UNCHANGED <<i_index, j_index, i_data, address>>
        /\ j_data' = s_mem[j_index] /\ i_data = s_mem[i_index] /\ address = j_index
    BY <1>1, <1>5 DEF GetJData, ReadInv, BeforeSwap, indices
  <2>2. QED
    BY <2>1
<1>6. CASE SwapDataI
  BY <1>1, <1>6 DEF SwapDataI, Write, indices, values
<1>7. CASE WaitSwapI
  <2>1. /\ state' \in {"SWAP_DATA_I", "SWAP_DATA_J"}
        /\ UNCHANGED <<i_index, j_index, i_data, j_data, address>>
        /\ address = i_index /\ i_index = j_index => i_data = j_data
        /\ s_mem' = [s_mem EXCEPT ![i_index] = j_data]
    BY <1>1, <1>2, <1>7 DEF WaitSwapI, Seen, indices, values
  <2>2. s_mem'[i_index] = j_data
    BY <1>1, <2>1
  <2>3. QED
    BY <1>1, <1>7, <2>1, <2>2 DEF WaitSwapI, Seen
<1>8. CASE SwapDataJ
  BY <1>1, <1>2, <1>8 DEF SwapDataJ, Write, indices, values
<1>9. CASE WaitSwapJ
  <2>1. /\ state' \in {"SWAP_DATA_J", "SET_F_ADDR"}
        /\ UNCHANGED <<i_index, j_index, i_data, j_data, address>>
        /\ i_index = j_index => i_data = j_data
        /\ s_mem[i_index] = j_data
        /\ s_mem' = [s_mem EXCEPT ![j_index] = i_data]
    BY <1>1, <1>2, <1>9 DEF WaitSwapJ, Seen, indices, values
  <2>2. s_mem'[j_index] = i_data /\ s_mem'[i_index] = j_data
    BY <1>1, <2>1
  <2>3. QED
    BY <2>1, <2>2
<1>10. CASE SetFAddr \/ GetFValue \/ SetKAddr \/ Decrypt
  BY <1>1, <1>2, <1>10 DEF SetFAddr, GetFValue, SetKAddr, Decrypt, indices, values
<1>11. CASE WaitDecrypt \/ Validate
  BY <1>1, <1>2, <1>11 DEF WaitDecrypt, Seen, Validate, indices, values
<1>12. QED
  BY <1>3, <1>4, <1>5, <1>6, <1>7, <1>8, <1>9, <1>10, <1>11 DEF Clock, Tick

(* A character is the key-stream byte xor the byte of the message, and it is *)
(* in d_memory before it is judged.                                          *)
LEMMA ClockChar ==
  ASSUME EngineInv, Clock
  PROVE  CharInv'
<1>1. /\ EngineTypeOK /\ CharInv
      /\ s_mem \in [Byte -> Byte] /\ d_mem \in [Byte -> Byte] /\ k_index \in Byte
  BY DEF EngineInv, EngineTypeOK, TypeOK
<1>2. /\ state \notin InSwap => s_mem' = s_mem /\ s_data_out' = s_mem[address]
      /\ e_data_out' = Rom(address)
      /\ \A a \in Byte : Rom(a)' = Rom(a)
      /\ d_mem' = IF state \in {"DECRYPT", "WAIT_DECRYPT"}
                    THEN [d_mem EXCEPT ![address] = d_data_in] ELSE d_mem
  BY <1>1, MemoryAfter DEF Clock, s_wren, d_wren, InSwap, Rom
<1> USE DEF CharInv, WithF
<1>3. CASE Idle \/ SetIAddr \/ GetIData \/ SetJAddr \/ GetJData \/ Increment
  BY <1>3 DEF Idle, SetIAddr, GetIData, SetJAddr, GetJData, Increment
<1>4. CASE SwapDataI \/ SwapDataJ \/ WaitSwapI \/ WaitSwapJ
  BY <1>4 DEF SwapDataI, SwapDataJ, Write, WaitSwapI, WaitSwapJ, Seen
<1>5. CASE Wait
  <2>1. UNCHANGED <<i_data, j_data, f_value, k_index, address>>
    BY <1>5, WaitCases
  <2>2. state \notin InSwap
    BY <1>5, WaitCases DEF InSwap
  <2>3. FAddress' = FAddress /\ FByte' = FByte
    BY <1>2, <2>1, <2>2 DEF FAddress, FByte
  <2>4. QED
    BY <1>1, <1>2, <1>5, <2>1, <2>2, <2>3, WaitCases DEF FByte
<1>6. CASE SetFAddr
  <2>1. /\ state' = "WAIT_F_ADDR" /\ address' = (i_data + j_data) % N
        /\ UNCHANGED <<i_data, j_data>>
    BY <1>6 DEF SetFAddr, values
  <2>2. address' = FAddress'
    BY <2>1 DEF FAddress
  <2>3. QED
    BY <2>1, <2>2
<1>7. CASE GetFValue
  <2>1. /\ state = "GET_F_VALUE" /\ state' = "SET_K_ADDR" /\ f_value' = s_data_out
        /\ UNCHANGED <<i_data, j_data>> /\ s_mem' = s_mem
    BY <1>2, <1>7 DEF GetFValue, InSwap
  <2>2. FByte' = FByte
    BY <2>1 DEF FAddress, FByte
  <2>3. QED
    BY <1>1, <2>1, <2>2
<1>8. CASE SetKAddr
  <2>1. /\ state = "SET_K_ADDR" /\ state' = "WAIT_K_ADDR" /\ address' = k_index
        /\ UNCHANGED <<i_data, j_data, f_value, k_index>> /\ s_mem' = s_mem
    BY <1>2, <1>8 DEF SetKAddr, InSwap, indices, values
  <2>2. FByte' = FByte
    BY <2>1 DEF FAddress, FByte
  <2>3. QED
    BY <1>1, <2>1, <2>2
<1>9. CASE Decrypt
  <2>1. /\ state = "DECRYPT" /\ state' = "WAIT_DECRYPT" /\ address' = k_index
        /\ d_data_in' = ByteXor(f_value, e_data_out)
        /\ UNCHANGED <<i_data, j_data, f_value, k_index>> /\ s_mem' = s_mem
    BY <1>2, <1>9 DEF Decrypt, InSwap, indices, values
  <2>2. FByte' = FByte /\ Rom(k_index)' = Rom(k_index) /\ e_data_out' = Rom(k_index)
    BY <1>1, <1>2, <2>1 DEF FAddress, FByte, Rom
  <2>3. QED
    BY <1>1, <2>1, <2>2
<1>10. CASE WaitDecrypt
  <2>1. /\ state = "WAIT_DECRYPT" /\ state' \in {"DECRYPT", "VALIDATE"}
        /\ UNCHANGED <<i_data, j_data, f_value, k_index, address, d_data_in>> /\ s_mem' = s_mem
    BY <1>2, <1>10 DEF WaitDecrypt, Seen, InSwap, indices, values, writeData
  <2>2. FByte' = FByte /\ Rom(k_index)' = Rom(k_index) /\ address = k_index
    BY <1>1, <1>2, <2>1 DEF FAddress, FByte, Rom
  <2>3. d_mem'[k_index] = d_data_in
    BY <1>1, <1>2, <2>1, <2>2
  <2>4. QED
    BY <1>1, <1>2, <2>1, <2>2, <2>3
<1>11. CASE Validate
  <2>1. /\ state = "VALIDATE" /\ state' \in {"INCREMENT", "DONE"} /\ ~key_found_flag'
        /\ state' = "INCREMENT" => d_data_in \in Letters
        /\ UNCHANGED <<k_index, d_data_in>> /\ d_mem' = d_mem
    BY <1>2, <1>11 DEF Validate, indices, writeData
  <2>2. QED
    BY <1>1, <2>1
<1>12. QED
  BY <1>3, <1>4, <1>5, <1>6, <1>7, <1>8, <1>9, <1>10, <1>11 DEF Clock, Tick

(* The accepted characters stay letters, and the verdict counts them all. *)
LEMMA ClockMessage ==
  ASSUME EngineInv, Clock
  PROVE  MessageInv'
<1>1. /\ EngineTypeOK /\ CharInv /\ MessageInv
      /\ d_mem \in [Byte -> Byte] /\ k_index \in Nat /\ k_index \in Byte
      /\ MessageLength \in Nat /\ MessageLength > 0 /\ N \in Nat /\ MessageLength < N
      /\ 0 .. MessageLength - 1 \subseteq Byte
  BY LengthFacts, ByteFacts DEF EngineInv, EngineTypeOK, TypeOK
<1>2. d_mem' = IF state \in {"DECRYPT", "WAIT_DECRYPT"}
                 THEN [d_mem EXCEPT ![address] = d_data_in] ELSE d_mem
  BY <1>1, MemoryAfter DEF Clock, d_wren
<1> USE DEF MessageInv
<1>3. CASE Idle
  BY <1>1, <1>3 DEF Idle, Clear, START_K_ADDR
<1>4. ASSUME UNCHANGED <<k_index, d_mem>>, state \notin {"IDLE", "DONE"},
             state' \notin {"IDLE", "DONE"}
      PROVE  MessageInv'
  BY <1>1, <1>4
<1>5. CASE Wait
  BY <1>1, <1>2, <1>4, <1>5, WaitCases
<1>6. CASE SetIAddr \/ GetIData \/ SetJAddr \/ GetJData
  BY <1>2, <1>4, <1>6 DEF SetIAddr, GetIData, SetJAddr, GetJData, indices
<1>7. CASE SwapDataI \/ SwapDataJ \/ WaitSwapI \/ WaitSwapJ
  BY <1>2, <1>4, <1>7 DEF SwapDataI, SwapDataJ, Write, WaitSwapI, WaitSwapJ, Seen, indices
<1>8. CASE SetFAddr \/ GetFValue \/ SetKAddr
  BY <1>2, <1>4, <1>8 DEF SetFAddr, GetFValue, SetKAddr, indices
<1>9. CASE Decrypt \/ WaitDecrypt
  <2>1. /\ state \in {"DECRYPT", "WAIT_DECRYPT"} /\ k_index' = k_index
        /\ state' \notin {"IDLE", "DONE"}
    BY <1>9 DEF Decrypt, WaitDecrypt, Seen, indices
  <2>2. d_mem' = [d_mem EXCEPT ![k_index] = d_data_in]
    BY <1>1, <1>2, <2>1 DEF CharInv
  <2>3. \A n \in 0 .. MessageLength - 1 : n < k_index => d_mem'[n] = d_mem[n]
    BY <1>1, <2>2
  <2>4. QED
    BY <1>1, <2>1, <2>3
<1>10. CASE Validate
  <2>1. /\ state = "VALIDATE" /\ UNCHANGED <<k_index, d_mem>> /\ ~key_found_flag'
        /\ \/ state' = "INCREMENT"
           \/ state' = "DONE" /\ d_data_in \notin Letters
    BY <1>2, <1>10 DEF Validate, indices
  <2>2. d_mem[k_index] = d_data_in
    BY <1>1, <2>1 DEF CharInv
  <2>3. QED
    BY <1>1, <2>1, <2>2
<1>11. CASE Increment
  <2>1. /\ state = "INCREMENT" /\ d_mem' = d_mem /\ k_index' = (k_index + 1) % N
        /\ \/ state' = "DONE" /\ key_found_flag' = TRUE /\ k_index = MessageLength - 1
           \/ state' = "SET_I_ADDR" /\ k_index # MessageLength - 1
    BY <1>2, <1>11 DEF Increment
  <2>2. d_mem[k_index] \in Letters /\ k_index < MessageLength
    BY <1>1, <2>1 DEF CharInv
  <2>3. k_index' = k_index + 1
    BY <1>1, <2>1, <2>2
  <2>4. QED
    BY <1>1, <2>1, <2>2, <2>3
<1>12. QED
  BY <1>3, <1>5, <1>6, <1>7, <1>8, <1>9, <1>10, <1>11 DEF Clock, Tick

(* A rising edge keeps the invariant, the start of a pass and a reset too. *)
LEMMA ClockInv ==
  ASSUME EngineInv, Clock
  PROVE  EngineInv'
BY ClockTypes, ClockStarted, ClockReads, ClockWrites, ClockChar, ClockMessage DEF EngineInv

LEMMA LoadInv ==
  ASSUME EngineInv, Load
  PROVE  EngineInv'
<1>1. EngineTypeOK'
  BY EngineAssumption DEF EngineInv, Load, EngineTypeOK, TypeOK, fsm, outputs, indices, values,
                          writeData
<1>2. Started' /\ ReadInv' /\ WriteInv' /\ CharInv' /\ MessageInv'
  BY DEF Load, fsm, Started, ReadInv, WriteInv, CharInv, MessageInv, BeforeSwap, InSwap,
         WithBoth, WithF
<1>3. QED
  BY <1>1, <1>2 DEF EngineInv

LEMMA ResetInv ==
  ASSUME EngineInv, ResetEngine
  PROVE  EngineInv'
<1>1. EngineTypeOK'
  BY ByteFacts DEF EngineInv, ResetEngine, Reset, Clear, EngineTypeOK, TypeOK, States,
                   START_K_ADDR, memories, outputs
<1>2. Started' /\ ReadInv' /\ WriteInv' /\ CharInv' /\ MessageInv'
  BY DEF ResetEngine, Reset, Started, ReadInv, WriteInv, CharInv, MessageInv, BeforeSwap, InSwap,
         WithBoth, WithF
<1>3. QED
  BY <1>1, <1>2 DEF EngineInv

LEMMA EngineNext == EngineInv /\ [Next]_vars => EngineInv'
<1> SUFFICES ASSUME EngineInv, [Next]_vars PROVE EngineInv'
  OBVIOUS
<1>1. CASE UNCHANGED vars
  BY <1>1 DEF vars, fsm, memories, outputs, indices, values, writeData, EngineInv, EngineTypeOK,
     TypeOK, Started, ReadInv, WriteInv, CharInv, MessageInv, FByte, FAddress, Rom
<1>2. QED
  BY <1>1, ClockInv, LoadInv, ResetInv DEF Next

(* ---------------------------- the refinement ---------------------------- *)

(* The first m cells of d_memory as a string. *)
Chars(d, m) == [n \in 1 .. m |-> d[n - 1]]

LEMMA CharsFacts ==
  ASSUME NEW d \in [Byte -> Byte], NEW m \in Nat, m < N
  PROVE  /\ Len(Chars(d, m)) = m
         /\ Append(Chars(d, m), d[m]) = Chars(d, m + 1)
         /\ DOMAIN Chars(d, m) = 1 .. m
<1>1. N \in Nat
  BY ByteFacts
<1>2. \A n \in 1 .. m + 1 : n - 1 \in Byte
  BY <1>1 DEF Byte
<1>3. Chars(d, m) \in Seq(Byte) /\ Len(Chars(d, m)) = m /\ DOMAIN Chars(d, m) = 1 .. m
  <2>1. Chars(d, m) \in [1 .. m -> Byte]
    BY <1>2 DEF Chars
  <2>2. QED
    BY <2>1, SeqDef DEF Chars
<1>4. d[m] \in Byte
  BY <1>1 DEF Byte
<1>5. QED
  BY <1>2, <1>3, <1>4 DEF Chars

(* What is written to the pair before both of its bytes are is lost. *)
LEMMA OverwriteCells ==
  ASSUME NEW t \in [Byte -> Byte], NEW a \in Byte, NEW b \in Byte, NEW c \in {a, b},
         NEW x, NEW y, NEW z
  PROVE  [[t EXCEPT ![c] = z] EXCEPT ![a] = x, ![b] = y] = [t EXCEPT ![a] = x, ![b] = y]
<1>1. CASE c = a
  BY <1>1
<1>2. CASE c = b
  BY <1>2
<1>3. QED
  BY <1>1, <1>2

(* The table shown is the memory itself but for a swap that is announced. *)
LEMMA ClockTable ==
  ASSUME EngineInv, Clock
  PROVE  IF state = "SET_J_ADDR"
           THEN /\ TableShown = s_mem
                /\ TableShown' = [s_mem EXCEPT ![i_index] = s_mem[j_index'],
                                               ![j_index'] = s_mem[i_index]]
           ELSE TableShown' = TableShown
<1>1. /\ EngineTypeOK /\ ReadInv /\ WriteInv
      /\ s_mem \in [Byte -> Byte] /\ i_index \in Byte /\ j_index \in Byte
      /\ i_data \in Byte /\ j_data \in Byte /\ s_data_in \in Byte
  BY DEF EngineInv, EngineTypeOK, TypeOK
<1>2. s_mem' = IF state \in {"SWAP_DATA_I", "WAIT_SWAP_I", "WAIT_SWAP_J"}
                 THEN [s_mem EXCEPT ![address] = s_data_in] ELSE s_mem
  BY <1>1, MemoryAfter DEF Clock, s_wren
<1> USE DEF TableShown, Written, BeforeSwap, InSwap
<1>3. CASE Idle \/ SetIAddr \/ GetIData \/ Increment \/ Validate
  BY <1>2, <1>3 DEF Idle, SetIAddr, GetIData, Increment, Validate
<1>4. CASE Wait
  BY <1>1, <1>2, <1>4, WaitCases
<1>5. CASE SetJAddr
  BY <1>1, <1>2, <1>5 DEF SetJAddr
<1>6. CASE GetJData
  BY <1>1, <1>2, <1>6 DEF GetJData, ReadInv, indices
<1>7. CASE SwapDataI \/ WaitSwapI
  <2>1. /\ TableShown = [s_mem EXCEPT ![i_index] = j_data, ![j_index] = i_data]
        /\ TableShown' = [s_mem' EXCEPT ![i_index] = j_data, ![j_index] = i_data]
        /\ s_mem' = [s_mem EXCEPT ![address] = s_data_in] /\ address \in {i_index, j_index}
        /\ state # "SET_J_ADDR"
    BY <1>1, <1>2, <1>7 DEF SwapDataI, WaitSwapI, Write, Seen, indices, values, WriteInv
  <2>2. [s_mem' EXCEPT ![i_index] = j_data, ![j_index] = i_data]
          = [s_mem EXCEPT ![i_index] = j_data, ![j_index] = i_data]
    BY <1>1, <2>1, OverwriteCells
  <2>3. TableShown' = TableShown
    BY <2>1, <2>2, Zenon
  <2>4. QED
    BY <2>1, <2>3
<1>8. CASE SwapDataJ
  BY <1>1, <1>2, <1>8 DEF SwapDataJ, Write, indices, values
<1>9. CASE WaitSwapJ
  <2>1. /\ state' \in {"SWAP_DATA_J", "SET_F_ADDR"} /\ state = "WAIT_SWAP_J"
        /\ UNCHANGED <<i_index, j_index, i_data, j_data>>
        /\ i_index = j_index => i_data = j_data
        /\ s_mem[i_index] = j_data
        /\ s_mem' = [s_mem EXCEPT ![j_index] = i_data]
    BY <1>1, <1>2, <1>9 DEF WaitSwapJ, Seen, indices, values, WriteInv
  <2>2. s_mem' = [s_mem EXCEPT ![i_index] = j_data, ![j_index] = i_data]
    BY <1>1, <2>1
  <2>3. [s_mem' EXCEPT ![i_index] = j_data, ![j_index] = i_data] = s_mem'
    BY <1>1, <2>1
  <2>4. QED
    BY <2>1, <2>2, <2>3
<1>10. CASE SetFAddr \/ GetFValue \/ SetKAddr \/ Decrypt \/ WaitDecrypt
  BY <1>2, <1>10 DEF SetFAddr, GetFValue, SetKAddr, Decrypt, WaitDecrypt, Seen
<1>11. QED
  BY <1>3, <1>4, <1>5, <1>6, <1>7, <1>8, <1>9, <1>10 DEF Clock, Tick

(* The characters shown are those that were judged. *)
LEMMA OutFacts ==
  ASSUME EngineInv
  PROVE  /\ [n \in 1 .. CharsShown |-> d_mem[n - 1]] = Chars(d_mem, CharsShown)
         /\ CharsShown \in 0 .. MessageLength
         /\ Len(Chars(d_mem, CharsShown)) = CharsShown
         /\ DOMAIN Chars(d_mem, CharsShown) = 1 .. CharsShown
         /\ (\A n \in 1 .. CharsShown : Chars(d_mem, CharsShown)[n] \in Letters)
              <=> ~(state = "DONE" /\ ~key_found_flag)
<1>1. /\ EngineTypeOK /\ MessageInv /\ CharInv
      /\ d_mem \in [Byte -> Byte] /\ k_index \in Nat
      /\ MessageLength \in Nat /\ MessageLength > 0 /\ N \in Nat /\ MessageLength < N
  BY LengthFacts, ByteFacts DEF EngineInv, EngineTypeOK, TypeOK
<1>2. CharsShown \in 0 .. MessageLength
  BY <1>1 DEF CharsShown, MessageInv
<1>3. /\ Len(Chars(d_mem, CharsShown)) = CharsShown
      /\ DOMAIN Chars(d_mem, CharsShown) = 1 .. CharsShown
  BY <1>1, <1>2, CharsFacts
<1>4. (\A n \in 1 .. CharsShown : Chars(d_mem, CharsShown)[n] \in Letters)
        <=> \A n \in 0 .. MessageLength - 1 : n < CharsShown => d_mem[n] \in Letters
  <2>1. \A n \in 1 .. CharsShown :
          /\ Chars(d_mem, CharsShown)[n] = d_mem[n - 1]
          /\ n - 1 \in 0 .. MessageLength - 1 /\ n - 1 < CharsShown
    BY <1>1, <1>2 DEF Chars
  <2>2. \A n \in 0 .. MessageLength - 1 : n < CharsShown =>
          n + 1 \in 1 .. CharsShown /\ (n + 1) - 1 = n
    BY <1>1, <1>2
  <2>3. QED
    BY <2>1, <2>2
<1>5. (\A n \in 0 .. MessageLength - 1 : n < CharsShown => d_mem[n] \in Letters)
        <=> ~(state = "DONE" /\ ~key_found_flag)
  <2>1. CASE state = "IDLE"
    BY <1>1, <2>1 DEF CharsShown
  <2>2. CASE state = "DONE" /\ ~key_found_flag
    <3>1. /\ CharsShown = k_index + 1 /\ d_mem[k_index] \notin Letters
          /\ k_index \in 0 .. MessageLength - 1
      BY <1>1, <2>2 DEF CharsShown, MessageInv
    <3>2. QED
      BY <1>1, <2>2, <3>1
  <2>3. CASE state = "INCREMENT"
    <3>1. /\ CharsShown = k_index + 1 /\ d_mem[k_index] \in Letters
          /\ \A n \in 0 .. MessageLength - 1 : n < k_index => d_mem[n] \in Letters
      BY <1>1, <2>3 DEF CharsShown, MessageInv, CharInv
    <3>2. \A n \in 0 .. MessageLength - 1 : n < k_index + 1 => n < k_index \/ n = k_index
      BY <1>1
    <3>3. QED
      BY <2>3, <3>1, <3>2
  <2>4. CASE /\ state \notin {"IDLE", "INCREMENT"} /\ ~(state = "DONE" /\ ~key_found_flag)
    BY <1>1, <2>4 DEF CharsShown, MessageInv
  <2>5. QED
    BY <2>1, <2>2, <2>3, <2>4
<1>6. QED
  BY <1>2, <1>3, <1>4, <1>5 DEF Chars

Mixed == state \in BeforeSwap \cup InSwap \cup AfterSwap
Out == [n \in 1 .. CharsShown |-> d_mem[n - 1]]

(* Every edge but those of SET_J_ADDR, VALIDATE, the last INCREMENT and DONE *)
(* is none of the algorithm's business.                                      *)
LEMMA QuietSimulates ==
  ASSUME EngineInv, Clock,
         state \notin {"SET_J_ADDR", "VALIDATE", "DONE"},
         state = "INCREMENT" => state' # "DONE"
  PROVE  UNCHANGED <<start_flag, e_mem, TableShown, IShown, JShown, Mixed, Out, key_found_flag>>
<1>1. /\ EngineTypeOK /\ MessageInv /\ CharInv
      /\ d_mem \in [Byte -> Byte] /\ k_index \in Nat /\ i_index \in Byte
      /\ MessageLength \in Nat /\ MessageLength > 0 /\ N \in Nat /\ MessageLength < N
  BY LengthFacts, ByteFacts DEF EngineInv, EngineTypeOK, TypeOK
<1>2. /\ d_mem' = IF state \in {"DECRYPT", "WAIT_DECRYPT"}
                    THEN [d_mem EXCEPT ![address] = d_data_in] ELSE d_mem
      /\ e_mem' = e_mem /\ start_flag' = start_flag
  BY <1>1, MemoryAfter DEF Clock, d_wren, done_flag, EngineTypeOK
<1>3. TableShown' = TableShown
  BY ClockTable
<1>4. \A a \in Byte : (((a + 1) % N) + N - 1) % N = a
  BY StepBack
<1>5. /\ IShown' = IShown /\ JShown' = JShown /\ Mixed' = Mixed
      /\ key_found_flag' = key_found_flag /\ CharsShown' = CharsShown
  <2> USE DEF IShown, JShown, CharsShown, Mixed, BeforeSwap, InSwap, AfterSwap
  <2>1. CASE Idle
    BY <2>1 DEF Idle, Clear, START_K_ADDR
  <2>2. CASE SetIAddr
    BY <1>1, <1>4, <2>2 DEF SetIAddr
  <2>3. CASE Wait
    BY <2>3, WaitCases
  <2>4. CASE GetIData \/ GetJData \/ GetFValue
    BY <2>4 DEF GetIData, GetJData, GetFValue, indices
  <2>5. CASE SwapDataI \/ SwapDataJ
    BY <2>5 DEF SwapDataI, SwapDataJ, Write, indices
  <2>6. CASE WaitSwapI \/ WaitSwapJ \/ WaitDecrypt
    BY <2>6 DEF WaitSwapI, WaitSwapJ, WaitDecrypt, Seen, indices
  <2>7. CASE SetFAddr \/ SetKAddr \/ Decrypt
    BY <2>7 DEF SetFAddr, SetKAddr, Decrypt, indices
  <2>8. CASE Increment
    <3>1. state = "INCREMENT" /\ state' = "SET_I_ADDR" /\ k_index' = (k_index + 1) % N
          /\ UNCHANGED <<i_index, j_index, key_found_flag>>
      BY <2>8 DEF Increment
    <3>2. k_index' = k_index + 1
      BY <1>1, <3>1 DEF MessageInv
    <3>3. QED
      BY <3>1, <3>2
  <2>9. QED
    BY <2>1, <2>2, <2>3, <2>4, <2>5, <2>6, <2>7, <2>8 DEF Clock, Tick, SetJAddr, Validate
<1>6. \A n \in 1 .. CharsShown : d_mem'[n - 1] = d_mem[n - 1]
  <2>1. CASE state \in {"DECRYPT", "WAIT_DECRYPT"}
    <3>1. address = k_index /\ CharsShown = k_index /\ k_index < N
      BY <1>1, <2>1 DEF CharInv, CharsShown, MessageInv
    <3>2. \A n \in 1 .. CharsShown : n - 1 \in Byte /\ n - 1 # k_index
      BY <1>1, <3>1 DEF Byte
    <3>3. QED
      BY <1>1, <1>2, <3>1, <3>2
  <2>2. CASE state \notin {"DECRYPT", "WAIT_DECRYPT"}
    BY <1>2, <2>2
  <2>3. QED
    BY <2>1, <2>2
<1>7. Out' = Out
  BY <1>5, <1>6 DEF Out
<1>8. QED
  BY <1>2, <1>3, <1>5, <1>7

(* What the algorithm sees of the pass, in every state. *)
LEMMA ShownFacts ==
  ASSUME EngineInv
  PROVE  /\ Out = Chars(d_mem, CharsShown) /\ CharsShown \in 0 .. MessageLength
         /\ Len(Out) = CharsShown /\ DOMAIN Out = 1 .. CharsShown
         /\ Algorithm!AllLetters <=> ~(state = "DONE" /\ ~key_found_flag)
<1>1. /\ Out = Chars(d_mem, CharsShown) /\ CharsShown \in 0 .. MessageLength
      /\ Len(Out) = CharsShown /\ DOMAIN Out = 1 .. CharsShown
  BY OutFacts DEF Out
<1>2. Algorithm!AllLetters <=> \A n \in DOMAIN Out : Out[n] \in Letters
  BY DEF Algorithm!AllLetters, Out
<1>3. QED
  BY <1>1, <1>2, OutFacts

(* SET_J_ADDR is the generator's step: the swap it announces is the one the  *)
(* write states perform.                                                     *)
LEMMA MixSimulates ==
  ASSUME EngineInv, Clock, SetJAddr
  PROVE  Algorithm!Mix
<1>1. /\ state = "SET_J_ADDR" /\ state' = "WAIT_J_ADDR"
      /\ j_index' = (j_index + i_data) % N
      /\ UNCHANGED <<i_index, k_index, key_found_flag>>
  BY DEF SetJAddr
<1>2. /\ i_data = s_mem[i_index] /\ start_flag = TRUE /\ i_index \in Byte
      /\ k_index < MessageLength
  BY <1>1 DEF EngineInv, ReadInv, Started, EngineTypeOK, TypeOK, MessageInv
<1>3. /\ TableShown = s_mem
      /\ TableShown' = [s_mem EXCEPT ![i_index] = s_mem[j_index'],
                                     ![j_index'] = s_mem[i_index]]
  BY <1>1, ClockTable
<1>4. /\ IShown = (i_index + N - 1) % N /\ IShown' = i_index
      /\ JShown = j_index /\ JShown' = j_index'
      /\ CharsShown = k_index /\ CharsShown' = k_index
      /\ ~Mixed /\ Mixed'
  BY <1>1 DEF IShown, JShown, CharsShown, Mixed, BeforeSwap, InSwap, AfterSwap
<1>5. Algorithm!NextI = i_index
  BY <1>2, <1>4, StepBack DEF Algorithm!NextI
<1>6. Algorithm!NextJ = j_index'
  BY <1>1, <1>2, <1>3, <1>4, <1>5 DEF Algorithm!NextJ
<1>7. TableShown' = Algorithm!Swapped(TableShown, Algorithm!NextI, Algorithm!NextJ)
  BY <1>3, <1>5, <1>6 DEF Algorithm!Swapped
<1>8. start_flag' = start_flag /\ e_mem' = e_mem /\ d_mem' = d_mem
  <2>1. EngineTypeOK
    BY DEF EngineInv
  <2>2. QED
    BY <1>1, <1>2, <2>1, MemoryAfter DEF Clock, d_wren, done_flag
<1>9. Out' = Out
  BY <1>4, <1>8 DEF Out
<1>10. Algorithm!AllLetters /\ Len(Out) < MessageLength
  BY <1>1, <1>2, <1>4, ShownFacts
<1>11. QED
  BY <1>1, <1>2, <1>4, <1>5, <1>6, <1>7, <1>8, <1>9, <1>10 DEF Algorithm!Mix, Out, Mixed

(* VALIDATE shows the next character. *)
LEMMA EmitSimulates ==
  ASSUME EngineInv, EngineInv', Clock, Validate
  PROVE  Algorithm!Emit
<1>1. /\ state = "VALIDATE" /\ state' \in {"INCREMENT", "DONE"} /\ key_found_flag' = FALSE
      /\ UNCHANGED <<i_index, j_index, k_index, i_data, j_data, d_data_in, f_value>>
  BY DEF Validate, indices, values, writeData
<1>2. /\ EngineTypeOK /\ d_mem \in [Byte -> Byte] /\ k_index \in Nat /\ k_index < MessageLength
      /\ start_flag = TRUE
      /\ d_mem[k_index] = ByteXor(f_value, Rom(k_index)) /\ f_value = FByte
      /\ s_mem[i_index] = j_data /\ s_mem[j_index] = i_data
      /\ i_data \in Byte /\ j_data \in Byte
  BY <1>1, ByteFacts DEF EngineInv, EngineTypeOK, TypeOK, MessageInv, CharInv, WithF, WriteInv,
                         WithBoth, Started
<1>3. d_mem' = d_mem /\ e_mem' = e_mem /\ start_flag' = start_flag
  BY <1>1, <1>2, MemoryAfter DEF Clock, d_wren, done_flag
<1>4. /\ IShown = i_index /\ IShown' = i_index /\ JShown = j_index /\ JShown' = j_index
      /\ CharsShown = k_index /\ CharsShown' = k_index + 1
      /\ Mixed /\ Mixed' = FALSE
  BY <1>1 DEF IShown, JShown, CharsShown, Mixed, BeforeSwap, InSwap, AfterSwap
<1>5. TableShown = s_mem /\ TableShown' = TableShown
  BY <1>1, ClockTable DEF TableShown, BeforeSwap, InSwap
<1>6. FAddress = (s_mem[i_index] + s_mem[j_index]) % N
  <2>1. i_data + j_data = j_data + i_data
    BY <1>2, ByteFacts
  <2>2. QED
    BY <1>2, <2>1 DEF FAddress
<1>7. f_value = Algorithm!KeyByte
  BY <1>2, <1>4, <1>5, <1>6 DEF FByte, Algorithm!KeyByte
<1>8. Rom(k_index) = e_mem[k_index]
  BY <1>2 DEF Rom
<1>9. Out' = Append(Out, d_mem[k_index])
  <2>1. Out' = Chars(d_mem, k_index + 1)
    BY <1>3, <1>4 DEF Out, Chars
  <2>2. k_index < N
    BY <1>2, LengthFacts
  <2>3. QED
    BY <1>2, <1>4, <2>1, <2>2, CharsFacts, ShownFacts
<1>10. d_mem[k_index] = ByteXor(Algorithm!KeyByte, e_mem[Len(Out)])
  BY <1>2, <1>4, <1>7, <1>8, ShownFacts
<1>11. Out' = Append(Out, ByteXor(Algorithm!KeyByte, e_mem[Len(Out)]))
  BY <1>9, <1>10
<1>12. QED
  BY <1>1, <1>3, <1>4, <1>5, <1>11 DEF Algorithm!Emit, Out, Mixed

(* The last INCREMENT is the verdict. *)
LEMMA AcceptSimulates ==
  ASSUME EngineInv, Clock, Increment, state' = "DONE"
  PROVE  Algorithm!Accept
<1>1. /\ state = "INCREMENT" /\ k_index = MessageLength - 1 /\ key_found_flag' = TRUE
      /\ k_index' = (k_index + 1) % N /\ UNCHANGED <<i_index, j_index>>
  BY DEF Increment
<1>2. EngineTypeOK /\ start_flag = TRUE /\ key_found_flag = FALSE
  BY <1>1 DEF EngineInv, EngineTypeOK, TypeOK, CharInv, Started
<1>3. k_index' = MessageLength /\ k_index + 1 = MessageLength
  BY <1>1, LengthFacts
<1>4. /\ IShown' = IShown /\ JShown' = JShown /\ Mixed' = Mixed
      /\ CharsShown = MessageLength /\ CharsShown' = CharsShown
  BY <1>1, <1>3 DEF IShown, JShown, CharsShown, Mixed, BeforeSwap, InSwap, AfterSwap
<1>5. d_mem' = d_mem /\ e_mem' = e_mem /\ start_flag' = start_flag
  BY <1>1, <1>2, MemoryAfter DEF Clock, d_wren, done_flag
<1>6. TableShown' = TableShown
  BY <1>1, ClockTable
<1>7. Out' = Out
  BY <1>4, <1>5 DEF Out
<1>8. Algorithm!AllLetters /\ Len(Out) = MessageLength
  BY <1>1, <1>4, ShownFacts
<1>9. QED
  BY <1>1, <1>2, <1>4, <1>5, <1>6, <1>7, <1>8 DEF Algorithm!Accept, Out, Mixed

(* DONE ends the pass with the verdict its characters deserve. *)
LEMMA FinishSimulates ==
  ASSUME EngineInv, Clock, state = "DONE"
  PROVE  Algorithm!Finish
<1>1. state' = "IDLE" /\ UNCHANGED key_found_flag
  BY WaitCases DEF Clock, Tick, Idle, SetIAddr, GetIData, SetJAddr, GetJData, SwapDataI, WaitSwapI,
     SwapDataJ, WaitSwapJ, Write, Seen, SetFAddr, GetFValue, SetKAddr, Decrypt, WaitDecrypt,
     Validate, Increment
<1>2. EngineTypeOK /\ start_flag = TRUE /\ key_found_flag \in BOOLEAN
  BY DEF EngineInv, EngineTypeOK, TypeOK, Started
<1>3. /\ IShown' = 0 /\ JShown' = 0 /\ CharsShown' = 0
      /\ Mixed = FALSE /\ Mixed' = FALSE
      /\ key_found_flag => CharsShown = MessageLength
  BY <1>1 DEF IShown, JShown, CharsShown, Mixed, BeforeSwap, InSwap, AfterSwap, EngineInv,
              MessageInv
<1>4. e_mem' = e_mem /\ start_flag' = FALSE
  BY <1>2, MemoryAfter DEF Clock, done_flag
<1>5. TableShown' = TableShown
  BY ClockTable
<1>6. Out' = <<>>
  BY <1>3 DEF Out
<1>7. /\ Algorithm!AllLetters <=> key_found_flag
      /\ key_found_flag => Len(Out) = MessageLength
  BY <1>3, ShownFacts
<1>8. QED
  BY <1>1, <1>2, <1>3, <1>4, <1>5, <1>6, <1>7 DEF Algorithm!Finish, Out, Mixed

(* Every edge is one of these or is not seen. *)
LEMMA ClockSimulates ==
  ASSUME EngineInv, Clock
  PROVE  \/ Algorithm!Mix \/ Algorithm!Emit \/ Algorithm!Accept \/ Algorithm!Finish
         \/ UNCHANGED Algorithm!vars
<1>1. CASE state = "SET_J_ADDR"
  <2>1. SetJAddr
    BY <1>1, WaitCases DEF Clock, Tick, Idle, SetIAddr, GetIData, GetJData, SwapDataI, WaitSwapI,
       SwapDataJ, WaitSwapJ, Write, Seen, SetFAddr, GetFValue, SetKAddr, Decrypt, WaitDecrypt,
       Validate, Increment
  <2>2. QED
    BY <2>1, MixSimulates
<1>2. CASE state = "VALIDATE"
  <2>1. Validate
    BY <1>2, WaitCases DEF Clock, Tick, Idle, SetIAddr, GetIData, SetJAddr, GetJData, SwapDataI,
       WaitSwapI, SwapDataJ, WaitSwapJ, Write, Seen, SetFAddr, GetFValue, SetKAddr, Decrypt,
       WaitDecrypt, Increment
  <2>2. QED
    BY <2>1, ClockInv, EmitSimulates
<1>3. CASE state = "INCREMENT" /\ state' = "DONE"
  <2>1. Increment
    BY <1>3, WaitCases DEF Clock, Tick, Idle, SetIAddr, GetIData, SetJAddr, GetJData, SwapDataI,
       WaitSwapI, SwapDataJ, WaitSwapJ, Write, Seen, SetFAddr, GetFValue, SetKAddr, Decrypt,
       WaitDecrypt, Validate
  <2>2. QED
    BY <1>3, <2>1, AcceptSimulates
<1>4. CASE state = "DONE"
  BY <1>4, FinishSimulates
<1>5. CASE /\ state \notin {"SET_J_ADDR", "VALIDATE", "DONE"}
           /\ state = "INCREMENT" => state' # "DONE"
  BY <1>5, QuietSimulates DEF Algorithm!vars, Out, Mixed
<1>6. QED
  BY <1>1, <1>2, <1>3, <1>4, <1>5

LEMMA StepSimulates ==
  ASSUME EngineInv, [Next]_vars
  PROVE  [Algorithm!Next]_Algorithm!vars
<1>1. CASE Clock
  BY <1>1, ClockSimulates DEF Algorithm!Next
<1>2. CASE Load
  <2>1. /\ state = "IDLE" /\ state' = "IDLE" /\ s_mem' \in Tables /\ ~start_flag
        /\ start_flag' = TRUE
        /\ UNCHANGED <<d_mem, e_mem, i_index, j_index, k_index, key_found_flag>>
    BY <1>2 DEF Load, fsm, indices
  <2>2. /\ TableShown' = s_mem' /\ IShown' = IShown /\ JShown' = JShown
        /\ Mixed' = Mixed /\ CharsShown' = CharsShown
    BY <2>1 DEF TableShown, IShown, JShown, CharsShown, Mixed, BeforeSwap, InSwap, AfterSwap
  <2>3. Out' = Out
    BY <2>1, <2>2 DEF Out
  <2>4. QED
    BY <2>1, <2>2, <2>3 DEF Algorithm!Next, Algorithm!Begin, Out, Mixed
<1>3. CASE ResetEngine
  <2>1. /\ state' = "IDLE" /\ start_flag' = FALSE /\ key_found_flag' = FALSE
        /\ UNCHANGED <<s_mem, e_mem>>
    BY <1>3 DEF ResetEngine, Reset, memories
  <2>2. /\ TableShown' = s_mem /\ IShown' = 0 /\ JShown' = 0 /\ Mixed' = FALSE
        /\ CharsShown' = 0
    BY <2>1 DEF TableShown, IShown, JShown, CharsShown, Mixed, BeforeSwap, InSwap, AfterSwap
  <2>3. Out' = <<>>
    BY <2>2 DEF Out
  <2>4. TableShown' \in Algorithm!Table
    BY <2>2 DEF EngineInv, EngineTypeOK, Algorithm!Table, Algorithm!Byte, Byte
  <2>5. QED
    BY <2>1, <2>2, <2>3, <2>4 DEF Algorithm!Next, Algorithm!Abort, Out, Mixed
<1>4. CASE UNCHANGED vars
  BY <1>4 DEF vars, fsm, memories, outputs, indices, values, writeData, Algorithm!vars, TableShown,
     Written, IShown, JShown, CharsShown
<1>5. QED
  BY <1>1, <1>2, <1>3, <1>4 DEF Next

(* The FSM starts where the loop starts. *)
LEMMA InitSimulates == Init => Algorithm!Init
<1> SUFFICES ASSUME Init PROVE Algorithm!Init
  OBVIOUS
<1>1. /\ TableShown = s_mem /\ IShown = 0 /\ JShown = 0 /\ CharsShown = 0 /\ ~Mixed
  BY DEF Init, Start, TableShown, IShown, JShown, CharsShown, Mixed, BeforeSwap, InSwap, AfterSwap
<1>2. Out = <<>>
  BY <1>1 DEF Out
<1>3. e_mem \in [0 .. MessageLength - 1 -> Algorithm!Byte]
  BY EngineAssumption DEF Init, Algorithm!Byte, Byte
<1>4. QED
  BY <1>1, <1>2, <1>3 DEF Init, Start, Algorithm!Init, Out, Mixed

(* ------------------------------ the theorems ---------------------------- *)

(* What each state of decrypt_memory.sv relies on always holds. *)
THEOREM EngineInvariance == Spec => []EngineInv
BY InitEngine, EngineNext, PTL DEF Spec

(* All registers, cells and outputs stay bytes, no address leaves a memory  *)
(* (decrypt_memory.sv 92-232).                                               *)
THEOREM EngineTypeCorrect == Spec => []EngineTypeOK
<1>1. EngineInv => EngineTypeOK
  BY DEF EngineInv
<1>2. QED
  BY <1>1, EngineInvariance, PTL

(* The FSM and its memories run RC4's key-stream loop exactly, cut it at the *)
(* first character that is no letter and raise key_found_flag when there is *)
(* none: for every size, table, message and alphabet, with either memory,   *)
(* although s_wren and d_wren are up one edge too early                      *)
(* (decrypt_memory.sv 126-232).                                              *)
THEOREM EngineImplements == Spec => ImplementsMessageDecrypt
<1>1. EngineInv /\ [Next]_vars => [Algorithm!Next]_Algorithm!vars
  BY StepSimulates
<1>2. QED
  BY <1>1, InitSimulates, EngineInvariance, PTL
     DEF Spec, ImplementsMessageDecrypt, Algorithm!Spec
=============================================================================
