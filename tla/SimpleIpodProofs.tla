-------------------------- MODULE SimpleIpodProofs --------------------------
(***************************************************************************)
(* The iPod of lab 2 refines its ideal player, for a song of any length and *)
(* a flash of any latency that fits between two samples.                    *)
(***************************************************************************)
EXTENDS SimpleIpod, TLAPS

(* ------------------------- the inductive invariant ---------------------- *)

Flops(aq, bq, q, q1) ==
  req_aq = aq /\ req_bq = bq /\ start_read_flag = q /\ req_1q = q1

NoTrace == Flops(FALSE, FALSE, FALSE, FALSE)

(* A request advances with the edges of CLK_50M since the sample that made  *)
(* it, and leaves no trace in the synchroniser after the fifth.             *)
Underway ==
  \/ gap = 0 /\ Flops(TRUE, FALSE, FALSE, FALSE) /\ f_state = "IDLE"
  \/ gap = 1 /\ Flops(TRUE, TRUE, FALSE, FALSE) /\ f_state = "IDLE"
  \/ gap = 2 /\ Flops(TRUE, TRUE, TRUE, FALSE) /\ f_state = "IDLE"
  \/ gap = 3 /\ Flops(FALSE, TRUE, TRUE, TRUE) /\ f_state = "READ_ADDR"

Started ==
  \/ gap = 4 /\ Flops(FALSE, FALSE, TRUE, TRUE) /\ f_state = "READ_DATA"
  \/ gap = 5 /\ Flops(FALSE, FALSE, FALSE, TRUE) /\ f_state = "READ_DATA"
  \/ NoTrace /\ gap > 5 /\ f_state = "READ_DATA"

Phase == Underway \/ Started \/ (NoTrace /\ f_state = "IDLE")

(* The first read of a word: accepted at the fourth edge, answered in time. *)
Reading ==
  f_state = "READ_DATA" =>
    /\ ~data_even_flag
    /\ \/ /\ pending = current_address /\ ~readdatavalid
          /\ gap = 3 + waited /\ waited > 0
       \/ /\ pending = Nothing /\ readdatavalid
          /\ gap > 4 /\ gap <= 4 + MaxLatency /\ readdata = current_address

(* The second read of it, which nobody waits for, is over before the next   *)
(* request: it was accepted before the first half of the next word.         *)
Echo ==
  f_state = "IDLE" /\ pending # Nothing =>
    /\ NoTrace /\ pending = readdata
    /\ data_even_flag => gap <= waited

(* A request is made only when the one before is history. *)
Settled ==
  /\ Underway => pending = Nothing /\ ~data_even_flag
  /\ data_even_flag => ~addr_ready_flag
  /\ data_even_flag /\ audio_out # count_addr!Silence =>
       audio_out[1] = flash_data

IpodInv == TypeOK /\ Phase /\ Reading /\ Echo /\ Settled

(* ------------------------------- the parts ------------------------------ *)

(* Every key takes the keyboard FSM to a state of its own. *)
LEMMA KeyType ==
  ASSUME k_state \in keyboard_input!States,
         NEW c \in keyboard_input!Characters, keyboard_input!TakeKey(c)
  PROVE  k_state' \in keyboard_input!States
BY DEF keyboard_input!States, keyboard_input!Characters, keyboard_input!TakeKey,
   keyboard_input!Reaction, keyboard_input!ResetStates

(* The address stays in the song and moves as the ideal player's does. *)
LEMMA AddressMoves ==
  ASSUME NEW a \in count_addr!Address, dir \in BOOLEAN
  PROVE  /\ count_addr!Neighbour(a) \in count_addr!Address
         /\ count_addr!Neighbour(a) = Ideal!Following(a)
         /\ count_addr!START \in count_addr!Address /\ count_addr!START = 0
<1> USE TimingAssumption DEF count_addr!Address, count_addr!START, count_addr!END
<1>1. a \in Int /\ 0 <= a /\ a <= Words - 1 /\ Words \in Nat /\ Words > 1
  OBVIOUS
<1>2. /\ a < Words - 1 => (a + 1) % Words = a + 1
      /\ (Words - 1 + 1) % Words = 0
      /\ a > 0 => (a + Words - 1) % Words = a - 1
      /\ (0 + Words - 1) % Words = Words - 1
  BY <1>1
<1>3. count_addr!Neighbour(a) \in count_addr!Address
  BY <1>1 DEF count_addr!Neighbour, count_addr!Forward, count_addr!Backward
<1>4. count_addr!Neighbour(a) = Ideal!Following(a)
  <2>1. CASE dir
    BY <1>1, <1>2, <2>1 DEF count_addr!Neighbour, count_addr!Forward, Ideal!Following
  <2>2. CASE ~dir
    BY <1>1, <1>2, <2>2 DEF count_addr!Neighbour, count_addr!Backward, Ideal!Following
  <2> QED BY <2>1, <2>2
<1> QED BY <1>1, <1>3, <1>4

(* ------------------------- the invariant, clock by clock ---------------- *)

LEMMA InitIpod == Init => IpodInv
<1> SUFFICES ASSUME Init PROVE IpodInv
  OBVIOUS
<1> USE DEF Init, count_addr!Start, sync_states!Clear, Nothing
<1>1. TypeOK
  <2>1. keyboard_input!TypeOK /\ sync_keyboard!TypeOK /\ sync_states!TypeOK
    BY DEF keyboard_input!Start, keyboard_input!TypeOK, keyboard_input!States,
       sync_keyboard!Clear, sync_keyboard!TypeOK, sync_states!TypeOK
  <2>2. count_addr!TypeOK
    <3>1. audio_out \in count_addr!Sounds
      BY DEF count_addr!Sounds
    <3>2. current_address \in count_addr!Address
      BY TimingAssumption DEF count_addr!Address, count_addr!START, count_addr!END
    <3> QED BY <3>1, <3>2 DEF count_addr!TypeOK
  <2>3. character \in keyboard_input!Characters
    BY DEF keyboard_input!Characters
  <2>4. flash_data \in count_addr!Address \cup {NoWord} /\ f_state = "IDLE"
        /\ readdata \in count_addr!Address \cup {NoWord} /\ readdatavalid = FALSE
        /\ pending \in count_addr!Address \cup {Nothing}
    OBVIOUS
  <2>5. waited \in 0 .. MaxLatency /\ gap \in 0 .. MinGap
    BY TimingAssumption
  <2> QED BY <2>1, <2>2, <2>3, <2>4, <2>5 DEF TypeOK
<1>2. Phase
  BY DEF Phase, NoTrace, Flops
<1>3. Reading /\ Echo
  BY DEF Reading, Echo
<1>4. Settled
  <2>1. ~Underway
    BY DEF Underway, Flops
  <2> QED BY <2>1 DEF Settled
<1> QED BY <1>1, <1>2, <1>3, <1>4 DEF IpodInv

(* A sample finds the reader at rest, and a first half heard the flash too. *)
LEMMA SampleQuiet ==
  ASSUME IpodInv, SampleClock
  PROVE  /\ NoTrace /\ f_state = "IDLE" /\ gap = MinGap /\ ~InFlight
         /\ data_even_flag => pending = Nothing /\ ~addr_ready_flag
<1> USE TimingAssumption
<1>1. gap = MinGap /\ MinGap \in Nat /\ MinGap > 5 /\ MinGap > 4 + MaxLatency
      /\ MaxLatency \in Nat /\ waited \in 0 .. MaxLatency /\ MinGap > MaxLatency
  BY DEF SampleClock, IpodInv, TypeOK
<1>2. f_state # "READ_DATA"
  BY <1>1 DEF IpodInv, Reading
<1>3. NoTrace /\ f_state = "IDLE"
  <2>1. gap # 0 /\ gap # 1 /\ gap # 2 /\ gap # 3
    BY <1>1
  <2> QED BY <1>2, <2>1, Zenon DEF IpodInv, Phase, Underway, Started
<1>4. ~InFlight
  BY <1>3 DEF InFlight, NoTrace, Flops
<1>5. data_even_flag => pending = Nothing /\ ~addr_ready_flag
  BY <1>1, <1>3 DEF IpodInv, Echo, Settled
<1> QED BY <1>1, <1>3, <1>4, <1>5

(* What a sample does to the request synchroniser. *)
LEMMA SampleRequest ==
  ASSUME IpodInv, SampleClock
  PROVE  \/ NoTrace' /\ ~(~reset /\ read_addr_start /\ data_even_flag)
         \/ /\ Flops(TRUE, FALSE, FALSE, FALSE)' /\ ~reset /\ read_addr_start
            /\ data_even_flag /\ ~data_even_flag' /\ addr_ready_flag'
<1>1. NoTrace /\ (data_even_flag => ~addr_ready_flag)
  BY SampleQuiet
<1>2. data_even_flag \in BOOLEAN /\ addr_ready_flag \in BOOLEAN
  BY DEF IpodInv, TypeOK, count_addr!TypeOK
<1>3. CASE count_addr!Restart \/ count_addr!Mute
  BY <1>1, <1>2, <1>3
     DEF count_addr!Restart, count_addr!Mute, SampleClock, Request, requestSync,
         NoTrace, Flops
<1>4. CASE count_addr!Play
  BY <1>1, <1>2, <1>4
     DEF count_addr!Play, SampleClock, Request, requestSync, sync_states!AsyncEdge,
         NoTrace, Flops
<1> QED BY <1>3, <1>4 DEF SampleClock, count_addr!Sample

(* A sample leaves the counter in its type. *)
LEMMA CounterType ==
  ASSUME TypeOK, count_addr!Sample, reset' \in BOOLEAN
  PROVE  count_addr!TypeOK'
<1>1. /\ current_address \in count_addr!Address /\ dir \in BOOLEAN
      /\ flash_data \in count_addr!Address \cup {NoWord}
      /\ audio_out \in count_addr!Sounds
      /\ addr_ready_flag \in BOOLEAN /\ data_even_flag \in BOOLEAN
  BY DEF TypeOK, count_addr!TypeOK, keyboard_input!TypeOK
<1>2. /\ count_addr!START \in count_addr!Address
      /\ count_addr!Neighbour(current_address) \in count_addr!Address
  BY <1>1, AddressMoves
<1>3. count_addr!Silence \in count_addr!Sounds
  BY DEF count_addr!Sounds
<1>4. count_addr!Half(flash_data, count_addr!HalfPlayed) \in count_addr!Sounds
  <2>1. count_addr!HalfPlayed \in {"low", "high"}
    BY DEF count_addr!HalfPlayed
  <2> QED BY <1>1, <2>1 DEF count_addr!Sounds, count_addr!Half
<1>5. audio_out' \in count_addr!Sounds
  BY <1>1, <1>3, <1>4
     DEF count_addr!Sample, count_addr!Restart, count_addr!Mute, count_addr!Play
<1>6. current_address' \in count_addr!Address
  BY <1>1, <1>2
     DEF count_addr!Sample, count_addr!Restart, count_addr!Mute, count_addr!Play,
         count_addr!MoveTo
<1>7. addr_ready_flag' \in BOOLEAN /\ data_even_flag' \in BOOLEAN
  BY <1>1 DEF count_addr!Sample, count_addr!Restart, count_addr!Mute, count_addr!Play
<1> QED BY <1>5, <1>6, <1>7
        DEF count_addr!TypeOK, count_addr!Address, count_addr!START, count_addr!END,
            count_addr!Sounds, count_addr!Silence

(* Every sample keeps the invariant. *)
LEMMA SampleInv ==
  ASSUME IpodInv, SampleClock
  PROVE  IpodInv'
<1>1. /\ NoTrace /\ f_state = "IDLE" /\ gap' = 0 /\ TypeOK
      /\ data_even_flag => pending = Nothing
      /\ UNCHANGED <<character, f_state, flash_data, pending, waited, readdatavalid,
                     readdata>>
  BY SampleQuiet DEF SampleClock, IpodInv, reader, flash
<1>2. \/ NoTrace' /\ ~(~reset /\ read_addr_start /\ data_even_flag)
      \/ /\ Flops(TRUE, FALSE, FALSE, FALSE)' /\ data_even_flag /\ ~data_even_flag'
  BY SampleRequest
<1>3. TypeOK'
  <2>1. keyboard_input!TypeOK'
    <3>1. k_state' \in keyboard_input!States
      BY <1>1, KeyType
         DEF SampleClock, KeyArrives, TypeOK, keyboard_input!TypeOK
    <3> QED BY <3>1 DEF SampleClock, keyboard_input!Register, keyboard_input!TypeOK,
              keyboard_input!States
  <2>2. sync_keyboard!TypeOK'
    BY <1>1 DEF SampleClock, sync_keyboard!OutClock, sync_keyboard!TypeOK, TypeOK
  <2>3. sync_states!TypeOK'
    BY <1>2 DEF sync_states!TypeOK, NoTrace, Flops
  <2>4. count_addr!TypeOK'
    BY <1>1, <2>1, CounterType DEF SampleClock, keyboard_input!TypeOK
  <2> QED BY <1>1, <2>1, <2>2, <2>3, <2>4, TimingAssumption
          DEF TypeOK, keyboard_input!Characters, count_addr!Address, count_addr!START,
              count_addr!END, Nothing
<1>4. Phase'
  BY <1>1, <1>2 DEF Phase, Underway
<1>5. Reading'
  BY <1>1 DEF Reading
<1>6. Echo'
  <2> SUFFICES ASSUME pending # Nothing PROVE Echo'
    BY <1>1 DEF Echo, Nothing
  <2>1. pending = readdata /\ ~data_even_flag
    BY <1>1 DEF IpodInv, Echo
  <2>2. NoTrace'
    BY <1>2, <2>1
  <2>3. waited \in Nat
    BY <1>1, TimingAssumption DEF TypeOK
  <2> QED BY <1>1, <2>1, <2>2, <2>3 DEF Echo
<1>7. Settled'
  <2>1. Underway' => pending' = Nothing' /\ ~data_even_flag'
    BY <1>1, <1>2 DEF Underway, NoTrace, Flops, Nothing
  <2>2. data_even_flag' => ~addr_ready_flag'
    BY <1>1 DEF IpodInv, Settled, TypeOK, count_addr!TypeOK, SampleClock,
       count_addr!Sample, count_addr!Restart, count_addr!Mute, count_addr!Play
  <2>3. data_even_flag' /\ audio_out' # count_addr!Silence
          => audio_out'[1] = flash_data'
    <3>1. count_addr!Half(flash_data, count_addr!HalfPlayed)[1] = flash_data
      BY DEF count_addr!Half
    <3> QED BY <1>1, <3>1 DEF IpodInv, Settled, SampleClock, count_addr!Sample,
              count_addr!Restart, count_addr!Mute, count_addr!Play
  <2> QED BY <2>1, <2>2, <2>3 DEF Settled, count_addr!Silence
<1> QED BY <1>3, <1>4, <1>5, <1>6, <1>7 DEF IpodInv

(* An edge of CLK_50M leaves everything in its type. *)
LEMMA Clock50Type ==
  ASSUME IpodInv, Clock50M
  PROVE  /\ TypeOK'
         /\ UNCHANGED <<keyboard, keySync, character, counter>>
<1> USE TimingAssumption
<1>1. TypeOK /\ UNCHANGED <<keyboard, keySync, character, counter>>
  BY DEF IpodInv, Clock50M
<1>2. keyboard_input!TypeOK' /\ sync_keyboard!TypeOK' /\ count_addr!TypeOK'
      /\ character' \in keyboard_input!Characters
  BY <1>1 DEF TypeOK, keyboard_input!TypeOK, keyboard_input!States, sync_keyboard!TypeOK,
     count_addr!TypeOK, keyboard, keySync, counter, count_addr!Address, count_addr!START,
     count_addr!END, count_addr!Sounds, count_addr!Silence
<1>3. sync_states!TypeOK'
  BY <1>1 DEF TypeOK, sync_states!TypeOK, Clock50M, sync_states!OutClock
<1>4. gap' \in 0 .. MinGap
  BY <1>1 DEF TypeOK, Clock50M
<1>5. /\ pending' \in count_addr!Address \cup {Nothing}
      /\ readdata' \in count_addr!Address \cup {NoWord}
      /\ waited' \in 0 .. MaxLatency /\ readdatavalid' \in BOOLEAN
  <2>1. /\ current_address \in count_addr!Address /\ waited \in 0 .. MaxLatency
        /\ pending \in count_addr!Address \cup {Nothing}
        /\ readdata \in count_addr!Address \cup {NoWord}
    BY <1>1 DEF TypeOK, count_addr!TypeOK
  <2>2. CASE Accept
    <3>1. 1 \in 0 .. MaxLatency
      OBVIOUS
    <3> QED BY <2>1, <2>2, <3>1 DEF Accept
  <2>3. CASE Rest
    BY <2>1, <2>3 DEF Rest
  <2>4. CASE KeepWaiting
    <3>1. waited' \in 0 .. MaxLatency
      BY <2>1, <2>4 DEF KeepWaiting
    <3> QED BY <2>1, <2>4, <3>1, Zenon DEF KeepWaiting
  <2>5. CASE Answer
    BY <2>1, <2>5 DEF Answer
  <2> QED BY <2>2, <2>3, <2>4, <2>5 DEF Clock50M, FlashEdge
<1>6. /\ flash_data' \in count_addr!Address \cup {NoWord}
      /\ f_state' \in {"IDLE", "READ_ADDR", "READ_DATA"}
  BY <1>1, <1>5 DEF TypeOK, Clock50M, read_FLASH!Tick, read_FLASH!Idle,
     read_FLASH!ReadAddr, read_FLASH!ReadData
<1> QED BY <1>1, <1>2, <1>3, <1>4, <1>5, <1>6
        DEF TypeOK, keyboard_input!Characters, count_addr!Address, count_addr!START,
            count_addr!END, Nothing

(* The reader at rest: only an answer nobody waits for can come. *)
LEMMA AtRest ==
  ASSUME IpodInv, Clock50M, NoTrace, f_state = "IDLE"
  PROVE  /\ NoTrace' /\ f_state' = "IDLE" /\ flash_data' = flash_data
         /\ pending' = Nothing \/ (pending' = pending /\ readdata' = readdata
                                   /\ waited' = waited + 1)
<1>1. NoTrace' /\ f_state' = "IDLE" /\ flash_data' = flash_data
  BY DEF NoTrace, Flops, Clock50M, sync_states!OutClock, read_FLASH!Tick,
     read_FLASH!Idle, read_FLASH!ReadAddr, read_FLASH!ReadData
<1>2. ~Accept
  BY DEF Accept, read_FLASH!read_addr_flag
<1>3. \/ pending' = Nothing
      \/ pending' = pending /\ readdata' = readdata /\ waited' = waited + 1
  BY <1>2 DEF Clock50M, FlashEdge, Rest, KeepWaiting, Answer
<1> QED BY <1>1, <1>3

(* The life of a request in the synchroniser. *)
LEMMA FlopsAdvance ==
  ASSUME sync_states!OutClock
  PROVE  /\ Flops(TRUE, FALSE, FALSE, FALSE) => Flops(TRUE, TRUE, FALSE, FALSE)'
         /\ Flops(TRUE, TRUE, FALSE, FALSE) => Flops(TRUE, TRUE, TRUE, FALSE)'
         /\ Flops(TRUE, TRUE, TRUE, FALSE) => Flops(FALSE, TRUE, TRUE, TRUE)'
         /\ Flops(FALSE, TRUE, TRUE, TRUE) => Flops(FALSE, FALSE, TRUE, TRUE)'
         /\ Flops(FALSE, FALSE, TRUE, TRUE) => Flops(FALSE, FALSE, FALSE, TRUE)'
         /\ Flops(FALSE, FALSE, FALSE, TRUE) => NoTrace'
         /\ NoTrace => NoTrace'
<1>1. /\ req_bq' = req_aq /\ start_read_flag' = req_bq /\ req_1q' = start_read_flag
      /\ req_aq' = (req_aq /\ ~start_read_flag)
  BY DEF sync_states!OutClock
<1> QED BY <1>1 DEF NoTrace, Flops

(* A request crosses to CLK_50M: the reader starts at the third edge, and   *)
(* the flash, which has nothing else to do, takes the read at the fourth.   *)
LEMMA Crossing ==
  ASSUME IpodInv, Clock50M, Underway
  PROVE  \/ Underway' /\ pending' = Nothing /\ flash_data' = flash_data
            /\ readdata' = readdata
         \/ /\ gap' = 4 /\ Started' /\ f_state = "READ_ADDR"
            /\ pending' = current_address /\ readdata' = readdata
            /\ ~readdatavalid' /\ waited' = 1 /\ flash_data' = readdata
<1>1. pending = Nothing /\ gap \in Nat /\ MinGap \in Nat /\ MinGap > 5
  BY TimingAssumption DEF IpodInv, TypeOK, Settled
<1>2. gap < 5 => gap' = gap + 1
  BY <1>1 DEF Clock50M
<1>3. CASE f_state = "IDLE"
  <2>1. Rest
    BY <1>1, <1>3 DEF Clock50M, FlashEdge, Accept, KeepWaiting, Answer,
       read_FLASH!read_addr_flag
  <2>2. read_FLASH!Idle /\ flash_data' = flash_data
    BY <1>3 DEF Clock50M, read_FLASH!Tick, read_FLASH!Idle, read_FLASH!ReadAddr,
       read_FLASH!ReadData
  <2>3. sync_states!OutClock
    BY DEF Clock50M
  <2>4. ASSUME gap = 0 /\ Flops(TRUE, FALSE, FALSE, FALSE) PROVE Underway'
    <3>1. ~start_read_flag /\ gap' = 1 /\ f_state' = "IDLE"
      BY <1>2, <2>2, <2>4 DEF Flops, read_FLASH!Idle
    <3> QED BY <2>3, <2>4, <3>1, FlopsAdvance DEF Underway, Flops
  <2>5. ASSUME gap = 1 /\ Flops(TRUE, TRUE, FALSE, FALSE) PROVE Underway'
    <3>1. ~start_read_flag /\ gap' = 2 /\ f_state' = "IDLE"
      BY <1>2, <2>2, <2>5 DEF Flops, read_FLASH!Idle
    <3> QED BY <2>3, <2>5, <3>1, FlopsAdvance DEF Underway, Flops
  <2>6. ASSUME gap = 2 /\ Flops(TRUE, TRUE, TRUE, FALSE) PROVE Underway'
    <3>1. start_read_flag /\ gap' = 3 /\ f_state' = "READ_ADDR"
      BY <1>2, <2>2, <2>6 DEF Flops, read_FLASH!Idle
    <3> QED BY <2>3, <2>6, <3>1, FlopsAdvance DEF Underway, Flops
  <2>7. Underway'
    BY <1>3, <2>4, <2>5, <2>6 DEF Underway
  <2> QED BY <1>1, <2>1, <2>2, <2>7 DEF Rest, Nothing
<1>4. CASE f_state = "READ_ADDR"
  <2>1. Accept
    BY <1>1, <1>4 DEF Clock50M, FlashEdge, Rest, KeepWaiting, Answer,
       read_FLASH!read_addr_flag
  <2>2. read_FLASH!ReadAddr
    BY <1>4 DEF Clock50M, read_FLASH!Tick, read_FLASH!Idle, read_FLASH!ReadData
  <2>3. flash_data' = readdata /\ f_state' = "READ_DATA"
    BY <2>1, <2>2 DEF Accept, read_FLASH!ReadAddr
  <2>4. gap' = 4 /\ Flops(FALSE, FALSE, TRUE, TRUE)'
    <3>1. gap = 3 /\ Flops(FALSE, TRUE, TRUE, TRUE) /\ sync_states!OutClock
      BY <1>4 DEF Underway, Clock50M
    <3>2. gap' = 4
      BY <1>2, <3>1
    <3>3. Flops(FALSE, FALSE, TRUE, TRUE)'
      BY <3>1, FlopsAdvance DEF Flops
    <3> QED BY <3>2, <3>3
  <2>5. Started'
    BY <2>3, <2>4 DEF Started
  <2> QED BY <1>4, <2>1, <2>3, <2>4, <2>5 DEF Accept
<1> QED BY <1>3, <1>4 DEF Underway

(* A read under way: the flash is working on it, or it answers, or the     *)
(* reader takes the answer while the flash accepts the same read again.     *)
LEMMA Awaited ==
  ASSUME IpodInv, Clock50M, Started
  PROVE  /\ flash_data' = flash_data /\ ~data_even_flag
         /\ \/ /\ Started' /\ pending = current_address /\ pending' = pending
               /\ readdata' = readdata /\ ~readdatavalid'
               /\ gap' = 3 + waited' /\ waited' > 0
            \/ /\ Started' /\ pending = current_address /\ pending' = Nothing
               /\ readdata' = pending /\ readdatavalid'
               /\ gap' > 4 /\ gap' <= 4 + MaxLatency
            \/ /\ NoTrace' /\ f_state' = "IDLE" /\ pending = Nothing
               /\ readdata = current_address
               /\ pending' = current_address /\ readdata' = readdata
<1>1. /\ gap \in Nat /\ MinGap \in Nat /\ MaxLatency \in Nat /\ waited \in Nat
      /\ MinGap >= MaxLatency + 5 /\ waited <= MaxLatency
      /\ current_address # Nothing
  BY TimingAssumption DEF IpodInv, TypeOK, count_addr!TypeOK, count_addr!Address,
     count_addr!START, count_addr!END, Nothing
<1>2. /\ f_state = "READ_DATA" /\ ~data_even_flag /\ gap > 3
      /\ \/ /\ pending = current_address /\ ~readdatavalid
            /\ gap = 3 + waited /\ waited > 0
         \/ /\ pending = Nothing /\ readdatavalid
            /\ gap > 4 /\ gap <= 4 + MaxLatency /\ readdata = current_address
  <2>1. f_state = "READ_DATA" /\ gap > 3
    BY <1>1 DEF Started, Flops, NoTrace
  <2> QED BY <2>1 DEF IpodInv, Reading
<1>3. gap' = gap + 1
  BY <1>1, <1>2 DEF Clock50M
<1>4. flash_data' = flash_data
      /\ f_state' = IF readdatavalid THEN "IDLE" ELSE "READ_DATA"
  BY <1>2 DEF Clock50M, read_FLASH!Tick, read_FLASH!Idle, read_FLASH!ReadAddr,
     read_FLASH!ReadData
<1>5. /\ gap = 4 => Flops(FALSE, FALSE, FALSE, TRUE)'
      /\ gap > 4 => NoTrace'
  <2>1. sync_states!OutClock
    BY DEF Clock50M
  <2>2. /\ gap = 4 => Flops(FALSE, FALSE, TRUE, TRUE)
        /\ gap > 4 => Flops(FALSE, FALSE, FALSE, TRUE) \/ NoTrace
    BY <1>1 DEF Started, Flops, NoTrace
  <2> QED BY <2>1, <2>2, FlopsAdvance DEF Flops, NoTrace
<1>6. CASE pending = current_address /\ ~readdatavalid
  <2>1. KeepWaiting \/ Answer
    BY <1>1, <1>6 DEF Clock50M, FlashEdge, Accept, Rest
  <2>2. gap' = 5 \/ gap' > 5
    BY <1>1, <1>2, <1>3
  <2>3. Started'
    <3>1. CASE gap = 4
      BY <1>3, <1>4, <1>5, <1>6, <3>1 DEF Started, Flops, NoTrace
    <3>2. CASE gap > 4
      BY <1>1, <1>3, <1>4, <1>5, <1>6, <3>2 DEF Started, Flops, NoTrace
    <3> QED BY <1>1, <1>2, <3>1, <3>2
  <2>4. gap' = 4 + waited /\ waited > 0
    BY <1>1, <1>2, <1>3, <1>6
  <2>5. CASE KeepWaiting
    BY <1>1, <1>2, <1>4, <1>6, <2>3, <2>4, <2>5 DEF KeepWaiting
  <2>6. CASE Answer
    BY <1>1, <1>2, <1>4, <1>6, <2>3, <2>4, <2>6 DEF Answer, Nothing
  <2> QED BY <2>1, <2>5, <2>6
<1>7. CASE pending = Nothing /\ readdatavalid
  <2>1. Accept
    BY <1>2, <1>7 DEF Clock50M, FlashEdge, Rest, KeepWaiting, Answer,
       read_FLASH!read_addr_flag
  <2>2. NoTrace' /\ f_state' = "IDLE" /\ readdata = current_address
    BY <1>1, <1>2, <1>4, <1>5, <1>7
  <2> QED BY <1>2, <1>4, <1>7, <2>1, <2>2 DEF Accept
<1> QED BY <1>2, <1>6, <1>7

(* Every edge of CLK_50M keeps the invariant. *)
LEMMA Clock50Inv ==
  ASSUME IpodInv, Clock50M
  PROVE  IpodInv'
<1>1. TypeOK' /\ UNCHANGED <<keyboard, keySync, character, counter>>
  BY Clock50Type
<1>2. /\ data_even_flag' = data_even_flag /\ audio_out' = audio_out
      /\ addr_ready_flag' = addr_ready_flag /\ current_address' = current_address
      /\ gap \in Nat /\ waited \in Nat
  BY <1>1, TimingAssumption DEF counter, IpodInv, TypeOK
<1>3. gap' <= gap + 1 /\ gap' \in Nat
  BY <1>2 DEF Clock50M
<1>4. CASE NoTrace /\ f_state = "IDLE"
  <2>1. /\ NoTrace' /\ f_state' = "IDLE" /\ flash_data' = flash_data
        /\ \/ pending' = Nothing
           \/ pending' = pending /\ readdata' = readdata /\ waited' = waited + 1
    BY <1>4, AtRest
  <2>2. Phase' /\ Reading'
    BY <2>1 DEF Phase, Reading
  <2>3. Echo'
    BY <1>2, <1>3, <1>4, <2>1 DEF IpodInv, Echo, Nothing
  <2>4. ~Underway'
    BY <2>1 DEF NoTrace, Underway, Flops
  <2>5. Settled'
    BY <1>2, <2>1, <2>4 DEF IpodInv, Settled, count_addr!Silence
  <2> QED BY <1>1, <2>2, <2>3, <2>5 DEF IpodInv
<1>5. CASE Underway
  <2>1. ~data_even_flag /\ ~data_even_flag'
    BY <1>2, <1>5 DEF IpodInv, Settled
  <2>2. CASE Underway' /\ pending' = Nothing
    <3>1. Phase'
      BY <2>2 DEF Phase
    <3>2. f_state' # "READ_DATA"
      BY <2>2 DEF Underway
    <3>3. Reading' /\ Echo'
      BY <2>2, <3>2 DEF Reading, Echo, Nothing
    <3>4. Settled'
      BY <2>1, <2>2 DEF Settled, Nothing
    <3> QED BY <1>1, <3>1, <3>3, <3>4 DEF IpodInv
  <2>3. CASE gap' = 4 /\ Started' /\ pending' = current_address
             /\ ~readdatavalid' /\ waited' = 1
    <3>1. Phase' /\ f_state' = "READ_DATA"
      BY <2>3 DEF Phase, Started
    <3>2. Reading' /\ Echo'
      BY <1>2, <2>1, <2>3, <3>1 DEF Reading, Echo
    <3>3. ~Underway'
      BY <3>1 DEF Underway
    <3>4. Settled'
      BY <2>1, <3>3 DEF Settled
    <3> QED BY <1>1, <3>1, <3>2, <3>4 DEF IpodInv
  <2> QED BY <1>5, <2>2, <2>3, Crossing
<1>6. CASE Started
  <2>1. ~data_even_flag /\ ~data_even_flag'
    BY <1>2, <1>6, Awaited
  <2>2. Phase'
    BY <1>6, Awaited DEF Phase
  <2>3. f_state' = "READ_DATA" \/ (f_state' = "IDLE" /\ NoTrace')
    BY <1>6, Awaited DEF Started
  <2>4. Reading'
    BY <1>2, <1>6, <2>1, Awaited DEF Reading, Nothing
  <2>5. Echo'
    BY <1>2, <1>6, <2>1, Awaited DEF Echo, Started
  <2>6. ~Underway'
    BY <2>3 DEF Underway, NoTrace, Flops
  <2>7. Settled'
    BY <2>1, <2>6 DEF Settled
  <2> QED BY <1>1, <2>2, <2>4, <2>5, <2>7 DEF IpodInv
<1> QED BY <1>4, <1>5, <1>6 DEF IpodInv, Phase

(* A key changes only the keyboard's side. *)
LEMMA KeyInv ==
  ASSUME IpodInv, NEW c \in keyboard_input!Characters, Key(c)
  PROVE  IpodInv' /\ UNCHANGED Ideal!vars
<1>1. UNCHANGED <<keyboard, counter, requestSync, reader, flash, gap>>
  BY DEF Key
<1>2. TypeOK'
  <2>1. sync_keyboard!TypeOK' /\ character' \in keyboard_input!Characters
    BY DEF Key, sync_keyboard!AsyncEdge, sync_keyboard!TypeOK, IpodInv, TypeOK,
       keyboard_input!Characters
  <2> QED BY <1>1, <2>1, TimingAssumption
          DEF IpodInv, TypeOK, keyboard, counter, requestSync, reader, flash,
              keyboard_input!TypeOK, keyboard_input!States, count_addr!TypeOK,
              count_addr!Address, count_addr!START, count_addr!END, count_addr!Sounds,
              count_addr!Silence, sync_states!TypeOK, Nothing
<1>3. Phase' /\ Reading' /\ Echo' /\ Settled'
  BY <1>1 DEF IpodInv, Phase, Underway, Started, Reading, Echo, Settled, NoTrace, Flops,
     counter, requestSync, reader, flash, Nothing, count_addr!Silence
<1>4. UNCHANGED Ideal!vars
  BY <1>1 DEF Ideal!vars, Ideal!control, InFlight, LastRead, keyboard, counter,
     requestSync, reader, flash, Nothing
<1> QED BY <1>2, <1>3, <1>4 DEF IpodInv

(* So every step keeps it. *)
LEMMA NextInv ==
  ASSUME IpodInv, [Next]_vars
  PROVE  IpodInv'
<1>1. CASE Next
  BY <1>1, Clock50Inv, SampleInv, KeyInv DEF Next
<1>2. CASE UNCHANGED vars
  BY <1>2
     DEF vars, keyboard, keySync, counter, requestSync, reader, flash, IpodInv, TypeOK,
         keyboard_input!TypeOK, keyboard_input!States, keyboard_input!Characters,
         sync_keyboard!TypeOK, count_addr!TypeOK, count_addr!Address, count_addr!START,
         count_addr!END, count_addr!Sounds, count_addr!Silence, sync_states!TypeOK,
         Nothing, Phase, Underway, Started, Reading, Echo, Settled, NoTrace, Flops
<1> QED BY <1>1, <1>2

(* ------------------------------ the refinement -------------------------- *)

(* A sample is a step of the ideal player. *)
LEMMA SampleRefines ==
  ASSUME IpodInv, SampleClock
  PROVE  Ideal!Next
<1> DEFINE Shown == IF InFlight THEN LastRead ELSE flash_data
           Ahead == IF InFlight THEN current_address ELSE LastRead
<1>1. /\ current_address \in count_addr!Address
      /\ {dir, reset, read_addr_start, data_even_flag} \subseteq BOOLEAN
  BY DEF IpodInv, TypeOK, count_addr!TypeOK, keyboard_input!TypeOK
<1>2. {dir', reset', read_addr_start'} \subseteq BOOLEAN
  BY DEF SampleClock, keyboard_input!Register
<1>3. /\ count_addr!Neighbour(current_address) = Ideal!Following(current_address)
      /\ count_addr!START = 0
  BY <1>1, AddressMoves
<1>4. Shown = flash_data /\ Ahead = LastRead /\ LastRead' = LastRead
      /\ flash_data' = flash_data /\ f_state' = "IDLE"
  BY SampleQuiet DEF SampleClock, LastRead, flash, reader, Nothing
<1>5. CASE ~(~reset /\ read_addr_start /\ data_even_flag)
  <2>1. Shown' = Shown /\ Ahead' = Ahead
    <3>1. ~InFlight'
      BY <1>4, <1>5, SampleRequest DEF InFlight, NoTrace, Flops
    <3> QED BY <1>4, <3>1
  <2>2. CASE count_addr!Restart
    BY <1>2, <1>3, <2>1, <2>2
       DEF count_addr!Restart, count_addr!MoveTo, Ideal!Next, Ideal!Hold, Ideal!Obey
  <2>3. CASE count_addr!Mute
    BY <1>2, <1>3, <2>1, <2>3
       DEF count_addr!Mute, count_addr!MoveTo, count_addr!Silence, Ideal!Next,
           Ideal!Mute, Ideal!Obey
  <2>4. CASE count_addr!Play
    <3>1. ~reset /\ read_addr_start /\ ~data_even_flag /\ data_even_flag' = TRUE
      BY <1>1, <1>5, <2>4 DEF count_addr!Play
    <3>2. count_addr!HalfPlayed = IF dir THEN "high" ELSE "low"
      BY <1>1, <3>1 DEF count_addr!HalfPlayed
    <3>3. audio_out' = <<Shown, IF dir THEN "high" ELSE "low">>
      BY <1>4, <2>4, <3>2 DEF count_addr!Play, count_addr!Half
    <3>4. Ideal!Obey(current_address)
      BY <1>2, <1>3, <2>4, <3>1 DEF count_addr!Play, count_addr!MoveTo, Ideal!Obey
    <3> QED BY <2>1, <3>1, <3>3, <3>4 DEF Ideal!Next, Ideal!FirstHalf
  <2> QED BY <2>2, <2>3, <2>4 DEF SampleClock, count_addr!Sample
<1>6. CASE ~reset /\ read_addr_start /\ data_even_flag
  <2>1. count_addr!Play
    BY <1>6 DEF SampleClock, count_addr!Sample, count_addr!Restart, count_addr!Mute
  <2>2. Shown' = Ahead /\ Ahead' = current_address'
    <3>1. InFlight'
      BY <1>6, SampleRequest DEF InFlight, Flops
    <3> QED BY <1>4, <3>1
  <2>3. count_addr!HalfPlayed = IF dir THEN "low" ELSE "high"
    BY <1>1, <1>6 DEF count_addr!HalfPlayed
  <2>4. audio_out' = <<Shown, IF dir THEN "low" ELSE "high">>
        /\ data_even_flag' = FALSE
    BY <1>4, <1>6, <2>1, <2>3 DEF count_addr!Play, count_addr!Half
  <2>5. Ideal!Obey(Ideal!Following(current_address))
    BY <1>2, <1>3, <1>6, <2>1 DEF count_addr!Play, count_addr!MoveTo, Ideal!Obey
  <2> QED BY <1>6, <2>2, <2>4, <2>5 DEF Ideal!Next, Ideal!SecondHalf
<1> QED BY <1>5, <1>6

(* What an edge of CLK_50M does is invisible to the ideal player. *)
LEMMA Clock50Refines ==
  ASSUME IpodInv, Clock50M
  PROVE  UNCHANGED Ideal!vars
<1> DEFINE Shown == IF InFlight THEN LastRead ELSE flash_data
           Ahead == IF InFlight THEN current_address ELSE LastRead
<1>1. /\ UNCHANGED <<read_addr_start, dir, reset, current_address, data_even_flag,
                     audio_out>>
      /\ current_address # Nothing
  BY TimingAssumption
     DEF Clock50M, keyboard, counter, IpodInv, TypeOK, count_addr!TypeOK,
         count_addr!Address, count_addr!START, count_addr!END, Nothing
<1>2. Shown' = Shown /\ Ahead' = Ahead
  <2>1. CASE NoTrace /\ f_state = "IDLE"
    <3>1. ~InFlight /\ ~InFlight' /\ flash_data' = flash_data
      BY <2>1, AtRest DEF InFlight, NoTrace, Flops
    <3>2. LastRead' = LastRead
      <4>1. ~Accept
        BY <2>1 DEF Accept, read_FLASH!read_addr_flag
      <4> QED BY <4>1 DEF Clock50M, FlashEdge, Rest, KeepWaiting, Answer, LastRead,
                Nothing
    <3> QED BY <3>1, <3>2
  <2>2. CASE Underway
    <3>1. InFlight /\ LastRead = readdata
      BY <2>2 DEF IpodInv, Settled, Underway, Flops, InFlight, LastRead
    <3>2. CASE Underway' /\ pending' = Nothing /\ readdata' = readdata
      <4>1. InFlight' /\ LastRead' = readdata
        BY <3>2 DEF Underway, Flops, InFlight, LastRead, Nothing
      <4> QED BY <1>1, <3>1, <4>1
    <3>3. CASE /\ gap' = 4 /\ Started' /\ pending' = current_address
               /\ flash_data' = readdata
      <4>1. ~InFlight' /\ LastRead' = current_address
        BY <1>1, <3>3 DEF Started, Flops, NoTrace, InFlight, LastRead, Nothing
      <4> QED BY <1>1, <3>1, <3>3, <4>1
    <3> QED BY <2>2, <3>2, <3>3, Crossing
  <2>3. CASE Started
    <3>1. ~InFlight /\ ~InFlight' /\ flash_data' = flash_data
      BY <2>3, Awaited DEF Started, InFlight, NoTrace, Flops
    <3>2. LastRead = current_address /\ LastRead' = current_address
      BY <1>1, <2>3, Awaited DEF LastRead, Nothing
    <3> QED BY <3>1, <3>2
  <2> QED BY <2>1, <2>2, <2>3 DEF IpodInv, Phase
<1> QED BY <1>1, <1>2 DEF Ideal!vars, Ideal!control

-----------------------------------------------------------------------------
(* The request, the reader and the flash stay in step with the samples. *)
THEOREM IpodInvariance == Spec => []IpodInv
<1> QED BY InitIpod, NextInv, PTL DEF Spec

(* Type correctness for a song of any length. *)
THEOREM IpodTypeCorrect == Spec => []TypeOK
<1>1. IpodInv => TypeOK
  BY DEF IpodInv
<1> QED BY <1>1, IpodInvariance, PTL

(* No request is lost, doubled or answered with the wrong word: the iPod    *)
(* implements the ideal player (simple_ipod_solution.v 262-320).            *)
THEOREM IpodImplementsPlayer == Spec => ImplementsPlayer
<1>1. Init => Ideal!Init
  BY DEF Init, Ideal!Init, keyboard_input!Start, count_addr!Start, sync_states!Clear,
     count_addr!START, count_addr!Silence, InFlight, LastRead
<1>2. IpodInv /\ [Next]_vars => [Ideal!Next]_(Ideal!vars)
  <2> SUFFICES ASSUME IpodInv, [Next]_vars PROVE [Ideal!Next]_(Ideal!vars)
    OBVIOUS
  <2>1. CASE Next
    BY <2>1, SampleRefines, Clock50Refines, KeyInv DEF Next
  <2>2. CASE UNCHANGED vars
    BY <2>2 DEF vars, keyboard, counter, requestSync, reader, flash, Ideal!vars,
       Ideal!control, InFlight, LastRead, Nothing
  <2> QED BY <2>1, <2>2
<1> QED BY <1>1, <1>2, IpodInvariance, PTL DEF Spec, ImplementsPlayer, Ideal!Spec

(* The two halves of a pair are of one word, whatever the keys do in        *)
(* between (address_counter.sv 42-61, read_flash.sv 50-53).                 *)
THEOREM WordsNotTorn == Spec => HalvesOfOneWord
<1>1. ASSUME IpodInv, [Next]_vars, data_even_flag, ~data_even_flag',
             audio_out # count_addr!Silence
      PROVE  audio_out'[1] = audio_out[1]
  <2>1. SampleClock
    BY <1>1 DEF Next, Clock50M, Key, vars, counter
  <2>2. audio_out' = count_addr!Half(flash_data, count_addr!HalfPlayed)
    BY <1>1, <2>1 DEF SampleClock, count_addr!Sample, count_addr!Restart,
       count_addr!Mute, count_addr!Play
  <2>3. audio_out[1] = flash_data
    BY <1>1 DEF IpodInv, Settled
  <2> QED BY <2>2, <2>3 DEF count_addr!Half
<1> QED BY <1>1, IpodInvariance, PTL DEF Spec, HalvesOfOneWord

=============================================================================
