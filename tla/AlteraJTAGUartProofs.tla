------------------------- MODULE AlteraJTAGUartProofs -------------------------
(***************************************************************************)
(* The types, the locks and the interrupt enables of the driver, for every *)
(* buffer length, FIFO depth, set of tasks and of strings; and the alarm   *)
(* that calls its timeout routine.                                         *)
(*                                                                         *)
(* IInv is inductive: one lemma per action, with one step per conjunct.    *)
(***************************************************************************)
EXTENDS AlteraJTAGUart, TLAPS

\* A reader that is about to advance has got characters.
AdvanceOK == \A t \in Readers : pc[t] = "advance" => got[t] # <<>>
IInv == TypeOK /\ NeverStalled /\ AdvanceOK


\* The buffer's length, and what its indices may be.
LEMMA BufLenType == ASSUME UartOK PROVE BufLen \in Nat \ {0, 1}
BY UartAssumption DEF UartOK, BufLen
LEMMA ForwardInBuf ==
  ASSUME UartOK, NEW i \in Nat, NEW k \in Nat PROVE Forward(i, k) \in 0 .. BufLen - 1
<1>1. BufLen \in Nat \ {0}
  BY BufLenType
<1>2. QED
  BY <1>1 DEF Forward

\* What a call copies at once is within the buffer and within what it asks for.
Fetched(t) == IF Stored > Wants(t) THEN Wants(t) ELSE Stored
Stowed(t) == IF Room > Len(todo[t]) THEN Len(todo[t]) ELSE Room
LEMMA FetchedFits ==
  ASSUME TypeOK, NEW t \in Tasks
  PROVE  /\ Fetched(t) \in 0 .. BufLen - 1 /\ Fetched(t) <= Wants(t)
         /\ rx_out + Fetched(t) <= BufLen
<1>1. BufLen \in Nat \ {0, 1} /\ Space \in Nat /\ Len(got[t]) \in Nat /\ Len(got[t]) <= Space
  BY BufLenType, UartAssumption DEF TypeOK, CallsOK
<1>2. rx_in \in 0 .. BufLen - 1 /\ rx_out \in 0 .. BufLen - 1
  BY DEF TypeOK, RingsOK
<1>3. Stored \in 0 .. BufLen - 1 /\ rx_out + Stored <= BufLen /\ Wants(t) \in Nat
  BY <1>1, <1>2 DEF Stored, Wants
<1>4. QED
  BY <1>1, <1>2, <1>3 DEF Fetched
LEMMA StowedFits ==
  ASSUME TypeOK, NEW t \in Tasks
  PROVE  /\ Stowed(t) \in 0 .. BufLen - 1 /\ Stowed(t) <= Len(todo[t])
         /\ tx_in + Stowed(t) <= BufLen
<1>1. BufLen \in Nat \ {0, 1} /\ Len(todo[t]) \in Nat
  BY BufLenType DEF TypeOK, CallsOK
<1>2. tx_in \in 0 .. BufLen - 1 /\ tx_out \in 0 .. BufLen - 1
  BY DEF TypeOK, RingsOK
<1>3. Room \in 0 .. BufLen - 1 /\ tx_in + Room <= BufLen
  BY <1>1, <1>2 DEF Room
<1>4. QED
  BY <1>1, <1>2, <1>3 DEF Stowed

LEMMA HostTakesInv == ASSUME IInv, HostTakes PROVE IInv'
<1> USE UartAssumption DEF IInv, TypeOK, Tasks
<1>1. UartOK'
  BY DEF HostTakes, state, rx, tx, handler, calls, locals, UartOK
<1>2. RingsOK'
  BY DEF HostTakes, rx, tx, calls, locals, RingsOK, BufLen
<1>3. CallsOK'
  BY DEF HostTakes, calls, locals, CallsOK, Places, BufLen
<1>4. LocksOK'
  BY DEF HostTakes, calls, locks, locals, LocksOK, Places, CallsOK
<1>5. NeverStalled'
  BY DEF HostTakes, rx, tx, calls, locals, NeverStalled, Full, Forward, BufLen
<1>6. AdvanceOK'
  BY DEF HostTakes, calls, locals, AdvanceOK, CallsOK
<1>7. QED
  BY <1>1, <1>2, <1>3, <1>4, <1>5, <1>6

LEMMA HostSendsInv == ASSUME IInv, HostSends PROVE IInv'
<1> USE UartAssumption DEF IInv, TypeOK, Tasks
<1>1. UartOK'
  BY DEF HostSends, state, rx, tx, handler, calls, locals, UartOK
<1>2. RingsOK'
  BY DEF HostSends, rx, tx, calls, locals, RingsOK, BufLen
<1>3. CallsOK'
  BY DEF HostSends, calls, locals, CallsOK, Places, BufLen
<1>4. LocksOK'
  BY DEF HostSends, calls, locks, locals, LocksOK, Places, CallsOK
<1>5. NeverStalled'
  BY DEF HostSends, rx, tx, calls, locals, NeverStalled, Full, Forward, BufLen
<1>6. AdvanceOK'
  BY DEF HostSends, calls, locals, AdvanceOK, CallsOK
<1>7. QED
  BY <1>1, <1>2, <1>3, <1>4, <1>5, <1>6

LEMMA HostPollsInv == ASSUME IInv, HostPolls PROVE IInv'
<1> USE UartAssumption DEF IInv, TypeOK, Tasks
<1>1. UartOK'
  BY DEF HostPolls, state, rx, tx, handler, calls, locals, UartOK
<1>2. RingsOK'
  BY DEF HostPolls, rx, tx, calls, locals, RingsOK, BufLen
<1>3. CallsOK'
  BY DEF HostPolls, calls, locals, CallsOK, Places, BufLen
<1>4. LocksOK'
  BY DEF HostPolls, calls, locks, locals, LocksOK, Places, CallsOK
<1>5. NeverStalled'
  BY DEF HostPolls, rx, tx, calls, locals, NeverStalled, Full, Forward, BufLen
<1>6. AdvanceOK'
  BY DEF HostPolls, calls, locals, AdvanceOK, CallsOK
<1>7. QED
  BY <1>1, <1>2, <1>3, <1>4, <1>5, <1>6

LEMMA ReadControlInv == ASSUME IInv, ReadControl PROVE IInv'
<1> USE UartAssumption DEF IInv, TypeOK, Tasks
<1>1. UartOK'
  <2>1. space' \in Nat /\ Len(txFifo) + space' <= Depth
    BY DEF ReadControl, UartOK
  <2>2. wi' \in BOOLEAN /\ ravail' \in BOOLEAN /\ isr' \in {"off", "check", "rx", "tx"}
    BY DEF ReadControl, ReadPending, WritePending
  <2>3. UNCHANGED <<uart, state, app>>
    BY DEF ReadControl, calls
  <2>4. QED
    BY <2>1, <2>2, <2>3 DEF UartOK, uart, state
<1>2. RingsOK'
  BY DEF ReadControl, ReadPending, WritePending, rx, tx, calls, locals, RingsOK, BufLen
<1>3. CallsOK'
  BY DEF ReadControl, ReadPending, WritePending, calls, locals, CallsOK, Places, BufLen
<1>4. LocksOK'
  BY DEF ReadControl, ReadPending, WritePending, calls, locks, locals, LocksOK, Places, CallsOK
<1>5. NeverStalled'
  BY DEF ReadControl, ReadPending, WritePending, uart, rx, tx, calls, locals, NeverStalled, Full, Forward, BufLen
<1>6. AdvanceOK'
  BY DEF ReadControl, ReadPending, WritePending, calls, locals, AdvanceOK, CallsOK
<1>7. QED
  BY <1>1, <1>2, <1>3, <1>4, <1>5, <1>6

LEMMA ReceiveCharInv == ASSUME IInv, ReceiveChar PROVE IInv'
<1> USE UartAssumption DEF IInv, TypeOK, Tasks
<1>1. UartOK'
  BY DEF ReceiveChar, Post, Waiting, Wanted, Full, Forward, BufLen, rx, tx, locals, UartOK
<1>2. RingsOK'
  <2>1. Head(rxFifo) \in Chars
    BY DEF ReceiveChar, UartOK
  <2>2. rx_in' \in 0 .. BufLen - 1
    BY ForwardInBuf DEF ReceiveChar, RingsOK
  <2>3. rx_buf' \in [0 .. BufLen - 1 -> Chars]
    BY <2>1 DEF ReceiveChar, RingsOK
  <2>4. rx_out' = rx_out /\ tx_in' = tx_in /\ tx_out' = tx_out /\ tx_buf' = tx_buf /\ app' = app
    BY DEF ReceiveChar, tx
  <2>5. QED
    BY <2>2, <2>3, <2>4 DEF RingsOK, BufLen
<1>3. CallsOK'
  BY DEF ReceiveChar, Post, Waiting, Wanted, Full, Forward, BufLen, locals, CallsOK, Places
<1>4. LocksOK'
  BY DEF ReceiveChar, Post, Waiting, Wanted, Full, Forward, BufLen, locks, locals, LocksOK, Places, CallsOK
<1>5. NeverStalled'
  BY DEF ReceiveChar, Post, Waiting, Wanted, Full, Forward, BufLen, rx, tx, locals, NeverStalled
<1>6. AdvanceOK'
  BY DEF ReceiveChar, Post, Waiting, Wanted, Full, Forward, BufLen, locals, AdvanceOK, CallsOK
<1>7. QED
  BY <1>1, <1>2, <1>3, <1>4, <1>5, <1>6

LEMMA ReceiveEndsInv == ASSUME IInv, ReceiveEnds PROVE IInv'
<1> USE UartAssumption DEF IInv, TypeOK, Tasks
<1>1. UartOK'
  BY DEF ReceiveEnds, Disable, rx, tx, calls, locals, UartOK
<1>2. RingsOK'
  BY DEF ReceiveEnds, Disable, rx, tx, calls, locals, RingsOK, BufLen
<1>3. CallsOK'
  BY DEF ReceiveEnds, Disable, calls, locals, CallsOK, Places, BufLen
<1>4. LocksOK'
  BY DEF ReceiveEnds, Disable, calls, locks, locals, LocksOK, Places, CallsOK
<1>5. NeverStalled'
  <2>1. UNCHANGED <<tx, rx, pc, got, app>>
    BY DEF ReceiveEnds, calls, locals
  <2>2. Full' <=> Full
    BY <2>1 DEF Full, Forward, BufLen, rx
  <2>3. ("WE" \in control' <=> "WE" \in control) /\ (~Full => control' = control)
    BY DEF ReceiveEnds, Disable, UartOK
  <2>4. QED
    BY <2>1, <2>2, <2>3 DEF NeverStalled, tx
<1>6. AdvanceOK'
  BY DEF ReceiveEnds, Disable, calls, locals, AdvanceOK, CallsOK
<1>7. QED
  BY <1>1, <1>2, <1>3, <1>4, <1>5, <1>6

LEMMA SendCharInv == ASSUME IInv, SendChar PROVE IInv'
<1> USE UartAssumption DEF IInv, TypeOK, Tasks
<1>1. UartOK'
  <2>1. tx_buf[tx_out] \in Chars
    BY DEF RingsOK
  <2>2. /\ txFifo' \in Seq(Chars) /\ Len(txFifo') = Len(txFifo) + 1
        /\ space' \in Nat /\ space' = space - 1
    BY <2>1 DEF SendChar, UartOK
  <2>3. events' \subseteq {"READ_RDY", "WRITE_RDY", "TIMEOUT"}
    BY DEF SendChar, Post, UartOK
  <2>4. UNCHANGED <<app, rxFifo, control, irq_enable, ac, timeout, host_inactive, isr, wi, ravail>>
    BY DEF SendChar
  <2>5. QED
    BY <2>2, <2>3, <2>4 DEF UartOK
<1>2. RingsOK'
  <2>1. tx_out' \in 0 .. BufLen - 1
    BY ForwardInBuf DEF SendChar, RingsOK
  <2>2. UNCHANGED <<rx, tx_in, tx_buf, app>>
    BY DEF SendChar
  <2>3. QED
    BY <2>1, <2>2 DEF RingsOK, rx, BufLen
<1>3. CallsOK'
  BY DEF SendChar, Post, Waiting, Wanted, Forward, BufLen, locals, CallsOK, Places
<1>4. LocksOK'
  BY DEF SendChar, Post, Waiting, Wanted, Forward, BufLen, locks, locals, LocksOK, Places, CallsOK
<1>5. NeverStalled'
  BY DEF SendChar, Post, Waiting, Wanted, Forward, BufLen, rx, tx, locals, NeverStalled, Full
<1>6. AdvanceOK'
  BY DEF SendChar, Post, Waiting, Wanted, Forward, BufLen, locals, AdvanceOK, CallsOK
<1>7. QED
  BY <1>1, <1>2, <1>3, <1>4, <1>5, <1>6

LEMMA SendEndsInv == ASSUME IInv, SendEnds PROVE IInv'
<1> USE UartAssumption DEF IInv, TypeOK, Tasks
<1>1. UartOK'
  <2>1. control' \subseteq {"RE", "WE"} /\ irq_enable' = control'
    BY DEF SendEnds, Disable, UartOK
  <2>2. space' \in Nat /\ Len(txFifo) + space' <= Depth
    BY DEF SendEnds, UartOK
  <2>3. isr' \in {"off", "check", "rx", "tx"} /\ wi' \in BOOLEAN
    BY DEF SendEnds
  <2>4. UNCHANGED <<app, rxFifo, txFifo, ac, timeout, host_inactive, events, ravail>>
    BY DEF SendEnds, calls
  <2>5. QED
    BY <2>1, <2>2, <2>3, <2>4 DEF UartOK
<1>2. RingsOK'
  BY DEF SendEnds, Disable, rx, tx, calls, locals, RingsOK, BufLen
<1>3. CallsOK'
  BY DEF SendEnds, Disable, calls, locals, CallsOK, Places, BufLen
<1>4. LocksOK'
  BY DEF SendEnds, Disable, calls, locks, locals, LocksOK, Places, CallsOK
<1>5. NeverStalled'
  <2>1. UNCHANGED <<tx, rx, pc, got, app>>
    BY DEF SendEnds, calls, locals
  <2>2. Full' <=> Full
    BY <2>1 DEF Full, Forward, BufLen, rx
  <2>3. ("RE" \in control' <=> "RE" \in control) /\ (control' = control \/ tx_out = tx_in)
    BY DEF SendEnds, Disable, UartOK
  <2>4. QED
    BY <2>1, <2>2, <2>3 DEF NeverStalled, tx
<1>6. AdvanceOK'
  BY DEF SendEnds, Disable, calls, locals, AdvanceOK, CallsOK
<1>7. QED
  BY <1>1, <1>2, <1>3, <1>4, <1>5, <1>6

LEMMA altera_avalon_jtag_uart_timeoutInv == ASSUME IInv, altera_avalon_jtag_uart_timeout PROVE IInv'
<1> USE UartAssumption DEF IInv, TypeOK, Tasks
<1>1. UartOK'
  <2>1. events' \subseteq {"READ_RDY", "WRITE_RDY", "TIMEOUT"} /\ host_inactive' \in Nat
    <3>1. events' = events \/ Post("TIMEOUT")
      BY DEF altera_avalon_jtag_uart_timeout
    <3>2. events' \subseteq {"READ_RDY", "WRITE_RDY", "TIMEOUT"}
      BY <3>1 DEF Post, UartOK
    <3>3. host_inactive' = 0 \/ host_inactive' = host_inactive + 1 \/ host_inactive' = host_inactive
      BY DEF altera_avalon_jtag_uart_timeout
    <3>4. QED
      BY <3>2, <3>3 DEF UartOK
  <2>2. control' = control /\ ac' \in BOOLEAN
    BY DEF altera_avalon_jtag_uart_timeout, UartOK
  <2>3. UNCHANGED <<app, timeout, rxFifo, txFifo, space, irq_enable, isr, wi, ravail>>
    BY DEF altera_avalon_jtag_uart_timeout, handler
  <2>4. QED
    BY <2>1, <2>2, <2>3 DEF UartOK
<1>2. RingsOK'
  BY DEF altera_avalon_jtag_uart_timeout, Post, Waiting, Wanted, rx, tx, locals, RingsOK, BufLen
<1>3. CallsOK'
  <2>1. flags' \in [Tasks -> SUBSET {"READ_RDY", "WRITE_RDY", "TIMEOUT"}]
    <3>1. CASE UNCHANGED flags
      BY <3>1 DEF CallsOK
    <3>2. CASE Post("TIMEOUT")
      BY <3>2 DEF Post, Waiting, Wanted, UartOK, CallsOK
    <3>3. QED
      BY <3>1, <3>2 DEF altera_avalon_jtag_uart_timeout
  <2>2. UNCHANGED <<pc, locals, app>>
    BY DEF altera_avalon_jtag_uart_timeout
  <2>3. QED
    BY <2>1, <2>2 DEF CallsOK, locals, BufLen
<1>4. LocksOK'
  BY DEF altera_avalon_jtag_uart_timeout, Post, Waiting, Wanted, locks, locals, LocksOK, Places, CallsOK
<1>5. NeverStalled'
  <2>1. UNCHANGED <<tx, rx, pc, got, app>> /\ control' = control
    BY DEF altera_avalon_jtag_uart_timeout, locals, UartOK
  <2>2. Full' <=> Full
    BY <2>1 DEF Full, Forward, BufLen, rx
  <2>3. QED
    BY <2>1, <2>2 DEF NeverStalled, tx
<1>6. AdvanceOK'
  BY DEF altera_avalon_jtag_uart_timeout, Post, Waiting, Wanted, locals, AdvanceOK, CallsOK
<1>7. QED
  BY <1>1, <1>2, <1>3, <1>4, <1>5, <1>6

LEMMA altera_avalon_jtag_uart_ioctlInv == ASSUME IInv, altera_avalon_jtag_uart_ioctl PROVE IInv'
<1> USE UartAssumption DEF IInv, TypeOK, Tasks
<1>1. UartOK'
  BY DEF altera_avalon_jtag_uart_ioctl, uart, rx, tx, handler, locals, UartOK
<1>2. RingsOK'
  BY DEF altera_avalon_jtag_uart_ioctl, rx, tx, locals, RingsOK, BufLen
<1>3. CallsOK'
  BY DEF altera_avalon_jtag_uart_ioctl, locals, CallsOK, Places, BufLen
<1>4. LocksOK'
  BY DEF altera_avalon_jtag_uart_ioctl, locks, locals, LocksOK, Places, CallsOK
<1>5. NeverStalled'
  BY DEF altera_avalon_jtag_uart_ioctl, uart, rx, tx, locals, NeverStalled, Full, Forward, BufLen
<1>6. AdvanceOK'
  BY DEF altera_avalon_jtag_uart_ioctl, locals, AdvanceOK, CallsOK
<1>7. QED
  BY <1>1, <1>2, <1>3, <1>4, <1>5, <1>6

LEMMA FlagPendInv == ASSUME IInv, NEW t \in Tasks, FlagPend(t) PROVE IInv'
<1> USE UartAssumption DEF IInv, TypeOK, Tasks
<1>1. UartOK'
  BY DEF FlagPend, At, Goto, Wanted, uart, rx, tx, handler, locals, UartOK
<1>2. RingsOK'
  BY DEF FlagPend, At, Goto, Wanted, rx, tx, locals, RingsOK, BufLen
<1>3. CallsOK'
  BY DEF FlagPend, At, Goto, Wanted, locals, CallsOK, Places, BufLen
<1>4. LocksOK'
  BY DEF FlagPend, At, Goto, Wanted, locks, locals, LocksOK, Places, CallsOK
<1>5. NeverStalled'
  BY DEF FlagPend, At, Goto, Wanted, uart, rx, tx, locals, NeverStalled, Full, Forward, BufLen
<1>6. AdvanceOK'
  BY DEF FlagPend, At, Goto, Wanted, locals, AdvanceOK, CallsOK
<1>7. QED
  BY <1>1, <1>2, <1>3, <1>4, <1>5, <1>6

LEMMA FlagPendReturnsInv == ASSUME IInv, NEW t \in Tasks, FlagPendReturns(t) PROVE IInv'
<1> USE UartAssumption DEF IInv, TypeOK, Tasks
<1>1. UartOK'
  BY DEF FlagPendReturns, At, Goto, uart, rx, tx, handler, locals, UartOK
<1>2. RingsOK'
  BY DEF FlagPendReturns, At, Goto, rx, tx, locals, RingsOK, BufLen
<1>3. CallsOK'
  BY DEF FlagPendReturns, At, Goto, locals, CallsOK, Places, BufLen
<1>4. LocksOK'
  BY DEF FlagPendReturns, At, Goto, locks, locals, LocksOK, Places, CallsOK
<1>5. NeverStalled'
  BY DEF FlagPendReturns, At, Goto, uart, rx, tx, locals, NeverStalled, Full, Forward, BufLen
<1>6. AdvanceOK'
  BY DEF FlagPendReturns, At, Goto, locals, AdvanceOK, CallsOK
<1>7. QED
  BY <1>1, <1>2, <1>3, <1>4, <1>5, <1>6

LEMMA ReadStartsInv == ASSUME IInv, NEW t \in Readers, ReadStarts(t) PROVE IInv'
<1> USE UartAssumption DEF IInv, TypeOK, Tasks
<1>1. UartOK'
  BY DEF ReadStarts, At, Goto, Pend, uart, state, rx, tx, handler, UartOK
<1>2. RingsOK'
  BY DEF ReadStarts, At, Goto, Pend, rx, tx, RingsOK, BufLen
<1>3. CallsOK'
  BY DEF ReadStarts, At, Goto, Pend, CallsOK, Places, BufLen
<1>4. LocksOK'
  BY DEF ReadStarts, At, Goto, Pend, LocksOK, Places, CallsOK
<1>5. NeverStalled'
  BY DEF ReadStarts, At, Goto, Pend, uart, rx, tx, NeverStalled, Full, Forward, BufLen
<1>6. AdvanceOK'
  BY DEF ReadStarts, At, Goto, Pend, AdvanceOK, CallsOK
<1>7. QED
  BY <1>1, <1>2, <1>3, <1>4, <1>5, <1>6

LEMMA ReadCopiesInv == ASSUME IInv, NEW t \in Readers, ReadCopies(t) PROVE IInv'
<1> USE UartAssumption DEF IInv, TypeOK, Tasks
<1>1. UartOK'
  BY DEF ReadCopies, At, Goto, Stored, Wants, uart, state, rx, tx, handler, UartOK
<1>2. RingsOK'
  BY DEF ReadCopies, At, Goto, Stored, Wants, rx, tx, RingsOK, BufLen
<1>3. CallsOK'
  <2>1. /\ Fetched(t) \in 0 .. BufLen - 1 /\ Fetched(t) <= Wants(t)
        /\ rx_out + Fetched(t) <= BufLen
    BY FetchedFits
  <2>2. \A i \in 1 .. Fetched(t) : rx_buf[rx_out + i - 1] \in Chars
    BY <2>1, BufLenType DEF RingsOK
  <2>3. DEFINE fetched == [i \in 1 .. Fetched(t) |-> rx_buf[rx_out + i - 1]]
  <2>4. fetched \in Seq(Chars) /\ Len(fetched) = Fetched(t)
    BY <2>1, <2>2, BufLenType
  <2>5. got[t] \o fetched \in Seq(Chars) /\ Len(got[t] \o fetched) = Len(got[t]) + Fetched(t)
    <3>1. got[t] \in Seq(Chars)
      BY DEF CallsOK
    <3> HIDE DEF fetched
    <3>2. QED
      BY <2>4, <3>1
  <2>6. got' = [got EXCEPT ![t] = got[t] \o fetched]
    BY DEF ReadCopies, Fetched
  <2>7. Len(got[t] \o fetched) <= Space
    BY <2>1, <2>5, BufLenType DEF Wants, CallsOK
  <2> HIDE DEF fetched
  <2>8. got' \in [Tasks -> Seq(Chars)] /\ \A u \in Tasks : Len(got'[u]) <= Space
    BY <2>5, <2>6, <2>7 DEF CallsOK
  <2>9. n' \in [Tasks -> 0 .. BufLen - 1] /\ in' \in [Tasks -> Nat] /\ pc' \in [Tasks -> Places]
    <3>1. n' = [n EXCEPT ![t] = Fetched(t)] /\ in' = [in EXCEPT ![t] = rx_in]
      BY DEF ReadCopies, Fetched
    <3>2. rx_in \in Nat
      BY BufLenType DEF RingsOK
    <3>3. pc' \in [Tasks -> Places]
      BY DEF ReadCopies, CallsOK, Goto, Places
    <3>4. QED
      BY <2>1, <3>1, <3>2, <3>3 DEF CallsOK
  <2>10. UNCHANGED <<todo, flags, app>>
    BY DEF ReadCopies
  <2>11. QED
    BY <2>8, <2>9, <2>10 DEF CallsOK, BufLen
<1>4. LocksOK'
  BY DEF ReadCopies, At, Goto, Stored, Wants, locks, LocksOK, Places, CallsOK
<1>5. NeverStalled'
  BY DEF ReadCopies, At, Goto, Stored, Wants, uart, rx, tx, NeverStalled, Full, Forward, BufLen
<1>6. AdvanceOK'
  <2>1. Fetched(t) \in Nat /\ BufLen \in Nat
    BY FetchedFits, BufLenType
  <2>2. ASSUME Fetched(t) > 0 PROVE got'[t] # <<>>
    <3>1. DEFINE fetched == [i \in 1 .. Fetched(t) |-> rx_buf[rx_out + i - 1]]
    <3>2. fetched # <<>>
      BY <2>1, <2>2
    <3>3. fetched \in Seq(Chars)
      BY <2>1, FetchedFits, BufLenType DEF RingsOK
    <3>4. got'[t] = got[t] \o fetched
      BY DEF ReadCopies, Fetched, CallsOK
    <3> HIDE DEF fetched
    <3>5. QED
      BY <3>2, <3>3, <3>4 DEF CallsOK
  <2>3. pc'[t] = "advance" => Fetched(t) > 0
    BY DEF ReadCopies, Fetched, Goto, CallsOK
  <2>4. \A u \in Readers \ {t} : pc'[u] = pc[u] /\ got'[u] = got[u]
    BY DEF ReadCopies, Goto, CallsOK
  <2>5. QED
    BY <2>2, <2>3, <2>4 DEF AdvanceOK
<1>7. QED
  BY <1>1, <1>2, <1>3, <1>4, <1>5, <1>6

LEMMA ReadAdvancesInv == ASSUME IInv, NEW t \in Readers, ReadAdvances(t) PROVE IInv'
<1> USE UartAssumption DEF IInv, TypeOK, Tasks
<1>1. UartOK'
  BY DEF ReadAdvances, At, Goto, Wants, Forward, uart, state, rx, tx, handler, UartOK
<1>2. RingsOK'
  <2>1. rx_out' \in 0 .. BufLen - 1
    <3>1. rx_out \in Nat /\ n[t] \in Nat
      BY BufLenType DEF RingsOK, CallsOK
    <3>2. QED
      BY <3>1, ForwardInBuf DEF ReadAdvances
  <2>2. UNCHANGED <<rx_in, rx_buf, tx, app>>
    BY DEF ReadAdvances
  <2>3. QED
    BY <2>1, <2>2 DEF RingsOK, tx, BufLen
<1>3. CallsOK'
  <2>1. n' \in [Tasks -> 0 .. BufLen - 1]
    BY BufLenType DEF ReadAdvances, CallsOK
  <2>2. pc' \in [Tasks -> Places] /\ UNCHANGED <<todo, in, got, flags, app>>
    BY DEF ReadAdvances, Goto, CallsOK, Places
  <2>3. QED
    BY <2>1, <2>2 DEF CallsOK, BufLen
<1>4. LocksOK'
  BY DEF ReadAdvances, At, Goto, Wants, Forward, locks, LocksOK, Places, CallsOK
<1>5. NeverStalled'
  <2>1. got'[t] # <<>>
    BY DEF ReadAdvances, At, AdvanceOK
  <2>2. UNCHANGED <<tx, control>> /\ \A u \in Writers : pc'[u] = pc[u]
    BY DEF ReadAdvances, Goto, uart, CallsOK
  <2>3. QED
    BY <2>1, <2>2 DEF NeverStalled, tx
<1>6. AdvanceOK'
  BY DEF ReadAdvances, At, Goto, Wants, Forward, AdvanceOK, CallsOK
<1>7. QED
  BY <1>1, <1>2, <1>3, <1>4, <1>5, <1>6

LEMMA ReadChecksInv == ASSUME IInv, NEW t \in Readers, ReadChecks(t) PROVE IInv'
<1> USE UartAssumption DEF IInv, TypeOK, Tasks
<1>1. UartOK'
  BY DEF ReadChecks, At, Goto, uart, state, rx, tx, handler, locals, UartOK
<1>2. RingsOK'
  BY DEF ReadChecks, At, Goto, rx, tx, locals, RingsOK, BufLen
<1>3. CallsOK'
  BY DEF ReadChecks, At, Goto, locals, CallsOK, Places, BufLen
<1>4. LocksOK'
  BY DEF ReadChecks, At, Goto, locks, locals, LocksOK, Places, CallsOK
<1>5. NeverStalled'
  BY DEF ReadChecks, At, Goto, uart, rx, tx, locals, NeverStalled, Full, Forward, BufLen
<1>6. AdvanceOK'
  BY DEF ReadChecks, At, Goto, locals, AdvanceOK, CallsOK
<1>7. QED
  BY <1>1, <1>2, <1>3, <1>4, <1>5, <1>6

LEMMA ReadUnlocksInv == ASSUME IInv, NEW t \in Readers, ReadUnlocks(t) PROVE IInv'
<1> USE UartAssumption DEF IInv, TypeOK, Tasks
<1>1. UartOK'
  BY DEF ReadUnlocks, At, Leave, Heir, Heirs, uart, state, rx, tx, handler, UartOK
<1>2. RingsOK'
  BY DEF ReadUnlocks, At, Leave, Heir, Heirs, rx, tx, RingsOK, BufLen
<1>3. CallsOK'
  BY DEF ReadUnlocks, At, Leave, Heir, Heirs, CallsOK, Places, BufLen
<1>4. LocksOK'
  BY DEF ReadUnlocks, At, Leave, Heir, Heirs, LocksOK, Places, CallsOK
<1>5. NeverStalled'
  BY DEF ReadUnlocks, At, Leave, Heir, Heirs, uart, rx, tx, NeverStalled, Full, Forward, BufLen
<1>6. AdvanceOK'
  BY DEF ReadUnlocks, At, Leave, Heir, Heirs, AdvanceOK, CallsOK
<1>7. QED
  BY <1>1, <1>2, <1>3, <1>4, <1>5, <1>6

LEMMA ReadReturnsInv == ASSUME IInv, NEW t \in Readers, ReadReturns(t) PROVE IInv'
<1> USE UartAssumption DEF IInv, TypeOK, Tasks
<1>1. UartOK'
  BY DEF ReadReturns, At, Goto, Enable, rx, tx, handler, UartOK
<1>2. RingsOK'
  BY DEF ReadReturns, At, Goto, Enable, rx, tx, RingsOK, BufLen
<1>3. CallsOK'
  BY DEF ReadReturns, At, Goto, Enable, CallsOK, Places, BufLen
<1>4. LocksOK'
  BY DEF ReadReturns, At, Goto, Enable, locks, LocksOK, Places, CallsOK
<1>5. NeverStalled'
  <2>1. UNCHANGED tx /\ "RE" \in control' /\ ("WE" \in control => "WE" \in control')
    BY DEF ReadReturns, Enable, UartOK
  <2>2. \A u \in Writers : pc'[u] = pc[u]
    BY DEF ReadReturns, Goto, CallsOK
  <2>3. QED
    BY <2>1, <2>2 DEF NeverStalled, tx
<1>6. AdvanceOK'
  BY DEF ReadReturns, At, Goto, Enable, AdvanceOK, CallsOK
<1>7. QED
  BY <1>1, <1>2, <1>3, <1>4, <1>5, <1>6

LEMMA WriteStartsInv == ASSUME IInv, NEW t \in Writers, WriteStarts(t) PROVE IInv'
<1> USE UartAssumption DEF IInv, TypeOK, Tasks
<1>1. UartOK'
  BY DEF WriteStarts, At, Goto, Pend, uart, state, rx, tx, handler, UartOK
<1>2. RingsOK'
  BY DEF WriteStarts, At, Goto, Pend, rx, tx, RingsOK, BufLen
<1>3. CallsOK'
  BY DEF WriteStarts, At, Goto, Pend, CallsOK, Places, BufLen
<1>4. LocksOK'
  BY DEF WriteStarts, At, Goto, Pend, LocksOK, Places, CallsOK
<1>5. NeverStalled'
  BY DEF WriteStarts, At, Goto, Pend, uart, rx, tx, NeverStalled, Full, Forward, BufLen
<1>6. AdvanceOK'
  BY DEF WriteStarts, At, Goto, Pend, AdvanceOK, CallsOK
<1>7. QED
  BY <1>1, <1>2, <1>3, <1>4, <1>5, <1>6

LEMMA WriteCopiesInv == ASSUME IInv, NEW t \in Writers, WriteCopies(t) PROVE IInv'
<1> USE UartAssumption DEF IInv, TypeOK, Tasks
<1>1. UartOK'
  BY DEF WriteCopies, At, Goto, Room, uart, state, rx, tx, handler, UartOK
<1>2. RingsOK'
  <2>1. \A i \in tx_in .. tx_in + Stowed(t) - 1 : i - tx_in + 1 \in 1 .. Len(todo[t])
    BY StowedFits, BufLenType DEF RingsOK, CallsOK
  <2>2. \A i \in tx_in .. tx_in + Stowed(t) - 1 : todo[t][i - tx_in + 1] \in Chars
    BY <2>1 DEF CallsOK
  <2>3. tx_buf' = [i \in 0 .. BufLen - 1 |-> IF i \in tx_in .. tx_in + Stowed(t) - 1
                                             THEN todo[t][i - tx_in + 1] ELSE tx_buf[i]]
    BY DEF WriteCopies, Stowed
  <2>4. tx_buf' \in [0 .. BufLen - 1 -> Chars]
    BY <2>2, <2>3 DEF RingsOK
  <2>5. UNCHANGED <<rx, tx_in, tx_out, app>>
    BY DEF WriteCopies
  <2>6. QED
    BY <2>4, <2>5 DEF RingsOK, rx, BufLen
<1>3. CallsOK'
  <2>1. n' \in [Tasks -> 0 .. BufLen - 1]
    BY StowedFits, BufLenType DEF WriteCopies, Stowed, CallsOK
  <2>2. pc' \in [Tasks -> Places] /\ UNCHANGED <<todo, in, got, flags, app>>
    BY DEF WriteCopies, Goto, CallsOK, Places
  <2>3. QED
    BY <2>1, <2>2 DEF CallsOK, BufLen
<1>4. LocksOK'
  BY DEF WriteCopies, At, Goto, Room, locks, LocksOK, Places, CallsOK
<1>5. NeverStalled'
  BY DEF WriteCopies, At, Goto, Room, uart, rx, NeverStalled, Full, Forward, BufLen
<1>6. AdvanceOK'
  BY DEF WriteCopies, At, Goto, Room, AdvanceOK, CallsOK
<1>7. QED
  BY <1>1, <1>2, <1>3, <1>4, <1>5, <1>6

LEMMA WriteAdvancesInv == ASSUME IInv, NEW t \in Writers, WriteAdvances(t) PROVE IInv'
<1> USE UartAssumption DEF IInv, TypeOK, Tasks
<1>1. UartOK'
  BY DEF WriteAdvances, At, Goto, Forward, uart, state, rx, tx, handler, UartOK
<1>2. RingsOK'
  <2>1. tx_in' \in 0 .. BufLen - 1
    <3>1. tx_in \in Nat /\ n[t] \in Nat
      BY BufLenType DEF RingsOK, CallsOK
    <3>2. QED
      BY <3>1, ForwardInBuf DEF WriteAdvances
  <2>2. UNCHANGED <<rx, tx_out, tx_buf, app>>
    BY DEF WriteAdvances
  <2>3. QED
    BY <2>1, <2>2 DEF RingsOK, rx, BufLen
<1>3. CallsOK'
  <2>1. n' \in [Tasks -> 0 .. BufLen - 1]
    BY BufLenType DEF WriteAdvances, CallsOK
  <2>2. n[t] \in Nat
    BY BufLenType DEF CallsOK
  <2>3. SubSeq(todo[t], n[t] + 1, Len(todo[t])) \in Seq(Chars)
    BY <2>2 DEF CallsOK
  <2>4. todo' \in [Tasks -> Seq(Chars)]
    BY <2>3 DEF WriteAdvances, CallsOK
  <2>5. pc' \in [Tasks -> Places] /\ UNCHANGED <<in, got, flags, app>>
    BY DEF WriteAdvances, Goto, CallsOK, Places
  <2>6. QED
    BY <2>1, <2>4, <2>5 DEF CallsOK, BufLen
<1>4. LocksOK'
  BY DEF WriteAdvances, At, Goto, Forward, locks, LocksOK, Places, CallsOK
<1>5. NeverStalled'
  BY DEF WriteAdvances, At, Goto, Forward, uart, rx, NeverStalled, Full, BufLen
<1>6. AdvanceOK'
  BY DEF WriteAdvances, At, Goto, Forward, AdvanceOK, CallsOK
<1>7. QED
  BY <1>1, <1>2, <1>3, <1>4, <1>5, <1>6

LEMMA WriteKicksInv == ASSUME IInv, NEW t \in Writers, WriteKicks(t) PROVE IInv'
<1> USE UartAssumption DEF IInv, TypeOK, Tasks
<1>1. UartOK'
  BY DEF WriteKicks, At, Goto, Enable, rx, tx, handler, locals, UartOK
<1>2. RingsOK'
  BY DEF WriteKicks, At, Goto, Enable, rx, tx, locals, RingsOK, BufLen
<1>3. CallsOK'
  BY DEF WriteKicks, At, Goto, Enable, locals, CallsOK, Places, BufLen
<1>4. LocksOK'
  BY DEF WriteKicks, At, Goto, Enable, locks, locals, LocksOK, Places, CallsOK
<1>5. NeverStalled'
  <2>1. UNCHANGED <<rx, got, app>> /\ "WE" \in control' /\ ("RE" \in control => "RE" \in control')
    BY DEF WriteKicks, Enable, UartOK, locals
  <2>2. Full' <=> Full
    BY <2>1 DEF Full, Forward, BufLen, rx
  <2>3. QED
    BY <2>1, <2>2 DEF NeverStalled
<1>6. AdvanceOK'
  BY DEF WriteKicks, At, Goto, Enable, locals, AdvanceOK, CallsOK
<1>7. QED
  BY <1>1, <1>2, <1>3, <1>4, <1>5, <1>6

LEMMA WriteChecksInv == ASSUME IInv, NEW t \in Writers, WriteChecks(t) PROVE IInv'
<1> USE UartAssumption DEF IInv, TypeOK, Tasks
<1>1. UartOK'
  BY DEF WriteChecks, At, Goto, uart, state, rx, tx, handler, locals, UartOK
<1>2. RingsOK'
  BY DEF WriteChecks, At, Goto, rx, tx, locals, RingsOK, BufLen
<1>3. CallsOK'
  BY DEF WriteChecks, At, Goto, locals, CallsOK, Places, BufLen
<1>4. LocksOK'
  BY DEF WriteChecks, At, Goto, locks, locals, LocksOK, Places, CallsOK
<1>5. NeverStalled'
  BY DEF WriteChecks, At, Goto, uart, rx, tx, locals, NeverStalled, Full, Forward, BufLen
<1>6. AdvanceOK'
  BY DEF WriteChecks, At, Goto, locals, AdvanceOK, CallsOK
<1>7. QED
  BY <1>1, <1>2, <1>3, <1>4, <1>5, <1>6

LEMMA WriteReturnsInv == ASSUME IInv, NEW t \in Writers, WriteReturns(t) PROVE IInv'
<1> USE UartAssumption DEF IInv, TypeOK, Tasks
<1>1. UartOK'
  BY DEF WriteReturns, At, Leave, Heir, Heirs, uart, state, rx, tx, handler, UartOK
<1>2. RingsOK'
  BY DEF WriteReturns, At, Leave, Heir, Heirs, rx, tx, RingsOK, BufLen
<1>3. CallsOK'
  BY DEF WriteReturns, At, Leave, Heir, Heirs, CallsOK, Places, BufLen
<1>4. LocksOK'
  BY DEF WriteReturns, At, Leave, Heir, Heirs, LocksOK, Places, CallsOK
<1>5. NeverStalled'
  BY DEF WriteReturns, At, Leave, Heir, Heirs, uart, rx, tx, NeverStalled, Full, Forward, BufLen
<1>6. AdvanceOK'
  BY DEF WriteReturns, At, Leave, Heir, Heirs, AdvanceOK, CallsOK
<1>7. QED
  BY <1>1, <1>2, <1>3, <1>4, <1>5, <1>6

LEMMA CloseStartsInv == ASSUME IInv, NEW t \in Writers, CloseStarts(t) PROVE IInv'
<1> USE UartAssumption DEF IInv, TypeOK, Tasks
<1>1. UartOK'
  BY DEF CloseStarts, At, Goto, uart, state, rx, tx, handler, locals, UartOK
<1>2. RingsOK'
  BY DEF CloseStarts, At, Goto, rx, tx, locals, RingsOK, BufLen
<1>3. CallsOK'
  BY DEF CloseStarts, At, Goto, locals, CallsOK, Places, BufLen
<1>4. LocksOK'
  BY DEF CloseStarts, At, Goto, locks, locals, LocksOK, Places, CallsOK
<1>5. NeverStalled'
  BY DEF CloseStarts, At, Goto, uart, rx, tx, locals, NeverStalled, Full, Forward, BufLen
<1>6. AdvanceOK'
  BY DEF CloseStarts, At, Goto, locals, AdvanceOK, CallsOK
<1>7. QED
  BY <1>1, <1>2, <1>3, <1>4, <1>5, <1>6

LEMMA CloseReturnsInv == ASSUME IInv, NEW t \in Writers, CloseReturns(t) PROVE IInv'
<1> USE UartAssumption DEF IInv, TypeOK, Tasks
<1>1. UartOK'
  BY DEF CloseReturns, At, Goto, uart, state, rx, tx, handler, locals, UartOK
<1>2. RingsOK'
  BY DEF CloseReturns, At, Goto, rx, tx, locals, RingsOK, BufLen
<1>3. CallsOK'
  BY DEF CloseReturns, At, Goto, locals, CallsOK, Places, BufLen
<1>4. LocksOK'
  BY DEF CloseReturns, At, Goto, locks, locals, LocksOK, Places, CallsOK
<1>5. NeverStalled'
  BY DEF CloseReturns, At, Goto, uart, rx, tx, locals, NeverStalled, Full, Forward, BufLen
<1>6. AdvanceOK'
  BY DEF CloseReturns, At, Goto, locals, AdvanceOK, CallsOK
<1>7. QED
  BY <1>1, <1>2, <1>3, <1>4, <1>5, <1>6

LEMMA InitInv == Init => IInv
<1> SUFFICES ASSUME Init PROVE IInv
  OBVIOUS
<1> USE UartAssumption DEF Init, Tasks
<1>1. BufLen \in Nat \ {0, 1}
  BY DEF BufLen
<1>2. UartOK
  <2>1. rxFifo \in Seq(Chars) /\ txFifo \in Seq(Chars) /\ Len(rxFifo) = 0 /\ Len(txFifo) = 0
    OBVIOUS
  <2>2. wi \in BOOLEAN /\ ravail \in BOOLEAN /\ ac \in BOOLEAN
    OBVIOUS
  <2>3. control \subseteq {"RE", "WE"} /\ irq_enable = control /\ events = {}
    OBVIOUS
  <2>4. QED
    BY <2>1, <2>2, <2>3 DEF UartOK
<1>3. PICK c : c \in Chars
  OBVIOUS
<1>4. (CHOOSE x \in Chars : TRUE) \in Chars
  BY <1>3
<1>5. RingsOK
  BY <1>1, <1>4 DEF RingsOK
<1>6. CallsOK
  BY <1>1 DEF CallsOK, Places
<1>7. LocksOK
  BY DEF LocksOK
<1>8. NeverStalled /\ AdvanceOK
  BY DEF NeverStalled, AdvanceOK
<1>9. QED
  BY <1>2, <1>5, <1>6, <1>7, <1>8 DEF IInv, TypeOK

LEMMA NextInv == IInv /\ [Next]_vars => IInv'
<1> SUFFICES ASSUME IInv, [Next]_vars PROVE IInv'
  OBVIOUS
<1>1. CASE UNCHANGED vars
  <2> USE <1>1 DEF vars, uart, state, rx, tx, handler, calls, locks, locals
  <2>1. UartOK'
    BY DEF IInv, TypeOK, UartOK
  <2>2. RingsOK' /\ CallsOK' /\ LocksOK'
    BY DEF IInv, TypeOK, RingsOK, CallsOK, LocksOK, BufLen, Tasks
  <2>3. NeverStalled' /\ AdvanceOK'
    BY DEF IInv, NeverStalled, AdvanceOK, Full, Forward, BufLen
  <2>4. QED
    BY <2>1, <2>2, <2>3 DEF IInv, TypeOK
<1>2. CASE Host
  BY <1>2, HostTakesInv, HostSendsInv, HostPollsInv DEF Host
<1>3. CASE InterruptHandler
  BY <1>3, ReadControlInv, ReceiveCharInv, ReceiveEndsInv, SendCharInv, SendEndsInv
     DEF InterruptHandler
<1>4. CASE altera_avalon_jtag_uart_timeout \/ altera_avalon_jtag_uart_ioctl
  BY <1>4, altera_avalon_jtag_uart_timeoutInv, altera_avalon_jtag_uart_ioctlInv
<1>5. ASSUME NEW t \in Readers, altera_avalon_jtag_uart_read(t) PROVE IInv'
  BY <1>5, ReadStartsInv, ReadCopiesInv, ReadAdvancesInv, FlagPendInv, FlagPendReturnsInv,
     ReadChecksInv, ReadUnlocksInv, ReadReturnsInv DEF altera_avalon_jtag_uart_read, Tasks
<1>6. ASSUME NEW t \in Writers, altera_avalon_jtag_uart_write(t) \/ CloseStarts(t) \/ CloseReturns(t)
      PROVE  IInv'
  BY <1>6, WriteStartsInv, WriteCopiesInv, WriteAdvancesInv, WriteKicksInv, FlagPendInv,
     FlagPendReturnsInv, WriteChecksInv, WriteReturnsInv, CloseStartsInv, CloseReturnsInv
     DEF altera_avalon_jtag_uart_write, Tasks
<1>7. QED
  BY <1>1, <1>2, <1>3, <1>4, <1>5, <1>6 DEF Next, Calls, Tasks

THEOREM Invariance == Spec => []IInv
BY InitInv, NextInv, PTL DEF Spec

(* For buffers and FIFOs of any length, any tasks and any strings: no index  *)
(* leaves its buffer, no FIFO is overrun, and a lock has one owner.          *)
THEOREM TypeCorrect == Spec => []TypeOK
<1>1. IInv => TypeOK
  BY DEF IInv
<1>2. QED
  BY <1>1, Invariance, PTL

(* For all of them too: an interrupt the driver has turned off is turned on  *)
(* again by a task that is under way whenever there is work for it.          *)
THEOREM NoCharacterIsLeftBehind == Spec => []NeverStalled
<1>1. IInv => NeverStalled
  BY DEF IInv
<1>2. QED
  BY <1>1, Invariance, PTL

-----------------------------------------------------------------------------
\* The alarm that calls the driver's timeout routine each second.
CONSTANTS Wrap, Period
VARIABLES nticks, time, rollover, left

Alarm == INSTANCE AltAlarm

\* The alarm's time is left ticks ahead, and the flag says whether the counter
\* wraps before it.
AlarmInv ==
  /\ Alarm!AlarmAssumption
  /\ nticks \in 0 .. Wrap - 1 /\ left \in 1 .. Period + 1 /\ rollover \in BOOLEAN
  /\ time = Alarm!Sum32(nticks, left)
  /\ rollover <=> nticks + left >= Wrap

\* alt_tick keeps it, in each of the three ways a tick goes.
LEMMA AlarmStep == AlarmInv /\ [Alarm!alt_tick]_Alarm!vars => AlarmInv'
<1> SUFFICES ASSUME AlarmInv, [Alarm!alt_tick]_Alarm!vars PROVE AlarmInv'
  OBVIOUS
<1> USE DEF Alarm!AlarmAssumption, AlarmInv, Alarm!Sum32
<1>1. CASE UNCHANGED Alarm!vars
  BY <1>1 DEF Alarm!vars
<1>2. CASE Alarm!alt_tick /\ left = 1
  <2>1. Alarm!Due /\ time = Alarm!Ticked /\ ~Alarm!Rollover
    BY <1>2 DEF Alarm!Due, Alarm!Rollover, Alarm!Ticked
  <2>2. /\ nticks' = Alarm!Ticked /\ left' = Period /\ time' = Alarm!Sum32(Alarm!Ticked, Period)
        /\ rollover' <=> Alarm!Sum32(Alarm!Ticked, Period) < Alarm!Ticked
    BY <1>2, <2>1 DEF Alarm!alt_tick
  <2>3. Alarm!Ticked \in 0 .. Wrap - 1
    BY DEF Alarm!Ticked
  <2>4. rollover' \in BOOLEAN
    BY <1>2 DEF Alarm!alt_tick
  <2>5. QED
    BY <2>2, <2>3, <2>4
<1>3. CASE Alarm!alt_tick /\ left # 1
  <2>1. ~Alarm!Due
    BY <1>3 DEF Alarm!Due, Alarm!Rollover, Alarm!Ticked
  <2>2. nticks' = Alarm!Ticked /\ left' = left - 1 /\ time' = time /\ (rollover' <=> Alarm!Rollover)
    BY <1>3, <2>1 DEF Alarm!alt_tick
  <2>3. rollover' \in BOOLEAN
    BY <1>3 DEF Alarm!alt_tick
  <2>4. QED
    BY <1>3, <2>2, <2>3 DEF Alarm!Rollover, Alarm!Ticked
<1>4. QED
  BY <1>1, <1>2, <1>3

\* The driver's callback is called Period ticks apart, for ever and from any
\* value of the tick counter.
THEOREM AlarmOnTime == Alarm!AlarmAssumption /\ Alarm!Spec => []Alarm!OnTime
<1>1. Alarm!AlarmAssumption /\ Alarm!alt_alarm_start => AlarmInv
  <2> SUFFICES ASSUME Alarm!AlarmAssumption, Alarm!alt_alarm_start PROVE AlarmInv
    OBVIOUS
  <2> USE DEF Alarm!AlarmAssumption, Alarm!Sum32
  <2>1. rollover <=> time < nticks
    BY DEF Alarm!alt_alarm_start
  <2>2. rollover \in BOOLEAN
    BY DEF Alarm!alt_alarm_start
  <2>3. nticks \in 0 .. Wrap - 1 /\ left = Period + 1 /\ time = Alarm!Sum32(Period + 1, nticks)
    BY DEF Alarm!alt_alarm_start
  <2>4. QED
    BY <2>1, <2>2, <2>3 DEF AlarmInv
<1>2. AlarmInv /\ [Alarm!alt_tick]_Alarm!vars => AlarmInv'
  BY AlarmStep
<1>3. AlarmInv => Alarm!OnTime
  BY DEF AlarmInv, Alarm!OnTime, Alarm!Due, Alarm!Rollover, Alarm!Ticked,
         Alarm!AlarmAssumption, Alarm!Sum32
<1>4. QED
  BY <1>1, <1>2, <1>3, PTL DEF Alarm!Spec
=============================================================================
