--------------------------- MODULE AlteraJTAGUart ---------------------------
(***************************************************************************)
(* The JTAG UART driver of lab 5, through which its tasks print.  The      *)
(* interrupt handler moves characters between the UART's FIFOs and two     *)
(* ring buffers, which tasks fill and empty without disabling interrupts.  *)
(* Tasks take turns by semaphores and wait for event flags.  An alarm      *)
(* counts the seconds the host has been silent.                            *)
(*                                                                         *)
(* A step of a task is one access to what the interrupt handler shares     *)
(* with it.  A task makes no step while the handler runs; the host does.   *)
(***************************************************************************)
EXTENDS Naturals, Sequences

CONSTANTS
  Readers, Writers,   \* tasks
  Nonblocking,        \* those whose files are open with O_NONBLOCK
  NoTask,
  Chars,
  Depth,      \* the size of the UART's FIFOs
  Space,      \* the characters a read asks for
  Strings,    \* what is written by one call
  Timeouts,   \* the values sp->timeout may have
  Apps        \* applications: the tasks that use the device, what its host
              \* sends, and ALTERA_AVALON_JTAG_UART_BUF_LEN, set when it is built

Tasks == Readers \cup Writers
ASSUME UartAssumption ==
  /\ Readers \cap Writers = {} /\ Nonblocking \subseteq Tasks /\ NoTask \notin Tasks
  /\ Depth \in Nat \ {0} /\ Space \in Nat \ {0}
  /\ Chars # {} /\ Strings \subseteq Seq(Chars) \ {<<>>}
  /\ Timeouts \subseteq Nat \ {0, 1} /\ Timeouts # {}
  /\ Apps \subseteq [tasks : SUBSET Tasks, sends : SUBSET Chars, buf : Nat \ {0, 1}]

MaxTimeout == CHOOSE m \in Timeouts : \A k \in Timeouts : k <= m

VARIABLES
  rxFifo, txFifo, control, ac,                      \* the UART and the host
  irq_enable, timeout, host_inactive, events,       \* sp->...
  rx_in, rx_out, rx_buf, tx_in, tx_out, tx_buf,
  isr, wi, ravail, space,                           \* the interrupt handler
  read_lock, write_lock,                            \* the task that has it
  pc, todo, in, n, got,                             \* calls under way
  flags,                                            \* what woke a waiting task
  app                                               \* the application

uart == <<rxFifo, txFifo, control, ac>>
state == <<irq_enable, timeout, host_inactive, events>>
rx == <<rx_in, rx_out, rx_buf>>
tx == <<tx_in, tx_out, tx_buf>>
handler == <<isr, wi, ravail, space>>
locks == <<read_lock, write_lock>>
locals == <<todo, in, n, got>>
calls == <<locks, pc, locals, flags, app>>
vars == <<uart, state, rx, tx, handler, calls>>

BufLen == app.buf
Forward(i, k) == (i + k) % BufLen

Init ==
  /\ app \in Apps
  /\ rxFifo = <<>> /\ txFifo = <<>> /\ control = {"RE"} /\ ac = FALSE
  /\ irq_enable = {"RE"} /\ timeout \in Timeouts /\ host_inactive = 0 /\ events = {}
  /\ rx_in = 0 /\ rx_out = 0 /\ tx_in = 0 /\ tx_out = 0
  /\ rx_buf = [i \in 0 .. BufLen - 1 |-> CHOOSE c \in Chars : TRUE] /\ tx_buf = rx_buf
  /\ isr = "off" /\ wi = FALSE /\ ravail = FALSE /\ space = 0
  /\ read_lock = NoTask /\ write_lock = NoTask
  /\ pc = [t \in Tasks |-> "idle"]
  /\ todo = [t \in Tasks |-> <<>>] /\ in = [t \in Tasks |-> 0] /\ n = [t \in Tasks |-> 0]
  /\ got = [t \in Tasks |-> <<>>]
  /\ flags = [t \in Tasks |-> {}]

-----------------------------------------------------------------------------
\* The host takes characters, sends some to a task that reads, or only polls;
\* ac says that it has done so.
HostTakes == /\ txFifo # <<>>
             /\ txFifo' = Tail(txFifo) /\ ac' = TRUE
             /\ UNCHANGED <<rxFifo, control, state, rx, tx, handler, calls>>
HostSends == /\ Len(rxFifo) < Depth
             /\ \E c \in app.sends : rxFifo' = Append(rxFifo, c)
             /\ ac' = TRUE
             /\ UNCHANGED <<txFifo, control, state, rx, tx, handler, calls>>
HostPolls == /\ ac' = TRUE
             /\ UNCHANGED <<rxFifo, txFifo, control, state, rx, tx, handler, calls>>

ReadPending == "RE" \in control /\ rxFifo # <<>>
WritePending == "WE" \in control /\ Len(txFifo) < Depth

\* alt_flag_post with OS_FLAG_SET: a task that waits for one of the flags is
\* readied with those that are set, and consumes them when it runs.
Wanted(t) == {IF t \in Readers THEN "READ_RDY" ELSE "WRITE_RDY", "TIMEOUT"}
Waiting == {t \in Tasks : pc[t] = "wait" /\ flags[t] = {}}
Post(f) == /\ events' = events \cup {f}
           /\ flags' = [t \in Tasks |-> IF t \in Waiting THEN Wanted(t) \cap (events \cup {f})
                                        ELSE flags[t]]

-----------------------------------------------------------------------------
\* altera_avalon_jtag_uart_irq, entered by an interrupt and repeated until
\* neither cause is pending.  Tasks and the tick come when it has ended.
ReadControl ==
  /\ isr \in {"off", "check"}
  /\ \/ /\ ReadPending \/ WritePending
        /\ isr' = IF ReadPending THEN "rx" ELSE "tx"
        /\ wi' = WritePending /\ ravail' = ReadPending
        /\ space' = IF WritePending THEN Depth - Len(txFifo) ELSE 0
     \/ /\ isr = "check" /\ ~ReadPending /\ ~WritePending
        /\ isr' = "off" /\ wi' = FALSE /\ ravail' = FALSE /\ space' = 0
  /\ UNCHANGED <<uart, state, rx, tx, calls>>

Disable(mask) == /\ irq_enable' = irq_enable \ {mask}
                 /\ control' = irq_enable \ {mask}
Full == Forward(rx_in, 1) = rx_out

\* A character is read unless the buffer is full; with it comes whether more
\* are there.
ReceiveChar ==
  /\ isr = "rx" /\ ~Full /\ rxFifo # <<>>
  /\ rxFifo' = Tail(rxFifo) /\ ravail' = (Len(rxFifo) > 1)
  /\ rx_buf' = [rx_buf EXCEPT ![rx_in] = Head(rxFifo)]
  /\ rx_in' = Forward(rx_in, 1)
  /\ Post("READ_RDY")
  /\ UNCHANGED <<txFifo, control, ac, irq_enable, timeout, host_inactive,
                 rx_out, tx, isr, wi, space, locks, pc, locals, app>>

\* With the buffer full and characters left the interrupt is turned off.
ReceiveEnds ==
  /\ isr = "rx" /\ (Full \/ rxFifo = <<>>)
  /\ isr' = IF wi THEN "tx" ELSE "check"
  /\ IF ravail /\ Full THEN Disable("RE") ELSE UNCHANGED <<irq_enable, control>>
  /\ ravail' = FALSE
  /\ UNCHANGED <<rxFifo, txFifo, ac, timeout, host_inactive, events, rx, tx,
                 wi, space, calls>>

SendChar_Silent ==
  /\ isr = "tx" /\ space > 0 /\ tx_out # tx_in
  /\ txFifo' = Append(txFifo, tx_buf[tx_out])
  /\ tx_out' = Forward(tx_out, 1)
  /\ space' = space - 1
  /\ UNCHANGED <<rxFifo, control, ac, irq_enable, timeout, host_inactive, events, flags,
                 rx, tx_in, tx_buf, isr, wi, ravail, locks, pc, locals, app>>

SendChar ==
  /\ isr = "tx" /\ space > 0 /\ tx_out # tx_in
  /\ txFifo' = Append(txFifo, tx_buf[tx_out])
  /\ tx_out' = Forward(tx_out, 1)
  /\ Post("WRITE_RDY")
  /\ space' = space - 1
  /\ UNCHANGED <<rxFifo, control, ac, irq_enable, timeout, host_inactive,
                 rx, tx_in, tx_buf, isr, wi, ravail, locks, pc, locals, app>>

\* With room left in the FIFO there was nothing more to send.
SendEnds_Always ==
  /\ isr = "tx" /\ (space = 0 \/ tx_out = tx_in)
  /\ Disable("WE")
  /\ isr' = "check" /\ wi' = FALSE /\ space' = 0
  /\ UNCHANGED <<rxFifo, txFifo, ac, timeout, host_inactive, events, rx, tx,
                 ravail, calls>>

SendEnds ==
  /\ isr = "tx" /\ (space = 0 \/ tx_out = tx_in)
  /\ IF space > 0 THEN Disable("WE") ELSE UNCHANGED <<irq_enable, control>>
  /\ isr' = "check" /\ wi' = FALSE /\ space' = 0
  /\ UNCHANGED <<rxFifo, txFifo, ac, timeout, host_inactive, events, rx, tx,
                 ravail, calls>>

InterruptHandler == ReadControl \/ ReceiveChar \/ ReceiveEnds \/ SendChar \/ SendEnds

\* altera_avalon_jtag_uart_timeout, called each second by the alarm of AltAlarm.
\* The count stops at MaxTimeout here, above which nothing depends on it.
altera_avalon_jtag_uart_timeout ==
  /\ isr = "off"
  /\ \/ /\ ac
        /\ control' = irq_enable /\ ac' = FALSE /\ host_inactive' = 0
        /\ UNCHANGED <<events, flags>>
     \/ /\ ~ac
        /\ host_inactive' = IF host_inactive < MaxTimeout THEN host_inactive + 1 ELSE host_inactive
        /\ IF host_inactive' >= timeout THEN Post("TIMEOUT") ELSE UNCHANGED <<events, flags>>
        /\ UNCHANGED <<control, ac>>
  /\ UNCHANGED <<rxFifo, txFifo, irq_enable, timeout, rx, tx, handler, locks, pc, locals, app>>

-----------------------------------------------------------------------------
\* A task's program counter, where it goes on.
At(t, l) == t \in app.tasks /\ isr = "off" /\ pc[t] = l
Goto(t, l) == pc' = [pc EXCEPT ![t] = l]
Enable(mask) == /\ irq_enable' = irq_enable \cup {mask}
                /\ control' = irq_enable \cup {mask}
                /\ UNCHANGED <<timeout, host_inactive, events, rxFifo, txFifo, ac>>

\* ALT_SEM_PEND and ALT_SEM_POST on a lock: a post hands it to a task in wait.  The
\* kernel takes the most urgent one; the driver knows no priorities, and CHOOSE, of
\* which nothing is assumed, stands for any order of the tasks.
Pend(lock, t) == IF lock = NoTask THEN t ELSE lock
Heirs(S) == {u \in S : pc[u] = "lock"}
Heir(S) == IF Heirs(S) = {} THEN NoTask ELSE CHOOSE u \in Heirs(S) : TRUE
Leave(t, S, l) == pc' = [u \in Tasks |-> IF u = t THEN l
                                         ELSE IF u \in Heirs(S) /\ u = Heir(S) THEN "look"
                                         ELSE pc[u]]

\* ALT_FLAG_PEND with OS_FLAG_CONSUME, and its end in a task that had to wait.
FlagPend(t) ==
  /\ At(t, "pend")
  /\ events' = events \ Wanted(t)
  /\ Goto(t, IF events \cap Wanted(t) # {} THEN "check" ELSE "wait")
  /\ UNCHANGED <<uart, irq_enable, timeout, host_inactive, rx, tx, handler, locks,
                 locals, flags, app>>
FlagPendReturns(t) ==
  /\ At(t, "wait") /\ flags[t] # {}
  /\ events' = events \ flags[t] /\ flags' = [flags EXCEPT ![t] = {}]
  /\ Goto(t, "check")
  /\ UNCHANGED <<uart, irq_enable, timeout, host_inactive, rx, tx, handler, locks,
                 locals, app>>

-----------------------------------------------------------------------------
\* altera_avalon_jtag_uart_read of Space characters.
ReadStarts(t) ==
  /\ At(t, "idle")
  /\ read_lock' = Pend(read_lock, t)
  /\ Goto(t, IF read_lock = NoTask THEN "look" ELSE "lock")
  /\ UNCHANGED <<uart, state, rx, tx, handler, write_lock, todo, in, n, got, flags, app>>

\* What can be copied at once, up to the end of the buffer.
Stored == IF rx_in >= rx_out THEN rx_in - rx_out ELSE BufLen - rx_out
Wants(t) == Space - Len(got[t])
ReadCopies(t) ==
  LET m == IF Stored > Wants(t) THEN Wants(t) ELSE Stored IN
  /\ At(t, "look")
  /\ in' = [in EXCEPT ![t] = rx_in] /\ n' = [n EXCEPT ![t] = m]
  /\ got' = [got EXCEPT ![t] = @ \o [i \in 1 .. m |-> rx_buf[rx_out + i - 1]]]
  /\ Goto(t, IF m > 0 THEN "advance"
             ELSE IF got[t] # <<>> \/ t \in Nonblocking THEN "unlock" ELSE "pend")
  /\ UNCHANGED <<uart, state, rx, tx, handler, locks, todo, flags, app>>

ReadAdvances(t) ==
  /\ At(t, "advance")
  /\ rx_out' = Forward(rx_out, n[t]) /\ n' = [n EXCEPT ![t] = 0]
  /\ Goto(t, IF Wants(t) = 0 THEN "unlock" ELSE "look")
  /\ UNCHANGED <<uart, state, rx_in, rx_buf, tx, handler, locks, todo, in, got,
                 flags, app>>

\* Awake without a new character: the host is taken to be gone.
ReadChecks(t) ==
  /\ At(t, "check")
  /\ Goto(t, IF in[t] = rx_in THEN "unlock" ELSE "look")
  /\ UNCHANGED <<uart, state, rx, tx, handler, locks, locals, flags, app>>

ReadUnlocks(t) ==
  /\ At(t, "unlock")
  /\ read_lock' = Heir(Readers)
  /\ in' = [in EXCEPT ![t] = 0]
  /\ Leave(t, Readers, IF got[t] # <<>> THEN "enable" ELSE "idle")
  /\ UNCHANGED <<uart, state, rx, tx, handler, write_lock, todo, n, got, flags, app>>

ReadReturns(t) ==
  /\ At(t, "enable")
  /\ Enable("RE")
  /\ got' = [got EXCEPT ![t] = <<>>]
  /\ Goto(t, "idle")
  /\ UNCHANGED <<rx, tx, handler, locks, todo, in, n, flags, app>>

altera_avalon_jtag_uart_read(t) ==
  \/ ReadStarts(t) \/ ReadCopies(t) \/ ReadAdvances(t)
  \/ FlagPend(t) \/ FlagPendReturns(t) \/ ReadChecks(t) \/ ReadUnlocks(t) \/ ReadReturns(t)

-----------------------------------------------------------------------------
\* altera_avalon_jtag_uart_write of a string.
WriteStarts(t) ==
  /\ At(t, "idle")
  /\ \E s \in Strings : todo' = [todo EXCEPT ![t] = s]
  /\ write_lock' = Pend(write_lock, t)
  /\ Goto(t, IF write_lock = NoTask THEN "look" ELSE "lock")
  /\ UNCHANGED <<uart, state, rx, tx, handler, read_lock, in, n, got, flags, app>>

\* What fits at once, up to the end of the buffer, one place being left free.
Room_All == IF tx_in < tx_out THEN tx_out - 1 - tx_in ELSE BufLen - tx_in
Room == IF tx_in < tx_out THEN tx_out - 1 - tx_in
        ELSE IF tx_out > 0 THEN BufLen - tx_in ELSE BufLen - 1 - tx_in
WriteCopies(t) ==
  LET m == IF Room > Len(todo[t]) THEN Len(todo[t]) ELSE Room IN
  /\ At(t, "look")
  /\ n' = [n EXCEPT ![t] = m]
  /\ tx_buf' = [i \in 0 .. BufLen - 1 |-> IF i \in tx_in .. tx_in + m - 1
                                          THEN todo[t][i - tx_in + 1] ELSE tx_buf[i]]
  /\ Goto(t, IF m > 0 THEN "advance" ELSE "kick")
  /\ UNCHANGED <<uart, state, rx, tx_in, tx_out, handler, locks, todo, in, got, flags, app>>

WriteAdvances(t) ==
  /\ At(t, "advance")
  /\ tx_in' = Forward(tx_in, n[t])
  /\ todo' = [todo EXCEPT ![t] = SubSeq(@, n[t] + 1, Len(@))]
  /\ n' = [n EXCEPT ![t] = 0]
  /\ Goto(t, IF n[t] = Len(todo[t]) THEN "kick" ELSE "look")
  /\ UNCHANGED <<uart, state, rx, tx_out, tx_buf, handler, locks, in, got,
                 flags, app>>

WriteKicks(t) ==
  /\ At(t, "kick")
  /\ Enable("WE")
  /\ Goto(t, IF todo[t] = <<>> \/ t \in Nonblocking THEN "unlock" ELSE "pend")
  /\ UNCHANGED <<rx, tx, handler, locks, locals, flags, app>>

\* Awake after a second of silence: the host is taken to be gone.
WriteChecks(t) ==
  /\ At(t, "check")
  /\ Goto(t, IF host_inactive # 0 THEN "unlock" ELSE "look")
  /\ UNCHANGED <<uart, state, rx, tx, handler, locks, locals, flags, app>>

WriteReturns(t) ==
  /\ At(t, "unlock")
  /\ write_lock' = Heir(Writers)
  /\ todo' = [todo EXCEPT ![t] = <<>>]
  /\ Leave(t, Writers, "idle")
  /\ UNCHANGED <<uart, state, rx, tx, handler, read_lock, in, n, got, flags, app>>

altera_avalon_jtag_uart_write(t) ==
  \/ WriteStarts(t) \/ WriteCopies(t) \/ WriteAdvances(t) \/ WriteKicks(t)
  \/ FlagPend(t) \/ FlagPendReturns(t) \/ WriteChecks(t) \/ WriteReturns(t)

-----------------------------------------------------------------------------
\* altera_avalon_jtag_uart_close, which takes no lock; it returns at once if the
\* file is open with O_NONBLOCK.
CloseStarts(t) ==
  /\ At(t, "idle") /\ t \notin Nonblocking
  /\ Goto(t, "close")
  /\ UNCHANGED <<uart, state, rx, tx, handler, locks, locals, flags, app>>
CloseReturns(t) ==
  /\ At(t, "close") /\ (tx_out = tx_in \/ host_inactive >= timeout)
  /\ Goto(t, "idle")
  /\ UNCHANGED <<uart, state, rx, tx, handler, locks, locals, flags, app>>

\* altera_avalon_jtag_uart_ioctl with TIOCSTIMEOUT, by a task without a call.
altera_avalon_jtag_uart_ioctl ==
  /\ \E t \in Tasks : At(t, "idle")
  /\ timeout' \in Timeouts
  /\ UNCHANGED <<uart, irq_enable, host_inactive, events, rx, tx, handler, locks, pc,
                 locals, flags, app>>

Host == HostTakes \/ HostSends \/ HostPolls
Calls(t) == \/ t \in Readers /\ altera_avalon_jtag_uart_read(t)
            \/ t \in Writers /\ (altera_avalon_jtag_uart_write(t) \/ CloseStarts(t) \/ CloseReturns(t))
Next == \/ Host \/ InterruptHandler \/ altera_avalon_jtag_uart_timeout \/ altera_avalon_jtag_uart_ioctl
        \/ \E t \in Tasks : Calls(t)

\* Interrupts leave time for tasks and ticks, every task gets the processor, and
\* a host that shows itself again and again takes what the UART has for it.
Runs(t) == pc[t] # "idle" /\ Calls(t)
Fairness == /\ WF_vars(InterruptHandler) /\ SF_vars(altera_avalon_jtag_uart_timeout)
            /\ <>[]~ac \/ SF_vars(HostTakes)
            /\ \A t \in Tasks : SF_vars(Runs(t))
Spec == Init /\ [][Next]_vars /\ Fairness

-----------------------------------------------------------------------------
Places == {"idle", "lock", "look", "advance", "kick", "pend", "wait", "check",
           "unlock", "enable", "close"}
Ring(buf, from, to) == [i \in 1 .. (to + BufLen - from) % BufLen |-> buf[Forward(from, i - 1)]]

\* The types of the UART's state, of the buffers and of the calls, and the room
\* the FIFOs have for what the handler is about to put there.
UartOK ==
  /\ app \in Apps /\ timeout \in Timeouts /\ host_inactive \in Nat
  /\ rxFifo \in Seq(Chars) /\ Len(rxFifo) <= Depth
  /\ txFifo \in Seq(Chars) /\ space \in Nat /\ Len(txFifo) + space <= Depth
  /\ control \subseteq {"RE", "WE"} /\ irq_enable = control /\ ac \in BOOLEAN
  /\ events \subseteq {"READ_RDY", "WRITE_RDY", "TIMEOUT"}
  /\ isr \in {"off", "check", "rx", "tx"} /\ wi \in BOOLEAN /\ ravail \in BOOLEAN
RingsOK ==
  /\ rx_in \in 0 .. BufLen - 1 /\ rx_out \in 0 .. BufLen - 1
  /\ tx_in \in 0 .. BufLen - 1 /\ tx_out \in 0 .. BufLen - 1
  /\ rx_buf \in [0 .. BufLen - 1 -> Chars] /\ tx_buf \in [0 .. BufLen - 1 -> Chars]
CallsOK ==
  /\ pc \in [Tasks -> Places] /\ flags \in [Tasks -> SUBSET {"READ_RDY", "WRITE_RDY", "TIMEOUT"}]
  /\ todo \in [Tasks -> Seq(Chars)] /\ got \in [Tasks -> Seq(Chars)]
  /\ in \in [Tasks -> Nat] /\ n \in [Tasks -> 0 .. BufLen - 1]
  /\ \A t \in Tasks : Len(got[t]) <= Space

\* A task is past a lock exactly while it has it.
LocksOK ==
  /\ read_lock \in Readers \cup {NoTask} /\ write_lock \in Writers \cup {NoTask}
  /\ \A t \in Readers : pc[t] \notin {"idle", "lock", "enable"} <=> read_lock = t
  /\ \A t \in Writers : pc[t] \notin {"idle", "lock", "close"} <=> write_lock = t
TypeOK == UartOK /\ RingsOK /\ CallsOK /\ LocksOK

\* The two rings and the two FIFOs are one line of characters each way: none is
\* lost, doubled or overtaken between the interrupt handler and the tasks, and
\* no call's characters come between those of another.
Device == INSTANCE CharacterDevice WITH
            toHost <- txFifo \o Ring(tx_buf, tx_out, tx_in),
            fromHost <- Ring(rx_buf, rx_out, rx_in) \o rxFifo,
            writer <- write_lock, reader <- read_lock,
            got <- [t \in Tasks |-> IF t \in Readers /\ pc[t] = "advance"
                                    THEN SubSeq(got[t], 1, Len(got[t]) - n[t]) ELSE got[t]]
ImplementsDevice == Device!Spec

\* An interrupt that is off stays off only while it has nothing to do or a task
\* is about to turn it on: no character is left behind.
NeverStalled ==
  /\ tx_in # tx_out => "WE" \in control \/ \E t \in Writers : pc[t] \in {"look", "advance", "kick"}
  /\ ~Full => "RE" \in control \/ \E t \in Readers : got[t] # <<>>

\* A blocking write ends, whether the host takes characters, falls silent or comes
\* and goes, and whoever else writes; a read ends once there are characters; a
\* close ends unless others write.
CallsReturn ==
  /\ \A t \in Writers \ Nonblocking : pc[t] # "idle" ~>
       pc[t] = "idle" \/ (pc[t] = "close" /\ \E u \in Writers \ {t} : pc[u] # "idle")
  /\ \A t \in Readers \ Nonblocking :
       pc[t] # "idle" /\ rxFifo \o Ring(rx_buf, rx_out, rx_in) # <<>> ~> pc[t] = "idle"
=============================================================================
