------------------------------ MODULE UCOSCore ------------------------------
(***************************************************************************)
(* The kernel data of uC/OS-II as it is configured for lab 5 (ucos_ii.h),  *)
(* and os_core.c: the scheduler, interrupts, the clock tick and the steps  *)
(* that make a task wait for an event and ready again.                     *)
(*                                                                         *)
(* OSRdyTbl and every OSEventTbl are bit maps indexed by priority; they    *)
(* are sets of priorities here, and OSRdyGrp and OSEventGrp, which say     *)
(* which rows are not empty, follow from them.  OSTCBY, OSTCBX, OSTCBBitY  *)
(* and OSTCBBitX are OSTCBPrio taken apart.                                *)
(*                                                                         *)
(* The kernel runs with interrupts disabled between OS_ENTER_CRITICAL and  *)
(* OS_EXIT_CRITICAL, so a critical section is one action.  A service       *)
(* changes the tables in one, leaves it, and calls OS_Sched, whose own     *)
(* critical section is the action OS_Sched here; a service that blocks has *)
(* a third one when its task runs again.  Interrupts come in between.      *)
(***************************************************************************)
EXTENDS Naturals, FiniteSets, Sequences

CONSTANTS
  Tasks,      \* the task control blocks (OS_MAX_TASKS)
  Idle,       \* the idle task's control block
  Prios,      \* the priorities of tasks and mutexes; 0 is the most urgent
  IdlePrio,   \* OS_TASK_IDLE_PRIO, the lowest priority
  Events,     \* the event control blocks (OS_MAX_EVENTS)
  Messages,   \* what is sent through mailboxes and queues
  NULL,       \* the null pointer
  RESERVED,   \* OS_TCB_RESERVED, the mark on a mutex's priority
  QSize,      \* the size of every message queue
  MaxCnt,     \* the largest semaphore count, 65535 in the code
  Flags       \* the bits of the event flag group

TCBs == Tasks \cup {Idle}
Available == 255                     \* OS_MUTEX_AVAILABLE
StatBits == {"SEM", "MBOX", "Q", "SUSPEND", "MUTEX", "FLAG", "MULTI"}
PendAny == {"SEM", "MBOX", "Q", "MUTEX", "FLAG"}           \* OS_STAT_PEND_ANY
PendStats == {"OK", "TO", "ABORT"}
EventTypes == {"UNUSED", "SEM", "MBOX", "Q", "MUTEX"}
WaitTypes == {"SET_ALL", "SET_ANY", "CLR_ALL", "CLR_ANY"}

ASSUME KernelAssumption ==
  /\ Idle \notin Tasks
  /\ Prios \subseteq Nat \ {Available} /\ IdlePrio \in Nat \ {Available}
  /\ \A p \in Prios : p < IdlePrio
  /\ QSize \in Nat \ {0} /\ MaxCnt \in Nat \ {0}
  /\ NULL \notin TCBs \cup Messages \cup Events \cup Prios
  /\ RESERVED \notin TCBs \cup {NULL}

VARIABLES
  OSTCBPrio, OSTCBPrioTbl,                                   \* priorities
  OSTCBStat, OSTCBStatPend, OSTCBDly, OSTCBMsg,              \* OS_TCB
  OSTCBEventPtr, OSTCBEventMultiPtr,
  OSRdyTbl, OSEventTbl,                                      \* bit maps
  OSTCBCur, OSPrioCur, OSIntNesting, OSLockNesting,          \* the processor
  inCall,     \* the pending call a task is in, which says how it resumes
  toSched,    \* the tasks between OS_EXIT_CRITICAL and OS_Sched of a call
  creating,   \* the priority OSTaskCreate has reserved so far
  OSEventType, OSEventCnt, OSEventPtr, OSMutexPIP,           \* OS_EVENT
  OSQTbl, OSQIn, OSQOut, OSQEntries,                         \* OS_Q
  OSFlagType, OSFlagFlags, OSFlagWaitList,                   \* OS_FLAG_GRP
  node, OSTCBFlagsRdy,                                       \* OS_FLAG_NODE
  inside,     \* the tasks that have been told they own a mutex
  owed,       \* a post with OS_POST_OPT_NO_SCHED has left the scheduling open
  app         \* the tasks, event control blocks and services of this application

prios == <<OSTCBPrio, OSTCBPrioTbl>>
tcb == <<OSTCBStat, OSTCBStatPend, OSTCBDly, OSTCBMsg, OSTCBEventPtr, OSTCBEventMultiPtr>>
processor == <<OSTCBCur, OSPrioCur, OSIntNesting, OSLockNesting>>
calls == <<inCall, toSched, creating>>
ecb == <<OSEventType, OSEventCnt, OSEventPtr, OSMutexPIP>>
queue == <<OSQTbl, OSQIn, OSQOut, OSQEntries>>
flag == <<OSFlagType, OSFlagFlags, OSFlagWaitList, node, OSTCBFlagsRdy>>
client == <<inside, owed, app>>
kernel == <<prios, tcb, OSRdyTbl, OSEventTbl, processor, calls, ecb, queue, flag, client>>

NoNode == [flags |-> {}, wait |-> "SET_ALL", consume |-> FALSE]

\* OSInit, the creation of the application's tasks by main and OSStart: the first
\* task to run is the one with the most urgent priority.  base gives each its own.
Boot(base, apps) ==
  /\ app \in apps
  /\ OSTCBPrio = [t \in TCBs |-> IF t = Idle THEN IdlePrio ELSE base[t]]
  /\ LET created == (Tasks \cap app) \cup {Idle} IN
     /\ OSTCBPrioTbl = [p \in Prios \cup {IdlePrio} |->
                          IF \E t \in created : OSTCBPrio[t] = p
                          THEN CHOOSE t \in created : OSTCBPrio[t] = p ELSE NULL]
     /\ OSRdyTbl = {OSTCBPrio[t] : t \in created}
  /\ OSTCBStat = [t \in TCBs |-> {}] /\ OSTCBStatPend = [t \in TCBs |-> "OK"]
  /\ OSTCBDly = [t \in TCBs |-> 0] /\ OSTCBMsg = [t \in TCBs |-> NULL]
  /\ OSTCBEventPtr = [t \in TCBs |-> NULL]
  /\ OSTCBEventMultiPtr = [t \in TCBs |-> {}]
  /\ OSPrioCur \in OSRdyTbl /\ \A p \in OSRdyTbl : OSPrioCur <= p
  /\ OSTCBCur = OSTCBPrioTbl[OSPrioCur]
  /\ OSIntNesting = 0 /\ OSLockNesting = 0
  /\ inCall = [t \in TCBs |-> "none"] /\ toSched = {}
  /\ creating = [t \in TCBs |-> NULL]
  /\ OSEventType = [e \in Events |-> "UNUSED"] /\ OSEventCnt = [e \in Events |-> 0]
  /\ OSEventPtr = [e \in Events |-> NULL] /\ OSMutexPIP = [e \in Events |-> NULL]
  /\ OSEventTbl = [e \in Events |-> {}]
  /\ OSQTbl = [e \in Events |-> [i \in 0 .. QSize - 1 |-> NULL]]
  /\ OSQIn = [e \in Events |-> 0] /\ OSQOut = [e \in Events |-> 0]
  /\ OSQEntries = [e \in Events |-> 0]
  /\ OSFlagType = "UNUSED" /\ OSFlagFlags = {} /\ OSFlagWaitList = {}
  /\ node = [t \in TCBs |-> NoNode] /\ OSTCBFlagsRdy = [t \in TCBs |-> {}]
  /\ inside = [e \in Events |-> {}] /\ owed = FALSE

-----------------------------------------------------------------------------
Live == {t \in Tasks : OSTCBPrioTbl[OSTCBPrio[t]] = t}
Highest(S) == CHOOSE p \in S : \A q \in S : p <= q

\* Who may call the kernel: the handler of an interrupt, or the running task
\* when it is not inside a call; the idle task makes no calls.
TaskLevel == /\ OSIntNesting = 0 /\ OSTCBCur # Idle /\ OSTCBCur \notin toSched
             /\ inCall[OSTCBCur] = "none" /\ creating[OSTCBCur] = NULL
AnyLevel == OSIntNesting = 1 \/ TaskLevel

\* The end of a service that calls OS_Sched.  In an interrupt OS_Sched does
\* nothing, since OSIntNesting is not zero.
ThenSched == /\ toSched' = IF OSIntNesting = 0 THEN toSched \cup {OSTCBCur} ELSE toSched
             /\ UNCHANGED <<inCall, creating>>

-----------------------------------------------------------------------------
\* OS_SchedNew and the switch: no switch when the priority is the current one.
Dispatch_OnlyUp ==
  /\ owed' = FALSE
  /\ IF Highest(OSRdyTbl) < OSPrioCur
     THEN /\ OSPrioCur' = Highest(OSRdyTbl)
          /\ OSTCBCur' = OSTCBPrioTbl[Highest(OSRdyTbl)]
     ELSE UNCHANGED <<OSPrioCur, OSTCBCur>>

Dispatch ==
  /\ owed' = FALSE
  /\ IF Highest(OSRdyTbl) # OSPrioCur
     THEN /\ OSPrioCur' = Highest(OSRdyTbl)
          /\ OSTCBCur' = OSTCBPrioTbl[Highest(OSRdyTbl)]
     ELSE UNCHANGED <<OSPrioCur, OSTCBCur>>

DispatchUnlessLocked ==
  IF OSLockNesting = 0 THEN Dispatch ELSE UNCHANGED <<OSPrioCur, OSTCBCur, owed>>

OS_Sched ==
  /\ OSIntNesting = 0 /\ OSTCBCur \in toSched
  /\ toSched' = toSched \ {OSTCBCur}
  /\ DispatchUnlessLocked
  /\ UNCHANGED <<prios, tcb, OSRdyTbl, OSEventTbl, OSIntNesting, OSLockNesting,
                 inCall, creating, ecb, queue, flag, inside, app>>

OSIntEnter ==
  /\ OSIntNesting = 0
  /\ OSIntNesting' = 1
  /\ UNCHANGED <<prios, tcb, OSRdyTbl, OSEventTbl, OSTCBCur, OSPrioCur, OSLockNesting,
                 calls, ecb, queue, flag, client>>

OSIntExit ==
  /\ OSIntNesting = 1
  /\ OSIntNesting' = 0
  /\ DispatchUnlessLocked
  /\ UNCHANGED <<prios, tcb, OSRdyTbl, OSEventTbl, OSLockNesting, calls, ecb, queue, flag,
                 inside, app>>

OSSchedLock(max) ==
  /\ TaskLevel /\ OSLockNesting < max
  /\ OSLockNesting' = OSLockNesting + 1
  /\ UNCHANGED <<prios, tcb, OSRdyTbl, OSEventTbl, OSTCBCur, OSPrioCur, OSIntNesting,
                 calls, ecb, queue, flag, client>>

OSSchedUnlock ==
  /\ TaskLevel /\ OSLockNesting > 0
  /\ OSLockNesting' = OSLockNesting - 1
  /\ IF OSLockNesting = 1 THEN ThenSched ELSE UNCHANGED calls
  /\ UNCHANGED <<prios, tcb, OSRdyTbl, OSEventTbl, OSTCBCur, OSPrioCur, OSIntNesting,
                 ecb, queue, flag, client>>

-----------------------------------------------------------------------------
\* The priorities of the tasks of W that are not suspended.
Released_Suspended(W) == {OSTCBPrio[t] : t \in W}
Released(W) == {OSTCBPrio[t] : t \in {w \in W : "SUSPEND" \notin OSTCBStat[w]}}

\* The waits of the tasks of W are over, because time has run out.
DelayOver(W) ==
  /\ OSTCBStat' = [t \in TCBs |-> IF t \in W THEN OSTCBStat[t] \ PendAny ELSE OSTCBStat[t]]
  /\ OSTCBStatPend' = [t \in TCBs |-> IF t \notin W THEN OSTCBStatPend[t]
                                      ELSE IF OSTCBStat[t] \cap PendAny # {} THEN "TO" ELSE "OK"]
  /\ OSRdyTbl' = OSRdyTbl \cup Released(W)

\* The tick, in its interrupt: every delay counts down.  A task whose wait
\* times out stays in the wait list until it runs.
OSTimeTick ==
  /\ OSIntNesting = 1
  /\ OSTCBDly' = [t \in TCBs |-> IF t \in Live /\ OSTCBDly[t] # 0
                                 THEN OSTCBDly[t] - 1 ELSE OSTCBDly[t]]
  /\ DelayOver({t \in Live : OSTCBDly[t] = 1})
  /\ UNCHANGED <<prios, OSTCBMsg, OSTCBEventPtr, OSTCBEventMultiPtr, OSEventTbl, processor,
                 calls, ecb, queue, flag, client>>

-----------------------------------------------------------------------------
Waiters(e) == {OSTCBPrioTbl[p] : p \in OSEventTbl[e]}
First(e) == {OSTCBPrioTbl[Highest(OSEventTbl[e])]}

\* OS_EventTaskRdy for the tasks of W, which wait for e: they leave every wait
\* list they are in.  The caller adds Released(W) to the ready table.
OS_EventTaskRdy(e, W, msg, stat, pend) ==
  /\ OSTCBDly' = [t \in TCBs |-> IF t \in W THEN 0 ELSE OSTCBDly[t]]
  /\ OSTCBMsg' = [t \in TCBs |-> IF t \in W THEN msg ELSE OSTCBMsg[t]]
  /\ OSTCBStat' = [t \in TCBs |-> IF t \in W THEN OSTCBStat[t] \ {stat} ELSE OSTCBStat[t]]
  /\ OSTCBStatPend' = [t \in TCBs |-> IF t \in W THEN pend ELSE OSTCBStatPend[t]]
  /\ OSEventTbl' = [f \in Events |-> OSEventTbl[f] \
       {OSTCBPrio[t] : t \in {w \in W : f = e \/ f \in OSTCBEventMultiPtr[w]}}]
  /\ OSTCBEventPtr' = [t \in TCBs |-> IF t \in W /\ OSTCBEventMultiPtr[t] # {}
                                      THEN e ELSE OSTCBEventPtr[t]]
  /\ UNCHANGED OSTCBEventMultiPtr

\* OS_EventTaskWait and OS_EventTaskWaitMulti: the running task joins the wait
\* lists tbl of the events of E; its caller takes it out of the ready table.
Block(E, tbl, stat, timeout, call) ==
  /\ OSTCBStat' = [OSTCBStat EXCEPT ![OSTCBCur] = @ \cup stat]
  /\ OSTCBStatPend' = [OSTCBStatPend EXCEPT ![OSTCBCur] = "OK"]
  /\ OSTCBDly' = [OSTCBDly EXCEPT ![OSTCBCur] = timeout]
  /\ OSEventTbl' = [e \in Events |-> IF e \in E THEN tbl[e] \cup {OSTCBPrio[OSTCBCur]}
                                     ELSE tbl[e]]
  /\ inCall' = [inCall EXCEPT ![OSTCBCur] = call]
  /\ toSched' = toSched \cup {OSTCBCur}
  /\ UNCHANGED <<OSTCBMsg, creating>>

Wait(e, tbl, stat, timeout) ==
  /\ Block({e}, tbl, {stat}, timeout, stat)
  /\ OSTCBEventPtr' = [OSTCBEventPtr EXCEPT ![OSTCBCur] = e]
  /\ UNCHANGED OSTCBEventMultiPtr

\* The last critical section of OSSemPend, OSMutexPend, OSMboxPend and OSQPend.
Resumes(call) == /\ OSIntNesting = 0 /\ OSTCBCur \notin toSched
                 /\ inCall[OSTCBCur] = call

Return(left) ==
  /\ OSEventTbl' = [e \in Events |-> IF e \in left THEN OSEventTbl[e] \ {OSTCBPrio[OSTCBCur]}
                                     ELSE OSEventTbl[e]]
  /\ OSTCBStat' = [OSTCBStat EXCEPT ![OSTCBCur] = {}]
  /\ OSTCBStatPend' = [OSTCBStatPend EXCEPT ![OSTCBCur] = "OK"]
  /\ OSTCBEventPtr' = [OSTCBEventPtr EXCEPT ![OSTCBCur] = NULL]
  /\ OSTCBEventMultiPtr' = [OSTCBEventMultiPtr EXCEPT ![OSTCBCur] = {}]
  /\ inCall' = [inCall EXCEPT ![OSTCBCur] = "none"]
  /\ UNCHANGED <<OSTCBDly, toSched, creating>>

PendReturns_KeepsBit(call) ==
  /\ Resumes(call)
  /\ Return({})
  /\ OSTCBMsg' = IF call \in {"MBOX", "Q"} THEN [OSTCBMsg EXCEPT ![OSTCBCur] = NULL]
                 ELSE OSTCBMsg
  /\ UNCHANGED <<prios, OSRdyTbl, processor, ecb, queue, flag, owed, app>>

PendReturns(call) ==
  /\ Resumes(call)
  /\ Return(IF OSTCBStatPend[OSTCBCur] = "TO" THEN {OSTCBEventPtr[OSTCBCur]} ELSE {})
  /\ OSTCBMsg' = IF call \in {"MBOX", "Q"} THEN [OSTCBMsg EXCEPT ![OSTCBCur] = NULL]
                 ELSE OSTCBMsg
  /\ UNCHANGED <<prios, OSRdyTbl, processor, ecb, queue, flag, owed, app>>

-----------------------------------------------------------------------------
\* An event control block is taken from the free list; interrupts may not.
Create(e, type) ==
  /\ TaskLevel /\ OSEventType[e] = "UNUSED"
  /\ OSEventType' = [OSEventType EXCEPT ![e] = type]
  /\ OSEventTbl' = [OSEventTbl EXCEPT ![e] = {}]

\* A delete call readies every waiter with OS_DEL_ALWAYS, as if it were
\* served; with OS_DEL_NO_PEND it fails unless there is none.
Delete(e, type) ==
  /\ TaskLevel /\ OSEventType[e] = type
  /\ OSEventType' = [OSEventType EXCEPT ![e] = "UNUSED"]
  /\ OSEventCnt' = [OSEventCnt EXCEPT ![e] = 0]
  /\ OSEventPtr' = [OSEventPtr EXCEPT ![e] = NULL]
  /\ OS_EventTaskRdy(e, Waiters(e), NULL, type, "OK")
  /\ IF OSEventTbl[e] # {} THEN ThenSched ELSE UNCHANGED calls

\* OSSemPendAbort, OSMboxPendAbort and OSQPendAbort: one waiter or all.
PendAbort(e, type) ==
  /\ AnyLevel /\ OSEventType[e] = type /\ OSEventTbl[e] # {}
  /\ \E W \in {First(e), Waiters(e)} :
       /\ OS_EventTaskRdy(e, W, NULL, type, "ABORT")
       /\ OSRdyTbl' = OSRdyTbl \cup Released(W)
  /\ ThenSched
  /\ UNCHANGED <<prios, processor, ecb, queue, flag, client>>

-----------------------------------------------------------------------------
\* What OSEventPendMulti waits for: the first of several semaphores, mailboxes and
\* queues.  Events that are ready are all taken.
Full(e) == \/ OSEventType[e] = "SEM" /\ OSEventCnt[e] > 0
           \/ OSEventType[e] = "MBOX" /\ OSEventPtr[e] # NULL
           \/ OSEventType[e] = "Q" /\ OSQEntries[e] > 0

OSEventPendMulti(E, timeout) ==
  LET ready == {e \in E : Full(e)}
      of(type) == {e \in ready : OSEventType[e] = type}
  IN
  /\ TaskLevel /\ OSLockNesting = 0
  /\ E # {} /\ \A e \in E : OSEventType[e] \in {"SEM", "MBOX", "Q"}
  /\ \/ /\ ready # {}
        /\ OSEventCnt' = [e \in Events |-> IF e \in of("SEM") THEN OSEventCnt[e] - 1
                                           ELSE OSEventCnt[e]]
        /\ OSEventPtr' = [e \in Events |-> IF e \in of("MBOX") THEN NULL ELSE OSEventPtr[e]]
        /\ OSQOut' = [e \in Events |-> IF e \in of("Q") THEN (OSQOut[e] + 1) % QSize
                                       ELSE OSQOut[e]]
        /\ OSQEntries' = [e \in Events |-> IF e \in of("Q") THEN OSQEntries[e] - 1
                                           ELSE OSQEntries[e]]
        /\ UNCHANGED <<tcb, OSRdyTbl, OSEventTbl, calls>>
     \/ /\ ready = {}
        /\ Block(E, OSEventTbl, {OSEventType[e] : e \in E} \cup {"MULTI"}, timeout, "MULTI")
        /\ OSTCBEventPtr' = [OSTCBEventPtr EXCEPT ![OSTCBCur] = NULL]
        /\ OSTCBEventMultiPtr' = [OSTCBEventMultiPtr EXCEPT ![OSTCBCur] = E]
        /\ OSRdyTbl' = OSRdyTbl \ {OSTCBPrio[OSTCBCur]}
        /\ UNCHANGED <<OSEventCnt, OSEventPtr, OSQOut, OSQEntries>>
  /\ UNCHANGED <<prios, processor, OSEventType, OSMutexPIP, OSQTbl, OSQIn, flag, client>>

\* The event that ended the wait has been deleted since, or by its deletion.
Deleted(t) == /\ OSTCBStatPend[t] = "OK" /\ OSTCBEventPtr[t] # NULL
              /\ OSEventType[OSTCBEventPtr[t]] \notin {"SEM", "MBOX", "Q"}

\* Without an event in OSTCBEventPtr the wait counts as timed out.  For a deleted
\* event the call returns early with an error, and what it has put into the
\* control block stays there: status bits, event pointers and message.
OSEventPendMultiReturns ==
  /\ Resumes("MULTI")
  /\ IF Deleted(OSTCBCur)
     THEN /\ inCall' = [inCall EXCEPT ![OSTCBCur] = "none"]
          /\ UNCHANGED <<tcb, OSEventTbl, toSched, creating>>
     ELSE /\ Return(IF OSTCBStatPend[OSTCBCur] = "TO" \/ OSTCBEventPtr[OSTCBCur] = NULL
                    THEN OSTCBEventMultiPtr[OSTCBCur] ELSE {})
          /\ OSTCBMsg' = [OSTCBMsg EXCEPT ![OSTCBCur] = NULL]
  /\ UNCHANGED <<prios, OSRdyTbl, processor, ecb, queue, flag, client>>
=============================================================================
