----------------------------- MODULE UCOSKernel -----------------------------
(***************************************************************************)
(* uC/OS-II, the kernel under the lab 5 application: tasks and interrupts  *)
(* use its services in any order.  An application is a set of services, of *)
(* tasks and of event control blocks; ApplicationRules says what it may not *)
(* combine.                                                                *)
(***************************************************************************)
EXTENDS UCOSTask, UCOSSem, UCOSMutex, UCOSMbox, UCOSQ, UCOSFlag

CONSTANTS
  Apps,       \* the applications
  Base,       \* the priority main creates each task with
  Pip,        \* the priorities mutexes are created with
  MaxDly,     \* bound on delays and timeouts, in ticks
  MaxLock,    \* bound on OSLockNesting, 255 in the code
  Wants,      \* what tasks wait for in the event flag group
  Changes     \* the sets of flags posted at once

Services == {"SEM", "MUTEX", "MBOX", "Q", "MULTI", "FLAG", "TIMEOUT", "DELAY", "SUSPEND",
             "CHANGE", "TASKS", "LOCK", "DELETE", "ABORT", "SET"}

\* What the kernel does not guard against and an application must not do: change
\* the priority of, suspend or delete a task that may own a mutex, let such a
\* task wait with a timeout for something else, suspend a task that waits for
\* several events, change priorities or delete tasks under a scheduler lock, let
\* time pass there or wait for several events while it may own a mutex, change
\* priorities or wait for flags after a wait for several events that a deletion
\* has ended (OSEventPendMulti then leaves its status bits and pointers behind),
\* or wait for flags to be clear that others want consumed.
ASSUME ApplicationRules ==
  /\ Apps \subseteq SUBSET (Services \cup Tasks \cup Events)
  /\ Services \cap (Tasks \cup Events) = {}
  /\ \A a \in Apps : /\ a \cap {"MUTEX", "LOCK"} # {} => a \cap {"CHANGE", "TASKS"} = {}
                     /\ a \cap {"MUTEX", "MULTI"} # {} => "SUSPEND" \notin a
                     /\ "MUTEX" \in a => "MULTI" \notin a /\ ~({"LOCK", "DELAY"} \subseteq a)
                     /\ {"MULTI", "DELETE"} \subseteq a => a \cap {"CHANGE", "FLAG"} = {}
                     /\ {"MUTEX", "TIMEOUT"} \subseteq a
                          => /\ a \cap {"SEM", "MBOX", "Q", "FLAG"} = {}
                             /\ \A e, f \in a \cap Events : e = f
  /\ Base \in [Tasks -> Prios \ Pip] /\ Pip \subseteq Prios
  /\ \A t, u \in Tasks : t # u => Base[t] # Base[u]
  /\ \A t \in Tasks, p \in Pip : p < Base[t]
  /\ MaxDly \in Nat \ {0} /\ MaxLock \in Nat \ {0}
  /\ Wants \subseteq [flags : SUBSET Flags, wait : {"SET_ALL", "SET_ANY"}, consume : BOOLEAN]
                \cup [flags : SUBSET Flags, wait : WaitTypes, consume : {FALSE}]
  /\ (\E n \in Wants : n.consume) => \A n \in Wants : n.wait \in {"SET_ALL", "SET_ANY"}
  /\ Changes \subseteq SUBSET Flags

Uses(s) == s \in app
InUse == app \cap Events
Slots == IF InUse = {} THEN Prios ELSE Prios \ Pip      \* the priorities tasks may have
Timeouts == IF Uses("TIMEOUT") THEN 0 .. MaxDly ELSE {0}

\* The events in whose wait list t is, and whether it is in one at all.
WaitsIn(t) == {e \in Events : OSTCBPrio[t] \in OSEventTbl[e]}
Listed(t) == WaitsIn(t) # {} \/ t \in OSFlagWaitList

-----------------------------------------------------------------------------
Scheduler ==
  \/ OS_Sched \/ OSIntEnter \/ OSIntExit \/ OSTimeTick
  \/ Uses("LOCK") /\ (OSSchedLock(MaxLock) \/ OSSchedUnlock)

\* A task is not deleted inside OSTaskCreate, and its priority is not changed
\* between the post that serves it and its return: OSTCBEventPtr still points to
\* the event then, and OSTaskChangePrio would put the task in its list again.  No
\* priority is changed in an interrupt: when the running task's goes to another
\* task there, OSIntExit takes that task for the one that runs.
TaskService(p) ==
  \/ Uses("TASKS") /\ (OSTaskCreate(p) \/ (Named(p) /\ creating[OSTCBPrioTbl[p]] = NULL
                                           /\ OSTaskDel(p)))
  \/ Uses("CHANGE") /\ OSIntNesting = 0 /\ Named(p)
                    /\ (inCall[OSTCBPrioTbl[p]] = "none" \/ Listed(OSTCBPrioTbl[p]))
                    /\ \E q \in Slots : OSTaskChangePrio(p, q)
  \/ Uses("SUSPEND") /\ (OSTaskSuspend(p) \/ OSTaskResume(p))
  \/ Uses("DELAY") /\ OSTimeDlyResume(p)

SemService(e) ==
  \/ \E n \in 0 .. MaxCnt : OSSemCreate(e, n) \/ (Uses("SET") /\ OSSemSet(e, n))
  \/ \E n \in Timeouts : OSSemPend(e, n)
  \/ OSSemAccept(e) \/ OSSemPost(e)
  \/ Uses("DELETE") /\ OSSemDel(e)
  \/ Uses("ABORT") /\ OSSemPendAbort(e)

\* A mutex is deleted by its owner or when it is free, and while none waits; its
\* owner does not wait for it again with a timeout, nor for another mutex
\* (os_mutex.c:392 forbids the owner to pend on any other event).
Owned(t) == {e \in Events : OSEventType[e] = "MUTEX" /\ OSEventPtr[e] = t}
MutexService(e) ==
  \/ \E pip \in Pip : OSMutexCreate(e, pip)
  \/ /\ Owned(OSTCBCur) \subseteq {e}
     /\ \/ \E n \in (IF OSEventPtr[e] = OSTCBCur THEN {0} ELSE Timeouts) : OSMutexPend(e, n)
        \/ OSMutexAccept(e)
  \/ OSMutexPost(e)
  \/ /\ Uses("DELETE") /\ OSEventTbl[e] = {}
     /\ \E always \in BOOLEAN :
          /\ OSEventCnt[e] = Available \/ (always /\ OSEventPtr[e] = OSTCBCur)
          /\ OSMutexDel(e, always)

MboxService(e) ==
  \/ \E m \in Messages \cup {NULL} : OSMboxCreate(e, m)
  \/ \E n \in Timeouts : OSMboxPend(e, n)
  \/ OSMboxAccept(e)
  \/ \E m \in Messages : OSMboxPost(e, m)
                         \/ \E broadcast, nosched \in BOOLEAN : OSMboxPostOpt(e, m, broadcast, nosched)
  \/ Uses("DELETE") /\ OSMboxDel(e)
  \/ Uses("ABORT") /\ OSMboxPendAbort(e)

QService(e) ==
  \/ OSQCreate(e) \/ OSQAccept(e) \/ OSQFlush(e)
  \/ \E n \in Timeouts : OSQPend(e, n)
  \/ \E m \in Messages :
       \/ OSQPost(e, m) \/ OSQPostFront(e, m)
       \/ \E front, broadcast, nosched \in BOOLEAN : OSQPostOpt(e, m, front, broadcast, nosched)
  \/ Uses("DELETE") /\ OSQDel(e)
  \/ Uses("ABORT") /\ OSQPendAbort(e)

FlagService ==
  \/ \E flags \in Changes : OSFlagCreate(flags) \/ OSFlagPost(flags, TRUE) \/ OSFlagPost(flags, FALSE)
  \/ \E n \in Wants : OSFlagAccept(n) \/ \E k \in Timeouts : OSFlagPend(n, k)
  \/ Uses("DELETE") /\ \E always \in BOOLEAN : OSFlagDel(always)

\* A call that was blocked or preempted goes on when its task runs again.
Continue == \/ OS_TCBInit \/ OSSemPendReturns \/ OSMutexPendReturns \/ OSMboxPendReturns
            \/ OSQPendReturns \/ OSEventPendMultiReturns \/ OSFlagPendReturns

Init == Boot(Base, Apps)
Next ==
  \/ Scheduler \/ Continue
  \/ \E p \in Slots : TaskService(p)
  \/ \E e \in InUse : \/ Uses("SEM") /\ SemService(e)
                      \/ Uses("MUTEX") /\ MutexService(e)
                      \/ Uses("MBOX") /\ MboxService(e)
                      \/ Uses("Q") /\ QService(e)
  \/ Uses("MULTI") /\ \E E \in SUBSET InUse, n \in Timeouts : OSEventPendMulti(E, n)
  \/ Uses("FLAG") /\ FlagService
  \/ Uses("DELAY") /\ \E n \in 1 .. MaxDly : OSTimeDly(n)
Spec == Init /\ [][Next]_kernel

-----------------------------------------------------------------------------
\* Every variable keeps its type.
TypeOK ==
  /\ OSTCBPrio \in [TCBs -> Prios \cup {IdlePrio}]
  /\ OSTCBPrioTbl \in [Prios \cup {IdlePrio} -> TCBs \cup {NULL, RESERVED}]
  /\ OSTCBStat \in [TCBs -> SUBSET StatBits] /\ OSTCBStatPend \in [TCBs -> PendStats]
  /\ OSTCBDly \in [TCBs -> Nat] /\ OSTCBMsg \in [TCBs -> Messages \cup {NULL}]
  /\ OSTCBEventPtr \in [TCBs -> Events \cup {NULL}]
  /\ OSTCBEventMultiPtr \in [TCBs -> SUBSET Events]
  /\ OSRdyTbl \subseteq Prios \cup {IdlePrio} /\ IdlePrio \in OSRdyTbl
  /\ OSEventTbl \in [Events -> SUBSET Prios]
  /\ OSTCBCur \in TCBs /\ OSPrioCur \in Prios \cup {IdlePrio}
  /\ OSIntNesting \in {0, 1} /\ OSLockNesting \in 0 .. MaxLock
  /\ inCall \in [TCBs -> {"none", "SEM", "MUTEX", "MBOX", "Q", "FLAG", "MULTI"}]
  /\ toSched \subseteq TCBs /\ creating \in [TCBs -> Prios \cup {NULL}]
  /\ OSEventType \in [Events -> EventTypes] /\ OSEventCnt \in [Events -> Nat]
  /\ OSEventPtr \in [Events -> Tasks \cup Messages \cup {NULL}]
  /\ OSMutexPIP \in [Events -> Pip \cup {NULL}]
  /\ OSQTbl \in [Events -> [0 .. QSize - 1 -> Messages \cup {NULL}]]
  /\ OSQIn \in [Events -> 0 .. QSize - 1] /\ OSQOut \in [Events -> 0 .. QSize - 1]
  /\ OSQEntries \in [Events -> 0 .. QSize]
  /\ OSFlagType \in {"UNUSED", "FLAG"} /\ OSFlagFlags \subseteq Flags
  /\ OSFlagWaitList \subseteq Tasks /\ OSTCBFlagsRdy \in [TCBs -> SUBSET Flags]
  /\ node \in [TCBs -> [flags : SUBSET Flags, wait : WaitTypes, consume : BOOLEAN]]
  /\ inside \in [Events -> SUBSET Tasks] /\ owed \in BOOLEAN /\ app \in Apps

\* A task is waiting while it is in a list, until its time has run out.
Waiting(t) == Listed(t) /\ OSTCBStatPend[t] # "TO"

\* The ready table holds the tasks that are not suspended, do not let time pass
\* and wait for nothing, and no one else: no task is forgotten.
TablesAgree ==
  /\ \A t \in Live : OSTCBPrio[t] \in OSRdyTbl
                     <=> ("SUSPEND" \notin OSTCBStat[t] /\ OSTCBDly[t] = 0 /\ ~Waiting(t))
  /\ \A p \in OSRdyTbl : p = IdlePrio \/ \E t \in Live : OSTCBPrio[t] = p

\* Every wait list holds the tasks blocked in a call for that event, under
\* their present priority: one that must be woken is found.
WaitListsAgree ==
  /\ \A e \in Events : \A p \in OSEventTbl[e] :
       /\ OSTCBPrioTbl[p] \in Live /\ OSTCBPrio[OSTCBPrioTbl[p]] = p
       /\ e = OSTCBEventPtr[OSTCBPrioTbl[p]] \/ e \in OSTCBEventMultiPtr[OSTCBPrioTbl[p]]
       /\ inCall[OSTCBPrioTbl[p]] \in {OSEventType[e], "MULTI"}
  /\ \A t \in Live :
       /\ inCall[t] \in {"SEM", "MUTEX", "MBOX", "Q"} /\ inCall[t] \in OSTCBStat[t]
            => WaitsIn(t) = {OSTCBEventPtr[t]}
       /\ inCall[t] = "MULTI" /\ OSTCBEventPtr[t] = NULL => WaitsIn(t) = OSTCBEventMultiPtr[t]
       /\ "FLAG" \in OSTCBStat[t] => t \in OSFlagWaitList

\* A task runs that was lowered by OSMutexPost or OSMutexDel without a waiter,
\* which do not call OS_Sched: it goes on until the scheduler is next called.
Demoted == OSPrioCur < OSTCBPrio[OSTCBCur] /\ OSPrioCur \in Pip

\* Outside interrupts, scheduler locks and the last step of a service the most
\* urgent ready task runs.
MostUrgentRuns ==
  /\ OSIntNesting = 0 /\ OSLockNesting = 0 /\ OSTCBCur \notin toSched /\ ~owed
  => OSTCBCur = OSTCBPrioTbl[Highest(OSRdyTbl)] \/ Demoted

\* What an event holds, and what a task has been given and has yet to take.
Unit == "unit"
Queued(e) == [i \in 1 .. OSQEntries[e] |-> OSQTbl[e][(OSQOut[e] + i - 1) % QSize]]
Line(e) ==
  IF OSEventType[e] = "SEM" THEN [i \in 1 .. OSEventCnt[e] |-> Unit]
  ELSE IF OSEventType[e] = "MUTEX" THEN IF OSEventCnt[e] = Available THEN <<Unit>> ELSE <<>>
  ELSE IF OSEventType[e] = "MBOX" THEN IF OSEventPtr[e] = NULL THEN <<>> ELSE <<OSEventPtr[e]>>
  ELSE IF OSEventType[e] = "Q" THEN Queued(e)
  ELSE <<>>
Served(t) == /\ inCall[t] \notin {"none", "FLAG"} /\ OSTCBStatPend[t] = "OK"
             /\ t \in Live /\ WaitsIn(t) = {}
Hand(t) == IF ~Served(t) THEN NULL
           ELSE IF inCall[t] \in {"MBOX", "Q"} THEN OSTCBMsg[t]
           ELSE IF inCall[t] = "MULTI" /\ OSTCBMsg[t] # NULL THEN OSTCBMsg[t] ELSE Unit

\* No task waits for what is there: no unit, message or flag beside a waiter
\* whose wait has not run out.
NoneWaitsInVain ==
  /\ \A e \in Events : Line(e) # <<>> => OSEventTbl[e] = {}
  /\ \A t \in OSFlagWaitList : ~Satisfied(OSFlagFlags, node[t])

\* The owner of a mutex is at least as urgent as every task that waits for it.
OwnerIsUrgent ==
  \A e \in Events : OSEventType[e] = "MUTEX" /\ OSEventPtr[e] # NULL =>
    \A p \in OSEventTbl[e] : OSTCBPrio[OSEventPtr[e]] <= p

\* Only the owner of a mutex has been told that it has it.
MutualExclusion == \A e \in Events : inside[e] \subseteq {OSEventPtr[e]}

\* A priority names the task that has it or, for an owner raised to the PIP, the
\* one that will have it back; a reserved one is a mutex's or a new task's.
PrioTableAgrees ==
  \A p \in Prios :
    LET t == OSTCBPrioTbl[p] IN
    /\ t \in TCBs => \/ OSTCBPrio[t] = p
                     \/ \E e \in Events : OSEventType[e] = "MUTEX" /\ OSEventPtr[e] = t
                          /\ OSEventCnt[e] = p /\ OSTCBPrio[t] = OSMutexPIP[e]
    /\ t = RESERVED => \/ \E u \in Tasks : creating[u] = p
                       \/ \E e \in Events : OSMutexPIP[e] = p

\* Whatever the interleaving, what is put into an event reaches one task or
\* stays in line, in order; OSSemSet alone replaces a count.
ES == INSTANCE EventService WITH
        Items <- Messages \cup {Unit}, Nothing <- NULL,
        open <- {e \in Events : OSEventType[e] # "UNUSED"},
        line <- [e \in Events |-> Line(e)],
        hand <- [t \in Tasks |-> Hand(t)]
ImplementsEventService ==
  ES!Init /\ [][\/ ES!Next
                \/ Uses("SET") /\ \E e \in InUse, n \in 0 .. MaxCnt : OSSemSet(e, n)]_(ES!vars)
=============================================================================
