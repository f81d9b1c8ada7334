------------------------------ MODULE UCOSTask ------------------------------
(***************************************************************************)
(* os_task.c and os_time.c: tasks are created and deleted, change their    *)
(* priority, are suspended and resumed, and let time pass.                 *)
(*                                                                         *)
(* A service names a task by a priority p.                                 *)
(***************************************************************************)
EXTENDS UCOSCore

\* The control block p names, if it names one; idle is refused by every service.
Named(p) == p \in Prios /\ OSTCBPrioTbl[p] \in Tasks

\* OSTaskCreate first reserves the priority, so that no other call can take it
\* while the control block is set up with interrupts enabled ...
OSTaskCreate(p) ==
  /\ TaskLevel /\ OSTCBPrioTbl[p] = NULL
  /\ OSTCBPrioTbl' = [OSTCBPrioTbl EXCEPT ![p] = RESERVED]
  /\ creating' = [creating EXCEPT ![OSTCBCur] = p]
  /\ UNCHANGED <<OSTCBPrio, tcb, OSRdyTbl, OSEventTbl, processor, inCall, toSched,
                 ecb, queue, flag, client>>

\* ... then OS_TCBInit takes a free control block and makes the task ready,
\* or gives the priority back when there is none.
OS_TCBInit ==
  LET p == creating[OSTCBCur]
      Free == Tasks \ Live
  IN
  /\ OSIntNesting = 0 /\ OSTCBCur \notin toSched /\ p # NULL
  /\ creating' = [creating EXCEPT ![OSTCBCur] = NULL]
  /\ \/ \E t \in Free :
          /\ OSTCBPrio' = [OSTCBPrio EXCEPT ![t] = p]
          /\ OSTCBPrioTbl' = [OSTCBPrioTbl EXCEPT ![p] = t]
          /\ OSTCBStat' = [OSTCBStat EXCEPT ![t] = {}]
          /\ OSTCBStatPend' = [OSTCBStatPend EXCEPT ![t] = "OK"]
          /\ OSTCBDly' = [OSTCBDly EXCEPT ![t] = 0]
          /\ OSTCBMsg' = [OSTCBMsg EXCEPT ![t] = NULL]
          /\ OSTCBEventPtr' = [OSTCBEventPtr EXCEPT ![t] = NULL]
          /\ OSTCBEventMultiPtr' = [OSTCBEventMultiPtr EXCEPT ![t] = {}]
          /\ OSRdyTbl' = OSRdyTbl \cup {p}
          /\ toSched' = (toSched \ {t}) \cup {OSTCBCur}
     \/ /\ Free = {}
        /\ OSTCBPrioTbl' = [OSTCBPrioTbl EXCEPT ![p] = NULL]
        /\ UNCHANGED <<OSTCBPrio, tcb, OSRdyTbl, toSched>>
  /\ UNCHANGED <<OSEventTbl, processor, inCall, ecb, queue, flag, client>>

\* The task leaves the ready table and every wait list, and its control block
\* is free again; the call it was in has ended.  The scheduler lock that
\* OSTaskDel holds around OS_Dummy only keeps interrupts in between from
\* switching tasks.
OSTaskDel(p) ==
  LET t == OSTCBPrioTbl[p] IN
  /\ TaskLevel /\ Named(p)
  /\ OSRdyTbl' = OSRdyTbl \ {OSTCBPrio[t]}
  /\ OSEventTbl' = [e \in Events |->
                      IF e = OSTCBEventPtr[t] \/ e \in OSTCBEventMultiPtr[t]
                      THEN OSEventTbl[e] \ {OSTCBPrio[t]} ELSE OSEventTbl[e]]
  /\ OSFlagWaitList' = OSFlagWaitList \ {t}
  /\ OSTCBDly' = [OSTCBDly EXCEPT ![t] = 0]
  /\ OSTCBStat' = [OSTCBStat EXCEPT ![t] = {}]
  /\ OSTCBStatPend' = [OSTCBStatPend EXCEPT ![t] = "OK"]
  /\ OSTCBPrioTbl' = [OSTCBPrioTbl EXCEPT ![p] = NULL]
  /\ inCall' = [inCall EXCEPT ![t] = "none"]
  /\ toSched' = (toSched \ {t}) \cup {OSTCBCur}
  /\ UNCHANGED <<OSTCBPrio, OSTCBMsg, OSTCBEventPtr, OSTCBEventMultiPtr, processor, ecb, queue,
                 creating, OSFlagType, OSFlagFlags, node, OSTCBFlagsRdy, client>>

\* A task moves from priority p to q, in the ready table and in wait lists.
OSTaskChangePrio(p, q) ==
  LET t == OSTCBPrioTbl[p]
      Moved(S) == IF OSTCBPrio[t] \in S THEN (S \ {OSTCBPrio[t]}) \cup {q} ELSE S
  IN
  /\ AnyLevel /\ Named(p) /\ OSTCBPrioTbl[q] = NULL
  /\ OSTCBPrioTbl' = [OSTCBPrioTbl EXCEPT ![p] = NULL, ![q] = t]
  /\ OSTCBPrio' = [OSTCBPrio EXCEPT ![t] = q]
  /\ OSRdyTbl' = Moved(OSRdyTbl)
  /\ OSEventTbl' = [e \in Events |->
                      IF e = OSTCBEventPtr[t] \/ e \in OSTCBEventMultiPtr[t]
                      THEN (OSEventTbl[e] \ {OSTCBPrio[t]}) \cup {q} ELSE OSEventTbl[e]]
  /\ ThenSched
  /\ UNCHANGED <<tcb, processor, ecb, queue, flag, client>>

\* OS_Sched is called when a task suspends itself only.
OSTaskSuspend(p) ==
  LET t == OSTCBPrioTbl[p] IN
  /\ AnyLevel /\ Named(p)
  /\ OSRdyTbl' = OSRdyTbl \ {OSTCBPrio[t]}
  /\ OSTCBStat' = [OSTCBStat EXCEPT ![t] = @ \cup {"SUSPEND"}]
  /\ IF p = OSTCBPrio[OSTCBCur] THEN ThenSched ELSE UNCHANGED calls
  /\ UNCHANGED <<prios, OSTCBStatPend, OSTCBDly, OSTCBMsg, OSTCBEventPtr, OSTCBEventMultiPtr,
                 OSEventTbl, processor, ecb, queue, flag, client>>

OSTaskResume(p) ==
  LET t == OSTCBPrioTbl[p]
      runnable == OSTCBStat[t] = {"SUSPEND"} /\ OSTCBDly[t] = 0
  IN
  /\ AnyLevel /\ Named(p) /\ "SUSPEND" \in OSTCBStat[t]
  /\ OSTCBStat' = [OSTCBStat EXCEPT ![t] = @ \ {"SUSPEND"}]
  /\ OSRdyTbl' = IF runnable THEN OSRdyTbl \cup {OSTCBPrio[t]} ELSE OSRdyTbl
  /\ IF runnable THEN ThenSched ELSE UNCHANGED calls
  /\ UNCHANGED <<prios, OSTCBStatPend, OSTCBDly, OSTCBMsg, OSTCBEventPtr, OSTCBEventMultiPtr,
                 OSEventTbl, processor, ecb, queue, flag, client>>

-----------------------------------------------------------------------------
OSTimeDly(ticks) ==
  /\ TaskLevel /\ ticks > 0
  /\ OSRdyTbl' = OSRdyTbl \ {OSTCBPrio[OSTCBCur]}
  /\ OSTCBDly' = [OSTCBDly EXCEPT ![OSTCBCur] = ticks]
  /\ ThenSched
  /\ UNCHANGED <<prios, OSTCBStat, OSTCBStatPend, OSTCBMsg, OSTCBEventPtr, OSTCBEventMultiPtr,
                 OSEventTbl, processor, ecb, queue, flag, client>>

\* A delayed task, or one whose wait has a timeout, need not wait any longer.
OSTimeDlyResume(p) ==
  LET t == OSTCBPrioTbl[p] IN
  /\ AnyLevel /\ Named(p) /\ OSTCBDly[t] # 0
  /\ OSTCBDly' = [OSTCBDly EXCEPT ![t] = 0]
  /\ DelayOver({t})
  /\ IF "SUSPEND" \in OSTCBStat[t] THEN UNCHANGED calls ELSE ThenSched
  /\ UNCHANGED <<prios, OSTCBMsg, OSTCBEventPtr, OSTCBEventMultiPtr, OSEventTbl, processor,
                 ecb, queue, flag, client>>
=============================================================================
