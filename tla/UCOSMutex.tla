----------------------------- MODULE UCOSMutex -----------------------------
(***************************************************************************)
(* os_mutex.c: mutual exclusion with a priority inheritance priority, the  *)
(* PIP, which the owner gets while a more urgent task waits.  The high     *)
(* byte of OSEventCnt is the PIP and the low byte the owner's own priority *)
(* or Available; OSEventPtr is the owner.                                  *)
(***************************************************************************)
EXTENDS UCOSCore

OSMutexCreate(e, pip) ==
  /\ Create(e, "MUTEX") /\ OSTCBPrioTbl[pip] = NULL
  /\ OSTCBPrioTbl' = [OSTCBPrioTbl EXCEPT ![pip] = RESERVED]
  /\ OSMutexPIP' = [OSMutexPIP EXCEPT ![e] = pip]
  /\ OSEventCnt' = [OSEventCnt EXCEPT ![e] = Available]
  /\ OSEventPtr' = [OSEventPtr EXCEPT ![e] = NULL]
  /\ UNCHANGED <<OSTCBPrio, tcb, OSRdyTbl, processor, calls, queue, flag, client>>

\* OSMutex_RdyAtPrio, when the owner runs at the PIP: what becomes of a set
\* of priorities, and of the owner's, when it goes back to its own priority.
Raised_Above(e) == OSEventPtr[e] # NULL /\ OSTCBPrio[OSEventPtr[e]] < OSMutexPIP[e]
Raised(e) == OSEventPtr[e] # NULL /\ OSTCBPrio[OSEventPtr[e]] = OSMutexPIP[e]
RdyAtPrio(e, S) == (S \ {OSMutexPIP[e]}) \cup {OSEventCnt[e]}
OwnPrio(e) == [OSTCBPrio EXCEPT ![OSEventPtr[e]] = OSEventCnt[e]]

OSMutexDel(e, always) ==
  LET restored == always /\ Raised(e) IN
  /\ Delete(e, "MUTEX")
  /\ always \/ OSEventTbl[e] = {}
  /\ OSTCBPrio' = IF restored THEN OwnPrio(e) ELSE OSTCBPrio
  /\ OSRdyTbl' = (IF restored THEN RdyAtPrio(e, OSRdyTbl) ELSE OSRdyTbl)
                    \cup Released(Waiters(e))
  /\ OSTCBPrioTbl' = [p \in DOMAIN OSTCBPrioTbl |->
                        IF p = OSMutexPIP[e] THEN NULL
                        ELSE IF restored /\ p = OSEventCnt[e] THEN OSEventPtr[e]
                        ELSE OSTCBPrioTbl[p]]
  /\ OSMutexPIP' = [OSMutexPIP EXCEPT ![e] = NULL]
  /\ inside' = [inside EXCEPT ![e] = {}]
  /\ UNCHANGED <<processor, queue, flag, owed, app>>

Seize(e) ==
  /\ OSEventCnt[e] = Available
  /\ OSEventCnt' = [OSEventCnt EXCEPT ![e] = OSTCBPrio[OSTCBCur]]
  /\ OSEventPtr' = [OSEventPtr EXCEPT ![e] = OSTCBCur]
  /\ inside' = [inside EXCEPT ![e] = @ \cup {OSTCBCur}]
  /\ UNCHANGED <<prios, tcb, OSRdyTbl, OSEventTbl, processor, calls, OSEventType, OSMutexPIP,
                 queue, flag, owed, app>>

OSMutexAccept(e) == TaskLevel /\ OSEventType[e] = "MUTEX" /\ Seize(e)

\* Whether the running task, which must wait, is to lend its urgency to the owner.
Inherits_Reversed(e) == /\ OSTCBPrio[OSEventPtr[e]] > OSMutexPIP[e]
                        /\ OSEventCnt[e] < OSTCBPrio[OSTCBCur]
Inherits(e) == /\ OSTCBPrio[OSEventPtr[e]] > OSMutexPIP[e]
               /\ OSEventCnt[e] > OSTCBPrio[OSTCBCur]

OSMutexPend(e, timeout) ==
  LET owner == OSEventPtr[e]
      pip == OSMutexPIP[e]
      old == OSTCBPrio[owner]
      raise(S) == IF old \in S THEN (S \ {old}) \cup {pip} ELSE S
  IN
  /\ TaskLevel /\ OSLockNesting = 0 /\ OSEventType[e] = "MUTEX"
  /\ \/ Seize(e)
     \/ /\ OSEventCnt[e] # Available /\ Inherits(e)
        /\ OSTCBPrio' = [OSTCBPrio EXCEPT ![owner] = pip]
        /\ OSTCBPrioTbl' = [OSTCBPrioTbl EXCEPT ![pip] = owner]
        /\ OSRdyTbl' = raise(OSRdyTbl) \ {OSTCBPrio[OSTCBCur]}
        /\ Wait(e, IF old \notin OSRdyTbl /\ OSTCBEventPtr[owner] # NULL
                   THEN [OSEventTbl EXCEPT ![OSTCBEventPtr[owner]] = (@ \ {old}) \cup {pip}]
                   ELSE OSEventTbl, "MUTEX", timeout)
        /\ UNCHANGED <<processor, ecb, queue, flag, client>>
     \/ /\ OSEventCnt[e] # Available /\ ~Inherits(e)
        /\ OSRdyTbl' = OSRdyTbl \ {OSTCBPrio[OSTCBCur]}
        /\ Wait(e, OSEventTbl, "MUTEX", timeout)
        /\ UNCHANGED <<prios, processor, ecb, queue, flag, client>>

OSMutexPendReturns_Always ==
  /\ PendReturns("MUTEX")
  /\ inside' = [inside EXCEPT ![OSTCBEventPtr[OSTCBCur]] = @ \cup {OSTCBCur}]

OSMutexPendReturns ==
  /\ PendReturns("MUTEX")
  /\ LET e == OSTCBEventPtr[OSTCBCur] IN
       inside' = IF OSTCBStatPend[OSTCBCur] = "OK"
                 THEN [inside EXCEPT ![e] = @ \cup {OSTCBCur}] ELSE inside

\* The owner goes back to its own priority and the most urgent waiter owns the
\* mutex.  Without a waiter OS_Sched is not called.
OSMutexPost(e) ==
  LET own == IF Raised(e) THEN RdyAtPrio(e, OSRdyTbl) ELSE OSRdyTbl
      next == OSTCBPrioTbl[Highest(OSEventTbl[e])]
  IN
  /\ TaskLevel /\ OSEventType[e] = "MUTEX" /\ OSEventPtr[e] = OSTCBCur
  /\ OSTCBPrio' = IF Raised(e) THEN OwnPrio(e) ELSE OSTCBPrio
  /\ OSTCBPrioTbl' = [p \in DOMAIN OSTCBPrioTbl |->
                        IF p = OSMutexPIP[e] THEN RESERVED
                        ELSE IF Raised(e) /\ p = OSEventCnt[e] THEN OSTCBCur
                        ELSE OSTCBPrioTbl[p]]
  /\ inside' = [inside EXCEPT ![e] = @ \ {OSTCBCur}]
  /\ \/ /\ OSEventTbl[e] # {}
        /\ OS_EventTaskRdy(e, {next}, NULL, "MUTEX", "OK")
        /\ OSRdyTbl' = own \cup Released({next})
        /\ OSEventCnt' = [OSEventCnt EXCEPT ![e] = Highest(OSEventTbl[e])]
        /\ OSEventPtr' = [OSEventPtr EXCEPT ![e] = next]
        /\ ThenSched
     \/ /\ OSEventTbl[e] = {}
        /\ OSRdyTbl' = own
        /\ OSEventCnt' = [OSEventCnt EXCEPT ![e] = Available]
        /\ OSEventPtr' = [OSEventPtr EXCEPT ![e] = NULL]
        /\ UNCHANGED <<tcb, OSEventTbl, calls>>
  /\ UNCHANGED <<processor, OSEventType, OSMutexPIP, queue, flag, owed, app>>
=============================================================================
