------------------------------ MODULE UCOSSem ------------------------------
(***************************************************************************)
(* os_sem.c: counting semaphores.                                          *)
(***************************************************************************)
EXTENDS UCOSCore

SemCount(e, n) == OSEventCnt' = [OSEventCnt EXCEPT ![e] = n]
OnlyCount == UNCHANGED <<prios, tcb, OSRdyTbl, OSEventTbl, processor, calls,
                         OSEventType, OSEventPtr, OSMutexPIP, queue, flag, client>>

OSSemCreate(e, n) ==
  /\ Create(e, "SEM")
  /\ SemCount(e, n)
  /\ UNCHANGED <<prios, tcb, OSRdyTbl, processor, calls, OSEventPtr, OSMutexPIP,
                 queue, flag, client>>

OSSemDel(e) ==
  /\ Delete(e, "SEM")
  /\ OSRdyTbl' = OSRdyTbl \cup Released(Waiters(e))
  /\ UNCHANGED <<prios, processor, OSMutexPIP, queue, flag, client>>

OSSemAccept(e) ==
  /\ AnyLevel /\ OSEventType[e] = "SEM" /\ OSEventCnt[e] > 0
  /\ SemCount(e, OSEventCnt[e] - 1)
  /\ OnlyCount

OSSemPend(e, timeout) ==
  /\ TaskLevel /\ OSLockNesting = 0 /\ OSEventType[e] = "SEM"
  /\ \/ /\ OSEventCnt[e] > 0
        /\ SemCount(e, OSEventCnt[e] - 1)
        /\ OnlyCount
     \/ /\ OSEventCnt[e] = 0
        /\ Wait(e, OSEventTbl, "SEM", timeout)
        /\ OSRdyTbl' = OSRdyTbl \ {OSTCBPrio[OSTCBCur]}
        /\ UNCHANGED <<prios, processor, ecb, queue, flag, client>>

OSSemPendReturns == PendReturns("SEM") /\ UNCHANGED inside

OSSemPendAbort(e) == PendAbort(e, "SEM")

OSSemPost(e) ==
  /\ AnyLevel /\ OSEventType[e] = "SEM"
  /\ \/ /\ OSEventTbl[e] # {}
        /\ OS_EventTaskRdy(e, First(e), NULL, "SEM", "OK")
        /\ OSRdyTbl' = OSRdyTbl \cup Released(First(e))
        /\ ThenSched
        /\ UNCHANGED <<prios, processor, ecb, queue, flag, client>>
     \/ /\ OSEventTbl[e] = {} /\ OSEventCnt[e] < MaxCnt
        /\ SemCount(e, OSEventCnt[e] + 1)
        /\ OnlyCount

OSSemSet_AnyTime(e, n) ==
  /\ AnyLevel /\ OSEventType[e] = "SEM"
  /\ SemCount(e, n)
  /\ OnlyCount

OSSemSet(e, n) ==
  /\ AnyLevel /\ OSEventType[e] = "SEM"
  /\ OSEventCnt[e] > 0 \/ OSEventTbl[e] = {}
  /\ SemCount(e, n)
  /\ OnlyCount
=============================================================================
