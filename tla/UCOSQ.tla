------------------------------- MODULE UCOSQ -------------------------------
(***************************************************************************)
(* os_q.c: message queues in a ring of QSize cells.  OSQIn and OSQOut are  *)
(* counted from OSQStart; OSQEnd is QSize.                                 *)
(***************************************************************************)
EXTENDS UCOSCore

OnlyQueue == UNCHANGED <<prios, tcb, OSRdyTbl, OSEventTbl, processor, calls, ecb, flag, client>>
After_NoWrap(i) == i + 1
After(i) == IF i + 1 = QSize THEN 0 ELSE i + 1
Before_OnlyWraps(i) == IF i = 0 THEN QSize - 1 ELSE i
Before(i) == (IF i = 0 THEN QSize ELSE i) - 1

Emptied(e) == /\ OSQIn' = [OSQIn EXCEPT ![e] = 0]
              /\ OSQOut' = [OSQOut EXCEPT ![e] = 0]
              /\ OSQEntries' = [OSQEntries EXCEPT ![e] = 0]
              /\ UNCHANGED OSQTbl

Removed(e) == /\ OSQOut' = [OSQOut EXCEPT ![e] = After(@)]
              /\ OSQEntries' = [OSQEntries EXCEPT ![e] = @ - 1]
              /\ UNCHANGED <<OSQTbl, OSQIn>>

Inserted(e, m) == /\ OSQTbl' = [OSQTbl EXCEPT ![e] = [@ EXCEPT ![OSQIn[e]] = m]]
                  /\ OSQIn' = [OSQIn EXCEPT ![e] = After(@)]
                  /\ OSQEntries' = [OSQEntries EXCEPT ![e] = @ + 1]
                  /\ UNCHANGED OSQOut

InsertedFront(e, m) == /\ OSQTbl' = [OSQTbl EXCEPT ![e] = [@ EXCEPT ![Before(OSQOut[e])] = m]]
                       /\ OSQOut' = [OSQOut EXCEPT ![e] = Before(@)]
                       /\ OSQEntries' = [OSQEntries EXCEPT ![e] = @ + 1]
                       /\ UNCHANGED OSQIn

OSQCreate(e) ==
  /\ Create(e, "Q")
  /\ OSEventCnt' = [OSEventCnt EXCEPT ![e] = 0]
  /\ Emptied(e)
  /\ UNCHANGED <<prios, tcb, OSRdyTbl, processor, calls, OSEventPtr, OSMutexPIP, flag, client>>

OSQDel(e) ==
  /\ Delete(e, "Q")
  /\ OSRdyTbl' = OSRdyTbl \cup Released(Waiters(e))
  /\ UNCHANGED <<prios, processor, OSMutexPIP, queue, flag, client>>

OSQAccept(e) ==
  /\ AnyLevel /\ OSEventType[e] = "Q" /\ OSQEntries[e] > 0
  /\ Removed(e)
  /\ OnlyQueue

OSQFlush(e) ==
  /\ AnyLevel /\ OSEventType[e] = "Q"
  /\ Emptied(e)
  /\ OnlyQueue

OSQPend(e, timeout) ==
  /\ TaskLevel /\ OSLockNesting = 0 /\ OSEventType[e] = "Q"
  /\ \/ /\ OSQEntries[e] > 0
        /\ Removed(e)
        /\ OnlyQueue
     \/ /\ OSQEntries[e] = 0
        /\ Wait(e, OSEventTbl, "Q", timeout)
        /\ OSRdyTbl' = OSRdyTbl \ {OSTCBPrio[OSTCBCur]}
        /\ UNCHANGED <<prios, processor, ecb, queue, flag, client>>

OSQPendReturns == PendReturns("Q") /\ UNCHANGED inside

OSQPendAbort(e) == PendAbort(e, "Q")

\* OSQPost and OSQPostFront are OSQPostOpt with one option or none.
OSQPostOpt(e, m, front, broadcast, nosched) ==
  /\ AnyLevel /\ OSEventType[e] = "Q"
  /\ \/ LET W == IF broadcast THEN Waiters(e) ELSE First(e) IN
        /\ OSEventTbl[e] # {}
        /\ OS_EventTaskRdy(e, W, m, "Q", "OK")
        /\ OSRdyTbl' = OSRdyTbl \cup Released(W)
        /\ IF nosched THEN UNCHANGED calls ELSE ThenSched
        /\ owed' = (owed \/ nosched)
        /\ UNCHANGED <<prios, processor, ecb, queue, flag, inside, app>>
     \/ /\ OSEventTbl[e] = {} /\ OSQEntries[e] < QSize
        /\ IF front THEN InsertedFront(e, m) ELSE Inserted(e, m)
        /\ OnlyQueue

OSQPost(e, m) == OSQPostOpt(e, m, FALSE, FALSE, FALSE)
OSQPostFront(e, m) == OSQPostOpt(e, m, TRUE, FALSE, FALSE)
=============================================================================
