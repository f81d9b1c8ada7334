------------------------------ MODULE UCOSMbox ------------------------------
(***************************************************************************)
(* os_mbox.c: mailboxes, which hold one message; NULL is none.             *)
(***************************************************************************)
EXTENDS UCOSCore

Box(e, m) == OSEventPtr' = [OSEventPtr EXCEPT ![e] = m]
OnlyBox == UNCHANGED <<prios, tcb, OSRdyTbl, OSEventTbl, processor, calls,
                       OSEventType, OSEventCnt, OSMutexPIP, queue, flag, client>>

OSMboxCreate(e, m) ==
  /\ Create(e, "MBOX")
  /\ Box(e, m)
  /\ OSEventCnt' = [OSEventCnt EXCEPT ![e] = 0]
  /\ UNCHANGED <<prios, tcb, OSRdyTbl, processor, calls, OSMutexPIP, queue, flag, client>>

OSMboxDel(e) ==
  /\ Delete(e, "MBOX")
  /\ OSRdyTbl' = OSRdyTbl \cup Released(Waiters(e))
  /\ UNCHANGED <<prios, processor, OSMutexPIP, queue, flag, client>>

OSMboxAccept(e) ==
  /\ AnyLevel /\ OSEventType[e] = "MBOX"
  /\ Box(e, NULL)
  /\ OnlyBox

OSMboxPend(e, timeout) ==
  /\ TaskLevel /\ OSLockNesting = 0 /\ OSEventType[e] = "MBOX"
  /\ \/ /\ OSEventPtr[e] # NULL
        /\ Box(e, NULL)
        /\ OnlyBox
     \/ /\ OSEventPtr[e] = NULL
        /\ Wait(e, OSEventTbl, "MBOX", timeout)
        /\ OSRdyTbl' = OSRdyTbl \ {OSTCBPrio[OSTCBCur]}
        /\ UNCHANGED <<prios, processor, ecb, queue, flag, client>>

OSMboxPendReturns == PendReturns("MBOX") /\ UNCHANGED inside

OSMboxPendAbort(e) == PendAbort(e, "MBOX")

\* OSMboxPost is OSMboxPostOpt without options: the message goes to the most
\* urgent waiter, or to all of them, or into the box if it is empty.
OSMboxPostOpt(e, m, broadcast, nosched) ==
  /\ AnyLevel /\ OSEventType[e] = "MBOX" /\ m # NULL
  /\ \/ LET W == IF broadcast THEN Waiters(e) ELSE First(e) IN
        /\ OSEventTbl[e] # {}
        /\ OS_EventTaskRdy(e, W, m, "MBOX", "OK")
        /\ OSRdyTbl' = OSRdyTbl \cup Released(W)
        /\ IF nosched THEN UNCHANGED calls ELSE ThenSched
        /\ owed' = (owed \/ nosched)
        /\ UNCHANGED <<prios, processor, ecb, queue, flag, inside, app>>
     \/ /\ OSEventTbl[e] = {} /\ OSEventPtr[e] = NULL
        /\ Box(e, m)
        /\ OnlyBox

OSMboxPost(e, m) == OSMboxPostOpt(e, m, FALSE, FALSE)
=============================================================================
