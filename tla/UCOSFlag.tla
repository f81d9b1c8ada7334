------------------------------ MODULE UCOSFlag ------------------------------
(***************************************************************************)
(* os_flag.c: an event flag group.  A waiting task's node is on its stack  *)
(* and linked in OSFlagWaitList; a post goes through the whole list, so it *)
(* is the set of these tasks here.  The flags a waiter wants consumed are  *)
(* consumed when it runs again, not when it is readied.                    *)
(***************************************************************************)
EXTENDS UCOSCore

Unlinked(W) == OSFlagWaitList \ W
OnlyFlags == UNCHANGED <<prios, tcb, OSRdyTbl, OSEventTbl, processor, calls, ecb, queue,
                         OSFlagType, OSFlagWaitList, node, client>>

\* Of the flags of a waiter, those in the state it waits for, when cur are set.
FlagsRdy(cur, n) == IF n.wait \in {"SET_ALL", "SET_ANY"} THEN cur \cap n.flags
                    ELSE n.flags \ cur
Satisfied(cur, n) == IF n.wait \in {"SET_ALL", "CLR_ALL"} THEN FlagsRdy(cur, n) = n.flags
                     ELSE FlagsRdy(cur, n) # {}
Consumed(cur, n, rdy) == IF ~n.consume THEN cur
                         ELSE IF n.wait \in {"SET_ALL", "SET_ANY"} THEN cur \ rdy
                         ELSE cur \cup rdy

\* OS_FlagTaskRdy for each task that rdy gives its flags.
OS_FlagTaskRdy(rdy) ==
  LET W == DOMAIN rdy IN
  /\ OSTCBDly' = [t \in TCBs |-> IF t \in W THEN 0 ELSE OSTCBDly[t]]
  /\ OSTCBFlagsRdy' = [t \in TCBs |-> IF t \in W THEN rdy[t] ELSE OSTCBFlagsRdy[t]]
  /\ OSTCBStat' = [t \in TCBs |-> IF t \in W THEN OSTCBStat[t] \ {"FLAG"} ELSE OSTCBStat[t]]
  /\ OSTCBStatPend' = [t \in TCBs |-> IF t \in W THEN "OK" ELSE OSTCBStatPend[t]]
  /\ OSRdyTbl' = OSRdyTbl \cup {OSTCBPrio[t] : t \in {w \in W : OSTCBStat[w] \subseteq {"FLAG"}}}
  /\ OSFlagWaitList' = Unlinked(W)
  /\ UNCHANGED <<OSTCBMsg, OSTCBEventPtr, OSTCBEventMultiPtr>>

OSFlagCreate(flags) ==
  /\ TaskLevel /\ OSFlagType = "UNUSED"
  /\ OSFlagType' = "FLAG" /\ OSFlagFlags' = flags /\ OSFlagWaitList' = {}
  /\ UNCHANGED <<prios, tcb, OSRdyTbl, OSEventTbl, processor, calls, ecb, queue,
                 node, OSTCBFlagsRdy, client>>

OSFlagDel(always) ==
  /\ TaskLevel /\ OSFlagType = "FLAG"
  /\ always \/ OSFlagWaitList = {}
  /\ OSFlagType' = "UNUSED" /\ OSFlagFlags' = {}
  /\ OS_FlagTaskRdy([t \in OSFlagWaitList |-> {}])
  /\ IF OSFlagWaitList # {} THEN ThenSched ELSE UNCHANGED calls
  /\ UNCHANGED <<prios, OSEventTbl, processor, ecb, queue, node, client>>

OSFlagAccept(n) ==
  /\ AnyLevel /\ OSFlagType = "FLAG" /\ Satisfied(OSFlagFlags, n)
  /\ OSFlagFlags' = Consumed(OSFlagFlags, n, FlagsRdy(OSFlagFlags, n))
  /\ UNCHANGED OSTCBFlagsRdy
  /\ OnlyFlags

OSFlagPend(n, timeout) ==
  /\ TaskLevel /\ OSLockNesting = 0 /\ OSFlagType = "FLAG"
  /\ \/ /\ Satisfied(OSFlagFlags, n)
        /\ OSFlagFlags' = Consumed(OSFlagFlags, n, FlagsRdy(OSFlagFlags, n))
        /\ OSTCBFlagsRdy' = [OSTCBFlagsRdy EXCEPT ![OSTCBCur] = FlagsRdy(OSFlagFlags, n)]
        /\ OnlyFlags
     \/ /\ ~Satisfied(OSFlagFlags, n)
        /\ Block({}, OSEventTbl, {"FLAG"}, timeout, "FLAG")
        /\ OSFlagWaitList' = OSFlagWaitList \cup {OSTCBCur}
        /\ node' = [node EXCEPT ![OSTCBCur] = n]
        /\ OSRdyTbl' = OSRdyTbl \ {OSTCBPrio[OSTCBCur]}
        /\ UNCHANGED <<prios, OSTCBEventPtr, OSTCBEventMultiPtr, processor, ecb, queue,
                       OSFlagType, OSFlagFlags, OSTCBFlagsRdy, client>>

\* A wait that timed out unlinks its node; one that was served consumes.
OSFlagPendReturns ==
  /\ Resumes("FLAG")
  /\ inCall' = [inCall EXCEPT ![OSTCBCur] = "none"]
  /\ \/ /\ OSTCBStatPend[OSTCBCur] # "OK"
        /\ OSTCBStatPend' = [OSTCBStatPend EXCEPT ![OSTCBCur] = "OK"]
        /\ OSTCBStat' = [OSTCBStat EXCEPT ![OSTCBCur] = {}]
        /\ OSFlagWaitList' = Unlinked({OSTCBCur})
        /\ UNCHANGED OSFlagFlags
     \/ /\ OSTCBStatPend[OSTCBCur] = "OK"
        /\ OSFlagFlags' = Consumed(OSFlagFlags, node[OSTCBCur], OSTCBFlagsRdy[OSTCBCur])
        /\ UNCHANGED <<OSTCBStatPend, OSTCBStat, OSFlagWaitList>>
  /\ UNCHANGED <<prios, OSTCBDly, OSTCBMsg, OSTCBEventPtr, OSTCBEventMultiPtr, OSRdyTbl,
                 OSEventTbl, processor, toSched, creating, ecb, queue, OSFlagType, node,
                 OSTCBFlagsRdy, client>>

\* Every waiter whose condition now holds is readied; OS_Sched is called when
\* one of them may run.
OSFlagPost(flags, set) ==
  LET cur == IF set THEN OSFlagFlags \cup flags ELSE OSFlagFlags \ flags
      W == {t \in OSFlagWaitList : Satisfied(cur, node[t])}
  IN
  /\ AnyLevel /\ OSFlagType = "FLAG"
  /\ OSFlagFlags' = cur
  /\ OS_FlagTaskRdy([t \in W |-> FlagsRdy(cur, node[t])])
  /\ IF \E t \in W : OSTCBStat[t] \subseteq {"FLAG"} THEN ThenSched ELSE UNCHANGED calls
  /\ UNCHANGED <<prios, OSEventTbl, processor, ecb, queue, OSFlagType, node, client>>
=============================================================================
