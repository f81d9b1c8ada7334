---------------------------- MODULE EventService ----------------------------
(***************************************************************************)
(* What semaphores, mutexes, mailboxes and queues promise, without a       *)
(* scheduler: an event holds a line of items, and what is put is held by   *)
(* the event or in the hand of one task until that task has it.  Nothing   *)
(* is lost, handed out twice, or handed to a task past what is in line.    *)
(***************************************************************************)
EXTENDS Naturals, Sequences

CONSTANTS Events, Tasks, Items, Nothing

VARIABLES
  open,   \* the events that exist
  line,   \* what an event holds, first to go first
  hand    \* what a waiting task has been given and has not taken yet

EmptyHanded == {t \in Tasks : hand[t] = Nothing}
Handed(W, x) == hand' = [t \in Tasks |-> IF t \in W THEN x ELSE hand[t]]

Init == /\ open = {} /\ line = [e \in Events |-> <<>>]
        /\ hand = [t \in Tasks |-> Nothing]

Open(e) == /\ e \notin open
           /\ open' = open \cup {e}
           /\ \E s \in {<<>>} \cup {<<x>> : x \in Items} \cup {<<x, x>> : x \in Items} :
                line' = [line EXCEPT ![e] = s]
           /\ UNCHANGED hand

\* A deleted event serves its waiters without an item, or with a unit.
Close(e) == /\ e \in open
            /\ open' = open \ {e}
            /\ line' = [line EXCEPT ![e] = <<>>]
            /\ \E W \in SUBSET EmptyHanded, x \in Items \cup {Nothing} : Handed(W, x)

Put(e, x) == /\ e \in open
             /\ line' = [line EXCEPT ![e] = Append(@, x)]

PutFront(e, x) == /\ e \in open
                  /\ line' = [line EXCEPT ![e] = <<x>> \o @]

\* An item goes to a waiting task, or a message to several, at once only when
\* nothing is in line.
Give(e, W, x) == /\ e \in open /\ line[e] = <<>> /\ W \subseteq EmptyHanded
                 /\ Handed(W, x)

Take(E) == /\ E \subseteq open /\ \A e \in E : line[e] # <<>>
           /\ line' = [e \in Events |-> IF e \in E THEN Tail(line[e]) ELSE line[e]]

\* A task has what it was given, or is deleted with it in hand, or its call ends
\* with an error because the event was deleted meanwhile.
Receive(t) == /\ t \notin EmptyHanded
              /\ Handed({t}, Nothing)

Flush(e) == /\ e \in open
            /\ line' = [line EXCEPT ![e] = <<>>]

\* A step moves items to or from hands, moves them in lines, or opens or closes an event.
Hands == /\ UNCHANGED <<open, line>> /\ hand' # hand
         /\ \/ \E t \in Tasks : Receive(t)
            \/ \E e \in open, x \in Items : \E W \in SUBSET EmptyHanded : Give(e, W, x)

Lines == /\ UNCHANGED <<open, hand>> /\ line' # line
         /\ \/ \E E \in SUBSET open : Take(E)
            \/ \E e \in open : Flush(e) \/ \E x \in Items : Put(e, x) \/ PutFront(e, x)

Next == Hands \/ Lines \/ \E e \in Events : Open(e) \/ Close(e)

vars == <<open, line, hand>>
Spec == Init /\ [][Next]_vars
=============================================================================
