--------------------------- MODULE CharacterDevice ---------------------------
(***************************************************************************)
(* What a character device promises the tasks that use it: characters go   *)
(* to the host and come from it in order, none is lost or doubled, and     *)
(* what a call writes or reads is not mixed with what another one does     *)
(* before the turn has passed on.                                          *)
(***************************************************************************)
EXTENDS Sequences, Naturals

CONSTANTS Tasks, NoTask, Chars

VARIABLES
  toHost, fromHost,   \* the characters on their way
  writer, reader,     \* the tasks whose turn it is
  todo, got           \* what a task has yet to write, and what it has read

vars == <<toHost, fromHost, writer, reader, todo, got>>
Empty == [t \in Tasks |-> <<>>]

Init == /\ toHost = <<>> /\ fromHost = <<>>
        /\ writer = NoTask /\ reader = NoTask
        /\ todo = Empty /\ got = Empty

HostSends == /\ \E c \in Chars : fromHost' = Append(fromHost, c)
             /\ UNCHANGED <<toHost, writer, reader, todo, got>>
HostTakes == /\ toHost # <<>> /\ toHost' = Tail(toHost)
             /\ UNCHANGED <<fromHost, writer, reader, todo, got>>

\* A call begins, and has the turn at once if no one has it.
WriteBegins(t) == /\ todo[t] = <<>> /\ todo' = [todo EXCEPT ![t] = todo'[t]]
                  /\ writer' \in {writer, IF writer = NoTask THEN t ELSE writer}
                  /\ UNCHANGED <<toHost, fromHost, reader, got>>
ReadBegins(t) == /\ reader = NoTask /\ reader' = t
                 /\ UNCHANGED <<toHost, fromHost, writer, todo, got>>

Writes(t, n) == /\ writer = t /\ n \in 1 .. Len(todo[t])
                /\ toHost' = toHost \o SubSeq(todo[t], 1, n)
                /\ todo' = [todo EXCEPT ![t] = SubSeq(@, n + 1, Len(@))]
                /\ UNCHANGED <<fromHost, writer, reader, got>>
Reads(t, n) == /\ reader = t /\ n \in 1 .. Len(fromHost)
               /\ got' = [got EXCEPT ![t] = @ \o SubSeq(fromHost, 1, n)]
               /\ fromHost' = SubSeq(fromHost, n + 1, Len(fromHost))
               /\ UNCHANGED <<toHost, writer, reader, todo>>

\* The turn passes to a task that waits for it, or to none.
WriteEnds(t) == /\ writer = t /\ writer' \in (Tasks \cup {NoTask}) \ {t}
                /\ todo' = [todo EXCEPT ![t] = <<>>]
                /\ UNCHANGED <<toHost, fromHost, reader, got>>
ReadEnds(t) == /\ reader = t /\ reader' \in (Tasks \cup {NoTask}) \ {t}
               /\ UNCHANGED <<toHost, fromHost, writer, todo, got>>
ReadReturns(t) == /\ reader # t /\ got' = [got EXCEPT ![t] = <<>>]
                  /\ UNCHANGED <<toHost, fromHost, writer, reader, todo>>

Next == \/ HostSends \/ HostTakes
        \/ \E t \in Tasks :
             \/ WriteBegins(t) \/ WriteEnds(t)
             \/ ReadBegins(t) \/ ReadEnds(t) \/ ReadReturns(t)
             \/ \E n \in 1 .. Len(todo[t]) : Writes(t, n)
             \/ \E n \in 1 .. Len(fromHost) : Reads(t, n)
Spec == Init /\ [][Next]_vars
=============================================================================
