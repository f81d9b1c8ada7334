-------------------------- MODULE UCOSKernelProofs --------------------------
(***************************************************************************)
(* The kernel of uC/OS-II in every application that keeps ApplicationRules,*)
(* whatever its tasks, events, priorities and queues.                      *)
(*                                                                         *)
(* First the message queues, which the rest of the kernel does not touch:  *)
(* RingOK, the arithmetic of one ring, and what becomes of a line.         *)
(*                                                                         *)
(* Then the invariant KInv.  Its parts relate the ready table, the wait    *)
(* lists, the control blocks and the priority table to where each task     *)
(* stands in the call it has made (Standing); the lemmas about standings   *)
(* follow a task from one to the next, and those about the parts follow a  *)
(* family of steps each: what only changes an event, what wakes tasks,     *)
(* what blocks one, what returns from a call, what passes time, and what   *)
(* renames a task - creation, deletion, a new priority, inheritance.  Each *)
(* service is an instance of one of them.  The theorems are at the end.    *)
(***************************************************************************)
EXTENDS UCOSKernel, SequenceTheorems, WellFoundedInduction, TLAPS


Cells == 0 .. QSize - 1
Contents == Messages \cup {NULL}
Cell(k) == k % QSize
Items(tbl, out, cnt) == [i \in 1 .. cnt |-> tbl[Cell(out + i - 1)]]

\* The indices are in the ring, and OSQIn is as far from OSQOut as there are
\* messages.
RingOK ==
  /\ OSQTbl \in [Events -> [Cells -> Contents]]
  /\ OSQIn \in [Events -> Cells] /\ OSQOut \in [Events -> Cells]
  /\ OSQEntries \in [Events -> 0 .. QSize]
  /\ \A e \in Events : OSQIn[e] = Cell(OSQOut[e] + OSQEntries[e])

-----------------------------------------------------------------------------
LEMMA RingSize == QSize \in Nat \ {0}
BY KernelAssumption

\* An index that has passed the end of the ring once.
LEMMA WrapsOnce ==
  ASSUME NEW k \in Nat, k < 2 * QSize
  PROVE  /\ Cell(k) = (IF k < QSize THEN k ELSE k - QSize)
         /\ Cell(k) \in Cells
BY RingSize DEF Cells, Cell

LEMMA ItemsType ==
  ASSUME NEW tbl \in [Cells -> Contents], NEW out \in Cells, NEW cnt \in 0 .. QSize
  PROVE  /\ Items(tbl, out, cnt) \in Seq(Contents)
         /\ Len(Items(tbl, out, cnt)) = cnt
         /\ \A i \in 1 .. cnt : Items(tbl, out, cnt)[i] = tbl[Cell(out + i - 1)]
<1>1. \A i \in 1 .. cnt : tbl[Cell(out + i - 1)] \in Contents
  <2> TAKE i \in 1 .. cnt
  <2>1. out + i - 1 \in Nat /\ out + i - 1 < 2 * QSize
    BY RingSize DEF Cells
  <2>2. Cell(out + i - 1) \in Cells
    BY <2>1, WrapsOnce
  <2>3. QED
    BY <2>2
<1>2. cnt \in Nat
  BY RingSize
<1>3. QED
  BY <1>1, <1>2 DEF Items

\* A message behind the last one, before the first one, and the first one taken.
LEMMA AtTheEnd ==
  ASSUME NEW tbl \in [Cells -> Contents], NEW out \in Cells, NEW cnt \in 0 .. QSize - 1,
         NEW m \in Contents
  PROVE  Items([tbl EXCEPT ![Cell(out + cnt)] = m], out, cnt + 1)
           = Append(Items(tbl, out, cnt), m)
<1> DEFINE new == [tbl EXCEPT ![Cell(out + cnt)] = m]
           s == Items(new, out, cnt + 1)
           t == Append(Items(tbl, out, cnt), m)
<1>1. Cell(out + cnt) \in Cells /\ new \in [Cells -> Contents]
  BY WrapsOnce, RingSize DEF Cells
<1>2. s \in Seq(Contents) /\ Len(s) = cnt + 1
      /\ \A i \in 1 .. cnt + 1 : s[i] = new[Cell(out + i - 1)]
  <2> HIDE DEF new
  <2>1. cnt + 1 \in 0 .. QSize
    BY RingSize
  <2>2. QED
    BY <1>1, <2>1, ItemsType
<1>3. t \in Seq(Contents) /\ Len(t) = cnt + 1 /\ t[cnt + 1] = m
      /\ \A i \in 1 .. cnt : t[i] = tbl[Cell(out + i - 1)]
  <2> DEFINE q == Items(tbl, out, cnt)
  <2>1. q \in Seq(Contents) /\ Len(q) = cnt /\ \A i \in 1 .. cnt : q[i] = tbl[Cell(out + i - 1)]
    <3>1. cnt \in 0 .. QSize
      BY RingSize
    <3>2. QED
      BY <3>1, ItemsType
  <2> HIDE DEF q
  <2>2. /\ Append(q, m) \in Seq(Contents) /\ Len(Append(q, m)) = cnt + 1
        /\ Append(q, m)[cnt + 1] = m /\ \A i \in 1 .. cnt : Append(q, m)[i] = q[i]
    BY <2>1, AppendProperties
  <2>3. QED
    BY <2>1, <2>2 DEF q
<1>4. ASSUME NEW i \in 1 .. cnt PROVE s[i] = t[i]
  <2>1. Cell(out + i - 1) \in Cells /\ Cell(out + i - 1) # Cell(out + cnt)
    <3>1. out + i - 1 \in Nat /\ out + i - 1 < 2 * QSize /\ out + cnt \in Nat /\ out + cnt < 2 * QSize
      BY RingSize DEF Cells
    <3>2. QED
      BY <3>1, WrapsOnce, RingSize DEF Cells
  <2>2. new[Cell(out + i - 1)] = tbl[Cell(out + i - 1)]
    BY <2>1
  <2> HIDE DEF new, s, t
  <2>3. QED
    BY <1>2, <1>3, <2>2
<1>5. s[cnt + 1] = t[cnt + 1]
  <2>1. s[cnt + 1] = new[Cell(out + cnt)]
    <3>1. cnt + 1 \in 1 .. cnt + 1 /\ out + (cnt + 1) - 1 = out + cnt
      BY RingSize DEF Cells
    <3> HIDE DEF new, s
    <3>2. QED
      BY <1>2, <3>1
  <2>2. QED
    BY <1>1, <1>3, <2>1
<1> HIDE DEF s, t
<1>6. \A i \in 1 .. Len(s) : s[i] = t[i]
  BY <1>2, <1>4, <1>5
<1>7. s = t
  BY <1>2, <1>3, <1>6, SeqEqual
<1>8. QED
  BY <1>7 DEF s, t

LEMMA AtTheFront ==
  ASSUME NEW tbl \in [Cells -> Contents], NEW out \in Cells, NEW cnt \in 0 .. QSize - 1,
         NEW m \in Contents
  PROVE  Items([tbl EXCEPT ![Before(out)] = m], Before(out), cnt + 1)
           = <<m>> \o Items(tbl, out, cnt)
<1> DEFINE new == [tbl EXCEPT ![Before(out)] = m]
           s == Items(new, Before(out), cnt + 1)
           t == <<m>> \o Items(tbl, out, cnt)
<1>1. Before(out) \in Cells /\ new \in [Cells -> Contents]
  BY RingSize DEF Cells, Before
<1>2. s \in Seq(Contents) /\ Len(s) = cnt + 1
      /\ \A i \in 1 .. cnt + 1 : s[i] = new[Cell(Before(out) + i - 1)]
  <2> HIDE DEF new
  <2>1. cnt + 1 \in 0 .. QSize
    BY RingSize
  <2>2. QED
    BY <1>1, <2>1, ItemsType
<1>3. t \in Seq(Contents) /\ Len(t) = cnt + 1 /\ t[1] = m
      /\ \A i \in 1 .. cnt : t[i + 1] = tbl[Cell(out + i - 1)]
  <2>1. <<m>> \in Seq(Contents) /\ Len(<<m>>) = 1 /\ <<m>>[1] = m
    OBVIOUS
  <2> DEFINE q == Items(tbl, out, cnt)
  <2>2. q \in Seq(Contents) /\ Len(q) = cnt /\ \A i \in 1 .. cnt : q[i] = tbl[Cell(out + i - 1)]
    <3>1. cnt \in 0 .. QSize
      BY RingSize
    <3>2. QED
      BY <3>1, ItemsType
  <2> HIDE DEF q
  <2>3. /\ <<m>> \o q \in Seq(Contents) /\ Len(<<m>> \o q) = 1 + cnt
        /\ \A i \in 1 .. 1 + cnt : (<<m>> \o q)[i] = IF i <= 1 THEN <<m>>[i] ELSE q[i - 1]
    BY <2>1, <2>2, ConcatProperties
  <2>4. cnt \in Nat
    BY RingSize
  <2>5. \A i \in 1 .. cnt : i + 1 \in 1 .. 1 + cnt /\ ~(i + 1 <= 1) /\ (i + 1) - 1 = i
    BY <2>4
  <2>6. (<<m>> \o q)[1] = m
    BY <2>1, <2>3, <2>4
  <2>7. \A i \in 1 .. cnt : (<<m>> \o q)[i + 1] = q[i]
    BY <2>3, <2>5
  <2>8. QED
    BY <2>2, <2>3, <2>4, <2>6, <2>7 DEF q
<1>4. ASSUME NEW i \in 1 .. cnt PROVE s[i + 1] = t[i + 1]
  <2>1. /\ Cell(Before(out) + i) = Cell(out + i - 1)
        /\ Cell(out + i - 1) \in Cells /\ Cell(out + i - 1) # Before(out)
    <3>1. out + i - 1 \in Nat /\ out + i - 1 < 2 * QSize
          /\ Before(out) + i \in Nat /\ Before(out) + i < 2 * QSize
      BY RingSize DEF Cells, Before
    <3>2. QED
      BY <3>1, WrapsOnce, RingSize DEF Cells, Before
  <2>2. s[i + 1] = new[Cell(out + i - 1)]
    <3>1. i + 1 \in 1 .. cnt + 1 /\ Before(out) + (i + 1) - 1 = Before(out) + i
      BY <1>1, RingSize DEF Cells
    <3> HIDE DEF new, s
    <3>2. QED
      BY <1>2, <2>1, <3>1
  <2>3. QED
    BY <1>3, <2>1, <2>2
<1>5. s[1] = t[1]
  <2>1. Cell(Before(out)) = Before(out)
    BY <1>1, WrapsOnce, RingSize DEF Cells
  <2>2. 1 \in 1 .. cnt + 1 /\ Before(out) + 1 - 1 = Before(out)
    BY <1>1, RingSize DEF Cells
  <2>3. new[Before(out)] = m
    BY <1>1
  <2> HIDE DEF new, s, t
  <2>4. QED
    BY <1>2, <1>3, <2>1, <2>2, <2>3
<1> HIDE DEF s, t
<1>6. ASSUME NEW i \in 1 .. Len(s) PROVE s[i] = t[i]
  <2>1. CASE i = 1
    BY <1>5, <2>1
  <2>2. CASE i # 1
    <3>1. i - 1 \in 1 .. cnt /\ i = (i - 1) + 1
      BY <1>2, <2>2
    <3>2. QED
      BY <1>4, <3>1
  <2>3. QED
    BY <2>1, <2>2
<1>7. s = t
  BY <1>2, <1>3, <1>6, SeqEqual
<1>8. QED
  BY <1>7 DEF s, t

LEMMA FirstTaken ==
  ASSUME NEW tbl \in [Cells -> Contents], NEW out \in Cells, NEW cnt \in 1 .. QSize
  PROVE  /\ Cell(out + 1) = After(out) /\ After(out) \in Cells
         /\ Items(tbl, out, cnt) # <<>>
         /\ Items(tbl, After(out), cnt - 1) = Tail(Items(tbl, out, cnt))
<1> DEFINE s == Items(tbl, After(out), cnt - 1)
           t == Items(tbl, out, cnt)
<1>1. Cell(out + 1) = After(out) /\ After(out) \in Cells
  BY WrapsOnce, RingSize DEF Cells, After
<1>2. s \in Seq(Contents) /\ Len(s) = cnt - 1
      /\ \A i \in 1 .. cnt - 1 : s[i] = tbl[Cell(After(out) + i - 1)]
  <2>1. cnt - 1 \in 0 .. QSize
    BY RingSize
  <2>2. QED
    BY <1>1, <2>1, ItemsType
<1>3. t \in Seq(Contents) /\ Len(t) = cnt /\ \A i \in 1 .. cnt : t[i] = tbl[Cell(out + i - 1)]
  BY ItemsType, RingSize
<1>4. ASSUME NEW i \in 1 .. cnt - 1 PROVE s[i] = t[i + 1]
  <2>1. Cell(After(out) + i - 1) = Cell(out + (i + 1) - 1)
    <3>1. out + i \in Nat /\ out + i < 2 * QSize
          /\ After(out) + i - 1 \in Nat /\ After(out) + i - 1 < 2 * QSize
      BY <1>1, RingSize DEF Cells
    <3>2. QED
      BY <3>1, WrapsOnce, RingSize DEF Cells, After
  <2>2. QED
    BY <1>2, <1>3, <2>1
<1> HIDE DEF s, t
<1>5. t # <<>>
  BY <1>3
<1>6. Tail(t) \in Seq(Contents) /\ Len(Tail(t)) = cnt - 1 /\ \A i \in 1 .. cnt - 1 : Tail(t)[i] = t[i + 1]
  BY <1>3, <1>5, HeadTailProperties
<1>7. s = Tail(t)
  BY <1>2, <1>4, <1>6, SeqEqual
<1>8. QED
  BY <1>1, <1>5, <1>7 DEF s, t

-----------------------------------------------------------------------------
\* What a step may do to the line of messages of a queue: nothing, one message
\* more at the end or at the front, the first one taken, or, when the queue is
\* created or flushed, all thrown away.
QStep(e) ==
  \/ Queued(e)' = Queued(e)
  \/ \E m \in Messages : Queued(e)' \in {Append(Queued(e), m), <<m>> \o Queued(e)}
  \/ Queued(e) # <<>> /\ Queued(e)' = Tail(Queued(e))
  \/ Queued(e)' = <<>> /\ (OSQCreate(e) \/ OSQFlush(e))
Kept == RingOK' /\ \A e \in Events : QStep(e)

LEMMA QueuedIsItems ==
  \A e \in Events : /\ Queued(e) = Items(OSQTbl[e], OSQOut[e], OSQEntries[e])
                    /\ Queued(e)' = Items(OSQTbl'[e], OSQOut'[e], OSQEntries'[e])
BY DEF Queued, Items, Cell

\* The ring of one queue, its indices and its line.
Ring(tbl, in, out, cnt) ==
  /\ tbl \in [Cells -> Contents] /\ in \in Cells /\ out \in Cells /\ cnt \in 0 .. QSize
  /\ in = Cell(out + cnt)

LEMMA RingsApart ==
  /\ RingOK => \A e \in Events : Ring(OSQTbl[e], OSQIn[e], OSQOut[e], OSQEntries[e])
  /\ (/\ OSQTbl' = [e \in Events |-> OSQTbl'[e]]
      /\ OSQIn' = [e \in Events |-> OSQIn'[e]]
      /\ OSQOut' = [e \in Events |-> OSQOut'[e]]
      /\ OSQEntries' = [e \in Events |-> OSQEntries'[e]]
      /\ \A e \in Events : Ring(OSQTbl'[e], OSQIn'[e], OSQOut'[e], OSQEntries'[e]))
     => RingOK'
<1>1. RingOK => \A e \in Events : Ring(OSQTbl[e], OSQIn[e], OSQOut[e], OSQEntries[e])
  BY DEF RingOK, Ring
<1>2. ASSUME OSQTbl' = [e \in Events |-> OSQTbl'[e]],
             OSQIn' = [e \in Events |-> OSQIn'[e]],
             OSQOut' = [e \in Events |-> OSQOut'[e]],
             OSQEntries' = [e \in Events |-> OSQEntries'[e]],
             \A e \in Events : Ring(OSQTbl'[e], OSQIn'[e], OSQOut'[e], OSQEntries'[e])
      PROVE  RingOK'
  <2>1. OSQTbl' \in [Events -> [Cells -> Contents]]
    BY <1>2 DEF Ring
  <2>2. OSQIn' \in [Events -> Cells]
    BY <1>2 DEF Ring
  <2>3. OSQOut' \in [Events -> Cells]
    BY <1>2 DEF Ring
  <2>4. OSQEntries' \in [Events -> 0 .. QSize]
    BY <1>2 DEF Ring
  <2>5. \A e \in Events : OSQIn'[e] = Cell(OSQOut'[e] + OSQEntries'[e])
    BY <1>2 DEF Ring
  <2>6. QED
    BY <2>1, <2>2, <2>3, <2>4, <2>5 DEF RingOK, Cell, Cells, Contents
<1>3. QED
  BY <1>1, <1>2

\* Each change of one ring, for the indices after it.
LEMMA RingEmptied ==
  ASSUME NEW tbl \in [Cells -> Contents]
  PROVE  Ring(tbl, 0, 0, 0) /\ Items(tbl, 0, 0) = <<>>
<1>1. 0 \in Cells /\ 0 \in 0 .. QSize
  BY RingSize DEF Cells
<1>2. Cell(0 + 0) = 0
  BY WrapsOnce, RingSize
<1>3. Items(tbl, 0, 0) = <<>>
  BY DEF Items
<1>4. QED
  BY <1>1, <1>2, <1>3 DEF Ring

LEMMA RingInserted ==
  ASSUME NEW tbl, NEW in, NEW out, NEW cnt, NEW m \in Contents, NEW new,
         Ring(tbl, in, out, cnt), cnt < QSize, new = [tbl EXCEPT ![in] = m]
  PROVE  /\ Ring(new, After(in), out, cnt + 1)
         /\ Items(new, out, cnt + 1) = Append(Items(tbl, out, cnt), m)
<1>1. tbl \in [Cells -> Contents] /\ in \in Cells /\ out \in Cells /\ in = Cell(out + cnt)
  BY DEF Ring
<1>2. cnt \in 0 .. QSize - 1 /\ cnt + 1 \in 0 .. QSize
  BY RingSize DEF Ring
<1>3. After(in) = Cell(out + (cnt + 1)) /\ After(in) \in Cells
  <2>1. /\ out + cnt \in Nat /\ out + cnt < 2 * QSize
        /\ out + (cnt + 1) \in Nat /\ out + (cnt + 1) < 2 * QSize
    BY <1>1, <1>2, RingSize DEF Cells
  <2>2. QED
    BY <1>1, <1>2, <2>1, WrapsOnce, RingSize DEF Cells, After
<1>4. Items([tbl EXCEPT ![in] = m], out, cnt + 1) = Append(Items(tbl, out, cnt), m)
  BY <1>1, <1>2, AtTheEnd
<1>5. [tbl EXCEPT ![in] = m] \in [Cells -> Contents]
  BY <1>1
<1>6. QED
  BY <1>1, <1>2, <1>3, <1>4, <1>5 DEF Ring

LEMMA RingInsertedFront ==
  ASSUME NEW tbl, NEW in, NEW out, NEW cnt, NEW m \in Contents, NEW new,
         Ring(tbl, in, out, cnt), cnt < QSize, new = [tbl EXCEPT ![Before(out)] = m]
  PROVE  /\ Ring(new, in, Before(out), cnt + 1)
         /\ Items(new, Before(out), cnt + 1) = <<m>> \o Items(tbl, out, cnt)
<1>1. tbl \in [Cells -> Contents] /\ in \in Cells /\ out \in Cells /\ in = Cell(out + cnt)
  BY DEF Ring
<1>2. cnt \in 0 .. QSize - 1 /\ cnt + 1 \in 0 .. QSize
  BY RingSize DEF Ring
<1>3. Before(out) \in Cells
  BY <1>1, RingSize DEF Cells, Before
<1>4. in = Cell(Before(out) + (cnt + 1))
  <2>1. /\ out + cnt \in Nat /\ out + cnt < 2 * QSize
        /\ Before(out) + (cnt + 1) \in Nat /\ Before(out) + (cnt + 1) < 2 * QSize
    BY <1>1, <1>2, RingSize DEF Cells, Before
  <2>2. QED
    BY <1>1, <1>2, <2>1, WrapsOnce, RingSize DEF Cells, Before
<1>5. Items([tbl EXCEPT ![Before(out)] = m], Before(out), cnt + 1) = <<m>> \o Items(tbl, out, cnt)
  BY <1>1, <1>2, AtTheFront
<1>6. [tbl EXCEPT ![Before(out)] = m] \in [Cells -> Contents]
  BY <1>1
<1>7. QED
  BY <1>1, <1>2, <1>3, <1>4, <1>5, <1>6 DEF Ring

LEMMA RingRemoved ==
  ASSUME NEW tbl, NEW in, NEW out, NEW cnt, Ring(tbl, in, out, cnt), cnt > 0
  PROVE  /\ (out + 1) % QSize = After(out)
         /\ Ring(tbl, in, After(out), cnt - 1)
         /\ Items(tbl, out, cnt) # <<>>
         /\ Items(tbl, After(out), cnt - 1) = Tail(Items(tbl, out, cnt))
<1>1. tbl \in [Cells -> Contents] /\ in \in Cells /\ out \in Cells /\ in = Cell(out + cnt)
  BY DEF Ring
<1>2. cnt \in 1 .. QSize /\ cnt - 1 \in 0 .. QSize
  BY RingSize DEF Ring
<1>3. /\ Cell(out + 1) = After(out) /\ After(out) \in Cells /\ Items(tbl, out, cnt) # <<>>
      /\ Items(tbl, After(out), cnt - 1) = Tail(Items(tbl, out, cnt))
  BY <1>1, <1>2, FirstTaken
<1>4. in = Cell(After(out) + (cnt - 1))
  <2>1. /\ out + cnt \in Nat /\ out + cnt < 2 * QSize
        /\ After(out) + (cnt - 1) \in Nat /\ After(out) + (cnt - 1) < 2 * QSize
    BY <1>1, <1>2, <1>3, RingSize DEF Cells
  <2>2. QED
    BY <1>1, <1>2, <2>1, WrapsOnce, RingSize DEF Cells, After
<1>5. QED
  BY <1>1, <1>2, <1>3, <1>4 DEF Ring, Cell

-----------------------------------------------------------------------------
\* The same for the queues, one or several of which a step changes.
LEMMA EachKept ==
  ASSUME RingOK,
         OSQTbl' = [e \in Events |-> OSQTbl'[e]], OSQIn' = [e \in Events |-> OSQIn'[e]],
         OSQOut' = [e \in Events |-> OSQOut'[e]],
         OSQEntries' = [e \in Events |-> OSQEntries'[e]],
         \A e \in Events : /\ Ring(OSQTbl'[e], OSQIn'[e], OSQOut'[e], OSQEntries'[e])
                           /\ QStep(e)
  PROVE  Kept
BY RingsApart DEF Kept

LEMMA Untouched ==
  ASSUME RingOK, UNCHANGED queue
  PROVE  Kept
<1>1. RingOK'
  BY DEF RingOK, queue
<1>2. \A e \in Events : Queued(e)' = Queued(e)
  BY QueuedIsItems DEF queue
<1>3. QED
  BY <1>1, <1>2 DEF Kept, QStep

LEMMA EmptiedKept ==
  ASSUME RingOK, NEW e \in Events, OSQCreate(e) \/ OSQFlush(e)
  PROVE  Kept
<1>1. /\ OSQTbl' = OSQTbl /\ OSQIn' = [OSQIn EXCEPT ![e] = 0]
      /\ OSQOut' = [OSQOut EXCEPT ![e] = 0] /\ OSQEntries' = [OSQEntries EXCEPT ![e] = 0]
  BY DEF OSQCreate, OSQFlush, Emptied
<1>2. /\ OSQTbl \in [Events -> [Cells -> Contents]] /\ OSQIn \in [Events -> Cells]
      /\ OSQOut \in [Events -> Cells] /\ OSQEntries \in [Events -> 0 .. QSize]
      /\ \A f \in Events : Ring(OSQTbl[f], OSQIn[f], OSQOut[f], OSQEntries[f])
  BY RingsApart DEF RingOK
<1>3. ASSUME NEW f \in Events
      PROVE  Ring(OSQTbl'[f], OSQIn'[f], OSQOut'[f], OSQEntries'[f]) /\ QStep(f)
  <2>1. CASE f = e
    <3>1. OSQTbl'[f] = OSQTbl[f] /\ OSQIn'[f] = 0 /\ OSQOut'[f] = 0 /\ OSQEntries'[f] = 0
      BY <1>1, <1>2, <2>1
    <3>2. Ring(OSQTbl[f], 0, 0, 0) /\ Items(OSQTbl[f], 0, 0) = <<>>
      BY <1>2, RingEmptied
    <3>3. Queued(f)' = <<>>
      BY <3>1, <3>2, QueuedIsItems
    <3>4. QED
      BY <2>1, <3>1, <3>2, <3>3 DEF QStep
  <2>2. CASE f # e
    <3>1. /\ OSQTbl'[f] = OSQTbl[f] /\ OSQIn'[f] = OSQIn[f]
          /\ OSQOut'[f] = OSQOut[f] /\ OSQEntries'[f] = OSQEntries[f]
      BY <1>1, <1>2, <2>2
    <3>2. QED
      BY <1>2, <3>1, QueuedIsItems DEF QStep
  <2>3. QED
    BY <2>1, <2>2
<1>4. /\ OSQTbl' = [f \in Events |-> OSQTbl'[f]] /\ OSQIn' = [f \in Events |-> OSQIn'[f]]
      /\ OSQOut' = [f \in Events |-> OSQOut'[f]]
      /\ OSQEntries' = [f \in Events |-> OSQEntries'[f]]
  BY <1>1, <1>2
<1>5. QED
  BY <1>3, <1>4, EachKept

LEMMA InsertedKept ==
  ASSUME RingOK, NEW e \in Events, NEW m \in Messages, OSQEntries[e] < QSize,
         Inserted(e, m) \/ InsertedFront(e, m)
  PROVE  Kept
<1>1. /\ OSQTbl \in [Events -> [Cells -> Contents]] /\ OSQIn \in [Events -> Cells]
      /\ OSQOut \in [Events -> Cells] /\ OSQEntries \in [Events -> 0 .. QSize]
      /\ \A f \in Events : Ring(OSQTbl[f], OSQIn[f], OSQOut[f], OSQEntries[f])
  BY RingsApart DEF RingOK
<1>2. m \in Contents
  BY DEF Contents
<1>3. /\ OSQTbl' = [f \in Events |-> OSQTbl'[f]] /\ OSQIn' = [f \in Events |-> OSQIn'[f]]
      /\ OSQOut' = [f \in Events |-> OSQOut'[f]]
      /\ OSQEntries' = [f \in Events |-> OSQEntries'[f]]
  BY <1>1 DEF Inserted, InsertedFront
<1>4. ASSUME NEW f \in Events, f # e
      PROVE  Ring(OSQTbl'[f], OSQIn'[f], OSQOut'[f], OSQEntries'[f]) /\ QStep(f)
  <2>1. /\ OSQTbl'[f] = OSQTbl[f] /\ OSQIn'[f] = OSQIn[f]
        /\ OSQOut'[f] = OSQOut[f] /\ OSQEntries'[f] = OSQEntries[f]
    BY <1>1, <1>4 DEF Inserted, InsertedFront
  <2>2. QED
    BY <1>1, <2>1, QueuedIsItems DEF QStep
<1>5. Ring(OSQTbl'[e], OSQIn'[e], OSQOut'[e], OSQEntries'[e]) /\ QStep(e)
  <2>1. CASE Inserted(e, m)
    <3>1. /\ OSQTbl'[e] = [OSQTbl[e] EXCEPT ![OSQIn[e]] = m] /\ OSQIn'[e] = After(OSQIn[e])
          /\ OSQOut'[e] = OSQOut[e] /\ OSQEntries'[e] = OSQEntries[e] + 1
      BY <1>1, <2>1 DEF Inserted
    <3>2. /\ Ring(OSQTbl'[e], OSQIn'[e], OSQOut'[e], OSQEntries'[e])
          /\ Items(OSQTbl'[e], OSQOut'[e], OSQEntries'[e])
               = Append(Items(OSQTbl[e], OSQOut[e], OSQEntries[e]), m)
      <4>1. Ring(OSQTbl[e], OSQIn[e], OSQOut[e], OSQEntries[e])
        BY <1>1
      <4>2. /\ Ring(OSQTbl'[e], After(OSQIn[e]), OSQOut[e], OSQEntries[e] + 1)
            /\ Items(OSQTbl'[e], OSQOut[e], OSQEntries[e] + 1)
                 = Append(Items(OSQTbl[e], OSQOut[e], OSQEntries[e]), m)
        BY <1>2, <3>1, <4>1, RingInserted
      <4>3. QED
        BY <3>1, <4>2
    <3>3. QED
      BY <3>2, QueuedIsItems DEF QStep
  <2>2. CASE InsertedFront(e, m)
    <3>1. /\ OSQTbl'[e] = [OSQTbl[e] EXCEPT ![Before(OSQOut[e])] = m] /\ OSQIn'[e] = OSQIn[e]
          /\ OSQOut'[e] = Before(OSQOut[e]) /\ OSQEntries'[e] = OSQEntries[e] + 1
      BY <1>1, <2>2 DEF InsertedFront
    <3>2. /\ Ring(OSQTbl'[e], OSQIn'[e], OSQOut'[e], OSQEntries'[e])
          /\ Items(OSQTbl'[e], OSQOut'[e], OSQEntries'[e])
               = <<m>> \o Items(OSQTbl[e], OSQOut[e], OSQEntries[e])
      <4>1. Ring(OSQTbl[e], OSQIn[e], OSQOut[e], OSQEntries[e])
        BY <1>1
      <4>2. /\ Ring(OSQTbl'[e], OSQIn[e], Before(OSQOut[e]), OSQEntries[e] + 1)
            /\ Items(OSQTbl'[e], Before(OSQOut[e]), OSQEntries[e] + 1)
                 = <<m>> \o Items(OSQTbl[e], OSQOut[e], OSQEntries[e])
        BY <1>2, <3>1, <4>1, RingInsertedFront
      <4>3. QED
        BY <3>1, <4>2
    <3>3. QED
      BY <3>2, QueuedIsItems DEF QStep
  <2>3. QED
    BY <2>1, <2>2
<1>6. QED
  BY <1>3, <1>4, <1>5, EachKept

\* The first messages of the queues of E are taken.
Taken(E) == /\ \A e \in E : OSQEntries[e] > 0
            /\ OSQOut' = [e \in Events |-> IF e \in E THEN After(OSQOut[e]) ELSE OSQOut[e]]
            /\ OSQEntries' = [e \in Events |-> IF e \in E THEN OSQEntries[e] - 1
                                               ELSE OSQEntries[e]]
            /\ UNCHANGED <<OSQTbl, OSQIn>>

LEMMA TakenKept ==
  ASSUME RingOK, NEW E \in SUBSET Events, Taken(E)
  PROVE  Kept
<1>1. /\ OSQTbl \in [Events -> [Cells -> Contents]] /\ OSQIn \in [Events -> Cells]
      /\ OSQOut \in [Events -> Cells] /\ OSQEntries \in [Events -> 0 .. QSize]
      /\ \A f \in Events : Ring(OSQTbl[f], OSQIn[f], OSQOut[f], OSQEntries[f])
  BY RingsApart DEF RingOK
<1>2. /\ OSQTbl' = [f \in Events |-> OSQTbl'[f]] /\ OSQIn' = [f \in Events |-> OSQIn'[f]]
      /\ OSQOut' = [f \in Events |-> OSQOut'[f]]
      /\ OSQEntries' = [f \in Events |-> OSQEntries'[f]]
  BY <1>1 DEF Taken
<1>3. ASSUME NEW f \in Events
      PROVE  Ring(OSQTbl'[f], OSQIn'[f], OSQOut'[f], OSQEntries'[f]) /\ QStep(f)
  <2>1. CASE f \in E
    <3>1. /\ OSQTbl'[f] = OSQTbl[f] /\ OSQIn'[f] = OSQIn[f] /\ OSQEntries[f] > 0
          /\ OSQOut'[f] = After(OSQOut[f]) /\ OSQEntries'[f] = OSQEntries[f] - 1
      BY <2>1 DEF Taken
    <3>2. Ring(OSQTbl[f], OSQIn[f], OSQOut[f], OSQEntries[f])
      BY <1>1
    <3>3. /\ Ring(OSQTbl[f], OSQIn[f], After(OSQOut[f]), OSQEntries[f] - 1)
          /\ Items(OSQTbl[f], OSQOut[f], OSQEntries[f]) # <<>>
          /\ Items(OSQTbl[f], After(OSQOut[f]), OSQEntries[f] - 1)
               = Tail(Items(OSQTbl[f], OSQOut[f], OSQEntries[f]))
      BY <3>1, <3>2, RingRemoved
    <3>4. QED
      BY <3>1, <3>3, QueuedIsItems DEF QStep
  <2>2. CASE f \notin E
    <3>1. /\ OSQTbl'[f] = OSQTbl[f] /\ OSQIn'[f] = OSQIn[f]
          /\ OSQOut'[f] = OSQOut[f] /\ OSQEntries'[f] = OSQEntries[f]
      BY <2>2 DEF Taken
    <3>2. QED
      BY <1>1, <3>1, QueuedIsItems DEF QStep
  <2>3. QED
    BY <2>1, <2>2
<1>4. QED
  BY <1>2, <1>3, EachKept

LEMMA RemovedKept ==
  ASSUME RingOK, NEW e \in Events, OSQEntries[e] > 0, Removed(e)
  PROVE  Kept
<1>1. Taken({e})
  BY DEF Removed, Taken, RingOK
<1>2. QED
  BY <1>1, TakenKept

-----------------------------------------------------------------------------
\* The services of queues, and of several events at once.
LEMMA QServiceKeeps ==
  ASSUME RingOK, NEW e \in Events, QService(e)
  PROVE  Kept
<1>1. CASE OSQCreate(e) \/ OSQFlush(e)
  BY <1>1, EmptiedKept
<1>2. CASE OSQAccept(e)
  BY <1>2, RemovedKept DEF OSQAccept
<1>3. CASE \E n \in Timeouts : OSQPend(e, n)
  BY <1>3, RemovedKept, Untouched DEF OSQPend
<1>4. ASSUME NEW m \in Messages, NEW front, NEW broadcast, NEW nosched,
             OSQPostOpt(e, m, front, broadcast, nosched)
      PROVE  Kept
  <2>1. CASE UNCHANGED queue
    BY <2>1, Untouched
  <2>2. CASE OSQEntries[e] < QSize /\ (Inserted(e, m) \/ InsertedFront(e, m))
    BY <2>2, InsertedKept
  <2>3. QED
    BY <1>4, <2>1, <2>2 DEF OSQPostOpt
<1>5. CASE \E m \in Messages : \/ OSQPost(e, m) \/ OSQPostFront(e, m)
                               \/ \E front, broadcast, nosched \in BOOLEAN :
                                    OSQPostOpt(e, m, front, broadcast, nosched)
  BY <1>4, <1>5 DEF OSQPost, OSQPostFront
<1>6. CASE OSQDel(e) \/ OSQPendAbort(e)
  BY <1>6, Untouched DEF OSQDel, OSQPendAbort, PendAbort
<1>7. QED
  BY <1>1, <1>2, <1>3, <1>5, <1>6 DEF QService

LEMMA PendMultiKeeps ==
  ASSUME RingOK, NEW E \in SUBSET Events, NEW n, OSEventPendMulti(E, n)
  PROVE  Kept
<1> DEFINE Q == {e \in E : Full(e) /\ OSEventType[e] = "Q"}
<1>1. CASE UNCHANGED <<OSQOut, OSQEntries>>
  BY <1>1, Untouched DEF OSEventPendMulti, queue
<1>2. CASE /\ OSQOut' = [e \in Events |-> IF e \in Q THEN (OSQOut[e] + 1) % QSize ELSE OSQOut[e]]
           /\ OSQEntries' = [e \in Events |-> IF e \in Q THEN OSQEntries[e] - 1 ELSE OSQEntries[e]]
  <2>1. \A e \in Q : e \in Events /\ OSQEntries[e] > 0
    BY DEF Full
  <2>2. \A e \in Q : (OSQOut[e] + 1) % QSize = After(OSQOut[e])
    BY <2>1, RingsApart, RingRemoved
  <2>3. UNCHANGED <<OSQTbl, OSQIn>>
    BY DEF OSEventPendMulti
  <2> HIDE DEF Q
  <2>4. Taken(Q)
    BY <1>2, <2>1, <2>2, <2>3 DEF Taken
  <2>5. QED
    BY <2>1, <2>4, TakenKept
<1>3. QED
  BY <1>1, <1>2 DEF OSEventPendMulti

\* Every other service leaves the queues alone.
LEMMA OthersKeep ==
  ASSUME \/ Scheduler \/ Continue
         \/ \E p \in Slots : TaskService(p)
         \/ \E e \in InUse : SemService(e) \/ MutexService(e) \/ MboxService(e)
         \/ FlagService
         \/ \E n \in 1 .. MaxDly : OSTimeDly(n)
  PROVE  UNCHANGED queue
<1>1. CASE Scheduler
  BY <1>1 DEF Scheduler, OS_Sched, OSIntEnter, OSIntExit, OSTimeTick, OSSchedLock, OSSchedUnlock
<1>2. CASE Continue
  BY <1>2 DEF Continue, OS_TCBInit, OSSemPendReturns, OSMutexPendReturns, OSMboxPendReturns,
              OSQPendReturns, PendReturns, OSEventPendMultiReturns, OSFlagPendReturns
<1>3. CASE \E p \in Slots : TaskService(p)
  BY <1>3 DEF TaskService, OSTaskCreate, OSTaskDel, OSTaskChangePrio, OSTaskSuspend,
              OSTaskResume, OSTimeDlyResume
<1>4. CASE \E e \in InUse : SemService(e)
  BY <1>4 DEF SemService, OSSemCreate, OSSemSet, OSSemPend, OSSemAccept, OSSemPost, OSSemDel,
              OSSemPendAbort, PendAbort, OnlyCount
<1>5. CASE \E e \in InUse : MutexService(e)
  <2>1. PICK e \in InUse : MutexService(e)
    BY <1>5
  <2>2. Seize(e) => UNCHANGED queue
    BY DEF Seize
  <2>3. (\E pip \in Pip : OSMutexCreate(e, pip)) \/ OSMutexPost(e) => UNCHANGED queue
    BY DEF OSMutexCreate, OSMutexPost
  <2>4. \A n : OSMutexPend(e, n) => UNCHANGED queue
    BY <2>2 DEF OSMutexPend
  <2>5. \A always : OSMutexDel(e, always) => UNCHANGED queue
    BY DEF OSMutexDel
  <2>6. QED
    BY <2>1, <2>2, <2>3, <2>4, <2>5 DEF MutexService, OSMutexAccept
<1>6. CASE \E e \in InUse : MboxService(e)
  BY <1>6 DEF MboxService, OSMboxCreate, OSMboxPend, OSMboxAccept, OSMboxPost, OSMboxPostOpt,
              OSMboxDel, OSMboxPendAbort, PendAbort, OnlyBox
<1>7. CASE FlagService
  BY <1>7 DEF FlagService, OSFlagCreate, OSFlagPost, OSFlagAccept, OSFlagPend, OSFlagDel, OnlyFlags
<1>8. CASE \E n \in 1 .. MaxDly : OSTimeDly(n)
  BY <1>8 DEF OSTimeDly
<1>9. QED
  BY <1>1, <1>2, <1>3, <1>4, <1>5, <1>6, <1>7, <1>8

-----------------------------------------------------------------------------
LEMMA RingInit == Init => RingOK
<1> SUFFICES ASSUME Init PROVE RingOK
  OBVIOUS
<1>1. /\ OSQTbl = [e \in Events |-> [i \in 0 .. QSize - 1 |-> NULL]]
      /\ OSQIn = [e \in Events |-> 0] /\ OSQOut = [e \in Events |-> 0]
      /\ OSQEntries = [e \in Events |-> 0]
  BY DEF Init, Boot
<1>2. 0 \in Cells /\ 0 \in 0 .. QSize /\ Cell(0 + 0) = 0
  BY WrapsOnce, RingSize DEF Cells
<1>3. QED
  BY <1>1, <1>2 DEF RingOK, Cells, Contents

LEMMA RingNext == RingOK /\ [Next]_kernel => Kept
<1> SUFFICES ASSUME RingOK, [Next]_kernel PROVE Kept
  OBVIOUS
<1>1. CASE UNCHANGED kernel
  BY <1>1, Untouched DEF kernel
<1>2. CASE \E e \in InUse : QService(e)
  BY <1>2, QServiceKeeps DEF InUse
<1>3. CASE \E E \in SUBSET InUse, n \in Timeouts : OSEventPendMulti(E, n)
  BY <1>3, PendMultiKeeps DEF InUse
<1>4. CASE \/ Scheduler \/ Continue
           \/ \E p \in Slots : TaskService(p)
           \/ \E e \in InUse : SemService(e) \/ MutexService(e) \/ MboxService(e)
           \/ FlagService
           \/ \E n \in 1 .. MaxDly : OSTimeDly(n)
  BY <1>4, OthersKeep, Untouched
<1>5. QED
  BY <1>1, <1>2, <1>3, <1>4 DEF Next

\* Whatever the application does, the indices of every queue stay in its ring and
\* OSQIn, which OSQPost and OSQFlush move on their own, agrees with OSQOut and
\* OSQEntries, which the other services and OSEventPendMulti move.
THEOREM RingsWellFormed == Spec => []RingOK
<1>1. RingOK /\ [Next]_kernel => RingOK'
  BY RingNext DEF Kept
<1>2. QED
  BY RingInit, <1>1, PTL DEF Spec

\* Whatever the application does and wherever the ring wraps, a message enters a
\* queue behind the last one or before the first one, leaves it from the front,
\* one at a time, and is thrown away only when the queue is created or flushed.
THEOREM QueuesAreLines == Spec => [][\A e \in Events : QStep(e)]_queue
<1>1. RingOK /\ [Next]_kernel => [\A e \in Events : QStep(e)]_queue
  BY RingNext DEF Kept
<1>2. QED
  BY RingsWellFormed, <1>1, PTL DEF Spec
-----------------------------------------------------------------------------

\* The tables agree in every application: the parts of the invariant.
Present == Live \cup {Idle}
Mutexes == {e \in Events : OSEventType[e] = "MUTEX"}
Single == {"SEM", "MUTEX", "MBOX", "Q"}

\* What an application does not use leaves no trace.
UsedOnly ==
  /\ \A t \in TCBs : inCall[t] # "none" => inCall[t] \in app
  /\ \A e \in Events : OSEventType[e] # "UNUSED" => e \in app /\ OSEventType[e] \in app
  /\ \A t \in TCBs : "SUSPEND" \in OSTCBStat[t] => "SUSPEND" \in app
  /\ \A t \in TCBs : creating[t] # NULL => "TASKS" \in app
  /\ \A t \in TCBs : inCall[t] = "none" /\ OSTCBDly[t] # 0 => "DELAY" \in app
  /\ OSLockNesting > 0 => "LOCK" \in app

\* A wait list, the ready table and the list of flag waiters name tasks that exist,
\* by their present priority.
ListsNameTasks ==
  /\ \A e \in Events : \A p \in OSEventTbl[e] :
       OSTCBPrioTbl[p] \in Live /\ OSTCBPrio[OSTCBPrioTbl[p]] = p
  /\ \A p \in OSRdyTbl : OSTCBPrioTbl[p] \in Present /\ OSTCBPrio[OSTCBPrioTbl[p]] = p
  /\ OSFlagWaitList \subseteq Live
  /\ \A e \in Events : OSEventType[e] = "UNUSED" => OSEventTbl[e] = {}
  /\ OSFlagType = "UNUSED" => OSFlagWaitList = {}

\* The standing of a task: it is in no call; or in a call in which it waits, has
\* been timed out and is still in the wait lists, or has been served.  Of its fields
\* in is the set of events in whose lists it is, links what the list of flag waiters
\* has of it and runs what the ready table has.  Rest is what its status may keep
\* in a later call: the suspension or, with the event pointers, what a wait for
\* several events has left that ended with the deletion of the event.
Standing(t) ==
  [stat |-> OSTCBStat[t], pend |-> OSTCBStatPend[t], dly |-> OSTCBDly[t],
   ev |-> OSTCBEventPtr[t], multi |-> OSTCBEventMultiPtr[t], call |-> inCall[t],
   in |-> WaitsIn(t), links |-> OSFlagWaitList \cap {t}, runs |-> OSRdyTbl \cap {OSTCBPrio[t]}]

Rest(s) == IF s.multi = {} THEN {"SUSPEND"} ELSE {"MULTI", "SEM", "MBOX", "Q"}

InNoCall(s) ==
  /\ s.call = "none" /\ s.stat \subseteq Rest(s) /\ s.in = {} /\ s.links = {}
  /\ \/ s.multi = {} /\ s.ev = NULL /\ s.pend = "OK"
     \/ s.multi # {} /\ s.ev \in Events /\ s.pend \in {"OK", "TO"}

InSingle(s) ==
  /\ s.call \in Single /\ s.ev \in Events /\ s.links = {} /\ s.stat \subseteq Rest(s) \cup {s.call}
  /\ \/ s.in = {s.ev} /\ s.call \in s.stat /\ s.pend = "OK"
     \/ s.in = {s.ev} /\ s.call \notin s.stat /\ s.pend = "TO" /\ s.dly = 0
     \/ s.in = {} /\ s.call \notin s.stat /\ s.pend \in {"OK", "ABORT"} /\ s.dly = 0

InMulti(s) ==
  /\ s.call = "MULTI" /\ s.multi # {} /\ s.links = {} /\ s.stat \subseteq Rest(s)
  /\ \/ s.in = s.multi /\ s.ev = NULL /\ s.stat \cap PendAny # {} /\ s.pend = "OK"
     \/ s.in = s.multi /\ s.ev = NULL /\ s.stat \cap PendAny = {} /\ s.pend = "TO" /\ s.dly = 0
     \/ s.in = {} /\ s.ev \in Events /\ s.pend \in {"OK", "ABORT"} /\ s.dly = 0

InFlag(s) ==
  /\ s.call = "FLAG" /\ s.multi = {} /\ s.ev = NULL /\ s.in = {}
  /\ \/ s.links # {} /\ "FLAG" \in s.stat /\ s.stat \subseteq {"FLAG", "SUSPEND"} /\ s.pend = "OK"
     \/ s.links # {} /\ s.stat \subseteq {"SUSPEND"} /\ s.pend = "TO" /\ s.dly = 0
     \/ s.links = {} /\ s.stat \subseteq {"SUSPEND"} /\ s.pend = "OK" /\ s.dly = 0

\* ... and it is in the ready table just when nothing holds it back.
Consistent(s) ==
  /\ InNoCall(s) \/ InSingle(s) \/ InMulti(s) \/ InFlag(s)
  /\ s.runs # {} <=> /\ "SUSPEND" \notin s.stat /\ s.dly = 0
                     /\ (s.in = {} /\ s.links = {}) \/ s.pend = "TO"

Standings ==
  \A t \in Live :
    /\ Consistent(Standing(t))
    /\ \A e \in WaitsIn(t) :
         \/ inCall[t] = OSEventType[e]
         \/ inCall[t] = "MULTI" /\ OSEventType[e] \in {"SEM", "MBOX", "Q"}
    /\ inCall[t] = "FLAG" => node[t] \in Wants

\* A priority names a task that has it, or that will have it back; a reserved one is
\* a mutex's or that of a task under creation.
Names ==
  /\ OSTCBPrio[Idle] = IdlePrio /\ OSTCBPrioTbl[IdlePrio] = Idle
  /\ \A t \in Tasks : OSTCBPrio[t] \in Prios
  /\ \A p \in Prios : OSTCBPrioTbl[p] # Idle
  /\ \A p \in Prios : OSTCBPrioTbl[p] \in Tasks => OSTCBPrioTbl[p] \in Live

Creations ==
  /\ \A t \in TCBs \ Live : inCall[t] = "none" /\ creating[t] = NULL
  /\ \A t \in TCBs : creating[t] # NULL =>
       /\ inCall[t] = "none" /\ OSTCBPrioTbl[creating[t]] = RESERVED
       /\ \A u \in TCBs : creating[u] = creating[t] => u = t

\* A mutex has a PIP of its own, and an owner while it is not available; the owner
\* has its own priority or the PIP.
Owner(e) == OSEventPtr[e]
MutexesOwned ==
  /\ \A e \in Events : OSMutexPIP[e] # NULL <=> e \in Mutexes
  /\ \A e, f \in Mutexes : OSMutexPIP[e] = OSMutexPIP[f] => e = f
  /\ \A e \in Mutexes : IF OSEventCnt[e] = Available THEN Owner(e) = NULL ELSE Owner(e) \in Tasks
  /\ \A e \in Mutexes : Owner(e) # NULL =>
       /\ Owner(e) \in Live
       /\ OSEventCnt[e] = Base[Owner(e)] /\ OSTCBPrioTbl[OSEventCnt[e]] = Owner(e)
       /\ OSTCBPrio[Owner(e)] \in {OSEventCnt[e], OSMutexPIP[e]}
  /\ \A e \in Mutexes : OSTCBPrioTbl[OSMutexPIP[e]] = IF Raised(e) THEN Owner(e) ELSE RESERVED
  /\ \A e, f \in Mutexes : Owner(e) = Owner(f) /\ Owner(e) # NULL => e = f
  /\ "MUTEX" \in app => \A t \in Tasks :
       OSTCBPrio[t] = Base[t] \/ \E e \in Mutexes : Owner(e) = t /\ OSTCBPrio[t] = OSMutexPIP[e]

\* An owner has not been timed out and waits for no other mutex; a task served with
\* a mutex owns it.
OwnersWait ==
  /\ \A e \in Mutexes : Owner(e) # NULL /\ inCall[Owner(e)] # "none" =>
       OSTCBDly[Owner(e)] = 0 /\ OSTCBStatPend[Owner(e)] # "TO"
  /\ \A t \in Live : inCall[t] = "MUTEX" /\ WaitsIn(t) = {} /\ OSTCBStatPend[t] = "OK" =>
       OSTCBEventPtr[t] \in Mutexes /\ Owner(OSTCBEventPtr[t]) = t
  /\ \A e, f \in Mutexes : \A t \in Live : e \in WaitsIn(t) /\ Owner(f) = t => e = f
  /\ \A e \in Events \ Mutexes : inside[e] = {}

\* The processor: the running task has the priority it was chosen for, unless it has
\* been lowered since, and it is ready, outside interrupts and the calls that end it.
Switches == OSIntNesting = 0 /\ OSLockNesting = 0 /\ OSTCBCur \notin toSched
Lowered == Demoted /\ "MUTEX" \in app
Processor ==
  /\ toSched \subseteq Tasks
  /\ OSTCBCur \in Present \/ ("TASKS" \in app /\ OSTCBCur \in toSched)
  /\ OSTCBPrioTbl[OSPrioCur] \in Present /\ OSTCBPrio[OSTCBPrioTbl[OSPrioCur]] = OSPrioCur
       => OSTCBPrioTbl[OSPrioCur] = OSTCBCur
  /\ \/ OSPrioCur = OSTCBPrio[OSTCBCur]
     \/ Lowered
     \/ app \cap {"CHANGE", "TASKS"} # {} /\ OSTCBCur \in toSched
  /\ Switches => OSTCBPrio[OSTCBCur] \in OSRdyTbl
  /\ OSLockNesting > 0 => inCall[OSTCBCur] = "none"
  /\ Switches /\ Lowered =>
       \A e \in Mutexes : OSMutexPIP[e] = OSPrioCur => Owner(e) \in {NULL, OSTCBCur}
  /\ Switches /\ ~owed => Lowered \/ \A q \in OSRdyTbl : OSTCBPrio[OSTCBCur] <= q

-----------------------------------------------------------------------------
\* The standings follow one another: a waiter of event e is served or let go ...
LEMMA Woken ==
  ASSUME NEW s, NEW z, Consistent(s), NEW e \in Events, e \in s.in,
         z.stat = s.stat \ {s.call} \/ (s.call = "MULTI" /\ z.stat \subseteq s.stat),
         z.pend \in {"OK", "ABORT"}, z.dly = 0, z.ev = (IF s.multi # {} THEN e ELSE s.ev),
         z.multi = s.multi, z.call = s.call, z.in = s.in \ ({e} \cup s.multi), z.links = s.links,
         z.runs # {} <=> (s.runs # {} \/ "SUSPEND" \notin s.stat)
  PROVE  Consistent(z)
<1>1. CASE InNoCall(s)
  BY <1>1 DEF InNoCall
<1>2. CASE InSingle(s)
  <2>1. s.in = {e} /\ s.ev = e /\ s.call \notin {"MULTI", "SUSPEND"}
    BY <1>2 DEF InSingle, Single
  <2>2. z.stat = s.stat \ {s.call} /\ z.in = {} /\ z.ev = s.ev
    BY <1>2, <2>1 DEF InSingle
  <2>3. InSingle(z)
    BY <1>2, <2>2 DEF InSingle, Rest
  <2>4. QED
    BY <1>2, <2>1, <2>2, <2>3 DEF Consistent, InSingle
<1>3. CASE InMulti(s)
  <2>1. s.in = s.multi /\ z.in = {} /\ s.multi # {} /\ z.ev = e
    BY <1>3 DEF InMulti
  <2>2. InMulti(z)
    BY <1>3, <2>1 DEF InMulti, Rest
  <2>3. QED
    BY <1>3, <2>1, <2>2 DEF Consistent, InMulti, Rest
<1>4. CASE InFlag(s)
  BY <1>4 DEF InFlag
<1>5. QED
  BY <1>1, <1>2, <1>3, <1>4 DEF Consistent

\* ... its wait, or a delay, has run out ...
LEMMA TimedOut ==
  ASSUME NEW s, NEW z, Consistent(s), s.dly # 0, z.stat = s.stat \ PendAny,
         z.pend = (IF s.stat \cap PendAny # {} THEN "TO" ELSE "OK"), z.dly = 0, z.ev = s.ev,
         z.multi = s.multi, z.call = s.call, z.in = s.in, z.links = s.links,
         z.runs # {} <=> (s.runs # {} \/ "SUSPEND" \notin s.stat)
  PROVE  Consistent(z)
<1>1. "SUSPEND" \in s.stat <=> "SUSPEND" \in z.stat
  BY DEF PendAny
<1>2. CASE InNoCall(s)
  <2>1. s.multi = {} => s.stat \cap PendAny = {}
    BY <1>2 DEF InNoCall, Rest, PendAny
  <2>2. InNoCall(z)
    BY <1>2, <2>1 DEF InNoCall, Rest
  <2>3. QED
    BY <1>1, <1>2, <2>2 DEF InNoCall, Consistent
<1>3. CASE InSingle(s)
  <2>1. s.call \in s.stat \cap PendAny /\ s.call \notin z.stat /\ s.in = {s.ev}
    BY <1>3 DEF InSingle, Single, PendAny
  <2>2. InSingle(z)
    BY <1>3, <2>1 DEF InSingle, Rest
  <2>3. QED
    BY <1>1, <1>3, <2>1, <2>2 DEF InSingle, Consistent
<1>4. CASE InMulti(s)
  <2>1. s.stat \cap PendAny # {} /\ s.in = s.multi /\ z.stat \cap PendAny = {}
    BY <1>4 DEF InMulti
  <2>2. QED
    BY <1>1, <1>4, <2>1 DEF InMulti, Rest, Consistent
<1>5. CASE InFlag(s)
  <2>1. "FLAG" \in s.stat \cap PendAny /\ z.stat \subseteq {"SUSPEND"} /\ s.links # {}
    BY <1>5 DEF InFlag, PendAny
  <2>2. QED
    BY <1>1, <1>5, <2>1 DEF InFlag, Consistent
<1>6. QED
  BY <1>2, <1>3, <1>4, <1>5 DEF Consistent

\* ... or has not yet ...
LEMMA CountsDown ==
  ASSUME NEW s, NEW z, Consistent(s), s.dly # 0, z.dly # 0, z.stat = s.stat, z.pend = s.pend,
         z.ev = s.ev, z.multi = s.multi, z.call = s.call, z.in = s.in, z.links = s.links,
         z.runs # {} <=> s.runs # {}
  PROVE  Consistent(z)
BY DEF Consistent, InNoCall, InSingle, InMulti, InFlag, Rest

\* ... the running task, which is in no call, starts to wait ...
LEMMA WaitsForOne ==
  ASSUME NEW s, NEW z, Consistent(s), s.call = "none", z.call \in Single,
         z.stat = s.stat \cup {z.call}, z.pend = "OK", z.ev \in Events, z.multi = s.multi,
         z.in = {z.ev}, z.links = s.links, z.runs = {}
  PROVE  Consistent(z)
<1>1. InNoCall(s)
  BY DEF Consistent, InSingle, InMulti, InFlag, Single
<1>2. InSingle(z)
  BY <1>1 DEF InNoCall, InSingle, Rest
<1>3. QED
  BY <1>2 DEF Consistent, InSingle

LEMMA WaitsForMany ==
  ASSUME NEW s, NEW z, Consistent(s), s.call = "none", s.runs # {}, z.call = "MULTI",
         NEW types, types \subseteq {"SEM", "MBOX", "Q"}, types # {}, z.stat = s.stat \cup types \cup {"MULTI"},
         z.pend = "OK", z.ev = NULL, z.multi # {}, z.in = z.multi, z.links = s.links, z.runs = {}
  PROVE  Consistent(z)
<1>1. InNoCall(s) /\ "SUSPEND" \notin s.stat
  BY DEF Consistent, InSingle, InMulti, InFlag, Single
<1>2. z.stat \subseteq Rest(z)
  BY <1>1 DEF Rest, InNoCall
<1>3. z.stat \cap PendAny # {}
  BY DEF PendAny
<1>4. InMulti(z)
  BY <1>1, <1>2, <1>3 DEF InNoCall, InMulti
<1>5. QED
  BY <1>4 DEF Consistent

LEMMA WaitsForFlags ==
  ASSUME NEW s, NEW z, Consistent(s), s.call = "none", s.multi = {}, z.call = "FLAG",
         z.stat = s.stat \cup {"FLAG"}, z.pend = "OK", z.ev = s.ev, z.multi = s.multi,
         z.in = s.in, z.links # {}, z.runs = {}
  PROVE  Consistent(z)
<1>1. InNoCall(s)
  BY DEF Consistent, InSingle, InMulti, InFlag, Single
<1>2. InFlag(z)
  BY <1>1 DEF InNoCall, InFlag, Rest
<1>3. QED
  BY <1>2 DEF Consistent

\* ... a task that runs again inside its call has been served or timed out ...
LEMMA RunsInCall ==
  ASSUME NEW s, Consistent(s), s.runs # {}, s.call # "none"
  PROVE  /\ s.dly = 0 /\ "SUSPEND" \notin s.stat
         /\ s.pend # "TO" => s.in = {} /\ s.links = {}
         /\ s.call \in Single => (s.pend = "TO" /\ s.in = {s.ev}) \/ (s.pend # "TO" /\ s.in = {})
         /\ s.call = "MULTI" =>
              (s.pend = "TO" /\ s.in = s.multi) \/ (s.pend # "TO" /\ s.in = {} /\ s.ev # NULL)
         /\ s.call = "FLAG" => /\ s.in = {} /\ s.ev = NULL /\ s.multi = {}
                               /\ s.pend \in {"OK", "TO"} /\ (s.pend = "OK" => s.stat = {})
         /\ s.call # "FLAG" => s.links = {}
BY KernelAssumption DEF Consistent, InNoCall, InSingle, InMulti, InFlag, Single

LEMMA OutOfCall ==
  ASSUME NEW z, z.stat = {}, z.pend = "OK", z.dly = 0, z.ev = NULL, z.multi = {},
         z.call = "none", z.in = {}, z.links = {}, z.runs # {}
  PROVE  Consistent(z)
BY DEF Consistent, InNoCall

\* ... and leaves what it was served with when its wait ended with a deletion ...
LEMMA LeftEarly ==
  ASSUME NEW s, NEW z, Consistent(s), s.runs # {}, s.call = "MULTI", s.pend = "OK",
         z.stat = s.stat, z.pend = s.pend, z.dly = s.dly, z.ev = s.ev, z.multi = s.multi,
         z.call = "none", z.in = s.in, z.links = s.links, z.runs = s.runs
  PROVE  Consistent(z)
<1>1. InMulti(s) /\ s.in = {}
  BY DEF Consistent, InNoCall, InSingle, InMulti, InFlag, Single
<1>2. InNoCall(z)
  BY <1>1 DEF InMulti, InNoCall, Rest
<1>3. QED
  BY <1>1, <1>2 DEF Consistent, InNoCall

\* ... suspension, resumption and delay ...
LEMMA Suspended ==
  ASSUME NEW s, NEW z, Consistent(s), s.multi = {}, z.stat = s.stat \cup {"SUSPEND"},
         z.pend = s.pend, z.dly = s.dly, z.ev = s.ev, z.multi = s.multi, z.call = s.call,
         z.in = s.in, z.links = s.links, z.runs = {}
  PROVE  Consistent(z)
BY DEF Consistent, InNoCall, InSingle, InMulti, InFlag, Single, Rest

LEMMA Resumed ==
  ASSUME NEW s, NEW z, Consistent(s), "SUSPEND" \in s.stat, z.stat = s.stat \ {"SUSPEND"},
         z.pend = s.pend, z.dly = s.dly, z.ev = s.ev, z.multi = s.multi, z.call = s.call,
         z.in = s.in, z.links = s.links,
         z.runs # {} <=> (s.stat = {"SUSPEND"} /\ s.dly = 0)
  PROVE  Consistent(z)
<1>1. CASE InNoCall(s)
  BY <1>1 DEF Consistent, InNoCall, Rest
<1>2. CASE InSingle(s)
  <2>1. s.call # "SUSPEND" /\ s.stat \subseteq {"SUSPEND", s.call}
    BY <1>2 DEF InSingle, Single, Rest
  <2>2. InSingle(z)
    BY <1>2, <2>1 DEF InSingle, Rest
  <2>3. QED
    BY <1>2, <2>1, <2>2 DEF Consistent, InSingle
<1>3. CASE InMulti(s)
  BY <1>3 DEF InMulti, Rest
<1>4. CASE InFlag(s)
  BY <1>4 DEF Consistent, InFlag
<1>5. QED
  BY <1>1, <1>2, <1>3, <1>4 DEF Consistent

LEMMA Delayed ==
  ASSUME NEW s, NEW z, Consistent(s), s.call = "none", z.dly # 0, z.stat = s.stat,
         z.pend = s.pend, z.ev = s.ev, z.multi = s.multi, z.call = s.call, z.in = s.in,
         z.links = s.links, z.runs = {}
  PROVE  Consistent(z)
BY DEF Consistent, InNoCall, InSingle, InMulti, InFlag, Single, Rest

\* ... and a waiter of the flag group is served.
LEMMA FlagWoken ==
  ASSUME NEW s, NEW z, Consistent(s), s.links # {}, z.stat = s.stat \ {"FLAG"}, z.pend = "OK",
         z.dly = 0, z.ev = s.ev, z.multi = s.multi, z.call = s.call, z.in = s.in, z.links = {},
         z.runs # {} <=> (s.runs # {} \/ s.stat \subseteq {"FLAG"})
  PROVE  Consistent(z)
<1>1. InFlag(s)
  BY DEF Consistent, InNoCall, InSingle, InMulti
<1>2. InFlag(z)
  BY <1>1 DEF InFlag
<1>3. "SUSPEND" \notin s.stat <=> s.stat \subseteq {"FLAG"}
  BY <1>1 DEF InFlag
<1>4. s.runs # {} => "SUSPEND" \notin s.stat
  BY DEF Consistent
<1>5. QED
  BY <1>1, <1>2, <1>3, <1>4 DEF Consistent, InFlag

-----------------------------------------------------------------------------
\* The most urgent priority of a set of priorities.
LEMMA HighestIsLeast ==
  ASSUME NEW S \in SUBSET Nat, S # {}
  PROVE  Highest(S) \in S /\ \A q \in S : Highest(S) <= q
<1> DEFINE Below == {ss \in Nat \X Nat : ss[1] < ss[2]}
<1>1. IsWellFoundedOn(Below, Nat)
  BY NatLessThanWellFounded DEF OpToRel
<1>2. \A m, n \in Nat : m < n => <<m, n>> \in Below
  OBVIOUS
<1> HIDE DEF Below
<1>3. PICK x \in S : \A y \in S : <<y, x>> \notin Below
  BY <1>1, WFMin
<1>4. \A q \in S : x <= q
  <2> TAKE q \in S
  <2>1. x \in Nat /\ q \in Nat /\ ~(q < x)
    BY <1>2, <1>3
  <2>2. QED
    BY <2>1
<1>5. QED
  BY <1>4 DEF Highest

\* Tasks that exist have priorities of their own.
LEMMA PriosDiffer ==
  \A t, u \in Live : OSTCBPrio[t] = OSTCBPrio[u] => t = u
BY DEF Live

\* The waiters of an event exist and wait for it.
LEMMA WaitersWait ==
  ASSUME TypeOK, ListsNameTasks, NEW e \in Events
  PROVE  /\ Waiters(e) \subseteq Live /\ \A t \in Waiters(e) : e \in WaitsIn(t)
         /\ \A t \in Live : e \in WaitsIn(t) => t \in Waiters(e)
         /\ OSEventTbl[e] # {} =>
              /\ Highest(OSEventTbl[e]) \in OSEventTbl[e]
              /\ First(e) \subseteq Waiters(e) /\ First(e) # {}
<1>1. \A p \in OSEventTbl[e] : OSTCBPrioTbl[p] \in Live /\ OSTCBPrio[OSTCBPrioTbl[p]] = p
  BY DEF ListsNameTasks
<1>2. OSEventTbl[e] # {} => Highest(OSEventTbl[e]) \in OSEventTbl[e]
  <2>1. OSEventTbl[e] \in SUBSET Nat
    BY KernelAssumption DEF TypeOK
  <2>2. QED
    BY <2>1, HighestIsLeast
<1>3. \A t \in Live : OSTCBPrioTbl[OSTCBPrio[t]] = t
  BY DEF Live
<1>4. QED
  BY <1>1, <1>2, <1>3 DEF Waiters, First, WaitsIn

\* The fields of a standing.
LEMMA Fields ==
  \A t : LET s == Standing(t) IN
    /\ s.stat = OSTCBStat[t] /\ s.pend = OSTCBStatPend[t] /\ s.dly = OSTCBDly[t]
    /\ s.ev = OSTCBEventPtr[t] /\ s.multi = OSTCBEventMultiPtr[t] /\ s.call = inCall[t]
    /\ s.in = WaitsIn(t)
    /\ s.links # {} <=> t \in OSFlagWaitList
    /\ s.runs # {} <=> OSTCBPrio[t] \in OSRdyTbl
BY DEF Standing

\* ... and after a step.
LEMMA FieldsNext ==
  \A t : LET z == Standing(t)' IN
    /\ z.stat = OSTCBStat'[t] /\ z.pend = OSTCBStatPend'[t] /\ z.dly = OSTCBDly'[t]
    /\ z.ev = OSTCBEventPtr'[t] /\ z.multi = OSTCBEventMultiPtr'[t] /\ z.call = inCall'[t]
    /\ z.in = WaitsIn(t)'
    /\ z.links # {} <=> t \in OSFlagWaitList'
    /\ z.runs # {} <=> OSTCBPrio'[t] \in OSRdyTbl'
    /\ (t \in OSFlagWaitList' <=> t \in OSFlagWaitList) => z.links = Standing(t).links
BY DEF Standing

\* A step that tells nothing to a task leaves its standing.
Stays(t) ==
  /\ OSTCBStat'[t] = OSTCBStat[t] /\ OSTCBStatPend'[t] = OSTCBStatPend[t]
  /\ OSTCBDly'[t] = OSTCBDly[t] /\ OSTCBEventPtr'[t] = OSTCBEventPtr[t]
  /\ OSTCBEventMultiPtr'[t] = OSTCBEventMultiPtr[t] /\ inCall'[t] = inCall[t]
  /\ WaitsIn(t)' = WaitsIn(t) /\ (t \in OSFlagWaitList' <=> t \in OSFlagWaitList)
  /\ OSTCBPrio'[t] \in OSRdyTbl' <=> OSTCBPrio[t] \in OSRdyTbl

LEMMA StandingStays ==
  ASSUME NEW t, Consistent(Standing(t)), Stays(t)
  PROVE  Consistent(Standing(t))'
<1> DEFINE s == Standing(t)
           z == Standing(t)'
<1>1. /\ z.stat = s.stat /\ z.pend = s.pend /\ z.dly = s.dly /\ z.ev = s.ev /\ z.multi = s.multi
      /\ z.call = s.call /\ z.in = s.in /\ z.links = s.links /\ (z.runs # {} <=> s.runs # {})
  BY Fields, FieldsNext DEF Stays
<1> HIDE DEF s, z
<1>2. Consistent(s) => Consistent(z)
  BY <1>1 DEF Consistent, Rest, InNoCall, InSingle, InMulti, InFlag
<1>3. QED
  BY <1>2 DEF s, z

\* An event, or the flag group, that changes its type has no waiters after it.
TypesStay ==
  /\ \A e \in Events : OSEventType'[e] = OSEventType[e] \/ OSEventTbl'[e] = {}
  /\ OSFlagType' = OSFlagType \/ OSFlagWaitList' = {}

Tables == ListsNameTasks /\ Standings
PriosKept == UNCHANGED <<OSTCBPrio, OSTCBPrioTbl>>

LEMMA LiveKept ==
  PriosKept => Live' = Live /\ Present' = Present /\ OSTCBPrio' = OSTCBPrio /\ OSTCBPrioTbl' = OSTCBPrioTbl
BY DEF PriosKept, Live, Present

\* What follows when lists only lose tasks and the ready table gains tasks that exist.
LEMMA ListsShrink ==
  ASSUME ListsNameTasks, PriosKept, TypesStay,
         \A e \in Events : OSEventTbl'[e] \subseteq OSEventTbl[e],
         OSFlagWaitList' \subseteq OSFlagWaitList,
         \A p \in OSRdyTbl' : p \in OSRdyTbl \/ \E t \in Live : p = OSTCBPrio[t]
  PROVE  ListsNameTasks'
BY LiveKept DEF ListsNameTasks, TypesStay, Live, Present

LEMMA TypesMatch ==
  ASSUME Standings, TypesStay, NEW t \in Live, WaitsIn(t)' \subseteq WaitsIn(t),
         inCall'[t] = inCall[t] \/ (inCall'[t] = "none" /\ WaitsIn(t)' = {}), node'[t] = node[t]
  PROVE  /\ \A f \in WaitsIn(t)' : \/ inCall'[t] = OSEventType'[f]
                                   \/ inCall'[t] = "MULTI" /\ OSEventType'[f] \in {"SEM", "MBOX", "Q"}
         /\ inCall'[t] = "FLAG" => node'[t] \in Wants
<1>1. \A f \in WaitsIn(t)' : OSEventType'[f] = OSEventType[f]
  BY DEF TypesStay, WaitsIn
<1>2. QED
  BY <1>1 DEF Standings

\* Events serve waiters, or let them go.
LEMMA WakesStanding ==
  ASSUME TypeOK, Standings, NEW e \in Events, NEW W \in SUBSET Live, NEW t \in Live,
         t \in W => e \in WaitsIn(t), NEW msg, NEW new \in {"OK", "ABORT"},
         OS_EventTaskRdy(e, W, msg, OSEventType[e], new), UNCHANGED <<inCall, OSFlagWaitList>>,
         WaitsIn(t)' = IF t \in W THEN WaitsIn(t) \ ({e} \cup OSTCBEventMultiPtr[t]) ELSE WaitsIn(t),
         OSTCBPrio'[t] \in OSRdyTbl' <=>
           (OSTCBPrio[t] \in OSRdyTbl \/ (t \in W /\ "SUSPEND" \notin OSTCBStat[t]))
  PROVE  Consistent(Standing(t))'
<1>0. Consistent(Standing(t))
  BY DEF Tables, Standings
<1>1. CASE t \notin W
  <2>1. Stays(t)
    BY <1>1 DEF OS_EventTaskRdy, Stays, TypeOK, Live, TCBs
  <2>2. QED
    BY <1>0, <2>1, StandingStays
<1>2. CASE t \in W
  <2> DEFINE s == Standing(t)
             z == Standing(t)'
  <2>1. e \in WaitsIn(t) /\ (inCall[t] = OSEventType[e] \/ inCall[t] = "MULTI")
    BY <1>2 DEF Tables, Standings
  <2>2. /\ z.stat = s.stat \ {s.call} \/ (s.call = "MULTI" /\ z.stat \subseteq s.stat)
        /\ z.pend = new /\ z.dly = 0 /\ z.call = s.call /\ z.links = s.links
        /\ z.ev = (IF s.multi # {} THEN e ELSE s.ev) /\ z.multi = s.multi
    <3>1. /\ OSTCBStat'[t] = OSTCBStat[t] \ {OSEventType[e]} /\ OSTCBStatPend'[t] = new
          /\ OSTCBDly'[t] = 0 /\ inCall'[t] = inCall[t] /\ OSFlagWaitList' = OSFlagWaitList
          /\ OSTCBEventPtr'[t] = (IF OSTCBEventMultiPtr[t] # {} THEN e ELSE OSTCBEventPtr[t])
          /\ OSTCBEventMultiPtr'[t] = OSTCBEventMultiPtr[t]
      BY <1>2 DEF OS_EventTaskRdy, Live, TCBs
    <3>2. OSTCBStat'[t] = OSTCBStat[t] \ {inCall[t]}
          \/ (inCall[t] = "MULTI" /\ OSTCBStat'[t] \subseteq OSTCBStat[t])
      BY <2>1, <3>1
    <3>3. QED
      BY <3>1, <3>2, Fields, FieldsNext
  <2>3. /\ e \in s.in /\ z.in = s.in \ ({e} \cup s.multi)
        /\ z.runs # {} <=> (s.runs # {} \/ "SUSPEND" \notin s.stat)
    BY <1>2, <2>1, Fields, FieldsNext
  <2> HIDE DEF s, z
  <2>4. Consistent(s) => Consistent(z)
    BY <2>2, <2>3, Woken
  <2>5. QED
    BY <1>0, <2>4 DEF s, z
<1>3. QED
  BY <1>1, <1>2

LEMMA WakesTasks ==
  ASSUME TypeOK, Tables, NEW e \in Events, NEW W \in SUBSET Live,
         \A t \in W : e \in WaitsIn(t), NEW msg, NEW new \in {"OK", "ABORT"},
         OS_EventTaskRdy(e, W, msg, OSEventType[e], new), OSRdyTbl' = OSRdyTbl \cup Released(W),
         UNCHANGED <<OSTCBPrio, OSTCBPrioTbl, inCall, OSFlagType, OSFlagWaitList, node>>, TypesStay
  PROVE  Tables'
<1>1. Live' = Live /\ OSTCBPrio' = OSTCBPrio /\ OSTCBPrioTbl' = OSTCBPrioTbl /\ PriosKept
  BY LiveKept DEF PriosKept
<1>2. ASSUME NEW t \in Live
      PROVE  /\ WaitsIn(t)' = IF t \in W THEN WaitsIn(t) \ ({e} \cup OSTCBEventMultiPtr[t])
                              ELSE WaitsIn(t)
             /\ OSTCBPrio'[t] \in OSRdyTbl' <=>
                  (OSTCBPrio[t] \in OSRdyTbl \/ (t \in W /\ "SUSPEND" \notin OSTCBStat[t]))
  <2>1. \A f \in Events : OSTCBPrio[t] \in OSEventTbl'[f] <=>
          /\ OSTCBPrio[t] \in OSEventTbl[f]
          /\ ~(t \in W /\ (f = e \/ f \in OSTCBEventMultiPtr[t]))
    BY PriosDiffer DEF OS_EventTaskRdy
  <2>2. QED
    BY <1>1, <2>1, PriosDiffer DEF WaitsIn, Released
<1>3. ListsNameTasks'
  <2>1. \A f \in Events : OSEventTbl'[f] \subseteq OSEventTbl[f]
    BY DEF OS_EventTaskRdy
  <2>2. \A p \in OSRdyTbl' : p \in OSRdyTbl \/ \E t \in Live : p = OSTCBPrio[t]
    BY DEF Released
  <2>3. QED
    BY <1>1, <2>1, <2>2, ListsShrink DEF Tables
<1>4. \A t \in Live : Consistent(Standing(t))'
  BY <1>2, WakesStanding DEF Tables
<1>5. \A t \in Live : WaitsIn(t)' \subseteq WaitsIn(t)
  BY <1>2
<1>6. QED
  BY <1>1, <1>3, <1>4, <1>5, TypesMatch DEF Tables, Standings

\* A step that leaves the tasks alone.
LEMMA TablesKept ==
  ASSUME Tables, TypesStay, PriosKept, UNCHANGED <<tcb, OSRdyTbl, inCall, OSFlagWaitList, node>>,
         \A e \in Events : OSEventTbl'[e] = OSEventTbl[e]
  PROVE  Tables'
<1>1. ListsNameTasks'
  BY ListsShrink DEF Tables
<1>2. \A t \in Live : Stays(t)
  BY DEF Stays, WaitsIn, tcb, PriosKept
<1>3. \A t \in Live : WaitsIn(t)' \subseteq WaitsIn(t)
  BY DEF Stays, WaitsIn, PriosKept
<1>4. QED
  BY <1>1, <1>2, <1>3, LiveKept, StandingStays, TypesMatch DEF Tables, Standings

\* The running task joins wait lists, and nothing happens to the others.
Joins(c, E, stat, timeout, call) ==
  /\ c \in Live /\ c = OSTCBCur /\ inCall[c] = "none" /\ E \subseteq Events /\ PriosKept
  /\ Block(E, OSEventTbl, stat, timeout, call) /\ OSRdyTbl' = OSRdyTbl \ {OSTCBPrio[c]}
  /\ UNCHANGED <<OSEventType, OSFlagType>> /\ \A e \in E : OSEventType[e] # "UNUSED"
  /\ OSFlagWaitList' = OSFlagWaitList \/ OSFlagWaitList' = OSFlagWaitList \cup {c}
  /\ OSFlagType = "UNUSED" => OSFlagWaitList' = OSFlagWaitList
  /\ \A t \in TCBs \ {c} : /\ OSTCBEventPtr'[t] = OSTCBEventPtr[t]
                           /\ OSTCBEventMultiPtr'[t] = OSTCBEventMultiPtr[t]
                           /\ node'[t] = node[t]

Joined(c, E, stat, timeout, call) ==
  /\ ListsNameTasks' /\ WaitsIn(c)' = E /\ WaitsIn(c) = {} /\ OSTCBPrio'[c] \notin OSRdyTbl'
  /\ \A t \in Live \ {c} : /\ Stays(t) /\ WaitsIn(t)' = WaitsIn(t)
                           /\ inCall'[t] = inCall[t] /\ node'[t] = node[t]
  /\ OSTCBStat'[c] = OSTCBStat[c] \cup stat /\ OSTCBStatPend'[c] = "OK"
  /\ OSTCBDly'[c] = timeout /\ inCall'[c] = call

LEMMA JoinsLists ==
  ASSUME TypeOK, Tables, NEW c, NEW E, NEW stat, NEW timeout, NEW call,
         Joins(c, E, stat, timeout, call)
  PROVE  Joined(c, E, stat, timeout, call)
<1>0. /\ c \in Live /\ c = OSTCBCur /\ inCall[c] = "none" /\ E \subseteq Events /\ PriosKept
      /\ Block(E, OSEventTbl, stat, timeout, call) /\ OSRdyTbl' = OSRdyTbl \ {OSTCBPrio[c]}
      /\ OSEventType' = OSEventType /\ OSFlagType' = OSFlagType
      /\ \A e \in E : OSEventType[e] # "UNUSED"
      /\ OSFlagWaitList' = OSFlagWaitList \/ OSFlagWaitList' = OSFlagWaitList \cup {c}
      /\ OSFlagType = "UNUSED" => OSFlagWaitList' = OSFlagWaitList
      /\ \A t \in TCBs \ {c} : /\ OSTCBEventPtr'[t] = OSTCBEventPtr[t]
                               /\ OSTCBEventMultiPtr'[t] = OSTCBEventMultiPtr[t]
                               /\ node'[t] = node[t]
  BY DEF Joins
<1>1. Live' = Live /\ Present' = Present /\ OSTCBPrio' = OSTCBPrio /\ OSTCBPrioTbl' = OSTCBPrioTbl
  BY <1>0, LiveKept
<1>2. WaitsIn(c) = {}
  BY <1>0, Fields DEF Tables, Standings, Consistent, InNoCall, InSingle, InMulti, InFlag, Single
<1>3. \A e \in Events : OSEventTbl'[e] = IF e \in E THEN OSEventTbl[e] \cup {OSTCBPrio[c]}
                                         ELSE OSEventTbl[e]
  BY <1>0 DEF Block
<1>4. WaitsIn(c)' = E
  BY <1>0, <1>1, <1>2, <1>3 DEF WaitsIn
<1>5. \A t \in Live \ {c} : OSTCBPrio[t] # OSTCBPrio[c]
  BY <1>0, PriosDiffer
<1>6. ASSUME NEW t \in Live \ {c} PROVE WaitsIn(t)' = WaitsIn(t)
  <2>1. \A e \in Events : OSTCBPrio'[t] \in OSEventTbl'[e] <=> OSTCBPrio[t] \in OSEventTbl[e]
    BY <1>1, <1>3, <1>5
  <2>2. QED
    BY <2>1 DEF WaitsIn
<1>7. /\ \A t \in Live \ {c} : inCall'[t] = inCall[t]
      /\ OSTCBStat'[c] = OSTCBStat[c] \cup stat /\ OSTCBStatPend'[c] = "OK"
      /\ OSTCBDly'[c] = timeout /\ inCall'[c] = call
  BY <1>0 DEF Block, TypeOK, Live, TCBs
<1>8. ASSUME NEW t \in Live \ {c} PROVE Stays(t)
  <2>1. /\ OSTCBStat'[t] = OSTCBStat[t] /\ OSTCBStatPend'[t] = OSTCBStatPend[t]
        /\ OSTCBDly'[t] = OSTCBDly[t]
    BY <1>0 DEF Block, TypeOK
  <2>2. OSTCBPrio'[t] \in OSRdyTbl' <=> OSTCBPrio[t] \in OSRdyTbl
    BY <1>0, <1>1, <1>5
  <2>3. t \in TCBs \ {c}
    BY DEF Live, TCBs
  <2>4. QED
    BY <1>0, <1>6, <1>7, <2>1, <2>2, <2>3 DEF Stays
<1>9. ListsNameTasks'
  <2>1. OSTCBPrioTbl[OSTCBPrio[c]] = c
    BY <1>0 DEF Live
  <2>2. ASSUME NEW e \in Events, NEW p \in OSEventTbl'[e]
        PROVE  OSTCBPrioTbl[p] \in Live /\ OSTCBPrio[OSTCBPrioTbl[p]] = p
    <3>1. p \in OSEventTbl[e] \/ p = OSTCBPrio[c]
      BY <1>3
    <3>2. QED
      BY <1>0, <2>1, <3>1 DEF ListsNameTasks, Tables
  <2>3. \A e \in Events : OSEventType'[e] = "UNUSED" => OSEventTbl'[e] = {}
    BY <1>0, <1>3 DEF ListsNameTasks, Tables
  <2>4. OSFlagWaitList' \subseteq Live' /\ (OSFlagType' = "UNUSED" => OSFlagWaitList' = {})
    BY <1>0, <1>1 DEF ListsNameTasks, Tables
  <2>5. QED
    BY <1>0, <1>1, <2>2, <2>3, <2>4 DEF ListsNameTasks, Tables
<1>10. QED
  BY <1>0, <1>1, <1>2, <1>4, <1>6, <1>7, <1>8, <1>9 DEF Joined, Live, TCBs

LEMMA WaitsForEvent ==
  ASSUME TypeOK, Tables, NEW c \in Live, c = OSTCBCur, inCall[c] = "none", NEW e \in Events,
         NEW timeout, OSEventType[e] \in Single, Wait(e, OSEventTbl, OSEventType[e], timeout),
         OSRdyTbl' = OSRdyTbl \ {OSTCBPrio[c]},
         UNCHANGED <<OSTCBPrio, OSTCBPrioTbl, OSEventType, OSFlagType, OSFlagWaitList, node>>
  PROVE  Tables'
<1> DEFINE s == Standing(c)
           z == Standing(c)'
<1>1. /\ ListsNameTasks' /\ WaitsIn(c)' = {e} /\ WaitsIn(c) = {} /\ OSTCBPrio'[c] \notin OSRdyTbl'
      /\ \A t \in Live \ {c} : /\ Stays(t) /\ WaitsIn(t)' = WaitsIn(t)
                               /\ inCall'[t] = inCall[t] /\ node'[t] = node[t]
      /\ OSTCBStat'[c] = OSTCBStat[c] \cup {OSEventType[e]} /\ OSTCBStatPend'[c] = "OK"
      /\ inCall'[c] = OSEventType[e]
  <2>1. Block({e}, OSEventTbl, {OSEventType[e]}, timeout, OSEventType[e])
    BY DEF Wait
  <2>2. \A t \in TCBs \ {c} : /\ OSTCBEventPtr'[t] = OSTCBEventPtr[t]
                              /\ OSTCBEventMultiPtr'[t] = OSTCBEventMultiPtr[t]
                              /\ node'[t] = node[t]
    BY DEF Wait, TypeOK
  <2>3. OSEventType[e] # "UNUSED" /\ PriosKept
    BY DEF Single, PriosKept
  <2>4. Joins(c, {e}, {OSEventType[e]}, timeout, OSEventType[e])
    BY <2>1, <2>2, <2>3 DEF Joins
  <2>5. QED
    BY <2>4, JoinsLists DEF Joined
<1>2. Consistent(Standing(c))'
  <2>1. OSTCBEventPtr'[c] = e /\ OSTCBEventMultiPtr'[c] = OSTCBEventMultiPtr[c]
    BY DEF Wait, TypeOK, Live, TCBs
  <2>2. /\ s.call = "none" /\ z.call \in Single /\ z.stat = s.stat \cup {z.call} /\ z.pend = "OK"
        /\ z.ev \in Events /\ z.multi = s.multi /\ z.in = {z.ev} /\ z.links = s.links /\ z.runs = {}
    BY <1>1, <2>1, Fields, FieldsNext
  <2>3. Consistent(s)
    BY DEF Tables, Standings
  <2> HIDE DEF s, z
  <2>4. Consistent(z)
    BY <2>2, <2>3, WaitsForOne
  <2>5. QED
    BY <2>4 DEF z
<1>3. \A t \in Live : Consistent(Standing(t))'
  BY <1>1, <1>2, StandingStays DEF Tables, Standings
<1>4. QED
  BY <1>1, <1>3, LiveKept DEF Tables, Standings, PriosKept, Single

LEMMA WaitsForEvents ==
  ASSUME TypeOK, Tables, NEW c \in Live, c = OSTCBCur, inCall[c] = "none",
         OSTCBPrio[c] \in OSRdyTbl, NEW E \in SUBSET Events, E # {}, NEW timeout,
         \A e \in E : OSEventType[e] \in {"SEM", "MBOX", "Q"},
         Block(E, OSEventTbl, {OSEventType[e] : e \in E} \cup {"MULTI"}, timeout, "MULTI"),
         OSTCBEventPtr' = [OSTCBEventPtr EXCEPT ![c] = NULL],
         OSTCBEventMultiPtr' = [OSTCBEventMultiPtr EXCEPT ![c] = E],
         OSRdyTbl' = OSRdyTbl \ {OSTCBPrio[c]},
         UNCHANGED <<OSTCBPrio, OSTCBPrioTbl, OSEventType, OSFlagType, OSFlagWaitList, node>>
  PROVE  Tables'
<1> DEFINE s == Standing(c)
           z == Standing(c)'
           types == {OSEventType[e] : e \in E}
<1>1. types \subseteq {"SEM", "MBOX", "Q"} /\ types \subseteq PendAny \ {"FLAG"} /\ types # {}
  BY DEF PendAny
<1> HIDE DEF types
<1>2. /\ ListsNameTasks' /\ WaitsIn(c)' = E /\ WaitsIn(c) = {} /\ OSTCBPrio'[c] \notin OSRdyTbl'
      /\ \A t \in Live \ {c} : /\ Stays(t) /\ WaitsIn(t)' = WaitsIn(t)
                               /\ inCall'[t] = inCall[t] /\ node'[t] = node[t]
      /\ OSTCBStat'[c] = OSTCBStat[c] \cup (types \cup {"MULTI"}) /\ OSTCBStatPend'[c] = "OK"
      /\ inCall'[c] = "MULTI"
  <2>1. Block(E, OSEventTbl, types \cup {"MULTI"}, timeout, "MULTI")
    BY DEF types
  <2>2. \A t \in TCBs \ {c} : /\ OSTCBEventPtr'[t] = OSTCBEventPtr[t]
                              /\ OSTCBEventMultiPtr'[t] = OSTCBEventMultiPtr[t]
                              /\ node'[t] = node[t]
    BY DEF TypeOK
  <2>3. (\A e \in E : OSEventType[e] # "UNUSED") /\ PriosKept
    BY DEF PriosKept
  <2>4. Joins(c, E, types \cup {"MULTI"}, timeout, "MULTI")
    BY <2>1, <2>2, <2>3 DEF Joins
  <2>5. QED
    BY <2>4, JoinsLists DEF Joined
<1>3. Consistent(Standing(c))'
  <2>1. OSTCBEventPtr'[c] = NULL /\ OSTCBEventMultiPtr'[c] = E
    BY DEF TypeOK, Live, TCBs
  <2>2. /\ s.call = "none" /\ z.call = "MULTI" /\ z.stat = s.stat \cup types \cup {"MULTI"}
        /\ z.pend = "OK" /\ s.runs # {}
        /\ z.ev = NULL /\ z.multi # {} /\ z.in = z.multi /\ z.links = s.links /\ z.runs = {}
    BY <1>2, <2>1, Fields, FieldsNext
  <2>3. Consistent(s)
    BY DEF Tables, Standings
  <2> HIDE DEF s, z
  <2>4. Consistent(z)
    BY <1>1, <2>2, <2>3, WaitsForMany
  <2>5. QED
    BY <2>4 DEF z
<1>4. \A t \in Live : Consistent(Standing(t))'
  BY <1>2, <1>3, StandingStays DEF Tables, Standings
<1>5. QED
  BY <1>2, <1>4, LiveKept DEF Tables, Standings, PriosKept

LEMMA WaitsInFlagGroup ==
  ASSUME TypeOK, Tables, NEW c \in Live, c = OSTCBCur, inCall[c] = "none", NEW timeout,
         OSTCBEventMultiPtr[c] = {}, NEW n \in Wants, Block({}, OSEventTbl, {"FLAG"}, timeout, "FLAG"), OSFlagType = "FLAG",
         OSFlagWaitList' = OSFlagWaitList \cup {c},
         node' = [node EXCEPT ![c] = n],
         OSRdyTbl' = OSRdyTbl \ {OSTCBPrio[c]},
         UNCHANGED <<OSTCBPrio, OSTCBPrioTbl, OSTCBEventPtr, OSTCBEventMultiPtr, OSEventType, OSFlagType>>
  PROVE  Tables'
<1> DEFINE s == Standing(c)
           z == Standing(c)'
<1>1. /\ ListsNameTasks' /\ WaitsIn(c)' = {} /\ WaitsIn(c) = {} /\ OSTCBPrio'[c] \notin OSRdyTbl'
      /\ \A t \in Live \ {c} : /\ Stays(t) /\ WaitsIn(t)' = WaitsIn(t)
                               /\ inCall'[t] = inCall[t] /\ node'[t] = node[t]
      /\ OSTCBStat'[c] = OSTCBStat[c] \cup {"FLAG"} /\ OSTCBStatPend'[c] = "OK"
      /\ inCall'[c] = "FLAG"
  <2>1. \A t \in TCBs \ {c} : /\ OSTCBEventPtr'[t] = OSTCBEventPtr[t]
                              /\ OSTCBEventMultiPtr'[t] = OSTCBEventMultiPtr[t]
                              /\ node'[t] = node[t]
    BY DEF TypeOK
  <2>2. PriosKept /\ OSFlagType # "UNUSED"
    BY DEF PriosKept
  <2>3. Joins(c, {}, {"FLAG"}, timeout, "FLAG")
    BY <2>1, <2>2 DEF Joins
  <2>4. QED
    BY <2>3, JoinsLists DEF Joined
<1>2. Consistent(Standing(c))'
  <2>1. /\ s.call = "none" /\ s.multi = {} /\ z.call = "FLAG" /\ z.stat = s.stat \cup {"FLAG"} /\ z.pend = "OK"
        /\ z.ev = s.ev /\ z.multi = s.multi /\ z.in = s.in /\ z.links # {} /\ z.runs = {}
    <3>1. /\ s.call = inCall[c] /\ s.stat = OSTCBStat[c] /\ s.ev = OSTCBEventPtr[c]
          /\ s.multi = OSTCBEventMultiPtr[c] /\ s.in = WaitsIn(c)
      BY Fields
    <3>2. /\ z.call = inCall'[c] /\ z.stat = OSTCBStat'[c] /\ z.ev = OSTCBEventPtr'[c]
          /\ z.multi = OSTCBEventMultiPtr'[c] /\ z.in = WaitsIn(c)' /\ z.pend = OSTCBStatPend'[c]
          /\ z.links # {} <=> c \in OSFlagWaitList'
          /\ z.runs # {} <=> OSTCBPrio'[c] \in OSRdyTbl'
      BY FieldsNext
    <3> HIDE DEF s, z
    <3>3. QED
      BY <1>1, <3>1, <3>2
  <2>2. Consistent(s)
    BY DEF Tables, Standings
  <2> HIDE DEF s, z
  <2>3. Consistent(z)
    BY <2>1, <2>2, WaitsForFlags
  <2>4. QED
    BY <2>3 DEF z
<1>3. \A t \in Live : Consistent(Standing(t))'
  BY <1>1, <1>2, StandingStays DEF Tables, Standings
<1>4. node'[c] = n
  BY DEF TypeOK, Live, TCBs
<1>5. QED
  BY <1>1, <1>3, <1>4, LiveKept DEF Tables, Standings, PriosKept

\* A call of the running task ends.
LEMMA EndsCall ==
  ASSUME TypeOK, Tables, NEW c \in Live, c = OSTCBCur, inCall[c] \in Single \cup {"MULTI"},
         OSTCBPrio[c] \in OSRdyTbl, Return(WaitsIn(c)),
         UNCHANGED <<OSTCBPrio, OSTCBPrioTbl, OSRdyTbl, OSEventType, OSFlagType, OSFlagWaitList, node>>
  PROVE  Tables' /\ WaitsIn(c)' = {} /\ \A t \in Live \ {c} : WaitsIn(t)' = WaitsIn(t)
<1>1. Live' = Live /\ OSTCBPrio' = OSTCBPrio /\ OSTCBPrioTbl' = OSTCBPrioTbl /\ PriosKept
  BY LiveKept DEF PriosKept
<1>2. \A e \in Events : OSEventTbl'[e] = IF e \in WaitsIn(c) THEN OSEventTbl[e] \ {OSTCBPrio[c]}
                                         ELSE OSEventTbl[e]
  BY DEF Return
<1>3. WaitsIn(c)' = {}
  BY <1>1, <1>2 DEF WaitsIn
<1>4. ASSUME NEW t \in Live \ {c} PROVE WaitsIn(t)' = WaitsIn(t) /\ Stays(t)
  <2>1. OSTCBPrio[t] # OSTCBPrio[c]
    BY PriosDiffer
  <2>2. \A e \in Events : OSTCBPrio'[t] \in OSEventTbl'[e] <=> OSTCBPrio[t] \in OSEventTbl[e]
    BY <1>1, <1>2, <2>1
  <2>3. WaitsIn(t)' = WaitsIn(t)
    BY <2>2 DEF WaitsIn
  <2>4. QED
    BY <1>1, <2>3 DEF Return, Stays, TypeOK
<1>5. ListsNameTasks'
  <2>1. \A e \in Events : OSEventTbl'[e] \subseteq OSEventTbl[e]
    BY <1>2
  <2>2. TypesStay
    BY DEF TypesStay
  <2>3. QED
    BY <1>1, <2>1, <2>2, ListsShrink DEF Tables
<1>6. Consistent(Standing(c))'
  <2> DEFINE s == Standing(c)
             z == Standing(c)'
  <2>1. Consistent(s)
    BY DEF Tables, Standings
  <2>2. s.runs # {} /\ s.call # "none" /\ s.call # "FLAG"
    BY Fields DEF Single
  <2>3. s.dly = 0 /\ s.links = {}
    <3> HIDE DEF s
    <3>1. QED
      BY <2>1, <2>2, RunsInCall
  <2>4. /\ OSTCBStat'[c] = {} /\ OSTCBStatPend'[c] = "OK" /\ OSTCBDly'[c] = OSTCBDly[c]
        /\ OSTCBEventPtr'[c] = NULL /\ OSTCBEventMultiPtr'[c] = {} /\ inCall'[c] = "none"
    BY DEF Return, TypeOK, Live, TCBs
  <2>5. /\ z.stat = {} /\ z.pend = "OK" /\ z.dly = 0 /\ z.ev = NULL /\ z.multi = {}
        /\ z.call = "none" /\ z.in = {} /\ z.links = {} /\ z.runs # {}
    BY <1>1, <1>3, <2>2, <2>3, <2>4, Fields, FieldsNext
  <2> HIDE DEF s, z
  <2>6. Consistent(z)
    BY <2>5, OutOfCall
  <2>7. QED
    BY <2>6 DEF z
<1>7. inCall'[c] = "none" /\ \A t \in Live \ {c} : inCall'[t] = inCall[t]
  BY DEF Return, TypeOK, Live, TCBs
<1>8. \A t \in Live : Consistent(Standing(t))'
  BY <1>4, <1>6, StandingStays DEF Tables, Standings
<1>9. QED
  BY <1>1, <1>3, <1>4, <1>5, <1>7, <1>8 DEF Tables, Standings

\* What is left of the wait of a task that runs again: the lists a time-out left it in.
LEMMA LeftToLeave ==
  ASSUME Tables, NEW c \in Live, OSTCBPrio[c] \in OSRdyTbl
  PROVE  /\ inCall[c] \in Single =>
              WaitsIn(c) = (IF OSTCBStatPend[c] = "TO" THEN {OSTCBEventPtr[c]} ELSE {})
         /\ inCall[c] = "MULTI" =>
              WaitsIn(c) = (IF OSTCBStatPend[c] = "TO" \/ OSTCBEventPtr[c] = NULL
                            THEN OSTCBEventMultiPtr[c] ELSE {})
         /\ inCall[c] = "FLAG" =>
              /\ WaitsIn(c) = {} /\ OSTCBEventPtr[c] = NULL /\ OSTCBEventMultiPtr[c] = {}
              /\ OSTCBStatPend[c] \in {"OK", "TO"}
              /\ OSTCBStatPend[c] = "OK" => OSTCBStat[c] = {} /\ c \notin OSFlagWaitList
         /\ inCall[c] # "none" => OSTCBDly[c] = 0 /\ "SUSPEND" \notin OSTCBStat[c]
<1> DEFINE s == Standing(c)
<1>1. Consistent(s) /\ s.runs # {}
  BY Fields DEF Tables, Standings
<1> HIDE DEF s
<1>2. s.call # "none" =>
        /\ s.dly = 0 /\ "SUSPEND" \notin s.stat
        /\ s.call \in Single => s.in = (IF s.pend = "TO" THEN {s.ev} ELSE {})
        /\ s.call = "MULTI" => s.in = (IF s.pend = "TO" \/ s.ev = NULL THEN s.multi ELSE {})
        /\ s.call = "FLAG" =>
             /\ s.in = {} /\ s.ev = NULL /\ s.multi = {} /\ s.pend \in {"OK", "TO"}
             /\ s.pend = "OK" => s.stat = {} /\ s.links = {}
  BY <1>1, RunsInCall
<1>3. /\ s.stat = OSTCBStat[c] /\ s.pend = OSTCBStatPend[c] /\ s.dly = OSTCBDly[c]
      /\ s.ev = OSTCBEventPtr[c] /\ s.multi = OSTCBEventMultiPtr[c] /\ s.call = inCall[c]
      /\ s.in = WaitsIn(c) /\ (s.links # {} <=> c \in OSFlagWaitList)
  BY Fields DEF s
<1>4. "none" \notin Single
  BY DEF Single
<1>5. QED
  BY <1>2, <1>3, <1>4

\* A wait for several events that the deletion of its event cut short ends.
LEMMA EndsEarly ==
  ASSUME TypeOK, Tables, NEW c \in Live, inCall[c] = "MULTI", Deleted(c), OSTCBPrio[c] \in OSRdyTbl,
         inCall' = [inCall EXCEPT ![c] = "none"], UNCHANGED <<prios, tcb, OSRdyTbl, OSEventTbl, ecb, flag>>
  PROVE  Tables' /\ \A t \in Live : WaitsIn(t)' = WaitsIn(t)
<1>1. PriosKept /\ TypesStay /\ UNCHANGED <<OSEventType, OSFlagType, OSFlagWaitList, node>>
  BY DEF PriosKept, TypesStay, prios, ecb, flag
<1>2. Live' = Live /\ OSTCBPrio' = OSTCBPrio /\ \A t \in Live : WaitsIn(t)' = WaitsIn(t)
  BY <1>1, LiveKept DEF WaitsIn
<1>3. WaitsIn(c) = {}
  BY LeftToLeave DEF Deleted
<1>4. inCall'[c] = "none" /\ \A t \in Live \ {c} : inCall'[t] = inCall[t]
  BY DEF TypeOK, Live, TCBs
<1>5. \A t \in Live \ {c} : Stays(t)
  BY <1>1, <1>2, <1>4 DEF Stays, tcb
<1>6. Consistent(Standing(c))'
  <2> DEFINE s == Standing(c)
             z == Standing(c)'
  <2>1. Consistent(s)
    BY DEF Tables, Standings
  <2>2. s.runs # {} /\ s.call = "MULTI" /\ s.pend = "OK"
    BY Fields DEF Deleted
  <2>3. /\ z.stat = s.stat /\ z.pend = s.pend /\ z.dly = s.dly /\ z.ev = s.ev /\ z.multi = s.multi
        /\ z.call = "none" /\ z.in = s.in /\ z.links = s.links /\ z.runs = s.runs
    BY <1>1, <1>2, <1>4 DEF Standing, tcb
  <2> HIDE DEF s, z
  <2>4. Consistent(z)
    BY <2>1, <2>2, <2>3, LeftEarly
  <2>5. QED
    BY <2>4 DEF z
<1>7. ListsNameTasks'
  BY <1>1, ListsShrink DEF Tables
<1>8. \A t \in Live : Consistent(Standing(t))'
  BY <1>5, <1>6, StandingStays DEF Tables, Standings
<1>9. QED
  BY <1>1, <1>2, <1>3, <1>4, <1>7, <1>8, TypesMatch DEF Tables, Standings

LEMMA EndsFlagCall ==
  ASSUME TypeOK, Tables, NEW c \in Live, c = OSTCBCur, OSTCBPrio[c] \in OSRdyTbl,
         OSFlagPendReturns
  PROVE  Tables'
<1>1. /\ Live' = Live /\ OSTCBPrio' = OSTCBPrio /\ OSTCBPrioTbl' = OSTCBPrioTbl /\ PriosKept
      /\ OSRdyTbl' = OSRdyTbl /\ OSEventTbl' = OSEventTbl /\ inCall[c] = "FLAG"
      /\ OSEventType' = OSEventType /\ OSFlagType' = OSFlagType /\ node' = node
      /\ OSTCBDly' = OSTCBDly /\ OSTCBEventPtr' = OSTCBEventPtr
      /\ OSTCBEventMultiPtr' = OSTCBEventMultiPtr
  BY LiveKept DEF PriosKept, OSFlagPendReturns, prios, Resumes, ecb
<1>2. /\ OSTCBStat'[c] = {} /\ OSTCBStatPend'[c] = "OK" /\ inCall'[c] = "none"
      /\ c \notin OSFlagWaitList'
  BY <1>1, LeftToLeave DEF OSFlagPendReturns, Unlinked, TypeOK, Live, TCBs
<1>3. /\ WaitsIn(c)' = {} /\ OSTCBEventPtr'[c] = NULL /\ OSTCBEventMultiPtr'[c] = {}
      /\ OSTCBDly'[c] = 0
  BY <1>1, LeftToLeave DEF WaitsIn
<1>4. OSFlagWaitList' \subseteq OSFlagWaitList /\ OSFlagWaitList \subseteq OSFlagWaitList' \cup {c}
  BY DEF OSFlagPendReturns, Unlinked
<1>5. ASSUME NEW t \in Live \ {c} PROVE Stays(t) /\ WaitsIn(t)' = WaitsIn(t)
  <2>1. WaitsIn(t)' = WaitsIn(t)
    BY <1>1 DEF WaitsIn
  <2>2. /\ OSTCBStat'[t] = OSTCBStat[t] /\ OSTCBStatPend'[t] = OSTCBStatPend[t]
        /\ inCall'[t] = inCall[t]
    BY DEF OSFlagPendReturns, TypeOK, Live, TCBs
  <2>3. QED
    BY <1>1, <1>4, <2>1, <2>2 DEF Stays
<1>6. ListsNameTasks'
  <2>1. TypesStay
    BY <1>1 DEF TypesStay
  <2>2. QED
    BY <1>1, <1>4, <2>1, ListsShrink DEF Tables
<1>7. Consistent(Standing(c))'
  <2> DEFINE z == Standing(c)'
  <2>1. /\ z.stat = {} /\ z.pend = "OK" /\ z.dly = 0 /\ z.ev = NULL /\ z.multi = {}
        /\ z.call = "none" /\ z.in = {} /\ z.links = {} /\ z.runs # {}
    BY <1>1, <1>2, <1>3, FieldsNext
  <2> HIDE DEF z
  <2>2. Consistent(z)
    BY <2>1, OutOfCall
  <2>3. QED
    BY <2>2 DEF z
<1>8. \A t \in Live : Consistent(Standing(t))'
  BY <1>5, <1>7, StandingStays DEF Tables, Standings
<1>9. \A t \in Live \ {c} : inCall'[t] = inCall[t]
  BY DEF OSFlagPendReturns, TypeOK
<1>10. QED
  BY <1>1, <1>2, <1>3, <1>5, <1>6, <1>8, <1>9 DEF Tables, Standings

\* The flag group serves waiters, or lets them go.
LEMMA WakesFlagWaiters ==
  ASSUME TypeOK, Tables, NEW rdy, DOMAIN rdy \subseteq OSFlagWaitList, OS_FlagTaskRdy(rdy),
         OSFlagType' = OSFlagType \/ OSFlagWaitList' = {},
         UNCHANGED <<OSTCBPrio, OSTCBPrioTbl, OSEventTbl, OSEventType, inCall, node>>
  PROVE  Tables'
<1> DEFINE W == DOMAIN rdy
<1>1. Live' = Live /\ OSTCBPrio' = OSTCBPrio /\ OSTCBPrioTbl' = OSTCBPrioTbl /\ PriosKept
  BY LiveKept DEF PriosKept
<1>2. W \subseteq Live
  BY DEF Tables, ListsNameTasks
<1>3. ASSUME NEW t \in Live
      PROVE  /\ WaitsIn(t)' = WaitsIn(t)
             /\ OSTCBPrio'[t] \in OSRdyTbl' <=>
                  (OSTCBPrio[t] \in OSRdyTbl \/ (t \in W /\ OSTCBStat[t] \subseteq {"FLAG"}))
  <2>1. WaitsIn(t)' = WaitsIn(t)
    BY <1>1 DEF WaitsIn
  <2>2. QED
    BY <1>1, <1>2, <2>1, PriosDiffer DEF OS_FlagTaskRdy
<1>4. ListsNameTasks'
  <2>1. TypesStay
    BY DEF TypesStay
  <2>2. OSFlagWaitList' \subseteq OSFlagWaitList
    BY DEF OS_FlagTaskRdy, Unlinked
  <2>3. \A p \in OSRdyTbl' : p \in OSRdyTbl \/ \E t \in Live : p = OSTCBPrio[t]
    BY <1>2 DEF OS_FlagTaskRdy
  <2>4. QED
    BY <1>1, <2>1, <2>2, <2>3, ListsShrink DEF Tables
<1>5. ASSUME NEW t \in Live PROVE Consistent(Standing(t))'
  <2>0. Consistent(Standing(t))
    BY DEF Tables, Standings
  <2>1. CASE t \notin W
    <3>1. Stays(t)
      BY <1>1, <1>3, <2>1 DEF OS_FlagTaskRdy, Unlinked, Stays, TypeOK, Live, TCBs
    <3>2. QED
      BY <2>0, <3>1, StandingStays
  <2>2. CASE t \in W
    <3> DEFINE s == Standing(t)
               z == Standing(t)'
    <3>1. /\ OSTCBStat'[t] = OSTCBStat[t] \ {"FLAG"} /\ OSTCBStatPend'[t] = "OK"
          /\ OSTCBDly'[t] = 0 /\ inCall'[t] = inCall[t] /\ t \notin OSFlagWaitList'
          /\ OSTCBEventPtr'[t] = OSTCBEventPtr[t]
          /\ OSTCBEventMultiPtr'[t] = OSTCBEventMultiPtr[t]
      BY <2>2 DEF OS_FlagTaskRdy, Unlinked, Live, TCBs
    <3>2. t \in OSFlagWaitList
      BY <2>2
    <3>3. /\ s.links # {} /\ z.stat = s.stat \ {"FLAG"} /\ z.pend = "OK" /\ z.dly = 0
          /\ z.ev = s.ev /\ z.multi = s.multi /\ z.call = s.call /\ z.in = s.in /\ z.links = {}
          /\ z.runs # {} <=> (s.runs # {} \/ s.stat \subseteq {"FLAG"})
      BY <1>3, <2>2, <3>1, <3>2, Fields, FieldsNext
    <3> HIDE DEF s, z
    <3>4. Consistent(s) => Consistent(z)
      BY <3>3, FlagWoken
    <3>5. QED
      BY <2>0, <3>4 DEF s, z
  <2>3. QED
    BY <2>1, <2>2
<1>6. \A t \in Live : WaitsIn(t)' \subseteq WaitsIn(t)
  BY <1>3
<1>7. TypesStay
  BY DEF TypesStay
<1>8. QED
  BY <1>1, <1>4, <1>5, <1>6, <1>7, TypesMatch DEF Tables, Standings

\* Time passes: each task counts down or its wait is over.
LEMMA TimePasses ==
  ASSUME TypeOK, Tables, NEW W \in SUBSET Live, \A t \in W : OSTCBDly[t] # 0 /\ OSTCBDly'[t] = 0,
         \A t \in Live \ W : OSTCBDly'[t] = OSTCBDly[t] \/ (OSTCBDly[t] # 0 /\ OSTCBDly'[t] # 0),
         DelayOver(W), PriosKept,
         UNCHANGED <<OSTCBEventPtr, OSTCBEventMultiPtr, OSEventTbl, inCall, OSEventType,
                     OSFlagType, OSFlagWaitList, node>>
  PROVE  Tables'
<1>1. Live' = Live /\ OSTCBPrio' = OSTCBPrio /\ OSTCBPrioTbl' = OSTCBPrioTbl
  BY LiveKept
<1>2. ASSUME NEW t \in Live
      PROVE  /\ WaitsIn(t)' = WaitsIn(t)
             /\ OSTCBPrio'[t] \in OSRdyTbl' <=>
                  (OSTCBPrio[t] \in OSRdyTbl \/ (t \in W /\ "SUSPEND" \notin OSTCBStat[t]))
  <2>1. WaitsIn(t)' = WaitsIn(t)
    BY <1>1 DEF WaitsIn
  <2>2. QED
    BY <1>1, <2>1, PriosDiffer DEF DelayOver, Released
<1>3. TypesStay
  BY DEF TypesStay
<1>4. ListsNameTasks'
  <2>1. \A p \in OSRdyTbl' : p \in OSRdyTbl \/ \E t \in Live : p = OSTCBPrio[t]
    BY DEF DelayOver, Released
  <2>2. QED
    BY <1>3, <2>1, ListsShrink DEF Tables
<1>5. ASSUME NEW t \in Live PROVE Consistent(Standing(t))'
  <2> DEFINE s == Standing(t)
             z == Standing(t)'
  <2>1. Consistent(s)
    BY DEF Tables, Standings
  <2>2. /\ z.ev = s.ev /\ z.multi = s.multi /\ z.call = s.call /\ z.in = s.in /\ z.links = s.links
        /\ z.runs # {} <=> (s.runs # {} \/ (t \in W /\ "SUSPEND" \notin s.stat))
    BY <1>2, Fields, FieldsNext
  <2>3. CASE t \in W
    <3>1. /\ s.dly # 0 /\ z.dly = 0 /\ z.stat = s.stat \ PendAny
          /\ z.pend = (IF s.stat \cap PendAny # {} THEN "TO" ELSE "OK")
      <4>1. /\ OSTCBStat'[t] = OSTCBStat[t] \ PendAny
            /\ OSTCBStatPend'[t] = (IF OSTCBStat[t] \cap PendAny # {} THEN "TO" ELSE "OK")
        BY <2>3 DEF DelayOver, Live, TCBs
      <4>2. QED
        BY <2>3, <4>1, Fields, FieldsNext
    <3> HIDE DEF s, z
    <3>2. Consistent(z)
      BY <2>1, <2>2, <2>3, <3>1, TimedOut
    <3>3. QED
      BY <3>2 DEF z
  <2>4. CASE t \notin W
    <3>1. OSTCBStat'[t] = OSTCBStat[t] /\ OSTCBStatPend'[t] = OSTCBStatPend[t]
      BY <2>4 DEF DelayOver, Live, TCBs
    <3>2. CASE OSTCBDly'[t] = OSTCBDly[t]
      <4>1. Stays(t)
        BY <1>2, <2>4, <3>1, <3>2 DEF Stays
      <4>2. QED
        BY <2>1, <4>1, StandingStays
    <3>3. CASE OSTCBDly[t] # 0 /\ OSTCBDly'[t] # 0
      <4>1. z.stat = s.stat /\ z.pend = s.pend /\ s.dly # 0 /\ z.dly # 0
        BY <3>1, <3>3, Fields, FieldsNext
      <4> HIDE DEF s, z
      <4>2. Consistent(z)
        BY <2>1, <2>2, <2>4, <4>1, CountsDown
      <4>3. QED
        BY <4>2 DEF z
    <3>4. QED
      BY <2>4, <3>2, <3>3
  <2>5. QED
    BY <2>3, <2>4
<1>6. \A t \in Live : WaitsIn(t)' \subseteq WaitsIn(t)
  BY <1>2
<1>7. QED
  BY <1>1, <1>3, <1>4, <1>5, <1>6, TypesMatch DEF Tables, Standings

\* One task is held back: suspended, or told to let time pass.
LEMMA HeldBack ==
  ASSUME TypeOK, Tables, NEW t \in Live, PriosKept, OSRdyTbl' = OSRdyTbl \ {OSTCBPrio[t]},
         \/ /\ OSTCBEventMultiPtr[t] = {} /\ OSTCBDly' = OSTCBDly
            /\ OSTCBStat' = [OSTCBStat EXCEPT ![t] = @ \cup {"SUSPEND"}]
         \/ /\ inCall[t] = "none" /\ OSTCBStat' = OSTCBStat
            /\ \E ticks \in Nat \ {0} : OSTCBDly' = [OSTCBDly EXCEPT ![t] = ticks],
         UNCHANGED <<OSTCBStatPend, OSTCBEventPtr, OSTCBEventMultiPtr, OSEventTbl, inCall,
                     OSEventType, OSFlagType, OSFlagWaitList, node>>
  PROVE  Tables'
<1>1. Live' = Live /\ OSTCBPrio' = OSTCBPrio /\ OSTCBPrioTbl' = OSTCBPrioTbl
  BY LiveKept
<1>2. \A u \in Live : WaitsIn(u)' = WaitsIn(u)
  BY <1>1 DEF WaitsIn
<1>3. TypesStay
  BY DEF TypesStay
<1>4. ListsNameTasks'
  BY <1>3, ListsShrink DEF Tables
<1>5. ASSUME NEW u \in Live \ {t} PROVE Stays(u)
  <2>1. OSTCBPrio'[u] \in OSRdyTbl' <=> OSTCBPrio[u] \in OSRdyTbl
    BY <1>1, PriosDiffer
  <2>2. u \in TCBs /\ u # t
    BY DEF Live, TCBs
  <2>3. OSTCBStat'[u] = OSTCBStat[u]
    BY <2>2 DEF TypeOK
  <2>4. OSTCBDly'[u] = OSTCBDly[u]
    BY <2>2 DEF TypeOK
  <2>5. QED
    BY <1>2, <2>1, <2>3, <2>4 DEF Stays
<1>6. Consistent(Standing(t))'
  <2> DEFINE s == Standing(t)
             z == Standing(t)'
  <2>1. Consistent(s)
    BY DEF Tables, Standings
  <2>2. /\ z.pend = s.pend /\ z.ev = s.ev /\ z.multi = s.multi /\ z.call = s.call
        /\ z.in = s.in /\ z.links = s.links /\ z.runs = {}
    BY <1>1, <1>2, Fields, FieldsNext
  <2>3. \/ s.multi = {} /\ z.dly = s.dly /\ z.stat = s.stat \cup {"SUSPEND"}
        \/ s.call = "none" /\ z.stat = s.stat /\ z.dly # 0
    <3>1. \/ /\ OSTCBEventMultiPtr[t] = {} /\ OSTCBDly'[t] = OSTCBDly[t]
             /\ OSTCBStat'[t] = OSTCBStat[t] \cup {"SUSPEND"}
          \/ inCall[t] = "none" /\ OSTCBStat'[t] = OSTCBStat[t] /\ OSTCBDly'[t] # 0
      BY DEF TypeOK, Live, TCBs
    <3>2. QED
      BY <3>1, Fields, FieldsNext
  <2> HIDE DEF s, z
  <2>4. Consistent(z)
    BY <2>1, <2>2, <2>3, Suspended, Delayed
  <2>5. QED
    BY <2>4 DEF z
<1>7. \A u \in Live : Consistent(Standing(u))'
  BY <1>5, <1>6, StandingStays DEF Tables, Standings
<1>8. QED
  BY <1>1, <1>2, <1>3, <1>4, <1>7, TypesMatch DEF Tables, Standings

LEMMA ResumesTask ==
  ASSUME TypeOK, Tables, NEW t \in Live, PriosKept, "SUSPEND" \in OSTCBStat[t],
         OSTCBStat' = [OSTCBStat EXCEPT ![t] = @ \ {"SUSPEND"}],
         OSRdyTbl' = IF OSTCBStat[t] = {"SUSPEND"} /\ OSTCBDly[t] = 0
                     THEN OSRdyTbl \cup {OSTCBPrio[t]} ELSE OSRdyTbl,
         UNCHANGED <<OSTCBStatPend, OSTCBDly, OSTCBEventPtr, OSTCBEventMultiPtr, OSEventTbl,
                     inCall, OSEventType, OSFlagType, OSFlagWaitList, node>>
  PROVE  Tables'
<1>1. Live' = Live /\ OSTCBPrio' = OSTCBPrio /\ OSTCBPrioTbl' = OSTCBPrioTbl
  BY LiveKept
<1>2. \A u \in Live : WaitsIn(u)' = WaitsIn(u)
  BY <1>1 DEF WaitsIn
<1>3. TypesStay
  BY DEF TypesStay
<1>4. ListsNameTasks'
  BY <1>3, ListsShrink DEF Tables
<1>5. ASSUME NEW u \in Live \ {t} PROVE Stays(u)
  <2>1. OSTCBPrio'[u] \in OSRdyTbl' <=> OSTCBPrio[u] \in OSRdyTbl
    BY <1>1, PriosDiffer
  <2>2. OSTCBStat'[u] = OSTCBStat[u] /\ OSTCBDly'[u] = OSTCBDly[u]
    BY DEF TypeOK
  <2>3. QED
    BY <1>2, <2>1, <2>2 DEF Stays
<1>6. Consistent(Standing(t))'
  <2> DEFINE s == Standing(t)
             z == Standing(t)'
  <2>1. Consistent(s)
    BY DEF Tables, Standings
  <2>2. s.runs = {}
    <3>1. "SUSPEND" \in s.stat
      BY Fields
    <3> HIDE DEF s
    <3>2. QED
      BY <2>1, <3>1 DEF Consistent
  <2>3. /\ z.stat = s.stat \ {"SUSPEND"} /\ z.dly = s.dly /\ z.pend = s.pend /\ z.ev = s.ev
        /\ z.multi = s.multi /\ z.call = s.call /\ z.in = s.in /\ z.links = s.links
        /\ "SUSPEND" \in s.stat
    BY <1>2, Fields, FieldsNext DEF TypeOK, Live, TCBs
  <2>4. z.runs # {} <=> (s.stat = {"SUSPEND"} /\ s.dly = 0)
    BY <1>1, <2>2, Fields, FieldsNext
  <2> HIDE DEF s, z
  <2>5. Consistent(z)
    BY <2>1, <2>3, <2>4, Resumed
  <2>6. QED
    BY <2>5 DEF z
<1>7. \A u \in Live : Consistent(Standing(u))'
  BY <1>5, <1>6, StandingStays DEF Tables, Standings
<1>8. QED
  BY <1>1, <1>2, <1>3, <1>4, <1>7, TypesMatch DEF Tables, Standings

-----------------------------------------------------------------------------
\* Priorities are reserved and given back; no task has a part in that.
NamesKept ==
  /\ OSTCBPrio' = OSTCBPrio
  /\ \A p \in Prios \cup {IdlePrio} :
       \/ OSTCBPrioTbl'[p] = OSTCBPrioTbl[p]
       \/ OSTCBPrioTbl[p] \notin TCBs /\ OSTCBPrioTbl'[p] \notin TCBs

LEMMA LiveNamed ==
  ASSUME TypeOK, NamesKept
  PROVE  /\ Live' = Live /\ Present' = Present /\ OSTCBPrio' = OSTCBPrio
         /\ \A p \in Prios \cup {IdlePrio} : OSTCBPrioTbl[p] \in TCBs => OSTCBPrioTbl'[p] = OSTCBPrioTbl[p]
<1>1. \A t \in Tasks : OSTCBPrio[t] \in Prios \cup {IdlePrio} /\ t \in TCBs
  BY DEF TypeOK, TCBs
<1>2. \A t \in Tasks : OSTCBPrioTbl'[OSTCBPrio'[t]] = t <=> OSTCBPrioTbl[OSTCBPrio[t]] = t
  BY <1>1 DEF NamesKept
<1>3. QED
  BY <1>2 DEF NamesKept, Live, Present

LEMMA TablesNamed ==
  ASSUME TypeOK, Tables, NamesKept, TypesStay,
         UNCHANGED <<OSRdyTbl, inCall, OSFlagWaitList, node>>,
         \A t \in Live : /\ OSTCBStat'[t] = OSTCBStat[t] /\ OSTCBStatPend'[t] = OSTCBStatPend[t]
                         /\ OSTCBDly'[t] = OSTCBDly[t] /\ OSTCBEventPtr'[t] = OSTCBEventPtr[t]
                         /\ OSTCBEventMultiPtr'[t] = OSTCBEventMultiPtr[t],
         \A e \in Events : OSEventTbl'[e] = OSEventTbl[e]
  PROVE  Tables'
<1>1. /\ Live' = Live /\ Present' = Present /\ OSTCBPrio' = OSTCBPrio
      /\ \A p \in Prios \cup {IdlePrio} : OSTCBPrioTbl[p] \in TCBs => OSTCBPrioTbl'[p] = OSTCBPrioTbl[p]
  BY LiveNamed
<1>2. Present \subseteq TCBs /\ Live \subseteq TCBs
  BY DEF Present, Live, TCBs
<1>3. ListsNameTasks'
  <2>1. /\ \A e \in Events : OSEventTbl[e] \subseteq Prios \cup {IdlePrio}
        /\ OSRdyTbl \subseteq Prios \cup {IdlePrio}
    BY DEF TypeOK
  <2>2. ASSUME NEW e \in Events, NEW p \in OSEventTbl[e]
        PROVE  OSTCBPrioTbl'[p] \in Live /\ OSTCBPrio[OSTCBPrioTbl'[p]] = p
    BY <1>1, <1>2, <2>1, <2>2 DEF Tables, ListsNameTasks
  <2>3. ASSUME NEW p \in OSRdyTbl
        PROVE  OSTCBPrioTbl'[p] \in Present /\ OSTCBPrio[OSTCBPrioTbl'[p]] = p
    BY <1>1, <1>2, <2>1, <2>3 DEF Tables, ListsNameTasks
  <2>4. /\ \A e \in Events : OSEventType'[e] = "UNUSED" => OSEventTbl'[e] = {}
        /\ OSFlagWaitList' \subseteq Live' /\ (OSFlagType' = "UNUSED" => OSFlagWaitList' = {})
    BY <1>1 DEF Tables, ListsNameTasks, TypesStay
  <2>5. QED
    BY <1>1, <2>2, <2>3, <2>4 DEF ListsNameTasks
<1>4. \A t \in Live : Stays(t) /\ WaitsIn(t)' = WaitsIn(t)
  BY <1>1 DEF Stays, WaitsIn
<1>5. \A t \in Live : Consistent(Standing(t))'
  BY <1>4, StandingStays DEF Tables, Standings
<1>6. \A t \in Live : \A f \in WaitsIn(t) : OSEventType'[f] = OSEventType[f]
  BY DEF TypesStay, WaitsIn
<1>7. QED
  BY <1>1, <1>3, <1>4, <1>5, <1>6 DEF Tables, Standings

\* A task is created: what its control block was told before is forgotten.
LEMMA TaskStarts ==
  ASSUME TypeOK, Tables, Creations, NEW c \in TCBs, c = OSTCBCur, creating[c] # NULL,
         NEW t \in Tasks \ Live,
         OSTCBPrio' = [OSTCBPrio EXCEPT ![t] = creating[c]],
         OSTCBPrioTbl' = [OSTCBPrioTbl EXCEPT ![creating[c]] = t],
         OSTCBStat' = [OSTCBStat EXCEPT ![t] = {}],
         OSTCBStatPend' = [OSTCBStatPend EXCEPT ![t] = "OK"],
         OSTCBDly' = [OSTCBDly EXCEPT ![t] = 0],
         OSTCBEventPtr' = [OSTCBEventPtr EXCEPT ![t] = NULL],
         OSTCBEventMultiPtr' = [OSTCBEventMultiPtr EXCEPT ![t] = {}],
         OSRdyTbl' = OSRdyTbl \cup {creating[c]},
         UNCHANGED <<OSEventTbl, inCall, OSEventType, OSFlagType, OSFlagWaitList, node>>
  PROVE  Tables' /\ Live' = Live \cup {t}
<1> DEFINE p == creating[c]
<1>1. /\ p \in Prios /\ OSTCBPrioTbl[p] = RESERVED /\ RESERVED \notin TCBs /\ inCall[t] = "none"
      /\ t \in TCBs /\ Live \subseteq TCBs /\ t # Idle /\ Tasks \subseteq TCBs
  BY KernelAssumption DEF TypeOK, Creations, TCBs, Live
<1>2. /\ OSTCBPrio' = [OSTCBPrio EXCEPT ![t] = p] /\ OSTCBPrioTbl' = [OSTCBPrioTbl EXCEPT ![p] = t]
      /\ OSRdyTbl' = OSRdyTbl \cup {p}
  OBVIOUS
<1> HIDE DEF p
<1>3. /\ OSTCBPrio'[t] = p /\ OSTCBPrioTbl'[p] = t
      /\ \A u \in TCBs \ {t} : OSTCBPrio'[u] = OSTCBPrio[u]
      /\ \A q \in (Prios \cup {IdlePrio}) \ {p} : OSTCBPrioTbl'[q] = OSTCBPrioTbl[q]
  BY <1>1, <1>2 DEF TypeOK
<1>4. \A u \in TCBs : OSTCBPrio[u] \in Prios \cup {IdlePrio}
  BY DEF TypeOK
<1>5. Live' = Live \cup {t} /\ Present' = Present \cup {t}
  <2>1. ASSUME NEW u \in Tasks PROVE OSTCBPrioTbl'[OSTCBPrio'[u]] = u <=> (u = t \/ OSTCBPrioTbl[OSTCBPrio[u]] = u)
    <3>1. CASE u = t
      BY <1>3, <3>1
    <3>2. CASE u # t
      <4>1. OSTCBPrio'[u] = OSTCBPrio[u] /\ OSTCBPrio[u] \in Prios \cup {IdlePrio}
        BY <1>1, <1>3, <1>4, <3>2
      <4>2. QED
        BY <1>1, <1>3, <3>2, <4>1
    <3>3. QED
      BY <3>1, <3>2
  <2>2. QED
    BY <2>1 DEF Live, Present
<1>6. \A u \in Live : u # t /\ u \in TCBs /\ OSTCBPrio'[u] = OSTCBPrio[u] /\ OSTCBPrio[u] # p
  BY <1>1, <1>3 DEF Live
<1>7. /\ \A e \in Events : p \notin OSEventTbl[e] /\ OSEventTbl[e] \subseteq Prios
      /\ p \notin OSRdyTbl /\ OSRdyTbl \subseteq Prios \cup {IdlePrio}
  <2>1. Present \subseteq TCBs
    BY <1>1 DEF Present, TCBs
  <2>2. QED
    BY <1>1, <2>1 DEF Tables, ListsNameTasks, TypeOK
<1>8. ASSUME NEW u \in Live PROVE WaitsIn(u)' = WaitsIn(u) /\ Stays(u)
  <2>1. WaitsIn(u)' = WaitsIn(u)
    BY <1>6 DEF WaitsIn
  <2>2. /\ OSTCBStat'[u] = OSTCBStat[u] /\ OSTCBStatPend'[u] = OSTCBStatPend[u]
        /\ OSTCBDly'[u] = OSTCBDly[u]
    BY <1>6 DEF TypeOK
  <2>3. OSTCBEventPtr'[u] = OSTCBEventPtr[u] /\ OSTCBEventMultiPtr'[u] = OSTCBEventMultiPtr[u]
    BY <1>6 DEF TypeOK
  <2>4. OSTCBPrio'[u] \in OSRdyTbl' <=> OSTCBPrio[u] \in OSRdyTbl
    BY <1>2, <1>6
  <2>5. QED
    BY <2>1, <2>2, <2>3, <2>4 DEF Stays
<1>9. WaitsIn(t)' = {}
  BY <1>3, <1>7 DEF WaitsIn
<1>10. Consistent(Standing(t))'
  <2> DEFINE z == Standing(t)'
  <2>1. /\ OSTCBStat'[t] = {} /\ OSTCBStatPend'[t] = "OK" /\ OSTCBDly'[t] = 0
        /\ OSTCBEventPtr'[t] = NULL /\ OSTCBEventMultiPtr'[t] = {} /\ inCall'[t] = "none"
    BY <1>1 DEF TypeOK
  <2>2. t \notin OSFlagWaitList' /\ OSTCBPrio'[t] \in OSRdyTbl'
    BY <1>2, <1>3 DEF Tables, ListsNameTasks
  <2>3. /\ z.stat = {} /\ z.pend = "OK" /\ z.dly = 0 /\ z.ev = NULL /\ z.multi = {}
        /\ z.call = "none" /\ z.in = {} /\ z.links = {} /\ z.runs # {}
    BY <1>9, <2>1, <2>2, FieldsNext
  <2> HIDE DEF z
  <2>4. Consistent(z)
    BY <2>3, OutOfCall
  <2>5. QED
    BY <2>4 DEF z
<1>11. ListsNameTasks'
  <2>1. ASSUME NEW e \in Events, NEW q \in OSEventTbl[e]
        PROVE  OSTCBPrioTbl'[q] \in Live /\ OSTCBPrio'[OSTCBPrioTbl'[q]] = q
    <3>1. OSTCBPrioTbl[q] \in Live /\ OSTCBPrio[OSTCBPrioTbl[q]] = q
      BY DEF Tables, ListsNameTasks
    <3>2. OSTCBPrioTbl'[q] = OSTCBPrioTbl[q]
      BY <1>3, <1>7
    <3>3. QED
      BY <1>6, <3>1, <3>2
  <2>2. ASSUME NEW q \in OSRdyTbl'
        PROVE  OSTCBPrioTbl'[q] \in Present' /\ OSTCBPrio'[OSTCBPrioTbl'[q]] = q
    <3>1. CASE q = p
      BY <1>1, <1>3, <1>5, <3>1
    <3>2. CASE q # p
      <4>1. q \in OSRdyTbl /\ OSTCBPrioTbl'[q] = OSTCBPrioTbl[q]
        BY <1>2, <1>3, <1>7, <3>2
      <4>2. OSTCBPrioTbl[q] \in Present /\ OSTCBPrio[OSTCBPrioTbl[q]] = q
        BY <4>1 DEF Tables, ListsNameTasks
      <4>3. OSTCBPrioTbl[q] \in TCBs \ {t}
        BY <1>1, <1>6, <4>2 DEF Present, TCBs
      <4>4. QED
        BY <1>3, <1>5, <4>1, <4>2, <4>3
    <3>3. QED
      BY <3>1, <3>2
  <2>3. OSFlagWaitList' \subseteq Live'
    BY <1>5 DEF Tables, ListsNameTasks
  <2>4. QED
    BY <1>5, <2>1, <2>2, <2>3 DEF Tables, ListsNameTasks
<1>12. \A u \in Live : Consistent(Standing(u))'
  BY <1>8, StandingStays DEF Tables, Standings
<1>13. inCall'[t] # "FLAG"
  BY <1>1
<1>14. QED
  BY <1>5, <1>8, <1>9, <1>10, <1>11, <1>12, <1>13 DEF Tables, Standings

\* The lists a task is in are those of the events it waits for.
LEMMA WaitsForItsEvents ==
  ASSUME Tables, NEW t \in Live
  PROVE  /\ WaitsIn(t) \subseteq {OSTCBEventPtr[t]} \cup OSTCBEventMultiPtr[t]
         /\ (OSTCBEventMultiPtr[t] = {} \/ inCall[t] = "MULTI") /\ (inCall[t] = "none" \/ Listed(t)) =>
              WaitsIn(t) = ({OSTCBEventPtr[t]} \cup OSTCBEventMultiPtr[t]) \cap Events
<1> DEFINE s == Standing(t)
<1>1. Consistent(s)
  BY DEF Tables, Standings
<1>2. /\ s.ev = OSTCBEventPtr[t] /\ s.multi = OSTCBEventMultiPtr[t] /\ s.call = inCall[t]
      /\ s.in = WaitsIn(t) /\ (s.links # {} <=> t \in OSFlagWaitList)
  BY Fields
<1>3. WaitsIn(t) \subseteq Events /\ NULL \notin Events
  BY KernelAssumption DEF WaitsIn
<1> HIDE DEF s
<1>4. s.in \subseteq {s.ev} \cup s.multi
  BY <1>1 DEF Consistent, InNoCall, InSingle, InMulti, InFlag
<1>5. s.call = "none" /\ s.multi = {} => s.in = {} /\ s.ev = NULL
  BY <1>1 DEF Consistent, InNoCall, InSingle, InMulti, InFlag, Single
<1>6. s.in # {} => (s.in = s.multi /\ s.ev = NULL) \/ (s.in = {s.ev} /\ s.call # "MULTI")
  BY <1>1 DEF Consistent, InNoCall, InSingle, InMulti, InFlag, Single
<1>7. s.links # {} => s.in = {} /\ s.ev = NULL /\ s.multi = {}
  BY <1>1 DEF Consistent, InNoCall, InSingle, InMulti, InFlag, Single
<1>8. ASSUME s.multi = {} \/ s.call = "MULTI", s.call = "none" \/ s.in # {} \/ s.links # {}
      PROVE  s.in = ({s.ev} \cup s.multi) \cap Events
  <2>1. CASE s.in = {} /\ s.ev = NULL /\ s.multi = {}
    BY <1>3, <2>1
  <2>2. CASE s.in = s.multi /\ s.ev = NULL
    BY <1>2, <1>3, <2>2
  <2>3. CASE s.in = {s.ev} /\ s.multi = {}
    BY <1>2, <1>3, <2>3
  <2>4. QED
    BY <1>5, <1>6, <1>7, <1>8, <2>1, <2>2, <2>3
<1>9. QED
  BY <1>2, <1>4, <1>8 DEF Listed

\* A task is deleted.
LEMMA TaskEnds ==
  ASSUME TypeOK, Tables, NEW p \in Prios, NEW t \in Live, t = OSTCBPrioTbl[p], OSTCBPrio[t] = p,
         OSTaskDel(p)
  PROVE  Tables' /\ Live' = Live \ {t}
<1>1. /\ OSRdyTbl' = OSRdyTbl \ {p} /\ OSFlagWaitList' = OSFlagWaitList \ {t}
      /\ OSTCBPrioTbl' = [OSTCBPrioTbl EXCEPT ![p] = NULL] /\ OSTCBPrio' = OSTCBPrio
      /\ OSEventType' = OSEventType /\ OSFlagType' = OSFlagType /\ node' = node
      /\ OSTCBEventPtr' = OSTCBEventPtr /\ OSTCBEventMultiPtr' = OSTCBEventMultiPtr
      /\ \A e \in Events : OSEventTbl'[e] = IF e = OSTCBEventPtr[t] \/ e \in OSTCBEventMultiPtr[t]
                                            THEN OSEventTbl[e] \ {p} ELSE OSEventTbl[e]
  BY DEF OSTaskDel, ecb, flag
<1>2. Live \subseteq TCBs /\ NULL \notin TCBs /\ RESERVED \notin TCBs /\ t \in Tasks /\ Tasks \subseteq TCBs
  BY KernelAssumption DEF Live, TCBs
<1>3. OSTCBPrioTbl'[p] = NULL /\ \A q \in (Prios \cup {IdlePrio}) \ {p} : OSTCBPrioTbl'[q] = OSTCBPrioTbl[q]
  BY <1>1 DEF TypeOK
<1>4. \A u \in TCBs : OSTCBPrio[u] \in Prios \cup {IdlePrio}
  BY DEF TypeOK
<1>5. Live' = Live \ {t}
  <2>1. ASSUME NEW u \in Tasks
        PROVE  OSTCBPrioTbl'[OSTCBPrio[u]] = u <=> (u # t /\ OSTCBPrioTbl[OSTCBPrio[u]] = u)
    BY <1>2, <1>3, <1>4
  <2>2. QED
    BY <1>1, <2>1 DEF Live
<1>6. \A e \in Events : OSEventTbl'[e] = OSEventTbl[e] \ {p}
  <2>1. \A e \in Events : p \in OSEventTbl[e] => e = OSTCBEventPtr[t] \/ e \in OSTCBEventMultiPtr[t]
    BY WaitsForItsEvents DEF WaitsIn
  <2>2. QED
    BY <1>1, <2>1
<1>7. ASSUME NEW u \in Live \ {t} PROVE WaitsIn(u)' = WaitsIn(u) /\ Stays(u)
  <2>1. OSTCBPrio[u] # p
    BY PriosDiffer
  <2>2. WaitsIn(u)' = WaitsIn(u)
    BY <1>1, <1>6, <2>1 DEF WaitsIn
  <2>3. OSTCBPrio'[u] \in OSRdyTbl' <=> OSTCBPrio[u] \in OSRdyTbl
    BY <1>1, <2>1
  <2>4. /\ OSTCBStat'[u] = OSTCBStat[u] /\ OSTCBStatPend'[u] = OSTCBStatPend[u]
        /\ OSTCBDly'[u] = OSTCBDly[u] /\ inCall'[u] = inCall[u]
    BY <1>2 DEF OSTaskDel, TypeOK
  <2>5. QED
    BY <1>1, <2>2, <2>3, <2>4 DEF Stays
<1>8. ListsNameTasks'
  <2>1. \A e \in Events : OSEventTbl[e] \subseteq Prios
    BY DEF TypeOK
  <2>2. ASSUME NEW e \in Events, NEW q \in OSEventTbl'[e]
        PROVE  OSTCBPrioTbl'[q] \in Live' /\ OSTCBPrio'[OSTCBPrioTbl'[q]] = q
    <3>1. q \in OSEventTbl[e] /\ q # p
      BY <1>6
    <3>2. QED
      BY <1>1, <1>3, <1>5, <2>1, <3>1 DEF Tables, ListsNameTasks
  <2>3. ASSUME NEW q \in OSRdyTbl'
        PROVE  OSTCBPrioTbl'[q] \in Present' /\ OSTCBPrio'[OSTCBPrioTbl'[q]] = q
    <3>1. q \in OSRdyTbl /\ q # p /\ q \in Prios \cup {IdlePrio}
      BY <1>1 DEF TypeOK
    <3>2. OSTCBPrioTbl'[q] = OSTCBPrioTbl[q] /\ OSTCBPrioTbl[q] \in Present
          /\ OSTCBPrio[OSTCBPrioTbl[q]] = q
      BY <1>3, <3>1 DEF Tables, ListsNameTasks
    <3>3. QED
      BY <1>1, <1>5, <3>1, <3>2 DEF Present
  <2>4. /\ \A e \in Events : OSEventType'[e] = "UNUSED" => OSEventTbl'[e] = {}
        /\ OSFlagWaitList' \subseteq Live' /\ (OSFlagType' = "UNUSED" => OSFlagWaitList' = {})
    BY <1>1, <1>5, <1>6 DEF Tables, ListsNameTasks
  <2>5. QED
    BY <2>2, <2>3, <2>4 DEF ListsNameTasks
<1>9. \A u \in Live \ {t} : Consistent(Standing(u))' /\ inCall'[u] = inCall[u]
  BY <1>7, StandingStays DEF Tables, Standings, Stays
<1>10. QED
  BY <1>1, <1>5, <1>7, <1>8, <1>9 DEF Tables, Standings

\* A task changes its priority.
LEMMA PrioChanges ==
  ASSUME TypeOK, Tables, NEW p \in Prios, NEW q \in Prios, NEW t \in Live,
         t = OSTCBPrioTbl[p], OSTCBPrio[t] = p, inCall[t] = "none" \/ Listed(t),
         OSTCBEventMultiPtr[t] = {} \/ inCall[t] = "MULTI", OSTaskChangePrio(p, q)
  PROVE  Tables' /\ Live' = Live
<1>1. /\ OSRdyTbl' = (IF p \in OSRdyTbl THEN (OSRdyTbl \ {p}) \cup {q} ELSE OSRdyTbl)
      /\ OSTCBPrioTbl[q] = NULL
      /\ OSTCBPrioTbl' = [OSTCBPrioTbl EXCEPT ![p] = NULL, ![q] = t]
      /\ OSTCBPrio' = [OSTCBPrio EXCEPT ![t] = q]
      /\ OSEventType' = OSEventType /\ OSFlagType' = OSFlagType /\ node' = node
      /\ OSFlagWaitList' = OSFlagWaitList /\ inCall' = inCall
      /\ OSTCBStat' = OSTCBStat /\ OSTCBStatPend' = OSTCBStatPend /\ OSTCBDly' = OSTCBDly
      /\ OSTCBEventPtr' = OSTCBEventPtr /\ OSTCBEventMultiPtr' = OSTCBEventMultiPtr
      /\ \A e \in Events : OSEventTbl'[e] = IF e = OSTCBEventPtr[t] \/ e \in OSTCBEventMultiPtr[t]
                                            THEN (OSEventTbl[e] \ {p}) \cup {q} ELSE OSEventTbl[e]
  BY DEF OSTaskChangePrio, ecb, flag, tcb, ThenSched
<1>2. Live \subseteq TCBs /\ NULL \notin TCBs /\ RESERVED \notin TCBs /\ t \in Tasks /\ Tasks \subseteq TCBs
      /\ p # q /\ Idle \notin Tasks
  BY <1>1, KernelAssumption DEF Live, TCBs
<1>3. /\ OSTCBPrioTbl'[p] = NULL /\ OSTCBPrioTbl'[q] = t
      /\ \A r \in (Prios \cup {IdlePrio}) \ {p, q} : OSTCBPrioTbl'[r] = OSTCBPrioTbl[r]
      /\ OSTCBPrio'[t] = q /\ \A u \in TCBs \ {t} : OSTCBPrio'[u] = OSTCBPrio[u]
  BY <1>1, <1>2 DEF TypeOK
<1>4. \A u \in TCBs : OSTCBPrio[u] \in Prios \cup {IdlePrio}
  BY DEF TypeOK
<1>5. Live' = Live
  <2>1. ASSUME NEW u \in Tasks PROVE OSTCBPrioTbl'[OSTCBPrio'[u]] = u <=> OSTCBPrioTbl[OSTCBPrio[u]] = u
    <3>1. CASE u = t
      BY <1>3, <3>1
    <3>2. CASE u # t
      <4>1. OSTCBPrio'[u] = OSTCBPrio[u] /\ OSTCBPrio[u] \in Prios \cup {IdlePrio}
        BY <1>2, <1>3, <1>4, <3>2
      <4>2. CASE OSTCBPrio[u] = p
        BY <1>2, <1>3, <3>2, <4>1, <4>2
      <4>3. CASE OSTCBPrio[u] = q
        BY <1>1, <1>2, <1>3, <3>2, <4>1, <4>3
      <4>4. CASE OSTCBPrio[u] \notin {p, q}
        BY <1>3, <4>1, <4>4
      <4>5. QED
        BY <4>2, <4>3, <4>4
    <3>3. QED
      BY <3>1, <3>2
  <2>2. QED
    BY <2>1 DEF Live
<1>6. \A e \in Events : OSEventTbl'[e] = IF p \in OSEventTbl[e] THEN (OSEventTbl[e] \ {p}) \cup {q}
                                         ELSE OSEventTbl[e]
  <2>1. WaitsIn(t) = ({OSTCBEventPtr[t]} \cup OSTCBEventMultiPtr[t]) \cap Events
    BY WaitsForItsEvents
  <2>2. \A e \in Events : p \in OSEventTbl[e] <=> e = OSTCBEventPtr[t] \/ e \in OSTCBEventMultiPtr[t]
    BY <2>1 DEF WaitsIn
  <2>3. QED
    BY <1>1, <2>2
<1>7. /\ \A u \in Live \ {t} : OSTCBPrio'[u] = OSTCBPrio[u] /\ OSTCBPrio[u] # p /\ OSTCBPrio[u] # q
      /\ \A e \in Events : q \notin OSEventTbl[e]
      /\ q \notin OSRdyTbl
  <2>1. \A u \in Live \ {t} : OSTCBPrio'[u] = OSTCBPrio[u] /\ OSTCBPrio[u] # p
    BY <1>2, <1>3, PriosDiffer
  <2>2. \A u \in Live : OSTCBPrio[u] # q
    BY <1>1, <1>2 DEF Live
  <2>3. Present \subseteq TCBs
    BY <1>2 DEF Present, TCBs
  <2>4. QED
    BY <1>1, <1>2, <2>1, <2>2, <2>3 DEF Tables, ListsNameTasks
<1>8. \A u \in Live : WaitsIn(u)' = WaitsIn(u)
  <2> TAKE u \in Live
  <2>1. ASSUME NEW e \in Events
        PROVE  OSTCBPrio'[u] \in OSEventTbl'[e] <=> OSTCBPrio[u] \in OSEventTbl[e]
    <3>1. CASE u = t
      BY <1>3, <1>6, <1>7, <3>1
    <3>2. CASE u # t
      <4>1. OSTCBPrio'[u] = OSTCBPrio[u] /\ OSTCBPrio[u] # p /\ OSTCBPrio[u] # q
        BY <1>7, <3>2
      <4>2. QED
        BY <1>6, <4>1
    <3>3. QED
      BY <3>1, <3>2
  <2>2. QED
    BY <2>1 DEF WaitsIn
<1>9. \A u \in Live : Stays(u)
  <2>1. \A u \in Live : OSTCBPrio'[u] \in OSRdyTbl' <=> OSTCBPrio[u] \in OSRdyTbl
    BY <1>1, <1>3, <1>7
  <2>2. QED
    BY <1>1, <1>8, <2>1 DEF Stays
<1>10. ListsNameTasks'
  <2>1. /\ \A e \in Events : OSEventTbl[e] \subseteq Prios
        /\ OSRdyTbl \subseteq Prios \cup {IdlePrio} /\ Present \subseteq TCBs /\ t \in Present
        /\ Present' = Present
    BY <1>2, <1>5 DEF TypeOK, Present, TCBs
  <2>2. ASSUME NEW r \in Prios \cup {IdlePrio}, r # p, r # q, OSTCBPrioTbl[r] \in TCBs,
               OSTCBPrio[OSTCBPrioTbl[r]] = r
        PROVE  OSTCBPrioTbl'[r] = OSTCBPrioTbl[r] /\ OSTCBPrio'[OSTCBPrioTbl[r]] = r
    BY <1>3, <2>2
  <2>3. ASSUME NEW e \in Events, NEW r \in OSEventTbl'[e]
        PROVE  OSTCBPrioTbl'[r] \in Live /\ OSTCBPrio'[OSTCBPrioTbl'[r]] = r
    <3>1. r = q \/ (r \in OSEventTbl[e] /\ r # p /\ r # q)
      <4>1. q \notin OSEventTbl[e]
        BY <1>7
      <4>2. OSEventTbl'[e] = IF p \in OSEventTbl[e] THEN (OSEventTbl[e] \ {p}) \cup {q} ELSE OSEventTbl[e]
        BY <1>6
      <4>3. QED
        BY <2>3, <4>1, <4>2
    <3>2. CASE r = q
      BY <1>3, <3>2
    <3>3. CASE r \in OSEventTbl[e] /\ r # p /\ r # q
      <4>1. OSTCBPrioTbl[r] \in Live /\ OSTCBPrio[OSTCBPrioTbl[r]] = r /\ r \in Prios
        BY <2>1, <3>3 DEF Tables, ListsNameTasks
      <4>2. QED
        BY <1>2, <2>2, <3>3, <4>1
    <3>4. QED
      BY <3>1, <3>2, <3>3
  <2>4. ASSUME NEW r \in OSRdyTbl'
        PROVE  OSTCBPrioTbl'[r] \in Present /\ OSTCBPrio'[OSTCBPrioTbl'[r]] = r
    <3>1. r = q \/ (r \in OSRdyTbl /\ r # p /\ r # q)
      BY <1>1, <1>7
    <3>2. CASE r = q
      BY <1>3, <2>1, <3>2
    <3>3. CASE r \in OSRdyTbl /\ r # p /\ r # q
      <4>1. OSTCBPrioTbl[r] \in Present /\ OSTCBPrio[OSTCBPrioTbl[r]] = r /\ r \in Prios \cup {IdlePrio}
        BY <2>1, <3>3 DEF Tables, ListsNameTasks
      <4>2. QED
        BY <2>1, <2>2, <3>3, <4>1
    <3>4. QED
      BY <3>1, <3>2, <3>3
  <2>5. /\ \A e \in Events : OSEventType'[e] = "UNUSED" => OSEventTbl'[e] = {}
        /\ OSFlagWaitList' \subseteq Live' /\ (OSFlagType' = "UNUSED" => OSFlagWaitList' = {})
    BY <1>1, <1>5, <1>6 DEF Tables, ListsNameTasks
  <2>6. QED
    BY <1>5, <2>1, <2>3, <2>4, <2>5 DEF ListsNameTasks
<1>11. \A u \in Live : Consistent(Standing(u))'
  BY <1>9, StandingStays DEF Tables, Standings
<1>12. QED
  BY <1>1, <1>5, <1>8, <1>10, <1>11 DEF Tables, Standings

-----------------------------------------------------------------------------
\* The owner c of a mutex, which runs at the PIP, goes back to its own priority.
Lowers(c, pip, own) ==
  /\ c \in Live /\ OSTCBPrio[c] = pip /\ OSTCBPrioTbl[own] = c /\ WaitsIn(c) = {}
  /\ pip \in Prios /\ own \in Prios /\ own # pip
  /\ OSTCBPrio' = [OSTCBPrio EXCEPT ![c] = own]
  /\ OSTCBPrioTbl'[own] = c /\ OSTCBPrioTbl'[pip] \notin TCBs
  /\ \A p \in (Prios \cup {IdlePrio}) \ {own, pip} : OSTCBPrioTbl'[p] = OSTCBPrioTbl[p]

LEMMA Lowering ==
  ASSUME TypeOK, Names, ListsNameTasks, NEW c, NEW pip, NEW own, Lowers(c, pip, own)
  PROVE  /\ Live' = Live /\ Present' = Present /\ OSTCBPrio'[c] = own
         /\ \A t \in Present \ {c} : /\ OSTCBPrio'[t] = OSTCBPrio[t]
                                     /\ OSTCBPrio[t] # pip /\ OSTCBPrio[t] # own
         /\ \A t \in Present : OSTCBPrioTbl'[OSTCBPrio'[t]] = t
         /\ \A e \in Events : own \notin OSEventTbl[e] /\ pip \notin OSEventTbl[e]
         /\ own \notin OSRdyTbl
<1>1. /\ Live \subseteq TCBs /\ Tasks \subseteq TCBs /\ Present \subseteq TCBs /\ c \in Tasks
      /\ IdlePrio \notin Prios /\ Idle \notin Tasks
  BY KernelAssumption DEF Live, TCBs, Present, Lowers
<1>2. OSTCBPrio'[c] = own /\ \A t \in TCBs \ {c} : OSTCBPrio'[t] = OSTCBPrio[t]
  BY <1>1 DEF Lowers, TypeOK
<1>3. \A t \in TCBs : OSTCBPrio[t] \in Prios \cup {IdlePrio}
  BY DEF TypeOK
<1>4. OSTCBPrioTbl[pip] = c
  BY DEF Lowers, Live
<1>5. Live' = Live
  <2>1. ASSUME NEW u \in Tasks PROVE OSTCBPrioTbl'[OSTCBPrio'[u]] = u <=> OSTCBPrioTbl[OSTCBPrio[u]] = u
    <3>1. CASE u = c
      BY <1>2, <1>4, <3>1 DEF Lowers
    <3>2. CASE u # c
      <4>1. OSTCBPrio'[u] = OSTCBPrio[u] /\ OSTCBPrio[u] \in Prios \cup {IdlePrio} /\ u \in TCBs
        BY <1>1, <1>2, <1>3, <3>2
      <4>2. CASE OSTCBPrio[u] \in {own, pip}
        BY <1>4, <3>2, <4>1, <4>2 DEF Lowers
      <4>3. CASE OSTCBPrio[u] \notin {own, pip}
        BY <4>1, <4>3 DEF Lowers
      <4>4. QED
        BY <4>2, <4>3
    <3>3. QED
      BY <3>1, <3>2
  <2>2. QED
    BY <2>1 DEF Live
<1>6. \A t \in Present \ {c} : /\ OSTCBPrio'[t] = OSTCBPrio[t] /\ OSTCBPrioTbl[OSTCBPrio[t]] = t
                               /\ OSTCBPrio[t] # pip /\ OSTCBPrio[t] # own
  <2>1. \A t \in Present : OSTCBPrioTbl[OSTCBPrio[t]] = t
    BY DEF Present, Live, Names
  <2>2. QED
    BY <1>1, <1>2, <1>4, <2>1 DEF Lowers
<1>7. \A t \in Present : OSTCBPrioTbl'[OSTCBPrio'[t]] = t
  BY <1>1, <1>2, <1>3, <1>6 DEF Lowers
<1>8. /\ \A e \in Events : own \notin OSEventTbl[e] /\ pip \notin OSEventTbl[e]
      /\ own \notin OSRdyTbl
  BY <1>4 DEF ListsNameTasks, Lowers, WaitsIn
<1>9. QED
  BY <1>2, <1>5, <1>6, <1>7, <1>8 DEF Present

\* Lists that hold the priorities of tasks name tasks.
LEMMA ListsName ==
  ASSUME TypesStay,
         \A t \in Present' : OSTCBPrioTbl'[OSTCBPrio'[t]] = t,
         \A e \in Events : \A p \in OSEventTbl'[e] : \E t \in Live' : p = OSTCBPrio'[t],
         \A p \in OSRdyTbl' : \E t \in Present' : p = OSTCBPrio'[t],
         OSFlagWaitList' \subseteq Live', OSFlagType = "UNUSED" => OSFlagWaitList' = {},
         \A e \in Events : OSEventType[e] = "UNUSED" => OSEventTbl'[e] = {}
  PROVE  ListsNameTasks'
<1>1. Live' \subseteq Present'
  BY DEF Present
<1>2. \A e \in Events : OSEventType'[e] = "UNUSED" => OSEventTbl'[e] = {}
  BY DEF TypesStay
<1>3. OSFlagType' = "UNUSED" => OSFlagWaitList' = {}
  BY DEF TypesStay
<1>4. \A e \in Events : \A p \in OSEventTbl'[e] : OSTCBPrioTbl'[p] \in Live' /\ OSTCBPrio'[OSTCBPrioTbl'[p]] = p
  BY <1>1
<1>5. QED
  BY <1>2, <1>3, <1>4 DEF ListsNameTasks

LEMMA LowersAndWakes ==
  ASSUME TypeOK, Names, Tables, NEW e \in Events, NEW W \in SUBSET Live,
         \A t \in W : e \in WaitsIn(t), NEW msg, NEW new \in {"OK", "ABORT"},
         NEW c, NEW pip, NEW own, Lowers(c, pip, own), pip \in OSRdyTbl,
         OS_EventTaskRdy(e, W, msg, OSEventType[e], new),
         OSRdyTbl' = ((OSRdyTbl \ {pip}) \cup {own}) \cup Released(W),
         UNCHANGED <<inCall, OSFlagType, OSFlagWaitList, node>>, TypesStay
  PROVE  Tables' /\ Live' = Live
<1>1. /\ Live' = Live /\ Present' = Present /\ OSTCBPrio'[c] = own
      /\ \A t \in Present \ {c} : /\ OSTCBPrio'[t] = OSTCBPrio[t]
                                  /\ OSTCBPrio[t] # pip /\ OSTCBPrio[t] # own
      /\ \A t \in Present : OSTCBPrioTbl'[OSTCBPrio'[t]] = t
      /\ \A f \in Events : own \notin OSEventTbl[f] /\ pip \notin OSEventTbl[f]
      /\ own \notin OSRdyTbl
  BY Lowering DEF Tables
<1>2. c \in Live /\ c \notin W /\ OSTCBPrio[c] = pip /\ own # pip /\ WaitsIn(c) = {} /\ Live \subseteq Present
  BY DEF Lowers, Present
<1>3. \A f \in Events : OSEventTbl'[f] = OSEventTbl[f] \
        {OSTCBPrio[t] : t \in {w \in W : f = e \/ f \in OSTCBEventMultiPtr[w]}}
  BY DEF OS_EventTaskRdy
<1>4. ASSUME NEW t \in Live
      PROVE  /\ WaitsIn(t)' = IF t \in W THEN WaitsIn(t) \ ({e} \cup OSTCBEventMultiPtr[t])
                              ELSE WaitsIn(t)
             /\ OSTCBPrio'[t] \in OSRdyTbl' <=>
                  (OSTCBPrio[t] \in OSRdyTbl \/ (t \in W /\ "SUSPEND" \notin OSTCBStat[t]))
  <2>1. CASE t = c
    <3>1. WaitsIn(t)' = {}
      BY <1>1, <1>3, <2>1 DEF WaitsIn
    <3>2. QED
      BY <1>1, <1>2, <2>1, <3>1
  <2>2. CASE t # c
    <3>1. OSTCBPrio'[t] = OSTCBPrio[t] /\ OSTCBPrio[t] # pip /\ OSTCBPrio[t] # own
      BY <1>1, <1>2, <2>2
    <3>2. \A f \in Events : OSTCBPrio[t] \in OSEventTbl'[f] <=>
            /\ OSTCBPrio[t] \in OSEventTbl[f]
            /\ ~(t \in W /\ (f = e \/ f \in OSTCBEventMultiPtr[t]))
      BY <1>3, PriosDiffer
    <3>3. QED
      BY <3>1, <3>2, PriosDiffer DEF WaitsIn, Released
  <2>3. QED
    BY <2>1, <2>2
<1>5. ListsNameTasks'
  <2>1. ASSUME NEW f \in Events, NEW p \in OSEventTbl'[f] PROVE \E t \in Live : p = OSTCBPrio'[t]
    <3>1. p \in OSEventTbl[f] /\ p # pip
      BY <1>1, <1>3
    <3>2. OSTCBPrioTbl[p] \in Live /\ OSTCBPrio[OSTCBPrioTbl[p]] = p
      BY <3>1 DEF Tables, ListsNameTasks
    <3>3. QED
      BY <1>1, <1>2, <3>1, <3>2
  <2>2. ASSUME NEW p \in OSRdyTbl' PROVE \E t \in Present : p = OSTCBPrio'[t]
    <3>1. CASE p = own
      BY <1>1, <1>2, <3>1
    <3>2. CASE p \in Released(W)
      BY <1>1, <1>2, <3>2 DEF Released
    <3>3. CASE p \in OSRdyTbl /\ p # pip
      <4>1. OSTCBPrioTbl[p] \in Present /\ OSTCBPrio[OSTCBPrioTbl[p]] = p
        BY <3>3 DEF Tables, ListsNameTasks
      <4>2. QED
        BY <1>1, <1>2, <3>3, <4>1
    <3>4. QED
      BY <3>1, <3>2, <3>3
  <2>3. /\ OSFlagWaitList' \subseteq Live' /\ (OSFlagType = "UNUSED" => OSFlagWaitList' = {})
        /\ \A f \in Events : OSEventType[f] = "UNUSED" => OSEventTbl'[f] = {}
    BY <1>1, <1>3 DEF Tables, ListsNameTasks
  <2>4. QED
    BY <1>1, <2>1, <2>2, <2>3, ListsName
<1>6. \A t \in Live : Consistent(Standing(t))'
  BY <1>4, WakesStanding DEF Tables
<1>7. \A t \in Live : WaitsIn(t)' \subseteq WaitsIn(t)
  BY <1>4
<1>8. QED
  BY <1>1, <1>5, <1>6, <1>7, TypesMatch DEF Tables, Standings

\* The running task c has to wait for the owner w of event e, which is raised to the
\* PIP: in the ready table or in the wait list it is in.
Raises(c, w, e, pip) ==
  LET old == OSTCBPrio[w] IN
  /\ c \in Live /\ c = OSTCBCur /\ w \in Live /\ w # c /\ inCall[c] = "none"
  /\ pip \in Prios /\ OSTCBPrioTbl[pip] \notin TCBs
  /\ WaitsIn(w) = IF old \notin OSRdyTbl /\ OSTCBEventPtr[w] # NULL THEN {OSTCBEventPtr[w]} ELSE {}
  /\ OSTCBPrio' = [OSTCBPrio EXCEPT ![w] = pip]
  /\ OSTCBPrioTbl' = [OSTCBPrioTbl EXCEPT ![pip] = w]
  /\ OSRdyTbl' = (IF old \in OSRdyTbl THEN (OSRdyTbl \ {old}) \cup {pip} ELSE OSRdyTbl) \ {OSTCBPrio[c]}
  /\ \A f \in Events : OSEventTbl'[f] =
       LET tbl == IF f \in WaitsIn(w) THEN (OSEventTbl[f] \ {old}) \cup {pip} ELSE OSEventTbl[f] IN
       IF f = e THEN tbl \cup {OSTCBPrio[c]} ELSE tbl

\* What holds after it.
HasRaised(c, w, e, pip) ==
  /\ Live' = Live /\ Present' = Present /\ OSTCBPrio'[w] = pip
  /\ \A t \in TCBs \ {w} : OSTCBPrio'[t] = OSTCBPrio[t]
  /\ \A t \in Present : OSTCBPrio[t] # pip /\ (t # w => OSTCBPrio[t] # OSTCBPrio[w])
  /\ \A t \in Present : OSTCBPrioTbl'[OSTCBPrio'[t]] = t
  /\ \A f \in Events : pip \notin OSEventTbl[f]
  /\ pip \notin OSRdyTbl
  /\ WaitsIn(c) = {} /\ WaitsIn(c)' = {e}
  /\ \A t \in Live \ {c} : /\ WaitsIn(t)' = WaitsIn(t)
                           /\ OSTCBPrio'[t] \in OSRdyTbl' <=> OSTCBPrio[t] \in OSRdyTbl
  /\ OSTCBPrio'[c] \notin OSRdyTbl'

LEMMA Raising ==
  ASSUME TypeOK, Names, Tables, NEW e \in Events, NEW c, NEW w, NEW pip, Raises(c, w, e, pip)
  PROVE  HasRaised(c, w, e, pip)
<1> DEFINE old == OSTCBPrio[w]
<1>0. /\ c \in Live /\ w \in Live /\ w # c /\ pip \in Prios /\ OSTCBPrioTbl[pip] \notin TCBs
      /\ OSTCBPrio' = [OSTCBPrio EXCEPT ![w] = pip]
      /\ OSTCBPrioTbl' = [OSTCBPrioTbl EXCEPT ![pip] = w]
      /\ OSRdyTbl' = (IF old \in OSRdyTbl THEN (OSRdyTbl \ {old}) \cup {pip} ELSE OSRdyTbl) \ {OSTCBPrio[c]}
      /\ \A f \in Events : OSEventTbl'[f] =
           LET tbl == IF f \in WaitsIn(w) THEN (OSEventTbl[f] \ {old}) \cup {pip} ELSE OSEventTbl[f] IN
           IF f = e THEN tbl \cup {OSTCBPrio[c]} ELSE tbl
  BY DEF Raises
<1>1. /\ Live \subseteq TCBs /\ Tasks \subseteq TCBs /\ Present \subseteq TCBs /\ Live \subseteq Tasks
      /\ IdlePrio \notin Prios /\ Idle \notin Tasks /\ Live \subseteq Present
  BY KernelAssumption DEF Live, TCBs, Present
<1>2. /\ OSTCBPrio'[w] = pip /\ \A t \in TCBs \ {w} : OSTCBPrio'[t] = OSTCBPrio[t]
      /\ OSTCBPrioTbl'[pip] = w
      /\ \A p \in (Prios \cup {IdlePrio}) \ {pip} : OSTCBPrioTbl'[p] = OSTCBPrioTbl[p]
  BY <1>0, <1>1 DEF TypeOK
<1>3. \A t \in TCBs : OSTCBPrio[t] \in Prios \cup {IdlePrio}
  BY DEF TypeOK
<1>4. \A t \in Present : OSTCBPrioTbl[OSTCBPrio[t]] = t
  BY DEF Present, Live, Names
<1>5. \A t \in Present : OSTCBPrio[t] # pip /\ (t # w => OSTCBPrio[t] # old)
  BY <1>0, <1>1, <1>4
<1>6. Live' = Live
  <2>1. ASSUME NEW u \in Tasks PROVE OSTCBPrioTbl'[OSTCBPrio'[u]] = u <=> OSTCBPrioTbl[OSTCBPrio[u]] = u
    <3>1. CASE u = w
      BY <1>0, <1>1, <1>2, <1>4, <3>1
    <3>2. CASE u # w
      BY <1>0, <1>1, <1>2, <1>3, <3>2
    <3>3. QED
      BY <3>1, <3>2
  <2>2. QED
    BY <2>1 DEF Live
<1>7. \A t \in Present : OSTCBPrioTbl'[OSTCBPrio'[t]] = t
  BY <1>0, <1>1, <1>2, <1>3, <1>4, <1>5
<1>8. (\A f \in Events : pip \notin OSEventTbl[f]) /\ pip \notin OSRdyTbl
  BY <1>0, <1>1 DEF Tables, ListsNameTasks
<1>9. WaitsIn(c) = {}
  BY Fields DEF Raises, Tables, Standings, Consistent, InNoCall, InSingle, InMulti, InFlag, Single
<1>10. OSTCBPrio'[c] = OSTCBPrio[c] /\ OSTCBPrio[c] # pip /\ OSTCBPrio[c] # old
  BY <1>0, <1>1, <1>2, <1>5
<1>11. WaitsIn(c)' = {e}
  <2>1. \A f \in Events : OSTCBPrio'[c] \in OSEventTbl'[f] <=> f = e
    BY <1>0, <1>9, <1>10 DEF WaitsIn
  <2>2. QED
    BY <2>1 DEF WaitsIn
<1>12. ASSUME NEW t \in Live \ {c}
       PROVE  /\ WaitsIn(t)' = WaitsIn(t)
              /\ OSTCBPrio'[t] \in OSRdyTbl' <=> OSTCBPrio[t] \in OSRdyTbl
  <2>1. OSTCBPrio[t] # OSTCBPrio[c] /\ OSTCBPrio[t] # pip
    BY <1>0, <1>1, <1>5, PriosDiffer
  <2>2. CASE t = w
    <3>1. \A f \in Events : pip \in OSEventTbl'[f] <=> f \in WaitsIn(w)
      BY <1>0, <1>8, <1>10
    <3>2. WaitsIn(t)' = WaitsIn(t)
      BY <1>2, <2>2, <3>1 DEF WaitsIn
    <3>3. QED
      BY <1>0, <1>2, <1>8, <1>10, <2>2, <3>2
  <2>3. CASE t # w
    <3>1. OSTCBPrio'[t] = OSTCBPrio[t] /\ OSTCBPrio[t] # old
      BY <1>1, <1>2, <1>5, <2>3
    <3>2. \A f \in Events : OSTCBPrio[t] \in OSEventTbl'[f] <=> OSTCBPrio[t] \in OSEventTbl[f]
      BY <1>0, <2>1, <3>1
    <3>3. WaitsIn(t)' = WaitsIn(t)
      BY <3>1, <3>2 DEF WaitsIn
    <3>4. QED
      BY <1>0, <2>1, <3>1, <3>3
  <2>4. QED
    BY <2>2, <2>3
<1>13. OSTCBPrio'[c] \notin OSRdyTbl'
  BY <1>0, <1>10
<1>14. QED
  BY <1>2, <1>5, <1>6, <1>7, <1>8, <1>9, <1>11, <1>12, <1>13 DEF Present, HasRaised

LEMMA RaisesAndWaits ==
  ASSUME TypeOK, Names, Tables, NEW c, NEW w, NEW e \in Events, NEW pip, Raises(c, w, e, pip),
         NEW tbl, NEW timeout, OSEventType[e] \in Single, Wait(e, tbl, OSEventType[e], timeout),
         UNCHANGED <<OSEventType, OSFlagType, OSFlagWaitList, node>>
  PROVE  Tables' /\ Live' = Live
<1> DEFINE s == Standing(c)
           z == Standing(c)'
<1>1. /\ Live' = Live /\ Present' = Present /\ OSTCBPrio'[w] = pip
      /\ \A t \in TCBs \ {w} : OSTCBPrio'[t] = OSTCBPrio[t]
      /\ \A t \in Present : OSTCBPrioTbl'[OSTCBPrio'[t]] = t
      /\ WaitsIn(c) = {} /\ WaitsIn(c)' = {e}
      /\ \A t \in Live \ {c} : /\ WaitsIn(t)' = WaitsIn(t)
                               /\ OSTCBPrio'[t] \in OSRdyTbl' <=> OSTCBPrio[t] \in OSRdyTbl
      /\ OSTCBPrio'[c] \notin OSRdyTbl'
  BY Raising DEF HasRaised
<1>2. /\ c \in Live /\ c = OSTCBCur /\ w \in Live /\ w # c /\ inCall[c] = "none" /\ c \in TCBs
      /\ Live \subseteq TCBs /\ Present \subseteq TCBs /\ Live \subseteq Present
      /\ OSRdyTbl' = (IF OSTCBPrio[w] \in OSRdyTbl THEN (OSRdyTbl \ {OSTCBPrio[w]}) \cup {pip}
                      ELSE OSRdyTbl) \ {OSTCBPrio[c]}
      /\ \A f \in Events : OSEventTbl'[f] =
           LET new == IF f \in WaitsIn(w) THEN (OSEventTbl[f] \ {OSTCBPrio[w]}) \cup {pip}
                      ELSE OSEventTbl[f] IN
           IF f = e THEN new \cup {OSTCBPrio[c]} ELSE new
  BY DEF Raises, Live, TCBs, Present
<1>3. /\ OSTCBStat'[c] = OSTCBStat[c] \cup {OSEventType[e]} /\ OSTCBStatPend'[c] = "OK"
      /\ inCall'[c] = OSEventType[e] /\ OSTCBEventPtr'[c] = e
      /\ OSTCBEventMultiPtr'[c] = OSTCBEventMultiPtr[c]
  BY <1>2 DEF Wait, Block, TypeOK
<1>4. ASSUME NEW t \in Live \ {c} PROVE Stays(t)
  <2>1. t \in TCBs \ {c}
    BY <1>2
  <2>2. /\ OSTCBStat'[t] = OSTCBStat[t] /\ OSTCBStatPend'[t] = OSTCBStatPend[t]
        /\ OSTCBDly'[t] = OSTCBDly[t] /\ OSTCBEventPtr'[t] = OSTCBEventPtr[t]
        /\ OSTCBEventMultiPtr'[t] = OSTCBEventMultiPtr[t] /\ inCall'[t] = inCall[t]
    BY <1>2, <2>1 DEF Wait, Block, TypeOK
  <2>3. QED
    BY <1>1, <2>2 DEF Stays
<1>5. Consistent(Standing(c))'
  <2>1. /\ s.call = "none" /\ z.call \in Single /\ z.stat = s.stat \cup {z.call} /\ z.pend = "OK"
        /\ z.ev \in Events /\ z.multi = s.multi /\ z.in = {z.ev} /\ z.links = s.links /\ z.runs = {}
    BY <1>1, <1>2, <1>3, Fields, FieldsNext
  <2>2. Consistent(s)
    BY <1>2 DEF Tables, Standings
  <2> HIDE DEF s, z
  <2>3. Consistent(z)
    BY <2>1, <2>2, WaitsForOne
  <2>4. QED
    BY <2>3 DEF z
<1>6. ListsNameTasks'
  <2>1. ASSUME NEW f \in Events, NEW p \in OSEventTbl'[f] PROVE \E t \in Live : p = OSTCBPrio'[t]
    <3>1. p = pip \/ p = OSTCBPrio[c] \/ (p \in OSEventTbl[f] /\ (p # OSTCBPrio[w] \/ f \notin WaitsIn(w)))
      BY <1>2
    <3>2. CASE p = pip
      BY <1>1, <1>2, <3>2
    <3>3. CASE p = OSTCBPrio[c]
      BY <1>1, <1>2, <3>3
    <3>4. CASE p \in OSEventTbl[f] /\ (p # OSTCBPrio[w] \/ f \notin WaitsIn(w))
      <4>1. OSTCBPrioTbl[p] \in Live /\ OSTCBPrio[OSTCBPrioTbl[p]] = p /\ p # OSTCBPrio[w]
        BY <3>4 DEF Tables, ListsNameTasks, WaitsIn
      <4>2. QED
        BY <1>1, <1>2, <4>1
    <3>5. QED
      BY <3>1, <3>2, <3>3, <3>4
  <2>2. ASSUME NEW p \in OSRdyTbl' PROVE \E t \in Present : p = OSTCBPrio'[t]
    <3>1. p = pip \/ (p \in OSRdyTbl /\ p # OSTCBPrio[w])
      BY <1>2
    <3>2. CASE p = pip
      BY <1>1, <1>2, <3>2
    <3>3. CASE p \in OSRdyTbl /\ p # OSTCBPrio[w]
      <4>1. OSTCBPrioTbl[p] \in Present /\ OSTCBPrio[OSTCBPrioTbl[p]] = p
        BY <3>3 DEF Tables, ListsNameTasks
      <4>2. QED
        BY <1>1, <1>2, <3>3, <4>1
    <3>4. QED
      BY <3>1, <3>2, <3>3
  <2>3. OSFlagWaitList' \subseteq Live' /\ (OSFlagType = "UNUSED" => OSFlagWaitList' = {})
    BY <1>1 DEF Tables, ListsNameTasks
  <2>4. \A f \in Events : OSEventType[f] = "UNUSED" => OSEventTbl'[f] = {}
    BY <1>2 DEF Tables, ListsNameTasks, Single, WaitsIn
  <2>5. TypesStay
    BY DEF TypesStay
  <2>6. QED
    BY <1>1, <2>1, <2>2, <2>3, <2>4, <2>5, ListsName
<1>7. \A t \in Live : Consistent(Standing(t))'
  BY <1>4, <1>5, StandingStays DEF Tables, Standings
<1>8. \A t \in Live \ {c} : inCall'[t] = inCall[t]
  BY <1>4 DEF Stays
<1>9. QED
  BY <1>1, <1>2, <1>3, <1>6, <1>7, <1>8 DEF Tables, Standings, Single

-----------------------------------------------------------------------------
\* The event pointers that a wait for several events leaves behind: only a deletion
\* can make it end that way.
Leftovers ==
  /\ \A t \in TCBs : OSTCBEventMultiPtr[t] # {} => "MULTI" \in app
  /\ "DELETE" \notin app => \A t \in Live :
       /\ OSTCBEventMultiPtr[t] # {} => inCall[t] = "MULTI"
       /\ inCall[t] = "MULTI" /\ OSTCBEventPtr[t] # NULL
            => OSEventType[OSTCBEventPtr[t]] \in {"SEM", "MBOX", "Q"}

\* The inductive invariant.
KInv ==
  /\ TypeOK /\ RingOK /\ Leftovers /\ UsedOnly /\ Tables /\ Names /\ Creations /\ MutexesOwned /\ OwnersWait
  /\ Processor /\ PrioTableAgrees /\ NoneWaitsInVain /\ OwnerIsUrgent /\ MutualExclusion

\* The task that calls a service exists and is in no call; it is ready, unless it lets
\* time pass or is suspended under a scheduler lock.
LEMMA AtTaskLevel ==
  ASSUME KInv, TaskLevel, NEW c, c = OSTCBCur
  PROVE  /\ c \in Live /\ c \in Tasks /\ c \in TCBs /\ OSTCBPrio[c] \in Prios
         /\ OSTCBPrioTbl[OSTCBPrio[c]] = c
         /\ inCall[c] = "none" /\ creating[c] = NULL /\ OSIntNesting = 0 /\ c \notin toSched
         /\ WaitsIn(c) = {} /\ c \notin OSFlagWaitList
         /\ OSLockNesting = 0 => Switches /\ OSTCBPrio[c] \in OSRdyTbl
         /\ "MUTEX" \in app => OSTCBPrio[c] \in OSRdyTbl
<1> DEFINE s == Standing(c)
<1>1. /\ c \in Live /\ c \in Tasks /\ c \in TCBs /\ OSTCBPrio[c] \in Prios
      /\ OSTCBPrioTbl[OSTCBPrio[c]] = c
      /\ inCall[c] = "none" /\ creating[c] = NULL /\ OSIntNesting = 0 /\ c \notin toSched
  BY DEF KInv, TaskLevel, Processor, Present, Live, TCBs, Names
<1>2. OSLockNesting = 0 => Switches /\ OSTCBPrio[c] \in OSRdyTbl
  BY <1>1 DEF Switches, KInv, Processor
<1>3. Consistent(s)
  BY <1>1 DEF KInv, Tables, Standings
<1>4. /\ s.stat = OSTCBStat[c] /\ s.pend = OSTCBStatPend[c] /\ s.dly = OSTCBDly[c]
      /\ s.ev = OSTCBEventPtr[c] /\ s.multi = OSTCBEventMultiPtr[c] /\ s.call = inCall[c]
      /\ s.in = WaitsIn(c) /\ (s.links # {} <=> c \in OSFlagWaitList)
      /\ (s.runs # {} <=> OSTCBPrio[c] \in OSRdyTbl)
  BY Fields
<1> HIDE DEF s
<1>5. InNoCall(s)
  BY <1>1, <1>3, <1>4 DEF Consistent, InSingle, InMulti, InFlag, Single
<1>6. s.runs # {} <=> ("SUSPEND" \notin s.stat /\ s.dly = 0)
  BY <1>3, <1>5 DEF Consistent, InNoCall
<1>7. ASSUME "MUTEX" \in app PROVE OSTCBPrio[c] \in OSRdyTbl
  <2>1. CASE OSLockNesting = 0
    BY <1>2, <2>1
  <2>2. CASE OSLockNesting # 0
    <3>1. OSLockNesting > 0 /\ app \in Apps
      BY <2>2, ApplicationRules DEF KInv, TypeOK
    <3>2. "LOCK" \in app /\ "SUSPEND" \notin app /\ "DELAY" \notin app
      BY <1>7, <3>1, ApplicationRules DEF KInv, UsedOnly
    <3>3. "SUSPEND" \notin OSTCBStat[c] /\ OSTCBDly[c] = 0
      BY <1>1, <3>2 DEF KInv, UsedOnly
    <3>4. QED
      BY <1>4, <1>6, <3>3
  <2>3. QED
    BY <2>1, <2>2
<1>8. QED
  BY <1>1, <1>2, <1>4, <1>5, <1>7 DEF InNoCall

\* Services that a wait cut short by a deletion would confuse are not used beside it.
LEMMA NothingLeft ==
  ASSUME KInv, NEW t \in Live, app \cap {"CHANGE", "FLAG", "MUTEX", "SUSPEND"} # {}
  PROVE  OSTCBEventMultiPtr[t] = {} \/ inCall[t] = "MULTI"
<1>1. t \in TCBs /\ app \in Apps
  BY DEF Live, TCBs, KInv, TypeOK
<1>2. "MULTI" \in app => "DELETE" \notin app
  BY <1>1, ApplicationRules
<1>3. QED
  BY <1>1, <1>2 DEF KInv, Leftovers

\* A task that goes on with a call it was blocked in is ready, and nothing locks.
LEMMA AtResumption ==
  ASSUME KInv, NEW call, call # "none", Resumes(call), NEW c, c = OSTCBCur
  PROVE  /\ c \in Live /\ c \in Tasks /\ c \in TCBs /\ inCall[c] = call /\ creating[c] = NULL
         /\ OSTCBPrio[c] \in OSRdyTbl /\ Switches /\ call \in app
<1>1. c \in TCBs /\ inCall[c] = call /\ c \notin toSched /\ OSIntNesting = 0
  BY DEF Resumes, KInv, TypeOK
<1>2. OSLockNesting = 0
  BY <1>1 DEF KInv, Processor, TypeOK
<1>3. Switches /\ c \in Present /\ OSTCBPrio[c] \in OSRdyTbl
  BY <1>1, <1>2 DEF KInv, Processor, Switches
<1>4. c \in Live /\ creating[c] = NULL
  BY <1>1 DEF KInv, Creations
<1>5. QED
  BY <1>1, <1>3, <1>4 DEF KInv, UsedOnly, Live

-----------------------------------------------------------------------------
\* A step that leaves the mutexes alone.
MutexesKept ==
  /\ PriosKept /\ UNCHANGED <<OSMutexPIP, app>>
  /\ \A e \in Events : OSEventType'[e] = "MUTEX" <=> OSEventType[e] = "MUTEX"
  /\ \A e \in Mutexes : OSEventPtr'[e] = OSEventPtr[e] /\ OSEventCnt'[e] = OSEventCnt[e]

LEMMA KeepsMutexes ==
  ASSUME MutexesOwned, MutexesKept
  PROVE  /\ MutexesOwned' /\ Mutexes' = Mutexes /\ Live' = Live /\ Present' = Present
         /\ \A e \in Mutexes : Owner(e)' = Owner(e) /\ (Raised(e)' <=> Raised(e))
<1>1. Mutexes' = Mutexes /\ Live' = Live /\ Present' = Present
  BY LiveKept DEF MutexesKept, Mutexes
<1>2. \A e \in Mutexes : Owner(e)' = Owner(e) /\ (Raised(e)' <=> Raised(e))
  BY DEF MutexesKept, Owner, Raised, PriosKept
<1>3. QED
  BY <1>1, <1>2 DEF MutexesOwned, MutexesKept, PriosKept, Mutexes

\* What an owner, or a waiter for a mutex, must not be told.
Undisturbed(t) ==
  /\ inCall'[t] = inCall[t] /\ WaitsIn(t)' \subseteq WaitsIn(t)
  /\ inCall[t] # "none" /\ OSTCBDly[t] = 0 /\ OSTCBStatPend[t] # "TO"
       => OSTCBDly'[t] = 0 /\ OSTCBStatPend'[t] # "TO"
  /\ inCall[t] = "MUTEX" /\ WaitsIn(t)' = {} /\ OSTCBStatPend'[t] = "OK"
       => WaitsIn(t) = {} /\ OSTCBStatPend[t] = "OK" /\ OSTCBEventPtr'[t] = OSTCBEventPtr[t]

\* A step that leaves priorities, calls and mutexes alone.
Frame ==
  /\ MutexesKept /\ UNCHANGED <<creating, inCall, inside>>
  /\ \A e \in Mutexes : OSEventTbl'[e] \subseteq OSEventTbl[e]
  /\ \A t \in Live : Undisturbed(t)

LEMMA FrameKeeps ==
  ASSUME KInv, Frame
  PROVE  /\ Names' /\ Creations' /\ MutexesOwned' /\ OwnersWait' /\ PrioTableAgrees'
         /\ OwnerIsUrgent' /\ MutualExclusion'
<1>1. /\ MutexesOwned' /\ Mutexes' = Mutexes /\ Live' = Live /\ Present' = Present
      /\ \A e \in Mutexes : Owner(e)' = Owner(e) /\ (Raised(e)' <=> Raised(e))
  BY KeepsMutexes DEF KInv, Frame
<1>2. PriosKept /\ OSMutexPIP' = OSMutexPIP /\ inCall' = inCall /\ creating' = creating /\ inside' = inside
  BY DEF Frame, MutexesKept
<1>3. OSTCBPrio' = OSTCBPrio /\ OSTCBPrioTbl' = OSTCBPrioTbl
  BY <1>2 DEF PriosKept
<1>4. Names' /\ Creations'
  BY <1>1, <1>2, <1>3 DEF KInv, Names, Creations
<1>5. OwnersWait'
  <2>1. \A e \in Mutexes : Owner(e) # NULL => Owner(e) \in Live
    BY DEF KInv, MutexesOwned
  <2>2. \A e \in Mutexes : Owner(e) # NULL /\ inCall[Owner(e)] # "none" =>
          OSTCBDly'[Owner(e)] = 0 /\ OSTCBStatPend'[Owner(e)] # "TO"
    BY <2>1 DEF KInv, OwnersWait, Frame, Undisturbed
  <2>3. \A t \in Live : inCall[t] = "MUTEX" /\ WaitsIn(t)' = {} /\ OSTCBStatPend'[t] = "OK" =>
          OSTCBEventPtr'[t] \in Mutexes /\ Owner(OSTCBEventPtr'[t]) = t
    BY DEF KInv, OwnersWait, Frame, Undisturbed
  <2>4. \A e, f \in Mutexes : \A t \in Live : e \in WaitsIn(t)' /\ Owner(f) = t => e = f
    BY DEF KInv, OwnersWait, Frame, Undisturbed
  <2>5. \A e \in Events \ Mutexes : inside[e] = {}
    BY DEF KInv, OwnersWait
  <2>6. QED
    BY <1>1, <1>2, <2>2, <2>3, <2>4, <2>5 DEF OwnersWait
<1>6. PrioTableAgrees'
  BY <1>1, <1>2, <1>3 DEF KInv, PrioTableAgrees, Frame, MutexesKept, Mutexes
<1>7. OwnerIsUrgent' /\ MutualExclusion'
  <2>1. OwnerIsUrgent'
    BY <1>3 DEF KInv, OwnerIsUrgent, Frame, MutexesKept, Mutexes
  <2>2. MutualExclusion'
    BY <1>1, <1>2 DEF KInv, MutualExclusion, OwnersWait, Mutexes, Owner
  <2>3. QED
    BY <2>1, <2>2
<1>8. QED
  BY <1>1, <1>4, <1>5, <1>6, <1>7

-----------------------------------------------------------------------------
\* The types, part by part; those of the queues are in RingOK.
TasksTyped ==
  /\ OSTCBPrio \in [TCBs -> Prios \cup {IdlePrio}]
  /\ OSTCBPrioTbl \in [Prios \cup {IdlePrio} -> TCBs \cup {NULL, RESERVED}]
  /\ OSTCBStat \in [TCBs -> SUBSET StatBits] /\ OSTCBStatPend \in [TCBs -> PendStats]
  /\ OSTCBDly \in [TCBs -> Nat] /\ OSTCBMsg \in [TCBs -> Messages \cup {NULL}]
  /\ OSTCBEventPtr \in [TCBs -> Events \cup {NULL}]
  /\ OSTCBEventMultiPtr \in [TCBs -> SUBSET Events]
  /\ OSRdyTbl \subseteq Prios \cup {IdlePrio} /\ IdlePrio \in OSRdyTbl
  /\ OSEventTbl \in [Events -> SUBSET Prios]
ProcessorTyped ==
  /\ OSTCBCur \in TCBs /\ OSPrioCur \in Prios \cup {IdlePrio}
  /\ OSIntNesting \in {0, 1} /\ OSLockNesting \in 0 .. MaxLock
  /\ inCall \in [TCBs -> {"none", "SEM", "MUTEX", "MBOX", "Q", "FLAG", "MULTI"}]
  /\ toSched \subseteq TCBs /\ creating \in [TCBs -> Prios \cup {NULL}]
EventsTyped ==
  /\ OSEventType \in [Events -> EventTypes] /\ OSEventCnt \in [Events -> Nat]
  /\ OSEventPtr \in [Events -> Tasks \cup Messages \cup {NULL}]
  /\ OSMutexPIP \in [Events -> Pip \cup {NULL}]
FlagsTyped ==
  /\ OSFlagType \in {"UNUSED", "FLAG"} /\ OSFlagFlags \subseteq Flags
  /\ OSFlagWaitList \subseteq Tasks /\ OSTCBFlagsRdy \in [TCBs -> SUBSET Flags]
  /\ node \in [TCBs -> [flags : SUBSET Flags, wait : WaitTypes, consume : BOOLEAN]]
ClientTyped == inside \in [Events -> SUBSET Tasks] /\ owed \in BOOLEAN /\ app \in Apps

LEMMA TypeParts ==
  /\ TypeOK => TasksTyped /\ ProcessorTyped /\ EventsTyped /\ FlagsTyped /\ ClientTyped
  /\ RingOK /\ TasksTyped /\ ProcessorTyped /\ EventsTyped /\ FlagsTyped /\ ClientTyped => TypeOK
<1>1. TypeOK => TasksTyped /\ ProcessorTyped /\ EventsTyped /\ FlagsTyped /\ ClientTyped
  BY DEF TypeOK, TasksTyped, ProcessorTyped, EventsTyped, FlagsTyped, ClientTyped
<1>2. RingOK => /\ OSQTbl \in [Events -> [0 .. QSize - 1 -> Messages \cup {NULL}]]
                /\ OSQIn \in [Events -> 0 .. QSize - 1] /\ OSQOut \in [Events -> 0 .. QSize - 1]
                /\ OSQEntries \in [Events -> 0 .. QSize]
  BY DEF RingOK, Cells, Contents
<1>3. QED
  BY <1>1, <1>2 DEF TypeOK, TasksTyped, ProcessorTyped, EventsTyped, FlagsTyped, ClientTyped

-----------------------------------------------------------------------------
\* A step in which the processor stays with its task: what it changes in the ready
\* table is followed by the scheduler, or owed to it.
LEMMA ProcessorKept ==
  ASSUME KInv, MutexesKept, UNCHANGED <<OSTCBCur, OSPrioCur, OSIntNesting, OSLockNesting>>,
         toSched \subseteq toSched', toSched' \subseteq Tasks,
         OSLockNesting > 0 => inCall'[OSTCBCur] = inCall[OSTCBCur],
         \/ OSIntNesting = 1 \/ OSTCBCur \in toSched'
         \/ OSRdyTbl' = OSRdyTbl /\ owed' = owed
         \/ OSRdyTbl \subseteq OSRdyTbl' /\ owed'
         \/ OSRdyTbl' \subseteq OSRdyTbl /\ owed' = owed
            /\ (OSTCBPrio[OSTCBCur] \in OSRdyTbl => OSTCBPrio[OSTCBCur] \in OSRdyTbl')
  PROVE  Processor'
<1>1. /\ Mutexes' = Mutexes /\ Live' = Live /\ Present' = Present /\ OSTCBPrio' = OSTCBPrio
      /\ OSTCBPrioTbl' = OSTCBPrioTbl /\ OSMutexPIP' = OSMutexPIP /\ app' = app
      /\ \A e \in Mutexes : Owner(e)' = Owner(e)
  BY KeepsMutexes DEF KInv, MutexesKept, PriosKept
<1>2. Demoted' <=> Demoted
  BY <1>1 DEF Demoted
<1>3. Lowered' <=> Lowered
  BY <1>1, <1>2 DEF Lowered
<1>4. Switches' => Switches /\ OSIntNesting = 0 /\ OSTCBCur \notin toSched'
  BY DEF Switches
<1>5. OSIntNesting # 1 \/ OSIntNesting # 0
  OBVIOUS
<1>6. Switches' => /\ OSTCBPrio'[OSTCBCur'] \in OSRdyTbl'
                   /\ Lowered => \A e \in Mutexes : OSMutexPIP[e] = OSPrioCur => Owner(e) \in {NULL, OSTCBCur}
                   /\ ~owed' => Lowered \/ \A q \in OSRdyTbl' : OSTCBPrio[OSTCBCur] <= q
  BY <1>1, <1>4, <1>5 DEF KInv, Processor
<1>7. QED
  BY <1>1, <1>3, <1>6 DEF KInv, Processor

\* The end of a service that may ready a more urgent task.
LEMMA SchedulesNext ==
  ASSUME KInv, AnyLevel, ThenSched
  PROVE  /\ toSched \subseteq toSched' /\ toSched' \subseteq Tasks
         /\ OSIntNesting = 1 \/ OSTCBCur \in toSched'
         /\ inCall' = inCall /\ creating' = creating
<1>1. OSIntNesting # 1 => OSTCBCur \in Tasks /\ OSIntNesting = 0
  BY AtTaskLevel DEF AnyLevel, TaskLevel
<1>2. toSched \subseteq Tasks /\ OSIntNesting \in {0, 1}
  BY DEF KInv, Processor, TypeOK
<1>3. QED
  BY <1>1, <1>2 DEF ThenSched

-----------------------------------------------------------------------------
\* Whether an event holds something, and no task waits for what is there.
Filled(e) ==
  \/ OSEventType[e] = "SEM" /\ OSEventCnt[e] > 0
  \/ OSEventType[e] = "MUTEX" /\ OSEventCnt[e] = Available
  \/ OSEventType[e] = "MBOX" /\ OSEventPtr[e] # NULL
  \/ OSEventType[e] = "Q" /\ OSQEntries[e] > 0

LEMMA LineHolds ==
  ASSUME OSEventCnt \in [Events -> Nat], OSQEntries \in [Events -> 0 .. QSize], NEW e \in Events
  PROVE  Line(e) # <<>> <=> Filled(e)
<1>1. ASSUME NEW S, NEW f, f = [i \in 1 .. 0 |-> S] PROVE f = <<>>
  BY <1>1
<1>2. OSEventCnt[e] \in Nat /\ OSQEntries[e] \in Nat
  BY KernelAssumption
<1>3. OSEventCnt[e] > 0 <=> [i \in 1 .. OSEventCnt[e] |-> Unit] # <<>>
  <2>1. CASE OSEventCnt[e] = 0
    BY <2>1
  <2>2. CASE OSEventCnt[e] > 0
    <3>1. 1 \in DOMAIN [i \in 1 .. OSEventCnt[e] |-> Unit]
      BY <1>2, <2>2
    <3>2. QED
      BY <2>2, <3>1
  <2>3. QED
    BY <1>2, <2>1, <2>2
<1>4. OSQEntries[e] > 0 <=> Queued(e) # <<>>
  <2>1. CASE OSQEntries[e] = 0
    BY <2>1 DEF Queued
  <2>2. CASE OSQEntries[e] > 0
    <3>1. 1 \in DOMAIN Queued(e)
      BY <1>2, <2>2 DEF Queued
    <3>2. QED
      BY <2>2, <3>1
  <2>3. QED
    BY <1>2, <2>1, <2>2
<1>5. QED
  BY <1>2, <1>3, <1>4 DEF Line, Filled

NothingToTake ==
  /\ \A e \in Events : Filled(e) => OSEventTbl[e] = {}
  /\ \A t \in OSFlagWaitList : ~Satisfied(OSFlagFlags, node[t])

LEMMA NothingInVain == TypeOK => (NoneWaitsInVain <=> NothingToTake)
<1>1. TypeOK => \A e \in Events : Line(e) # <<>> <=> Filled(e)
  BY LineHolds DEF TypeOK
<1>2. QED
  BY <1>1 DEF NoneWaitsInVain, NothingToTake

\* What remains of the invariant when the rings are taken care of.
KRest ==
  /\ TasksTyped /\ ProcessorTyped /\ EventsTyped /\ FlagsTyped /\ ClientTyped
  /\ UsedOnly /\ Tables /\ Names /\ Creations /\ MutexesOwned /\ OwnersWait
  /\ Processor /\ PrioTableAgrees /\ NothingToTake /\ OwnerIsUrgent /\ MutualExclusion

LEMMA RestAndRings == RingOK /\ Leftovers => (KRest <=> KInv)
BY TypeParts, NothingInVain DEF KRest, KInv

LEMMA KInvParts ==
  KInv => /\ TasksTyped /\ ProcessorTyped /\ EventsTyped /\ FlagsTyped /\ ClientTyped
          /\ NothingToTake
BY TypeParts, NothingInVain DEF KInv

-----------------------------------------------------------------------------
\* A step that changes what events and the flag group hold, or creates one, and
\* changes no task.
Made(e) == /\ OSEventType[e] = "UNUSED" /\ e \in app
           /\ OSEventType'[e] \in app \cap {"SEM", "MBOX", "Q"}
DataStep ==
  /\ UNCHANGED <<prios, tcb, OSRdyTbl, OSEventTbl, processor, calls, OSMutexPIP,
                 OSFlagWaitList, node, client>>
  /\ OSFlagType' = OSFlagType \/ OSFlagWaitList = {}
  /\ \A e \in Events : OSEventType'[e] = OSEventType[e] \/ Made(e)
  /\ \A e \in Mutexes : OSEventPtr'[e] = OSEventPtr[e] /\ OSEventCnt'[e] = OSEventCnt[e]

LEMMA DataKeeps ==
  ASSUME KInv, DataStep, EventsTyped', FlagsTyped',
         \A e \in Events : Filled(e)' => Filled(e) \/ OSEventTbl[e] = {},
         \A t \in OSFlagWaitList : ~Satisfied(OSFlagFlags', node[t])
  PROVE  KRest'
<1>0. \A e \in Events : OSEventType[e] = "UNUSED" => OSEventTbl[e] = {}
  BY DEF KInv, Tables, ListsNameTasks
<1>1. MutexesKept /\ PriosKept /\ TypesStay
  BY <1>0 DEF DataStep, Made, MutexesKept, PriosKept, TypesStay, prios, client
<1>2. TasksTyped' /\ ProcessorTyped' /\ ClientTyped' /\ UsedOnly'
  BY KInvParts DEF DataStep, TasksTyped, ProcessorTyped, ClientTyped, UsedOnly, KInv,
    prios, tcb, processor, calls, client, Made
<1>3. Tables'
  BY <1>1, TablesKept DEF KInv, DataStep, calls
<1>4. \A t \in Live : Undisturbed(t)
  BY DEF DataStep, Undisturbed, WaitsIn, prios, tcb, calls
<1>5. Frame
  BY <1>1, <1>4 DEF Frame, DataStep, calls, client
<1>6. Processor'
  BY <1>1, ProcessorKept DEF DataStep, processor, calls, client, KInv, Processor
<1>7. NothingToTake'
  BY KInvParts DEF DataStep, NothingToTake, Satisfied, FlagsRdy
<1>8. QED
  BY <1>2, <1>3, <1>5, <1>6, <1>7, FrameKeeps DEF KRest

\* A semaphore counts: down, or up while none waits.
LEMMA SemCounts ==
  ASSUME KInv, NEW e \in Events, OSEventType[e] = "SEM", NEW n \in Nat,
         OSEventCnt[e] > 0 \/ OSEventTbl[e] = {}, SemCount(e, n), OnlyCount
  PROVE  KRest'
<1>1. DataStep
  BY DEF OnlyCount, DataStep, SemCount, Mutexes, KInv, TypeOK, flag
<1>2. EventsTyped' /\ FlagsTyped'
  BY KInvParts DEF EventsTyped, FlagsTyped, SemCount, OnlyCount, flag
<1>3. \A f \in Events : Filled(f)' => Filled(f) \/ OSEventTbl[f] = {}
  BY KInvParts DEF Filled, SemCount, OnlyCount, KInv, TypeOK, queue, NothingToTake
<1>4. OSFlagFlags' = OSFlagFlags
  BY DEF OnlyCount, flag
<1>5. QED
  BY <1>1, <1>2, <1>3, <1>4, DataKeeps, KInvParts DEF NothingToTake, Satisfied, FlagsRdy

\* A message is put into a mailbox that is empty and that none waits for, or taken.
LEMMA BoxHolds ==
  ASSUME KInv, NEW e \in Events, OSEventType[e] = "MBOX", NEW m \in Messages \cup {NULL},
         m = NULL \/ OSEventTbl[e] = {}, Box(e, m), OnlyBox
  PROVE  KRest'
<1>1. DataStep
  BY DEF OnlyBox, DataStep, Box, Mutexes, KInv, TypeOK, flag
<1>2. EventsTyped' /\ FlagsTyped'
  BY KInvParts DEF EventsTyped, FlagsTyped, Box, OnlyBox, flag
<1>3. \A f \in Events : Filled(f)' => Filled(f) \/ OSEventTbl[f] = {}
  BY KInvParts DEF Filled, Box, OnlyBox, KInv, TypeOK, queue
<1>4. OSFlagFlags' = OSFlagFlags
  BY DEF OnlyBox, flag
<1>5. QED
  BY <1>1, <1>2, <1>3, <1>4, DataKeeps, KInvParts DEF NothingToTake, Satisfied, FlagsRdy

\* A queue loses messages, or gains one that none waits for.
LEMMA QueueHolds ==
  ASSUME KInv, NEW e \in Events, OnlyQueue,
         \A f \in Events \ {e} : OSQEntries'[f] = OSQEntries[f],
         OSQEntries'[e] > 0 => OSQEntries[e] > 0 \/ OSEventTbl[e] = {}
  PROVE  KRest'
<1>1. DataStep
  BY DEF OnlyQueue, DataStep, flag, ecb
<1>2. EventsTyped' /\ FlagsTyped'
  BY KInvParts DEF EventsTyped, FlagsTyped, OnlyQueue, flag, ecb
<1>3. \A f \in Events : Filled(f)' => Filled(f) \/ OSEventTbl[f] = {}
  BY DEF Filled, OnlyQueue, ecb
<1>4. OSFlagFlags' = OSFlagFlags
  BY DEF OnlyQueue, flag
<1>5. QED
  BY <1>1, <1>2, <1>3, <1>4, DataKeeps, KInvParts DEF NothingToTake, Satisfied, FlagsRdy

\* Who waits for flags is in a call for them.
LEMMA FlagWaiters ==
  ASSUME KInv, NEW t \in OSFlagWaitList
  PROVE  t \in Live /\ inCall[t] = "FLAG" /\ node[t] \in Wants
<1> DEFINE s == Standing(t)
<1>1. t \in Live
  BY DEF KInv, Tables, ListsNameTasks
<1>2. Consistent(s)
  BY <1>1 DEF KInv, Tables, Standings
<1>3. s.links # {} /\ s.call = inCall[t]
  BY Fields
<1> HIDE DEF s
<1>4. s.call = "FLAG"
  BY <1>2, <1>3 DEF Consistent, InNoCall, InSingle, InMulti, InFlag
<1>5. QED
  BY <1>1, <1>3, <1>4 DEF KInv, Tables, Standings

LEMMA WantsTyped ==
  \A n \in Wants : /\ n \in [flags : SUBSET Flags, wait : WaitTypes, consume : BOOLEAN]
                  /\ n.flags \subseteq Flags
<1> TAKE n \in Wants
<1>1. \/ n \in [flags : SUBSET Flags, wait : {"SET_ALL", "SET_ANY"}, consume : BOOLEAN]
      \/ n \in [flags : SUBSET Flags, wait : WaitTypes, consume : {FALSE}]
  BY ApplicationRules
<1>2. CASE n \in [flags : SUBSET Flags, wait : {"SET_ALL", "SET_ANY"}, consume : BOOLEAN]
  BY <1>2 DEF WaitTypes
<1>3. CASE n \in [flags : SUBSET Flags, wait : WaitTypes, consume : {FALSE}]
  BY <1>3
<1>4. QED
  BY <1>1, <1>2, <1>3

\* Flags are consumed: none of them is one that a waiter would miss.
LEMMA FlagsConsumed ==
  ASSUME KInv, NEW n \in Wants, NEW rdy \in SUBSET Flags,
         OSFlagFlags' = Consumed(OSFlagFlags, n, rdy)
  PROVE  /\ OSFlagFlags' \subseteq Flags
         /\ \A t \in OSFlagWaitList : ~Satisfied(OSFlagFlags', node[t])
<1>1. n.flags \subseteq Flags
  BY WantsTyped
<1>2. OSFlagFlags \subseteq Flags
  BY DEF KInv, TypeOK
<1>3. \A t \in OSFlagWaitList : node[t] \in Wants /\ ~Satisfied(OSFlagFlags, node[t])
  BY FlagWaiters, KInvParts DEF NothingToTake
<1>4. CASE ~n.consume
  BY <1>2, <1>3, <1>4 DEF Consumed
<1>5. CASE n.consume
  <2>1. \A m \in Wants : m.wait \in {"SET_ALL", "SET_ANY"}
    BY <1>5, ApplicationRules
  <2>2. OSFlagFlags' \subseteq OSFlagFlags
    BY <1>5, <2>1 DEF Consumed
  <2>3. ASSUME NEW m \in Wants, Satisfied(OSFlagFlags', m) PROVE Satisfied(OSFlagFlags, m)
    BY <2>1, <2>2, <2>3 DEF Satisfied, FlagsRdy
  <2>4. QED
    BY <1>2, <1>3, <2>2, <2>3
<1>6. QED
  BY <1>4, <1>5

LEMMA FlagsTaken ==
  ASSUME KInv, NEW n \in Wants, OSFlagFlags' = Consumed(OSFlagFlags, n, FlagsRdy(OSFlagFlags, n)),
         OSTCBFlagsRdy' \in [TCBs -> SUBSET Flags], OnlyFlags
  PROVE  KRest'
<1>1. DataStep
  BY DEF OnlyFlags, DataStep, ecb
<1>2. FlagsRdy(OSFlagFlags, n) \subseteq Flags
  <2>1. OSFlagFlags \subseteq Flags
    BY DEF KInv, TypeOK
  <2>2. QED
    BY <2>1, WantsTyped DEF FlagsRdy
<1>3. OSFlagFlags' \subseteq Flags /\ \A t \in OSFlagWaitList : ~Satisfied(OSFlagFlags', node[t])
  BY <1>2, FlagsConsumed
<1>4. EventsTyped' /\ FlagsTyped'
  BY <1>3, KInvParts DEF EventsTyped, FlagsTyped, OnlyFlags, ecb
<1>5. \A f \in Events : Filled(f)' => Filled(f)
  BY DEF Filled, OnlyFlags, ecb, queue
<1>6. QED
  BY <1>1, <1>3, <1>4, <1>5, DataKeeps

\* The flag group is created, and has no waiters.
LEMMA FlagsCreated ==
  ASSUME KInv, NEW flags \in Changes, OSFlagCreate(flags)
  PROVE  KRest'
<1>1. OSFlagWaitList = {}
  BY DEF KInv, Tables, ListsNameTasks, OSFlagCreate
<1>2. DataStep
  BY <1>1 DEF OSFlagCreate, DataStep, ecb
<1>3. EventsTyped' /\ FlagsTyped'
  BY <1>1, KInvParts, ApplicationRules DEF EventsTyped, FlagsTyped, OSFlagCreate, ecb
<1>4. \A f \in Events : Filled(f)' => Filled(f)
  BY DEF Filled, OSFlagCreate, ecb, queue
<1>5. QED
  BY <1>1, <1>2, <1>3, <1>4, DataKeeps

\* An event is created, and has no waiters.
LEMMA Creates ==
  ASSUME KInv, NEW e \in InUse, NEW type \in app \cap {"SEM", "MBOX", "Q"}, Create(e, type),
         UNCHANGED <<prios, tcb, OSRdyTbl, processor, calls, OSMutexPIP, flag, client>>,
         OSEventCnt' \in [Events -> Nat], OSEventPtr' \in [Events -> Tasks \cup Messages \cup {NULL}],
         \A f \in Events \ {e} : /\ OSEventCnt'[f] = OSEventCnt[f] /\ OSEventPtr'[f] = OSEventPtr[f]
                                 /\ OSQEntries'[f] = OSQEntries[f]
  PROVE  KRest'
<1>0. e \in Events /\ e \in app
  BY DEF InUse
<1>1. OSEventTbl[e] = {} /\ OSEventType[e] = "UNUSED"
  BY <1>0 DEF KInv, Tables, ListsNameTasks, Create
<1>2. OSEventTbl' = OSEventTbl
  BY <1>0, <1>1 DEF Create, KInv, TypeOK
<1>3. OSEventType'[e] = type /\ \A f \in Events \ {e} : OSEventType'[f] = OSEventType[f]
  BY <1>0 DEF Create, KInv, TypeOK
<1>4. DataStep
  BY <1>0, <1>1, <1>2, <1>3 DEF DataStep, Made, Mutexes, flag
<1>5. EventsTyped'
  BY <1>0, KInvParts DEF EventsTyped, Create, EventTypes
<1>6. FlagsTyped' /\ OSFlagFlags' = OSFlagFlags
  BY KInvParts DEF FlagsTyped, flag
<1>7. \A f \in Events : Filled(f)' => Filled(f) \/ OSEventTbl[f] = {}
  BY <1>1, <1>3 DEF Filled
<1>8. QED
  BY <1>4, <1>5, <1>6, <1>7, DataKeeps, KInvParts DEF NothingToTake, Satisfied, FlagsRdy

\* Events that are ready are all taken.
LEMMA TakesAll ==
  ASSUME KInv, NEW E \in SUBSET Events, NEW timeout, OSEventPendMulti(E, timeout),
         \E e \in E : Full(e)
  PROVE  KRest'
<1>1. /\ OSEventCnt' = [e \in Events |-> IF e \in E /\ Full(e) /\ OSEventType[e] = "SEM"
                                         THEN OSEventCnt[e] - 1 ELSE OSEventCnt[e]]
      /\ OSEventPtr' = [e \in Events |-> IF e \in E /\ Full(e) /\ OSEventType[e] = "MBOX"
                                         THEN NULL ELSE OSEventPtr[e]]
      /\ OSQEntries' = [e \in Events |-> IF e \in E /\ Full(e) /\ OSEventType[e] = "Q"
                                         THEN OSQEntries[e] - 1 ELSE OSQEntries[e]]
      /\ UNCHANGED <<prios, tcb, OSRdyTbl, OSEventTbl, calls, processor, OSEventType, OSMutexPIP,
                     flag, client>>
  BY DEF OSEventPendMulti
<1>2. OSEventCnt \in [Events -> Nat] /\ OSQEntries \in [Events -> 0 .. QSize]
  BY DEF KInv, TypeOK
<1>3. DataStep
  BY <1>1 DEF DataStep, Mutexes, flag
<1>4. OSEventCnt' \in [Events -> Nat]
  BY <1>1, <1>2 DEF Full
<1>5. EventsTyped' /\ FlagsTyped' /\ OSFlagFlags' = OSFlagFlags
  BY <1>1, <1>4, KInvParts DEF EventsTyped, FlagsTyped, flag
<1>6. \A f \in Events : Filled(f)' => Filled(f)
  BY <1>1, <1>2 DEF Filled, Full
<1>7. QED
  BY <1>3, <1>5, <1>6, DataKeeps, KInvParts DEF NothingToTake, Satisfied, FlagsRdy

-----------------------------------------------------------------------------
\* A semaphore, mailbox or queue serves waiters or lets them go, and may be deleted.
Wakes(e, W, msg, new) ==
  /\ e \in Events /\ OSEventType[e] \in {"SEM", "MBOX", "Q"}
  /\ W \in SUBSET Live /\ W \subseteq Waiters(e)
  /\ msg \in Messages \cup {NULL} /\ new \in {"OK", "ABORT"}
  /\ OS_EventTaskRdy(e, W, msg, OSEventType[e], new) /\ OSRdyTbl' = OSRdyTbl \cup Released(W)
  /\ UNCHANGED <<prios, processor, OSMutexPIP, queue, flag, inside, app>>
  /\ \/ UNCHANGED <<OSEventType, OSEventCnt, OSEventPtr>>
     \/ /\ W = Waiters(e) /\ OSEventType' = [OSEventType EXCEPT ![e] = "UNUSED"]
        /\ OSEventCnt' = [OSEventCnt EXCEPT ![e] = 0] /\ OSEventPtr' = [OSEventPtr EXCEPT ![e] = NULL]
  /\ \/ ThenSched /\ owed' = owed
     \/ UNCHANGED calls /\ owed' = TRUE
     \/ UNCHANGED calls /\ W = {} /\ owed' = owed

\* Who waits for such an event is in no call for a mutex, and leaves its list.
LEMMA WakesOnly ==
  ASSUME KInv, NEW e, NEW W, NEW msg, NEW new, Wakes(e, W, msg, new)
  PROVE  /\ \A t \in W : /\ t \in Live /\ e \in WaitsIn(t) /\ inCall[t] \in {OSEventType[e], "MULTI"}
         /\ \A f \in Events : OSEventTbl'[f] \subseteq OSEventTbl[f]
         /\ \A t \in Live : WaitsIn(t)' \subseteq WaitsIn(t)
         /\ \A t \in Live \ W : WaitsIn(t)' = WaitsIn(t)
         /\ W = Waiters(e) => OSEventTbl'[e] = {}
<1>1. OSTCBPrio' = OSTCBPrio /\ e \in Events /\ W \in SUBSET Live /\ W \subseteq Waiters(e)
  BY DEF Wakes, prios
<1>2. \A t \in W : /\ t \in Live /\ e \in WaitsIn(t)
  BY <1>1, WaitersWait DEF KInv, Tables
<1>3. \A t \in W : inCall[t] \in {OSEventType[e], "MULTI"}
  BY <1>1, <1>2 DEF KInv, Tables, Standings
<1>4. \A f \in Events : OSEventTbl'[f] = OSEventTbl[f] \
        {OSTCBPrio[t] : t \in {w \in W : f = e \/ f \in OSTCBEventMultiPtr[w]}}
  BY DEF Wakes, OS_EventTaskRdy
<1>5. \A f \in Events : OSEventTbl'[f] \subseteq OSEventTbl[f]
  BY <1>4
<1>6. \A t \in Live \ W, f \in Events : OSTCBPrio[t] \in OSEventTbl[f] => OSTCBPrio[t] \in OSEventTbl'[f]
  BY <1>1, <1>4, PriosDiffer
<1>7. W = Waiters(e) => OSEventTbl'[e] = {}
  <2>1. \A p \in OSEventTbl[e] : OSTCBPrio[OSTCBPrioTbl[p]] = p
    BY <1>1 DEF KInv, Tables, ListsNameTasks
  <2>2. QED
    BY <1>1, <1>4, <2>1 DEF Waiters
<1>8. QED
  BY <1>1, <1>2, <1>3, <1>5, <1>6, <1>7 DEF WaitsIn

LEMMA WakesKeep ==
  ASSUME KInv, AnyLevel, NEW e, NEW W, NEW msg, NEW new, Wakes(e, W, msg, new)
  PROVE  KRest'
<1>1. /\ e \in Events /\ W \in SUBSET Live /\ OSEventType[e] \in {"SEM", "MBOX", "Q"}
      /\ OS_EventTaskRdy(e, W, msg, OSEventType[e], new) /\ OSRdyTbl' = OSRdyTbl \cup Released(W)
      /\ msg \in Messages \cup {NULL} /\ new \in {"OK", "ABORT"}
      /\ UNCHANGED <<prios, processor, OSMutexPIP, queue, flag, inside, app>>
  BY DEF Wakes
<1>2. /\ \A t \in W : /\ t \in Live /\ e \in WaitsIn(t) /\ inCall[t] \in {OSEventType[e], "MULTI"}
      /\ \A f \in Events : OSEventTbl'[f] \subseteq OSEventTbl[f]
      /\ \A t \in Live : WaitsIn(t)' \subseteq WaitsIn(t)
      /\ \A t \in Live \ W : WaitsIn(t)' = WaitsIn(t)
      /\ W = Waiters(e) => OSEventTbl'[e] = {}
  BY WakesOnly
<1>3. /\ OSEventType' \in [Events -> EventTypes] /\ OSEventCnt' \in [Events -> Nat]
      /\ OSEventPtr' \in [Events -> Tasks \cup Messages \cup {NULL}]
      /\ OSEventType'[e] = "UNUSED" => OSEventTbl'[e] = {}
      /\ OSEventType'[e] \in {OSEventType[e], "UNUSED"}
      /\ OSEventType'[e] = OSEventType[e] => OSEventCnt'[e] = OSEventCnt[e] /\ OSEventPtr'[e] = OSEventPtr[e]
      /\ \A f \in Events \ {e} : /\ OSEventType'[f] = OSEventType[f] /\ OSEventCnt'[f] = OSEventCnt[f]
                                 /\ OSEventPtr'[f] = OSEventPtr[f]
  <2>1. /\ OSEventType \in [Events -> EventTypes] /\ OSEventCnt \in [Events -> Nat]
        /\ OSEventPtr \in [Events -> Tasks \cup Messages \cup {NULL}]
    BY DEF KInv, TypeOK
  <2>2. CASE UNCHANGED <<OSEventType, OSEventCnt, OSEventPtr>>
    BY <1>1, <2>1, <2>2
  <2>3. CASE /\ W = Waiters(e) /\ OSEventType' = [OSEventType EXCEPT ![e] = "UNUSED"]
             /\ OSEventCnt' = [OSEventCnt EXCEPT ![e] = 0] /\ OSEventPtr' = [OSEventPtr EXCEPT ![e] = NULL]
    BY <1>1, <1>2, <2>1, <2>3 DEF EventTypes
  <2>4. QED
    BY <2>2, <2>3 DEF Wakes
<1>4. /\ toSched \subseteq toSched' /\ toSched' \subseteq Tasks
      /\ inCall' = inCall /\ creating' = creating /\ owed' \in BOOLEAN
      /\ \/ OSIntNesting = 1 \/ OSTCBCur \in toSched' \/ owed'
         \/ OSRdyTbl' = OSRdyTbl /\ owed' = owed
  <2>1. owed \in BOOLEAN /\ toSched \subseteq Tasks
    BY DEF KInv, TypeOK, Processor
  <2>2. CASE ThenSched /\ owed' = owed
    BY <2>1, <2>2, SchedulesNext
  <2>3. CASE UNCHANGED calls /\ owed' = TRUE
    BY <2>1, <2>3 DEF calls, Wakes
  <2>4. CASE UNCHANGED calls /\ W = {} /\ owed' = owed
    <3>1. Released(W) = {}
      BY <2>4 DEF Released
    <3>2. QED
      BY <1>1, <2>1, <2>4, <3>1 DEF calls
  <2>5. QED
    BY <2>2, <2>3, <2>4 DEF Wakes
<1>5. MutexesKept /\ PriosKept /\ TypesStay
  BY <1>1, <1>3 DEF MutexesKept, PriosKept, TypesStay, prios, flag, Mutexes
<1>6. Tables'
  BY <1>1, <1>2, <1>4, <1>5, WakesTasks DEF KInv, prios, flag
<1>7. TasksTyped'
  <2>1. /\ OSTCBPrio \in [TCBs -> Prios \cup {IdlePrio}] /\ OSTCBStat \in [TCBs -> SUBSET StatBits]
        /\ OSTCBStatPend \in [TCBs -> PendStats] /\ OSTCBDly \in [TCBs -> Nat]
        /\ OSTCBMsg \in [TCBs -> Messages \cup {NULL}] /\ OSTCBEventPtr \in [TCBs -> Events \cup {NULL}]
        /\ OSEventTbl \in [Events -> SUBSET Prios] /\ W \subseteq TCBs /\ new \in PendStats
    BY <1>1 DEF KInv, TypeOK, Live, TCBs, PendStats
  <2>2. /\ OSTCBStat' \in [TCBs -> SUBSET StatBits] /\ OSTCBStatPend' \in [TCBs -> PendStats]
        /\ OSTCBDly' \in [TCBs -> Nat] /\ OSTCBMsg' \in [TCBs -> Messages \cup {NULL}]
        /\ OSTCBEventPtr' \in [TCBs -> Events \cup {NULL}] /\ OSEventTbl' \in [Events -> SUBSET Prios]
    BY <1>1, <2>1 DEF OS_EventTaskRdy
  <2>3. Released(W) \subseteq Prios \cup {IdlePrio}
    BY <2>1 DEF Released
  <2>4. QED
    BY <1>1, <2>2, <2>3, KInvParts DEF TasksTyped, OS_EventTaskRdy, prios
<1>8. ProcessorTyped' /\ EventsTyped' /\ FlagsTyped' /\ ClientTyped'
  BY <1>1, <1>3, <1>4, KInvParts DEF ProcessorTyped, EventsTyped, FlagsTyped, ClientTyped,
    processor, flag, TCBs
<1>9. /\ \A t \in TCBs : OSTCBStat'[t] \subseteq OSTCBStat[t] /\ (OSTCBDly'[t] # 0 => OSTCBDly'[t] = OSTCBDly[t])
  BY <1>1 DEF OS_EventTaskRdy
<1>10. UsedOnly'
  BY <1>1, <1>3, <1>4, <1>9 DEF UsedOnly, KInv, processor
<1>11. Frame
  <2>1. \A t \in Live \ W : Undisturbed(t)
    BY <1>1, <1>2, <1>4 DEF Undisturbed, OS_EventTaskRdy, Live, TCBs
  <2>2. \A t \in W : Undisturbed(t)
    BY <1>1, <1>2, <1>4 DEF Undisturbed, OS_EventTaskRdy, Live, TCBs
  <2>3. QED
    BY <1>1, <1>2, <1>4, <1>5, <2>1, <2>2 DEF Frame, Mutexes
<1>12. Processor'
  <2>1. OSRdyTbl \subseteq OSRdyTbl'
    BY <1>1
  <2>2. QED
    BY <1>1, <1>4, <1>5, <2>1, ProcessorKept DEF processor
<1>13. NothingToTake'
  <2>1. \A f \in Events : Filled(f)' => Filled(f)
    BY <1>1, <1>3 DEF Filled, queue
  <2>2. QED
    BY <1>1, <1>2, <2>1, KInvParts DEF NothingToTake, flag, Satisfied, FlagsRdy
<1>14. QED
  BY <1>6, <1>7, <1>8, <1>10, <1>11, <1>12, <1>13, FrameKeeps DEF KRest

-----------------------------------------------------------------------------
\* The running task c waits for the events of E, or for flags.
Blocks(c, E, stat, timeout, call) ==
  /\ c = OSTCBCur /\ TaskLevel /\ OSLockNesting = 0 /\ timeout \in Timeouts
  /\ E \in SUBSET Events /\ stat \in SUBSET (StatBits \ {"SUSPEND"})
  /\ call \in app \cap {"SEM", "MUTEX", "MBOX", "Q", "FLAG", "MULTI"}
  /\ Block(E, OSEventTbl, stat, timeout, call) /\ OSRdyTbl' = OSRdyTbl \ {OSTCBPrio[c]}
  /\ OSTCBEventPtr' \in [TCBs -> Events \cup {NULL}]
  /\ OSTCBEventMultiPtr' \in [TCBs -> SUBSET Events]
  /\ \A t \in Live \ {c} : OSTCBEventPtr'[t] = OSTCBEventPtr[t]
  /\ \A e \in E : ~Filled(e) /\ (e \in Mutexes => ~Inherits(e) /\ E = {e} /\ Owned(c) \subseteq {e})
  /\ Owned(c) # {} => timeout = 0
  /\ call = "MUTEX" => E # {}
  /\ UNCHANGED <<prios, processor, ecb, queue, client>>

\* An owner that is less urgent than the task that waits runs at the PIP already.
LEMMA NoneToLend ==
  ASSUME KInv, NEW c \in Live, c = OSTCBCur, NEW e \in Mutexes, ~Inherits(e), OSEventCnt[e] # Available,
         Owned(c) \subseteq {e}
  PROVE  OSTCBPrio[OSEventPtr[e]] <= OSTCBPrio[c]
<1> DEFINE w == OSEventPtr[e]
<1>1. /\ w \in Live /\ w \in Tasks /\ e \in Events /\ OSEventType[e] = "MUTEX"
      /\ OSEventCnt[e] = Base[w] /\ OSTCBPrio[w] \in {Base[w], OSMutexPIP[e]}
      /\ OSMutexPIP[e] \in Pip
  BY KernelAssumption DEF KInv, TypeOK, MutexesOwned, Owner, Mutexes, Live, TCBs
<1>2. OSMutexPIP[e] < Base[w] /\ OSMutexPIP[e] < Base[c] /\ c \in Tasks
  BY <1>1, ApplicationRules DEF Live
<1>3. "MUTEX" \in app
  BY <1>1 DEF KInv, UsedOnly
<1>4. OSTCBPrio[c] = Base[c] \/ (w = c /\ OSTCBPrio[c] = OSMutexPIP[e])
  BY <1>1, <1>2, <1>3 DEF KInv, MutexesOwned, Owner, Mutexes, Owned
<1>5. OSTCBPrio[w] \in Nat /\ OSTCBPrio[c] \in Nat /\ Base[w] \in Nat /\ Base[c] \in Nat /\ OSMutexPIP[e] \in Nat
  <2>1. Prios \cup {IdlePrio} \subseteq Nat /\ Pip \subseteq Nat /\ Base \in [Tasks -> Nat]
    <3>1. Prios \cup {IdlePrio} \subseteq Nat
      BY KernelAssumption
    <3>2. Pip \subseteq Prios /\ Base \in [Tasks -> Prios \ Pip]
      BY ApplicationRules
    <3>3. QED
      BY <3>1, <3>2
  <2>2. w \in TCBs /\ c \in TCBs /\ OSTCBPrio \in [TCBs -> Nat]
    BY <1>1, <1>2, <2>1 DEF KInv, TypeOK, TCBs
  <2>3. QED
    BY <1>1, <1>2, <2>1, <2>2
<1>6. ~(OSTCBPrio[w] > OSMutexPIP[e]) \/ ~(OSEventCnt[e] > OSTCBPrio[c])
  BY DEF Inherits
<1> HIDE DEF w
<1>7. OSTCBPrio[w] <= OSTCBPrio[c]
  BY <1>1, <1>2, <1>4, <1>5, <1>6
<1>8. QED
  BY <1>7 DEF w

LEMMA BlocksKeep ==
  ASSUME KInv, NEW c, NEW E, NEW stat, NEW timeout, NEW call, Blocks(c, E, stat, timeout, call),
         Tables', FlagsTyped', \A t \in OSFlagWaitList' : ~Satisfied(OSFlagFlags', node'[t])
  PROVE  KRest'
<1>1. /\ c \in Live /\ c \in Tasks /\ c \in TCBs /\ OSTCBPrio[c] \in Prios /\ inCall[c] = "none"
      /\ creating[c] = NULL /\ OSIntNesting = 0 /\ c \notin toSched /\ WaitsIn(c) = {}
      /\ c = OSTCBCur
  BY AtTaskLevel DEF Blocks
<1>2. /\ E \in SUBSET Events /\ stat \in SUBSET (StatBits \ {"SUSPEND"}) /\ timeout \in Nat
      /\ OSLockNesting = 0 /\ call \in app \cap {"SEM", "MUTEX", "MBOX", "Q", "FLAG", "MULTI"}
      /\ OSRdyTbl' = OSRdyTbl \ {OSTCBPrio[c]}
      /\ UNCHANGED <<prios, processor, ecb, queue, client>>
      /\ \A t \in Live \ {c} : OSTCBEventPtr'[t] = OSTCBEventPtr[t]
  BY ApplicationRules DEF Blocks, Timeouts
<1>3. /\ OSTCBStat' = [OSTCBStat EXCEPT ![c] = @ \cup stat] /\ OSTCBStatPend' = [OSTCBStatPend EXCEPT ![c] = "OK"]
      /\ OSTCBDly' = [OSTCBDly EXCEPT ![c] = timeout] /\ inCall' = [inCall EXCEPT ![c] = call]
      /\ toSched' = toSched \cup {c} /\ OSTCBMsg' = OSTCBMsg /\ creating' = creating
      /\ OSEventTbl' = [e \in Events |-> IF e \in E THEN OSEventTbl[e] \cup {OSTCBPrio[c]} ELSE OSEventTbl[e]]
  BY <1>1 DEF Blocks, Block
<1>4. MutexesKept /\ PriosKept
  BY <1>2 DEF MutexesKept, PriosKept, prios, ecb, client
<1>5. /\ MutexesOwned' /\ Mutexes' = Mutexes /\ Live' = Live /\ Present' = Present
      /\ \A e \in Mutexes : Owner(e)' = Owner(e) /\ (Raised(e)' <=> Raised(e))
  BY <1>4, KeepsMutexes DEF KInv
<1>6. TasksTyped' /\ ProcessorTyped' /\ EventsTyped' /\ ClientTyped'
  <2>1. /\ OSTCBStat \in [TCBs -> SUBSET StatBits] /\ OSTCBStatPend \in [TCBs -> PendStats]
        /\ OSTCBDly \in [TCBs -> Nat] /\ OSEventTbl \in [Events -> SUBSET Prios]
        /\ OSRdyTbl \subseteq Prios \cup {IdlePrio} /\ IdlePrio \in OSRdyTbl
        /\ inCall \in [TCBs -> {"none", "SEM", "MUTEX", "MBOX", "Q", "FLAG", "MULTI"}]
        /\ OSTCBPrio[c] # IdlePrio
    BY <1>1, KernelAssumption DEF KInv, TypeOK
  <2>2. TasksTyped'
    BY <1>1, <1>2, <1>3, <2>1, KInvParts DEF TasksTyped, PendStats, prios, Blocks
  <2>3. ProcessorTyped' /\ EventsTyped' /\ ClientTyped'
    BY <1>1, <1>2, <1>3, <2>1, KInvParts DEF ProcessorTyped, EventsTyped, ClientTyped,
      processor, ecb, client
  <2>4. QED
    BY <2>2, <2>3
<1>7. /\ inCall'[c] = call /\ OSTCBStat'[c] = OSTCBStat[c] \cup stat /\ OSTCBDly'[c] = timeout
      /\ OSTCBStatPend'[c] = "OK"
      /\ \A t \in TCBs \ {c} : /\ inCall'[t] = inCall[t] /\ OSTCBStat'[t] = OSTCBStat[t]
                               /\ OSTCBDly'[t] = OSTCBDly[t] /\ OSTCBStatPend'[t] = OSTCBStatPend[t]
  BY <1>1, <1>3 DEF KInv, TypeOK
<1>8. UsedOnly'
  BY <1>1, <1>2, <1>3, <1>7 DEF KInv, UsedOnly, processor, ecb, client
<1>9. Names' /\ Creations'
  BY <1>1, <1>2, <1>3, <1>5, <1>7 DEF KInv, Names, Creations, prios
<1>10. WaitsIn(c)' = E /\ \A t \in Live \ {c} : WaitsIn(t)' = WaitsIn(t)
  <2>1. \A t \in Live \ {c} : OSTCBPrio[t] # OSTCBPrio[c]
    BY <1>1, PriosDiffer
  <2>2. QED
    BY <1>1, <1>2, <1>3, <2>1 DEF WaitsIn, prios
<1>11. OwnersWait'
  <2>1. \A e \in Mutexes : Owner(e) # NULL => Owner(e) \in Live
    BY DEF KInv, MutexesOwned
  <2>2. \A e \in Mutexes : Owner(e) # NULL /\ inCall'[Owner(e)] # "none" =>
          OSTCBDly'[Owner(e)] = 0 /\ OSTCBStatPend'[Owner(e)] # "TO"
    <3>1. \A e \in Mutexes : Owner(e) = c => timeout = 0
      BY DEF Blocks, Owned, Mutexes, Owner
    <3>2. QED
      BY <1>7, <2>1, <3>1 DEF KInv, OwnersWait, Live, TCBs
  <2>3. \A t \in Live : inCall'[t] = "MUTEX" /\ WaitsIn(t)' = {} /\ OSTCBStatPend'[t] = "OK" =>
          OSTCBEventPtr'[t] \in Mutexes /\ Owner(OSTCBEventPtr'[t]) = t
    <3>1. E = {} => call # "MUTEX"
      BY DEF Blocks
    <3>2. QED
      BY <1>2, <1>7, <1>10, <3>1 DEF KInv, OwnersWait, Live, TCBs
  <2>4. \A e, f \in Mutexes : \A t \in Live : e \in WaitsIn(t)' /\ Owner(f) = t => e = f
    <3>1. \A e, f \in Mutexes : e \in E /\ Owner(f) = c => e = f
      BY DEF Blocks, Owned, Mutexes, Owner
    <3>2. QED
      BY <1>10, <3>1 DEF KInv, OwnersWait
  <2>5. \A e \in Events \ Mutexes : inside'[e] = {}
    BY <1>2 DEF KInv, OwnersWait, client
  <2>6. QED
    BY <1>5, <2>2, <2>3, <2>4, <2>5 DEF OwnersWait
<1>12. PrioTableAgrees'
  BY <1>2, <1>3 DEF KInv, PrioTableAgrees, prios, ecb
<1>13. OwnerIsUrgent'
  <2>1. \A e \in Mutexes \cap E : OSEventPtr[e] # NULL => OSTCBPrio[OSEventPtr[e]] <= OSTCBPrio[c]
    <3> TAKE e \in Mutexes \cap E
    <3>1. ~Inherits(e) /\ Owned(c) \subseteq {e}
      BY DEF Blocks
    <3>2. OSEventPtr[e] # NULL => OSEventCnt[e] # Available
      BY DEF KInv, MutexesOwned, Owner
    <3>3. QED
      BY <1>1, <3>1, <3>2, NoneToLend
  <2>2. QED
    BY <1>2, <1>3, <2>1 DEF KInv, OwnerIsUrgent, Mutexes, prios, ecb
<1>14. MutualExclusion'
  BY <1>2 DEF KInv, MutualExclusion, ecb, client
<1>15. Processor'
  <2>1. toSched \subseteq toSched' /\ toSched' \subseteq Tasks
    BY <1>1, <1>3 DEF KInv, Processor
  <2>2. QED
    BY <1>1, <1>2, <1>3, <1>4, <2>1, ProcessorKept DEF processor
<1>16. NothingToTake'
  <2>1. \A f \in Events : (Filled(f)' <=> Filled(f)) /\ (f \in E => ~Filled(f))
    BY <1>2 DEF Filled, ecb, queue, Blocks
  <2>2. QED
    BY <1>3, <2>1, KInvParts DEF NothingToTake, Satisfied, FlagsRdy
<1>17. QED
  BY <1>5, <1>6, <1>8, <1>9, <1>11, <1>12, <1>13, <1>14, <1>15, <1>16 DEF KRest

-----------------------------------------------------------------------------
\* A call that was blocked returns: to others nothing happens.
LEMMA ReturnsKeep ==
  ASSUME KInv, NEW call \in Single \cup {"MULTI"}, Resumes(call), NEW c, c = OSTCBCur,
         Return(WaitsIn(c)), OSTCBMsg' \in [TCBs -> Messages \cup {NULL}],
         UNCHANGED <<prios, OSRdyTbl, processor, ecb, queue, flag, owed, app>>,
         ClientTyped', MutualExclusion', \A e \in Events \ Mutexes : inside'[e] = {}
  PROVE  KRest'
<1>0. call # "none"
  BY DEF Single
<1>1. /\ c \in Live /\ c \in Tasks /\ c \in TCBs /\ inCall[c] = call /\ creating[c] = NULL
      /\ OSTCBPrio[c] \in OSRdyTbl /\ Switches /\ call \in app
  BY <1>0, AtResumption
<1>2. Tables' /\ WaitsIn(c)' = {} /\ \A t \in Live \ {c} : WaitsIn(t)' = WaitsIn(t)
  BY <1>1, EndsCall DEF KInv, prios, ecb, flag
<1>3. /\ OSTCBStat' = [OSTCBStat EXCEPT ![c] = {}] /\ OSTCBStatPend' = [OSTCBStatPend EXCEPT ![c] = "OK"]
      /\ OSTCBEventPtr' = [OSTCBEventPtr EXCEPT ![c] = NULL]
      /\ OSTCBEventMultiPtr' = [OSTCBEventMultiPtr EXCEPT ![c] = {}]
      /\ inCall' = [inCall EXCEPT ![c] = "none"] /\ UNCHANGED <<OSTCBDly, toSched, creating>>
      /\ OSEventTbl' = [e \in Events |-> IF e \in WaitsIn(c) THEN OSEventTbl[e] \ {OSTCBPrio[c]}
                                         ELSE OSEventTbl[e]]
  BY DEF Return
<1>4. MutexesKept /\ PriosKept
  BY DEF MutexesKept, PriosKept, prios, ecb
<1>5. /\ MutexesOwned' /\ Mutexes' = Mutexes /\ Live' = Live /\ Present' = Present
      /\ \A e \in Mutexes : Owner(e)' = Owner(e) /\ (Raised(e)' <=> Raised(e))
  BY <1>4, KeepsMutexes DEF KInv
<1>6. TasksTyped' /\ ProcessorTyped' /\ EventsTyped' /\ FlagsTyped'
  <2>1. /\ OSTCBStat \in [TCBs -> SUBSET StatBits] /\ OSTCBStatPend \in [TCBs -> PendStats]
        /\ OSTCBEventPtr \in [TCBs -> Events \cup {NULL}]
        /\ OSTCBEventMultiPtr \in [TCBs -> SUBSET Events] /\ OSEventTbl \in [Events -> SUBSET Prios]
        /\ inCall \in [TCBs -> {"none", "SEM", "MUTEX", "MBOX", "Q", "FLAG", "MULTI"}]
    BY DEF KInv, TypeOK
  <2>2. TasksTyped'
    BY <1>1, <1>3, <2>1, KInvParts DEF TasksTyped, PendStats, prios
  <2>3. ProcessorTyped' /\ EventsTyped' /\ FlagsTyped'
    BY <1>1, <1>3, <2>1, KInvParts DEF ProcessorTyped, EventsTyped, FlagsTyped,
      processor, ecb, flag
  <2>4. QED
    BY <2>2, <2>3
<1>7. /\ inCall'[c] = "none" /\ OSTCBStat'[c] = {} /\ OSTCBDly' = OSTCBDly
      /\ \A t \in TCBs \ {c} : /\ inCall'[t] = inCall[t] /\ OSTCBStat'[t] = OSTCBStat[t]
                               /\ OSTCBStatPend'[t] = OSTCBStatPend[t]
                               /\ OSTCBEventPtr'[t] = OSTCBEventPtr[t]
  BY <1>1, <1>3 DEF KInv, TypeOK
<1>8. OSTCBDly[c] = 0
  BY <1>0, <1>1, LeftToLeave DEF KInv
<1>9. UsedOnly'
  BY <1>1, <1>3, <1>7, <1>8 DEF KInv, UsedOnly, processor, ecb
<1>10. Names' /\ Creations'
  BY <1>1, <1>3, <1>5, <1>7 DEF KInv, Names, Creations, prios
<1>11. OwnersWait'
  <2>1. \A e \in Mutexes : Owner(e) # NULL => Owner(e) \in Live
    BY DEF KInv, MutexesOwned
  <2>2. \A e \in Mutexes : Owner(e) # NULL /\ inCall'[Owner(e)] # "none" =>
          OSTCBDly'[Owner(e)] = 0 /\ OSTCBStatPend'[Owner(e)] # "TO"
    BY <1>7, <2>1 DEF KInv, OwnersWait, Live, TCBs
  <2>3. \A t \in Live : inCall'[t] = "MUTEX" /\ WaitsIn(t)' = {} /\ OSTCBStatPend'[t] = "OK" =>
          OSTCBEventPtr'[t] \in Mutexes /\ Owner(OSTCBEventPtr'[t]) = t
    BY <1>2, <1>7 DEF KInv, OwnersWait, Live, TCBs
  <2>4. \A e, f \in Mutexes : \A t \in Live : e \in WaitsIn(t)' /\ Owner(f) = t => e = f
    BY <1>2 DEF KInv, OwnersWait
  <2>5. QED
    BY <1>5, <2>2, <2>3, <2>4 DEF OwnersWait
<1>12. PrioTableAgrees'
  BY <1>3 DEF KInv, PrioTableAgrees, prios, ecb
<1>13. OwnerIsUrgent'
  BY <1>3 DEF KInv, OwnerIsUrgent, prios, ecb
<1>14. Processor'
  <2>1. OSLockNesting = 0 /\ toSched \subseteq Tasks
    BY <1>1 DEF Switches, KInv, Processor
  <2>2. QED
    BY <1>3, <1>4, <2>1, ProcessorKept DEF processor
<1>15. NothingToTake'
  <2>1. \A f \in Events : Filled(f)' <=> Filled(f)
    BY DEF Filled, ecb, queue
  <2>2. QED
    BY <1>3, <2>1, KInvParts DEF NothingToTake, flag, Satisfied, FlagsRdy
<1>16. QED
  BY <1>2, <1>5, <1>6, <1>9, <1>10, <1>11, <1>12, <1>13, <1>14, <1>15 DEF KRest

\* Whoever returns from OSSemPend, OSMboxPend, OSQPend or OSEventPendMulti ...
LEMMA PendsReturn ==
  ASSUME KInv, NEW call \in {"SEM", "MBOX", "Q"}, PendReturns(call), UNCHANGED inside
  PROVE  KRest'
<1> DEFINE c == OSTCBCur
<1>1. call # "none" /\ Resumes(call) /\ call \in Single
  BY DEF PendReturns, Single
<1>2. c \in Live /\ c \in TCBs /\ inCall[c] = call /\ OSTCBPrio[c] \in OSRdyTbl
  BY <1>1, AtResumption
<1>3. WaitsIn(c) = (IF OSTCBStatPend[c] = "TO" THEN {OSTCBEventPtr[c]} ELSE {})
  BY <1>1, <1>2, LeftToLeave DEF KInv
<1>4. Return(WaitsIn(c)) /\ UNCHANGED <<prios, OSRdyTbl, processor, ecb, queue, flag, owed, app>>
  BY <1>3 DEF PendReturns
<1>5. OSTCBMsg' \in [TCBs -> Messages \cup {NULL}]
  BY DEF PendReturns, KInv, TypeOK
<1>6. ClientTyped' /\ MutualExclusion' /\ \A e \in Events \ Mutexes : inside'[e] = {}
  BY <1>4, KInvParts DEF ClientTyped, KInv, MutualExclusion, OwnersWait, ecb
<1> HIDE DEF c
<1>7. QED
  BY <1>1, <1>4, <1>5, <1>6, ReturnsKeep DEF c

\* ... but for OSEventPendMulti after a deletion, which ends its call and no more ...
LEMMA ReturnsEarly ==
  ASSUME KInv, OSEventPendMultiReturns, Deleted(OSTCBCur)
  PROVE  KRest'
<1>1. PICK c : c = OSTCBCur
  OBVIOUS
<1>2. /\ Resumes("MULTI") /\ inCall' = [inCall EXCEPT ![c] = "none"]
      /\ UNCHANGED <<tcb, OSEventTbl, toSched, creating, prios, OSRdyTbl, processor, ecb, queue, flag, client>>
  BY <1>1 DEF OSEventPendMultiReturns
<1>3. /\ c \in Live /\ c \in TCBs /\ inCall[c] = "MULTI" /\ OSTCBPrio[c] \in OSRdyTbl /\ Switches
      /\ "MULTI" \in app
  BY <1>1, <1>2, AtResumption
<1>4. Tables' /\ \A t \in Live : WaitsIn(t)' = WaitsIn(t)
  BY <1>1, <1>2, <1>3, EndsEarly DEF KInv
<1>5. OSTCBDly[c] = 0
  BY <1>3, LeftToLeave DEF KInv
<1>6. inCall'[c] = "none" /\ \A t \in TCBs \ {c} : inCall'[t] = inCall[t]
  BY <1>2, <1>3 DEF KInv, TypeOK
<1>7. MutexesKept /\ PriosKept
  BY <1>2 DEF MutexesKept, PriosKept, prios, ecb, client
<1>8. /\ MutexesOwned' /\ Mutexes' = Mutexes /\ Live' = Live /\ Present' = Present
      /\ \A e \in Mutexes : Owner(e)' = Owner(e) /\ (Raised(e)' <=> Raised(e))
  BY <1>7, KeepsMutexes DEF KInv
<1>9. TasksTyped' /\ ProcessorTyped' /\ EventsTyped' /\ FlagsTyped' /\ ClientTyped'
  <2>1. TasksTyped' /\ EventsTyped' /\ FlagsTyped' /\ ClientTyped'
    BY <1>2, KInvParts DEF TasksTyped, EventsTyped, FlagsTyped, ClientTyped, prios, tcb, ecb, flag, client
  <2>2. ProcessorTyped'
    BY <1>2, KInvParts DEF ProcessorTyped, processor
  <2>3. QED
    BY <2>1, <2>2
<1>10. UsedOnly'
  BY <1>2, <1>5, <1>6 DEF KInv, UsedOnly, tcb, processor, ecb, client
<1>11. Names' /\ Creations' /\ PrioTableAgrees' /\ OwnerIsUrgent' /\ MutualExclusion'
  <2>1. Names' /\ Creations'
    BY <1>2, <1>6, <1>8 DEF KInv, Names, Creations, prios
  <2>2. PrioTableAgrees' /\ OwnerIsUrgent' /\ MutualExclusion'
    BY <1>2 DEF KInv, PrioTableAgrees, OwnerIsUrgent, MutualExclusion, prios, ecb, client
  <2>3. QED
    BY <2>1, <2>2
<1>12. OwnersWait'
  <2>1. Mutexes = {} /\ \A e \in Events : inside[e] = {}
    <3>1. "MUTEX" \notin app
      BY <1>3, ApplicationRules DEF KInv, TypeOK
    <3>2. QED
      BY <3>1 DEF KInv, UsedOnly, Mutexes, OwnersWait
  <2>2. \A t \in Live : inCall[t] # "MUTEX"
    BY <1>3, ApplicationRules DEF KInv, TypeOK, UsedOnly, Live, TCBs
  <2>3. \A t \in Live : inCall'[t] # "MUTEX"
    BY <1>6, <2>2 DEF Live, TCBs
  <2>4. QED
    BY <1>2, <1>8, <2>1, <2>3 DEF OwnersWait, client
<1>13. Processor'
  <2>1. OSLockNesting = 0 /\ toSched \subseteq Tasks
    BY <1>3 DEF Switches, KInv, Processor
  <2>2. QED
    BY <1>2, <1>7, <2>1, ProcessorKept DEF processor, client
<1>14. NothingToTake'
  <2>1. \A f \in Events : Filled(f)' <=> Filled(f)
    BY <1>2 DEF Filled, ecb, queue
  <2>2. QED
    BY <1>2, <2>1, KInvParts DEF NothingToTake, flag, Satisfied, FlagsRdy
<1>15. QED
  BY <1>4, <1>8, <1>9, <1>10, <1>11, <1>12, <1>13, <1>14 DEF KRest

LEMMA MultiReturns ==
  ASSUME KInv, OSEventPendMultiReturns
  PROVE  KRest'
<1> DEFINE c == OSTCBCur
<1>1. Resumes("MULTI")
  BY DEF OSEventPendMultiReturns
<1>2. c \in Live /\ c \in TCBs /\ inCall[c] = "MULTI" /\ OSTCBPrio[c] \in OSRdyTbl
  BY <1>1, AtResumption
<1>0. Deleted(c) => KRest'
  BY ReturnsEarly
<1> SUFFICES ASSUME ~Deleted(c) PROVE KRest'
  BY <1>0
<1>3. WaitsIn(c) = (IF OSTCBStatPend[c] = "TO" \/ OSTCBEventPtr[c] = NULL
                    THEN OSTCBEventMultiPtr[c] ELSE {})
  BY <1>1, <1>2, LeftToLeave DEF KInv
<1>4. Return(WaitsIn(c)) /\ UNCHANGED <<prios, OSRdyTbl, processor, ecb, queue, flag, client>>
  BY <1>3 DEF OSEventPendMultiReturns
<1>5. OSTCBMsg' \in [TCBs -> Messages \cup {NULL}]
  BY DEF OSEventPendMultiReturns, KInv, TypeOK
<1>6. ClientTyped' /\ MutualExclusion' /\ \A e \in Events \ Mutexes : inside'[e] = {}
  BY <1>4, KInvParts DEF ClientTyped, KInv, MutualExclusion, OwnersWait, ecb, client
<1>7. UNCHANGED <<prios, OSRdyTbl, processor, ecb, queue, flag, owed, app>>
  BY <1>4 DEF client
<1> HIDE DEF c
<1>8. QED
  BY <1>1, <1>4, <1>5, <1>6, <1>7, ReturnsKeep DEF c

\* ... and whoever returns from OSMutexPend without a time-out owns the mutex.
LEMMA MutexReturns ==
  ASSUME KInv, OSMutexPendReturns
  PROVE  KRest'
<1> DEFINE c == OSTCBCur
<1>0. PendReturns("MUTEX")
  BY DEF OSMutexPendReturns
<1>1. Resumes("MUTEX") /\ "MUTEX" \in Single
  BY <1>0 DEF PendReturns, Single
<1>2. c \in Live /\ c \in TCBs /\ inCall[c] = "MUTEX" /\ OSTCBPrio[c] \in OSRdyTbl /\ c \in Tasks
  BY <1>1, AtResumption
<1>3. WaitsIn(c) = (IF OSTCBStatPend[c] = "TO" THEN {OSTCBEventPtr[c]} ELSE {})
  BY <1>1, <1>2, LeftToLeave DEF KInv
<1>4. Return(WaitsIn(c)) /\ UNCHANGED <<prios, OSRdyTbl, processor, ecb, queue, flag, owed, app>>
  BY <1>0, <1>3 DEF PendReturns
<1>5. OSTCBMsg' \in [TCBs -> Messages \cup {NULL}]
  BY <1>0 DEF PendReturns, KInv, TypeOK
<1>6. ClientTyped' /\ MutualExclusion' /\ \A e \in Events \ Mutexes : inside'[e] = {}
  <2>1. CASE inside' = inside
    BY <1>4, <2>1, KInvParts DEF ClientTyped, KInv, MutualExclusion, OwnersWait, ecb
  <2>2. CASE OSTCBStatPend[c] = "OK"
    <3> DEFINE e == OSTCBEventPtr[c]
    <3>1. e \in Mutexes /\ OSEventPtr[e] = c
      BY <1>2, <1>3, <2>2 DEF KInv, OwnersWait, Owner
    <3>2. inside' = [inside EXCEPT ![e] = @ \cup {c}]
      BY <2>2 DEF OSMutexPendReturns
    <3>3. inside \in [Events -> SUBSET Tasks] /\ MutualExclusion
      BY DEF KInv, TypeOK
    <3> HIDE DEF e, c
    <3>4. MutualExclusion'
      BY <1>4, <3>1, <3>2, <3>3 DEF MutualExclusion, Mutexes, ecb
    <3>5. ClientTyped'
      BY <1>2, <1>4, <3>1, <3>2, <3>3, KInvParts DEF ClientTyped, Mutexes
    <3>6. \A f \in Events \ Mutexes : inside'[f] = {}
      BY <3>1, <3>2, <3>3 DEF KInv, OwnersWait
    <3>7. QED
      BY <3>4, <3>5, <3>6
  <2>3. QED
    BY <2>1, <2>2 DEF OSMutexPendReturns
<1> HIDE DEF c
<1>7. QED
  BY <1>1, <1>4, <1>5, <1>6, ReturnsKeep DEF c

-----------------------------------------------------------------------------
\* A wait for flags returns: it leaves the list, or consumes what it was given.
LEMMA FlagReturns ==
  ASSUME KInv, OSFlagPendReturns
  PROVE  KRest'
<1> DEFINE c == OSTCBCur
<1>1. Resumes("FLAG") /\ UNCHANGED <<prios, OSTCBDly, OSTCBMsg, OSTCBEventPtr, OSTCBEventMultiPtr,
        OSRdyTbl, OSEventTbl, processor, toSched, creating, ecb, queue, OSFlagType, node,
        OSTCBFlagsRdy, client>> /\ inCall' = [inCall EXCEPT ![c] = "none"]
  BY DEF OSFlagPendReturns
<1>2. /\ c \in Live /\ c \in Tasks /\ c \in TCBs /\ inCall[c] = "FLAG" /\ OSTCBPrio[c] \in OSRdyTbl
      /\ creating[c] = NULL /\ Switches
  BY <1>1, AtResumption
<1>3. /\ OSTCBStatPend[c] \in {"OK", "TO"} /\ OSTCBDly[c] = 0
      /\ (OSTCBStatPend[c] = "OK" => OSTCBStat[c] = {} /\ c \notin OSFlagWaitList)
  BY <1>2, LeftToLeave DEF KInv
<1>4. /\ inCall'[c] = "none" /\ OSTCBStatPend'[c] = "OK" /\ OSTCBStat'[c] = {}
      /\ OSFlagWaitList' = OSFlagWaitList \ {c}
      /\ OSTCBStat' \in [TCBs -> SUBSET StatBits] /\ OSTCBStatPend' \in [TCBs -> PendStats]
      /\ inCall' \in [TCBs -> {"none", "SEM", "MUTEX", "MBOX", "Q", "FLAG", "MULTI"}]
      /\ \A t \in TCBs \ {c} : /\ inCall'[t] = inCall[t] /\ OSTCBStat'[t] = OSTCBStat[t]
                               /\ OSTCBStatPend'[t] = OSTCBStatPend[t]
  <2>1. /\ OSTCBStat \in [TCBs -> SUBSET StatBits] /\ OSTCBStatPend \in [TCBs -> PendStats]
        /\ inCall \in [TCBs -> {"none", "SEM", "MUTEX", "MBOX", "Q", "FLAG", "MULTI"}]
    BY DEF KInv, TypeOK
  <2>2. CASE OSTCBStatPend[c] = "OK"
    <3>1. OSTCBStatPend' = OSTCBStatPend /\ OSTCBStat' = OSTCBStat /\ OSFlagWaitList' = OSFlagWaitList
      BY <2>2 DEF OSFlagPendReturns
    <3>2. QED
      BY <1>1, <1>2, <1>3, <2>1, <2>2, <3>1
  <2>3. CASE OSTCBStatPend[c] # "OK"
    <3>1. /\ OSTCBStatPend' = [OSTCBStatPend EXCEPT ![c] = "OK"] /\ OSTCBStat' = [OSTCBStat EXCEPT ![c] = {}]
          /\ OSFlagWaitList' = OSFlagWaitList \ {c}
      BY <2>3 DEF OSFlagPendReturns, Unlinked
    <3>2. QED
      BY <1>1, <1>2, <2>1, <3>1 DEF PendStats
  <2>4. QED
    BY <2>2, <2>3
<1>5. OSFlagFlags' \subseteq Flags /\ \A t \in OSFlagWaitList' : ~Satisfied(OSFlagFlags', node[t])
  <2>1. CASE OSTCBStatPend[c] = "OK"
    <3>1. OSFlagFlags' = Consumed(OSFlagFlags, node[c], OSTCBFlagsRdy[c])
      BY <2>1 DEF OSFlagPendReturns
    <3>2. node[c] \in Wants /\ OSTCBFlagsRdy[c] \in SUBSET Flags
      BY <1>2 DEF KInv, Tables, Standings, TypeOK
    <3>3. QED
      BY <1>4, <3>1, <3>2, FlagsConsumed
  <2>2. CASE OSTCBStatPend[c] # "OK"
    <3>1. OSFlagFlags' = OSFlagFlags
      BY <2>2 DEF OSFlagPendReturns
    <3>2. QED
      BY <1>4, <3>1, KInvParts DEF NothingToTake, FlagsTyped
  <2>3. QED
    BY <2>1, <2>2
<1>6. Tables'
  BY <1>2, EndsFlagCall DEF KInv
<1>7. MutexesKept /\ PriosKept
  BY <1>1 DEF MutexesKept, PriosKept, prios, ecb, client
<1>8. /\ MutexesOwned' /\ Mutexes' = Mutexes /\ Live' = Live /\ Present' = Present
      /\ \A e \in Mutexes : Owner(e)' = Owner(e) /\ (Raised(e)' <=> Raised(e))
  BY <1>7, KeepsMutexes DEF KInv
<1>9. \A t \in Live : WaitsIn(t)' = WaitsIn(t)
  BY <1>1 DEF WaitsIn, prios
<1> HIDE DEF c
<1>10. TasksTyped' /\ ProcessorTyped' /\ EventsTyped' /\ FlagsTyped' /\ ClientTyped'
  <2>1. TasksTyped' /\ ProcessorTyped'
    BY <1>1, <1>4, KInvParts DEF TasksTyped, ProcessorTyped, prios, processor
  <2>2. EventsTyped' /\ FlagsTyped' /\ ClientTyped'
    BY <1>1, <1>4, <1>5, KInvParts DEF EventsTyped, FlagsTyped, ClientTyped, ecb, client
  <2>3. QED
    BY <2>1, <2>2
<1>11. UsedOnly'
  BY <1>1, <1>2, <1>3, <1>4 DEF KInv, UsedOnly, processor, ecb, client
<1>12. Names' /\ Creations'
  BY <1>1, <1>2, <1>4, <1>8 DEF KInv, Names, Creations, prios
<1>13. OwnersWait'
  <2>1. \A e \in Mutexes : Owner(e) # NULL => Owner(e) \in Live
    BY DEF KInv, MutexesOwned
  <2>2. \A e \in Mutexes : Owner(e) # NULL /\ inCall'[Owner(e)] # "none" =>
          OSTCBDly'[Owner(e)] = 0 /\ OSTCBStatPend'[Owner(e)] # "TO"
    BY <1>1, <1>4, <2>1 DEF KInv, OwnersWait, Live, TCBs
  <2>3. \A t \in Live : inCall'[t] = "MUTEX" /\ WaitsIn(t)' = {} /\ OSTCBStatPend'[t] = "OK" =>
          OSTCBEventPtr'[t] \in Mutexes /\ Owner(OSTCBEventPtr'[t]) = t
    BY <1>1, <1>4, <1>9 DEF KInv, OwnersWait, Live, TCBs
  <2>4. \A e, f \in Mutexes : \A t \in Live : e \in WaitsIn(t)' /\ Owner(f) = t => e = f
    BY <1>9 DEF KInv, OwnersWait
  <2>5. \A e \in Events \ Mutexes : inside'[e] = {}
    BY <1>1 DEF KInv, OwnersWait, client
  <2>6. QED
    BY <1>8, <2>2, <2>3, <2>4, <2>5 DEF OwnersWait
<1>14. PrioTableAgrees' /\ OwnerIsUrgent' /\ MutualExclusion'
  BY <1>1 DEF KInv, PrioTableAgrees, OwnerIsUrgent, MutualExclusion, prios, ecb, client
<1>15. Processor'
  <2>1. OSLockNesting = 0 /\ toSched \subseteq Tasks
    BY <1>2 DEF Switches, KInv, Processor
  <2>2. QED
    BY <1>1, <1>7, <2>1, ProcessorKept DEF processor, client
<1>16. NothingToTake'
  <2>1. \A f \in Events : Filled(f)' <=> Filled(f)
    BY <1>1 DEF Filled, ecb, queue
  <2>2. QED
    BY <1>1, <1>5, <2>1, KInvParts DEF NothingToTake, Satisfied, FlagsRdy
<1>17. QED
  BY <1>6, <1>8, <1>10, <1>11, <1>12, <1>13, <1>14, <1>15, <1>16 DEF KRest

\* The flag group serves waiters or lets them go; who stays waits for other flags.
LEMMA FlagWakesKeep ==
  ASSUME KInv, AnyLevel, NEW rdy, DOMAIN rdy \subseteq OSFlagWaitList, OS_FlagTaskRdy(rdy),
         \A t \in DOMAIN rdy : rdy[t] \in SUBSET Flags,
         OSFlagType' = OSFlagType \/ (OSFlagType' = "UNUSED" /\ OSFlagWaitList' = {}),
         OSFlagFlags' \subseteq Flags,
         ThenSched \/ (UNCHANGED calls /\ OSRdyTbl' = OSRdyTbl),
         UNCHANGED <<prios, OSEventTbl, processor, ecb, queue, node, client>>,
         \A t \in OSFlagWaitList' : ~Satisfied(OSFlagFlags', node[t])
  PROVE  KRest'
<1>1. MutexesKept /\ PriosKept /\ UNCHANGED <<OSTCBPrio, OSTCBPrioTbl, OSEventType>>
  BY DEF MutexesKept, PriosKept, prios, ecb, client
<1>2. /\ toSched \subseteq toSched' /\ toSched' \subseteq Tasks
      /\ inCall' = inCall /\ creating' = creating
      /\ OSIntNesting = 1 \/ OSTCBCur \in toSched' \/ OSRdyTbl' = OSRdyTbl
  <2>1. CASE ThenSched
    BY <2>1, SchedulesNext
  <2>2. CASE UNCHANGED calls /\ OSRdyTbl' = OSRdyTbl
    BY <2>2 DEF calls, KInv, Processor
  <2>3. QED
    BY <2>1, <2>2
<1>3. Tables'
  BY <1>1, <1>2, WakesFlagWaiters DEF KInv
<1>4. DOMAIN rdy \subseteq TCBs
  BY DEF KInv, TypeOK, TCBs
<1>5. TasksTyped'
  <2>1. /\ OSTCBStat \in [TCBs -> SUBSET StatBits] /\ OSTCBStatPend \in [TCBs -> PendStats]
        /\ OSTCBDly \in [TCBs -> Nat] /\ OSTCBPrio \in [TCBs -> Prios \cup {IdlePrio}]
    BY DEF KInv, TypeOK
  <2>2. /\ OSTCBStat' \in [TCBs -> SUBSET StatBits] /\ OSTCBStatPend' \in [TCBs -> PendStats]
        /\ OSTCBDly' \in [TCBs -> Nat]
    BY <1>4, <2>1 DEF OS_FlagTaskRdy, PendStats
  <2>3. OSRdyTbl' \subseteq Prios \cup {IdlePrio} /\ IdlePrio \in OSRdyTbl'
    BY <1>4, <2>1, KInvParts DEF OS_FlagTaskRdy, TasksTyped
  <2>4. QED
    BY <1>1, <2>2, <2>3, KInvParts DEF TasksTyped, OS_FlagTaskRdy
<1>6. ProcessorTyped' /\ EventsTyped' /\ ClientTyped'
  BY <1>2, KInvParts DEF ProcessorTyped, EventsTyped, ClientTyped, processor, ecb, client, TCBs
<1>7. FlagsTyped'
  <2>1. OSTCBFlagsRdy' \in [TCBs -> SUBSET Flags]
    BY DEF OS_FlagTaskRdy, KInv, TypeOK
  <2>2. OSFlagWaitList' \subseteq OSFlagWaitList
    BY DEF OS_FlagTaskRdy, Unlinked
  <2>3. QED
    BY <2>1, <2>2, KInvParts DEF FlagsTyped
<1>8. /\ \A t \in TCBs : OSTCBStat'[t] \subseteq OSTCBStat[t] /\ (OSTCBDly'[t] # 0 => OSTCBDly'[t] = OSTCBDly[t])
  BY DEF OS_FlagTaskRdy
<1>9. UsedOnly'
  BY <1>2, <1>8 DEF UsedOnly, KInv, processor, ecb, client
<1>10. Frame
  <2>1. \A t \in OSFlagWaitList : t \in Live /\ inCall[t] = "FLAG"
    BY FlagWaiters
  <2>2. \A t \in Live : WaitsIn(t)' = WaitsIn(t)
    BY <1>1 DEF WaitsIn
  <2>3. \A t \in Live : Undisturbed(t)
    BY <1>2, <2>1, <2>2 DEF Undisturbed, OS_FlagTaskRdy, Live, TCBs
  <2>4. QED
    BY <1>1, <1>2, <2>3 DEF Frame, client
<1>11. Processor'
  BY <1>1, <1>2, ProcessorKept DEF processor, client
<1>12. NothingToTake'
  <2>1. \A f \in Events : Filled(f)' <=> Filled(f)
    BY DEF Filled, ecb, queue
  <2>2. QED
    BY <2>1, KInvParts DEF NothingToTake, Satisfied, FlagsRdy
<1>13. QED
  BY <1>3, <1>5, <1>6, <1>7, <1>9, <1>10, <1>11, <1>12, FrameKeeps DEF KRest

-----------------------------------------------------------------------------
\* The scheduler itself: tasks and events stay as they are.
SchedulerStep ==
  /\ UNCHANGED <<prios, tcb, OSRdyTbl, OSEventTbl, inCall, creating, ecb, queue, flag, inside, app>>
  /\ OSLockNesting' > 0 => "LOCK" \in app

LEMMA SchedulerKeeps ==
  ASSUME KInv, SchedulerStep, ProcessorTyped', owed' \in BOOLEAN, Processor'
  PROVE  KRest'
<1>1. MutexesKept /\ PriosKept /\ TypesStay
  BY DEF SchedulerStep, MutexesKept, PriosKept, TypesStay, prios, ecb, flag
<1>2. TasksTyped' /\ EventsTyped' /\ FlagsTyped' /\ ClientTyped'
  BY KInvParts DEF SchedulerStep, TasksTyped, EventsTyped, FlagsTyped, ClientTyped, prios, tcb, ecb, flag
<1>3. UsedOnly'
  BY DEF SchedulerStep, UsedOnly, KInv, prios, tcb, ecb
<1>4. Tables'
  BY <1>1, TablesKept DEF KInv, SchedulerStep, flag
<1>5. \A t \in Live : Undisturbed(t)
  BY DEF SchedulerStep, Undisturbed, WaitsIn, prios, tcb
<1>6. Frame
  BY <1>1, <1>5 DEF Frame, SchedulerStep
<1>7. NothingToTake'
  <2>1. \A f \in Events : Filled(f)' <=> Filled(f)
    BY DEF SchedulerStep, Filled, ecb, queue
  <2>2. QED
    BY <2>1, KInvParts DEF SchedulerStep, NothingToTake, flag, Satisfied, FlagsRdy
<1>8. QED
  BY <1>2, <1>3, <1>4, <1>6, <1>7, FrameKeeps DEF KRest

\* The most urgent ready task is the one that is chosen.
LEMMA Chosen ==
  ASSUME KInv, Dispatch
  PROVE  LET h == Highest(OSRdyTbl) IN
         /\ h \in OSRdyTbl /\ h \in Prios \cup {IdlePrio} /\ \A q \in OSRdyTbl : h <= q
         /\ OSPrioCur' = h /\ OSTCBCur' = OSTCBPrioTbl[h] /\ OSTCBCur' \in Present
         /\ OSTCBPrio[OSTCBCur'] = h
<1> DEFINE h == Highest(OSRdyTbl)
<1>1. OSRdyTbl \subseteq Prios \cup {IdlePrio} /\ OSRdyTbl # {} /\ Prios \cup {IdlePrio} \subseteq Nat
  BY KernelAssumption DEF KInv, TypeOK
<1>2. h \in OSRdyTbl /\ \A q \in OSRdyTbl : h <= q
  BY <1>1, HighestIsLeast
<1>3. OSTCBPrioTbl[h] \in Present /\ OSTCBPrio[OSTCBPrioTbl[h]] = h
  BY <1>2 DEF KInv, Tables, ListsNameTasks
<1>4. h = OSPrioCur => OSTCBPrioTbl[h] = OSTCBCur
  BY <1>3 DEF KInv, Processor
<1>5. OSPrioCur' = h /\ OSTCBCur' = OSTCBPrioTbl[h]
  BY <1>4 DEF Dispatch
<1> HIDE DEF h
<1>6. QED
  BY <1>1, <1>2, <1>3, <1>5 DEF h

LEMMA Dispatches ==
  ASSUME KInv, Dispatch, SchedulerStep, toSched' \subseteq toSched,
         OSIntNesting' = 0, OSLockNesting = 0, OSLockNesting' = 0
  PROVE  KRest'
<1> DEFINE h == Highest(OSRdyTbl)
<1>1. /\ h \in OSRdyTbl /\ h \in Prios \cup {IdlePrio} /\ \A q \in OSRdyTbl : h <= q
      /\ OSPrioCur' = h /\ OSTCBCur' = OSTCBPrioTbl[h] /\ OSTCBCur' \in Present
      /\ OSTCBPrio[OSTCBCur'] = h
  BY Chosen
<1> HIDE DEF h
<1>2. PriosKept /\ OSRdyTbl' = OSRdyTbl /\ inCall' = inCall /\ creating' = creating /\ app' = app
  BY DEF SchedulerStep, PriosKept, prios
<1>3. Present' = Present /\ OSTCBPrio' = OSTCBPrio /\ OSTCBPrioTbl' = OSTCBPrioTbl
  BY <1>2, LiveKept
<1>4. OSTCBCur' \in TCBs /\ toSched' \subseteq Tasks
  BY <1>1 DEF Present, Live, TCBs, KInv, Processor
<1>5. ProcessorTyped'
  BY <1>1, <1>2, <1>4, KInvParts, ApplicationRules DEF ProcessorTyped, TCBs
<1>6. ~Demoted'
  BY <1>1, <1>3, KernelAssumption DEF Demoted
<1>7. Processor'
  BY <1>1, <1>2, <1>3, <1>4, <1>6 DEF Processor, Lowered
<1>8. QED
  BY <1>5, <1>7, SchedulerKeeps DEF Dispatch

\* While the scheduler is locked, or in an interrupt, no task is chosen.
LEMMA NoneChosen ==
  ASSUME KInv, SchedulerStep, UNCHANGED <<OSTCBCur, OSPrioCur, owed>>, ProcessorTyped',
         toSched' \subseteq Tasks, OSTCBCur \in toSched => OSTCBCur \in toSched' \/ "LOCK" \in app,
         OSIntNesting' = 1 \/ OSLockNesting' > 0 \/ OSTCBCur \in toSched',
         OSLockNesting' > 0 => OSLockNesting > 0 \/ inCall[OSTCBCur] = "none"
  PROVE  KRest'
<1>1. PriosKept /\ OSRdyTbl' = OSRdyTbl /\ inCall' = inCall /\ creating' = creating /\ app' = app
  BY DEF SchedulerStep, PriosKept, prios
<1>2. Present' = Present /\ OSTCBPrio' = OSTCBPrio /\ OSTCBPrioTbl' = OSTCBPrioTbl
  BY <1>1, LiveKept
<1>3. "LOCK" \in app => app \cap {"CHANGE", "TASKS"} = {}
  BY ApplicationRules DEF KInv, TypeOK
<1>4. ~Switches'
  BY DEF Switches
<1>5. Lowered' <=> Lowered
  BY <1>1, <1>2 DEF Lowered, Demoted
<1>6. Processor'
  BY <1>1, <1>2, <1>3, <1>4, <1>5 DEF KInv, Processor
<1>7. owed' \in BOOLEAN
  BY DEF KInv, TypeOK
<1>8. QED
  BY <1>6, <1>7, SchedulerKeeps

LEMMA SchedulerSteps ==
  ASSUME KInv,
         \/ OS_Sched \/ OSIntEnter \/ OSIntExit
         \/ "LOCK" \in app /\ (OSSchedLock(MaxLock) \/ OSSchedUnlock)
  PROVE  KRest'
<1>1. MaxLock \in Nat /\ OSLockNesting \in 0 .. MaxLock /\ (OSLockNesting > 0 => "LOCK" \in app)
  BY ApplicationRules DEF KInv, TypeOK, UsedOnly
<1>2. /\ toSched \subseteq Tasks /\ OSTCBCur \in TCBs /\ OSPrioCur \in Prios \cup {IdlePrio}
      /\ OSIntNesting \in {0, 1} /\ creating \in [TCBs -> Prios \cup {NULL}]
      /\ inCall \in [TCBs -> {"none", "SEM", "MUTEX", "MBOX", "Q", "FLAG", "MULTI"}]
  BY DEF KInv, TypeOK, Processor
<1>3. CASE OS_Sched
  <2>1. SchedulerStep /\ toSched' = toSched \ {OSTCBCur} /\ UNCHANGED <<OSIntNesting, OSLockNesting>>
        /\ OSIntNesting = 0 /\ DispatchUnlessLocked /\ inCall' = inCall /\ creating' = creating
    BY <1>1, <1>3 DEF OS_Sched, SchedulerStep
  <2>2. CASE OSLockNesting = 0
    BY <1>2, <2>1, <2>2, Dispatches DEF DispatchUnlessLocked
  <2>3. CASE OSLockNesting # 0
    <3>1. UNCHANGED <<OSPrioCur, OSTCBCur, owed>> /\ OSLockNesting > 0
      BY <1>1, <2>1, <2>3 DEF DispatchUnlessLocked
    <3>2. ProcessorTyped'
      BY <1>1, <1>2, <2>1, <3>1 DEF ProcessorTyped, TCBs
    <3>3. QED
      BY <1>1, <1>2, <2>1, <3>1, <3>2, NoneChosen
  <2>4. QED
    BY <2>2, <2>3
<1>4. CASE OSIntEnter
  <2>1. /\ SchedulerStep /\ UNCHANGED <<OSTCBCur, OSPrioCur, owed, toSched, inCall, creating, OSLockNesting>>
        /\ OSIntNesting' = 1
    BY <1>1, <1>4 DEF OSIntEnter, SchedulerStep, calls, client
  <2>2. ProcessorTyped'
    BY <1>1, <1>2, <2>1 DEF ProcessorTyped, TCBs
  <2>3. QED
    BY <1>2, <2>1, <2>2, NoneChosen
<1>5. CASE OSIntExit
  <2>1. /\ SchedulerStep /\ UNCHANGED <<toSched, inCall, creating, OSLockNesting>>
        /\ OSIntNesting' = 0 /\ DispatchUnlessLocked
    BY <1>1, <1>5 DEF OSIntExit, SchedulerStep, calls
  <2>2. CASE OSLockNesting = 0
    BY <1>2, <2>1, <2>2, Dispatches DEF DispatchUnlessLocked
  <2>3. CASE OSLockNesting # 0
    <3>1. UNCHANGED <<OSPrioCur, OSTCBCur, owed>> /\ OSLockNesting > 0
      BY <1>1, <2>1, <2>3 DEF DispatchUnlessLocked
    <3>2. ProcessorTyped'
      BY <1>1, <1>2, <2>1, <3>1 DEF ProcessorTyped, TCBs
    <3>3. QED
      BY <1>2, <2>1, <3>1, <3>2, NoneChosen
  <2>4. QED
    BY <2>2, <2>3
<1>6. CASE "LOCK" \in app /\ OSSchedLock(MaxLock)
  <2>1. /\ SchedulerStep /\ UNCHANGED <<OSTCBCur, OSPrioCur, owed, toSched, inCall, creating, OSIntNesting>>
        /\ OSLockNesting' = OSLockNesting + 1 /\ inCall[OSTCBCur] = "none" /\ OSLockNesting < MaxLock
    BY <1>6 DEF OSSchedLock, SchedulerStep, calls, client, TaskLevel
  <2>2. ProcessorTyped'
    BY <1>1, <1>2, <2>1 DEF ProcessorTyped, TCBs
  <2>3. QED
    BY <1>1, <1>2, <2>1, <2>2, NoneChosen
<1>7. CASE "LOCK" \in app /\ OSSchedUnlock
  <2>1. /\ SchedulerStep /\ UNCHANGED <<OSTCBCur, OSPrioCur, owed, inCall, creating, OSIntNesting>>
        /\ OSLockNesting' = OSLockNesting - 1 /\ inCall[OSTCBCur] = "none" /\ OSLockNesting > 0
        /\ OSTCBCur \in Tasks /\ OSIntNesting = 0
        /\ toSched' = IF OSLockNesting = 1 THEN toSched \cup {OSTCBCur} ELSE toSched
    BY <1>2, <1>7 DEF OSSchedUnlock, SchedulerStep, calls, client, TaskLevel, ThenSched, TCBs
  <2>2. ProcessorTyped'
    BY <1>1, <1>2, <2>1 DEF ProcessorTyped, TCBs
  <2>3. OSLockNesting' > 0 \/ OSTCBCur \in toSched'
    BY <1>1, <2>1
  <2>4. QED
    BY <1>2, <2>1, <2>2, <2>3, NoneChosen
<1>8. QED
  BY <1>3, <1>4, <1>5, <1>6, <1>7

-----------------------------------------------------------------------------
\* A step of time, or one that holds a task back or lets it go.
PaceStep ==
  /\ UNCHANGED <<prios, OSTCBMsg, OSTCBEventPtr, OSTCBEventMultiPtr, OSEventTbl, processor,
                 inCall, creating, ecb, queue, flag, client>>
  /\ \A t \in Live : inCall[t] # "none" /\ OSTCBDly[t] = 0 /\ OSTCBStatPend[t] # "TO"
                       => OSTCBDly'[t] = 0 /\ OSTCBStatPend'[t] # "TO"
  /\ \A t \in Live : inCall[t] = "MUTEX" /\ WaitsIn(t) = {} /\ OSTCBStatPend'[t] = "OK"
                       => OSTCBStatPend[t] = "OK"
  /\ \A t \in TCBs : "SUSPEND" \in OSTCBStat'[t] => "SUSPEND" \in app
  /\ \A t \in TCBs : inCall[t] = "none" /\ OSTCBDly'[t] # 0 => "DELAY" \in app
  /\ toSched \subseteq toSched' /\ toSched' \subseteq Tasks
  /\ \/ OSIntNesting = 1 \/ OSTCBCur \in toSched' \/ OSRdyTbl' = OSRdyTbl
     \/ /\ OSRdyTbl' \subseteq OSRdyTbl
        /\ OSTCBPrio[OSTCBCur] \in OSRdyTbl => OSTCBPrio[OSTCBCur] \in OSRdyTbl'

LEMMA PaceKeeps ==
  ASSUME KInv, PaceStep, Tables', OSTCBStat' \in [TCBs -> SUBSET StatBits],
         OSTCBStatPend' \in [TCBs -> PendStats], OSTCBDly' \in [TCBs -> Nat],
         OSRdyTbl' \subseteq Prios \cup {IdlePrio}, IdlePrio \in OSRdyTbl'
  PROVE  KRest'
<1>1. MutexesKept /\ PriosKept
  BY DEF PaceStep, MutexesKept, PriosKept, prios, ecb, client
<1>2. TasksTyped' /\ ProcessorTyped' /\ EventsTyped' /\ FlagsTyped' /\ ClientTyped'
  <2>1. TasksTyped' /\ ProcessorTyped'
    BY KInvParts DEF PaceStep, TasksTyped, ProcessorTyped, prios, processor, TCBs
  <2>2. EventsTyped' /\ FlagsTyped' /\ ClientTyped'
    BY KInvParts DEF PaceStep, EventsTyped, FlagsTyped, ClientTyped, ecb, flag, client
  <2>3. QED
    BY <2>1, <2>2
<1>3. UsedOnly'
  BY DEF PaceStep, UsedOnly, KInv, processor, ecb, client
<1>4. \A t \in Live : Undisturbed(t)
  BY DEF PaceStep, Undisturbed, WaitsIn, prios
<1>5. Frame
  BY <1>1, <1>4 DEF Frame, PaceStep, client
<1>6. Processor'
  BY <1>1, ProcessorKept DEF PaceStep, processor, client
<1>7. NothingToTake'
  <2>1. \A f \in Events : Filled(f)' <=> Filled(f)
    BY DEF PaceStep, Filled, ecb, queue
  <2>2. QED
    BY <2>1, KInvParts DEF PaceStep, NothingToTake, flag, Satisfied, FlagsRdy
<1>8. QED
  BY <1>2, <1>3, <1>5, <1>6, <1>7, FrameKeeps DEF KRest

\* A delayed task is in no list, but for a time-out.
LEMMA DelayedWaits ==
  ASSUME KInv, NEW t \in Live, OSTCBDly[t] # 0, inCall[t] # "none"
  PROVE  WaitsIn(t) # {} \/ inCall[t] = "FLAG"
<1> DEFINE s == Standing(t)
<1>1. Consistent(s)
  BY DEF KInv, Tables, Standings
<1>2. s.dly = OSTCBDly[t] /\ s.call = inCall[t] /\ s.in = WaitsIn(t)
  BY Fields
<1> HIDE DEF s
<1>3. s.in # {} \/ s.call = "FLAG"
  BY <1>1, <1>2 DEF Consistent, InNoCall, InSingle, InMulti, InFlag
<1>4. QED
  BY <1>2, <1>3

LEMMA TimeKeeps ==
  ASSUME KInv, NEW W \in SUBSET Live, \A t \in W : OSTCBDly[t] # 0 /\ OSTCBDly'[t] = 0,
         \A t \in TCBs \ W : OSTCBDly'[t] = OSTCBDly[t] \/ (OSTCBDly[t] # 0 /\ OSTCBDly'[t] # 0),
         OSTCBDly' \in [TCBs -> Nat], DelayOver(W),
         toSched \subseteq toSched', toSched' \subseteq Tasks,
         OSIntNesting = 1 \/ OSTCBCur \in toSched' \/ OSRdyTbl' = OSRdyTbl,
         UNCHANGED <<prios, OSTCBMsg, OSTCBEventPtr, OSTCBEventMultiPtr, OSEventTbl, processor,
                     inCall, creating, ecb, queue, flag, client>>
  PROVE  KRest'
<1>1. PriosKept /\ UNCHANGED <<OSEventType, OSFlagType, OSFlagWaitList, node>> /\ W \subseteq TCBs
  BY DEF PriosKept, prios, ecb, flag, Live, TCBs
<1>2. \A t \in Live \ W : OSTCBDly'[t] = OSTCBDly[t] \/ (OSTCBDly[t] # 0 /\ OSTCBDly'[t] # 0)
  BY DEF Live, TCBs
<1>3. Tables'
  BY <1>1, <1>2, TimePasses DEF KInv
<1>4. /\ OSTCBStat' \in [TCBs -> SUBSET StatBits] /\ OSTCBStatPend' \in [TCBs -> PendStats]
      /\ OSRdyTbl' \subseteq Prios \cup {IdlePrio} /\ IdlePrio \in OSRdyTbl'
  <2>1. /\ OSTCBStat \in [TCBs -> SUBSET StatBits] /\ OSTCBStatPend \in [TCBs -> PendStats]
        /\ OSTCBPrio \in [TCBs -> Prios \cup {IdlePrio}]
        /\ OSRdyTbl \subseteq Prios \cup {IdlePrio} /\ IdlePrio \in OSRdyTbl
    BY DEF KInv, TypeOK
  <2>2. QED
    BY <1>1, <2>1 DEF DelayOver, Released, PendStats
<1>5. PaceStep
  <2>1. \A t \in TCBs : /\ OSTCBStat'[t] \subseteq OSTCBStat[t] /\ (OSTCBDly'[t] # 0 => OSTCBDly[t] # 0)
                        /\ t \notin W => OSTCBStatPend'[t] = OSTCBStatPend[t]
    BY DEF DelayOver
  <2>2. \A t \in Live : inCall[t] # "none" /\ OSTCBDly[t] = 0 /\ OSTCBStatPend[t] # "TO"
                          => OSTCBDly'[t] = 0 /\ OSTCBStatPend'[t] # "TO"
    BY <2>1 DEF Live, TCBs
  <2>3. \A t \in Live : inCall[t] = "MUTEX" /\ WaitsIn(t) = {} /\ OSTCBStatPend'[t] = "OK"
                          => OSTCBStatPend[t] = "OK"
    BY <2>1, DelayedWaits DEF Live, TCBs
  <2>4. \A t \in TCBs : "SUSPEND" \in OSTCBStat'[t] => "SUSPEND" \in app
    BY <2>1 DEF KInv, UsedOnly
  <2>5. \A t \in TCBs : inCall[t] = "none" /\ OSTCBDly'[t] # 0 => "DELAY" \in app
    BY <2>1 DEF KInv, UsedOnly
  <2>6. QED
    BY <2>2, <2>3, <2>4, <2>5 DEF PaceStep
<1>6. QED
  BY <1>3, <1>4, <1>5, PaceKeeps

LEMMA Ticks ==
  ASSUME KInv, OSTimeTick
  PROVE  KRest'
<1> DEFINE W == {t \in Live : OSTCBDly[t] = 1}
<1>1. OSTCBDly \in [TCBs -> Nat] /\ toSched \subseteq Tasks
  BY DEF KInv, TypeOK, Processor
<1>2. \A t \in TCBs : OSTCBDly'[t] = IF t \in Live /\ OSTCBDly[t] # 0 THEN OSTCBDly[t] - 1 ELSE OSTCBDly[t]
  BY DEF OSTimeTick
<1>3. OSTCBDly' \in [TCBs -> Nat]
  BY <1>1 DEF OSTimeTick
<1>4. /\ W \in SUBSET Live /\ \A t \in W : OSTCBDly[t] # 0 /\ OSTCBDly'[t] = 0
      /\ \A t \in TCBs \ W : OSTCBDly'[t] = OSTCBDly[t] \/ (OSTCBDly[t] # 0 /\ OSTCBDly'[t] # 0)
  BY <1>1, <1>2 DEF Live, TCBs
<1>5. DelayOver(W) /\ OSIntNesting = 1 /\ toSched \subseteq toSched' /\ toSched' \subseteq Tasks
      /\ UNCHANGED <<prios, OSTCBMsg, OSTCBEventPtr, OSTCBEventMultiPtr, OSEventTbl, processor,
                     inCall, creating, ecb, queue, flag, client>>
  BY <1>1 DEF OSTimeTick, calls
<1> HIDE DEF W
<1>6. QED
  BY <1>3, <1>4, <1>5, TimeKeeps

\* The task a priority names exists; the priority is its own where no mutexes are used.
LEMMA NamedTask ==
  ASSUME KInv, NEW p, Named(p), NEW t, t = OSTCBPrioTbl[p]
  PROVE  /\ p \in Prios /\ t \in Live /\ t \in Tasks /\ t \in TCBs /\ OSTCBPrio[t] \in Prios
         /\ "MUTEX" \notin app => OSTCBPrio[t] = p
<1>1. p \in Prios /\ t \in Live /\ t \in Tasks /\ t \in TCBs /\ OSTCBPrio[t] \in Prios
  BY DEF Named, KInv, Names, Live, TCBs
<1>2. "MUTEX" \notin app => OSTCBPrio[t] = p
  BY <1>1 DEF KInv, PrioTableAgrees, UsedOnly
<1>3. QED
  BY <1>1, <1>2

LEMMA DelayEnds ==
  ASSUME KInv, NEW p, OSTimeDlyResume(p)
  PROVE  KRest'
<1> DEFINE t == OSTCBPrioTbl[p]
<1>1. t \in Live /\ t \in TCBs
  BY NamedTask DEF OSTimeDlyResume
<1>2. /\ AnyLevel /\ OSTCBDly[t] # 0 /\ OSTCBDly' = [OSTCBDly EXCEPT ![t] = 0] /\ DelayOver({t})
      /\ UNCHANGED <<prios, OSTCBMsg, OSTCBEventPtr, OSTCBEventMultiPtr, OSEventTbl, processor,
                     ecb, queue, flag, client>>
      /\ IF "SUSPEND" \in OSTCBStat[t] THEN UNCHANGED calls ELSE ThenSched
  BY DEF OSTimeDlyResume
<1>3. OSTCBDly \in [TCBs -> Nat] /\ toSched \subseteq Tasks
  BY DEF KInv, TypeOK, Processor
<1> HIDE DEF t
<1>4. /\ toSched \subseteq toSched' /\ toSched' \subseteq Tasks
      /\ inCall' = inCall /\ creating' = creating
      /\ OSIntNesting = 1 \/ OSTCBCur \in toSched' \/ OSRdyTbl' = OSRdyTbl
  <2>1. CASE "SUSPEND" \in OSTCBStat[t]
    BY <1>2, <1>3, <2>1 DEF calls, DelayOver, Released
  <2>2. CASE "SUSPEND" \notin OSTCBStat[t]
    BY <1>2, <2>2, SchedulesNext
  <2>3. QED
    BY <2>1, <2>2
<1>5. /\ {t} \in SUBSET Live /\ OSTCBDly' \in [TCBs -> Nat]
      /\ \A u \in {t} : OSTCBDly[u] # 0 /\ OSTCBDly'[u] = 0
      /\ \A u \in TCBs \ {t} : OSTCBDly'[u] = OSTCBDly[u]
  BY <1>1, <1>2, <1>3
<1>6. QED
  BY <1>2, <1>4, <1>5, TimeKeeps

\* A task lets time pass.
LEMMA Delays ==
  ASSUME KInv, "DELAY" \in app, NEW ticks \in Nat \ {0}, OSTimeDly(ticks)
  PROVE  KRest'
<1> DEFINE c == OSTCBCur
<1>1. TaskLevel /\ ThenSched /\ OSRdyTbl' = OSRdyTbl \ {OSTCBPrio[c]} /\ AnyLevel
      /\ OSTCBDly' = [OSTCBDly EXCEPT ![c] = ticks]
      /\ UNCHANGED <<prios, OSTCBStat, OSTCBStatPend, OSTCBMsg, OSTCBEventPtr, OSTCBEventMultiPtr,
                     OSEventTbl, processor, ecb, queue, flag, client>>
  BY DEF OSTimeDly, AnyLevel
<1>2. c \in Live /\ c \in TCBs /\ OSTCBPrio[c] \in Prios /\ inCall[c] = "none"
  BY <1>1, AtTaskLevel
<1>3. /\ toSched \subseteq toSched' /\ toSched' \subseteq Tasks
      /\ inCall' = inCall /\ creating' = creating
      /\ OSIntNesting = 1 \/ OSTCBCur \in toSched'
  BY <1>1, SchedulesNext
<1> HIDE DEF c
<1>4. Tables'
  BY <1>1, <1>2, <1>3, HeldBack DEF KInv, PriosKept, prios, ecb, flag
<1>5. PaceStep
  BY <1>1, <1>2, <1>3 DEF PaceStep, KInv, TypeOK, UsedOnly
<1>6. /\ OSTCBStat' \in [TCBs -> SUBSET StatBits] /\ OSTCBStatPend' \in [TCBs -> PendStats]
      /\ OSTCBDly' \in [TCBs -> Nat] /\ OSRdyTbl' \subseteq Prios \cup {IdlePrio}
      /\ IdlePrio \in OSRdyTbl'
  <2>1. OSTCBPrio[c] # IdlePrio /\ OSTCBDly' \in [TCBs -> Nat]
    BY <1>1, <1>2, KernelAssumption DEF KInv, TypeOK
  <2>2. QED
    BY <1>1, <2>1 DEF KInv, TypeOK
<1>7. QED
  BY <1>4, <1>5, <1>6, PaceKeeps

LEMMA Suspends ==
  ASSUME KInv, "SUSPEND" \in app, NEW p, OSTaskSuspend(p)
  PROVE  KRest'
<1> DEFINE t == OSTCBPrioTbl[p]
<1>0. "MUTEX" \notin app /\ "MULTI" \notin app
  BY ApplicationRules DEF KInv, TypeOK
<1>1. t \in Live /\ t \in TCBs /\ OSTCBPrio[t] = p /\ p \in Prios
  BY <1>0, NamedTask DEF OSTaskSuspend
<1>2. /\ AnyLevel /\ OSRdyTbl' = OSRdyTbl \ {OSTCBPrio[t]}
      /\ OSTCBStat' = [OSTCBStat EXCEPT ![t] = @ \cup {"SUSPEND"}]
      /\ IF p = OSTCBPrio[OSTCBCur] THEN ThenSched ELSE UNCHANGED calls
      /\ UNCHANGED <<prios, OSTCBStatPend, OSTCBDly, OSTCBMsg, OSTCBEventPtr, OSTCBEventMultiPtr,
                     OSEventTbl, processor, ecb, queue, flag, client>>
  BY DEF OSTaskSuspend
<1> HIDE DEF t
<1>3. /\ toSched \subseteq toSched' /\ toSched' \subseteq Tasks
      /\ inCall' = inCall /\ creating' = creating
      /\ \/ OSIntNesting = 1 \/ OSTCBCur \in toSched'
         \/ OSTCBPrio[OSTCBCur] \in OSRdyTbl => OSTCBPrio[OSTCBCur] \in OSRdyTbl'
  <2>1. CASE p = OSTCBPrio[OSTCBCur]
    BY <1>2, <2>1, SchedulesNext
  <2>2. CASE p # OSTCBPrio[OSTCBCur]
    BY <1>1, <1>2, <2>2 DEF calls, KInv, Processor
  <2>3. QED
    BY <2>1, <2>2
<1>4. OSTCBEventMultiPtr[t] = {}
  BY <1>0, <1>1 DEF KInv, Leftovers
<1>5. Tables'
  BY <1>1, <1>2, <1>3, <1>4, HeldBack DEF KInv, PriosKept, prios, ecb, flag
<1>6. PaceStep
  BY <1>1, <1>2, <1>3 DEF PaceStep, KInv, TypeOK, UsedOnly
<1>7. /\ OSTCBStat' \in [TCBs -> SUBSET StatBits] /\ OSTCBStatPend' \in [TCBs -> PendStats]
      /\ OSTCBDly' \in [TCBs -> Nat] /\ OSRdyTbl' \subseteq Prios \cup {IdlePrio}
      /\ IdlePrio \in OSRdyTbl'
  <2>1. OSTCBStat \in [TCBs -> SUBSET StatBits] /\ "SUSPEND" \in StatBits
    BY DEF KInv, TypeOK, StatBits
  <2>2. OSTCBStat' \in [TCBs -> SUBSET StatBits]
    BY <1>2, <2>1
  <2>3. QED
    BY <1>1, <1>2, <2>2, KernelAssumption DEF KInv, TypeOK
<1>8. QED
  BY <1>5, <1>6, <1>7, PaceKeeps

LEMMA Resumptions ==
  ASSUME KInv, "SUSPEND" \in app, NEW p, OSTaskResume(p)
  PROVE  KRest'
<1> DEFINE t == OSTCBPrioTbl[p]
<1>1. t \in Live /\ t \in TCBs
  BY NamedTask DEF OSTaskResume
<1>2. /\ AnyLevel /\ "SUSPEND" \in OSTCBStat[t]
      /\ OSTCBStat' = [OSTCBStat EXCEPT ![t] = @ \ {"SUSPEND"}]
      /\ OSRdyTbl' = IF OSTCBStat[t] = {"SUSPEND"} /\ OSTCBDly[t] = 0
                     THEN OSRdyTbl \cup {OSTCBPrio[t]} ELSE OSRdyTbl
      /\ IF OSTCBStat[t] = {"SUSPEND"} /\ OSTCBDly[t] = 0 THEN ThenSched ELSE UNCHANGED calls
      /\ UNCHANGED <<prios, OSTCBStatPend, OSTCBDly, OSTCBMsg, OSTCBEventPtr, OSTCBEventMultiPtr,
                     OSEventTbl, processor, ecb, queue, flag, client>>
  BY DEF OSTaskResume
<1> HIDE DEF t
<1>3. /\ toSched \subseteq toSched' /\ toSched' \subseteq Tasks
      /\ inCall' = inCall /\ creating' = creating
      /\ OSIntNesting = 1 \/ OSTCBCur \in toSched' \/ OSRdyTbl' = OSRdyTbl
  <2>1. CASE OSTCBStat[t] = {"SUSPEND"} /\ OSTCBDly[t] = 0
    BY <1>2, <2>1, SchedulesNext
  <2>2. CASE ~(OSTCBStat[t] = {"SUSPEND"} /\ OSTCBDly[t] = 0)
    BY <1>2, <2>2 DEF calls, KInv, Processor
  <2>3. QED
    BY <2>1, <2>2
<1>4. Tables'
  BY <1>1, <1>2, <1>3, ResumesTask DEF KInv, PriosKept, prios, ecb, flag
<1>5. PaceStep
  BY <1>1, <1>2, <1>3 DEF PaceStep, KInv, TypeOK, UsedOnly
<1>6. /\ OSTCBStat' \in [TCBs -> SUBSET StatBits] /\ OSTCBStatPend' \in [TCBs -> PendStats]
      /\ OSTCBDly' \in [TCBs -> Nat] /\ OSRdyTbl' \subseteq Prios \cup {IdlePrio}
      /\ IdlePrio \in OSRdyTbl'
  BY <1>1, <1>2 DEF KInv, TypeOK
<1>7. QED
  BY <1>4, <1>5, <1>6, PaceKeeps

-----------------------------------------------------------------------------
\* Where tasks come and go or change their priorities, there are no mutexes and no
\* scheduler locks.
LEMMA NoMutexes ==
  ASSUME KInv, app \cap {"CHANGE", "TASKS"} # {}
  PROVE  /\ "MUTEX" \notin app /\ "LOCK" \notin app /\ Mutexes = {} /\ OSLockNesting = 0
         /\ ~Lowered
         /\ \A p \in Prios : OSTCBPrioTbl[p] \in TCBs => OSTCBPrio[OSTCBPrioTbl[p]] = p
<1>1. "MUTEX" \notin app /\ "LOCK" \notin app
  BY ApplicationRules DEF KInv, TypeOK
<1>2. Mutexes = {}
  BY <1>1 DEF KInv, UsedOnly, Mutexes
<1>3. OSLockNesting = 0
  BY <1>1, ApplicationRules DEF KInv, UsedOnly, TypeOK
<1>4. \A p \in Prios : OSTCBPrioTbl[p] \in TCBs => OSTCBPrio[OSTCBPrioTbl[p]] = p
  BY <1>2 DEF KInv, PrioTableAgrees, Mutexes
<1>5. QED
  BY <1>1, <1>2, <1>3, <1>4 DEF Lowered

\* What such a step keeps, whatever it does to priorities.
LEMMA NoMutexesKept ==
  ASSUME KInv, app \cap {"CHANGE", "TASKS"} # {}, UNCHANGED <<ecb, queue, client>>,
         UNCHANGED <<OSFlagFlags, node>>, OSFlagWaitList' \subseteq OSFlagWaitList,
         Live' \subseteq TCBs, \A t \in TCBs : inCall'[t] \in {inCall[t], "none"},
         \A e \in Events : OSEventTbl[e] = {} => OSEventTbl'[e] = {}
  PROVE  /\ MutexesOwned' /\ OwnersWait' /\ OwnerIsUrgent' /\ MutualExclusion'
         /\ EventsTyped' /\ ClientTyped' /\ NothingToTake' /\ ~Lowered'
<1>1. Mutexes = {} /\ "MUTEX" \notin app
  BY NoMutexes
<1>2. Mutexes' = {} /\ app' = app
  BY <1>1 DEF Mutexes, ecb, client
<1>3. MutexesOwned'
  BY <1>1, <1>2 DEF KInv, MutexesOwned, ecb
<1>4. OwnersWait'
  BY <1>1, <1>2 DEF KInv, OwnersWait, UsedOnly, client
<1>5. OwnerIsUrgent'
  BY <1>2 DEF OwnerIsUrgent, Mutexes
<1>6. MutualExclusion'
  BY DEF KInv, MutualExclusion, ecb, client
<1>7. EventsTyped' /\ ClientTyped'
  BY KInvParts DEF EventsTyped, ClientTyped, ecb, client
<1>8. NothingToTake'
  <2>1. \A f \in Events : Filled(f)' <=> Filled(f)
    BY DEF Filled, ecb, queue
  <2>2. QED
    BY <2>1, KInvParts DEF NothingToTake, Satisfied, FlagsRdy
<1>9. QED
  BY <1>1, <1>2, <1>3, <1>4, <1>5, <1>6, <1>7, <1>8 DEF Lowered

\* OSTaskCreate reserves a priority ...
LEMMA Reserves ==
  ASSUME KInv, "TASKS" \in app, NEW p \in Prios, OSTaskCreate(p)
  PROVE  KRest'
<1> DEFINE c == OSTCBCur
<1>1. /\ TaskLevel /\ OSTCBPrioTbl[p] = NULL /\ OSTCBPrioTbl' = [OSTCBPrioTbl EXCEPT ![p] = RESERVED]
      /\ creating' = [creating EXCEPT ![c] = p]
      /\ UNCHANGED <<OSTCBPrio, tcb, OSRdyTbl, OSEventTbl, processor, inCall, toSched,
                     ecb, queue, flag, client>>
  BY DEF OSTaskCreate
<1>2. c \in Live /\ c \in Tasks /\ c \in TCBs /\ inCall[c] = "none" /\ creating[c] = NULL /\ c \notin toSched
  BY <1>1, AtTaskLevel
<1>3. /\ OSTCBPrioTbl \in [Prios \cup {IdlePrio} -> TCBs \cup {NULL, RESERVED}]
      /\ creating \in [TCBs -> Prios \cup {NULL}] /\ RESERVED \notin TCBs \cup {NULL}
      /\ NULL \notin TCBs \cup Prios /\ p # IdlePrio /\ p \in Prios
  BY KernelAssumption DEF KInv, TypeOK
<1> HIDE DEF c
<1>4. /\ OSTCBPrioTbl'[p] = RESERVED /\ creating'[c] = p
      /\ \A q \in (Prios \cup {IdlePrio}) \ {p} : OSTCBPrioTbl'[q] = OSTCBPrioTbl[q]
      /\ \A u \in TCBs \ {c} : creating'[u] = creating[u]
      /\ OSTCBPrioTbl' \in [Prios \cup {IdlePrio} -> TCBs \cup {NULL, RESERVED}]
      /\ creating' \in [TCBs -> Prios \cup {NULL}]
  BY <1>1, <1>2, <1>3
<1>5. NamesKept
  BY <1>1, <1>3, <1>4 DEF NamesKept
<1>6. Live' = Live /\ Present' = Present /\ OSTCBPrio' = OSTCBPrio
  BY <1>5, LiveNamed DEF KInv
<1>7. Tables'
  BY <1>1, <1>5, TablesNamed DEF KInv, TypesStay, ecb, flag, tcb
<1>8. /\ MutexesOwned' /\ OwnersWait' /\ OwnerIsUrgent' /\ MutualExclusion'
      /\ EventsTyped' /\ ClientTyped' /\ NothingToTake' /\ ~Lowered'
  BY <1>1, <1>6, NoMutexesKept DEF flag, Live, TCBs
<1>9. TasksTyped' /\ ProcessorTyped' /\ FlagsTyped'
  BY <1>1, <1>4, KInvParts DEF TasksTyped, ProcessorTyped, FlagsTyped, tcb, processor, flag
<1>10. UsedOnly'
  BY <1>1 DEF KInv, UsedOnly, tcb, processor, ecb, client
<1>11. Names'
  BY <1>3, <1>4, <1>6 DEF KInv, Names, TCBs
<1>12. Creations'
  <2>1. \A u \in TCBs : creating[u] # NULL => creating[u] # p /\ creating[u] \in Prios
    BY <1>1, <1>3 DEF KInv, Creations
  <2>2. QED
    BY <1>1, <1>2, <1>3, <1>4, <1>6, <2>1 DEF KInv, Creations
<1>13. PrioTableAgrees'
  <2>1. \A q \in Prios : OSTCBPrioTbl'[q] \in TCBs => OSTCBPrio[OSTCBPrioTbl'[q]] = q
    BY <1>3, <1>4, NoMutexes
  <2>2. \A q \in Prios : OSTCBPrioTbl'[q] = RESERVED =>
          (\E u \in Tasks : creating'[u] = q) \/ \E e \in Events : OSMutexPIP[e] = q
    <3> TAKE q \in Prios
    <3>1. CASE q = p
      BY <1>2, <1>4, <3>1
    <3>2. CASE q # p
      BY <1>2, <1>3, <1>4, <3>2 DEF KInv, PrioTableAgrees, TCBs
    <3>3. QED
      BY <3>1, <3>2
  <2>3. QED
    BY <1>1, <2>1, <2>2 DEF PrioTableAgrees, ecb
<1>14. Processor'
  <2>1. OSTCBPrioTbl'[OSPrioCur] \in Present => OSTCBPrioTbl'[OSPrioCur] = OSTCBPrioTbl[OSPrioCur]
    BY <1>3, <1>4 DEF KInv, TypeOK, Present, Live, TCBs
  <2>2. Switches' <=> Switches
    BY <1>1 DEF Switches, processor
  <2>3. QED
    BY <1>1, <1>6, <1>8, <2>1, <2>2, NoMutexes DEF KInv, Processor, processor, client
<1>15. QED
  BY <1>7, <1>8, <1>9, <1>10, <1>11, <1>12, <1>13, <1>14 DEF KRest

\* ... which is given back when there is no control block ...
LEMMA GivesBack ==
  ASSUME KInv, NEW c, c = OSTCBCur, NEW p, p = creating[c], p # NULL,
         OSTCBPrioTbl' = [OSTCBPrioTbl EXCEPT ![p] = NULL],
         creating' = [creating EXCEPT ![c] = NULL],
         UNCHANGED <<OSTCBPrio, tcb, OSRdyTbl, toSched, OSEventTbl, processor, inCall, ecb, queue,
                     flag, client>>
  PROVE  KRest'
<1>1. /\ c \in TCBs /\ p \in Prios /\ "TASKS" \in app
      /\ OSTCBPrioTbl \in [Prios \cup {IdlePrio} -> TCBs \cup {NULL, RESERVED}]
      /\ creating \in [TCBs -> Prios \cup {NULL}] /\ RESERVED \notin TCBs \cup {NULL}
      /\ NULL \notin TCBs \cup Prios /\ p # IdlePrio
  BY KernelAssumption DEF KInv, TypeOK, UsedOnly
<1>2. OSTCBPrioTbl[p] = RESERVED /\ \A u \in TCBs \ {c} : creating[u] # p
  BY <1>1 DEF KInv, Creations
<1>3. /\ OSTCBPrioTbl'[p] = NULL /\ creating'[c] = NULL
      /\ \A q \in (Prios \cup {IdlePrio}) \ {p} : OSTCBPrioTbl'[q] = OSTCBPrioTbl[q]
      /\ \A u \in TCBs \ {c} : creating'[u] = creating[u]
      /\ OSTCBPrioTbl' \in [Prios \cup {IdlePrio} -> TCBs \cup {NULL, RESERVED}]
      /\ creating' \in [TCBs -> Prios \cup {NULL}]
  BY <1>1
<1>4. NamesKept
  BY <1>1, <1>2, <1>3 DEF NamesKept
<1>5. Live' = Live /\ Present' = Present /\ OSTCBPrio' = OSTCBPrio
  BY <1>4, LiveNamed DEF KInv
<1>6. Tables'
  BY <1>4, TablesNamed DEF KInv, TypesStay, ecb, flag, tcb
<1>7. /\ MutexesOwned' /\ OwnersWait' /\ OwnerIsUrgent' /\ MutualExclusion'
      /\ EventsTyped' /\ ClientTyped' /\ NothingToTake' /\ ~Lowered'
  BY <1>1, <1>5, NoMutexesKept DEF flag, Live, TCBs
<1>8. TasksTyped' /\ ProcessorTyped' /\ FlagsTyped'
  BY <1>3, KInvParts DEF TasksTyped, ProcessorTyped, FlagsTyped, tcb, processor, flag
<1>9. UsedOnly'
  BY <1>3 DEF KInv, UsedOnly, tcb, processor, ecb, client
<1>10. Names'
  BY <1>1, <1>3, <1>5 DEF KInv, Names, TCBs
<1>11. Creations'
  BY <1>1, <1>2, <1>3, <1>5 DEF KInv, Creations
<1>12. PrioTableAgrees'
  <2>1. \A q \in Prios : OSTCBPrioTbl'[q] \in TCBs => OSTCBPrio[OSTCBPrioTbl'[q]] = q
    BY <1>1, <1>3, NoMutexes
  <2>2. \A q \in Prios : OSTCBPrioTbl'[q] = RESERVED =>
          (\E u \in Tasks : creating'[u] = q) \/ \E e \in Events : OSMutexPIP[e] = q
    BY <1>1, <1>2, <1>3 DEF KInv, PrioTableAgrees, TCBs
  <2>3. QED
    BY <2>1, <2>2 DEF PrioTableAgrees, ecb
<1>13. Processor'
  <2>1. OSTCBPrioTbl'[OSPrioCur] \in Present => OSTCBPrioTbl'[OSPrioCur] = OSTCBPrioTbl[OSPrioCur]
    BY <1>1, <1>3 DEF KInv, TypeOK, Present, Live, TCBs
  <2>2. Switches' <=> Switches
    BY DEF Switches, processor
  <2>3. QED
    BY <1>1, <1>5, <1>7, <2>1, <2>2, NoMutexes DEF KInv, Processor, processor, client
<1>14. QED
  BY <1>6, <1>7, <1>8, <1>9, <1>10, <1>11, <1>12, <1>13 DEF KRest

-----------------------------------------------------------------------------
\* ... and the new task's from then on.
LEMMA Starts ==
  ASSUME KInv, NEW c, c = OSTCBCur, c \notin toSched, NEW p, p = creating[c], p # NULL,
         NEW t \in Tasks \ Live,
         creating' = [creating EXCEPT ![c] = NULL],
         OSTCBPrio' = [OSTCBPrio EXCEPT ![t] = p],
         OSTCBPrioTbl' = [OSTCBPrioTbl EXCEPT ![p] = t],
         OSTCBStat' = [OSTCBStat EXCEPT ![t] = {}],
         OSTCBStatPend' = [OSTCBStatPend EXCEPT ![t] = "OK"],
         OSTCBDly' = [OSTCBDly EXCEPT ![t] = 0],
         OSTCBMsg' = [OSTCBMsg EXCEPT ![t] = NULL],
         OSTCBEventPtr' = [OSTCBEventPtr EXCEPT ![t] = NULL],
         OSTCBEventMultiPtr' = [OSTCBEventMultiPtr EXCEPT ![t] = {}],
         OSRdyTbl' = OSRdyTbl \cup {p},
         toSched' = (toSched \ {t}) \cup {c},
         UNCHANGED <<OSEventTbl, processor, inCall, ecb, queue, flag, client>>
  PROVE  KRest'
<1>1. /\ c \in TCBs /\ p \in Prios /\ "TASKS" \in app
      /\ OSTCBPrioTbl \in [Prios \cup {IdlePrio} -> TCBs \cup {NULL, RESERVED}]
      /\ OSTCBPrio \in [TCBs -> Prios \cup {IdlePrio}] /\ OSPrioCur \in Prios \cup {IdlePrio}
      /\ creating \in [TCBs -> Prios \cup {NULL}] /\ RESERVED \notin TCBs \cup {NULL}
      /\ NULL \notin TCBs \cup Prios /\ p # IdlePrio /\ Idle \notin Tasks
      /\ t \in TCBs /\ t \in Tasks
  BY KernelAssumption DEF KInv, TypeOK, UsedOnly, TCBs
<1>2. OSTCBPrioTbl[p] = RESERVED /\ \A u \in TCBs \ {c} : creating[u] # p
  BY <1>1 DEF KInv, Creations
<1>3. c \in Live /\ c # t
  BY <1>1 DEF KInv, Creations
<1>4. Tables' /\ Live' = Live \cup {t}
  BY <1>1, TaskStarts DEF KInv, ecb, flag
<1>5. /\ OSTCBPrioTbl'[p] = t /\ creating'[c] = NULL /\ OSTCBPrio'[t] = p
      /\ \A q \in (Prios \cup {IdlePrio}) \ {p} : OSTCBPrioTbl'[q] = OSTCBPrioTbl[q]
      /\ \A u \in TCBs \ {c} : creating'[u] = creating[u]
      /\ \A u \in TCBs \ {t} : OSTCBPrio'[u] = OSTCBPrio[u]
      /\ OSTCBPrioTbl' \in [Prios \cup {IdlePrio} -> TCBs \cup {NULL, RESERVED}]
      /\ creating' \in [TCBs -> Prios \cup {NULL}] /\ OSTCBPrio' \in [TCBs -> Prios \cup {IdlePrio}]
  BY <1>1
<1>6. Present' = Present \cup {t} /\ t \notin Present
  BY <1>1, <1>4 DEF Present
<1>7. /\ MutexesOwned' /\ OwnersWait' /\ OwnerIsUrgent' /\ MutualExclusion'
      /\ EventsTyped' /\ ClientTyped' /\ NothingToTake' /\ ~Lowered'
  <2>1. Live' \subseteq TCBs
    BY <1>1, <1>4 DEF Live, TCBs
  <2>2. QED
    BY <1>1, <2>1, NoMutexesKept DEF flag
<1>8. TasksTyped'
  <2>1. /\ OSTCBStat \in [TCBs -> SUBSET StatBits] /\ OSTCBStatPend \in [TCBs -> PendStats]
        /\ OSTCBDly \in [TCBs -> Nat] /\ OSTCBMsg \in [TCBs -> Messages \cup {NULL}]
        /\ OSTCBEventPtr \in [TCBs -> Events \cup {NULL}]
        /\ OSTCBEventMultiPtr \in [TCBs -> SUBSET Events]
    BY DEF KInv, TypeOK
  <2>2. /\ OSTCBStat' \in [TCBs -> SUBSET StatBits] /\ OSTCBStatPend' \in [TCBs -> PendStats]
        /\ OSTCBDly' \in [TCBs -> Nat] /\ OSTCBMsg' \in [TCBs -> Messages \cup {NULL}]
        /\ OSTCBEventPtr' \in [TCBs -> Events \cup {NULL}]
        /\ OSTCBEventMultiPtr' \in [TCBs -> SUBSET Events]
    BY <2>1 DEF PendStats
  <2>3. QED
    BY <1>1, <1>5, <2>2, KInvParts DEF TasksTyped
<1>9. toSched' \subseteq Tasks
  BY <1>3 DEF KInv, Processor, Live
<1>10. ProcessorTyped' /\ FlagsTyped'
  BY <1>5, <1>9, KInvParts DEF ProcessorTyped, FlagsTyped, processor, flag, TCBs
<1>11. UsedOnly'
  <2>1. /\ \A u \in TCBs : "SUSPEND" \in OSTCBStat'[u] => "SUSPEND" \in OSTCBStat[u]
        /\ \A u \in TCBs : OSTCBDly'[u] # 0 => OSTCBDly[u] # 0
        /\ \A u \in TCBs : creating'[u] # NULL => creating[u] # NULL
    BY <1>1, <1>5 DEF KInv, TypeOK
  <2>2. QED
    BY <2>1 DEF KInv, UsedOnly, processor, ecb, client
<1>12. Names'
  <2>1. OSTCBPrio[Idle] = IdlePrio /\ OSTCBPrioTbl[IdlePrio] = Idle /\ Idle \in TCBs
    BY DEF KInv, Names, TCBs
  <2>2. OSTCBPrio'[Idle] = IdlePrio /\ OSTCBPrioTbl'[IdlePrio] = Idle
    BY <1>1, <1>5, <2>1
  <2>3. \A u \in Tasks : OSTCBPrio'[u] \in Prios
    BY <1>1, <1>5 DEF KInv, Names, TCBs
  <2>4. \A q \in Prios : OSTCBPrioTbl'[q] # Idle
    BY <1>1, <1>5 DEF KInv, Names
  <2>5. \A q \in Prios : OSTCBPrioTbl'[q] \in Tasks => OSTCBPrioTbl'[q] \in Live'
    BY <1>4, <1>5 DEF KInv, Names
  <2>6. QED
    BY <2>2, <2>3, <2>4, <2>5 DEF Names
<1>13. Creations'
  BY <1>1, <1>2, <1>4, <1>5 DEF KInv, Creations
<1>14. PrioTableAgrees'
  <2>1. \A q \in Prios : OSTCBPrioTbl'[q] \in TCBs => OSTCBPrio'[OSTCBPrioTbl'[q]] = q
    <3> TAKE q \in Prios
    <3>1. CASE q = p
      BY <1>5, <3>1
    <3>2. CASE q # p
      <4>1. OSTCBPrioTbl'[q] = OSTCBPrioTbl[q] /\ OSTCBPrioTbl[q] # t
        BY <1>1, <1>5, <3>2 DEF KInv, Names
      <4>2. QED
        BY <1>1, <1>5, <4>1, NoMutexes
    <3>3. QED
      BY <3>1, <3>2
  <2>2. \A q \in Prios : OSTCBPrioTbl'[q] = RESERVED =>
          (\E u \in Tasks : creating'[u] = q) \/ \E e \in Events : OSMutexPIP[e] = q
    BY <1>1, <1>2, <1>5 DEF KInv, PrioTableAgrees, TCBs
  <2>3. QED
    BY <2>1, <2>2 DEF PrioTableAgrees, ecb
<1>15. Processor'
  <2>1. OSPrioCur = OSTCBPrio[c]
    BY <1>1, NoMutexes DEF KInv, Processor
  <2>2. OSPrioCur # p
    BY <1>1, <1>2, <1>3, <2>1 DEF Live
  <2>3. OSTCBPrioTbl'[OSPrioCur] = OSTCBPrioTbl[OSPrioCur] /\ OSTCBPrio'[c] = OSTCBPrio[c]
    BY <1>1, <1>3, <1>5, <2>2
  <2>4. OSTCBPrioTbl[OSPrioCur] = c
    BY <1>3, <2>1 DEF Live
  <2>5. ~Switches'
    BY DEF Switches, processor
  <2>6. /\ OSTCBCur' = c /\ OSPrioCur' = OSPrioCur /\ OSTCBPrio'[c] = OSPrioCur /\ app' = app
        /\ OSLockNesting' = 0 /\ c \in Present'
    <3>1. OSTCBCur' = c /\ OSPrioCur' = OSPrioCur /\ app' = app /\ OSLockNesting' = OSLockNesting
      BY DEF processor, client
    <3>2. OSLockNesting = 0
      BY <1>1, NoMutexes
    <3>3. c \in Present'
      BY <1>3, <1>6 DEF Present
    <3>4. QED
      BY <2>1, <2>3, <3>1, <3>2, <3>3
  <2>7. QED
    BY <1>9, <2>3, <2>4, <2>5, <2>6 DEF Processor
<1>16. QED
  BY <1>4, <1>7, <1>8, <1>10, <1>11, <1>12, <1>13, <1>14, <1>15 DEF KRest

\* A task is deleted, perhaps by itself.
LEMMA Ends ==
  ASSUME KInv, "TASKS" \in app, NEW p, OSTaskDel(p), creating[OSTCBPrioTbl[p]] = NULL
  PROVE  KRest'
<1> DEFINE t == OSTCBPrioTbl[p]
           c == OSTCBCur
<1>1. /\ t \in Live /\ t \in Tasks /\ t \in TCBs /\ OSTCBPrio[t] = p /\ p \in Prios /\ creating[t] = NULL
  BY NamedTask, NoMutexes DEF OSTaskDel
<1>2. /\ TaskLevel /\ OSRdyTbl' = OSRdyTbl \ {OSTCBPrio[t]}
      /\ OSEventTbl' = [e \in Events |-> IF e = OSTCBEventPtr[t] \/ e \in OSTCBEventMultiPtr[t]
                                         THEN OSEventTbl[e] \ {OSTCBPrio[t]} ELSE OSEventTbl[e]]
      /\ OSFlagWaitList' = OSFlagWaitList \ {t}
      /\ OSTCBDly' = [OSTCBDly EXCEPT ![t] = 0] /\ OSTCBStat' = [OSTCBStat EXCEPT ![t] = {}]
      /\ OSTCBStatPend' = [OSTCBStatPend EXCEPT ![t] = "OK"]
      /\ OSTCBPrioTbl' = [OSTCBPrioTbl EXCEPT ![p] = NULL]
      /\ inCall' = [inCall EXCEPT ![t] = "none"] /\ toSched' = (toSched \ {t}) \cup {c}
      /\ UNCHANGED <<OSTCBPrio, OSTCBMsg, OSTCBEventPtr, OSTCBEventMultiPtr, processor, ecb, queue,
                     creating, OSFlagType, OSFlagFlags, node, OSTCBFlagsRdy, client>>
  BY DEF OSTaskDel
<1>3. c \in Live /\ c \in Tasks /\ c \in TCBs
  BY <1>2, AtTaskLevel
<1>4. Tables' /\ Live' = Live \ {t}
  BY <1>1, TaskEnds DEF KInv
<1>5. /\ OSTCBPrioTbl \in [Prios \cup {IdlePrio} -> TCBs \cup {NULL, RESERVED}]
      /\ OSTCBStat \in [TCBs -> SUBSET StatBits] /\ OSTCBStatPend \in [TCBs -> PendStats]
      /\ OSTCBDly \in [TCBs -> Nat] /\ OSEventTbl \in [Events -> SUBSET Prios]
      /\ inCall \in [TCBs -> {"none", "SEM", "MUTEX", "MBOX", "Q", "FLAG", "MULTI"}]
      /\ RESERVED \notin TCBs \cup {NULL} /\ NULL \notin TCBs \cup Prios /\ p # IdlePrio /\ Idle \notin Tasks
  BY <1>1, KernelAssumption DEF KInv, TypeOK
<1> HIDE DEF t, c
<1>6. /\ OSTCBPrioTbl'[p] = NULL /\ inCall'[t] = "none"
      /\ \A q \in (Prios \cup {IdlePrio}) \ {p} : OSTCBPrioTbl'[q] = OSTCBPrioTbl[q]
      /\ \A u \in TCBs \ {t} : inCall'[u] = inCall[u]
      /\ OSTCBPrioTbl' \in [Prios \cup {IdlePrio} -> TCBs \cup {NULL, RESERVED}]
      /\ OSTCBStat' \in [TCBs -> SUBSET StatBits] /\ OSTCBStatPend' \in [TCBs -> PendStats]
      /\ OSTCBDly' \in [TCBs -> Nat] /\ OSEventTbl' \in [Events -> SUBSET Prios]
      /\ inCall' \in [TCBs -> {"none", "SEM", "MUTEX", "MBOX", "Q", "FLAG", "MULTI"}]
  BY <1>1, <1>2, <1>5 DEF PendStats
<1>7. Present' = Present \ {t}
  BY <1>1, <1>4, <1>5 DEF Present
<1>8. \A q \in Prios : OSTCBPrioTbl[q] \in TCBs => OSTCBPrio[OSTCBPrioTbl[q]] = q
  BY NoMutexes
<1>9. \A q \in Prios : OSTCBPrioTbl'[q] \in TCBs =>
        OSTCBPrioTbl'[q] = OSTCBPrioTbl[q] /\ OSTCBPrioTbl[q] # t
  BY <1>1, <1>5, <1>6, <1>8
<1>10. /\ MutexesOwned' /\ OwnersWait' /\ OwnerIsUrgent' /\ MutualExclusion'
       /\ EventsTyped' /\ ClientTyped' /\ NothingToTake' /\ ~Lowered'
  <2>1. Live' \subseteq TCBs
    BY <1>4 DEF Live, TCBs
  <2>2. \A u \in TCBs : inCall'[u] \in {inCall[u], "none"}
    BY <1>6
  <2>3. \A e \in Events : OSEventTbl[e] = {} => OSEventTbl'[e] = {}
    BY <1>2
  <2>4. QED
    BY <1>2, <2>1, <2>2, <2>3, NoMutexesKept
<1>11. toSched' \subseteq Tasks
  BY <1>2, <1>3 DEF KInv, Processor
<1>12. TasksTyped' /\ ProcessorTyped' /\ FlagsTyped'
  <2>1. TasksTyped'
    BY <1>1, <1>2, <1>5, <1>6, KInvParts DEF TasksTyped
  <2>2. ProcessorTyped' /\ FlagsTyped'
    BY <1>2, <1>6, <1>11, KInvParts DEF ProcessorTyped, FlagsTyped, processor, TCBs
  <2>3. QED
    BY <2>1, <2>2
<1>13. UsedOnly'
  <2>1. /\ \A u \in TCBs : "SUSPEND" \in OSTCBStat'[u] => "SUSPEND" \in OSTCBStat[u]
        /\ \A u \in TCBs : OSTCBDly'[u] # 0 => OSTCBDly[u] # 0 /\ u # t
    BY <1>1, <1>2, <1>5
  <2>2. QED
    BY <1>2, <1>6, <2>1 DEF KInv, UsedOnly, processor, ecb, client
<1>14. Names'
  <2>1. OSTCBPrioTbl'[IdlePrio] = OSTCBPrioTbl[IdlePrio]
    BY <1>5, <1>6
  <2>2. \A q \in Prios : OSTCBPrioTbl'[q] # Idle
    BY <1>5, <1>6 DEF KInv, Names, TCBs
  <2>3. \A q \in Prios : OSTCBPrioTbl'[q] \in Tasks => OSTCBPrioTbl'[q] \in Live'
    BY <1>4, <1>9 DEF KInv, Names, TCBs
  <2>4. QED
    BY <1>2, <2>1, <2>2, <2>3 DEF KInv, Names
<1>15. Creations'
  <2>1. \A u \in TCBs : creating[u] # NULL => creating[u] # p /\ creating[u] \in Prios /\ u # t
    BY <1>1, <1>5 DEF KInv, Creations, TypeOK, t
  <2>2. QED
    BY <1>1, <1>2, <1>4, <1>6, <2>1 DEF KInv, Creations
<1>16. PrioTableAgrees'
  <2>1. \A q \in Prios : OSTCBPrioTbl'[q] \in TCBs => OSTCBPrio[OSTCBPrioTbl'[q]] = q
    BY <1>8, <1>9
  <2>2. \A q \in Prios : OSTCBPrioTbl'[q] = RESERVED =>
          (\E u \in Tasks : creating[u] = q) \/ \E e \in Events : OSMutexPIP[e] = q
    BY <1>5, <1>6 DEF KInv, PrioTableAgrees
  <2>3. QED
    BY <1>2, <2>1, <2>2 DEF PrioTableAgrees, ecb
<1>17. Processor'
  <2>1. OSTCBPrioTbl'[OSPrioCur] \in Present' => OSTCBPrioTbl'[OSPrioCur] = OSTCBPrioTbl[OSPrioCur]
    BY <1>5, <1>6, <1>7 DEF KInv, TypeOK, Present, Live, TCBs
  <2>2. OSTCBPrioTbl'[OSPrioCur'] \in Present' /\ OSTCBPrio'[OSTCBPrioTbl'[OSPrioCur']] = OSPrioCur'
          => OSTCBPrioTbl'[OSPrioCur'] = OSTCBCur'
    BY <1>2, <1>7, <2>1 DEF KInv, Processor, processor
  <2>3. ~Switches' /\ OSTCBCur' \in toSched' /\ app' = app /\ OSLockNesting' = 0
    BY <1>2, NoMutexes DEF Switches, processor, client, c
  <2>4. QED
    BY <1>11, <2>2, <2>3 DEF Processor
<1>18. QED
  BY <1>4, <1>10, <1>12, <1>13, <1>14, <1>15, <1>16, <1>17 DEF KRest

\* A task changes its priority.
LEMMA Changes_Prio ==
  ASSUME KInv, "CHANGE" \in app, NEW p, NEW q \in Prios, Named(p), OSIntNesting = 0,
         inCall[OSTCBPrioTbl[p]] = "none" \/ Listed(OSTCBPrioTbl[p]), OSTaskChangePrio(p, q)
  PROVE  KRest'
<1> DEFINE t == OSTCBPrioTbl[p]
           c == OSTCBCur
<1>1. /\ t \in Live /\ t \in Tasks /\ t \in TCBs /\ OSTCBPrio[t] = p /\ p \in Prios
  BY NamedTask, NoMutexes
<1>2. /\ TaskLevel /\ OSTCBPrioTbl[q] = NULL /\ ThenSched /\ AnyLevel
      /\ OSTCBPrioTbl' = [OSTCBPrioTbl EXCEPT ![p] = NULL, ![q] = t]
      /\ OSTCBPrio' = [OSTCBPrio EXCEPT ![t] = q]
      /\ OSRdyTbl' = IF OSTCBPrio[t] \in OSRdyTbl THEN (OSRdyTbl \ {OSTCBPrio[t]}) \cup {q} ELSE OSRdyTbl
      /\ OSEventTbl' = [e \in Events |-> IF e = OSTCBEventPtr[t] \/ e \in OSTCBEventMultiPtr[t]
                                         THEN (OSEventTbl[e] \ {OSTCBPrio[t]}) \cup {q} ELSE OSEventTbl[e]]
      /\ UNCHANGED <<tcb, processor, ecb, queue, flag, client>>
  BY DEF OSTaskChangePrio, AnyLevel
<1>0. OSTCBEventMultiPtr[t] = {} \/ inCall[t] = "MULTI"
  BY <1>1, NothingLeft
<1>3. /\ c \in Live /\ c \in Tasks /\ c \in TCBs /\ c \notin toSched
      /\ toSched \subseteq toSched' /\ toSched' \subseteq Tasks
      /\ OSTCBCur \in toSched' /\ inCall' = inCall /\ creating' = creating
  BY <1>2, AtTaskLevel, SchedulesNext DEF TaskLevel
<1>4. Tables' /\ Live' = Live /\ Present' = Present
  BY <1>1, <1>0, PrioChanges DEF KInv, Present
<1>5. /\ OSTCBPrioTbl \in [Prios \cup {IdlePrio} -> TCBs \cup {NULL, RESERVED}]
      /\ OSTCBPrio \in [TCBs -> Prios \cup {IdlePrio}] /\ OSPrioCur \in Prios \cup {IdlePrio}
      /\ OSEventTbl \in [Events -> SUBSET Prios] /\ OSRdyTbl \subseteq Prios \cup {IdlePrio}
      /\ IdlePrio \in OSRdyTbl
      /\ RESERVED \notin TCBs \cup {NULL} /\ NULL \notin TCBs \cup Prios /\ p # IdlePrio /\ q # IdlePrio
      /\ Idle \notin Tasks /\ p # q
  BY <1>1, <1>2, KernelAssumption DEF KInv, TypeOK
<1>6. \A r \in Prios : OSTCBPrioTbl[r] \in TCBs => OSTCBPrio[OSTCBPrioTbl[r]] = r
  BY NoMutexes
<1> HIDE DEF t, c
<1>7. /\ OSTCBPrioTbl'[p] = NULL /\ OSTCBPrioTbl'[q] = t /\ OSTCBPrio'[t] = q
      /\ \A r \in (Prios \cup {IdlePrio}) \ {p, q} : OSTCBPrioTbl'[r] = OSTCBPrioTbl[r]
      /\ \A u \in TCBs \ {t} : OSTCBPrio'[u] = OSTCBPrio[u]
      /\ OSTCBPrioTbl' \in [Prios \cup {IdlePrio} -> TCBs \cup {NULL, RESERVED}]
      /\ OSTCBPrio' \in [TCBs -> Prios \cup {IdlePrio}]
      /\ OSEventTbl' \in [Events -> SUBSET Prios] /\ OSRdyTbl' \subseteq Prios \cup {IdlePrio}
      /\ IdlePrio \in OSRdyTbl'
  BY <1>1, <1>2, <1>5
<1>8. /\ MutexesOwned' /\ OwnersWait' /\ OwnerIsUrgent' /\ MutualExclusion'
      /\ EventsTyped' /\ ClientTyped' /\ NothingToTake' /\ ~Lowered'
  <2>1. Live' \subseteq TCBs
    BY <1>4 DEF Live, TCBs
  <2>2. \A e \in Events : OSEventTbl[e] = {} => OSEventTbl'[e] = {}
    <3> TAKE e \in Events
    <3>1. e = OSTCBEventPtr[t] \/ e \in OSTCBEventMultiPtr[t] => e \in WaitsIn(t)
      BY <1>1, <1>0, WaitsForItsEvents DEF KInv, t
    <3>2. QED
      BY <1>2, <3>1 DEF WaitsIn
  <2>3. QED
    BY <1>2, <1>3, <2>1, <2>2, NoMutexesKept DEF flag
<1>9. TasksTyped' /\ ProcessorTyped' /\ FlagsTyped'
  <2>1. TasksTyped'
    BY <1>2, <1>7, KInvParts DEF TasksTyped, tcb
  <2>2. ProcessorTyped' /\ FlagsTyped'
    BY <1>2, <1>3, KInvParts DEF ProcessorTyped, FlagsTyped, processor, flag, TCBs
  <2>3. QED
    BY <2>1, <2>2
<1>10. UsedOnly'
  BY <1>2, <1>3 DEF KInv, UsedOnly, tcb, processor, ecb, client
<1>11. \A r \in Prios : r \notin {p, q} => OSTCBPrioTbl'[r] = OSTCBPrioTbl[r] /\ OSTCBPrioTbl[r] # t
  BY <1>1, <1>6, <1>7
<1>12. Names'
  <2>1. OSTCBPrioTbl'[IdlePrio] = OSTCBPrioTbl[IdlePrio] /\ OSTCBPrio'[Idle] = OSTCBPrio[Idle]
    BY <1>1, <1>5, <1>7 DEF TCBs
  <2>2. \A r \in Prios : OSTCBPrioTbl'[r] # Idle
    BY <1>1, <1>5, <1>7 DEF KInv, Names, TCBs
  <2>3. \A r \in Prios : OSTCBPrioTbl'[r] \in Tasks => OSTCBPrioTbl'[r] \in Live'
    BY <1>1, <1>4, <1>5, <1>7 DEF KInv, Names, TCBs
  <2>4. \A u \in Tasks : OSTCBPrio'[u] \in Prios
    BY <1>1, <1>7 DEF KInv, Names, TCBs
  <2>5. QED
    BY <2>1, <2>2, <2>3, <2>4 DEF KInv, Names
<1>13. Creations'
  <2>1. \A u \in TCBs : creating[u] # NULL => creating[u] \notin {p, q} /\ creating[u] \in Prios
    BY <1>1, <1>2, <1>5 DEF KInv, Creations, TypeOK, t
  <2>2. QED
    BY <1>3, <1>4, <1>7, <2>1 DEF KInv, Creations
<1>14. PrioTableAgrees'
  <2>1. \A r \in Prios : OSTCBPrioTbl'[r] \in TCBs => OSTCBPrio'[OSTCBPrioTbl'[r]] = r
    BY <1>5, <1>6, <1>7, <1>11
  <2>2. \A r \in Prios : OSTCBPrioTbl'[r] = RESERVED =>
          (\E u \in Tasks : creating[u] = r) \/ \E e \in Events : OSMutexPIP[e] = r
    BY <1>1, <1>5, <1>7, <1>11 DEF KInv, PrioTableAgrees
  <2>3. QED
    BY <1>2, <1>3, <2>1, <2>2 DEF PrioTableAgrees, ecb
<1>15. Processor'
  <2>1. OSPrioCur = OSTCBPrio[c] /\ OSTCBPrioTbl[OSPrioCur] = c
    BY <1>3, NoMutexes DEF KInv, Processor, Live, c
  <2>2. OSPrioCur # q
    BY <1>2, <1>3, <1>5, <2>1
  <2>3. OSTCBPrioTbl'[OSPrioCur] \in Present => OSTCBPrioTbl'[OSPrioCur] = c
    BY <1>5, <1>7, <2>1, <2>2 DEF Present, Live, TCBs
  <2>4. ~Switches' /\ OSTCBCur' \in toSched' /\ app' = app /\ OSLockNesting' = 0 /\ OSTCBCur' = c
        /\ OSPrioCur' = OSPrioCur
    BY <1>2, <1>3, NoMutexes DEF Switches, processor, client, c
  <2>5. OSTCBCur' \in Present'
    BY <1>3, <1>4, <2>4 DEF Present
  <2>6. QED
    BY <1>3, <1>4, <2>3, <2>4, <2>5 DEF Processor
<1>16. QED
  BY <1>4, <1>8, <1>9, <1>10, <1>12, <1>13, <1>14, <1>15 DEF KRest

-----------------------------------------------------------------------------
\* An application with mutexes: its tasks have the priorities main gave them, or a PIP,
\* which is more urgent than these.
LEMMA MutexApp ==
  ASSUME KInv, "MUTEX" \in app
  PROVE  /\ app \cap {"CHANGE", "TASKS", "SUSPEND", "MULTI"} = {}
         /\ \A t \in TCBs : creating[t] = NULL /\ "SUSPEND" \notin OSTCBStat[t] /\ inCall[t] # "MULTI"
         /\ \A t \in Tasks : /\ Base[t] \in Prios /\ Base[t] \notin Pip /\ Base[t] \in Nat
                             /\ Base[t] # Available
         /\ Pip \subseteq Prios /\ Prios \subseteq Nat /\ IdlePrio \notin Prios
         /\ \A p \in Pip, t \in Tasks : p < Base[t]
         /\ \A e \in Mutexes : e \in Events /\ OSMutexPIP[e] \in Pip
<1>1. app \cap {"CHANGE", "TASKS", "SUSPEND", "MULTI"} = {}
  <2>1. app \in Apps /\ app \cap {"MUTEX", "LOCK"} # {} /\ app \cap {"MUTEX", "MULTI"} # {}
    BY DEF KInv, TypeOK
  <2>2. app \cap {"CHANGE", "TASKS"} = {} /\ "SUSPEND" \notin app /\ "MULTI" \notin app
    BY <2>1, ApplicationRules
  <2>3. QED
    BY <2>2
<1>2. \A t \in TCBs : creating[t] = NULL /\ "SUSPEND" \notin OSTCBStat[t] /\ inCall[t] # "MULTI"
  BY <1>1 DEF KInv, UsedOnly
<1>3. Pip \subseteq Prios /\ Prios \subseteq Nat /\ IdlePrio \notin Prios /\ Available \notin Prios
  <2>1. Pip \subseteq Prios
    BY ApplicationRules
  <2>2. Prios \subseteq Nat \ {Available} /\ IdlePrio \in Nat /\ \A p \in Prios : p < IdlePrio
    BY KernelAssumption
  <2>3. IdlePrio \notin Prios
    <3>1. ~(IdlePrio < IdlePrio)
      BY <2>2
    <3>2. QED
      BY <2>2, <3>1
  <2>4. Prios \subseteq Nat /\ Available \notin Prios
    BY <2>2
  <2>5. QED
    BY <2>1, <2>3, <2>4
<1>4. \A t \in Tasks : Base[t] \in Prios \ Pip
  BY ApplicationRules
<1>5. \A p \in Pip, t \in Tasks : p < Base[t]
  BY ApplicationRules
<1>6. \A e \in Mutexes : e \in Events /\ OSMutexPIP[e] \in Pip
  BY DEF KInv, TypeOK, MutexesOwned, Mutexes
<1>7. QED
  BY <1>1, <1>2, <1>3, <1>4, <1>5, <1>6

\* Who waits for a mutex waits for nothing else and owns no other; it has its own priority.
LEMMA MutexWaiter ==
  ASSUME KInv, "MUTEX" \in app, NEW e \in Mutexes, NEW t \in Live, e \in WaitsIn(t)
  PROVE  /\ inCall[t] = "MUTEX" /\ OSTCBEventPtr[t] = e /\ OSTCBEventMultiPtr[t] = {}
         /\ WaitsIn(t) = {e} /\ \A f \in Mutexes : Owner(f) = t => f = e
         /\ Owner(e) # t => OSTCBPrio[t] = Base[t]
<1> DEFINE s == Standing(t)
<1>1. /\ s.ev = OSTCBEventPtr[t] /\ s.multi = OSTCBEventMultiPtr[t] /\ s.call = inCall[t]
      /\ s.in = WaitsIn(t) /\ Consistent(s)
  BY Fields DEF KInv, Tables, Standings
<1>2. inCall[t] = "MUTEX" /\ OSTCBEventMultiPtr[t] = {}
  BY MutexApp, NothingLeft DEF KInv, Tables, Standings, Mutexes, Live, TCBs
<1> HIDE DEF s
<1>3. OSTCBEventPtr[t] = e /\ OSTCBEventMultiPtr[t] = {} /\ WaitsIn(t) = {e}
  BY <1>1, <1>2 DEF Consistent, InNoCall, InSingle, InMulti, InFlag
<1>4. \A f \in Mutexes : Owner(f) = t => f = e
  BY DEF KInv, OwnersWait
<1>5. Owner(e) # t => OSTCBPrio[t] = Base[t]
  BY <1>4 DEF KInv, MutexesOwned, Live
<1>6. QED
  BY <1>2, <1>3, <1>4, <1>5

\* OSMutexCreate: the PIP is no other mutex's.
LEMMA MutexCreates ==
  ASSUME KInv, "MUTEX" \in app, NEW e \in InUse, NEW pip \in Pip, OSMutexCreate(e, pip)
  PROVE  KRest'
<1> DEFINE c == OSTCBCur
<1>1. /\ TaskLevel /\ OSEventType[e] = "UNUSED" /\ OSTCBPrioTbl[pip] = NULL /\ e \in Events /\ e \in app
      /\ OSEventType' = [OSEventType EXCEPT ![e] = "MUTEX"] /\ OSEventTbl' = [OSEventTbl EXCEPT ![e] = {}]
      /\ OSTCBPrioTbl' = [OSTCBPrioTbl EXCEPT ![pip] = RESERVED]
      /\ OSMutexPIP' = [OSMutexPIP EXCEPT ![e] = pip]
      /\ OSEventCnt' = [OSEventCnt EXCEPT ![e] = Available] /\ OSEventPtr' = [OSEventPtr EXCEPT ![e] = NULL]
      /\ UNCHANGED <<OSTCBPrio, tcb, OSRdyTbl, processor, calls, queue, flag, client>>
  BY DEF OSMutexCreate, Create, InUse
<1>2. /\ OSTCBPrioTbl \in [Prios \cup {IdlePrio} -> TCBs \cup {NULL, RESERVED}]
      /\ OSEventType \in [Events -> EventTypes] /\ OSEventTbl \in [Events -> SUBSET Prios]
      /\ OSMutexPIP \in [Events -> Pip \cup {NULL}] /\ OSEventCnt \in [Events -> Nat]
      /\ OSEventPtr \in [Events -> Tasks \cup Messages \cup {NULL}]
      /\ NULL \notin Prios \cup TCBs /\ RESERVED \notin TCBs \cup {NULL}
      /\ OSEventTbl[e] = {} /\ OSMutexPIP[e] = NULL /\ e \notin Mutexes
  BY <1>1, KernelAssumption DEF KInv, TypeOK, Tables, ListsNameTasks, MutexesOwned, Mutexes
<1>3. /\ OSTCBPrioTbl'[pip] = RESERVED /\ OSEventType'[e] = "MUTEX" /\ OSMutexPIP'[e] = pip
      /\ OSEventCnt'[e] = Available /\ OSEventPtr'[e] = NULL
      /\ \A p \in (Prios \cup {IdlePrio}) \ {pip} : OSTCBPrioTbl'[p] = OSTCBPrioTbl[p]
      /\ \A f \in Events \ {e} : /\ OSEventType'[f] = OSEventType[f] /\ OSMutexPIP'[f] = OSMutexPIP[f]
                                 /\ OSEventCnt'[f] = OSEventCnt[f] /\ OSEventPtr'[f] = OSEventPtr[f]
      /\ \A f \in Events : OSEventTbl'[f] = OSEventTbl[f]
      /\ pip \in Prios /\ pip # IdlePrio
  BY <1>1, <1>2, MutexApp
<1>4. /\ OSTCBPrioTbl' \in [Prios \cup {IdlePrio} -> TCBs \cup {NULL, RESERVED}]
      /\ OSEventTbl' \in [Events -> SUBSET Prios]
  BY <1>1, <1>2, <1>3
<1>5. EventsTyped'
  <2>1. OSEventType' \in [Events -> EventTypes] /\ OSEventCnt' \in [Events -> Nat]
    BY <1>1, <1>2 DEF EventTypes, Available
  <2>2. OSEventPtr' \in [Events -> Tasks \cup Messages \cup {NULL}] /\ OSMutexPIP' \in [Events -> Pip \cup {NULL}]
    BY <1>1, <1>2
  <2>3. QED
    BY <2>1, <2>2 DEF EventsTyped
<1>6. NamesKept
  BY <1>1, <1>2, <1>3 DEF NamesKept
<1>7. /\ Live' = Live /\ Present' = Present /\ OSTCBPrio' = OSTCBPrio
      /\ \A p \in Prios \cup {IdlePrio} : OSTCBPrioTbl[p] \in TCBs => OSTCBPrioTbl'[p] = OSTCBPrioTbl[p]
  BY <1>6, LiveNamed DEF KInv
<1>8. Tables'
  <2>1. TypesStay
    BY <1>1, <1>2, <1>3 DEF TypesStay, flag
  <2>2. QED
    BY <1>1, <1>3, <1>6, <2>1, TablesNamed DEF KInv, tcb, calls, flag
<1>9. Mutexes' = Mutexes \cup {e}
  BY <1>1, <1>3 DEF Mutexes
<1>10. \A f \in Mutexes : /\ f # e /\ Owner(f)' = Owner(f) /\ (Raised(f)' <=> Raised(f)) /\ OSMutexPIP[f] # pip
                          /\ OSMutexPIP'[f] = OSMutexPIP[f] /\ OSEventCnt'[f] = OSEventCnt[f]
  <2>1. \A f \in Mutexes : OSMutexPIP[f] # pip
    BY <1>1, <1>2 DEF KInv, MutexesOwned, Raised, Owner, Live, TCBs
  <2>2. QED
    BY <1>2, <1>3, <1>7, <2>1 DEF Owner, Raised, Mutexes
<1>11. MutexesOwned'
  <2>1. \A f \in Events : OSMutexPIP'[f] # NULL <=> f \in Mutexes'
    BY <1>2, <1>3, <1>9 DEF KInv, MutexesOwned
  <2>2. \A f, g \in Mutexes' : OSMutexPIP'[f] = OSMutexPIP'[g] => f = g
    BY <1>3, <1>9, <1>10 DEF KInv, MutexesOwned
  <2>3. \A f \in Mutexes' : IF OSEventCnt'[f] = Available THEN Owner(f)' = NULL ELSE Owner(f)' \in Tasks
    BY <1>3, <1>9, <1>10 DEF KInv, MutexesOwned, Owner
  <2>4. Owner(e)' = NULL /\ ~Raised(e)'
    BY <1>3 DEF Owner, Raised
  <2>5. \A f \in Mutexes' : Owner(f)' # NULL => f \in Mutexes
    BY <1>9, <2>4
  <2>6. \A f \in Mutexes' : Owner(f)' # NULL =>
          /\ Owner(f)' \in Live
          /\ OSEventCnt'[f] = Base[Owner(f)'] /\ OSTCBPrioTbl'[OSEventCnt'[f]] = Owner(f)'
          /\ OSTCBPrio[Owner(f)'] \in {OSEventCnt'[f], OSMutexPIP'[f]}
    <3> SUFFICES ASSUME NEW f \in Mutexes, Owner(f) # NULL
                 PROVE  /\ Owner(f) \in Live
                        /\ OSEventCnt[f] = Base[Owner(f)] /\ OSTCBPrioTbl'[OSEventCnt[f]] = Owner(f)
                        /\ OSTCBPrio[Owner(f)] \in {OSEventCnt[f], OSMutexPIP[f]}
      BY <1>10, <2>5
    <3>1. /\ Owner(f) \in Live
          /\ OSEventCnt[f] = Base[Owner(f)] /\ OSTCBPrioTbl[OSEventCnt[f]] = Owner(f)
          /\ OSTCBPrio[Owner(f)] \in {OSEventCnt[f], OSMutexPIP[f]}
      BY DEF KInv, MutexesOwned
    <3>2. OSEventCnt[f] \in Prios /\ Owner(f) \in TCBs
      BY <3>1, MutexApp DEF Live, TCBs
    <3>3. QED
      BY <1>7, <3>1, <3>2
  <2>7. \A f \in Mutexes' : OSTCBPrioTbl'[OSMutexPIP'[f]] = IF Raised(f)' THEN Owner(f)' ELSE RESERVED
    <3>1. \A f \in Mutexes : OSMutexPIP[f] \in (Prios \cup {IdlePrio}) \ {pip}
      BY <1>10, MutexApp
    <3>2. \A f \in Mutexes : OSTCBPrioTbl'[OSMutexPIP'[f]] = IF Raised(f)' THEN Owner(f)' ELSE RESERVED
      BY <1>3, <1>10, <3>1 DEF KInv, MutexesOwned
    <3>3. QED
      BY <1>3, <1>9, <2>4, <3>2
  <2>8. \A f, g \in Mutexes' : Owner(f)' = Owner(g)' /\ Owner(f)' # NULL => f = g
    BY <1>10, <2>5 DEF KInv, MutexesOwned
  <2>9. \A t \in Tasks : OSTCBPrio[t] = Base[t]
                         \/ \E f \in Mutexes' : Owner(f)' = t /\ OSTCBPrio[t] = OSMutexPIP'[f]
    BY <1>9, <1>10 DEF KInv, MutexesOwned
  <2>10. QED
    BY <1>7, <2>1, <2>2, <2>3, <2>6, <2>7, <2>8, <2>9 DEF MutexesOwned
<1>12. \A t \in Live : WaitsIn(t)' = WaitsIn(t) /\ e \notin WaitsIn(t)
  BY <1>2, <1>3, <1>7 DEF WaitsIn
<1>13. Owner(e)' = NULL
  BY <1>3 DEF Owner
<1>14. OwnersWait'
  <2>1. \A f \in Mutexes' : Owner(f)' # NULL => f \in Mutexes /\ Owner(f)' = Owner(f)
    BY <1>9, <1>10, <1>13
  <2>2. \A t \in Live : inCall[t] = "MUTEX" /\ WaitsIn(t)' = {} /\ OSTCBStatPend[t] = "OK" =>
          OSTCBEventPtr[t] \in Mutexes' /\ OSEventPtr'[OSTCBEventPtr[t]] = t
    BY <1>9, <1>10, <1>12 DEF KInv, OwnersWait, Owner
  <2>3. NULL \notin Live
    BY <1>2 DEF Live, TCBs
  <2>4. \A f, g \in Mutexes' : \A t \in Live : f \in WaitsIn(t)' /\ Owner(g)' = t => f = g
    BY <1>9, <1>10, <1>12, <2>1, <2>3 DEF KInv, OwnersWait
  <2>5. \A f \in Events \ Mutexes' : inside[f] = {}
    BY <1>9 DEF KInv, OwnersWait
  <2>6. QED
    BY <1>1, <1>7, <2>1, <2>2, <2>4, <2>5 DEF KInv, OwnersWait, Owner, tcb, calls, client
<1>15. UsedOnly'
  <2>1. \A f \in Events : OSEventType'[f] # "UNUSED" => f \in app /\ OSEventType'[f] \in app
    BY <1>1, <1>3 DEF KInv, UsedOnly
  <2>2. QED
    BY <1>1, <2>1 DEF KInv, UsedOnly, tcb, processor, calls, client
<1>16. Names'
  BY <1>1, <1>2, <1>3, <1>7 DEF KInv, Names, TCBs
<1>17. Creations'
  BY <1>1, <1>7, MutexApp DEF KInv, Creations, calls
<1>18. PrioTableAgrees'
  <2>1. \A p \in Prios : OSTCBPrioTbl'[p] \in TCBs =>
          \/ OSTCBPrio[OSTCBPrioTbl'[p]] = p
          \/ \E f \in Events : OSEventType'[f] = "MUTEX" /\ OSEventPtr'[f] = OSTCBPrioTbl'[p]
               /\ OSEventCnt'[f] = p /\ OSTCBPrio[OSTCBPrioTbl'[p]] = OSMutexPIP'[f]
    <3> SUFFICES ASSUME NEW p \in Prios, OSTCBPrioTbl[p] \in TCBs, OSTCBPrioTbl'[p] = OSTCBPrioTbl[p],
                        NEW f \in Events, OSEventType[f] = "MUTEX", OSEventPtr[f] = OSTCBPrioTbl[p],
                        OSEventCnt[f] = p, OSTCBPrio[OSTCBPrioTbl[p]] = OSMutexPIP[f]
                 PROVE  \E g \in Events : OSEventType'[g] = "MUTEX" /\ OSEventPtr'[g] = OSTCBPrioTbl'[p]
                          /\ OSEventCnt'[g] = p /\ OSTCBPrio[OSTCBPrioTbl'[p]] = OSMutexPIP'[g]
      BY <1>2, <1>3 DEF KInv, PrioTableAgrees
    <3>1. f \in Mutexes /\ f # e
      BY <1>1 DEF Mutexes
    <3>2. QED
      BY <1>3, <3>1
  <2>2. \A p \in Prios : OSTCBPrioTbl'[p] = RESERVED =>
          (\E u \in Tasks : creating[u] = p) \/ \E f \in Events : OSMutexPIP'[f] = p
    <3> TAKE p \in Prios
    <3>1. CASE p = pip
      BY <1>1, <1>3, <3>1
    <3>2. CASE p # pip
      BY <1>2, <1>3, <3>2 DEF KInv, PrioTableAgrees
    <3>3. QED
      BY <3>1, <3>2
  <2>3. QED
    BY <1>1, <1>7, <2>1, <2>2 DEF PrioTableAgrees, calls
<1>19. NothingToTake'
  <2>1. \A f \in Events \ {e} : Filled(f)' <=> Filled(f)
    BY <1>1, <1>3 DEF Filled, queue
  <2>2. QED
    BY <1>1, <1>2, <1>3, <2>1, KInvParts DEF NothingToTake, flag, Satisfied, FlagsRdy
<1>20. OwnerIsUrgent' /\ MutualExclusion'
  <2>1. OwnerIsUrgent'
    BY <1>3, <1>7 DEF KInv, OwnerIsUrgent
  <2>2. inside[e] = {}
    BY <1>1, <1>2 DEF KInv, OwnersWait
  <2>3. QED
    BY <1>1, <1>3, <2>1, <2>2 DEF KInv, MutualExclusion, client
<1>21. Processor'
  <2>1. (Lowered' <=> Lowered) /\ (Switches' <=> Switches)
    BY <1>1, <1>7 DEF Lowered, Demoted, Switches, processor, calls, client
  <2>2. \A f \in Mutexes' : OSMutexPIP'[f] = OSPrioCur /\ Owner(f)' # NULL =>
          f \in Mutexes /\ Owner(f)' = Owner(f) /\ OSMutexPIP[f] = OSPrioCur
    BY <1>9, <1>10, <1>13
  <2>3. OSTCBPrioTbl'[OSPrioCur] \in Present => OSTCBPrioTbl'[OSPrioCur] = OSTCBPrioTbl[OSPrioCur]
    BY <1>2, <1>3 DEF KInv, TypeOK, Present, Live, TCBs
  <2>4. QED
    BY <1>1, <1>7, <2>1, <2>2, <2>3 DEF KInv, Processor, processor, calls, client
<1>22. TasksTyped' /\ ProcessorTyped' /\ FlagsTyped' /\ ClientTyped'
  BY <1>1, <1>4, KInvParts DEF TasksTyped, ProcessorTyped, FlagsTyped, ClientTyped, tcb, processor,
    calls, flag, client
<1>23. QED
  BY <1>5, <1>8, <1>11, <1>14, <1>15, <1>16, <1>17, <1>18, <1>19, <1>20, <1>21, <1>22 DEF KRest

-----------------------------------------------------------------------------
\* A mutex that is available is taken by a task that owns none.
LEMMA Seizes ==
  ASSUME KInv, "MUTEX" \in app, NEW e \in Mutexes, TaskLevel, Owned(OSTCBCur) \subseteq {e}, Seize(e)
  PROVE  KRest'
<1> DEFINE c == OSTCBCur
<1>1. /\ c \in Live /\ c \in Tasks /\ c \in TCBs /\ inCall[c] = "none" /\ WaitsIn(c) = {} /\ c # NULL
      /\ OSTCBPrioTbl[OSTCBPrio[c]] = c
  BY AtTaskLevel, KernelAssumption
<1>2. /\ OSEventCnt[e] = Available /\ OSEventCnt' = [OSEventCnt EXCEPT ![e] = OSTCBPrio[c]]
      /\ OSEventPtr' = [OSEventPtr EXCEPT ![e] = c]
      /\ inside' = [inside EXCEPT ![e] = @ \cup {c}]
      /\ UNCHANGED <<prios, tcb, OSRdyTbl, OSEventTbl, processor, calls, OSEventType, OSMutexPIP,
                     queue, flag, owed, app>>
  BY DEF Seize
<1> HIDE DEF c
<1>3. e \in Events /\ OSEventType[e] = "MUTEX" /\ Owner(e) = NULL /\ OSEventTbl[e] = {} /\ inside[e] = {}
  <2>1. e \in Events /\ OSEventType[e] = "MUTEX"
    BY DEF Mutexes
  <2>2. Owner(e) = NULL
    BY <1>2 DEF KInv, MutexesOwned
  <2>3. OSEventTbl[e] = {}
    BY <1>2, <2>1, KInvParts DEF NothingToTake, Filled
  <2>4. inside[e] = {}
    BY <2>1, <2>2, KernelAssumption DEF KInv, MutualExclusion, Owner, TypeOK, TCBs
  <2>5. QED
    BY <2>1, <2>2, <2>3, <2>4
<1>4. \A f \in Mutexes : Owner(f) # c
  BY <1>1, <1>3 DEF Owned, Mutexes, Owner, c
<1>5. OSTCBPrio[c] = Base[c] /\ Base[c] \in Prios /\ Base[c] \in Nat /\ Base[c] # Available /\ Base[c] \notin Pip
  BY <1>1, <1>4, MutexApp DEF KInv, MutexesOwned
<1>6. /\ OSEventCnt'[e] = Base[c] /\ OSEventPtr'[e] = c /\ inside'[e] = {c}
      /\ \A f \in Events \ {e} : /\ OSEventCnt'[f] = OSEventCnt[f] /\ OSEventPtr'[f] = OSEventPtr[f]
                                 /\ inside'[f] = inside[f]
      /\ OSEventCnt' \in [Events -> Nat] /\ OSEventPtr' \in [Events -> Tasks \cup Messages \cup {NULL}]
      /\ inside' \in [Events -> SUBSET Tasks]
  BY <1>1, <1>2, <1>3, <1>5 DEF KInv, TypeOK
<1>7. /\ Live' = Live /\ Present' = Present /\ OSTCBPrio' = OSTCBPrio /\ OSTCBPrioTbl' = OSTCBPrioTbl
      /\ Mutexes' = Mutexes /\ OSMutexPIP' = OSMutexPIP /\ PriosKept /\ app' = app
  BY <1>2, LiveKept DEF prios, PriosKept, Mutexes
<1>8. Tables'
  BY <1>2, <1>7, TablesKept DEF KInv, TypesStay, tcb, calls, flag
<1>9. /\ Owner(e)' = c /\ ~Raised(e)' /\ ~Raised(e)
      /\ \A f \in Mutexes \ {e} : Owner(f)' = Owner(f) /\ (Raised(f)' <=> Raised(f))
  <2>1. OSMutexPIP[e] \in Pip
    BY MutexApp
  <2>2. QED
    BY <1>3, <1>5, <1>6, <1>7, <2>1 DEF Owner, Raised, Mutexes
<1>10. MutexesOwned'
  <2>1. \A f \in Mutexes : IF OSEventCnt'[f] = Available THEN Owner(f)' = NULL ELSE Owner(f)' \in Tasks
    BY <1>1, <1>5, <1>6, <1>9 DEF KInv, MutexesOwned, Owner, Mutexes
  <2>2. \A f \in Mutexes : Owner(f)' # NULL =>
          /\ Owner(f)' \in Live
          /\ OSEventCnt'[f] = Base[Owner(f)'] /\ OSTCBPrioTbl[OSEventCnt'[f]] = Owner(f)'
          /\ OSTCBPrio[Owner(f)'] \in {OSEventCnt'[f], OSMutexPIP[f]}
    <3>1. \A f \in Mutexes \ {e} : OSEventCnt'[f] = OSEventCnt[f]
      BY <1>6 DEF Mutexes
    <3>2. QED
      BY <1>1, <1>5, <1>6, <1>9, <3>1 DEF KInv, MutexesOwned
  <2>3. \A f \in Mutexes : OSTCBPrioTbl[OSMutexPIP[f]] = IF Raised(f)' THEN Owner(f)' ELSE RESERVED
    BY <1>9 DEF KInv, MutexesOwned
  <2>4. \A f, g \in Mutexes : Owner(f)' = Owner(g)' /\ Owner(f)' # NULL => f = g
    BY <1>4, <1>9 DEF KInv, MutexesOwned
  <2>5. \A t \in Tasks : OSTCBPrio[t] = Base[t]
                         \/ \E f \in Mutexes : Owner(f)' = t /\ OSTCBPrio[t] = OSMutexPIP[f]
    <3> SUFFICES ASSUME NEW t \in Tasks, OSTCBPrio[t] # Base[t], NEW f \in Mutexes, Owner(f) = t,
                        OSTCBPrio[t] = OSMutexPIP[f]
                 PROVE  Owner(f)' = t
      BY DEF KInv, MutexesOwned
    <3>1. f # e
      BY <1>3, KernelAssumption DEF TCBs
    <3>2. QED
      BY <1>9, <3>1
  <2>6. QED
    BY <1>7, <2>1, <2>2, <2>3, <2>4, <2>5 DEF KInv, MutexesOwned
<1>11. \A t \in Live : WaitsIn(t)' = WaitsIn(t)
  BY <1>2, <1>7 DEF WaitsIn
<1>12. OwnersWait'
  <2>1. \A f \in Mutexes : Owner(f)' # NULL /\ inCall[Owner(f)'] # "none" =>
          OSTCBDly[Owner(f)'] = 0 /\ OSTCBStatPend[Owner(f)'] # "TO"
    BY <1>1, <1>9 DEF KInv, OwnersWait
  <2>2. \A t \in Live : inCall[t] = "MUTEX" /\ WaitsIn(t) = {} /\ OSTCBStatPend[t] = "OK" =>
          OSTCBEventPtr[t] \in Mutexes /\ OSEventPtr'[OSTCBEventPtr[t]] = t
    <3> SUFFICES ASSUME NEW t \in Live, OSTCBEventPtr[t] \in Mutexes, OSEventPtr[OSTCBEventPtr[t]] = t
                 PROVE  OSEventPtr'[OSTCBEventPtr[t]] = t
      BY DEF KInv, OwnersWait, Owner
    <3>1. OSTCBEventPtr[t] # e
      BY <1>3, KernelAssumption DEF Live, TCBs, Owner
    <3>2. QED
      BY <1>6, <3>1 DEF Mutexes
  <2>3. \A f, g \in Mutexes : \A t \in Live : f \in WaitsIn(t) /\ Owner(g)' = t => f = g
    BY <1>1, <1>9 DEF KInv, OwnersWait
  <2>4. \A f \in Events \ Mutexes : inside'[f] = {}
    BY <1>6 DEF KInv, OwnersWait
  <2>5. QED
    BY <1>2, <1>7, <1>11, <2>1, <2>2, <2>3, <2>4 DEF OwnersWait, Owner, tcb, calls
<1>13. UsedOnly'
  BY <1>2 DEF KInv, UsedOnly, tcb, processor, calls
<1>14. Names' /\ Creations'
  BY <1>2, <1>7 DEF KInv, Names, Creations, calls
<1>15. PrioTableAgrees'
  <2>1. \A f \in Events : OSEventType[f] = "MUTEX" /\ OSEventPtr[f] \in TCBs => f # e
    BY <1>3, KernelAssumption DEF Owner
  <2>2. QED
    BY <1>2, <1>6, <1>7, <2>1 DEF KInv, PrioTableAgrees, calls
<1>16. NothingToTake'
  <2>1. \A f \in Events \ {e} : Filled(f)' <=> Filled(f)
    BY <1>2, <1>6 DEF Filled, queue
  <2>2. QED
    BY <1>2, <1>3, <2>1, KInvParts DEF NothingToTake, flag, Satisfied, FlagsRdy
<1>17. OwnerIsUrgent' /\ MutualExclusion'
  <2>1. OwnerIsUrgent'
    BY <1>2, <1>3, <1>6, <1>7 DEF KInv, OwnerIsUrgent
  <2>2. MutualExclusion'
    BY <1>6 DEF KInv, MutualExclusion
  <2>3. QED
    BY <2>1, <2>2
<1>18. Processor'
  <2>1. (Lowered' <=> Lowered) /\ (Switches' <=> Switches) /\ OSTCBCur' = c /\ OSPrioCur' = OSPrioCur
    BY <1>2, <1>7 DEF Lowered, Demoted, Switches, processor, calls, c
  <2>2. \A f \in Mutexes : Owner(f)' \in {Owner(f), c}
    BY <1>9
  <2>3. QED
    BY <1>2, <1>7, <2>1, <2>2 DEF KInv, Processor, processor, calls, c
<1>19. TasksTyped' /\ ProcessorTyped' /\ EventsTyped' /\ FlagsTyped' /\ ClientTyped'
  BY <1>2, <1>6, <1>7, KInvParts DEF TasksTyped, ProcessorTyped, EventsTyped, FlagsTyped, ClientTyped,
    tcb, processor, calls, flag
<1>20. QED
  BY <1>8, <1>10, <1>12, <1>13, <1>14, <1>15, <1>16, <1>17, <1>18, <1>19 DEF KRest

\* A mutex that is available is deleted: nobody has its PIP.
LEMMA FreeMutexGoes ==
  ASSUME KInv, "MUTEX" \in app, NEW e \in Mutexes, TaskLevel, Owner(e) = NULL, OSEventTbl[e] = {},
         OSEventType' = [OSEventType EXCEPT ![e] = "UNUSED"],
         OSEventCnt' = [OSEventCnt EXCEPT ![e] = 0], OSEventPtr' = [OSEventPtr EXCEPT ![e] = NULL],
         OSMutexPIP' = [OSMutexPIP EXCEPT ![e] = NULL], inside' = [inside EXCEPT ![e] = {}],
         OSTCBPrioTbl' = [OSTCBPrioTbl EXCEPT ![OSMutexPIP[e]] = NULL],
         \A f \in Events : OSEventTbl'[f] = OSEventTbl[f], OSEventTbl' \in [Events -> SUBSET Prios],
         UNCHANGED <<OSTCBPrio, tcb, OSRdyTbl, calls, processor, queue, flag, owed, app>>
  PROVE  KRest'
<1> DEFINE c == OSTCBCur
           pip == OSMutexPIP[e]
<1>1. /\ e \in Events /\ OSEventType[e] = "MUTEX" /\ pip \in Prios /\ pip \in Pip /\ pip # IdlePrio
      /\ OSTCBPrioTbl[pip] = RESERVED /\ e \notin Mutexes'
  BY MutexApp DEF KInv, MutexesOwned, Raised, Owner, Mutexes, TypeOK
<1>2. /\ OSTCBPrioTbl \in [Prios \cup {IdlePrio} -> TCBs \cup {NULL, RESERVED}]
      /\ NULL \notin Prios \cup TCBs /\ RESERVED \notin TCBs \cup {NULL}
  BY KernelAssumption DEF KInv, TypeOK
<1> HIDE DEF c, pip
<1>3. /\ OSTCBPrioTbl'[pip] = NULL /\ OSEventType'[e] = "UNUSED" /\ OSMutexPIP'[e] = NULL
      /\ \A p \in (Prios \cup {IdlePrio}) \ {pip} : OSTCBPrioTbl'[p] = OSTCBPrioTbl[p]
      /\ \A f \in Events \ {e} : /\ OSEventType'[f] = OSEventType[f] /\ OSMutexPIP'[f] = OSMutexPIP[f]
                                 /\ OSEventCnt'[f] = OSEventCnt[f] /\ OSEventPtr'[f] = OSEventPtr[f]
                                 /\ inside'[f] = inside[f]
      /\ inside'[e] = {}
      /\ OSTCBPrioTbl' \in [Prios \cup {IdlePrio} -> TCBs \cup {NULL, RESERVED}]
  BY <1>1, <1>2 DEF pip, KInv, TypeOK
<1>4. EventsTyped' /\ ClientTyped'
  <2>1. OSEventType' \in [Events -> EventTypes] /\ OSEventCnt' \in [Events -> Nat]
    BY DEF EventTypes, KInv, TypeOK
  <2>2. /\ OSEventPtr' \in [Events -> Tasks \cup Messages \cup {NULL}] /\ OSMutexPIP' \in [Events -> Pip \cup {NULL}]
        /\ inside' \in [Events -> SUBSET Tasks]
    BY DEF KInv, TypeOK
  <2>3. QED
    BY <2>1, <2>2, KInvParts DEF EventsTyped, ClientTyped
<1>5. NamesKept
  BY <1>1, <1>2, <1>3 DEF NamesKept
<1>6. /\ Live' = Live /\ Present' = Present /\ OSTCBPrio' = OSTCBPrio
      /\ \A p \in Prios \cup {IdlePrio} : OSTCBPrioTbl[p] \in TCBs => OSTCBPrioTbl'[p] = OSTCBPrioTbl[p]
  BY <1>5, LiveNamed DEF KInv
<1>7. Tables'
  <2>1. TypesStay
    BY <1>3 DEF TypesStay, flag
  <2>2. QED
    BY <1>5, <2>1, TablesNamed DEF KInv, tcb, calls, flag
<1>8. Mutexes' = Mutexes \ {e}
  BY <1>1, <1>3 DEF Mutexes
<1>9. \A f \in Mutexes' : /\ f \in Mutexes /\ Owner(f)' = Owner(f) /\ (Raised(f)' <=> Raised(f))
                          /\ OSMutexPIP[f] # pip /\ OSMutexPIP[f] \in Prios
                          /\ OSMutexPIP'[f] = OSMutexPIP[f] /\ OSEventCnt'[f] = OSEventCnt[f]
  <2>1. \A f \in Mutexes \ {e} : OSMutexPIP[f] # pip /\ OSMutexPIP[f] \in Prios
    BY MutexApp DEF KInv, MutexesOwned, pip
  <2>2. QED
    BY <1>3, <1>6, <1>8, <2>1 DEF Owner, Raised, Mutexes
<1>10. MutexesOwned'
  <2>1. \A f \in Events : OSMutexPIP'[f] # NULL <=> f \in Mutexes'
    BY <1>3, <1>8 DEF KInv, MutexesOwned
  <2>2. \A f \in Mutexes' : Owner(f) # NULL =>
          /\ Owner(f) \in Live
          /\ OSEventCnt'[f] = Base[Owner(f)] /\ OSTCBPrioTbl'[OSEventCnt'[f]] = Owner(f)
          /\ OSTCBPrio[Owner(f)] \in {OSEventCnt'[f], OSMutexPIP'[f]}
    <3> SUFFICES ASSUME NEW f \in Mutexes', Owner(f) # NULL
                 PROVE  /\ Owner(f) \in Live
                        /\ OSEventCnt[f] = Base[Owner(f)] /\ OSTCBPrioTbl'[OSEventCnt[f]] = Owner(f)
                        /\ OSTCBPrio[Owner(f)] \in {OSEventCnt[f], OSMutexPIP[f]}
      BY <1>9
    <3>1. /\ Owner(f) \in Live
          /\ OSEventCnt[f] = Base[Owner(f)] /\ OSTCBPrioTbl[OSEventCnt[f]] = Owner(f)
          /\ OSTCBPrio[Owner(f)] \in {OSEventCnt[f], OSMutexPIP[f]}
      BY <1>9 DEF KInv, MutexesOwned
    <3>2. OSEventCnt[f] \in Prios /\ Owner(f) \in TCBs
      BY <3>1, MutexApp DEF Live, TCBs
    <3>3. QED
      BY <1>6, <3>1, <3>2
  <2>3. \A f \in Mutexes' : OSTCBPrioTbl'[OSMutexPIP'[f]] = IF Raised(f)' THEN Owner(f)' ELSE RESERVED
    BY <1>3, <1>9 DEF KInv, MutexesOwned
  <2>4. \A t \in Tasks : OSTCBPrio[t] = Base[t]
                         \/ \E f \in Mutexes' : Owner(f)' = t /\ OSTCBPrio[t] = OSMutexPIP'[f]
    <3> SUFFICES ASSUME NEW t \in Tasks, OSTCBPrio[t] # Base[t], NEW f \in Mutexes, Owner(f) = t,
                        OSTCBPrio[t] = OSMutexPIP[f]
                 PROVE  f \in Mutexes' /\ Owner(f)' = t /\ OSTCBPrio[t] = OSMutexPIP'[f]
      BY DEF KInv, MutexesOwned
    <3>1. f # e
      BY <1>2 DEF TCBs
    <3>2. QED
      BY <1>8, <1>9, <3>1
  <2>5. \A f, g \in Mutexes' : /\ OSMutexPIP'[f] = OSMutexPIP'[g] => f = g
                               /\ Owner(f)' = Owner(g)' /\ Owner(f)' # NULL => f = g
    BY <1>9 DEF KInv, MutexesOwned
  <2>6. \A f \in Mutexes' : IF OSEventCnt'[f] = Available THEN Owner(f)' = NULL ELSE Owner(f)' \in Tasks
    BY <1>9 DEF KInv, MutexesOwned
  <2>7. QED
    BY <1>6, <1>9, <2>1, <2>2, <2>3, <2>4, <2>5, <2>6 DEF MutexesOwned
<1>11. \A t \in Live : WaitsIn(t)' = WaitsIn(t)
  BY <1>6 DEF WaitsIn
<1>12. OwnersWait'
  <2>1. \A t \in Live : inCall[t] = "MUTEX" /\ WaitsIn(t)' = {} /\ OSTCBStatPend[t] = "OK" =>
          OSTCBEventPtr[t] \in Mutexes' /\ OSEventPtr'[OSTCBEventPtr[t]] = t
    <3> SUFFICES ASSUME NEW t \in Live, OSTCBEventPtr[t] \in Mutexes, Owner(OSTCBEventPtr[t]) = t
                 PROVE  OSTCBEventPtr[t] \in Mutexes' /\ OSEventPtr'[OSTCBEventPtr[t]] = t
      BY <1>11 DEF KInv, OwnersWait
    <3>1. OSTCBEventPtr[t] # e
      BY <1>2 DEF Live, TCBs
    <3>2. QED
      BY <1>3, <1>8, <3>1 DEF Mutexes, Owner
  <2>2. \A f \in Events \ Mutexes' : inside'[f] = {}
    BY <1>3, <1>8 DEF KInv, OwnersWait
  <2>3. QED
    BY <1>6, <1>9, <1>11, <2>1, <2>2 DEF KInv, OwnersWait, Owner, tcb, calls
<1>13. UsedOnly'
  <2>1. \A f \in Events : OSEventType'[f] # "UNUSED" => f \in app /\ OSEventType'[f] \in app
    BY <1>3 DEF KInv, UsedOnly
  <2>2. QED
    BY <2>1 DEF KInv, UsedOnly, tcb, processor, calls
<1>14. Names'
  BY <1>1, <1>2, <1>3, <1>6 DEF KInv, Names, TCBs
<1>15. Creations'
  BY <1>6, MutexApp DEF KInv, Creations, calls
<1>16. PrioTableAgrees'
  <2>1. \A p \in Prios : OSTCBPrioTbl'[p] \in TCBs =>
          \/ OSTCBPrio[OSTCBPrioTbl'[p]] = p
          \/ \E f \in Events : OSEventType'[f] = "MUTEX" /\ OSEventPtr'[f] = OSTCBPrioTbl'[p]
               /\ OSEventCnt'[f] = p /\ OSTCBPrio[OSTCBPrioTbl'[p]] = OSMutexPIP'[f]
    <3> SUFFICES ASSUME NEW p \in Prios, OSTCBPrioTbl[p] \in TCBs, OSTCBPrioTbl'[p] = OSTCBPrioTbl[p],
                        NEW f \in Events, OSEventType[f] = "MUTEX", OSEventPtr[f] = OSTCBPrioTbl[p],
                        OSEventCnt[f] = p, OSTCBPrio[OSTCBPrioTbl[p]] = OSMutexPIP[f]
                 PROVE  \E g \in Events : OSEventType'[g] = "MUTEX" /\ OSEventPtr'[g] = OSTCBPrioTbl'[p]
                          /\ OSEventCnt'[g] = p /\ OSTCBPrio[OSTCBPrioTbl'[p]] = OSMutexPIP'[g]
      BY <1>2, <1>3 DEF KInv, PrioTableAgrees
    <3>1. f # e
      BY <1>2 DEF Owner
    <3>2. QED
      BY <1>3, <3>1
  <2>2. \A p \in Prios : OSTCBPrioTbl'[p] = RESERVED =>
          (\E u \in Tasks : creating[u] = p) \/ \E f \in Events : OSMutexPIP'[f] = p
    <3> SUFFICES ASSUME NEW p \in Prios, OSTCBPrioTbl'[p] = RESERVED
                 PROVE  (\E u \in Tasks : creating[u] = p) \/ \E f \in Events : OSMutexPIP'[f] = p
      OBVIOUS
    <3>1. p # pip /\ OSTCBPrioTbl[p] = RESERVED
      BY <1>2, <1>3
    <3>2. QED
      BY <1>3, <3>1 DEF KInv, PrioTableAgrees, pip
  <2>3. QED
    BY <1>6, <2>1, <2>2 DEF PrioTableAgrees, calls
<1>17. NothingToTake'
  <2>1. \A f \in Events \ {e} : Filled(f)' <=> Filled(f)
    BY <1>3 DEF Filled, queue
  <2>2. QED
    BY <2>1, KInvParts DEF NothingToTake, flag, Satisfied, FlagsRdy
<1>18. OwnerIsUrgent' /\ MutualExclusion'
  <2>1. OwnerIsUrgent'
    BY <1>3, <1>6 DEF KInv, OwnerIsUrgent
  <2>2. MutualExclusion'
    BY <1>3 DEF KInv, MutualExclusion
  <2>3. QED
    BY <2>1, <2>2
<1>19. Processor'
  <2>1. (Lowered' <=> Lowered) /\ (Switches' <=> Switches)
    BY <1>6 DEF Lowered, Demoted, Switches, processor, calls
  <2>2. \A f \in Mutexes' : f \in Mutexes /\ Owner(f)' = Owner(f) /\ OSMutexPIP'[f] = OSMutexPIP[f]
    BY <1>9
  <2>3. OSTCBPrioTbl'[OSPrioCur] \in Present => OSTCBPrioTbl'[OSPrioCur] = OSTCBPrioTbl[OSPrioCur]
    BY <1>2, <1>3 DEF KInv, TypeOK, Present, Live, TCBs
  <2>4. QED
    BY <1>6, <2>1, <2>2, <2>3 DEF KInv, Processor, processor, calls
<1>20. TasksTyped' /\ ProcessorTyped' /\ FlagsTyped'
  BY <1>3, KInvParts DEF TasksTyped, ProcessorTyped, FlagsTyped, tcb, processor, calls, flag
<1>21. QED
  BY <1>4, <1>7, <1>10, <1>12, <1>13, <1>14, <1>15, <1>16, <1>17, <1>18, <1>19, <1>20 DEF KRest

-----------------------------------------------------------------------------
\* The owner c of mutex e gives it up: to the task nx, or to nobody when nx is NULL and e
\* is available again or, if it goes, deleted.  c has its own priority afterwards.
Releases(c, e, nx, goes) ==
  /\ c = OSTCBCur /\ TaskLevel /\ e \in Mutexes /\ Owner(e) = c /\ goes \in BOOLEAN
  /\ OSTCBPrio' = [OSTCBPrio EXCEPT ![c] = Base[c]]
  /\ OSTCBPrioTbl' = [OSTCBPrioTbl EXCEPT ![OSMutexPIP[e]] = IF goes THEN NULL ELSE RESERVED]
  /\ OSRdyTbl' = ((OSRdyTbl \ {OSMutexPIP[e]}) \cup {Base[c]}) \cup Released({nx} \ {NULL})
  /\ OS_EventTaskRdy(e, {nx} \ {NULL}, NULL, "MUTEX", "OK")
  /\ OSEventPtr' = [OSEventPtr EXCEPT ![e] = nx]
  /\ OSEventCnt' = [OSEventCnt EXCEPT ![e] = IF goes THEN 0 ELSE IF nx = NULL THEN Available ELSE Base[nx]]
  /\ OSEventType' = [OSEventType EXCEPT ![e] = IF goes THEN "UNUSED" ELSE "MUTEX"]
  /\ OSMutexPIP' = [OSMutexPIP EXCEPT ![e] = IF goes THEN NULL ELSE OSMutexPIP[e]]
  /\ inside' = [inside EXCEPT ![e] = {}]
  /\ nx = NULL => OSEventTbl[e] = {} /\ UNCHANGED calls
  /\ nx # NULL => /\ ~goes /\ nx \in Live /\ e \in WaitsIn(nx) /\ ThenSched
                  /\ \A p \in OSEventTbl[e] : OSTCBPrio[nx] <= p
  /\ UNCHANGED <<processor, queue, flag, owed, app>>

\* The owner that calls: its two priorities and who has them.
LEMMA OwnerCalls ==
  ASSUME KInv, "MUTEX" \in app, TaskLevel, NEW e \in Mutexes, Owner(e) = OSTCBCur
  PROVE  LET c == OSTCBCur
             pip == OSMutexPIP[e]
             own == Base[c]
         IN
         /\ c \in Live /\ c \in Tasks /\ c \in TCBs /\ c # NULL /\ inCall[c] = "none" /\ WaitsIn(c) = {}
         /\ c \notin toSched /\ OSTCBPrio[c] \in OSRdyTbl
         /\ pip \in Pip /\ pip \in Prios /\ own \in Prios /\ own \notin Pip /\ own \in Nat /\ pip \in Nat
         /\ own # Available /\ pip < own /\ own # pip /\ pip # IdlePrio /\ own # IdlePrio
         /\ OSEventCnt[e] = own /\ OSTCBPrioTbl[own] = c /\ OSTCBPrio[c] \in {own, pip}
         /\ Raised(e) <=> OSTCBPrio[c] = pip
         /\ OSTCBPrioTbl[pip] = IF OSTCBPrio[c] = pip THEN c ELSE RESERVED
         /\ \A f \in Mutexes : Owner(f) = c => f = e
<1> DEFINE c == OSTCBCur
           pip == OSMutexPIP[e]
<1>1. /\ c \in Live /\ c \in Tasks /\ c \in TCBs /\ c # NULL /\ inCall[c] = "none" /\ WaitsIn(c) = {}
      /\ c \notin toSched /\ OSTCBPrio[c] \in OSRdyTbl
  BY AtTaskLevel, KernelAssumption
<1>2. pip \in Pip /\ pip \in Prios /\ pip \in Nat /\ pip # IdlePrio
  BY MutexApp
<1>3. Base[c] \in Prios /\ Base[c] \notin Pip /\ Base[c] \in Nat /\ Base[c] # Available /\ pip < Base[c]
      /\ Base[c] # pip /\ Base[c] # IdlePrio
  BY <1>1, <1>2, MutexApp
<1>4. OSEventCnt[e] = Base[c] /\ OSTCBPrioTbl[Base[c]] = c /\ OSTCBPrio[c] \in {Base[c], pip}
  BY <1>1 DEF KInv, MutexesOwned
<1>5. Raised(e) <=> OSTCBPrio[c] = pip
  BY <1>1 DEF Raised, Owner
<1>6. OSTCBPrioTbl[pip] = IF OSTCBPrio[c] = pip THEN c ELSE RESERVED
  BY <1>5 DEF KInv, MutexesOwned
<1>7. \A f \in Mutexes : Owner(f) = c => f = e
  BY <1>1 DEF KInv, MutexesOwned
<1>8. QED
  BY <1>1, <1>2, <1>3, <1>4, <1>5, <1>6, <1>7

LEMMA ReleasesTables ==
  ASSUME KInv, "MUTEX" \in app, NEW c, NEW e, NEW nx, NEW goes, Releases(c, e, nx, goes)
  PROVE  Tables' /\ Live' = Live
<1> DEFINE pip == OSMutexPIP[e]
           own == Base[c]
           W == {nx} \ {NULL}
<1>1. /\ c = OSTCBCur /\ TaskLevel /\ e \in Mutexes /\ Owner(e) = c /\ e \in Events /\ OSEventType[e] = "MUTEX"
      /\ OSTCBPrio' = [OSTCBPrio EXCEPT ![c] = own]
      /\ OSTCBPrioTbl' = [OSTCBPrioTbl EXCEPT ![pip] = IF goes THEN NULL ELSE RESERVED]
      /\ OSRdyTbl' = ((OSRdyTbl \ {pip}) \cup {own}) \cup Released(W)
      /\ OS_EventTaskRdy(e, W, NULL, OSEventType[e], "OK")
      /\ OSEventType' = [OSEventType EXCEPT ![e] = IF goes THEN "UNUSED" ELSE "MUTEX"]
      /\ nx = NULL => OSEventTbl[e] = {}
      /\ nx # NULL => ~goes /\ nx \in Live /\ e \in WaitsIn(nx)
      /\ inCall' = inCall /\ UNCHANGED flag
  BY DEF Releases, calls, ThenSched, Mutexes
<1>2. /\ c \in Live /\ c \in Tasks /\ c \in TCBs /\ WaitsIn(c) = {} /\ OSTCBPrio[c] \in OSRdyTbl
      /\ pip \in Prios /\ own \in Prios /\ own # pip /\ pip # IdlePrio /\ own # IdlePrio
      /\ OSTCBPrioTbl[own] = c /\ OSTCBPrio[c] \in {own, pip}
      /\ OSTCBPrioTbl[pip] = IF OSTCBPrio[c] = pip THEN c ELSE RESERVED
  BY <1>1, OwnerCalls
<1>3. /\ OSTCBPrioTbl \in [Prios \cup {IdlePrio} -> TCBs \cup {NULL, RESERVED}]
      /\ OSTCBPrio \in [TCBs -> Prios \cup {IdlePrio}]
      /\ NULL \notin Prios \cup TCBs /\ RESERVED \notin TCBs \cup {NULL}
  BY KernelAssumption DEF KInv, TypeOK
<1> HIDE DEF pip, own
<1>4. TypesStay
  <2>1. goes => OSEventTbl'[e] = {}
    BY <1>1 DEF OS_EventTaskRdy
  <2>2. \A f \in Events : OSEventType'[f] = OSEventType[f] \/ OSEventTbl'[f] = {}
    BY <1>1, <2>1 DEF KInv, TypeOK
  <2>3. QED
    BY <1>1, <2>2 DEF TypesStay, flag
<1>5. W \in SUBSET Live /\ \A t \in W : e \in WaitsIn(t)
  BY <1>1
<1>6. /\ OSTCBPrioTbl'[own] = c /\ OSTCBPrioTbl'[pip] \notin TCBs
      /\ \A p \in (Prios \cup {IdlePrio}) \ {own, pip} : OSTCBPrioTbl'[p] = OSTCBPrioTbl[p]
  BY <1>1, <1>2, <1>3
<1>7. CASE OSTCBPrio[c] = pip
  <2>1. Lowers(c, pip, own)
    BY <1>1, <1>2, <1>6, <1>7 DEF Lowers
  <2>2. QED
    BY <1>1, <1>2, <1>4, <1>5, <1>7, <2>1, LowersAndWakes DEF KInv, flag
<1>8. CASE OSTCBPrio[c] # pip
  <2>1. OSTCBPrio[c] = own /\ OSTCBPrioTbl[pip] = RESERVED /\ OSTCBPrio' = OSTCBPrio
    BY <1>1, <1>2, <1>3, <1>8
  <2>2. pip \notin OSRdyTbl
    BY <1>3, <2>1 DEF KInv, Tables, ListsNameTasks, Present, Live, TCBs
  <2>3. OSRdyTbl' = OSRdyTbl \cup Released(W)
    BY <1>1, <1>2, <2>1, <2>2
  <2>4. NamesKept
    BY <1>2, <1>3, <1>6, <2>1 DEF NamesKept
  <2>5. CASE nx = NULL
    <3>1. OSRdyTbl' = OSRdyTbl /\ OSEventTbl[e] = {}
      BY <1>1, <2>3, <2>5 DEF Released
    <3>2. /\ \A t \in Live : /\ OSTCBStat'[t] = OSTCBStat[t] /\ OSTCBStatPend'[t] = OSTCBStatPend[t]
                             /\ OSTCBDly'[t] = OSTCBDly[t] /\ OSTCBEventPtr'[t] = OSTCBEventPtr[t]
                             /\ OSTCBEventMultiPtr'[t] = OSTCBEventMultiPtr[t]
          /\ \A f \in Events : OSEventTbl'[f] = OSEventTbl[f]
      BY <1>1, <2>5 DEF OS_EventTaskRdy, Live, TCBs
    <3>3. QED
      BY <1>1, <1>4, <2>4, <3>1, <3>2, TablesNamed, LiveNamed DEF KInv, flag
  <2>6. CASE nx # NULL
    <3>1. OSTCBPrioTbl' = OSTCBPrioTbl
      BY <1>1, <1>2, <1>3, <2>1, <2>6
    <3>2. QED
      BY <1>1, <1>4, <1>5, <2>1, <2>3, <3>1, WakesTasks DEF KInv, flag, Live
  <2>7. QED
    BY <2>5, <2>6
<1>9. QED
  BY <1>7, <1>8

\* Nobody is told anything.
LEMMA NobodyWoken ==
  ASSUME TypeOK, UNCHANGED <<tcb, OSEventTbl>>, NEW e, NEW msg, NEW stat, NEW pend
  PROVE  OS_EventTaskRdy(e, {}, msg, stat, pend)
<1>1. /\ OSTCBDly = [t \in TCBs |-> OSTCBDly[t]] /\ OSTCBMsg = [t \in TCBs |-> OSTCBMsg[t]]
      /\ OSTCBStat = [t \in TCBs |-> OSTCBStat[t]] /\ OSTCBStatPend = [t \in TCBs |-> OSTCBStatPend[t]]
      /\ OSTCBEventPtr = [t \in TCBs |-> OSTCBEventPtr[t]]
      /\ OSEventTbl = [f \in Events |-> OSEventTbl[f]]
  BY DEF TypeOK
<1>2. OSEventTbl = [f \in Events |-> OSEventTbl[f] \
       {OSTCBPrio[t] : t \in {w \in {} : f = e \/ f \in OSTCBEventMultiPtr[w]}}]
  BY <1>1
<1>3. QED
  BY <1>1, <1>2 DEF OS_EventTaskRdy, tcb

-----------------------------------------------------------------------------
LEMMA ReleasesKeep ==
  ASSUME KInv, "MUTEX" \in app, NEW c, NEW e, NEW nx, NEW goes, Releases(c, e, nx, goes)
  PROVE  KRest'
<1> DEFINE pip == OSMutexPIP[e]
           own == Base[c]
           W == {nx} \ {NULL}
<1>1. /\ c = OSTCBCur /\ TaskLevel /\ e \in Mutexes /\ Owner(e) = c /\ e \in Events /\ OSEventType[e] = "MUTEX"
      /\ goes \in BOOLEAN /\ OSEventPtr[e] = c
      /\ OSTCBPrio' = [OSTCBPrio EXCEPT ![c] = own]
      /\ OSTCBPrioTbl' = [OSTCBPrioTbl EXCEPT ![pip] = IF goes THEN NULL ELSE RESERVED]
      /\ OSRdyTbl' = ((OSRdyTbl \ {pip}) \cup {own}) \cup Released(W)
      /\ OSEventPtr' = [OSEventPtr EXCEPT ![e] = nx]
      /\ OSEventCnt' = [OSEventCnt EXCEPT ![e] = IF goes THEN 0 ELSE IF nx = NULL THEN Available ELSE Base[nx]]
      /\ OSEventType' = [OSEventType EXCEPT ![e] = IF goes THEN "UNUSED" ELSE "MUTEX"]
      /\ OSMutexPIP' = [OSMutexPIP EXCEPT ![e] = IF goes THEN NULL ELSE pip]
      /\ inside' = [inside EXCEPT ![e] = {}]
      /\ nx = NULL => OSEventTbl[e] = {} /\ UNCHANGED calls
      /\ nx # NULL => /\ ~goes /\ nx \in Live /\ e \in WaitsIn(nx) /\ ThenSched
                      /\ \A p \in OSEventTbl[e] : OSTCBPrio[nx] <= p
      /\ UNCHANGED <<processor, queue, flag, owed, app>>
  BY DEF Releases, Mutexes, Owner
<1>2. /\ OSTCBDly' = [t \in TCBs |-> IF t \in W THEN 0 ELSE OSTCBDly[t]]
      /\ OSTCBMsg' = [t \in TCBs |-> IF t \in W THEN NULL ELSE OSTCBMsg[t]]
      /\ OSTCBStat' = [t \in TCBs |-> IF t \in W THEN OSTCBStat[t] \ {"MUTEX"} ELSE OSTCBStat[t]]
      /\ OSTCBStatPend' = [t \in TCBs |-> IF t \in W THEN "OK" ELSE OSTCBStatPend[t]]
      /\ OSEventTbl' = [f \in Events |-> OSEventTbl[f] \
           {OSTCBPrio[t] : t \in {w \in W : f = e \/ f \in OSTCBEventMultiPtr[w]}}]
      /\ OSTCBEventPtr' = [t \in TCBs |-> IF t \in W /\ OSTCBEventMultiPtr[t] # {}
                                          THEN e ELSE OSTCBEventPtr[t]]
      /\ OSTCBEventMultiPtr' = OSTCBEventMultiPtr
  BY DEF Releases, OS_EventTaskRdy
<1>3. /\ c \in Live /\ c \in Tasks /\ c \in TCBs /\ c # NULL /\ inCall[c] = "none" /\ WaitsIn(c) = {}
      /\ c \notin toSched /\ OSTCBPrio[c] \in OSRdyTbl
      /\ pip \in Pip /\ pip \in Prios /\ own \in Prios /\ own \notin Pip /\ own \in Nat /\ pip \in Nat
      /\ own # Available /\ pip < own /\ own # pip /\ pip # IdlePrio /\ own # IdlePrio
      /\ OSEventCnt[e] = own /\ OSTCBPrioTbl[own] = c /\ OSTCBPrio[c] \in {own, pip}
      /\ OSTCBPrioTbl[pip] = (IF OSTCBPrio[c] = pip THEN c ELSE RESERVED)
      /\ \A f \in Mutexes : Owner(f) = c => f = e
  BY <1>1, OwnerCalls
<1>4. /\ OSTCBPrioTbl \in [Prios \cup {IdlePrio} -> TCBs \cup {NULL, RESERVED}]
      /\ OSTCBPrio \in [TCBs -> Prios \cup {IdlePrio}]
      /\ NULL \notin Prios \cup TCBs /\ RESERVED \notin TCBs \cup {NULL} /\ Idle \notin Tasks
  BY KernelAssumption DEF KInv, TypeOK
<1>5. Tables' /\ Live' = Live /\ Present' = Present
  BY ReleasesTables DEF Present
<1>6. nx # NULL => /\ nx \in Live /\ nx \in Tasks /\ nx \in TCBs /\ nx # c
                   /\ inCall[nx] = "MUTEX" /\ OSTCBEventPtr[nx] = e /\ OSTCBEventMultiPtr[nx] = {}
                   /\ WaitsIn(nx) = {e} /\ OSTCBPrio[nx] = Base[nx] /\ \A f \in Mutexes : Owner(f) # nx
  <2>1. nx # NULL => nx \in Live /\ nx \in Tasks /\ nx \in TCBs /\ nx # c
    BY <1>1, <1>3 DEF Live, TCBs
  <2>2. nx # NULL => /\ inCall[nx] = "MUTEX" /\ OSTCBEventPtr[nx] = e /\ OSTCBEventMultiPtr[nx] = {}
                     /\ WaitsIn(nx) = {e} /\ OSTCBPrio[nx] = Base[nx]
                     /\ \A f \in Mutexes : Owner(f) = nx => f = e
    BY <1>1, <2>1, MutexWaiter
  <2>3. QED
    BY <1>1, <2>1, <2>2
<1> HIDE DEF pip, own
<1>7. /\ OSTCBPrio'[c] = own /\ \A t \in TCBs \ {c} : OSTCBPrio'[t] = OSTCBPrio[t]
      /\ OSTCBPrioTbl'[pip] = (IF goes THEN NULL ELSE RESERVED) /\ OSTCBPrioTbl'[pip] \notin TCBs
      /\ \A p \in (Prios \cup {IdlePrio}) \ {pip} : OSTCBPrioTbl'[p] = OSTCBPrioTbl[p]
      /\ OSTCBPrio' \in [TCBs -> Prios \cup {IdlePrio}]
      /\ OSTCBPrioTbl' \in [Prios \cup {IdlePrio} -> TCBs \cup {NULL, RESERVED}]
  BY <1>1, <1>3, <1>4
<1>8. /\ inCall' = inCall /\ creating' = creating /\ toSched \subseteq toSched' /\ toSched' \subseteq Tasks
      /\ nx # NULL => c \in toSched'
      /\ nx = NULL => toSched' = toSched
  <2>1. toSched \subseteq Tasks
    BY DEF KInv, Processor
  <2>2. nx # NULL => toSched' = toSched \cup {c} /\ inCall' = inCall /\ creating' = creating
    BY <1>1 DEF ThenSched, TaskLevel
  <2>3. nx = NULL => toSched' = toSched /\ inCall' = inCall /\ creating' = creating
    BY <1>1 DEF calls
  <2>4. QED
    BY <1>3, <2>1, <2>2, <2>3
<1>9. /\ OSEventPtr'[e] = nx /\ OSEventType'[e] = (IF goes THEN "UNUSED" ELSE "MUTEX")
      /\ OSEventCnt'[e] = (IF goes THEN 0 ELSE IF nx = NULL THEN Available ELSE Base[nx])
      /\ OSMutexPIP'[e] = (IF goes THEN NULL ELSE pip) /\ inside'[e] = {}
      /\ \A f \in Events \ {e} : /\ OSEventType'[f] = OSEventType[f] /\ OSMutexPIP'[f] = OSMutexPIP[f]
                                 /\ OSEventCnt'[f] = OSEventCnt[f] /\ OSEventPtr'[f] = OSEventPtr[f]
                                 /\ inside'[f] = inside[f]
  BY <1>1 DEF KInv, TypeOK
<1>10. EventsTyped' /\ ClientTyped'
  <2>1. nx # NULL => Base[nx] \in Nat
    BY <1>6, MutexApp
  <2>2. OSEventType' \in [Events -> EventTypes] /\ OSEventCnt' \in [Events -> Nat]
    BY <1>1, <2>1 DEF EventTypes, Available, KInv, TypeOK
  <2>3. OSEventPtr' \in [Events -> Tasks \cup Messages \cup {NULL}] /\ OSMutexPIP' \in [Events -> Pip \cup {NULL}]
    BY <1>1, <1>3, <1>6 DEF KInv, TypeOK
  <2>4. inside' \in [Events -> SUBSET Tasks]
    BY <1>1 DEF KInv, TypeOK
  <2>5. QED
    BY <1>1, <2>2, <2>3, <2>4, KInvParts DEF EventsTyped, ClientTyped
<1>11. TasksTyped'
  <2>1. OSRdyTbl' \subseteq Prios \cup {IdlePrio} /\ IdlePrio \in OSRdyTbl'
    <3>1. Released(W) \subseteq Prios \cup {IdlePrio}
      BY <1>4, <1>6 DEF Released
    <3>2. QED
      BY <1>1, <1>3, <3>1 DEF KInv, TypeOK
  <2>2. /\ OSTCBStat' \in [TCBs -> SUBSET StatBits] /\ OSTCBStatPend' \in [TCBs -> PendStats]
        /\ OSTCBDly' \in [TCBs -> Nat] /\ OSTCBMsg' \in [TCBs -> Messages \cup {NULL}]
    BY <1>2 DEF KInv, TypeOK, PendStats
  <2>3. /\ OSTCBEventPtr' \in [TCBs -> Events \cup {NULL}]
        /\ OSTCBEventMultiPtr' \in [TCBs -> SUBSET Events]
    BY <1>1, <1>2 DEF KInv, TypeOK
  <2>4. OSEventTbl' \in [Events -> SUBSET Prios]
    BY <1>2 DEF KInv, TypeOK
  <2>5. QED
    BY <1>7, <2>1, <2>2, <2>3, <2>4 DEF TasksTyped
<1>12. ProcessorTyped' /\ FlagsTyped'
  BY <1>1, <1>8, KInvParts DEF ProcessorTyped, FlagsTyped, processor, flag, TCBs
<1>13. \A t \in TCBs : /\ t = nx => OSTCBDly'[t] = 0 /\ OSTCBStatPend'[t] = "OK"
                       /\ t # nx => /\ OSTCBDly'[t] = OSTCBDly[t] /\ OSTCBStatPend'[t] = OSTCBStatPend[t]
                                    /\ OSTCBStat'[t] = OSTCBStat[t]
                       /\ OSTCBStat'[t] \subseteq OSTCBStat[t]
                       /\ OSTCBEventPtr'[t] = OSTCBEventPtr[t]
  BY <1>2, <1>4, <1>6
<1>14. UsedOnly'
  <2>1. \A f \in Events : OSEventType'[f] # "UNUSED" => f \in app /\ OSEventType'[f] \in app
    BY <1>1, <1>9 DEF KInv, UsedOnly
  <2>2. \A t \in TCBs : /\ inCall[t] = "none" /\ OSTCBDly'[t] # 0 => "DELAY" \in app
                        /\ "SUSPEND" \in OSTCBStat'[t] => "SUSPEND" \in app
    BY <1>13 DEF KInv, UsedOnly
  <2>3. QED
    BY <1>1, <1>8, <2>1, <2>2 DEF KInv, UsedOnly, processor
<1>15. Mutexes' = (IF goes THEN Mutexes \ {e} ELSE Mutexes)
  BY <1>1, <1>9 DEF Mutexes
<1>16. /\ ~goes => Owner(e)' = nx
       /\ \A f \in Mutexes \ {e} : /\ f \in Mutexes' /\ f \in Events /\ Owner(f)' = Owner(f)
                                   /\ OSMutexPIP'[f] = OSMutexPIP[f] /\ OSMutexPIP[f] # pip
                                   /\ OSMutexPIP[f] \in Prios /\ OSEventCnt'[f] = OSEventCnt[f]
                                   /\ Owner(f) # c /\ (Owner(f) # nx \/ nx = NULL)
       /\ \A f \in Mutexes' : f \in Mutexes
       /\ e \in Mutexes' => ~goes
  <2>1. \A f \in Mutexes \ {e} : OSMutexPIP[f] # pip /\ OSMutexPIP[f] \in Prios
    BY <1>1, MutexApp DEF KInv, MutexesOwned, pip
  <2>2. \A f \in Mutexes \ {e} : /\ f \in Mutexes' /\ f \in Events /\ Owner(f)' = Owner(f)
                                 /\ OSMutexPIP'[f] = OSMutexPIP[f] /\ OSEventCnt'[f] = OSEventCnt[f]
    BY <1>9, <1>15 DEF Mutexes, Owner
  <2>3. QED
    BY <1>3, <1>6, <1>9, <1>15, <2>1, <2>2 DEF Owner
<1>17. \A f \in Mutexes \ {e} : Raised(f)' <=> Raised(f)
  <2> SUFFICES ASSUME NEW f \in Mutexes \ {e} PROVE Raised(f)' <=> Raised(f)
    OBVIOUS
  <2>1. OSEventPtr'[f] = OSEventPtr[f] /\ OSMutexPIP'[f] = OSMutexPIP[f] /\ OSEventPtr[f] # c
    BY <1>3, <1>16 DEF Owner
  <2>2. OSEventPtr[f] # NULL => OSEventPtr[f] \in TCBs
    BY DEF KInv, MutexesOwned, Owner, Live, TCBs
  <2>3. QED
    BY <1>7, <2>1, <2>2 DEF Raised
<1>18. \A f \in Mutexes : Owner(f) # NULL => Owner(f) \in Live /\ Owner(f) \in TCBs
  BY DEF KInv, MutexesOwned, Live, TCBs
<1>19. MutexesOwned'
  <2>1. \A f \in Events : OSMutexPIP'[f] # NULL <=> f \in Mutexes'
    BY <1>1, <1>3, <1>4, <1>9, <1>15 DEF KInv, MutexesOwned
  <2>2. \A f, g \in Mutexes' : OSMutexPIP'[f] = OSMutexPIP'[g] => f = g
    BY <1>9, <1>15, <1>16 DEF KInv, MutexesOwned
  <2>3. \A f \in Mutexes' : IF OSEventCnt'[f] = Available THEN Owner(f)' = NULL ELSE Owner(f)' \in Tasks
    <3>1. ~goes => IF OSEventCnt'[e] = Available THEN Owner(e)' = NULL ELSE Owner(e)' \in Tasks
      BY <1>6, <1>9, <1>16, MutexApp
    <3>2. QED
      BY <1>16, <3>1 DEF KInv, MutexesOwned
  <2>4. \A f \in Mutexes' : Owner(f)' # NULL =>
          /\ Owner(f)' \in Live
          /\ OSEventCnt'[f] = Base[Owner(f)'] /\ OSTCBPrioTbl'[OSEventCnt'[f]] = Owner(f)'
          /\ OSTCBPrio'[Owner(f)'] \in {OSEventCnt'[f], OSMutexPIP'[f]}
    <3> SUFFICES ASSUME NEW f \in Mutexes', Owner(f)' # NULL
                 PROVE  /\ Owner(f)' \in Live
                        /\ OSEventCnt'[f] = Base[Owner(f)'] /\ OSTCBPrioTbl'[OSEventCnt'[f]] = Owner(f)'
                        /\ OSTCBPrio'[Owner(f)'] \in {OSEventCnt'[f], OSMutexPIP'[f]}
      OBVIOUS
    <3>1. CASE f = e
      <4>1. ~goes /\ Owner(e)' = nx /\ nx # NULL
        BY <1>16, <3>1
      <4>2. OSEventCnt'[e] = Base[nx] /\ OSTCBPrio'[nx] = Base[nx] /\ nx \in Live
        BY <1>6, <1>7, <1>9, <4>1
      <4>3. OSTCBPrioTbl[Base[nx]] = nx /\ Base[nx] \in Prios \ {pip}
        BY <1>3, <1>6, <4>1, MutexApp DEF Live
      <4>4. QED
        BY <1>7, <3>1, <4>1, <4>2, <4>3
    <3>2. CASE f # e
      <4>1. Owner(f)' = Owner(f) /\ f \in Mutexes /\ OSEventCnt'[f] = OSEventCnt[f] /\ Owner(f) # c
            /\ OSMutexPIP'[f] = OSMutexPIP[f]
        BY <1>3, <1>16, <3>2
      <4>2. /\ Owner(f) \in Live /\ Owner(f) \in TCBs /\ Owner(f) \in Tasks
            /\ OSEventCnt[f] = Base[Owner(f)] /\ OSTCBPrioTbl[OSEventCnt[f]] = Owner(f)
            /\ OSTCBPrio[Owner(f)] \in {OSEventCnt[f], OSMutexPIP[f]}
        BY <1>18, <4>1 DEF KInv, MutexesOwned, Live
      <4>3. OSEventCnt[f] \in Prios \ {pip}
        BY <1>3, <4>2, MutexApp
      <4>4. QED
        BY <1>7, <4>1, <4>2, <4>3
    <3>3. QED
      BY <3>1, <3>2
  <2>5. \A f \in Mutexes' : OSTCBPrioTbl'[OSMutexPIP'[f]] = IF Raised(f)' THEN Owner(f)' ELSE RESERVED
    <3>1. ~goes => ~Raised(e)'
      <4>1. nx # NULL => OSTCBPrio'[nx] # pip
        BY <1>3, <1>6, <1>7, MutexApp
      <4>2. QED
        BY <1>9, <4>1 DEF Raised
    <3>2. ~goes => OSTCBPrioTbl'[OSMutexPIP'[e]] = RESERVED
      BY <1>7, <1>9
    <3>3. \A f \in Mutexes \ {e} : OSTCBPrioTbl'[OSMutexPIP'[f]] = IF Raised(f)' THEN Owner(f)' ELSE RESERVED
      BY <1>7, <1>16, <1>17 DEF KInv, MutexesOwned
    <3>4. QED
      BY <1>16, <3>1, <3>2, <3>3
  <2>6. \A f, g \in Mutexes' : Owner(f)' = Owner(g)' /\ Owner(f)' # NULL => f = g
    BY <1>16 DEF KInv, MutexesOwned
  <2>7. \A t \in Tasks : OSTCBPrio'[t] = Base[t]
                         \/ \E f \in Mutexes' : Owner(f)' = t /\ OSTCBPrio'[t] = OSMutexPIP'[f]
    <3> TAKE t \in Tasks
    <3>1. CASE t = c
      BY <1>7, <3>1 DEF own
    <3>2. CASE t # c
      <4>1. OSTCBPrio'[t] = OSTCBPrio[t]
        BY <1>7, <3>2 DEF TCBs
      <4>2. \A f \in Mutexes : Owner(f) = t => f # e
        BY <1>1, <3>2
      <4>3. QED
        BY <1>1, <1>16, <4>1, <4>2 DEF KInv, MutexesOwned
    <3>3. QED
      BY <3>1, <3>2
  <2>8. QED
    BY <1>5, <2>1, <2>2, <2>3, <2>4, <2>5, <2>6, <2>7 DEF MutexesOwned
<1>20. \A f \in Events : OSEventTbl'[f] \subseteq OSEventTbl[f]
  BY <1>2
<1>21. /\ \A t \in Live : WaitsIn(t)' \subseteq WaitsIn(t)
       /\ \A t \in Live : t # nx => WaitsIn(t)' = WaitsIn(t)
       /\ nx # NULL => WaitsIn(nx)' = {}
  <2>1. WaitsIn(c)' = {}
    <3>1. \A f \in Events : own \notin OSEventTbl[f]
      <4>1. \A f \in Events : \A p \in OSEventTbl[f] : OSTCBPrio[OSTCBPrioTbl[p]] = p
        BY DEF KInv, Tables, ListsNameTasks
      <4>2. QED
        BY <1>3, <4>1 DEF WaitsIn
    <3>2. QED
      BY <1>7, <1>20, <3>1 DEF WaitsIn
  <2>2. ASSUME NEW t \in Live, t # c, t # nx PROVE WaitsIn(t)' = WaitsIn(t)
    <3>1. OSTCBPrio'[t] = OSTCBPrio[t]
      BY <1>7, <2>2 DEF Live, TCBs
    <3>2. nx # NULL => OSTCBPrio[t] # OSTCBPrio[nx]
      BY <1>6, <2>2, PriosDiffer
    <3>3. \A f \in Events : OSTCBPrio[t] \in OSEventTbl'[f] <=> OSTCBPrio[t] \in OSEventTbl[f]
      BY <1>2, <3>2
    <3>4. QED
      BY <3>1, <3>3 DEF WaitsIn
  <2>3. nx # NULL => WaitsIn(nx)' = {}
    <3>1. nx # NULL => OSTCBPrio'[nx] = OSTCBPrio[nx] /\ OSTCBPrio[nx] \notin OSEventTbl'[e]
      BY <1>1, <1>2, <1>6, <1>7
    <3>2. QED
      BY <1>6, <1>20, <3>1 DEF WaitsIn
  <2>4. QED
    BY <1>3, <1>4, <2>1, <2>2, <2>3 DEF Live, TCBs
<1>22. OwnersWait'
  <2>1. \A f \in Mutexes' : Owner(f)' # NULL /\ inCall[Owner(f)'] # "none" =>
          OSTCBDly'[Owner(f)'] = 0 /\ OSTCBStatPend'[Owner(f)'] # "TO"
    <3> SUFFICES ASSUME NEW f \in Mutexes', Owner(f)' # NULL, inCall[Owner(f)'] # "none"
                 PROVE  OSTCBDly'[Owner(f)'] = 0 /\ OSTCBStatPend'[Owner(f)'] # "TO"
      OBVIOUS
    <3>1. CASE f = e
      BY <1>6, <1>13, <1>16, <3>1
    <3>2. CASE f # e
      <4>1. Owner(f)' = Owner(f) /\ f \in Mutexes /\ Owner(f) \in TCBs
        BY <1>16, <1>18, <3>2
      <4>2. QED
        BY <1>13, <4>1 DEF KInv, OwnersWait
    <3>3. QED
      BY <3>1, <3>2
  <2>2. ASSUME NEW t \in Live, inCall[t] = "MUTEX", WaitsIn(t)' = {}, OSTCBStatPend'[t] = "OK"
        PROVE  OSTCBEventPtr'[t] \in Mutexes' /\ OSEventPtr'[OSTCBEventPtr'[t]] = t
    <3>1. t \in TCBs /\ t # c /\ OSTCBEventPtr'[t] = OSTCBEventPtr[t]
      BY <1>3, <1>13, <2>2 DEF Live, TCBs
    <3>2. CASE t = nx
      <4>1. nx # NULL
        BY <1>4, <3>1, <3>2
      <4>2. QED
        BY <1>1, <1>6, <1>9, <1>15, <3>1, <3>2, <4>1
    <3>3. CASE t # nx
      <4>1. OSTCBEventPtr[t] \in Mutexes /\ Owner(OSTCBEventPtr[t]) = t
        BY <1>13, <1>21, <2>2, <3>1, <3>3 DEF KInv, OwnersWait
      <4>2. OSTCBEventPtr[t] # e
        BY <1>1, <3>1, <4>1
      <4>3. QED
        BY <1>16, <3>1, <4>1, <4>2 DEF Owner
    <3>4. QED
      BY <3>2, <3>3
  <2>3. ASSUME NEW f \in Mutexes', NEW g \in Mutexes', NEW t \in Live, f \in WaitsIn(t)', Owner(g)' = t
        PROVE  f = g
    <3>1. f \in WaitsIn(t) /\ f \in Mutexes
      BY <1>16, <1>21, <2>3
    <3>2. CASE g = e
      <4>1. t = nx /\ nx # NULL
        BY <1>4, <1>16, <2>3, <3>2 DEF Live, TCBs
      <4>2. QED
        BY <1>21, <2>3, <4>1
    <3>3. CASE g # e
      BY <1>16, <2>3, <3>1, <3>3 DEF KInv, OwnersWait
    <3>4. QED
      BY <3>2, <3>3
  <2>4. \A f \in Events \ Mutexes' : inside'[f] = {}
    BY <1>9, <1>16 DEF KInv, OwnersWait
  <2>5. QED
    BY <1>5, <1>8, <2>1, <2>2, <2>3, <2>4 DEF OwnersWait, Owner
<1>23. Names'
  <2>1. OSTCBPrio'[Idle] = IdlePrio /\ OSTCBPrioTbl'[IdlePrio] = Idle
    BY <1>3, <1>4, <1>7 DEF KInv, Names, TCBs
  <2>2. \A t \in Tasks : OSTCBPrio'[t] \in Prios
    BY <1>3, <1>7 DEF KInv, Names, TCBs
  <2>3. \A p \in Prios : OSTCBPrioTbl'[p] \in TCBs => OSTCBPrioTbl'[p] = OSTCBPrioTbl[p]
    BY <1>7
  <2>4. QED
    BY <1>5, <2>1, <2>2, <2>3 DEF KInv, Names, TCBs
<1>24. Creations'
  BY <1>5, <1>8, MutexApp DEF KInv, Creations
<1>25. PrioTableAgrees'
  <2>1. ASSUME NEW p \in Prios, OSTCBPrioTbl'[p] \in TCBs
        PROVE  \/ OSTCBPrio'[OSTCBPrioTbl'[p]] = p
               \/ \E f \in Events : OSEventType'[f] = "MUTEX" /\ OSEventPtr'[f] = OSTCBPrioTbl'[p]
                    /\ OSEventCnt'[f] = p /\ OSTCBPrio'[OSTCBPrioTbl'[p]] = OSMutexPIP'[f]
    <3>1. p # pip /\ OSTCBPrioTbl'[p] = OSTCBPrioTbl[p]
      BY <1>7, <2>1
    <3>2. PICK t : t = OSTCBPrioTbl[p]
      OBVIOUS
    <3>3. \/ OSTCBPrio[t] = p
          \/ \E f \in Events : OSEventType[f] = "MUTEX" /\ OSEventPtr[f] = t
               /\ OSEventCnt[f] = p /\ OSTCBPrio[t] = OSMutexPIP[f]
      BY <2>1, <3>1, <3>2 DEF KInv, PrioTableAgrees
    <3>4. CASE t = c
      <4>1. OSTCBPrio[c] = p => p = own
        BY <1>3, <3>1
      <4>2. \A f \in Events : OSEventType[f] = "MUTEX" /\ OSEventPtr[f] = c => f = e
        BY <1>3 DEF Mutexes, Owner
      <4>3. QED
        BY <1>3, <1>7, <3>1, <3>2, <3>3, <3>4, <4>1, <4>2
    <3>5. CASE t # c
      <4>1. OSTCBPrio'[t] = OSTCBPrio[t]
        BY <1>7, <2>1, <3>1, <3>2, <3>5
      <4>2. \A f \in Events : OSEventPtr[f] = t => f # e
        BY <1>1, <3>5
      <4>3. QED
        BY <1>9, <3>1, <3>2, <3>3, <4>1, <4>2
    <3>6. QED
      BY <3>4, <3>5
  <2>2. \A p \in Prios : OSTCBPrioTbl'[p] = RESERVED =>
          (\E u \in Tasks : creating[u] = p) \/ \E f \in Events : OSMutexPIP'[f] = p
    <3> SUFFICES ASSUME NEW p \in Prios, OSTCBPrioTbl'[p] = RESERVED
                 PROVE  (\E u \in Tasks : creating[u] = p) \/ \E f \in Events : OSMutexPIP'[f] = p
      OBVIOUS
    <3>1. CASE p = pip
      BY <1>1, <1>4, <1>7, <1>9, <3>1
    <3>2. CASE p # pip
      BY <1>7, <1>9, <3>2 DEF KInv, PrioTableAgrees, pip
    <3>3. QED
      BY <3>1, <3>2
  <2>3. QED
    BY <1>8, <2>1, <2>2 DEF PrioTableAgrees
<1>26. NothingToTake'
  <2>1. \A f \in Events \ {e} : Filled(f)' <=> Filled(f)
    BY <1>1, <1>9 DEF Filled, queue
  <2>2. Filled(e)' => OSEventTbl[e] = {}
    <3>1. nx # NULL => OSEventCnt'[e] # Available
      BY <1>1, <1>6, <1>9, MutexApp
    <3>2. QED
      BY <1>1, <1>9, <3>1 DEF Filled
  <2>3. QED
    BY <1>1, <1>20, <2>1, <2>2, KInvParts DEF NothingToTake, flag, Satisfied, FlagsRdy
<1>27. OwnerIsUrgent'
  <2>1. ASSUME NEW f \in Events, OSEventType'[f] = "MUTEX", OSEventPtr'[f] # NULL, NEW p \in OSEventTbl'[f]
        PROVE  OSTCBPrio'[OSEventPtr'[f]] <= p
    <3>1. p \in OSEventTbl[f]
      BY <1>20, <2>1
    <3>2. CASE f = e
      BY <1>1, <1>6, <1>7, <1>9, <2>1, <3>1, <3>2
    <3>3. CASE f # e
      <4>1. f \in Mutexes /\ OSEventPtr'[f] = OSEventPtr[f] /\ OSEventType[f] = "MUTEX"
        BY <1>9, <2>1, <3>3 DEF Mutexes
      <4>2. OSEventPtr[f] # c /\ OSEventPtr[f] \in TCBs
        BY <1>3, <1>18, <2>1, <3>3, <4>1 DEF Owner
      <4>3. QED
        BY <1>7, <2>1, <3>1, <4>1, <4>2 DEF KInv, OwnerIsUrgent
    <3>4. QED
      BY <3>2, <3>3
  <2>2. QED
    BY <2>1 DEF OwnerIsUrgent
<1>28. MutualExclusion'
  BY <1>9 DEF KInv, MutualExclusion
<1>29. Processor'
  <2>1. OSTCBCur' = c /\ OSPrioCur' = OSPrioCur /\ OSLockNesting' = OSLockNesting /\ OSIntNesting' = OSIntNesting
        /\ owed' = owed /\ app' = app
    BY <1>1 DEF processor
  <2>2. OSTCBPrioTbl'[OSPrioCur] \in Present /\ OSTCBPrio'[OSTCBPrioTbl'[OSPrioCur]] = OSPrioCur
          => OSTCBPrioTbl'[OSPrioCur] = c
    <3> SUFFICES ASSUME OSTCBPrioTbl'[OSPrioCur] \in Present,
                        OSTCBPrio'[OSTCBPrioTbl'[OSPrioCur]] = OSPrioCur, OSTCBPrioTbl'[OSPrioCur] # c
                 PROVE  FALSE
      OBVIOUS
    <3>1. OSPrioCur \in Prios \cup {IdlePrio} /\ Present \subseteq TCBs
      BY DEF KInv, TypeOK, Present, Live, TCBs
    <3>2. OSTCBPrioTbl'[OSPrioCur] = OSTCBPrioTbl[OSPrioCur]
      BY <1>7, <3>1
    <3>3. OSTCBPrio[OSTCBPrioTbl[OSPrioCur]] = OSPrioCur
      BY <1>7, <3>1, <3>2
    <3>4. QED
      BY <1>1, <3>2, <3>3 DEF KInv, Processor
  <2>3. OSPrioCur \in Pip => Lowered'
    <3>1. OSPrioCur \in Pip => OSPrioCur < own
      BY <1>3, MutexApp DEF own
    <3>2. QED
      BY <1>1, <1>7, <2>1, <3>1 DEF Lowered, Demoted
  <2>4. OSPrioCur \notin Pip => ~Lowered /\ OSPrioCur = OSTCBPrio[c] /\ OSTCBPrio[c] = own
    <3>1. app \cap {"CHANGE", "TASKS"} = {}
      BY MutexApp
    <3>2. QED
      BY <1>1, <1>3, <3>1 DEF KInv, Processor, Lowered, Demoted
  <2>5. OSPrioCur = OSTCBPrio'[c] \/ Lowered'
    BY <1>7, <2>3, <2>4
  <2>6. OSTCBPrio'[c] \in OSRdyTbl'
    BY <1>1, <1>7
  <2>7. Switches' => nx = NULL /\ Switches
    BY <1>1, <1>8, <2>1 DEF Switches
  <2>8. Switches' /\ Lowered' =>
          \A f \in Mutexes' : OSMutexPIP'[f] = OSPrioCur => Owner(f)' \in {NULL, c}
    <3> SUFFICES ASSUME Switches', NEW f \in Mutexes', OSMutexPIP'[f] = OSPrioCur
                 PROVE  Owner(f)' \in {NULL, c}
      OBVIOUS
    <3>1. CASE f = e
      BY <1>16, <2>7, <3>1
    <3>2. CASE f # e
      <4>1. f \in Mutexes /\ OSMutexPIP[f] = OSPrioCur /\ OSMutexPIP[f] # pip /\ Owner(f)' = Owner(f)
        BY <1>16, <3>2
      <4>2. OSPrioCur \in Pip /\ OSPrioCur # OSTCBPrio[c]
        BY <1>3, <4>1, MutexApp
      <4>3. Lowered
        BY <1>1, <4>2, MutexApp DEF KInv, Processor
      <4>4. QED
        BY <1>1, <2>7, <4>1, <4>3 DEF KInv, Processor
    <3>3. QED
      BY <3>1, <3>2
  <2>9. Switches' /\ ~owed => Lowered' \/ \A q \in OSRdyTbl' : OSTCBPrio'[c] <= q
    <3> SUFFICES ASSUME Switches', ~owed, OSPrioCur \notin Pip
                 PROVE  \A q \in OSRdyTbl' : OSTCBPrio'[c] <= q
      BY <2>3
    <3>1. Released(W) = {}
      BY <2>7 DEF Released
    <3>2. \A q \in OSRdyTbl : OSTCBPrio[c] <= q
      BY <1>1, <2>4, <2>7 DEF KInv, Processor
    <3>3. OSRdyTbl' \subseteq OSRdyTbl
      BY <1>1, <1>3, <2>4, <3>1
    <3>4. QED
      BY <1>7, <2>4, <3>2, <3>3
  <2>10. c \in Present' /\ (OSLockNesting > 0 => inCall'[c] = "none")
    BY <1>3, <1>5, <1>8 DEF Present
  <2>11. QED
    BY <1>5, <1>8, <2>1, <2>2, <2>5, <2>6, <2>8, <2>9, <2>10 DEF Processor
<1>30. QED
  BY <1>5, <1>10, <1>11, <1>12, <1>14, <1>19, <1>22, <1>23, <1>24, <1>25, <1>26, <1>27, <1>28, <1>29 DEF KRest

-----------------------------------------------------------------------------
\* The running task c waits for mutex e and lends its urgency to the owner w.
Lends(c, w, e, timeout) ==
  LET pip == OSMutexPIP[e]
      old == OSTCBPrio[w]
  IN
  /\ c = OSTCBCur /\ TaskLevel /\ OSLockNesting = 0 /\ e \in Mutexes /\ w = OSEventPtr[e]
  /\ Owned(c) \subseteq {e} /\ timeout \in Nat /\ OSEventCnt[e] # Available /\ Inherits(e)
  /\ OSTCBPrio' = [OSTCBPrio EXCEPT ![w] = pip]
  /\ OSTCBPrioTbl' = [OSTCBPrioTbl EXCEPT ![pip] = w]
  /\ OSRdyTbl' = (IF old \in OSRdyTbl THEN (OSRdyTbl \ {old}) \cup {pip} ELSE OSRdyTbl) \ {OSTCBPrio[c]}
  /\ Wait(e, IF old \notin OSRdyTbl /\ OSTCBEventPtr[w] # NULL
             THEN [OSEventTbl EXCEPT ![OSTCBEventPtr[w]] = (@ \ {old}) \cup {pip}]
             ELSE OSEventTbl, "MUTEX", timeout)
  /\ UNCHANGED <<processor, ecb, queue, flag, client>>

\* The lender and the owner: neither has been raised.
LEMMA LenderAndOwner ==
  ASSUME KInv, "MUTEX" \in app, NEW c, NEW w, NEW e, NEW timeout, Lends(c, w, e, timeout)
  PROVE  /\ c \in Live /\ c \in Tasks /\ c \in TCBs /\ c # NULL /\ inCall[c] = "none" /\ WaitsIn(c) = {}
         /\ c \notin toSched /\ Switches /\ c # w
         /\ w \in Live /\ w \in Tasks /\ w \in TCBs /\ Owner(e) = w
         /\ OSMutexPIP[e] \in Pip /\ OSMutexPIP[e] \in Prios /\ OSMutexPIP[e] # IdlePrio
         /\ OSTCBPrio[c] = Base[c] /\ OSTCBPrio[w] = Base[w] /\ OSEventCnt[e] = Base[w]
         /\ Base[c] \notin Pip /\ Base[w] \notin Pip /\ Base[w] \in Prios /\ Base[c] \in Prios
         /\ OSMutexPIP[e] \in Nat /\ Base[w] \in Nat /\ Base[c] \in Nat
         /\ OSMutexPIP[e] < Base[c] /\ OSMutexPIP[e] < Base[w]
         /\ OSTCBPrioTbl[Base[w]] = w /\ OSTCBPrioTbl[OSMutexPIP[e]] = RESERVED
         /\ \A f \in Mutexes : Owner(f) # c /\ (Owner(f) = w => f = e)
<1> DEFINE pip == OSMutexPIP[e]
<1>1. /\ c = OSTCBCur /\ TaskLevel /\ OSLockNesting = 0 /\ e \in Mutexes /\ w = OSEventPtr[e]
      /\ Owned(c) \subseteq {e} /\ OSEventCnt[e] # Available /\ OSTCBPrio[w] > pip /\ OSEventCnt[e] > OSTCBPrio[c]
  BY DEF Lends, Inherits
<1>2. /\ c \in Live /\ c \in Tasks /\ c \in TCBs /\ c # NULL /\ inCall[c] = "none" /\ WaitsIn(c) = {}
      /\ c \notin toSched /\ Switches
  BY <1>1, AtTaskLevel, KernelAssumption
<1>3. pip \in Pip /\ pip \in Prios /\ pip # IdlePrio /\ pip \in Nat
  BY <1>1, MutexApp
<1>4. w # NULL /\ Owner(e) = w /\ w \in Live /\ w \in Tasks /\ w \in TCBs
  <2>1. Owner(e) = w /\ w \in Tasks
    BY <1>1 DEF KInv, MutexesOwned, Owner
  <2>2. w # NULL /\ w \in TCBs
    BY <2>1, KernelAssumption DEF TCBs
  <2>3. QED
    BY <1>1, <2>1, <2>2 DEF KInv, MutexesOwned
<1>5. OSEventCnt[e] = Base[w] /\ OSTCBPrioTbl[Base[w]] = w /\ OSTCBPrio[w] \in {Base[w], pip}
      /\ \A f \in Mutexes : Owner(f) = w => f = e
  BY <1>1, <1>4 DEF KInv, MutexesOwned
<1>6. /\ Base[c] \notin Pip /\ Base[w] \notin Pip /\ Base[w] \in Prios /\ Base[c] \in Prios
      /\ Base[w] \in Nat /\ Base[c] \in Nat /\ pip < Base[c] /\ pip < Base[w]
  BY <1>2, <1>3, <1>4, MutexApp
<1> HIDE DEF pip
<1>7. OSTCBPrio[w] = Base[w]
  BY <1>1, <1>3, <1>5
<1>8. c # w
  BY <1>1, <1>5, <1>6, <1>7
<1>9. \A f \in Mutexes : Owner(f) # c
  BY <1>1, <1>4, <1>8 DEF Owned, Mutexes, Owner
<1>10. OSTCBPrio[c] = Base[c]
  BY <1>2, <1>9 DEF KInv, MutexesOwned
<1>11. OSTCBPrioTbl[pip] = RESERVED
  BY <1>1, <1>3, <1>6, <1>7 DEF KInv, MutexesOwned, Raised, pip
<1>12. QED
  BY <1>1, <1>2, <1>3, <1>4, <1>5, <1>6, <1>7, <1>8, <1>9, <1>10, <1>11 DEF pip

\* The lists after it.
LEMMA LendingLists ==
  ASSUME KInv, "MUTEX" \in app, NEW c, NEW w, NEW e, NEW timeout, Lends(c, w, e, timeout)
  PROVE  Raises(c, w, e, OSMutexPIP[e])
<1> DEFINE pip == OSMutexPIP[e]
           old == OSTCBPrio[w]
           tbl == IF old \notin OSRdyTbl /\ OSTCBEventPtr[w] # NULL
                  THEN [OSEventTbl EXCEPT ![OSTCBEventPtr[w]] = (@ \ {old}) \cup {pip}]
                  ELSE OSEventTbl
           s == Standing(w)
<1>1. /\ c \in Live /\ inCall[c] = "none" /\ w \in Live /\ w # c /\ pip \in Prios /\ OSTCBPrioTbl[pip] \notin TCBs
      /\ c = OSTCBCur /\ e \in Mutexes /\ e \in Events /\ Owner(e) = w /\ w \in TCBs /\ w # NULL
  <2>1. /\ c \in Live /\ inCall[c] = "none" /\ w \in Live /\ w # c /\ OSMutexPIP[e] \in Prios
        /\ OSTCBPrioTbl[OSMutexPIP[e]] = RESERVED /\ Owner(e) = w /\ w \in TCBs
    BY LenderAndOwner
  <2>2. c = OSTCBCur /\ e \in Mutexes /\ e \in Events
    BY DEF Lends, Mutexes
  <2>3. RESERVED \notin TCBs /\ w # NULL
    BY <2>1, KernelAssumption DEF TCBs
  <2>4. QED
    BY <2>1, <2>2, <2>3
<1>2. WaitsIn(w) = IF old \notin OSRdyTbl /\ OSTCBEventPtr[w] # NULL THEN {OSTCBEventPtr[w]} ELSE {}
  <2>1. /\ s.stat = OSTCBStat[w] /\ s.pend = OSTCBStatPend[w] /\ s.dly = OSTCBDly[w]
        /\ s.ev = OSTCBEventPtr[w] /\ s.call = inCall[w] /\ s.in = WaitsIn(w)
        /\ s.multi = OSTCBEventMultiPtr[w]
        /\ s.runs # {} <=> old \in OSRdyTbl
    BY Fields
  <2>2. /\ Consistent(s) /\ "SUSPEND" \notin s.stat /\ s.call # "MULTI"
        /\ OSTCBEventMultiPtr[w] = {} \/ inCall[w] = "MULTI"
    BY <1>1, <2>1, MutexApp, NothingLeft DEF KInv, Tables, Standings
  <2>3. s.call # "none" => s.dly = 0 /\ s.pend # "TO"
    BY <1>1, <2>1 DEF KInv, OwnersWait
  <2>4. NULL \notin Events
    BY KernelAssumption
  <2> HIDE DEF s
  <2>5. CASE InNoCall(s)
    BY <2>1, <2>2, <2>5 DEF InNoCall
  <2>6. CASE InSingle(s)
    <3>1. s.call # "none" /\ s.links = {}
      BY <2>6 DEF InSingle, Single
    <3>2. s.runs # {} <=> s.in = {}
      BY <2>2, <2>3, <3>1 DEF Consistent
    <3>3. s.ev # NULL /\ (s.in = {s.ev} \/ s.in = {})
      BY <2>4, <2>6 DEF InSingle
    <3>4. QED
      BY <2>1, <3>2, <3>3
  <2>7. CASE InFlag(s)
    BY <2>1, <2>7 DEF InFlag
  <2>8. QED
    BY <2>2, <2>5, <2>6, <2>7 DEF Consistent, InMulti
<1>3. \A f \in Events : tbl[f] = IF f \in WaitsIn(w) THEN (OSEventTbl[f] \ {old}) \cup {pip} ELSE OSEventTbl[f]
  <2>1. OSEventTbl \in [Events -> SUBSET Prios] /\ OSTCBEventPtr[w] \in Events \cup {NULL}
    BY <1>1 DEF KInv, TypeOK
  <2> HIDE DEF pip, old
  <2>2. QED
    BY <1>2, <2>1
<1>4. OSEventTbl' = [f \in Events |-> IF f \in {e} THEN tbl[f] \cup {OSTCBPrio[c]} ELSE tbl[f]]
  BY DEF Lends, Wait, Block
<1>5. /\ OSTCBPrio' = [OSTCBPrio EXCEPT ![w] = pip] /\ OSTCBPrioTbl' = [OSTCBPrioTbl EXCEPT ![pip] = w]
      /\ OSRdyTbl' = (IF old \in OSRdyTbl THEN (OSRdyTbl \ {old}) \cup {pip} ELSE OSRdyTbl) \ {OSTCBPrio[c]}
  BY DEF Lends
<1> HIDE DEF tbl
<1>6. \A f \in Events : OSEventTbl'[f] =
        IF f = e THEN (IF f \in WaitsIn(w) THEN (OSEventTbl[f] \ {old}) \cup {pip} ELSE OSEventTbl[f])
                      \cup {OSTCBPrio[c]}
        ELSE IF f \in WaitsIn(w) THEN (OSEventTbl[f] \ {old}) \cup {pip} ELSE OSEventTbl[f]
  BY <1>3, <1>4
<1>7. QED
  BY <1>1, <1>2, <1>5, <1>6 DEF Raises

LEMMA LendsKeep ==
  ASSUME KInv, "MUTEX" \in app, NEW c, NEW w, NEW e, NEW timeout, Lends(c, w, e, timeout)
  PROVE  KRest'
<1> DEFINE pip == OSMutexPIP[e]
           old == OSTCBPrio[w]
<1>1. /\ c = OSTCBCur /\ OSLockNesting = 0 /\ e \in Mutexes /\ e \in Events /\ OSEventType[e] = "MUTEX"
      /\ w = OSEventPtr[e] /\ timeout \in Nat /\ OSEventCnt[e] # Available
      /\ UNCHANGED <<processor, ecb, queue, flag, client>>
  BY DEF Lends, Mutexes
<1>2. /\ c \in Live /\ c \in Tasks /\ c \in TCBs /\ c # NULL /\ inCall[c] = "none" /\ WaitsIn(c) = {}
      /\ c \notin toSched /\ Switches /\ c # w
      /\ w \in Live /\ w \in Tasks /\ w \in TCBs /\ Owner(e) = w
      /\ pip \in Pip /\ pip \in Prios /\ pip # IdlePrio
      /\ OSTCBPrio[c] = Base[c] /\ OSTCBPrio[w] = Base[w] /\ OSEventCnt[e] = Base[w]
      /\ Base[c] \notin Pip /\ Base[w] \notin Pip /\ Base[w] \in Prios /\ Base[c] \in Prios
      /\ pip \in Nat /\ Base[w] \in Nat /\ Base[c] \in Nat /\ pip < Base[c] /\ pip < Base[w]
      /\ OSTCBPrioTbl[Base[w]] = w /\ OSTCBPrioTbl[pip] = RESERVED
      /\ \A f \in Mutexes : Owner(f) # c /\ (Owner(f) = w => f = e)
  BY LenderAndOwner
<1>3. /\ OSTCBStat' = [OSTCBStat EXCEPT ![c] = @ \cup {"MUTEX"}] /\ OSTCBStatPend' = [OSTCBStatPend EXCEPT ![c] = "OK"]
      /\ OSTCBDly' = [OSTCBDly EXCEPT ![c] = timeout] /\ inCall' = [inCall EXCEPT ![c] = "MUTEX"]
      /\ toSched' = toSched \cup {c} /\ OSTCBMsg' = OSTCBMsg /\ creating' = creating
      /\ OSTCBEventPtr' = [OSTCBEventPtr EXCEPT ![c] = e] /\ OSTCBEventMultiPtr' = OSTCBEventMultiPtr
  BY <1>1 DEF Lends, Wait, Block
<1>4. Raises(c, w, e, pip)
  BY LendingLists
<1>5. Tables' /\ Live' = Live
  <2>1. \E tbl : Wait(e, tbl, OSEventType[e], timeout)
    BY <1>1 DEF Lends
  <2>2. QED
    <3>1. PICK tbl : Wait(e, tbl, OSEventType[e], timeout)
      BY <2>1
    <3>2. /\ OSEventType[e] \in Single
          /\ UNCHANGED <<OSEventType, OSFlagType, OSFlagWaitList, node>>
      BY <1>1 DEF Single, ecb, flag
    <3>3. UNCHANGED creating
      BY <1>3
    <3>4. QED
      BY <1>1, <1>4, <3>1, <3>2, <3>3, RaisesAndWaits DEF KInv
<1>6. HasRaised(c, w, e, pip)
  BY <1>1, <1>4, Raising DEF KInv
<1>7. /\ OSTCBPrio' = [OSTCBPrio EXCEPT ![w] = pip] /\ OSTCBPrioTbl' = [OSTCBPrioTbl EXCEPT ![pip] = w]
      /\ OSRdyTbl' = (IF old \in OSRdyTbl THEN (OSRdyTbl \ {old}) \cup {pip} ELSE OSRdyTbl) \ {OSTCBPrio[c]}
      /\ \A f \in Events : OSEventTbl'[f] =
           LET tbl == IF f \in WaitsIn(w) THEN (OSEventTbl[f] \ {old}) \cup {pip} ELSE OSEventTbl[f] IN
           IF f = e THEN tbl \cup {OSTCBPrio[c]} ELSE tbl
  BY <1>4 DEF Raises
<1> HIDE DEF pip, old
<1>8. /\ OSTCBPrioTbl \in [Prios \cup {IdlePrio} -> TCBs \cup {NULL, RESERVED}]
      /\ OSTCBPrio \in [TCBs -> Prios \cup {IdlePrio}]
      /\ NULL \notin Prios \cup TCBs /\ RESERVED \notin TCBs \cup {NULL} /\ Idle \notin Tasks
      /\ OSEventTbl \in [Events -> SUBSET Prios]
      /\ OSRdyTbl \subseteq Prios \cup {IdlePrio} /\ IdlePrio \in OSRdyTbl
  BY KernelAssumption DEF KInv, TypeOK
<1>9. /\ OSTCBPrio'[w] = pip /\ \A t \in TCBs \ {w} : OSTCBPrio'[t] = OSTCBPrio[t]
      /\ OSTCBPrioTbl'[pip] = w
      /\ \A p \in (Prios \cup {IdlePrio}) \ {pip} : OSTCBPrioTbl'[p] = OSTCBPrioTbl[p]
      /\ OSTCBPrio' \in [TCBs -> Prios \cup {IdlePrio}]
      /\ OSTCBPrioTbl' \in [Prios \cup {IdlePrio} -> TCBs \cup {NULL, RESERVED}]
  BY <1>2, <1>7, <1>8
<1>10. Present' = Present
  BY <1>5 DEF Present
<1>11. TasksTyped'
  <2>1. /\ OSTCBStat' \in [TCBs -> SUBSET StatBits] /\ OSTCBStatPend' \in [TCBs -> PendStats]
        /\ OSTCBDly' \in [TCBs -> Nat] /\ OSTCBMsg' \in [TCBs -> Messages \cup {NULL}]
        /\ OSTCBEventPtr' \in [TCBs -> Events \cup {NULL}]
        /\ OSTCBEventMultiPtr' \in [TCBs -> SUBSET Events]
    <3>1. /\ OSTCBStat \in [TCBs -> SUBSET StatBits] /\ OSTCBStatPend \in [TCBs -> PendStats]
          /\ OSTCBDly \in [TCBs -> Nat] /\ OSTCBMsg \in [TCBs -> Messages \cup {NULL}]
          /\ OSTCBEventPtr \in [TCBs -> Events \cup {NULL}]
          /\ OSTCBEventMultiPtr \in [TCBs -> SUBSET Events]
      BY DEF KInv, TypeOK
    <3>2. QED
      BY <1>1, <1>2, <1>3, <3>1 DEF PendStats, StatBits
  <2>2. OSRdyTbl' \subseteq Prios \cup {IdlePrio} /\ IdlePrio \in OSRdyTbl'
    <3>1. OSTCBPrio[c] # IdlePrio /\ old # IdlePrio
      BY <1>2, MutexApp DEF old
    <3>2. QED
      BY <1>2, <1>7, <1>8, <3>1
  <2>3. OSEventTbl' \in [Events -> SUBSET Prios]
    <3>1. \A f \in Events : OSEventTbl'[f] \in SUBSET Prios
      <4> TAKE f \in Events
      <4> DEFINE t0 == IF f \in WaitsIn(w) THEN (OSEventTbl[f] \ {old}) \cup {pip} ELSE OSEventTbl[f]
      <4>1. t0 \in SUBSET Prios
        BY <1>2, <1>8
      <4>2. OSTCBPrio[c] \in Prios
        BY <1>2
      <4>3. OSEventTbl'[f] = IF f = e THEN t0 \cup {OSTCBPrio[c]} ELSE t0
        BY <1>7
      <4> HIDE DEF t0
      <4>4. QED
        BY <4>1, <4>2, <4>3
    <3>2. OSEventTbl' = [f \in Events |-> OSEventTbl'[f]]
      BY DEF Lends, Wait, Block
    <3>3. QED
      BY <3>1, <3>2
  <2>4. QED
    BY <1>9, <2>1, <2>2, <2>3 DEF TasksTyped
<1>12. /\ inCall' \in [TCBs -> {"none", "SEM", "MUTEX", "MBOX", "Q", "FLAG", "MULTI"}]
       /\ toSched' \subseteq Tasks
  BY <1>2, <1>3 DEF KInv, TypeOK, Processor
<1>13. ProcessorTyped' /\ EventsTyped' /\ FlagsTyped' /\ ClientTyped'
  BY <1>1, <1>3, <1>12, KInvParts DEF ProcessorTyped, EventsTyped, FlagsTyped, ClientTyped, processor,
    ecb, flag, client, TCBs
<1>14. /\ inCall'[c] = "MUTEX" /\ OSTCBStat'[c] = OSTCBStat[c] \cup {"MUTEX"} /\ OSTCBDly'[c] = timeout
       /\ OSTCBStatPend'[c] = "OK"
       /\ \A t \in TCBs \ {c} : /\ inCall'[t] = inCall[t] /\ OSTCBStat'[t] = OSTCBStat[t]
                                /\ OSTCBDly'[t] = OSTCBDly[t] /\ OSTCBStatPend'[t] = OSTCBStatPend[t]
                                /\ OSTCBEventPtr'[t] = OSTCBEventPtr[t]
  BY <1>2, <1>3 DEF KInv, TypeOK
<1>15. UsedOnly'
  BY <1>1, <1>2, <1>3, <1>14 DEF KInv, UsedOnly, processor, ecb, client
<1>16. Names'
  <2>1. OSTCBPrio'[Idle] = IdlePrio /\ OSTCBPrioTbl'[IdlePrio] = Idle
    BY <1>2, <1>8, <1>9 DEF KInv, Names, TCBs
  <2>2. \A t \in Tasks : OSTCBPrio'[t] \in Prios
    BY <1>2, <1>9 DEF KInv, Names, TCBs
  <2>3. \A p \in Prios : OSTCBPrioTbl'[p] # Idle /\ (OSTCBPrioTbl'[p] \in Tasks => OSTCBPrioTbl'[p] \in Live)
    <3> TAKE p \in Prios
    <3>1. CASE p = pip
      BY <1>2, <1>8, <1>9, <3>1
    <3>2. CASE p # pip
      BY <1>9, <3>2 DEF KInv, Names
    <3>3. QED
      BY <3>1, <3>2
  <2>4. QED
    BY <1>5, <2>1, <2>2, <2>3 DEF Names
<1>17. Creations'
  BY <1>2, <1>3, <1>5, <1>14, MutexApp DEF KInv, Creations
<1>18. /\ Mutexes' = Mutexes /\ OSMutexPIP' = OSMutexPIP /\ OSEventCnt' = OSEventCnt /\ OSEventPtr' = OSEventPtr
       /\ inside' = inside /\ app' = app /\ \A f : Owner(f)' = Owner(f)
  BY <1>1 DEF Mutexes, ecb, client, Owner
<1>19. \A f \in Mutexes : Owner(f) # NULL => Owner(f) \in Live /\ Owner(f) \in TCBs /\ Owner(f) \in Tasks
  BY DEF KInv, MutexesOwned, Live, TCBs
<1>20. \A f \in Mutexes \ {e} : /\ Raised(f)' <=> Raised(f)
                                /\ OSMutexPIP[f] # pip /\ OSMutexPIP[f] \in Prios
                                /\ Owner(f) # NULL => OSTCBPrio'[Owner(f)] = OSTCBPrio[Owner(f)]
  <2> TAKE f \in Mutexes \ {e}
  <2>1. OSMutexPIP[f] # pip /\ OSMutexPIP[f] \in Prios
    BY <1>1, MutexApp DEF KInv, MutexesOwned, pip
  <2>2. Owner(f) # NULL => OSTCBPrio'[Owner(f)] = OSTCBPrio[Owner(f)]
    BY <1>2, <1>9, <1>19
  <2>3. QED
    BY <1>18, <2>1, <2>2 DEF Raised, Owner
<1>21. MutexesOwned'
  <2>1. \A f \in Mutexes : Owner(f) # NULL =>
          /\ Owner(f) \in Live
          /\ OSEventCnt[f] = Base[Owner(f)] /\ OSTCBPrioTbl'[OSEventCnt[f]] = Owner(f)
          /\ OSTCBPrio'[Owner(f)] \in {OSEventCnt[f], OSMutexPIP[f]}
    <3> SUFFICES ASSUME NEW f \in Mutexes, Owner(f) # NULL
                 PROVE  /\ Owner(f) \in Live
                        /\ OSEventCnt[f] = Base[Owner(f)] /\ OSTCBPrioTbl'[OSEventCnt[f]] = Owner(f)
                        /\ OSTCBPrio'[Owner(f)] \in {OSEventCnt[f], OSMutexPIP[f]}
      OBVIOUS
    <3>1. /\ Owner(f) \in Live /\ OSEventCnt[f] = Base[Owner(f)] /\ OSTCBPrioTbl[OSEventCnt[f]] = Owner(f)
          /\ OSTCBPrio[Owner(f)] \in {OSEventCnt[f], OSMutexPIP[f]}
      BY DEF KInv, MutexesOwned
    <3>2. OSEventCnt[f] \in Prios \ {pip}
      BY <1>2, <1>19, <3>1, MutexApp
    <3>3. OSTCBPrio'[Owner(f)] \in {OSEventCnt[f], OSMutexPIP[f]}
      <4>1. CASE f = e
        BY <1>2, <1>9, <4>1 DEF pip
      <4>2. CASE f # e
        BY <1>20, <3>1, <4>2
      <4>3. QED
        BY <4>1, <4>2
    <3>4. QED
      BY <1>9, <3>1, <3>2, <3>3
  <2>2. \A f \in Mutexes : OSTCBPrioTbl'[OSMutexPIP[f]] = IF Raised(f)' THEN Owner(f) ELSE RESERVED
    <3>1. Raised(e)' /\ OSTCBPrioTbl'[OSMutexPIP[e]] = Owner(e)
      BY <1>1, <1>2, <1>8, <1>9, <1>18 DEF Raised, pip
    <3>2. \A f \in Mutexes \ {e} : OSTCBPrioTbl'[OSMutexPIP[f]] = IF Raised(f)' THEN Owner(f) ELSE RESERVED
      BY <1>9, <1>20 DEF KInv, MutexesOwned
    <3>3. QED
      BY <3>1, <3>2
  <2>3. \A t \in Tasks : OSTCBPrio'[t] = Base[t]
                         \/ \E f \in Mutexes : Owner(f) = t /\ OSTCBPrio'[t] = OSMutexPIP[f]
    <3> TAKE t \in Tasks
    <3>1. CASE t = w
      BY <1>1, <1>2, <1>9, <3>1 DEF pip
    <3>2. CASE t # w
      BY <1>9, <3>2 DEF KInv, MutexesOwned, TCBs
    <3>3. QED
      BY <3>1, <3>2
  <2>4. QED
    BY <1>5, <1>18, <2>1, <2>2, <2>3 DEF KInv, MutexesOwned
<1>22. WaitsIn(c)' = {e} /\ \A t \in Live \ {c} : WaitsIn(t)' = WaitsIn(t)
  BY <1>6 DEF HasRaised
<1>23. OwnersWait'
  <2>1. \A f \in Mutexes : Owner(f) # NULL /\ inCall'[Owner(f)] # "none" =>
          OSTCBDly'[Owner(f)] = 0 /\ OSTCBStatPend'[Owner(f)] # "TO"
    <3> SUFFICES ASSUME NEW f \in Mutexes, Owner(f) # NULL, inCall'[Owner(f)] # "none"
                 PROVE  OSTCBDly'[Owner(f)] = 0 /\ OSTCBStatPend'[Owner(f)] # "TO"
      OBVIOUS
    <3>1. Owner(f) \in TCBs \ {c}
      BY <1>2, <1>19
    <3>2. QED
      BY <1>14, <3>1 DEF KInv, OwnersWait
  <2>2. \A t \in Live : inCall'[t] = "MUTEX" /\ WaitsIn(t)' = {} /\ OSTCBStatPend'[t] = "OK" =>
          OSTCBEventPtr'[t] \in Mutexes /\ Owner(OSTCBEventPtr'[t]) = t
    <3> SUFFICES ASSUME NEW t \in Live, inCall'[t] = "MUTEX", WaitsIn(t)' = {}, OSTCBStatPend'[t] = "OK"
                 PROVE  OSTCBEventPtr'[t] \in Mutexes /\ Owner(OSTCBEventPtr'[t]) = t
      OBVIOUS
    <3>1. t \in TCBs \ {c}
      BY <1>22 DEF Live, TCBs
    <3>2. QED
      BY <1>14, <1>22, <3>1 DEF KInv, OwnersWait
  <2>3. \A f, g \in Mutexes : \A t \in Live : f \in WaitsIn(t)' /\ Owner(g) = t => f = g
    BY <1>2, <1>22 DEF KInv, OwnersWait
  <2>4. QED
    BY <1>5, <1>18, <2>1, <2>2, <2>3 DEF KInv, OwnersWait, Owner
<1>24. PrioTableAgrees'
  <2>1. ASSUME NEW p \in Prios, OSTCBPrioTbl'[p] \in TCBs
        PROVE  \/ OSTCBPrio'[OSTCBPrioTbl'[p]] = p
               \/ \E f \in Events : OSEventType[f] = "MUTEX" /\ OSEventPtr[f] = OSTCBPrioTbl'[p]
                    /\ OSEventCnt[f] = p /\ OSTCBPrio'[OSTCBPrioTbl'[p]] = OSMutexPIP[f]
    <3>1. CASE p = pip
      BY <1>9, <3>1
    <3>2. CASE p # pip
      <4>1. PICK t : t = OSTCBPrioTbl[p] /\ t = OSTCBPrioTbl'[p] /\ t \in TCBs
        BY <1>9, <2>1, <3>2
      <4>2. \/ OSTCBPrio[t] = p
            \/ \E f \in Events : OSEventType[f] = "MUTEX" /\ OSEventPtr[f] = t
                 /\ OSEventCnt[f] = p /\ OSTCBPrio[t] = OSMutexPIP[f]
        <5>1. PrioTableAgrees /\ p \in Prios
          BY <2>1 DEF KInv
        <5>2. OSTCBPrioTbl[p] \in TCBs
          BY <4>1
        <5>3. \/ OSTCBPrio[OSTCBPrioTbl[p]] = p
              \/ \E f \in Events : OSEventType[f] = "MUTEX" /\ OSEventPtr[f] = OSTCBPrioTbl[p]
                   /\ OSEventCnt[f] = p /\ OSTCBPrio[OSTCBPrioTbl[p]] = OSMutexPIP[f]
          BY <5>1, <5>2 DEF PrioTableAgrees
        <5>4. QED
          BY <4>1, <5>3
      <4>3. CASE t = w
        <5>1. OSEventCnt[e] = p
          BY <1>2, <4>2, <4>3 DEF Mutexes, Owner
        <5>2. QED
          BY <1>1, <1>9, <4>1, <4>3, <5>1 DEF pip
      <4>4. CASE t # w
        <5>1. OSTCBPrio'[t] = OSTCBPrio[t]
          BY <1>9, <4>1, <4>4
        <5>2. QED
          BY <4>1, <4>2, <5>1
      <4>5. QED
        BY <4>3, <4>4
    <3>3. QED
      BY <3>1, <3>2
  <2>2. \A p \in Prios : OSTCBPrioTbl'[p] = RESERVED =>
          (\E u \in Tasks : creating[u] = p) \/ \E f \in Events : OSMutexPIP[f] = p
    BY <1>2, <1>8, <1>9 DEF KInv, PrioTableAgrees
  <2>3. QED
    BY <1>1, <1>3, <2>1, <2>2 DEF PrioTableAgrees, ecb
<1>25. NothingToTake'
  <2>1. \A f \in Events : Filled(f)' <=> Filled(f)
    BY <1>1 DEF Filled, ecb, queue
  <2>2. ~Filled(e)
    BY <1>1 DEF Filled
  <2>3. \A f \in Events : f # e /\ OSEventTbl[f] = {} => OSEventTbl'[f] = {}
    BY <1>7 DEF WaitsIn
  <2>4. QED
    BY <1>1, <2>1, <2>2, <2>3, KInvParts DEF NothingToTake, flag, Satisfied, FlagsRdy
<1>26. OwnerIsUrgent'
  <2>1. ASSUME NEW f \in Mutexes, OSEventPtr[f] # NULL, NEW p \in OSEventTbl'[f]
        PROVE  OSTCBPrio'[OSEventPtr[f]] <= p
    <3>1. CASE f = e
      <4>1. p = pip \/ p = OSTCBPrio[c] \/ p \in OSEventTbl[e]
        BY <1>1, <1>7, <2>1, <3>1
      <4>2. p \in OSEventTbl[e] => Base[w] <= p /\ p \in Nat
        BY <1>1, <1>2, <1>8, MutexApp DEF KInv, OwnerIsUrgent
      <4>3. pip <= p
        BY <1>2, <4>1, <4>2
      <4>4. QED
        BY <1>1, <1>9, <3>1, <4>3
    <3>2. CASE f # e
      <4>1. f \notin WaitsIn(w)
        BY <1>1, <1>2, <3>2 DEF KInv, OwnersWait
      <4>2. p \in OSEventTbl[f]
        BY <1>7, <2>1, <3>2, <4>1 DEF Mutexes
      <4>3. OSTCBPrio'[OSEventPtr[f]] = OSTCBPrio[OSEventPtr[f]]
        BY <1>20, <2>1, <3>2 DEF Owner
      <4>4. QED
        BY <2>1, <4>2, <4>3 DEF KInv, OwnerIsUrgent, Mutexes
    <3>3. QED
      BY <3>1, <3>2
  <2>2. QED
    BY <1>1, <2>1 DEF OwnerIsUrgent, Mutexes, ecb
<1>27. MutualExclusion'
  BY <1>18 DEF KInv, MutualExclusion
<1>28. Processor'
  <2>1. OSTCBCur' = c /\ OSPrioCur' = OSPrioCur /\ OSLockNesting' = 0 /\ app' = app /\ c \in toSched'
    BY <1>1, <1>3 DEF processor, client
  <2>2. OSPrioCur # pip
    <3>1. OSPrioCur = OSTCBPrio[c] \/ Lowered
      BY <1>1, MutexApp DEF KInv, Processor
    <3>2. Lowered => OSPrioCur # pip
      BY <1>1, <1>2, KernelAssumption DEF KInv, Processor, pip, TCBs
    <3>3. QED
      BY <1>2, <3>1, <3>2
  <2>3. OSTCBPrioTbl'[OSPrioCur] \in Present /\ OSTCBPrio'[OSTCBPrioTbl'[OSPrioCur]] = OSPrioCur
          => OSTCBPrioTbl'[OSPrioCur] = c
    <3> SUFFICES ASSUME OSTCBPrioTbl'[OSPrioCur] \in Present,
                        OSTCBPrio'[OSTCBPrioTbl'[OSPrioCur]] = OSPrioCur
                 PROVE  OSTCBPrioTbl'[OSPrioCur] = c
      OBVIOUS
    <3>1. OSPrioCur \in Prios \cup {IdlePrio} /\ Present \subseteq TCBs
      BY DEF KInv, TypeOK, Present, Live, TCBs
    <3>2. OSTCBPrioTbl'[OSPrioCur] = OSTCBPrioTbl[OSPrioCur]
      BY <1>9, <2>2, <3>1
    <3>3. OSTCBPrio[OSTCBPrioTbl[OSPrioCur]] = OSPrioCur
      BY <1>9, <2>2, <3>1, <3>2
    <3>4. QED
      BY <1>1, <3>2, <3>3 DEF KInv, Processor
  <2>4. OSPrioCur = OSTCBPrio'[c] \/ Lowered'
    <3>1. OSTCBPrio'[c] = OSTCBPrio[c]
      BY <1>2, <1>9
    <3>2. OSPrioCur = OSTCBPrio[c] \/ Lowered
      BY <1>1, MutexApp DEF KInv, Processor
    <3>3. QED
      BY <1>1, <2>1, <3>1, <3>2 DEF Lowered, Demoted
  <2>5. ~Switches' /\ c \in Present'
    BY <1>2, <1>10, <2>1 DEF Switches, Present
  <2>6. QED
    BY <1>10, <1>12, <2>1, <2>3, <2>4, <2>5 DEF Processor
<1>29. QED
  BY <1>5, <1>11, <1>13, <1>15, <1>16, <1>17, <1>21, <1>23, <1>24, <1>25, <1>26, <1>27, <1>28 DEF KRest

-----------------------------------------------------------------------------
\* Where the owner ends up, raised or not, when it gives the mutex back.
LEMMA Restores ==
  ASSUME KInv, "MUTEX" \in app, TaskLevel, NEW e \in Mutexes, NEW c, c = OSTCBCur, Owner(e) = c
  PROVE  /\ (IF Raised(e) THEN OwnPrio(e) ELSE OSTCBPrio) = [OSTCBPrio EXCEPT ![c] = Base[c]]
         /\ (IF Raised(e) THEN RdyAtPrio(e, OSRdyTbl) ELSE OSRdyTbl)
              = (OSRdyTbl \ {OSMutexPIP[e]}) \cup {Base[c]}
         /\ \A v : [p \in DOMAIN OSTCBPrioTbl |->
                      IF p = OSMutexPIP[e] THEN v
                      ELSE IF Raised(e) /\ p = OSEventCnt[e] THEN c ELSE OSTCBPrioTbl[p]]
                   = [OSTCBPrioTbl EXCEPT ![OSMutexPIP[e]] = v]
<1> DEFINE pip == OSMutexPIP[e]
<1>1. /\ c \in TCBs /\ OSEventPtr[e] = c /\ OSEventCnt[e] = Base[c] /\ OSTCBPrioTbl[Base[c]] = c
      /\ OSTCBPrio[c] \in {Base[c], pip} /\ OSTCBPrio[c] \in OSRdyTbl /\ Base[c] # pip
      /\ Raised(e) <=> OSTCBPrio[c] = pip
      /\ OSTCBPrioTbl[pip] = IF OSTCBPrio[c] = pip THEN c ELSE RESERVED
  BY OwnerCalls DEF Owner
<1>2. OSTCBPrio = [t \in TCBs |-> OSTCBPrio[t]]
  BY DEF KInv, TypeOK
<1>3. OSTCBPrio[c] # pip => pip \notin OSRdyTbl
  <2>1. RESERVED \notin Present
    BY KernelAssumption DEF Present, Live, TCBs
  <2>2. QED
    BY <1>1, <2>1 DEF KInv, Tables, ListsNameTasks
<1> HIDE DEF pip
<1>4. (IF Raised(e) THEN OwnPrio(e) ELSE OSTCBPrio) = [OSTCBPrio EXCEPT ![c] = Base[c]]
  <2>1. CASE Raised(e)
    BY <1>1, <2>1 DEF OwnPrio
  <2>2. CASE ~Raised(e)
    BY <1>1, <1>2, <2>2
  <2>3. QED
    BY <2>1, <2>2
<1>5. (IF Raised(e) THEN RdyAtPrio(e, OSRdyTbl) ELSE OSRdyTbl) = (OSRdyTbl \ {pip}) \cup {Base[c]}
  <2>1. CASE Raised(e)
    BY <1>1, <2>1 DEF RdyAtPrio, pip
  <2>2. CASE ~Raised(e)
    BY <1>1, <1>3, <2>2
  <2>3. QED
    BY <2>1, <2>2
<1>6. \A v : [p \in DOMAIN OSTCBPrioTbl |->
                IF p = pip THEN v
                ELSE IF Raised(e) /\ p = OSEventCnt[e] THEN c ELSE OSTCBPrioTbl[p]]
             = [OSTCBPrioTbl EXCEPT ![pip] = v]
  BY <1>1
<1>7. QED
  BY <1>4, <1>5, <1>6 DEF pip

\* A mutex is given back to the next task in line ...
LEMMA MutexPosts ==
  ASSUME KInv, "MUTEX" \in app, NEW e \in Events, OSMutexPost(e)
  PROVE  KRest'
<1> DEFINE next == OSTCBPrioTbl[Highest(OSEventTbl[e])]
           nx == IF OSEventTbl[e] = {} THEN NULL ELSE next
<1>1. PICK c : c = OSTCBCur
  OBVIOUS
<1>2. /\ TaskLevel /\ e \in Mutexes /\ Owner(e) = c
      /\ UNCHANGED <<processor, OSEventType, OSMutexPIP, queue, flag, owed, app>>
      /\ inside' = [inside EXCEPT ![e] = @ \ {c}]
  BY <1>1 DEF OSMutexPost, Mutexes, Owner
<1>3. OSTCBPrio' = [OSTCBPrio EXCEPT ![c] = Base[c]]
  BY <1>1, <1>2, Restores DEF OSMutexPost
<1>4. OSTCBPrioTbl' = [OSTCBPrioTbl EXCEPT ![OSMutexPIP[e]] = RESERVED]
  <2>1. OSTCBPrioTbl' = [p \in DOMAIN OSTCBPrioTbl |->
                           IF p = OSMutexPIP[e] THEN RESERVED
                           ELSE IF Raised(e) /\ p = OSEventCnt[e] THEN c ELSE OSTCBPrioTbl[p]]
    BY <1>1 DEF OSMutexPost
  <2>2. \A v : [p \in DOMAIN OSTCBPrioTbl |->
                  IF p = OSMutexPIP[e] THEN v
                  ELSE IF Raised(e) /\ p = OSEventCnt[e] THEN c ELSE OSTCBPrioTbl[p]]
               = [OSTCBPrioTbl EXCEPT ![OSMutexPIP[e]] = v]
    BY <1>1, <1>2, Restores
  <2>3. QED
    BY <2>1, <2>2
<1>5. inside' = [inside EXCEPT ![e] = {}]
  BY <1>2 DEF KInv, MutualExclusion, Owner
<1>6. /\ OSEventType' = [OSEventType EXCEPT ![e] = "MUTEX"]
      /\ OSMutexPIP' = [OSMutexPIP EXCEPT ![e] = OSMutexPIP[e]]
  BY <1>2 DEF KInv, TypeOK, Mutexes
<1>7. (IF Raised(e) THEN RdyAtPrio(e, OSRdyTbl) ELSE OSRdyTbl) = (OSRdyTbl \ {OSMutexPIP[e]}) \cup {Base[c]}
  BY <1>1, <1>2, Restores
<1>8. c \in Live /\ WaitsIn(c) = {} /\ NULL \notin TCBs
  BY <1>1, <1>2, OwnerCalls, KernelAssumption
<1>9. CASE OSEventTbl[e] = {}
  <2>1. /\ OSRdyTbl' = (OSRdyTbl \ {OSMutexPIP[e]}) \cup {Base[c]}
        /\ OSEventCnt' = [OSEventCnt EXCEPT ![e] = Available]
        /\ OSEventPtr' = [OSEventPtr EXCEPT ![e] = NULL]
        /\ UNCHANGED <<tcb, OSEventTbl, calls>>
    BY <1>7, <1>9 DEF OSMutexPost
  <2>2. {NULL} \ {NULL} = {} /\ Released({}) = {}
    BY DEF Released
  <2>3. OS_EventTaskRdy(e, {}, NULL, "MUTEX", "OK")
    BY <2>1, NobodyWoken DEF KInv
  <2>4. Releases(c, e, NULL, FALSE)
    BY <1>1, <1>2, <1>3, <1>4, <1>5, <1>6, <1>9, <2>1, <2>2, <2>3 DEF Releases
  <2>5. QED
    BY <2>4, ReleasesKeep
<1>10. CASE OSEventTbl[e] # {}
  <2>1. /\ OS_EventTaskRdy(e, {next}, NULL, "MUTEX", "OK")
        /\ OSRdyTbl' = ((OSRdyTbl \ {OSMutexPIP[e]}) \cup {Base[c]}) \cup Released({next})
        /\ OSEventCnt' = [OSEventCnt EXCEPT ![e] = Highest(OSEventTbl[e])]
        /\ OSEventPtr' = [OSEventPtr EXCEPT ![e] = next]
        /\ ThenSched
    BY <1>7, <1>10 DEF OSMutexPost
  <2>2. next \in Live /\ e \in WaitsIn(next)
    <3>1. First(e) \subseteq Waiters(e) /\ Waiters(e) \subseteq Live /\ \A t \in Waiters(e) : e \in WaitsIn(t)
      BY <1>10, WaitersWait DEF KInv, Tables
    <3>2. QED
      BY <3>1 DEF First
  <2>3. OSEventTbl[e] \in SUBSET Nat
    BY KernelAssumption DEF KInv, TypeOK
  <2>4. /\ Highest(OSEventTbl[e]) \in OSEventTbl[e]
        /\ \A p \in OSEventTbl[e] : Highest(OSEventTbl[e]) <= p
    BY <1>10, <2>3, HighestIsLeast
  <2>5. OSTCBPrio[next] = Highest(OSEventTbl[e])
    BY <2>4 DEF KInv, Tables, ListsNameTasks
  <2>6. OSTCBPrio[next] = Base[next]
    BY <1>2, <1>8, <2>2, MutexWaiter
  <2>7. next # NULL /\ {next} \ {NULL} = {next}
    BY <1>8, <2>2 DEF Live, TCBs
  <2> HIDE DEF next
  <2>8. /\ OSRdyTbl' = ((OSRdyTbl \ {OSMutexPIP[e]}) \cup {Base[c]}) \cup Released({next} \ {NULL})
        /\ OS_EventTaskRdy(e, {next} \ {NULL}, NULL, "MUTEX", "OK")
        /\ OSEventCnt' = [OSEventCnt EXCEPT ![e] = Base[next]]
    BY <2>1, <2>5, <2>6, <2>7
  <2>9. \A p \in OSEventTbl[e] : OSTCBPrio[next] <= p
    BY <2>4, <2>5
  <2>10. Releases(c, e, next, FALSE)
    BY <1>1, <1>2, <1>3, <1>4, <1>5, <1>6, <2>1, <2>2, <2>7, <2>8, <2>9 DEF Releases
  <2>11. QED
    BY <2>10, ReleasesKeep
<1>11. QED
  BY <1>9, <1>10

\* ... or goes, while nobody waits for it.
LEMMA MutexGoes ==
  ASSUME KInv, "MUTEX" \in app, NEW e \in Events, OSEventTbl[e] = {}, NEW always \in BOOLEAN,
         OSEventCnt[e] = Available \/ (always /\ OSEventPtr[e] = OSTCBCur), OSMutexDel(e, always)
  PROVE  KRest'
<1>1. PICK c : c = OSTCBCur
  OBVIOUS
<1>2. Waiters(e) = {} /\ Released({}) = {}
  BY DEF Waiters, Released
<1>3. /\ TaskLevel /\ e \in Mutexes /\ OS_EventTaskRdy(e, {}, NULL, "MUTEX", "OK")
      /\ OSEventType' = [OSEventType EXCEPT ![e] = "UNUSED"]
      /\ OSEventCnt' = [OSEventCnt EXCEPT ![e] = 0] /\ OSEventPtr' = [OSEventPtr EXCEPT ![e] = NULL]
      /\ UNCHANGED calls
      /\ OSMutexPIP' = [OSMutexPIP EXCEPT ![e] = NULL] /\ inside' = [inside EXCEPT ![e] = {}]
      /\ UNCHANGED <<processor, queue, flag, owed, app>>
  BY <1>2 DEF OSMutexDel, Delete, Mutexes
<1>4. CASE OSEventCnt[e] = Available
  <2>1. Owner(e) = NULL /\ ~Raised(e)
    BY <1>3, <1>4 DEF KInv, MutexesOwned, Owner, Raised
  <2>2. OSTCBPrio' = OSTCBPrio /\ OSRdyTbl' = OSRdyTbl
    BY <1>2, <2>1 DEF OSMutexDel
  <2>3. OSTCBPrioTbl' = [OSTCBPrioTbl EXCEPT ![OSMutexPIP[e]] = NULL]
    BY <2>1 DEF OSMutexDel
  <2>4. UNCHANGED tcb
    BY <1>3 DEF KInv, TypeOK, OS_EventTaskRdy, tcb
  <2>5. OSEventTbl' = [f \in Events |-> OSEventTbl[f] \ {}] /\ OSEventTbl \in [Events -> SUBSET Prios]
    BY <1>3 DEF KInv, TypeOK, OS_EventTaskRdy
  <2>6. OSEventTbl' \in [Events -> SUBSET Prios] /\ \A f \in Events : OSEventTbl'[f] = OSEventTbl[f]
    BY <2>5
  <2>7. UNCHANGED <<OSTCBPrio, tcb, OSRdyTbl, calls, processor, queue, flag, owed, app>>
    BY <1>3, <2>2, <2>4
  <2>8. QED
    BY <1>3, <2>1, <2>3, <2>6, <2>7, FreeMutexGoes
<1>5. CASE OSEventCnt[e] # Available
  <2>1. always /\ Owner(e) = c
    BY <1>1, <1>5 DEF Owner
  <2>2. OSTCBPrio' = [OSTCBPrio EXCEPT ![c] = Base[c]]
    BY <1>1, <1>3, <2>1, Restores DEF OSMutexDel
  <2>3. OSTCBPrioTbl' = [OSTCBPrioTbl EXCEPT ![OSMutexPIP[e]] = NULL]
    <3>1. OSTCBPrioTbl' = [p \in DOMAIN OSTCBPrioTbl |->
                             IF p = OSMutexPIP[e] THEN NULL
                             ELSE IF Raised(e) /\ p = OSEventCnt[e] THEN c ELSE OSTCBPrioTbl[p]]
      BY <2>1 DEF OSMutexDel, Owner
    <3>2. \A v : [p \in DOMAIN OSTCBPrioTbl |->
                    IF p = OSMutexPIP[e] THEN v
                    ELSE IF Raised(e) /\ p = OSEventCnt[e] THEN c ELSE OSTCBPrioTbl[p]]
                 = [OSTCBPrioTbl EXCEPT ![OSMutexPIP[e]] = v]
      BY <1>1, <1>3, <2>1, Restores
    <3>3. QED
      BY <3>1, <3>2
  <2>4. OSRdyTbl' = (OSRdyTbl \ {OSMutexPIP[e]}) \cup {Base[c]}
    <3>1. OSRdyTbl' = IF Raised(e) THEN RdyAtPrio(e, OSRdyTbl) ELSE OSRdyTbl
      BY <1>2, <2>1 DEF OSMutexDel
    <3>2. QED
      BY <1>1, <1>3, <2>1, <3>1, Restores
  <2>5. {NULL} \ {NULL} = {}
    OBVIOUS
  <2>6. Releases(c, e, NULL, TRUE)
    BY <1>1, <1>2, <1>3, <2>1, <2>2, <2>3, <2>4, <2>5 DEF Releases
  <2>7. QED
    BY <2>6, ReleasesKeep
<1>6. QED
  BY <1>4, <1>5

\* The services of mutexes.
LEMMA Timed ==
  ASSUME KInv, NEW n \in Timeouts
  PROVE  n \in Nat /\ 0 \in Timeouts /\ ("TIMEOUT" \notin app => n = 0)
BY ApplicationRules DEF Timeouts, Uses

LEMMA MutexPends ==
  ASSUME KInv, "MUTEX" \in app, NEW e \in InUse, Owned(OSTCBCur) \subseteq {e},
         NEW n \in (IF OSEventPtr[e] = OSTCBCur THEN {0} ELSE Timeouts), OSMutexPend(e, n)
  PROVE  KRest'
<1>1. PICK c : c = OSTCBCur
  OBVIOUS
<1>2. TaskLevel /\ OSLockNesting = 0 /\ e \in Events /\ e \in Mutexes /\ OSEventType[e] = "MUTEX"
  BY DEF OSMutexPend, Mutexes, InUse
<1>3. 0 \in Timeouts /\ n \in Timeouts /\ n \in Nat
  BY ApplicationRules DEF Timeouts
<1>4. CASE Seize(e)
  BY <1>2, <1>4, Seizes
<1>5. CASE /\ ~Seize(e) /\ OSEventCnt[e] # Available /\ Inherits(e)
  <2>1. Lends(c, OSEventPtr[e], e, n)
    BY <1>1, <1>2, <1>3, <1>5 DEF OSMutexPend, Lends
  <2>2. QED
    BY <2>1, LendsKeep
<1>6. CASE /\ ~Seize(e) /\ OSEventCnt[e] # Available /\ ~Inherits(e)
  <2>1. /\ OSRdyTbl' = OSRdyTbl \ {OSTCBPrio[c]} /\ Wait(e, OSEventTbl, "MUTEX", n)
        /\ UNCHANGED <<prios, processor, ecb, queue, flag, client>>
    BY <1>1, <1>6 DEF OSMutexPend
  <2>2. Owned(c) # {} => n = 0
    BY <1>1 DEF Owned
  <2>3. ~Filled(e)
    BY <1>2, <1>6 DEF Filled
  <2>4. c \in Live /\ c \in TCBs /\ inCall[c] = "none"
    BY <1>1, <1>2, AtTaskLevel
  <2>5. OSTCBEventPtr' \in [TCBs -> Events \cup {NULL}] /\ OSTCBEventMultiPtr' \in [TCBs -> SUBSET Events]
        /\ \A t \in Live \ {c} : OSTCBEventPtr'[t] = OSTCBEventPtr[t]
    BY <1>1, <1>2, <2>1, <2>4 DEF KInv, TypeOK, Wait, Live, TCBs
  <2>6. Block({e}, OSEventTbl, {"MUTEX"}, n, "MUTEX")
    BY <2>1 DEF Wait
  <2>7. Blocks(c, {e}, {"MUTEX"}, n, "MUTEX")
    BY <1>1, <1>2, <1>3, <1>6, <2>1, <2>2, <2>3, <2>5, <2>6 DEF Blocks, StatBits
  <2>8. Tables'
    <3>1. UNCHANGED <<OSTCBPrio, OSTCBPrioTbl, OSEventType, OSFlagType, OSFlagWaitList, node>>
      BY <2>1 DEF prios, ecb, flag
    <3>2. QED
      BY <1>1, <1>2, <2>1, <2>4, <3>1, WaitsForEvent DEF KInv, Single
  <2>9. UNCHANGED flag /\ FlagsTyped' /\ \A t \in OSFlagWaitList' : ~Satisfied(OSFlagFlags', node'[t])
    BY <2>1, KInvParts DEF FlagsTyped, flag, NothingToTake
  <2>10. QED
    BY <2>7, <2>8, <2>9, BlocksKeep
<1>7. QED
  BY <1>4, <1>5, <1>6 DEF OSMutexPend

LEMMA MutexServices ==
  ASSUME KInv, Uses("MUTEX"), NEW e \in InUse, MutexService(e)
  PROVE  KRest'
<1>1. "MUTEX" \in app /\ e \in Events
  BY DEF Uses, InUse
<1>2. ASSUME NEW pip \in Pip, OSMutexCreate(e, pip) PROVE KRest'
  BY <1>1, <1>2, MutexCreates
<1>3. ASSUME Owned(OSTCBCur) \subseteq {e},
             NEW n \in (IF OSEventPtr[e] = OSTCBCur THEN {0} ELSE Timeouts), OSMutexPend(e, n)
      PROVE  KRest'
  BY <1>1, <1>3, MutexPends
<1>4. ASSUME Owned(OSTCBCur) \subseteq {e}, OSMutexAccept(e) PROVE KRest'
  BY <1>1, <1>4, Seizes DEF OSMutexAccept, Mutexes
<1>5. ASSUME OSMutexPost(e) PROVE KRest'
  BY <1>1, <1>5, MutexPosts
<1>6. ASSUME OSEventTbl[e] = {}, NEW always \in BOOLEAN,
             OSEventCnt[e] = Available \/ (always /\ OSEventPtr[e] = OSTCBCur), OSMutexDel(e, always)
      PROVE  KRest'
  BY <1>1, <1>6, MutexGoes
<1>7. QED
  BY <1>2, <1>3, <1>4, <1>5, <1>6 DEF MutexService

-----------------------------------------------------------------------------
\* An owner waits without a timeout (ApplicationRules).
LEMMA OwnersDoNotTime ==
  ASSUME KInv, NEW c, Owned(c) # {}, NEW type \in app \cap {"SEM", "MBOX", "Q", "FLAG", "MULTI"}
  PROVE  type # "MULTI" /\ Timeouts = {0}
<1>1. "MUTEX" \in app
  BY DEF Owned, KInv, UsedOnly
<1>2. app \in Apps
  BY DEF KInv, TypeOK
<1>3. type # "MULTI" /\ "TIMEOUT" \notin app
  BY <1>1, <1>2, ApplicationRules
<1>4. QED
  BY <1>3 DEF Timeouts, Uses

\* The running task waits for a semaphore, a mailbox or a queue ...
LEMMA WaitsKeep ==
  ASSUME KInv, NEW type \in app \cap {"SEM", "MBOX", "Q"}, NEW e \in Events, NEW n \in Timeouts,
         TaskLevel, OSLockNesting = 0, OSEventType[e] = type, ~Filled(e),
         Wait(e, OSEventTbl, type, n), OSRdyTbl' = OSRdyTbl \ {OSTCBPrio[OSTCBCur]},
         UNCHANGED <<prios, processor, ecb, queue, flag, client>>
  PROVE  KRest'
<1>1. PICK c : c = OSTCBCur
  OBVIOUS
<1>2. c \in Live /\ c \in TCBs /\ inCall[c] = "none"
  BY <1>1, AtTaskLevel
<1>3. Owned(c) # {} => n = 0
  BY OwnersDoNotTime
<1>4. OSTCBEventPtr' \in [TCBs -> Events \cup {NULL}] /\ OSTCBEventMultiPtr' \in [TCBs -> SUBSET Events]
      /\ \A t \in Live \ {c} : OSTCBEventPtr'[t] = OSTCBEventPtr[t]
  BY <1>1, <1>2 DEF KInv, TypeOK, Wait, Live, TCBs
<1>5. Block({e}, OSEventTbl, {type}, n, type)
  BY DEF Wait
<1>6. e \notin Mutexes
  BY DEF Mutexes
<1>7. Blocks(c, {e}, {type}, n, type)
  BY <1>1, <1>3, <1>4, <1>5, <1>6 DEF Blocks, StatBits
<1>8. Tables'
  <2>1. UNCHANGED <<OSTCBPrio, OSTCBPrioTbl, OSEventType, OSFlagType, OSFlagWaitList, node>>
    BY DEF prios, ecb, flag
  <2>2. QED
    BY <1>1, <1>2, <2>1, WaitsForEvent DEF KInv, Single
<1>9. UNCHANGED flag /\ FlagsTyped' /\ \A t \in OSFlagWaitList' : ~Satisfied(OSFlagFlags', node'[t])
  BY KInvParts DEF FlagsTyped, flag, NothingToTake
<1>10. QED
  BY <1>7, <1>8, <1>9, BlocksKeep

\* ... some of the tasks that wait for one are served, or let go ...
LEMMA SomeWaiters ==
  ASSUME KInv, NEW e \in Events, NEW W, W = Waiters(e) \/ (OSEventTbl[e] # {} /\ W = First(e))
  PROVE  W \in SUBSET Live /\ W \subseteq Waiters(e)
BY WaitersWait DEF KInv, Tables

LEMMA DeletesKeep ==
  ASSUME KInv, NEW type \in {"SEM", "MBOX", "Q"}, NEW e \in Events, Delete(e, type),
         OSRdyTbl' = OSRdyTbl \cup Released(Waiters(e)),
         UNCHANGED <<prios, processor, OSMutexPIP, queue, flag, client>>
  PROVE  KRest'
<1>1. /\ TaskLevel /\ OSEventType[e] = type /\ OSEventType' = [OSEventType EXCEPT ![e] = "UNUSED"]
      /\ OSEventCnt' = [OSEventCnt EXCEPT ![e] = 0] /\ OSEventPtr' = [OSEventPtr EXCEPT ![e] = NULL]
      /\ OS_EventTaskRdy(e, Waiters(e), NULL, type, "OK")
      /\ ThenSched \/ (UNCHANGED calls /\ OSEventTbl[e] = {})
  BY DEF Delete
<1>2. UNCHANGED <<prios, processor, OSMutexPIP, queue, flag, inside, app>> /\ owed' = owed
  BY DEF client
<1>3. OSEventTbl[e] = {} => Waiters(e) = {}
  BY DEF Waiters
<1>4. Waiters(e) \in SUBSET Live
  BY SomeWaiters
<1>5. Wakes(e, Waiters(e), NULL, "OK")
  BY <1>1, <1>2, <1>3, <1>4 DEF Wakes
<1>6. QED
  BY <1>1, <1>5, WakesKeep DEF AnyLevel

LEMMA AbortsKeep ==
  ASSUME KInv, NEW type \in {"SEM", "MBOX", "Q"}, NEW e \in Events, PendAbort(e, type)
  PROVE  KRest'
<1>1. PICK W \in {First(e), Waiters(e)} :
        OS_EventTaskRdy(e, W, NULL, type, "ABORT") /\ OSRdyTbl' = OSRdyTbl \cup Released(W)
  BY DEF PendAbort
<1>2. /\ AnyLevel /\ OSEventType[e] = type /\ OSEventTbl[e] # {} /\ ThenSched
      /\ UNCHANGED <<prios, processor, ecb, queue, flag, client>>
  BY DEF PendAbort
<1>3. W \in SUBSET Live /\ W \subseteq Waiters(e)
  BY <1>1, <1>2, SomeWaiters
<1>4. UNCHANGED <<OSMutexPIP, inside, app, OSEventType, OSEventCnt, OSEventPtr>> /\ owed' = owed
  BY <1>2 DEF ecb, client
<1>5. Wakes(e, W, NULL, "ABORT")
  BY <1>1, <1>2, <1>3, <1>4 DEF Wakes
<1>6. QED
  BY <1>2, <1>5, WakesKeep

LEMMA PostsKeep ==
  ASSUME KInv, NEW type \in {"SEM", "MBOX", "Q"}, NEW e \in Events, NEW W, NEW m \in Messages \cup {NULL},
         AnyLevel, OSEventType[e] = type, OSEventTbl[e] # {}, W \in {First(e), Waiters(e)},
         OS_EventTaskRdy(e, W, m, type, "OK"), OSRdyTbl' = OSRdyTbl \cup Released(W),
         (ThenSched /\ owed' = owed) \/ (UNCHANGED calls /\ owed' = TRUE),
         UNCHANGED <<prios, processor, ecb, queue, flag, inside, app>>
  PROVE  KRest'
<1>1. W \in SUBSET Live /\ W \subseteq Waiters(e)
  BY SomeWaiters
<1>2. UNCHANGED <<OSMutexPIP, OSEventType, OSEventCnt, OSEventPtr>>
  BY DEF ecb
<1>3. Wakes(e, W, m, "OK")
  BY <1>1, <1>2 DEF Wakes
<1>4. QED
  BY <1>3, WakesKeep

\* The services of semaphores, ...
LEMMA SemServices ==
  ASSUME KInv, Uses("SEM"), NEW e \in InUse, SemService(e)
  PROVE  KRest'
<1>1. "SEM" \in app \cap {"SEM", "MBOX", "Q"} /\ e \in Events /\ MaxCnt \in Nat
  BY KernelAssumption DEF Uses, InUse
<1>2. OSEventCnt[e] \in Nat /\ OSEventCnt \in [Events -> Nat]
  BY <1>1 DEF KInv, TypeOK
<1>3. ASSUME NEW n \in 0 .. MaxCnt, OSSemCreate(e, n) PROVE KRest'
  <2>1. /\ Create(e, "SEM") /\ OSEventCnt' = [OSEventCnt EXCEPT ![e] = n]
        /\ UNCHANGED <<prios, tcb, OSRdyTbl, processor, calls, OSEventPtr, OSMutexPIP, queue, flag, client>>
    BY <1>3 DEF OSSemCreate, SemCount
  <2>2. OSEventPtr' \in [Events -> Tasks \cup Messages \cup {NULL}]
    BY <2>1 DEF KInv, TypeOK
  <2>3. OSEventCnt' \in [Events -> Nat] /\ \A f \in Events \ {e} : OSEventCnt'[f] = OSEventCnt[f]
    BY <1>1, <1>2, <2>1
  <2>4. OSQEntries' = OSQEntries
    BY <2>1 DEF queue
  <2>5. QED
    BY <1>1, <2>1, <2>2, <2>3, <2>4, Creates
<1>4. ASSUME NEW n \in 0 .. MaxCnt, OSSemSet(e, n) PROVE KRest'
  BY <1>1, <1>4, SemCounts DEF OSSemSet
<1>5. ASSUME NEW n \in Timeouts, OSSemPend(e, n) PROVE KRest'
  <2>1. CASE OSEventCnt[e] > 0
    <3>1. OSEventType[e] = "SEM" /\ SemCount(e, OSEventCnt[e] - 1) /\ OnlyCount
      BY <1>5, <2>1 DEF OSSemPend
    <3>2. QED
      BY <1>1, <1>2, <2>1, <3>1, SemCounts
  <2>2. CASE ~(OSEventCnt[e] > 0)
    <3>1. /\ TaskLevel /\ OSLockNesting = 0 /\ OSEventType[e] = "SEM" /\ Wait(e, OSEventTbl, "SEM", n)
          /\ OSRdyTbl' = OSRdyTbl \ {OSTCBPrio[OSTCBCur]}
          /\ UNCHANGED <<prios, processor, ecb, queue, flag, client>>
      BY <1>5, <2>2 DEF OSSemPend
    <3>2. ~Filled(e)
      BY <2>2, <3>1 DEF Filled
    <3>3. QED
      BY <1>1, <3>1, <3>2, WaitsKeep
  <2>3. QED
    BY <2>1, <2>2
<1>6. ASSUME OSSemAccept(e) PROVE KRest'
  BY <1>1, <1>2, <1>6, SemCounts DEF OSSemAccept
<1>7. ASSUME OSSemPost(e) PROVE KRest'
  <2>1. CASE OSEventTbl[e] # {}
    <3>1. /\ AnyLevel /\ OSEventType[e] = "SEM" /\ OS_EventTaskRdy(e, First(e), NULL, "SEM", "OK")
          /\ OSRdyTbl' = OSRdyTbl \cup Released(First(e)) /\ ThenSched
          /\ UNCHANGED <<prios, processor, ecb, queue, flag, client>>
      BY <1>7, <2>1 DEF OSSemPost
    <3>2. UNCHANGED <<inside, app>> /\ owed' = owed
      BY <3>1 DEF client
    <3>3. QED
      BY <1>1, <2>1, <3>1, <3>2, PostsKeep
  <2>2. CASE OSEventTbl[e] = {}
    <3>1. OSEventType[e] = "SEM" /\ SemCount(e, OSEventCnt[e] + 1) /\ OnlyCount
      BY <1>7, <2>2 DEF OSSemPost
    <3>2. QED
      BY <1>1, <1>2, <2>2, <3>1, SemCounts
  <2>3. QED
    BY <2>1, <2>2
<1>8. ASSUME OSSemDel(e) PROVE KRest'
  BY <1>1, <1>8, DeletesKeep DEF OSSemDel
<1>9. ASSUME OSSemPendAbort(e) PROVE KRest'
  BY <1>1, <1>9, AbortsKeep DEF OSSemPendAbort
<1>10. QED
  BY <1>3, <1>4, <1>5, <1>6, <1>7, <1>8, <1>9 DEF SemService

\* ... of mailboxes ...
LEMMA MboxServices ==
  ASSUME KInv, Uses("MBOX"), NEW e \in InUse, MboxService(e)
  PROVE  KRest'
<1>1. "MBOX" \in app \cap {"SEM", "MBOX", "Q"} /\ e \in Events
  BY DEF Uses, InUse
<1>2. ASSUME NEW m \in Messages \cup {NULL}, OSMboxCreate(e, m) PROVE KRest'
  <2>1. /\ Create(e, "MBOX") /\ OSEventCnt' = [OSEventCnt EXCEPT ![e] = 0]
        /\ OSEventPtr' = [OSEventPtr EXCEPT ![e] = m]
        /\ UNCHANGED <<prios, tcb, OSRdyTbl, processor, calls, OSMutexPIP, queue, flag, client>>
    BY <1>2 DEF OSMboxCreate, Box
  <2>2. OSEventPtr \in [Events -> Tasks \cup Messages \cup {NULL}] /\ OSEventCnt \in [Events -> Nat]
    BY DEF KInv, TypeOK
  <2>3. OSEventPtr' \in [Events -> Tasks \cup Messages \cup {NULL}] /\ OSEventCnt' \in [Events -> Nat]
        /\ \A f \in Events \ {e} : OSEventCnt'[f] = OSEventCnt[f] /\ OSEventPtr'[f] = OSEventPtr[f]
    BY <1>1, <2>1, <2>2
  <2>4. OSQEntries' = OSQEntries
    BY <2>1 DEF queue
  <2>5. QED
    BY <1>1, <2>1, <2>3, <2>4, Creates
<1>3. ASSUME NEW n \in Timeouts, OSMboxPend(e, n) PROVE KRest'
  <2>1. CASE OSEventPtr[e] # NULL
    <3>1. OSEventType[e] = "MBOX" /\ Box(e, NULL) /\ OnlyBox
      BY <1>3, <2>1 DEF OSMboxPend
    <3>2. QED
      BY <1>1, <3>1, BoxHolds
  <2>2. CASE OSEventPtr[e] = NULL
    <3>1. /\ TaskLevel /\ OSLockNesting = 0 /\ OSEventType[e] = "MBOX" /\ Wait(e, OSEventTbl, "MBOX", n)
          /\ OSRdyTbl' = OSRdyTbl \ {OSTCBPrio[OSTCBCur]}
          /\ UNCHANGED <<prios, processor, ecb, queue, flag, client>>
      BY <1>3, <2>2 DEF OSMboxPend
    <3>2. ~Filled(e)
      BY <2>2, <3>1 DEF Filled
    <3>3. QED
      BY <1>1, <3>1, <3>2, WaitsKeep
  <2>3. QED
    BY <2>1, <2>2
<1>4. ASSUME OSMboxAccept(e) PROVE KRest'
  BY <1>1, <1>4, BoxHolds DEF OSMboxAccept
<1>5. ASSUME NEW m \in Messages, NEW broadcast \in BOOLEAN, NEW nosched \in BOOLEAN,
             OSMboxPostOpt(e, m, broadcast, nosched)
      PROVE  KRest'
  <2>1. CASE OSEventTbl[e] # {}
    <3> DEFINE W == IF broadcast THEN Waiters(e) ELSE First(e)
    <3>1. /\ AnyLevel /\ OSEventType[e] = "MBOX" /\ OS_EventTaskRdy(e, W, m, "MBOX", "OK")
          /\ OSRdyTbl' = OSRdyTbl \cup Released(W) /\ IF nosched THEN UNCHANGED calls ELSE ThenSched
          /\ owed' = (owed \/ nosched)
          /\ UNCHANGED <<prios, processor, ecb, queue, flag, inside, app>>
      BY <1>5, <2>1 DEF OSMboxPostOpt
    <3>2. W \in {First(e), Waiters(e)}
      OBVIOUS
    <3>3. owed \in BOOLEAN
      BY DEF KInv, TypeOK
    <3> HIDE DEF W
    <3>4. (ThenSched /\ owed' = owed) \/ (UNCHANGED calls /\ owed' = TRUE)
      BY <3>1, <3>3
    <3>5. QED
      BY <1>1, <2>1, <3>1, <3>2, <3>4, PostsKeep
  <2>2. CASE OSEventTbl[e] = {}
    <3>1. OSEventType[e] = "MBOX" /\ Box(e, m) /\ OnlyBox
      BY <1>5, <2>2 DEF OSMboxPostOpt
    <3>2. QED
      BY <1>1, <2>2, <3>1, BoxHolds
  <2>3. QED
    BY <2>1, <2>2
<1>6. ASSUME NEW m \in Messages, OSMboxPost(e, m) PROVE KRest'
  BY <1>5, <1>6 DEF OSMboxPost
<1>7. ASSUME OSMboxDel(e) PROVE KRest'
  BY <1>1, <1>7, DeletesKeep DEF OSMboxDel
<1>8. ASSUME OSMboxPendAbort(e) PROVE KRest'
  BY <1>1, <1>8, AbortsKeep DEF OSMboxPendAbort
<1>9. QED
  BY <1>2, <1>3, <1>4, <1>5, <1>6, <1>7, <1>8 DEF MboxService

\* ... and of queues.
LEMMA QServices ==
  ASSUME KInv, Uses("Q"), NEW e \in InUse, QService(e)
  PROVE  KRest'
<1>1. "Q" \in app \cap {"SEM", "MBOX", "Q"} /\ e \in Events
  BY DEF Uses, InUse
<1>2. OSQEntries \in [Events -> 0 .. QSize] /\ QSize \in Nat
  BY RingSize DEF KInv, TypeOK
<1>3. Emptied(e) => /\ \A f \in Events \ {e} : OSQEntries'[f] = OSQEntries[f]
                    /\ ~(OSQEntries'[e] > 0)
  BY <1>1, <1>2 DEF Emptied
<1>4. Removed(e) => \A f \in Events \ {e} : OSQEntries'[f] = OSQEntries[f]
  BY <1>2 DEF Removed
<1>5. \A m : Inserted(e, m) \/ InsertedFront(e, m) => \A f \in Events \ {e} : OSQEntries'[f] = OSQEntries[f]
  BY <1>2 DEF Inserted, InsertedFront
<1>6. ASSUME OSQCreate(e) PROVE KRest'
  <2>1. /\ Create(e, "Q") /\ OSEventCnt' = [OSEventCnt EXCEPT ![e] = 0] /\ Emptied(e)
        /\ UNCHANGED <<prios, tcb, OSRdyTbl, processor, calls, OSEventPtr, OSMutexPIP, flag, client>>
    BY <1>6 DEF OSQCreate
  <2>2. OSEventPtr \in [Events -> Tasks \cup Messages \cup {NULL}] /\ OSEventCnt \in [Events -> Nat]
    BY DEF KInv, TypeOK
  <2>3. OSEventPtr' \in [Events -> Tasks \cup Messages \cup {NULL}] /\ OSEventCnt' \in [Events -> Nat]
        /\ \A f \in Events \ {e} : OSEventCnt'[f] = OSEventCnt[f] /\ OSEventPtr'[f] = OSEventPtr[f]
    BY <1>1, <2>1, <2>2
  <2>4. QED
    BY <1>1, <1>3, <2>1, <2>3, Creates
<1>7. ASSUME OSQAccept(e) PROVE KRest'
  BY <1>1, <1>4, <1>7, QueueHolds DEF OSQAccept
<1>8. ASSUME OSQFlush(e) PROVE KRest'
  BY <1>1, <1>3, <1>8, QueueHolds DEF OSQFlush
<1>9. ASSUME NEW n \in Timeouts, OSQPend(e, n) PROVE KRest'
  <2>1. CASE OSQEntries[e] > 0
    <3>1. Removed(e) /\ OnlyQueue
      BY <1>9, <2>1 DEF OSQPend
    <3>2. QED
      BY <1>1, <1>4, <2>1, <3>1, QueueHolds
  <2>2. CASE ~(OSQEntries[e] > 0)
    <3>1. /\ TaskLevel /\ OSLockNesting = 0 /\ OSEventType[e] = "Q" /\ Wait(e, OSEventTbl, "Q", n)
          /\ OSRdyTbl' = OSRdyTbl \ {OSTCBPrio[OSTCBCur]}
          /\ UNCHANGED <<prios, processor, ecb, queue, flag, client>>
      BY <1>9, <2>2 DEF OSQPend
    <3>2. ~Filled(e)
      BY <2>2, <3>1 DEF Filled
    <3>3. QED
      BY <1>1, <3>1, <3>2, WaitsKeep
  <2>3. QED
    BY <2>1, <2>2
<1>10. ASSUME NEW m \in Messages, NEW front \in BOOLEAN, NEW broadcast \in BOOLEAN, NEW nosched \in BOOLEAN,
              OSQPostOpt(e, m, front, broadcast, nosched)
       PROVE  KRest'
  <2>1. CASE OSEventTbl[e] # {}
    <3> DEFINE W == IF broadcast THEN Waiters(e) ELSE First(e)
    <3>1. /\ AnyLevel /\ OSEventType[e] = "Q" /\ OS_EventTaskRdy(e, W, m, "Q", "OK")
          /\ OSRdyTbl' = OSRdyTbl \cup Released(W) /\ IF nosched THEN UNCHANGED calls ELSE ThenSched
          /\ owed' = (owed \/ nosched)
          /\ UNCHANGED <<prios, processor, ecb, queue, flag, inside, app>>
      BY <1>10, <2>1 DEF OSQPostOpt
    <3>2. W \in {First(e), Waiters(e)}
      OBVIOUS
    <3>3. owed \in BOOLEAN
      BY DEF KInv, TypeOK
    <3> HIDE DEF W
    <3>4. (ThenSched /\ owed' = owed) \/ (UNCHANGED calls /\ owed' = TRUE)
      BY <3>1, <3>3
    <3>5. QED
      BY <1>1, <2>1, <3>1, <3>2, <3>4, PostsKeep
  <2>2. CASE OSEventTbl[e] = {}
    <3>1. (Inserted(e, m) \/ InsertedFront(e, m)) /\ OnlyQueue
      BY <1>10, <2>2 DEF OSQPostOpt
    <3>2. QED
      BY <1>1, <1>5, <2>2, <3>1, QueueHolds
  <2>3. QED
    BY <2>1, <2>2
<1>11. ASSUME NEW m \in Messages, OSQPost(e, m) \/ OSQPostFront(e, m) PROVE KRest'
  BY <1>10, <1>11 DEF OSQPost, OSQPostFront
<1>12. ASSUME OSQDel(e) PROVE KRest'
  BY <1>1, <1>12, DeletesKeep DEF OSQDel
<1>13. ASSUME OSQPendAbort(e) PROVE KRest'
  BY <1>1, <1>13, AbortsKeep DEF OSQPendAbort
<1>14. QED
  BY <1>6, <1>7, <1>8, <1>9, <1>10, <1>11, <1>12, <1>13 DEF QService

\* Several events are waited for at once.
LEMMA MultiServices ==
  ASSUME KInv, Uses("MULTI"), NEW E \in SUBSET InUse, NEW n \in Timeouts, OSEventPendMulti(E, n)
  PROVE  KRest'
<1>1. PICK c : c = OSTCBCur
  OBVIOUS
<1>2. /\ TaskLevel /\ OSLockNesting = 0 /\ E # {} /\ E \in SUBSET Events
      /\ \A e \in E : OSEventType[e] \in {"SEM", "MBOX", "Q"}
      /\ UNCHANGED <<prios, processor, OSEventType, OSMutexPIP, OSQTbl, OSQIn, flag, client>>
  BY DEF OSEventPendMulti, InUse
<1>3. CASE \E e \in E : Full(e)
  BY <1>2, <1>3, TakesAll
<1>4. CASE ~ \E e \in E : Full(e)
  <2>1. /\ Block(E, OSEventTbl, {OSEventType[e] : e \in E} \cup {"MULTI"}, n, "MULTI")
        /\ OSTCBEventPtr' = [OSTCBEventPtr EXCEPT ![c] = NULL]
        /\ OSTCBEventMultiPtr' = [OSTCBEventMultiPtr EXCEPT ![c] = E]
        /\ OSRdyTbl' = OSRdyTbl \ {OSTCBPrio[c]}
        /\ UNCHANGED <<OSEventCnt, OSEventPtr, OSQOut, OSQEntries>>
    BY <1>1, <1>4 DEF OSEventPendMulti
  <2>2. c \in Live /\ c \in TCBs /\ inCall[c] = "none" /\ OSTCBPrio[c] \in OSRdyTbl
    BY <1>1, <1>2, AtTaskLevel
  <2>3. OSTCBEventPtr' \in [TCBs -> Events \cup {NULL}] /\ OSTCBEventMultiPtr' \in [TCBs -> SUBSET Events]
        /\ \A t \in Live \ {c} : OSTCBEventPtr'[t] = OSTCBEventPtr[t]
    BY <1>2, <2>1, <2>2 DEF KInv, TypeOK, Live, TCBs
  <2>4. \A e \in E : ~Filled(e) /\ e \notin Mutexes
    BY <1>2, <1>4 DEF Filled, Full, Mutexes
  <2>5. "MULTI" \in app /\ Owned(c) = {}
    BY OwnersDoNotTime DEF Uses
  <2>6. {OSEventType[e] : e \in E} \cup {"MULTI"} \in SUBSET (StatBits \ {"SUSPEND"})
    BY <1>2 DEF StatBits
  <2>7. UNCHANGED <<prios, processor, ecb, queue, client>>
    BY <1>2, <2>1 DEF ecb, queue
  <2>8. Blocks(c, E, {OSEventType[e] : e \in E} \cup {"MULTI"}, n, "MULTI")
    BY <1>1, <1>2, <2>1, <2>3, <2>4, <2>5, <2>6, <2>7 DEF Blocks
  <2>9. Tables'
    <3>1. UNCHANGED <<OSTCBPrio, OSTCBPrioTbl, OSEventType, OSFlagType, OSFlagWaitList, node>>
      BY <1>2 DEF prios, flag
    <3>2. QED
      BY <1>1, <1>2, <2>1, <2>2, <3>1, WaitsForEvents DEF KInv
  <2>10. FlagsTyped' /\ \A t \in OSFlagWaitList' : ~Satisfied(OSFlagFlags', node'[t])
    BY <1>2, KInvParts DEF FlagsTyped, flag, NothingToTake
  <2>11. QED
    BY <2>8, <2>9, <2>10, BlocksKeep
<1>5. QED
  BY <1>3, <1>4

-----------------------------------------------------------------------------
\* The services of the event flag group ...
LEMMA FlagWaits ==
  ASSUME KInv, "FLAG" \in app, NEW n \in Wants, NEW k \in Timeouts, OSFlagPend(n, k),
         ~Satisfied(OSFlagFlags, n)
  PROVE  KRest'
<1>1. PICK c : c = OSTCBCur
  OBVIOUS
<1>2. /\ TaskLevel /\ OSLockNesting = 0 /\ OSFlagType = "FLAG"
      /\ Block({}, OSEventTbl, {"FLAG"}, k, "FLAG")
      /\ OSFlagWaitList' = OSFlagWaitList \cup {c} /\ node' = [node EXCEPT ![c] = n]
      /\ OSRdyTbl' = OSRdyTbl \ {OSTCBPrio[c]}
      /\ UNCHANGED <<prios, OSTCBEventPtr, OSTCBEventMultiPtr, processor, ecb, queue,
                     OSFlagType, OSFlagFlags, OSTCBFlagsRdy, client>>
  BY <1>1 DEF OSFlagPend
<1>3. c \in Live /\ c \in Tasks /\ c \in TCBs /\ inCall[c] = "none" /\ c \notin OSFlagWaitList
  BY <1>1, <1>2, AtTaskLevel
<1>4. Owned(c) # {} => k = 0
  BY OwnersDoNotTime
<1>5. OSTCBEventPtr \in [TCBs -> Events \cup {NULL}] /\ OSTCBEventMultiPtr \in [TCBs -> SUBSET Events]
  BY DEF KInv, TypeOK
<1>6. Blocks(c, {}, {"FLAG"}, k, "FLAG")
  BY <1>1, <1>2, <1>4, <1>5 DEF Blocks, StatBits
<1>7. Tables'
  <2>1. UNCHANGED <<OSTCBPrio, OSTCBPrioTbl, OSTCBEventPtr, OSTCBEventMultiPtr, OSEventType, OSFlagType>>
    BY <1>2 DEF prios, ecb
  <2>2. QED
    BY <1>1, <1>2, <1>3, <2>1, NothingLeft, WaitsInFlagGroup DEF KInv
<1>8. n \in [flags : SUBSET Flags, wait : WaitTypes, consume : BOOLEAN]
  BY WantsTyped
<1>9. node \in [TCBs -> [flags : SUBSET Flags, wait : WaitTypes, consume : BOOLEAN]]
      /\ OSFlagWaitList \subseteq Tasks /\ FlagsTyped
  BY KInvParts DEF FlagsTyped
<1>10. FlagsTyped'
  BY <1>2, <1>3, <1>8, <1>9 DEF FlagsTyped
<1>11. \A t \in OSFlagWaitList' : ~Satisfied(OSFlagFlags', node'[t])
  <2>1. \A t \in OSFlagWaitList : ~Satisfied(OSFlagFlags, node[t])
    BY KInvParts DEF NothingToTake
  <2>2. \A t \in OSFlagWaitList : node'[t] = node[t]
    BY <1>2, <1>3, <1>9
  <2>3. node'[c] = n
    BY <1>2, <1>3, <1>9 DEF TCBs
  <2>4. QED
    BY <1>2, <2>1, <2>2, <2>3
<1>12. QED
  BY <1>6, <1>7, <1>10, <1>11, BlocksKeep

LEMMA FlagPosts ==
  ASSUME KInv, NEW flags \in Changes, NEW set \in BOOLEAN, OSFlagPost(flags, set)
  PROVE  KRest'
<1> DEFINE cur == IF set THEN OSFlagFlags \cup flags ELSE OSFlagFlags \ flags
           W == {t \in OSFlagWaitList : Satisfied(cur, node[t])}
           rdy == [t \in W |-> FlagsRdy(cur, node[t])]
<1>1. /\ AnyLevel /\ OSFlagType = "FLAG" /\ OSFlagFlags' = cur /\ OS_FlagTaskRdy(rdy)
      /\ IF \E t \in W : OSTCBStat[t] \subseteq {"FLAG"} THEN ThenSched ELSE UNCHANGED calls
      /\ UNCHANGED <<prios, OSEventTbl, processor, ecb, queue, OSFlagType, node, client>>
  BY DEF OSFlagPost
<1>2. OSFlagFlags' \subseteq Flags
  BY <1>1, ApplicationRules DEF KInv, TypeOK
<1>3. DOMAIN rdy = W /\ W \subseteq OSFlagWaitList
  OBVIOUS
<1>4. \A t \in W : rdy[t] \in SUBSET Flags
  <2> TAKE t \in W
  <2>1. t \in TCBs
    BY DEF KInv, TypeOK, TCBs
  <2>2. node[t] \in [flags : SUBSET Flags, wait : WaitTypes, consume : BOOLEAN]
    BY <2>1 DEF KInv, TypeOK
  <2>3. QED
    BY <1>1, <1>2, <2>2 DEF FlagsRdy
<1>5. \A t \in OSFlagWaitList' : ~Satisfied(OSFlagFlags', node'[t])
  BY <1>1 DEF OS_FlagTaskRdy, Unlinked
<1>6. ThenSched \/ (UNCHANGED calls /\ OSRdyTbl' = OSRdyTbl)
  <2>1. OSRdyTbl' = OSRdyTbl \cup {OSTCBPrio[t] : t \in {w \in W : OSTCBStat[w] \subseteq {"FLAG"}}}
    BY <1>1, <1>3 DEF OS_FlagTaskRdy
  <2> HIDE DEF W
  <2>2. CASE \E t \in W : OSTCBStat[t] \subseteq {"FLAG"}
    BY <1>1, <2>2
  <2>3. CASE ~ \E t \in W : OSTCBStat[t] \subseteq {"FLAG"}
    BY <1>1, <2>1, <2>3
  <2>4. QED
    BY <2>2, <2>3
<1> HIDE DEF rdy, W, cur
<1>7. QED
  BY <1>1, <1>2, <1>3, <1>4, <1>5, <1>6, FlagWakesKeep

LEMMA FlagsGo ==
  ASSUME KInv, NEW always \in BOOLEAN, OSFlagDel(always)
  PROVE  KRest'
<1> DEFINE rdy == [t \in OSFlagWaitList |-> {}]
<1>1. /\ TaskLevel /\ OSFlagType' = "UNUSED" /\ OSFlagFlags' = {} /\ OS_FlagTaskRdy(rdy)
      /\ IF OSFlagWaitList # {} THEN ThenSched ELSE UNCHANGED calls
      /\ UNCHANGED <<prios, OSEventTbl, processor, ecb, queue, node, client>>
  BY DEF OSFlagDel
<1>2. DOMAIN rdy = OSFlagWaitList /\ \A t \in DOMAIN rdy : rdy[t] \in SUBSET Flags
  OBVIOUS
<1> HIDE DEF rdy
<1>3. OSFlagWaitList' = {}
  BY <1>1, <1>2 DEF OS_FlagTaskRdy, Unlinked
<1>4. ThenSched \/ (UNCHANGED calls /\ OSRdyTbl' = OSRdyTbl)
  <2>1. OSRdyTbl' = OSRdyTbl \cup {OSTCBPrio[t] : t \in {w \in OSFlagWaitList : OSTCBStat[w] \subseteq {"FLAG"}}}
    BY <1>1, <1>2 DEF OS_FlagTaskRdy
  <2>2. QED
    BY <1>1, <2>1
<1>5. QED
  BY <1>1, <1>2, <1>3, <1>4, FlagWakesKeep DEF AnyLevel

LEMMA FlagServices ==
  ASSUME KInv, Uses("FLAG"), FlagService
  PROVE  KRest'
<1>1. "FLAG" \in app
  BY DEF Uses
<1>2. ASSUME NEW n \in Wants, OSFlagAccept(n) PROVE KRest'
  <2>1. /\ OSFlagFlags' = Consumed(OSFlagFlags, n, FlagsRdy(OSFlagFlags, n))
        /\ OSTCBFlagsRdy' = OSTCBFlagsRdy /\ OnlyFlags
    BY <1>2 DEF OSFlagAccept
  <2>2. QED
    BY <2>1, FlagsTaken DEF KInv, TypeOK
<1>3. ASSUME NEW n \in Wants, NEW k \in Timeouts, OSFlagPend(n, k) PROVE KRest'
  <2>1. CASE Satisfied(OSFlagFlags, n)
    <3>1. /\ OSFlagFlags' = Consumed(OSFlagFlags, n, FlagsRdy(OSFlagFlags, n)) /\ OnlyFlags
          /\ OSTCBFlagsRdy' = [OSTCBFlagsRdy EXCEPT ![OSTCBCur] = FlagsRdy(OSFlagFlags, n)]
      BY <1>3, <2>1 DEF OSFlagPend
    <3>2. FlagsRdy(OSFlagFlags, n) \in SUBSET Flags
      <4>1. n.flags \in SUBSET Flags
        BY WantsTyped
      <4>2. OSFlagFlags \in SUBSET Flags
        BY DEF KInv, TypeOK
      <4>3. QED
        BY <4>1, <4>2 DEF FlagsRdy
    <3>3. OSTCBFlagsRdy' \in [TCBs -> SUBSET Flags]
      BY <3>1, <3>2 DEF KInv, TypeOK
    <3>4. QED
      BY <3>1, <3>3, FlagsTaken
  <2>2. CASE ~Satisfied(OSFlagFlags, n)
    BY <1>1, <1>3, <2>2, FlagWaits
  <2>3. QED
    BY <2>1, <2>2
<1>4. ASSUME NEW flags \in Changes, OSFlagCreate(flags) PROVE KRest'
  BY <1>4, FlagsCreated
<1>5. ASSUME NEW flags \in Changes, OSFlagPost(flags, TRUE) \/ OSFlagPost(flags, FALSE) PROVE KRest'
  BY <1>5, FlagPosts
<1>6. ASSUME NEW always \in BOOLEAN, OSFlagDel(always) PROVE KRest'
  BY <1>6, FlagsGo
<1>7. QED
  BY <1>2, <1>3, <1>4, <1>5, <1>6 DEF FlagService

\* ... and those of tasks.
LEMMA TaskServices ==
  ASSUME KInv, NEW p \in Slots, TaskService(p)
  PROVE  KRest'
<1>1. p \in Prios /\ Slots \subseteq Prios
  BY DEF Slots
<1>2. CASE Uses("TASKS") /\ OSTaskCreate(p)
  BY <1>1, <1>2, Reserves DEF Uses
<1>3. CASE Uses("TASKS") /\ creating[OSTCBPrioTbl[p]] = NULL /\ OSTaskDel(p)
  BY <1>3, Ends DEF Uses
<1>4. CASE Uses("CHANGE") /\ OSIntNesting = 0 /\ Named(p) /\ (inCall[OSTCBPrioTbl[p]] = "none" \/ Listed(OSTCBPrioTbl[p]))
           /\ \E q \in Slots : OSTaskChangePrio(p, q)
  BY <1>1, <1>4, Changes_Prio DEF Uses
<1>5. CASE Uses("SUSPEND") /\ (OSTaskSuspend(p) \/ OSTaskResume(p))
  BY <1>5, Suspends, Resumptions DEF Uses
<1>6. CASE OSTimeDlyResume(p)
  BY <1>6, DelayEnds
<1>7. QED
  BY <1>2, <1>3, <1>4, <1>5, <1>6 DEF TaskService

\* A call that goes on, and the scheduler.
LEMMA NewTasks ==
  ASSUME KInv, OS_TCBInit
  PROVE  KRest'
<1>1. PICK c : c = OSTCBCur
  OBVIOUS
<1>2. PICK p : p = creating[c]
  OBVIOUS
<1>3. /\ c \notin toSched /\ p # NULL /\ creating' = [creating EXCEPT ![c] = NULL]
      /\ UNCHANGED <<OSEventTbl, processor, inCall, ecb, queue, flag, client>>
  BY <1>1, <1>2 DEF OS_TCBInit
<1>4. CASE Tasks \ Live = {}
  <2>1. /\ OSTCBPrioTbl' = [OSTCBPrioTbl EXCEPT ![p] = NULL]
        /\ UNCHANGED <<OSTCBPrio, tcb, OSRdyTbl, toSched>>
    BY <1>1, <1>2, <1>4 DEF OS_TCBInit
  <2>2. QED
    BY <1>1, <1>2, <1>3, <2>1, GivesBack
<1>5. CASE Tasks \ Live # {}
  <2>1. PICK t \in Tasks \ Live :
          /\ OSTCBPrio' = [OSTCBPrio EXCEPT ![t] = p]
          /\ OSTCBPrioTbl' = [OSTCBPrioTbl EXCEPT ![p] = t]
          /\ OSTCBStat' = [OSTCBStat EXCEPT ![t] = {}]
          /\ OSTCBStatPend' = [OSTCBStatPend EXCEPT ![t] = "OK"]
          /\ OSTCBDly' = [OSTCBDly EXCEPT ![t] = 0]
          /\ OSTCBMsg' = [OSTCBMsg EXCEPT ![t] = NULL]
          /\ OSTCBEventPtr' = [OSTCBEventPtr EXCEPT ![t] = NULL]
          /\ OSTCBEventMultiPtr' = [OSTCBEventMultiPtr EXCEPT ![t] = {}]
          /\ OSRdyTbl' = OSRdyTbl \cup {p}
          /\ toSched' = (toSched \ {t}) \cup {c}
    BY <1>1, <1>2, <1>5 DEF OS_TCBInit
  <2>2. QED
    BY <1>1, <1>2, <1>3, <2>1, Starts
<1>6. QED
  BY <1>4, <1>5

LEMMA Continues ==
  ASSUME KInv, Continue
  PROVE  KRest'
<1>1. CASE OSSemPendReturns
  BY <1>1, PendsReturn DEF OSSemPendReturns
<1>2. CASE OSMboxPendReturns
  BY <1>2, PendsReturn DEF OSMboxPendReturns
<1>3. CASE OSQPendReturns
  BY <1>3, PendsReturn DEF OSQPendReturns
<1>4. QED
  BY <1>1, <1>2, <1>3, NewTasks, MutexReturns, MultiReturns, FlagReturns DEF Continue

LEMMA NextKeeps ==
  ASSUME KInv, Next
  PROVE  KRest'
<1>1. CASE Scheduler
  BY <1>1, SchedulerSteps, Ticks DEF Scheduler, Uses
<1>2. CASE \E e \in InUse : \/ Uses("SEM") /\ SemService(e)
                            \/ Uses("MUTEX") /\ MutexService(e)
                            \/ Uses("MBOX") /\ MboxService(e)
                            \/ Uses("Q") /\ QService(e)
  BY <1>2, SemServices, MutexServices, MboxServices, QServices
<1>3. CASE Uses("MULTI") /\ \E E \in SUBSET InUse, n \in Timeouts : OSEventPendMulti(E, n)
  BY <1>3, MultiServices
<1>4. CASE Uses("DELAY") /\ \E n \in 1 .. MaxDly : OSTimeDly(n)
  <2>1. \A n \in 1 .. MaxDly : n \in Nat \ {0}
    BY ApplicationRules
  <2>2. QED
    BY <1>4, <2>1, Delays DEF Uses
<1>5. CASE Continue
  BY <1>5, Continues
<1>6. CASE \E p \in Slots : TaskService(p)
  BY <1>6, TaskServices
<1>7. CASE Uses("FLAG") /\ FlagService
  BY <1>7, FlagServices
<1>8. QED
  BY <1>1, <1>2, <1>3, <1>4, <1>5, <1>6, <1>7 DEF Next

LEMMA NothingHappens ==
  ASSUME KInv, UNCHANGED kernel
  PROVE  KRest'
<1>1. UNCHANGED <<OSTCBPrio, OSTCBPrioTbl, OSTCBStat, OSTCBStatPend, OSTCBDly, OSTCBMsg, OSTCBEventPtr,
                  OSTCBEventMultiPtr, OSRdyTbl, OSEventTbl, OSTCBCur, OSPrioCur, OSIntNesting,
                  OSLockNesting, inCall, toSched, creating>>
  BY DEF kernel, prios, tcb, processor, calls
<1>2. UNCHANGED <<OSEventType, OSEventCnt, OSEventPtr, OSMutexPIP, OSQTbl, OSQIn, OSQOut, OSQEntries,
                  OSFlagType, OSFlagFlags, OSFlagWaitList, node, OSTCBFlagsRdy, inside, owed, app>>
  BY DEF kernel, ecb, queue, flag, client
<1>3. SchedulerStep
  BY <1>1, <1>2 DEF SchedulerStep, prios, tcb, ecb, queue, flag, KInv, UsedOnly
<1>4. KRest
  BY RestAndRings DEF KInv
<1>5. TasksTyped' /\ ProcessorTyped' /\ EventsTyped' /\ FlagsTyped' /\ ClientTyped'
  BY <1>1, <1>2, <1>4 DEF KRest, TasksTyped, ProcessorTyped, EventsTyped, FlagsTyped, ClientTyped
<1>6. UsedOnly'
  BY <1>1, <1>2, <1>4 DEF KRest, UsedOnly
<1>7. Live' = Live /\ Present' = Present /\ Mutexes' = Mutexes /\ \A t : WaitsIn(t)' = WaitsIn(t)
  BY <1>1, <1>2 DEF Live, Present, Mutexes, WaitsIn
<1>8. ListsNameTasks'
  BY <1>1, <1>2, <1>4, <1>7 DEF KRest, Tables, ListsNameTasks
<1>9. Standings'
  <2>1. \A t : Standing(t)' = Standing(t)
    BY <1>1, <1>2, <1>7 DEF Standing
  <2>2. QED
    BY <1>1, <1>2, <1>4, <1>7, <2>1 DEF KRest, Tables, Standings, Consistent, InNoCall, InSingle, InMulti, InFlag
<1>10. Names' /\ Creations'
  BY <1>1, <1>4, <1>7 DEF KRest, Names, Creations
<1>11. MutexesOwned'
  BY <1>1, <1>2, <1>4, <1>7 DEF KRest, MutexesOwned, Owner, Raised
<1>12. OwnersWait'
  BY <1>1, <1>2, <1>4, <1>7 DEF KRest, OwnersWait, Owner
<1>13. Processor'
  BY <1>1, <1>2, <1>4, <1>7 DEF KRest, Processor, Switches, Lowered, Demoted, Owner
<1>14. PrioTableAgrees'
  BY <1>1, <1>2, <1>4 DEF KRest, PrioTableAgrees
<1>15. NothingToTake'
  BY <1>1, <1>2, <1>4 DEF KRest, NothingToTake, Filled, Satisfied, FlagsRdy
<1>16. OwnerIsUrgent' /\ MutualExclusion'
  BY <1>1, <1>2, <1>4 DEF KRest, OwnerIsUrgent, MutualExclusion
<1>17. QED
  BY <1>5, <1>6, <1>8, <1>9, <1>10, <1>11, <1>12, <1>13, <1>14, <1>15, <1>16 DEF KRest, Tables

-----------------------------------------------------------------------------
\* What a wait cut short leaves behind: a step that keeps the event pointers, and
\* changes neither a call nor a type in a way that matters to them, keeps Leftovers.
TypesLast == \A e \in Events : OSEventType[e] = "UNUSED" \/ OSEventType'[e] = OSEventType[e]

LEMMA LeavesNoMore ==
  ASSUME KInv, app' = app, OSTCBEventMultiPtr' = OSTCBEventMultiPtr, TypesLast, Live' \subseteq Live,
         \A t \in Live' : inCall'[t] = inCall[t] \/ (inCall[t] = "none" /\ inCall'[t] # "MULTI"),
         \A t \in Live' : \/ OSTCBEventPtr'[t] = OSTCBEventPtr[t] \/ inCall'[t] # "MULTI"
                          \/ /\ OSTCBEventPtr'[t] \in Events
                             /\ OSEventType[OSTCBEventPtr'[t]] \in {"SEM", "MBOX", "Q"}
  PROVE  Leftovers'
<1>1. \A t \in TCBs : OSTCBEventMultiPtr'[t] # {} => "MULTI" \in app'
  BY DEF KInv, Leftovers
<1>2. ASSUME "DELETE" \notin app, NEW t \in Live'
      PROVE  /\ OSTCBEventMultiPtr'[t] # {} => inCall'[t] = "MULTI"
             /\ inCall'[t] = "MULTI" /\ OSTCBEventPtr'[t] # NULL
                  => OSEventType'[OSTCBEventPtr'[t]] \in {"SEM", "MBOX", "Q"}
  <2>1. /\ t \in Live /\ t \in TCBs
        /\ OSTCBEventMultiPtr[t] # {} => inCall[t] = "MULTI"
        /\ inCall[t] = "MULTI" /\ OSTCBEventPtr[t] # NULL
             => OSEventType[OSTCBEventPtr[t]] \in {"SEM", "MBOX", "Q"} /\ OSTCBEventPtr[t] \in Events
    BY <1>2 DEF KInv, Leftovers, TypeOK, Live, TCBs
  <2>2. inCall'[t] = "MULTI" => inCall[t] = "MULTI"
    BY <1>2
  <2>3. inCall[t] = "MULTI" => inCall'[t] = "MULTI"
    BY <1>2
  <2>4. QED
    BY <1>2, <2>1, <2>2, <2>3 DEF TypesLast
<1>3. QED
  BY <1>1, <1>2 DEF Leftovers

\* Where a deletion may end a wait, or none waits for several events, they need only
\* not appear from nothing.
LEMMA LeavesAnything ==
  ASSUME KInv, KRest', app' = app, app \cap {"DELETE", "MUTEX"} # {},
         \A t \in TCBs : OSTCBEventMultiPtr'[t] \in {OSTCBEventMultiPtr[t], {}}
  PROVE  Leftovers'
<1>1. \A t \in TCBs : OSTCBEventMultiPtr'[t] # {} => "MULTI" \in app'
  BY DEF KInv, Leftovers
<1>2. CASE "DELETE" \in app
  BY <1>1, <1>2 DEF Leftovers
<1>3. CASE "MUTEX" \in app
  <2>1. "MULTI" \notin app
    BY <1>3, ApplicationRules DEF KInv, TypeOK
  <2>2. \A t \in TCBs : inCall'[t] # "MULTI"
    BY <2>1 DEF KRest, UsedOnly
  <2>3. Live' \subseteq TCBs
    BY DEF Live, TCBs
  <2>4. QED
    BY <1>1, <2>1, <2>2, <2>3 DEF Leftovers
<1>4. QED
  BY <1>2, <1>3

\* A step that changes no event pointer, no call and no priority.
LEMMA LeavesAsItIs ==
  ASSUME KInv, UNCHANGED <<prios, OSTCBEventPtr, OSTCBEventMultiPtr, inCall, app>>, TypesLast
  PROVE  Leftovers'
<1>1. Live' = Live
  BY DEF Live, prios
<1>2. QED
  BY <1>1, LeavesNoMore

\* Tasks are served with a semaphore, a mailbox or a queue; the flag group is none.
LEMMA LeavesTheServed ==
  ASSUME KInv, NEW e \in Events, OSEventType[e] \in {"SEM", "MBOX", "Q"}, NEW W, NEW msg, NEW stat,
         NEW pend, OS_EventTaskRdy(e, W, msg, stat, pend), UNCHANGED <<prios, inCall, app, OSEventType>>
  PROVE  Leftovers'
<1>1. Live' = Live /\ Live \subseteq TCBs
  BY DEF Live, prios, TCBs
<1>2. OSTCBEventMultiPtr' = OSTCBEventMultiPtr /\ TypesLast
  BY DEF OS_EventTaskRdy, TypesLast
<1>3. \A t \in TCBs : OSTCBEventPtr'[t] \in {OSTCBEventPtr[t], e}
  BY DEF OS_EventTaskRdy
<1>4. QED
  BY <1>1, <1>2, <1>3, LeavesNoMore

LEMMA LeavesTheWaiter ==
  ASSUME KInv, TaskLevel, NEW e, NEW type \in {"SEM", "MBOX", "Q"}, NEW n, Wait(e, OSEventTbl, type, n),
         UNCHANGED <<prios, app, OSEventType>>
  PROVE  Leftovers'
<1>1. Live' = Live /\ Live \subseteq TCBs
  BY DEF Live, prios, TCBs
<1>2. OSTCBEventMultiPtr' = OSTCBEventMultiPtr /\ TypesLast
  BY DEF Wait, TypesLast
<1>3. OSTCBCur \in TCBs /\ inCall[OSTCBCur] = "none"
  BY AtTaskLevel
<1>4. /\ inCall' = [inCall EXCEPT ![OSTCBCur] = type]
      /\ OSTCBEventPtr' = [OSTCBEventPtr EXCEPT ![OSTCBCur] = e]
      /\ inCall \in [TCBs -> {"none", "SEM", "MUTEX", "MBOX", "Q", "FLAG", "MULTI"}]
      /\ OSTCBEventPtr \in [TCBs -> Events \cup {NULL}]
  BY DEF Wait, Block, KInv, TypeOK
<1>5. /\ inCall'[OSTCBCur] = type
      /\ \A t \in TCBs \ {OSTCBCur} : inCall'[t] = inCall[t] /\ OSTCBEventPtr'[t] = OSTCBEventPtr[t]
  BY <1>3, <1>4
<1>6. QED
  BY <1>1, <1>2, <1>3, <1>5, LeavesNoMore

\* A call that ends in the ordinary way leaves nothing.
LEMMA LeavesNothing ==
  ASSUME KInv, NEW left, Return(left), UNCHANGED <<prios, app, OSEventType>>
  PROVE  Leftovers'
<1>1. Live' = Live /\ Live \subseteq TCBs /\ OSTCBCur \in TCBs
  BY DEF Live, prios, TCBs, KInv, TypeOK
<1>2. /\ OSTCBEventMultiPtr'[OSTCBCur] = {} /\ inCall'[OSTCBCur] = "none"
      /\ \A t \in TCBs \ {OSTCBCur} : /\ OSTCBEventMultiPtr'[t] = OSTCBEventMultiPtr[t]
                                      /\ inCall'[t] = inCall[t] /\ OSTCBEventPtr'[t] = OSTCBEventPtr[t]
  BY <1>1 DEF Return, KInv, TypeOK
<1>3. QED
  BY <1>1, <1>2 DEF KInv, Leftovers

\* An event is created, or only what events hold changes; one is deleted; waits for
\* one are aborted.
LEMMA LeavesEvents ==
  ASSUME KInv, NEW e \in Events, NEW type \in {"SEM", "MBOX", "Q"}
  PROVE  /\ Create(e, type) /\ UNCHANGED <<prios, tcb, calls, client>> => Leftovers'
         /\ UNCHANGED <<prios, tcb, calls, OSEventType, client>> => Leftovers'
         /\ KRest' /\ "DELETE" \in app /\ Delete(e, type) /\ UNCHANGED client => Leftovers'
         /\ PendAbort(e, type) => Leftovers'
<1>1. ASSUME Create(e, type), UNCHANGED <<prios, tcb, calls, client>> PROVE Leftovers'
  <2>1. TypesLast
    BY <1>1 DEF TypesLast, Create, KInv, TypeOK
  <2>2. UNCHANGED <<prios, OSTCBEventPtr, OSTCBEventMultiPtr, inCall, app>>
    BY <1>1 DEF tcb, calls, client
  <2>3. QED
    BY <2>1, <2>2, LeavesAsItIs
<1>2. ASSUME UNCHANGED <<prios, tcb, calls, OSEventType, client>> PROVE Leftovers'
  BY <1>2, LeavesAsItIs DEF tcb, calls, client, TypesLast
<1>3. ASSUME KRest', "DELETE" \in app, Delete(e, type), UNCHANGED client PROVE Leftovers'
  <2>1. app' = app /\ OSTCBEventMultiPtr' = OSTCBEventMultiPtr
    BY <1>3 DEF Delete, OS_EventTaskRdy, client
  <2>2. QED
    BY <1>3, <2>1, LeavesAnything
<1>4. ASSUME PendAbort(e, type) PROVE Leftovers'
  <2>1. PICK W \in {First(e), Waiters(e)} : OS_EventTaskRdy(e, W, NULL, type, "ABORT")
    BY <1>4 DEF PendAbort
  <2>2. OSEventType[e] = type /\ UNCHANGED <<prios, inCall, app, OSEventType>>
    BY <1>4 DEF PendAbort, ThenSched, ecb, client
  <2>3. QED
    BY <2>1, <2>2, LeavesTheServed
<1>5. QED
  BY <1>1, <1>2, <1>3, <1>4

LEMMA SemLeaves ==
  ASSUME KInv, KRest', NEW e \in Events, SemService(e)
  PROVE  Leftovers'
<1>1. CASE \E n \in 0 .. MaxCnt : OSSemCreate(e, n)
  BY <1>1, LeavesEvents DEF OSSemCreate
<1>2. CASE \/ OSSemAccept(e) \/ \E n \in 0 .. MaxCnt : OSSemSet(e, n)
           \/ (OSSemPost(e) \/ \E n \in Timeouts : OSSemPend(e, n)) /\ OnlyCount
  BY <1>2, LeavesEvents DEF OSSemAccept, OSSemSet, OnlyCount
<1>3. ASSUME NEW n \in Timeouts, OSSemPend(e, n), ~OnlyCount PROVE Leftovers'
  <2>1. TaskLevel /\ Wait(e, OSEventTbl, "SEM", n) /\ UNCHANGED <<prios, app, OSEventType>>
    BY <1>3 DEF OSSemPend, ecb, client
  <2>2. QED
    BY <2>1, LeavesTheWaiter
<1>4. CASE OSSemPost(e) /\ ~OnlyCount
  <2>1. /\ OSEventType[e] = "SEM" /\ OS_EventTaskRdy(e, First(e), NULL, "SEM", "OK")
        /\ UNCHANGED <<prios, inCall, app, OSEventType>>
    BY <1>4 DEF OSSemPost, ThenSched, ecb, client
  <2>2. QED
    BY <2>1, LeavesTheServed
<1>5. CASE Uses("DELETE") /\ OSSemDel(e)
  BY <1>5, LeavesEvents DEF OSSemDel, Uses
<1>6. CASE OSSemPendAbort(e)
  BY <1>6, LeavesEvents DEF OSSemPendAbort
<1>7. QED
  BY <1>1, <1>2, <1>3, <1>4, <1>5, <1>6 DEF SemService

LEMMA MboxLeaves ==
  ASSUME KInv, KRest', NEW e \in Events, MboxService(e)
  PROVE  Leftovers'
<1>1. CASE \E m \in Messages \cup {NULL} : OSMboxCreate(e, m)
  BY <1>1, LeavesEvents DEF OSMboxCreate
<1>2. CASE OSMboxAccept(e) \/ OnlyBox
  BY <1>2, LeavesEvents DEF OSMboxAccept, OnlyBox
<1>3. ASSUME NEW n \in Timeouts, OSMboxPend(e, n), ~OnlyBox PROVE Leftovers'
  <2>1. TaskLevel /\ Wait(e, OSEventTbl, "MBOX", n) /\ UNCHANGED <<prios, app, OSEventType>>
    BY <1>3 DEF OSMboxPend, ecb, client
  <2>2. QED
    BY <2>1, LeavesTheWaiter
<1>4. ASSUME NEW m \in Messages, NEW broadcast, NEW nosched, OSMboxPostOpt(e, m, broadcast, nosched), ~OnlyBox
      PROVE  Leftovers'
  <2>1. PICK W : OS_EventTaskRdy(e, W, m, "MBOX", "OK")
    BY <1>4 DEF OSMboxPostOpt
  <2>2. OSEventType[e] = "MBOX" /\ UNCHANGED <<prios, app, OSEventType>> /\ inCall' = inCall
    BY <1>4 DEF OSMboxPostOpt, ThenSched, calls, ecb
  <2>3. QED
    BY <2>1, <2>2, LeavesTheServed
<1>5. CASE Uses("DELETE") /\ OSMboxDel(e)
  BY <1>5, LeavesEvents DEF OSMboxDel, Uses
<1>6. CASE OSMboxPendAbort(e)
  BY <1>6, LeavesEvents DEF OSMboxPendAbort
<1>7. QED
  BY <1>1, <1>2, <1>3, <1>4, <1>5, <1>6 DEF MboxService, OSMboxPost

LEMMA QLeaves ==
  ASSUME KInv, KRest', NEW e \in Events, QService(e)
  PROVE  Leftovers'
<1>1. CASE OSQCreate(e)
  BY <1>1, LeavesEvents DEF OSQCreate
<1>2. CASE OSQAccept(e) \/ OSQFlush(e) \/ OnlyQueue
  BY <1>2, LeavesEvents DEF OSQAccept, OSQFlush, OnlyQueue, ecb
<1>3. ASSUME NEW n \in Timeouts, OSQPend(e, n), ~OnlyQueue PROVE Leftovers'
  <2>1. TaskLevel /\ Wait(e, OSEventTbl, "Q", n) /\ UNCHANGED <<prios, app, OSEventType>>
    BY <1>3 DEF OSQPend, ecb, client
  <2>2. QED
    BY <2>1, LeavesTheWaiter
<1>4. ASSUME NEW m \in Messages, NEW front, NEW broadcast, NEW nosched,
             OSQPostOpt(e, m, front, broadcast, nosched), ~OnlyQueue
      PROVE  Leftovers'
  <2>1. PICK W : OS_EventTaskRdy(e, W, m, "Q", "OK")
    BY <1>4 DEF OSQPostOpt
  <2>2. OSEventType[e] = "Q" /\ UNCHANGED <<prios, app, OSEventType>> /\ inCall' = inCall
    BY <1>4 DEF OSQPostOpt, ThenSched, calls, ecb
  <2>3. QED
    BY <2>1, <2>2, LeavesTheServed
<1>5. CASE Uses("DELETE") /\ OSQDel(e)
  BY <1>5, LeavesEvents DEF OSQDel, Uses
<1>6. CASE OSQPendAbort(e)
  BY <1>6, LeavesEvents DEF OSQPendAbort
<1>7. QED
  BY <1>1, <1>2, <1>3, <1>4, <1>5, <1>6 DEF QService, OSQPost, OSQPostFront

LEMMA MutexLeaves ==
  ASSUME KInv, KRest', "MUTEX" \in app, NEW e \in Events, MutexService(e)
  PROVE  Leftovers'
<1>1. app' = app /\ OSTCBEventMultiPtr' = OSTCBEventMultiPtr
  <2>1. Seize(e) => app' = app /\ OSTCBEventMultiPtr' = OSTCBEventMultiPtr
    BY DEF Seize, tcb
  <2>2. CASE (\E pip \in Pip : OSMutexCreate(e, pip)) \/ OSMutexPost(e)
    BY <2>2 DEF OSMutexCreate, OSMutexPost, OS_EventTaskRdy, tcb, client
  <2>3. CASE \E n : OSMutexPend(e, n)
    BY <2>1, <2>3 DEF OSMutexPend, Wait, client
  <2>4. CASE \E always : OSMutexDel(e, always)
    BY <2>4 DEF OSMutexDel, Delete, OS_EventTaskRdy
  <2>5. CASE OSMutexAccept(e)
    BY <2>1, <2>5 DEF OSMutexAccept
  <2>6. QED
    BY <2>2, <2>3, <2>4, <2>5 DEF MutexService
<1>2. QED
  BY <1>1, LeavesAnything

LEMMA FlagLeaves ==
  ASSUME KInv, FlagService, KRest', "DELETE" \notin app
  PROVE  Leftovers'
<1>1. ASSUME NEW n, NEW k, OSFlagPend(n, k), ~OnlyFlags PROVE Leftovers'
  <2>1. /\ TaskLevel /\ Block({}, OSEventTbl, {"FLAG"}, k, "FLAG")
        /\ UNCHANGED <<prios, OSTCBEventPtr, OSTCBEventMultiPtr, app, OSEventType>>
    BY <1>1 DEF OSFlagPend, ecb, client
  <2>2. OSTCBCur \in TCBs /\ inCall[OSTCBCur] = "none" /\ inCall' = [inCall EXCEPT ![OSTCBCur] = "FLAG"]
    BY <2>1, AtTaskLevel DEF Block
  <2>3. inCall'[OSTCBCur] = "FLAG" /\ \A t \in TCBs \ {OSTCBCur} : inCall'[t] = inCall[t]
    BY <2>2 DEF KInv, TypeOK
  <2>4. Live' = Live /\ Live \subseteq TCBs /\ TypesLast
    BY <2>1 DEF Live, prios, TCBs, TypesLast
  <2>5. QED
    BY <2>1, <2>2, <2>3, <2>4, LeavesNoMore
<1>2. CASE OnlyFlags
  BY <1>2, LeavesAsItIs DEF OnlyFlags, TypesLast, tcb, calls, ecb, client
<1>3. CASE \E flags : OSFlagCreate(flags)
  BY <1>3, LeavesAsItIs DEF OSFlagCreate, TypesLast, tcb, calls, ecb, client
<1>4. CASE \E flags, set : OSFlagPost(flags, set)
  BY <1>4, LeavesAsItIs DEF OSFlagPost, OS_FlagTaskRdy, ThenSched, TypesLast, calls, ecb, client
<1>5. QED
  BY <1>1, <1>2, <1>3, <1>4 DEF FlagService, OSFlagAccept, Uses

LEMMA FlagLeavesAnyhow ==
  ASSUME KInv, FlagService, KRest'
  PROVE  Leftovers'
<1>1. CASE "DELETE" \in app
  <2>1. app' = app /\ OSTCBEventMultiPtr' = OSTCBEventMultiPtr
    BY DEF FlagService, OSFlagCreate, OSFlagPost, OSFlagAccept, OSFlagPend, OSFlagDel, OS_FlagTaskRdy,
           OnlyFlags, tcb, client
  <2>2. QED
    BY <1>1, <2>1, LeavesAnything
<1>2. QED
  BY <1>1, FlagLeaves

\* Creation, deletion and new priorities make no task live but the one created.
LEMMA TaskLeaves ==
  ASSUME KInv, NEW p \in Prios, TaskService(p)
  PROVE  Leftovers'
<1>1. CASE OSTaskCreate(p)
  <2>1. /\ OSTCBPrioTbl[p] = NULL /\ OSTCBPrioTbl' = [OSTCBPrioTbl EXCEPT ![p] = RESERVED]
        /\ UNCHANGED <<OSTCBPrio, OSTCBEventPtr, OSTCBEventMultiPtr, inCall, app, OSEventType>>
    BY <1>1 DEF OSTaskCreate, tcb, ecb, client
  <2>2. /\ OSTCBPrioTbl \in [Prios \cup {IdlePrio} -> TCBs \cup {NULL, RESERVED}]
        /\ RESERVED \notin TCBs /\ NULL \notin TCBs /\ Live \subseteq TCBs
    BY KernelAssumption DEF KInv, TypeOK, Live, TCBs
  <2>3. NamesKept
    BY <2>1, <2>2 DEF NamesKept
  <2>4. Live' = Live
    BY <2>3, LiveNamed DEF KInv
  <2>5. QED
    BY <2>1, <2>4, LeavesNoMore DEF TypesLast
<1>2. CASE Uses("TASKS") /\ Named(p) /\ creating[OSTCBPrioTbl[p]] = NULL /\ OSTaskDel(p)
  <2> DEFINE t == OSTCBPrioTbl[p]
  <2>0. "TASKS" \in app
    BY <1>2 DEF Uses
  <2>1. t \in Live /\ t \in TCBs /\ OSTCBPrio[t] = p
    BY <1>2, <2>0, NamedTask, NoMutexes
  <2>2. Live' = Live \ {t}
    BY <1>2, <2>1, TaskEnds DEF KInv
  <2>3. inCall' = [inCall EXCEPT ![t] = "none"]
        /\ UNCHANGED <<OSTCBEventPtr, OSTCBEventMultiPtr, app, OSEventType>>
    BY <1>2 DEF OSTaskDel, ecb, client
  <2>4. Live \subseteq TCBs
    BY DEF Live, TCBs
  <2>5. \A u \in Live' : inCall'[u] = inCall[u]
    BY <2>1, <2>2, <2>3, <2>4 DEF KInv, TypeOK
  <2> HIDE DEF t
  <2>6. QED
    BY <2>2, <2>3, <2>5, LeavesNoMore DEF TypesLast
<1>3. CASE Uses("CHANGE") /\ OSIntNesting = 0 /\ Named(p)
           /\ (inCall[OSTCBPrioTbl[p]] = "none" \/ Listed(OSTCBPrioTbl[p]))
           /\ \E q \in Slots : OSTaskChangePrio(p, q)
  <2>1. PICK q \in Prios : OSTaskChangePrio(p, q)
    BY <1>3 DEF Slots
  <2> DEFINE t == OSTCBPrioTbl[p]
  <2>2. "CHANGE" \in app
    BY <1>3 DEF Uses
  <2>3. t \in Live /\ t \in TCBs /\ OSTCBPrio[t] = p
    BY <1>3, <2>2, NamedTask, NoMutexes
  <2>4. OSTCBEventMultiPtr[t] = {} \/ inCall[t] = "MULTI"
    BY <2>2, <2>3, NothingLeft
  <2>5. Live' = Live
    BY <1>3, <2>1, <2>3, <2>4, PrioChanges DEF KInv
  <2>6. UNCHANGED <<OSTCBEventPtr, OSTCBEventMultiPtr, inCall, app, OSEventType>>
    BY <2>1 DEF OSTaskChangePrio, ThenSched, tcb, ecb, client
  <2> HIDE DEF t
  <2>7. QED
    BY <2>5, <2>6, LeavesNoMore DEF TypesLast
<1>4. CASE OSTaskSuspend(p) \/ OSTaskResume(p) \/ OSTimeDlyResume(p)
  <2>1. UNCHANGED <<prios, OSTCBEventPtr, OSTCBEventMultiPtr, inCall, app, OSEventType>>
    BY <1>4 DEF OSTaskSuspend, OSTaskResume, OSTimeDlyResume, ThenSched, calls, ecb, client
  <2>2. QED
    BY <2>1, LeavesAsItIs DEF TypesLast
<1>5. QED
  BY <1>1, <1>2, <1>3, <1>4 DEF TaskService

\* The task that OS_TCBInit makes has no event pointers.
LEMMA NewTaskLeaves ==
  ASSUME KInv, OS_TCBInit
  PROVE  Leftovers'
<1>1. PICK p : p = creating[OSTCBCur]
  OBVIOUS
<1>2. /\ p # NULL /\ UNCHANGED <<inCall, OSEventType, app>>
  BY <1>1 DEF OS_TCBInit, ecb, client
<1>3. /\ p \in Prios /\ OSTCBPrioTbl[p] = RESERVED
      /\ OSTCBPrioTbl \in [Prios \cup {IdlePrio} -> TCBs \cup {NULL, RESERVED}]
      /\ OSTCBPrio \in [TCBs -> Prios \cup {IdlePrio}]
      /\ OSTCBEventMultiPtr \in [TCBs -> SUBSET Events]
      /\ OSTCBEventPtr \in [TCBs -> Events \cup {NULL}]
      /\ RESERVED \notin TCBs /\ NULL \notin TCBs /\ Live \subseteq TCBs /\ Tasks \subseteq TCBs
  BY <1>1, <1>2, KernelAssumption DEF KInv, TypeOK, Creations, Live, TCBs
<1>4. CASE Tasks \ Live = {}
  <2>1. /\ OSTCBPrioTbl' = [OSTCBPrioTbl EXCEPT ![p] = NULL]
        /\ UNCHANGED <<OSTCBPrio, OSTCBEventPtr, OSTCBEventMultiPtr>>
    BY <1>1, <1>4 DEF OS_TCBInit, tcb
  <2>2. NamesKept
    BY <1>3, <2>1 DEF NamesKept
  <2>3. Live' = Live
    BY <2>2, LiveNamed DEF KInv
  <2>4. QED
    BY <1>2, <2>1, <2>3, LeavesNoMore DEF TypesLast
<1>5. CASE Tasks \ Live # {}
  <2>1. PICK t \in Tasks \ Live :
          /\ OSTCBPrio' = [OSTCBPrio EXCEPT ![t] = p]
          /\ OSTCBPrioTbl' = [OSTCBPrioTbl EXCEPT ![p] = t]
          /\ OSTCBEventPtr' = [OSTCBEventPtr EXCEPT ![t] = NULL]
          /\ OSTCBEventMultiPtr' = [OSTCBEventMultiPtr EXCEPT ![t] = {}]
    BY <1>1, <1>5 DEF OS_TCBInit
  <2>2. t \in TCBs /\ inCall[t] = "none"
    BY <1>3 DEF KInv, Creations
  <2>3. /\ OSTCBEventMultiPtr'[t] = {}
        /\ \A u \in TCBs \ {t} : /\ OSTCBEventMultiPtr'[u] = OSTCBEventMultiPtr[u]
                                 /\ OSTCBEventPtr'[u] = OSTCBEventPtr[u]
    BY <1>3, <2>1, <2>2
  <2>4. ASSUME NEW u \in Live', u # t PROVE u \in Live
    <3>1. u \in Tasks /\ OSTCBPrioTbl'[OSTCBPrio'[u]] = u
      BY <2>4 DEF Live
    <3>2. OSTCBPrio'[u] = OSTCBPrio[u] /\ OSTCBPrio[u] \in Prios \cup {IdlePrio}
      BY <1>3, <2>1, <2>4, <3>1
    <3>3. OSTCBPrio[u] # p
      BY <1>3, <2>1, <2>4, <3>1, <3>2
    <3>4. OSTCBPrioTbl'[OSTCBPrio[u]] = OSTCBPrioTbl[OSTCBPrio[u]]
      BY <1>3, <2>1, <3>2, <3>3
    <3>5. QED
      BY <3>1, <3>2, <3>4 DEF Live
  <2>5. \A u \in TCBs : OSTCBEventMultiPtr'[u] # {} => "MULTI" \in app'
    BY <1>2, <2>3 DEF KInv, Leftovers
  <2>6. ASSUME "DELETE" \notin app, NEW u \in Live'
        PROVE  /\ OSTCBEventMultiPtr'[u] # {} => inCall'[u] = "MULTI"
               /\ inCall'[u] = "MULTI" /\ OSTCBEventPtr'[u] # NULL
                    => OSEventType'[OSTCBEventPtr'[u]] \in {"SEM", "MBOX", "Q"}
    <3>1. CASE u = t
      BY <1>2, <2>2, <2>3, <3>1
    <3>2. CASE u # t
      BY <1>2, <1>3, <2>3, <2>4, <2>6, <3>2 DEF KInv, Leftovers
    <3>3. QED
      BY <3>1, <3>2
  <2>7. QED
    BY <1>2, <2>5, <2>6 DEF Leftovers
<1>6. QED
  BY <1>4, <1>5

LEMMA ContinueLeaves ==
  ASSUME KInv, KRest', Continue
  PROVE  Leftovers'
<1>1. ASSUME NEW call, PendReturns(call) PROVE Leftovers'
  BY <1>1, LeavesNothing DEF PendReturns, ecb
<1>2. CASE OSFlagPendReturns
  <2>1. /\ inCall' = [inCall EXCEPT ![OSTCBCur] = "none"] /\ inCall[OSTCBCur] = "FLAG"
        /\ UNCHANGED <<prios, OSTCBEventPtr, OSTCBEventMultiPtr, app, OSEventType>>
    BY <1>2 DEF OSFlagPendReturns, Resumes, ecb, client
  <2>2. Live' = Live /\ Live \subseteq TCBs /\ OSTCBCur \in TCBs
    BY <2>1 DEF Live, prios, TCBs, KInv, TypeOK
  <2>3. inCall'[OSTCBCur] = "none" /\ \A t \in TCBs \ {OSTCBCur} : inCall'[t] = inCall[t]
    BY <2>1, <2>2 DEF KInv, TypeOK
  <2>4. QED
    BY <2>1, <2>2, <2>3 DEF KInv, Leftovers
<1>3. CASE OSEventPendMultiReturns /\ ~Deleted(OSTCBCur)
  BY <1>3, LeavesNothing DEF OSEventPendMultiReturns, ecb, client
<1>4. CASE OSEventPendMultiReturns /\ Deleted(OSTCBCur)
  <2>1. OSTCBCur \in Live
    BY <1>4, AtResumption DEF OSEventPendMultiReturns
  <2>2. "DELETE" \in app
    BY <1>4, <2>1 DEF OSEventPendMultiReturns, Resumes, Deleted, KInv, Leftovers
  <2>3. app' = app /\ OSTCBEventMultiPtr' = OSTCBEventMultiPtr
    BY <1>4 DEF OSEventPendMultiReturns, tcb, client
  <2>4. QED
    BY <2>2, <2>3, LeavesAnything
<1>5. QED
  BY <1>1, <1>2, <1>3, <1>4, NewTaskLeaves
     DEF Continue, OSSemPendReturns, OSMboxPendReturns, OSQPendReturns, OSMutexPendReturns

LEMMA MultiLeaves ==
  ASSUME KInv, NEW E, NEW n, "MULTI" \in app, OSEventPendMulti(E, n)
  PROVE  Leftovers'
<1>1. TaskLevel /\ UNCHANGED <<prios, OSEventType, app>>
  BY DEF OSEventPendMulti, client
<1>2. CASE UNCHANGED <<OSTCBEventPtr, OSTCBEventMultiPtr, inCall>>
  BY <1>1, <1>2, LeavesAsItIs DEF TypesLast
<1>3. CASE /\ OSTCBEventPtr' = [OSTCBEventPtr EXCEPT ![OSTCBCur] = NULL]
           /\ OSTCBEventMultiPtr' = [OSTCBEventMultiPtr EXCEPT ![OSTCBCur] = E]
           /\ inCall' = [inCall EXCEPT ![OSTCBCur] = "MULTI"]
  <2>1. Live' = Live /\ Live \subseteq TCBs /\ OSTCBCur \in TCBs
    BY <1>1 DEF Live, prios, TCBs, KInv, TypeOK
  <2>2. /\ OSTCBEventPtr'[OSTCBCur] = NULL /\ inCall'[OSTCBCur] = "MULTI"
        /\ \A t \in TCBs \ {OSTCBCur} : /\ OSTCBEventMultiPtr'[t] = OSTCBEventMultiPtr[t]
                                        /\ inCall'[t] = inCall[t] /\ OSTCBEventPtr'[t] = OSTCBEventPtr[t]
    BY <1>3, <2>1 DEF KInv, TypeOK
  <2>3. QED
    BY <1>1, <2>1, <2>2 DEF KInv, Leftovers
<1>4. QED
  BY <1>2, <1>3 DEF OSEventPendMulti, Block, tcb, calls

\* Every step keeps Leftovers.
LEMMA LeftoversKept ==
  ASSUME KInv, [Next]_kernel, KRest'
  PROVE  Leftovers'
<1>1. CASE \/ Scheduler \/ \E n \in 1 .. MaxDly : OSTimeDly(n)
           \/ UNCHANGED kernel
  <2>1. UNCHANGED <<prios, OSTCBEventPtr, OSTCBEventMultiPtr, inCall, app, OSEventType>>
    BY <1>1 DEF Scheduler, OS_Sched, OSIntEnter, OSIntExit, OSTimeTick, OSSchedLock, OSSchedUnlock,
                OSTimeDly, ThenSched, kernel, tcb, calls, ecb, client
  <2>2. QED
    BY <2>1, LeavesAsItIs DEF TypesLast
<1>2. CASE \E e \in InUse : \/ Uses("SEM") /\ SemService(e)
                            \/ Uses("MUTEX") /\ MutexService(e)
                            \/ Uses("MBOX") /\ MboxService(e)
                            \/ Uses("Q") /\ QService(e)
  BY <1>2, SemLeaves, MutexLeaves, MboxLeaves, QLeaves DEF InUse, Uses
<1>3. CASE Uses("MULTI") /\ \E E \in SUBSET InUse, n \in Timeouts : OSEventPendMulti(E, n)
  BY <1>3, MultiLeaves DEF Uses
<1>4. CASE \E p \in Slots : TaskService(p)
  BY <1>4, TaskLeaves DEF Slots
<1>5. QED
  BY <1>1, <1>2, <1>3, <1>4, ContinueLeaves, FlagLeavesAnyhow DEF Next

-----------------------------------------------------------------------------
\* The tables that main and OSInit set up ...
LEMMA Started ==
  ASSUME Init
  PROVE  /\ OSTCBPrio \in [TCBs -> Prios \cup {IdlePrio}]
         /\ OSTCBPrioTbl \in [Prios \cup {IdlePrio} -> TCBs \cup {NULL, RESERVED}]
         /\ OSTCBPrio[Idle] = IdlePrio /\ OSTCBPrioTbl[IdlePrio] = Idle
         /\ \A t \in Tasks : OSTCBPrio[t] = Base[t] /\ OSTCBPrio[t] \in Prios
         /\ Live = Tasks \cap app
         /\ \A p \in Prios : OSTCBPrioTbl[p] = NULL \/ (OSTCBPrioTbl[p] \in Live
                                                         /\ OSTCBPrio[OSTCBPrioTbl[p]] = p)
         /\ OSRdyTbl = {OSTCBPrio[t] : t \in Present}
         /\ \A t \in Present : OSTCBPrioTbl[OSTCBPrio[t]] = t
<1> DEFINE created == (Tasks \cap app) \cup {Idle}
<1>1. /\ OSTCBPrio = [t \in TCBs |-> IF t = Idle THEN IdlePrio ELSE Base[t]]
      /\ OSTCBPrioTbl = [p \in Prios \cup {IdlePrio} |->
                           IF \E t \in created : OSTCBPrio[t] = p
                           THEN CHOOSE t \in created : OSTCBPrio[t] = p ELSE NULL]
      /\ OSRdyTbl = {OSTCBPrio[t] : t \in created}
  BY DEF Init, Boot
<1>2. IdlePrio \notin Prios /\ Idle \notin Tasks /\ NULL \notin TCBs /\ RESERVED \notin TCBs
  BY KernelAssumption DEF TCBs
<1>3. OSTCBPrio[Idle] = IdlePrio /\ \A t \in Tasks : OSTCBPrio[t] = Base[t] /\ OSTCBPrio[t] \in Prios
  BY <1>1, <1>2, ApplicationRules DEF TCBs
<1>4. OSTCBPrio \in [TCBs -> Prios \cup {IdlePrio}]
  BY <1>1, <1>2, ApplicationRules DEF TCBs
<1>5. created \subseteq TCBs /\ \A t, u \in created : OSTCBPrio[t] = OSTCBPrio[u] => t = u
  BY <1>2, <1>3, ApplicationRules DEF TCBs
<1> HIDE DEF created
<1>6. ASSUME NEW p \in Prios \cup {IdlePrio}
      PROVE  \/ OSTCBPrioTbl[p] \in created /\ OSTCBPrio[OSTCBPrioTbl[p]] = p
             \/ OSTCBPrioTbl[p] = NULL /\ \A t \in created : OSTCBPrio[t] # p
  <2>1. CASE \E t \in created : OSTCBPrio[t] = p
    <3>1. OSTCBPrioTbl[p] = CHOOSE t \in created : OSTCBPrio[t] = p
      BY <1>1, <2>1
    <3>2. QED
      BY <2>1, <3>1
  <2>2. CASE ~ \E t \in created : OSTCBPrio[t] = p
    BY <1>1, <2>2
  <2>3. QED
    BY <2>1, <2>2
<1>7. OSTCBPrioTbl \in [Prios \cup {IdlePrio} -> TCBs \cup {NULL, RESERVED}]
  <2>1. \A p \in Prios \cup {IdlePrio} : OSTCBPrioTbl[p] \in TCBs \cup {NULL, RESERVED}
    BY <1>5, <1>6
  <2>2. OSTCBPrioTbl = [p \in Prios \cup {IdlePrio} |-> OSTCBPrioTbl[p]]
    BY <1>1
  <2>3. QED
    BY <2>1, <2>2
<1>8. \A t \in created : OSTCBPrioTbl[OSTCBPrio[t]] = t
  <2> TAKE t \in created
  <2>1. OSTCBPrio[t] \in Prios \cup {IdlePrio}
    BY <1>4, <1>5
  <2>2. QED
    BY <1>5, <1>6, <2>1
<1>9. Live = Tasks \cap app
  <2>1. ASSUME NEW t \in Tasks, OSTCBPrioTbl[OSTCBPrio[t]] = t PROVE t \in app
    <3>1. OSTCBPrioTbl[OSTCBPrio[t]] \in created \cup {NULL}
      BY <1>3, <1>6
    <3>2. QED
      BY <1>2, <2>1, <3>1 DEF created, TCBs
  <2>2. QED
    BY <1>8, <2>1 DEF Live, created
<1>10. created = Present
  BY <1>9 DEF created, Present
<1>11. ASSUME NEW p \in Prios
       PROVE OSTCBPrioTbl[p] = NULL \/ (OSTCBPrioTbl[p] \in Live /\ OSTCBPrio[OSTCBPrioTbl[p]] = p)
  BY <1>2, <1>3, <1>6, <1>10 DEF Present
<1>12. OSTCBPrioTbl[IdlePrio] = Idle
  BY <1>3, <1>8 DEF created
<1>13. QED
  BY <1>1, <1>3, <1>4, <1>7, <1>8, <1>9, <1>10, <1>11, <1>12

\* ... satisfy the invariant.
LEMMA InitKeeps == Init => KInv
<1> SUFFICES ASSUME Init PROVE KInv
  OBVIOUS
<1>1. /\ app \in Apps
      /\ OSTCBStat = [t \in TCBs |-> {}] /\ OSTCBStatPend = [t \in TCBs |-> "OK"]
      /\ OSTCBDly = [t \in TCBs |-> 0] /\ OSTCBMsg = [t \in TCBs |-> NULL]
      /\ OSTCBEventPtr = [t \in TCBs |-> NULL] /\ OSTCBEventMultiPtr = [t \in TCBs |-> {}]
      /\ OSPrioCur \in OSRdyTbl /\ (\A p \in OSRdyTbl : OSPrioCur <= p)
      /\ OSTCBCur = OSTCBPrioTbl[OSPrioCur] /\ OSIntNesting = 0 /\ OSLockNesting = 0
      /\ inCall = [t \in TCBs |-> "none"] /\ toSched = {} /\ creating = [t \in TCBs |-> NULL]
  BY DEF Init, Boot
<1>2. /\ OSEventType = [e \in Events |-> "UNUSED"] /\ OSEventCnt = [e \in Events |-> 0]
      /\ OSEventPtr = [e \in Events |-> NULL] /\ OSMutexPIP = [e \in Events |-> NULL]
      /\ OSEventTbl = [e \in Events |-> {}]
      /\ OSFlagType = "UNUSED" /\ OSFlagFlags = {} /\ OSFlagWaitList = {}
      /\ node = [t \in TCBs |-> NoNode] /\ OSTCBFlagsRdy = [t \in TCBs |-> {}]
      /\ inside = [e \in Events |-> {}] /\ owed = FALSE
  BY DEF Init, Boot
<1>3. /\ OSTCBPrio \in [TCBs -> Prios \cup {IdlePrio}]
      /\ OSTCBPrioTbl \in [Prios \cup {IdlePrio} -> TCBs \cup {NULL, RESERVED}]
      /\ OSTCBPrio[Idle] = IdlePrio /\ OSTCBPrioTbl[IdlePrio] = Idle
      /\ \A t \in Tasks : OSTCBPrio[t] = Base[t] /\ OSTCBPrio[t] \in Prios
      /\ Live = Tasks \cap app
      /\ \A p \in Prios : OSTCBPrioTbl[p] = NULL \/ (OSTCBPrioTbl[p] \in Live
                                                      /\ OSTCBPrio[OSTCBPrioTbl[p]] = p)
      /\ OSRdyTbl = {OSTCBPrio[t] : t \in Present}
      /\ \A t \in Present : OSTCBPrioTbl[OSTCBPrio[t]] = t
  BY Started
<1>4. Present \subseteq TCBs /\ Live \subseteq TCBs /\ Live \subseteq Tasks /\ Idle \in Present
      /\ Live \subseteq Present
  BY DEF Present, Live, TCBs
<1>5. IdlePrio \notin Prios /\ Idle \notin Tasks /\ NULL \notin TCBs /\ RESERVED \notin TCBs
      /\ NULL \notin Events /\ RESERVED # NULL
  BY KernelAssumption DEF TCBs
<1>6. Mutexes = {}
  BY <1>2 DEF Mutexes
<1>7. \A t : WaitsIn(t) = {}
  BY <1>2 DEF WaitsIn
<1>8. TasksTyped
  <2>1. OSRdyTbl \subseteq Prios \cup {IdlePrio} /\ IdlePrio \in OSRdyTbl
    BY <1>3, <1>4
  <2>2. QED
    BY <1>1, <1>2, <1>3, <2>1 DEF TasksTyped, PendStats
<1>9. OSTCBCur \in Present /\ OSTCBPrio[OSTCBCur] = OSPrioCur /\ OSPrioCur \in Prios \cup {IdlePrio}
  <2>1. PICK t \in Present : OSPrioCur = OSTCBPrio[t]
    BY <1>1, <1>3
  <2>2. OSTCBCur = t
    BY <1>1, <1>3, <2>1
  <2>3. QED
    BY <1>3, <1>4, <2>1, <2>2
<1>10. ProcessorTyped
  BY <1>1, <1>4, <1>9, ApplicationRules DEF ProcessorTyped
<1>11. EventsTyped /\ ClientTyped
  BY <1>1, <1>2 DEF EventsTyped, ClientTyped, EventTypes
<1>12. FlagsTyped
  BY <1>2 DEF FlagsTyped, NoNode, WaitTypes
<1>13. UsedOnly
  BY <1>1, <1>2 DEF UsedOnly
<1>14. ListsNameTasks
  BY <1>2, <1>3, <1>4 DEF ListsNameTasks
<1>15. Standings
  <2>1. ASSUME NEW t \in Live PROVE Consistent(Standing(t))
    <3> DEFINE s == Standing(t)
    <3>1. t \in TCBs /\ OSTCBPrio[t] \in OSRdyTbl
      BY <1>3, <1>4
    <3>2. /\ s.stat = {} /\ s.pend = "OK" /\ s.dly = 0 /\ s.ev = NULL /\ s.multi = {}
          /\ s.call = "none" /\ s.in = {}
      BY <1>1, <1>7, <3>1 DEF Standing
    <3>3. s.links = {} /\ s.runs # {}
      BY <1>2, <3>1 DEF Standing
    <3> HIDE DEF s
    <3>4. Consistent(s)
      BY <3>2, <3>3, OutOfCall
    <3>5. QED
      BY <3>4 DEF s
  <2>2. QED
    BY <1>1, <1>4, <1>7, <2>1 DEF Standings
<1>16. Names
  BY <1>3, <1>4, <1>5, KernelAssumption DEF Names, TCBs
<1>17. Creations
  BY <1>1 DEF Creations
<1>18. MutexesOwned
  BY <1>2, <1>3, <1>6 DEF MutexesOwned
<1>19. OwnersWait
  BY <1>1, <1>2, <1>4, <1>6 DEF OwnersWait
<1>20. Processor
  BY <1>1, <1>2, <1>3, <1>6, <1>9 DEF Processor
<1>21. PrioTableAgrees
  <2>1. ASSUME NEW p \in Prios
        PROVE  OSTCBPrioTbl[p] # RESERVED /\ (OSTCBPrioTbl[p] \in TCBs => OSTCBPrio[OSTCBPrioTbl[p]] = p)
    BY <1>3, <1>4, <1>5
  <2>2. QED
    BY <2>1 DEF PrioTableAgrees
<1>22. NothingToTake
  BY <1>2 DEF NothingToTake, Filled
<1>23. OwnerIsUrgent /\ MutualExclusion
  BY <1>2 DEF OwnerIsUrgent, MutualExclusion
<1>24. KRest
  BY <1>8, <1>10, <1>11, <1>12, <1>13, <1>14, <1>15, <1>16, <1>17, <1>18, <1>19, <1>20, <1>21, <1>22,
     <1>23 DEF KRest, Tables
<1>25. Leftovers
  BY <1>1, <1>4 DEF Leftovers
<1>26. QED
  BY <1>24, <1>25, RingInit, RestAndRings

-----------------------------------------------------------------------------
\* The invariant: in every application that keeps ApplicationRules the tables of the kernel
\* agree with one another and with where its calls stand, after each of its services and
\* whatever runs between two of them; what the early return of OSEventPendMulti leaves in a
\* control block is part of it (Leftovers).
THEOREM KernelInvariant == Spec => []KInv
<1>1. KInv /\ [Next]_kernel => KRest'
  BY NextKeeps, NothingHappens
<1>2. KInv /\ [Next]_kernel => RingOK'
  BY RingNext DEF Kept, KInv
<1>3. KInv /\ [Next]_kernel => Leftovers'
  BY <1>1, LeftoversKept
<1>4. RingOK' /\ Leftovers' => (KRest' <=> KInv')
  BY RestAndRings, PTL
<1>5. KInv /\ [Next]_kernel => KInv'
  BY <1>1, <1>2, <1>3, <1>4
<1>6. QED
  BY InitKeeps, <1>5, PTL DEF Spec

\* Every variable of the kernel keeps its type.
THEOREM KernelTypeCorrect == Spec => []TypeOK
<1>1. KInv => TypeOK
  BY DEF KInv
<1>2. QED
  BY KernelInvariant, <1>1, PTL

\* No task of an application that keeps ApplicationRules is forgotten, whatever it waits for:
\* the ready table holds exactly those that nothing holds back.
THEOREM NoTaskForgotten == Spec => []TablesAgree
<1>1. KInv => TablesAgree
  <2> SUFFICES ASSUME KInv PROVE TablesAgree
    OBVIOUS
  <2>1. ASSUME NEW t \in Live
        PROVE  OSTCBPrio[t] \in OSRdyTbl
                 <=> ("SUSPEND" \notin OSTCBStat[t] /\ OSTCBDly[t] = 0 /\ ~Waiting(t))
    <3> DEFINE s == Standing(t)
    <3>1. Consistent(s)
      BY DEF KInv, Tables, Standings
    <3>2. /\ s.stat = OSTCBStat[t] /\ s.pend = OSTCBStatPend[t] /\ s.dly = OSTCBDly[t]
          /\ s.in = WaitsIn(t)
          /\ s.links # {} <=> t \in OSFlagWaitList
          /\ s.runs # {} <=> OSTCBPrio[t] \in OSRdyTbl
      BY Fields
    <3> HIDE DEF s
    <3>3. QED
      BY <3>1, <3>2 DEF Consistent, Waiting, Listed
  <2>2. ASSUME NEW p \in OSRdyTbl PROVE p = IdlePrio \/ \E t \in Live : OSTCBPrio[t] = p
    BY DEF KInv, Tables, ListsNameTasks, Names, Present
  <2>3. QED
    BY <2>1, <2>2 DEF TablesAgree
<1>2. QED
  BY KernelInvariant, <1>1, PTL

\* A task that waits is in the list of what it waits for, under the priority it has now,
\* and a list names only tasks that wait in a call of its kind, in every application that
\* keeps ApplicationRules.
THEOREM WaitersFound == Spec => []WaitListsAgree
<1>1. KInv => WaitListsAgree
  <2> SUFFICES ASSUME KInv PROVE WaitListsAgree
    OBVIOUS
  <2>1. ASSUME NEW t \in Live
        PROVE  /\ inCall[t] \in {"SEM", "MUTEX", "MBOX", "Q"} /\ inCall[t] \in OSTCBStat[t]
                    => WaitsIn(t) = {OSTCBEventPtr[t]}
               /\ inCall[t] = "MULTI" /\ OSTCBEventPtr[t] = NULL => WaitsIn(t) = OSTCBEventMultiPtr[t]
               /\ "FLAG" \in OSTCBStat[t] => t \in OSFlagWaitList
    <3> DEFINE s == Standing(t)
    <3>1. Consistent(s)
      BY DEF KInv, Tables, Standings
    <3>2. /\ s.stat = OSTCBStat[t] /\ s.ev = OSTCBEventPtr[t] /\ s.multi = OSTCBEventMultiPtr[t]
          /\ s.call = inCall[t] /\ s.in = WaitsIn(t)
          /\ s.links # {} <=> t \in OSFlagWaitList
      BY Fields
    <3>3. NULL \notin Events
      BY KernelAssumption
    <3> HIDE DEF s
    <3>4. CASE InNoCall(s)
      BY <3>2, <3>4 DEF InNoCall, Rest
    <3>5. CASE InSingle(s)
      BY <3>2, <3>5 DEF InSingle, Single, Rest
    <3>6. CASE InMulti(s)
      BY <3>2, <3>3, <3>6 DEF InMulti, Rest
    <3>7. CASE InFlag(s)
      BY <3>2, <3>7 DEF InFlag
    <3>8. QED
      BY <3>1, <3>4, <3>5, <3>6, <3>7 DEF Consistent
  <2>2. ASSUME NEW e \in Events, NEW p \in OSEventTbl[e]
        PROVE  /\ OSTCBPrioTbl[p] \in Live /\ OSTCBPrio[OSTCBPrioTbl[p]] = p
               /\ e = OSTCBEventPtr[OSTCBPrioTbl[p]] \/ e \in OSTCBEventMultiPtr[OSTCBPrioTbl[p]]
               /\ inCall[OSTCBPrioTbl[p]] \in {OSEventType[e], "MULTI"}
    <3>1. PICK t : t = OSTCBPrioTbl[p]
      OBVIOUS
    <3>2. t \in Live /\ OSTCBPrio[t] = p
      BY <3>1 DEF KInv, Tables, ListsNameTasks
    <3>3. e \in WaitsIn(t)
      BY <3>2 DEF WaitsIn
    <3>4. e = OSTCBEventPtr[t] \/ e \in OSTCBEventMultiPtr[t]
      BY <3>2, <3>3, WaitsForItsEvents DEF KInv
    <3>5. inCall[t] \in {OSEventType[e], "MULTI"}
      BY <3>2, <3>3 DEF KInv, Tables, Standings
    <3>6. QED
      BY <3>1, <3>2, <3>4, <3>5
  <2>3. QED
    BY <2>1, <2>2 DEF WaitListsAgree
<1>2. QED
  BY KernelInvariant, <1>1, PTL

\* Outside interrupts, scheduler locks and the last step of a service the most urgent
\* ready task runs, unless it was lowered and has not called the scheduler since.
THEOREM MostUrgentTaskRuns == Spec => []MostUrgentRuns
<1>1. KInv => MostUrgentRuns
  <2> SUFFICES ASSUME KInv, OSIntNesting = 0, OSLockNesting = 0, OSTCBCur \notin toSched, ~owed, ~Demoted
               PROVE  OSTCBCur = OSTCBPrioTbl[Highest(OSRdyTbl)]
    BY DEF MostUrgentRuns
  <2>1. /\ OSTCBPrio[OSTCBCur] \in OSRdyTbl /\ OSTCBCur \in Present
        /\ \A q \in OSRdyTbl : OSTCBPrio[OSTCBCur] <= q
    BY DEF KInv, Processor, Switches, Lowered
  <2>2. OSRdyTbl \in SUBSET Nat /\ OSRdyTbl # {}
    BY KernelAssumption DEF KInv, TypeOK
  <2>3. Highest(OSRdyTbl) \in OSRdyTbl /\ \A q \in OSRdyTbl : Highest(OSRdyTbl) <= q
    BY <2>2, HighestIsLeast
  <2>4. Highest(OSRdyTbl) = OSTCBPrio[OSTCBCur]
    <3>1. Highest(OSRdyTbl) \in Nat /\ OSTCBPrio[OSTCBCur] \in Nat
      BY <2>1, <2>2, <2>3
    <3>2. Highest(OSRdyTbl) <= OSTCBPrio[OSTCBCur]
      BY <2>1, <2>3
    <3>3. OSTCBPrio[OSTCBCur] <= Highest(OSRdyTbl)
      BY <2>1, <2>3
    <3> QED
      BY <3>1, <3>2, <3>3
  <2>5. OSTCBPrioTbl[OSTCBPrio[OSTCBCur]] = OSTCBCur
    BY <2>1 DEF KInv, Names, Present, Live
  <2>6. QED
    BY <2>4, <2>5
<1>2. QED
  BY KernelInvariant, <1>1, PTL

\* No task of an application that keeps ApplicationRules waits for what is there: no wakeup
\* is lost.
THEOREM NoLostWakeup == Spec => []NoneWaitsInVain
<1>1. KInv => NoneWaitsInVain
  BY DEF KInv
<1>2. QED
  BY KernelInvariant, <1>1, PTL

\* Priority inheritance: the owner of a mutex is at least as urgent as every waiter.
THEOREM OwnersInherit == Spec => []OwnerIsUrgent
<1>1. KInv => OwnerIsUrgent
  BY DEF KInv
<1>2. QED
  BY KernelInvariant, <1>1, PTL

\* A mutex has one holder: only its owner has been told that it has it.
THEOREM MutexesExclude == Spec => []MutualExclusion
<1>1. KInv => MutualExclusion
  BY DEF KInv
<1>2. QED
  BY KernelInvariant, <1>1, PTL

\* Every priority names the task that has it, or the owner that will have it back.
THEOREM PrioritiesNameTasks == Spec => []PrioTableAgrees
<1>1. KInv => PrioTableAgrees
  BY DEF KInv
<1>2. QED
  BY KernelInvariant, <1>1, PTL
=============================================================================
