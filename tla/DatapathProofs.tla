--------------------------- MODULE DatapathProofs ---------------------------
(***************************************************************************)
(* A decryption core does RC4, for every size of the memories, message,     *)
(* key range and read-during-write behaviour of the RAMs.                   *)
(***************************************************************************)
EXTENDS Datapath, Sequences, WellFoundedInduction, TLAPS

(* ------------------------------- types ---------------------------------- *)

IInv == TypeOK /\ e_mem \in Messages

LEMMA ByteFacts ==
  /\ N \in Nat \ {0, 1} /\ 0 \in Byte /\ N - 1 \in Byte /\ MessageLength \in Byte
  /\ \A n \in Nat : n % N \in Byte
  /\ \A a \in Byte : a \in Nat /\ (a # N - 1 => a + 1 \in Byte) /\ (a + 1) % N \in Byte
  /\ \A a, b \in Byte : (a + b) % N \in Byte
  /\ Garbage \subseteq Byte
  /\ \A a, b \in Byte : ByteXor(a, b) \in Byte
<1>1. N \in Nat \ {0, 1} /\ MessageLength \in 1 .. N - 1 /\ Garbage \subseteq Byte
      /\ \A a, b \in Byte : ByteXor(a, b) \in Byte
  BY DatapathAssumption DEF Byte
<1>2. \A n \in Nat : n % N \in Byte
  BY <1>1 DEF Byte
<1>3. \A a \in Byte : a \in Nat /\ a + 1 \in Nat /\ (a # N - 1 => a + 1 \in Byte)
  BY <1>1 DEF Byte
<1>4. \A a, b \in Byte : a + b \in Nat
  BY <1>3
<1>5. \A a, b \in Byte : (a + 1) % N \in Byte /\ (a + b) % N \in Byte
  BY <1>2, <1>3, <1>4
<1>6. QED
  BY <1>1, <1>2, <1>3, <1>5 DEF Byte

LEMMA SizeFacts ==
  /\ MessageLength \in Nat /\ MessageLength > 0 /\ N \in Nat /\ MessageLength < N
  /\ \A n \in 0 .. MessageLength - 1 : n \in Byte
BY DatapathAssumption DEF Byte

LEMMA KeyBytesType ==
  ASSUME NEW key \in Nat, NEW n \in Nat
  PROVE  Cipher!KeyBytes(key)[n % 3] \in Byte
<1>1. N * N \in Nat \ {0} /\ N \in Nat \ {0} /\ 1 \in Nat \ {0}
  BY ByteFacts
<1>2. \A d \in Nat \ {0} : key \div d \in Nat
  OBVIOUS
<1>3. n % 3 \in 0 .. 2
  OBVIOUS
<1>4. \A d \in Nat \ {0} : (key \div d) % N \in Byte
  BY <1>2, ByteFacts
<1>5. QED
  BY <1>1, <1>3, <1>4 DEF Cipher!KeyBytes

(* -------------------------- recursive functions -------------------------- *)

(* Induction, said of a set, and the functions that recursion defines: a     *)
(* run of F from c is the sequence of the values that F makes of c.          *)
Below == {ss \in Nat \X Nat : ss[1] < ss[2]}

Run(S, c, F, m, f) ==
  f \in [0 .. m -> S] /\ f[0] = c /\ \A n \in 0 .. m - 1 : f[n + 1] = F[n][f[n]]
HasRun(S, c, F, m) == \E f : Run(S, c, F, m, f)

(* A set of natural numbers that holds zero and with a number the next one   *)
(* holds all of them: another number would have a least one beside it.       *)
LEMMA SetInduction ==
  ASSUME NEW T \in SUBSET Nat, 0 \in T, \A n \in T : n + 1 \in T
  PROVE  T = Nat
<1> DEFINE U == Nat \ T
<1> SUFFICES ASSUME U # {} PROVE FALSE
  OBVIOUS
<1>1. IsWellFoundedOn(Below, Nat)
  BY NatLessThanWellFounded DEF Below, OpToRel
<1>2. PICK x \in U : \A y \in U : <<y, x>> \notin Below
  <2>1. U \subseteq Nat
    OBVIOUS
  <2> HIDE DEF U
  <2>2. QED
    BY <1>1, <2>1, WFMin
<1>3. x # 0 /\ x - 1 \in Nat /\ x - 1 < x
  OBVIOUS
<1>4. x - 1 \notin U
  BY <1>2, <1>3 DEF Below
<1>5. QED
  BY <1>3, <1>4

(* Every step function has a run of every length. *)
LEMMA Recursion ==
  \A S : \A c \in S : \A F \in [Nat -> [S -> S]] : \A m \in Nat : HasRun(S, c, F, m)
<1> SUFFICES ASSUME NEW S, NEW c \in S, NEW F \in [Nat -> [S -> S]]
             PROVE  \A m \in Nat : HasRun(S, c, F, m)
  OBVIOUS
<1> DEFINE T == {m \in Nat : HasRun(S, c, F, m)}
<1>1. 0 \in T
  <2>1. Run(S, c, F, 0, [n \in 0 .. 0 |-> c])
    BY DEF Run
  <2>2. QED
    BY <2>1 DEF HasRun
<1>2. ASSUME NEW m \in T PROVE m + 1 \in T
  <2>1. PICK f : Run(S, c, F, m, f)
    BY DEF HasRun
  <2> DEFINE g == [n \in 0 .. m + 1 |-> IF n = m + 1 THEN F[m][f[m]] ELSE f[n]]
  <2>2. m \in Nat /\ m \in 0 .. m /\ 0 \in 0 .. m
    OBVIOUS
  <2>3. f \in [0 .. m -> S] /\ f[0] = c /\ \A n \in 0 .. m - 1 : f[n + 1] = F[n][f[n]]
    BY <2>1 DEF Run
  <2>4. g \in [0 .. m + 1 -> S]
    <3>1. F[m][f[m]] \in S
      BY <2>2, <2>3
    <3>2. \A n \in 0 .. m + 1 : n # m + 1 => n \in 0 .. m
      BY <2>2
    <3>3. QED
      BY <2>3, <3>1, <3>2
  <2>5. g[0] = c
    BY <2>2, <2>3
  <2>6. ASSUME NEW n \in 0 .. (m + 1) - 1 PROVE g[n + 1] = F[n][g[n]]
    <3>1. n \in 0 .. m /\ n + 1 \in 0 .. m + 1 /\ n \in 0 .. m + 1 /\ n # m + 1
      BY <2>2
    <3>2. CASE n = m
      BY <3>1, <3>2
    <3>3. CASE n # m
      <4>1. n \in 0 .. m - 1 /\ n + 1 # m + 1
        BY <2>2, <3>1, <3>3
      <4>2. QED
        BY <2>3, <3>1, <4>1
    <3>4. QED
      BY <3>2, <3>3
  <2>7. Run(S, c, F, m + 1, g)
    <3> HIDE DEF g
    <3>1. QED
      BY <2>4, <2>5, <2>6 DEF Run
  <2>8. QED
    BY <2>2, <2>7 DEF HasRun
<1>3. T = Nat
  <2>1. T \in SUBSET Nat
    OBVIOUS
  <2> HIDE DEF T
  <2>2. QED
    BY <1>1, <1>2, <2>1, SetInduction
<1>4. QED
  BY <1>3

(* ------------------------------ RC4 itself ------------------------------- *)

Table == [Byte -> Byte]
Identity == [a \in Byte |-> a]

(* A permutation of three cells of a table is a table. *)
LEMMA ExchangeType ==
  ASSUME NEW t \in Table, NEW a \in Byte, NEW b \in Byte
  PROVE  Cipher!Exchange(t, a, b) \in Table
BY DEF Table, Cipher!Exchange

(* The key schedule is the run of its rounds. *)
LEMMA ScheduleRuns ==
  ASSUME NEW key \in Nat
  PROVE  /\ Cipher!Schedule(key) \in [0 .. N -> [s : Table, j : Byte]]
         /\ Cipher!Schedule(key)[0] = [s |-> Identity, j |-> 0]
         /\ \A n \in 0 .. N - 1 : Cipher!Schedule(key)[n + 1] =
              Cipher!Round(Cipher!KeyBytes(key), n, Cipher!Schedule(key)[n])
<1> DEFINE kb == Cipher!KeyBytes(key)
           S == [s : Table, j : Byte]
           zero == [s |-> Identity, j |-> 0]
           F == [n \in Nat |-> [r \in S |-> IF n < N THEN Cipher!Round(kb, n, r) ELSE r]]
           Is(f) == f = [n \in 0 .. N |-> IF n = 0 THEN zero
                                          ELSE Cipher!Round(kb, n - 1, f[n - 1])]
<1>1. N \in Nat /\ 0 \in 0 .. N
  BY ByteFacts
<1>2. zero \in S
  BY ByteFacts DEF Table, Identity
<1>3. ASSUME NEW n \in 0 .. N - 1, NEW r \in S PROVE Cipher!Round(kb, n, r) \in S
  <2> DEFINE j == (r.j + r.s[n] + kb[n % 3]) % N
  <2>1. n \in Byte /\ n \in Nat
    BY <1>1 DEF Byte
  <2>2. r.j \in Nat /\ r.s[n] \in Nat /\ r.s \in Table
    BY <2>1, ByteFacts DEF Table
  <2>3. kb[n % 3] \in Nat
    BY <2>1, KeyBytesType, ByteFacts
  <2> HIDE DEF kb
  <2>4. r.j + r.s[n] + kb[n % 3] \in Nat
    BY <2>2, <2>3
  <2>5. j \in Byte
    BY <2>4, ByteFacts
  <2>6. Cipher!Round(kb, n, r) = [s |-> Cipher!Exchange(r.s, n, j), j |-> j]
    BY DEF Cipher!Round
  <2> HIDE DEF j
  <2>7. QED
    BY <2>1, <2>2, <2>5, <2>6, ExchangeType
<1>4. F \in [Nat -> [S -> S]]
  <2> HIDE DEF kb, S
  <2>1. ASSUME NEW n \in Nat, NEW r \in S
        PROVE  (IF n < N THEN Cipher!Round(kb, n, r) ELSE r) \in S
    BY <1>1, <1>3
  <2>2. QED
    BY <2>1
<1>5. PICK f : Run(S, zero, F, N, f)
  <2> HIDE DEF S, zero, F
  <2>1. HasRun(S, zero, F, N)
    BY <1>1, <1>2, <1>4, Recursion
  <2>2. QED
    BY <2>1 DEF HasRun
<1>6. /\ f \in [0 .. N -> S] /\ f[0] = zero
      /\ \A n \in 0 .. N - 1 : f[n + 1] = Cipher!Round(kb, n, f[n])
  <2> HIDE DEF kb, S, zero
  <2>1. f \in [0 .. N -> S] /\ f[0] = zero
        /\ \A n \in 0 .. N - 1 : f[n + 1] = F[n][f[n]]
    <3> HIDE DEF F
    <3>1. QED
      BY <1>5 DEF Run
  <2>2. ASSUME NEW n \in 0 .. N - 1 PROVE f[n + 1] = Cipher!Round(kb, n, f[n])
    <3>1. n \in Nat /\ n < N /\ n \in 0 .. N
      BY <1>1
    <3>2. QED
      BY <2>1, <3>1
  <2>3. QED
    BY <2>1, <2>2
<1>7. Is(f)
  <2> HIDE DEF kb, S, zero
  <2>1. ASSUME NEW n \in 0 .. N
        PROVE  f[n] = IF n = 0 THEN zero ELSE Cipher!Round(kb, n - 1, f[n - 1])
    <3>1. CASE n = 0
      BY <1>6, <3>1
    <3>2. CASE n # 0
      <4>1. n - 1 \in 0 .. N - 1 /\ n - 1 + 1 = n
        BY <1>1, <3>2
      <4>2. QED
        BY <1>6, <3>2, <4>1
    <3>3. QED
      BY <3>1, <3>2
  <2>2. QED
    BY <1>6, <2>1
<1>8. Cipher!Schedule(key) = CHOOSE g : Is(g)
  BY DEF Cipher!Schedule, Cipher!Byte, Byte, Identity
<1>9. Is(Cipher!Schedule(key))
  <2> HIDE DEF Is
  <2>1. QED
    BY <1>7, <1>8
<1>10. \A n \in 0 .. N : Cipher!Schedule(key)[n] = f[n]
  <2> DEFINE R == Cipher!Schedule(key)
             T == {n \in Nat : n \in 0 .. N => R[n] = f[n]}
  <2> HIDE DEF kb, S, zero
  <2>1. \A n \in 0 .. N : R[n] = IF n = 0 THEN zero ELSE Cipher!Round(kb, n - 1, R[n - 1])
    <3> HIDE DEF R
    <3>1. R = [n \in 0 .. N |-> IF n = 0 THEN zero ELSE Cipher!Round(kb, n - 1, R[n - 1])]
      BY <1>9 DEF R
    <3>2. QED
      BY <3>1
  <2> HIDE DEF R
  <2>2. 0 \in T
    BY <1>1, <1>6, <2>1
  <2>3. ASSUME NEW n \in T PROVE n + 1 \in T
    <3> SUFFICES ASSUME n + 1 \in 0 .. N PROVE R[n + 1] = f[n + 1]
      OBVIOUS
    <3>1. n \in 0 .. N - 1 /\ n \in 0 .. N /\ n + 1 # 0 /\ (n + 1) - 1 = n
      BY <1>1
    <3>2. R[n] = f[n]
      BY <3>1
    <3>3. QED
      BY <1>6, <2>1, <3>1, <3>2
  <2>4. T = Nat
    <3>1. T \in SUBSET Nat
      OBVIOUS
    <3> HIDE DEF T
    <3>2. QED
      BY <2>2, <2>3, <3>1, SetInduction
  <2>5. QED
    BY <1>1, <2>4 DEF R
<1>11. Cipher!Schedule(key) = f
  <2> DEFINE R == Cipher!Schedule(key)
  <2> HIDE DEF kb, S, zero
  <2>1. R = [n \in 0 .. N |-> R[n]]
    BY <1>9
  <2>2. QED
    BY <1>6, <1>10, <2>1
<1>12. QED
  BY <1>6, <1>11

LEMMA ShuffledType ==
  ASSUME NEW key \in Nat
  PROVE  Cipher!Shuffled(key) \in Table
<1>1. N \in 0 .. N
  BY SizeFacts
<1>2. Cipher!Schedule(key)[N] \in [s : Table, j : Byte]
  BY <1>1, ScheduleRuns
<1>3. QED
  BY <1>2 DEF Cipher!Shuffled

(* The generator is the run of its turns, and its byte is read from the     *)
(* table of the same turn.                                                   *)
LEMMA GeneratorRuns ==
  ASSUME NEW key \in Nat
  PROVE  /\ Cipher!Generator(key) \in
              [0 .. MessageLength -> [s : Table, i : Byte, j : Byte, f : Byte]]
         /\ Cipher!Generator(key)[0] = [s |-> Cipher!Shuffled(key), i |-> 0, j |-> 0, f |-> 0]
         /\ \A n \in 0 .. MessageLength - 1 :
              Cipher!Generator(key)[n + 1] = Cipher!Turn(Cipher!Generator(key)[n])
<1> DEFINE M == MessageLength
           S == [s : Table, i : Byte, j : Byte, f : Byte]
           zero == [s |-> Cipher!Shuffled(key), i |-> 0, j |-> 0, f |-> 0]
           F == [n \in Nat |-> [r \in S |-> Cipher!Turn(r)]]
           Is(f) == f = [n \in 0 .. M |-> IF n = 0 THEN zero ELSE Cipher!Turn(f[n - 1])]
<1>1. M \in Nat /\ 0 \in 0 .. M
  BY DatapathAssumption
<1>2. zero \in S
  BY ByteFacts, ShuffledType
<1>3. ASSUME NEW r \in S PROVE Cipher!Turn(r) \in S
  <2> DEFINE i == (r.i + 1) % N
             j == (r.j + r.s[i]) % N
             t == Cipher!Exchange(r.s, i, j)
             a == (t[i] + t[j]) % N
  <2>1. i \in Byte
    BY ByteFacts
  <2>2. j \in Byte
    <3> HIDE DEF i
    <3>1. r.s[i] \in Byte /\ r.j \in Byte
      BY <2>1 DEF Table
    <3>2. QED
      BY <3>1, ByteFacts
  <2>3. t \in Table
    <3> HIDE DEF i, j
    <3>1. QED
      BY <2>1, <2>2, ExchangeType
  <2>4. a \in Byte
    <3> HIDE DEF i, j, t
    <3>1. t[i] \in Byte /\ t[j] \in Byte
      BY <2>1, <2>2, <2>3 DEF Table
    <3>2. QED
      BY <3>1, ByteFacts
  <2>5. t[a] \in Byte
    <3> HIDE DEF a, t
    <3>1. QED
      BY <2>3, <2>4 DEF Table
  <2>6. Cipher!Turn(r) = [s |-> t, i |-> i, j |-> j, f |-> t[a]]
    BY DEF Cipher!Turn
  <2> HIDE DEF i, j, t, a
  <2>7. QED
    BY <2>1, <2>2, <2>3, <2>5, <2>6
<1>4. F \in [Nat -> [S -> S]]
  <2> HIDE DEF S
  <2>1. QED
    BY <1>3
<1>5. PICK f : Run(S, zero, F, M, f)
  <2> HIDE DEF S, zero, F
  <2>1. HasRun(S, zero, F, M)
    BY <1>1, <1>2, <1>4, Recursion
  <2>2. QED
    BY <2>1 DEF HasRun
<1>6. /\ f \in [0 .. M -> S] /\ f[0] = zero
      /\ \A n \in 0 .. M - 1 : f[n + 1] = Cipher!Turn(f[n])
  <2> HIDE DEF S, zero, M
  <2>1. f \in [0 .. M -> S] /\ f[0] = zero
        /\ \A n \in 0 .. M - 1 : f[n + 1] = F[n][f[n]]
    <3> HIDE DEF F
    <3>1. QED
      BY <1>5 DEF Run
  <2>2. ASSUME NEW n \in 0 .. M - 1 PROVE f[n + 1] = Cipher!Turn(f[n])
    <3>1. n \in Nat /\ n \in 0 .. M
      BY <1>1
    <3>2. QED
      BY <2>1, <3>1
  <2>3. QED
    BY <2>1, <2>2
<1>7. Is(f)
  <2> HIDE DEF S, zero, M
  <2>1. ASSUME NEW n \in 0 .. M
        PROVE  f[n] = IF n = 0 THEN zero ELSE Cipher!Turn(f[n - 1])
    <3>1. CASE n = 0
      BY <1>6, <3>1
    <3>2. CASE n # 0
      <4>1. n - 1 \in 0 .. M - 1 /\ n - 1 + 1 = n
        BY <1>1, <3>2
      <4>2. QED
        BY <1>6, <3>2, <4>1
    <3>3. QED
      BY <3>1, <3>2
  <2>2. QED
    BY <1>6, <2>1
<1>8. Cipher!Generator(key) = CHOOSE g : Is(g)
  BY DEF Cipher!Generator
<1>9. Is(Cipher!Generator(key))
  <2> HIDE DEF Is
  <2>1. QED
    BY <1>7, <1>8
<1>10. \A n \in 0 .. M : Cipher!Generator(key)[n] = f[n]
  <2> DEFINE R == Cipher!Generator(key)
             T == {n \in Nat : n \in 0 .. M => R[n] = f[n]}
  <2> HIDE DEF S, zero, M
  <2>1. \A n \in 0 .. M : R[n] = IF n = 0 THEN zero ELSE Cipher!Turn(R[n - 1])
    <3> HIDE DEF R
    <3>1. R = [n \in 0 .. M |-> IF n = 0 THEN zero ELSE Cipher!Turn(R[n - 1])]
      BY <1>9 DEF R
    <3>2. QED
      BY <3>1
  <2> HIDE DEF R
  <2>2. 0 \in T
    BY <1>1, <1>6, <2>1
  <2>3. ASSUME NEW n \in T PROVE n + 1 \in T
    <3> SUFFICES ASSUME n + 1 \in 0 .. M PROVE R[n + 1] = f[n + 1]
      OBVIOUS
    <3>1. n \in 0 .. M - 1 /\ n \in 0 .. M /\ n + 1 # 0 /\ (n + 1) - 1 = n
      BY <1>1
    <3>2. R[n] = f[n]
      BY <3>1
    <3>3. QED
      BY <1>6, <2>1, <3>1, <3>2
  <2>4. T = Nat
    <3>1. T \in SUBSET Nat
      OBVIOUS
    <3> HIDE DEF T
    <3>2. QED
      BY <2>2, <2>3, <3>1, SetInduction
  <2>5. QED
    BY <1>1, <2>4 DEF R
<1>11. Cipher!Generator(key) = f
  <2> DEFINE R == Cipher!Generator(key)
  <2> HIDE DEF S, zero, M
  <2>1. R = [n \in 0 .. M |-> R[n]]
    BY <1>9
  <2>2. QED
    BY <1>6, <1>10, <2>1
<1>12. QED
  BY <1>6, <1>11

(* The plain text, cell by cell, as d_memory holds it. *)
Text(key) == [k \in Byte |-> IF k < MessageLength THEN Cipher!Plain(key, e_mem)[k] ELSE 0]

LEMMA TextFacts ==
  ASSUME IInv, NEW key \in Nat
  PROVE  /\ Text(key) \in [Byte -> Byte]
         /\ \A k \in 0 .. MessageLength - 1 :
              /\ Text(key)[k] = Cipher!Plain(key, e_mem)[k]
              /\ Text(key)[k] = ByteXor(Cipher!Generator(key)[k + 1].f, e_mem[k])
         /\ DOMAIN Cipher!Plain(key, e_mem) = 0 .. MessageLength - 1
<1>1. /\ e_mem \in [0 .. MessageLength - 1 -> Byte]
      /\ MessageLength \in Nat /\ N \in Nat /\ MessageLength < N
  BY SizeFacts, MessagesAssumption DEF IInv, Byte
<1>2. \A k \in 0 .. MessageLength - 1 : Cipher!Generator(key)[k + 1].f \in Byte
  <2>1. \A k \in 0 .. MessageLength - 1 : k + 1 \in 0 .. MessageLength
    BY <1>1
  <2>2. QED
    BY <2>1, GeneratorRuns
<1>3. /\ DOMAIN Cipher!Plain(key, e_mem) = 0 .. MessageLength - 1
      /\ \A k \in 0 .. MessageLength - 1 :
           /\ Cipher!Plain(key, e_mem)[k] = ByteXor(Cipher!Generator(key)[k + 1].f, e_mem[k])
           /\ Cipher!Plain(key, e_mem)[k] \in Byte
  BY <1>1, <1>2, ByteFacts DEF Cipher!Plain
<1>4. \A k \in Byte : k < MessageLength <=> k \in 0 .. MessageLength - 1
  BY <1>1 DEF Byte
<1>5. \A k \in 0 .. MessageLength - 1 : k \in Byte
  BY <1>1 DEF Byte
<1>6. QED
  BY <1>3, <1>4, <1>5, ByteFacts DEF Text

(* ------------------------- types, engine by engine ----------------------- *)

LEMMA RomType ==
  ASSUME e_mem \in Messages, NEW a \in Byte
  PROVE  Rom(a) \in Byte
<1>1. e_mem \in [0 .. MessageLength - 1 -> Byte]
  BY MessagesAssumption DEF Byte
<1>2. a \in Nat /\ MessageLength \in Nat /\ (a < MessageLength => a \in 0 .. MessageLength - 1)
  BY ByteFacts DEF Byte
<1>3. QED
  BY <1>1, <1>2, ByteFacts DEF Rom

LEMMA InitTypes == Init => IInv
<1> SUFFICES ASSUME Init PROVE IInv
  OBVIOUS
<1>1. Init_s_mem!TypeOK
  BY ByteFacts DEF Init, Init_s_mem!Start, Init_s_mem!START_ADDR, Init_s_mem!TypeOK, Byte
<1>2. Swap_s_mem!TypeOK
  BY ByteFacts DEF Init, Swap_s_mem!Start, Swap_s_mem!START_ADDR, Swap_s_mem!TypeOK,
                   Swap_s_mem!States, Swap_s_mem!Byte, Byte
<1>3. Decrypt_d_mem!TypeOK
  BY ByteFacts DEF Init, Decrypt_d_mem!Start, Decrypt_d_mem!START_K_ADDR,
                   Decrypt_d_mem!TypeOK, Decrypt_d_mem!States, Decrypt_d_mem!Byte, Byte
<1>4. e_q \in Byte /\ e_mem \in Messages
  BY RomType, ByteFacts DEF Init
<1>5. secret_key \in 0 .. LastKey
  BY KeyAssumption DEF Init
<1>6. QED
  BY <1>1, <1>2, <1>3, <1>4, <1>5, ByteFacts DEF Init, IInv, TypeOK

(* One edge of each engine. *)
LEMMA InitEngineTypes ==
  ASSUME IInv, Init_s_mem!Tick \/ Init_s_mem!Reset
  PROVE  Init_s_mem!TypeOK'
BY ByteFacts DEF IInv, TypeOK, Byte, Init_s_mem!TypeOK, Init_s_mem!Tick, Init_s_mem!Reset,
   Init_s_mem!Idle, Init_s_mem!First, Init_s_mem!Increment, Init_s_mem!Done,
   Init_s_mem!START_ADDR, Init_s_mem!END_ADDR

LEMMA SwapEngineTypes ==
  ASSUME IInv, Swap_s_mem!Tick \/ Swap_s_mem!Reset
  PROVE  Swap_s_mem!TypeOK'
<1> USE ByteFacts DEF IInv, TypeOK, Swap_s_mem!TypeOK, Swap_s_mem!States, Swap_s_mem!Byte, Byte
<1>1. CASE Swap_s_mem!Idle \/ Swap_s_mem!Reset
  BY <1>1 DEF Swap_s_mem!Idle, Swap_s_mem!Reset, Swap_s_mem!Clear, Swap_s_mem!START_ADDR
<1>2. CASE Swap_s_mem!SetIAddr \/ Swap_s_mem!WaitIAddr \/ Swap_s_mem!SetJAddr \/ Swap_s_mem!WaitJAddr
  BY <1>2 DEF Swap_s_mem!SetIAddr, Swap_s_mem!WaitIAddr, Swap_s_mem!SetJAddr,
              Swap_s_mem!WaitJAddr, Swap_s_mem!Present
<1>3. CASE Swap_s_mem!GetIData \/ Swap_s_mem!GetJData
  BY <1>3 DEF Swap_s_mem!GetIData, Swap_s_mem!GetJData
<1>4. CASE Swap_s_mem!AddSumJ
  <2> DEFINE k == Cipher!KeyBytes(secret_key)[w_i % 3]
             sum == w_j + w_i_data + k
  <2>1. k \in Nat /\ w_j \in Nat /\ w_i_data \in Nat
    BY KeyBytesType, KeyAssumption
  <2>2. w_j' = sum % N
    BY <1>4 DEF Swap_s_mem!AddSumJ, Swap_s_mem!keylength
  <2>3. sum \in Nat
    <3> HIDE DEF k
    <3>1. QED
      BY <2>1
  <2>4. w_j' \in Byte
    <3> HIDE DEF sum
    <3>1. QED
      BY <2>2, <2>3, ByteFacts
  <2>5. QED
    BY <1>4, <2>4 DEF Swap_s_mem!AddSumJ
<1>5. CASE Swap_s_mem!SwapDataI \/ Swap_s_mem!SwapDataJ
  BY <1>5 DEF Swap_s_mem!SwapDataI, Swap_s_mem!SwapDataJ, Swap_s_mem!WriteUntilSeen
<1>6. CASE Swap_s_mem!Increment \/ Swap_s_mem!Done
  BY <1>6 DEF Swap_s_mem!Increment, Swap_s_mem!Done, Swap_s_mem!END_ADDR
<1>7. QED
  BY <1>1, <1>2, <1>3, <1>4, <1>5, <1>6 DEF Swap_s_mem!Tick

LEMMA DecryptEngineTypes ==
  ASSUME IInv, Decrypt_d_mem!Tick \/ Decrypt_d_mem!Reset
  PROVE  Decrypt_d_mem!TypeOK'
<1> USE ByteFacts DEF IInv, TypeOK, Decrypt_d_mem!TypeOK, Decrypt_d_mem!States,
                      Decrypt_d_mem!Byte, Byte, Decrypt_d_mem!indices, Decrypt_d_mem!values,
                      Decrypt_d_mem!writeData
<1>1. CASE Decrypt_d_mem!Idle \/ Decrypt_d_mem!Reset
  BY <1>1 DEF Decrypt_d_mem!Idle, Decrypt_d_mem!Reset, Decrypt_d_mem!Clear,
              Decrypt_d_mem!START_K_ADDR
<1>2. CASE Decrypt_d_mem!SetIAddr
  BY <1>2 DEF Decrypt_d_mem!SetIAddr
<1>3. CASE Decrypt_d_mem!Wait
  <2>1. x_state' \in Decrypt_d_mem!States
    <3>1. /\ x_state \in {"WAIT_I_ADDR", "WAIT_J_ADDR", "WAIT_F_ADDR", "WAIT_K_ADDR", "DONE"}
          /\ x_state' = Decrypt_d_mem!WaitNext[x_state]
      BY <1>3 DEF Decrypt_d_mem!Wait, Decrypt_d_mem!WaitNext
    <3>2. /\ Decrypt_d_mem!WaitNext["WAIT_I_ADDR"] = "GET_I_DATA"
          /\ Decrypt_d_mem!WaitNext["WAIT_J_ADDR"] = "GET_J_DATA"
          /\ Decrypt_d_mem!WaitNext["WAIT_F_ADDR"] = "GET_F_VALUE"
          /\ Decrypt_d_mem!WaitNext["WAIT_K_ADDR"] = "DECRYPT"
          /\ Decrypt_d_mem!WaitNext["DONE"] = "IDLE"
      BY DEF Decrypt_d_mem!WaitNext
    <3>3. x_state' \in {"GET_I_DATA", "GET_J_DATA", "GET_F_VALUE", "DECRYPT", "IDLE"}
      BY <3>1, <3>2
    <3>4. QED
      BY <3>3
  <2>2. QED
    BY <1>3, <2>1 DEF Decrypt_d_mem!Wait
<1>4. CASE Decrypt_d_mem!GetIData \/ Decrypt_d_mem!GetJData \/ Decrypt_d_mem!GetFValue
  BY <1>4 DEF Decrypt_d_mem!GetIData, Decrypt_d_mem!GetJData, Decrypt_d_mem!GetFValue
<1>5. CASE Decrypt_d_mem!SetJAddr
  <2>1. (x_j + x_i_data) % N \in Byte
    BY ByteFacts
  <2>2. QED
    BY <1>5, <2>1 DEF Decrypt_d_mem!SetJAddr
<1>6. CASE Decrypt_d_mem!SwapDataI \/ Decrypt_d_mem!SwapDataJ
  BY <1>6 DEF Decrypt_d_mem!SwapDataI, Decrypt_d_mem!SwapDataJ, Decrypt_d_mem!Write
<1>7. CASE Decrypt_d_mem!WaitSwapI \/ Decrypt_d_mem!WaitSwapJ \/ Decrypt_d_mem!WaitDecrypt
  BY <1>7 DEF Decrypt_d_mem!WaitSwapI, Decrypt_d_mem!WaitSwapJ, Decrypt_d_mem!WaitDecrypt,
              Decrypt_d_mem!Seen
<1>8. CASE Decrypt_d_mem!SetFAddr \/ Decrypt_d_mem!SetKAddr
  <2>1. (x_i_data + x_j_data) % N \in Byte
    BY ByteFacts
  <2>2. QED
    BY <1>8, <2>1 DEF Decrypt_d_mem!SetFAddr, Decrypt_d_mem!SetKAddr
<1>9. CASE Decrypt_d_mem!Decrypt
  <2>1. ByteXor(f_value, e_q) \in Byte
    BY ByteFacts
  <2>2. QED
    BY <1>9, <2>1 DEF Decrypt_d_mem!Decrypt
<1>10. CASE Decrypt_d_mem!Validate
  BY <1>10 DEF Decrypt_d_mem!Validate
<1>11. CASE Decrypt_d_mem!Increment
  BY <1>11 DEF Decrypt_d_mem!Increment
<1>12. QED
  BY <1>1, <1>2, <1>3, <1>4, <1>5, <1>6, <1>7, <1>8, <1>9, <1>10, <1>11 DEF Decrypt_d_mem!Tick

(* The multiplexers put an address and a byte on the bus in every state. *)
LEMMA MemoryTypes ==
  ASSUME IInv, Memories
  PROVE  /\ s_mem' \in [Byte -> Byte] /\ d_mem' \in [Byte -> Byte]
         /\ s_q' \in Byte /\ d_q' \in Byte /\ e_q' \in Byte /\ e_mem' \in Messages
<1>1. /\ counter \in Byte /\ w_address \in Byte /\ x_address \in Byte
      /\ w_data \in Byte /\ x_s_data \in Byte /\ x_d_data \in Byte
      /\ s_mem \in [Byte -> Byte] /\ d_mem \in [Byte -> Byte] /\ e_mem \in Messages
  BY DEF IInv, TypeOK, Init_s_mem!TypeOK, Swap_s_mem!TypeOK, Decrypt_d_mem!TypeOK,
         Swap_s_mem!Byte, Decrypt_d_mem!Byte, Byte
<1>2. s_mem_addr \in Byte /\ s_mem_data_in \in Byte
  BY <1>1 DEF s_mem_addr, s_mem_data_in, Selected
<1>3. /\ s_mem' \in [Byte -> Byte] /\ d_mem' \in [Byte -> Byte]
      /\ s_q' \in Byte /\ d_q' \in Byte
  BY <1>1, <1>2 DEF Memories, RAM!CellsAfter, RAM!QAfter
<1>4. e_q' \in Byte /\ e_mem' \in Messages
  BY <1>1, RomType DEF Memories
<1>5. QED
  BY <1>3, <1>4

LEMMA StepTypes == IInv /\ [Next]_vars => IInv'
<1> SUFFICES ASSUME IInv, [Next]_vars PROVE IInv'
  OBVIOUS
<1>1. CASE Clock
  <2>1. Init_s_mem!TypeOK' /\ Swap_s_mem!TypeOK' /\ Decrypt_d_mem!TypeOK'
    BY <1>1, InitEngineTypes, SwapEngineTypes, DecryptEngineTypes DEF Clock
  <2>2. /\ state' \in {"IDLE", "S_MEM_INIT", "S_MEM_SWAP", "S_MEM_DECRYPT", "DONE"}
        /\ secret_key' \in 0 .. LastKey
    BY <1>1, KeyAssumption DEF IInv, TypeOK, Clock, ControlFSM, Stop, Begin, Initialise, Shuffle,
                               Try, Stay
  <2>3. stop' \in BOOLEAN
    BY <1>1 DEF Clock, StopInput
  <2>4. QED
    BY <1>1, <2>1, <2>2, <2>3, MemoryTypes DEF Clock, IInv, TypeOK
<1>2. CASE Reset
  <2>1. Init_s_mem!TypeOK' /\ Swap_s_mem!TypeOK' /\ Decrypt_d_mem!TypeOK'
    BY <1>2, InitEngineTypes, SwapEngineTypes, DecryptEngineTypes DEF Reset
  <2>2. QED
    BY <1>2, <2>1, KeyAssumption DEF Reset, IInv, TypeOK, memories
<1>3. CASE UNCHANGED vars
  BY <1>3 DEF vars, init, swap, decrypt, memories, IInv, TypeOK, Init_s_mem!TypeOK,
              Swap_s_mem!TypeOK, Decrypt_d_mem!TypeOK
<1>4. QED
  BY <1>1, <1>2, <1>3 DEF Next

(* ----------------------- the phases of a trial --------------------------- *)

(* The two engines on s_memory, as their own modules prove them. *)
Shuffling == INSTANCE KSAEngineProofs WITH
  start_flag <- state = "S_MEM_SWAP", data_out <- s_q,
  secret_key <- Cipher!KeyBytes(secret_key), state <- w_state,
  i_index <- w_i, j_index <- w_j, i_data <- w_i_data, j_data <- w_j_data,
  address <- w_address, data_in <- w_data, Tables <- {Identity}

Decrypting == INSTANCE PRGAEngineProofs WITH
  start_flag <- Running, s_data_out <- s_q, d_data_out <- d_q, e_data_out <- e_q,
  state <- x_state, i_index <- x_i, j_index <- x_j, k_index <- x_k,
  i_data <- x_i_data, j_data <- x_j_data, address <- x_address,
  s_data_in <- x_s_data, d_data_in <- x_d_data, Tables <- Table

(* init_memory: the cells below the counter are written, and at the end all. *)
Initialised ==
  state = "S_MEM_INIT" =>
    /\ i_state = "INCREMENT" => \A a \in Byte : a < counter => s_mem[a] = a
    /\ i_state = "DONE" => s_mem = Identity

(* swap_memory: the table it shows is the schedule's after as many rounds.   *)
Scheduled ==
  LET r == Cipher!Schedule(secret_key)[Shuffling!IShown]
  IN Shuffling!TableShown = r.s /\ Shuffling!JShown = r.j
ShuffledSoFar == state = "S_MEM_SWAP" => Shuffling!EngineInv /\ Scheduled

(* decrypt_memory: the generator it shows, and the text it has written, are  *)
(* those of as many characters.                                              *)
Turns == Decrypting!CharsShown + (IF Decrypting!Mixed THEN 1 ELSE 0)
Generated ==
  LET r == Cipher!Generator(secret_key)[Turns]
  IN /\ Decrypting!TableShown = r.s /\ Decrypting!IShown = r.i /\ Decrypting!JShown = r.j
     /\ Turns \in 0 .. MessageLength
     /\ Decrypting!Out = Decrypting!Chars(Text(secret_key), Decrypting!CharsShown)
DecryptedSoFar == Running => Decrypting!EngineInv /\ Generated

(* An engine that is not idle is the selected one; only a stop leaves one    *)
(* that writes s_memory on its own, and nothing but a reset ends DONE.       *)
TakeTurns ==
  /\ state # "DONE" => /\ i_state # "IDLE" => state = "S_MEM_INIT"
                       /\ w_state # "IDLE" => state = "S_MEM_SWAP"
  /\ x_state # "IDLE" => Running
  /\ key_found_flag => x_state \in {"IDLE", "DONE"}
  /\ key_found_flag /\ x_state = "IDLE" => state = "DONE"
  /\ IF state = "IDLE" THEN ~stop ELSE secret_key >= KeyStart

(* One edge of the two engines that write s_memory on their own. *)
LEMMA InitEngineMoves ==
  ASSUME Init_s_mem!Tick
  PROVE  /\ i_state = "IDLE" /\ state # "S_MEM_INIT" => i_state' = "IDLE"
         /\ i_state = "DONE" => i_state' = "IDLE"
BY DEF Init_s_mem!Tick, Init_s_mem!Idle, Init_s_mem!First, Init_s_mem!Increment, Init_s_mem!Done

LEMMA SwapEngineMoves ==
  ASSUME Swap_s_mem!Tick
  PROVE  /\ w_state = "IDLE" /\ state # "S_MEM_SWAP" => w_state' = "IDLE"
         /\ w_state = "DONE" => w_state' = "IDLE"
BY DEF Swap_s_mem!Tick, Swap_s_mem!Idle, Swap_s_mem!SetIAddr, Swap_s_mem!WaitIAddr,
   Swap_s_mem!SetJAddr, Swap_s_mem!WaitJAddr, Swap_s_mem!Present, Swap_s_mem!GetIData,
   Swap_s_mem!AddSumJ, Swap_s_mem!GetJData, Swap_s_mem!SwapDataI, Swap_s_mem!SwapDataJ,
   Swap_s_mem!WriteUntilSeen, Swap_s_mem!Increment, Swap_s_mem!Done

(* The verdict rises on the edge that ends a pass, and falls in the next one. *)
LEMMA DecryptEngineMoves ==
  ASSUME IInv, Decrypt_d_mem!Tick
  PROVE  /\ x_state = "IDLE" /\ state # "S_MEM_DECRYPT" => x_state' = "IDLE"
         /\ x_state = "IDLE" => x_state' \in {"IDLE", "SET_I_ADDR"}
         /\ x_state = "DONE" => x_state' = "IDLE"
         /\ x_state \in {"IDLE", "DONE"} => key_found_flag' = key_found_flag
         /\ key_found_flag' => key_found_flag \/ (x_state = "INCREMENT" /\ x_state' = "DONE")
<1>1. CASE Decrypt_d_mem!Idle
  BY <1>1 DEF Decrypt_d_mem!Idle
<1>2. CASE Decrypt_d_mem!Wait
  BY <1>2 DEF Decrypt_d_mem!Wait, Decrypt_d_mem!WaitNext
<1>3. CASE Decrypt_d_mem!Increment
  BY <1>3 DEF Decrypt_d_mem!Increment
<1>4. CASE Decrypt_d_mem!Validate
  BY <1>4 DEF Decrypt_d_mem!Validate
<1>5. CASE \/ Decrypt_d_mem!SetIAddr \/ Decrypt_d_mem!GetIData \/ Decrypt_d_mem!SetJAddr
           \/ Decrypt_d_mem!GetJData \/ Decrypt_d_mem!SwapDataI \/ Decrypt_d_mem!SwapDataJ
           \/ Decrypt_d_mem!WaitSwapI \/ Decrypt_d_mem!WaitSwapJ \/ Decrypt_d_mem!SetFAddr
           \/ Decrypt_d_mem!GetFValue \/ Decrypt_d_mem!SetKAddr \/ Decrypt_d_mem!Decrypt
           \/ Decrypt_d_mem!WaitDecrypt
  BY <1>5 DEF Decrypt_d_mem!SetIAddr, Decrypt_d_mem!GetIData, Decrypt_d_mem!SetJAddr,
     Decrypt_d_mem!GetJData, Decrypt_d_mem!SwapDataI, Decrypt_d_mem!SwapDataJ,
     Decrypt_d_mem!Write, Decrypt_d_mem!WaitSwapI, Decrypt_d_mem!WaitSwapJ, Decrypt_d_mem!Seen,
     Decrypt_d_mem!SetFAddr, Decrypt_d_mem!GetFValue, Decrypt_d_mem!SetKAddr,
     Decrypt_d_mem!Decrypt, Decrypt_d_mem!WaitDecrypt
<1>6. QED
  BY <1>1, <1>2, <1>3, <1>4, <1>5 DEF Decrypt_d_mem!Tick

(* Where the datapath goes at an edge. *)
LEMMA ControlMoves ==
  ASSUME IInv, ControlFSM
  PROVE  /\ stop \/ state = "DONE" => state' = "DONE" /\ UNCHANGED secret_key
         /\ ~stop /\ state = "IDLE" => state' = "S_MEM_INIT" /\ secret_key' = KeyStart
         /\ ~stop /\ state = "S_MEM_INIT" =>
              /\ state' = IF i_state = "DONE" THEN "S_MEM_SWAP" ELSE "S_MEM_INIT"
              /\ UNCHANGED secret_key
         /\ ~stop /\ state = "S_MEM_SWAP" =>
              /\ state' = IF w_state = "DONE" THEN "S_MEM_DECRYPT" ELSE "S_MEM_SWAP"
              /\ UNCHANGED secret_key
         /\ ~stop /\ state = "S_MEM_DECRYPT" /\ x_state # "DONE" =>
              UNCHANGED <<state, secret_key>>
         /\ ~stop /\ state = "S_MEM_DECRYPT" /\ x_state = "DONE" =>
              IF key_found_flag \/ secret_key \in {key_end_value, LastKey}
                THEN state' = "DONE" /\ UNCHANGED secret_key
                ELSE state' = "S_MEM_INIT" /\ secret_key' = secret_key + 1
BY DEF IInv, TypeOK, ControlFSM, Stop, Begin, Initialise, Shuffle, Try, Stay,
       Init_s_mem!done_flag, Swap_s_mem!done_flag, Decrypt_d_mem!done_flag

LEMMA StepTurns == IInv /\ TakeTurns /\ [Next]_vars => TakeTurns'
<1> SUFFICES ASSUME IInv, TakeTurns, [Next]_vars PROVE TakeTurns'
  OBVIOUS
<1>1. CASE Clock
  <2>1. /\ IInv /\ Init_s_mem!Tick /\ Swap_s_mem!Tick /\ Decrypt_d_mem!Tick /\ ControlFSM
        /\ state \in {"IDLE", "S_MEM_INIT", "S_MEM_SWAP", "S_MEM_DECRYPT", "DONE"}
        /\ secret_key \in Nat /\ KeyStart \in Nat
    BY <1>1, KeyAssumption DEF Clock, IInv, TypeOK
  <2>2. state' # "DONE" => ~stop /\ state # "DONE"
    BY <2>1, ControlMoves
  <2>3. state' # "DONE" => /\ i_state' # "IDLE" => state' = "S_MEM_INIT"
                           /\ w_state' # "IDLE" => state' = "S_MEM_SWAP"
    BY <2>1, <2>2, ControlMoves, InitEngineMoves, SwapEngineMoves DEF TakeTurns
  <2>4. x_state' # "IDLE" => Running /\ x_state # "DONE"
    BY <2>1, DecryptEngineMoves DEF TakeTurns, Running
  <2>5. x_state' # "IDLE" => Running'
    BY <2>1, <2>4, ControlMoves DEF Running
  <2>6. /\ key_found_flag' => x_state' \in {"IDLE", "DONE"}
        /\ key_found_flag' /\ x_state' = "IDLE" => state' = "DONE"
    <3>1. key_found_flag' => key_found_flag \/ x_state' = "DONE"
      BY <2>1, DecryptEngineMoves
    <3>2. ASSUME key_found_flag
          PROVE  x_state' = "IDLE" /\ state' = "DONE"
      <4>1. CASE x_state = "IDLE"
        BY <2>1, <3>2, <4>1, ControlMoves, DecryptEngineMoves DEF TakeTurns
      <4>2. CASE x_state = "DONE"
        BY <2>1, <3>2, <4>2, ControlMoves, DecryptEngineMoves DEF TakeTurns, Running
      <4>3. QED
        BY <3>2, <4>1, <4>2 DEF TakeTurns
    <3>3. QED
      BY <3>1, <3>2
  <2>7. secret_key' >= KeyStart
    <3>1. CASE state = "IDLE"
      BY <2>1, <3>1, ControlMoves DEF TakeTurns
    <3>2. CASE state # "IDLE"
      BY <2>1, <3>2, ControlMoves DEF TakeTurns
    <3>3. QED
      BY <3>1, <3>2
  <2>8. state' # "IDLE"
    BY <2>1, ControlMoves
  <2>9. QED
    BY <2>3, <2>5, <2>6, <2>7, <2>8 DEF TakeTurns
<1>2. CASE Reset
  BY <1>2 DEF Reset, Init_s_mem!Reset, Swap_s_mem!Reset, Decrypt_d_mem!Reset, TakeTurns, Running
<1>3. CASE UNCHANGED vars
  BY <1>3 DEF vars, init, swap, decrypt, TakeTurns, Running
<1>4. QED
  BY <1>1, <1>2, <1>3 DEF Next


(* ------------------- the table before and after each pass ---------------- *)

LEMMA IdentityIsTable == Identity \in Table /\ Table = [Byte -> Byte]
BY DEF Identity, Table

(* The bus of s_memory belongs to the selected engine. *)
LEMMA TableAfter ==
  ASSUME IInv, Memories
  PROVE  /\ s_mem \in Table
         /\ state = "S_MEM_INIT" =>
              s_mem' = IF i_state \in {"START", "INCREMENT"}
                         THEN [s_mem EXCEPT ![counter] = counter] ELSE s_mem
         /\ state = "S_MEM_SWAP" /\ w_state = "DONE" => s_mem' = s_mem
<1>1. s_mem \in Table
  BY DEF IInv, TypeOK, Table
<1>2. s_mem' = IF s_mem_write THEN [s_mem EXCEPT ![s_mem_addr] = s_mem_data_in] ELSE s_mem
  BY DEF Memories, RAM!CellsAfter
<1>3. CASE state = "S_MEM_INIT"
  BY <1>1, <1>2, <1>3 DEF s_mem_write, s_mem_addr, s_mem_data_in, Selected, Init_s_mem!wren
<1>4. CASE state = "S_MEM_SWAP"
  BY <1>1, <1>2, <1>4 DEF s_mem_write, Selected, Swap_s_mem!wren
<1>5. QED
  BY <1>1, <1>3, <1>4

(* The counter passes every cell. *)
LEMMA StepInitialised ==
  ASSUME IInv, TakeTurns, Initialised, Clock
  PROVE  /\ Initialised'
         /\ state = "S_MEM_INIT" /\ i_state = "DONE" => s_mem' = Identity
<1>1. /\ ControlFSM /\ Init_s_mem!Tick /\ Memories
      /\ state \in {"IDLE", "S_MEM_INIT", "S_MEM_SWAP", "S_MEM_DECRYPT", "DONE"}
      /\ counter \in 0 .. N - 1 /\ N \in Nat \ {0, 1} /\ s_mem \in [Byte -> Byte]
  BY ByteFacts, TableAfter DEF Clock, IInv, TypeOK, Init_s_mem!TypeOK, Table
<1>2. state = "S_MEM_INIT" /\ i_state = "DONE" => s_mem' = Identity
  BY <1>1, TableAfter DEF Initialised
<1> SUFFICES Initialised'
  BY <1>2
<1>3. CASE state' # "S_MEM_INIT"
  BY <1>3 DEF Initialised
<1>4. CASE state' = "S_MEM_INIT" /\ state # "S_MEM_INIT"
  <2>1. state # "DONE" /\ i_state = "IDLE"
    BY <1>1, <1>4, ControlMoves DEF TakeTurns
  <2>2. i_state' = "IDLE"
    BY <1>1, <1>4, <2>1, InitEngineMoves
  <2>3. QED
    BY <2>2 DEF Initialised
<1>5. CASE state' = "S_MEM_INIT" /\ state = "S_MEM_INIT"
  <2>1. s_mem' = IF i_state \in {"START", "INCREMENT"}
                   THEN [s_mem EXCEPT ![counter] = counter] ELSE s_mem
    BY <1>1, <1>5, TableAfter
  <2>2. CASE Init_s_mem!Idle \/ Init_s_mem!Done
    BY <2>2 DEF Initialised, Init_s_mem!Idle, Init_s_mem!Done
  <2>3. CASE Init_s_mem!First
    <3>1. i_state' = "INCREMENT" /\ counter' = 0
      BY <2>3 DEF Init_s_mem!First, Init_s_mem!START_ADDR
    <3>2. \A a \in Byte : ~(a < 0)
      BY ByteFacts DEF Byte
    <3>3. QED
      BY <3>1, <3>2 DEF Initialised
  <2>4. CASE Init_s_mem!Increment
    <3>1. /\ i_state = "INCREMENT" /\ s_mem' = [s_mem EXCEPT ![counter] = counter]
          /\ \A a \in Byte : a < counter => s_mem[a] = a
          /\ IF counter = N - 1 THEN i_state' = "DONE" /\ counter' = counter
                                ELSE counter' = counter + 1 /\ i_state' = i_state
      BY <1>5, <2>1, <2>4 DEF Initialised, Init_s_mem!Increment, Init_s_mem!END_ADDR
    <3>2. \A a \in Byte : a < counter + 1 => s_mem'[a] = a
      <4>1. \A a \in Byte : a < counter + 1 => a < counter \/ a = counter
        BY <1>1 DEF Byte
      <4>2. QED
        BY <1>1, <3>1, <4>1 DEF Byte
    <3>3. CASE counter = N - 1
      <4>1. \A a \in Byte : a < counter + 1
        BY <1>1, <3>3 DEF Byte
      <4>2. s_mem' \in [Byte -> Byte]
        BY <1>1, <3>1 DEF Byte
      <4>3. s_mem' = Identity
        BY <3>2, <4>1, <4>2 DEF Identity
      <4>4. QED
        BY <3>1, <3>3, <4>3 DEF Initialised
    <3>4. CASE counter # N - 1
      BY <3>1, <3>2, <3>4 DEF Initialised
    <3>5. QED
      BY <3>3, <3>4
  <2>5. QED
    BY <1>1, <2>2, <2>3, <2>4 DEF Init_s_mem!Tick
<1>6. QED
  BY <1>3, <1>4, <1>5

(* What the shuffling engine assumes of its constants. *)
LEMMA ShufflingConstants ==
  /\ Shuffling!NAssumption /\ Shuffling!GarbageAssumption
  /\ Shuffling!TablesAssumption /\ Shuffling!NewDataAssumption /\ Shuffling!MemoryFits
<1>1. Identity \in [Byte -> Byte] /\ Shuffling!Distinct(Identity)
  BY IdentityIsTable DEF Identity, Shuffling!Distinct, Shuffling!Byte, Byte
<1>2. QED
  BY <1>1, DatapathAssumption DEF Shuffling!NAssumption, Shuffling!GarbageAssumption,
     Shuffling!TablesAssumption, Shuffling!NewDataAssumption, Shuffling!MemoryFits,
     Shuffling!Byte, Byte

LEMMA ShufflingTypes ==
  ASSUME IInv
  PROVE  Shuffling!EngineTypeOK
<1>1. Cipher!KeyBytes(secret_key) \in [0 .. 2 -> Byte]
  <2>1. secret_key \in Nat
    BY KeyAssumption DEF IInv, TypeOK
  <2>2. \A b \in 0 .. 2 : b \in Nat /\ b % 3 = b
    OBVIOUS
  <2>3. \A b \in 0 .. 2 : Cipher!KeyBytes(secret_key)[b] \in Byte
    BY <2>1, <2>2, KeyBytesType
  <2>4. QED
    BY <2>3 DEF Cipher!KeyBytes
<1>2. Shuffling!TypeOK
  BY DEF IInv, TypeOK, Swap_s_mem!TypeOK, Swap_s_mem!States, Swap_s_mem!Byte, Shuffling!TypeOK,
         Shuffling!States, Shuffling!Byte
<1>3. QED
  BY <1>1, <1>2 DEF IInv, TypeOK, Shuffling!EngineTypeOK, Shuffling!Key, Shuffling!keylength,
                    Shuffling!Byte, Byte

(* An edge of the core in S_MEM_SWAP is an edge of that engine. *)
LEMMA ShufflingClock ==
  ASSUME IInv, Clock, state = "S_MEM_SWAP", ~stop
  PROVE  Shuffling!Clock
<1>1. Swap_s_mem!Tick /\ Memories /\ ControlFSM
  BY DEF Clock
<1>2. Shuffling!Tick
  BY <1>1 DEF Swap_s_mem!Tick, Swap_s_mem!Idle, Swap_s_mem!Clear, Swap_s_mem!START_ADDR,
   Swap_s_mem!SetIAddr,
   Swap_s_mem!WaitIAddr, Swap_s_mem!SetJAddr, Swap_s_mem!WaitJAddr, Swap_s_mem!Present,
   Swap_s_mem!GetIData, Swap_s_mem!AddSumJ, Swap_s_mem!keylength, Swap_s_mem!GetJData,
   Swap_s_mem!SwapDataI, Swap_s_mem!SwapDataJ, Swap_s_mem!WriteUntilSeen, Swap_s_mem!Increment,
   Swap_s_mem!END_ADDR, Swap_s_mem!Done,
   Shuffling!Tick, Shuffling!Idle, Shuffling!Clear, Shuffling!START_ADDR, Shuffling!SetIAddr,
   Shuffling!WaitIAddr, Shuffling!SetJAddr, Shuffling!WaitJAddr, Shuffling!Present,
   Shuffling!GetIData, Shuffling!AddSumJ, Shuffling!keylength, Shuffling!GetJData,
   Shuffling!SwapDataI, Shuffling!SwapDataJ, Shuffling!WriteUntilSeen, Shuffling!Increment,
   Shuffling!END_ADDR, Shuffling!Done
<1>3. /\ s_mem' = Shuffling!RAM!CellsAfter(s_mem, Shuffling!wren, w_address, w_data)
      /\ s_q' = Shuffling!RAM!QAfter(s_mem, Shuffling!wren, w_address, w_data)
  BY <1>1 DEF Memories, RAM!CellsAfter, RAM!QAfter, s_mem_write, s_mem_addr, s_mem_data_in,
     Selected, Swap_s_mem!wren, Shuffling!wren, Shuffling!RAM!CellsAfter, Shuffling!RAM!QAfter
<1>4. /\ (state = "S_MEM_SWAP")' = (state = "S_MEM_SWAP" /\ ~Shuffling!done_flag)
      /\ Cipher!KeyBytes(secret_key)' = Cipher!KeyBytes(secret_key)
  BY <1>1, ControlMoves DEF Shuffling!done_flag
<1>5. QED
  BY <1>2, <1>3, <1>4 DEF Shuffling!Clock

(* The pass starts from the identity, as the schedule does. *)
LEMMA ShuffleStarts ==
  ASSUME IInv', state' = "S_MEM_SWAP", w_state' = "IDLE", s_mem' = Identity
  PROVE  ShuffledSoFar'
<1>1. IInv' => Shuffling!EngineTypeOK'
  BY ShufflingTypes, PTL
<1>2. Shuffling!Started' /\ Shuffling!ReadInv' /\ Shuffling!FirstWrite' /\ Shuffling!SecondWrite'
  BY DEF Shuffling!Started, Shuffling!ReadInv, Shuffling!FirstWrite, Shuffling!SecondWrite,
         Shuffling!BeforeSwap
<1>3. Shuffling!TableShown' = Identity /\ Shuffling!IShown' = 0 /\ Shuffling!JShown' = 0
  BY DEF Shuffling!TableShown, Shuffling!IShown, Shuffling!JShown, Shuffling!BeforeSwap,
         Shuffling!InSwap
<1>4. Shuffling!Distinct(Shuffling!TableShown)'
  <2>1. Shuffling!Distinct(Identity)
    BY DEF Shuffling!Distinct, Identity, Shuffling!Byte, Byte
  <2>2. QED
    BY <1>3, <2>1 DEF Shuffling!Distinct
<1>5. Shuffling!EngineInv'
  BY <1>1, <1>2, <1>4 DEF Shuffling!EngineInv
<1>6. Scheduled'
  <2>1. secret_key' \in Nat
    BY KeyAssumption DEF IInv, TypeOK
  <2>2. Cipher!Schedule(secret_key')[0] = [s |-> Identity, j |-> 0]
    BY <2>1, ScheduleRuns
  <2>3. QED
    BY <1>3, <2>2 DEF Scheduled
<1>7. QED
  BY <1>5, <1>6 DEF ShuffledSoFar

(* Each round of the engine is the schedule's. *)
LEMMA ShuffleGoesOn ==
  ASSUME IInv, ShuffledSoFar, Clock, state = "S_MEM_SWAP", ~stop
  PROVE  /\ w_state # "DONE" => ShuffledSoFar'
         /\ w_state = "DONE" => s_mem' = Cipher!Shuffled(secret_key)
<1>1. Shuffling!EngineInv /\ Scheduled /\ Shuffling!Clock
  BY ShufflingClock DEF ShuffledSoFar
<1>2. Shuffling!EngineInv'
  BY <1>1, ShufflingConstants, Shuffling!ClockInv
<1>3. \/ Shuffling!Algorithm!Round
      \/ Shuffling!Algorithm!Finish
      \/ UNCHANGED Shuffling!Algorithm!vars
  BY <1>1, ShufflingConstants, Shuffling!ClockSimulates
<1>4. /\ secret_key \in Nat /\ secret_key' = secret_key /\ N \in Nat
      /\ state' = IF w_state = "DONE" THEN "S_MEM_DECRYPT" ELSE "S_MEM_SWAP"
  BY ByteFacts, KeyAssumption, ControlMoves DEF Clock, IInv, TypeOK
<1> DEFINE R == Cipher!Schedule(secret_key)
<1>5. CASE Shuffling!Algorithm!Round
  <2> DEFINE n == Shuffling!IShown
             kb == Cipher!KeyBytes(secret_key)
             j == (Shuffling!JShown + Shuffling!TableShown[n] + kb[n % 3]) % N
  <2>1. /\ (state' = "S_MEM_SWAP") = (state = "S_MEM_SWAP") /\ n < N /\ n' = n + 1
        /\ Shuffling!TableShown' = Cipher!Exchange(Shuffling!TableShown, n, j)
        /\ Shuffling!JShown' = j
    BY <1>5 DEF Shuffling!Algorithm!Round, Shuffling!Algorithm!NextJ,
                Shuffling!Algorithm!Swapped, Cipher!Exchange
  <2>2. n \in Nat
    BY <1>1, <1>4 DEF Shuffling!EngineInv, Shuffling!EngineTypeOK, Shuffling!TypeOK, Shuffling!Byte,
                      Shuffling!IShown
  <2>3. n \in 0 .. N - 1
    BY <1>4, <2>1, <2>2
  <2>4. Shuffling!TableShown = R[n].s /\ Shuffling!JShown = R[n].j
    BY <1>1 DEF Scheduled
  <2> HIDE DEF n
  <2>5. R[n + 1] = Cipher!Round(kb, n, R[n])
    BY <1>4, <2>3, ScheduleRuns
  <2>6. R[n + 1] = [s |-> Cipher!Exchange(Shuffling!TableShown, n, j), j |-> j]
    BY <2>4, <2>5 DEF Cipher!Round
  <2> HIDE DEF j
  <2>7. Shuffling!TableShown' = R[n + 1].s /\ Shuffling!JShown' = R[n + 1].j
    BY <2>1, <2>6
  <2>8. Scheduled'
    BY <1>4, <2>1, <2>7 DEF Scheduled, n
  <2>9. QED
    BY <1>2, <1>4, <2>1, <2>8 DEF ShuffledSoFar
<1>6. CASE Shuffling!Algorithm!Finish
  <2>1. (state' = "S_MEM_SWAP") = FALSE /\ Shuffling!IShown = N
    BY <1>6 DEF Shuffling!Algorithm!Finish
  <2>2. w_state = "DONE"
    BY <1>4, <2>1
  <2>3. Shuffling!TableShown = s_mem /\ s_mem' = s_mem
    BY <2>2, TableAfter DEF Clock, Shuffling!TableShown, Shuffling!BeforeSwap, Shuffling!InSwap
  <2>4. QED
    BY <1>1, <2>1, <2>2, <2>3 DEF Scheduled, Cipher!Shuffled
<1>7. CASE UNCHANGED Shuffling!Algorithm!vars
  <2>1. /\ (state' = "S_MEM_SWAP") = (state = "S_MEM_SWAP")
        /\ Shuffling!TableShown' = Shuffling!TableShown
        /\ Shuffling!IShown' = Shuffling!IShown /\ Shuffling!JShown' = Shuffling!JShown
    BY <1>7 DEF Shuffling!Algorithm!vars
  <2>2. Scheduled'
    BY <1>1, <1>4, <2>1 DEF Scheduled
  <2>3. QED
    BY <1>2, <1>4, <2>1, <2>2 DEF ShuffledSoFar
<1>8. QED
  BY <1>3, <1>5, <1>6, <1>7

LEMMA StepShuffled ==
  ASSUME IInv, IInv', TakeTurns, Initialised, ShuffledSoFar, Clock
  PROVE  ShuffledSoFar'
<1>1. /\ ControlFSM /\ Swap_s_mem!Tick
      /\ state \in {"IDLE", "S_MEM_INIT", "S_MEM_SWAP", "S_MEM_DECRYPT", "DONE"}
  BY DEF Clock, IInv, TypeOK
<1>2. CASE state' # "S_MEM_SWAP"
  BY <1>2 DEF ShuffledSoFar
<1>3. CASE state' = "S_MEM_SWAP" /\ state = "S_MEM_SWAP"
  BY <1>1, <1>3, ControlMoves, ShuffleGoesOn
<1>4. CASE state' = "S_MEM_SWAP" /\ state # "S_MEM_SWAP"
  <2>1. state = "S_MEM_INIT" /\ i_state = "DONE"
    BY <1>1, <1>4, ControlMoves
  <2>2. s_mem' = Identity
    BY <2>1, StepInitialised
  <2>3. w_state' = "IDLE"
    BY <1>1, <2>1, SwapEngineMoves DEF TakeTurns
  <2>4. QED
    BY <1>4, <2>2, <2>3, ShuffleStarts
<1>5. QED
  BY <1>2, <1>3, <1>4

(* ---------------------- the character of a message ----------------------- *)

(* What the decrypting engine assumes of its constants. *)
LEMMA DecryptingConstants ==
  ASSUME IInv
  PROVE  Decrypting!DecryptAssumption /\ Decrypting!EngineAssumption
<1>1. Table # {}
  BY IdentityIsTable
<1>2. QED
  BY <1>1, DatapathAssumption, MessagesAssumption DEF IInv, Decrypting!DecryptAssumption,
     Decrypting!EngineAssumption, Decrypting!Byte, Byte, Table

LEMMA DecryptingTypes ==
  ASSUME IInv
  PROVE  Decrypting!EngineTypeOK
<1>1. Decrypting!TypeOK
  BY DEF IInv, TypeOK, Decrypt_d_mem!TypeOK, Decrypt_d_mem!States, Decrypt_d_mem!Byte,
         Decrypting!TypeOK, Decrypting!States, Decrypting!Byte
<1>2. QED
  BY <1>1 DEF IInv, TypeOK, Decrypting!EngineTypeOK, Decrypting!Byte, Byte, Running

(* An edge of the core while that engine runs is an edge of the engine. *)
LEMMA DecryptingClock ==
  ASSUME IInv, TakeTurns, Clock, Running
  PROVE  Decrypting!Clock
<1>1. Decrypt_d_mem!Tick /\ Memories /\ ControlFSM
  BY DEF Clock
<1>2. Decrypting!Tick
  <2>1. CASE Decrypt_d_mem!Idle
    <3>1. state = "S_MEM_DECRYPT"
      BY <2>1 DEF Decrypt_d_mem!Idle, Running
    <3>2. Decrypting!Idle
      BY <2>1, <3>1 DEF Running, Decrypt_d_mem!Idle, Decrypt_d_mem!Clear,
         Decrypt_d_mem!START_K_ADDR, Decrypting!Idle, Decrypting!Clear, Decrypting!START_K_ADDR
    <3>3. QED
      BY <3>2 DEF Decrypting!Tick
  <2>2. CASE \/ Decrypt_d_mem!SetIAddr \/ Decrypt_d_mem!Wait \/ Decrypt_d_mem!GetIData
             \/ Decrypt_d_mem!SetJAddr \/ Decrypt_d_mem!GetJData \/ Decrypt_d_mem!SetFAddr
             \/ Decrypt_d_mem!GetFValue \/ Decrypt_d_mem!SetKAddr
    BY <2>2 DEF Decrypting!Tick, Decrypt_d_mem!indices, Decrypt_d_mem!values,
       Decrypt_d_mem!writeData, Decrypting!indices, Decrypting!values, Decrypting!writeData,
       Decrypt_d_mem!SetIAddr, Decrypt_d_mem!Wait, Decrypt_d_mem!WaitNext, Decrypt_d_mem!GetIData,
       Decrypt_d_mem!SetJAddr, Decrypt_d_mem!GetJData, Decrypt_d_mem!SetFAddr,
       Decrypt_d_mem!GetFValue, Decrypt_d_mem!SetKAddr,
       Decrypting!SetIAddr, Decrypting!Wait, Decrypting!WaitNext, Decrypting!GetIData,
       Decrypting!SetJAddr, Decrypting!GetJData, Decrypting!SetFAddr,
       Decrypting!GetFValue, Decrypting!SetKAddr
  <2>3. CASE \/ Decrypt_d_mem!SwapDataI \/ Decrypt_d_mem!WaitSwapI \/ Decrypt_d_mem!SwapDataJ
             \/ Decrypt_d_mem!WaitSwapJ \/ Decrypt_d_mem!Decrypt \/ Decrypt_d_mem!WaitDecrypt
             \/ Decrypt_d_mem!Validate \/ Decrypt_d_mem!Increment
    BY <2>3 DEF Decrypting!Tick, Decrypt_d_mem!indices, Decrypt_d_mem!values,
       Decrypt_d_mem!writeData, Decrypting!indices, Decrypting!values, Decrypting!writeData,
       Decrypt_d_mem!SwapDataI, Decrypt_d_mem!WaitSwapI, Decrypt_d_mem!SwapDataJ,
       Decrypt_d_mem!WaitSwapJ, Decrypt_d_mem!Write, Decrypt_d_mem!Seen, Decrypt_d_mem!Decrypt,
       Decrypt_d_mem!WaitDecrypt, Decrypt_d_mem!Validate, Decrypt_d_mem!Increment,
       Decrypting!SwapDataI, Decrypting!WaitSwapI, Decrypting!SwapDataJ,
       Decrypting!WaitSwapJ, Decrypting!Write, Decrypting!Seen, Decrypting!Decrypt,
       Decrypting!WaitDecrypt, Decrypting!Validate, Decrypting!Increment
  <2>4. QED
    BY <1>1, <2>1, <2>2, <2>3 DEF Decrypt_d_mem!Tick
<1>3. /\ s_mem_write = Decrypt_d_mem!s_wren /\ s_mem_addr = x_address
      /\ s_mem_data_in = x_s_data
  BY DEF Running, Selected, s_mem_write, s_mem_addr, s_mem_data_in
<1>4. Decrypting!Memories
  BY <1>1, <1>3 DEF Memories, Decrypting!Memories, RAM!CellsAfter, RAM!QAfter,
     Decrypting!RAM!CellsAfter, Decrypting!RAM!QAfter, Decrypt_d_mem!s_wren, Decrypt_d_mem!d_wren,
     Decrypting!s_wren, Decrypting!d_wren, Rom, Decrypting!Rom
<1>5. Running' = (Running /\ ~Decrypting!done_flag)
  <2>1. x_state = "DONE" => x_state' = "IDLE" /\ state' # "S_MEM_DECRYPT"
    BY <1>1, ControlMoves, DecryptEngineMoves DEF Running
  <2>2. x_state # "DONE" => state' = state \/ state' = "DONE"
    BY <1>1, ControlMoves DEF Running
  <2>3. x_state # "DONE" => x_state' # "IDLE"
    BY <1>2 DEF Running, Decrypting!Tick, Decrypting!Idle, Decrypting!SetIAddr, Decrypting!Wait,
       Decrypting!WaitNext, Decrypting!GetIData, Decrypting!SetJAddr, Decrypting!GetJData,
       Decrypting!SetFAddr, Decrypting!GetFValue, Decrypting!SetKAddr, Decrypting!SwapDataI,
       Decrypting!WaitSwapI, Decrypting!SwapDataJ, Decrypting!WaitSwapJ, Decrypting!Write,
       Decrypting!Seen, Decrypting!Decrypt, Decrypting!WaitDecrypt, Decrypting!Validate,
       Decrypting!Increment
  <2>4. QED
    BY <2>1, <2>2, <2>3 DEF Running, Decrypting!done_flag
<1>6. QED
  BY <1>2, <1>4, <1>5 DEF Decrypting!Clock

(* The characters that decrypt_memory shows are the first of d_memory. *)
WellShown ==
  /\ Decrypting!CharsShown \in 0 .. MessageLength
  /\ Len(Decrypting!Out) = Decrypting!CharsShown
  /\ Decrypting!Out = Decrypting!Chars(d_mem, Decrypting!CharsShown)

LEMMA DecryptingShown ==
  ASSUME IInv, Decrypting!EngineInv
  PROVE  WellShown
BY DecryptingConstants, Decrypting!ShownFacts DEF WellShown

LEMMA TurnFields ==
  ASSUME NEW r
  PROVE  LET g == Cipher!Turn(r)
             i == (r.i + 1) % N
             j == (r.j + r.s[i]) % N
         IN /\ g.i = i /\ g.j = j /\ g.s = Cipher!Exchange(r.s, i, j)
            /\ g.f = g.s[(g.s[g.i] + g.s[g.j]) % N]
BY DEF Cipher!Turn

(* The pass starts from the scheduled table, with nothing written. *)
LEMMA DecryptStarts ==
  ASSUME IInv', x_state' = "IDLE", s_mem' = Cipher!Shuffled(secret_key')
  PROVE  DecryptedSoFar'
<1>1. IInv' => Decrypting!EngineTypeOK'
  BY DecryptingTypes, PTL
<1>2. Decrypting!Started' /\ Decrypting!ReadInv' /\ Decrypting!WriteInv' /\ Decrypting!CharInv'
      /\ Decrypting!MessageInv'
  BY DEF Decrypting!Started, Decrypting!ReadInv, Decrypting!WriteInv, Decrypting!CharInv,
         Decrypting!MessageInv, Decrypting!BeforeSwap, Decrypting!InSwap, Decrypting!WithBoth,
         Decrypting!WithF
<1>3. Decrypting!EngineInv'
  BY <1>1, <1>2 DEF Decrypting!EngineInv
<1>4. /\ Decrypting!TableShown' = s_mem' /\ Decrypting!IShown' = 0 /\ Decrypting!JShown' = 0
      /\ Decrypting!CharsShown' = 0 /\ ~Decrypting!Mixed'
  BY DEF Decrypting!TableShown, Decrypting!IShown, Decrypting!JShown, Decrypting!CharsShown,
         Decrypting!Mixed, Decrypting!BeforeSwap, Decrypting!InSwap, Decrypting!AfterSwap
<1>5. Turns' = 0 /\ 0 \in 0 .. MessageLength
  BY <1>4, SizeFacts DEF Turns
<1>6. secret_key' \in Nat
  BY KeyAssumption DEF IInv, TypeOK
<1>7. Decrypting!Out' = Decrypting!Chars(Text(secret_key), Decrypting!CharsShown)'
  <2>1. \A n : n \notin 1 .. 0
    OBVIOUS
  <2>2. QED
    BY <1>4, <2>1 DEF Decrypting!Out, Decrypting!Chars
<1>8. Generated'
  <2>1. Cipher!Generator(secret_key')[0] =
          [s |-> Cipher!Shuffled(secret_key'), i |-> 0, j |-> 0, f |-> 0]
    BY <1>6, GeneratorRuns
  <2>2. QED
    BY <1>4, <1>5, <1>7, <2>1 DEF Generated
<1>9. QED
  BY <1>3, <1>8 DEF DecryptedSoFar

(* Each turn of the engine is the generator's, and each character it writes  *)
(* is the text's.                                                            *)
LEMMA DecryptGoesOn ==
  ASSUME IInv, IInv', TakeTurns, DecryptedSoFar, Clock, Running
  PROVE  DecryptedSoFar'
<1> SUFFICES ASSUME Running' PROVE Decrypting!EngineInv' /\ Generated'
  BY DEF DecryptedSoFar
<1> DEFINE R == Cipher!Generator(secret_key)
           c == Decrypting!CharsShown
           T == Text(secret_key)
<1>1. Decrypting!EngineInv /\ Generated /\ Decrypting!Clock
  BY DecryptingClock DEF DecryptedSoFar
<1>2. Decrypting!EngineInv'
  BY <1>1, DecryptingConstants, Decrypting!ClockInv
<1>3. \/ Decrypting!Algorithm!Mix \/ Decrypting!Algorithm!Emit \/ Decrypting!Algorithm!Accept
      \/ Decrypting!Algorithm!Finish \/ UNCHANGED Decrypting!Algorithm!vars
  BY <1>1, DecryptingConstants, Decrypting!ClockSimulates
<1>4. /\ secret_key \in Nat /\ secret_key' = secret_key /\ N \in Nat /\ e_mem' = e_mem
      /\ MessageLength \in Nat /\ MessageLength < N
  <2>1. x_state # "DONE"
    BY <1>1 DEF Decrypting!Clock, Decrypting!done_flag
  <2>2. QED
    BY <2>1, SizeFacts, KeyAssumption, ControlMoves DEF Clock, Memories, IInv, TypeOK, Running
<1>5. Text(secret_key)' = T
  BY <1>4 DEF Text
<1>6. c \in 0 .. MessageLength /\ Len(Decrypting!Out) = c
  BY <1>1, DecryptingShown DEF WellShown
<1>7. c' \in 0 .. MessageLength /\ Len(Decrypting!Out') = c'
  <2>1. IInv' /\ Decrypting!EngineInv' => WellShown'
    BY DecryptingShown, PTL
  <2>2. QED
    BY <1>2, <2>1 DEF WellShown
<1>8. CASE Decrypting!Algorithm!Mix
  <2> DEFINE i == (Decrypting!IShown + 1) % N
             j == (Decrypting!JShown + Decrypting!TableShown[i]) % N
  <2>1. /\ ~Decrypting!Mixed /\ Decrypting!Mixed' /\ Decrypting!Out' = Decrypting!Out
        /\ Len(Decrypting!Out) < MessageLength
        /\ Decrypting!TableShown' = Cipher!Exchange(Decrypting!TableShown, i, j)
        /\ Decrypting!IShown' = i /\ Decrypting!JShown' = j
    BY <1>8 DEF Decrypting!Algorithm!Mix, Decrypting!Algorithm!NextI, Decrypting!Algorithm!NextJ,
                Decrypting!Algorithm!Swapped, Cipher!Exchange, Decrypting!Mixed, Decrypting!Out
  <2>2. c' = c /\ c < MessageLength /\ Turns = c /\ Turns' = c + 1
    <3>1. c' = c /\ c < MessageLength /\ c \in Nat
      BY <1>4, <1>6, <1>7, <2>1
    <3>2. (IF Decrypting!Mixed THEN 1 ELSE 0) = 0 /\ (IF Decrypting!Mixed THEN 1 ELSE 0)' = 1
      BY <2>1
    <3> HIDE DEF c
    <3>3. QED
      BY <3>1, <3>2 DEF Turns, c
  <2>3. /\ Decrypting!TableShown = R[c].s /\ Decrypting!IShown = R[c].i
        /\ Decrypting!JShown = R[c].j
    BY <1>1, <2>2 DEF Generated
  <2>4. R[c + 1] = Cipher!Turn(R[c]) /\ c + 1 \in 0 .. MessageLength
    <3>1. c \in 0 .. MessageLength - 1 /\ c + 1 \in 0 .. MessageLength
      BY <1>4, <1>6, <2>2
    <3> HIDE DEF c
    <3>2. QED
      BY <1>4, <3>1, GeneratorRuns
  <2> HIDE DEF c, R
  <2>5. /\ Decrypting!TableShown' = R[c + 1].s /\ Decrypting!IShown' = R[c + 1].i
        /\ Decrypting!JShown' = R[c + 1].j
    BY <2>1, <2>3, <2>4, TurnFields
  <2>6. Decrypting!Out = Decrypting!Chars(T, c)
    BY <1>1 DEF Generated, c
  <2>7. Generated'
    BY <1>4, <1>5, <2>1, <2>2, <2>4, <2>5, <2>6 DEF Generated, R, c
  <2>8. QED
    BY <1>2, <2>7
<1>9. CASE Decrypting!Algorithm!Emit
  <2> DEFINE t == Decrypting!TableShown
             f == t[(t[Decrypting!IShown] + t[Decrypting!JShown]) % N]
  <2>1. /\ Decrypting!Mixed /\ ~Decrypting!Mixed'
        /\ Decrypting!Out' = Append(Decrypting!Out, ByteXor(f, e_mem[Len(Decrypting!Out)]))
        /\ t' = t /\ Decrypting!IShown' = Decrypting!IShown
        /\ Decrypting!JShown' = Decrypting!JShown
    BY <1>9 DEF Decrypting!Algorithm!Emit, Decrypting!Algorithm!KeyByte, Decrypting!Mixed,
                Decrypting!Out
  <2>2. Turns = c + 1 /\ Turns \in 0 .. MessageLength
    BY <1>1, <2>1 DEF Turns, Generated
  <2>3. c \in 0 .. MessageLength - 1 /\ c < N /\ c \in Nat
    BY <1>4, <1>6, <2>2
  <2> HIDE DEF c, R
  <2>4. /\ t = R[c + 1].s /\ Decrypting!IShown = R[c + 1].i /\ Decrypting!JShown = R[c + 1].j
        /\ Decrypting!Out = Decrypting!Chars(T, c)
    BY <1>1, <2>2 DEF Generated, c, R
  <2>5. R[c + 1] = Cipher!Turn(R[c])
    BY <1>4, <2>3, GeneratorRuns DEF R
  <2>6. f = R[c + 1].f
    BY <2>4, <2>5, TurnFields
  <2>7. T[c] = ByteXor(f, e_mem[c]) /\ T \in [Byte -> Byte]
    BY <1>4, <2>3, <2>6, TextFacts DEF R
  <2>8. Decrypting!Out' = Append(Decrypting!Chars(T, c), T[c])
    BY <1>6, <2>1, <2>4, <2>7 DEF c
  <2>9. Decrypting!Out' = Decrypting!Chars(T, c + 1) /\ Len(Decrypting!Out') = c + 1
    <3>1. c + 1 < N /\ c + 1 \in Nat /\ T \in [Decrypting!Byte -> Decrypting!Byte]
      BY <1>4, <2>3, <2>7 DEF Byte, Decrypting!Byte
    <3>2. Decrypting!DecryptAssumption /\ Decrypting!EngineAssumption
      BY DecryptingConstants
    <3> HIDE DEF T
    <3>3. Append(Decrypting!Chars(T, c), T[c]) = Decrypting!Chars(T, c + 1)
      BY <2>3, <3>1, <3>2, Decrypting!CharsFacts
    <3>4. Len(Decrypting!Chars(T, c + 1)) = c + 1
      BY <3>1, <3>2, Decrypting!CharsFacts
    <3>5. QED
      BY <2>8, <3>3, <3>4 DEF T
  <2>10. c' = c + 1 /\ Turns' = Turns
    BY <1>7, <2>1, <2>2, <2>9 DEF Turns, c
  <2>11. Generated'
    BY <1>1, <1>4, <1>5, <2>1, <2>2, <2>9, <2>10 DEF Generated, c
  <2>12. QED
    BY <1>2, <2>11
<1>10. CASE Decrypting!Algorithm!Accept \/ UNCHANGED Decrypting!Algorithm!vars
  <2>1. /\ Decrypting!Mixed' = Decrypting!Mixed /\ Decrypting!Out' = Decrypting!Out
        /\ Decrypting!TableShown' = Decrypting!TableShown
        /\ Decrypting!IShown' = Decrypting!IShown /\ Decrypting!JShown' = Decrypting!JShown
    BY <1>10 DEF Decrypting!Algorithm!Accept, Decrypting!Algorithm!vars, Decrypting!Mixed,
                 Decrypting!Out
  <2>2. c' = c /\ Turns' = Turns
    BY <1>6, <1>7, <2>1 DEF Turns
  <2>3. Generated'
    BY <1>1, <1>4, <1>5, <2>1, <2>2 DEF Generated
  <2>4. QED
    BY <1>2, <2>3
<1>11. CASE Decrypting!Algorithm!Finish
  BY <1>11 DEF Decrypting!Algorithm!Finish
<1>12. QED
  BY <1>2, <1>3, <1>8, <1>9, <1>10, <1>11

LEMMA StepDecrypted ==
  ASSUME IInv, IInv', TakeTurns, ShuffledSoFar, DecryptedSoFar, Clock
  PROVE  DecryptedSoFar'
<1>1. /\ ControlFSM /\ Decrypt_d_mem!Tick
      /\ state \in {"IDLE", "S_MEM_INIT", "S_MEM_SWAP", "S_MEM_DECRYPT", "DONE"}
  BY DEF Clock, IInv, TypeOK
<1>2. CASE Running
  BY <1>2, DecryptGoesOn
<1>3. CASE ~Running' /\ ~Running
  BY <1>3 DEF DecryptedSoFar
<1>4. CASE Running' /\ ~Running
  <2>1. x_state = "IDLE" /\ x_state' = "IDLE"
    BY <1>1, <1>4, DecryptEngineMoves DEF TakeTurns, Running
  <2>2. state = "S_MEM_SWAP" /\ w_state = "DONE" /\ ~stop /\ secret_key' = secret_key
    BY <1>1, <1>4, <2>1, ControlMoves DEF Running
  <2>3. s_mem' = Cipher!Shuffled(secret_key')
    BY <2>2, ShuffleGoesOn
  <2>4. QED
    BY <2>1, <2>3, DecryptStarts
<1>5. QED
  BY <1>2, <1>3, <1>4

(* The verdict at the end of a pass is the cipher's. *)
LEMMA Verdict ==
  ASSUME IInv, DecryptedSoFar, Running, x_state = "DONE"
  PROVE  /\ key_found_flag <=> Cipher!Decrypts(secret_key, e_mem)
         /\ key_found_flag => \A k \in 0 .. MessageLength - 1 :
                                d_mem[k] = Cipher!Plain(secret_key, e_mem)[k]
<1> DEFINE T == Text(secret_key)
           P == Cipher!Plain(secret_key, e_mem)
           M == MessageLength
           c == Decrypting!CharsShown
<1>1. /\ secret_key \in Nat /\ M \in Nat /\ x_k \in Nat
      /\ DOMAIN P = 0 .. M - 1 /\ \A k \in 0 .. M - 1 : T[k] = P[k]
  <2>1. secret_key \in Nat /\ M \in Nat /\ x_k \in Nat
    BY ByteFacts, SizeFacts, KeyAssumption
       DEF IInv, TypeOK, Decrypt_d_mem!TypeOK, Decrypt_d_mem!Byte, Byte
  <2>2. QED
    BY <2>1, TextFacts
<1>2. Cipher!Decrypts(secret_key, e_mem) <=> \A k \in 0 .. M - 1 : P[k] \in Letters
  BY <1>1 DEF Cipher!Decrypts
<1>3. /\ \A n \in 0 .. M - 1 : n < x_k => d_mem[n] \in Letters
      /\ IF key_found_flag THEN x_k = M ELSE x_k < M /\ d_mem[x_k] \notin Letters
      /\ c = IF key_found_flag THEN x_k ELSE x_k + 1
  BY DEF DecryptedSoFar, Decrypting!EngineInv, Decrypting!MessageInv, Decrypting!CharsShown
<1>4. \A n \in 1 .. c : d_mem[n - 1] = T[n - 1]
  BY DEF DecryptedSoFar, Generated, Decrypting!Out, Decrypting!Chars
<1> HIDE DEF T, P, c
<1>5. CASE key_found_flag
  <2>1. \A k \in 0 .. M - 1 : k + 1 \in 1 .. c /\ (k + 1) - 1 = k /\ k < x_k
    BY <1>1, <1>3, <1>5
  <2>2. \A k \in 0 .. M - 1 : d_mem[k] = P[k] /\ d_mem[k] \in Letters
    BY <1>1, <1>3, <1>4, <2>1
  <2>3. QED
    BY <1>2, <1>5, <2>2 DEF P
<1>6. CASE ~key_found_flag
  <2>1. x_k \in 0 .. M - 1 /\ x_k + 1 \in 1 .. c /\ (x_k + 1) - 1 = x_k
    BY <1>1, <1>3, <1>6
  <2>2. d_mem[x_k] = P[x_k]
    BY <1>1, <1>4, <2>1
  <2>3. QED
    BY <1>2, <1>3, <1>6, <2>1, <2>2
<1>7. QED
  BY <1>5, <1>6

(* A verdict stays right: nobody writes the message it is about. *)
LEMMA StepFound ==
  ASSUME IInv, IInv', TakeTurns, TakeTurns', DecryptedSoFar', FoundMessageIsPlain, Clock
  PROVE  FoundMessageIsPlain'
<1>1. ControlFSM /\ Decrypt_d_mem!Tick /\ Memories
  BY DEF Clock
<1> SUFFICES ASSUME key_found_flag' PROVE FoundMessageIsPlain'
  BY DEF FoundMessageIsPlain
<1>2. CASE x_state' = "DONE"
  <2>1. IInv' /\ DecryptedSoFar' /\ Running' /\ (x_state = "DONE")' =>
          /\ key_found_flag' <=> Cipher!Decrypts(secret_key, e_mem)'
          /\ key_found_flag' => (\A k \in 0 .. MessageLength - 1 :
                                   d_mem[k] = Cipher!Plain(secret_key, e_mem)[k])'
    BY Verdict, PTL
  <2>2. Running'
    BY <1>2 DEF TakeTurns
  <2>3. QED
    BY <1>2, <2>1, <2>2 DEF FoundMessageIsPlain
<1>3. CASE x_state' # "DONE"
  <2>1. key_found_flag /\ x_state \in {"IDLE", "DONE"}
    BY <1>1, <1>3, DecryptEngineMoves DEF TakeTurns
  <2>2. secret_key' = secret_key
    BY <1>1, <2>1, ControlMoves DEF TakeTurns, Running
  <2>3. d_mem' = d_mem /\ e_mem' = e_mem
    BY <1>1, <2>1 DEF Memories, RAM!CellsAfter, Decrypt_d_mem!d_wren
  <2>4. QED
    BY <2>1, <2>2, <2>3 DEF FoundMessageIsPlain
<1>4. QED
  BY <1>2, <1>3

(* ------------------------ the core's invariant --------------------------- *)

CoreInv ==
  IInv /\ TakeTurns /\ Initialised /\ ShuffledSoFar /\ DecryptedSoFar /\ FoundMessageIsPlain

LEMMA InitCore == Init => CoreInv
<1> SUFFICES ASSUME Init PROVE CoreInv
  OBVIOUS
<1>1. /\ state = "IDLE" /\ i_state = "IDLE" /\ w_state = "IDLE" /\ x_state = "IDLE"
      /\ ~stop /\ ~key_found_flag
  BY DEF Init, Init_s_mem!Start, Swap_s_mem!Start, Decrypt_d_mem!Start
<1>2. QED
  BY <1>1, InitTypes DEF CoreInv, TakeTurns, Running, Initialised, ShuffledSoFar, DecryptedSoFar,
                         FoundMessageIsPlain

(* A core that stands still keeps the invariants of its engines. *)
LEMMA StandStill ==
  ASSUME CoreInv, UNCHANGED vars
  PROVE  CoreInv'
<1>1. /\ state' = state /\ secret_key' = secret_key /\ stop' = stop
      /\ i_state' = i_state /\ counter' = counter
      /\ w_state' = w_state /\ w_i' = w_i /\ w_j' = w_j /\ w_i_data' = w_i_data
      /\ w_j_data' = w_j_data /\ w_address' = w_address /\ w_data' = w_data
      /\ x_state' = x_state /\ x_i' = x_i /\ x_j' = x_j /\ x_k' = x_k /\ x_i_data' = x_i_data
      /\ x_j_data' = x_j_data /\ f_value' = f_value /\ x_address' = x_address
      /\ x_s_data' = x_s_data /\ x_d_data' = x_d_data /\ key_found_flag' = key_found_flag
      /\ s_mem' = s_mem /\ s_q' = s_q /\ d_mem' = d_mem /\ d_q' = d_q
      /\ e_mem' = e_mem /\ e_q' = e_q
  BY DEF vars, init, swap, decrypt, memories
<1>2. IInv' /\ TakeTurns' /\ Initialised' /\ FoundMessageIsPlain'
  <2>1. IInv' /\ TakeTurns'
    BY StepTypes, StepTurns DEF CoreInv
  <2>2. QED
    BY <1>1, <2>1 DEF CoreInv, Initialised, FoundMessageIsPlain
<1>3. ShuffledSoFar'
  <2> SUFFICES ASSUME state = "S_MEM_SWAP" PROVE ShuffledSoFar'
    BY <1>1 DEF ShuffledSoFar
  <2>1. UNCHANGED Shuffling!vars
    BY <1>1 DEF Shuffling!vars, Shuffling!fsm
  <2>2. Shuffling!EngineInv'
    BY <2>1, ShufflingConstants, Shuffling!EngineNext DEF CoreInv, ShuffledSoFar
  <2>3. Scheduled'
    BY <1>1 DEF CoreInv, ShuffledSoFar, Scheduled, Shuffling!IShown, Shuffling!JShown,
                Shuffling!TableShown, Shuffling!Written
  <2>4. QED
    BY <2>2, <2>3 DEF ShuffledSoFar
<1>4. DecryptedSoFar'
  <2> SUFFICES ASSUME Running PROVE DecryptedSoFar'
    BY <1>1 DEF DecryptedSoFar, Running
  <2>1. UNCHANGED Decrypting!vars
    BY <1>1 DEF Decrypting!vars, Decrypting!fsm, Decrypting!memories, Decrypting!outputs,
                Decrypting!indices, Decrypting!values, Decrypting!writeData, Running
  <2>2. Decrypting!EngineInv'
    <3>1. IInv
      BY DEF CoreInv
    <3>2. QED
      BY <2>1, <3>1, DecryptingConstants, Decrypting!EngineNext DEF CoreInv, DecryptedSoFar
  <2>3. Generated'
    BY <1>1 DEF CoreInv, DecryptedSoFar, Generated, Turns, Text, Decrypting!Mixed,
                Decrypting!CharsShown, Decrypting!Out, Decrypting!IShown, Decrypting!JShown,
                Decrypting!TableShown, Decrypting!Written
  <2>4. QED
    BY <2>2, <2>3 DEF DecryptedSoFar
<1>5. QED
  BY <1>2, <1>3, <1>4 DEF CoreInv

LEMMA StepCore == CoreInv /\ [Next]_vars => CoreInv'
<1> SUFFICES ASSUME CoreInv, [Next]_vars PROVE CoreInv'
  OBVIOUS
<1>1. IInv' /\ TakeTurns'
  BY StepTypes, StepTurns DEF CoreInv
<1>2. CASE Clock
  <2>1. Initialised' /\ ShuffledSoFar' /\ DecryptedSoFar'
    BY <1>1, <1>2, StepInitialised, StepShuffled, StepDecrypted DEF CoreInv
  <2>2. FoundMessageIsPlain'
    BY <1>1, <1>2, <2>1, StepFound DEF CoreInv
  <2>3. QED
    BY <1>1, <2>1, <2>2 DEF CoreInv
<1>3. CASE Reset
  <2>1. state' = "IDLE" /\ x_state' = "IDLE" /\ ~key_found_flag'
    BY <1>3 DEF Reset, Decrypt_d_mem!Reset
  <2>2. QED
    BY <1>1, <2>1 DEF CoreInv, Initialised, ShuffledSoFar, DecryptedSoFar, Running,
                      FoundMessageIsPlain
<1>4. CASE UNCHANGED vars
  BY <1>4, StandStill
<1>5. QED
  BY <1>2, <1>3, <1>4 DEF Next

(* What the engines hold at any moment of any trial. *)
THEOREM CoreInvariance == Spec => []CoreInv
BY InitCore, StepCore, PTL DEF Spec

(* Whatever an earlier trial, stop or reset left in s_memory, the decrypting *)
(* engine starts from RC4's table for the key under trial.                   *)
THEOREM TableScheduled == Spec => []TableIsScheduled
<1>1. CoreInv => TableIsScheduled
  <2> SUFFICES ASSUME CoreInv, state = "S_MEM_DECRYPT", x_state = "IDLE"
               PROVE  s_mem = Cipher!Shuffled(secret_key)
    BY DEF TableIsScheduled
  <2>1. Generated /\ secret_key \in Nat
    BY KeyAssumption DEF CoreInv, DecryptedSoFar, Running, IInv, TypeOK
  <2>2. /\ Decrypting!CharsShown = 0 /\ ~Decrypting!Mixed
        /\ Decrypting!TableShown = s_mem
    BY DEF Decrypting!CharsShown, Decrypting!Mixed, Decrypting!TableShown,
           Decrypting!BeforeSwap, Decrypting!InSwap, Decrypting!AfterSwap
  <2>3. Cipher!Generator(secret_key)[0].s = Cipher!Shuffled(secret_key)
    <3>1. Cipher!Generator(secret_key)[0] =
            [s |-> Cipher!Shuffled(secret_key), i |-> 0, j |-> 0, f |-> 0]
      BY <2>1, GeneratorRuns
    <3>2. QED
      BY <3>1
  <2>4. Turns = 0
    <3>1. (IF Decrypting!Mixed THEN 1 ELSE 0) = 0
      BY <2>2
    <3>2. QED
      BY <2>2, <3>1 DEF Turns
  <2>5. QED
    BY <2>1, <2>2, <2>3, <2>4 DEF Generated
<1>2. QED
  BY <1>1, CoreInvariance, PTL

(* A key that is shown as found is right, and so is the message in d_memory. *)
THEOREM FoundIsPlain == Spec => []FoundMessageIsPlain
<1>1. CoreInv => FoundMessageIsPlain
  BY DEF CoreInv
<1>2. QED
  BY <1>1, CoreInvariance, PTL

(* --------------------- the core as the controller sees it ---------------- *)

(* The end of the range is met as if the register had no width. *)
LEMMA EndOfRange ==
  ASSUME NEW W \in Nat, NEW first \in Nat, NEW range \in 1 .. W - 1, NEW key \in Nat,
         first <= key, key < W
  PROVE  key = (first + range) % W <=> key = first + range
<1>1. CASE first + range < W
  <2>1. (first + range) % W = first + range
    BY <1>1
  <2>2. QED
    BY <2>1
<1>2. CASE ~(first + range < W)
  <2>1. first + range - W \in 0 .. W - 1 /\ first + range - W < first
    BY <1>2
  <2>2. (first + range) % W = first + range - W
    BY <2>1
  <2>3. QED
    BY <1>2, <2>1, <2>2
<1>3. QED
  BY <1>1, <1>2

LEMMA LastTrial ==
  ASSUME CoreInv, state # "IDLE"
  PROVE  Search!IsLast(secret_key, KeyStart) <=> secret_key \in {key_end_value, LastKey}
<1> DEFINE W == N * N * N
<1>1. /\ W \in Nat /\ KeyStart \in Nat /\ KeyRange \in 1 .. W - 1
      /\ secret_key \in Nat /\ KeyStart <= secret_key /\ secret_key < W
  <2>1. N \in Nat /\ N * N \in Nat /\ W \in Nat
    BY ByteFacts
  <2>2. secret_key \in 0 .. LastKey /\ KeyStart <= secret_key
    BY DEF CoreInv, TakeTurns, IInv, TypeOK
  <2>3. KeyStart \in 0 .. LastKey /\ LastKey \in Nat /\ LastKey < W /\ KeyRange \in 1 .. W - 1
    BY KeyAssumption
  <2> HIDE DEF W
  <2>4. QED
    BY <2>1, <2>2, <2>3
<1>2. key_end_value = (KeyStart + KeyRange) % W
  BY DEF key_end_value
<1> HIDE DEF W
<1>3. secret_key = key_end_value <=> secret_key = KeyStart + KeyRange
  BY <1>1, <1>2, EndOfRange
<1>4. QED
  BY <1>3 DEF Search!IsLast

(* The core while nobody looks at its verdict, and an edge of it. *)
LEMMA Unfinished ==
  ASSUME CoreInv, CoreInv', Clock, Running, ~key_found_flag
  PROVE  /\ x_state = "DONE" =>
              /\ ~Cipher!Decrypts(secret_key, e_mem) /\ ~key_found_flag' /\ x_state' = "IDLE"
         /\ x_state # "DONE" =>
              /\ state' = IF stop \/ state = "DONE" THEN "DONE" ELSE state
              /\ secret_key' = secret_key /\ Running'
              /\ key_found_flag' => Cipher!Decrypts(secret_key, e_mem)
<1>1. /\ ControlFSM /\ Decrypt_d_mem!Tick /\ Memories /\ e_mem' = e_mem
      /\ IInv /\ TakeTurns /\ DecryptedSoFar /\ IInv' /\ TakeTurns' /\ DecryptedSoFar'
  BY DEF Clock, Memories, CoreInv
<1>2. CASE x_state = "DONE"
  BY <1>1, <1>2, Verdict, DecryptEngineMoves
<1>3. CASE x_state # "DONE"
  <2>1. /\ state' = IF stop \/ state = "DONE" THEN "DONE" ELSE state
        /\ secret_key' = secret_key
    BY <1>1, <1>3, ControlMoves DEF Running
  <2>2. Running'
    <3>1. Decrypting!Clock
      BY <1>1, DecryptingClock
    <3>2. QED
      BY <1>3, <3>1 DEF Decrypting!Clock, Decrypting!done_flag
  <2>3. key_found_flag' => x_state' = "DONE"
    BY <1>1, DecryptEngineMoves
  <2>4. IInv' /\ DecryptedSoFar' /\ Running' /\ (x_state = "DONE")' =>
          (key_found_flag' <=> Cipher!Decrypts(secret_key, e_mem)')
    BY Verdict, PTL
  <2>5. key_found_flag' => Cipher!Decrypts(secret_key, e_mem)'
    BY <1>1, <2>2, <2>3, <2>4
  <2>6. key_found_flag' => Cipher!Decrypts(secret_key, e_mem)
    BY <1>1, <2>1, <2>5
  <2>7. QED
    BY <1>3, <2>1, <2>2, <2>6
<1>4. QED
  BY <1>2, <1>3

(* While no decryption is under way the verdict, if there is one, stands.    *)
LEMMA Settled ==
  ASSUME CoreInv, Clock, ~Running \/ key_found_flag
  PROVE  /\ key_found_flag' = key_found_flag /\ x_state' = "IDLE"
         /\ key_found_flag => state \in {"S_MEM_DECRYPT", "DONE"}
         /\ key_found_flag /\ state = "S_MEM_DECRYPT" => x_state = "DONE"
<1>1. IInv /\ TakeTurns /\ Decrypt_d_mem!Tick
  BY DEF Clock, CoreInv
<1>2. x_state \in {"IDLE", "DONE"} /\ (x_state = "IDLE" => state # "S_MEM_DECRYPT")
  BY <1>1 DEF TakeTurns, Running
<1>3. QED
  BY <1>1, <1>2, DecryptEngineMoves DEF TakeTurns, Running

(* Every edge is one of the abstract core. *)
LEMMA ClockSearches ==
  ASSUME CoreInv, CoreInv', Clock
  PROVE  Core' \in CoreSteps
<1> DEFINE good == Cipher!Decrypts(secret_key, e_mem)
           After(p) == Search!After(Core, KeyStart, good, stop, p)
           Is(ph, k, t, f) == Core' = [phase |-> ph, key |-> k, trial |-> t, found |-> f]
<1>1. /\ IInv /\ TakeTurns /\ ControlFSM
      /\ state \in {"IDLE", "S_MEM_INIT", "S_MEM_SWAP", "S_MEM_DECRYPT", "DONE"}
      /\ key_found_flag \in BOOLEAN /\ key_found_flag' \in BOOLEAN
  BY DEF Clock, CoreInv, IInv, TypeOK, Decrypt_d_mem!TypeOK
<1>2. ASSUME NEW p \in BOOLEAN, Core' = After(p) PROVE Core' \in CoreSteps
  BY <1>2 DEF CoreSteps
<1>3. ASSUME state' = "DONE", x_state' = "IDLE"
      PROVE  Is("DONE", secret_key', "none", key_found_flag')
  BY <1>3 DEF Core, Running
<1>4. CASE (stop \/ state = "DONE") /\ (~Running \/ key_found_flag)
  <2>1. state' = "DONE" /\ secret_key' = secret_key
    BY <1>1, <1>4, ControlMoves
  <2>2. key_found_flag' = key_found_flag /\ x_state' = "IDLE"
    BY <1>4, Settled
  <2>3. Is("DONE", secret_key, "none", key_found_flag)
    BY <1>3, <2>1, <2>2
  <2>4. After(TRUE) = [phase |-> "DONE", key |-> secret_key, trial |-> "none",
                       found |-> key_found_flag]
    BY <1>4 DEF Core, Search!After, Search!Halt, Search!Move
  <2>5. QED
    BY <1>2, <2>3, <2>4
<1>5. CASE (stop \/ state = "DONE") /\ Running /\ ~key_found_flag
  <2>1. state' = "DONE" /\ secret_key' = secret_key
    BY <1>1, <1>5, ControlMoves
  <2> DEFINE c == Core
  <2>2. c.trial = "decrypt" /\ c.key = secret_key /\ (stop \/ c.phase = "DONE")
    BY <1>5 DEF Core, Running
  <2> HIDE DEF c
  <2>3. After(TRUE) = Search!Verdict(Search!Move(c, "DONE", "decrypt"), good,
                                     Search!Move(c, "DONE", "none"))
        /\ After(FALSE) = Search!Move(c, "DONE", "decrypt")
    BY <2>2 DEF c, Search!After, Search!Halt
  <2>4. /\ Search!Move(c, "DONE", "none") = [phase |-> "DONE", key |-> secret_key,
                                             trial |-> "none", found |-> FALSE]
        /\ Search!Move(c, "DONE", "decrypt") = [phase |-> "DONE", key |-> secret_key,
                                                trial |-> "decrypt", found |-> FALSE]
    BY <1>1, <1>5 DEF c, Core, Search!Move
  <2>5. CASE x_state = "DONE"
    <3>1. ~good /\ key_found_flag' = FALSE /\ x_state' = "IDLE"
      BY <1>1, <1>5, <2>5, Unfinished
    <3>2. Is("DONE", secret_key, "none", FALSE)
      BY <1>3, <2>1, <3>1
    <3>3. After(TRUE) = [phase |-> "DONE", key |-> secret_key, trial |-> "none",
                         found |-> FALSE]
      BY <2>3, <2>4, <3>1 DEF Search!Verdict
    <3>4. QED
      BY <1>2, <3>2, <3>3
  <2>6. CASE x_state # "DONE" /\ key_found_flag'
    <3>1. good /\ Running' /\ key_found_flag' = TRUE
      BY <1>1, <1>5, <2>6, Unfinished
    <3>2. Is("DONE", secret_key, "none", TRUE)
      BY <2>1, <3>1 DEF Core
    <3>3. After(TRUE) = [phase |-> "DONE", key |-> secret_key, trial |-> "none",
                         found |-> TRUE]
      <4> DEFINE m == Search!Move(c, "DONE", "decrypt")
      <4>1. m.phase = "DONE" /\ m.key = secret_key
        BY <2>4
      <4> HIDE DEF m
      <4>2. Search!Verdict(m, good, Search!Move(c, "DONE", "none")) =
              [phase |-> m.phase, key |-> m.key, trial |-> "none", found |-> TRUE]
        BY <3>1 DEF Search!Verdict
      <4>3. QED
        BY <2>3, <4>1, <4>2 DEF m
    <3>4. QED
      BY <1>2, <3>2, <3>3
  <2>7. CASE x_state # "DONE" /\ ~key_found_flag'
    <3>1. Running' /\ key_found_flag' = FALSE
      BY <1>1, <1>5, <2>7, Unfinished
    <3>2. Is("DONE", secret_key, "decrypt", FALSE)
      BY <2>1, <3>1 DEF Core
    <3>3. After(FALSE) = [phase |-> "DONE", key |-> secret_key, trial |-> "decrypt",
                          found |-> FALSE]
      BY <2>3, <2>4
    <3>4. QED
      BY <1>2, <3>2, <3>3
  <2>8. QED
    BY <2>5, <2>6, <2>7
<1>6. CASE ~stop /\ state \in {"IDLE", "S_MEM_INIT", "S_MEM_SWAP"}
  <2>1. key_found_flag = FALSE /\ key_found_flag' = FALSE /\ x_state' = "IDLE"
    BY <1>1, <1>6, Settled DEF Running
  <2>2. CASE state = "IDLE"
    <3>1. Is("SEARCH", KeyStart, "prepare", FALSE)
      BY <1>1, <1>6, <2>1, <2>2, ControlMoves DEF Core
    <3>2. After(TRUE) = [phase |-> "SEARCH", key |-> KeyStart, trial |-> "prepare",
                         found |-> FALSE]
      BY <1>6, <2>1, <2>2 DEF Core, Search!After, Search!Prepare
    <3>3. QED
      BY <1>2, <3>1, <3>2
  <2>3. CASE state # "IDLE" /\ ~(state = "S_MEM_SWAP" /\ w_state = "DONE")
    <3>1. state' \in {"S_MEM_INIT", "S_MEM_SWAP"} /\ secret_key' = secret_key
      BY <1>1, <1>6, <2>3, ControlMoves
    <3>2. Is("SEARCH", secret_key, "prepare", FALSE)
      BY <2>1, <3>1 DEF Core
    <3>3. After(FALSE) = [phase |-> "SEARCH", key |-> secret_key, trial |-> "prepare",
                          found |-> FALSE]
      BY <1>6, <2>1, <2>3 DEF Core, Search!After
    <3>4. QED
      BY <1>2, <3>2, <3>3
  <2>4. CASE state = "S_MEM_SWAP" /\ w_state = "DONE"
    <3>1. state' = "S_MEM_DECRYPT" /\ secret_key' = secret_key
      BY <1>1, <1>6, <2>4, ControlMoves
    <3>2. Is("SEARCH", secret_key, "decrypt", FALSE)
      BY <2>1, <3>1 DEF Core, Running
    <3>3. After(TRUE) = [phase |-> "SEARCH", key |-> secret_key, trial |-> "decrypt",
                         found |-> FALSE]
      BY <1>6, <2>1, <2>4 DEF Core, Search!After, Search!Move
    <3>4. QED
      BY <1>2, <3>2, <3>3
  <2>5. QED
    BY <1>6, <2>2, <2>3, <2>4
<1>7. CASE ~stop /\ state = "S_MEM_DECRYPT" /\ key_found_flag
  <2>1. x_state = "DONE" /\ x_state' = "IDLE" /\ key_found_flag' = TRUE
    BY <1>1, <1>7, Settled
  <2>2. Is("DONE", secret_key, "none", TRUE)
    BY <1>1, <1>3, <1>7, <2>1, ControlMoves
  <2>3. After(TRUE) = [phase |-> "DONE", key |-> secret_key, trial |-> "none", found |-> TRUE]
    BY <1>1, <1>7 DEF Core, Search!After, Search!Move
  <2>4. QED
    BY <1>2, <2>2, <2>3
<1>8. CASE ~stop /\ state = "S_MEM_DECRYPT" /\ ~key_found_flag
  <2>1. Running
    BY <1>8 DEF Running
  <2>2. CASE x_state = "DONE"
    <3>1. ~good /\ key_found_flag' = FALSE /\ x_state' = "IDLE"
      BY <1>1, <1>8, <2>1, <2>2, Unfinished
    <3>2. Search!IsLast(secret_key, KeyStart) <=> secret_key \in {key_end_value, LastKey}
      BY <1>8, LastTrial
    <3>3. CASE Search!IsLast(secret_key, KeyStart)
      <4>1. Is("DONE", secret_key, "none", FALSE)
        BY <1>1, <1>3, <1>8, <2>2, <3>1, <3>2, <3>3, ControlMoves
      <4>2. After(TRUE) = [phase |-> "DONE", key |-> secret_key, trial |-> "none",
                           found |-> FALSE]
        BY <1>1, <1>8, <3>1, <3>3 DEF Core, Running, Search!After, Search!Verdict,
                                      Search!NextTrial, Search!Move
      <4>3. QED
        BY <1>2, <4>1, <4>2
    <3>4. CASE ~Search!IsLast(secret_key, KeyStart)
      <4>1. Is("SEARCH", secret_key + 1, "prepare", FALSE)
        BY <1>1, <1>8, <2>2, <3>1, <3>2, <3>4, ControlMoves DEF Core
      <4>2. After(TRUE) = [phase |-> "SEARCH", key |-> secret_key + 1, trial |-> "prepare",
                           found |-> FALSE]
        BY <1>1, <1>8, <3>1, <3>4 DEF Core, Running, Search!After, Search!Verdict,
                                      Search!NextTrial, Search!Prepare
      <4>3. QED
        BY <1>2, <4>1, <4>2
    <3>5. QED
      BY <3>3, <3>4
  <2>3. CASE x_state # "DONE" /\ key_found_flag'
    <3>1. good /\ state' = "S_MEM_DECRYPT" /\ secret_key' = secret_key /\ key_found_flag' = TRUE
      BY <1>1, <1>8, <2>1, <2>3, Unfinished
    <3>2. Is("SEARCH", secret_key, "none", TRUE)
      BY <3>1 DEF Core
    <3>3. After(TRUE) = [phase |-> "SEARCH", key |-> secret_key, trial |-> "none",
                         found |-> TRUE]
      BY <1>1, <1>8, <3>1 DEF Core, Running, Search!After, Search!Verdict
    <3>4. QED
      BY <1>2, <3>2, <3>3
  <2>4. CASE x_state # "DONE" /\ ~key_found_flag'
    <3>1. state' = "S_MEM_DECRYPT" /\ secret_key' = secret_key /\ key_found_flag' = FALSE
      BY <1>1, <1>8, <2>1, <2>4, Unfinished
    <3>2. Is("SEARCH", secret_key, "decrypt", FALSE)
      BY <3>1 DEF Core, Running
    <3>3. After(FALSE) = [phase |-> "SEARCH", key |-> secret_key, trial |-> "decrypt",
                          found |-> FALSE]
      BY <1>1, <1>8 DEF Core, Running, Search!After
    <3>4. QED
      BY <1>2, <3>2, <3>3
  <2>5. QED
    BY <2>2, <2>3, <2>4
<1>9. QED
  BY <1>1, <1>4, <1>5, <1>6, <1>7, <1>8

(* The core tries its keys one by one, its verdict on each is RC4's own, it  *)
(* ends at the last key, and once stopped it only finishes a decryption.     *)
THEOREM CoreImplements == Spec => ImplementsCoreSearch
<1>1. Init => Core = Search!Fresh(0)
  BY DEF Init, Decrypt_d_mem!Start, Core, Running, Search!Fresh
<1>2. CoreInv /\ CoreInv' /\ [Next]_vars => [Core' \in CoreSteps]_Core
  <2> SUFFICES ASSUME CoreInv, CoreInv', [Next]_vars
               PROVE  Core' \in CoreSteps \/ Core' = Core
    OBVIOUS
  <2>1. CASE Clock
    BY <2>1, ClockSearches
  <2>2. CASE Reset
    <3>1. Core' = Search!Fresh(KeyStart)
      BY <2>2 DEF Reset, Decrypt_d_mem!Reset, Core, Running, Search!Fresh
    <3>2. QED
      BY <3>1 DEF CoreSteps
  <2>3. CASE UNCHANGED vars
    BY <2>3 DEF vars, decrypt, Core, Running
  <2>4. QED
    BY <2>1, <2>2, <2>3 DEF Next
<1>3. QED
  BY CoreInvariance, <1>1, <1>2, PTL DEF Spec, ImplementsCoreSearch

(* The registers and the cells of a core keep their widths, and the key      *)
(* register never passes the last key of the search.                         *)
THEOREM CoreTypeCorrect == Spec => []TypeOK
<1>1. IInv => TypeOK
  BY DEF IInv
<1>2. QED
  BY InitTypes, StepTypes, <1>1, PTL DEF Spec

(* Whatever the size of the memory, the key and the moment of a stop or of a *)
(* reset, no write to s_memory is dropped while the core works.              *)
THEOREM WritesReachMemory == Spec => []NoWriteDropped
<1>1. Init => TakeTurns
  BY DEF Init, TakeTurns, Init_s_mem!Start, Swap_s_mem!Start, Decrypt_d_mem!Start, Running
<1>2. TakeTurns => NoWriteDropped
  BY DEF TakeTurns, Running, NoWriteDropped, Init_s_mem!wren, Swap_s_mem!wren,
         Decrypt_d_mem!s_wren
<1>3. QED
  BY InitTypes, StepTypes, StepTurns, <1>1, <1>2, PTL DEF Spec
=============================================================================
