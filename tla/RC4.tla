-------------------------------- MODULE RC4 --------------------------------
(***************************************************************************)
(* RC4 with a three-byte key, as a function of the key: the reference the   *)
(* decryption core is compared with.                                        *)
(***************************************************************************)
EXTENDS Naturals

CONSTANTS N, MessageLength, Letters, ByteXor(_, _)

Byte == 0 .. N - 1

(* secret_key[23:16], [15:8] and [7:0], in that order. *)
KeyBytes(key) ==
  [b \in 0 .. 2 |-> (key \div (IF b = 0 THEN N * N ELSE IF b = 1 THEN N ELSE 1)) % N]

Exchange(t, a, b) == [t EXCEPT ![a] = t[b], ![b] = t[a]]

(* Round n of the key schedule, and the table after n rounds.               *)
Round(kb, n, r) ==
  LET j == (r.j + r.s[n] + kb[n % 3]) % N
  IN [s |-> Exchange(r.s, n, j), j |-> j]

Schedule(key) ==
  LET kb == KeyBytes(key)
      round[n \in 0 .. N] ==
        IF n = 0 THEN [s |-> [a \in Byte |-> a], j |-> 0]
        ELSE Round(kb, n - 1, round[n - 1])
  IN round

Shuffled(key) == Schedule(key)[N].s

(* One turn of the generator, and the generator after n characters; f is    *)
(* the n-th byte of the key stream.                                         *)
Turn(r) ==
  LET i == (r.i + 1) % N
      j == (r.j + r.s[i]) % N
      s == Exchange(r.s, i, j)
  IN [s |-> s, i |-> i, j |-> j, f |-> s[(s[i] + s[j]) % N]]

Generator(key) ==
  LET g[n \in 0 .. MessageLength] ==
        IF n = 0 THEN [s |-> Shuffled(key), i |-> 0, j |-> 0, f |-> 0]
        ELSE Turn(g[n - 1])
  IN g

Plain(key, msg) ==
  LET g == Generator(key)
  IN [k \in 0 .. MessageLength - 1 |-> ByteXor(g[k + 1].f, msg[k])]

(* The key turns the whole message into letters. *)
Decrypts(key, msg) ==
  LET p == Plain(key, msg) IN \A k \in DOMAIN p : p[k] \in Letters
=============================================================================
