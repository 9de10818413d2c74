----------------------------- MODULE InstProofs -----------------------------
(***************************************************************************)
(* Proofs about one instruction: its word is unpacked to the fields it was *)
(* made of, the fields each statement is parsed to, and what the decoder   *)
(* answers to it.                                                          *)
(***************************************************************************)
EXTENDS Microcode, TLAPS, FiniteSetTheorems, SequenceTheorems,
        WellFoundedInduction

-----------------------------------------------------------------------------
(* Induction, by the least counterexample.                                 *)

\* A set of numbers has a least one.
LEMMA LeastNat ==
  ASSUME NEW T \in SUBSET Nat, T # {}
  PROVE  \E x \in T : \A y \in T : x <= y
<1> DEFINE R == OpToRel(<, Nat)
<1>1. PICK x \in T : \A y \in T : ~ (<<y, x>> \in R)
  <2>1. IsWellFoundedOn(R, Nat) BY NatLessThanWellFounded
  <2> HIDE DEF R
  <2> QED BY <2>1, WFMin, Zenon
<1>2. \A y \in T : ~ (y < x)
  BY <1>1, Zenon DEF OpToRel
<1> QED BY <1>2

\* A set with 0 and the successor of each of its numbers has all of them.
LEMMA SetInduction ==
  ASSUME NEW T, 0 \in T, \A n \in Nat : n \in T => n + 1 \in T
  PROVE  \A n \in Nat : n \in T
<1> SUFFICES ASSUME NEW n \in Nat, n \notin T PROVE FALSE
  OBVIOUS
<1> DEFINE U == Nat \ T
<1>1. U \in SUBSET Nat /\ U # {} OBVIOUS
<1>2. PICK x \in U : \A y \in U : x <= y
  <2> HIDE DEF U
  <2> QED BY <1>1, LeastNat
<1>3. x # 0 /\ x - 1 \in Nat /\ x - 1 \in T
  BY <1>2
<1> QED BY <1>2, <1>3

-----------------------------------------------------------------------------
(* What FlattenSeq computes.                                               *)

\* The words up to sequence i, by those up to the one before.
Joined(f, s, i) == IF i = 1 THEN s[i] ELSE f[i - 1] \o s[i]

\* f concatenates the sequences of s from the first one on, n of them at most.
Flattens(f, s, n) ==
  /\ f = [i \in 1 .. n |-> f[i]]
  /\ \A i \in 1 .. n : f[i] = Joined(f, s, i)

\* What FlattenSeq chooses is such a function.
LEMMA FlattensIs ==
  ASSUME NEW f, NEW s, NEW n
  PROVE  Flattens(f, s, n)
           <=> f = [i \in 1 .. n |-> IF i = 1 THEN s[i] ELSE f[i - 1] \o s[i]]
<1>1. f = [i \in 1 .. n |-> f[i]] /\ (\A i \in 1 .. n : f[i] = Joined(f, s, i))
        <=> f = [i \in 1 .. n |-> Joined(f, s, i)]
  OBVIOUS
<1> QED BY <1>1 DEF Flattens, Joined

LEMMA FlattensAt ==
  ASSUME NEW f, NEW s, NEW n, Flattens(f, s, n), NEW i \in 1 .. n
  PROVE  f[i] = Joined(f, s, i)
BY Zenon DEF Flattens

\* The recursion has a solution for each n ...
LEMMA FlattenExists ==
  ASSUME NEW s, NEW n \in Nat
  PROVE  \E f : Flattens(f, s, n)
<1> DEFINE T == {m \in Nat : \E f : Flattens(f, s, m)}
<1>1. 0 \in T
  <2>1. Flattens([i \in 1 .. 0 |-> i], s, 0) BY DEF Flattens
  <2> QED BY <2>1
<1>2. ASSUME NEW m \in Nat, m \in T PROVE m + 1 \in T
  <2>1. PICK f : Flattens(f, s, m) BY <1>2
  <2> DEFINE e == IF m = 0 THEN s[m + 1] ELSE f[m] \o s[m + 1]
  <2> DEFINE g == [i \in 1 .. m + 1 |-> IF i = m + 1 THEN e ELSE f[i]]
  <2>2. ASSUME NEW i \in 1 .. m + 1
        PROVE  g[i] = Joined(g, s, i)
    <3>1. CASE i = m + 1
      <4>1. i # 1 => m \in 1 .. m /\ m # m + 1 BY <3>1
      <4> QED BY <3>1, <4>1 DEF Joined
    <3>2. CASE i # m + 1
      <4>0. i \in 1 .. m
        BY <3>2
      <4>1. f[i] = Joined(f, s, i)
        BY <2>1, <4>0, FlattensAt, Zenon
      <4>2. i # 1 => i - 1 \in 1 .. m + 1 /\ i - 1 # m + 1 BY <4>0
      <4> QED BY <3>2, <4>0, <4>1, <4>2 DEF Joined
    <3> QED BY <3>1, <3>2
  <2> HIDE DEF e
  <2>3. g = [i \in 1 .. m + 1 |-> g[i]] OBVIOUS
  <2> HIDE DEF g
  <2>4. Flattens(g, s, m + 1) BY <2>2, <2>3 DEF Flattens
  <2> QED BY <2>4
<1> HIDE DEF T
<1>3. n \in T BY <1>1, <1>2, SetInduction
<1> QED BY <1>3 DEF T

\* ... and the solutions agree.
LEMMA FlattenUnique ==
  ASSUME NEW s, NEW t, NEW n \in Nat, NEW k \in Nat, NEW f, NEW g,
         Flattens(f, s, n), Flattens(g, t, k), n <= k,
         \A i \in 1 .. n : s[i] = t[i]
  PROVE  \A i \in 1 .. n : f[i] = g[i]
<1> DEFINE T == {m \in Nat : m \in 1 .. n => f[m] = g[m]}
<1>1. 0 \in T OBVIOUS
<1>2. ASSUME NEW m \in Nat, m \in T PROVE m + 1 \in T
  <2> SUFFICES ASSUME m + 1 \in 1 .. n PROVE f[m + 1] = g[m + 1] OBVIOUS
  <2>0. m + 1 \in 1 .. k OBVIOUS
  <2>1. /\ f[m + 1] = Joined(f, s, m + 1)
        /\ g[m + 1] = Joined(g, t, m + 1)
    BY <2>0, FlattensAt, Zenon
  <2>2. m + 1 - 1 = m /\ (m # 0 => m \in 1 .. n) OBVIOUS
  <2>3. m # 0 => f[m] = g[m] BY <1>2, <2>2
  <2> QED BY <2>1, <2>2, <2>3 DEF Joined
<1> HIDE DEF T
<1>3. \A m \in Nat : m \in T BY <1>1, <1>2, SetInduction
<1> QED BY <1>3 DEF T

\* FlattenSeq is the last value of any such function.
LEMMA FlattenIs ==
  ASSUME NEW s, NEW n \in Nat \ {0}, Len(s) = n, NEW f, Flattens(f, s, n)
  PROVE  FlattenSeq(s) = f[n]
<1> DEFINE g == CHOOSE h : h = [i \in 1 .. n |-> IF i = 1 THEN s[i] ELSE h[i - 1] \o s[i]]
<1>1. Flattens(g, s, n)
  <2>1. \E h : h = [i \in 1 .. n |-> IF i = 1 THEN s[i] ELSE h[i - 1] \o s[i]]
    BY FlattensIs
  <2>2. g = [i \in 1 .. n |-> IF i = 1 THEN s[i] ELSE g[i - 1] \o s[i]]
    BY <2>1, Zenon
  <2> HIDE DEF g
  <2> QED BY <2>2, FlattensIs
<1>2. FlattenSeq(s) = g[n]
  BY Zenon DEF FlattenSeq
<1> HIDE DEF g
<1> QED BY <1>1, <1>2, FlattenUnique

\* One more sequence is appended to the words of those before.
LEMMA FlattenExtends ==
  ASSUME NEW W, NEW s \in Seq(Seq(W)), NEW x \in Seq(W)
  PROVE  FlattenSeq(Append(s, x)) = IF s = <<>> THEN x ELSE FlattenSeq(s) \o x
<1> DEFINE n == Len(s)
           t == Append(s, x)
<1>1. n \in Nat /\ Len(t) = n + 1 /\ t[n + 1] = x /\ \A i \in 1 .. n : t[i] = s[i]
  OBVIOUS
<1> HIDE DEF n, t
<1>2. PICK g : Flattens(g, t, n + 1)
  <2>1. n + 1 \in Nat BY <1>1
  <2> QED BY <2>1, FlattenExists, Zenon
<1>3. FlattenSeq(t) = g[n + 1] BY <1>1, <1>2, FlattenIs
<1>4. g[n + 1] = IF n = 0 THEN x ELSE g[n] \o x
  <2>0. n + 1 \in 1 .. n + 1 BY <1>1
  <2>1. g[n + 1] = Joined(g, t, n + 1)
    BY <1>2, <2>0, FlattensAt, Zenon
  <2> QED BY <1>1, <2>1 DEF Joined
<1>5. n # 0 => FlattenSeq(s) = g[n]
  <2> SUFFICES ASSUME n # 0 PROVE FlattenSeq(s) = g[n] OBVIOUS
  <2>1. PICK f : Flattens(f, s, n) BY <1>1, FlattenExists
  <2>2. FlattenSeq(s) = f[n] BY <1>1, <2>1, FlattenIs DEF n
  <2>3. n + 1 \in Nat /\ n <= n + 1 /\ n \in 1 .. n BY <1>1
  <2>4. \A i \in 1 .. n : s[i] = t[i] BY <1>1
  <2>5. \A i \in 1 .. n : f[i] = g[i] BY <1>1, <1>2, <2>1, <2>3, <2>4, FlattenUnique
  <2>6. f[n] = g[n] BY <2>3, <2>5
  <2> QED BY <2>2, <2>6
<1>6. s = <<>> <=> n = 0 BY EmptySeq DEF n
<1> QED BY <1>3, <1>4, <1>5, <1>6 DEF t

LEMMA FlattenEmpty == FlattenSeq(<<>>) = <<>>
BY DEF FlattenSeq

-----------------------------------------------------------------------------
(* The bits of a number, and the number of its bits.                       *)

\* The powers of two up to the widest field.
LEMMA PowerOfTwo ==
  \A n \in 0 .. 15 : 2 ^ (n + 1) = 2 * 2 ^ n /\ 2 ^ n \in Nat \ {0}
<1> TAKE n \in 0 .. 15
<1>1. \/ n = 0 \/ n = 1 \/ n = 2 \/ n = 3 \/ n = 4 \/ n = 5 \/ n = 6 \/ n = 7
      \/ n = 8 \/ n = 9 \/ n = 10 \/ n = 11 \/ n = 12 \/ n = 13 \/ n = 14 \/ n = 15
  OBVIOUS
<1>2. CASE n = 0
  <2>1. 2 ^ 0 = 1 /\ 2 ^ 1 = 2 OBVIOUS
  <2> QED BY <1>2, <2>1
<1>3. CASE n = 1
  <2>1. 2 ^ 1 = 2 /\ 2 ^ 2 = 4 OBVIOUS
  <2> QED BY <1>3, <2>1
<1>4. CASE n = 2
  <2>1. 2 ^ 2 = 4 /\ 2 ^ 3 = 8 OBVIOUS
  <2> QED BY <1>4, <2>1
<1>5. CASE n = 3
  <2>1. 2 ^ 3 = 8 /\ 2 ^ 4 = 16 OBVIOUS
  <2> QED BY <1>5, <2>1
<1>6. CASE n = 4
  <2>1. 2 ^ 4 = 16 /\ 2 ^ 5 = 32 OBVIOUS
  <2> QED BY <1>6, <2>1
<1>7. CASE n = 5
  <2>1. 2 ^ 5 = 32 /\ 2 ^ 6 = 64 OBVIOUS
  <2> QED BY <1>7, <2>1
<1>8. CASE n = 6
  <2>1. 2 ^ 6 = 64 /\ 2 ^ 7 = 128 OBVIOUS
  <2> QED BY <1>8, <2>1
<1>9. CASE n = 7
  <2>1. 2 ^ 7 = 128 /\ 2 ^ 8 = 256 OBVIOUS
  <2> QED BY <1>9, <2>1
<1>10. CASE n = 8
  <2>1. 2 ^ 8 = 256 /\ 2 ^ 9 = 512 OBVIOUS
  <2> QED BY <1>10, <2>1
<1>11. CASE n = 9
  <2>1. 2 ^ 9 = 512 /\ 2 ^ 10 = 1024 OBVIOUS
  <2> QED BY <1>11, <2>1
<1>12. CASE n = 10
  <2>1. 2 ^ 10 = 1024 /\ 2 ^ 11 = 2048 OBVIOUS
  <2> QED BY <1>12, <2>1
<1>13. CASE n = 11
  <2>1. 2 ^ 11 = 2048 /\ 2 ^ 12 = 4096 OBVIOUS
  <2> QED BY <1>13, <2>1
<1>14. CASE n = 12
  <2>1. 2 ^ 12 = 4096 /\ 2 ^ 13 = 8192 OBVIOUS
  <2> QED BY <1>14, <2>1
<1>15. CASE n = 13
  <2>1. 2 ^ 13 = 8192 /\ 2 ^ 14 = 16384 OBVIOUS
  <2> QED BY <1>15, <2>1
<1>16. CASE n = 14
  <2>1. 2 ^ 14 = 16384 /\ 2 ^ 15 = 32768 OBVIOUS
  <2> QED BY <1>16, <2>1
<1>17. CASE n = 15
  <2>1. 2 ^ 15 = 32768 /\ 2 ^ 16 = 65536 OBVIOUS
  <2> QED BY <1>17, <2>1
<1> QED BY <1>1, <1>2, <1>3, <1>4, <1>5, <1>6, <1>7, <1>8, <1>9, <1>10, <1>11, <1>12,
    <1>13, <1>14, <1>15, <1>16, <1>17

\* One more bit.
LEMMA BitShifts ==
  ASSUME NEW x \in Nat, NEW y \in Nat \ {0}
  PROVE  x \div y = (2 * (x \div (2 * y))) + ((x \div y) % 2)
<1>1. x \div (2 * y) = (x \div y) \div 2 OBVIOUS
<1>2. x \div y \in Nat OBVIOUS
<1>3. \A z \in Nat : z = (2 * (z \div 2)) + (z % 2) OBVIOUS
<1> QED BY <1>1, <1>2, <1>3

\* Value's recursion, with a function that solves it.
Sums(v, bits, n) ==
  /\ v = [k \in 0 .. n |-> v[k]]
  /\ \A k \in 0 .. n : v[k] = IF k = 0 THEN 0 ELSE 2 * v[k - 1] + bits[k]

LEMMA SumsIs ==
  ASSUME NEW v, NEW bits, NEW n
  PROVE  Sums(v, bits, n)
           <=> v = [k \in 0 .. n |-> IF k = 0 THEN 0 ELSE 2 * v[k - 1] + bits[k]]
BY DEF Sums

LEMMA SumsAt ==
  ASSUME NEW v, NEW bits, NEW n, Sums(v, bits, n), NEW k \in 0 .. n
  PROVE  v[k] = IF k = 0 THEN 0 ELSE 2 * v[k - 1] + bits[k]
BY Zenon DEF Sums

LEMMA ValueIs ==
  ASSUME NEW bits, NEW n \in Nat, Len(bits) = n, NEW h, Sums(h, bits, n)
  PROVE  Value(bits) = h[n]
<1> DEFINE v == CHOOSE g : g = [k \in 0 .. n |-> IF k = 0 THEN 0 ELSE 2 * g[k - 1] + bits[k]]
<1>1. Sums(v, bits, n)
  <2>1. \E g : g = [k \in 0 .. n |-> IF k = 0 THEN 0 ELSE 2 * g[k - 1] + bits[k]]
    BY SumsIs
  <2>2. v = [k \in 0 .. n |-> IF k = 0 THEN 0 ELSE 2 * v[k - 1] + bits[k]]
    BY <2>1, Zenon
  <2> HIDE DEF v
  <2> QED BY <2>2, SumsIs
<1>2. Value(bits) = v[n]
  BY Zenon DEF Value
<1> HIDE DEF v
<1> DEFINE T == {m \in Nat : m \in 0 .. n => v[m] = h[m]}
<1>3. 0 \in T
  <2>1. 0 \in 0 .. n OBVIOUS
  <2> QED BY <1>1, <2>1, SumsAt
<1>4. ASSUME NEW m \in Nat, m \in T PROVE m + 1 \in T
  <2> SUFFICES ASSUME m + 1 \in 0 .. n PROVE v[m + 1] = h[m + 1] OBVIOUS
  <2>1. m \in 0 .. n /\ m + 1 # 0 /\ m + 1 - 1 = m OBVIOUS
  <2>2. v[m] = h[m] BY <1>4, <2>1
  <2>3. /\ v[m + 1] = IF m + 1 = 0 THEN 0 ELSE 2 * v[m + 1 - 1] + bits[m + 1]
        /\ h[m + 1] = IF m + 1 = 0 THEN 0 ELSE 2 * h[m + 1 - 1] + bits[m + 1]
    BY <1>1, SumsAt
  <2> QED BY <2>1, <2>2, <2>3
<1> HIDE DEF T
<1>5. \A m \in Nat : m \in T BY <1>3, <1>4, SetInduction
<1>6. v[n] = h[n] BY <1>5 DEF T
<1> QED BY <1>2, <1>6

\* A number that fits into a field comes back from its bits
\* (printShortField and printLongField in bp_as.cc).
LEMMA BitsValue ==
  ASSUME NEW w \in 1 .. 16, NEW x \in 0 .. 2 ^ w - 1
  PROVE  /\ Bits(x, w) \in Seq(0 .. 1) /\ Len(Bits(x, w)) = w
         /\ Value(Bits(x, w)) = x
<1> DEFINE b == Bits(x, w)
           h == [k \in 0 .. w |-> x \div 2 ^ (w - k)]
<1>1. w - 1 \in 0 .. 15 /\ w = (w - 1) + 1 OBVIOUS
<1>2. 2 ^ w \in Nat \ {0}
  <2>1. 2 ^ w = 2 * 2 ^ (w - 1) /\ 2 ^ (w - 1) \in Nat \ {0} BY <1>1, PowerOfTwo
  <2> QED BY <2>1
<1>3. x \in Nat /\ x < 2 ^ w BY <1>2
<1>4. ASSUME NEW k \in 1 .. w
      PROVE  /\ 2 ^ (w - k) \in Nat \ {0} /\ 2 ^ (w - (k - 1)) = 2 * 2 ^ (w - k)
             /\ b[k] = (x \div 2 ^ (w - k)) % 2 /\ b[k] \in 0 .. 1
  <2>1. w - k \in 0 .. 15 /\ (w - k) + 1 = w - (k - 1) OBVIOUS
  <2>2. 2 ^ ((w - k) + 1) = 2 * 2 ^ (w - k) /\ 2 ^ (w - k) \in Nat \ {0}
    BY <2>1, PowerOfTwo
  <2>3. b[k] = (x \div 2 ^ (w - k)) % 2 BY DEF Bits
  <2>4. \A y \in Nat \ {0} : (x \div y) % 2 \in 0 .. 1 BY <1>3
  <2> QED BY <2>1, <2>2, <2>3, <2>4
<1>5. b \in Seq(0 .. 1) /\ Len(b) = w
  <2>1. b = [k \in 1 .. w |-> (x \div 2 ^ (w - k)) % 2] BY DEF Bits
  <2>2. b \in [1 .. w -> 0 .. 1] BY <1>4, <2>1
  <2>3. w \in Nat OBVIOUS
  <2> HIDE DEF b
  <2> QED BY <2>1, <2>2, <2>3
<1>6. Sums(h, b, w)
  <2>1. ASSUME NEW k \in 0 .. w
        PROVE  h[k] = IF k = 0 THEN 0 ELSE 2 * h[k - 1] + b[k]
    <3>1. CASE k = 0
      <4>1. h[0] = x \div 2 ^ w BY <1>1
      <4>2. \A y \in Nat \ {0} : x < y => x \div y = 0 BY <1>3
      <4> QED BY <1>2, <1>3, <3>1, <4>1, <4>2
    <3>2. CASE k # 0
      <4>1. k \in 1 .. w /\ k - 1 \in 0 .. w BY <3>2
      <4>2. h[k] = x \div 2 ^ (w - k) /\ h[k - 1] = x \div 2 ^ (w - (k - 1)) BY <4>1
      <4> HIDE DEF h, b
      <4>3. /\ 2 ^ (w - k) \in Nat \ {0} /\ 2 ^ (w - (k - 1)) = 2 * 2 ^ (w - k)
            /\ b[k] = (x \div 2 ^ (w - k)) % 2
        BY <1>4, <4>1
      <4>4. x \div 2 ^ (w - k)
              = (2 * (x \div (2 * 2 ^ (w - k)))) + ((x \div 2 ^ (w - k)) % 2)
        BY <1>3, <4>3, BitShifts
      <4> QED BY <3>2, <4>2, <4>3, <4>4
    <3> QED BY <3>1, <3>2
  <2>2. h = [k \in 0 .. w |-> h[k]] OBVIOUS
  <2> HIDE DEF h, b
  <2> QED BY <2>1, <2>2 DEF Sums
<1>7. h[w] = x
  <2>1. h[w] = x \div 2 ^ 0 OBVIOUS
  <2>2. 2 ^ 0 = 1 OBVIOUS
  <2>3. \A z \in Nat : z \div 1 = z OBVIOUS
  <2> HIDE DEF h
  <2> QED BY <1>3, <2>1, <2>2, <2>3
<1>8. Value(b) = h[w]
  <2>1. w \in Nat OBVIOUS
  <2> HIDE DEF h, b
  <2> QED BY <1>5, <1>6, <2>1, ValueIs
<1> HIDE DEF h
<1> QED BY <1>5, <1>7, <1>8

-----------------------------------------------------------------------------
(* The layout of the word.                                                 *)

\* The place of a field in the layout, and the offset of each place.
Place ==
  [op |-> 1, minor_op |-> 2, src_a |-> 3, src_b |-> 4, dst |-> 5, imm |-> 6,
   req_sel |-> 7, req_addr_way_sel |-> 8, lru_way_sel |-> 9, transfer_lce_sel
   |-> 10, cache_block_data_sel |-> 11, rqf_sel |-> 12, nerldf_sel |-> 13,
   nwbf_sel |-> 14, tf_sel |-> 15, pruief_sel |-> 16, rwbf_sel |-> 17,
   dir_way_group_sel |-> 18, dir_lce_sel |-> 19, dir_way_sel |-> 20,
   dir_coh_state_sel |-> 21, dir_tag_sel |-> 22, lce_cmd_lce_sel |-> 23,
   lce_cmd_addr_sel |-> 24, lce_cmd_way_sel |-> 25, mem_data_cmd_addr_sel |->
   26, req_w_v |-> 27, req_addr_way_w_v |-> 28, lru_way_w_v |-> 29,
   transfer_lce_w_v |-> 30, cache_block_data_w_v |-> 31, ack_type_w_v |-> 32,
   flag_mask_w_v |-> 33]
Offsets ==
  <<0, 3, 6, 11, 16, 21, 37, 39, 41, 43, 44, 45, 48, 50, 51, 53, 54, 55, 58, 61,
    64, 65, 67, 70, 73, 76, 77, 78, 79, 80, 81, 82, 83>>

LEMMA LayoutFacts ==
  /\ Len(Layout) = 33 /\ Len(Packed) = 33
  /\ \A k \in 1 .. 33 : Layout[k] = Packed[k]
  /\ \A k \in 1 .. 33 : Layout[k][2] \in 1 .. 16
  /\ \A k \in 1 .. 33 : Place[Layout[k][1]] = k
<1>1. Len(Layout) = 33 BY DEF Layout
<1>2. Len(Packed) = 33 BY DEF Packed
<1>3. Layout = Packed BY DEF Layout, Packed
<1>4. \A k \in 1 .. 33 : Layout[k][2] \in 1 .. 16 BY DEF Layout
<1>5. \A k \in 1 .. 33 : Place[Layout[k][1]] = k BY DEF Layout, Place
<1> QED BY <1>1, <1>2, <1>3, <1>4, <1>5

\* Offset's recursion, with a function that solves it.
Places33(o) ==
  /\ o = [k \in 1 .. Len(Packed) |-> o[k]]
  /\ \A k \in 1 .. Len(Packed) : o[k] = IF k = 1 THEN 0 ELSE o[k - 1] + Packed[k - 1][2]

LEMMA OffsetIs ==
  /\ Offset[1] = 0
  /\ \A k \in 2 .. 33 : Offset[k] = Offset[k - 1] + Layout[k - 1][2]
<1>1. \A o : Places33(o) <=> o = [k \in 1 .. Len(Packed) |->
                                    IF k = 1 THEN 0 ELSE o[k - 1] + Packed[k - 1][2]]
  BY DEF Places33
<1>2. Places33([k \in 1 .. Len(Packed) |-> Offsets[k]])
  <2>1. \A k \in 1 .. 33 : Offsets[k] = IF k = 1 THEN 0 ELSE Offsets[k - 1] + Packed[k - 1][2]
    BY DEF Offsets, Packed
  <2>2. ASSUME NEW k \in 1 .. 33, k # 1 PROVE k - 1 \in 1 .. 33 BY <2>2
  <2> QED BY <2>1, <2>2, LayoutFacts DEF Places33
<1>3. \E o : o = [k \in 1 .. Len(Packed) |->
                    IF k = 1 THEN 0 ELSE o[k - 1] + Packed[k - 1][2]]
  BY <1>1, <1>2
<1>4. Offset = [k \in 1 .. Len(Packed) |->
                  IF k = 1 THEN 0 ELSE Offset[k - 1] + Packed[k - 1][2]]
  BY <1>3, Zenon DEF Offset
<1>5. Places33(Offset) BY <1>1, <1>4
<1>6. \A k \in 2 .. 33 : k \in 1 .. 33 /\ k # 1 /\ k - 1 \in 1 .. 33 OBVIOUS
<1> QED BY <1>5, <1>6, LayoutFacts DEF Places33

LEMMA OffsetType == \A k \in 1 .. 33 : Offset[k] \in Nat
<1> DEFINE T == {m \in Nat : m + 1 \in 1 .. 33 => Offset[m + 1] \in Nat}
<1>1. 0 \in T BY OffsetIs
<1>2. ASSUME NEW m \in Nat, m \in T PROVE m + 1 \in T
  <2> SUFFICES ASSUME m + 2 \in 1 .. 33 PROVE Offset[m + 2] \in Nat OBVIOUS
  <2>1. m + 1 \in 1 .. 33 /\ m + 2 \in 2 .. 33 /\ (m + 2) - 1 = m + 1 OBVIOUS
  <2>2. Offset[m + 2] = Offset[m + 1] + Layout[m + 1][2] BY <2>1, OffsetIs
  <2>3. Layout[m + 1][2] \in Nat BY <2>1, LayoutFacts
  <2> QED BY <1>2, <2>1, <2>2, <2>3
<1> HIDE DEF T
<1>3. \A m \in Nat : m \in T BY <1>1, <1>2, SetInduction
<1>4. ASSUME NEW k \in 1 .. 33 PROVE Offset[k] \in Nat
  <2>1. k - 1 \in Nat /\ (k - 1) + 1 = k OBVIOUS
  <2> QED BY <1>3, <2>1 DEF T
<1> QED BY <1>4

-----------------------------------------------------------------------------
(* The word.                                                               *)

\* Every field's value fits into the bits of the field.
Fits(inst) == \A k \in 1 .. 33 : inst[Layout[k][1]] \in 0 .. 2 ^ Layout[k][2] - 1

\* The bits of the k-th field.
Part(inst, k) == Bits(inst[Layout[k][1]], Layout[k][2])

LEMMA PartIs ==
  ASSUME NEW inst, Fits(inst), NEW k \in 1 .. 33
  PROVE  /\ Part(inst, k) \in Seq(0 .. 1) /\ Len(Part(inst, k)) = Layout[k][2]
         /\ Value(Part(inst, k)) = inst[Layout[k][1]]
BY BitsValue, LayoutFacts DEF Fits, Part

LEMMA ConcatPlaces ==
  ASSUME NEW W, NEW x \in Seq(W), NEW y \in Seq(W)
  PROVE  /\ x \o y \in Seq(W) /\ Len(x \o y) = Len(x) + Len(y)
         /\ \A i \in 1 .. Len(x) : i \in 1 .. Len(x \o y) /\ (x \o y)[i] = x[i]
         /\ \A i \in 1 .. Len(y) :
              Len(x) + i \in 1 .. Len(x \o y) /\ (x \o y)[Len(x) + i] = y[i]
<1>1. x \o y \in Seq(W) /\ Len(x \o y) = Len(x) + Len(y) OBVIOUS
<1>2. Len(x) \in Nat /\ Len(y) \in Nat OBVIOUS
<1>3. ASSUME NEW i \in 1 .. Len(x)
      PROVE  i \in 1 .. Len(x \o y) /\ (x \o y)[i] = x[i]
  BY <1>1, <1>2
<1>4. ASSUME NEW i \in 1 .. Len(y)
      PROVE  Len(x) + i \in 1 .. Len(x \o y) /\ (x \o y)[Len(x) + i] = y[i]
  BY <1>1, <1>2
<1> QED BY <1>1, <1>3, <1>4

\* Each field's bits stand at the field's offset, and the last field's end
\* the word.
LEMMA WordParts ==
  ASSUME NEW inst, Fits(inst)
  PROVE  /\ Word(inst) \in Seq(0 .. 1)
         /\ Len(Word(inst)) = Offset[33] + Layout[33][2]
         /\ \A j \in 1 .. 33 : \A i \in 1 .. Layout[j][2] :
              Word(inst)[Offset[j] + i] = Part(inst, j)[i]
<1> DEFINE s == [k \in 1 .. 33 |-> Part(inst, k)]
<1>1. Len(s) = 33 /\ Word(inst) = FlattenSeq(s)
  <2>1. s = [k \in 1 .. Len(Layout) |-> Bits(inst[Layout[k][1]], Layout[k][2])]
    BY LayoutFacts DEF Part
  <2>2. Word(inst) = FlattenSeq(s) BY <2>1, Zenon DEF Word
  <2>3. Len(s) = 33 OBVIOUS
  <2> QED BY <2>2, <2>3
<1>2. \A k \in 1 .. 33 : s[k] = Part(inst, k) OBVIOUS
<1> HIDE DEF s
<1>3. PICK f : Flattens(f, s, 33)
  <2>1. 33 \in Nat OBVIOUS
  <2> QED BY <2>1, FlattenExists, Zenon
<1>4. Word(inst) = f[33]
  <2>1. 33 \in Nat \ {0} OBVIOUS
  <2> QED BY <1>1, <1>3, <2>1, FlattenIs
<1> DEFINE Good(n) == /\ f[n] \in Seq(0 .. 1) /\ Len(f[n]) = Offset[n] + Layout[n][2]
                      /\ \A j \in 1 .. n : \A i \in 1 .. Layout[j][2] :
                           /\ Offset[j] + i \in 1 .. Len(f[n])
                           /\ f[n][Offset[j] + i] = Part(inst, j)[i]
<1> DEFINE T == {m \in Nat : m + 1 \in 1 .. 33 => Good(m + 1)}
<1>5. 0 \in T
  <2>1. 1 \in 1 .. 33 OBVIOUS
  <2>2. f[1] = Part(inst, 1)
    BY <1>2, <1>3, <2>1, FlattensAt DEF Joined
  <2>3. Offset[1] = 0 /\ Layout[1][2] \in Nat BY <2>1, OffsetIs, LayoutFacts
  <2>4. /\ Part(inst, 1) \in Seq(0 .. 1) /\ Len(Part(inst, 1)) = Layout[1][2]
    BY <2>1, PartIs
  <2>5. \A j \in 1 .. 1 : j = 1 OBVIOUS
  <2> QED BY <2>2, <2>3, <2>4, <2>5
<1>6. ASSUME NEW m \in Nat, m \in T PROVE m + 1 \in T
  <2> DEFINE p == m + 1
             q == m + 1 + 1
  <2> HIDE DEF Good
  <2> SUFFICES ASSUME q \in 1 .. 33 PROVE Good(q) OBVIOUS
  <2> USE DEF Good
  <2>1. p \in 1 .. 33 /\ q \in 2 .. 33 /\ q \in 1 .. 33 /\ q - 1 = p /\ q # 1
        /\ \A j \in 1 .. q : j \in 1 .. p \/ j = q
    OBVIOUS
  <2>2. f[q] = f[p] \o Part(inst, q)
    <3> HIDE DEF p, q
    <3>1. f[q] = Joined(f, s, q) BY <1>3, <2>1, FlattensAt, Zenon
    <3> QED BY <1>2, <2>1, <3>1 DEF Joined
  <2>3. Good(p) BY <1>6, <2>1
  <2>4. /\ Offset[q] = Offset[p] + Layout[p][2]
        /\ Layout[q][2] \in Nat /\ Offset[p] \in Nat /\ Layout[p][2] \in Nat
        /\ \A j \in 1 .. 33 : Offset[j] \in Nat /\ Layout[j][2] \in Nat
    BY <2>1, OffsetIs, OffsetType, LayoutFacts
  <2>5. Part(inst, q) \in Seq(0 .. 1) /\ Len(Part(inst, q)) = Layout[q][2]
    BY <2>1, PartIs
  <2> DEFINE x == f[p]
             y == Part(inst, q)
  <2>6. /\ x \in Seq(0 .. 1) /\ y \in Seq(0 .. 1)
        /\ Len(x) = Offset[q] /\ Len(y) = Layout[q][2] /\ f[q] = x \o y
    BY <2>2, <2>3, <2>4, <2>5
  <2>7. \A j \in 1 .. p : \A i \in 1 .. Layout[j][2] :
          /\ Offset[j] + i \in 1 .. Len(x) /\ x[Offset[j] + i] = Part(inst, j)[i]
    BY <2>3
  <2>8. \A i \in 1 .. Layout[q][2] : y[i] = Part(inst, q)[i] OBVIOUS
  <2> HIDE DEF x, y, p, q
  <2>9. /\ x \o y \in Seq(0 .. 1) /\ Len(x \o y) = Offset[q] + Layout[q][2]
        /\ \A i \in 1 .. Len(x) : i \in 1 .. Len(x \o y) /\ (x \o y)[i] = x[i]
        /\ \A i \in 1 .. Len(y) :
             Len(x) + i \in 1 .. Len(x \o y) /\ (x \o y)[Len(x) + i] = y[i]
    <3>1. x \in Seq(0 .. 1) /\ y \in Seq(0 .. 1) BY <2>6
    <3>2. /\ x \o y \in Seq(0 .. 1) /\ Len(x \o y) = Len(x) + Len(y)
          /\ \A i \in 1 .. Len(x) : i \in 1 .. Len(x \o y) /\ (x \o y)[i] = x[i]
          /\ \A i \in 1 .. Len(y) :
               Len(x) + i \in 1 .. Len(x \o y) /\ (x \o y)[Len(x) + i] = y[i]
      BY <3>1, ConcatPlaces
    <3> QED BY <2>6, <3>2, Zenon
  <2> QED BY <2>1, <2>6, <2>7, <2>8, <2>9
<1> HIDE DEF T
<1>7. \A m \in Nat : m \in T BY <1>5, <1>6, SetInduction
<1>8. Good(33)
  <2> HIDE DEF Good
  <2>1. 32 \in T /\ 32 + 1 = 33 /\ 33 \in 1 .. 33 BY <1>7
  <2> QED BY <2>1 DEF T
<1> QED BY <1>4, <1>8

-----------------------------------------------------------------------------
(* Unpacking.                                                              *)

\* The place of a field's bits in the RTL's struct.
LEMMA SliceIs ==
  ASSUME NEW k \in 1 .. 33
  PROVE  /\ Layout[k][1] \in Fields
         /\ Slice[Layout[k][1]] = <<Offset[k] + 1, Offset[k] + Layout[k][2]>>
<1> DEFINE f == Layout[k][1]
           p == CHOOSE j \in 1 .. Len(Packed) : Packed[j][1] = f
<1>1. f \in Fields BY LayoutFacts DEF Fields
<1>2. ASSUME NEW j \in 1 .. 33, Packed[j][1] = f PROVE j = k
  <2>1. Place[Layout[j][1]] = j /\ Place[f] = k /\ Layout[j] = Packed[j] BY LayoutFacts
  <2> QED BY <1>2, <2>1
<1>3. \E j \in 1 .. Len(Packed) : Packed[j][1] = f BY LayoutFacts
<1>4. p \in 1 .. Len(Packed) /\ Packed[p][1] = f
  <2> HIDE DEF f
  <2> QED BY <1>3
<1>5. p = k
  <2> HIDE DEF p, f
  <2> QED BY <1>2, <1>4, LayoutFacts
<1>6. Slice[f] = <<Offset[p] + 1, Offset[p] + Packed[p][2]>>
  <2> HIDE DEF f
  <2> QED BY <1>1 DEF Slice
<1> HIDE DEF p
<1> QED BY <1>1, <1>5, <1>6, LayoutFacts

\* What writeInstToOutput and the printers write by the header's order and
\* widths, the RTL reads back by its own struct: each field with its value.
THEOREM WordIsUnpacked ==
  ASSUME NEW inst, Fits(inst)
  PROVE  Unpack(Word(inst)) = [f \in Fields |-> inst[f]]
<1>1. ASSUME NEW f \in Fields
      PROVE  Value(SubSeq(Word(inst), Slice[f][1], Slice[f][2])) = inst[f]
  <2>1. PICK k \in 1 .. 33 : f = Layout[k][1] BY LayoutFacts DEF Fields
  <2> DEFINE m == Offset[k] + 1
             n == Offset[k] + Layout[k][2]
             w == Word(inst)
  <2>2. Slice[f][1] = m /\ Slice[f][2] = n BY <2>1, SliceIs
  <2>3. /\ Offset[k] \in Nat /\ Layout[k][2] \in Nat
        /\ Part(inst, k) \in Seq(0 .. 1) /\ Len(Part(inst, k)) = Layout[k][2]
        /\ Value(Part(inst, k)) = inst[f]
    <3>1. Offset[k] \in Nat /\ Layout[k][2] \in Nat BY OffsetType, LayoutFacts
    <3>2. /\ Part(inst, k) \in Seq(0 .. 1) /\ Len(Part(inst, k)) = Layout[k][2]
          /\ Value(Part(inst, k)) = inst[Layout[k][1]]
      BY PartIs
    <3> QED BY <2>1, <3>1, <3>2
  <2>4. \A i \in 1 .. Layout[k][2] : w[Offset[k] + i] = Part(inst, k)[i]
    BY <2>1, WordParts
  <2>5. /\ SubSeq(w, m, n) \in Seq(0 .. 1) /\ Len(SubSeq(w, m, n)) = Layout[k][2]
        /\ \A i \in 1 .. Layout[k][2] : SubSeq(w, m, n)[i] = w[Offset[k] + i]
    <3>1. m \in Int /\ n \in Int /\ n - m + 1 = Layout[k][2] BY <2>3
    <3>2. ASSUME NEW i \in m .. n PROVE w[i] \in 0 .. 1
      <4>1. i - Offset[k] \in 1 .. Layout[k][2] /\ i = Offset[k] + (i - Offset[k]) BY <2>3
      <4>2. w[i] = Part(inst, k)[i - Offset[k]] BY <2>4, <4>1
      <4> QED BY <2>3, <4>1, <4>2, ElementOfSeq
    <3>3. \A i \in 1 .. Layout[k][2] : m + i - 1 = Offset[k] + i BY <2>3
    <3>4. IF m <= n THEN n - m + 1 = Layout[k][2] ELSE Layout[k][2] = 0 BY <2>3
    <3> HIDE DEF w, m, n
    <3>5. /\ SubSeq(w, m, n) \in Seq(0 .. 1)
          /\ Len(SubSeq(w, m, n)) = IF m <= n THEN n - m + 1 ELSE 0
          /\ \A i \in 1 .. n - m + 1 : SubSeq(w, m, n)[i] = w[m + i - 1]
      BY <3>1, <3>2, SubSeqProperties
    <3> QED BY <3>1, <3>3, <3>4, <3>5
  <2>6. SubSeq(w, m, n) = Part(inst, k)
    <3> HIDE DEF m, n, w
    <3> QED BY <2>3, <2>4, <2>5, SeqEqual
  <2> QED BY <2>2, <2>3, <2>6
<1> QED BY <1>1 DEF Unpack

-----------------------------------------------------------------------------
(* The codes of words.                                                     *)

FlagSet == {"rqf", "nerf", "ldf", "nwbf", "tf", "rf", "rwbf", "pf", "uf", "if", "ef", "pcf"}
LEMMA FlagNamesAre == FlagNames = FlagSet
<1>1. ASSUME NEW k \in 1 .. 12 PROVE FlagOrder[k] \in FlagSet
  BY DEF FlagOrder, FlagSet
<1>2. ASSUME NEW f \in FlagSet PROVE \E k \in 1 .. 12 : FlagOrder[k] = f
  BY DEF FlagOrder, FlagSet
<1> QED BY <1>1, <1>2 DEF FlagNames

FlagValue == [rqf |-> 1, nerf |-> 2, ldf |-> 4, nwbf |-> 8, tf |-> 16, rf |-> 32,
              rwbf |-> 64, pf |-> 128, uf |-> 256, if |-> 512, ef |-> 1024,
              pcf |-> 2048]
FlagPlace == [rqf |-> 1, nerf |-> 2, ldf |-> 3, nwbf |-> 4, tf |-> 5, rf |-> 6,
              rwbf |-> 7, pf |-> 8, uf |-> 9, if |-> 10, ef |-> 11, pcf |-> 12]
Powers == <<1, 2, 4, 8, 16, 32, 64, 128, 256, 512, 1024, 2048>>
LEMMA PowersAre == \A n \in 0 .. 11 : 2 ^ n = Powers[n + 1]
<1> TAKE n \in 0 .. 11
<1>1. CASE n = 0
  <2>1. 2 ^ 0 = 1 OBVIOUS
  <2> QED BY <1>1, <2>1 DEF Powers
<1>2. CASE n = 1
  <2>1. 2 ^ 1 = 2 OBVIOUS
  <2> QED BY <1>2, <2>1 DEF Powers
<1>3. CASE n = 2
  <2>1. 2 ^ 2 = 4 OBVIOUS
  <2> QED BY <1>3, <2>1 DEF Powers
<1>4. CASE n = 3
  <2>1. 2 ^ 3 = 8 OBVIOUS
  <2> QED BY <1>4, <2>1 DEF Powers
<1>5. CASE n = 4
  <2>1. 2 ^ 4 = 16 OBVIOUS
  <2> QED BY <1>5, <2>1 DEF Powers
<1>6. CASE n = 5
  <2>1. 2 ^ 5 = 32 OBVIOUS
  <2> QED BY <1>6, <2>1 DEF Powers
<1>7. CASE n = 6
  <2>1. 2 ^ 6 = 64 OBVIOUS
  <2> QED BY <1>7, <2>1 DEF Powers
<1>8. CASE n = 7
  <2>1. 2 ^ 7 = 128 OBVIOUS
  <2> QED BY <1>8, <2>1 DEF Powers
<1>9. CASE n = 8
  <2>1. 2 ^ 8 = 256 OBVIOUS
  <2> QED BY <1>9, <2>1 DEF Powers
<1>10. CASE n = 9
  <2>1. 2 ^ 9 = 512 OBVIOUS
  <2> QED BY <1>10, <2>1 DEF Powers
<1>11. CASE n = 10
  <2>1. 2 ^ 10 = 1024 OBVIOUS
  <2> QED BY <1>11, <2>1 DEF Powers
<1>12. CASE n = 11
  <2>1. 2 ^ 11 = 2048 OBVIOUS
  <2> QED BY <1>12, <2>1 DEF Powers
<1> QED BY <1>1, <1>2, <1>3, <1>4, <1>5, <1>6, <1>7, <1>8, <1>9, <1>10, <1>11, <1>12

LEMMA FlagsAre == Flag = FlagValue
<1>1. ASSUME NEW f \in FlagSet PROVE Flag[f] = FlagValue[f]
  <2>1. \A k \in 1 .. 12 : FlagOrder[k] = f <=> k = FlagPlace[f]
    BY DEF FlagOrder, FlagPlace, FlagSet
  <2>2. FlagPlace[f] \in 1 .. 12 BY DEF FlagPlace, FlagSet
  <2>3. (CHOOSE k \in 1 .. 12 : FlagOrder[k] = f) = FlagPlace[f]
    BY <2>1, <2>2
  <2>4. Flag[f] = 2 ^ (FlagPlace[f] - 1) BY <2>3, FlagNamesAre DEF Flag, FlagSel
  <2>5. FlagPlace[f] - 1 \in 0 .. 11 BY <2>2
  <2>6. Flag[f] = Powers[(FlagPlace[f] - 1) + 1] BY <2>4, <2>5, PowersAre
  <2> QED BY <2>6 DEF FlagPlace, FlagSet, FlagValue, Powers
<1>2. DOMAIN Flag = FlagSet /\ DOMAIN FlagValue = FlagSet
  BY FlagNamesAre DEF Flag, FlagValue, FlagSet
<1>3. Flag = [f \in FlagSet |-> Flag[f]] /\ FlagValue = [f \in FlagSet |-> FlagValue[f]]
  BY FlagNamesAre DEF Flag, FlagValue, FlagSet
<1> QED BY <1>1, <1>3

LEMMA SrcRange == \A w : parseSrcOpd(w) \in -1 .. 31
BY FlagNamesAre DEF parseSrcOpd, Src, Gprs, Gpr, FlagSet, Bad
LEMMA DstRange == \A w : parseDstOpd(w) \in -1 .. 31
BY FlagNamesAre DEF parseDstOpd, Dst, Gprs, Gpr, FlagSet, Bad
LEMMA OpRange == \A w : getOp(w) \in -1 .. 7
BY DEF getOp, Op, Bad
LEMMA MinorOpRange == \A w : getMinorOp(w) \in -1 .. 7
BY DEF getMinorOp, MinorAlu, MinorBranch, MinorMov, MinorFlag, MinorReadDir,
       MinorWriteDir, MinorMisc, MinorQueue, Bad
LEMMA SelRange ==
  \A w : /\ parseDirWgSel(w) \in -1 .. 7 /\ parseDirLceSel(w) \in -1 .. 7
         /\ parseDirWaySel(w) \in -1 .. 7 /\ parseDirTagSel(w) \in -1 .. 3
         /\ parseDirCohStSel(w) \in -1 .. 1
         /\ parseLceCmdLceSel(w) \in -1 .. 7 /\ parseLceCmdAddrSel(w) \in -1 .. 7
BY DEF parseDirWgSel, parseDirLceSel, parseDirWaySel, parseDirTagSel, parseDirCohStSel,
       parseLceCmdLceSel, parseLceCmdAddrSel, DirWgSel, DirLceSel, DirWaySel, DirTagSel,
       DirCohSel, LceCmdLce, LceCmdAddr, Gprs, Gpr, Bad
LEMMA LookRange ==
  \A w : /\ parseLceCmdWaySel(w) \in -1 .. 7
         /\ parseMemDataCmdAddrSel(w) \in -1 .. 1
         /\ parseSrcQueue(w) \in -1 .. 5
         /\ parseDstQueue(w) \in -1 .. 3
BY DEF parseLceCmdWaySel, parseMemDataCmdAddrSel, parseSrcQueue, parseDstQueue, SrcQ,
       DstQ, LceCmdWay, MemDataCmdAddr, Look, Bad
LEMMA FlagRange == \A w : parseFlagSel(w) \in -1 .. 4095
<1>1. FlagValue \in [FlagSet -> 0 .. 4095] BY DEF FlagValue, FlagSet
<1>2. DOMAIN FlagValue = FlagSet BY <1>1
<1>3. ASSUME NEW w PROVE parseFlagSel(w) \in -1 .. 4095
  <2>1. CASE w \in FlagSet BY <1>1, <1>2, <2>1, FlagsAre DEF parseFlagSel, Look
  <2>2. CASE w \notin FlagSet BY <1>2, <2>2, FlagsAre DEF parseFlagSel, Look, Bad
  <2> QED BY <2>1, <2>2
<1> QED BY <1>3
MaxImm == 65535
Immediates == 0 .. 65535
LEMMA UpToRange == \A v, max : UpTo(v, max) \in {Bad} \cup (0 .. max)
<1> TAKE v, max
<1>1. CASE v \in 0 .. max BY <1>1, Zenon DEF UpTo
<1>2. CASE v \notin 0 .. max BY <1>2, Zenon DEF UpTo
<1> QED BY <1>1, <1>2, Zenon
LEMMA ImmRange ==
  ASSUME NEW w
  PROVE  parseImm(w) \in {Bad} \cup Immediates /\ parseCohStImm(w) \in {Bad} \cup 0 .. 3
<1>1. parseImm(w) \in {Bad} \cup Immediates
  <2>1. Immediates = 0 .. MaxImm BY SMT DEF Immediates, MaxImm
  <2>2. parseImm(w) = UpTo(Look(Stoi, w), MaxImm) BY SMT DEF parseImm, MaxImm
  <2> QED BY <2>1, <2>2, UpToRange, Zenon
<1>2. parseCohStImm(w) \in {Bad} \cup 0 .. 3 BY UpToRange, Zenon DEF parseCohStImm
<1> QED BY <1>1, <1>2, Zenon

-----------------------------------------------------------------------------
(* Every field that is not rejected fits into its bits.                    *)

Bits1 == 0 .. 1
Bits2 == 0 .. 3
Bits3 == 0 .. 7
Bits5 == 0 .. 31
Bits12 == 0 .. 4095
Values ==
  [op |-> Bits3, minor_op |-> Bits3, src_a |-> Bits5, src_b |-> Bits5,
   dst |-> Bits5, imm |-> Immediates, req_sel |-> Bits2,
   req_addr_way_sel |-> Bits2, lru_way_sel |-> Bits2,
   transfer_lce_sel |-> Bits1, cache_block_data_sel |-> Bits1,
   rqf_sel |-> Bits3, nerldf_sel |-> Bits2, nwbf_sel |-> Bits1,
   tf_sel |-> Bits2, pruief_sel |-> Bits1, rwbf_sel |-> Bits1,
   dir_way_group_sel |-> Bits3, dir_lce_sel |-> Bits3, dir_way_sel |-> Bits3,
   dir_coh_state_sel |-> Bits1, dir_tag_sel |-> Bits2,
   lce_cmd_lce_sel |-> Bits3, lce_cmd_addr_sel |-> Bits3,
   lce_cmd_way_sel |-> Bits3, mem_data_cmd_addr_sel |-> Bits1,
   req_w_v |-> Bits1, req_addr_way_w_v |-> Bits1, lru_way_w_v |-> Bits1,
   transfer_lce_w_v |-> Bits1, cache_block_data_w_v |-> Bits1,
   ack_type_w_v |-> Bits1, flag_mask_w_v |-> Bits12]

LEMMA ValuesAre ==
  /\ Fields = DOMAIN Values
  /\ \A k \in 1 .. 33 : 0 .. 2 ^ Layout[k][2] - 1 = Values[Layout[k][1]]
<1>1. \A k \in 1 .. 33 : Layout[k][1] \in DOMAIN Values BY DEF Layout, Values
<1>2. \A f \in DOMAIN Values : Place[f] \in 1 .. 33 /\ Layout[Place[f]][1] = f
  BY DEF Layout, Values, Place
<1>3. Fields = DOMAIN Values
  <2>1. Fields = {Layout[k][1] : k \in 1 .. 33} BY LayoutFacts DEF Fields
  <2>2. ASSUME NEW f \in Fields PROVE f \in DOMAIN Values BY <1>1, <2>1, <2>2
  <2>3. ASSUME NEW f \in DOMAIN Values PROVE f \in Fields BY <1>2, <2>1, <2>3
  <2> QED BY <2>2, <2>3
<1>4. \A k \in 1 .. 33 : Layout[k][2] \in {1, 2, 3, 5, 12, 16}
  BY DEF Layout
<1>5. \A k \in 1 .. 33 : /\ Layout[k][2] = 1 => Values[Layout[k][1]] = Bits1
                         /\ Layout[k][2] = 2 => Values[Layout[k][1]] = Bits2
  BY DEF Layout, Values
<1>6. \A k \in 1 .. 33 : /\ Layout[k][2] = 3 => Values[Layout[k][1]] = Bits3
                         /\ Layout[k][2] = 5 => Values[Layout[k][1]] = Bits5
  BY DEF Layout, Values
<1>7. \A k \in 1 .. 33 : /\ Layout[k][2] = 12 => Values[Layout[k][1]] = Bits12
                         /\ Layout[k][2] = 16 => Values[Layout[k][1]] = Immediates
  BY DEF Layout, Values
<1>8. /\ 0 .. 2 ^ 1 - 1 = Bits1
      /\ 0 .. 2 ^ 2 - 1 = Bits2
      /\ 0 .. 2 ^ 3 - 1 = Bits3
      /\ 0 .. 2 ^ 5 - 1 = Bits5
      /\ 0 .. 2 ^ 12 - 1 = Bits12
      /\ 0 .. 2 ^ 16 - 1 = Immediates
  <2>1. 0 .. 2 ^ 1 - 1 = Bits1 BY SMT DEF Bits1
  <2>2. 0 .. 2 ^ 2 - 1 = Bits2 BY SMT DEF Bits2
  <2>3. 0 .. 2 ^ 3 - 1 = Bits3 BY SMT DEF Bits3
  <2>4. 0 .. 2 ^ 5 - 1 = Bits5 BY SMT DEF Bits5
  <2>5. 0 .. 2 ^ 12 - 1 = Bits12 BY SMT DEF Bits12
  <2>6. 0 .. 2 ^ 16 - 1 = Immediates BY SMT DEF Immediates
  <2> QED BY <2>1, <2>2, <2>3, <2>4, <2>5, <2>6, Zenon
<1>9. ASSUME NEW k \in 1 .. 33 PROVE 0 .. 2 ^ Layout[k][2] - 1 = Values[Layout[k][1]]
  <2>1. CASE Layout[k][2] = 1 BY <1>5, <1>8, <2>1, Zenon
  <2>2. CASE Layout[k][2] = 2 BY <1>5, <1>8, <2>2, Zenon
  <2>3. CASE Layout[k][2] = 3 BY <1>6, <1>8, <2>3, Zenon
  <2>4. CASE Layout[k][2] = 5 BY <1>6, <1>8, <2>4, Zenon
  <2>5. CASE Layout[k][2] = 12 BY <1>7, <1>8, <2>5, Zenon
  <2>6. CASE Layout[k][2] = 16 BY <1>7, <1>8, <2>6, Zenon
  <2> QED BY <1>4, <2>1, <2>2, <2>3, <2>4, <2>5, <2>6, Zenon
<1> QED BY <1>3, <1>9

LEMMA ZeroImmediate == 0 \in Immediates
BY SMT DEF Immediates

LEMMA ZeroFits == ASSUME NEW f \in DOMAIN Values PROVE 0 \in Values[f]
<1>1. 0 \in Bits1 /\ 0 \in Bits2 /\ 0 \in Bits3 /\ 0 \in Bits5 /\ 0 \in Bits12
  BY DEF Bits1, Bits2, Bits3, Bits5, Bits12
<1>2. Values[f] \in {Bits1, Bits2, Bits3, Bits5, Bits12, Immediates}
  BY DEF Values
<1> QED BY <1>1, <1>2, ZeroImmediate

\* Fields that a parse function may assign, with the values they may get.
FieldsTyped(r) ==
  \A f \in DOMAIN r : /\ f \in DOMAIN Values \ {"op", "minor_op"}
                      /\ r[f] \in {Bad} \cup Values[f]
Typed(r) == r = Reject \/ FieldsTyped(r)

\* A statement that is not rejected has the operation of its first word.
LEMMA HeadIs ==
  ASSUME NEW ts, NEW lb, Typed(Assigned(ts, lb)), ~Rejected(parseTokens(ts, lb))
  PROVE  /\ FieldsTyped(Assigned(ts, lb))
         /\ parseTokens(ts, lb).op = getOp(At(ts, 0))
         /\ parseTokens(ts, lb).minor_op = getMinorOp(At(ts, 0))
         /\ \A f \in Fields \ {"op", "minor_op"} :
              parseTokens(ts, lb)[f] = IF f \in DOMAIN Assigned(ts, lb)
                                       THEN Assigned(ts, lb)[f] ELSE 0
<1> DEFINE inst == parseTokens(ts, lb)
           fields == Assigned(ts, lb)
<1>1. "op" \in Fields /\ "minor_op" \in Fields BY ValuesAre DEF Values
<1>2. ASSUME NEW f \in Fields
      PROVE  inst[f] = IF f \in DOMAIN fields THEN fields[f]
                       ELSE IF f = "op" THEN getOp(At(ts, 0))
                       ELSE IF f = "minor_op" THEN getMinorOp(At(ts, 0)) ELSE 0
  <2>1. /\ f \in DOMAIN fields => inst[f] = fields[f]
        /\ f \notin DOMAIN fields /\ f = "op" => inst[f] = getOp(At(ts, 0))
        /\ f \notin DOMAIN fields /\ f = "minor_op" => inst[f] = getMinorOp(At(ts, 0))
        /\ f \notin DOMAIN fields /\ f \notin {"op", "minor_op"} => inst[f] = 0
    BY <1>2 DEF parseTokens, Zero
  <2> QED BY <2>1
<1>3. fields # Reject
  <2>1. ASSUME fields = Reject PROVE FALSE
    <3>1. inst["op"] = Bad BY <1>1, <1>2, <2>1 DEF Reject
    <3> QED BY <1>1, <3>1 DEF Rejected
  <2> QED BY <2>1
<1>4. FieldsTyped(fields) BY <1>3 DEF Typed
<1>5. "op" \notin DOMAIN fields /\ "minor_op" \notin DOMAIN fields
  BY <1>4 DEF FieldsTyped
<1> HIDE DEF inst, fields
<1>6. inst.op = getOp(At(ts, 0)) /\ inst.minor_op = getMinorOp(At(ts, 0))
  BY <1>1, <1>2, <1>5
<1>7. \A f \in Fields \ {"op", "minor_op"} :
        inst[f] = IF f \in DOMAIN fields THEN fields[f] ELSE 0
  BY <1>2
<1> QED BY <1>4, <1>6, <1>7 DEF inst, fields

LEMMA ParsedFits ==
  ASSUME NEW ts, NEW lb, Typed(Assigned(ts, lb)), ~Rejected(parseTokens(ts, lb))
  PROVE  Fits(parseTokens(ts, lb))
<1> DEFINE inst == parseTokens(ts, lb)
           fields == Assigned(ts, lb)
<1>1. ASSUME NEW f \in DOMAIN Values PROVE inst[f] \in Values[f]
  <2>1. f \in Fields /\ inst[f] # Bad BY <1>1, ValuesAre DEF Rejected
  <2>2. CASE f = "op"
    <3>1. getOp(At(ts, 0)) \in -1 .. 7 BY OpRange
    <3>2. inst[f] \in Bits3 BY <2>1, <2>2, <3>1, HeadIs DEF Bits3, Bad
    <3> QED BY <2>2, <3>2 DEF Values
  <2>3. CASE f = "minor_op"
    <3>1. getMinorOp(At(ts, 0)) \in -1 .. 7 BY MinorOpRange
    <3>2. inst[f] \in Bits3 BY <2>1, <2>3, <3>1, HeadIs DEF Bits3, Bad
    <3> QED BY <2>3, <3>2 DEF Values
  <2>4. CASE f \notin {"op", "minor_op"}
    <3>1. inst[f] = IF f \in DOMAIN fields THEN fields[f] ELSE 0
      BY <2>1, <2>4, HeadIs
    <3>2. FieldsTyped(fields) BY HeadIs
    <3> QED BY <2>1, <3>1, <3>2, ZeroFits DEF FieldsTyped
  <2> QED BY <2>2, <2>3, <2>4
<1> HIDE DEF inst
<1>2. ASSUME NEW k \in 1 .. 33
      PROVE  inst[Layout[k][1]] \in 0 .. 2 ^ Layout[k][2] - 1
  <2>1. Layout[k][1] \in DOMAIN Values
    BY ValuesAre, LayoutFacts DEF Fields
  <2>2. 0 .. 2 ^ Layout[k][2] - 1 = Values[Layout[k][1]] BY ValuesAre
  <2>3. inst[Layout[k][1]] \in Values[Layout[k][1]] BY <1>1, <2>1
  <2> QED BY <2>2, <2>3, Zenon
<1>3. Fits(inst) BY <1>2, Zenon DEF Fits
<1> QED BY <1>3 DEF inst

\* What a word may be read as.
LEMMA WordCodes ==
  ASSUME NEW w
  PROVE  /\ parseSrcOpd(w) \in {Bad} \cup Bits5 /\ parseDstOpd(w) \in {Bad} \cup Bits5
         /\ parseDirWgSel(w) \in {Bad} \cup Bits3 /\ parseDirLceSel(w) \in {Bad} \cup Bits3
         /\ parseDirWaySel(w) \in {Bad} \cup Bits3 /\ parseDirTagSel(w) \in {Bad} \cup Bits2
         /\ parseDirCohStSel(w) \in {Bad} \cup Bits1
         /\ parseLceCmdLceSel(w) \in {Bad} \cup Bits3
         /\ parseLceCmdAddrSel(w) \in {Bad} \cup Bits3
         /\ parseLceCmdWaySel(w) \in {Bad} \cup Bits3
         /\ parseMemDataCmdAddrSel(w) \in {Bad} \cup Bits1
         /\ parseFlagSel(w) \in {Bad} \cup Bits12
<1>1. /\ -1 .. 1 = {Bad} \cup Bits1 /\ -1 .. 3 = {Bad} \cup Bits2
      /\ -1 .. 7 = {Bad} \cup Bits3 /\ -1 .. 31 = {Bad} \cup Bits5
      /\ -1 .. 4095 = {Bad} \cup Bits12
  BY SMT DEF Bad, Bits1, Bits2, Bits3, Bits5, Bits12
<1>2. parseSrcOpd(w) \in -1 .. 31 /\ parseDstOpd(w) \in -1 .. 31 BY SrcRange, DstRange
<1>3. parseFlagSel(w) \in -1 .. 4095 BY FlagRange
<1>4. /\ parseDirWgSel(w) \in -1 .. 7 /\ parseDirLceSel(w) \in -1 .. 7
      /\ parseDirWaySel(w) \in -1 .. 7 /\ parseDirTagSel(w) \in -1 .. 3
      /\ parseDirCohStSel(w) \in -1 .. 1
      /\ parseLceCmdLceSel(w) \in -1 .. 7 /\ parseLceCmdAddrSel(w) \in -1 .. 7
  BY SelRange
<1>5. parseLceCmdWaySel(w) \in -1 .. 7 /\ parseMemDataCmdAddrSel(w) \in -1 .. 1
  BY LookRange
<1> QED BY <1>1, <1>2, <1>3, <1>4, <1>5, SMT

LEMMA SmallImmediates == 0 .. 63 \subseteq Immediates
BY SMT DEF Immediates

LEMMA ImmCodes ==
  ASSUME NEW w
  PROVE  /\ parseImm(w) \in {Bad} \cup Immediates
         /\ parseCohStImm(w) \in {Bad} \cup Immediates
         /\ parseCohStImm(w) \in {Bad} \cup 0 .. 3
<1>1. parseImm(w) \in {Bad} \cup Immediates BY ImmRange, Zenon
<1>2. parseCohStImm(w) \in {Bad} \cup 0 .. 3 BY ImmRange, Zenon
<1>3. parseCohStImm(w) \in {Bad} \cup Immediates BY <1>2, SmallImmediates
<1> QED BY <1>1, <1>2, <1>3

LEMMA AluTyped == ASSUME NEW ts PROVE Typed(parseALU(ts))
<1>1. CASE Len(ts) = 2
  BY <1>1, WordCodes, SMT DEF parseALU, Typed, FieldsTyped, Values, Src, Bits5
<1>2. CASE Len(ts) = 4 BY <1>2, WordCodes DEF parseALU, Typed, FieldsTyped, Values
<1>3. CASE Len(ts) \notin {2, 4}
  BY <1>3 DEF parseALU, Typed
<1> QED BY <1>1, <1>2, <1>3

LEMMA MoveTyped == ASSUME NEW ts PROVE Typed(parseMove(ts))
<1>1. CASE Len(ts) = 3 /\ getMinorOp(ts[1]) = MinorMov.movi
  <2> DEFINE dst == parseDstOpd(ts[3])
             imm == IF dst = Dst.next_coh_state THEN parseCohStImm(ts[2])
                                                ELSE parseImm(ts[2])
  <2>1. parseMove(ts) = [dst |-> dst, src_a |-> 18, imm |-> imm]
    BY <1>1 DEF parseMove, MinorMov, Src
  <2>2. dst \in {Bad} \cup Bits5 BY WordCodes
  <2>3. imm \in {Bad} \cup Immediates BY ImmCodes
  <2>4. 18 \in Bits5 BY DEF Bits5
  <2> HIDE DEF dst, imm
  <2> QED BY <2>1, <2>2, <2>3, <2>4, SMT DEF Typed, FieldsTyped, Values
<1>2. CASE Len(ts) = 3 /\ getMinorOp(ts[1]) = MinorMov.mov
  <2>1. parseMove(ts) = [dst |-> parseDstOpd(ts[3]), src_a |-> parseSrcOpd(ts[2])]
    BY <1>2 DEF parseMove, MinorMov
  <2> QED BY <2>1, WordCodes, SMT DEF Typed, FieldsTyped, Values
<1>3. CASE Len(ts) = 2 /\ ts[1] \in DOMAIN MinorFlag
  <2> DEFINE imm == IF ts[1] = "sf" THEN 1 ELSE 0
  <2>1. parseMove(ts) =
         [rqf_sel |-> 4, nerldf_sel |-> 2, nwbf_sel |-> 1, tf_sel |-> 2,
          pruief_sel |-> 1, rwbf_sel |-> 1,
          flag_mask_w_v |-> parseFlagSel(ts[2]), imm |-> imm]
    BY <1>3 DEF parseMove, RqfSel, NerldfSel, NwbfSel, TfSel, PruiefSel, RwbfSel
  <2>2. parseFlagSel(ts[2]) \in {Bad} \cup Bits12 BY WordCodes
  <2>3. imm \in Immediates BY SmallImmediates
  <2>4. 4 \in Bits3 /\ 2 \in Bits2 /\ 1 \in Bits1 BY DEF Bits1, Bits2, Bits3
  <2> HIDE DEF imm
  <2> QED BY <2>1, <2>2, <2>3, <2>4, SMT DEF Typed, FieldsTyped, Values
<1>4. CASE /\ ~ (Len(ts) = 3 /\ getMinorOp(ts[1]) = MinorMov.movi)
           /\ ~ (Len(ts) = 3 /\ getMinorOp(ts[1]) = MinorMov.mov)
           /\ ~ (Len(ts) = 2 /\ ts[1] \in DOMAIN MinorFlag)
  BY <1>4 DEF parseMove, Typed
<1> QED BY <1>1, <1>2, <1>3, <1>4, Zenon

LEMMA TargetRange ==
  ASSUME NEW lb, lb \in [DOMAIN lb -> Immediates], NEW w
  PROVE  parseTarget(lb, w) \in {Bad} \cup Immediates
BY ImmCodes DEF parseTarget

LEMMA BranchTyped ==
  ASSUME NEW lb, lb \in [DOMAIN lb -> Immediates], NEW ts
  PROVE  Typed(parseBranch(ts, lb))
<1>1. CASE Len(ts) = 2
  BY <1>1, TargetRange DEF parseBranch, Typed, FieldsTyped, Values
<1>2. CASE Len(ts) = 3
  <2> DEFINE b == IF ts[1] \in {"bf", "bqr"} THEN Src.const_1 ELSE Src.const_0
  <2>1. parseBranch(ts, lb) = [src_a |-> parseSrcOpd(ts[2]), src_b |-> b,
                               imm |-> parseTarget(lb, ts[3])]
    BY <1>2, SMT DEF parseBranch
  <2>2. b \in Bits5 BY DEF Src, Bits5
  <2> HIDE DEF b
  <2> QED BY <2>1, <2>2, TargetRange, WordCodes, SMT DEF Typed, FieldsTyped, Values
<1>3. CASE Len(ts) = 4
  <2> DEFINE a == parseSrcOpd(ts[IF ts[1] \in {"bge", "bgt"} THEN 3 ELSE 2])
             b == parseSrcOpd(ts[IF ts[1] \in {"bge", "bgt"} THEN 2 ELSE 3])
  <2>1. parseBranch(ts, lb) = [src_a |-> a, src_b |-> b, imm |-> parseTarget(lb, ts[4])]
    BY <1>3, SMT DEF parseBranch
  <2>2. a \in {Bad} \cup Bits5 /\ b \in {Bad} \cup Bits5 BY WordCodes
  <2> HIDE DEF a, b
  <2> QED BY <2>1, <2>2, TargetRange, SMT DEF Typed, FieldsTyped, Values
<1>4. CASE Len(ts) \notin {2, 3, 4}
  <2>1. parseBranch(ts, lb) = << >> BY <1>4, SMT DEF parseBranch
  <2> QED BY <2>1 DEF Typed, FieldsTyped
<1> QED BY <1>1, <1>2, <1>3, <1>4, SMT

LEMMA ReadDirTyped == ASSUME NEW ts PROVE Typed(parseReadDir(ts))
<1>1. FlagValue.pf \in Bits12 /\ 0 \in Bits1 BY DEF FlagValue, Bits12, Bits1
<1> DEFINE wg == parseDirWgSel(At(ts, 1))
           lce == parseDirLceSel(At(ts, 2))
           way == parseDirWaySel(At(ts, 3))
<1>2. /\ wg \in {Bad} \cup Bits3 /\ lce \in {Bad} \cup Bits3 /\ way \in {Bad} \cup Bits3
  BY WordCodes
<1>3. CASE ts[1] \in {"rdp", "rdw"}
  <2>1. parseReadDir(ts) =
          [dir_way_group_sel |-> wg, pruief_sel |-> 0, flag_mask_w_v |-> FlagValue.pf]
    BY <1>3, FlagsAre DEF parseReadDir, PruiefSel
  <2> HIDE DEF wg
  <2> QED BY <1>1, <1>2, <2>1, SMT DEF Typed, FieldsTyped, Values
<1>4. CASE ts[1] \notin {"rdp", "rdw"}
  <2>1. parseReadDir(ts) =
          [dir_way_group_sel |-> wg, dir_lce_sel |-> lce, dir_way_sel |-> way]
    BY <1>4 DEF parseReadDir
  <2> HIDE DEF wg, lce, way
  <2> QED BY <1>2, <2>1, SMT DEF Typed, FieldsTyped, Values
<1> QED BY <1>3, <1>4

LEMMA WriteDirTyped ==
  ASSUME NEW ts, ts[1] \in {"wdp", "wde", "wds"} PROVE Typed(parseWriteDir(ts))
<1> DEFINE wg == parseDirWgSel(At(ts, 1))
           lce == parseDirLceSel(At(ts, 2))
           way == parseDirWaySel(At(ts, 3))
           tag == parseDirTagSel(At(ts, 4))
           bit == parseImm(At(ts, 2))
           state(w) == IF w = "" THEN Bad ELSE parseDirCohStSel(w)
<1>1. /\ wg \in {Bad} \cup Bits3 /\ lce \in {Bad} \cup Bits3 /\ way \in {Bad} \cup Bits3
      /\ tag \in {Bad} \cup Bits2
  BY WordCodes
<1>2. ASSUME NEW w PROVE state(w) \in {Bad} \cup Bits1 BY WordCodes
<1>3. CASE ts[1] = "wdp"
  <2> DEFINE imm == IF bit = Bad THEN Bad ELSE bit % 2
  <2>1. parseWriteDir(ts) = [dir_way_group_sel |-> wg, imm |-> imm]
    BY <1>3 DEF parseWriteDir
  <2>2. imm \in {Bad} \cup Immediates
    <3>1. bit \in {Bad} \cup Immediates BY ImmCodes
    <3>2. \A x \in Immediates : x % 2 \in 0 .. 1 BY SMT DEF Immediates
    <3> QED BY <3>1, <3>2, SmallImmediates
  <2> HIDE DEF wg, imm
  <2> QED BY <1>1, <2>1, <2>2, SMT DEF Typed, FieldsTyped, Values
<1>4. CASE ts[1] = "wde"
  <2> DEFINE imm == IF At(ts, 5) = "nextcohst" THEN 0 ELSE parseCohStImm(At(ts, 5))
             st == state(At(ts, 5))
  <2>1. parseWriteDir(ts) =
          [dir_way_group_sel |-> wg, dir_lce_sel |-> lce, dir_way_sel |-> way,
           dir_tag_sel |-> tag, dir_coh_state_sel |-> st, imm |-> imm]
    BY <1>4 DEF parseWriteDir
  <2>2. imm \in {Bad} \cup Immediates BY ImmCodes, ZeroImmediate
  <2>3. st \in {Bad} \cup Bits1 BY <1>2
  <2> HIDE DEF wg, lce, way, tag, st, imm
  <2> QED BY <1>1, <2>1, <2>2, <2>3, SMT DEF Typed, FieldsTyped, Values
<1>5. CASE ts[1] = "wds"
  <2> DEFINE st == state(At(ts, 4))
  <2>1. parseWriteDir(ts) =
          [dir_way_group_sel |-> wg, dir_lce_sel |-> lce, dir_way_sel |-> way,
           dir_coh_state_sel |-> st]
    BY <1>5 DEF parseWriteDir
  <2>2. st \in {Bad} \cup Bits1 BY <1>2
  <2> HIDE DEF wg, lce, way, st
  <2> QED BY <1>1, <2>1, <2>2, SMT DEF Typed, FieldsTyped, Values
<1> QED BY <1>3, <1>4, <1>5

LEMMA MiscTyped == ASSUME NEW ts PROVE Typed(parseMisc(ts))
<1>1. CASE ts[1] = "gad"
  <2> DEFINE mask == Flag.tf + Flag.rf + Flag.uf + Flag.if + Flag.ef
  <2>1. parseMisc(ts) =
          [transfer_lce_sel |-> 0, transfer_lce_w_v |-> 1, req_addr_way_sel |-> 0,
           req_addr_way_w_v |-> 1, tf_sel |-> 0, pruief_sel |-> 0,
           flag_mask_w_v |-> mask]
    BY <1>1 DEF parseMisc, TrLceSel, ReqAddrWaySel, TfSel, PruiefSel
  <2>2. mask \in Bits12 BY FlagsAre DEF FlagValue, Bits12
  <2>3. 0 \in Bits1 /\ 1 \in Bits1 /\ 0 \in Bits2 BY DEF Bits1, Bits2
  <2> HIDE DEF mask
  <2> QED BY <2>1, <2>2, <2>3, SMT DEF Typed, FieldsTyped, Values
<1>2. CASE ts[1] # "gad"
  <2>1. parseMisc(ts) = << >> BY <1>2 DEF parseMisc
  <2> QED BY <2>1 DEF Typed, FieldsTyped
<1> QED BY <1>1, <1>2

LEMMA WfqTyped == ASSUME NEW ts PROVE Typed(parseWfq(ts))
<1> DEFINE qs == {ts[k] : k \in 2 .. Len(ts)}
           bit(q) == IF q \in qs THEN WfqBit[q] ELSE 0
           imm == bit("lcereq") + bit("lceresp") + bit("lcedataresp") + bit("memresp")
                  + bit("memdataresp") + bit("pending")
<1>1. CASE qs \subseteq DOMAIN WfqBit
  <2>1. parseWfq(ts) = [imm |-> imm] BY <1>1, Zenon DEF parseWfq
  <2>2. /\ bit("lcereq") \in {0, 32} /\ bit("lceresp") \in {0, 16}
        /\ bit("lcedataresp") \in {0, 8} /\ bit("memresp") \in {0, 4}
        /\ bit("memdataresp") \in {0, 2} /\ bit("pending") \in {0, 1}
    <3> HIDE DEF qs
    <3> QED BY DEF WfqBit
  <2>3. imm \in 0 .. 63
    <3> HIDE DEF bit
    <3> QED BY <2>2
  <2> HIDE DEF imm
  <2> QED BY <2>1, <2>3, SmallImmediates, SMT DEF Typed, FieldsTyped, Values
<1>2. CASE ~ (qs \subseteq DOMAIN WfqBit)
  <2>1. parseWfq(ts) = Reject BY <1>2, Zenon DEF parseWfq
  <2> QED BY <2>1 DEF Typed
<1> QED BY <1>1, <1>2

LEMMA PopFieldsTyped ==
  \A q \in DOMAIN PopFields : FieldsTyped(PopFields[q])
<1>1. /\ Flag.rqf + Flag.nerf + Flag.ldf \in Bits12
      /\ Flag.rqf + Flag.rwbf + Flag.tf \in Bits12
      /\ Flag.rqf \in Bits12 /\ Flag.nwbf \in Bits12
  BY FlagsAre DEF FlagValue, Bits12
<1> DEFINE a == Flag.rqf + Flag.nerf + Flag.ldf
           b == Flag.rqf + Flag.rwbf + Flag.tf
           c == Flag.rqf
           d == Flag.nwbf
<1>2. PopFields =
  [lcereq |->
     [req_sel |-> 0, req_w_v |-> 1, lru_way_sel |-> 0, lru_way_w_v |-> 1,
      rqf_sel |-> 0, nerldf_sel |-> 0, flag_mask_w_v |-> a],
   memresp |->
     [req_sel |-> 1, req_w_v |-> 1, req_addr_way_sel |-> 1, req_addr_way_w_v |-> 1,
      lru_way_sel |-> 1, lru_way_w_v |-> 1, transfer_lce_sel |-> 1,
      transfer_lce_w_v |-> 1, rqf_sel |-> 1, rwbf_sel |-> 0, tf_sel |-> 1,
      flag_mask_w_v |-> b],
   memdataresp |->
     [req_sel |-> 2, req_w_v |-> 1, req_addr_way_sel |-> 2, req_addr_way_w_v |-> 1,
      lru_way_sel |-> 2, lru_way_w_v |-> 1, cache_block_data_sel |-> 1,
      cache_block_data_w_v |-> 1, rqf_sel |-> 2, flag_mask_w_v |-> c],
   pending |->
     [req_sel |-> 3, req_w_v |-> 1, lru_way_sel |-> 3, lru_way_w_v |-> 1,
      rqf_sel |-> 3, nerldf_sel |-> 1, flag_mask_w_v |-> a],
   lceresp |-> [ack_type_w_v |-> 1],
   lcedataresp |->
     [cache_block_data_sel |-> 0, cache_block_data_w_v |-> 1,
      nwbf_sel |-> 0, flag_mask_w_v |-> d]]
  BY DEF PopFields, ReqSel, LruWaySel, RqfSel, NerldfSel, ReqAddrWaySel, TrLceSel,
         RwbfSel, TfSel, DataSel, NwbfSel
<1>3. /\ 0 \in Bits1 /\ 1 \in Bits1 /\ 0 .. 3 = Bits2 /\ 0 .. 7 = Bits3
  BY DEF Bits1, Bits2, Bits3
<1>4. a \in Bits12 /\ b \in Bits12 /\ c \in Bits12 /\ d \in Bits12 BY <1>1
<1> HIDE DEF a, b, c, d
<1>5. FieldsTyped(PopFields.lcereq) BY <1>2, <1>3, <1>4, SMT DEF FieldsTyped, Values
<1>6. FieldsTyped(PopFields.memresp) BY <1>2, <1>3, <1>4, SMT DEF FieldsTyped, Values
<1>7. FieldsTyped(PopFields.memdataresp) BY <1>2, <1>3, <1>4, SMT DEF FieldsTyped, Values
<1>8. FieldsTyped(PopFields.pending) BY <1>2, <1>3, <1>4, SMT DEF FieldsTyped, Values
<1>9. FieldsTyped(PopFields.lceresp) BY <1>2, <1>3, SMT DEF FieldsTyped, Values
<1>10. FieldsTyped(PopFields.lcedataresp) BY <1>2, <1>3, <1>4, SMT DEF FieldsTyped, Values
<1>11. DOMAIN PopFields = {"lcereq", "memresp", "memdataresp", "pending", "lceresp",
                           "lcedataresp"}
  BY DEF PopFields
<1> QED BY <1>5, <1>6, <1>7, <1>8, <1>9, <1>10, <1>11, Zenon

LEMMA PopqTyped == ASSUME NEW ts PROVE Typed(parsePopq(ts))
<1> DEFINE q == At(ts, 1)
<1>1. CASE q \in DOMAIN PopFields
  <2>1. parsePopq(ts) = [f \in DOMAIN PopFields[q] \cup {"imm"} |->
                           IF f = "imm" THEN parseSrcQueue(q) ELSE PopFields[q][f]]
    BY <1>1, Zenon DEF parsePopq
  <2>2. FieldsTyped(PopFields[q]) BY <1>1, PopFieldsTyped
  <2>3. parseSrcQueue(q) \in {Bad} \cup Immediates
    BY LookRange, SmallImmediates DEF Bad
  <2>4. "imm" \in DOMAIN Values /\ Values["imm"] = Immediates BY DEF Values
  <2> HIDE DEF q
  <2> QED BY <2>1, <2>2, <2>3, <2>4 DEF Typed, FieldsTyped
<1>2. CASE q \notin DOMAIN PopFields
  <2>1. parsePopq(ts) = Reject BY <1>2, Zenon DEF parsePopq
  <2> QED BY <2>1 DEF Typed
<1> QED BY <1>1, <1>2

LEMMA LceCmdTyped == ASSUME NEW ts PROVE Typed(parseLceCmd(ts))
<1> DEFINE cmd == parseImm(At(ts, 2))
           imm == IF cmd = Bad THEN Bad ELSE 8 * DstQ.lce_cmd + (cmd % 8)
           lce == IF Len(ts) > 3 THEN parseLceCmdLceSel(ts[4]) ELSE LceCmdLce.zero
           addr == IF Len(ts) > 4 THEN parseLceCmdAddrSel(ts[5]) ELSE LceCmdAddr.zero
           way == IF Len(ts) > 5 THEN parseLceCmdWaySel(ts[6]) ELSE LceCmdWay.zero
<1>1. parseLceCmd(ts) = [imm |-> imm, lce_cmd_lce_sel |-> lce,
                         lce_cmd_addr_sel |-> addr, lce_cmd_way_sel |-> way]
  BY Zenon DEF parseLceCmd
<1>2. imm \in {Bad} \cup Immediates
  <2>1. cmd \in {Bad} \cup Immediates BY ImmCodes
  <2>2. \A x \in Immediates : x % 8 \in 0 .. 7 BY SMT DEF Immediates
  <2>3. cmd = Bad \/ imm \in 0 .. 7
    <3>1. CASE cmd # Bad
      <4>1. cmd % 8 \in 0 .. 7 BY <2>1, <2>2, <3>1
      <4>2. imm = 8 * 0 + (cmd % 8) BY <3>1 DEF DstQ
      <4> HIDE DEF cmd, imm
      <4> QED BY <4>1, <4>2
    <3> QED BY <3>1
  <2> QED BY <2>3, SmallImmediates
<1>3. lce \in {Bad} \cup Bits3 /\ addr \in {Bad} \cup Bits3 /\ way \in {Bad} \cup Bits3
  <2>1. LceCmdLce.zero \in Bits3 /\ LceCmdAddr.zero \in Bits3 /\ LceCmdWay.zero \in Bits3
    BY DEF LceCmdLce, LceCmdAddr, LceCmdWay, Bits3
  <2> QED BY <2>1, WordCodes
<1> HIDE DEF imm, lce, addr, way
<1> QED BY <1>1, <1>2, <1>3, SMT DEF Typed, FieldsTyped, Values

LEMMA PushqTyped == ASSUME NEW ts PROVE Typed(parsePushq(ts))
<1> DEFINE queue == parseDstQueue(At(ts, 1))
           plain == [imm |-> 8 * queue, lce_cmd_lce_sel |-> LceCmdLce.zero,
                     lce_cmd_addr_sel |-> LceCmdAddr.zero,
                     lce_cmd_way_sel |-> LceCmdWay.zero]
<1>1. queue \in -1 .. 3 BY LookRange
<1>2. ASSUME queue \in 1 .. 3 PROVE FieldsTyped(plain)
  <2>1. 8 * queue \in Immediates BY <1>2, SmallImmediates
  <2>2. plain = [imm |-> 8 * queue, lce_cmd_lce_sel |-> 6, lce_cmd_addr_sel |-> 6,
                 lce_cmd_way_sel |-> 4]
    BY DEF LceCmdLce, LceCmdAddr, LceCmdWay
  <2>3. 6 \in Bits3 /\ 4 \in Bits3 BY DEF Bits3
  <2> HIDE DEF plain, queue
  <2> QED BY <2>1, <2>2, <2>3, SMT DEF Typed, FieldsTyped, Values
<1>3. CASE queue = 0
  <2>1. parsePushq(ts) = parseLceCmd(ts) BY <1>3 DEF parsePushq, DstQ
  <2> QED BY <2>1, LceCmdTyped
<1>4. CASE queue = 3
  <2>1. parsePushq(ts) =
          [f \in DOMAIN plain \cup {"mem_data_cmd_addr_sel"} |->
             IF f \in DOMAIN plain THEN plain[f]
                                   ELSE parseMemDataCmdAddrSel(At(ts, 2))]
    BY <1>4 DEF parsePushq, DstQ
  <2>2. parseMemDataCmdAddrSel(At(ts, 2)) \in {Bad} \cup Bits1 BY WordCodes
  <2>3. FieldsTyped(plain) BY <1>2, <1>4
  <2>4. /\ "mem_data_cmd_addr_sel" \in DOMAIN Values
        /\ Values["mem_data_cmd_addr_sel"] = Bits1
    BY DEF Values
  <2> HIDE DEF plain, queue
  <2> QED BY <2>1, <2>2, <2>3, <2>4, SMT DEF Typed, FieldsTyped
<1>5. CASE queue \in {1, 2}
  <2>1. parsePushq(ts) = plain BY <1>5 DEF parsePushq, DstQ
  <2> QED BY <1>2, <1>5, <2>1 DEF Typed
<1>6. CASE queue = -1
  <2>1. parsePushq(ts) = Reject BY <1>6 DEF parsePushq, DstQ
  <2> QED BY <2>1 DEF Typed
<1> QED BY <1>1, <1>3, <1>4, <1>5, <1>6

-----------------------------------------------------------------------------
(* The operation of a mnemonic.                                            *)

LEMMA OpWords ==
  ASSUME NEW w
  PROVE  /\ getOp(w) = 0 <=> w \in DOMAIN MinorAlu
         /\ getOp(w) = 1 <=> w \in DOMAIN MinorBranch
         /\ getOp(w) = 2 <=> w \in DOMAIN MinorMov \cup DOMAIN MinorFlag
         /\ getOp(w) = 4 <=> w \in DOMAIN MinorReadDir
         /\ getOp(w) = 5 <=> w \in DOMAIN MinorWriteDir
         /\ getOp(w) = 6 <=> w \in DOMAIN MinorMisc
         /\ getOp(w) = 7 <=> w \in DOMAIN MinorQueue
BY DEF getOp, Op, Bad, MinorAlu, MinorBranch, MinorMov, MinorFlag, MinorReadDir,
       MinorWriteDir, MinorMisc, MinorQueue

\* The first word of a statement that has an operation.
LEMMA Mnemonic ==
  ASSUME NEW ts, getOp(At(ts, 0)) # Bad PROVE At(ts, 0) = ts[1]
<1>1. getOp("") = Bad
  BY DEF getOp, Op, Bad, MinorAlu, MinorBranch, MinorMov, MinorFlag, MinorReadDir,
         MinorWriteDir, MinorMisc, MinorQueue
<1>2. 0 + 1 = 1 OBVIOUS
<1>3. At(ts, 0) = ts[1] \/ At(ts, 0) = "" BY <1>2, Zenon DEF At
<1> QED BY <1>1, <1>3, Zenon

LEMMA QueueTyped ==
  ASSUME NEW ts, ts[1] \in {"wfq", "popq", "pushq"} PROVE Typed(parseQueue(ts))
<1>1. CASE ts[1] = "wfq" BY <1>1, WfqTyped DEF parseQueue
<1>2. CASE ts[1] = "popq" BY <1>2, PopqTyped DEF parseQueue
<1>3. CASE ts[1] = "pushq" BY <1>3, PushqTyped DEF parseQueue
<1> QED BY <1>1, <1>2, <1>3

LEMMA AssignedTyped ==
  ASSUME NEW ts, NEW lb, lb \in [DOMAIN lb -> Immediates]
  PROVE  Typed(Assigned(ts, lb))
<1> DEFINE w == At(ts, 0)
           op == getOp(w)
<1>1. /\ op = 0 => Assigned(ts, lb) = parseALU(ts)
      /\ op = 1 => Assigned(ts, lb) = parseBranch(ts, lb)
      /\ op = 2 => Assigned(ts, lb) = parseMove(ts)
      /\ op = 4 => Assigned(ts, lb) = parseReadDir(ts)
      /\ op = 5 => Assigned(ts, lb) = parseWriteDir(ts)
      /\ op = 6 => Assigned(ts, lb) = parseMisc(ts)
      /\ op = 7 => Assigned(ts, lb) = parseQueue(ts)
      /\ op \notin {0, 1, 2, 4, 5, 6, 7} => Assigned(ts, lb) = Reject
  BY DEF Assigned, Op
<1>2. op # Bad => ts[1] = w BY Mnemonic
<1>3. CASE op = 0 BY <1>1, <1>3, AluTyped
<1>4. CASE op = 1 BY <1>1, <1>4, BranchTyped
<1>5. CASE op = 2 BY <1>1, <1>5, MoveTyped
<1>6. CASE op = 4 BY <1>1, <1>6, ReadDirTyped
<1>7. CASE op = 5
  <2>1. ts[1] \in {"wdp", "wde", "wds"}
    BY <1>2, <1>7, OpWords DEF MinorWriteDir, Bad
  <2> QED BY <1>1, <1>7, <2>1, WriteDirTyped
<1>8. CASE op = 6 BY <1>1, <1>8, MiscTyped
<1>9. CASE op = 7
  <2>1. ts[1] \in {"wfq", "popq", "pushq"}
    BY <1>2, <1>9, OpWords DEF MinorQueue, Bad
  <2> QED BY <1>1, <1>9, <2>1, QueueTyped
<1>10. CASE op \notin {0, 1, 2, 4, 5, 6, 7}
  <2>1. Assigned(ts, lb) = Reject BY <1>1, <1>10
  <2> QED BY <2>1 DEF Typed
<1> QED BY <1>3, <1>4, <1>5, <1>6, <1>7, <1>8, <1>9, <1>10

\* What assemble writes for a statement it does not reject is unpacked to
\* the fields that the parser has set: nothing overflows a field's width.
THEOREM StatementIsUnpacked ==
  ASSUME NEW ts, NEW lb, lb \in [DOMAIN lb -> Immediates],
         ~Rejected(parseTokens(ts, lb))
  PROVE  Unpack(Word(parseTokens(ts, lb))) = parseTokens(ts, lb)
<1> DEFINE inst == parseTokens(ts, lb)
<1>1. Fits(inst) BY AssignedTyped, ParsedFits
<1>2. inst = [f \in Fields |-> inst[f]] BY DEF parseTokens
<1> HIDE DEF inst
<1>3. Unpack(Word(inst)) = [f \in Fields |-> inst[f]] BY <1>1, WordIsUnpacked
<1> QED BY <1>2, <1>3, Zenon DEF inst

-----------------------------------------------------------------------------
(* Documented statements, form by form.                                    *)

\* The operands of a statement of mnemonic n are those of its syntax.
Ordinary(ts, lb) ==
  /\ ts[1] \in Doc!Mnemonics /\ Len(ts) = Len(Doc!Syntax(ts[1], lb)) + 1
  /\ \A k \in 1 .. Len(ts) - 1 : ts[k + 1] \in Doc!Syntax(ts[1], lb)[k]
NextState(ts) ==
  /\ ts[1] = "movi" /\ Len(ts) = 3
  /\ ts[2] \in DOMAIN Doc!CohState \ {"nextcohst"} /\ ts[3] = "nextcohst"
Waits(ts) ==
  ts[1] = "wfq" /\ Len(ts) >= 2 /\ \A k \in 2 .. Len(ts) : ts[k] \in DOMAIN Doc!Queue
Commands(ts) ==
  /\ ts[1] = "pushq" /\ Len(ts) \in 3 .. 6 /\ ts[2] = "lcecmd"
  /\ ts[3] \in DOMAIN Doc!Command
  /\ Len(ts) > 3 => ts[4] \in DOMAIN Doc!CommandLce
  /\ Len(ts) > 4 => ts[5] \in DOMAIN Doc!CommandAddr
  /\ Len(ts) > 5 => ts[6] \in DOMAIN Doc!CommandWay

LEMMA Forms ==
  ASSUME NEW ts \in Seq(STRING), NEW lb, Doc!Documented(ts, lb)
  PROVE  /\ Len(ts) \in Nat \ {0}
         /\ \/ Ordinary(ts, lb) \/ NextState(ts) \/ Waits(ts) \/ Commands(ts)
            \/ ts \in Doc!Pushes
<1> DEFINE operands == Tail(ts)
           fits(classes) == /\ Len(operands) <= Len(classes)
                            /\ \A k \in 1 .. Len(operands) : operands[k] \in classes[k]
           classes == <<{"lcecmd"}, DOMAIN Doc!Command, DOMAIN Doc!CommandLce,
                        DOMAIN Doc!CommandAddr, DOMAIN Doc!CommandWay>>
<1>1. ts # <<>> BY DEF Doc!Documented
<1>2. /\ Head(ts) = ts[1] /\ Len(operands) = Len(ts) - 1 /\ Len(ts) \in Nat \ {0}
      /\ \A k \in 1 .. Len(ts) - 1 : operands[k] = ts[k + 1]
  BY <1>1, HeadTailProperties
<1>3. \/ /\ ts[1] \in Doc!Mnemonics
         /\ Len(operands) = Len(Doc!Syntax(ts[1], lb)) /\ fits(Doc!Syntax(ts[1], lb))
      \/ /\ ts[1] = "movi" /\ Len(operands) = 2
         /\ operands[1] \in DOMAIN Doc!CohState \ {"nextcohst"}
         /\ operands[2] = "nextcohst"
      \/ /\ ts[1] = "wfq" /\ operands # <<>>
         /\ \A k \in 1 .. Len(operands) : operands[k] \in DOMAIN Doc!Queue
      \/ /\ ts[1] = "pushq" /\ Len(operands) >= 2 /\ operands[1] = "lcecmd"
         /\ fits(classes)
      \/ ts \in Doc!Pushes
  BY <1>2, Zenon DEF Doc!Documented
<1>4. Len(classes) = 5 OBVIOUS
<1>5. classes[2] = DOMAIN Doc!Command /\ classes[3] = DOMAIN Doc!CommandLce
      /\ classes[4] = DOMAIN Doc!CommandAddr /\ classes[5] = DOMAIN Doc!CommandWay
  OBVIOUS
<1> HIDE DEF operands, classes
<1>6. ASSUME ts[1] \in Doc!Mnemonics, Len(operands) = Len(Doc!Syntax(ts[1], lb)),
             fits(Doc!Syntax(ts[1], lb))
      PROVE  Ordinary(ts, lb)
  BY <1>2, <1>6 DEF Ordinary
<1>7. ASSUME ts[1] = "movi", Len(operands) = 2,
             operands[1] \in DOMAIN Doc!CohState \ {"nextcohst"}, operands[2] = "nextcohst"
      PROVE  NextState(ts)
  <2>1. Len(ts) = 3
    <3>1. Len(operands) = 2 /\ Len(operands) = Len(ts) - 1 /\ Len(ts) \in Nat
      BY <1>2, <1>7
    <3> DEFINE m == Len(ts)
    <3>2. m \in Nat /\ m - 1 = 2 BY <3>1
    <3> HIDE DEF m
    <3>3. m = 3 BY <3>2
    <3> QED BY <3>3 DEF m
  <2>2. operands[1] = ts[2] /\ operands[2] = ts[3] BY <1>2, <2>1
  <2> QED BY <1>7, <2>1, <2>2 DEF NextState
<1>8. ASSUME ts[1] = "wfq", operands # <<>>,
             \A k \in 1 .. Len(operands) : operands[k] \in DOMAIN Doc!Queue
      PROVE  Waits(ts)
  <2>1. operands \in Seq(STRING) BY <1>1, HeadTailProperties DEF operands
  <2>2. Len(operands) # 0 BY <1>8, <2>1, EmptySeq
  <2>3. Len(ts) >= 2 BY <1>2, <2>2
  <2>4. ASSUME NEW k \in 2 .. Len(ts) PROVE ts[k] \in DOMAIN Doc!Queue
    <3>1. k - 1 \in 1 .. Len(operands) /\ (k - 1) + 1 = k BY <1>2, <2>4
    <3>2. operands[k - 1] = ts[(k - 1) + 1] BY <1>2, <3>1
    <3> QED BY <1>8, <3>1, <3>2
  <2> QED BY <1>8, <2>3, <2>4 DEF Waits
<1>9. ASSUME ts[1] = "pushq", Len(operands) >= 2, operands[1] = "lcecmd", fits(classes)
      PROVE  Commands(ts)
  <2>1. Len(ts) \in 3 .. 6 BY <1>2, <1>4, <1>9
  <2>2. operands[1] = ts[2] /\ operands[2] = ts[3] BY <1>2, <2>1
  <2>3. /\ Len(ts) > 3 => operands[3] = ts[4]
        /\ Len(ts) > 4 => operands[4] = ts[5]
        /\ Len(ts) > 5 => operands[5] = ts[6]
    BY <1>2, <2>1
  <2>4. operands[2] \in classes[2] BY <1>2, <1>9, <2>1
  <2>5. /\ Len(ts) > 3 => operands[3] \in classes[3]
        /\ Len(ts) > 4 => operands[4] \in classes[4]
        /\ Len(ts) > 5 => operands[5] \in classes[5]
    BY <1>2, <1>9, <2>1
  <2> QED BY <1>5, <1>9, <2>1, <2>2, <2>3, <2>4, <2>5 DEF Commands
<1> QED BY <1>2, <1>3, <1>6, <1>7, <1>8, <1>9

\* The words of an ordinary statement whose syntax has so many operands.
LEMMA Operands0 ==
  ASSUME NEW ts, NEW lb, Ordinary(ts, lb), Len(ts) \in Nat,
         Doc!Syntax(ts[1], lb) = <<>>
  PROVE  Len(ts) = 1
<1>1. Len(<<>>) = 0 OBVIOUS
<1>2. Len(ts) = 0 + 1 BY <1>1 DEF Ordinary
<1> QED BY <1>2
LEMMA Operands1 ==
  ASSUME NEW ts, NEW lb, Ordinary(ts, lb), Len(ts) \in Nat, NEW c1,
         Doc!Syntax(ts[1], lb) = <<c1>>
  PROVE  Len(ts) = 2 /\ ts[2] \in c1
<1>1. Len(<<c1>>) = 1 OBVIOUS
<1>2. Len(ts) = 1 + 1 BY <1>1 DEF Ordinary
<1>3. \A k \in 1 .. 1 : ts[k + 1] \in <<c1>>[k] BY <1>2 DEF Ordinary
<1>4. ts[1 + 1] \in <<c1>>[1] BY <1>3, SMT
<1> QED BY <1>2, <1>4
LEMMA Operands2 ==
  ASSUME NEW ts, NEW lb, Ordinary(ts, lb), Len(ts) \in Nat, NEW c1, NEW c2,
         Doc!Syntax(ts[1], lb) = <<c1, c2>>
  PROVE  Len(ts) = 3 /\ ts[2] \in c1 /\ ts[3] \in c2
<1>1. Len(<<c1, c2>>) = 2 OBVIOUS
<1>2. Len(ts) = 2 + 1 BY <1>1 DEF Ordinary
<1>3. \A k \in 1 .. 2 : ts[k + 1] \in <<c1, c2>>[k] BY <1>2 DEF Ordinary
<1>4. ts[1 + 1] \in <<c1, c2>>[1] BY <1>3, SMT
<1>5. ts[2 + 1] \in <<c1, c2>>[2] BY <1>3, SMT
<1> QED BY <1>2, <1>4, <1>5
LEMMA Operands3 ==
  ASSUME NEW ts, NEW lb, Ordinary(ts, lb), Len(ts) \in Nat, NEW c1, NEW c2, NEW c3,
         Doc!Syntax(ts[1], lb) = <<c1, c2, c3>>
  PROVE  Len(ts) = 4 /\ ts[2] \in c1 /\ ts[3] \in c2 /\ ts[4] \in c3
<1>1. Len(<<c1, c2, c3>>) = 3 OBVIOUS
<1>2. Len(ts) = 3 + 1 BY <1>1 DEF Ordinary
<1>3. \A k \in 1 .. 3 : ts[k + 1] \in <<c1, c2, c3>>[k] BY <1>2 DEF Ordinary
<1>4. ts[1 + 1] \in <<c1, c2, c3>>[1] BY <1>3, SMT
<1>5. ts[2 + 1] \in <<c1, c2, c3>>[2] BY <1>3, SMT
<1>6. ts[3 + 1] \in <<c1, c2, c3>>[3] BY <1>3, SMT
<1> QED BY <1>2, <1>4, <1>5, <1>6
LEMMA Operands4 ==
  ASSUME NEW ts, NEW lb, Ordinary(ts, lb), Len(ts) \in Nat, NEW c1, NEW c2, NEW c3, NEW c4,
         Doc!Syntax(ts[1], lb) = <<c1, c2, c3, c4>>
  PROVE  Len(ts) = 5 /\ ts[2] \in c1 /\ ts[3] \in c2 /\ ts[4] \in c3 /\ ts[5] \in c4
<1>1. Len(<<c1, c2, c3, c4>>) = 4 OBVIOUS
<1>2. Len(ts) = 4 + 1 BY <1>1 DEF Ordinary
<1>3. \A k \in 1 .. 4 : ts[k + 1] \in <<c1, c2, c3, c4>>[k] BY <1>2 DEF Ordinary
<1>4. ts[1 + 1] \in <<c1, c2, c3, c4>>[1] BY <1>3, SMT
<1>5. ts[2 + 1] \in <<c1, c2, c3, c4>>[2] BY <1>3, SMT
<1>6. ts[3 + 1] \in <<c1, c2, c3, c4>>[3] BY <1>3, SMT
<1>7. ts[4 + 1] \in <<c1, c2, c3, c4>>[4] BY <1>3, SMT
<1> QED BY <1>2, <1>4, <1>5, <1>6, <1>7
LEMMA Operands5 ==
  ASSUME NEW ts, NEW lb, Ordinary(ts, lb), Len(ts) \in Nat, NEW c1, NEW c2, NEW c3,
         NEW c4, NEW c5,
         Doc!Syntax(ts[1], lb) = <<c1, c2, c3, c4, c5>>
  PROVE  Len(ts) = 6 /\ ts[2] \in c1 /\ ts[3] \in c2 /\ ts[4] \in c3 /\ ts[5] \in c4 /\ ts[6] \in c5
<1>1. Len(<<c1, c2, c3, c4, c5>>) = 5 OBVIOUS
<1>2. Len(ts) = 5 + 1 BY <1>1 DEF Ordinary
<1>3. \A k \in 1 .. 5 : ts[k + 1] \in <<c1, c2, c3, c4, c5>>[k] BY <1>2 DEF Ordinary
<1>4. ts[1 + 1] \in <<c1, c2, c3, c4, c5>>[1] BY <1>3, SMT
<1>5. ts[2 + 1] \in <<c1, c2, c3, c4, c5>>[2] BY <1>3, SMT
<1>6. ts[3 + 1] \in <<c1, c2, c3, c4, c5>>[3] BY <1>3, SMT
<1>7. ts[4 + 1] \in <<c1, c2, c3, c4, c5>>[4] BY <1>3, SMT
<1>8. ts[5 + 1] \in <<c1, c2, c3, c4, c5>>[5] BY <1>3, SMT
<1> QED BY <1>2, <1>4, <1>5, <1>6, <1>7, <1>8

\* The words of an ordinary statement, mnemonic by mnemonic.
LEMMA OrdinaryForms ==
  ASSUME NEW ts, NEW lb, Ordinary(ts, lb), Len(ts) \in Nat
  PROVE  /\ ts[1] \in {"add", "sub"} =>
              Len(ts) = 4 /\ ts[2] \in DOMAIN Doc!Gpr /\ ts[3] \in DOMAIN Doc!Gpr
              /\ ts[4] \in DOMAIN Doc!Gpr
         /\ ts[1] \in {"inc", "dec"} =>
              Len(ts) = 2 /\ ts[2] \in DOMAIN Doc!Gpr
         /\ ts[1] = "bi" =>
              Len(ts) = 2 /\ ts[2] \in Doc!Target(lb)
         /\ ts[1] \in {"beq", "bne", "blt", "ble", "bgt", "bge"} =>
              Len(ts) = 4 /\ ts[2] \in DOMAIN Doc!Source
              /\ ts[3] \in DOMAIN Doc!Source /\ ts[4] \in Doc!Target(lb)
         /\ ts[1] \in {"bz", "bnz"} =>
              Len(ts) = 3 /\ ts[2] \in DOMAIN Doc!Source
              /\ ts[3] \in Doc!Target(lb)
         /\ ts[1] \in {"bf", "bfz"} =>
              Len(ts) = 3 /\ ts[2] \in Doc!FlagNames /\ ts[3] \in Doc!Target(lb)
         /\ ts[1] = "bqr" =>
              Len(ts) = 3 /\ ts[2] \in DOMAIN Doc!Queue
              /\ ts[3] \in Doc!Target(lb)
         /\ ts[1] = "mov" =>
              Len(ts) = 3 /\ ts[2] \in DOMAIN Doc!Gpr
              /\ ts[3] \in DOMAIN Doc!Gpr \cup {"nextcohst"}
         /\ ts[1] = "movi" =>
              Len(ts) = 3 /\ ts[2] \in Doc!Numerals /\ ts[3] \in DOMAIN Doc!Gpr
         /\ ts[1] \in {"sf", "sfz"} =>
              Len(ts) = 2 /\ ts[2] \in Doc!FlagNames
         /\ ts[1] \in {"rdp", "rdw"} =>
              Len(ts) = 2 /\ ts[2] \in DOMAIN Doc!WayGroup
         /\ ts[1] = "rde" =>
              Len(ts) = 4 /\ ts[2] \in DOMAIN Doc!WayGroup
              /\ ts[3] \in DOMAIN Doc!EntryLce /\ ts[4] \in DOMAIN Doc!EntryWay
         /\ ts[1] = "wdp" =>
              Len(ts) = 3 /\ ts[2] \in DOMAIN Doc!WayGroup
              /\ ts[3] \in DOMAIN Doc!Bit
         /\ ts[1] = "wde" =>
              Len(ts) = 6 /\ ts[2] \in DOMAIN Doc!WayGroup
              /\ ts[3] \in DOMAIN Doc!EntryLce /\ ts[4] \in DOMAIN Doc!EntryWay
              /\ ts[5] \in DOMAIN Doc!Tag /\ ts[6] \in DOMAIN Doc!CohState
         /\ ts[1] = "wds" =>
              Len(ts) = 5 /\ ts[2] \in DOMAIN Doc!WayGroup
              /\ ts[3] \in DOMAIN Doc!EntryLce /\ ts[4] \in DOMAIN Doc!EntryWay
              /\ ts[5] \in DOMAIN Doc!CohState
         /\ ts[1] \in {"gad", "stall"} =>
              Len(ts) = 1
         /\ ts[1] = "popq" =>
              Len(ts) = 2 /\ ts[2] \in DOMAIN Doc!Queue
<1>1. ASSUME ts[1] \in {"add", "sub"}
      PROVE  Len(ts) = 4 /\ ts[2] \in DOMAIN Doc!Gpr /\ ts[3] \in DOMAIN Doc!Gpr
             /\ ts[4] \in DOMAIN Doc!Gpr
  <2>1. Doc!Syntax(ts[1], lb) = <<DOMAIN Doc!Gpr, DOMAIN Doc!Gpr, DOMAIN Doc!Gpr>>
    BY <1>1 DEF Doc!Syntax, Doc!Compares, Doc!Against
  <2> QED BY <2>1, Operands3
<1>2. ASSUME ts[1] \in {"inc", "dec"}
      PROVE  Len(ts) = 2 /\ ts[2] \in DOMAIN Doc!Gpr
  <2>1. Doc!Syntax(ts[1], lb) = <<DOMAIN Doc!Gpr>>
    BY <1>2 DEF Doc!Syntax, Doc!Compares, Doc!Against
  <2> QED BY <2>1, Operands1
<1>3. ASSUME ts[1] = "bi"
      PROVE  Len(ts) = 2 /\ ts[2] \in Doc!Target(lb)
  <2>1. Doc!Syntax(ts[1], lb) = <<Doc!Target(lb)>>
    BY <1>3 DEF Doc!Syntax, Doc!Compares, Doc!Against
  <2> QED BY <2>1, Operands1
<1>4. ASSUME ts[1] \in {"beq", "bne", "blt", "ble", "bgt", "bge"}
      PROVE  Len(ts) = 4 /\ ts[2] \in DOMAIN Doc!Source
             /\ ts[3] \in DOMAIN Doc!Source /\ ts[4] \in Doc!Target(lb)
  <2>1. Doc!Syntax(ts[1], lb) = <<DOMAIN Doc!Source, DOMAIN Doc!Source, Doc!Target(lb)>>
    BY <1>4 DEF Doc!Syntax, Doc!Compares, Doc!Against
  <2> QED BY <2>1, Operands3
<1>5. ASSUME ts[1] \in {"bz", "bnz"}
      PROVE  Len(ts) = 3 /\ ts[2] \in DOMAIN Doc!Source
             /\ ts[3] \in Doc!Target(lb)
  <2>1. Doc!Syntax(ts[1], lb) = <<DOMAIN Doc!Source, Doc!Target(lb)>>
    BY <1>5 DEF Doc!Syntax, Doc!Compares, Doc!Against
  <2> QED BY <2>1, Operands2
<1>6. ASSUME ts[1] \in {"bf", "bfz"}
      PROVE  Len(ts) = 3 /\ ts[2] \in Doc!FlagNames /\ ts[3] \in Doc!Target(lb)
  <2>1. Doc!Syntax(ts[1], lb) = <<Doc!FlagNames, Doc!Target(lb)>>
    BY <1>6 DEF Doc!Syntax, Doc!Compares, Doc!Against
  <2> QED BY <2>1, Operands2
<1>7. ASSUME ts[1] = "bqr"
      PROVE  Len(ts) = 3 /\ ts[2] \in DOMAIN Doc!Queue /\ ts[3] \in Doc!Target(lb)
  <2>1. Doc!Syntax(ts[1], lb) = <<DOMAIN Doc!Queue, Doc!Target(lb)>>
    BY <1>7 DEF Doc!Syntax, Doc!Compares, Doc!Against
  <2> QED BY <2>1, Operands2
<1>8. ASSUME ts[1] = "mov"
      PROVE  Len(ts) = 3 /\ ts[2] \in DOMAIN Doc!Gpr
             /\ ts[3] \in DOMAIN Doc!Gpr \cup {"nextcohst"}
  <2>1. Doc!Syntax(ts[1], lb) = <<DOMAIN Doc!Gpr, DOMAIN Doc!Gpr \cup {"nextcohst"}>>
    BY <1>8 DEF Doc!Syntax, Doc!Compares, Doc!Against
  <2> QED BY <2>1, Operands2
<1>9. ASSUME ts[1] = "movi"
      PROVE  Len(ts) = 3 /\ ts[2] \in Doc!Numerals /\ ts[3] \in DOMAIN Doc!Gpr
  <2>1. Doc!Syntax(ts[1], lb) = <<Doc!Numerals, DOMAIN Doc!Gpr>>
    BY <1>9 DEF Doc!Syntax, Doc!Compares, Doc!Against
  <2> QED BY <2>1, Operands2
<1>10. ASSUME ts[1] \in {"sf", "sfz"}
       PROVE  Len(ts) = 2 /\ ts[2] \in Doc!FlagNames
  <2>1. Doc!Syntax(ts[1], lb) = <<Doc!FlagNames>>
    BY <1>10 DEF Doc!Syntax, Doc!Compares, Doc!Against
  <2> QED BY <2>1, Operands1
<1>11. ASSUME ts[1] \in {"rdp", "rdw"}
       PROVE  Len(ts) = 2 /\ ts[2] \in DOMAIN Doc!WayGroup
  <2>1. Doc!Syntax(ts[1], lb) = <<DOMAIN Doc!WayGroup>>
    BY <1>11 DEF Doc!Syntax, Doc!Compares, Doc!Against
  <2> QED BY <2>1, Operands1
<1>12. ASSUME ts[1] = "rde"
       PROVE  Len(ts) = 4 /\ ts[2] \in DOMAIN Doc!WayGroup
              /\ ts[3] \in DOMAIN Doc!EntryLce /\ ts[4] \in DOMAIN Doc!EntryWay
  <2>1. Doc!Syntax(ts[1], lb) = <<DOMAIN Doc!WayGroup, DOMAIN Doc!EntryLce,
                                  DOMAIN Doc!EntryWay>>
    BY <1>12 DEF Doc!Syntax, Doc!Compares, Doc!Against
  <2> QED BY <2>1, Operands3
<1>13. ASSUME ts[1] = "wdp"
       PROVE  Len(ts) = 3 /\ ts[2] \in DOMAIN Doc!WayGroup
              /\ ts[3] \in DOMAIN Doc!Bit
  <2>1. Doc!Syntax(ts[1], lb) = <<DOMAIN Doc!WayGroup, DOMAIN Doc!Bit>>
    BY <1>13 DEF Doc!Syntax, Doc!Compares, Doc!Against
  <2> QED BY <2>1, Operands2
<1>14. ASSUME ts[1] = "wde"
       PROVE  Len(ts) = 6 /\ ts[2] \in DOMAIN Doc!WayGroup
              /\ ts[3] \in DOMAIN Doc!EntryLce /\ ts[4] \in DOMAIN Doc!EntryWay
              /\ ts[5] \in DOMAIN Doc!Tag /\ ts[6] \in DOMAIN Doc!CohState
  <2>1. Doc!Syntax(ts[1], lb) = <<DOMAIN Doc!WayGroup, DOMAIN Doc!EntryLce,
                                  DOMAIN Doc!EntryWay, DOMAIN Doc!Tag,
                                  DOMAIN Doc!CohState>>
    BY <1>14 DEF Doc!Syntax, Doc!Compares, Doc!Against
  <2> QED BY <2>1, Operands5
<1>15. ASSUME ts[1] = "wds"
       PROVE  Len(ts) = 5 /\ ts[2] \in DOMAIN Doc!WayGroup
              /\ ts[3] \in DOMAIN Doc!EntryLce /\ ts[4] \in DOMAIN Doc!EntryWay
              /\ ts[5] \in DOMAIN Doc!CohState
  <2>1. Doc!Syntax(ts[1], lb) = <<DOMAIN Doc!WayGroup, DOMAIN Doc!EntryLce,
                                  DOMAIN Doc!EntryWay, DOMAIN Doc!CohState>>
    BY <1>15 DEF Doc!Syntax, Doc!Compares, Doc!Against
  <2> QED BY <2>1, Operands4
<1>16. ASSUME ts[1] \in {"gad", "stall"}
       PROVE  Len(ts) = 1
  <2>1. Doc!Syntax(ts[1], lb) = <<>>
    BY <1>16 DEF Doc!Syntax, Doc!Compares, Doc!Against
  <2> QED BY <2>1, Operands0
<1>17. ASSUME ts[1] = "popq"
       PROVE  Len(ts) = 2 /\ ts[2] \in DOMAIN Doc!Queue
  <2>1. Doc!Syntax(ts[1], lb) = <<DOMAIN Doc!Queue>>
    BY <1>17 DEF Doc!Syntax, Doc!Compares, Doc!Against
  <2> QED BY <2>1, Operands1
<1> QED BY <1>1, <1>2, <1>3, <1>4, <1>5, <1>6, <1>7, <1>8, <1>9, <1>10, <1>11, <1>12,
    <1>13, <1>14, <1>15, <1>16, <1>17, Zenon

LEMMA AtIs ==
  ASSUME NEW ts, Len(ts) \in Nat
  PROVE  /\ Len(ts) > 0 => At(ts, 0) = ts[1]
         /\ Len(ts) > 1 => At(ts, 1) = ts[2]
         /\ Len(ts) > 2 => At(ts, 2) = ts[3]
         /\ Len(ts) > 3 => At(ts, 3) = ts[4]
         /\ Len(ts) > 4 => At(ts, 4) = ts[5]
         /\ Len(ts) > 5 => At(ts, 5) = ts[6]
<1>1. 0 + 1 = 1 /\ 1 + 1 = 2 /\ 2 + 1 = 3 /\ 3 + 1 = 4 /\ 4 + 1 = 5 /\ 5 + 1 = 6
  OBVIOUS
<1>2. \A k : k < Len(ts) => At(ts, k) = ts[k + 1] BY Zenon DEF At
<1>3. /\ Len(ts) > 0 => 0 < Len(ts)
      /\ Len(ts) > 1 => 1 < Len(ts)
      /\ Len(ts) > 2 => 2 < Len(ts)
      /\ Len(ts) > 3 => 3 < Len(ts)
      /\ Len(ts) > 4 => 4 < Len(ts)
      /\ Len(ts) > 5 => 5 < Len(ts)
  OBVIOUS
<1> QED BY <1>1, <1>2, <1>3, Zenon

\* The instruction that a documented statement is parsed to: operation and
\* minor operation are those of its mnemonic, the other fields the assigned
\* ones, or zero.
LEMMA Parsed ==
  ASSUME NEW ts, NEW lb, lb \in [DOMAIN lb -> Immediates], Len(ts) \in Nat \ {0},
         ~Rejected(parseTokens(ts, lb))
  PROVE  /\ parseTokens(ts, lb).op = getOp(ts[1])
         /\ parseTokens(ts, lb).minor_op = getMinorOp(ts[1])
         /\ \A f \in Fields \ {"op", "minor_op"} :
              parseTokens(ts, lb)[f] = IF f \in DOMAIN Assigned(ts, lb)
                                       THEN Assigned(ts, lb)[f] ELSE 0
         /\ \A f \in DOMAIN Assigned(ts, lb) : f \in Fields /\ Assigned(ts, lb)[f] # Bad
         /\ parseTokens(ts, lb) = [f \in Fields |-> parseTokens(ts, lb)[f]]
<1>1. At(ts, 0) = ts[1] BY AtIs
<1>2. Typed(Assigned(ts, lb)) BY AssignedTyped
<1>3. FieldsTyped(Assigned(ts, lb)) BY <1>2, HeadIs
<1>4. \A f \in DOMAIN Assigned(ts, lb) : f \in Fields \ {"op", "minor_op"}
  BY <1>3, ValuesAre DEF FieldsTyped
<1>5. \A f \in Fields \ {"op", "minor_op"} :
        parseTokens(ts, lb)[f] = IF f \in DOMAIN Assigned(ts, lb)
                                 THEN Assigned(ts, lb)[f] ELSE 0
  BY <1>2, HeadIs
<1>6. \A f \in DOMAIN Assigned(ts, lb) : Assigned(ts, lb)[f] # Bad
  BY <1>4, <1>5 DEF Rejected
<1>7. parseTokens(ts, lb) = [f \in Fields |-> parseTokens(ts, lb)[f]] BY DEF parseTokens
<1>8. /\ parseTokens(ts, lb).op = getOp(ts[1])
      /\ parseTokens(ts, lb).minor_op = getMinorOp(ts[1])
  BY <1>1, <1>2, HeadIs
<1> QED BY <1>4, <1>5, <1>6, <1>7, <1>8

LEMMA NumeralsAre ==
  /\ Doc!Numerals = {w \in DOMAIN Stoi : Stoi[w] \in Immediates}
  /\ \A w : parseImm(w) = IF Look(Stoi, w) \in Immediates THEN Look(Stoi, w) ELSE Bad
<1>1. Doc!Numerals = {w \in DOMAIN Stoi : Stoi[w] \in Immediates}
  BY SMT DEF Doc!Numerals, Immediates
<1>2. ASSUME NEW v PROVE UpTo(v, 65535) = IF v \in Immediates THEN v ELSE Bad
  BY SMT DEF UpTo, Immediates
<1>3. ASSUME NEW w
      PROVE  parseImm(w) = IF Look(Stoi, w) \in Immediates THEN Look(Stoi, w) ELSE Bad
  <2>1. parseImm(w) = UpTo(Look(Stoi, w), 65535) BY SMT DEF parseImm
  <2> QED BY <1>2, <2>1, SMT
<1> QED BY <1>1, <1>3

\* A label or a numeral is parsed to the address it documents.
LEMMA TargetIs ==
  ASSUME NEW lb, NEW w \in Doc!Target(lb)
  PROVE  parseTarget(lb, w) = Doc!Destination(lb, w)
<1>1. CASE w \in DOMAIN lb BY <1>1 DEF parseTarget, Doc!Destination
<1>2. CASE w \notin DOMAIN lb
  <2>1. w \in DOMAIN Stoi /\ Stoi[w] \in Immediates
    BY <1>2, NumeralsAre DEF Doc!Target
  <2>2. parseImm(w) = Stoi[w] BY <2>1, NumeralsAre DEF Look
  <2> QED BY <1>2, <2>2 DEF parseTarget, Doc!Destination
<1> QED BY <1>1, <1>2

BranchWords == {"bi", "beq", "bne", "blt", "ble", "bgt", "bge", "bz", "bnz", "bf", "bfz", "bqr"}
LEMMA BranchTarget ==
  ASSUME NEW ts \in Seq(STRING), NEW lb, lb \in [DOMAIN lb -> Immediates],
         Doc!Documented(ts, lb), ~Rejected(parseTokens(ts, lb)), ts[1] \in BranchWords
  PROVE  parseTokens(ts, lb).imm = Doc!Destination(lb, ts[Len(ts)])
<1>1. Len(ts) \in Nat \ {0} BY Forms
<1>2. ASSUME ts \in Doc!Pushes PROVE ts[1] = "pushq" BY <1>2 DEF Doc!Pushes
<1>3. Ordinary(ts, lb)
  BY <1>2, Forms DEF BranchWords, NextState, Waits, Commands
<1>4. ts[Len(ts)] \in Doc!Target(lb) /\ Len(ts) \in {2, 3, 4}
  BY <1>1, <1>3, OrdinaryForms DEF BranchWords
<1>5. Assigned(ts, lb) = parseBranch(ts, lb)
  <2>1. getOp(ts[1]) = 1 BY OpWords DEF BranchWords, MinorBranch
  <2> QED BY <1>1, <2>1, AtIs DEF Assigned, Op
<1>6. "imm" \in DOMAIN parseBranch(ts, lb)
      /\ parseBranch(ts, lb).imm = parseTarget(lb, ts[Len(ts)])
  <2>1. CASE Len(ts) = 2 BY <2>1 DEF parseBranch
  <2>2. CASE Len(ts) = 3 BY <2>2 DEF parseBranch
  <2>3. CASE Len(ts) = 4 BY <2>3 DEF parseBranch
  <2> QED BY <1>4, <2>1, <2>2, <2>3
<1>7. "imm" \in Fields \ {"op", "minor_op"} BY ValuesAre DEF Values
<1>8. parseTokens(ts, lb).imm = parseTarget(lb, ts[Len(ts)])
  BY <1>1, <1>5, <1>6, <1>7, Parsed
<1> QED BY <1>4, <1>8, TargetIs

\* The codes of every mnemonic.
LEMMA Codes ==
  /\ \A n \in {"add", "inc"} : getOp(n) = 0 /\ getMinorOp(n) = 0
  /\ \A n \in {"sub", "dec"} : getOp(n) = 0 /\ getMinorOp(n) = 1
  /\ \A n \in {"bi"} : getOp(n) = 1 /\ getMinorOp(n) = 7
  /\ \A n \in {"beq", "bz", "bf", "bfz", "bqr"} : getOp(n) = 1 /\ getMinorOp(n) = 2
  /\ \A n \in {"bne", "bnz"} : getOp(n) = 1 /\ getMinorOp(n) = 3
  /\ \A n \in {"blt", "bgt"} : getOp(n) = 1 /\ getMinorOp(n) = 4
  /\ \A n \in {"ble", "bge"} : getOp(n) = 1 /\ getMinorOp(n) = 5
  /\ \A n \in {"mov"} : getOp(n) = 2 /\ getMinorOp(n) = 0
  /\ \A n \in {"movi"} : getOp(n) = 2 /\ getMinorOp(n) = 1
  /\ \A n \in {"sf", "sfz"} : getOp(n) = 2 /\ getMinorOp(n) = 1
  /\ \A n \in {"rdp"} : getOp(n) = 4 /\ getMinorOp(n) = 0
  /\ \A n \in {"rdw"} : getOp(n) = 4 /\ getMinorOp(n) = 1
  /\ \A n \in {"rde"} : getOp(n) = 4 /\ getMinorOp(n) = 2
  /\ \A n \in {"wdp"} : getOp(n) = 5 /\ getMinorOp(n) = 0
  /\ \A n \in {"wde"} : getOp(n) = 5 /\ getMinorOp(n) = 1
  /\ \A n \in {"wds"} : getOp(n) = 5 /\ getMinorOp(n) = 2
  /\ \A n \in {"gad"} : getOp(n) = 6 /\ getMinorOp(n) = 0
  /\ \A n \in {"stall"} : getOp(n) = 6 /\ getMinorOp(n) = 7
  /\ \A n \in {"wfq"} : getOp(n) = 7 /\ getMinorOp(n) = 0
  /\ \A n \in {"pushq"} : getOp(n) = 7 /\ getMinorOp(n) = 1
  /\ \A n \in {"popq"} : getOp(n) = 7 /\ getMinorOp(n) = 2
<1>1. ASSUME NEW n \in {"add", "inc"} PROVE getOp(n) = 0 /\ getMinorOp(n) = 0
  BY DEF getOp, Op, getMinorOp, MinorAlu, MinorBranch, MinorMov, MinorFlag, MinorReadDir,
         MinorWriteDir, MinorMisc, MinorQueue
<1>2. ASSUME NEW n \in {"sub", "dec"} PROVE getOp(n) = 0 /\ getMinorOp(n) = 1
  BY DEF getOp, Op, getMinorOp, MinorAlu, MinorBranch, MinorMov, MinorFlag, MinorReadDir,
         MinorWriteDir, MinorMisc, MinorQueue
<1>3. ASSUME NEW n \in {"bi"} PROVE getOp(n) = 1 /\ getMinorOp(n) = 7
  BY DEF getOp, Op, getMinorOp, MinorAlu, MinorBranch, MinorMov, MinorFlag, MinorReadDir,
         MinorWriteDir, MinorMisc, MinorQueue
<1>4. ASSUME NEW n \in {"beq", "bz", "bf", "bfz", "bqr"} PROVE getOp(n) = 1 /\ getMinorOp(n) = 2
  BY DEF getOp, Op, getMinorOp, MinorAlu, MinorBranch, MinorMov, MinorFlag, MinorReadDir,
         MinorWriteDir, MinorMisc, MinorQueue
<1>5. ASSUME NEW n \in {"bne", "bnz"} PROVE getOp(n) = 1 /\ getMinorOp(n) = 3
  BY DEF getOp, Op, getMinorOp, MinorAlu, MinorBranch, MinorMov, MinorFlag, MinorReadDir,
         MinorWriteDir, MinorMisc, MinorQueue
<1>6. ASSUME NEW n \in {"blt", "bgt"} PROVE getOp(n) = 1 /\ getMinorOp(n) = 4
  BY DEF getOp, Op, getMinorOp, MinorAlu, MinorBranch, MinorMov, MinorFlag, MinorReadDir,
         MinorWriteDir, MinorMisc, MinorQueue
<1>7. ASSUME NEW n \in {"ble", "bge"} PROVE getOp(n) = 1 /\ getMinorOp(n) = 5
  BY DEF getOp, Op, getMinorOp, MinorAlu, MinorBranch, MinorMov, MinorFlag, MinorReadDir,
         MinorWriteDir, MinorMisc, MinorQueue
<1>8. ASSUME NEW n \in {"mov"} PROVE getOp(n) = 2 /\ getMinorOp(n) = 0
  BY DEF getOp, Op, getMinorOp, MinorAlu, MinorBranch, MinorMov, MinorFlag, MinorReadDir,
         MinorWriteDir, MinorMisc, MinorQueue
<1>9. ASSUME NEW n \in {"movi"} PROVE getOp(n) = 2 /\ getMinorOp(n) = 1
  BY DEF getOp, Op, getMinorOp, MinorAlu, MinorBranch, MinorMov, MinorFlag, MinorReadDir,
         MinorWriteDir, MinorMisc, MinorQueue
<1>10. ASSUME NEW n \in {"sf", "sfz"} PROVE getOp(n) = 2 /\ getMinorOp(n) = 1
  BY DEF getOp, Op, getMinorOp, MinorAlu, MinorBranch, MinorMov, MinorFlag, MinorReadDir,
         MinorWriteDir, MinorMisc, MinorQueue
<1>11. ASSUME NEW n \in {"rdp"} PROVE getOp(n) = 4 /\ getMinorOp(n) = 0
  BY DEF getOp, Op, getMinorOp, MinorAlu, MinorBranch, MinorMov, MinorFlag, MinorReadDir,
         MinorWriteDir, MinorMisc, MinorQueue
<1>12. ASSUME NEW n \in {"rdw"} PROVE getOp(n) = 4 /\ getMinorOp(n) = 1
  BY DEF getOp, Op, getMinorOp, MinorAlu, MinorBranch, MinorMov, MinorFlag, MinorReadDir,
         MinorWriteDir, MinorMisc, MinorQueue
<1>13. ASSUME NEW n \in {"rde"} PROVE getOp(n) = 4 /\ getMinorOp(n) = 2
  BY DEF getOp, Op, getMinorOp, MinorAlu, MinorBranch, MinorMov, MinorFlag, MinorReadDir,
         MinorWriteDir, MinorMisc, MinorQueue
<1>14. ASSUME NEW n \in {"wdp"} PROVE getOp(n) = 5 /\ getMinorOp(n) = 0
  BY DEF getOp, Op, getMinorOp, MinorAlu, MinorBranch, MinorMov, MinorFlag, MinorReadDir,
         MinorWriteDir, MinorMisc, MinorQueue
<1>15. ASSUME NEW n \in {"wde"} PROVE getOp(n) = 5 /\ getMinorOp(n) = 1
  BY DEF getOp, Op, getMinorOp, MinorAlu, MinorBranch, MinorMov, MinorFlag, MinorReadDir,
         MinorWriteDir, MinorMisc, MinorQueue
<1>16. ASSUME NEW n \in {"wds"} PROVE getOp(n) = 5 /\ getMinorOp(n) = 2
  BY DEF getOp, Op, getMinorOp, MinorAlu, MinorBranch, MinorMov, MinorFlag, MinorReadDir,
         MinorWriteDir, MinorMisc, MinorQueue
<1>17. ASSUME NEW n \in {"gad"} PROVE getOp(n) = 6 /\ getMinorOp(n) = 0
  BY DEF getOp, Op, getMinorOp, MinorAlu, MinorBranch, MinorMov, MinorFlag, MinorReadDir,
         MinorWriteDir, MinorMisc, MinorQueue
<1>18. ASSUME NEW n \in {"stall"} PROVE getOp(n) = 6 /\ getMinorOp(n) = 7
  BY DEF getOp, Op, getMinorOp, MinorAlu, MinorBranch, MinorMov, MinorFlag, MinorReadDir,
         MinorWriteDir, MinorMisc, MinorQueue
<1>19. ASSUME NEW n \in {"wfq"} PROVE getOp(n) = 7 /\ getMinorOp(n) = 0
  BY DEF getOp, Op, getMinorOp, MinorAlu, MinorBranch, MinorMov, MinorFlag, MinorReadDir,
         MinorWriteDir, MinorMisc, MinorQueue
<1>20. ASSUME NEW n \in {"pushq"} PROVE getOp(n) = 7 /\ getMinorOp(n) = 1
  BY DEF getOp, Op, getMinorOp, MinorAlu, MinorBranch, MinorMov, MinorFlag, MinorReadDir,
         MinorWriteDir, MinorMisc, MinorQueue
<1>21. ASSUME NEW n \in {"popq"} PROVE getOp(n) = 7 /\ getMinorOp(n) = 2
  BY DEF getOp, Op, getMinorOp, MinorAlu, MinorBranch, MinorMov, MinorFlag, MinorReadDir,
         MinorWriteDir, MinorMisc, MinorQueue
<1> QED BY <1>1, <1>2, <1>3, <1>4, <1>5, <1>6, <1>7, <1>8, <1>9, <1>10, <1>11, <1>12,
    <1>13, <1>14, <1>15, <1>16, <1>17, <1>18, <1>19, <1>20, <1>21, Zenon

\* What they say about stalls and branches.
LEMMA MnemonicCodes ==
  /\ getOp("stall") = 6 /\ getMinorOp("stall") = 7
  /\ getOp("bi") = 1 /\ getMinorOp("bi") = 7
  /\ \A n \in BranchWords : getOp(n) = 1
  /\ \A n \in BranchWords \ {"bi"} : getMinorOp(n) \in {2, 3, 4, 5}
  /\ \A n \in {"wfq", "pushq"} : getOp(n) = 7
  /\ \A n \in Doc!Mnemonics \ (BranchWords \cup {"stall"}) :
       /\ getOp(n) # 1 /\ ~ (getOp(n) = 6 /\ getMinorOp(n) = 7)
       /\ getOp(n) = 7 => getMinorOp(n) = 2
       /\ getOp(n) = 0 => getMinorOp(n) \in {0, 1}
<1>1. /\ getOp("stall") = 6 /\ getMinorOp("stall") = 7
      /\ getOp("bi") = 1 /\ getMinorOp("bi") = 7
      /\ \A n \in {"wfq", "pushq"} : getOp(n) = 7
  BY Codes
<1>2. \A n \in BranchWords : getOp(n) = 1 BY Codes DEF BranchWords
<1>3. \A n \in BranchWords \ {"bi"} : getMinorOp(n) \in {2, 3, 4, 5}
  BY Codes DEF BranchWords
<1>4. \A n \in {"add", "sub", "inc", "dec"} : getOp(n) = 0 /\ getMinorOp(n) \in {0, 1}
  BY Codes
<1>5. /\ \A n \in {"mov", "movi", "sf", "sfz"} : getOp(n) = 2
      /\ \A n \in {"rdp", "rdw", "rde"} : getOp(n) = 4
      /\ \A n \in {"wdp", "wde", "wds"} : getOp(n) = 5
      /\ getOp("gad") = 6 /\ getMinorOp("gad") = 0
      /\ getOp("popq") = 7 /\ getMinorOp("popq") = 2
  BY Codes
<1>6. ASSUME NEW n \in Doc!Mnemonics \ (BranchWords \cup {"stall"})
      PROVE  n \in {"add", "sub", "inc", "dec", "mov", "movi", "sf", "sfz", "rdp", "rdw",
                    "rde", "wdp", "wde", "wds", "gad", "popq"}
  BY DEF Doc!Mnemonics, Doc!Compares, BranchWords
<1>7. ASSUME NEW n \in Doc!Mnemonics \ (BranchWords \cup {"stall"})
      PROVE  /\ getOp(n) # 1 /\ ~ (getOp(n) = 6 /\ getMinorOp(n) = 7)
             /\ getOp(n) = 7 => getMinorOp(n) = 2
             /\ getOp(n) = 0 => getMinorOp(n) \in {0, 1}
  BY <1>4, <1>5, <1>6
<1> QED BY <1>1, <1>2, <1>3, <1>7

LEMMA DecodeHead ==
  ASSUME NEW i, NEW ready
  PROVE  /\ Decode(i, ready).alu_v = Bool(i.op = Op.alu \/ i.op = Op.branch)
         /\ Decode(i, ready).minor_op = i.minor_op
BY DEF Decode

(* How decode and the ALU may answer to a documented statement, once it is *)
(* assembled: stall holds the PC for good, bi is taken, a conditional      *)
(* branch may be, wfq and pushq may wait, and no other statement does      *)
(* either.                                                                 *)
LEMMA StatementAnswers ==
  ASSUME NEW ts \in Seq(STRING), NEW lb, lb \in [DOMAIN lb -> Immediates],
         Doc!Documented(ts, lb), ~Rejected(parseTokens(ts, lb)),
         NEW word, word # Unknown, Unpack(word) = parseTokens(ts, lb)
  PROVE  /\ ts[1] = "stall" => Stalls(word) = {TRUE}
         /\ ts[1] \notin {"stall", "wfq", "pushq"} => Stalls(word) = {FALSE}
         /\ ts[1] = "bi" => Takes(word, TRUE) = {TRUE}
         /\ ts[1] \notin BranchWords => Takes(word, TRUE) = {FALSE}
<1> DEFINE i == Unpack(word)
<1>1. Len(ts) \in Nat \ {0} BY Forms
<1>2. i.op = getOp(ts[1]) /\ i.minor_op = getMinorOp(ts[1]) BY <1>1, Parsed
<1>3. ts[1] \in Doc!Mnemonics \cup {"wfq", "pushq"}
  <2>1. ASSUME ts \in Doc!Pushes PROVE ts[1] = "pushq" BY <2>1 DEF Doc!Pushes
  <2>2. "movi" \in Doc!Mnemonics BY DEF Doc!Mnemonics
  <2> QED BY <2>1, <2>2, Forms DEF Ordinary, NextState, Waits, Commands
<1> HIDE DEF i
<1>4. /\ ts[1] = "stall" => i.op = 6 /\ i.minor_op = 7
      /\ ts[1] = "bi" => i.op = 1 /\ i.minor_op = 7
      /\ ts[1] \in BranchWords => i.op = 1
      /\ ts[1] \in {"wfq", "pushq"} => i.op = 7
      /\ ts[1] \notin BranchWords \cup {"stall", "wfq", "pushq"} =>
           /\ i.op # 1 /\ ~ (i.op = 6 /\ i.minor_op = 7)
           /\ i.op = 7 => i.minor_op = 2
           /\ i.op = 0 => i.minor_op \in {0, 1}
  BY <1>2, <1>3, MnemonicCodes
<1>5. ASSUME NEW valid, NEW ready
      PROVE  /\ ts[1] = "stall" => PcStall(i, valid, ready)
             /\ ts[1] \notin {"stall", "wfq", "pushq"} => ~PcStall(i, valid, ready)
  <2>1. ts[1] = "stall" => PcStall(i, valid, ready)
    BY <1>4 DEF PcStall, Is, Op, MinorMisc
  <2>2. ts[1] \notin {"stall", "wfq", "pushq"} => ~PcStall(i, valid, ready)
    <3>1. ASSUME ts[1] \notin {"stall", "wfq", "pushq"}
          PROVE  /\ ~Is(i, 6, 7) /\ ~Is(i, 7, 0) /\ ~Is(i, 7, 1)
      BY <1>4, <3>1 DEF Is
    <3>2. /\ Op.misc = 6 /\ MinorMisc.stall = 7 /\ Op.queue = 7
          /\ MinorQueue.wfq = 0 /\ MinorQueue.pushq = 1
      BY DEF Op, MinorMisc, MinorQueue
    <3> QED BY <3>1, <3>2 DEF PcStall
  <2> QED BY <2>1, <2>2
<1>6. Stalls(word) = {PcStall(i, DOMAIN SrcQ \ {"pending"}, DOMAIN DstQ),
                      PcStall(i, {}, {})}
  BY DEF Stalls, i
<1>7. \A valid, ready : PcStall(i, valid, ready) \in BOOLEAN BY Zenon DEF PcStall
<1>8. Takes(word, TRUE) = IF Decode(i, {}).alu_v = 1 /\ Decode(i, {}).minor_op = MinorBranch.bi
                          THEN {TRUE}
                          ELSE IF Decode(i, {}).alu_v = 1
                                  /\ Decode(i, {}).minor_op \in Conditional
                          THEN BOOLEAN ELSE {FALSE}
  BY DEF Takes, i
<1>9. Decode(i, {}).alu_v = Bool(i.op = 0 \/ i.op = 1) /\ Decode(i, {}).minor_op = i.minor_op
  BY DecodeHead DEF Op
<1>10. MinorBranch.bi = 7 /\ Conditional = {2, 3, 4, 5} BY DEF MinorBranch, Conditional
<1>11. ts[1] = "stall" => Stalls(word) = {TRUE} BY <1>5, <1>6, <1>7
<1>12. ts[1] \notin {"stall", "wfq", "pushq"} => Stalls(word) = {FALSE}
  BY <1>5, <1>6, <1>7
<1>13. ts[1] = "bi" => Takes(word, TRUE) = {TRUE}
  BY <1>4, <1>8, <1>9, <1>10 DEF Bool
<1>14. ASSUME ts[1] \notin BranchWords PROVE Takes(word, TRUE) = {FALSE}
  <2>1. \/ i.op \notin {0, 1}
        \/ i.op = 0 /\ i.minor_op \in {0, 1}
    BY <1>4, <1>14
  <2>2. CASE i.op \notin {0, 1}
    <3>1. Decode(i, {}).alu_v # 1 BY <1>9, <2>2 DEF Bool
    <3> QED BY <1>8, <3>1, Zenon
  <2>3. CASE i.op = 0 /\ i.minor_op \in {0, 1}
    <3>1. /\ Decode(i, {}).minor_op # MinorBranch.bi
          /\ Decode(i, {}).minor_op \notin Conditional
      BY <1>9, <1>10, <2>3
    <3> QED BY <1>8, <3>1, Zenon
  <2> QED BY <2>1, <2>2, <2>3
<1> QED BY <1>11, <1>12, <1>13, <1>14

LEMMA WordIsKnown == \A inst : Fits(inst) => Word(inst) # Unknown
<1> SUFFICES ASSUME NEW inst, Fits(inst) PROVE Word(inst) # Unknown OBVIOUS
<1>1. Len(Word(inst)) = Offset[33] + Layout[33][2] BY WordParts
<1>2. Offset[33] \in Nat /\ Layout[33][2] \in 1 .. 16 BY OffsetType, LayoutFacts
<1>3. Len(Word(inst)) # 0 BY <1>1, <1>2
<1>4. Len(Unknown) = 0 BY DEF Unknown
<1> QED BY <1>3, <1>4

-----------------------------------------------------------------------------
(* What a decoded instruction does, group of facts by group of facts.      *)

D(i) == Decode(i, DOMAIN DstQ)

LEMMA DecodeFields ==
  ASSUME NEW i
  PROVE  /\ D(i).minor_op = i.minor_op /\ D(i).src_a = i.src_a /\ D(i).src_b = i.src_b
         /\ D(i).dst = i.dst /\ D(i).imm = i.imm
         /\ D(i).flag_mask_w_v = i.flag_mask_w_v
         /\ D(i).req_w_v = i.req_w_v /\ D(i).req_addr_way_w_v = i.req_addr_way_w_v
         /\ D(i).lru_way_w_v = i.lru_way_w_v
         /\ D(i).transfer_lce_w_v = i.transfer_lce_w_v
         /\ D(i).cache_block_data_w_v = i.cache_block_data_w_v
         /\ D(i).ack_type_w_v = i.ack_type_w_v
BY DEF D, Decode
LEMMA DecodeSelects ==
  ASSUME NEW i
  PROVE  /\ D(i).req_sel = i.req_sel /\ D(i).req_addr_way_sel = i.req_addr_way_sel
         /\ D(i).lru_way_sel = i.lru_way_sel /\ D(i).transfer_lce_sel = i.transfer_lce_sel
         /\ D(i).cache_block_data_sel = i.cache_block_data_sel
         /\ D(i).rqf_sel = i.rqf_sel /\ D(i).nerldf_sel = i.nerldf_sel
         /\ D(i).nwbf_sel = i.nwbf_sel /\ D(i).tf_sel = i.tf_sel
         /\ D(i).pruief_sel = i.pruief_sel /\ D(i).rwbf_sel = i.rwbf_sel
         /\ D(i).dir_way_group_sel = i.dir_way_group_sel
         /\ D(i).dir_lce_sel = i.dir_lce_sel /\ D(i).dir_way_sel = i.dir_way_sel
         /\ D(i).dir_coh_state_sel = i.dir_coh_state_sel
         /\ D(i).dir_tag_sel = i.dir_tag_sel
         /\ D(i).lce_cmd_lce_sel = i.lce_cmd_lce_sel
         /\ D(i).lce_cmd_addr_sel = i.lce_cmd_addr_sel
         /\ D(i).lce_cmd_way_sel = i.lce_cmd_way_sel
         /\ D(i).mem_data_cmd_addr_sel = i.mem_data_cmd_addr_sel
BY DEF D, Decode
LEMMA DecodeEnables ==
  ASSUME NEW i
  PROVE  /\ D(i).alu_v = Bool(i.op = 0 \/ i.op = 1)
         /\ D(i).dir_r_v = Bool(i.op = 4) /\ D(i).dir_w_v = Bool(i.op = 5)
         /\ D(i).dir_r_cmd = IF i.op = 4 THEN i.minor_op ELSE 0
         /\ D(i).dir_w_cmd = IF i.op = 5 THEN i.minor_op ELSE 0
         /\ D(i).mov_dst_w_v = Bool(i.op = 2) /\ D(i).alu_dst_w_v = Bool(i.op = 0)
         /\ D(i).gpr_w_v = Bool((i.op = 2 \/ i.op = 0) /\ i.dst \in 0 .. 3)
         /\ D(i).gad_op_w_v = Bool(i.op = 6 /\ i.minor_op = 0)
         /\ D(i).lce_cmd_cmd = i.imm % 8
BY DEF D, Decode, Op, Is, MinorMisc
LEMMA DecodeQueues ==
  ASSUME NEW i
  PROVE  /\ D(i).lce_req_ready = Bool(Is(i, 7, 2) /\ PopSel(i) = 0)
         /\ D(i).mem_resp_ready = Bool(Is(i, 7, 2) /\ PopSel(i) = 1)
         /\ D(i).mem_data_resp_ready = Bool(Is(i, 7, 2) /\ PopSel(i) = 2)
         /\ D(i).lce_resp_ready = Bool(Is(i, 7, 2) /\ PopSel(i) = 4)
         /\ D(i).lce_data_resp_ready = Bool(Is(i, 7, 2) /\ PopSel(i) = 5)
         /\ D(i).lce_cmd_v = Bool(Is(i, 7, 1) /\ PushSel(i) = 0)
         /\ D(i).lce_data_cmd_v = Bool(Is(i, 7, 1) /\ PushSel(i) = 1)
         /\ D(i).mem_cmd_v = Bool(Is(i, 7, 1) /\ PushSel(i) = 2)
         /\ D(i).mem_data_cmd_v = Bool(Is(i, 7, 1) /\ PushSel(i) = 3)
BY DEF D, Decode, Op, MinorQueue, SrcQ, DstQ

LEMMA BoolIs == Bool(TRUE) = 1 /\ Bool(FALSE) = 0
BY DEF Bool

LEMMA NoBranch ==
  ASSUME NEW i, i.op \notin {0, 1} \/ (i.op = 0 /\ i.minor_op \in {0, 1})
  PROVE  BranchFacts(D(i)) = {}
<1>1. D(i).alu_v = Bool(i.op = 0 \/ i.op = 1) /\ D(i).minor_op = i.minor_op
  BY DecodeEnables, DecodeFields
<1>2. CASE i.op \notin {0, 1}
  <2>1. D(i).alu_v # 1 BY <1>1, <1>2 DEF Bool
  <2> QED BY <2>1, Zenon DEF BranchFacts
<1>3. CASE i.op = 0 /\ i.minor_op \in {0, 1}
  BY <1>1, <1>3 DEF BranchFacts, MinorBranch
<1> QED BY <1>2, <1>3

LEMMA NoWrite ==
  ASSUME NEW i, i.op \notin {0, 2} PROVE WriteFacts(D(i)) = {}
<1>1. /\ D(i).alu_dst_w_v = 0 /\ D(i).mov_dst_w_v = 0
      /\ D(i).gpr_w_v \in {0, 1}
  BY DecodeEnables DEF Bool
<1>2. ASSUME NEW b \in {0, 1} PROVE 0 * b = 0 BY <1>2
<1>3. ASSUME NEW b \in {0, 1} PROVE 0 * D(i).gpr_w_v * b = 0 BY <1>1, <1>2
<1>4. \A p : Bool(p) \in {0, 1} BY DEF Bool
<1>5. \A facts : When(0, facts) = {} BY DEF When
<1> QED BY <1>1, <1>2, <1>3, <1>4, <1>5 DEF WriteFacts

LEMMA NoFlags ==
  ASSUME NEW i, i.flag_mask_w_v = 0 PROVE FlagFacts(D(i)) = {}
<1>1. ASSUME NEW g \in FlagNames PROVE (0 \div Flag[g]) % 2 # 1
  <2>1. Flag[g] \in Nat \ {0}
    BY FlagNamesAre, FlagsAre DEF FlagSet, FlagValue
  <2>2. 0 \div Flag[g] = 0 BY <2>1
  <2> QED BY <2>2
<1>2. D(i).flag_mask_w_v = 0 BY DecodeFields
<1> QED BY <1>1, <1>2 DEF FlagFacts

LEMMA NoRegs ==
  ASSUME NEW i, i.req_w_v = 0, i.req_addr_way_w_v = 0, i.lru_way_w_v = 0,
         i.transfer_lce_w_v = 0, i.cache_block_data_w_v = 0, i.ack_type_w_v = 0,
         ~ (i.op = 6 /\ i.minor_op = 0)
  PROVE  RegFacts(D(i)) = {}
<1>1. \A facts : When(0, facts) = {} BY DEF When
<1>2. D(i).gad_op_w_v = 0 BY DecodeEnables DEF Bool
<1> QED BY <1>1, <1>2, DecodeFields DEF RegFacts

LEMMA NoDir ==
  ASSUME NEW i, i.op \notin {4, 5} PROVE DirFacts(D(i)) = {}
<1>1. \A facts : When(0, facts) = {} BY DEF When
<1>2. D(i).dir_r_v = 0 /\ D(i).dir_w_v = 0 BY DecodeEnables DEF Bool
<1> QED BY <1>1, <1>2, Zenon DEF DirFacts

LEMMA NoQueue ==
  ASSUME NEW i, ~Is(i, 7, 1), ~Is(i, 7, 2) PROVE QueueFacts(D(i)) = {}
<1>1. \A facts : When(0, facts) = {} BY DEF When
<1>2. /\ D(i).lce_req_ready = 0 /\ D(i).mem_resp_ready = 0
      /\ D(i).mem_data_resp_ready = 0 /\ D(i).lce_resp_ready = 0
      /\ D(i).lce_data_resp_ready = 0 /\ D(i).lce_cmd_v = 0 /\ D(i).lce_data_cmd_v = 0
      /\ D(i).mem_cmd_v = 0 /\ D(i).mem_data_cmd_v = 0
  BY DecodeQueues DEF Bool
<1> QED BY <1>1, <1>2 DEF QueueFacts

\* What an instruction does, with the parts that only two operations have.
LEMMA EffectsIs ==
  ASSUME NEW i
  PROVE  Effects(i) =
           BranchFacts(D(i)) \cup WriteFacts(D(i)) \cup FlagFacts(D(i)) \cup RegFacts(D(i))
           \cup DirFacts(D(i)) \cup QueueFacts(D(i))
           \cup (IF Is(i, 6, 7) THEN {<<"halt">>} ELSE {})
           \cup (IF Is(i, 7, 0)
                 THEN {<<"wait">>} \cup {<<"wait", q>> : q \in WfqMask(i)} ELSE {})
BY DEF Effects, D, Op, MinorMisc, MinorQueue

\* An instruction of another operation neither waits nor halts.
LEMMA EffectsOf ==
  ASSUME NEW i, i.op \notin {6, 7}
  PROVE  Effects(i) = BranchFacts(D(i)) \cup WriteFacts(D(i)) \cup FlagFacts(D(i))
                      \cup RegFacts(D(i)) \cup DirFacts(D(i))
<1>1. QueueFacts(D(i)) = {} BY NoQueue DEF Is
<1>2. ~Is(i, 6, 7) /\ ~Is(i, 7, 0) BY DEF Is
<1> QED BY <1>1, <1>2, EffectsIs

LEMMA NameIs ==
  ASSUME NEW table, NEW n \in DOMAIN table,
         \A m \in DOMAIN table : table[m] = table[n] => m = n
  PROVE  NameOf(table, table[n]) = n
BY DEF NameOf

\* Every enumerator of a table has its own code.
LEMMA Injective ==
  /\ \A a, b \in DOMAIN Gpr : Gpr[a] = Gpr[b] => a = b
  /\ \A a, b \in DOMAIN DirWgSel : DirWgSel[a] = DirWgSel[b] => a = b
  /\ \A a, b \in DOMAIN DirLceSel : DirLceSel[a] = DirLceSel[b] => a = b
  /\ \A a, b \in DOMAIN DirWaySel : DirWaySel[a] = DirWaySel[b] => a = b
  /\ \A a, b \in DOMAIN DirTagSel : DirTagSel[a] = DirTagSel[b] => a = b
  /\ \A a, b \in DOMAIN LceCmd : LceCmd[a] = LceCmd[b] => a = b
  /\ \A a, b \in DOMAIN LceCmdLce : LceCmdLce[a] = LceCmdLce[b] => a = b
  /\ \A a, b \in DOMAIN LceCmdAddr : LceCmdAddr[a] = LceCmdAddr[b] => a = b
  /\ \A a, b \in DOMAIN LceCmdWay : LceCmdWay[a] = LceCmdWay[b] => a = b
  /\ \A a, b \in DOMAIN MemDataCmdAddr : MemDataCmdAddr[a] = MemDataCmdAddr[b] => a = b
<1>1. \A a, b \in DOMAIN Gpr : Gpr[a] = Gpr[b] => a = b BY SMT DEF Gpr
<1>2. \A a, b \in DOMAIN DirWgSel : DirWgSel[a] = DirWgSel[b] => a = b BY SMT DEF DirWgSel
<1>3. \A a, b \in DOMAIN DirLceSel : DirLceSel[a] = DirLceSel[b] => a = b
  BY SMT DEF DirLceSel
<1>4. \A a, b \in DOMAIN DirWaySel : DirWaySel[a] = DirWaySel[b] => a = b
  BY SMT DEF DirWaySel
<1>5. \A a, b \in DOMAIN DirTagSel : DirTagSel[a] = DirTagSel[b] => a = b
  BY SMT DEF DirTagSel
<1>6. \A a, b \in DOMAIN LceCmd : LceCmd[a] = LceCmd[b] => a = b BY SMT DEF LceCmd
<1>7. \A a, b \in DOMAIN LceCmdLce : LceCmdLce[a] = LceCmdLce[b] => a = b
  BY SMT DEF LceCmdLce
<1>8. \A a, b \in DOMAIN LceCmdAddr : LceCmdAddr[a] = LceCmdAddr[b] => a = b
  BY SMT DEF LceCmdAddr
<1>9. \A a, b \in DOMAIN LceCmdWay : LceCmdWay[a] = LceCmdWay[b] => a = b
  BY SMT DEF LceCmdWay
<1>10. \A a, b \in DOMAIN MemDataCmdAddr : MemDataCmdAddr[a] = MemDataCmdAddr[b] => a = b
  BY SMT DEF MemDataCmdAddr
<1> QED BY <1>1, <1>2, <1>3, <1>4, <1>5, <1>6, <1>7, <1>8, <1>9, <1>10, Zenon
LEMMA SrcInjective == \A a, b \in DOMAIN Src : Src[a] = Src[b] => a = b
BY SMT DEF Src

\* What the operand muxes select for the code of a source.
LEMMA OperandIs ==
  /\ \A a \in DOMAIN Src \ {"const_0", "const_1", "pending_ready"} : Operand(Src[a]) = a
  /\ Operand(Src.const_0) = "0" /\ Operand(Src.const_1) = "1"
<1>1. ASSUME NEW a \in DOMAIN Src \ {"const_0", "const_1", "pending_ready"}
      PROVE  Operand(Src[a]) = a
  <2>1. Src[a] \notin {Src.const_0, Src.const_1, Src.pending_ready}
    <3>1. "const_0" \in DOMAIN Src /\ "const_1" \in DOMAIN Src /\ "pending_ready" \in DOMAIN Src
      BY DEF Src
    <3> QED BY <1>1, <3>1, SrcInjective, Zenon
  <2>2. NameOf(Src, Src[a]) = a BY <1>1, SrcInjective, NameIs, Zenon
  <2> QED BY <2>1, <2>2 DEF Operand
<1>2. Operand(Src.const_0) = "0" BY DEF Operand, Src
<1>3. Operand(Src.const_1) = "1" BY DEF Operand, Src
<1> QED BY <1>1, <1>2, <1>3

\* Operation, minor operation and the fields that are set, the others zero.
Fills(i, op, minor, r) ==
  /\ i.op = op /\ i.minor_op = minor
  /\ \A f \in Fields \ {"op", "minor_op"} : i[f] = IF f \in DOMAIN r THEN r[f] ELSE 0

LEMMA OtherFields ==
  /\ {"src_a", "src_b", "dst", "imm", "req_sel", "req_addr_way_sel", "lru_way_sel",
      "transfer_lce_sel", "cache_block_data_sel", "rqf_sel", "nerldf_sel", "nwbf_sel",
      "tf_sel", "pruief_sel", "rwbf_sel", "dir_way_group_sel", "dir_lce_sel",
      "dir_way_sel", "dir_coh_state_sel", "dir_tag_sel", "lce_cmd_lce_sel",
      "lce_cmd_addr_sel", "lce_cmd_way_sel", "mem_data_cmd_addr_sel", "req_w_v",
      "req_addr_way_w_v", "lru_way_w_v", "transfer_lce_w_v", "cache_block_data_w_v",
      "ack_type_w_v", "flag_mask_w_v"} = Fields \ {"op", "minor_op"}
BY ValuesAre DEF Values

\* An instruction that sets no enable bit writes no register but by its
\* destination, and no flag.
LEMMA NoEnables ==
  ASSUME NEW i, NEW op, NEW minor, NEW r, Fills(i, op, minor, r), op # 6,
         DOMAIN r \cap {"req_w_v", "req_addr_way_w_v", "lru_way_w_v", "transfer_lce_w_v",
                        "cache_block_data_w_v", "ack_type_w_v"} = {}
  PROVE  /\ RegFacts(D(i)) = {}
         /\ "flag_mask_w_v" \notin DOMAIN r => FlagFacts(D(i)) = {}
<1>1. /\ i.req_w_v = 0 /\ i.req_addr_way_w_v = 0 /\ i.lru_way_w_v = 0
      /\ i.transfer_lce_w_v = 0 /\ i.cache_block_data_w_v = 0 /\ i.ack_type_w_v = 0
  BY OtherFields DEF Fills
<1>2. i.op # 6 BY DEF Fills
<1>3. RegFacts(D(i)) = {} BY <1>1, <1>2, NoRegs
<1>4. ASSUME "flag_mask_w_v" \notin DOMAIN r PROVE FlagFacts(D(i)) = {}
  <2>1. i.flag_mask_w_v = 0 BY <1>4, OtherFields DEF Fills
  <2> QED BY <2>1, NoFlags
<1> QED BY <1>3, <1>4

LEMMA AluEffects ==
  ASSUME NEW i, NEW m \in {0, 1}, NEW a \in DOMAIN Gpr,
         NEW b \in DOMAIN Gpr \cup {"const_1"},
         NEW c \in DOMAIN Gpr,
         Fills(i, 0, m, [src_a |-> Src[a], src_b |-> Src[b], dst |-> Gpr[c]])
  PROVE  Effects(i) = {<<"write", c, IF m = 0 THEN "add" ELSE "sub", a,
                         IF b = "const_1" THEN "1" ELSE b>>}
<1>1. i.op = 0 /\ i.minor_op = m /\ i.src_a = Src[a] /\ i.src_b = Src[b] /\ i.dst = Gpr[c]
  BY OtherFields DEF Fills
<1>2. RegFacts(D(i)) = {} /\ FlagFacts(D(i)) = {}
  BY NoEnables
<1>3. BranchFacts(D(i)) = {} /\ DirFacts(D(i)) = {} BY <1>1, NoBranch, NoDir
<1>4. Gpr[c] \in 0 .. 3 BY DEF Gpr
<1>5. D(i).alu_dst_w_v = 1 /\ D(i).gpr_w_v = 1 /\ D(i).mov_dst_w_v = 0
  BY <1>1, <1>4, DecodeEnables DEF Bool
<1>6. OperandA(D(i)) = a /\ OperandB(D(i)) = IF b = "const_1" THEN "1" ELSE b
  <2>1. a \in DOMAIN Src \ {"const_0", "const_1", "pending_ready"}
        /\ (b = "const_1" \/ b \in DOMAIN Src \ {"const_0", "const_1", "pending_ready"})
    BY DEF Src, Gpr
  <2>2. Src[b] \notin LateReady BY DEF LateReady, Src, Gpr
  <2>3. D(i).src_a = Src[a] /\ D(i).src_b = Src[b] BY <1>1, DecodeFields
  <2>4. Operand(Src[a]) = a BY <2>1, OperandIs
  <2>5. Operand(Src[b]) = IF b = "const_1" THEN "1" ELSE b BY <2>1, OperandIs
  <2> QED BY <2>2, <2>3, <2>4, <2>5 DEF OperandA, OperandB
<1>7. NameOf(Gpr, D(i).dst) = c /\ D(i).minor_op = m /\ D(i).dst # Dst.next_coh_state
  <2>1. NameOf(Gpr, Gpr[c]) = c BY Injective, NameIs, Zenon
  <2>2. Dst.next_coh_state = 16 BY DEF Dst
  <2> QED BY <1>1, <1>4, <2>1, <2>2, DecodeFields
<1>8. WriteFacts(D(i)) = {<<"write", c, IF m = 0 THEN "add" ELSE "sub", a,
                           IF b = "const_1" THEN "1" ELSE b>>}
  <2>1. \A facts : When(0, facts) = {} /\ When(1, facts) = facts BY DEF When
  <2>2. \A p : 0 * 1 * Bool(p) = 0 /\ 0 * Bool(p) = 0 BY DEF Bool
  <2>3. 1 * 1 = 1 OBVIOUS
  <2>4. D(i).minor_op = 0 \/ D(i).minor_op = 1 BY <1>7
  <2> QED BY <1>5, <1>6, <1>7, <2>1, <2>2, <2>3, <2>4 DEF WriteFacts, MinorAlu
<1> QED BY <1>1, <1>2, <1>3, <1>8, EffectsOf

LEMMA Filled ==
  ASSUME NEW ts, NEW lb, lb \in [DOMAIN lb -> Immediates], Len(ts) \in Nat \ {0},
         ~Rejected(parseTokens(ts, lb))
  PROVE  Fills(parseTokens(ts, lb), getOp(ts[1]), getMinorOp(ts[1]), Assigned(ts, lb))
BY Parsed DEF Fills

LEMMA AssignedIs ==
  ASSUME NEW ts, NEW lb, Len(ts) \in Nat \ {0}
  PROVE  /\ getOp(ts[1]) = 0 => Assigned(ts, lb) = parseALU(ts)
         /\ getOp(ts[1]) = 1 => Assigned(ts, lb) = parseBranch(ts, lb)
         /\ getOp(ts[1]) = 2 => Assigned(ts, lb) = parseMove(ts)
         /\ getOp(ts[1]) = 4 => Assigned(ts, lb) = parseReadDir(ts)
         /\ getOp(ts[1]) = 5 => Assigned(ts, lb) = parseWriteDir(ts)
         /\ getOp(ts[1]) = 6 => Assigned(ts, lb) = parseMisc(ts)
         /\ getOp(ts[1]) = 7 => Assigned(ts, lb) = parseQueue(ts)
<1>1. At(ts, 0) = ts[1] BY AtIs
<1> QED BY <1>1, SMT DEF Assigned, Op

\* The codes of the general registers, wherever they are looked up.
LEMMA RegisterCodes ==
  ASSUME NEW w \in DOMAIN Doc!Gpr
  PROVE  /\ w \in DOMAIN Gpr /\ Doc!Gpr[w] = w
         /\ parseSrcOpd(w) = Src[w] /\ parseDstOpd(w) = Gpr[w]
BY FlagNamesAre DEF Doc!Gpr, Gpr, Gprs, parseSrcOpd, parseDstOpd, Dst

\* The arithmetic statements do what inst.txt says.
LEMMA AluMeans ==
  ASSUME NEW ts, NEW lb, lb \in [DOMAIN lb -> Immediates], Len(ts) \in Nat \ {0},
         Head(ts) = ts[1], Ordinary(ts, lb), ts[1] \in {"add", "sub", "inc", "dec"},
         ~Rejected(parseTokens(ts, lb))
  PROVE  Effects(parseTokens(ts, lb)) = Doc!Meaning(ts, lb)
<1> DEFINE i == parseTokens(ts, lb)
           m == IF ts[1] \in {"add", "inc"} THEN 0 ELSE 1
<1>1. Fills(i, 0, m, parseALU(ts))
  <2>1. getOp(ts[1]) = 0 /\ getMinorOp(ts[1]) = m BY Codes
  <2> QED BY <2>1, Filled, AssignedIs
<1> HIDE DEF i
<1>2. CASE ts[1] \in {"add", "sub"}
  <2>1. Len(ts) = 4 /\ ts[2] \in DOMAIN Doc!Gpr /\ ts[3] \in DOMAIN Doc!Gpr
        /\ ts[4] \in DOMAIN Doc!Gpr
    BY <1>2, OrdinaryForms
  <2>2. parseALU(ts) = [src_a |-> Src[ts[2]], src_b |-> Src[ts[3]], dst |-> Gpr[ts[4]]]
    BY <2>1, RegisterCodes DEF parseALU
  <2>3. Effects(i) = {<<"write", ts[4], IF m = 0 THEN "add" ELSE "sub", ts[2], ts[3]>>}
    <3>1. /\ ts[2] \in DOMAIN Gpr /\ ts[3] \in DOMAIN Gpr /\ ts[4] \in DOMAIN Gpr
          /\ ts[3] # "const_1"
      BY <2>1, RegisterCodes DEF Gpr
    <3>2. m \in {0, 1} OBVIOUS
    <3> HIDE DEF m
    <3> QED BY <1>1, <2>2, <3>1, <3>2, AluEffects
  <2>4. Doc!Meaning(ts, lb) = {<<"write", ts[4], ts[1], ts[2], ts[3]>>}
    BY <1>2 DEF Doc!Meaning, Doc!Compares, Doc!Against
  <2> QED BY <1>2, <2>3, <2>4 DEF i
<1>3. CASE ts[1] \in {"inc", "dec"}
  <2>1. Len(ts) = 2 /\ ts[2] \in DOMAIN Doc!Gpr BY <1>3, OrdinaryForms
  <2>2. parseALU(ts) = [src_a |-> Src[ts[2]], src_b |-> Src["const_1"], dst |-> Gpr[ts[2]]]
    BY <2>1, RegisterCodes DEF parseALU
  <2>3. Effects(i) = {<<"write", ts[2], IF m = 0 THEN "add" ELSE "sub", ts[2], "1">>}
    <3>1. ts[2] \in DOMAIN Gpr BY <2>1, RegisterCodes
    <3>2. m \in {0, 1} OBVIOUS
    <3> HIDE DEF m
    <3> QED BY <1>1, <2>2, <3>1, <3>2, AluEffects
  <2>4. Doc!Meaning(ts, lb) =
          {<<"write", ts[2], IF ts[1] = "inc" THEN "add" ELSE "sub", ts[2], "1">>}
    BY <1>3 DEF Doc!Meaning, Doc!Compares, Doc!Against
  <2> QED BY <1>3, <2>3, <2>4 DEF i
<1> QED BY <1>2, <1>3

\* A source operand reaches the ALU as what it documents.
LEMMA SourceOperand ==
  ASSUME NEW w
  PROVE  /\ w \in DOMAIN Doc!Source => Operand(parseSrcOpd(w)) = Doc!Source[w]
         /\ w \in Doc!FlagNames => Operand(parseSrcOpd(w)) = w
         /\ w \in DOMAIN Doc!Queue \ {"pending"} => Operand(parseSrcOpd(w)) = Doc!Ready[w]
         /\ w \in DOMAIN Doc!Source => parseSrcOpd(w) \notin LateReady
<1>1. ASSUME w \in DOMAIN Doc!Source
      PROVE  /\ Doc!Source[w] \in DOMAIN Src \ {"const_0", "const_1", "pending_ready"}
             /\ parseSrcOpd(w) = Src[Doc!Source[w]]
             /\ parseSrcOpd(w) \notin LateReady
  BY <1>1, FlagNamesAre, SMT
     DEF Doc!Source, parseSrcOpd, Src, Gprs, Gpr, FlagSet, LateReady
<1>2. ASSUME w \in Doc!FlagNames
      PROVE  /\ w \in DOMAIN Src \ {"const_0", "const_1", "pending_ready"}
             /\ parseSrcOpd(w) = Src[w]
  BY <1>2, FlagNamesAre, SMT DEF Doc!FlagNames, parseSrcOpd, Src, Gprs, Gpr, FlagSet
<1>3. ASSUME w \in DOMAIN Doc!Queue \ {"pending"}
      PROVE  /\ Doc!Ready[w] \in DOMAIN Src \ {"const_0", "const_1", "pending_ready"}
             /\ parseSrcOpd(w) = Src[Doc!Ready[w]]
  BY <1>3, FlagNamesAre, SMT
     DEF Doc!Queue, Doc!Ready, parseSrcOpd, Src, Gprs, Gpr, FlagSet
<1> QED BY <1>1, <1>2, <1>3, OperandIs, Zenon

\* The comparison of a minor operation.
Relation == [m \in 2 .. 5 |-> CASE m = 2 -> "=" [] m = 3 -> "#" [] m = 4 -> "<" [] m = 5 -> "<="]

LEMMA BranchFactsAre ==
  ASSUME NEW d, NEW m \in 2 .. 5, NEW a, NEW b, d.alu_v = 1, d.minor_op = m,
         OperandA(d) = a, OperandB(d) = b
  PROVE  BranchFacts(d) = Doc!Branch(a, Relation[m], b, d.imm)
<1> DEFINE rel == CASE m = 2 -> "e" [] m = 3 -> "n" [] m = 4 -> "l" [] m = 5 -> "le"
<1>1. \A r : Compare(a, r, b) # {} BY DEF Compare
<1>2. BranchFacts(d) = Compare(a, rel, b) \cup {<<"target", d.imm>>}
  <2>1. CASE m = 2 BY <1>1, <2>1, SMT DEF BranchFacts, MinorBranch
  <2>2. CASE m = 3 BY <1>1, <2>2, SMT DEF BranchFacts, MinorBranch
  <2>3. CASE m = 4 BY <1>1, <2>3, SMT DEF BranchFacts, MinorBranch
  <2>4. CASE m = 5 BY <1>1, <2>4, SMT DEF BranchFacts, MinorBranch
  <2> QED BY <2>1, <2>2, <2>3, <2>4
<1>3. CASE m = 2 BY <1>2, <1>3, SMT DEF Compare, Relation, Doc!Branch, Doc!Mirror
<1>4. CASE m = 3 BY <1>2, <1>4, SMT DEF Compare, Relation, Doc!Branch, Doc!Mirror
<1>5. CASE m = 4 BY <1>2, <1>5, SMT DEF Compare, Relation, Doc!Branch, Doc!Mirror
<1>6. CASE m = 5 BY <1>2, <1>6, SMT DEF Compare, Relation, Doc!Branch, Doc!Mirror
<1> QED BY <1>3, <1>4, <1>5, <1>6

LEMMA BranchAlways ==
  ASSUME NEW d, d.alu_v = 1, d.minor_op = 7
  PROVE  BranchFacts(d) = {<<"taken", "always">>, <<"target", d.imm>>}
<1> DEFINE a == OperandA(d)
           b == OperandB(d)
           test == CASE d.minor_op = MinorBranch.beq -> Compare(a, "e", b)
                     [] d.minor_op = MinorBranch.bne -> Compare(a, "n", b)
                     [] d.minor_op = MinorBranch.blt -> Compare(a, "l", b)
                     [] d.minor_op = MinorBranch.ble -> Compare(a, "le", b)
                     [] d.minor_op = MinorBranch.bi -> {<<"taken", "always">>}
                     [] OTHER -> {}
<1>1. BranchFacts(d) =
        IF d.alu_v = 1 /\ test # {} THEN test \cup {<<"target", d.imm>>} ELSE {}
  BY Zenon DEF BranchFacts
<1>2. test = {<<"taken", "always">>} BY SMT DEF MinorBranch
<1> HIDE DEF test
<1>3. test # {} BY <1>2
<1> QED BY <1>1, <1>2, <1>3

LEMMA BranchEffects ==
  ASSUME NEW i, NEW t
  PROVE  /\ Fills(i, 1, 7, [imm |-> t])
            => Effects(i) = {<<"taken", "always">>, <<"target", t>>}
         /\ \A m \in 2 .. 5 : \A x, y :
              /\ Fills(i, 1, m, [src_a |-> x, src_b |-> y, imm |-> t])
              /\ y \notin LateReady
              => Effects(i) = Doc!Branch(Operand(x), Relation[m], Operand(y), t)
<1>1. ASSUME NEW m, NEW r, Fills(i, 1, m, r),
             DOMAIN r \subseteq {"src_a", "src_b", "imm"}
      PROVE  Effects(i) = BranchFacts(D(i))
  <2>1. RegFacts(D(i)) = {} /\ FlagFacts(D(i)) = {} BY <1>1, NoEnables
  <2>2. i.op = 1 BY <1>1 DEF Fills
  <2>3. WriteFacts(D(i)) = {} /\ DirFacts(D(i)) = {} BY <2>2, NoWrite, NoDir
  <2> QED BY <2>1, <2>2, <2>3, EffectsOf
<1>2. ASSUME Fills(i, 1, 7, [imm |-> t])
      PROVE  Effects(i) = {<<"taken", "always">>, <<"target", t>>}
  <2>1. i.op = 1 /\ i.minor_op = 7 /\ i.imm = t BY <1>2, OtherFields DEF Fills
  <2>2. D(i).alu_v = 1 /\ D(i).minor_op = 7 /\ D(i).imm = t
    BY <2>1, DecodeEnables, DecodeFields DEF Bool
  <2>3. BranchFacts(D(i)) = {<<"taken", "always">>, <<"target", t>>}
    BY <2>2, BranchAlways
  <2> QED BY <1>1, <1>2, <2>3
<1>3. ASSUME NEW m \in 2 .. 5, NEW x, NEW y, y \notin LateReady,
             Fills(i, 1, m, [src_a |-> x, src_b |-> y, imm |-> t])
      PROVE  Effects(i) = Doc!Branch(Operand(x), Relation[m], Operand(y), t)
  <2>1. i.op = 1 /\ i.minor_op = m /\ i.imm = t /\ i.src_a = x /\ i.src_b = y
    BY <1>3, OtherFields DEF Fills
  <2>2. /\ D(i).alu_v = 1 /\ D(i).minor_op = m /\ D(i).imm = t
        /\ D(i).src_a = x /\ D(i).src_b = y
    BY <2>1, DecodeEnables, DecodeFields DEF Bool
  <2>3. OperandA(D(i)) = Operand(x) /\ OperandB(D(i)) = Operand(y)
    BY <1>3, <2>2, Zenon DEF OperandA, OperandB
  <2>4. BranchFacts(D(i)) = Doc!Branch(Operand(x), Relation[m], Operand(y), t)
    BY <2>2, <2>3, BranchFactsAre
  <2> QED BY <1>1, <1>3, <2>4
<1> QED BY <1>2, <1>3

LEMMA CompareEffects ==
  ASSUME NEW i, NEW m \in 2 .. 5, NEW x, NEW y, NEW t, y \notin LateReady, NEW r,
         r = [src_a |-> x, src_b |-> y, imm |-> t], Fills(i, 1, m, r)
  PROVE  Effects(i) = Doc!Branch(Operand(x), Relation[m], Operand(y), t)
BY BranchEffects

\* The branches, but for the pending queue that is never ready.
LEMMA BranchMeans ==
  ASSUME NEW ts, NEW lb, lb \in [DOMAIN lb -> Immediates], Len(ts) \in Nat \ {0},
         Head(ts) = ts[1], Ordinary(ts, lb), ts[1] \in BranchWords,
         ~Rejected(parseTokens(ts, lb)), ~Doc!Departs(ts)
  PROVE  Effects(parseTokens(ts, lb)) = Doc!Meaning(ts, lb)
<1> DEFINE i == parseTokens(ts, lb)
           m == getMinorOp(ts[1])
           t == Doc!Destination(lb, ts[Len(ts)])
<1>1. Fills(i, 1, m, parseBranch(ts, lb))
  <2>1. getOp(ts[1]) = 1 BY MnemonicCodes
  <2> QED BY <2>1, Filled, AssignedIs
<1>2. Operand(Src.const_0) = "0" /\ Operand(Src.const_1) = "1"
      /\ Src.const_0 \notin LateReady /\ Src.const_1 \notin LateReady
  BY OperandIs DEF LateReady, Src
<1> HIDE DEF i
<1>3. CASE ts[1] = "bi"
  <2>1. Len(ts) = 2 /\ ts[2] \in Doc!Target(lb) BY <1>3, OrdinaryForms
  <2>2. m = 7 BY <1>3, Codes
  <2>3. parseBranch(ts, lb) = [imm |-> t] BY <2>1, TargetIs DEF parseBranch
  <2>4. Effects(i) = {<<"taken", "always">>, <<"target", t>>}
    BY <1>1, <2>2, <2>3, BranchEffects, Zenon
  <2>5. Doc!Meaning(ts, lb) = {<<"taken", "always">>, <<"target", t>>}
    BY <1>3 DEF Doc!Meaning, Doc!Compares, Doc!Against
  <2> QED BY <2>4, <2>5 DEF i
<1>4. CASE ts[1] \in {"beq", "bne", "blt", "ble"}
  <2>1. /\ Len(ts) = 4 /\ ts[2] \in DOMAIN Doc!Source /\ ts[3] \in DOMAIN Doc!Source
        /\ ts[4] \in Doc!Target(lb)
    BY <1>4, OrdinaryForms
  <2>2. m \in 2 .. 5 /\ Relation[m] = Doc!Compares[ts[1]]
    BY <1>4, Codes DEF Relation, Doc!Compares
  <2>3. parseBranch(ts, lb) =
          [src_a |-> parseSrcOpd(ts[2]), src_b |-> parseSrcOpd(ts[3]), imm |-> t]
    BY <1>4, <2>1, TargetIs DEF parseBranch
  <2>4. Effects(i) = Doc!Branch(Operand(parseSrcOpd(ts[2])), Relation[m],
                                Operand(parseSrcOpd(ts[3])), t)
    <3>1. \A w \in DOMAIN Doc!Source : parseSrcOpd(w) \notin LateReady BY SourceOperand
    <3> HIDE DEF m, t
    <3> QED BY <1>1, <2>1, <2>2, <2>3, <3>1, CompareEffects
  <2>5. Doc!Meaning(ts, lb) =
          Doc!Branch(Doc!Source[ts[2]], Doc!Compares[ts[1]], Doc!Source[ts[3]], t)
    BY <1>4 DEF Doc!Meaning, Doc!Compares, Doc!Against
  <2> QED BY <2>1, <2>2, <2>4, <2>5, SourceOperand, Zenon DEF i
<1>5. CASE ts[1] \in {"bgt", "bge"}
  <2>1. /\ Len(ts) = 4 /\ ts[2] \in DOMAIN Doc!Source /\ ts[3] \in DOMAIN Doc!Source
        /\ ts[4] \in Doc!Target(lb)
    BY <1>5, OrdinaryForms
  <2>2. m \in 2 .. 5 /\ Relation[m] = Doc!Mirror[Doc!Compares[ts[1]]]
        /\ Doc!Mirror[Relation[m]] = Doc!Compares[ts[1]]
    BY <1>5, Codes DEF Relation, Doc!Compares, Doc!Mirror
  <2>3. parseBranch(ts, lb) =
          [src_a |-> parseSrcOpd(ts[3]), src_b |-> parseSrcOpd(ts[2]), imm |-> t]
    BY <1>5, <2>1, TargetIs DEF parseBranch
  <2>4. Effects(i) = Doc!Branch(Operand(parseSrcOpd(ts[3])), Relation[m],
                                Operand(parseSrcOpd(ts[2])), t)
    <3>1. \A w \in DOMAIN Doc!Source : parseSrcOpd(w) \notin LateReady BY SourceOperand
    <3> HIDE DEF m, t
    <3> QED BY <1>1, <2>1, <2>2, <2>3, <3>1, CompareEffects
  <2>5. Doc!Meaning(ts, lb) =
          Doc!Branch(Doc!Source[ts[2]], Doc!Compares[ts[1]], Doc!Source[ts[3]], t)
    BY <1>5 DEF Doc!Meaning, Doc!Compares, Doc!Against
  <2>6. ASSUME NEW x, NEW y
        PROVE  Doc!Branch(x, Relation[m], y, t) = Doc!Branch(y, Doc!Compares[ts[1]], x, t)
    BY <2>2 DEF Doc!Branch
  <2> QED BY <2>1, <2>4, <2>5, <2>6, SourceOperand, Zenon DEF i
<1>6. CASE ts[1] \in {"bz", "bnz", "bf", "bfz", "bqr"}
  <2> DEFINE c == IF ts[1] \in {"bf", "bqr"} THEN "const_1" ELSE "const_0"
             v == IF ts[1] \in {"bf", "bqr"} THEN "1" ELSE "0"
  <2>1. Len(ts) = 3 /\ ts[3] \in Doc!Target(lb) BY <1>6, OrdinaryForms
  <2>2. m \in 2 .. 5 /\ Relation[m] = IF ts[1] = "bnz" THEN "#" ELSE "="
    BY <1>6, Codes DEF Relation
  <2>3. parseBranch(ts, lb) =
          [src_a |-> parseSrcOpd(ts[2]), src_b |-> Src[c], imm |-> t]
    BY <1>6, <2>1, TargetIs DEF parseBranch
  <2>4. Src[c] \notin LateReady /\ Operand(Src[c]) = v BY <1>2
  <2> HIDE DEF c
  <2>5. Effects(i) = Doc!Branch(Operand(parseSrcOpd(ts[2])), Relation[m], v, t)
    <3>1. Effects(i) = Doc!Branch(Operand(parseSrcOpd(ts[2])), Relation[m],
                                  Operand(Src[c]), t)
      <4> HIDE DEF m, t, v
      <4> QED BY <1>1, <2>2, <2>3, <2>4, CompareEffects
    <3> QED BY <2>4, <3>1
  <2>6. CASE ts[1] \in {"bz", "bnz"}
    <3>1. ts[2] \in DOMAIN Doc!Source BY <2>6, OrdinaryForms
    <3>2. Doc!Meaning(ts, lb) =
            Doc!Branch(Doc!Source[ts[2]], IF ts[1] = "bnz" THEN "#" ELSE "=", "0", t)
      BY <2>6 DEF Doc!Meaning, Doc!Compares, Doc!Against
    <3>3. v = "0" BY <2>6
    <3> HIDE DEF v
    <3> QED BY <2>2, <2>5, <3>1, <3>2, <3>3, SourceOperand, Zenon DEF i
  <2>7. CASE ts[1] \in {"bf", "bfz"}
    <3>1. ts[2] \in Doc!FlagNames BY <2>7, OrdinaryForms
    <3>2. Doc!Meaning(ts, lb) = Doc!Branch(ts[2], "=", v, t)
      BY <2>7 DEF Doc!Meaning, Doc!Compares, Doc!Against
    <3>3. Relation[m] = "=" BY <2>2, <2>7
    <3> HIDE DEF v
    <3> QED BY <2>5, <3>1, <3>2, <3>3, SourceOperand, Zenon DEF i
  <2>8. CASE ts[1] = "bqr"
    <3>1. ts[2] \in DOMAIN Doc!Queue \ {"pending"} BY <2>8, OrdinaryForms DEF Doc!Departs
    <3>2. Doc!Meaning(ts, lb) = Doc!Branch(Doc!Ready[ts[2]], "=", "1", t)
      BY <2>8 DEF Doc!Meaning, Doc!Compares, Doc!Against
    <3>3. Relation[m] = "=" /\ v = "1" BY <2>2, <2>8
    <3> HIDE DEF v
    <3> QED BY <2>5, <3>1, <3>2, <3>3, SourceOperand, Zenon DEF i
  <2> QED BY <1>6, <2>6, <2>7, <2>8
<1> QED BY <1>3, <1>4, <1>5, <1>6 DEF BranchWords

-----------------------------------------------------------------------------
(* Flags: which of them a mask writes, and where their values come from.   *)

LEMMA MaskBits ==
  /\ \A f, g \in FlagSet : (FlagValue[f] \div FlagValue[g]) % 2 = 1 <=> g = f
  /\ \A g \in FlagSet : ((1 + 2 + 4) \div FlagValue[g]) % 2 = 1 <=> g \in {"rqf", "nerf", "ldf"}
  /\ \A g \in FlagSet : ((1 + 64 + 16) \div FlagValue[g]) % 2 = 1
                        <=> g \in {"rqf", "rwbf", "tf"}
  /\ \A g \in FlagSet : ((16 + 32 + 256 + 512 + 1024) \div FlagValue[g]) % 2 = 1
                        <=> g \in {"tf", "rf", "uf", "if", "ef"}
<1>1. \A f, g \in FlagSet : (FlagValue[f] \div FlagValue[g]) % 2 = 1 <=> g = f
  BY SMT DEF FlagSet, FlagValue
<1>2. \A g \in FlagSet : ((1 + 2 + 4) \div FlagValue[g]) % 2 = 1 <=> g \in {"rqf", "nerf", "ldf"}
  BY SMT DEF FlagSet, FlagValue
<1>3. \A g \in FlagSet : ((1 + 64 + 16) \div FlagValue[g]) % 2 = 1
                         <=> g \in {"rqf", "rwbf", "tf"}
  BY SMT DEF FlagSet, FlagValue
<1>4. \A g \in FlagSet : ((16 + 32 + 256 + 512 + 1024) \div FlagValue[g]) % 2 = 1
                         <=> g \in {"tf", "rf", "uf", "if", "ef"}
  BY SMT DEF FlagSet, FlagValue
<1> QED BY <1>1, <1>2, <1>3, <1>4, Zenon

\* The flags that a mask writes.
LEMMA FlagsWritten ==
  ASSUME NEW n
  PROVE  /\ \A f \in FlagNames :
              n = Flag[f] => {g \in FlagNames : (n \div Flag[g]) % 2 = 1} = {f}
         /\ n = Flag.rqf + Flag.nerf + Flag.ldf
              => {g \in FlagNames : (n \div Flag[g]) % 2 = 1} = {"rqf", "nerf", "ldf"}
         /\ n = Flag.rqf + Flag.rwbf + Flag.tf
              => {g \in FlagNames : (n \div Flag[g]) % 2 = 1} = {"rqf", "rwbf", "tf"}
         /\ n = Flag.tf + Flag.rf + Flag.uf + Flag.if + Flag.ef
              => {g \in FlagNames : (n \div Flag[g]) % 2 = 1} = {"tf", "rf", "uf", "if", "ef"}
<1>1. FlagNames = FlagSet /\ Flag = FlagValue BY FlagNamesAre, FlagsAre
<1>2. ASSUME NEW f \in FlagNames, n = Flag[f]
      PROVE  {g \in FlagNames : (n \div Flag[g]) % 2 = 1} = {f}
  <2>1. \A g \in FlagNames : (n \div Flag[g]) % 2 = 1 <=> g = f
    BY <1>1, <1>2, MaskBits, SMT
  <2> QED BY <1>2, <2>1, Zenon
<1>3. ASSUME n = Flag.rqf + Flag.nerf + Flag.ldf
      PROVE  {g \in FlagNames : (n \div Flag[g]) % 2 = 1} = {"rqf", "nerf", "ldf"}
  <2>1. n = 1 + 2 + 4 BY <1>1, <1>3 DEF FlagValue
  <2>2. {"rqf", "nerf", "ldf"} \subseteq FlagSet BY DEF FlagSet
  <2>3. \A g \in FlagNames :
          (n \div Flag[g]) % 2 = 1 <=> g \in {"rqf", "nerf", "ldf"}
    BY <1>1, <2>1, MaskBits, SMT
  <2> QED BY <1>1, <2>2, <2>3
<1>4. ASSUME n = Flag.rqf + Flag.rwbf + Flag.tf
      PROVE  {g \in FlagNames : (n \div Flag[g]) % 2 = 1} = {"rqf", "rwbf", "tf"}
  <2>1. n = 1 + 64 + 16 BY <1>1, <1>4 DEF FlagValue
  <2>2. {"rqf", "rwbf", "tf"} \subseteq FlagSet BY DEF FlagSet
  <2>3. \A g \in FlagNames :
          (n \div Flag[g]) % 2 = 1 <=> g \in {"rqf", "rwbf", "tf"}
    BY <1>1, <2>1, MaskBits, SMT
  <2> QED BY <1>1, <2>2, <2>3
<1>5. ASSUME n = Flag.tf + Flag.rf + Flag.uf + Flag.if + Flag.ef
      PROVE  {g \in FlagNames : (n \div Flag[g]) % 2 = 1} = {"tf", "rf", "uf", "if", "ef"}
  <2>1. n = 16 + 32 + 256 + 512 + 1024 BY <1>1, <1>5 DEF FlagValue
  <2>2. {"tf", "rf", "uf", "if", "ef"} \subseteq FlagSet BY DEF FlagSet
  <2>3. \A g \in FlagNames :
          (n \div Flag[g]) % 2 = 1 <=> g \in {"tf", "rf", "uf", "if", "ef"}
    BY <1>1, <2>1, MaskBits, SMT
  <2> QED BY <1>1, <2>2, <2>3
<1> QED BY <1>2, <1>3, <1>4, <1>5, Zenon

LEMMA FlagFactsAre ==
  ASSUME NEW i, NEW S, {g \in FlagNames : (i.flag_mask_w_v \div Flag[g]) % 2 = 1} = S
  PROVE  FlagFacts(D(i)) = {<<"flag", f, FlagSource(D(i), f)>> : f \in S}
<1>1. D(i).flag_mask_w_v = i.flag_mask_w_v BY DecodeFields
<1> QED BY <1>1, Zenon DEF FlagFacts

\* Where a flag's value comes from, select by select.
LEMMA SelectNames ==
  /\ \A n \in DOMAIN RqfSel : NameOf(RqfSel, RqfSel[n]) = n
  /\ \A n \in DOMAIN NerldfSel : NameOf(NerldfSel, NerldfSel[n]) = n
  /\ \A n \in DOMAIN NwbfSel : NameOf(NwbfSel, NwbfSel[n]) = n
  /\ \A n \in DOMAIN RwbfSel : NameOf(RwbfSel, RwbfSel[n]) = n
  /\ \A n \in DOMAIN TfSel : NameOf(TfSel, TfSel[n]) = n
  /\ \A n \in DOMAIN PruiefSel : NameOf(PruiefSel, PruiefSel[n]) = n
<1>1. \A a, b \in DOMAIN RqfSel : RqfSel[a] = RqfSel[b] => a = b BY SMT DEF RqfSel
<1>2. \A a, b \in DOMAIN NerldfSel : NerldfSel[a] = NerldfSel[b] => a = b
  BY SMT DEF NerldfSel
<1>3. \A a, b \in DOMAIN NwbfSel : NwbfSel[a] = NwbfSel[b] => a = b BY SMT DEF NwbfSel
<1>4. \A a, b \in DOMAIN RwbfSel : RwbfSel[a] = RwbfSel[b] => a = b BY SMT DEF RwbfSel
<1>5. \A a, b \in DOMAIN TfSel : TfSel[a] = TfSel[b] => a = b BY SMT DEF TfSel
<1>6. \A a, b \in DOMAIN PruiefSel : PruiefSel[a] = PruiefSel[b] => a = b
  BY SMT DEF PruiefSel
<1> QED BY <1>1, <1>2, <1>3, <1>4, <1>5, <1>6, NameIs, Zenon

LEMMA ImmediateFlag ==
  ASSUME NEW d, NEW f, d.rqf_sel = RqfSel.imm0, d.nerldf_sel = NerldfSel.imm0,
         d.nwbf_sel = NwbfSel.imm0, d.rwbf_sel = RwbfSel.imm0, d.tf_sel = TfSel.imm0,
         d.pruief_sel = PruiefSel.imm0
  PROVE  FlagSource(d, f) = Digit(d.imm % 2)
<1>1. /\ NameOf(RqfSel, d.rqf_sel) = "imm0" /\ NameOf(NerldfSel, d.nerldf_sel) = "imm0"
      /\ NameOf(NwbfSel, d.nwbf_sel) = "imm0" /\ NameOf(RwbfSel, d.rwbf_sel) = "imm0"
      /\ NameOf(TfSel, d.tf_sel) = "imm0" /\ NameOf(PruiefSel, d.pruief_sel) = "imm0"
  <2>1. /\ "imm0" \in DOMAIN RqfSel /\ "imm0" \in DOMAIN NerldfSel /\ "imm0" \in DOMAIN NwbfSel
        /\ "imm0" \in DOMAIN RwbfSel /\ "imm0" \in DOMAIN TfSel /\ "imm0" \in DOMAIN PruiefSel
    BY DEF RqfSel, NerldfSel, NwbfSel, RwbfSel, TfSel, PruiefSel
  <2> QED BY <2>1, SelectNames
<1> QED BY <1>1, SMT DEF FlagSource

-----------------------------------------------------------------------------
(* Moves.                                                                  *)

\* What an instruction of the move operation writes.
LEMMA MoveWrites ==
  ASSUME NEW i, i.op = 2, i.src_b = 0
  PROVE  /\ \A a \in DOMAIN Src \ {"const_0", "const_1", "pending_ready", "imm"} :
            \A c \in DOMAIN Gpr :
              i.src_a = Src[a] /\ i.dst = Gpr[c]
              => WriteFacts(D(i)) = IF a = c THEN {} ELSE {<<"write", c, "copy", a>>}
         /\ \A c \in DOMAIN Gpr :
              i.src_a = Src.imm /\ i.dst = Gpr[c]
              => WriteFacts(D(i)) = {<<"write", c, "copy", "imm">>, <<"imm", i.imm>>}
         /\ i.src_a = Src.imm /\ i.dst = Dst.next_coh_state
              => WriteFacts(D(i)) = {<<"write", "next_coh_state", "copy", Digit(i.imm % 4)>>}
<1>1. /\ D(i).alu_dst_w_v = 0 /\ D(i).mov_dst_w_v = 1
      /\ D(i).gpr_w_v = Bool(i.dst \in 0 .. 3)
      /\ D(i).src_a = i.src_a /\ D(i).src_b = 0 /\ D(i).dst = i.dst /\ D(i).imm = i.imm
  BY DecodeEnables, DecodeFields DEF Bool
<1>2. OperandA(D(i)) = Operand(i.src_a)
  <2>1. 0 \notin LateReady BY DEF LateReady, Src
  <2> QED BY <1>1, <2>1 DEF OperandA
<1> DEFINE gpr == Bool(i.dst \in 0 .. 3)
           moves == Bool(Operand(i.src_a) # NameOf(Gpr, i.dst))
           imm == Bool(i.src_a = Src.imm)
           state == Bool(i.dst = Dst.next_coh_state)
<1>3. WriteFacts(D(i)) =
        When(gpr * moves, {<<"write", NameOf(Gpr, i.dst), "copy", Operand(i.src_a)>>})
        \cup When(gpr * imm, {<<"imm", i.imm>>})
        \cup When(state, {<<"write", "next_coh_state", "copy", Digit(i.imm % 4)>>})
  <2>1. \A facts : When(0, facts) = {} BY DEF When
  <2>2. \A p : Bool(p) \in {0, 1} BY DEF Bool
  <2>3. \A p : 0 * Bool(p) = 0 /\ 1 * Bool(p) = Bool(p) BY <2>2
  <2> QED BY <1>1, <1>2, <2>1, <2>3 DEF WriteFacts
<1>4. \A facts : When(0, facts) = {} /\ When(1, facts) = facts BY DEF When
<1>5. /\ gpr = IF i.dst \in 0 .. 3 THEN 1 ELSE 0
      /\ moves = IF Operand(i.src_a) = NameOf(Gpr, i.dst) THEN 0 ELSE 1
      /\ imm = IF i.src_a = Src.imm THEN 1 ELSE 0
      /\ state = IF i.dst = Dst.next_coh_state THEN 1 ELSE 0
  BY DEF Bool
<1> HIDE DEF gpr, moves, imm, state
<1>6. Dst.next_coh_state = 16 /\ \A c \in DOMAIN Gpr : Gpr[c] \in 0 .. 3
  BY DEF Dst, Gpr
<1>7. \A c \in DOMAIN Gpr : NameOf(Gpr, Gpr[c]) = c BY Injective, NameIs, Zenon
<1>8. ASSUME NEW a \in DOMAIN Src \ {"const_0", "const_1", "pending_ready", "imm"},
             NEW c \in DOMAIN Gpr, i.src_a = Src[a], i.dst = Gpr[c]
      PROVE  WriteFacts(D(i)) = IF a = c THEN {} ELSE {<<"write", c, "copy", a>>}
  <2>1. Operand(i.src_a) = a BY <1>8, OperandIs
  <2>2. i.src_a # Src.imm
    <3>1. "imm" \in DOMAIN Src BY DEF Src
    <3> QED BY <1>8, <3>1, SrcInjective
  <2>3. NameOf(Gpr, i.dst) = c /\ i.dst \in 0 .. 3 /\ i.dst # Dst.next_coh_state
    BY <1>6, <1>7, <1>8
  <2> QED BY <1>3, <1>4, <1>5, <2>1, <2>2, <2>3
<1>9. ASSUME NEW c \in DOMAIN Gpr, i.src_a = Src.imm, i.dst = Gpr[c]
      PROVE  WriteFacts(D(i)) = {<<"write", c, "copy", "imm">>, <<"imm", i.imm>>}
  <2>1. Operand(i.src_a) = "imm"
    <3>1. "imm" \in DOMAIN Src BY DEF Src
    <3> QED BY <1>9, <3>1, OperandIs
  <2>2. "imm" # c BY DEF Gpr
  <2>3. NameOf(Gpr, i.dst) = c /\ i.dst \in 0 .. 3 /\ i.dst # Dst.next_coh_state
    BY <1>6, <1>7, <1>9
  <2> QED BY <1>3, <1>4, <1>5, <1>9, <2>1, <2>2, <2>3
<1>10. ASSUME i.src_a = Src.imm, i.dst = Dst.next_coh_state
       PROVE  WriteFacts(D(i)) = {<<"write", "next_coh_state", "copy", Digit(i.imm % 4)>>}
  <2>1. i.dst \notin 0 .. 3 BY <1>6, <1>10
  <2> QED BY <1>3, <1>4, <1>5, <1>10, <2>1
<1> QED BY <1>8, <1>9, <1>10

\* A move writes nothing but its destination, and flags.
LEMMA MoveEffects ==
  ASSUME NEW i, NEW m, NEW r, Fills(i, 2, m, r),
         DOMAIN r \subseteq {"src_a", "dst", "imm"}
  PROVE  Effects(i) = WriteFacts(D(i)) /\ i.op = 2 /\ i.src_b = 0
<1>1. RegFacts(D(i)) = {} /\ FlagFacts(D(i)) = {} BY NoEnables
<1>2. i.op = 2 /\ i.src_b = 0 BY OtherFields DEF Fills
<1>3. BranchFacts(D(i)) = {} /\ DirFacts(D(i)) = {} BY <1>2, NoBranch, NoDir
<1> QED BY <1>1, <1>2, <1>3, EffectsOf

\* mov and movi, but for a register moved to the next coherence state.
LEMMA MoveMeans ==
  ASSUME NEW ts, NEW lb, lb \in [DOMAIN lb -> Immediates], Len(ts) \in Nat \ {0},
         Head(ts) = ts[1], Ordinary(ts, lb), ts[1] \in {"mov", "movi"},
         ~Rejected(parseTokens(ts, lb)), ~Doc!Departs(ts)
  PROVE  Effects(parseTokens(ts, lb)) = Doc!Meaning(ts, lb)
<1> DEFINE i == parseTokens(ts, lb)
<1>1. Fills(i, 2, getMinorOp(ts[1]), parseMove(ts))
  <2>1. getOp(ts[1]) = 2 BY Codes
  <2> QED BY <2>1, Filled, AssignedIs
<1> HIDE DEF i
<1>2. CASE ts[1] = "mov"
  <2>1. Len(ts) = 3 /\ ts[2] \in DOMAIN Doc!Gpr /\ ts[3] \in DOMAIN Doc!Gpr
    BY <1>2, OrdinaryForms DEF Doc!Departs
  <2>2. getMinorOp(ts[1]) = 0 BY <1>2, Codes
  <2>3. parseMove(ts) = [dst |-> Gpr[ts[3]], src_a |-> Src[ts[2]]]
    BY <1>2, <2>1, <2>2, RegisterCodes DEF parseMove, MinorMov
  <2>4. Effects(i) = WriteFacts(D(i)) /\ i.op = 2 /\ i.src_b = 0
    BY <1>1, <2>3, MoveEffects
  <2>5. i.src_a = Src[ts[2]] /\ i.dst = Gpr[ts[3]]
    BY <1>1, <2>3, OtherFields DEF Fills
  <2>6. /\ ts[2] \in DOMAIN Src \ {"const_0", "const_1", "pending_ready", "imm"}
        /\ ts[3] \in DOMAIN Gpr
    BY <2>1 DEF Doc!Gpr, Gpr, Src
  <2>7. Effects(i) = IF ts[2] = ts[3] THEN {} ELSE {<<"write", ts[3], "copy", ts[2]>>}
    BY <2>4, <2>5, <2>6, MoveWrites
  <2>8. ts[3] # "nextcohst" BY <2>1 DEF Doc!Gpr
  <2>9. Doc!Meaning(ts, lb) =
          IF ts[2] = ts[3] THEN {} ELSE {<<"write", ts[3], "copy", ts[2]>>}
    BY <1>2, <2>8 DEF Doc!Meaning, Doc!Compares, Doc!Against
  <2> QED BY <2>7, <2>9 DEF i
<1>3. CASE ts[1] = "movi"
  <2>1. Len(ts) = 3 /\ ts[2] \in Doc!Numerals /\ ts[3] \in DOMAIN Doc!Gpr
    BY <1>3, OrdinaryForms
  <2>2. getMinorOp(ts[1]) = 1 BY <1>3, Codes
  <2>3. parseDstOpd(ts[3]) = Gpr[ts[3]] /\ Gpr[ts[3]] # Dst.next_coh_state
    BY <2>1, RegisterCodes DEF Gpr, Dst
  <2>4. parseImm(ts[2]) = Stoi[ts[2]]
    BY <2>1, NumeralsAre DEF Look
  <2>5. parseMove(ts) = [dst |-> Gpr[ts[3]], src_a |-> Src.imm, imm |-> Stoi[ts[2]]]
    BY <1>3, <2>1, <2>2, <2>3, <2>4 DEF parseMove, MinorMov
  <2>6. Effects(i) = WriteFacts(D(i)) /\ i.op = 2 /\ i.src_b = 0
    BY <1>1, <2>5, MoveEffects
  <2>7. i.src_a = Src.imm /\ i.dst = Gpr[ts[3]] /\ i.imm = Stoi[ts[2]]
    BY <1>1, <2>5, OtherFields DEF Fills
  <2>8. ts[3] \in DOMAIN Gpr /\ ts[3] # "nextcohst" BY <2>1 DEF Doc!Gpr, Gpr
  <2>9. Effects(i) = {<<"write", ts[3], "copy", "imm">>, <<"imm", Stoi[ts[2]]>>}
    BY <2>6, <2>7, <2>8, MoveWrites
  <2>10. Doc!Meaning(ts, lb) = {<<"write", ts[3], "copy", "imm">>, <<"imm", Stoi[ts[2]]>>}
    BY <1>3, <2>8 DEF Doc!Meaning, Doc!Compares, Doc!Against
  <2> QED BY <2>9, <2>10 DEF i
<1> QED BY <1>2, <1>3

LEMMA StoiDigits ==
  /\ Stoi["0"] = 0 /\ Stoi["1"] = 1 /\ Stoi["2"] = 2 /\ Stoi["3"] = 3 /\ Stoi["4"] = 4
  /\ Stoi["5"] = 5 /\ Stoi["6"] = 6
  /\ {"0", "1", "2", "3", "4", "5", "6"} \subseteq DOMAIN Stoi
<1> DEFINE word == <<"0", "1", "2", "3", "4", "5", "6">>
<1>1. \A n \in 0 .. 6 : word[n + 1] \in DOMAIN Stoi /\ Stoi[word[n + 1]] = n
  BY StoiAssumption, Zenon
<1>2. /\ word[0 + 1] = "0" /\ word[1 + 1] = "1" /\ word[2 + 1] = "2" /\ word[3 + 1] = "3"
      /\ word[4 + 1] = "4" /\ word[5 + 1] = "5" /\ word[6 + 1] = "6"
  OBVIOUS
<1>3. \A n \in {0, 1, 2, 3, 4, 5, 6} : n \in 0 .. 6 OBVIOUS
<1> HIDE DEF word
<1> QED BY <1>1, <1>2, <1>3

\* A documented state is parsed to the code that Digit spells out.
LEMMA StateIs ==
  ASSUME NEW w \in DOMAIN Doc!CohState \ {"nextcohst"}
  PROVE  /\ parseCohStImm(w) \in 0 .. 3
         /\ Digit(parseCohStImm(w) % 4) = Doc!CohState[w]
<1>1. w \in {"i", "s", "e", "m", "0", "1", "2", "3"} BY DEF Doc!CohState
<1>2. /\ Look(Stoi, "0") = 0 /\ Look(Stoi, "1") = 1 /\ Look(Stoi, "2") = 2
      /\ Look(Stoi, "3") = 3
  BY StoiDigits DEF Look
<1>3. parseCohStImm(w) = CASE w \in {"i", "0"} -> 0 [] w \in {"s", "1"} -> 1
                           [] w \in {"e", "2"} -> 2 [] w \in {"m", "3"} -> 3
  BY <1>1, <1>2, SMT DEF parseCohStImm, UpTo
<1>4. /\ Digit(0 % 4) = "0" /\ Digit(1 % 4) = "1" /\ Digit(2 % 4) = "2" /\ Digit(3 % 4) = "3"
  BY DEF Digit
<1> QED BY <1>1, <1>3, <1>4 DEF Doc!CohState

\* movi to the next coherence state, by name or by number.
LEMMA NextStateMeans ==
  ASSUME NEW ts, NEW lb, lb \in [DOMAIN lb -> Immediates], Len(ts) \in Nat \ {0},
         Head(ts) = ts[1], NextState(ts), ~Rejected(parseTokens(ts, lb))
  PROVE  Effects(parseTokens(ts, lb)) = Doc!Meaning(ts, lb)
<1> DEFINE i == parseTokens(ts, lb)
           n == parseCohStImm(ts[2])
<1>1. /\ ts[1] = "movi" /\ Len(ts) = 3 /\ ts[3] = "nextcohst"
      /\ ts[2] \in DOMAIN Doc!CohState \ {"nextcohst"}
  BY DEF NextState
<1>2. getOp(ts[1]) = 2 /\ getMinorOp(ts[1]) = 1 BY <1>1, Codes
<1>3. Fills(i, 2, 1, parseMove(ts)) BY <1>2, Filled, AssignedIs
<1>4. parseDstOpd(ts[3]) = Dst.next_coh_state
  BY <1>1, FlagNamesAre DEF parseDstOpd, Gprs, Gpr, FlagSet
<1>5. parseMove(ts) = [dst |-> Dst.next_coh_state, src_a |-> Src.imm, imm |-> n]
  BY <1>1, <1>2, <1>4 DEF parseMove, MinorMov
<1> HIDE DEF i, n
<1>6. Effects(i) = WriteFacts(D(i)) /\ i.op = 2 /\ i.src_b = 0
  BY <1>3, <1>5, MoveEffects
<1>7. i.src_a = Src.imm /\ i.dst = Dst.next_coh_state /\ i.imm = n
  BY <1>3, <1>5, OtherFields DEF Fills
<1>8. Effects(i) = {<<"write", "next_coh_state", "copy", Digit(n % 4)>>}
  BY <1>6, <1>7, MoveWrites
<1>9. Doc!Meaning(ts, lb) = {<<"write", "next_coh_state", "copy", Doc!CohState[ts[2]]>>}
  BY <1>1 DEF Doc!Meaning, Doc!Compares, Doc!Against
<1> QED BY <1>1, <1>8, <1>9, StateIs DEF i, n

\* sf and sfz.
LEMMA FlagMeans ==
  ASSUME NEW ts, NEW lb, lb \in [DOMAIN lb -> Immediates], Len(ts) \in Nat \ {0},
         Head(ts) = ts[1], Ordinary(ts, lb), ts[1] \in {"sf", "sfz"},
         ~Rejected(parseTokens(ts, lb))
  PROVE  Effects(parseTokens(ts, lb)) = Doc!Meaning(ts, lb)
<1> DEFINE i == parseTokens(ts, lb)
           b == IF ts[1] = "sf" THEN 1 ELSE 0
           f == ts[2]
           r == parseMove(ts)
<1>1. Len(ts) = 2 /\ f \in Doc!FlagNames BY OrdinaryForms
<1>2. Fills(i, 2, 1, r)
  <2>1. getOp(ts[1]) = 2 /\ getMinorOp(ts[1]) = 1 BY Codes
  <2> QED BY <2>1, Filled, AssignedIs
<1>3. f \in FlagNames /\ parseFlagSel(f) = Flag[f]
  BY <1>1, FlagNamesAre DEF Doc!FlagNames, FlagSet, parseFlagSel, Look, Flag
<1>4. r = [rqf_sel |-> RqfSel.imm0, nerldf_sel |-> NerldfSel.imm0,
           nwbf_sel |-> NwbfSel.imm0, tf_sel |-> TfSel.imm0,
           pruief_sel |-> PruiefSel.imm0, rwbf_sel |-> RwbfSel.imm0,
           flag_mask_w_v |-> Flag[f], imm |-> b]
  BY <1>1, <1>3 DEF parseMove, MinorFlag
<1> HIDE DEF i, b, r
<1>5. /\ i.op = 2 /\ i.src_a = 0 /\ i.src_b = 0 /\ i.dst = 0 /\ i.imm = b
      /\ i.flag_mask_w_v = Flag[f] /\ i.rqf_sel = RqfSel.imm0
      /\ i.nerldf_sel = NerldfSel.imm0 /\ i.nwbf_sel = NwbfSel.imm0
      /\ i.rwbf_sel = RwbfSel.imm0 /\ i.tf_sel = TfSel.imm0
      /\ i.pruief_sel = PruiefSel.imm0
  BY <1>2, <1>4, OtherFields DEF Fills
<1>6. RegFacts(D(i)) = {} BY <1>2, <1>4, NoEnables
<1>7. BranchFacts(D(i)) = {} /\ DirFacts(D(i)) = {} BY <1>5, NoBranch, NoDir
<1>8. WriteFacts(D(i)) = {}
  <2>1. /\ "r0" \in DOMAIN Src \ {"const_0", "const_1", "pending_ready", "imm"}
        /\ "r0" \in DOMAIN Gpr /\ Src["r0"] = 0 /\ Gpr["r0"] = 0
    BY DEF Src, Gpr
  <2> QED BY <1>5, <2>1, MoveWrites
<1>9. FlagFacts(D(i)) = {<<"flag", f, Digit(b % 2)>>}
  <2>1. {g \in FlagNames : (i.flag_mask_w_v \div Flag[g]) % 2 = 1} = {f}
    BY <1>3, <1>5, FlagsWritten
  <2>2. FlagSource(D(i), f) = Digit(D(i).imm % 2)
    BY <1>5, DecodeSelects, ImmediateFlag
  <2>3. FlagSource(D(i), f) = Digit(b % 2)
    <3>1. D(i).imm = b BY <1>5, DecodeFields
    <3> QED BY <2>2, <3>1
  <2>4. FlagFacts(D(i)) = {<<"flag", g, FlagSource(D(i), g)>> : g \in {f}}
    BY <2>1, FlagFactsAre, Zenon
  <2> HIDE DEF f
  <2> QED BY <2>3, <2>4
<1>10. Digit(b % 2) = IF ts[1] = "sf" THEN "1" ELSE "0"
  BY DEF Digit, b
<1>11. Doc!Meaning(ts, lb) = {<<"flag", f, IF ts[1] = "sf" THEN "1" ELSE "0">>}
  BY DEF Doc!Meaning, Doc!Compares, Doc!Against
<1>12. Effects(i) = FlagFacts(D(i))
  <2>1. i.op \notin {6, 7} BY <1>5
  <2>2. Effects(i) = BranchFacts(D(i)) \cup WriteFacts(D(i)) \cup FlagFacts(D(i))
                     \cup RegFacts(D(i)) \cup DirFacts(D(i))
    BY <2>1, EffectsOf, Zenon
  <2> QED BY <1>6, <1>7, <1>8, <2>2
<1> QED BY <1>9, <1>10, <1>11, <1>12, Zenon DEF i

-----------------------------------------------------------------------------
(* The directory.                                                          *)

\* The name of an enumerator's code is the enumerator.
LEMMA TableNames ==
  /\ \A n \in DOMAIN Gpr : NameOf(Gpr, Gpr[n]) = n
  /\ \A n \in DOMAIN DirWgSel : NameOf(DirWgSel, DirWgSel[n]) = n
  /\ \A n \in DOMAIN DirLceSel : NameOf(DirLceSel, DirLceSel[n]) = n
  /\ \A n \in DOMAIN DirWaySel : NameOf(DirWaySel, DirWaySel[n]) = n
  /\ \A n \in DOMAIN DirTagSel : NameOf(DirTagSel, DirTagSel[n]) = n
  /\ \A n \in DOMAIN LceCmd : NameOf(LceCmd, LceCmd[n]) = n
  /\ \A n \in DOMAIN LceCmdLce : NameOf(LceCmdLce, LceCmdLce[n]) = n
  /\ \A n \in DOMAIN LceCmdAddr : NameOf(LceCmdAddr, LceCmdAddr[n]) = n
  /\ \A n \in DOMAIN LceCmdWay : NameOf(LceCmdWay, LceCmdWay[n]) = n
  /\ \A n \in DOMAIN MemDataCmdAddr : NameOf(MemDataCmdAddr, MemDataCmdAddr[n]) = n
BY Injective, NameIs, Zenon

\* The directory's operands: what is parsed from a word is decoded to what
\* the word documents.
LEMMA DirOperands ==
  ASSUME NEW w
  PROVE  /\ w \in DOMAIN Doc!WayGroup =>
              NameOf(DirWgSel, parseDirWgSel(w)) = Doc!WayGroup[w]
         /\ w \in DOMAIN Doc!EntryLce =>
              NameOf(DirLceSel, parseDirLceSel(w)) = Doc!EntryLce[w]
         /\ w \in DOMAIN Doc!EntryWay =>
              NameOf(DirWaySel, parseDirWaySel(w)) = Doc!EntryWay[w]
         /\ w \in DOMAIN Doc!Tag => NameOf(DirTagSel, parseDirTagSel(w)) = Doc!Tag[w]
<1>1. ASSUME w \in DOMAIN Doc!WayGroup
      PROVE  NameOf(DirWgSel, parseDirWgSel(w)) = Doc!WayGroup[w]
  <2>1. Doc!WayGroup[w] \in DOMAIN DirWgSel
        /\ parseDirWgSel(w) = DirWgSel[Doc!WayGroup[w]]
    BY <1>1, SMT DEF Doc!WayGroup, DirWgSel, parseDirWgSel, Gprs, Gpr
  <2> QED BY <2>1, TableNames
<1>2. ASSUME w \in DOMAIN Doc!EntryLce
      PROVE  NameOf(DirLceSel, parseDirLceSel(w)) = Doc!EntryLce[w]
  <2>1. Doc!EntryLce[w] \in DOMAIN DirLceSel
        /\ parseDirLceSel(w) = DirLceSel[Doc!EntryLce[w]]
    BY <1>2, SMT DEF Doc!EntryLce, DirLceSel, parseDirLceSel, Gprs, Gpr
  <2> QED BY <2>1, TableNames
<1>3. ASSUME w \in DOMAIN Doc!EntryWay
      PROVE  NameOf(DirWaySel, parseDirWaySel(w)) = Doc!EntryWay[w]
  <2>1. Doc!EntryWay[w] \in DOMAIN DirWaySel
        /\ parseDirWaySel(w) = DirWaySel[Doc!EntryWay[w]]
    BY <1>3, SMT DEF Doc!EntryWay, DirWaySel, parseDirWaySel, Gprs, Gpr
  <2> QED BY <2>1, TableNames
<1>4. ASSUME w \in DOMAIN Doc!Tag
      PROVE  NameOf(DirTagSel, parseDirTagSel(w)) = Doc!Tag[w]
  <2>1. Doc!Tag[w] \in DOMAIN DirTagSel /\ parseDirTagSel(w) = DirTagSel[Doc!Tag[w]]
    BY <1>4, SMT DEF Doc!Tag, DirTagSel, parseDirTagSel
  <2> QED BY <2>1, TableNames
<1> QED BY <1>1, <1>2, <1>3, <1>4

\* What the directory is told, by the operation of an instruction.
LEMMA DirIs ==
  ASSUME NEW i, i.op \in {4, 5}
  PROVE  LET wg == NameOf(DirWgSel, i.dir_way_group_sel)
             lce == NameOf(DirLceSel, i.dir_lce_sel)
             way == NameOf(DirWaySel, i.dir_way_sel)
             tag == NameOf(DirTagSel, i.dir_tag_sel)
             st == IF i.dir_coh_state_sel = 0 THEN "next_coh_state" ELSE Digit(i.imm % 4)
         IN  /\ i.op = 4 /\ i.minor_op = 0 => DirFacts(D(i)) = {<<"rdp", wg>>}
             /\ i.op = 4 /\ i.minor_op = 1 => DirFacts(D(i)) = {<<"rdw", wg>>}
             /\ i.op = 4 /\ i.minor_op = 2 => DirFacts(D(i)) = {<<"rde", wg, lce, way>>}
             /\ i.op = 5 /\ i.minor_op = 0
                  => DirFacts(D(i)) = {<<"wdp", wg, Digit(i.imm % 2)>>}
             /\ i.op = 5 /\ i.minor_op = 1
                  => DirFacts(D(i)) = {<<"wde", wg, lce, way, tag, st>>}
             /\ i.op = 5 /\ i.minor_op = 2
                  => DirFacts(D(i)) = {<<"wds", wg, lce, way, st>>}
<1>1. /\ D(i).dir_r_v = (IF i.op = 4 THEN 1 ELSE 0)
      /\ D(i).dir_w_v = (IF i.op = 5 THEN 1 ELSE 0)
  BY DecodeEnables DEF Bool
<1>2. /\ D(i).dir_r_cmd = IF i.op = 4 THEN i.minor_op ELSE 0
      /\ D(i).dir_w_cmd = IF i.op = 5 THEN i.minor_op ELSE 0
  BY DecodeEnables
<1>3. /\ D(i).dir_way_group_sel = i.dir_way_group_sel /\ D(i).dir_lce_sel = i.dir_lce_sel
      /\ D(i).dir_way_sel = i.dir_way_sel /\ D(i).dir_tag_sel = i.dir_tag_sel
      /\ D(i).dir_coh_state_sel = i.dir_coh_state_sel /\ D(i).imm = i.imm
  BY DecodeSelects, DecodeFields
<1>4. \A facts : When(0, facts) = {} /\ When(1, facts) = facts BY DEF When
<1>5. DirCohSel.next_coh_st = 0 BY DEF DirCohSel
<1> QED BY <1>1, <1>2, <1>3, <1>4, <1>5 DEF DirFacts, MinorReadDir, MinorWriteDir

LEMMA DirEffects ==
  ASSUME NEW i, NEW op \in {4, 5}, NEW m, NEW r, Fills(i, op, m, r),
         DOMAIN r \cap {"req_w_v", "req_addr_way_w_v", "lru_way_w_v", "transfer_lce_w_v",
                        "cache_block_data_w_v", "ack_type_w_v"} = {}
  PROVE  /\ Effects(i) = FlagFacts(D(i)) \cup DirFacts(D(i))
         /\ "flag_mask_w_v" \notin DOMAIN r => Effects(i) = DirFacts(D(i))
<1>1. i.op = op /\ op # 6 BY DEF Fills
<1>2. RegFacts(D(i)) = {} /\ ("flag_mask_w_v" \notin DOMAIN r => FlagFacts(D(i)) = {})
  BY <1>1, NoEnables
<1>3. BranchFacts(D(i)) = {} /\ WriteFacts(D(i)) = {}
  BY <1>1, NoBranch, NoWrite
<1>4. Effects(i) = BranchFacts(D(i)) \cup WriteFacts(D(i)) \cup FlagFacts(D(i))
                   \cup RegFacts(D(i)) \cup DirFacts(D(i))
  <2>1. i.op \notin {6, 7} BY <1>1
  <2> QED BY <2>1, EffectsOf, Zenon
<1> QED BY <1>2, <1>3, <1>4

\* Flags that the GAD logic or the directory writes.
LEMMA LogicFlag ==
  ASSUME NEW d, d.pruief_sel = PruiefSel.logic
  PROVE  /\ FlagSource(d, "pf") = "directory"
         /\ \A f \in {"rf", "uf", "if", "ef"} : FlagSource(d, f) = "logic"
         /\ d.tf_sel = TfSel.logic => FlagSource(d, "tf") = "logic"
<1>1. "logic" \in DOMAIN PruiefSel /\ "logic" \in DOMAIN TfSel BY DEF PruiefSel, TfSel
<1>2. NameOf(PruiefSel, d.pruief_sel) = "logic" BY <1>1, SelectNames
<1>3. d.tf_sel = TfSel.logic => NameOf(TfSel, d.tf_sel) = "logic" BY <1>1, SelectNames
<1>4. FlagSource(d, "pf") = "directory" BY <1>2, SMT DEF FlagSource
<1>5. ASSUME NEW f \in {"rf", "uf", "if", "ef"} PROVE FlagSource(d, f) = "logic"
  BY <1>2, SMT DEF FlagSource
<1>6. d.tf_sel = TfSel.logic => FlagSource(d, "tf") = "logic"
  BY <1>3, SMT DEF FlagSource
<1> QED BY <1>4, <1>5, <1>6

\* The directory reads.
LEMMA ReadDirMeans ==
  ASSUME NEW ts, NEW lb, lb \in [DOMAIN lb -> Immediates], Len(ts) \in Nat \ {0},
         Head(ts) = ts[1], Ordinary(ts, lb), ts[1] \in {"rdp", "rdw", "rde"},
         ~Rejected(parseTokens(ts, lb))
  PROVE  Effects(parseTokens(ts, lb)) = Doc!Meaning(ts, lb)
<1> DEFINE i == parseTokens(ts, lb)
           m == getMinorOp(ts[1])
           wg == Doc!WayGroup[ts[2]]
<1>1. Fills(i, 4, m, parseReadDir(ts))
  <2>1. getOp(ts[1]) = 4 BY Codes
  <2> QED BY <2>1, Filled, AssignedIs
<1>2. m = CASE ts[1] = "rdp" -> 0 [] ts[1] = "rdw" -> 1 [] ts[1] = "rde" -> 2
  BY Codes
<1>3. Len(ts) >= 2 /\ ts[2] \in DOMAIN Doc!WayGroup BY OrdinaryForms
<1>4. At(ts, 1) = ts[2] BY <1>3, AtIs
<1>5. NameOf(DirWgSel, parseDirWgSel(ts[2])) = wg BY <1>3, DirOperands
<1> HIDE DEF i, m
<1>6. CASE ts[1] \in {"rdp", "rdw"}
  <2> DEFINE r == [dir_way_group_sel |-> parseDirWgSel(ts[2]),
                   pruief_sel |-> PruiefSel.logic, flag_mask_w_v |-> Flag.pf]
  <2>1. parseReadDir(ts) = r BY <1>4, <1>6 DEF parseReadDir
  <2>2. DOMAIN r = {"dir_way_group_sel", "pruief_sel", "flag_mask_w_v"} OBVIOUS
  <2>3. r.dir_way_group_sel = parseDirWgSel(ts[2]) /\ r.pruief_sel = PruiefSel.logic
        /\ r.flag_mask_w_v = Flag.pf
    OBVIOUS
  <2> HIDE DEF r
  <2>4. /\ i.op = 4 /\ i.minor_op = m /\ i.dir_way_group_sel = parseDirWgSel(ts[2])
        /\ i.pruief_sel = PruiefSel.logic /\ i.flag_mask_w_v = Flag.pf
    BY <1>1, <2>1, <2>2, <2>3, OtherFields DEF Fills
  <2>5. DirFacts(D(i)) = {<<ts[1], wg>>}
    BY <1>2, <1>5, <1>6, <2>4, DirIs
  <2>6. FlagFacts(D(i)) = {<<"flag", "pf", "directory">>}
    <3>1. "pf" \in FlagNames BY FlagNamesAre DEF FlagSet
    <3>2. {g \in FlagNames : (i.flag_mask_w_v \div Flag[g]) % 2 = 1} = {"pf"}
      BY <2>4, <3>1, FlagsWritten
    <3>3. FlagFacts(D(i)) = {<<"flag", g, FlagSource(D(i), g)>> : g \in {"pf"}}
      BY <3>2, FlagFactsAre, Zenon
    <3>4. FlagSource(D(i), "pf") = "directory" BY <2>4, DecodeSelects, LogicFlag
    <3> QED BY <3>3, <3>4
  <2>7. Effects(i) = FlagFacts(D(i)) \cup DirFacts(D(i)) BY <1>1, <2>1, <2>2, DirEffects
  <2>8. Doc!Meaning(ts, lb) = {<<ts[1], wg>>, <<"flag", "pf", "directory">>}
    BY <1>6 DEF Doc!Meaning, Doc!Compares, Doc!Against
  <2> QED BY <2>5, <2>6, <2>7, <2>8 DEF i
<1>7. CASE ts[1] = "rde"
  <2> DEFINE r == [dir_way_group_sel |-> parseDirWgSel(ts[2]),
                   dir_lce_sel |-> parseDirLceSel(ts[3]),
                   dir_way_sel |-> parseDirWaySel(ts[4])]
  <2>0. Len(ts) = 4 /\ ts[3] \in DOMAIN Doc!EntryLce /\ ts[4] \in DOMAIN Doc!EntryWay
    BY <1>7, OrdinaryForms
  <2>1. parseReadDir(ts) = r
    <3>1. At(ts, 2) = ts[3] /\ At(ts, 3) = ts[4] BY <2>0, AtIs
    <3> QED BY <1>4, <1>7, <3>1 DEF parseReadDir
  <2>2. DOMAIN r = {"dir_way_group_sel", "dir_lce_sel", "dir_way_sel"} OBVIOUS
  <2>3. r.dir_way_group_sel = parseDirWgSel(ts[2]) /\ r.dir_lce_sel = parseDirLceSel(ts[3])
        /\ r.dir_way_sel = parseDirWaySel(ts[4])
    OBVIOUS
  <2> HIDE DEF r
  <2>4. /\ i.op = 4 /\ i.minor_op = m /\ i.dir_way_group_sel = parseDirWgSel(ts[2])
        /\ i.dir_lce_sel = parseDirLceSel(ts[3]) /\ i.dir_way_sel = parseDirWaySel(ts[4])
    BY <1>1, <2>1, <2>2, <2>3, OtherFields DEF Fills
  <2>5. /\ NameOf(DirLceSel, parseDirLceSel(ts[3])) = Doc!EntryLce[ts[3]]
        /\ NameOf(DirWaySel, parseDirWaySel(ts[4])) = Doc!EntryWay[ts[4]]
    BY <2>0, DirOperands
  <2>6. DirFacts(D(i)) = {<<"rde", wg, Doc!EntryLce[ts[3]], Doc!EntryWay[ts[4]]>>}
    BY <1>2, <1>5, <1>7, <2>4, <2>5, DirIs
  <2>7. Effects(i) = DirFacts(D(i)) BY <1>1, <2>1, <2>2, DirEffects
  <2>8. Doc!Meaning(ts, lb) = {<<"rde", wg, Doc!EntryLce[ts[3]], Doc!EntryWay[ts[4]]>>}
    BY <1>7 DEF Doc!Meaning, Doc!Compares, Doc!Against
  <2> QED BY <2>6, <2>7, <2>8 DEF i
<1> QED BY <1>6, <1>7

\* The present bit that wdp writes.
LEMMA BitIs ==
  ASSUME NEW w \in DOMAIN Doc!Bit
  PROVE  parseImm(w) # Bad /\ Digit((parseImm(w) % 2) % 2) = Doc!Bit[w]
<1>1. w \in {"0", "1"} /\ Doc!Bit[w] = w BY DEF Doc!Bit
<1>2. 0 \in Immediates /\ 1 \in Immediates BY SmallImmediates
<1>3. Look(Stoi, "0") = 0 /\ Look(Stoi, "1") = 1 BY StoiDigits DEF Look
<1>4. parseImm(w) = IF w = "0" THEN 0 ELSE 1 BY <1>1, <1>2, <1>3, NumeralsAre
<1>5. Digit((0 % 2) % 2) = "0" /\ Digit((1 % 2) % 2) = "1" BY DEF Digit
<1> QED BY <1>1, <1>4, <1>5 DEF Bad

\* The directory writes, but for wds with a constant state.
LEMMA WriteDirMeans ==
  ASSUME NEW ts, NEW lb, lb \in [DOMAIN lb -> Immediates], Len(ts) \in Nat \ {0},
         Head(ts) = ts[1], Ordinary(ts, lb), ts[1] \in {"wdp", "wde", "wds"},
         ~Rejected(parseTokens(ts, lb)), ~Doc!Departs(ts)
  PROVE  Effects(parseTokens(ts, lb)) = Doc!Meaning(ts, lb)
<1> DEFINE i == parseTokens(ts, lb)
           m == getMinorOp(ts[1])
           wg == Doc!WayGroup[ts[2]]
           g == parseDirWgSel(ts[2])
<1>1. Fills(i, 5, m, parseWriteDir(ts))
  <2>1. getOp(ts[1]) = 5 BY Codes
  <2> QED BY <2>1, Filled, AssignedIs
<1>2. m = CASE ts[1] = "wdp" -> 0 [] ts[1] = "wde" -> 1 [] ts[1] = "wds" -> 2
  BY Codes
<1>3. Len(ts) >= 3 /\ ts[2] \in DOMAIN Doc!WayGroup BY OrdinaryForms
<1>4. At(ts, 1) = ts[2] /\ At(ts, 2) = ts[3] BY <1>3, AtIs
<1>5. NameOf(DirWgSel, g) = wg BY <1>3, DirOperands
<1> HIDE DEF i, m
<1>6. CASE ts[1] = "wdp"
  <2> DEFINE b == parseImm(ts[3])
             r == [dir_way_group_sel |-> g, imm |-> b % 2]
  <2>0. ts[3] \in DOMAIN Doc!Bit BY <1>6, OrdinaryForms
  <2>1. parseWriteDir(ts) = r
    BY <1>4, <1>6, <2>0, BitIs DEF parseWriteDir
  <2>2. DOMAIN r = {"dir_way_group_sel", "imm"} OBVIOUS
  <2>3. r.dir_way_group_sel = g /\ r.imm = b % 2 OBVIOUS
  <2> HIDE DEF r, b, g
  <2>4. i.op = 5 /\ i.minor_op = m /\ i.dir_way_group_sel = g /\ i.imm = b % 2
    BY <1>1, <2>1, <2>2, <2>3, OtherFields DEF Fills
  <2>5. Digit((b % 2) % 2) = Doc!Bit[ts[3]] BY <2>0, BitIs DEF b
  <2>6. DirFacts(D(i)) = {<<"wdp", wg, Doc!Bit[ts[3]]>>}
    BY <1>2, <1>5, <1>6, <2>4, <2>5, DirIs
  <2>7. Effects(i) = DirFacts(D(i)) BY <1>1, <2>1, <2>2, DirEffects
  <2>8. Doc!Meaning(ts, lb) = {<<"wdp", wg, Doc!Bit[ts[3]]>>}
    BY <1>6 DEF Doc!Meaning, Doc!Compares, Doc!Against
  <2> QED BY <2>6, <2>7, <2>8 DEF i
<1>7. CASE ts[1] = "wde"
  <2> DEFINE l == parseDirLceSel(ts[3])
             y == parseDirWaySel(ts[4])
             t == parseDirTagSel(ts[5])
             c == parseDirCohStSel(ts[6])
             n == IF ts[6] = "nextcohst" THEN 0 ELSE parseCohStImm(ts[6])
             r == [dir_way_group_sel |-> g, dir_lce_sel |-> l, dir_way_sel |-> y,
                   dir_tag_sel |-> t, dir_coh_state_sel |-> c, imm |-> n]
             fact == <<"wde", wg, Doc!EntryLce[ts[3]], Doc!EntryWay[ts[4]],
                       Doc!Tag[ts[5]], Doc!CohState[ts[6]]>>
  <2>0. /\ Len(ts) = 6 /\ ts[3] \in DOMAIN Doc!EntryLce /\ ts[4] \in DOMAIN Doc!EntryWay
        /\ ts[5] \in DOMAIN Doc!Tag /\ ts[6] \in DOMAIN Doc!CohState
    BY <1>7, OrdinaryForms
  <2>1. parseWriteDir(ts) = r
    <3>1. At(ts, 3) = ts[4] /\ At(ts, 4) = ts[5] /\ At(ts, 5) = ts[6]
      <4>1. Len(ts) > 3 /\ Len(ts) > 4 /\ Len(ts) > 5 BY <2>0
      <4> QED BY <4>1, AtIs, Zenon
    <3>2. ts[6] # "" BY <2>0 DEF Doc!CohState
    <3> QED BY <1>4, <1>7, <3>1, <3>2 DEF parseWriteDir
  <2>2. DOMAIN r = {"dir_way_group_sel", "dir_lce_sel", "dir_way_sel", "dir_tag_sel",
                    "dir_coh_state_sel", "imm"}
    OBVIOUS
  <2>3. r.dir_way_group_sel = g /\ r.dir_lce_sel = l /\ r.dir_way_sel = y
        /\ r.dir_tag_sel = t /\ r.dir_coh_state_sel = c /\ r.imm = n
    OBVIOUS
  <2> HIDE DEF r, g, l, y, t, c, n
  <2>4. /\ i.op = 5 /\ i.minor_op = m /\ i.dir_way_group_sel = g /\ i.dir_lce_sel = l
        /\ i.dir_way_sel = y /\ i.dir_tag_sel = t /\ i.dir_coh_state_sel = c /\ i.imm = n
    BY <1>1, <2>1, <2>2, <2>3, OtherFields DEF Fills
  <2>5. /\ NameOf(DirLceSel, l) = Doc!EntryLce[ts[3]]
        /\ NameOf(DirWaySel, y) = Doc!EntryWay[ts[4]]
        /\ NameOf(DirTagSel, t) = Doc!Tag[ts[5]]
    BY <2>0, DirOperands DEF l, y, t
  <2>6. (IF c = 0 THEN "next_coh_state" ELSE Digit(n % 4)) = Doc!CohState[ts[6]]
    <3>1. CASE ts[6] = "nextcohst"
      <4>1. c = 0 BY <3>1 DEF c, parseDirCohStSel, DirCohSel
      <4> QED BY <3>1, <4>1 DEF Doc!CohState
    <3>2. CASE ts[6] # "nextcohst"
      <4>1. c = 1 BY <3>2 DEF c, parseDirCohStSel, DirCohSel
      <4>2. n = parseCohStImm(ts[6]) BY <3>2 DEF n
      <4> QED BY <2>0, <3>2, <4>1, <4>2, StateIs
    <3> QED BY <3>1, <3>2
  <2>7. DirFacts(D(i)) = {fact}
    BY <1>2, <1>5, <1>7, <2>4, <2>5, <2>6, DirIs
  <2>8. Effects(i) = DirFacts(D(i)) BY <1>1, <2>1, <2>2, DirEffects
  <2>9. Doc!Meaning(ts, lb) = {fact}
    BY <1>7 DEF Doc!Meaning, Doc!Compares, Doc!Against
  <2> QED BY <2>7, <2>8, <2>9 DEF i
<1>8. CASE ts[1] = "wds"
  <2> DEFINE l == parseDirLceSel(ts[3])
             y == parseDirWaySel(ts[4])
             r == [dir_way_group_sel |-> g, dir_lce_sel |-> l, dir_way_sel |-> y,
                   dir_coh_state_sel |-> 0]
             fact == <<"wds", wg, Doc!EntryLce[ts[3]], Doc!EntryWay[ts[4]],
                       "next_coh_state">>
  <2>0. /\ Len(ts) = 5 /\ ts[3] \in DOMAIN Doc!EntryLce /\ ts[4] \in DOMAIN Doc!EntryWay
        /\ ts[5] = "nextcohst"
    BY <1>8, OrdinaryForms DEF Doc!Departs
  <2>1. parseWriteDir(ts) = r
    <3>1. At(ts, 3) = ts[4] /\ At(ts, 4) = ts[5]
      <4>1. Len(ts) > 3 /\ Len(ts) > 4 BY <2>0
      <4> QED BY <4>1, AtIs, Zenon
    <3>2. parseDirCohStSel(ts[5]) = 0 BY <2>0 DEF parseDirCohStSel, DirCohSel
    <3> QED BY <1>4, <1>8, <2>0, <3>1, <3>2 DEF parseWriteDir
  <2>2. DOMAIN r = {"dir_way_group_sel", "dir_lce_sel", "dir_way_sel",
                    "dir_coh_state_sel"}
    OBVIOUS
  <2>3. r.dir_way_group_sel = g /\ r.dir_lce_sel = l /\ r.dir_way_sel = y
        /\ r.dir_coh_state_sel = 0
    OBVIOUS
  <2> HIDE DEF r, g, l, y
  <2>4. /\ i.op = 5 /\ i.minor_op = m /\ i.dir_way_group_sel = g /\ i.dir_lce_sel = l
        /\ i.dir_way_sel = y /\ i.dir_coh_state_sel = 0
    BY <1>1, <2>1, <2>2, <2>3, OtherFields DEF Fills
  <2>5. /\ NameOf(DirLceSel, l) = Doc!EntryLce[ts[3]]
        /\ NameOf(DirWaySel, y) = Doc!EntryWay[ts[4]]
    BY <2>0, DirOperands DEF l, y
  <2>6. DirFacts(D(i)) = {fact}
    BY <1>2, <1>5, <1>8, <2>4, <2>5, DirIs
  <2>7. Effects(i) = DirFacts(D(i)) BY <1>1, <2>1, <2>2, DirEffects
  <2>8. Doc!Meaning(ts, lb) = {fact}
    BY <1>8, <2>0 DEF Doc!Meaning, Doc!Compares, Doc!Against, Doc!CohState
  <2> QED BY <2>6, <2>7, <2>8 DEF i
<1> QED BY <1>6, <1>7, <1>8

-----------------------------------------------------------------------------
(* Registers and flags that are loaded.                                    *)

\* What gad loads from its logic without a select.
GadFacts == {<<"load", reg, "logic">> : reg \in {"req_coh_state", "lru_addr", "sharers"}}

\* The registers that an instruction loads, by its fields.
LEMMA RegsAre ==
  ASSUME NEW i
  PROVE  RegFacts(D(i)) =
           When(i.req_w_v, {<<"load", "req", NameOf(ReqSel, i.req_sel)>>})
           \cup When(i.req_addr_way_w_v,
                     {<<"load", "req_addr_way", NameOf(ReqAddrWaySel, i.req_addr_way_sel)>>})
           \cup When(i.lru_way_w_v, {<<"load", "lru_way", NameOf(LruWaySel, i.lru_way_sel)>>})
           \cup When(i.transfer_lce_w_v,
                     {<<"load", "transfer_lce", NameOf(TrLceSel, i.transfer_lce_sel)>>})
           \cup When(i.cache_block_data_w_v,
                     {<<"load", "cache_block_data", NameOf(DataSel, i.cache_block_data_sel)>>})
           \cup When(i.ack_type_w_v, {<<"load", "ack_type", "lce_resp">>})
           \cup When(Bool(i.op = 6 /\ i.minor_op = 0), GadFacts)
<1> DEFINE d == D(i)
<1>1. RegFacts(d) =
        When(d.req_w_v, {<<"load", "req", NameOf(ReqSel, d.req_sel)>>})
        \cup When(d.req_addr_way_w_v,
                  {<<"load", "req_addr_way", NameOf(ReqAddrWaySel, d.req_addr_way_sel)>>})
        \cup When(d.lru_way_w_v, {<<"load", "lru_way", NameOf(LruWaySel, d.lru_way_sel)>>})
        \cup When(d.transfer_lce_w_v,
                  {<<"load", "transfer_lce", NameOf(TrLceSel, d.transfer_lce_sel)>>})
        \cup When(d.cache_block_data_w_v,
                  {<<"load", "cache_block_data", NameOf(DataSel, d.cache_block_data_sel)>>})
        \cup When(d.ack_type_w_v, {<<"load", "ack_type", "lce_resp">>})
        \cup When(d.gad_op_w_v, GadFacts)
  <2> HIDE DEF d
  <2> QED BY Zenon DEF RegFacts, GadFacts
<1>2. /\ d.req_w_v = i.req_w_v /\ d.req_addr_way_w_v = i.req_addr_way_w_v
      /\ d.lru_way_w_v = i.lru_way_w_v /\ d.transfer_lce_w_v = i.transfer_lce_w_v
      /\ d.cache_block_data_w_v = i.cache_block_data_w_v
      /\ d.ack_type_w_v = i.ack_type_w_v
      /\ d.gad_op_w_v = Bool(i.op = 6 /\ i.minor_op = 0)
  BY DecodeFields, DecodeEnables
<1>3. /\ d.req_sel = i.req_sel /\ d.req_addr_way_sel = i.req_addr_way_sel
      /\ d.lru_way_sel = i.lru_way_sel /\ d.transfer_lce_sel = i.transfer_lce_sel
      /\ d.cache_block_data_sel = i.cache_block_data_sel
  BY DecodeSelects
<1> HIDE DEF d
<1>4. RegFacts(d) =
           When(i.req_w_v, {<<"load", "req", NameOf(ReqSel, i.req_sel)>>})
           \cup When(i.req_addr_way_w_v,
                     {<<"load", "req_addr_way", NameOf(ReqAddrWaySel, i.req_addr_way_sel)>>})
           \cup When(i.lru_way_w_v, {<<"load", "lru_way", NameOf(LruWaySel, i.lru_way_sel)>>})
           \cup When(i.transfer_lce_w_v,
                     {<<"load", "transfer_lce", NameOf(TrLceSel, i.transfer_lce_sel)>>})
           \cup When(i.cache_block_data_w_v,
                     {<<"load", "cache_block_data", NameOf(DataSel, i.cache_block_data_sel)>>})
           \cup When(i.ack_type_w_v, {<<"load", "ack_type", "lce_resp">>})
           \cup When(Bool(i.op = 6 /\ i.minor_op = 0), GadFacts)
  BY <1>1, <1>2, <1>3, Zenon
<1> QED BY <1>4, Zenon DEF d

\* The name of a register's source is its enumerator.
LEMMA LoadNames ==
  /\ \A n \in DOMAIN ReqSel : NameOf(ReqSel, ReqSel[n]) = n
  /\ \A n \in DOMAIN ReqAddrWaySel : NameOf(ReqAddrWaySel, ReqAddrWaySel[n]) = n
  /\ \A n \in DOMAIN LruWaySel : NameOf(LruWaySel, LruWaySel[n]) = n
  /\ \A n \in DOMAIN TrLceSel : NameOf(TrLceSel, TrLceSel[n]) = n
  /\ \A n \in DOMAIN DataSel : NameOf(DataSel, DataSel[n]) = n
<1>1. \A a, b \in DOMAIN ReqSel : ReqSel[a] = ReqSel[b] => a = b BY SMT DEF ReqSel
<1>2. \A a, b \in DOMAIN ReqAddrWaySel : ReqAddrWaySel[a] = ReqAddrWaySel[b] => a = b
  BY SMT DEF ReqAddrWaySel
<1>3. \A a, b \in DOMAIN LruWaySel : LruWaySel[a] = LruWaySel[b] => a = b
  BY SMT DEF LruWaySel
<1>4. \A a, b \in DOMAIN TrLceSel : TrLceSel[a] = TrLceSel[b] => a = b BY SMT DEF TrLceSel
<1>5. \A a, b \in DOMAIN DataSel : DataSel[a] = DataSel[b] => a = b BY SMT DEF DataSel
<1> QED BY <1>1, <1>2, <1>3, <1>4, <1>5, NameIs, Zenon

\* What an instruction of the misc and queue operations does.
LEMMA OtherEffects ==
  ASSUME NEW i, i.op \in {6, 7}
  PROVE  /\ i.op = 6 => Effects(i) = FlagFacts(D(i)) \cup RegFacts(D(i))
                                     \cup (IF i.minor_op = 7 THEN {<<"halt">>} ELSE {})
         /\ i.op = 7 => Effects(i) =
              FlagFacts(D(i)) \cup RegFacts(D(i)) \cup QueueFacts(D(i))
              \cup (IF i.minor_op = 0
                    THEN {<<"wait">>} \cup {<<"wait", q>> : q \in WfqMask(i)} ELSE {})
<1>1. BranchFacts(D(i)) = {} /\ WriteFacts(D(i)) = {} /\ DirFacts(D(i)) = {}
  BY NoBranch, NoWrite, NoDir
<1>2. CASE i.op = 6
  <2>1. QueueFacts(D(i)) = {} BY <1>2, NoQueue DEF Is
  <2>2. (Is(i, 6, 7) <=> i.minor_op = 7) /\ ~Is(i, 7, 0) BY <1>2 DEF Is
  <2> QED BY <1>1, <1>2, <2>1, <2>2, EffectsIs
<1>3. CASE i.op = 7
  <2>1. ~Is(i, 6, 7) /\ (Is(i, 7, 0) <=> i.minor_op = 0) BY <1>3 DEF Is
  <2> QED BY <1>1, <1>3, <2>1, EffectsIs
<1> QED BY <1>2, <1>3

\* gad and stall.
LEMMA MiscMeans ==
  ASSUME NEW ts, NEW lb, lb \in [DOMAIN lb -> Immediates], Len(ts) \in Nat \ {0},
         Head(ts) = ts[1], Ordinary(ts, lb), ts[1] \in {"gad", "stall"},
         ~Rejected(parseTokens(ts, lb))
  PROVE  Effects(parseTokens(ts, lb)) = Doc!Meaning(ts, lb)
<1> DEFINE i == parseTokens(ts, lb)
           r == parseMisc(ts)
<1>1. Fills(i, 6, getMinorOp(ts[1]), r)
  <2>1. getOp(ts[1]) = 6 BY Codes
  <2> QED BY <2>1, Filled, AssignedIs
<1> HIDE DEF i, r
<1>2. \A facts : When(0, facts) = {} /\ When(1, facts) = facts BY DEF When
<1>3. CASE ts[1] = "stall"
  <2>1. getMinorOp(ts[1]) = 7 BY <1>3, Codes
  <2>2. DOMAIN r = {} BY <1>3 DEF parseMisc, r
  <2>3. /\ i.op = 6 /\ i.minor_op = 7 /\ i.req_w_v = 0 /\ i.req_addr_way_w_v = 0
        /\ i.lru_way_w_v = 0 /\ i.transfer_lce_w_v = 0 /\ i.cache_block_data_w_v = 0
        /\ i.ack_type_w_v = 0 /\ i.flag_mask_w_v = 0
    BY <1>1, <2>1, <2>2, OtherFields DEF Fills
  <2>4. RegFacts(D(i)) = {} BY <2>3, NoRegs
  <2>5. FlagFacts(D(i)) = {} BY <2>3, NoFlags
  <2>6. Effects(i) = {<<"halt">>} BY <2>3, <2>4, <2>5, OtherEffects
  <2>7. Doc!Meaning(ts, lb) = {<<"halt">>}
    BY <1>3 DEF Doc!Meaning, Doc!Compares, Doc!Against
  <2> QED BY <2>6, <2>7 DEF i
<1>4. CASE ts[1] = "gad"
  <2> DEFINE fs == {"tf", "rf", "uf", "if", "ef"}
  <2>1. getMinorOp(ts[1]) = 0 BY <1>4, Codes
  <2>2. /\ DOMAIN r = {"transfer_lce_sel", "transfer_lce_w_v", "req_addr_way_sel",
                       "req_addr_way_w_v", "tf_sel", "pruief_sel", "flag_mask_w_v"}
        /\ r.transfer_lce_sel = TrLceSel.logic /\ r.transfer_lce_w_v = 1
        /\ r.req_addr_way_sel = ReqAddrWaySel.logic /\ r.req_addr_way_w_v = 1
        /\ r.tf_sel = TfSel.logic /\ r.pruief_sel = PruiefSel.logic
        /\ r.flag_mask_w_v = Flag.tf + Flag.rf + Flag.uf + Flag.if + Flag.ef
    BY <1>4 DEF parseMisc, r
  <2>3. /\ i.op = 6 /\ i.minor_op = 0 /\ i.req_w_v = 0 /\ i.req_addr_way_w_v = 1
        /\ i.lru_way_w_v = 0 /\ i.transfer_lce_w_v = 1 /\ i.cache_block_data_w_v = 0
        /\ i.ack_type_w_v = 0
    BY <1>1, <2>1, <2>2, OtherFields DEF Fills
  <2>4. /\ i.transfer_lce_sel = TrLceSel.logic /\ i.req_addr_way_sel = ReqAddrWaySel.logic
        /\ i.tf_sel = TfSel.logic /\ i.pruief_sel = PruiefSel.logic
        /\ i.flag_mask_w_v = Flag.tf + Flag.rf + Flag.uf + Flag.if + Flag.ef
    BY <1>1, <2>2, OtherFields DEF Fills
  <2>5. /\ NameOf(TrLceSel, i.transfer_lce_sel) = "logic"
        /\ NameOf(ReqAddrWaySel, i.req_addr_way_sel) = "logic"
    <3>1. "logic" \in DOMAIN TrLceSel /\ "logic" \in DOMAIN ReqAddrWaySel
      BY DEF TrLceSel, ReqAddrWaySel
    <3> QED BY <2>4, <3>1, LoadNames
  <2>6. RegFacts(D(i)) = {<<"load", "req_addr_way", "logic">>, <<"load", "transfer_lce", "logic">>}
                         \cup GadFacts
    <3>1. Bool(i.op = 6 /\ i.minor_op = 0) = 1 BY <2>3 DEF Bool
    <3> DEFINE a == {<<"load", "req_addr_way", "logic">>}
               b == {<<"load", "transfer_lce", "logic">>}
    <3>2. /\ When(i.req_w_v, {<<"load", "req", NameOf(ReqSel, i.req_sel)>>}) = {}
          /\ When(i.lru_way_w_v, {<<"load", "lru_way", NameOf(LruWaySel, i.lru_way_sel)>>}) = {}
          /\ When(i.cache_block_data_w_v,
                  {<<"load", "cache_block_data", NameOf(DataSel, i.cache_block_data_sel)>>}) = {}
          /\ When(i.ack_type_w_v, {<<"load", "ack_type", "lce_resp">>}) = {}
      BY <1>2, <2>3
    <3>3. When(i.req_addr_way_w_v,
               {<<"load", "req_addr_way", NameOf(ReqAddrWaySel, i.req_addr_way_sel)>>}) = a
      BY <1>2, <2>3, <2>5
    <3>4. When(i.transfer_lce_w_v,
               {<<"load", "transfer_lce", NameOf(TrLceSel, i.transfer_lce_sel)>>}) = b
      BY <1>2, <2>3, <2>5
    <3>5. When(Bool(i.op = 6 /\ i.minor_op = 0), GadFacts) = GadFacts BY <1>2, <3>1
    <3> HIDE DEF a, b
    <3>6. RegFacts(D(i)) = {} \cup a \cup {} \cup b \cup {} \cup {} \cup GadFacts
      BY <3>2, <3>3, <3>4, <3>5, RegsAre, Zenon
    <3>7. RegFacts(D(i)) = a \cup b \cup GadFacts BY <3>6
    <3> QED BY <3>7 DEF a, b
  <2>7. FlagFacts(D(i)) = {<<"flag", f, "logic">> : f \in fs}
    <3>1. {g \in FlagNames : (i.flag_mask_w_v \div Flag[g]) % 2 = 1} = fs
      BY <2>4, FlagsWritten
    <3> HIDE DEF fs
    <3>2. FlagFacts(D(i)) = {<<"flag", f, FlagSource(D(i), f)>> : f \in fs}
      BY <3>1, FlagFactsAre, Zenon
    <3>3. \A f \in fs : FlagSource(D(i), f) = "logic"
      BY <2>4, DecodeSelects, LogicFlag DEF fs
    <3> QED BY <3>2, <3>3
  <2>8. Effects(i) = FlagFacts(D(i)) \cup RegFacts(D(i)) BY <2>3, OtherEffects
  <2>9. Doc!Meaning(ts, lb) =
          {<<"load", reg, "logic">> : reg \in {"transfer_lce", "req_addr_way",
                                              "req_coh_state", "lru_addr", "sharers"}}
          \cup {<<"flag", f, "logic">> : f \in fs}
    BY <1>4 DEF Doc!Meaning, Doc!Compares, Doc!Against
  <2>10. {<<"load", reg, "logic">> : reg \in {"transfer_lce", "req_addr_way",
                                              "req_coh_state", "lru_addr", "sharers"}}
          = {<<"load", "req_addr_way", "logic">>, <<"load", "transfer_lce", "logic">>}
            \cup GadFacts
    BY SMT DEF GadFacts
  <2> HIDE DEF fs
  <2> QED BY <2>6, <2>7, <2>8, <2>9, <2>10 DEF i
<1> QED BY <1>3, <1>4

-----------------------------------------------------------------------------
(* The queue instructions.                                                 *)

\* The words of wfq's queues, in the order of their bits.
WfqWords == <<"lcereq", "lceresp", "lcedataresp", "memresp", "memdataresp", "pending">>

\* The assembler and the decoder number wfq's queues alike.
LEMMA WfqNames ==
  /\ DOMAIN Doc!Queue = {WfqWords[j] : j \in 1 .. 6} /\ DOMAIN WfqBit = DOMAIN Doc!Queue
  /\ \A j \in 1 .. 6 : WfqOrder[j] = Doc!Queue[WfqWords[j]]
<1>1. \A j \in 1 .. 6 : WfqOrder[j] = Doc!Queue[WfqWords[j]]
  BY DEF WfqOrder, Doc!Queue, WfqWords
<1>2. DOMAIN WfqBit = DOMAIN Doc!Queue BY DEF WfqBit, Doc!Queue
<1>3. \A j \in 1 .. 6 : WfqWords[j] \in DOMAIN Doc!Queue BY DEF WfqWords, Doc!Queue
<1>4. ASSUME NEW w \in DOMAIN Doc!Queue PROVE \E j \in 1 .. 6 : w = WfqWords[j]
  BY DEF WfqWords, Doc!Queue
<1> QED BY <1>1, <1>2, <1>3, <1>4

\* The mask that is parsed selects the queues that are named.
LEMMA WfqMaskIs ==
  ASSUME NEW ts, NEW i, NEW qs, qs = {ts[k] : k \in 2 .. Len(ts)},
         qs \subseteq DOMAIN Doc!Queue, i.imm = parseWfq(ts).imm
  PROVE  DOMAIN parseWfq(ts) = {"imm"} /\ WfqMask(i) = {Doc!Queue[q] : q \in qs}
<1> DEFINE bit(q) == IF q \in qs THEN WfqBit[q] ELSE 0
           a == bit("lcereq")
           b == bit("lceresp")
           c == bit("lcedataresp")
           d == bit("memresp")
           e == bit("memdataresp")
           f == bit("pending")
           n == a + b + c + d + e + f
<1>1. parseWfq(ts) = [imm |-> n]
  BY WfqNames, Zenon DEF parseWfq
<1>2. /\ a = IF "lcereq" \in qs THEN 32 ELSE 0
      /\ b = IF "lceresp" \in qs THEN 16 ELSE 0
      /\ c = IF "lcedataresp" \in qs THEN 8 ELSE 0
      /\ d = IF "memresp" \in qs THEN 4 ELSE 0
      /\ e = IF "memdataresp" \in qs THEN 2 ELSE 0
      /\ f = IF "pending" \in qs THEN 1 ELSE 0
  BY DEF WfqBit
<1> HIDE DEF a, b, c, d, e, f
<1>3. /\ a \in {0, 32} /\ b \in {0, 16} /\ c \in {0, 8} /\ d \in {0, 4}
      /\ e \in {0, 2} /\ f \in {0, 1}
  BY <1>2
<1>4. i.imm = n BY <1>1
<1> HIDE DEF n
<1>5. /\ (n \div 32) % 2 = 1 <=> a = 32
      /\ (n \div 16) % 2 = 1 <=> b = 16
      /\ (n \div 8) % 2 = 1 <=> c = 8
      /\ (n \div 4) % 2 = 1 <=> d = 4
      /\ (n \div 2) % 2 = 1 <=> e = 2
      /\ (n \div 1) % 2 = 1 <=> f = 1
  <2>1. n = a + b + c + d + e + f BY DEF n
  <2>3. (n \div 32) % 2 = 1 <=> a = 32 BY <1>3, <2>1
  <2>4. (n \div 16) % 2 = 1 <=> b = 16 BY <1>3, <2>1
  <2>5. (n \div 8) % 2 = 1 <=> c = 8 BY <1>3, <2>1
  <2>6. (n \div 4) % 2 = 1 <=> d = 4 BY <1>3, <2>1
  <2>7. (n \div 2) % 2 = 1 <=> e = 2 BY <1>3, <2>1
  <2>8. (n \div 1) % 2 = 1 <=> f = 1 BY <1>3, <2>1
  <2> QED BY <2>3, <2>4, <2>5, <2>6, <2>7, <2>8, Zenon
<1>6. ASSUME NEW j \in 1 .. 6
      PROVE  (i.imm \div 2 ^ (6 - j)) % 2 = 1 <=> WfqWords[j] \in qs
  <2>1. 2 ^ (6 - j) = <<32, 16, 8, 4, 2, 1>>[j]
    <3>1. 6 - j \in 0 .. 11 BY <1>6
    <3>2. 2 ^ (6 - j) = Powers[(6 - j) + 1] BY <3>1, PowersAre
    <3> QED BY <1>6, <3>2 DEF Powers
  <2> DEFINE p == 2 ^ (6 - j)
  <2>2. p = <<32, 16, 8, 4, 2, 1>>[j] BY <2>1
  <2> HIDE DEF p
  <2>3. (i.imm \div p) % 2 = 1 <=> WfqWords[j] \in qs
    BY <1>2, <1>4, <1>5, <2>2 DEF WfqWords
  <2> QED BY <2>3 DEF p
<1>7. WfqMask(i) = {WfqOrder[k] : k \in {j \in 1 .. 6 : WfqWords[j] \in qs}}
  <2>1. {j \in 1 .. 6 : (i.imm \div 2 ^ (6 - j)) % 2 = 1}
          = {j \in 1 .. 6 : WfqWords[j] \in qs}
    BY <1>6, Zenon
  <2> QED BY <2>1, Zenon DEF WfqMask
<1>8. {WfqOrder[k] : k \in {j \in 1 .. 6 : WfqWords[j] \in qs}} = {Doc!Queue[q] : q \in qs}
  <2>1. ASSUME NEW k \in 1 .. 6, WfqWords[k] \in qs
        PROVE  WfqOrder[k] \in {Doc!Queue[q] : q \in qs}
    BY <2>1, WfqNames, Zenon
  <2>2. ASSUME NEW q \in qs
        PROVE  \E k \in 1 .. 6 : WfqWords[k] \in qs /\ Doc!Queue[q] = WfqOrder[k]
    <3>1. PICK k \in 1 .. 6 : q = WfqWords[k] BY <2>2, WfqNames, Zenon
    <3> QED BY <2>2, <3>1, WfqNames, Zenon
  <2> DEFINE A == {WfqOrder[k] : k \in {j \in 1 .. 6 : WfqWords[j] \in qs}}
             B == {Doc!Queue[q] : q \in qs}
  <2>3. A \subseteq B BY <2>1, Zenon
  <2>4. B \subseteq A
    <3>1. ASSUME NEW q \in qs PROVE Doc!Queue[q] \in A
      BY <2>2, Zenon
    <3> QED BY <3>1, Zenon
  <2> HIDE DEF A, B
  <2>5. A = B BY <2>3, <2>4
  <2> QED BY <2>5 DEF A, B
<1> QED BY <1>1, <1>7, <1>8

\* wfq, for any queues in any order.
LEMMA WaitMeans ==
  ASSUME NEW ts, NEW lb, lb \in [DOMAIN lb -> Immediates], Len(ts) \in Nat \ {0},
         Head(ts) = ts[1], Waits(ts), ~Rejected(parseTokens(ts, lb))
  PROVE  Effects(parseTokens(ts, lb)) = Doc!Meaning(ts, lb)
<1> DEFINE i == parseTokens(ts, lb)
           r == parseWfq(ts)
           qs == {ts[k] : k \in 2 .. Len(ts)}
<1>1. ts[1] = "wfq" /\ qs \subseteq DOMAIN Doc!Queue BY DEF Waits
<1>2. Fills(i, 7, 0, r)
  <2>1. getOp(ts[1]) = 7 /\ getMinorOp(ts[1]) = 0 BY <1>1, Codes
  <2>2. parseQueue(ts) = r BY <1>1 DEF parseQueue
  <2> QED BY <2>1, <2>2, Filled, AssignedIs
<1> HIDE DEF i, qs
<1>3. DOMAIN r = {"imm"} BY <1>1, WfqMaskIs DEF qs
<1>4. i.op = 7 /\ i.minor_op = 0 /\ i.imm = r.imm BY <1>2, <1>3, OtherFields DEF Fills
<1>5. WfqMask(i) = {Doc!Queue[q] : q \in qs} BY <1>1, <1>4, WfqMaskIs DEF qs
<1> HIDE DEF r
<1>6. RegFacts(D(i)) = {} /\ FlagFacts(D(i)) = {} BY <1>2, <1>3, NoEnables
<1>7. QueueFacts(D(i)) = {} BY <1>4, NoQueue DEF Is
<1>8. Effects(i) = {<<"wait">>} \cup {<<"wait", q>> : q \in WfqMask(i)}
  BY <1>4, <1>6, <1>7, OtherEffects
<1>9. Doc!Meaning(ts, lb) =
        {<<"wait">>} \cup {<<"wait", Doc!Queue[ts[k]]>> : k \in 2 .. Len(ts)}
  BY <1>1 DEF Doc!Meaning, Doc!Compares, Doc!Against
<1>10. {<<"wait", Doc!Queue[ts[k]]>> : k \in 2 .. Len(ts)}
         = {<<"wait", q>> : q \in {Doc!Queue[p] : p \in qs}}
  BY Zenon DEF qs
<1> QED BY <1>5, <1>8, <1>9, <1>10 DEF i

\* What a pop loads: the registers regs, from queue q.
LEMMA RegsLoaded ==
  ASSUME NEW i, i.op = 7, NEW q, NEW regs,
         regs \subseteq {"req", "req_addr_way", "lru_way", "transfer_lce",
                         "cache_block_data", "ack_type"},
         i.req_w_v = IF "req" \in regs THEN 1 ELSE 0,
         i.req_addr_way_w_v = IF "req_addr_way" \in regs THEN 1 ELSE 0,
         i.lru_way_w_v = IF "lru_way" \in regs THEN 1 ELSE 0,
         i.transfer_lce_w_v = IF "transfer_lce" \in regs THEN 1 ELSE 0,
         i.cache_block_data_w_v = IF "cache_block_data" \in regs THEN 1 ELSE 0,
         i.ack_type_w_v = IF "ack_type" \in regs THEN 1 ELSE 0,
         "req" \in regs => NameOf(ReqSel, i.req_sel) = q,
         "req_addr_way" \in regs => NameOf(ReqAddrWaySel, i.req_addr_way_sel) = q,
         "lru_way" \in regs => NameOf(LruWaySel, i.lru_way_sel) = q,
         "transfer_lce" \in regs => NameOf(TrLceSel, i.transfer_lce_sel) = q,
         "cache_block_data" \in regs => NameOf(DataSel, i.cache_block_data_sel) = q,
         "ack_type" \in regs => q = "lce_resp"
  PROVE  RegFacts(D(i)) = {<<"load", reg, q>> : reg \in regs}
<1> DEFINE L(reg) == IF reg \in regs THEN {<<"load", reg, q>>} ELSE {}
<1>1. \A facts : When(0, facts) = {} /\ When(1, facts) = facts BY DEF When
<1>2. When(i.req_w_v, {<<"load", "req", NameOf(ReqSel, i.req_sel)>>}) = L("req")
  BY <1>1
<1>3. When(i.req_addr_way_w_v, {<<"load", "req_addr_way", NameOf(ReqAddrWaySel, i.req_addr_way_sel)>>})
      = L("req_addr_way")
  BY <1>1
<1>4. When(i.lru_way_w_v, {<<"load", "lru_way", NameOf(LruWaySel, i.lru_way_sel)>>})
      = L("lru_way")
  BY <1>1
<1>5. When(i.transfer_lce_w_v, {<<"load", "transfer_lce", NameOf(TrLceSel, i.transfer_lce_sel)>>})
      = L("transfer_lce")
  BY <1>1
<1>6. When(i.cache_block_data_w_v, {<<"load", "cache_block_data", NameOf(DataSel, i.cache_block_data_sel)>>})
      = L("cache_block_data")
  BY <1>1
<1>7. When(i.ack_type_w_v, {<<"load", "ack_type", "lce_resp">>}) = L("ack_type")
  BY <1>1
<1>8. When(Bool(i.op = 6 /\ i.minor_op = 0), GadFacts) = {}
  <2>1. Bool(i.op = 6 /\ i.minor_op = 0) = 0 BY DEF Bool
  <2> QED BY <1>1, <2>1
<1>9. L("req") \cup L("req_addr_way") \cup L("lru_way") \cup L("transfer_lce")
      \cup L("cache_block_data") \cup L("ack_type") = {<<"load", reg, q>> : reg \in regs}
  OBVIOUS
<1> HIDE DEF L
<1>10. RegFacts(D(i)) = L("req") \cup L("req_addr_way") \cup L("lru_way")
         \cup L("transfer_lce") \cup L("cache_block_data") \cup L("ack_type") \cup {}
  BY <1>2, <1>3, <1>4, <1>5, <1>6, <1>7, <1>8, RegsAre, Zenon
<1> QED BY <1>9, <1>10

\* The fields of a pop are those of its queue's row.
RowOf(i, q) ==
  \A f \in Fields \ {"op", "minor_op", "imm"} :
    i[f] = IF f \in DOMAIN PopFields[q] THEN PopFields[q][f] ELSE 0

\* A pop loads the documented registers from its queue.
LEMMA PopRegs ==
  ASSUME NEW i, NEW q \in DOMAIN Doc!Queue \ {"pending"}, i.op = 7, RowOf(i, q)
  PROVE  RegFacts(D(i)) = {<<"load", reg, Doc!Queue[q]>> : reg \in Doc!Loads[q]}
<1>1. CASE q = "lcereq"
  <2>1. Doc!Queue[q] = "lce_req" /\ Doc!Loads[q] = {"req", "lru_way"}
    BY <1>1 DEF Doc!Queue, Doc!Loads
  <2>2. /\ i.req_w_v = 1
        /\ i.req_addr_way_w_v = 0
        /\ i.lru_way_w_v = 1
        /\ i.transfer_lce_w_v = 0
        /\ i.cache_block_data_w_v = 0
        /\ i.ack_type_w_v = 0
        /\ i.req_sel = ReqSel.lce_req
        /\ i.lru_way_sel = LruWaySel.lce_req
    BY <1>1, OtherFields DEF RowOf, PopFields
  <2>3. "lce_req" \in DOMAIN ReqSel /\ "lce_req" \in DOMAIN LruWaySel
    BY DEF ReqSel, LruWaySel
  <2>4. /\ NameOf(ReqSel, i.req_sel) = "lce_req"
        /\ NameOf(LruWaySel, i.lru_way_sel) = "lce_req"
    BY <2>2, <2>3, LoadNames
  <2> QED BY <2>1, <2>2, <2>4, RegsLoaded
<1>2. CASE q = "memresp"
  <2>1. /\ Doc!Queue[q] = "mem_resp"
        /\ Doc!Loads[q] = {"req", "req_addr_way", "lru_way", "transfer_lce"}
    BY <1>2 DEF Doc!Queue, Doc!Loads
  <2>2. /\ i.req_w_v = 1
        /\ i.req_addr_way_w_v = 1
        /\ i.lru_way_w_v = 1
        /\ i.transfer_lce_w_v = 1
        /\ i.cache_block_data_w_v = 0
        /\ i.ack_type_w_v = 0
        /\ i.req_sel = ReqSel.mem_resp
        /\ i.req_addr_way_sel = ReqAddrWaySel.mem_resp
        /\ i.lru_way_sel = LruWaySel.mem_resp
        /\ i.transfer_lce_sel = TrLceSel.mem_resp
    BY <1>2, OtherFields DEF RowOf, PopFields
  <2>3. /\ "mem_resp" \in DOMAIN ReqSel
        /\ "mem_resp" \in DOMAIN ReqAddrWaySel
        /\ "mem_resp" \in DOMAIN LruWaySel
        /\ "mem_resp" \in DOMAIN TrLceSel
    BY DEF ReqSel, ReqAddrWaySel, LruWaySel, TrLceSel
  <2>4. /\ NameOf(ReqSel, i.req_sel) = "mem_resp"
        /\ NameOf(ReqAddrWaySel, i.req_addr_way_sel) = "mem_resp"
        /\ NameOf(LruWaySel, i.lru_way_sel) = "mem_resp"
        /\ NameOf(TrLceSel, i.transfer_lce_sel) = "mem_resp"
    BY <2>2, <2>3, LoadNames
  <2> QED BY <2>1, <2>2, <2>4, RegsLoaded
<1>3. CASE q = "memdataresp"
  <2>1. /\ Doc!Queue[q] = "mem_data_resp"
        /\ Doc!Loads[q] = {"req", "req_addr_way", "lru_way", "cache_block_data"}
    BY <1>3 DEF Doc!Queue, Doc!Loads
  <2>2. /\ i.req_w_v = 1
        /\ i.req_addr_way_w_v = 1
        /\ i.lru_way_w_v = 1
        /\ i.transfer_lce_w_v = 0
        /\ i.cache_block_data_w_v = 1
        /\ i.ack_type_w_v = 0
        /\ i.req_sel = ReqSel.mem_data_resp
        /\ i.req_addr_way_sel = ReqAddrWaySel.mem_data_resp
        /\ i.lru_way_sel = LruWaySel.mem_data_resp
        /\ i.cache_block_data_sel = DataSel.mem_data_resp
    BY <1>3, OtherFields DEF RowOf, PopFields
  <2>3. /\ "mem_data_resp" \in DOMAIN ReqSel
        /\ "mem_data_resp" \in DOMAIN ReqAddrWaySel
        /\ "mem_data_resp" \in DOMAIN LruWaySel
        /\ "mem_data_resp" \in DOMAIN DataSel
    BY DEF ReqSel, ReqAddrWaySel, LruWaySel, DataSel
  <2>4. /\ NameOf(ReqSel, i.req_sel) = "mem_data_resp"
        /\ NameOf(ReqAddrWaySel, i.req_addr_way_sel) = "mem_data_resp"
        /\ NameOf(LruWaySel, i.lru_way_sel) = "mem_data_resp"
        /\ NameOf(DataSel, i.cache_block_data_sel) = "mem_data_resp"
    BY <2>2, <2>3, LoadNames
  <2> QED BY <2>1, <2>2, <2>4, RegsLoaded
<1>4. CASE q = "lceresp"
  <2>1. Doc!Queue[q] = "lce_resp" /\ Doc!Loads[q] = {"ack_type"}
    BY <1>4 DEF Doc!Queue, Doc!Loads
  <2>2. /\ i.req_w_v = 0
        /\ i.req_addr_way_w_v = 0
        /\ i.lru_way_w_v = 0
        /\ i.transfer_lce_w_v = 0
        /\ i.cache_block_data_w_v = 0
        /\ i.ack_type_w_v = 1
    BY <1>4, OtherFields DEF RowOf, PopFields
  <2> QED BY <2>1, <2>2, RegsLoaded
<1>5. CASE q = "lcedataresp"
  <2>1. Doc!Queue[q] = "lce_data_resp" /\ Doc!Loads[q] = {"cache_block_data"}
    BY <1>5 DEF Doc!Queue, Doc!Loads
  <2>2. /\ i.req_w_v = 0
        /\ i.req_addr_way_w_v = 0
        /\ i.lru_way_w_v = 0
        /\ i.transfer_lce_w_v = 0
        /\ i.cache_block_data_w_v = 1
        /\ i.ack_type_w_v = 0
        /\ i.cache_block_data_sel = DataSel.lce_data_resp
    BY <1>5, OtherFields DEF RowOf, PopFields
  <2>3. "lce_data_resp" \in DOMAIN DataSel
    BY DEF DataSel
  <2>4. /\ NameOf(DataSel, i.cache_block_data_sel) = "lce_data_resp"
    BY <2>2, <2>3, LoadNames
  <2> QED BY <2>1, <2>2, <2>4, RegsLoaded
<1>6. \/ q = "lcereq"
      \/ q = "memresp"
      \/ q = "memdataresp"
      \/ q = "lceresp"
      \/ q = "lcedataresp"
  BY DEF Doc!Queue
<1> QED BY <1>1, <1>2, <1>3, <1>4, <1>5, <1>6

\* A pop loads the documented flags from its queue.
LEMMA PopFlags ==
  ASSUME NEW i, NEW q \in DOMAIN Doc!Queue \ {"pending"}, RowOf(i, q)
  PROVE  FlagFacts(D(i)) = {<<"flag", f, Doc!Queue[q]>> : f \in Doc!LoadsFlags[q]}
<1>1. CASE q = "lcereq"
  <2>1. Doc!Queue[q] = "lce_req" /\ Doc!LoadsFlags[q] = {"rqf", "nerf", "ldf"}
    BY <1>1 DEF Doc!Queue, Doc!LoadsFlags
  <2>2. /\ i.flag_mask_w_v = Flag.rqf + Flag.nerf + Flag.ldf
        /\ i.rqf_sel = RqfSel.lce_req
        /\ i.nerldf_sel = NerldfSel.lce_req
    BY <1>1, OtherFields DEF RowOf, PopFields
  <2>3. /\ D(i).rqf_sel = RqfSel.lce_req /\ "lce_req" \in DOMAIN RqfSel
        /\ D(i).nerldf_sel = NerldfSel.lce_req /\ "lce_req" \in DOMAIN NerldfSel
    BY <2>2, DecodeSelects DEF RqfSel, NerldfSel
  <2>4. /\ NameOf(RqfSel, D(i).rqf_sel) = "lce_req"
        /\ NameOf(NerldfSel, D(i).nerldf_sel) = "lce_req"
    BY <2>3, SelectNames
  <2> DEFINE d == D(i)
  <2>5. \A f \in {"rqf", "nerf", "ldf"} : FlagSource(d, f) = "lce_req"
    <3> HIDE DEF d
    <3>1. /\ NameOf(RqfSel, d.rqf_sel) = "lce_req"
          /\ NameOf(NerldfSel, d.nerldf_sel) = "lce_req"
      BY <2>4 DEF d
    <3> QED BY <3>1 DEF FlagSource
  <2> DEFINE fs == {"rqf", "nerf", "ldf"}
  <2>6. {g \in FlagNames : (i.flag_mask_w_v \div Flag[g]) % 2 = 1} = fs
    BY <2>2, FlagsWritten
  <2>7. Doc!LoadsFlags[q] = fs /\ \A f \in fs : FlagSource(D(i), f) = "lce_req"
    BY <2>1, <2>5
  <2> HIDE DEF fs, d
  <2>8. FlagFacts(D(i)) = {<<"flag", f, FlagSource(D(i), f)>> : f \in fs}
    BY <2>6, FlagFactsAre, Zenon
  <2> QED BY <2>1, <2>7, <2>8
<1>2. CASE q = "memresp"
  <2>1. Doc!Queue[q] = "mem_resp" /\ Doc!LoadsFlags[q] = {"rqf", "rwbf", "tf"}
    BY <1>2 DEF Doc!Queue, Doc!LoadsFlags
  <2>2. /\ i.flag_mask_w_v = Flag.rqf + Flag.rwbf + Flag.tf
        /\ i.rqf_sel = RqfSel.mem_resp
        /\ i.rwbf_sel = RwbfSel.mem_resp
        /\ i.tf_sel = TfSel.mem_resp
    BY <1>2, OtherFields DEF RowOf, PopFields
  <2>3. /\ D(i).rqf_sel = RqfSel.mem_resp /\ "mem_resp" \in DOMAIN RqfSel
        /\ D(i).rwbf_sel = RwbfSel.mem_resp /\ "mem_resp" \in DOMAIN RwbfSel
        /\ D(i).tf_sel = TfSel.mem_resp /\ "mem_resp" \in DOMAIN TfSel
    BY <2>2, DecodeSelects DEF RqfSel, RwbfSel, TfSel
  <2>4. /\ NameOf(RqfSel, D(i).rqf_sel) = "mem_resp"
        /\ NameOf(RwbfSel, D(i).rwbf_sel) = "mem_resp"
        /\ NameOf(TfSel, D(i).tf_sel) = "mem_resp"
    BY <2>3, SelectNames
  <2> DEFINE d == D(i)
  <2>5. \A f \in {"rqf", "rwbf", "tf"} : FlagSource(d, f) = "mem_resp"
    <3> HIDE DEF d
    <3>1. /\ NameOf(RqfSel, d.rqf_sel) = "mem_resp"
          /\ NameOf(RwbfSel, d.rwbf_sel) = "mem_resp"
          /\ NameOf(TfSel, d.tf_sel) = "mem_resp"
      BY <2>4 DEF d
    <3> QED BY <3>1 DEF FlagSource
  <2> DEFINE fs == {"rqf", "rwbf", "tf"}
  <2>6. {g \in FlagNames : (i.flag_mask_w_v \div Flag[g]) % 2 = 1} = fs
    BY <2>2, FlagsWritten
  <2>7. Doc!LoadsFlags[q] = fs /\ \A f \in fs : FlagSource(D(i), f) = "mem_resp"
    BY <2>1, <2>5
  <2> HIDE DEF fs, d
  <2>8. FlagFacts(D(i)) = {<<"flag", f, FlagSource(D(i), f)>> : f \in fs}
    BY <2>6, FlagFactsAre, Zenon
  <2> QED BY <2>1, <2>7, <2>8
<1>3. CASE q = "memdataresp"
  <2>1. Doc!Queue[q] = "mem_data_resp" /\ Doc!LoadsFlags[q] = {"rqf"}
    BY <1>3 DEF Doc!Queue, Doc!LoadsFlags
  <2>2. /\ i.flag_mask_w_v = Flag.rqf
        /\ i.rqf_sel = RqfSel.mem_data_resp
    BY <1>3, OtherFields DEF RowOf, PopFields
  <2>3. /\ D(i).rqf_sel = RqfSel.mem_data_resp /\ "mem_data_resp" \in DOMAIN RqfSel
    BY <2>2, DecodeSelects DEF RqfSel
  <2>4. /\ NameOf(RqfSel, D(i).rqf_sel) = "mem_data_resp"
    BY <2>3, SelectNames
  <2> DEFINE d == D(i)
  <2>5. \A f \in {"rqf"} : FlagSource(d, f) = "mem_data_resp"
    <3> HIDE DEF d
    <3>1. NameOf(RqfSel, d.rqf_sel) = "mem_data_resp" BY <2>4 DEF d
    <3> QED BY <3>1 DEF FlagSource
  <2> DEFINE fs == {"rqf"}
  <2>6. {g \in FlagNames : (i.flag_mask_w_v \div Flag[g]) % 2 = 1} = fs
    <3>1. "rqf" \in FlagNames BY FlagNamesAre DEF FlagSet
    <3>2. i.flag_mask_w_v = Flag["rqf"] BY <2>2
    <3> QED BY <3>1, <3>2, FlagsWritten, Zenon
  <2>7. Doc!LoadsFlags[q] = fs /\ \A f \in fs : FlagSource(D(i), f) = "mem_data_resp"
    BY <2>1, <2>5
  <2> HIDE DEF fs, d
  <2>8. FlagFacts(D(i)) = {<<"flag", f, FlagSource(D(i), f)>> : f \in fs}
    BY <2>6, FlagFactsAre, Zenon
  <2> QED BY <2>1, <2>7, <2>8
<1>4. CASE q = "lceresp"
  <2>1. Doc!Queue[q] = "lce_resp" /\ Doc!LoadsFlags[q] = {}
    BY <1>4 DEF Doc!Queue, Doc!LoadsFlags
  <2>2. i.flag_mask_w_v = 0 BY <1>4, OtherFields DEF RowOf, PopFields
  <2> QED BY <2>1, <2>2, NoFlags
<1>5. CASE q = "lcedataresp"
  <2>1. Doc!Queue[q] = "lce_data_resp" /\ Doc!LoadsFlags[q] = {"nwbf"}
    BY <1>5 DEF Doc!Queue, Doc!LoadsFlags
  <2>2. /\ i.flag_mask_w_v = Flag.nwbf
        /\ i.nwbf_sel = NwbfSel.lce_data_resp
    BY <1>5, OtherFields DEF RowOf, PopFields
  <2>3. /\ D(i).nwbf_sel = NwbfSel.lce_data_resp /\ "lce_data_resp" \in DOMAIN NwbfSel
    BY <2>2, DecodeSelects DEF NwbfSel
  <2>4. /\ NameOf(NwbfSel, D(i).nwbf_sel) = "lce_data_resp"
    BY <2>3, SelectNames
  <2> DEFINE d == D(i)
  <2>5. \A f \in {"nwbf"} : FlagSource(d, f) = "lce_data_resp"
    <3> HIDE DEF d
    <3>1. NameOf(NwbfSel, d.nwbf_sel) = "lce_data_resp" BY <2>4 DEF d
    <3> QED BY <3>1 DEF FlagSource
  <2> DEFINE fs == {"nwbf"}
  <2>6. {g \in FlagNames : (i.flag_mask_w_v \div Flag[g]) % 2 = 1} = fs
    <3>1. "nwbf" \in FlagNames BY FlagNamesAre DEF FlagSet
    <3>2. i.flag_mask_w_v = Flag["nwbf"] BY <2>2
    <3> QED BY <3>1, <3>2, FlagsWritten, Zenon
  <2>7. Doc!LoadsFlags[q] = fs /\ \A f \in fs : FlagSource(D(i), f) = "lce_data_resp"
    BY <2>1, <2>5
  <2> HIDE DEF fs, d
  <2>8. FlagFacts(D(i)) = {<<"flag", f, FlagSource(D(i), f)>> : f \in fs}
    BY <2>6, FlagFactsAre, Zenon
  <2> QED BY <2>1, <2>7, <2>8
<1>6. \/ q = "lcereq"
      \/ q = "memresp"
      \/ q = "memdataresp"
      \/ q = "lceresp"
      \/ q = "lcedataresp"
  BY DEF Doc!Queue
<1> QED BY <1>1, <1>2, <1>3, <1>4, <1>5, <1>6

\* A pop takes the head of its queue and of no other.
LEMMA PopQueue ==
  ASSUME NEW i, NEW q \in DOMAIN Doc!Queue \ {"pending"}, Is(i, 7, 2), ~Is(i, 7, 1),
         PopSel(i) = SrcQ[Doc!Queue[q]]
  PROVE  QueueFacts(D(i)) = {<<"pop", Doc!Queue[q]>>}
<1> DEFINE d == D(i)
<1>1. /\ d.lce_cmd_v = 0 /\ d.lce_data_cmd_v = 0 /\ d.mem_cmd_v = 0 /\ d.mem_data_cmd_v = 0
      /\ d.lce_req_ready = IF PopSel(i) = 0 THEN 1 ELSE 0
      /\ d.mem_resp_ready = IF PopSel(i) = 1 THEN 1 ELSE 0
      /\ d.mem_data_resp_ready = IF PopSel(i) = 2 THEN 1 ELSE 0
      /\ d.lce_resp_ready = IF PopSel(i) = 4 THEN 1 ELSE 0
      /\ d.lce_data_resp_ready = IF PopSel(i) = 5 THEN 1 ELSE 0
  BY DecodeQueues, Zenon DEF Bool
<1> HIDE DEF d
<1>2. \A facts : When(0, facts) = {} /\ When(1, facts) = facts BY DEF When
<1>3. QueueFacts(d) =
        When(d.lce_req_ready, {<<"pop", "lce_req">>})
        \cup When(d.lce_resp_ready, {<<"pop", "lce_resp">>})
        \cup When(d.lce_data_resp_ready, {<<"pop", "lce_data_resp">>})
        \cup When(d.mem_resp_ready, {<<"pop", "mem_resp">>})
        \cup When(d.mem_data_resp_ready, {<<"pop", "mem_data_resp">>})
  BY <1>1, <1>2 DEF QueueFacts
<1>4. CASE q = "lcereq"
  <2>1. Doc!Queue[q] = "lce_req" /\ PopSel(i) = 0 BY <1>4 DEF Doc!Queue, SrcQ
  <2> QED BY <1>1, <1>2, <1>3, <2>1 DEF d
<1>5. CASE q = "memresp"
  <2>1. Doc!Queue[q] = "mem_resp" /\ PopSel(i) = 1 BY <1>5 DEF Doc!Queue, SrcQ
  <2> QED BY <1>1, <1>2, <1>3, <2>1 DEF d
<1>6. CASE q = "memdataresp"
  <2>1. Doc!Queue[q] = "mem_data_resp" /\ PopSel(i) = 2 BY <1>6 DEF Doc!Queue, SrcQ
  <2> QED BY <1>1, <1>2, <1>3, <2>1 DEF d
<1>7. CASE q = "lceresp"
  <2>1. Doc!Queue[q] = "lce_resp" /\ PopSel(i) = 4 BY <1>7 DEF Doc!Queue, SrcQ
  <2> QED BY <1>1, <1>2, <1>3, <2>1 DEF d
<1>8. CASE q = "lcedataresp"
  <2>1. Doc!Queue[q] = "lce_data_resp" /\ PopSel(i) = 5 BY <1>8 DEF Doc!Queue, SrcQ
  <2> QED BY <1>1, <1>2, <1>3, <2>1 DEF d
<1>9. \/ q = "lcereq"
      \/ q = "memresp"
      \/ q = "memdataresp"
      \/ q = "lceresp"
      \/ q = "lcedataresp"
  BY DEF Doc!Queue
<1> QED BY <1>4, <1>5, <1>6, <1>7, <1>8, <1>9

\* popq, but for the pending queue that is not built.
LEMMA PopMeans ==
  ASSUME NEW ts, NEW lb, lb \in [DOMAIN lb -> Immediates], Len(ts) \in Nat \ {0},
         Head(ts) = ts[1], Ordinary(ts, lb), ts[1] = "popq",
         ~Rejected(parseTokens(ts, lb)), ~Doc!Departs(ts)
  PROVE  Effects(parseTokens(ts, lb)) = Doc!Meaning(ts, lb)
<1> DEFINE i == parseTokens(ts, lb)
           q == ts[2]
           r == parsePopq(ts)
<1>1. Len(ts) = 2 /\ q \in DOMAIN Doc!Queue \ {"pending"}
  BY OrdinaryForms DEF Doc!Departs
<1>2. Fills(i, 7, 2, r)
  <2>1. getOp(ts[1]) = 7 /\ getMinorOp(ts[1]) = 2 BY Codes
  <2>2. parseQueue(ts) = r BY DEF parseQueue
  <2> QED BY <2>1, <2>2, Filled, AssignedIs
<1>3. At(ts, 1) = q BY <1>1, AtIs
<1> HIDE DEF i, q
<1>4. q \in DOMAIN PopFields /\ "imm" \notin DOMAIN PopFields[q]
  BY <1>1 DEF Doc!Queue, PopFields
<1>5. r = [f \in DOMAIN PopFields[q] \cup {"imm"} |->
             IF f = "imm" THEN parseSrcQueue(q) ELSE PopFields[q][f]]
  BY <1>3, <1>4, Zenon DEF parsePopq
<1> HIDE DEF r
<1>6. i.op = 7 /\ i.minor_op = 2 /\ i.imm = parseSrcQueue(q)
  BY <1>2, <1>5, OtherFields DEF Fills
<1>7. RowOf(i, q) BY <1>2, <1>4, <1>5 DEF Fills, RowOf
<1>8. PopSel(i) = SrcQ[Doc!Queue[q]]
  BY <1>1, <1>6 DEF PopSel, parseSrcQueue, Look, Doc!Queue, SrcQ
<1>9. QueueFacts(D(i)) = {<<"pop", Doc!Queue[q]>>} BY <1>1, <1>6, <1>8, PopQueue DEF Is
<1>10. RegFacts(D(i)) = {<<"load", reg, Doc!Queue[q]>> : reg \in Doc!Loads[q]}
  BY <1>1, <1>6, <1>7, PopRegs
<1>11. FlagFacts(D(i)) = {<<"flag", f, Doc!Queue[q]>> : f \in Doc!LoadsFlags[q]}
  BY <1>1, <1>7, PopFlags
<1>12. Effects(i) = FlagFacts(D(i)) \cup RegFacts(D(i)) \cup QueueFacts(D(i))
  BY <1>6, OtherEffects
<1>13. Doc!Meaning(ts, lb) =
         {<<"pop", Doc!Queue[q]>>}
         \cup {<<"load", reg, Doc!Queue[q]>> : reg \in Doc!Loads[q]}
         \cup {<<"flag", f, Doc!Queue[q]>> : f \in Doc!LoadsFlags[q]}
  BY DEF Doc!Meaning, Doc!Compares, Doc!Against, q
<1> QED BY <1>9, <1>10, <1>11, <1>12, <1>13 DEF i

\* What a push sends, queue by queue.
LEMMA PushQueue ==
  ASSUME NEW i, Is(i, 7, 1), ~Is(i, 7, 2)
  PROVE  /\ PushSel(i) = 0 =>
              QueueFacts(D(i)) =
                {<<"push", "lce_cmd", NameOf(LceCmd, i.imm % 8),
                   NameOf(LceCmdLce, i.lce_cmd_lce_sel),
                   NameOf(LceCmdAddr, i.lce_cmd_addr_sel),
                   NameOf(LceCmdWay, i.lce_cmd_way_sel)>>}
         /\ PushSel(i) = 1 => QueueFacts(D(i)) = {<<"push", "lce_data_cmd">>}
         /\ PushSel(i) = 2 => QueueFacts(D(i)) = {<<"push", "mem_cmd">>}
         /\ PushSel(i) = 3 =>
              QueueFacts(D(i)) =
                {<<"push", "mem_data_cmd", NameOf(MemDataCmdAddr, i.mem_data_cmd_addr_sel)>>}
<1> DEFINE d == D(i)
<1>1. /\ d.lce_req_ready = 0 /\ d.mem_resp_ready = 0 /\ d.mem_data_resp_ready = 0
      /\ d.lce_resp_ready = 0 /\ d.lce_data_resp_ready = 0
      /\ d.lce_cmd_v = IF PushSel(i) = 0 THEN 1 ELSE 0
      /\ d.lce_data_cmd_v = IF PushSel(i) = 1 THEN 1 ELSE 0
      /\ d.mem_cmd_v = IF PushSel(i) = 2 THEN 1 ELSE 0
      /\ d.mem_data_cmd_v = IF PushSel(i) = 3 THEN 1 ELSE 0
  BY DecodeQueues, Zenon DEF Bool
<1>2. /\ d.lce_cmd_cmd = i.imm % 8 /\ d.lce_cmd_lce_sel = i.lce_cmd_lce_sel
      /\ d.lce_cmd_addr_sel = i.lce_cmd_addr_sel /\ d.lce_cmd_way_sel = i.lce_cmd_way_sel
      /\ d.mem_data_cmd_addr_sel = i.mem_data_cmd_addr_sel
  BY DecodeEnables, DecodeSelects
<1> HIDE DEF d
<1>3. \A facts : When(0, facts) = {} /\ When(1, facts) = facts BY DEF When
<1>4. QueueFacts(d) =
        When(d.lce_cmd_v,
             {<<"push", "lce_cmd", NameOf(LceCmd, i.imm % 8),
                NameOf(LceCmdLce, i.lce_cmd_lce_sel), NameOf(LceCmdAddr, i.lce_cmd_addr_sel),
                NameOf(LceCmdWay, i.lce_cmd_way_sel)>>})
        \cup When(d.lce_data_cmd_v, {<<"push", "lce_data_cmd">>})
        \cup When(d.mem_cmd_v, {<<"push", "mem_cmd">>})
        \cup When(d.mem_data_cmd_v,
                  {<<"push", "mem_data_cmd",
                     NameOf(MemDataCmdAddr, i.mem_data_cmd_addr_sel)>>})
  BY <1>1, <1>2, <1>3 DEF QueueFacts
<1>5. CASE PushSel(i) = 0 BY <1>1, <1>3, <1>4, <1>5 DEF d
<1>6. CASE PushSel(i) = 1 BY <1>1, <1>3, <1>4, <1>6 DEF d
<1>7. CASE PushSel(i) = 2 BY <1>1, <1>3, <1>4, <1>7 DEF d
<1>8. CASE PushSel(i) = 3 BY <1>1, <1>3, <1>4, <1>8 DEF d
<1> QED BY <1>5, <1>6, <1>7, <1>8

\* The operands of a command.
LEMMA CommandOperands ==
  ASSUME NEW w
  PROVE  /\ w \in DOMAIN Doc!Command =>
              parseImm(w) \in 0 .. 6 /\ NameOf(LceCmd, parseImm(w)) = Doc!Command[w]
         /\ w \in DOMAIN Doc!CommandLce =>
              NameOf(LceCmdLce, parseLceCmdLceSel(w)) = Doc!CommandLce[w]
         /\ w \in DOMAIN Doc!CommandAddr =>
              /\ NameOf(LceCmdAddr, parseLceCmdAddrSel(w)) = Doc!CommandAddr[w]
              /\ NameOf(MemDataCmdAddr, parseMemDataCmdAddrSel(w)) = Doc!CommandAddr[w]
         /\ w \in DOMAIN Doc!CommandWay =>
              NameOf(LceCmdWay, parseLceCmdWaySel(w)) = Doc!CommandWay[w]
<1>1. ASSUME w \in DOMAIN Doc!Command
      PROVE  parseImm(w) \in 0 .. 6 /\ NameOf(LceCmd, parseImm(w)) = Doc!Command[w]
  <2>1. w \in {"0", "1", "2", "3", "4", "5", "6"} BY <1>1 DEF Doc!Command
  <2>2. w \in DOMAIN Stoi /\ Stoi[w] \in 0 .. 6
        /\ Doc!Command[w] \in DOMAIN LceCmd /\ Stoi[w] = LceCmd[Doc!Command[w]]
    BY <2>1, StoiDigits, SMT DEF Doc!Command, LceCmd
  <2>3. Stoi[w] \in Immediates BY <2>2, SmallImmediates
  <2>4. parseImm(w) = Stoi[w] BY <2>2, <2>3, NumeralsAre DEF Look
  <2> QED BY <2>2, <2>4, TableNames
<1>2. ASSUME w \in DOMAIN Doc!CommandLce
      PROVE  NameOf(LceCmdLce, parseLceCmdLceSel(w)) = Doc!CommandLce[w]
  <2>1. Doc!CommandLce[w] \in DOMAIN LceCmdLce
        /\ parseLceCmdLceSel(w) = LceCmdLce[Doc!CommandLce[w]]
    BY <1>2, SMT DEF Doc!CommandLce, LceCmdLce, parseLceCmdLceSel, Gprs, Gpr
  <2> QED BY <2>1, TableNames
<1>3. ASSUME w \in DOMAIN Doc!CommandAddr
      PROVE  /\ NameOf(LceCmdAddr, parseLceCmdAddrSel(w)) = Doc!CommandAddr[w]
             /\ NameOf(MemDataCmdAddr, parseMemDataCmdAddrSel(w)) = Doc!CommandAddr[w]
  <2>1. Doc!CommandAddr[w] \in DOMAIN LceCmdAddr
        /\ parseLceCmdAddrSel(w) = LceCmdAddr[Doc!CommandAddr[w]]
    BY <1>3, SMT DEF Doc!CommandAddr, LceCmdAddr, parseLceCmdAddrSel, Gprs, Gpr
  <2>2. Doc!CommandAddr[w] \in DOMAIN MemDataCmdAddr
        /\ parseMemDataCmdAddrSel(w) = MemDataCmdAddr[Doc!CommandAddr[w]]
    BY <1>3, SMT DEF Doc!CommandAddr, MemDataCmdAddr, parseMemDataCmdAddrSel, Look
  <2> QED BY <2>1, <2>2, TableNames
<1>4. ASSUME w \in DOMAIN Doc!CommandWay
      PROVE  NameOf(LceCmdWay, parseLceCmdWaySel(w)) = Doc!CommandWay[w]
  <2>1. Doc!CommandWay[w] \in DOMAIN LceCmdWay
        /\ parseLceCmdWaySel(w) = LceCmdWay[Doc!CommandWay[w]]
    BY <1>4, SMT DEF Doc!CommandWay, LceCmdWay, parseLceCmdWaySel, Look
  <2> QED BY <2>1, TableNames
<1> QED BY <1>1, <1>2, <1>3, <1>4

\* A push changes nothing but the queue it names.
LEMMA PushEffects ==
  ASSUME NEW i, NEW r, Fills(i, 7, 1, r),
         DOMAIN r \subseteq {"imm", "lce_cmd_lce_sel", "lce_cmd_addr_sel",
                             "lce_cmd_way_sel", "mem_data_cmd_addr_sel"}
  PROVE  Is(i, 7, 1) /\ ~Is(i, 7, 2) /\ Effects(i) = QueueFacts(D(i))
<1>1. i.op = 7 /\ i.minor_op = 1 BY DEF Fills
<1>2. /\ DOMAIN r \cap {"req_w_v", "req_addr_way_w_v", "lru_way_w_v", "transfer_lce_w_v",
                        "cache_block_data_w_v", "ack_type_w_v"} = {}
      /\ "flag_mask_w_v" \notin DOMAIN r
  OBVIOUS
<1>3. RegFacts(D(i)) = {} /\ FlagFacts(D(i)) = {} BY <1>2, NoEnables
<1>4. Effects(i) = FlagFacts(D(i)) \cup RegFacts(D(i)) \cup QueueFacts(D(i))
  BY <1>1, OtherEffects
<1> QED BY <1>1, <1>3, <1>4 DEF Is

\* pushq to the LCE command queue, with any operands left out.
LEMMA CommandMeans ==
  ASSUME NEW ts, NEW lb, lb \in [DOMAIN lb -> Immediates], Len(ts) \in Nat \ {0},
         Head(ts) = ts[1], Commands(ts), ~Rejected(parseTokens(ts, lb))
  PROVE  Effects(parseTokens(ts, lb)) = Doc!Meaning(ts, lb)
<1> DEFINE i == parseTokens(ts, lb)
           r == parsePushq(ts)
           v == parseImm(ts[3])
<1>1. /\ ts[1] = "pushq" /\ Len(ts) \in 3 .. 6 /\ ts[2] = "lcecmd"
      /\ ts[3] \in DOMAIN Doc!Command
      /\ Len(ts) > 3 => ts[4] \in DOMAIN Doc!CommandLce
      /\ Len(ts) > 4 => ts[5] \in DOMAIN Doc!CommandAddr
      /\ Len(ts) > 5 => ts[6] \in DOMAIN Doc!CommandWay
  BY Zenon DEF Commands
<1>2. Fills(i, 7, 1, r)
  <2>1. getOp(ts[1]) = 7 /\ getMinorOp(ts[1]) = 1 BY <1>1, Codes
  <2>2. parseQueue(ts) = r BY <1>1 DEF parseQueue
  <2> QED BY <2>1, <2>2, Filled, AssignedIs
<1> HIDE DEF i
<1>3. v \in 0 .. 6 /\ NameOf(LceCmd, v) = Doc!Command[ts[3]] BY <1>1, CommandOperands, Zenon
<1> HIDE DEF v
<1>4. r = [imm |-> v % 8,
           lce_cmd_lce_sel |-> IF Len(ts) > 3 THEN parseLceCmdLceSel(ts[4]) ELSE 6,
           lce_cmd_addr_sel |-> IF Len(ts) > 4 THEN parseLceCmdAddrSel(ts[5]) ELSE 6,
           lce_cmd_way_sel |-> IF Len(ts) > 5 THEN parseLceCmdWaySel(ts[6]) ELSE 4]
  <2>1. Len(ts) > 1 /\ Len(ts) > 2 BY <1>1
  <2>2. At(ts, 1) = "lcecmd" /\ parseImm(At(ts, 2)) = v
    <3>1. At(ts, 1) = ts[2] /\ At(ts, 2) = ts[3] BY <2>1, AtIs, Zenon
    <3> QED BY <1>1, <3>1, Zenon DEF v
  <2>3. /\ parseDstQueue("lcecmd") = 0 /\ DstQ.lce_cmd = 0
        /\ DstQ.mem_data_cmd # 0 /\ 0 \notin {DstQ.lce_data_cmd, DstQ.mem_cmd}
    BY DEF parseDstQueue, Look, DstQ
  <2>4. r = parseLceCmd(ts) BY <2>2, <2>3 DEF parsePushq
  <2>5. LceCmdLce.zero = 6 /\ LceCmdAddr.zero = 6 /\ LceCmdWay.zero = 4
    BY DEF LceCmdLce, LceCmdAddr, LceCmdWay
  <2> HIDE DEF r
  <2> DEFINE a == IF Len(ts) > 3 THEN parseLceCmdLceSel(ts[4]) ELSE 6
             b == IF Len(ts) > 4 THEN parseLceCmdAddrSel(ts[5]) ELSE 6
             c == IF Len(ts) > 5 THEN parseLceCmdWaySel(ts[6]) ELSE 4
  <2>6. parseLceCmd(ts) = [imm |-> IF v = Bad THEN Bad ELSE 8 * 0 + (v % 8),
                           lce_cmd_lce_sel |-> a, lce_cmd_addr_sel |-> b,
                           lce_cmd_way_sel |-> c]
    BY <2>2, <2>3, <2>5, Zenon DEF parseLceCmd
  <2> HIDE DEF a, b, c
  <2>7. (IF v = Bad THEN Bad ELSE 8 * 0 + (v % 8)) = v % 8 BY <1>3 DEF Bad
  <2>8. r = [imm |-> v % 8, lce_cmd_lce_sel |-> a, lce_cmd_addr_sel |-> b,
             lce_cmd_way_sel |-> c]
    BY <2>4, <2>6, <2>7, Zenon
  <2> QED BY <2>8, Zenon DEF a, b, c
<1> HIDE DEF r
<1>5. DOMAIN r = {"imm", "lce_cmd_lce_sel", "lce_cmd_addr_sel", "lce_cmd_way_sel"}
  BY <1>4
<1>6. Is(i, 7, 1) /\ ~Is(i, 7, 2) /\ Effects(i) = QueueFacts(D(i))
  BY <1>2, <1>5, PushEffects
<1>7. /\ i.imm = v % 8
      /\ i.lce_cmd_lce_sel = IF Len(ts) > 3 THEN parseLceCmdLceSel(ts[4]) ELSE 6
      /\ i.lce_cmd_addr_sel = IF Len(ts) > 4 THEN parseLceCmdAddrSel(ts[5]) ELSE 6
      /\ i.lce_cmd_way_sel = IF Len(ts) > 5 THEN parseLceCmdWaySel(ts[6]) ELSE 4
  BY <1>2, <1>4, <1>5, OtherFields DEF Fills
<1>8. PushSel(i) = 0 /\ i.imm % 8 = v BY <1>3, <1>7 DEF PushSel
<1>9. NameOf(LceCmdLce, i.lce_cmd_lce_sel) = Doc!Operand(ts, 4, Doc!CommandLce)
  <2>1. CASE Len(ts) > 3
    <3>1. NameOf(LceCmdLce, parseLceCmdLceSel(ts[4])) = Doc!CommandLce[ts[4]]
      BY <1>1, <2>1, CommandOperands, Zenon
    <3>2. i.lce_cmd_lce_sel = parseLceCmdLceSel(ts[4]) BY <1>7, <2>1
    <3>3. 4 <= Len(ts) BY <2>1
    <3> QED BY <3>1, <3>2, <3>3, Zenon DEF Doc!Operand
  <2>2. CASE ~ (Len(ts) > 3)
    <3>1. i.lce_cmd_lce_sel = LceCmdLce["zero"] /\ "zero" \in DOMAIN LceCmdLce
      BY <1>7, <2>2 DEF LceCmdLce
    <3>2. ~ (4 <= Len(ts)) BY <2>2
    <3> QED BY <3>1, <3>2, TableNames, Zenon DEF Doc!Operand
  <2> QED BY <2>1, <2>2
<1>10. NameOf(LceCmdAddr, i.lce_cmd_addr_sel) = Doc!Operand(ts, 5, Doc!CommandAddr)
  <2>1. CASE Len(ts) > 4
    <3>1. NameOf(LceCmdAddr, parseLceCmdAddrSel(ts[5])) = Doc!CommandAddr[ts[5]]
      BY <1>1, <2>1, CommandOperands, Zenon
    <3>2. i.lce_cmd_addr_sel = parseLceCmdAddrSel(ts[5]) BY <1>7, <2>1
    <3>3. 5 <= Len(ts) BY <2>1
    <3> QED BY <3>1, <3>2, <3>3, Zenon DEF Doc!Operand
  <2>2. CASE ~ (Len(ts) > 4)
    <3>1. i.lce_cmd_addr_sel = LceCmdAddr["zero"] /\ "zero" \in DOMAIN LceCmdAddr
      BY <1>7, <2>2 DEF LceCmdAddr
    <3>2. ~ (5 <= Len(ts)) BY <2>2
    <3> QED BY <3>1, <3>2, TableNames, Zenon DEF Doc!Operand
  <2> QED BY <2>1, <2>2
<1>11. NameOf(LceCmdWay, i.lce_cmd_way_sel) = Doc!Operand(ts, 6, Doc!CommandWay)
  <2>1. CASE Len(ts) > 5
    <3>1. NameOf(LceCmdWay, parseLceCmdWaySel(ts[6])) = Doc!CommandWay[ts[6]]
      BY <1>1, <2>1, CommandOperands, Zenon
    <3>2. i.lce_cmd_way_sel = parseLceCmdWaySel(ts[6]) BY <1>7, <2>1
    <3>3. 6 <= Len(ts) BY <2>1
    <3> QED BY <3>1, <3>2, <3>3, Zenon DEF Doc!Operand
  <2>2. CASE ~ (Len(ts) > 5)
    <3>1. i.lce_cmd_way_sel = LceCmdWay["zero"] /\ "zero" \in DOMAIN LceCmdWay
      BY <1>7, <2>2 DEF LceCmdWay
    <3>2. ~ (6 <= Len(ts)) BY <2>2
    <3> QED BY <3>1, <3>2, TableNames, Zenon DEF Doc!Operand
  <2> QED BY <2>1, <2>2
<1>12. Effects(i) = {<<"push", "lce_cmd", Doc!Command[ts[3]],
                       Doc!Operand(ts, 4, Doc!CommandLce),
                       Doc!Operand(ts, 5, Doc!CommandAddr),
                       Doc!Operand(ts, 6, Doc!CommandWay)>>}
  <2>1. QueueFacts(D(i)) =
          {<<"push", "lce_cmd", NameOf(LceCmd, i.imm % 8),
             NameOf(LceCmdLce, i.lce_cmd_lce_sel), NameOf(LceCmdAddr, i.lce_cmd_addr_sel),
             NameOf(LceCmdWay, i.lce_cmd_way_sel)>>}
    BY <1>6, <1>8, PushQueue, Zenon
  <2>2. NameOf(LceCmd, i.imm % 8) = Doc!Command[ts[3]] BY <1>3, <1>8, Zenon
  <2> QED BY <1>6, <1>9, <1>10, <1>11, <2>1, <2>2, Zenon
<1>13. Doc!Meaning(ts, lb) =
         {<<"push", "lce_cmd", Doc!Command[ts[3]],
            Doc!Operand(ts, 4, Doc!CommandLce),
            Doc!Operand(ts, 5, Doc!CommandAddr),
            Doc!Operand(ts, 6, Doc!CommandWay)>>}
  BY <1>1 DEF Doc!Meaning, Doc!Compares, Doc!Against
<1> QED BY <1>12, <1>13, Zenon DEF i

\* pushq to the other queues.
LEMMA PushMeans ==
  ASSUME NEW ts, NEW lb, lb \in [DOMAIN lb -> Immediates], Len(ts) \in Nat \ {0},
         Head(ts) = ts[1], ts \in Doc!Pushes, ~Rejected(parseTokens(ts, lb))
  PROVE  Effects(parseTokens(ts, lb)) = Doc!Meaning(ts, lb)
<1> DEFINE i == parseTokens(ts, lb)
           r == parsePushq(ts)
           q == ts[2]
<1>1. /\ ts[1] = "pushq" /\ Len(ts) > 1
      /\ \/ ts = <<"pushq", "lcedatacmd">> /\ q = "lcedatacmd"
         \/ ts = <<"pushq", "memcmd">> /\ q = "memcmd"
         \/ q = "memdatacmd" /\ Len(ts) > 2 /\ ts[3] \in DOMAIN Doc!CommandAddr
  BY DEF Doc!Pushes
<1>2. Fills(i, 7, 1, r)
  <2>1. getOp(ts[1]) = 7 /\ getMinorOp(ts[1]) = 1 BY <1>1, Codes
  <2>2. parseQueue(ts) = r BY <1>1 DEF parseQueue
  <2> QED BY <2>1, <2>2, Filled, AssignedIs
<1> HIDE DEF i, q
<1>3. At(ts, 1) = q BY <1>1, AtIs, Zenon DEF q
<1> DEFINE n == parseDstQueue(q)
           plain == [imm |-> 8 * n, lce_cmd_lce_sel |-> LceCmdLce.zero,
                     lce_cmd_addr_sel |-> LceCmdAddr.zero,
                     lce_cmd_way_sel |-> LceCmdWay.zero]
<1>4. /\ q = "lcedatacmd" => n = 1
      /\ q = "memcmd" => n = 2
      /\ q = "memdatacmd" => n = 3
  BY DEF parseDstQueue, Look, DstQ
<1> HIDE DEF r
<1>5. DOMAIN plain = {"imm", "lce_cmd_lce_sel", "lce_cmd_addr_sel", "lce_cmd_way_sel"}
      /\ plain.imm = 8 * n
  OBVIOUS
<1> HIDE DEF plain, n
<1>6. CASE q \in {"lcedatacmd", "memcmd"}
  <2>1. r = plain
    <3>1. n \in {1, 2} BY <1>4, <1>6
    <3> QED BY <1>3, <3>1 DEF r, plain, n, parsePushq, DstQ
  <2>2. i.imm = 8 * n BY <1>2, <1>5, <2>1, OtherFields DEF Fills
  <2>3. Is(i, 7, 1) /\ ~Is(i, 7, 2) /\ Effects(i) = QueueFacts(D(i))
    BY <1>2, <1>5, <2>1, PushEffects
  <2>4. CASE q = "lcedatacmd"
    <3>1. PushSel(i) = 1 BY <1>4, <2>2, <2>4 DEF PushSel
    <3>2. Doc!Meaning(ts, lb) = {<<"push", "lce_data_cmd">>}
      BY <1>1, <2>4 DEF Doc!Meaning, Doc!Compares, Doc!Against, q
    <3> QED BY <2>3, <3>1, <3>2, PushQueue, Zenon DEF i
  <2>5. CASE q = "memcmd"
    <3>1. PushSel(i) = 2 BY <1>4, <2>2, <2>5 DEF PushSel
    <3>2. Doc!Meaning(ts, lb) = {<<"push", "mem_cmd">>}
      BY <1>1, <2>5 DEF Doc!Meaning, Doc!Compares, Doc!Against, q
    <3> QED BY <2>3, <3>1, <3>2, PushQueue, Zenon DEF i
  <2> QED BY <1>6, <2>4, <2>5
<1>7. CASE q = "memdatacmd"
  <2> DEFINE sel == parseMemDataCmdAddrSel(ts[3])
  <2>1. r = [f \in DOMAIN plain \cup {"mem_data_cmd_addr_sel"} |->
               IF f \in DOMAIN plain THEN plain[f] ELSE sel]
    <3>1. At(ts, 2) = ts[3]
      <4>1. Len(ts) > 2 BY <1>1, <1>7
      <4> QED BY <4>1, AtIs, Zenon
    <3>2. n = 3 BY <1>4, <1>7
    <3>3. n # DstQ.lce_cmd /\ n = DstQ.mem_data_cmd BY <3>2 DEF DstQ
    <3>4. r = CASE n = DstQ.lce_cmd -> parseLceCmd(ts)
                [] n = DstQ.mem_data_cmd ->
                     [f \in DOMAIN plain \cup {"mem_data_cmd_addr_sel"} |->
                        IF f \in DOMAIN plain THEN plain[f]
                                              ELSE parseMemDataCmdAddrSel(At(ts, 2))]
                [] n \in {DstQ.lce_data_cmd, DstQ.mem_cmd} -> plain
                [] OTHER -> Reject
      BY <1>3, Zenon DEF r, plain, n, parsePushq
    <3>5. DstQ.mem_data_cmd \notin {DstQ.lce_data_cmd, DstQ.mem_cmd} BY DEF DstQ
    <3> QED BY <3>1, <3>3, <3>4, <3>5
  <2>2. i.imm = 8 * n /\ i.mem_data_cmd_addr_sel = sel
    BY <1>2, <1>5, <2>1, OtherFields DEF Fills
  <2>3. DOMAIN r = DOMAIN plain \cup {"mem_data_cmd_addr_sel"} BY <2>1
  <2>4. Is(i, 7, 1) /\ ~Is(i, 7, 2) /\ Effects(i) = QueueFacts(D(i))
    BY <1>2, <1>5, <2>3, PushEffects
  <2>5. PushSel(i) = 3 BY <1>4, <1>7, <2>2 DEF PushSel
  <2>6. NameOf(MemDataCmdAddr, sel) = Doc!CommandAddr[ts[3]]
    BY <1>1, <1>7, CommandOperands
  <2>7. Effects(i) = {<<"push", "mem_data_cmd", Doc!CommandAddr[ts[3]]>>}
    BY <2>2, <2>4, <2>5, <2>6, PushQueue
  <2>8. Doc!Meaning(ts, lb) = {<<"push", "mem_data_cmd", Doc!CommandAddr[ts[3]]>>}
    BY <1>1, <1>7 DEF Doc!Meaning, Doc!Compares, Doc!Against, q
  <2> QED BY <2>7, <2>8 DEF i
<1> QED BY <1>1, <1>6, <1>7

-----------------------------------------------------------------------------
(* Every statement.                                                        *)

(* From word to effect: a documented statement that the assembler takes    *)
(* does what inst.txt says of it, whatever its operands and the numbers    *)
(* they stand for, unless it is one of those named open ends.              *)
THEOREM StatementMeans ==
  ASSUME NEW ts \in Seq(STRING), NEW lb, lb \in [DOMAIN lb -> Immediates],
         Doc!Documented(ts, lb), ~Doc!Departs(ts), ~Rejected(parseTokens(ts, lb))
  PROVE  Effects(Unpack(Word(parseTokens(ts, lb)))) = Doc!Meaning(ts, lb)
<1> SUFFICES Effects(parseTokens(ts, lb)) = Doc!Meaning(ts, lb)
  BY StatementIsUnpacked, Zenon
<1>1. Len(ts) \in Nat \ {0} BY Forms
<1>2. Head(ts) = ts[1] BY <1>1
<1>3. CASE Ordinary(ts, lb)
  <2>1. \/ ts[1] \in {"add", "sub", "inc", "dec"}
        \/ ts[1] \in BranchWords
        \/ ts[1] \in {"mov", "movi"}
        \/ ts[1] \in {"sf", "sfz"}
        \/ ts[1] \in {"rdp", "rdw", "rde"}
        \/ ts[1] \in {"wdp", "wde", "wds"}
        \/ ts[1] \in {"gad", "stall"}
        \/ ts[1] = "popq"
    <3>1. ts[1] \in Doc!Mnemonics BY <1>3 DEF Ordinary
    <3> QED BY <3>1 DEF Doc!Mnemonics, Doc!Compares, BranchWords
  <2>2. CASE ts[1] \in {"add", "sub", "inc", "dec"}
    BY <1>1, <1>2, <1>3, <2>2, AluMeans, Zenon
  <2>3. CASE ts[1] \in BranchWords BY <1>1, <1>2, <1>3, <2>3, BranchMeans, Zenon
  <2>4. CASE ts[1] \in {"mov", "movi"} BY <1>1, <1>2, <1>3, <2>4, MoveMeans, Zenon
  <2>5. CASE ts[1] \in {"sf", "sfz"} BY <1>1, <1>2, <1>3, <2>5, FlagMeans, Zenon
  <2>6. CASE ts[1] \in {"rdp", "rdw", "rde"}
    BY <1>1, <1>2, <1>3, <2>6, ReadDirMeans, Zenon
  <2>7. CASE ts[1] \in {"wdp", "wde", "wds"}
    BY <1>1, <1>2, <1>3, <2>7, WriteDirMeans, Zenon
  <2>8. CASE ts[1] \in {"gad", "stall"} BY <1>1, <1>2, <1>3, <2>8, MiscMeans, Zenon
  <2>9. CASE ts[1] = "popq" BY <1>1, <1>2, <1>3, <2>9, PopMeans, Zenon
  <2> QED BY <2>1, <2>2, <2>3, <2>4, <2>5, <2>6, <2>7, <2>8, <2>9, Zenon
<1>4. CASE NextState(ts) BY <1>1, <1>2, <1>4, NextStateMeans, Zenon
<1>5. CASE Waits(ts) BY <1>1, <1>2, <1>5, WaitMeans, Zenon
<1>6. CASE Commands(ts) BY <1>1, <1>2, <1>6, CommandMeans, Zenon
<1>7. CASE ts \in Doc!Pushes BY <1>1, <1>2, <1>7, PushMeans, Zenon
<1> QED BY <1>3, <1>4, <1>5, <1>6, <1>7, Forms
=============================================================================
