---------------------------- MODULE FsExecProofs ----------------------------
(***************************************************************************)
(* No request of fs.exec leaves a handle behind that the 6502 was not      *)
(* given, for any number of handles, drives and processes, any paths and   *)
(* any memory layout.                                                      *)
(***************************************************************************)
EXTENDS FsExec, SequenceTheorems, WellFoundedInduction, TLAPS

(* Recursion over a path.  Induction is used with a set in the place of a  *)
(* predicate, and rests on the well-foundedness of < on Nat.               *)

LEMMA SetInduction ==
  ASSUME NEW S, 0 \in S, \A n \in Nat : n \in S => n + 1 \in S
  PROVE  Nat \subseteq S
<1> SUFFICES ASSUME Nat \ S # {} PROVE FALSE
  OBVIOUS
<1> DEFINE T == Nat \ S
           R == OpToRel(<, Nat)
<1>1. IsWellFoundedOn(R, Nat)
  BY NatLessThanWellFounded
<1>2. \A x, y \in Nat : <<x, y>> \in R <=> x < y
  BY DEF OpToRel
<1>3. T \subseteq Nat /\ T # {}
  OBVIOUS
<1> HIDE DEF R, T
<1>4. PICK x \in T : \A y \in T : ~(<<y, x>> \in R)
  BY <1>1, <1>3, WFMin
<1>5. x \in Nat /\ x # 0
  BY <1>3 DEF T
<1>6. x - 1 \in Nat /\ x - 1 < x /\ (x - 1) + 1 = x
  BY <1>5
<1>7. x - 1 \notin T
  BY <1>2, <1>4, <1>5, <1>6
<1>8. x - 1 \in S
  BY <1>6, <1>7 DEF T
<1>9. x \in S
  BY <1>6, <1>8
<1> QED
  BY <1>9 DEF T

\* Two functions that begin alike and go on alike are alike.
LEMMA Agree ==
  ASSUME NEW N \in Nat, NEW a, NEW b, a[0] = b[0],
         \A n \in 1 .. N : a[n - 1] = b[n - 1] => a[n] = b[n]
  PROVE  \A n \in 0 .. N : a[n] = b[n]
<1> DEFINE S == {n \in Nat : n <= N => a[n] = b[n]}
<1>1. 0 \in S
  OBVIOUS
<1>2. ASSUME NEW n \in Nat, n \in S
      PROVE  n + 1 \in S
  <2> SUFFICES ASSUME n + 1 <= N PROVE a[n + 1] = b[n + 1]
    OBVIOUS
  <2>1. n + 1 \in 1 .. N /\ (n + 1) - 1 = n /\ n <= N
    OBVIOUS
  <2>2. a[n] = b[n]
    BY <1>2, <2>1
  <2> QED
    BY <2>1, <2>2
<1> HIDE DEF S
<1>3. Nat \subseteq S
  BY <1>1, <1>2, SetInduction
<1> QED
  BY <1>3 DEF S

\* The lengths of the components before each place.
SumsTo(p, m, g) ==
  /\ g \in [0 .. m -> Nat] /\ g[0] = 0
  /\ \A n \in 1 .. m : g[n] = g[n - 1] + NameLength[p[n]]

Sums(p, g) == SumsTo(p, Len(p), g)

LEMMA SumsExist ==
  ASSUME NEW p \in Seq(Names)
  PROVE  \E g : Sums(p, g)
<1> DEFINE S == {m \in Nat : m <= Len(p) => \E g : SumsTo(p, m, g)}
<1>1. 0 \in S
  <2>1. SumsTo(p, 0, [n \in 0 .. 0 |-> 0])
    BY DEF SumsTo
  <2> QED
    BY <2>1
<1>2. ASSUME NEW m \in Nat, m \in S
      PROVE  m + 1 \in S
  <2> SUFFICES ASSUME m + 1 <= Len(p) PROVE \E g : SumsTo(p, m + 1, g)
    OBVIOUS
  <2>1. Len(p) \in Nat /\ m <= Len(p) /\ m + 1 \in 1 .. Len(p)
    BY LenProperties
  <2>2. PICK g : SumsTo(p, m, g)
    BY <1>2, <2>1
  <2>3. NameLength[p[m + 1]] \in Nat
    BY <2>1, LenProperties, ElementOfSeq, FsAssumption
  <2> DEFINE h == [n \in 0 .. m + 1 |-> IF n = m + 1 THEN g[m] + NameLength[p[m + 1]] ELSE g[n]]
  <2>4. h \in [0 .. m + 1 -> Nat] /\ h[0] = 0
    BY <2>2, <2>3 DEF SumsTo
  <2>5. \A n \in 1 .. m + 1 : h[n] = h[n - 1] + NameLength[p[n]]
    <3> TAKE n \in 1 .. m + 1
    <3>1. n - 1 \in 0 .. m /\ n - 1 # m + 1 /\ n \in 0 .. m + 1 /\ n - 1 \in 0 .. m + 1
      OBVIOUS
    <3>2. h[n - 1] = g[n - 1]
      BY <3>1
    <3>3. CASE n = m + 1
      <4>1. h[n] = g[m] + NameLength[p[n]] /\ n - 1 = m
        BY <3>1, <3>3
      <4> QED
        BY <3>2, <4>1
    <3>4. CASE n # m + 1
      <4>1. h[n] = g[n] /\ n \in 1 .. m
        BY <3>1, <3>4
      <4> QED
        BY <2>2, <3>2, <4>1 DEF SumsTo
    <3> QED
      BY <3>3, <3>4
  <2>6. SumsTo(p, m + 1, h)
    BY <2>4, <2>5 DEF SumsTo
  <2> QED
    BY <2>6
<1> HIDE DEF S
<1>3. Nat \subseteq S
  BY <1>1, <1>2, SetInduction
<1>4. Len(p) \in Nat
  BY LenProperties
<1> QED
  BY <1>3, <1>4 DEF S, Sums

\* strlen is the sum over all components, and a slash between any two.
LEMMA StrlenIs ==
  ASSUME NEW p \in Seq(Names), NEW g, Sums(p, g), p # <<>>
  PROVE  strlen(p) = g[Len(p)] + Len(p) - 1
<1> DEFINE Rec(u) == u = [n \in 0 .. Len(p) |->
                           IF n = 0 THEN 0
                           ELSE u[n - 1] + (IF p[n] \in Names THEN NameLength[p[n]] ELSE Len(p[n]))]
<1>0. Len(p) \in Nat
  BY LenProperties
<1>1. \A n \in 1 .. Len(p) : p[n] \in Names
  BY ElementOfSeq
<1>2. Rec(g)
  BY <1>1 DEF Sums, SumsTo
<1>3. PICK u : Rec(u) /\ strlen(p) = u[Len(p)] + Len(p) - 1
  BY <1>2 DEF strlen
<1>4. u[0] = g[0]
  BY <1>0, <1>3 DEF Sums, SumsTo
<1>5. \A n \in 1 .. Len(p) : u[n - 1] = g[n - 1] => u[n] = g[n]
  <2> TAKE n \in 1 .. Len(p)
  <2>1. n \in 0 .. Len(p) /\ n # 0
    BY <1>0
  <2>2. u[n] = u[n - 1] + NameLength[p[n]]
    BY <1>1, <1>3, <2>1
  <2> QED
    BY <2>2 DEF Sums, SumsTo
<1>6. u[Len(p)] = g[Len(p)]
  <2> HIDE DEF Rec
  <2>1. \A n \in 0 .. Len(p) : u[n] = g[n]
    BY ZenonT(60), <1>0, <1>4, <1>5, Agree
  <2> QED
    BY <1>0, <2>1
<1> QED
  BY <1>3, <1>6

\* A beginning of a path is no longer than the path.
LEMMA StrlenPrefix ==
  ASSUME NEW p \in Seq(Names), NEW n \in 0 .. Len(p)
  PROVE  /\ strlen(p) \in Nat /\ strlen(SubSeq(p, 1, n)) \in Nat
         /\ strlen(SubSeq(p, 1, n)) <= strlen(p)
<1> DEFINE q == SubSeq(p, 1, n)
<1>0. Len(p) \in Nat /\ n \in Nat /\ n <= Len(p)
  BY LenProperties
<1>1. q \in Seq(Names) /\ Len(q) = n /\ \A k \in 1 .. n : q[k] = p[k]
  BY <1>0, SubSeqProperties
<1>2. PICK g : Sums(p, g)
  BY SumsExist
<1> DEFINE h == [k \in 0 .. n |-> g[k]]
<1>3. Sums(q, h)
  BY SMTT(30), <1>0, <1>1, <1>2 DEF Sums, SumsTo
<1>4. \A m \in 1 .. Len(p) : NameLength[p[m]] \in Nat
  BY ElementOfSeq, FsAssumption
<1>5. g[n] \in Nat /\ g[Len(p)] \in Nat /\ g[n] <= g[Len(p)]
  <2> DEFINE S == {m \in Nat : n + m <= Len(p) => g[n] <= g[n + m]}
  <2>0. \A k \in 0 .. Len(p) : g[k] \in Nat
    BY <1>2 DEF Sums, SumsTo
  <2>1. 0 \in S
    BY <1>0, <2>0
  <2>2. ASSUME NEW m \in Nat, m \in S
        PROVE  m + 1 \in S
    <3> SUFFICES ASSUME n + (m + 1) <= Len(p) PROVE g[n] <= g[n + (m + 1)]
      OBVIOUS
    <3>1. /\ n + (m + 1) \in 1 .. Len(p) /\ (n + (m + 1)) - 1 = n + m /\ n + m <= Len(p)
          /\ n + m \in 0 .. Len(p) /\ n + (m + 1) \in 0 .. Len(p)
      BY <1>0
    <3>2. g[n + (m + 1)] = g[n + m] + NameLength[p[n + (m + 1)]]
      BY <1>2, <3>1 DEF Sums, SumsTo
    <3>3. NameLength[p[n + (m + 1)]] \in Nat /\ g[n + m] \in Nat /\ g[n] \in Nat
      BY <1>0, <1>4, <2>0, <3>1
    <3>4. g[n] <= g[n + m]
      BY <2>2, <3>1
    <3> QED
      BY ONLY <3>2, <3>3, <3>4
  <2> HIDE DEF S
  <2>3. Nat \subseteq S
    BY <2>1, <2>2, SetInduction
  <2>4. Len(p) - n \in S /\ n + (Len(p) - n) = Len(p)
    BY <1>0, <2>3
  <2> QED
    BY <1>0, <2>0, <2>4 DEF S
<1>6. strlen(<<>>) = 0
  BY DEF strlen
<1>7. p = <<>> \/ (strlen(p) = g[Len(p)] + Len(p) - 1 /\ Len(p) >= 1)
  <2>1. p = <<>> \/ Len(p) # 0
    BY EmptySeq
  <2> QED
    BY <1>0, <1>2, <2>1, StrlenIs
<1>8. q = <<>> \/ (strlen(q) = g[n] + n - 1 /\ n >= 1)
  <2>1. q = <<>> \/ Len(q) # 0
    BY <1>1, EmptySeq
  <2>2. h[n] = g[n]
    BY <1>0
  <2> HIDE DEF h, q
  <2> QED
    BY <1>0, <1>1, <1>3, <2>1, <2>2, StrlenIs
<1>9. p = <<>> => q = <<>>
  <2>1. p = <<>> => Len(q) = 0
    BY <1>0, <1>1
  <2> QED
    BY <1>1, <2>1, EmptySeq
<1>10. strlen(p) \in Nat /\ strlen(q) \in Nat /\ strlen(q) <= strlen(p)
  <2> HIDE DEF q
  <2>1. CASE p = <<>>
    BY <1>6, <1>9, <2>1
  <2>2. CASE p # <<>> /\ q = <<>>
    BY <1>0, <1>5, <1>6, <1>7, <2>2
  <2>3. CASE p # <<>> /\ q # <<>>
    BY <1>0, <1>5, <1>7, <1>8, <2>3
  <2> QED
    BY <2>1, <2>2, <2>3
<1> QED
  BY <1>10

\* What a component of the input does to the path so far.
Take(q, c) ==
  CASE q = Bad \/ c = "." -> q
    [] c = ".." /\ q # Bad -> rp_fs_path_pop_component(q)
    [] OTHER -> IF rp_fs_path_component_valid_83(c)
                THEN rp_fs_path_append_component(q, c) ELSE Bad

WalksTo(from, comps, m, g) ==
  /\ DOMAIN g = 0 .. m /\ g[0] = from
  /\ \A n \in 1 .. m : g[n] = Take(g[n - 1], comps[n])

LEMMA WalkIs ==
  ASSUME NEW from, NEW S, NEW comps \in Seq(S), NEW g, WalksTo(from, comps, Len(comps), g)
  PROVE  Walk(from, comps) = g[Len(comps)]
<1> DEFINE Rec(u) ==
      u = [n \in 0 .. Len(comps) |->
            IF n = 0 THEN from
            ELSE CASE u[n - 1] = Bad \/ comps[n] = "." -> u[n - 1]
                   [] comps[n] = ".." /\ u[n - 1] # Bad -> rp_fs_path_pop_component(u[n - 1])
                   [] OTHER -> IF rp_fs_path_component_valid_83(comps[n])
                               THEN rp_fs_path_append_component(u[n - 1], comps[n]) ELSE Bad]
<1>0. Len(comps) \in Nat
  BY LenProperties
<1> DEFINE f == [n \in 0 .. Len(comps) |-> g[n]]
<1>1. Rec(f)
  <2>1. f[0] = from
    BY <1>0 DEF WalksTo
  <2>2. \A n \in 1 .. Len(comps) : f[n] = Take(f[n - 1], comps[n])
    BY <1>0 DEF WalksTo
  <2>3. \A n \in 0 .. Len(comps) : n # 0 => n \in 1 .. Len(comps)
    BY <1>0
  <2> QED
    BY <2>1, <2>2, <2>3 DEF Take
<1>2. PICK u : Rec(u) /\ Walk(from, comps) = u[Len(comps)]
  <2> HIDE DEF f
  <2> QED
    BY <1>1 DEF Walk
<1>3. u[0] = f[0]
  BY <1>0, <1>2 DEF WalksTo
<1>4. \A n \in 1 .. Len(comps) : u[n - 1] = f[n - 1] => u[n] = f[n]
  <2> TAKE n \in 1 .. Len(comps)
  <2>1. n \in 0 .. Len(comps) /\ n # 0 /\ n - 1 \in 0 .. Len(comps)
    BY <1>0
  <2>2. u[n] = Take(u[n - 1], comps[n])
    BY <1>2, <2>1 DEF Take
  <2>3. f[n] = Take(f[n - 1], comps[n])
    BY <2>1 DEF WalksTo
  <2> QED
    BY <2>2, <2>3
<1>5. u[Len(comps)] = f[Len(comps)]
  <2> HIDE DEF Rec, f
  <2>1. \A n \in 0 .. Len(comps) : u[n] = f[n]
    BY ZenonT(60), <1>0, <1>3, <1>4, Agree
  <2> QED
    BY <1>0, <2>1
<1> QED
  BY <1>0, <1>2, <1>5

LEMMA TakeType ==
  ASSUME NEW q \in Seq(Names) \union {Bad}, NEW c
  PROVE  Take(q, c) \in Seq(Names) \union {Bad}
<1>1. CASE q = Bad
  BY <1>1 DEF Take
<1>2. CASE q # Bad
  <2>1. q \in Seq(Names)
    BY <1>2
  <2>2. rp_fs_path_pop_component(q) \in Seq(Names)
    <3>1. CASE q = <<>>
      BY <2>1, <3>1 DEF rp_fs_path_pop_component
    <3>2. CASE q # <<>>
      <4>1. Len(q) \in Nat /\ Len(q) # 0
        BY <2>1, <3>2, EmptySeq, LenProperties
      <4>2. \A k \in 1 .. Len(q) - 1 : k \in 1 .. Len(q)
        BY <4>1
      <4>3. Parent(q) \in Seq(Names)
        BY <2>1, <4>1, <4>2, SubSeqProperties, ElementOfSeq DEF Parent
      <4> QED
        BY <3>2, <4>3 DEF rp_fs_path_pop_component
    <3> QED
      BY <3>1, <3>2
  <2>3. c \in Names => Append(q, c) \in Seq(Names)
    BY <2>1, AppendProperties
  <2>4. Take(q, c) \in {q, rp_fs_path_pop_component(q), Bad} \/ (c \in Names /\ Take(q, c) = Append(q, c))
    BY <1>2 DEF Take, rp_fs_path_append_component, rp_fs_path_component_valid_83
  <2> QED
    BY <2>1, <2>2, <2>3, <2>4
<1> QED
  BY <1>1, <1>2

\* Wherever a path leads, it is one of valid components, or refused.
LEMMA WalkType ==
  ASSUME NEW from \in Seq(Names), NEW T, NEW comps \in Seq(T)
  PROVE  Walk(from, comps) \in Seq(Names) \union {Bad}
<1> DEFINE Paths == Seq(Names) \union {Bad}
           S == {m \in Nat : \E g : WalksTo(from, comps, m, g) /\ g[m] \in Paths}
<1>1. 0 \in S
  <2>1. WalksTo(from, comps, 0, [n \in 0 .. 0 |-> from])
    BY DEF WalksTo
  <2> QED
    BY <2>1
<1>2. ASSUME NEW m \in Nat, m \in S
      PROVE  m + 1 \in S
  <2>1. PICK g : WalksTo(from, comps, m, g) /\ g[m] \in Paths
    BY <1>2
  <2> DEFINE h == [n \in 0 .. m + 1 |-> IF n = m + 1 THEN Take(g[m], comps[m + 1]) ELSE g[n]]
  <2>2. DOMAIN h = 0 .. m + 1 /\ h[0] = from
    BY <2>1 DEF WalksTo
  <2>3. \A n \in 1 .. m + 1 : h[n] = Take(h[n - 1], comps[n])
    <3> TAKE n \in 1 .. m + 1
    <3>1. n - 1 \in 0 .. m /\ n - 1 # m + 1 /\ n \in 0 .. m + 1 /\ n - 1 \in 0 .. m + 1
      OBVIOUS
    <3>2. h[n - 1] = g[n - 1]
      BY <3>1
    <3>3. CASE n = m + 1
      <4>1. h[n] = Take(g[m], comps[n]) /\ n - 1 = m
        BY <3>1, <3>3
      <4> QED
        BY <3>2, <4>1
    <3>4. CASE n # m + 1
      <4>1. h[n] = g[n] /\ n \in 1 .. m
        BY <3>1, <3>4
      <4> QED
        BY <2>1, <3>2, <4>1 DEF WalksTo
    <3> QED
      BY <3>3, <3>4
  <2>4. h[m + 1] = Take(g[m], comps[m + 1])
    OBVIOUS
  <2> HIDE DEF h
  <2>5. WalksTo(from, comps, m + 1, h)
    BY <2>2, <2>3 DEF WalksTo
  <2>6. h[m + 1] \in Paths
    BY <2>1, <2>4, TakeType
  <2> QED
    BY <2>5, <2>6
<1> HIDE DEF S
<1>3. Len(comps) \in S
  BY <1>1, <1>2, SetInduction, LenProperties
<1>4. PICK g : WalksTo(from, comps, Len(comps), g) /\ g[Len(comps)] \in Paths
  BY <1>3 DEF S
<1> QED
  BY <1>4, WalkIs

\* A path of valid components that fits the buffer leads to itself.
LEMMA WalkBack ==
  ASSUME NEW p \in Seq(Names), strlen(p) < PATH_MAX
  PROVE  Walk(<<>>, p) = p
<1> DEFINE g == [n \in 0 .. Len(p) |-> SubSeq(p, 1, n)]
<1>0. Len(p) \in Nat
  BY LenProperties
<1>1. DOMAIN g = 0 .. Len(p) /\ g[0] = <<>>
  BY <1>0, SubSeqEmpty
<1>2. \A n \in 1 .. Len(p) : g[n] = Take(g[n - 1], p[n])
  <2> TAKE n \in 1 .. Len(p)
  <2>1. n \in 0 .. Len(p) /\ n - 1 \in 0 .. Len(p) /\ n \in Nat /\ n - 1 \in Nat
    BY <1>0
  <2>2. g[n] = SubSeq(p, 1, n) /\ g[n - 1] = SubSeq(p, 1, n - 1)
    BY <2>1
  <2> HIDE DEF g
  <2> DEFINE q == SubSeq(p, 1, n - 1)
  <2>3. p[n] \in Names /\ \A k \in 1 .. n - 1 : p[k] \in Names
    BY <1>0, ElementOfSeq
  <2>4. /\ q \in Seq(Names) /\ Len(q) = n - 1 /\ \A k \in 1 .. n - 1 : q[k] = p[k]
        /\ SubSeq(p, 1, n) \in Seq(Names) /\ Len(SubSeq(p, 1, n)) = n
        /\ \A k \in 1 .. n : SubSeq(p, 1, n)[k] = p[k]
    BY <1>0, <2>1, SubSeqProperties
  <2> HIDE DEF q
  <2>5. /\ Append(q, p[n]) \in Seq(Names) /\ Len(Append(q, p[n])) = n
        /\ \A k \in 1 .. n - 1 : Append(q, p[n])[k] = q[k]
        /\ Append(q, p[n])[n] = p[n]
    BY <2>1, <2>3, <2>4, AppendProperties
  <2>6. Append(q, p[n]) = SubSeq(p, 1, n)
    <3>1. \A k \in 1 .. n : Append(q, p[n])[k] = SubSeq(p, 1, n)[k]
      <4> TAKE k \in 1 .. n
      <4>1. k = n \/ k \in 1 .. n - 1
        BY <2>1
      <4> QED
        BY <2>4, <2>5, <4>1
    <3> QED
      BY <2>4, <2>5, <3>1, SeqEqual
  <2>7. strlen(Append(q, p[n])) < PATH_MAX
    <3>1. strlen(SubSeq(p, 1, n)) <= strlen(p) /\ strlen(p) \in Nat /\ strlen(SubSeq(p, 1, n)) \in Nat
      BY <2>1, StrlenPrefix
    <3>2. PATH_MAX \in Nat
      BY FsAssumption
    <3> QED
      BY <2>6, <3>1, <3>2
  <2>8. ~(strlen(Append(q, p[n])) >= PATH_MAX)
    <3>1. strlen(Append(q, p[n])) \in Nat /\ PATH_MAX \in Nat
      BY <2>1, <2>6, StrlenPrefix, FsAssumption
    <3> QED
      BY <2>7, <3>1
  <2>9. q # Bad
    <3>1. CASE q = Bad
      <4>1. Len(q) = 1 /\ q[1] = Bad[1]
        BY <3>1 DEF Bad
      <4>2. 1 \in 1 .. Len(q) /\ q \in Seq(Names)
        <5>1. 1 \in 1 .. Len(q)
          BY ONLY <4>1
        <5>2. q \in Seq(Names)
          BY ONLY <2>4
        <5> QED
          BY <5>1, <5>2
      <4>3. q[1] \in Names
        BY ONLY <4>2, ElementOfSeq
      <4> QED
        BY <4>1, <4>3, FsAssumption
    <3> QED
      BY <3>1
  <2>10. p[n] # "." /\ p[n] # ".."
    BY <2>3, FsAssumption
  <2>11. Take(q, p[n]) = Append(q, p[n])
    BY <2>3, <2>8, <2>9, <2>10 DEF Take, rp_fs_path_append_component, rp_fs_path_component_valid_83
  <2> QED
    BY <2>2, <2>6, <2>11 DEF q
<1>3. g[Len(p)] = p
  <2>1. g[Len(p)] = SubSeq(p, 1, Len(p))
    BY <1>0
  <2> QED
    BY <2>1, SubSeqFull
<1> HIDE DEF g
<1>4. WalksTo(<<>>, p, Len(p), g)
  BY <1>1, <1>2 DEF WalksTo
<1> QED
  BY <1>3, <1>4, WalkIs

-----------------------------------------------------------------------------
(* What is on the sticks: paths of valid components, directories and files *)
(* of a size that fits.                                                    *)

Entries(e) == \A p \in DOMAIN e : p \in Seq(Names) /\ e[p] \in {DIR} \union 0 .. MaxSize
Disks(x) == DOMAIN x = Devices /\ \A d \in Devices : Entries(x[d])

LEMMA WithTypes ==
  ASSUME Disks(disk), NEW d \in Devices, NEW p \in Seq(Names), NEW what \in {DIR} \union 0 .. MaxSize
  PROVE  Disks(With(d, p, what))
<1> DEFINE new == [q \in DOMAIN disk[d] \union {p} |-> IF q = p THEN what ELSE disk[d][q]]
<1>1. With(d, p, what) = [disk EXCEPT ![d] = new]
  BY DEF With
<1>2. Entries(new)
  BY DEF Disks, Entries
<1> HIDE DEF new
<1> QED
  BY <1>1, <1>2 DEF Disks

LEMMA WithoutTypes ==
  ASSUME Disks(disk), NEW d \in Devices, NEW S
  PROVE  Disks(Without(d, S))
<1> DEFINE new == [q \in DOMAIN disk[d] \ S |-> disk[d][q]]
<1>1. Without(d, S) = [disk EXCEPT ![d] = new]
  BY DEF Without
<1>2. Entries(new)
  BY DEF Disks, Entries
<1> HIDE DEF new
<1> QED
  BY <1>1, <1>2 DEF Disks

\* What follows the first of two concatenated paths is the second.
LEMMA AfterConcat ==
  ASSUME NEW q \in Seq(Names), NEW x \in Seq(Names)
  PROVE  /\ q \o x \in Seq(Names)
         /\ SubSeq(q \o x, Len(q) + 1, Len(q \o x)) = x
<1>0. Len(q) \in Nat /\ Len(x) \in Nat
  BY LenProperties
<1> DEFINE r == q \o x
<1>1. /\ r \in Seq(Names) /\ Len(r) = Len(q) + Len(x)
      /\ \A i \in 1 .. Len(q) + Len(x) : r[i] = IF i <= Len(q) THEN q[i] ELSE x[i - Len(q)]
  BY ConcatProperties
<1> HIDE DEF r
<1> DEFINE y == SubSeq(r, Len(q) + 1, Len(r))
<1>2. \A i \in Len(q) + 1 .. Len(r) : r[i] \in Names
  BY <1>0, <1>1, ElementOfSeq
<1>3. Len(q) + 1 \in Int /\ Len(r) \in Int
  BY <1>0, <1>1
<1>4. /\ y \in Seq(Names)
      /\ Len(y) = IF Len(q) + 1 <= Len(r) THEN Len(r) - (Len(q) + 1) + 1 ELSE 0
      /\ \A i \in 1 .. Len(r) - (Len(q) + 1) + 1 : y[i] = r[(Len(q) + 1) + i - 1]
  BY <1>2, <1>3, SubSeqProperties
<1> HIDE DEF y
<1>5. Len(y) = Len(x)
  BY <1>0, <1>1, <1>4
<1>6. \A i \in 1 .. Len(x) : y[i] = x[i]
  <2> TAKE i \in 1 .. Len(x)
  <2>1. i \in 1 .. Len(r) - (Len(q) + 1) + 1 /\ (Len(q) + 1) + i - 1 = Len(q) + i
    BY <1>0, <1>1
  <2>2. Len(q) + i \in 1 .. Len(q) + Len(x) /\ ~(Len(q) + i <= Len(q)) /\ (Len(q) + i) - Len(q) = i
    BY <1>0
  <2>3. y[i] = r[Len(q) + i]
    BY <1>4, <2>1
  <2>4. r[Len(q) + i] = x[i]
    BY <1>1, <2>2
  <2> QED
    BY <2>3, <2>4
<1>7. y = x
  BY <1>4, <1>5, <1>6, SeqEqual
<1> QED
  BY <1>1, <1>7 DEF r, y

LEMMA RenamedTypes ==
  ASSUME Disks(disk), NEW d \in Devices, NEW p \in Seq(Names), NEW q \in Seq(Names)
  PROVE  Disks(Renamed(d, p, q))
<1> DEFINE rest(r) == SubSeq(r, Len(p) + 1, Len(r))
           kept == DOMAIN disk[d] \ Under(d, p)
           moved == IF Len(q) > Len(p) /\ SubSeq(q, 1, Len(p)) = p THEN {}
                    ELSE {q \o rest(r) : r \in Under(d, p)}
           new == [r \in kept \union moved |->
                    IF r \in kept THEN disk[d][r] ELSE disk[d][p \o SubSeq(r, Len(q) + 1, Len(r))]]
<1>1. Renamed(d, p, q) = [disk EXCEPT ![d] = new]
  BY DEF Renamed
<1>2. ASSUME NEW r \in Under(d, p)
      PROVE  /\ r \in DOMAIN disk[d] /\ rest(r) \in Seq(Names) /\ p \o rest(r) = r
  <2>1. r \in DOMAIN disk[d] /\ r \in Seq(Names) /\ Len(r) >= Len(p) /\ SubSeq(r, 1, Len(p)) = p
    BY DEF Under, Disks, Entries
  <2>2. Len(r) \in Nat /\ Len(p) \in Nat
    BY <2>1, LenProperties
  <2>3. \A i \in Len(p) + 1 .. Len(r) : r[i] \in Names
    <3> TAKE i \in Len(p) + 1 .. Len(r)
    <3>1. i \in 1 .. Len(r)
      BY <2>2
    <3> QED
      BY <2>1, <3>1, ElementOfSeq
  <2>4. Len(p) + 1 \in Int /\ Len(r) \in Int
    BY <2>2
  <2>5. rest(r) \in Seq(Names)
    BY <2>3, <2>4, SubSeqProperties
  <2>6. SubSeq(r, 1, Len(p)) \o SubSeq(r, Len(p) + 1, Len(r)) = SubSeq(r, 1, Len(r))
    <3>1. /\ 1 \in 1 .. Len(r) + 1 /\ Len(p) \in 1 - 1 .. Len(r) /\ Len(r) \in Len(p) .. Len(r)
      BY <2>1, <2>2
    <3> QED
      BY <2>1, <3>1, ConcatAdjacentSubSeq
  <2> QED
    BY <2>1, <2>5, <2>6, SubSeqFull
<1>3. ASSUME NEW r \in moved
      PROVE  /\ r \in Seq(Names)
             /\ p \o SubSeq(r, Len(q) + 1, Len(r)) \in DOMAIN disk[d]
  <2>1. PICK s \in Under(d, p) : r = q \o rest(s)
    OBVIOUS
  <2>2. rest(s) \in Seq(Names) /\ p \o rest(s) = s /\ s \in DOMAIN disk[d]
    BY <1>2
  <2>3. PICK x \in Seq(Names) : x = rest(s)
    BY <2>2
  <2> HIDE DEF rest
  <2>4. r \in Seq(Names) /\ SubSeq(r, Len(q) + 1, Len(r)) = x
    BY <2>1, <2>3, AfterConcat
  <2> QED
    BY <2>2, <2>3, <2>4
<1>4. \A r \in kept : r \in DOMAIN disk[d]
  OBVIOUS
<1> HIDE DEF kept, moved
<1>5. Entries(new)
  <2> SUFFICES ASSUME NEW r \in kept \union moved
               PROVE  r \in Seq(Names) /\ new[r] \in {DIR} \union 0 .. MaxSize
    BY DEF Entries
  <2>1. CASE r \in kept
    BY <1>4, <2>1 DEF Disks, Entries
  <2>2. CASE r \notin kept
    BY <1>3, <2>2 DEF Disks, Entries
  <2> QED
    BY <2>1, <2>2
<1> HIDE DEF new
<1> QED
  BY <1>1, <1>5 DEF Disks

-----------------------------------------------------------------------------
(* The type invariant.                                                     *)

Errors == {"OK", "EINVAL", "ENOENT", "EIO", "ENOMEM"}

FileOK(f) ==
  /\ f \in [in_use : BOOLEAN, device : Devices, path : Seq(Names), flags : Flags, pos : Nat, size : Nat]
  /\ f.in_use => f.device \in mounted /\ f.flags # {}
  /\ f.size <= MaxSize /\ f.pos <= f.size
  /\ f.in_use \/ f = NoFile

DirOK(f) ==
  /\ f \in [in_use : BOOLEAN, device : Devices, path : Seq(Names), index : Nat]
  /\ f.in_use => f.device \in mounted
  /\ f.in_use \/ f = NoDir

IsTable(t) == t = [h \in Handles |-> t[h]]

FileTypes == IsTable(files) /\ \A h \in Handles : FileOK(files[h])
DirTypes == IsTable(dirs) /\ \A h \in Handles : DirOK(dirs[h])

CwdTypes ==
  /\ cwd \in [Pids -> [device : Devices, path : Seq(Names)]]
  /\ \A p \in Pids : strlen(cwd[p].path) < CWD_MAX

\* What the last request wrote is where it may write.
PieceInv ==
  \A w \in wrote : IF reply.op = "LOAD" THEN w[1] + w[2] <= Mem
                   ELSE w[1] > 0 /\ w[1] + w[2] <= PRIVATE_LIMIT

FsInv ==
  /\ Disks(disk) /\ FileTypes /\ DirTypes /\ CwdTypes /\ PieceInv
  /\ mounted \subseteq Devices
  /\ reply.err \in Errors

\* A set of numbers that is not empty has a first one.
LEMMA FirstOf ==
  ASSUME NEW S, S \subseteq Nat, S # {}
  PROVE  First(S) \in S
<1> DEFINE R == OpToRel(<, Nat)
<1>1. IsWellFoundedOn(R, Nat)
  BY NatLessThanWellFounded
<1>2. \A x, y \in Nat : <<x, y>> \in R <=> x < y
  BY DEF OpToRel
<1> HIDE DEF R
<1>3. PICK x \in S : \A y \in S : ~(<<y, x>> \in R)
  BY <1>1, WFMin
<1>4. ASSUME NEW y \in S
      PROVE  x <= y
  <2>1. x \in Nat /\ y \in Nat
    OBVIOUS
  <2>2. ~(y < x)
    BY <1>2, <1>3, <2>1
  <2> QED
    BY <2>1, <2>2
<1> QED
  BY <1>4 DEF First

\* One entry of a table replaced.
LEMMA Replaced ==
  ASSUME NEW t, IsTable(t), NEW u, NEW h \in Handles, NEW f, u = Opening(t, h, f)
  PROVE  IsTable(u) /\ u[h] = f /\ \A k \in Handles : k # h => u[k] = t[k]
  BY DEF IsTable, Opening

LEMMA NoneOK == FileOK(NoFile) /\ DirOK(NoDir)
<1>1. 0 \in Devices /\ <<>> \in Seq(Names) /\ MaxSize \in Nat
  BY FsAssumption, EmptySeq DEF Devices
<1> QED
  BY <1>1 DEF FileOK, DirOK, NoFile, NoDir, Flags

LEMMA RootOK == ASSUME NEW d \in Devices
                PROVE  Root(d) \in [device : Devices, path : Seq(Names)] /\ strlen(Root(d).path) < CWD_MAX
<1>1. Root(d).path = <<>> /\ strlen(<<>>) = 0
  BY DEF Root, strlen
<1>2. 0 < CWD_MAX
  BY FsAssumption
<1> QED
  BY <1>1, <1>2, EmptySeq DEF Root

LEMMA InitFsInv == Init => FsInv
<1> SUFFICES ASSUME Init PROVE FsInv
  OBVIOUS
<1>1. Disks(disk)
  BY DEF Init, Disks, Entries, Empty
<1>2. FileTypes /\ DirTypes
  BY NoneOK DEF Init, FileTypes, DirTypes, IsTable
<1>3. CwdTypes
  <2>1. 0 \in Devices
    BY FsAssumption DEF Devices
  <2> QED
    BY <2>1, RootOK DEF Init, CwdTypes
<1> QED
  BY <1>1, <1>2, <1>3 DEF Init, FsInv, PieceInv, Errors

\* A reset closes the files one after the other.
CloseOne(x, h) ==
  LET f == files[h]
  IN IF f.in_use /\ "WRITE" \in f.flags /\ f.path \in DOMAIN x[f.device] /\ x[f.device][f.path] # DIR
     THEN [x EXCEPT ![f.device][f.path] = f.size] ELSE x

LEMMA CloseOneTypes ==
  ASSUME NEW x, Disks(x), NEW h \in Handles, FileTypes
  PROVE  Disks(CloseOne(x, h))
<1> DEFINE f == files[h]
<1>1. f.device \in Devices /\ f.size \in 0 .. MaxSize
  BY SMTT(30), FsAssumption DEF FileTypes, FileOK
<1> HIDE DEF f
<1>2. CASE ~(f.in_use /\ "WRITE" \in f.flags /\ f.path \in DOMAIN x[f.device] /\ x[f.device][f.path] # DIR)
  BY <1>2 DEF CloseOne, f
<1>3. CASE f.in_use /\ "WRITE" \in f.flags /\ f.path \in DOMAIN x[f.device] /\ x[f.device][f.path] # DIR
  <2> DEFINE new == [x[f.device] EXCEPT ![f.path] = f.size]
  <2>1. CloseOne(x, h) = [x EXCEPT ![f.device] = new]
    BY <1>3 DEF CloseOne, f
  <2>2. DOMAIN new = DOMAIN x[f.device] /\ \A p \in DOMAIN new : new[p] \in {f.size, x[f.device][p]}
    OBVIOUS
  <2> HIDE DEF new
  <2>3. Entries(new)
    BY <1>1, <2>2 DEF Disks, Entries
  <2> QED
    BY <1>1, <2>1, <2>3 DEF Disks
<1> QED
  BY <1>2, <1>3

LEMMA ResetTypes ==
  ASSUME FsInv, rp_fs_mailbox_reset
  PROVE  Disks(disk')
<1> DEFINE N == MAX_HANDLES
           Rec(u) == u = [n \in 0 .. N |->
                           IF n = 0 THEN disk
                           ELSE LET f == files[n - 1]
                                IN IF f.in_use /\ "WRITE" \in f.flags /\ f.path \in DOMAIN u[n - 1][f.device]
                                      /\ u[n - 1][f.device][f.path] # DIR
                                   THEN [u[n - 1] EXCEPT ![f.device][f.path] = f.size]
                                   ELSE u[n - 1]]
           Upto(m, g) == /\ DOMAIN g = 0 .. m /\ g[0] = disk
                         /\ \A n \in 1 .. m : g[n] = CloseOne(g[n - 1], n - 1)
           S == {m \in Nat : m <= N => \E g : Upto(m, g) /\ Disks(g[m])}
<1>0. N \in Nat
  BY FsAssumption
<1>1. 0 \in S
  <2>1. Upto(0, [n \in 0 .. 0 |-> disk])
    OBVIOUS
  <2> QED
    BY <2>1 DEF FsInv
<1>2. ASSUME NEW m \in Nat, m \in S
      PROVE  m + 1 \in S
  <2>1. CASE m + 1 <= N
    <3>1. m <= N /\ m \in Handles
      BY <1>0, <2>1 DEF Handles
    <3>2. PICK g : Upto(m, g) /\ Disks(g[m])
      BY <1>2, <3>1
    <3> DEFINE h == [n \in 0 .. m + 1 |-> IF n = m + 1 THEN CloseOne(g[m], m) ELSE g[n]]
    <3>3. DOMAIN h = 0 .. m + 1 /\ h[0] = disk /\ h[m + 1] = CloseOne(g[m], m)
      BY <3>2
    <3>4. \A n \in 1 .. m + 1 : h[n] = CloseOne(h[n - 1], n - 1)
      <4> TAKE n \in 1 .. m + 1
      <4>1. n - 1 \in 0 .. m /\ n - 1 # m + 1 /\ n \in 0 .. m + 1 /\ n - 1 \in 0 .. m + 1
        OBVIOUS
      <4>2. h[n - 1] = g[n - 1]
        BY <4>1
      <4>3. CASE n = m + 1
        <5>1. h[n] = CloseOne(g[m], m) /\ n - 1 = m
          BY <4>1, <4>3
        <5> QED
          BY <4>2, <5>1
      <4>4. CASE n # m + 1
        <5>1. h[n] = g[n] /\ n \in 1 .. m
          BY <4>1, <4>4
        <5> QED
          BY <3>2, <4>2, <5>1
      <4> QED
        BY <4>3, <4>4
    <3> HIDE DEF h
    <3>5. Disks(h[m + 1])
      BY <3>1, <3>2, <3>3, CloseOneTypes DEF FsInv
    <3>6. Upto(m + 1, h)
      BY <3>3, <3>4
    <3> HIDE DEF Upto
    <3> QED
      BY <3>5, <3>6
  <2>2. CASE ~(m + 1 <= N)
    BY <2>2
  <2> QED
    BY <2>1, <2>2
<1>3. PICK g : Upto(N, g) /\ Disks(g[N])
  <2>1. N \in S
    <3> HIDE DEF S
    <3> QED
      BY <1>0, <1>1, <1>2, SetInduction
  <2> HIDE DEF Upto
  <2> QED
    BY <1>0, <2>1
<1> DEFINE k == [n \in 0 .. N |-> g[n]]
<1>4. Rec(k)
  <2>1. k[0] = disk
    BY <1>0, <1>3
  <2>2. \A n \in 1 .. N : k[n] = CloseOne(k[n - 1], n - 1)
    BY <1>0, <1>3
  <2>3. \A n \in 0 .. N : n # 0 => n \in 1 .. N
    BY <1>0
  <2> QED
    BY <2>1, <2>2, <2>3 DEF CloseOne
<1>5. PICK u : Rec(u) /\ disk' = u[N]
  <2> HIDE DEF k
  <2> QED
    BY <1>4 DEF rp_fs_mailbox_reset
<1>6. u[0] = k[0]
  BY SMTT(30), <1>0, <1>3, <1>5
<1>7. \A n \in 1 .. N : u[n - 1] = k[n - 1] => u[n] = k[n]
  <2> TAKE n \in 1 .. N
  <2>1. n \in 0 .. N /\ n # 0 /\ n - 1 \in 0 .. N
    BY <1>0
  <2>2. u[n] = CloseOne(u[n - 1], n - 1)
    BY <1>5, <2>1 DEF CloseOne
  <2>3. k[n] = CloseOne(k[n - 1], n - 1)
    BY <1>3, <2>1
  <2> QED
    BY <2>2, <2>3
<1>8. u[N] = k[N]
  <2> HIDE DEF Rec, k, N
  <2>1. \A n \in 0 .. N : u[n] = k[n]
    BY <1>0, <1>6, <1>7, Agree
  <2> QED
    BY <1>0, <2>1
<1>9. k[N] = g[N]
  BY <1>0
<1> QED
  BY <1>3, <1>5, <1>8, <1>9

-----------------------------------------------------------------------------
(* Every request keeps the types.                                          *)

LEMMA RefuseInv ==
  ASSUME FsInv, NEW op, NEW err \in Errors, Refuse(op, err)
  PROVE  FsInv'
<1>1. /\ UNCHANGED <<mounted, disk, files, dirs, cwd>> /\ wrote' = {} /\ reply'.err = err
  BY DEF Refuse, Answer
<1> QED
  BY <1>1 DEF FsInv, PieceInv, FileTypes, DirTypes, CwdTypes, FileOK, DirOK, Disks

LEMMA FailureType == \A d : Failure(d) \in Errors
  BY DEF Failure, Errors

\* What a resolved path is.
LEMMA ResolveType ==
  ASSUME FsInv, NEW pid \in Pids, NEW s, NEW i \in Inputs, NEW to,
         to = rp_fs_mb_resolve_arg_path(pid, s, i), to.path # Bad
  PROVE  to.device \in Devices /\ to.path \in Seq(Names)
<1>1. to = rp_fs_resolve_process_path(pid, i)
  BY DEF rp_fs_mb_resolve_arg_path
<1>2. PICK device, from :
        /\ device = IF i.drive # None THEN i.drive ELSE cwd[pid].device
        /\ from = IF i.drive # None \/ i.root THEN <<>> ELSE cwd[pid].path
        /\ to = [device |-> device, path |-> IF device \in Devices THEN Walk(from, i.comps) ELSE Bad]
  BY <1>1 DEF rp_fs_resolve_process_path
<1>3. device \in Devices /\ to.device = device /\ to.path = Walk(from, i.comps)
  BY <1>2
<1>4. from \in Seq(Names)
  BY <1>2, EmptySeq DEF FsInv, CwdTypes
<1>5. Walk(from, i.comps) \in Seq(Names) \union {Bad}
  BY <1>4, WalkType, InputAssumption
<1> QED
  BY <1>3, <1>5

\* A file that is opened starts within its size.
LEMMA OpenedOK ==
  ASSUME FsInv, NEW d \in Devices, NEW p \in Seq(Names), NEW mode
  PROVE  LET f == rp_fs_open_mode_83(d, p, mode)
         IN /\ f \in [in_use : BOOLEAN, device : Devices, path : Seq(Names), flags : Flags, pos : Nat, size : Nat]
            /\ f.in_use /\ f.device = d /\ f.flags # {}
            /\ f.size <= MaxSize /\ f.pos <= f.size
<1>1. IsFile(d, p) => disk[d][p] \in 0 .. MaxSize
  BY DEF IsFile, FsInv, Disks, Entries
<1>2. MaxSize \in Nat
  BY FsAssumption
<1> DEFINE sz == IF IsFile(d, p) /\ mode # "WRITE_TRUNC" THEN disk[d][p] ELSE 0
           fl == CASE mode = "READ" -> {"READ"}
                   [] mode \in {"WRITE_TRUNC", "WRITE_EXISTING"} -> {"WRITE"}
                   [] OTHER -> {"READ", "WRITE"}
<1>3. sz \in Nat /\ sz <= MaxSize
  BY <1>1, <1>2
<1>4. fl \in Flags /\ fl # {}
  BY DEF Flags
<1>5. rp_fs_open_mode_83(d, p, mode) =
        [in_use |-> TRUE, device |-> d, path |-> p, pos |-> 0, flags |-> fl, size |-> sz]
  BY DEF rp_fs_open_mode_83
<1> HIDE DEF sz, fl
<1> QED
  BY <1>3, <1>4, <1>5

\* The handle that is opened is a free one.
LEMMA Free ==
  /\ FreeFiles # {} => First(FreeFiles) \in Handles /\ ~files[First(FreeFiles)].in_use
  /\ FreeDirs # {} => First(FreeDirs) \in Handles /\ ~dirs[First(FreeDirs)].in_use
<1>1. FreeFiles \subseteq Nat /\ FreeDirs \subseteq Nat
  BY FsAssumption DEF FreeFiles, FreeDirs, Handles
<1>2. FreeFiles # {} => First(FreeFiles) \in FreeFiles
  BY <1>1, FirstOf
<1>3. FreeDirs # {} => First(FreeDirs) \in FreeDirs
  BY <1>1, FirstOf
<1> QED
  BY <1>2, <1>3 DEF FreeFiles, FreeDirs

\* Opened and closed again, it is as it was.
LEMMA Again ==
  ASSUME FsInv, NEW f
  PROVE  /\ FreeFiles # {} =>
              rp_fs_close(Opening(files, First(FreeFiles), f), First(FreeFiles)) = files
         /\ FreeDirs # {} =>
              rp_fs_closedir(Opening(dirs, First(FreeDirs), f), First(FreeDirs)) = dirs
<1>1. ASSUME FreeFiles # {}
      PROVE  rp_fs_close(Opening(files, First(FreeFiles), f), First(FreeFiles)) = files
  <2>1. PICK h \in Handles : h = First(FreeFiles) /\ ~files[h].in_use
    BY <1>1, Free
  <2>2. IsTable(files) /\ files[h] = NoFile
    BY <2>1 DEF FsInv, FileTypes, FileOK
  <2> QED
    BY <2>1, <2>2 DEF rp_fs_close, Opening, IsTable
<1>2. ASSUME FreeDirs # {}
      PROVE  rp_fs_closedir(Opening(dirs, First(FreeDirs), f), First(FreeDirs)) = dirs
  <2>1. PICK h \in Handles : h = First(FreeDirs) /\ ~dirs[h].in_use
    BY <1>2, Free
  <2>2. IsTable(dirs) /\ dirs[h] = NoDir
    BY <2>1 DEF FsInv, DirTypes, DirOK
  <2> QED
    BY <2>1, <2>2 DEF rp_fs_closedir, Opening, IsTable
<1> QED
  BY <1>1, <1>2

LEMMA OpenInv ==
  ASSUME FsInv, NEW pid \in Pids, NEW args, NEW s, NEW i \in Inputs, NEW mode, NEW io,
         rp_fs_mb_exec_open(pid, args, s, i, mode, io)
  PROVE  FsInv'
<1>1. PICK to : to = rp_fs_mb_resolve_arg_path(pid, s, i)
  OBVIOUS
<1>2. CASE \E op, err : err \in Errors /\ Refuse(op, err)
  BY <1>2, RefuseInv
<1>3. CASE ~\E op, err : err \in Errors /\ Refuse(op, err)
  <2> DEFINE h == First(FreeFiles)
             f == rp_fs_open_mode_83(to.device, to.path, mode)
  <2>1. /\ to.path # Bad /\ FreeFiles # {} /\ f_open(to.device, to.path, mode)
        /\ files' = Opening(files, h, f)
        /\ disk' = Opened(to.device, to.path, mode)
        /\ Answer("OPEN", "OK", h) /\ wrote' = {}
        /\ UNCHANGED <<mounted, dirs, cwd>>
    BY <1>1, <1>3, FailureType DEF rp_fs_mb_exec_open, Errors
  <2>2. to.device \in Devices /\ to.path \in Seq(Names)
    BY <1>1, <2>1, ResolveType
  <2>3. h \in Handles
    BY <2>1, Free
  <2>4. mounted' = mounted /\ wrote' = {} /\ reply'.err = "OK" /\ to.device \in mounted
    BY <2>1 DEF Answer, f_open
  <2>5. /\ f \in [in_use : BOOLEAN, device : Devices, path : Seq(Names), flags : Flags, pos : Nat, size : Nat]
        /\ f.in_use /\ f.device = to.device /\ f.flags # {}
        /\ f.size <= MaxSize /\ f.pos <= f.size
    BY <2>2, OpenedOK
  <2> HIDE DEF h, f
  <2>6. FileTypes'
    <3>1. FileOK(f)
      BY <2>4, <2>5 DEF FileOK
    <3>2. IsTable(files') /\ \A k \in Handles : files'[k] = f \/ files'[k] = files[k]
      BY <2>1, <2>3, Replaced DEF FsInv, FileTypes
    <3> QED
      BY <2>4, <3>1, <3>2 DEF FsInv, FileTypes, FileOK
  <2>7. Disks(disk')
    <3>1. 0 \in {DIR} \union 0 .. MaxSize
      BY FsAssumption
    <3> QED
      BY <2>1, <2>2, <3>1, WithTypes DEF Opened, FsInv
  <2> QED
    BY <2>1, <2>4, <2>6, <2>7 DEF FsInv, PieceInv, DirTypes, CwdTypes, DirOK, Errors
<1> QED
  BY <1>2, <1>3

LEMMA SinglePathInv ==
  ASSUME FsInv, NEW op, NEW pid \in Pids, NEW args, NEW s, NEW i \in Inputs, NEW io,
         rp_fs_mb_exec_single_path(op, pid, args, s, i, io)
  PROVE  FsInv'
<1>1. PICK to : to = rp_fs_mb_resolve_arg_path(pid, s, i)
  OBVIOUS
<1>2. CASE \E o, err : err \in Errors /\ Refuse(o, err)
  BY <1>2, RefuseInv
<1>3. CASE ~\E o, err : err \in Errors /\ Refuse(o, err)
  <2>1. /\ to.path # Bad
        /\ disk' = With(to.device, to.path, DIR) \/ disk' = Without(to.device, {to.path})
        /\ Done(op, {}) /\ UNCHANGED <<files, dirs, cwd>>
    BY <1>1, <1>3, FailureType DEF rp_fs_mb_exec_single_path, Errors
  <2>2. to.device \in Devices /\ to.path \in Seq(Names)
    BY <1>1, <2>1, ResolveType
  <2>3. mounted' = mounted /\ wrote' = {} /\ reply'.err = "OK"
    BY <2>1 DEF Done, Answer
  <2>4. Disks(disk')
    BY <2>1, <2>2, WithTypes, WithoutTypes DEF FsInv
  <2> QED
    BY <2>1, <2>3, <2>4 DEF FsInv, PieceInv, FileTypes, FileOK, DirTypes, CwdTypes, DirOK, Errors
<1> QED
  BY <1>2, <1>3

LEMMA RenameInv ==
  ASSUME FsInv, NEW pid \in Pids, NEW args, NEW s, NEW i \in Inputs, NEW j \in Inputs, NEW io,
         rp_fs_mb_exec_rename(pid, args, s, i, j, io)
  PROVE  FsInv'
<1>1. PICK old, new : /\ old = rp_fs_mb_resolve_arg_path(pid, s, i)
                      /\ new = rp_fs_mb_resolve_arg_path(pid, s, j)
  OBVIOUS
<1>2. CASE \E o, err : err \in Errors /\ Refuse(o, err)
  BY <1>2, RefuseInv
<1>3. CASE ~\E o, err : err \in Errors /\ Refuse(o, err)
  <2>1. /\ old.path # Bad /\ new.path # Bad
        /\ disk' = Renamed(old.device, old.path, new.path)
        /\ Done("RENAME", {}) /\ UNCHANGED <<files, dirs, cwd>>
    BY <1>1, <1>3, FailureType DEF rp_fs_mb_exec_rename, Errors
  <2>2. old.device \in Devices /\ old.path \in Seq(Names) /\ new.path \in Seq(Names)
    BY <1>1, <2>1, ResolveType
  <2>3. mounted' = mounted /\ wrote' = {} /\ reply'.err = "OK"
    BY <2>1 DEF Done, Answer
  <2>4. Disks(disk')
    BY <2>1, <2>2, RenamedTypes DEF FsInv
  <2> QED
    BY <2>1, <2>3, <2>4 DEF FsInv, PieceInv, FileTypes, FileOK, DirTypes, CwdTypes, DirOK, Errors
<1> QED
  BY <1>2, <1>3

LEMMA OpendirInv ==
  ASSUME FsInv, NEW pid \in Pids, NEW args, NEW s, NEW i \in Inputs, NEW io,
         rp_fs_mb_exec_opendir(pid, args, s, i, io)
  PROVE  FsInv'
<1>1. PICK to : to = rp_fs_mb_resolve_arg_path(pid, s, i)
  OBVIOUS
<1>2. CASE \E op, err : err \in Errors /\ Refuse(op, err)
  BY <1>2, RefuseInv
<1>3. CASE ~\E op, err : err \in Errors /\ Refuse(op, err)
  <2> DEFINE h == First(FreeDirs)
             f == rp_fs_dir(to)
  <2>1. /\ to.path # Bad /\ rp_fs_opendir_83(to)
        /\ dirs' = Opening(dirs, h, f)
        /\ Answer("OPENDIR", "OK", h) /\ wrote' = {}
        /\ UNCHANGED <<mounted, disk, files, cwd>>
    BY <1>1, <1>3, FailureType DEF rp_fs_mb_exec_opendir, Errors
  <2>2. to.device \in Devices /\ to.path \in Seq(Names)
    BY <1>1, <2>1, ResolveType
  <2>3. h \in Handles
    BY <2>1, Free DEF rp_fs_opendir_83
  <2>4. mounted' = mounted /\ wrote' = {} /\ reply'.err = "OK" /\ to.device \in mounted
    BY <2>1 DEF Answer, rp_fs_opendir_83
  <2>5. DirOK(f)
    BY <2>2, <2>4 DEF DirOK, rp_fs_dir
  <2> HIDE DEF h, f
  <2>6. DirTypes'
    <3>1. IsTable(dirs') /\ \A k \in Handles : dirs'[k] = f \/ dirs'[k] = dirs[k]
      BY <2>1, <2>3, Replaced DEF FsInv, DirTypes
    <3> QED
      BY <2>4, <2>5, <3>1 DEF FsInv, DirTypes, DirOK
  <2> QED
    BY <2>1, <2>4, <2>6 DEF FsInv, PieceInv, FileTypes, FileOK, CwdTypes, Errors
<1> QED
  BY <1>2, <1>3

LEMMA ChdirInv ==
  ASSUME FsInv, NEW pid \in Pids, NEW args, NEW s, NEW i \in Inputs, NEW fault,
         rp_fs_mb_exec_chdir(pid, args, s, i, fault)
  PROVE  FsInv'
<1>1. PICK to : to = rp_fs_mb_resolve_arg_path(pid, s, i)
  OBVIOUS
<1>2. CASE \E op, err : err \in Errors /\ Refuse(op, err)
  BY <1>2, RefuseInv
<1>3. CASE ~\E op, err : err \in Errors /\ Refuse(op, err)
  <2>0. /\ to.path # Bad /\ FreeDirs # {}
        /\ dirs' = rp_fs_closedir(Opening(dirs, First(FreeDirs), rp_fs_dir(to)), First(FreeDirs))
        /\ UNCHANGED <<mounted, disk, files>>
        /\ wrote' = {} /\ reply'.err \in Errors
        /\ cwd' = cwd \/ (rp_fs_cwd_set(to) /\ cwd' = [cwd EXCEPT ![pid] = to])
    BY <1>1, <1>3, FailureType DEF rp_fs_mb_exec_chdir, Errors, Answer, rp_fs_opendir_83
  <2>1. dirs' = dirs
    BY <2>0, Again
  <2>2. to.device \in Devices /\ to.path \in Seq(Names)
    BY <1>1, <2>0, ResolveType
  <2>3. rp_fs_cwd_set(to) => to \in [device : Devices, path : Seq(Names)] /\ strlen(to.path) < CWD_MAX
    <3>1. \E d, p : to = [device |-> d, path |-> p]
      BY <1>1 DEF rp_fs_mb_resolve_arg_path, rp_fs_resolve_process_path
    <3> QED
      BY <2>2, <3>1 DEF rp_fs_cwd_set
  <2>4. CwdTypes'
    <3>1. CASE cwd' = cwd
      BY <3>1 DEF FsInv, CwdTypes
    <3>2. CASE rp_fs_cwd_set(to) /\ cwd' = [cwd EXCEPT ![pid] = to]
      <4>1. cwd' \in [Pids -> [device : Devices, path : Seq(Names)]]
        BY <2>3, <3>2 DEF FsInv, CwdTypes
      <4>2. \A p \in Pids : cwd'[p] = to \/ cwd'[p] = cwd[p]
        BY <3>2 DEF FsInv, CwdTypes
      <4> QED
        BY <2>3, <3>2, <4>1, <4>2 DEF FsInv, CwdTypes
    <3> QED
      BY <2>0, <3>1, <3>2
  <2> QED
    BY <2>0, <2>1, <2>4 DEF FsInv, PieceInv, FileTypes, FileOK, DirTypes, DirOK
<1> QED
  BY <1>2, <1>3

LEMMA BulkInv ==
  ASSUME FsInv, NEW op, NEW pid \in Pids, NEW args, NEW s, NEW i \in Inputs,
         NEW ptr \in Nat, NEW size \in Nat, NEW fault,
         rp_fs_mb_exec_bulk(op, pid, args, s, i, ptr, size, fault)
  PROVE  FsInv'
<1>1. PICK to : to = rp_fs_mb_resolve_arg_path(pid, <<s[1], PATH_MAX - 1>>, i)
  OBVIOUS
<1>2. CASE \E o, err : err \in Errors /\ Refuse(o, err)
  BY <1>2, RefuseInv
<1>3. CASE ~\E o, err : err \in Errors /\ Refuse(o, err)
  <2> DEFINE mode == IF op = "LOAD" THEN "READ" ELSE "WRITE_TRUNC"
             asked == IF size = 0 THEN Mem ELSE size
             f == rp_fs_open_mode_83(to.device, to.path, mode)
             transfer == IF op = "LOAD" THEN Least(asked, f.size) ELSE asked
             fits == rp_fs_mb_valid_64k_range(ptr, transfer)
             Saved(n) == IF op = "LOAD" THEN disk ELSE With(to.device, to.path, n)
  <2>0. /\ to.path # Bad /\ FreeFiles # {}
        /\ \E done \in IF fits THEN Stops(transfer) ELSE {0} :
             /\ files' = rp_fs_close(Opening(files, First(FreeFiles), f), First(FreeFiles))
             /\ \E err \in Errors : Answer(op, err, None)
             /\ disk' \in {Saved(done), Saved(0)}
             /\ wrote' = IF op = "LOAD" /\ done > 0 THEN {<<ptr, done>>} ELSE {}
             /\ UNCHANGED <<mounted, dirs, cwd>>
    <3>1. /\ to.path # Bad /\ FreeFiles # {}
          /\ IF ~fits
             THEN /\ files' = rp_fs_close(Opening(files, First(FreeFiles), f), First(FreeFiles))
                  /\ disk' = Saved(0)
                  /\ Answer(op, "EINVAL", None) /\ wrote' = {}
                  /\ UNCHANGED <<mounted, dirs, cwd>>
             ELSE \E done \in Stops(transfer) :
                  /\ files' = rp_fs_close(Opening(files, First(FreeFiles), f), First(FreeFiles))
                  /\ disk' = Saved(IF fault = "close" THEN 0 ELSE done)
                  /\ Answer(op, IF done = transfer /\ fault # "close" THEN "OK" ELSE "EIO", None)
                  /\ wrote' = IF op = "LOAD" /\ done > 0 THEN {<<ptr, done>>} ELSE {}
                  /\ UNCHANGED <<mounted, dirs, cwd>>
      BY <1>1, <1>3, FailureType DEF rp_fs_mb_exec_bulk, Errors
    <3> HIDE DEF fits, transfer, f, Saved
    <3> QED
      BY <3>1 DEF Errors
  <2>1. PICK done \in IF fits THEN Stops(transfer) ELSE {0} :
          /\ \E err \in Errors : Answer(op, err, None)
          /\ disk' \in {Saved(done), Saved(0)}
          /\ wrote' = IF op = "LOAD" /\ done > 0 THEN {<<ptr, done>>} ELSE {}
          /\ UNCHANGED <<mounted, files, dirs, cwd>>
    <3> HIDE DEF fits, transfer, f, Saved
    <3> QED
      BY <2>0, Again
  <2>2. to.device \in Devices /\ to.path \in Seq(Names)
    BY <1>1, <2>0, ResolveType
  <2>3. f.size \in Nat
    BY <2>2, OpenedOK
  <2> HIDE DEF f
  <2>4. transfer \in Nat
    BY <2>3, FsAssumption DEF Least
  <2> HIDE DEF transfer
  <2>5. done \in 0 .. MaxSize /\ (fits => done <= transfer) /\ (~fits => done = 0)
    <3>1. CASE fits
      <4>1. done \in 0 .. Least(transfer, MaxSize)
        BY <2>1, <3>1 DEF Stops
      <4> QED
        BY <2>4, <3>1, <4>1, FsAssumption DEF Least
    <3>2. CASE ~fits
      BY <2>1, <3>2, FsAssumption
    <3> QED
      BY <3>1, <3>2
  <2>6. done > 0 => ptr + done <= Mem
    <3> SUFFICES ASSUME done > 0 PROVE ptr + done <= Mem
      OBVIOUS
    <3>1. fits /\ done <= transfer /\ transfer # 0
      BY <2>4, <2>5
    <3>2. IF transfer = Mem THEN ptr = 0 ELSE ptr + transfer - 1 <= Mem - 1
      BY <3>1 DEF rp_fs_mb_valid_64k_range
    <3>3. ptr \in Nat /\ Mem \in Nat /\ done \in Nat /\ transfer \in Nat
      BY <2>4, <2>5, FsAssumption
    <3>4. transfer = Mem => ptr = 0
      BY <3>2
    <3>5. transfer # Mem => ptr + transfer - 1 <= Mem - 1
      BY <3>2
    <3> QED
      BY ONLY <3>1, <3>3, <3>4, <3>5
  <2>7. Disks(disk')
    <3>1. done \in {DIR} \union 0 .. MaxSize /\ 0 \in {DIR} \union 0 .. MaxSize
      BY <2>5, FsAssumption
    <3>2. CASE op = "LOAD"
      BY <2>1, <3>2 DEF FsInv
    <3>3. CASE op # "LOAD"
      <4>1. disk' = With(to.device, to.path, done) \/ disk' = With(to.device, to.path, 0)
        BY <2>1, <3>3
      <4> QED
        BY <2>2, <3>1, <4>1, WithTypes DEF FsInv
    <3> QED
      BY <3>2, <3>3
  <2>8. reply'.op = op /\ reply'.err \in Errors
    BY <2>1 DEF Answer, Errors
  <2> HIDE DEF fits, asked, mode
  <2>9. PieceInv'
    <3> SUFFICES ASSUME NEW w \in wrote' PROVE reply'.op = "LOAD" /\ w[1] + w[2] <= Mem
      BY DEF PieceInv
    <3>1. op = "LOAD" /\ done > 0 /\ w = <<ptr, done>>
      BY <2>1
    <3> QED
      BY <2>6, <2>8, <3>1
  <2> QED
    BY <2>1, <2>7, <2>8, <2>9 DEF FsInv, FileTypes, FileOK, DirTypes, CwdTypes, DirOK
<1> QED
  BY <1>2, <1>3

\* What lies within the private area.
LEMMA PrivateRange ==
  ASSUME NEW a \in Nat, NEW n \in Nat, rp_fs_mb_private_range(a, n)
  PROVE  a > 0 /\ n > 0 /\ a + n <= PRIVATE_LIMIT
  BY DEF rp_fs_mb_private_range

\* A file whose position and size move within the size it may have.
Moved(h, pos, size) == [files EXCEPT ![h].pos = pos, ![h].size = size]

LEMMA MovedOK ==
  ASSUME FsInv, NEW h \in Handles, files[h].in_use, NEW pos \in Nat, NEW size \in Nat,
         pos <= size, size <= MaxSize,
         files' = Moved(h, pos, size), mounted' = mounted
  PROVE  FileTypes'
<1>1. FileOK(files[h])
  BY DEF FsInv, FileTypes
<1> DEFINE f == [files[h] EXCEPT !.pos = pos, !.size = size]
<1>2. f \in [in_use : BOOLEAN, device : Devices, path : Seq(Names), flags : Flags, pos : Nat, size : Nat]
  BY <1>1 DEF FileOK
<1>3. f.in_use = files[h].in_use /\ f.device = files[h].device /\ f.flags = files[h].flags
      /\ f.pos = pos /\ f.size = size
  BY <1>1 DEF FileOK
<1>4. files' = Opening(files, h, f)
  BY <1>1 DEF FsInv, FileTypes, FileOK, IsTable, Opening, Moved
<1> HIDE DEF f
<1>5. IsTable(files') /\ \A k \in Handles : files'[k] = f \/ files'[k] = files[k]
  BY <1>4, Replaced DEF FsInv, FileTypes
<1>6. FileOK(f)
  BY <1>1, <1>2, <1>3 DEF FileOK
<1>7. ASSUME NEW k \in Handles
      PROVE  FileOK(files[k])'
  <2>1. files'[k] = f \/ files'[k] = files[k]
    BY <1>5
  <2> QED
    BY <1>6, <2>1 DEF FsInv, FileTypes, FileOK
<1> QED
  BY <1>5, <1>7 DEF FileTypes

LEMMA ReadInv ==
  ASSUME FsInv, NEW args, NEW h, NEW dst \in Nat, NEW len \in Nat, NEW io,
         rp_fs_mb_exec_read(args, h, dst, len, io)
  PROVE  FsInv'
<1>2. CASE \E o, err : err \in Errors /\ Refuse(o, err)
  BY <1>2, RefuseInv
<1>3. CASE ~\E o, err : err \in Errors /\ Refuse(o, err)
  <2> DEFINE n == Least(len, CHUNK_SIZE)
             count == IF files[h].pos < files[h].size THEN Least(n, files[h].size - files[h].pos) ELSE 0
  <2>1. /\ IsOpen(h) /\ rp_fs_mb_private_range(dst, n)
        /\ files' = [files EXCEPT ![h].pos = @ + count]
        /\ Done("READ", IF count > 0 THEN {<<dst, count>>} ELSE {})
        /\ UNCHANGED <<disk, dirs, cwd>>
    BY <1>3 DEF rp_fs_mb_exec_read, Errors
  <2>2. h \in Handles /\ files[h].in_use /\ FileOK(files[h])
    BY <2>1 DEF IsOpen, FsInv, FileTypes
  <2>3. files[h].pos \in Nat /\ files[h].size \in Nat /\ files[h].pos <= files[h].size
        /\ files[h].size <= MaxSize
    BY <2>2 DEF FileOK
  <2>4. n \in Nat /\ CHUNK_SIZE \in Nat
    BY FsAssumption DEF Least
  <2> HIDE DEF n
  <2>5. count \in Nat /\ count <= n /\ files[h].pos + count <= files[h].size
    BY <2>3, <2>4 DEF Least
  <2> HIDE DEF count
  <2>6. files' = Moved(h, files[h].pos + count, files[h].size)
    BY <2>1, <2>2 DEF FsInv, FileTypes, FileOK, IsTable, Moved
  <2>7. mounted' = mounted /\ reply'.err = "OK" /\ reply'.op = "READ"
        /\ wrote' = IF count > 0 THEN {<<dst, count>>} ELSE {}
    BY <2>1 DEF Done, Answer
  <2>8. FileTypes'
    <3>1. files[h].pos + count \in Nat
      BY <2>3, <2>5
    <3> QED
      BY <2>2, <2>3, <2>5, <2>6, <2>7, <3>1, MovedOK
  <2>9. PieceInv'
    <3> SUFFICES ASSUME NEW w \in wrote' PROVE w[1] > 0 /\ w[1] + w[2] <= PRIVATE_LIMIT
      BY <2>7 DEF PieceInv
    <3>1. w = <<dst, count>>
      BY <2>7
    <3>2. dst > 0 /\ dst + n <= PRIVATE_LIMIT
      BY <2>1, <2>4, PrivateRange
    <3>3. dst + count <= PRIVATE_LIMIT
      BY <2>4, <2>5, <3>2, FsAssumption
    <3> QED
      BY <3>1, <3>2, <3>3
  <2> QED
    BY <2>1, <2>7, <2>8, <2>9 DEF FsInv, DirTypes, CwdTypes, DirOK, Errors
<1> QED
  BY <1>2, <1>3

LEMMA WriteInv ==
  ASSUME FsInv, NEW args, NEW h, NEW src \in Nat, NEW len \in Nat, NEW io,
         rp_fs_mb_exec_write(args, h, src, len, io)
  PROVE  FsInv'
<1>2. CASE \E o, err : err \in Errors /\ Refuse(o, err)
  BY <1>2, RefuseInv
<1>3. CASE ~\E o, err : err \in Errors /\ Refuse(o, err)
  <2> DEFINE n == Least(len, CHUNK_SIZE)
             end == Least(files[h].pos + n, MaxSize)
             size == IF end > files[h].size THEN end ELSE files[h].size
  <2>1. /\ IsOpen(h)
        /\ files' = [files EXCEPT ![h].pos = end, ![h].size = IF end > @ THEN end ELSE @]
        /\ Done("WRITE", {}) /\ UNCHANGED <<disk, dirs, cwd>>
    BY <1>3 DEF rp_fs_mb_exec_write, Errors
  <2>2. h \in Handles /\ files[h].in_use /\ FileOK(files[h])
    BY <2>1 DEF IsOpen, FsInv, FileTypes
  <2>3. files[h].pos \in Nat /\ files[h].size \in Nat /\ files[h].pos <= files[h].size
        /\ files[h].size <= MaxSize
    BY <2>2 DEF FileOK
  <2>4. n \in Nat
    BY FsAssumption DEF Least
  <2> HIDE DEF n
  <2>5. end \in Nat /\ end <= MaxSize
    BY <2>3, <2>4, FsAssumption DEF Least
  <2> HIDE DEF end
  <2>6. size \in Nat /\ size <= MaxSize /\ end <= size
    BY <2>3, <2>5
  <2>7. files' = Moved(h, end, size)
    BY <2>1, <2>2 DEF FsInv, FileTypes, FileOK, IsTable, Moved
  <2> HIDE DEF size
  <2>8. mounted' = mounted /\ reply'.err = "OK" /\ wrote' = {}
    BY <2>1 DEF Done, Answer
  <2>9. FileTypes'
    BY <2>2, <2>5, <2>6, <2>7, <2>8, MovedOK
  <2> QED
    BY <2>1, <2>8, <2>9 DEF FsInv, PieceInv, DirTypes, CwdTypes, DirOK, Errors
<1> QED
  BY <1>2, <1>3

LEMMA SeekInv ==
  ASSUME FsInv, NEW args \in Nat, NEW h, NEW whence, NEW offset \in Int, NEW io,
         rp_fs_mb_exec_seek(args, h, whence, offset, io)
  PROVE  FsInv'
<1>2. CASE \E o, err : err \in Errors /\ Refuse(o, err)
  BY <1>2, RefuseInv
<1>3. CASE ~\E o, err : err \in Errors /\ Refuse(o, err)
  <2> DEFINE f == files[h]
             target == offset + (CASE whence = "SET" -> 0 [] whence = "CUR" -> f.pos [] OTHER -> f.size)
             to == Least(target, IF "WRITE" \in f.flags THEN MaxSize ELSE f.size)
             size == IF to > files[h].size THEN to ELSE files[h].size
  <2>1. /\ IsOpen(h) /\ rp_fs_mb_private_range(args, 10) /\ ~(target < 0)
        /\ files' = [files EXCEPT ![h].pos = to, ![h].size = IF to > @ THEN to ELSE @]
        /\ Done("SEEK", {<<args + 6, 4>>}) /\ UNCHANGED <<disk, dirs, cwd>>
    BY <1>3 DEF rp_fs_mb_exec_seek, Errors
  <2>2. h \in Handles /\ files[h].in_use /\ FileOK(files[h])
    BY <2>1 DEF IsOpen, FsInv, FileTypes
  <2>3. files[h].pos \in Nat /\ files[h].size \in Nat /\ files[h].pos <= files[h].size
        /\ files[h].size <= MaxSize /\ MaxSize \in Nat
    BY <2>2, FsAssumption DEF FileOK
  <2>4. target \in Int
    BY <2>3
  <2>5. target \in Nat
    BY <2>1, <2>4
  <2> HIDE DEF target
  <2>6. to \in Nat /\ to <= MaxSize
    BY <2>3, <2>5 DEF Least
  <2> HIDE DEF to
  <2>7. size \in Nat /\ size <= MaxSize /\ to <= size
    BY <2>3, <2>6
  <2>8. files' = Moved(h, to, size)
    BY <2>1, <2>2 DEF FsInv, FileTypes, FileOK, IsTable, Moved
  <2> HIDE DEF size
  <2>9. mounted' = mounted /\ reply'.err = "OK" /\ reply'.op = "SEEK" /\ wrote' = {<<args + 6, 4>>}
    BY <2>1 DEF Done, Answer
  <2>10. FileTypes'
    BY <2>2, <2>6, <2>7, <2>8, <2>9, MovedOK
  <2>11. PieceInv'
    <3>1. args > 0 /\ args + 10 <= PRIVATE_LIMIT
      BY <2>1, PrivateRange
    <3>2. args + 6 > 0 /\ (args + 6) + 4 <= PRIVATE_LIMIT
      BY <3>1, FsAssumption
    <3> QED
      BY <2>9, <3>2 DEF PieceInv
  <2> QED
    BY <2>1, <2>9, <2>10, <2>11 DEF FsInv, DirTypes, CwdTypes, DirOK, Errors
<1> QED
  BY <1>2, <1>3

LEMMA TellInv ==
  ASSUME FsInv, NEW args \in Nat, NEW h, rp_fs_mb_exec_tell(args, h)
  PROVE  FsInv'
<1>2. CASE \E o, err : err \in Errors /\ Refuse(o, err)
  BY <1>2, RefuseInv
<1>3. CASE ~\E o, err : err \in Errors /\ Refuse(o, err)
  <2>1. /\ rp_fs_mb_private_range(args, 6)
        /\ Done("TELL", {<<args + 2, 4>>}) /\ UNCHANGED <<disk, files, dirs, cwd>>
    BY <1>3 DEF rp_fs_mb_exec_tell, Errors
  <2>2. mounted' = mounted /\ reply'.err = "OK" /\ reply'.op = "TELL" /\ wrote' = {<<args + 2, 4>>}
    BY <2>1 DEF Done, Answer
  <2>3. PieceInv'
    <3>1. args > 0 /\ args + 6 <= PRIVATE_LIMIT
      BY <2>1, PrivateRange
    <3>2. args + 2 > 0 /\ (args + 2) + 4 <= PRIVATE_LIMIT
      BY <3>1, FsAssumption
    <3> QED
      BY <2>2, <3>2 DEF PieceInv
  <2> QED
    BY <2>1, <2>2, <2>3 DEF FsInv, FileTypes, FileOK, DirTypes, CwdTypes, DirOK, Errors
<1> QED
  BY <1>2, <1>3

LEMMA ReaddirInv ==
  ASSUME FsInv, NEW args, NEW h, NEW dst \in Nat, NEW len \in Nat, NEW io,
         rp_fs_mb_exec_readdir(args, h, dst, len, io)
  PROVE  FsInv'
<1>2. CASE \E o, err : err \in Errors /\ Refuse(o, err)
  BY <1>2, RefuseInv
<1>3. CASE ~\E o, err : err \in Errors /\ Refuse(o, err)
  <2> DEFINE more == dirs[h].index < Cardinality(Children(dirs[h].device, dirs[h].path))
  <2>1. /\ h \in Handles /\ dirs[h].in_use /\ rp_fs_mb_private_range(dst, DIRENT_SIZE)
        /\ dirs' = [dirs EXCEPT ![h].index = IF more THEN @ + 1 ELSE @]
        /\ Done("READDIR", IF more THEN {<<dst, DIRENT_SIZE>>} ELSE {})
        /\ UNCHANGED <<disk, files, cwd>>
    BY <1>3 DEF rp_fs_mb_exec_readdir, Errors
  <2> HIDE DEF more
  <2>2. DirOK(dirs[h])
    BY <2>1 DEF FsInv, DirTypes
  <2> DEFINE index == IF more THEN dirs[h].index + 1 ELSE dirs[h].index
  <2>3. index \in Nat
    BY <2>2 DEF DirOK
  <2>4. dirs' = [dirs EXCEPT ![h].index = index]
    BY <2>1 DEF FsInv, DirTypes, IsTable
  <2> HIDE DEF index
  <2>5. mounted' = mounted /\ reply'.err = "OK" /\ reply'.op = "READDIR"
        /\ \A w \in wrote' : w = <<dst, DIRENT_SIZE>>
    BY <2>1 DEF Done, Answer
  <2>6. DirTypes'
    <3> DEFINE f == [dirs[h] EXCEPT !.index = index]
    <3>1. dirs' = Opening(dirs, h, f)
      BY <2>1, <2>4 DEF FsInv, DirTypes, IsTable, Opening
    <3>2. DirOK(f)
      BY <2>1, <2>2, <2>3 DEF DirOK
    <3> HIDE DEF f
    <3>3. h \in Handles
      BY <2>1
    <3>4. IsTable(dirs') /\ \A k \in Handles : dirs'[k] = f \/ dirs'[k] = dirs[k]
      BY <3>1, <3>3, Replaced DEF FsInv, DirTypes
    <3> QED
      BY <2>5, <3>2, <3>4 DEF FsInv, DirTypes, DirOK
  <2>7. PieceInv'
    <3>1. DIRENT_SIZE \in Nat
      BY FsAssumption
    <3>2. dst > 0 /\ dst + DIRENT_SIZE <= PRIVATE_LIMIT
      BY <2>1, <3>1, PrivateRange
    <3> QED
      BY <2>5, <3>2 DEF PieceInv
  <2> QED
    BY <2>1, <2>5, <2>6, <2>7 DEF FsInv, FileTypes, FileOK, CwdTypes, Errors
<1> QED
  BY <1>2, <1>3

LEMMA CloseInv ==
  ASSUME FsInv, NEW h, NEW io, rp_fs_mb_exec_close(h, io)
  PROVE  FsInv'
<1>2. CASE \E o, err : err \in Errors /\ Refuse(o, err)
  BY <1>2, RefuseInv
<1>3. CASE ~\E o, err : err \in Errors /\ Refuse(o, err)
  <2>1. /\ IsOpen(h)
        /\ files' = rp_fs_close(files, h)
        /\ disk' = IF io THEN Synced(files[h]) ELSE disk
        /\ Answer("CLOSE", IF io THEN "OK" ELSE "EIO", h) /\ wrote' = {}
        /\ UNCHANGED <<mounted, dirs, cwd>>
    BY <1>3 DEF rp_fs_mb_exec_close, Errors
  <2>2. h \in Handles /\ files[h].in_use /\ FileOK(files[h])
    BY <2>1 DEF IsOpen, FsInv, FileTypes
  <2>3. Disks(disk')
    <3>1. files[h].device \in Devices /\ files[h].path \in Seq(Names) /\ files[h].size \in {DIR} \union 0 .. MaxSize
      BY SMTT(30), <2>2, FsAssumption DEF FileOK
    <3> QED
      BY <2>1, <3>1, WithTypes DEF Synced, FsInv
  <2>4. FileTypes'
    <3>1. files' = Opening(files, h, NoFile)
      BY <2>1 DEF rp_fs_close, Opening
    <3>2. IsTable(files') /\ \A k \in Handles : files'[k] = NoFile \/ files'[k] = files[k]
      BY <2>2, <3>1, Replaced DEF FsInv, FileTypes
    <3> QED
      BY <2>1, <3>2, NoneOK DEF FsInv, FileTypes, FileOK
  <2>5. reply'.err \in Errors
    BY <2>1 DEF Answer, Errors
  <2> QED
    BY <2>1, <2>3, <2>4, <2>5 DEF FsInv, PieceInv, DirTypes, DirOK, CwdTypes
<1> QED
  BY <1>2, <1>3

LEMMA ClosedirInv ==
  ASSUME FsInv, NEW h, NEW io, rp_fs_mb_exec_closedir(h, io)
  PROVE  FsInv'
<1>2. CASE \E o, err : err \in Errors /\ Refuse(o, err)
  BY <1>2, RefuseInv
<1>3. CASE ~\E o, err : err \in Errors /\ Refuse(o, err)
  <2>1. /\ h \in Handles
        /\ dirs' = Opening(dirs, h, NoDir)
        /\ Answer("CLOSEDIR", IF io THEN "OK" ELSE "EIO", h) /\ wrote' = {}
        /\ UNCHANGED <<mounted, disk, files, cwd>>
    BY <1>3 DEF rp_fs_mb_exec_closedir, Errors, rp_fs_closedir, Opening
  <2>2. IsTable(dirs') /\ \A k \in Handles : dirs'[k] = NoDir \/ dirs'[k] = dirs[k]
    BY <2>1, Replaced DEF FsInv, DirTypes
  <2>3. DirTypes'
    BY <2>1, <2>2, NoneOK DEF FsInv, DirTypes, DirOK
  <2>4. reply'.err \in Errors
    BY <2>1 DEF Answer, Errors
  <2> QED
    BY <2>1, <2>3, <2>4 DEF FsInv, PieceInv, FileTypes, FileOK, CwdTypes
<1> QED
  BY <1>2, <1>3

LEMMA GetcwdInv ==
  ASSUME FsInv, NEW pid \in Pids, NEW args \in Nat, NEW dst \in Nat, NEW len \in Nat,
         rp_fs_mb_exec_getcwd(pid, args, dst, len)
  PROVE  FsInv'
<1>2. CASE \E o, err : err \in Errors /\ Refuse(o, err)
  BY <1>2, RefuseInv
<1>3. CASE ~\E o, err : err \in Errors /\ Refuse(o, err)
  <2> DEFINE n == 3 + strlen(cwd[pid].path)
  <2>1. /\ rp_fs_mb_private_range(args, 8) /\ rp_fs_mb_private_range(dst, n + 1)
        /\ Done("GETCWD", {<<dst, n + 1>>, <<args + 4, 2>>}) /\ UNCHANGED <<disk, files, dirs, cwd>>
    BY <1>3 DEF rp_fs_mb_exec_getcwd, Errors
  <2>2. n + 1 \in Nat
    <3>1. cwd[pid].path \in Seq(Names)
      BY DEF FsInv, CwdTypes
    <3>2. Len(cwd[pid].path) \in 0 .. Len(cwd[pid].path)
      BY <3>1, LenProperties
    <3>3. strlen(cwd[pid].path) \in Nat
      BY <3>1, <3>2, StrlenPrefix
    <3> QED
      BY <3>3
  <2> HIDE DEF n
  <2>3. mounted' = mounted /\ reply'.err = "OK" /\ reply'.op = "GETCWD"
        /\ wrote' = {<<dst, n + 1>>, <<args + 4, 2>>}
    BY <2>1 DEF Done, Answer
  <2>4. PieceInv'
    <3>1. args > 0 /\ args + 8 <= PRIVATE_LIMIT
      BY <2>1, PrivateRange
    <3>2. args + 4 > 0 /\ (args + 4) + 2 <= PRIVATE_LIMIT
      BY <3>1, FsAssumption
    <3>3. dst > 0 /\ dst + (n + 1) <= PRIVATE_LIMIT
      BY <2>1, <2>2, PrivateRange
    <3> QED
      BY <2>3, <3>2, <3>3 DEF PieceInv
  <2> QED
    BY <2>1, <2>3, <2>4 DEF FsInv, FileTypes, FileOK, DirTypes, CwdTypes, DirOK, Errors
<1> QED
  BY <1>2, <1>3

LEMMA CwdStepInv ==
  ASSUME FsInv, NEW pid, NEW d, NEW parent
  PROVE  rp_fs_cwd_init_root(pid, d) \/ rp_fs_cwd_clone(pid, parent) => FsInv'
<1> SUFFICES ASSUME rp_fs_cwd_init_root(pid, d) \/ rp_fs_cwd_clone(pid, parent)
             PROVE  FsInv'
  OBVIOUS
<1>2. CASE \E o, err : err \in Errors /\ Refuse(o, err)
  BY <1>2, RefuseInv
<1>3. CASE ~\E o, err : err \in Errors /\ Refuse(o, err)
  <2>1. \E to : /\ to \in [device : Devices, path : Seq(Names)] /\ strlen(to.path) < CWD_MAX
                /\ cwd' = [cwd EXCEPT ![pid] = to]
                /\ mounted' = mounted /\ reply'.err = "OK" /\ wrote' = {}
                /\ UNCHANGED <<disk, files, dirs>>
    <3>1. CASE rp_fs_cwd_init_root(pid, d)
      <4>1. /\ d \in Devices /\ cwd' = [cwd EXCEPT ![pid] = Root(d)]
            /\ Done("CWD_INIT_ROOT", {}) /\ UNCHANGED <<disk, files, dirs>>
        BY <1>3, <3>1 DEF rp_fs_cwd_init_root, Errors
      <4> QED
        BY <4>1, RootOK DEF Done, Answer
    <3>2. CASE rp_fs_cwd_clone(pid, parent)
      <4>1. /\ parent \in Pids /\ cwd' = [cwd EXCEPT ![pid] = cwd[parent]]
            /\ Done("CWD_CLONE", {}) /\ UNCHANGED <<disk, files, dirs>>
        BY <1>3, <3>2 DEF rp_fs_cwd_clone, Errors
      <4>2. cwd[parent] \in [device : Devices, path : Seq(Names)] /\ strlen(cwd[parent].path) < CWD_MAX
        BY <4>1 DEF FsInv, CwdTypes
      <4> QED
        BY <4>1, <4>2 DEF Done, Answer
    <3> QED
      BY <3>1, <3>2
  <2>2. PICK to : /\ to \in [device : Devices, path : Seq(Names)] /\ strlen(to.path) < CWD_MAX
                  /\ cwd' = [cwd EXCEPT ![pid] = to]
                  /\ mounted' = mounted /\ reply'.err = "OK" /\ wrote' = {}
                  /\ UNCHANGED <<disk, files, dirs>>
    BY <2>1
  <2>3. CwdTypes'
    <3>1. cwd' \in [Pids -> [device : Devices, path : Seq(Names)]]
      BY <2>2 DEF FsInv, CwdTypes
    <3>2. \A p \in Pids : cwd'[p] = to \/ cwd'[p] = cwd[p]
      BY <2>2 DEF FsInv, CwdTypes
    <3> QED
      BY <2>2, <3>1, <3>2 DEF FsInv, CwdTypes
  <2> QED
    BY <2>2, <2>3 DEF FsInv, PieceInv, FileTypes, FileOK, DirTypes, DirOK, Errors
<1> QED
  BY <1>2, <1>3

LEMMA ResetInv == ASSUME FsInv, rp_fs_mailbox_reset PROVE FsInv'
<1>1. /\ files' = [h \in Handles |-> NoFile] /\ dirs' = [h \in Handles |-> NoDir]
      /\ cwd' = [p \in Pids |-> Root(0)] /\ mounted' = mounted
      /\ reply'.err = "OK" /\ wrote' = {}
  BY DEF rp_fs_mailbox_reset, Answer
<1>2. FileTypes' /\ DirTypes'
  BY <1>1, NoneOK DEF FileTypes, DirTypes, FileOK, DirOK, IsTable
<1>3. CwdTypes'
  <2>1. 0 \in Devices
    BY FsAssumption DEF Devices
  <2> QED
    BY <1>1, <2>1, RootOK DEF CwdTypes
<1>4. Disks(disk')
  BY ResetTypes
<1> QED
  BY <1>1, <1>2, <1>3, <1>4 DEF FsInv, PieceInv, Errors

LEMMA StickInv ==
  ASSUME FsInv, NEW d \in Devices
  PROVE  Plug(d) \/ Pull(d) => FsInv'
<1>1. ASSUME Plug(d) PROVE FsInv'
  <2>1. /\ mounted' = mounted \union {d} /\ disk' = [disk EXCEPT ![d] = FirstDisk]
        /\ UNCHANGED <<files, dirs, cwd, reply, wrote, owned>>
    BY <1>1 DEF Plug
  <2>2. Entries(FirstDisk)
    BY InputAssumption DEF Entries
  <2>3. Disks(disk')
    BY <2>1, <2>2 DEF FsInv, Disks
  <2> QED
    BY <2>1, <2>3 DEF FsInv, PieceInv, FileTypes, FileOK, DirTypes, DirOK, CwdTypes
<1>2. ASSUME Pull(d) PROVE FsInv'
  <2>1. /\ mounted' = mounted \ {d} /\ disk' = [disk EXCEPT ![d] = Empty]
        /\ files' = [h \in Handles |-> IF files[h].device = d THEN NoFile ELSE files[h]]
        /\ dirs' = [h \in Handles |-> IF dirs[h].device = d THEN NoDir ELSE dirs[h]]
        /\ UNCHANGED <<cwd, reply, wrote, owned>>
    BY <1>2 DEF Pull
  <2>2. Entries(Empty)
    BY DEF Entries, Empty
  <2>3. Disks(disk')
    BY <2>1, <2>2 DEF FsInv, Disks
  <2>4. NoFile.in_use = FALSE /\ NoDir.in_use = FALSE
    BY DEF NoFile, NoDir
  <2>5. FileTypes'
    BY <2>1, <2>4, NoneOK DEF FsInv, FileTypes, FileOK, IsTable
  <2>6. DirTypes'
    BY <2>1, <2>4, NoneOK DEF FsInv, DirTypes, DirOK, IsTable
  <2> QED
    BY <2>1, <2>3, <2>5, <2>6 DEF FsInv, PieceInv, CwdTypes
<1> QED
  BY <1>1, <1>2

LEMMA StepFsInv == FsInv /\ [Next]_vars => FsInv'
<1> SUFFICES ASSUME FsInv, [Next]_vars PROVE FsInv'
  OBVIOUS
<1>1. ASSUME rp_fs_mailbox_handle_exec PROVE FsInv'
  <2>1. PICK pid \in Pids, x \in Strings, i \in Inputs :
          LET args == x[1]
              s == <<x[2], x[3]>>
          IN \/ \E io \in BOOLEAN :
                 \/ \E mode \in {"READ", "WRITE_TRUNC", "WRITE_EXISTING", "RW_EXISTING", "RW_CREATE"} :
                      rp_fs_mb_exec_open(pid, args, s, i, mode, io)
                 \/ \E op \in {"DELETE", "MKDIR", "RMDIR"} :
                      rp_fs_mb_exec_single_path(op, pid, args, s, i, io)
                 \/ \E j \in Inputs : rp_fs_mb_exec_rename(pid, args, s, i, j, io)
                 \/ rp_fs_mb_exec_opendir(pid, args, s, i, io)
             \/ \E fault \in {"none", "open", "close"} :
                 \/ rp_fs_mb_exec_chdir(pid, args, s, i, fault)
                 \/ \E op \in {"LOAD", "SAVE"}, b \in Buffers :
                      rp_fs_mb_exec_bulk(op, pid, args, s, i, b[1], b[2], fault)
    BY <1>1 DEF rp_fs_mailbox_handle_exec
  <2>2. \A b \in Buffers : b[1] \in Nat /\ b[2] \in Nat
    BY InputAssumption
  <2> QED
    BY <2>1, <2>2, OpenInv, SinglePathInv, RenameInv, OpendirInv, ChdirInv, BulkInv
<1>2. ASSUME HandleExec PROVE FsInv'
  <2>1. PICK args \in Args, h \in 0 .. MAX_HANDLES, io \in BOOLEAN :
          \/ \E b \in Buffers : \/ rp_fs_mb_exec_read(args, h, b[1], b[2], io)
                               \/ rp_fs_mb_exec_write(args, h, b[1], b[2], io)
                               \/ rp_fs_mb_exec_readdir(args, h, b[1], b[2], io)
          \/ \E whence \in {"SET", "CUR", "END", "bad"}, offset \in Offsets :
               rp_fs_mb_exec_seek(args, h, whence, offset, io)
          \/ rp_fs_mb_exec_tell(args, h)
          \/ rp_fs_mb_exec_close(h, io)
          \/ rp_fs_mb_exec_closedir(h, io)
    BY <1>2 DEF HandleExec
  <2>2. (\A b \in Buffers : b[1] \in Nat /\ b[2] \in Nat) /\ args \in Nat /\ Offsets \subseteq Int
    BY InputAssumption
  <2> QED
    BY <2>1, <2>2, ReadInv, WriteInv, ReaddirInv, SeekInv, TellInv, CloseInv, ClosedirInv
<1>3. ASSUME CwdExec PROVE FsInv'
  <2>1. (\A b \in Buffers : b[1] \in Nat /\ b[2] \in Nat) /\ Args \subseteq Nat
    BY InputAssumption
  <2> QED
    BY <1>3, <2>1, GetcwdInv, CwdStepInv DEF CwdExec
<1>4. CASE UNCHANGED vars
  BY <1>4 DEF vars, FsInv, PieceInv, FileTypes, FileOK, DirTypes, DirOK, CwdTypes, Disks
<1> QED
  BY <1>1, <1>2, <1>3, <1>4, ResetInv, StickInv DEF Next, Request

LEMMA FsInvariance == Spec => []FsInv
  BY InitFsInv, StepFsInv, PTL DEF Spec

-----------------------------------------------------------------------------
(* Handles and what the answers told of them.                              *)

OwnedInv == NoOrphanHandle /\ owned \subseteq Pools \X Handles

\* What is known of handles after a request.
Hands == owned' = (owned \union Given(reply')) \ Taken(reply')

\* A request that is no open and no close and adds no handle in use.
Calm ==
  /\ reply'.op \notin {"OPEN", "OPENDIR", "CLOSE", "CLOSEDIR", "reset"}
  /\ \A h \in Handles : /\ files'[h].in_use => files[h].in_use
                        /\ dirs'[h].in_use => dirs[h].in_use

LEMMA CalmKeeps == ASSUME OwnedInv, Hands, Calm PROVE OwnedInv'
<1>1. owned' = owned
  BY DEF Hands, Calm, Given, Taken
<1> QED
  BY <1>1 DEF Calm, OwnedInv, NoOrphanHandle

\* Nor does a refusal give a handle or take one.
LEMMA RefuseKeeps ==
  ASSUME OwnedInv, Hands, NEW op, NEW err, Refuse(op, err),
         op \in {"OPEN", "OPENDIR"} => err # "OK",
         op \in {"CLOSE", "CLOSEDIR"} => err = "EINVAL",
         op # "reset"
  PROVE  OwnedInv'
<1>1. reply'.op = op /\ reply'.err = err /\ UNCHANGED <<files, dirs>>
  BY DEF Refuse, Answer
<1>2. Given(reply') = {} /\ Taken(reply') = {}
  BY <1>1 DEF Given, Taken
<1>3. owned' = owned
  BY <1>2 DEF Hands
<1> QED
  BY <1>1, <1>3 DEF OwnedInv, NoOrphanHandle

LEMMA FailureNotOK == \A d : Failure(d) # "OK"
  BY DEF Failure

LEMMA RefuseCalm ==
  ASSUME NEW op, NEW err, Refuse(op, err),
         op \notin {"OPEN", "OPENDIR", "CLOSE", "CLOSEDIR", "reset"}
  PROVE  Calm
  BY DEF Refuse, Answer, Calm

\* An open gives the handle it takes; refused, it takes none.
LEMMA OpenOwned ==
  ASSUME FsInv, OwnedInv, Hands, NEW pid, NEW args, NEW s, NEW i, NEW mode, NEW io,
         \/ rp_fs_mb_exec_open(pid, args, s, i, mode, io)
         \/ rp_fs_mb_exec_opendir(pid, args, s, i, io)
  PROVE  OwnedInv'
<1>1. CASE \E op \in {"OPEN", "OPENDIR"} : \E err : err # "OK" /\ Refuse(op, err)
  BY <1>1, RefuseKeeps
<1>2. CASE ~\E op \in {"OPEN", "OPENDIR"} : \E err : err # "OK" /\ Refuse(op, err)
  <2>1. CASE rp_fs_mb_exec_open(pid, args, s, i, mode, io)
    <3> DEFINE h == First(FreeFiles)
    <3>1. PICK f : /\ FreeFiles # {} /\ files' = Opening(files, h, f)
                   /\ Answer("OPEN", "OK", h) /\ dirs' = dirs
      BY <1>2, <2>1, FailureNotOK DEF rp_fs_mb_exec_open
    <3>2. h \in Handles
      BY <3>1, Free
    <3> HIDE DEF h
    <3>3. \A k \in Handles : k # h => files'[k] = files[k]
      BY <3>1, <3>2, Replaced DEF FsInv, FileTypes
    <3>4. Given(reply') = {<<"file", h>>} /\ Taken(reply') = {}
      BY <3>1 DEF Answer, Given, Taken
    <3>5. owned' = owned \union {<<"file", h>>}
      BY <3>4 DEF Hands
    <3> QED
      BY <3>1, <3>2, <3>3, <3>5 DEF OwnedInv, NoOrphanHandle, Pools
  <2>2. CASE rp_fs_mb_exec_opendir(pid, args, s, i, io)
    <3> DEFINE h == First(FreeDirs)
    <3>1. PICK f : /\ FreeDirs # {} /\ dirs' = Opening(dirs, h, f)
                   /\ Answer("OPENDIR", "OK", h) /\ files' = files
      BY <1>2, <2>2, FailureNotOK DEF rp_fs_mb_exec_opendir, rp_fs_opendir_83
    <3>2. h \in Handles
      BY <3>1, Free
    <3> HIDE DEF h
    <3>3. \A k \in Handles : k # h => dirs'[k] = dirs[k]
      BY <3>1, <3>2, Replaced DEF FsInv, DirTypes
    <3>4. Given(reply') = {<<"dir", h>>} /\ Taken(reply') = {}
      BY <3>1 DEF Answer, Given, Taken
    <3>5. owned' = owned \union {<<"dir", h>>}
      BY <3>4 DEF Hands
    <3> QED
      BY <3>1, <3>2, <3>3, <3>5 DEF OwnedInv, NoOrphanHandle, Pools
  <2> QED
    BY <2>1, <2>2
<1> QED
  BY <1>1, <1>2

\* A close frees the handle it takes, whether or not FatFs could close it.
LEMMA CloseOwned ==
  ASSUME FsInv, OwnedInv, Hands, NEW h, NEW io,
         rp_fs_mb_exec_close(h, io) \/ rp_fs_mb_exec_closedir(h, io)
  PROVE  OwnedInv'
<1>1. CASE \E op \in {"CLOSE", "CLOSEDIR"} : Refuse(op, "EINVAL")
  BY <1>1, RefuseKeeps
<1>2. CASE ~\E op \in {"CLOSE", "CLOSEDIR"} : Refuse(op, "EINVAL")
  <2>0. ~NoFile.in_use /\ ~NoDir.in_use
    BY DEF NoFile, NoDir
  <2>1. CASE rp_fs_mb_exec_close(h, io)
    <3>1. /\ h \in Handles /\ files' = Opening(files, h, NoFile) /\ dirs' = dirs
          /\ reply'.op = "CLOSE" /\ reply'.err # "EINVAL" /\ reply'.handle = h
      BY <1>2, <2>1 DEF rp_fs_mb_exec_close, IsOpen, Answer, rp_fs_close, Opening
    <3>2. files'[h] = NoFile /\ \A k \in Handles : k # h => files'[k] = files[k]
      BY <3>1, Replaced DEF FsInv, FileTypes
    <3>3. Given(reply') = {} /\ Taken(reply') = {<<"file", h>>}
      BY <3>1 DEF Given, Taken
    <3>4. owned' = owned \ {<<"file", h>>}
      BY <3>3 DEF Hands
    <3> QED
      BY <2>0, <3>1, <3>2, <3>4 DEF OwnedInv, NoOrphanHandle
  <2>2. CASE rp_fs_mb_exec_closedir(h, io)
    <3>1. /\ h \in Handles /\ dirs' = Opening(dirs, h, NoDir) /\ files' = files
          /\ reply'.op = "CLOSEDIR" /\ reply'.err # "EINVAL" /\ reply'.handle = h
      BY <1>2, <2>2 DEF rp_fs_mb_exec_closedir, Answer, rp_fs_closedir, Opening
    <3>2. dirs'[h] = NoDir /\ \A k \in Handles : k # h => dirs'[k] = dirs[k]
      BY <3>1, Replaced DEF FsInv, DirTypes
    <3>3. Given(reply') = {} /\ Taken(reply') = {<<"dir", h>>}
      BY <3>1 DEF Given, Taken
    <3>4. owned' = owned \ {<<"dir", h>>}
      BY <3>3 DEF Hands
    <3> QED
      BY <2>0, <3>1, <3>2, <3>4 DEF OwnedInv, NoOrphanHandle
  <2> QED
    BY <2>1, <2>2
<1> QED
  BY <1>1, <1>2

\* What a LOAD, a SAVE or a change of directory opened, it has closed again.
LEMMA BulkCalm ==
  ASSUME FsInv, NEW op \in {"LOAD", "SAVE"}, NEW pid, NEW args, NEW s, NEW i, NEW ptr, NEW size,
         NEW fault, rp_fs_mb_exec_bulk(op, pid, args, s, i, ptr, size, fault)
  PROVE  Calm
<1>1. CASE \E err : Refuse(op, err)
  BY <1>1, RefuseCalm
<1>2. CASE ~\E err : Refuse(op, err)
  <2>1. PICK f :
          /\ FreeFiles # {} /\ reply'.op = op /\ dirs' = dirs
          /\ files' = rp_fs_close(Opening(files, First(FreeFiles), f), First(FreeFiles))
    BY <1>2 DEF rp_fs_mb_exec_bulk, Answer
  <2>2. files' = files
    BY <2>1, Again
  <2> QED
    BY <2>1, <2>2 DEF Calm
<1> QED
  BY <1>1, <1>2

LEMMA ChdirCalm ==
  ASSUME FsInv, NEW pid, NEW args, NEW s, NEW i, NEW fault,
         rp_fs_mb_exec_chdir(pid, args, s, i, fault)
  PROVE  Calm
<1>1. CASE \E err : Refuse("CHDIR", err)
  BY <1>1, RefuseCalm
<1>2. CASE ~\E err : Refuse("CHDIR", err)
  <2>1. PICK f :
          /\ FreeDirs # {} /\ reply'.op = "CHDIR" /\ files' = files
          /\ dirs' = rp_fs_closedir(Opening(dirs, First(FreeDirs), f), First(FreeDirs))
    BY <1>2 DEF rp_fs_mb_exec_chdir, Answer, rp_fs_opendir_83
  <2>2. dirs' = dirs
    BY <2>1, Again
  <2> QED
    BY <2>1, <2>2 DEF Calm
<1> QED
  BY <1>1, <1>2

LEMMA PathCalm ==
  ASSUME NEW op \in {"DELETE", "MKDIR", "RMDIR"}, NEW pid, NEW args, NEW s, NEW i, NEW j, NEW io,
         \/ rp_fs_mb_exec_single_path(op, pid, args, s, i, io)
         \/ rp_fs_mb_exec_rename(pid, args, s, i, j, io)
  PROVE  Calm
<1>1. CASE \E o \in {op, "RENAME"} : \E err : Refuse(o, err)
  BY <1>1, RefuseCalm
<1>2. CASE ~\E o \in {op, "RENAME"} : \E err : Refuse(o, err)
  <2>1. reply'.op \in {op, "RENAME"} /\ UNCHANGED <<files, dirs>>
    BY <1>2 DEF rp_fs_mb_exec_single_path, rp_fs_mb_exec_rename, Done, Answer
  <2> QED
    BY <2>1 DEF Calm
<1> QED
  BY <1>1, <1>2

\* A transfer moves on in a file or directory that stays open.
LEMMA MovedInUse ==
  ASSUME FsInv, NEW h \in Handles, NEW a, NEW b
  PROVE  /\ \A k \in Handles : Moved(h, a, b)[k].in_use = files[k].in_use
         /\ \A k \in Handles : [dirs EXCEPT ![h].index = a][k].in_use = dirs[k].in_use
<1>1. FileOK(files[h]) /\ DirOK(dirs[h]) /\ IsTable(files) /\ IsTable(dirs)
  BY DEF FsInv, FileTypes, DirTypes
<1> QED
  BY <1>1 DEF Moved, FileOK, DirOK, IsTable

LEMMA MoveCalm ==
  ASSUME FsInv, NEW args, NEW h, NEW ptr, NEW n, NEW whence, NEW io,
         \/ rp_fs_mb_exec_read(args, h, ptr, n, io)
         \/ rp_fs_mb_exec_write(args, h, ptr, n, io)
         \/ rp_fs_mb_exec_seek(args, h, whence, n, io)
         \/ rp_fs_mb_exec_tell(args, h)
         \/ rp_fs_mb_exec_readdir(args, h, ptr, n, io)
  PROVE  Calm
<1> DEFINE Ops == {"READ", "WRITE", "SEEK", "TELL", "READDIR"}
<1>1. CASE \E op \in Ops : \E err : Refuse(op, err)
  BY <1>1, RefuseCalm
<1>2. CASE ~\E op \in Ops : \E err : Refuse(op, err)
  <2>1. CASE rp_fs_mb_exec_read(args, h, ptr, n, io)
    <3>1. h \in Handles /\ FileOK(files[h]) /\ IsTable(files)
      BY <1>2, <2>1 DEF rp_fs_mb_exec_read, IsOpen, FsInv, FileTypes
    <3>2. PICK a : /\ files' = [files EXCEPT ![h].pos = files[h].pos + a]
                   /\ dirs' = dirs /\ reply'.op = "READ"
      BY <1>2, <2>1 DEF rp_fs_mb_exec_read, Done, Answer
    <3>3. files' = Moved(h, files[h].pos + a, files[h].size)
      BY <3>1, <3>2 DEF Moved, FileOK, IsTable
    <3> QED
      BY <3>1, <3>2, <3>3, MovedInUse DEF Calm
  <2>2. CASE rp_fs_mb_exec_write(args, h, ptr, n, io)
    <3> DEFINE a == Least(files[h].pos + Least(n, CHUNK_SIZE), MaxSize)
               b == IF a > files[h].size THEN a ELSE files[h].size
    <3>1. /\ h \in Handles /\ FileOK(files[h]) /\ IsTable(files)
          /\ files' = [files EXCEPT ![h].pos = a, ![h].size = IF a > @ THEN a ELSE @]
          /\ dirs' = dirs /\ reply'.op = "WRITE"
      BY <1>2, <2>2 DEF rp_fs_mb_exec_write, IsOpen, FsInv, FileTypes, Done, Answer
    <3> HIDE DEF a
    <3>2. files' = Moved(h, a, b)
      BY <3>1 DEF Moved, FileOK, IsTable
    <3> HIDE DEF b
    <3>3. h \in Handles
      BY <3>1
    <3>4. \A k \in Handles : files'[k].in_use = files[k].in_use
      BY <3>2, <3>3, MovedInUse
    <3> QED
      BY <3>1, <3>4 DEF Calm
  <2>3. CASE rp_fs_mb_exec_seek(args, h, whence, n, io)
    <3> DEFINE target == n + (CASE whence = "SET" -> 0 [] whence = "CUR" -> files[h].pos [] OTHER -> files[h].size)
               a == Least(target, IF "WRITE" \in files[h].flags THEN MaxSize ELSE files[h].size)
               b == IF a > files[h].size THEN a ELSE files[h].size
    <3>1. /\ h \in Handles /\ FileOK(files[h]) /\ IsTable(files)
          /\ files' = [files EXCEPT ![h].pos = a, ![h].size = IF a > @ THEN a ELSE @]
          /\ dirs' = dirs /\ reply'.op = "SEEK"
      BY <1>2, <2>3 DEF rp_fs_mb_exec_seek, IsOpen, FsInv, FileTypes, Done, Answer
    <3> HIDE DEF a
    <3>2. files' = Moved(h, a, b)
      BY <3>1 DEF Moved, FileOK, IsTable
    <3> HIDE DEF b
    <3>3. h \in Handles
      BY <3>1
    <3>4. \A k \in Handles : files'[k].in_use = files[k].in_use
      BY <3>2, <3>3, MovedInUse
    <3> QED
      BY <3>1, <3>4 DEF Calm
  <2>4. CASE rp_fs_mb_exec_tell(args, h)
    BY <1>2, <2>4 DEF rp_fs_mb_exec_tell, Done, Answer, Calm
  <2>5. CASE rp_fs_mb_exec_readdir(args, h, ptr, n, io)
    <3> DEFINE a == IF dirs[h].index < Cardinality(Children(dirs[h].device, dirs[h].path))
                    THEN dirs[h].index + 1 ELSE dirs[h].index
    <3>1. /\ h \in Handles /\ files' = files /\ reply'.op = "READDIR"
          /\ dirs' = [dirs EXCEPT ![h].index = a]
      BY <1>2, <2>5 DEF rp_fs_mb_exec_readdir, Done, Answer
    <3> HIDE DEF a
    <3> QED
      BY <3>1, MovedInUse DEF Calm
  <2> QED
    BY <2>1, <2>2, <2>3, <2>4, <2>5
<1> QED
  BY <1>1, <1>2

LEMMA CwdCalm == ASSUME CwdExec PROVE Calm
<1> DEFINE Ops == {"GETCWD", "CWD_INIT_ROOT", "CWD_CLONE"}
<1>1. CASE \E op \in Ops : \E err : Refuse(op, err)
  BY <1>1, RefuseCalm
<1>2. CASE ~\E op \in Ops : \E err : Refuse(op, err)
  <2>1. reply'.op \in Ops /\ UNCHANGED <<files, dirs>>
    BY <1>2 DEF CwdExec, rp_fs_mb_exec_getcwd, rp_fs_cwd_init_root, rp_fs_cwd_clone, Done, Answer
  <2> QED
    BY <2>1 DEF Calm
<1> QED
  BY <1>1, <1>2

LEMMA StepOwnedInv == FsInv /\ OwnedInv /\ [Next]_vars => OwnedInv'
<1> SUFFICES ASSUME FsInv, OwnedInv, [Next]_vars PROVE OwnedInv'
  OBVIOUS
<1>1. ASSUME rp_fs_mailbox_handle_exec, Hands PROVE OwnedInv'
  <2>1. PICK pid \in Pids, x \in Strings, i \in Inputs :
          LET args == x[1]
              s == <<x[2], x[3]>>
          IN \/ \E io \in BOOLEAN :
                 \/ \E mode \in {"READ", "WRITE_TRUNC", "WRITE_EXISTING", "RW_EXISTING", "RW_CREATE"} :
                      rp_fs_mb_exec_open(pid, args, s, i, mode, io)
                 \/ \E op \in {"DELETE", "MKDIR", "RMDIR"} :
                      rp_fs_mb_exec_single_path(op, pid, args, s, i, io)
                 \/ \E j \in Inputs : rp_fs_mb_exec_rename(pid, args, s, i, j, io)
                 \/ rp_fs_mb_exec_opendir(pid, args, s, i, io)
             \/ \E fault \in {"none", "open", "close"} :
                 \/ rp_fs_mb_exec_chdir(pid, args, s, i, fault)
                 \/ \E op \in {"LOAD", "SAVE"}, b \in Buffers :
                      rp_fs_mb_exec_bulk(op, pid, args, s, i, b[1], b[2], fault)
    BY <1>1 DEF rp_fs_mailbox_handle_exec
  <2>2. "MKDIR" \in {"DELETE", "MKDIR", "RMDIR"}
    OBVIOUS
  <2> QED
    BY <1>1, <2>1, <2>2, OpenOwned, PathCalm, ChdirCalm, BulkCalm, CalmKeeps
<1>2. ASSUME HandleExec, Hands PROVE OwnedInv'
  BY <1>2, CloseOwned, MoveCalm, CalmKeeps DEF HandleExec
<1>3. ASSUME CwdExec, Hands PROVE OwnedInv'
  BY <1>3, CwdCalm, CalmKeeps
<1>4. ASSUME rp_fs_mailbox_reset, Hands PROVE OwnedInv'
  <2>1. ~NoFile.in_use /\ ~NoDir.in_use
    BY DEF NoFile, NoDir
  <2>2. files' = [h \in Handles |-> NoFile] /\ dirs' = [h \in Handles |-> NoDir] /\ reply'.op = "reset"
    BY <1>4 DEF rp_fs_mailbox_reset, Answer
  <2>3. Given(reply') = {}
    BY <2>2 DEF Given
  <2>4. owned' \subseteq owned
    BY <1>4, <2>3 DEF Hands
  <2> QED
    BY <2>1, <2>2, <2>4 DEF OwnedInv, NoOrphanHandle
<1>5. ASSUME NEW d \in Devices, Plug(d) \/ Pull(d) PROVE OwnedInv'
  <2>1. ~NoFile.in_use /\ ~NoDir.in_use
    BY DEF NoFile, NoDir
  <2>2. \A h \in Handles : files'[h] \in {NoFile, files[h]} /\ dirs'[h] \in {NoDir, dirs[h]}
    BY <1>5 DEF Plug, Pull
  <2>3. owned' = owned
    BY <1>5 DEF Plug, Pull
  <2> QED
    BY <2>1, <2>2, <2>3 DEF OwnedInv, NoOrphanHandle
<1>6. CASE UNCHANGED vars
  BY <1>6 DEF vars, OwnedInv, NoOrphanHandle
<1> QED
  BY <1>1, <1>2, <1>3, <1>4, <1>5, <1>6 DEF Next, Request, Hands

LEMMA OwnedInvariance == Spec => []OwnedInv
<1>1. Init => OwnedInv
  BY DEF Init, OwnedInv, NoOrphanHandle, NoFile, NoDir
<1> QED
  BY <1>1, StepOwnedInv, FsInvariance, PTL DEF Spec

(* rp_fs_mailbox.cpp, rp_fs.cpp: each handle in use is one that the 6502    *)
(* was given by an OPEN and has not closed: whatever a LOAD, a SAVE or a    *)
(* change of directory opened, it has closed, wherever it failed, and a     *)
(* close that failed has freed its handle.                                  *)
THEOREM HandlesAreOwned == Spec => []NoOrphanHandle
<1>1. OwnedInv => NoOrphanHandle
  BY DEF OwnedInv
<1> QED
  BY <1>1, OwnedInvariance, PTL

(* rp_fs.cpp and rp_fs_path.cpp: tables, directories and what is on the    *)
(* sticks keep their types; a file or directory in use is of a stick that  *)
(* is there, and a position is never beyond its file.                      *)
THEOREM FsTypes == Spec => []TypeOK
<1>1. FsInv /\ OwnedInv => TypeOK
  <2> SUFFICES ASSUME FsInv, OwnedInv PROVE TypeOK
    OBVIOUS
  <2>1. \A d \in Devices : \A p \in DOMAIN disk[d] :
          p \in Seq(Names) /\ disk[d][p] \in {DIR} \union 0 .. MaxSize
    BY DEF FsInv, Disks, Entries
  <2>2. ASSUME NEW h \in Handles
        PROVE  /\ files[h].in_use => files[h].device \in mounted /\ files[h].flags \in Flags \ {{}}
               /\ files[h].size \in 0 .. MaxSize /\ files[h].pos \in 0 .. files[h].size
               /\ dirs[h].in_use => dirs[h].device \in mounted
    <3>1. FileOK(files[h]) /\ DirOK(dirs[h])
      BY DEF FsInv, FileTypes, DirTypes
    <3> QED
      BY SMTT(30), <3>1, FsAssumption DEF FileOK, DirOK
  <2>3. \A p \in Pids : cwd[p].device \in Devices /\ cwd[p].path \in Seq(Names)
    BY DEF FsInv, CwdTypes
  <2> QED
    BY <2>1, <2>2, <2>3 DEF FsInv, OwnedInv, TypeOK, Errors
<1> QED
  BY <1>1, FsInvariance, OwnedInvariance, PTL

(* rp_fs_path.cpp: what rp_fs_cwd_format writes for GETCWD fits its        *)
(* buffer, and rp_fs_resolve_process_path leads from it back to the same   *)
(* directory, for every process, name and length of a name.                *)
THEOREM DirectoriesRoundTrip == Spec => []CwdRoundTrips
<1>1. FsInv => CwdRoundTrips
  <2> SUFFICES ASSUME FsInv, NEW p \in Pids, NEW q \in Pids
               PROVE  /\ strlen(cwd[p].path) < CWD_MAX
                      /\ rp_fs_resolve_process_path(q, rp_fs_cwd_format(p)) = cwd[p]
    BY DEF CwdRoundTrips
  <2>1. /\ cwd[p] \in [device : Devices, path : Seq(Names)]
        /\ strlen(cwd[p].path) < CWD_MAX
    BY DEF FsInv, CwdTypes
  <2> DEFINE i == rp_fs_cwd_format(p)
             n == strlen(cwd[p].path)
  <2>2. n \in Nat
    <3>1. Len(cwd[p].path) \in 0 .. Len(cwd[p].path)
      BY <2>1, LenProperties
    <3> QED
      BY <2>1, <3>1, StrlenPrefix
  <2>3. ~(3 + n + 1 > PATH_MAX) /\ n < PATH_MAX
    <3>1. n < CWD_MAX
      BY <2>1
    <3> HIDE DEF n
    <3> QED
      BY <2>2, <3>1, FsAssumption
  <2>4. i.drive = cwd[p].device /\ i.comps = cwd[p].path
    BY <2>3 DEF rp_fs_cwd_format
  <2> HIDE DEF i
  <2>5. cwd[p].device # None /\ cwd[p].device \in Devices
    <3>1. cwd[p].device \in Nat
      BY <2>1, FsAssumption DEF Devices
    <3> QED
      BY <2>1, <3>1 DEF None
  <2>6. rp_fs_resolve_process_path(q, i) =
          [device |-> cwd[p].device, path |-> Walk(<<>>, cwd[p].path)]
    BY <2>4, <2>5 DEF rp_fs_resolve_process_path
  <2>7. Walk(<<>>, cwd[p].path) = cwd[p].path
    BY <2>1, <2>3, WalkBack
  <2> QED
    BY <2>1, <2>6, <2>7 DEF i
<1> QED
  BY <1>1, FsInvariance, PTL

\* What an EINVAL leaves alone.
Untouched == UNCHANGED <<files, dirs, cwd>> /\ (UNCHANGED disk \/ reply'.op = "SAVE")

LEMMA RefusedUntouched == ASSUME NEW op, NEW err, Refuse(op, err) PROVE Untouched
  BY DEF Refuse, Untouched

LEMMA EinvalUntouched ==
  ASSUME FsInv, [Next]_vars, UNCHANGED mounted, reply'.err = "EINVAL"
  PROVE  Untouched
<1>1. CASE \E op, err : Refuse(op, err)
  BY <1>1, RefusedUntouched
<1>2. CASE ~\E op, err : Refuse(op, err)
  <2>1. ASSUME rp_fs_mailbox_handle_exec PROVE Untouched
    <3>1. PICK pid \in Pids, x \in Strings, i \in Inputs :
            LET args == x[1]
                s == <<x[2], x[3]>>
            IN \/ \E io \in BOOLEAN :
                   \/ \E mode \in {"READ", "WRITE_TRUNC", "WRITE_EXISTING", "RW_EXISTING", "RW_CREATE"} :
                        rp_fs_mb_exec_open(pid, args, s, i, mode, io)
                   \/ \E op \in {"DELETE", "MKDIR", "RMDIR"} :
                        rp_fs_mb_exec_single_path(op, pid, args, s, i, io)
                   \/ \E j \in Inputs : rp_fs_mb_exec_rename(pid, args, s, i, j, io)
                   \/ rp_fs_mb_exec_opendir(pid, args, s, i, io)
               \/ \E fault \in {"none", "open", "close"} :
                   \/ rp_fs_mb_exec_chdir(pid, args, s, i, fault)
                   \/ \E op \in {"LOAD", "SAVE"}, b \in Buffers :
                        rp_fs_mb_exec_bulk(op, pid, args, s, i, b[1], b[2], fault)
      BY <2>1 DEF rp_fs_mailbox_handle_exec
    <3>2. ASSUME NEW args, NEW s, NEW io, NEW mode, NEW j,
                 \/ rp_fs_mb_exec_open(pid, args, s, i, mode, io)
                 \/ rp_fs_mb_exec_rename(pid, args, s, i, j, io)
                 \/ rp_fs_mb_exec_opendir(pid, args, s, i, io)
                 \/ rp_fs_mb_exec_chdir(pid, args, s, i, mode)
          PROVE  FALSE
      BY <1>2, <3>2 DEF rp_fs_mb_exec_open, rp_fs_mb_exec_rename, rp_fs_mb_exec_opendir,
                        rp_fs_mb_exec_chdir, Done, Answer
    <3>3. ASSUME NEW args, NEW s, NEW io, NEW op, rp_fs_mb_exec_single_path(op, pid, args, s, i, io)
          PROVE  FALSE
      BY <1>2, <3>3 DEF rp_fs_mb_exec_single_path, Done, Answer
    <3>4. ASSUME NEW args, NEW s, NEW fault, NEW op \in {"LOAD", "SAVE"}, NEW ptr, NEW size,
                 rp_fs_mb_exec_bulk(op, pid, args, s, i, ptr, size, fault)
          PROVE  Untouched
      <4>1. PICK f :
              /\ FreeFiles # {} /\ reply'.op = op
              /\ files' = rp_fs_close(Opening(files, First(FreeFiles), f), First(FreeFiles))
              /\ UNCHANGED <<dirs, cwd>>
              /\ op = "LOAD" => disk' = disk
        BY <1>2, <3>4 DEF rp_fs_mb_exec_bulk, Answer
      <4>2. files' = files
        BY <4>1, Again
      <4> QED
        BY <3>4, <4>1, <4>2 DEF Untouched
    <3> QED
      BY <3>1, <3>2, <3>3, <3>4
  <2>2. ASSUME HandleExec PROVE Untouched
    <3>1. ASSUME NEW args, NEW h, NEW ptr, NEW n, NEW io,
                 \/ rp_fs_mb_exec_read(args, h, ptr, n, io)
                 \/ rp_fs_mb_exec_write(args, h, ptr, n, io)
          PROVE  FALSE
      BY <1>2, <3>1 DEF rp_fs_mb_exec_read, rp_fs_mb_exec_write, Done, Answer
    <3>2. ASSUME NEW args, NEW h, NEW ptr, NEW n, NEW io, rp_fs_mb_exec_readdir(args, h, ptr, n, io)
          PROVE  FALSE
      BY <1>2, <3>2 DEF rp_fs_mb_exec_readdir, Done, Answer
    <3>3. ASSUME NEW args, NEW h, NEW whence, NEW n, NEW io,
                 rp_fs_mb_exec_seek(args, h, whence, n, io) \/ rp_fs_mb_exec_tell(args, h)
          PROVE  FALSE
      BY <1>2, <3>3 DEF rp_fs_mb_exec_seek, rp_fs_mb_exec_tell, Done, Answer
    <3>4. ASSUME NEW h, NEW io, rp_fs_mb_exec_close(h, io) \/ rp_fs_mb_exec_closedir(h, io)
          PROVE  FALSE
      BY <1>2, <3>4 DEF rp_fs_mb_exec_close, rp_fs_mb_exec_closedir, Done, Answer
    <3> QED
      BY <2>2, <3>1, <3>2, <3>3, <3>4 DEF HandleExec
  <2>3. ASSUME CwdExec PROVE Untouched
    BY <1>2, <2>3 DEF CwdExec, rp_fs_mb_exec_getcwd, rp_fs_cwd_init_root, rp_fs_cwd_clone, Done, Answer
  <2>4. ASSUME rp_fs_mailbox_reset PROVE Untouched
    BY <2>4 DEF rp_fs_mailbox_reset, Answer
  <2>5. ASSUME NEW d \in Devices, Plug(d) \/ Pull(d) PROVE Untouched
    BY <2>5 DEF Plug, Pull
  <2>6. CASE UNCHANGED vars
    BY <2>6 DEF vars, Untouched
  <2> QED
    BY <2>1, <2>2, <2>3, <2>4, <2>5, <2>6 DEF Next, Request
<1> QED
  BY <1>1, <1>2

(* rp_fs_mailbox.cpp: a request refused with EINVAL has done nothing (but *)
(* a SAVE has emptied its file), and what a request writes to the caller's *)
(* memory stays in the private area, or for a LOAD in the context.         *)
THEOREM RequestsKeepTo == Spec => KeepsToItsRequest
<1>1. FsInv /\ FsInv' /\ [Next]_vars =>
        [/\ UNCHANGED mounted /\ reply'.err = "EINVAL" =>
              UNCHANGED <<files, dirs, cwd>> /\ (UNCHANGED disk \/ reply'.op = "SAVE")
         /\ \A w \in wrote' : IF reply'.op = "LOAD" THEN w[1] + w[2] <= Mem
                              ELSE w[1] > 0 /\ w[1] + w[2] <= PRIVATE_LIMIT]_vars
  BY EinvalUntouched DEF Untouched, FsInv, PieceInv
<1> QED
  BY <1>1, FsInvariance, PTL DEF Spec, KeepsToItsRequest
=============================================================================
