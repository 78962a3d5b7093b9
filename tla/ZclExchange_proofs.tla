-------------------------- MODULE ZclExchange_proofs --------------------------
(***************************************************************************)
(* Frames are read as they were written, and what an answer says is so:    *)
(* for every cluster, all requests, any depth of nested data and any limit *)
(* of the frame's length.                                                  *)
(*                                                                         *)
(* The first part is about ZclFormat.  Whatever bytes there are, a reader  *)
(* takes something within them, refuses or halts; and of bytes that start  *)
(* with what was written, it takes what was meant and no more, if the      *)
(* format carries it.  Both are shown of simple data, of each level of     *)
(* nested data from the level below, of fields, of records of any layout   *)
(* and of the start of a frame.                                            *)
(*                                                                         *)
(* The second part is about what the node makes of a frame: its attributes *)
(* keep their types, its answer is a frame that can be written, and the    *)
(* image that it saves gives the attributes back.                          *)
(*                                                                         *)
(* The third part is the inductive invariant and one lemma per action.     *)
(*                                                                         *)
(* Induction goes over sets of numbers (InductionSet), recursion over runs *)
(* of a number of steps (Recursion), and a recursive definition is met by  *)
(* showing that the function it describes exists and is unique.            *)
(***************************************************************************)
EXTENDS ZclExchange, WellFoundedInduction, SequenceTheorems, FiniteSetTheorems, TLAPS

-----------------------------------------------------------------------------
(* Recursion. *)

\* Induction over the numbers, as a fact about sets of them.
LEMMA InductionSet ==
    ASSUME NEW S, 0 \in S, \A i \in Nat : i \in S => i + 1 \in S
    PROVE  Nat \subseteq S
<1> SUFFICES ASSUME Nat \ S # {} PROVE FALSE
    OBVIOUS
<1> DEFINE R == OpToRel(<, Nat)
<1>1. IsWellFoundedOn(R, Nat)
    BY NatLessThanWellFounded
<1>2. \A i, j \in Nat : j < i => <<j, i>> \in R
    BY DEF OpToRel
<1> HIDE DEF R
<1>3. PICK i \in Nat \ S : \A j \in Nat \ S : <<j, i>> \notin R
    BY <1>1, WFMin
<1>4. i - 1 \in Nat
    BY <1>3
<1>5. <<i - 1, i>> \in R
    BY <1>2, <1>4
<1>6. i - 1 \in S
    BY <1>3, <1>4, <1>5
<1> QED
    BY <1>4, <1>6

\* What is true of 0, and of each number up to n if it is true of the one before.
LEMMA InductionUpTo ==
    ASSUME NEW S, NEW n \in Nat, 0 \in S, \A i \in 1..n : i - 1 \in S => i \in S
    PROVE  0..n \subseteq S
<1> DEFINE T == {i \in Nat : i <= n => i \in S}
<1>1. 0 \in T
    OBVIOUS
<1>2. ASSUME NEW i \in Nat, i \in T
      PROVE  i + 1 \in T
    <2> SUFFICES ASSUME i + 1 <= n PROVE i + 1 \in S
        OBVIOUS
    <2>1. i + 1 \in 1..n /\ (i + 1) - 1 = i /\ i \in S
        BY <1>2
    <2> QED
        BY <2>1
<1>3. Nat \subseteq T
    <2> HIDE DEF T
    <2> QED
        BY <1>1, <1>2, InductionSet
<1> QED
    BY <1>3

\* A function that is defined step by step up to n exists.
Runs(f, s0, n, step) == f[0] = s0 /\ \A i \in 1..n : f[i] = step[i][f[i - 1]]
HasRun(S, s0, n, step) == \E f \in [0..n -> S] : Runs(f, s0, n, step)

\* A state run through n steps: the run exists.
LEMMA Recursion ==
    ASSUME NEW S, NEW s0 \in S, NEW n \in Nat, NEW step \in [1..n -> [S -> S]]
    PROVE  HasRun(S, s0, n, step)
<1> DEFINE Good(m) == \E f \in [0..n -> S] :
                        f[0] = s0 /\ \A i \in 1..n : i <= m => f[i] = step[i][f[i - 1]]
           T == {m \in Nat : m <= n => Good(m)}
<1>1. 0 \in T
    <2>1. [i \in 0..n |-> s0][0] = s0 /\ \A i \in 1..n : ~(i <= 0)
        OBVIOUS
    <2>2. Good(0)
        BY <2>1
    <2> QED
        BY <2>2
<1>2. ASSUME NEW m \in 1..n, Good(m - 1)
      PROVE  Good(m)
    <2>1. PICK f \in [0..n -> S] :
            f[0] = s0 /\ \A i \in 1..n : i <= m - 1 => f[i] = step[i][f[i - 1]]
        BY <1>2
    <2> DEFINE g == [f EXCEPT ![m] = step[m][f[m - 1]]]
    <2>2. step[m][f[m - 1]] \in S
        <3>1. f[m - 1] \in S
            OBVIOUS
        <3> QED
            BY <3>1
    <2>3. g \in [0..n -> S] /\ g[0] = s0
        BY <2>1, <2>2
    <2>4. ASSUME NEW i \in 1..n, i <= m
          PROVE  g[i] = step[i][g[i - 1]]
        <3>1. CASE i = m
            BY <3>1, <2>1
        <3>2. CASE i <= m - 1
            BY <3>2, <2>1
        <3> QED
            BY <3>1, <3>2, <2>4
    <2>5. \A i \in 1..n : i <= m => g[i] = step[i][g[i - 1]]
        BY <2>4
    <2> HIDE DEF g
    <2> QED
        BY <2>3, <2>5
<1>3. 0..n \subseteq T
    <2>1. ASSUME NEW m \in 1..n, m - 1 \in T
          PROVE  m \in T
        <3>1. m - 1 <= n
            OBVIOUS
        <3> HIDE DEF Good
        <3>2. Good(m)
            BY <1>2, <2>1, <3>1
        <3> QED
            BY <3>2
    <2> HIDE DEF T
    <2> QED
        BY <1>1, <2>1, InductionUpTo
<1>4. PICK f \in [0..n -> S] :
            f[0] = s0 /\ \A i \in 1..n : i <= n => f[i] = step[i][f[i - 1]]
    BY <1>3
<1> QED
    BY <1>4 DEF HasRun, Runs

-----------------------------------------------------------------------------
(* The levels. *)

Ground ==
    [data |-> {}, write |-> [d \in {} |-> <<>>], read |-> [b \in Seq(Byte) |-> Refused]]

Above(l) ==
    [data |-> DataAbove(l), write |-> [d \in DataAbove(l) |-> WriteAbove(l, d)],
     read |-> [b \in Seq(Byte) |-> ReadAbove(l, b)]]

LevelsTo(m, f) == f = [i \in 0..m |-> IF i = 0 THEN Ground ELSE Above(f[i - 1])]

\* The levels up to any depth exist as one function.
LEMMA LevelsExist ==
    ASSUME NEW m \in Nat
    PROVE  \E f : LevelsTo(m, f)
<1> DEFINE T == {k \in Nat : \E f : LevelsTo(k, f)}
<1>1. 0 \in T
    <2>1. LevelsTo(0, [i \in 0..0 |-> Ground])
        BY DEF LevelsTo
    <2> QED
        BY <2>1
<1>2. ASSUME NEW k \in Nat, k \in T
      PROVE  k + 1 \in T
    <2>1. PICK f : LevelsTo(k, f)
        BY <1>2
    <2> DEFINE g == [i \in 0..(k + 1) |-> IF i = k + 1 THEN Above(f[k]) ELSE f[i]]
    <2>2. g[0] = Ground
        BY <2>1 DEF LevelsTo
    <2>3. \A i \in 1..(k + 1) : g[i] = Above(g[i - 1])
        BY <2>1 DEF LevelsTo
    <2>4. g = [i \in 0..(k + 1) |-> g[i]]
        OBVIOUS
    <2>5. LevelsTo(k + 1, g)
        <3> HIDE DEF g
        <3> QED
            <4>1. \A i \in 0..(k + 1) : g[i] = IF i = 0 THEN Ground ELSE Above(g[i - 1])
                BY <2>2, <2>3
            <4> QED
                BY <2>4, <4>1 DEF LevelsTo
    <2> QED
        BY <2>5
<1>3. Nat \subseteq T
    <2> HIDE DEF T
    <2> QED
        BY <1>1, <1>2, InductionSet
<1> QED
    BY <1>3

\* A deeper sequence of levels starts as a shallower one.
LEMMA LevelsAgree ==
    ASSUME NEW m \in Nat, NEW f, NEW g, LevelsTo(m, f), LevelsTo(m + 1, g)
    PROVE  \A i \in 0..m : f[i] = g[i]
<1> DEFINE T == {i \in 0..m : f[i] = g[i]}
<1>1. 0 \in T
    BY DEF LevelsTo
<1>2. ASSUME NEW i \in 1..m, i - 1 \in T
      PROVE  i \in T
    <2>1. f[i] = Above(f[i - 1]) /\ g[i] = Above(g[i - 1])
        BY DEF LevelsTo
    <2> QED
        BY <1>2, <2>1
<1>3. 0..m \subseteq T
    <2> HIDE DEF T
    <2> QED
        BY <1>1, <1>2, InductionUpTo
<1> QED
    BY <1>3

\* The recursive definition of the levels holds at every depth.
LEMMA Levels ==
    /\ Level[0] = Ground
    /\ \A n \in Nat : Level[n + 1] = Above(Level[n])
<1> DEFINE to == [m \in Nat |-> CHOOSE f : LevelsTo(m, f)]
           F == [n \in Nat |-> to[n][n]]
           Is(f) == f = [n \in Nat |-> IF n = 0 THEN Ground ELSE Above(f[n - 1])]
<1>1. \A m \in Nat : LevelsTo(m, to[m])
    BY LevelsExist
<1> HIDE DEF to
<1>2. F[0] = Ground
    <2>1. LevelsTo(0, to[0])
        BY <1>1
    <2>2. to[0][0] = Ground
        BY <2>1 DEF LevelsTo
    <2> QED
        BY <2>2
<1>3. ASSUME NEW n \in Nat
      PROVE  F[n + 1] = Above(F[n])
    <2>1. to[n + 1][n + 1] = Above(to[n + 1][n])
        <3>1. LevelsTo(n + 1, to[n + 1])
            BY <1>1
        <3> QED
            BY <3>1 DEF LevelsTo
    <2>2. to[n + 1][n] = to[n][n]
        BY <1>1, LevelsAgree
    <2> QED
        BY <2>1, <2>2
<1>4. Is(F)
    <2>1. \A n \in Nat : n # 0 => F[n] = Above(F[n - 1])
        <3> TAKE n \in Nat
        <3> HAVE n # 0
        <3>1. n - 1 \in Nat /\ (n - 1) + 1 = n
            OBVIOUS
        <3> HIDE DEF F
        <3> QED
            BY <3>1, <1>3
    <2>2. F = [n \in Nat |-> F[n]]
        OBVIOUS
    <2> HIDE DEF F
    <2> QED
        BY <1>2, <2>1, <2>2
<1>5. Level = CHOOSE f : Is(f)
    BY DEF Level, Ground, Above
<1> HIDE DEF F
<1>6. Is(Level)
    <2> HIDE DEF Is
    <2> QED
        BY <1>4, <1>5
<1> QED
    BY <1>6

-----------------------------------------------------------------------------
(* Sequences. *)

\* What is left behind the first of two sequences is the second.
LEMMA FromConcat ==
    ASSUME NEW T, NEW a \in Seq(T), NEW b \in Seq(T)
    PROVE  From(a \o b, Len(a)) = b
<1>1. /\ a \o b \in Seq(T) /\ Len(a \o b) = Len(a) + Len(b)
      /\ \A i \in 1..(Len(a) + Len(b)) : (a \o b)[i] = IF i <= Len(a) THEN a[i] ELSE b[i - Len(a)]
    BY ConcatProperties
<1> DEFINE c == a \o b
<1> HIDE DEF c
<1>2. /\ SubSeq(c, Len(a) + 1, Len(c)) \in Seq(T)
      /\ Len(SubSeq(c, Len(a) + 1, Len(c))) = Len(b)
      /\ \A i \in 1..Len(b) : SubSeq(c, Len(a) + 1, Len(c))[i] = c[Len(a) + i]
    BY <1>1 DEF c
<1>3. \A i \in 1..Len(b) : c[Len(a) + i] = b[i]
    BY <1>1 DEF c
<1>4. SubSeq(c, Len(a) + 1, Len(c)) = b
    BY <1>2, <1>3, SeqEqual
<1> QED
    BY <1>4 DEF From, c

\* The rest of a sequence from a place on.
LEMMA FromType ==
    ASSUME NEW T, NEW s \in Seq(T), NEW n \in Nat
    PROVE  /\ From(s, n) \in Seq(T)
           /\ Len(From(s, n)) = IF n <= Len(s) THEN Len(s) - n ELSE 0
           /\ \A i \in 1..(Len(s) - n) : From(s, n)[i] = s[n + i]
    BY DEF From

\* The rest from the start is the whole.
LEMMA FromNothing ==
    ASSUME NEW T, NEW s \in Seq(T)
    PROVE  From(s, 0) = s
    BY SubSeqFull DEF From

\* Sequences of bytes that are laid end to end, step by step.
Bytes == Seq(Byte)

\* Sequences of bytes joined together.
LEMMA BytesConcat ==
    /\ <<>> \in Bytes
    /\ \A s \in Bytes : s \o <<>> = s /\ <<>> \o s = s /\ Len(s) \in Nat
    /\ \A s, t \in Bytes : s \o t \in Bytes /\ Len(s \o t) = Len(s) + Len(t)
    /\ \A s, t, u \in Bytes : (s \o t) \o u = s \o (t \o u)
<1> DEFINE T == Byte
<1> HIDE DEF T
<1>1. \A s, t \in Seq(T) : s \o t \in Seq(T) /\ Len(s \o t) = Len(s) + Len(t)
    BY ConcatProperties
<1>2. \A s, t, u \in Seq(T) : (s \o t) \o u = s \o (t \o u)
    BY ConcatAssociative
<1>3. <<>> \in Seq(T) /\ \A s \in Seq(T) : s \o <<>> = s /\ <<>> \o s = s /\ Len(s) \in Nat
    BY ConcatEmptySeq
<1> QED
    BY <1>1, <1>2, <1>3 DEF Bytes, T

Laid(parts, f) ==
    /\ f \in [0..Len(parts) -> Bytes] /\ f[0] = <<>>
    /\ \A i \in 1..Len(parts) : f[i] = f[i - 1] \o parts[i]

\* The sequence of what has been laid so far exists.
LEMMA LaidExists ==
    ASSUME NEW parts \in Seq(Bytes)
    PROVE  \E f : Laid(parts, f)
<1> DEFINE n == Len(parts)
           S == Bytes
           step == [i \in 1..n |-> [s \in S |-> s \o parts[i]]]
<1>1. n \in Nat /\ <<>> \in S /\ \A i \in 1..n : parts[i] \in S
    BY DEF Bytes
<1>2. \A s, t \in S : s \o t \in S
    BY BytesConcat
<1> HIDE DEF S
<1>3. n = Len(parts)
    OBVIOUS
<1> HIDE DEF n
<1>4. step \in [1..n -> [S -> S]]
    BY <1>1, <1>2
<1>5. \A i \in 1..n : \A s \in S : step[i][s] = s \o parts[i]
    OBVIOUS
<1> HIDE DEF step
<1> DEFINE e == <<>>
<1>6. e \in S
    BY <1>1
<1> HIDE DEF e
<1>7. HasRun(S, e, n, step)
    BY <1>1, <1>4, <1>6, Recursion
<1>8. PICK f \in [0..n -> S] : Runs(f, e, n, step)
    BY <1>7 DEF HasRun
<1>9. ASSUME NEW i \in 1..n
      PROVE  f[i] = f[i - 1] \o parts[i]
    <2>1. f[i] = step[i][f[i - 1]]
        BY <1>8 DEF Runs
    <2>2. f[i - 1] \in S
        BY <1>1
    <2> QED
        BY <1>5, <2>1, <2>2
<1>10. f[0] = <<>>
    BY <1>8 DEF Runs, e
<1> QED
    BY <1>3, <1>9, <1>10 DEF Laid, S

\* Laying all parts flattens them.
LEMMA LaidFlat ==
    ASSUME NEW parts \in Seq(Bytes), NEW f, Laid(parts, f)
    PROVE  FlattenSeq(parts) = f[Len(parts)]
<1> DEFINE n == Len(parts)
<1>1. n \in Nat /\ n = Len(parts) /\ \A i \in 1..n : parts[i] \in Bytes
    OBVIOUS
<1>2. f \in [0..n -> Bytes] /\ f[0] = <<>> /\ \A i \in 1..n : f[i] = f[i - 1] \o parts[i]
    BY DEF Laid
<1> HIDE DEF n
<1>3. CASE n = 0
    <2>1. Len(parts) = 0
        BY <1>1, <1>3
    <2>2. parts = <<>>
        BY <2>1, EmptySeq
    <2> QED
        BY <1>1, <1>2, <1>3, <2>2 DEF FlattenSeq
<1>4. CASE n > 0
    <2> DEFINE Is(h) == h = [i \in 1..n |-> IF i = 1 THEN parts[i] ELSE h[i - 1] \o parts[i]]
               g == [i \in 1..n |-> f[i]]
    <2>1. f[1] = parts[1]
        <3>1. 1 \in 1..n /\ 1 - 1 = 0
            BY <1>1, <1>4
        <3>2. parts[1] \in Bytes /\ f[1] = f[0] \o parts[1]
            BY <3>1, <1>1, <1>2
        <3> QED
            BY <3>2, <1>2, BytesConcat
    <2>2. Is(g)
        <3>1. ASSUME NEW i \in 1..n
              PROVE  g[i] = IF i = 1 THEN parts[i] ELSE g[i - 1] \o parts[i]
            <4>1. ASSUME i # 1
                  PROVE  g[i] = g[i - 1] \o parts[i]
                <5>1. i - 1 \in 1..n
                    BY <4>1, <1>1
                <5> QED
                    BY <5>1, <1>2
            <4> QED
                BY <2>1, <4>1
        <3>2. g = [i \in 1..n |-> g[i]]
            OBVIOUS
        <3> HIDE DEF g
        <3> QED
            BY <3>1, <3>2
    <2>3. ASSUME NEW h, Is(h)
          PROVE  h[n] = f[n]
        <3> DEFINE U == {i \in 0..n : i = 0 \/ h[i] = f[i]}
        <3>1. 0 \in U
            BY <1>1
        <3>2. ASSUME NEW i \in 1..n, i - 1 \in U
              PROVE  i \in U
            <4>1. CASE i = 1
                BY <4>1, <2>1, <2>3, <1>1, <1>4
            <4>2. CASE i # 1
                <5>1. h[i] = h[i - 1] \o parts[i] /\ f[i] = f[i - 1] \o parts[i]
                    BY <4>2, <2>3, <1>2, <1>1
                <5>2. i - 1 # 0 /\ i \in 0..n
                    BY <4>2, <1>1
                <5>3. h[i - 1] = f[i - 1]
                    BY <5>2, <3>2
                <5> QED
                    BY <5>1, <5>2, <5>3
            <4> QED
                BY <4>1, <4>2
        <3>3. 0..n \subseteq U
            <4> HIDE DEF U
            <4> QED
                BY <3>1, <3>2, <1>1, InductionUpTo
        <3> QED
            BY <3>3, <1>1, <1>4
    <2> DEFINE h == CHOOSE x : Is(x)
    <2>4. Is(h)
        <3> HIDE DEF Is
        <3> QED
            BY <2>2
    <2>5. h[n] = f[n]
        <3> HIDE DEF h, Is
        <3> QED
            BY <2>3, <2>4
    <2> QED
        BY <2>5, <1>1, <1>4 DEF FlattenSeq
<1> QED
    BY <1>1, <1>3, <1>4

\* What is laid before a part is the beginning of the whole.
LEMMA LaidRest ==
    ASSUME NEW parts \in Seq(Bytes), NEW f, Laid(parts, f), NEW i \in 0..Len(parts)
    PROVE  \E g \in Bytes : f[Len(parts)] = f[i] \o g
<1> DEFINE n == Len(parts)
<1>1. n \in Nat /\ n = Len(parts) /\ i \in 0..n /\ \A j \in 1..n : parts[j] \in Bytes
    OBVIOUS
<1>2. f \in [0..n -> Bytes] /\ \A j \in 1..n : f[j] = f[j - 1] \o parts[j]
    BY DEF Laid
<1> HIDE DEF n
<1> DEFINE Good(j) == \E g \in Bytes : f[j] = f[i] \o g
           U == {j \in 0..n : j < i \/ Good(j)}
<1>3. <<>> \in Bytes /\ \A s \in Bytes : s \o <<>> = s
    BY BytesConcat
<1>4. Good(i)
    BY <1>1, <1>2, <1>3
<1>5. 0 \in U
    BY <1>1, <1>4
<1>6. ASSUME NEW j \in 1..n, Good(j - 1)
      PROVE  Good(j)
    <2>1. PICK g \in Bytes : f[j - 1] = f[i] \o g
        BY <1>6
    <2>2. f[i] \in Bytes /\ parts[j] \in Bytes
        BY <1>1, <1>2
    <2>3. (f[i] \o g) \o parts[j] = f[i] \o (g \o parts[j]) /\ g \o parts[j] \in Bytes
        BY <2>2, BytesConcat
    <2>4. f[j] = f[i] \o (g \o parts[j])
        BY <2>1, <2>3, <1>2
    <2> QED
        BY <2>3, <2>4
<1>7. ASSUME NEW j \in 1..n, j - 1 \in U
      PROVE  j \in U
    <2> HIDE DEF Good
    <2>1. CASE j = i
        BY <2>1, <1>1, <1>4
    <2>2. CASE j < i
        BY <2>2, <1>1
    <2>3. CASE j > i
        BY <2>3, <1>1, <1>6, <1>7
    <2> QED
        BY <2>1, <2>2, <2>3, <1>1
<1>8. 0..n \subseteq U
    <2> HIDE DEF U
    <2> QED
        BY <1>1, <1>5, <1>7, InductionUpTo
<1>9. Good(n)
    <2> HIDE DEF Good
    <2> QED
        BY <1>1, <1>4, <1>8
<1> QED
    BY <1>1, <1>9

\* Bytes that begin with those of c.
Starts(b, c) ==
    /\ b \in Bytes /\ c \in Bytes /\ Len(c) <= Len(b)
    /\ \A i \in 1..Len(c) : b[i] = c[i]

\* The rest of a rest.
LEMMA FromFrom ==
    ASSUME NEW T, NEW s \in Seq(T), NEW m \in Nat, NEW n \in Nat, m <= Len(s)
    PROVE  From(From(s, m), n) = From(s, m + n)
<1> DEFINE c == From(s, m)
           a == From(c, n)
           e == From(s, m + n)
<1>1. /\ c \in Seq(T) /\ Len(c) = Len(s) - m
      /\ \A i \in 1..(Len(s) - m) : c[i] = s[m + i]
    BY FromType
<1>2. /\ a \in Seq(T) /\ Len(a) = (IF n <= Len(c) THEN Len(c) - n ELSE 0)
      /\ \A i \in 1..(Len(c) - n) : a[i] = c[n + i]
    <2> HIDE DEF c
    <2> QED
        BY <1>1, FromType
<1>3. /\ e \in Seq(T) /\ Len(e) = (IF m + n <= Len(s) THEN Len(s) - (m + n) ELSE 0)
      /\ \A i \in 1..(Len(s) - (m + n)) : e[i] = s[(m + n) + i]
    <2>1. m + n \in Nat
        OBVIOUS
    <2> QED
        BY <2>1, FromType
<1> HIDE DEF a, c, e
<1>4. Len(a) = Len(e) /\ Len(a) \in Nat /\ Len(s) \in Nat
    BY <1>1, <1>2, <1>3
<1>5. ASSUME NEW i \in 1..Len(a)
      PROVE  a[i] = e[i]
    <2>1. i \in 1..(Len(c) - n) /\ n + i \in 1..(Len(s) - m) /\ i \in 1..(Len(s) - (m + n))
        BY <1>1, <1>2, <1>3, <1>4
    <2>2. a[i] = c[n + i] /\ c[n + i] = s[m + (n + i)] /\ e[i] = s[(m + n) + i]
        BY <2>1, <1>1, <1>2, <1>3
    <2> QED
        BY <2>1, <2>2
<1>6. a = e
    BY <1>2, <1>3, <1>4, <1>5, SeqEqual
<1> QED
    BY <1>6 DEF a, c, e

EndToEnd(c, s, t) == s \in Bytes /\ t \in Bytes /\ c = s \o t

\* Bytes that start with two sequences start with the first, and their rest with the
\* second.
LEMMA StartsConcat ==
    ASSUME NEW b, NEW s, NEW t, NEW c, EndToEnd(c, s, t), Starts(b, c)
    PROVE  Starts(b, s) /\ Starts(From(b, Len(s)), t) /\ Len(s) + Len(t) <= Len(b)
<1> DEFINE k == Len(s)
           e == From(b, k)
<1>1. /\ c \in Seq(Byte) /\ Len(c) = Len(s) + Len(t) /\ Len(s) \in Nat /\ Len(t) \in Nat
      /\ \A i \in 1..(Len(s) + Len(t)) : c[i] = IF i <= Len(s) THEN s[i] ELSE t[i - Len(s)]
    BY ConcatProperties DEF EndToEnd, Bytes
<1>2. b \in Seq(Byte) /\ Len(c) <= Len(b) /\ \A i \in 1..Len(c) : b[i] = c[i]
    BY DEF Starts, Bytes
<1>k. k = Len(s)
    OBVIOUS
<1> HIDE DEF k
<1>3. /\ e \in Seq(Byte) /\ Len(e) = Len(b) - k /\ Len(b) \in Nat
      /\ \A i \in 1..(Len(b) - k) : e[i] = b[k + i]
    <2>1. k \in Nat /\ Len(b) \in Nat /\ k <= Len(b)
        BY <1>1, <1>2, <1>k
    <2>2. /\ e \in Seq(Byte) /\ Len(e) = (IF k <= Len(b) THEN Len(b) - k ELSE 0)
          /\ \A i \in 1..(Len(b) - k) : e[i] = b[k + i]
        BY <2>1, <1>2, FromType
    <2> HIDE DEF e
    <2> QED
        BY <2>1, <2>2
<1> HIDE DEF e
<1>4. ASSUME NEW i \in 1..Len(t)
      PROVE  e[i] = t[i]
    <2>1. i \in 1..(Len(b) - k) /\ k + i \in 1..Len(c) /\ ~(k + i <= k)
        BY <1>1, <1>2, <1>3, <1>k
    <2>2. e[i] = b[k + i] /\ b[k + i] = c[k + i]
        BY <2>1, <1>2, <1>3
    <2>3. c[k + i] = t[(k + i) - k] /\ (k + i) - k = i
        BY <2>1, <1>1, <1>k
    <2> QED
        BY <2>2, <2>3
<1>5. Starts(e, t)
    BY <1>1, <1>2, <1>3, <1>4, <1>k DEF Starts, Bytes, EndToEnd
<1>6. Starts(b, s)
    BY <1>1, <1>2, <1>3 DEF Starts, Bytes, EndToEnd
<1> QED
    BY <1>1, <1>2, <1>5, <1>6, <1>k DEF e

\* One part more.
LEMMA LaidStep ==
    ASSUME NEW parts \in Seq(Bytes), NEW f, Laid(parts, f), NEW i \in 1..Len(parts)
    PROVE  /\ parts[i] \in Bytes /\ f[i - 1] \in Bytes /\ f[i] \in Bytes
           /\ f[i] = f[i - 1] \o parts[i] /\ Len(f[i]) = Len(f[i - 1]) + Len(parts[i])
<1>1. parts[i] \in Bytes /\ f[i - 1] \in Bytes /\ f[i] \in Bytes /\ f[i] = f[i - 1] \o parts[i]
    BY DEF Laid
<1> QED
    BY <1>1, BytesConcat

\* The bytes behind the first parts begin with the next one.
LEMMA LaidNext ==
    ASSUME NEW parts \in Seq(Bytes), NEW f, Laid(parts, f), NEW i \in 1..Len(parts),
           NEW a, NEW b, NEW all, EndToEnd(all, a, f[Len(parts)]), Starts(b, all)
    PROVE  /\ Starts(From(b, Len(a) + Len(f[i - 1])), parts[i])
           /\ Len(a) + Len(f[i]) <= Len(b)
<1> DEFINE w == f[Len(parts)]
           p == f[i - 1]
           q == parts[i]
           pq == f[i]
<1>1. PICK g \in Bytes : w = pq \o g
    <2>1. i \in 0..Len(parts)
        OBVIOUS
    <2> QED
        BY <2>1, LaidRest
<1>2. p \in Bytes /\ q \in Bytes /\ pq \in Bytes /\ pq = p \o q /\ w \in Bytes
    <2>1. w \in Bytes
        BY DEF Laid
    <2> QED
        BY <2>1, LaidStep
<1>3. EndToEnd(all, a, w) /\ EndToEnd(pq, p, q) /\ EndToEnd(w, pq, g)
    BY <1>1, <1>2 DEF EndToEnd
<1>a. a \in Bytes
    BY DEF EndToEnd
<1> HIDE DEF w, p, q, pq
<1> DEFINE behind == From(b, Len(a))
<1>4. Starts(behind, w) /\ Len(a) + Len(w) <= Len(b) /\ b \in Bytes
    <2>1. Starts(b, all)
        OBVIOUS
    <2>2. b \in Bytes
        BY DEF Starts
    <2>3. Starts(behind, w) /\ Len(a) + Len(w) <= Len(b)
        BY <2>1, <1>3, StartsConcat
    <2> QED
        BY <2>2, <2>3
<1>5. Starts(behind, pq) /\ Len(pq) <= Len(w)
    <2> HIDE DEF behind
    <2>1. Len(w) = Len(pq) + Len(g) /\ Len(g) \in Nat /\ Len(pq) \in Nat
        BY <1>1, <1>2, BytesConcat
    <2>2. Len(pq) <= Len(w)
        BY <2>1
    <2>3. Starts(behind, pq)
        BY <1>3, <1>4, StartsConcat
    <2> QED
        BY <2>2, <2>3
<1>6. Starts(From(behind, Len(p)), q)
    <2> HIDE DEF behind
    <2> QED
        BY <1>3, <1>5, StartsConcat
<1>7. Len(a) \in Nat /\ Len(p) \in Nat /\ Len(w) \in Nat /\ Len(pq) \in Nat /\ Len(b) \in Nat
    BY <1>a, <1>2, <1>4, BytesConcat
<1>8. From(behind, Len(p)) = From(b, Len(a) + Len(p))
    <2>1. b \in Seq(Byte) /\ Len(a) <= Len(b)
        BY <1>4, <1>7 DEF Bytes
    <2> QED
        BY <2>1, <1>7, FromFrom
<1> QED
    BY <1>4, <1>5, <1>6, <1>7, <1>8 DEF p, q, pq

\* Flattening one part more.
LEMMA FlattenAppend ==
    ASSUME NEW parts \in Seq(Bytes), NEW x \in Bytes
    PROVE  /\ FlattenSeq(parts) \in Bytes
           /\ FlattenSeq(Append(parts, x)) = FlattenSeq(parts) \o x
<1> DEFINE more == Append(parts, x)
           n == Len(parts)
<1>1. /\ more \in Seq(Bytes) /\ n \in Nat /\ Len(more) = n + 1 /\ more[n + 1] = x
      /\ \A i \in 1..n : more[i] = parts[i]
    BY AppendProperties
<1> HIDE DEF more
<1>2. n = Len(parts)
    OBVIOUS
<1> HIDE DEF n
<1>3. PICK f : Laid(more, f)
    BY <1>1, LaidExists
<1>4. /\ f \in [0..(n + 1) -> Bytes] /\ f[0] = <<>>
      /\ \A i \in 1..(n + 1) : f[i] = f[i - 1] \o more[i]
    BY <1>1, <1>3 DEF Laid
<1> DEFINE g == [i \in 0..n |-> f[i]]
<1>5. g \in [0..n -> Bytes] /\ g[0] = <<>> /\ g[n] = f[n]
    BY <1>1, <1>4
<1>6. ASSUME NEW i \in 1..n
      PROVE  g[i] = g[i - 1] \o parts[i]
    <2>1. i \in 1..(n + 1) /\ i \in 0..n /\ i - 1 \in 0..n
        BY <1>1
    <2>2. f[i] = f[i - 1] \o more[i] /\ more[i] = parts[i]
        BY <2>1, <1>1, <1>4
    <2> QED
        BY <2>1, <2>2
<1> HIDE DEF g
<1>7. Laid(parts, g)
    BY <1>2, <1>5, <1>6 DEF Laid
<1>8. FlattenSeq(parts) = f[n] /\ FlattenSeq(more) = f[n + 1]
    BY <1>1, <1>2, <1>3, <1>5, <1>7, LaidFlat
<1>9. f[n + 1] = f[n] \o x
    <2>1. n + 1 \in 1..(n + 1) /\ (n + 1) - 1 = n
        BY <1>1
    <2> QED
        BY <2>1, <1>1, <1>4
<1>10. f[n] \in Bytes
    BY <1>1, <1>4
<1> QED
    BY <1>8, <1>9, <1>10 DEF more

\* Flattening no parts.
LEMMA FlattenNothing ==
    FlattenSeq(<<>>) = <<>>
    BY DEF FlattenSeq

\* Parts of bytes flatten to bytes.
LEMMA FlattenType ==
    ASSUME NEW parts \in Seq(Bytes)
    PROVE  FlattenSeq(parts) \in Bytes
    BY FlattenAppend, BytesConcat

-----------------------------------------------------------------------------
(* What reading makes of bytes. *)

\* A value of the set, read from no more than n bytes, or none.
Made(S, n) == {Refused, Halted} \cup {Taken(v, k) : v \in S, k \in 0..n}

\* What a reader can make of n bytes.
LEMMA MadeOf ==
    ASSUME NEW S, NEW n \in Nat
    PROVE  /\ Refused \in Made(S, n) /\ Halted \in Made(S, n)
           /\ \A v \in S, k \in 0..n : Taken(v, k) \in Made(S, n)
    BY DEF Made

\* What a reader made is taken, refused or halted.
LEMMA MadeCases ==
    ASSUME NEW S, NEW n \in Nat, NEW r \in Made(S, n)
    PROVE  /\ r.outcome = "taken" => r.value \in S /\ r.length \in 0..n /\ r = Taken(r.value, r.length)
           /\ r.outcome # "taken" => r \in {Refused, Halted}
    BY DEF Made, Refused, Halted, Taken

\* The fields of what was taken.
LEMMA TakenParts ==
    ASSUME NEW v, NEW k
    PROVE  Taken(v, k).outcome = "taken" /\ Taken(v, k).value = v /\ Taken(v, k).length = k
    BY DEF Taken

\* Recursive definitions of reading are their functions.
LEMMA ItemsAre ==
    ASSUME NEW l, NEW b, NEW n \in Nat, NEW f,
           f = [i \in 0..n |-> IF i = 0 THEN Taken(<<>>, 2) ELSE NextItem(l, b, f[i - 1])]
    PROVE  ReadItems(l, b, n) = f[n]
<1> DEFINE Is(h) ==
        h = [i \in 0..n |-> IF i = 0 THEN Taken(<<>>, 2) ELSE NextItem(l, b, h[i - 1])]
           h == CHOOSE x : Is(x)
<1>1. Is(f)
    OBVIOUS
<1>2. Is(h)
    <2> HIDE DEF Is
    <2> QED
        BY <1>1
<1> HIDE DEF h
<1> DEFINE U == {i \in 0..n : h[i] = f[i]}
<1>3. 0 \in U
    BY <1>1, <1>2
<1>4. ASSUME NEW i \in 1..n, i - 1 \in U
      PROVE  i \in U
    <2>1. h[i] = NextItem(l, b, h[i - 1]) /\ f[i] = NextItem(l, b, f[i - 1])
        BY <1>1, <1>2
    <2> QED
        BY <1>4, <2>1
<1>5. 0..n \subseteq U
    <2> HIDE DEF U
    <2> QED
        BY <1>3, <1>4, InductionUpTo
<1>6. h[n] = f[n]
    BY <1>5
<1>7. ReadItems(l, b, n) = h[n]
    BY DEF ReadItems, h
<1> QED
    BY <1>6, <1>7

\* The fields of a record are what a run over the layout ends with.
LEMMA FieldsAre ==
    ASSUME NEW layout, NEW b, NEW n \in Nat, n = Len(layout), NEW f,
           f = [i \in 0..n |->
                   IF i = 0 THEN Taken(<<>>, 0) ELSE NextField(layout[i], b, f[i - 1])]
    PROVE  ReadRecord(layout, b) = f[n]
<1> DEFINE Is(h) == h = [i \in 0..n |->
                   IF i = 0 THEN Taken(<<>>, 0) ELSE NextField(layout[i], b, h[i - 1])]
           h == CHOOSE x : Is(x)
<1>1. Is(f)
    OBVIOUS
<1>2. Is(h)
    <2> HIDE DEF Is
    <2> QED
        BY <1>1
<1> HIDE DEF h
<1> DEFINE U == {i \in 0..n : h[i] = f[i]}
<1>3. 0 \in U
    BY <1>1, <1>2
<1>4. ASSUME NEW i \in 1..n, i - 1 \in U
      PROVE  i \in U
    <2>1. /\ h[i] = NextField(layout[i], b, h[i - 1])
          /\ f[i] = NextField(layout[i], b, f[i - 1])
        BY <1>1, <1>2, SMTT(30)
    <2> QED
        BY <1>4, <2>1
<1>5. 0..n \subseteq U
    <2> HIDE DEF U
    <2> QED
        BY <1>3, <1>4, InductionUpTo
<1>6. h[n] = f[n]
    BY <1>5
<1>7. ReadRecord(layout, b) = h[n]
    BY DEF ReadRecord, h
<1> QED
    BY <1>6, <1>7

\* A function on 1..n is a sequence of length n.
LEMMA FunctionIsSeq ==
    ASSUME NEW T, NEW n \in Nat, NEW v \in [1..n -> T]
    PROVE  v \in Seq(T) /\ Len(v) = n
<1>1. v \in Seq(T)
    BY SeqDef
<1>2. DOMAIN v = 1..Len(v) /\ Len(v) \in Nat /\ DOMAIN v = 1..n
    BY <1>1, LenProperties
<1> QED
    BY <1>1, <1>2

\* The n elements of a sequence behind the first w.
Slice(s, w, n) == SubSeq(s, w + 1, w + n)

\* A slice within a sequence.
LEMMA SliceType ==
    ASSUME NEW T, NEW s \in Seq(T), NEW w \in Nat, NEW n \in Nat, w + n <= Len(s)
    PROVE  /\ Slice(s, w, n) \in Seq(T) /\ Len(Slice(s, w, n)) = n
           /\ \A i \in 1..n : Slice(s, w, n)[i] = s[w + i]
<1> DEFINE x == w + 1
           y == w + n
<1>1. /\ x \in Int /\ y \in Int /\ \A i \in x..y : s[i] \in T
      /\ y - x + 1 = n /\ \A i \in 1..n : x + i - 1 = w + i
    <2>1. \A i \in 1..Len(s) : s[i] \in T
        BY ElementOfSeq
    <2> QED
        BY <2>1, LenProperties
<1>2. (IF x <= y THEN y - x + 1 ELSE 0) = n
    OBVIOUS
<1> HIDE DEF x, y
<1>3. /\ SubSeq(s, x, y) \in Seq(T)
      /\ Len(SubSeq(s, x, y)) = IF x <= y THEN y - x + 1 ELSE 0
      /\ \A i \in 1..(y - x + 1) : SubSeq(s, x, y)[i] = s[x + i - 1]
    BY <1>1, SubSeqProperties
<1> QED
    BY <1>1, <1>2, <1>3 DEF x, y, Slice

\* The first n of a sequence.
LEMMA FrontType ==
    ASSUME NEW T, NEW s \in Seq(T), NEW n \in Nat, n <= Len(s)
    PROVE  /\ SubSeq(s, 1, n) \in Seq(T) /\ Len(SubSeq(s, 1, n)) = n
           /\ \A i \in 1..n : SubSeq(s, 1, n)[i] = s[i]
<1> DEFINE w == 0
<1>1. w \in Nat /\ w + n <= Len(s) /\ \A i \in 1..n : w + i = i
    OBVIOUS
<1>2. w + 1 = 1 /\ w + n = n
    OBVIOUS
<1> HIDE DEF w
<1>3. /\ Slice(s, w, n) \in Seq(T) /\ Len(Slice(s, w, n)) = n
      /\ \A i \in 1..n : Slice(s, w, n)[i] = s[w + i]
    BY <1>1, SliceType
<1>4. Slice(s, w, n) = SubSeq(s, 1, n)
    BY <1>2 DEF Slice
<1> QED
    BY <1>1, <1>3, <1>4

\* Length and bytes of two sequences end to end.
LEMMA EndToEndFacts ==
    ASSUME NEW c, NEW s, NEW t, EndToEnd(c, s, t)
    PROVE  /\ s \in Bytes /\ t \in Bytes /\ c \in Bytes /\ Len(c) = Len(s) + Len(t)
           /\ Len(s) \in Nat /\ Len(t) \in Nat
           /\ \A i \in 1..Len(s) : c[i] = s[i]
           /\ \A i \in 1..Len(t) : c[Len(s) + i] = t[i]
<1>1. s \in Seq(Byte) /\ t \in Seq(Byte) /\ c = s \o t
    BY DEF EndToEnd, Bytes
<1>2. /\ s \o t \in Seq(Byte) /\ Len(s \o t) = Len(s) + Len(t)
      /\ Len(s) \in Nat /\ Len(t) \in Nat
      /\ \A i \in 1..(Len(s) + Len(t)) :
            (s \o t)[i] = IF i <= Len(s) THEN s[i] ELSE t[i - Len(s)]
    BY <1>1, ConcatProperties
<1> QED
    BY <1>1, <1>2 DEF Bytes

-----------------------------------------------------------------------------
(* Simple data. *)

\* No number takes more bytes on the air than in memory, and none more than eight.
LEMMA HeldFacts ==
    ASSUME NEW t \in Numeric
    PROVE  Carried(t) \in 1..8 /\ Held(t) \in 1..8 /\ Carried(t) <= Held(t)
<1>1. Carried(t) \in 1..8
    BY DEF Carried, Numeric, Float16Tag
<1>2. CASE t = Float16Tag
    BY <1>2 DEF Carried, Held, Float16Tag
<1>3. CASE t # Float16Tag
    <2> DEFINE c == Carried(t)
               P(n) == n >= c /\ \A m \in {1, 2, 4, 8} : m >= c => n <= m
    <2>1. c \in 1..8
        BY <1>1
    <2> HIDE DEF c
    <2>2. \E n \in {1, 2, 4, 8} : P(n)
        <3>1. CASE c = 1
            BY <3>1
        <3>2. CASE c = 2
            BY <3>2
        <3>3. CASE c \in 3..4
            BY <3>3
        <3>4. CASE c \in 5..8
            BY <3>4
        <3> QED
            BY <2>1, <3>1, <3>2, <3>3, <3>4
    <2> DEFINE h == CHOOSE n \in {1, 2, 4, 8} : P(n)
    <2>3. h \in {1, 2, 4, 8} /\ P(h)
        <3> HIDE DEF P
        <3> QED
            BY <2>2
    <2>4. Held(t) = h
        BY <1>3 DEF Held, c
    <2> HIDE DEF h
    <2> QED
        BY <2>1, <2>3, <2>4 DEF c
<1> QED
    BY <1>2, <1>3

\* The absent value is no byte.
LEMMA NoneIsNoByte ==
    \A x \in Byte : x # None
    BY NoneAssumption DEF Byte

\* Zeros are bytes.
LEMMA ZerosType ==
    ASSUME NEW n \in Nat
    PROVE  Zeros(n) \in Bytes /\ Len(Zeros(n)) = n /\ \A i \in 1..n : Zeros(n)[i] = 0
<1>1. Zeros(n) \in [1..n -> Byte]
    BY DEF Zeros, Byte
<1>2. \A i \in 1..n : Zeros(n)[i] = 0
    BY DEF Zeros
<1> QED
    BY <1>1, <1>2, FunctionIsSeq DEF Bytes

\* A word is a natural number below 65536.
LEMMA WordFits ==
    /\ \A n \in Nat : n < 65536 => n \in Word
    /\ \A n \in Word : n \in Nat /\ n < 65536
<1> DEFINE m == 65535
<1>1. Word = 0..m
    BY DEF Word
<1>2. m \in Nat /\ m + 1 = 65536
    OBVIOUS
<1> HIDE DEF m
<1>3. \A n \in Nat : n < 65536 => n \in 0..m
    BY <1>2
<1>4. \A n \in 0..m : n \in Nat /\ n < 65536
    BY <1>2
<1> QED
    BY <1>1, <1>3, <1>4

\* A word is two bytes, lowest first, and they give it back.
LEMMA LowFirstType ==
    ASSUME NEW n \in Nat
    PROVE  /\ LowFirst(n) \in Bytes /\ Len(LowFirst(n)) = 2
           /\ n \in Word => LowFirst(n)[1] + 256 * LowFirst(n)[2] = n
<1>1. n % 256 \in Byte /\ (n \div 256) % 256 \in Byte
    BY DEF Byte
<1>2. ASSUME n \in Word
      PROVE  (n % 256) + 256 * ((n \div 256) % 256) = n
    <2> DEFINE q == n \div 256
               r == n % 256
    <2>1. q \in 0..255 /\ r \in 0..255 /\ n = 256 * q + r
        <3>1. n \in Nat /\ n < 65536
            BY <1>2, WordFits
        <3> QED
            BY <3>1
    <2> HIDE DEF q, r
    <2>2. q % 256 = q
        BY <2>1
    <2>3. r + 256 * (q % 256) = n
        BY <2>1, <2>2
    <2> QED
        BY <2>3 DEF q, r
<1> QED
    BY <1>1, <1>2 DEF LowFirst, Bytes

\* The tags differ, so that each case of a definition by tags has its own.
OtherTags ==
    {NullTag, BoolTag, OctetsTag, TextTag, LongOctetsTag, LongTextTag, TimeTag, DateTag,
     AddressTag, KeyTag}

\* The tags of the types that are no numbers differ from each other and from those.
LEMMA TagsDiffer ==
    /\ \A t \in Numeric : t \notin OtherTags
    /\ \A t \in OtherTags : t \notin Numeric
    /\ NullTag \notin {BoolTag, OctetsTag, TextTag, LongOctetsTag, LongTextTag, TimeTag, DateTag,
                      AddressTag, KeyTag}
    /\ BoolTag \notin {OctetsTag, TextTag, LongOctetsTag, LongTextTag, TimeTag, DateTag,
                      AddressTag, KeyTag}
    /\ OctetsTag \notin {TextTag, LongOctetsTag, LongTextTag, TimeTag, DateTag, AddressTag, KeyTag}
    /\ TextTag \notin {LongOctetsTag, LongTextTag, TimeTag, DateTag, AddressTag, KeyTag}
    /\ LongOctetsTag \notin {LongTextTag, TimeTag, DateTag, AddressTag, KeyTag}
    /\ LongTextTag \notin {TimeTag, DateTag, AddressTag, KeyTag}
    /\ TimeTag \notin {DateTag, AddressTag, KeyTag}
    /\ DateTag \notin {AddressTag, KeyTag}
    /\ AddressTag # KeyTag
    BY DEF OtherTags, Numeric, NullTag, BoolTag, OctetsTag, TextTag, LongOctetsTag, LongTextTag,
           TimeTag, DateTag, AddressTag, KeyTag

\* A tag is a byte, and a simple one is no compound one.
LEMMA TagsAreBytes ==
    /\ \A t \in SimpleTag : t \in Byte /\ t \notin Compound
    /\ \A t \in Compound : t \in Byte
    /\ SimpleTag = Numeric \cup OtherTags
    BY DEF SimpleTag, OtherTags, Numeric, NullTag, BoolTag, OctetsTag, TextTag, LongOctetsTag,
           LongTextTag, TimeTag, DateTag, AddressTag, KeyTag, Compound, Byte

\* The values of a number.
LEMMA NumericValues ==
    \A t \in Numeric : Values(t) = [1..Held(t) -> Byte]
    BY TagsDiffer DEF Values, OtherTags
\* The values of an octet string.
LEMMA OctetsValues ==
    \A t \in {OctetsTag, LongOctetsTag} : Values(t) = Bytes
    BY TagsDiffer, Zenon DEF Values, OtherTags, Bytes
\* The values of a text.
LEMMA TextValues ==
    \A t \in {TextTag, LongTextTag} : Values(t) = Bytes \cap Utf8
    BY TagsDiffer, Zenon DEF Values, OtherTags, Bytes
\* The values of a time of day and of a date.
LEMMA ClockValues ==
    \A t \in {TimeTag, DateTag} : Values(t) = [1..4 -> Byte \cup {None}]
    BY TagsDiffer, Zenon DEF Values, OtherTags
\* The values of the remaining simple types.
LEMMA OtherValues ==
    /\ Values(NullTag) = {<<>>} /\ Values(BoolTag) = {<< 0 >>, << 1 >>}
    /\ Values(AddressTag) = [1..8 -> Byte] /\ Values(KeyTag) = [1..16 -> Byte]
    BY TagsDiffer, Zenon DEF Values, OtherTags

\* What is written of each simple type.
LEMMA Contents ==
    ASSUME NEW v
    PROVE  /\ \A t \in Numeric : Content(t, v) = SubSeq(v, 1, Carried(t))
           /\ \A t \in {OctetsTag, TextTag} : Content(t, v) = <<Len(v) % 256>> \o v
           /\ \A t \in {LongOctetsTag, LongTextTag} : Content(t, v) = LowFirst(Len(v)) \o v
           /\ \A t \in {TimeTag, DateTag} : Content(t, v) = Clock(v)
           /\ \A t \in {NullTag, BoolTag, AddressTag, KeyTag} : Content(t, v) = v
<1>1. \A t \in Numeric : Content(t, v) = SubSeq(v, 1, Carried(t))
    BY TagsDiffer, Zenon DEF Content, OtherTags
<1>2. \A t \in {OctetsTag, TextTag} : Content(t, v) = <<Len(v) % 256>> \o v
    BY TagsDiffer, Zenon DEF Content, OtherTags
<1>3. \A t \in {LongOctetsTag, LongTextTag} : Content(t, v) = LowFirst(Len(v)) \o v
    BY TagsDiffer, Zenon DEF Content, OtherTags
<1>4. \A t \in {TimeTag, DateTag} : Content(t, v) = Clock(v)
    BY TagsDiffer, Zenon DEF Content, OtherTags
<1>5. \A t \in {NullTag, BoolTag, AddressTag, KeyTag} : Content(t, v) = v
    BY TagsDiffer, Zenon DEF Content, OtherTags
<1> QED
    BY <1>1, <1>2, <1>3, <1>4, <1>5

\* What is read for each simple type.
LEMMA Readings ==
    ASSUME NEW b
    PROVE  /\ ReadSimple(NullTag, b) = Taken(Datum(NullTag, <<>>), 0)
           /\ ReadSimple(BoolTag, b) = Fixed(BoolTag, b, 1, <<IF b[1] = 0 THEN 0 ELSE 1>>, 1)
           /\ \A t \in Numeric :
                 ReadSimple(t, b) =
                 Fixed(t, b, Carried(t), Widened(t, SubSeq(b, 1, Carried(t))), Carried(t))
           /\ \A t \in {OctetsTag, TextTag} :
                 ReadSimple(t, b) = IF b = <<>> THEN Halted ELSE Text(t, b, 1, b[1])
           /\ \A t \in {LongOctetsTag, LongTextTag} :
                 ReadSimple(t, b) = IF Len(b) < 2 THEN Refused ELSE Text(t, b, 2, Number(b))
           /\ ReadSimple(TimeTag, b) =
                 IF Len(b) < 4 \/ ~TimeOk(b) THEN Refused ELSE Taken(Datum(TimeTag, Unclock(b)), 4)
           /\ ReadSimple(DateTag, b) =
                 IF Len(b) < 4 \/ ~DateOk(b) THEN Refused ELSE Taken(Datum(DateTag, Unclock(b)), 4)
           /\ ReadSimple(AddressTag, b) =
                 Fixed(AddressTag, b, 8, SubSeq(b, 1, 8), Skipped(AddressTag))
           /\ ReadSimple(KeyTag, b) = Fixed(KeyTag, b, 16, SubSeq(b, 1, 16), Skipped(KeyTag))
           /\ \A t : t \notin SimpleTag => ReadSimple(t, b) = Refused
<1>1. ReadSimple(NullTag, b) = Taken(Datum(NullTag, <<>>), 0)
    BY TagsDiffer, Zenon DEF ReadSimple, OtherTags
<1>2. ReadSimple(BoolTag, b) = Fixed(BoolTag, b, 1, <<IF b[1] = 0 THEN 0 ELSE 1>>, 1)
    BY TagsDiffer, Zenon DEF ReadSimple, OtherTags
<1>3. \A t \in Numeric :
          ReadSimple(t, b) =
          Fixed(t, b, Carried(t), Widened(t, SubSeq(b, 1, Carried(t))), Carried(t))
    BY TagsDiffer, Zenon DEF ReadSimple, OtherTags
<1>4. \A t \in {OctetsTag, TextTag} :
          ReadSimple(t, b) = IF b = <<>> THEN Halted ELSE Text(t, b, 1, b[1])
    BY TagsDiffer, Zenon DEF ReadSimple, OtherTags
<1>5. \A t \in {LongOctetsTag, LongTextTag} :
          ReadSimple(t, b) = IF Len(b) < 2 THEN Refused ELSE Text(t, b, 2, Number(b))
    BY TagsDiffer, Zenon DEF ReadSimple, OtherTags
<1>6. ReadSimple(TimeTag, b) =
          IF Len(b) < 4 \/ ~TimeOk(b) THEN Refused ELSE Taken(Datum(TimeTag, Unclock(b)), 4)
    BY TagsDiffer, Zenon DEF ReadSimple, OtherTags
<1>7. ReadSimple(DateTag, b) =
          IF Len(b) < 4 \/ ~DateOk(b) THEN Refused ELSE Taken(Datum(DateTag, Unclock(b)), 4)
    BY TagsDiffer, Zenon DEF ReadSimple, OtherTags
<1>8. ReadSimple(AddressTag, b) =
          Fixed(AddressTag, b, 8, SubSeq(b, 1, 8), Skipped(AddressTag))
    BY TagsDiffer, Zenon DEF ReadSimple, OtherTags
<1>9. ReadSimple(KeyTag, b) = Fixed(KeyTag, b, 16, SubSeq(b, 1, 16), Skipped(KeyTag))
    BY TagsDiffer, Zenon DEF ReadSimple, OtherTags
<1>10. \A t : t \notin SimpleTag => ReadSimple(t, b) = Refused
    BY Zenon DEF ReadSimple, SimpleTag
<1> QED
    BY <1>1, <1>2, <1>3, <1>4, <1>5, <1>6, <1>7, <1>8, <1>9, <1>10

\* A remainder by 256 is a byte.
LEMMA LowByte ==
    ASSUME NEW n \in Nat
    PROVE  n % 256 \in Byte
    BY DEF Byte

\* One byte alone.
LEMMA ByteSeq ==
    ASSUME NEW x \in Byte
    PROVE  <<x>> \in Bytes /\ Len(<<x>>) = 1 /\ <<x>>[1] = x
    BY DEF Bytes

\* A simple datum is written as bytes.
LEMMA SimpleWritten ==
    ASSUME NEW t \in SimpleTag, NEW v \in Values(t)
    PROVE  Content(t, v) \in Bytes
<1>1. t \in SimpleTag /\ v \in Values(t)
    OBVIOUS
<1>2. CASE t \in Numeric
    <2>1. v \in [1..Held(t) -> Byte]
        BY <1>1, <1>2, NumericValues
    <2>2. Held(t) \in Nat /\ Carried(t) \in Nat /\ Carried(t) <= Held(t)
        BY <1>2, HeldFacts
    <2>3. v \in Seq(Byte) /\ Len(v) = Held(t)
        BY <2>1, <2>2, FunctionIsSeq
    <2> DEFINE n == Carried(t)
    <2>4. n \in Nat /\ n <= Len(v)
        BY <2>2, <2>3
    <2>5. Content(t, v) = SubSeq(v, 1, n)
        BY <1>2, Contents
    <2> HIDE DEF n
    <2>6. SubSeq(v, 1, n) \in Seq(Byte)
        BY <2>3, <2>4, FrontType
    <2> QED
        BY <2>5, <2>6 DEF Bytes
<1>3. CASE t \in {OctetsTag, TextTag, LongOctetsTag, LongTextTag}
    <2>1. v \in Bytes
        BY <1>1, <1>3, OctetsValues, TextValues
    <2>2. Len(v) \in Nat
        BY <2>1, BytesConcat
    <2>3. <<Len(v) % 256>> \in Bytes
        <3>1. Len(v) % 256 \in Byte
            BY <2>2, LowByte
        <3> QED
            BY <3>1, ByteSeq
    <2>4. LowFirst(Len(v)) \in Bytes
        BY <2>2, LowFirstType
    <2>5. <<Len(v) % 256>> \o v \in Bytes /\ LowFirst(Len(v)) \o v \in Bytes
        BY <2>1, <2>3, <2>4, BytesConcat
    <2>6. CASE t \in {OctetsTag, TextTag}
        <3>1. Content(t, v) = <<Len(v) % 256>> \o v
            BY <2>6, Contents, ZenonT(60)
        <3> QED
            BY <2>5, <3>1, Zenon
    <2>7. CASE t \in {LongOctetsTag, LongTextTag}
        <3>1. Content(t, v) = LowFirst(Len(v)) \o v
            BY <2>7, Contents, Zenon
        <3> QED
            BY <2>5, <3>1, Zenon
    <2> QED
        BY <1>3, <2>6, <2>7
<1>4. CASE t \in {TimeTag, DateTag}
    <2>1. v \in [1..4 -> Byte \cup {None}]
        BY <1>1, <1>4, ClockValues
    <2>2. Clock(v) \in [1..4 -> Byte]
        BY <2>1 DEF Clock, Byte
    <2>3. Clock(v) \in Seq(Byte)
        BY <2>2, FunctionIsSeq
    <2> QED
        BY <2>3, <1>4, Contents DEF Bytes
<1>5. CASE t \in {NullTag, BoolTag, AddressTag, KeyTag}
    <2>1. Content(t, v) = v
        BY <1>5, Contents, ZenonT(60)
    <2>2. v \in Seq(Byte)
        <3>1. <<>> \in Seq(Byte) /\ << 0 >> \in Seq(Byte) /\ << 1 >> \in Seq(Byte)
            BY DEF Byte
        <3>2. CASE t = NullTag
            BY <3>1, <3>2, <1>1, OtherValues
        <3>3. CASE t = BoolTag
            BY <3>1, <3>3, <1>1, OtherValues
        <3>4. CASE t = AddressTag
            <4>1. v \in [1..8 -> Byte]
                BY <1>1, <3>4, OtherValues
            <4> QED
                BY <4>1, FunctionIsSeq
        <3>5. CASE t = KeyTag
            <4>1. v \in [1..16 -> Byte]
                BY <1>1, <3>5, OtherValues
            <4> QED
                BY <4>1, FunctionIsSeq
        <3> QED
            BY <1>5, <3>2, <3>3, <3>4, <3>5
    <2> QED
        BY <2>1, <2>2 DEF Bytes
<1> QED
    BY <1>1, <1>2, <1>3, <1>4, <1>5, TagsAreBytes DEF OtherTags

\* What is cut out of the bytes that b begins with.
LEMMA StartsSlice ==
    ASSUME NEW b, NEW c, Starts(b, c), NEW w \in Nat, NEW n \in Nat, w + n <= Len(c)
    PROVE  /\ Slice(b, w, n) \in Bytes /\ Len(Slice(b, w, n)) = n
           /\ \A i \in 1..n : Slice(b, w, n)[i] = c[w + i]
<1>1. b \in Seq(Byte) /\ c \in Seq(Byte) /\ Len(c) <= Len(b) /\ \A i \in 1..Len(c) : b[i] = c[i]
    BY DEF Starts, Bytes
<1>2. Len(b) \in Nat /\ Len(c) \in Nat
    BY <1>1
<1>3. w + n <= Len(b) /\ \A i \in 1..n : w + i \in 1..Len(c)
    BY <1>1, <1>2
<1>4. /\ Slice(b, w, n) \in Seq(Byte) /\ Len(Slice(b, w, n)) = n
      /\ \A i \in 1..n : Slice(b, w, n)[i] = b[w + i]
    BY <1>1, <1>3, SliceType
<1> QED
    BY <1>1, <1>3, <1>4 DEF Bytes

\* The first of bytes that start with c are the first of c.
LEMMA StartsFront ==
    ASSUME NEW b, NEW c, Starts(b, c), NEW n \in Nat, n <= Len(c)
    PROVE  /\ SubSeq(b, 1, n) \in Bytes /\ Len(SubSeq(b, 1, n)) = n
           /\ \A i \in 1..n : SubSeq(b, 1, n)[i] = c[i]
<1>1. b \in Seq(Byte) /\ c \in Seq(Byte) /\ Len(c) <= Len(b) /\ \A i \in 1..Len(c) : b[i] = c[i]
    BY DEF Starts, Bytes
<1>2. Len(b) \in Nat /\ Len(c) \in Nat
    BY <1>1
<1>3. n <= Len(b) /\ \A i \in 1..n : i \in 1..Len(c)
    BY <1>1, <1>2
<1>4. /\ SubSeq(b, 1, n) \in Seq(Byte) /\ Len(SubSeq(b, 1, n)) = n
      /\ \A i \in 1..n : SubSeq(b, 1, n)[i] = b[i]
    BY <1>1, <1>3, FrontType
<1> QED
    BY <1>1, <1>3, <1>4 DEF Bytes

\* A number is read as it was written, if it has no sign or fraction in bytes that
\* stay at home.
LEMMA NumericRead ==
    ASSUME NEW t \in Numeric, NEW v \in [1..Held(t) -> Byte],
           \A i \in 1..Held(t) : i > Carried(t) => v[i] = 0,
           NEW b, Starts(b, Content(t, v))
    PROVE  ReadSimple(t, b) = Taken(Datum(t, v), Len(Content(t, v)))
<1> DEFINE c == Content(t, v)
           n == Carried(t)
           h == Held(t)
           s == SubSeq(b, 1, n)
<1>1. n \in Nat /\ h \in Nat /\ n <= h
    BY HeldFacts
<1>2. v \in Seq(Byte) /\ Len(v) = h
    BY <1>1, FunctionIsSeq
<1>3. c = SubSeq(v, 1, n)
    BY Contents
<1>4. v \in [1..h -> Byte] /\ Starts(b, c) /\ \A i \in 1..h : i > n => v[i] = 0
    OBVIOUS
<1> HIDE DEF h, c
<1>5. ReadSimple(t, b) = Fixed(t, b, n, Widened(t, s), n)
    BY Readings
<1>6. Widened(t, s) = s \o Zeros(h - Len(s))
    BY DEF Widened, h
<1> HIDE DEF n
<1>7. c \in Bytes /\ Len(c) = n /\ \A i \in 1..n : c[i] = v[i]
    <2>1. n <= Len(v)
        BY <1>1, <1>2
    <2> QED
        BY <1>1, <1>2, <1>3, <2>1, FrontType DEF Bytes
<1>8. s \in Bytes /\ Len(s) = n /\ \A i \in 1..n : s[i] = v[i]
    <2>1. n <= Len(c)
        BY <1>1, <1>7
    <2>2. s \in Bytes /\ Len(s) = n /\ \A i \in 1..n : s[i] = c[i]
        BY <1>1, <1>4, <2>1, StartsFront
    <2> HIDE DEF s
    <2> QED
        BY <2>2, <1>7
<1>9. Len(b) >= n
    BY <1>4, <1>7 DEF Starts
<1> HIDE DEF s
<1>10. s \o Zeros(h - n) = v
    <2> DEFINE z == Zeros(h - n)
               j == s \o z
    <2>1. z \in Bytes /\ Len(z) = h - n /\ \A i \in 1..(h - n) : z[i] = 0
        BY <1>1, ZerosType
    <2> HIDE DEF z
    <2>2. EndToEnd(j, s, z)
        BY <2>1, <1>8 DEF EndToEnd
    <2> HIDE DEF j
    <2>3. /\ j \in Bytes /\ Len(j) = n + (h - n)
          /\ \A i \in 1..n : j[i] = s[i]
          /\ \A i \in 1..(h - n) : j[n + i] = z[i]
        <3>1. /\ j \in Bytes /\ Len(j) = Len(s) + Len(z)
              /\ \A i \in 1..Len(s) : j[i] = s[i]
              /\ \A i \in 1..Len(z) : j[Len(s) + i] = z[i]
            BY <2>2, EndToEndFacts
        <3>2. Len(s) = n /\ Len(z) = h - n
            BY <2>1, <1>8
        <3> QED
            BY <3>1, <3>2
    <2>4. ASSUME NEW i \in 1..h
          PROVE  j[i] = v[i]
        <3>1. CASE i <= n
            BY <3>1, <2>3, <1>1, <1>8
        <3>2. CASE i > n
            <4>1. i - n \in 1..(h - n) /\ n + (i - n) = i
                BY <3>2, <1>1
            <4>2. j[n + (i - n)] = z[i - n] /\ z[i - n] = 0 /\ v[i] = 0
                BY <4>1, <3>2, <2>1, <2>3, <1>4
            <4> QED
                BY <4>1, <4>2
        <3> QED
            BY <3>1, <3>2, <1>1
    <2>5. j \in Seq(Byte) /\ Len(j) = Len(v) /\ \A i \in 1..Len(j) : j[i] = v[i]
        BY <2>3, <2>4, <1>1, <1>2 DEF Bytes
    <2>6. j = v
        BY <2>5, <1>2, SeqEqual
    <2> QED
        BY <2>6 DEF j, z
<1>11. Widened(t, s) = v
    BY <1>6, <1>8, <1>10
<1>12. Fixed(t, b, n, v, n) = Taken(Datum(t, v), n)
    <2>1. b \in Bytes /\ Len(b) \in Nat
        BY <1>4, BytesConcat DEF Starts
    <2> QED
        BY <2>1, <1>1, <1>9 DEF Fixed
<1> QED
    BY <1>5, <1>7, <1>11, <1>12 DEF c

\* A string behind its length is read as it was written, but for long text.
LEMMA TextRead ==
    ASSUME NEW t, NEW p, NEW v, NEW c, EndToEnd(c, p, v), NEW b, Starts(b, c),
           t = TextTag => v \in Utf8, t # LongTextTag
    PROVE  Text(t, b, Len(p), Len(v)) = Taken(Datum(t, v), Len(p) + Len(v))
<1> DEFINE w == Len(p)
           n == Len(v)
           s == Slice(b, w, n)
<1>1. /\ p \in Bytes /\ v \in Bytes /\ c \in Bytes /\ Len(c) = w + n
      /\ w \in Nat /\ n \in Nat /\ \A i \in 1..n : c[w + i] = v[i]
    BY EndToEndFacts
<1>2. Len(c) <= Len(b) /\ Len(b) \in Nat
    BY BytesConcat DEF Starts
<1>3. n = Len(v)
    OBVIOUS
<1> HIDE DEF w, n
<1>4. s \in Bytes /\ Len(s) = n /\ \A i \in 1..n : s[i] = c[w + i]
    <2>1. w + n <= Len(c) /\ w \in Nat /\ n \in Nat
        BY <1>1
    <2> QED
        BY <2>1, StartsSlice
<1> HIDE DEF s
<1>5. s \in Seq(Byte) /\ v \in Seq(Byte) /\ Len(s) = Len(v) /\ \A i \in 1..Len(s) : s[i] = v[i]
    BY <1>1, <1>3, <1>4 DEF Bytes
<1>6. s = v
    BY <1>5, SeqEqual
<1>7. SubSeq(b, w + 1, w + n) = v
    BY <1>6 DEF s, Slice
<1>8. ~(Len(b) < w + n)
    BY <1>1, <1>2
<1>9. ~(t \in {TextTag, LongTextTag} /\ v \notin Utf8)
    OBVIOUS
<1>10. Text(t, b, w, n) = Taken(Datum(t, v), w + n)
    BY <1>7, <1>8, <1>9, Zenon DEF Text
<1> QED
    BY <1>10 DEF w, n

\* A short string is read as it was written.
LEMMA StringRead ==
    ASSUME NEW t \in {OctetsTag, TextTag}, NEW v \in Values(t), Len(v) < 256,
           NEW b, Starts(b, Content(t, v))
    PROVE  ReadSimple(t, b) = Taken(Datum(t, v), Len(Content(t, v)))
<1> DEFINE c == Content(t, v)
           n == Len(v)
           p == <<n % 256>>
<1>1. v \in Bytes /\ (t = TextTag => v \in Utf8)
    <2>1. OctetsTag # TextTag
        BY TagsDiffer
    <2> QED
        BY <2>1, OctetsValues, TextValues
<1>2. n \in Nat /\ n < 256
    BY <1>1, BytesConcat
<1>3. c = p \o v
    BY Contents, ZenonT(60)
<1>4. Starts(b, c) /\ n = Len(v) /\ p = <<n % 256>>
    OBVIOUS
<1> HIDE DEF c, n, p
<1>5. p \in Bytes /\ Len(p) = 1 /\ p[1] = n
    <2>1. n % 256 = n /\ n \in Byte
        BY <1>2 DEF Byte
    <2> QED
        BY <2>1, <1>4, ByteSeq
<1>6. EndToEnd(c, p, v)
    BY <1>1, <1>3, <1>5 DEF EndToEnd
<1>7. Len(c) = 1 + n /\ c[1] = n
    <2>1. Len(c) = Len(p) + Len(v) /\ \A i \in 1..Len(p) : c[i] = p[i]
        BY <1>6, EndToEndFacts
    <2> QED
        BY <2>1, <1>4, <1>5
<1>8. b[1] = n /\ b # <<>>
    <2>1. Len(b) \in Nat /\ Len(c) <= Len(b) /\ \A i \in 1..Len(c) : b[i] = c[i]
        BY <1>4, BytesConcat DEF Starts
    <2>2. Len(b) # 0 /\ 1 \in 1..Len(c)
        BY <2>1, <1>2, <1>7
    <2> QED
        BY <2>1, <2>2, <1>7
<1>9. t # LongTextTag
    BY TagsDiffer
<1>10. Text(t, b, Len(p), Len(v)) = Taken(Datum(t, v), Len(p) + Len(v))
    <2>1. Starts(b, c) /\ (t = TextTag => v \in Utf8)
        BY <1>1, <1>4
    <2> QED
        BY <2>1, <1>6, <1>9, TextRead
<1>11. Text(t, b, 1, n) = Taken(Datum(t, v), 1 + n)
    BY <1>4, <1>5, <1>10
<1>12. ReadSimple(t, b) = IF b = <<>> THEN Halted ELSE Text(t, b, 1, b[1])
    BY Readings
<1> QED
    BY <1>7, <1>8, <1>11, <1>12 DEF c

\* How a long string is written and read.
LEMMA LongCases ==
    ASSUME NEW t \in {LongOctetsTag, LongTextTag}, NEW v, NEW b
    PROVE  /\ Content(t, v) = LowFirst(Len(v)) \o v
           /\ ReadSimple(t, b) = IF Len(b) < 2 THEN Refused ELSE Text(t, b, 2, Number(b))
<1>1. Content(t, v) = LowFirst(Len(v)) \o v
    BY Contents, Zenon
<1>2. ReadSimple(t, b) = IF Len(b) < 2 THEN Refused ELSE Text(t, b, 2, Number(b))
    BY Readings, Zenon
<1> QED
    BY <1>1, <1>2

\* A long octet string is read as it was written.
LEMMA LongRead ==
    ASSUME NEW t \in {LongOctetsTag, LongTextTag}, t # LongTextTag, NEW v \in Values(t),
           Len(v) < 65536, NEW b, Starts(b, Content(t, v))
    PROVE  ReadSimple(t, b) = Taken(Datum(t, v), Len(Content(t, v)))
<1> DEFINE c == Content(t, v)
           n == Len(v)
           p == LowFirst(n)
<1>1. v \in Bytes
    BY OctetsValues
<1>2. n \in Nat /\ n \in Word
    <2>1. n \in Nat
        BY <1>1, BytesConcat
    <2>2. n < 65536
        OBVIOUS
    <2> HIDE DEF n
    <2> QED
        BY <2>1, <2>2, WordFits
<1>3. c = p \o v
    BY LongCases
<1>4. Starts(b, c) /\ n = Len(v) /\ p = LowFirst(n)
    OBVIOUS
<1> HIDE DEF c, n, p
<1>5. p \in Bytes /\ Len(p) = 2 /\ p[1] + 256 * p[2] = n
    BY <1>2, <1>4, LowFirstType
<1>6. EndToEnd(c, p, v)
    BY <1>1, <1>3, <1>5 DEF EndToEnd
<1>7. Len(c) = 2 + n /\ c[1] = p[1] /\ c[2] = p[2]
    <2>1. Len(c) = Len(p) + Len(v) /\ \A i \in 1..Len(p) : c[i] = p[i]
        BY <1>6, EndToEndFacts
    <2> QED
        BY <2>1, <1>4, <1>5
<1>8. Number(b) = n /\ ~(Len(b) < 2)
    <2>1. Len(b) \in Nat /\ Len(c) <= Len(b) /\ \A i \in 1..Len(c) : b[i] = c[i]
        BY <1>4, BytesConcat DEF Starts
    <2>2. 1 \in 1..Len(c) /\ 2 \in 1..Len(c)
        BY <2>1, <1>2, <1>7
    <2>3. b[1] = p[1] /\ b[2] = p[2]
        BY <2>1, <2>2, <1>7
    <2> QED
        BY <2>1, <2>3, <1>2, <1>5, <1>7 DEF Number
<1>9. t # LongTextTag /\ t # TextTag
    BY TagsDiffer
<1>10. Text(t, b, Len(p), Len(v)) = Taken(Datum(t, v), Len(p) + Len(v))
    BY <1>6, <1>4, <1>9, TextRead
<1>11. Text(t, b, 2, n) = Taken(Datum(t, v), 2 + n)
    BY <1>4, <1>5, <1>10
<1>12. ReadSimple(t, b) = IF Len(b) < 2 THEN Refused ELSE Text(t, b, 2, Number(b))
    BY LongCases
<1> QED
    BY <1>7, <1>8, <1>11, <1>12 DEF c

\* Four bytes within their limits, or not specified, come back.
LEMMA ClockRead ==
    ASSUME NEW v \in [1..4 -> Byte \cup {None}], NEW limits \in [1..4 -> 0..254],
           IsTime(v, limits), NEW b, Starts(b, Clock(v))
    PROVE  /\ Len(Clock(v)) = 4 /\ ~(Len(b) < 4) /\ Unclock(b) = v
           /\ \A i \in 1..4 : \/ b[i] = 255 /\ v[i] = None
                              \/ b[i] = v[i] /\ v[i] \in 0..limits[i] /\ v[i] # None
<1> DEFINE c == Clock(v)
           n == 4
<1>1. c \in [1..4 -> Byte] /\ \A i \in 1..4 : c[i] = IF v[i] = None THEN 255 ELSE v[i]
    BY DEF Clock, Byte
<1>n. n \in Nat /\ n = 4
    OBVIOUS
<1> HIDE DEF c
<1>c. c \in [1..n -> Byte]
    BY <1>1
<1> HIDE DEF n
<1>2. c \in Seq(Byte) /\ Len(c) = 4
    <2>1. c \in [1..n -> Byte]
        BY <1>c
    <2>2. n \in Nat
        BY <1>n
    <2>3. c \in Seq(Byte) /\ Len(c) = n
        BY <2>1, <2>2, FunctionIsSeq
    <2> QED
        BY <2>3, <1>n
<1>3. b \in Bytes /\ Len(c) <= Len(b) /\ \A i \in 1..Len(c) : b[i] = c[i]
    BY DEF Starts, c
<1>4. Len(b) \in Nat
    BY <1>3, BytesConcat
<1>5. ASSUME NEW i \in 1..4
      PROVE  \/ b[i] = 255 /\ v[i] = None
             \/ b[i] = v[i] /\ v[i] \in 0..limits[i] /\ v[i] # None
    <2>1. b[i] = IF v[i] = None THEN 255 ELSE v[i]
        BY <1>1, <1>2, <1>3
    <2>2. v[i] = None \/ (v[i] \in Byte /\ v[i] <= limits[i])
        BY DEF IsTime
    <2>3. limits[i] \in 0..254
        OBVIOUS
    <2>4. v[i] # None => v[i] \in 0..limits[i]
        BY <2>2, <2>3 DEF Byte
    <2> QED
        BY <2>1, <2>4
<1>6. ASSUME NEW i \in 1..4
      PROVE  (IF b[i] = 255 THEN None ELSE b[i]) = v[i]
    <2>1. limits[i] \in 0..254
        OBVIOUS
    <2> QED
        BY <2>1, <1>5
<1>7. Unclock(b) = v
    <2>1. v = [i \in 1..4 |-> v[i]]
        OBVIOUS
    <2>2. \A i \in 1..4 : (IF b[i] = 255 THEN None ELSE b[i]) = v[i]
        BY <1>6
    <2> DEFINE u == [i \in 1..4 |-> v[i]]
    <2>3. [i \in 1..4 |-> IF b[i] = 255 THEN None ELSE b[i]] = u
        BY <2>2
    <2> QED
        BY <2>1, <2>3, Zenon DEF Unclock
<1>8. ~(Len(b) < 4)
    BY <1>2, <1>3, <1>4
<1> QED
    BY <1>2, <1>5, <1>7, <1>8 DEF c

\* A time of day is read as it was written.
LEMMA TimeRead ==
    ASSUME NEW v \in [1..4 -> Byte \cup {None}], IsTime(v, <<24, 60, 60, 100>>),
           NEW b, Starts(b, Clock(v))
    PROVE  ReadSimple(TimeTag, b) = Taken(Datum(TimeTag, v), Len(Clock(v)))
<1> DEFINE limits == <<24, 60, 60, 100>>
<1>1. limits \in [1..4 -> 0..254]
    OBVIOUS
<1>2. limits[1] = 24 /\ limits[2] = 60 /\ limits[3] = 60 /\ limits[4] = 100
    OBVIOUS
<1>3. IsTime(v, limits)
    OBVIOUS
<1> HIDE DEF limits
<1>4. /\ Len(Clock(v)) = 4 /\ ~(Len(b) < 4) /\ Unclock(b) = v
      /\ \A i \in 1..4 : b[i] = 255 \/ b[i] \in 0..limits[i]
    BY <1>1, <1>3, ClockRead, SMTT(30)
<1>5. TimeOk(b)
    BY <1>2, <1>4 DEF TimeOk, Within
<1> QED
    BY <1>4, <1>5, Readings

\* A date is read as it was written.
LEMMA DateRead ==
    ASSUME NEW v \in [1..4 -> Byte \cup {None}], IsDate(v), NEW b, Starts(b, Clock(v))
    PROVE  ReadSimple(DateTag, b) = Taken(Datum(DateTag, v), Len(Clock(v)))
<1> DEFINE limits == <<254, 12, 31, 7>>
<1>1. limits \in [1..4 -> 0..254]
    OBVIOUS
<1>2. limits[1] = 254 /\ limits[2] = 12 /\ limits[3] = 31 /\ limits[4] = 7
    OBVIOUS
<1>3. IsTime(v, limits)
    BY DEF IsDate
<1> HIDE DEF limits
<1>4. /\ Len(Clock(v)) = 4 /\ ~(Len(b) < 4) /\ Unclock(b) = v
      /\ \A i \in 1..4 : \/ b[i] = 255 /\ v[i] = None
                         \/ b[i] = v[i] /\ v[i] \in 0..limits[i] /\ v[i] # None
    BY <1>1, <1>3, ClockRead
<1>5. \A i \in 1..4 : Within(b[i], limits[i])
    BY <1>1, <1>4 DEF Within
<1>6. b[2] \in ShortMonths => b[3] <= 30
    <2> SUFFICES ASSUME b[2] \in ShortMonths PROVE b[3] <= 30
        OBVIOUS
    <2>1. b[2] # 255
        BY DEF ShortMonths
    <2>2. v[2] \in ShortMonths
        BY <2>1, <1>4
    <2>3. v[3] # None /\ v[3] <= 30
        BY <2>2 DEF IsDate
    <2> QED
        BY <2>3, <1>4
<1>7. (b[1] # 255 /\ ~Leap(b[1]) /\ b[2] = 2) => b[3] <= 29
    <2> SUFFICES ASSUME b[1] # 255, ~Leap(b[1]), b[2] = 2 PROVE b[3] <= 29
        OBVIOUS
    <2>1. v[1] = b[1] /\ v[1] # None /\ v[2] = 2
        BY <1>4
    <2>2. v[3] <= 29
        BY <2>1 DEF IsDate
    <2>3. v[3] # None
        <3>1. v[2] \in ShortMonths
            BY <2>1 DEF ShortMonths
        <3> QED
            BY <3>1 DEF IsDate
    <2> QED
        BY <2>2, <2>3, <1>4
<1>8. DateOk(b)
    BY <1>2, <1>5, <1>6, <1>7 DEF DateOk
<1> QED
    BY <1>4, <1>8, Readings

\* A key is read as it was written.
LEMMA KeyRead ==
    ASSUME NEW v \in [1..16 -> Byte], NEW b, Starts(b, v)
    PROVE  ReadSimple(KeyTag, b) = Taken(Datum(KeyTag, v), Len(v))
<1> DEFINE n == 16
           s == SubSeq(b, 1, n)
<1>1. n \in Nat /\ n = 16
    OBVIOUS
<1>v. v \in [1..n -> Byte]
    OBVIOUS
<1> HIDE DEF n
<1>2. v \in Seq(Byte) /\ Len(v) = n
    BY <1>1, <1>v, FunctionIsSeq
<1>s. Starts(b, v)
    OBVIOUS
<1>3. s \in Bytes /\ Len(s) = n /\ \A i \in 1..n : s[i] = v[i]
    <2>1. n <= Len(v)
        BY <1>1, <1>2
    <2> HIDE DEF s
    <2>2. \A m \in Nat : m <= Len(v) =>
                /\ SubSeq(b, 1, m) \in Bytes /\ Len(SubSeq(b, 1, m)) = m
                /\ \A i \in 1..m : SubSeq(b, 1, m)[i] = v[i]
        BY <1>s, StartsFront
    <2> QED
        BY <2>1, <2>2, <1>1, Zenon DEF s
<1>4. Len(b) \in Nat /\ Len(v) <= Len(b)
    BY BytesConcat DEF Starts
<1>5. s = v
    <2> HIDE DEF s
    <2>1. s \in Seq(Byte) /\ Len(s) = Len(v) /\ \A i \in 1..Len(s) : s[i] = v[i]
        BY <1>2, <1>3 DEF Bytes
    <2> QED
        BY <2>1, <1>2, SeqEqual
<1>6. ReadSimple(KeyTag, b) = Fixed(KeyTag, b, 16, SubSeq(b, 1, 16), Skipped(KeyTag))
    BY Readings
<1>7. Skipped(KeyTag) = 16
    BY TagsDiffer DEF Skipped
<1>8. ~(Len(b) < 16)
    BY <1>1, <1>2, <1>4
<1> QED
    BY <1>1, <1>2, <1>5, <1>6, <1>7, <1>8 DEF Fixed

\* A boolean is read as it was written.
LEMMA BoolRead ==
    ASSUME NEW v \in {<< 0 >>, << 1 >>}, NEW b, Starts(b, v)
    PROVE  ReadSimple(BoolTag, b) = Taken(Datum(BoolTag, v), Len(v))
<1>1. Len(v) = 1 /\ v[1] \in 0..1 /\ v = <<v[1]>>
    OBVIOUS
<1>2. Len(b) \in Nat /\ Len(v) <= Len(b) /\ b[1] = v[1]
    BY <1>1, BytesConcat DEF Starts
<1>3. <<IF b[1] = 0 THEN 0 ELSE 1>> = v
    BY <1>1, <1>2
<1>4. ReadSimple(BoolTag, b) = Fixed(BoolTag, b, 1, <<IF b[1] = 0 THEN 0 ELSE 1>>, 1)
    BY Readings
<1> QED
    BY <1>1, <1>2, <1>3, <1>4 DEF Fixed

\* A simple datum that the format carries is read as it was written.
LEMMA SimpleRead ==
    ASSUME NEW t \in SimpleTag, NEW v \in Values(t), PlainSimple(Datum(t, v)),
           NEW b, Starts(b, Content(t, v))
    PROVE  ReadSimple(t, b) = Taken(Datum(t, v), Len(Content(t, v)))
<1> DEFINE d == Datum(t, v)
<1>1. d.tag = t /\ d.value = v
    BY DEF Datum
<1>p. PlainSimple(d)
    OBVIOUS
<1> HIDE DEF d
<1>2. /\ t \notin {AddressTag, LongTextTag}
      /\ t \in Numeric => \A i \in DOMAIN v : i > Carried(t) => v[i] = 0
      /\ t \in {OctetsTag, TextTag} => Len(v) < 256
      /\ t = LongOctetsTag => Len(v) < 65536
      /\ t = TimeTag => IsTime(v, <<24, 60, 60, 100>>)
      /\ t = DateTag => IsDate(v)
    BY <1>1, <1>p DEF PlainSimple
<1>3. CASE t \in Numeric
    <2>1. v \in [1..Held(t) -> Byte]
        BY <1>3, NumericValues
    <2>2. \A i \in 1..Held(t) : i > Carried(t) => v[i] = 0
        BY <2>1, <1>2, <1>3
    <2> QED
        BY <2>1, <2>2, <1>3, NumericRead
<1>4. CASE t \in {OctetsTag, TextTag}
    BY <1>2, <1>4, StringRead
<1>5. CASE t = LongOctetsTag
    BY <1>2, <1>5, LongRead
<1>6. CASE t = TimeTag
    <2>1. v \in [1..4 -> Byte \cup {None}] /\ Content(t, v) = Clock(v)
        BY <1>6, ClockValues, Contents
    <2> QED
        BY <2>1, <1>2, <1>6, TimeRead
<1>7. CASE t = DateTag
    <2>1. v \in [1..4 -> Byte \cup {None}] /\ Content(t, v) = Clock(v)
        BY <1>7, ClockValues, Contents
    <2> QED
        BY <2>1, <1>2, <1>7, DateRead
<1>8. CASE t = KeyTag
    <2>1. v \in [1..16 -> Byte] /\ Content(t, v) = v
        BY <1>8, OtherValues, Contents
    <2> QED
        BY <2>1, <1>8, KeyRead
<1>9. CASE t = BoolTag
    <2>1. v \in {<< 0 >>, << 1 >>} /\ Content(t, v) = v
        BY <1>9, OtherValues, Contents
    <2> QED
        BY <2>1, <1>9, BoolRead
<1>10. CASE t = NullTag
    <2>1. v = <<>> /\ Content(t, v) = v
        BY <1>10, OtherValues, Contents
    <2>2. Len(v) = 0
        BY <2>1
    <2> QED
        BY <2>1, <2>2, <1>10, Readings
<1> QED
    BY <1>2, <1>3, <1>4, <1>5, <1>6, <1>7, <1>8, <1>9, <1>10, TagsAreBytes DEF OtherTags

\* What Rust holds in a simple datum is a sequence of bytes, or of those of a time.
LEMMA SeqMore ==
    ASSUME NEW S, NEW T, S \subseteq T, NEW s \in Seq(S)
    PROVE  s \in Seq(T)
<1>1. s \in [1..Len(s) -> S] /\ Len(s) \in Nat
    BY LenProperties
<1>2. s \in [1..Len(s) -> T]
    BY <1>1
<1> QED
    BY <1>1, <1>2, FunctionIsSeq

\* What Rust holds in a simple datum is a sequence.
LEMMA ValuesAreSeqs ==
    ASSUME NEW t \in SimpleTag, NEW v \in Values(t)
    PROVE  v \in Seq(Byte \cup {None})
<1> DEFINE T == Byte \cup {None}
<1>1. Byte \subseteq T /\ T = Byte \cup {None}
    OBVIOUS
<1>2. t \in SimpleTag /\ v \in Values(t)
    OBVIOUS
<1> HIDE DEF T
<1>3. \A s \in Seq(Byte) : s \in Seq(T)
    BY <1>1, SeqMore
<1>4. CASE t \in Numeric
    <2>1. v \in [1..Held(t) -> Byte]
        BY <1>2, <1>4, NumericValues
    <2>2. Held(t) \in Nat
        BY <1>4, HeldFacts
    <2> QED
        BY <2>1, <2>2, <1>1, <1>3, FunctionIsSeq
<1>5. CASE t \in {OctetsTag, TextTag, LongOctetsTag, LongTextTag}
    <2>1. v \in Bytes
        BY <1>2, <1>5, OctetsValues, TextValues
    <2> QED
        BY <2>1, <1>3, <1>1 DEF Bytes
<1>6. CASE t \in {TimeTag, DateTag}
    <2>1. v \in [1..4 -> T]
        BY <1>1, <1>2, <1>6, ClockValues
    <2> DEFINE n == 4
    <2>2. v \in [1..n -> T] /\ n \in Nat
        BY <2>1
    <2> HIDE DEF n
    <2>3. v \in Seq(T)
        BY <2>2, FunctionIsSeq
    <2> QED
        BY <2>3 DEF T
<1>7. CASE t \in {NullTag, BoolTag}
    <2>1. <<>> \in Seq(Byte) /\ << 0 >> \in Seq(Byte) /\ << 1 >> \in Seq(Byte)
        BY DEF Byte
    <2>2. v \in {<<>>, << 0 >>, << 1 >>}
        BY <1>2, <1>7, OtherValues
    <2> QED
        BY <2>1, <2>2, <1>1, <1>3
<1>8. CASE t = AddressTag
    <2>1. v \in [1..8 -> Byte]
        BY <1>2, <1>8, OtherValues
    <2> DEFINE n == 8
    <2>2. v \in [1..n -> Byte] /\ n \in Nat
        BY <2>1
    <2> HIDE DEF n
    <2>3. v \in Seq(Byte)
        BY <2>2, FunctionIsSeq
    <2> QED
        BY <2>3, <1>1, <1>3
<1>9. CASE t = KeyTag
    <2>1. v \in [1..16 -> Byte]
        BY <1>2, <1>9, OtherValues
    <2> DEFINE n == 16
    <2>2. v \in [1..n -> Byte] /\ n \in Nat
        BY <2>1
    <2> HIDE DEF n
    <2>3. v \in Seq(Byte)
        BY <2>2, FunctionIsSeq
    <2> QED
        BY <2>3, <1>1, <1>3
<1> QED
    BY <1>1, <1>2, <1>4, <1>5, <1>6, <1>7, <1>8, <1>9, TagsAreBytes DEF OtherTags

\* A tag with one of its values is a simple datum.
LEMMA SimpleDatum ==
    ASSUME NEW t \in SimpleTag, NEW v \in Values(t)
    PROVE  Datum(t, v) \in Simple
<1>1. v \in Seq(Byte \cup {None})
    BY ValuesAreSeqs
<1> QED
    BY <1>1 DEF Datum, Simple

\* A reader of a fixed length makes a datum of its type, or refuses.
LEMMA FixedMade ==
    ASSUME NEW t \in SimpleTag, NEW b \in Bytes, NEW n \in Nat, NEW k \in 0..n, NEW v,
           n <= Len(b) => v \in Values(t)
    PROVE  Fixed(t, b, n, v, k) \in Made(Simple, Len(b))
<1>1. Len(b) \in Nat
    BY BytesConcat
<1>2. CASE Len(b) < n
    BY <1>1, <1>2, MadeOf DEF Fixed
<1>3. CASE n <= Len(b)
    <2>1. Datum(t, v) \in Simple /\ k \in 0..Len(b)
        BY <1>1, <1>3, SimpleDatum
    <2>2. Taken(Datum(t, v), k) \in Made(Simple, Len(b))
        BY <1>1, <2>1, MadeOf
    <2> QED
        BY <1>1, <1>3, <2>2 DEF Fixed
<1> QED
    BY <1>1, <1>2, <1>3

\* A reader of a string makes a string within the bytes there are, or refuses.
LEMMA TextMade ==
    ASSUME NEW t \in {OctetsTag, TextTag, LongOctetsTag, LongTextTag}, NEW b \in Bytes,
           NEW w \in Nat, NEW n \in Nat
    PROVE  Text(t, b, w, n) \in Made(Simple, Len(b))
<1> DEFINE s == SubSeq(b, w + 1, w + n)
           kept == IF t = LongTextTag THEN TextTag ELSE t
<1>1. Len(b) \in Nat
    BY BytesConcat
<1>2. CASE Len(b) < w + n
    BY <1>1, <1>2, MadeOf DEF Text
<1>3. CASE w + n <= Len(b) /\ t \in {TextTag, LongTextTag} /\ s \notin Utf8
    BY <1>1, <1>3, MadeOf DEF Text
<1>4. CASE w + n <= Len(b) /\ (t \in {TextTag, LongTextTag} => s \in Utf8)
    <2>1. s \in Bytes
        <3>1. b \in Seq(Byte) /\ w + n <= Len(b)
            BY <1>4 DEF Bytes
        <3>2. Slice(b, w, n) \in Seq(Byte)
            BY <3>1, SliceType
        <3> QED
            BY <3>2 DEF Slice, Bytes
    <2> HIDE DEF s
    <2>2. kept \in SimpleTag /\ s \in Values(kept)
        <3>1. CASE t = LongTextTag
            BY <3>1, <2>1, <1>4, TextValues, TagsAreBytes DEF OtherTags
        <3>2. CASE t = TextTag
            <4>1. t # LongTextTag
                BY <3>2, TagsDiffer
            <4> QED
                BY <4>1, <3>2, <2>1, <1>4, TextValues, TagsAreBytes DEF OtherTags
        <3>3. CASE t \in {OctetsTag, LongOctetsTag}
            <4>1. t # LongTextTag
                BY <3>3, TagsDiffer
            <4>2. t \in SimpleTag
                BY <3>3, TagsAreBytes DEF OtherTags
            <4>3. s \in Values(t)
                BY <3>3, <2>1, OctetsValues
            <4> QED
                BY <4>1, <4>2, <4>3
        <3> QED
            BY <3>1, <3>2, <3>3
    <2> HIDE DEF kept
    <2>3. Datum(kept, s) \in Simple
        BY <2>2, SimpleDatum
    <2>4. w + n \in 0..Len(b)
        BY <1>1, <1>4
    <2>5. Taken(Datum(kept, s), w + n) \in Made(Simple, Len(b))
        BY <2>3, <2>4, <1>1, MadeOf
    <2>6. ~(Len(b) < w + n)
        BY <1>1, <1>4
    <2>7. Text(t, b, w, n) = Taken(Datum(kept, s), w + n)
        BY <2>6, <1>4, Zenon DEF Text, kept, s
    <2> QED
        BY <2>5, <2>7
<1> QED
    BY <1>1, <1>2, <1>3, <1>4

\* A number made as wide as memory is a value of its type.
LEMMA WidenedValue ==
    ASSUME NEW t \in Numeric, NEW s \in Bytes, Len(s) = Carried(t)
    PROVE  Widened(t, s) \in Values(t)
<1> DEFINE h == Held(t)
           z == Zeros(h - Len(s))
           j == s \o z
<1>1. Len(s) \in Nat /\ h \in Nat /\ Len(s) <= h
    BY HeldFacts
<1>2. Widened(t, s) = j
    BY DEF Widened
<1>3. h = Held(t)
    OBVIOUS
<1> HIDE DEF h
<1>4. z \in Bytes /\ Len(z) = h - Len(s)
    <2>1. h - Len(s) \in Nat
        BY <1>1
    <2> QED
        BY <2>1, ZerosType
<1> HIDE DEF z
<1>5. j \in Bytes /\ Len(j) = h
    <2>1. j \in Bytes /\ Len(j) = Len(s) + Len(z)
        BY <1>4, BytesConcat
    <2> HIDE DEF j
    <2> QED
        BY <2>1, <1>1, <1>4
<1> HIDE DEF j
<1>6. j \in [1..h -> Byte]
    BY <1>5, LenProperties DEF Bytes
<1> QED
    BY <1>2, <1>3, <1>6, NumericValues

\* Two bytes are a number.
LEMMA NumberType ==
    ASSUME NEW b \in Bytes, 2 <= Len(b)
    PROVE  Number(b) \in Nat
<1>1. b[1] \in Byte /\ b[2] \in Byte
    BY DEF Bytes
<1>2. \A x, y \in Byte : x + 256 * y \in Nat
    BY DEF Byte
<1> QED
    BY <1>1, <1>2, Zenon DEF Number

\* Four bytes are the fields of a time or a date.
LEMMA UnclockType ==
    ASSUME NEW b \in Bytes, 4 <= Len(b)
    PROVE  Unclock(b) \in [1..4 -> Byte \cup {None}]
<1>1. \A i \in 1..4 : b[i] \in Byte
    BY DEF Bytes
<1> QED
    BY <1>1 DEF Unclock

\* The first n bytes as a function.
LEMMA FrontFixed ==
    ASSUME NEW b \in Bytes, NEW n \in Nat, n <= Len(b)
    PROVE  SubSeq(b, 1, n) \in [1..n -> Byte]
<1> DEFINE s == SubSeq(b, 1, n)
<1>1. b \in Seq(Byte)
    BY DEF Bytes
<1>2. s \in Seq(Byte) /\ Len(s) = n
    BY <1>1, FrontType
<1> HIDE DEF s
<1>3. s \in [1..n -> Byte]
    BY <1>2, LenProperties
<1> QED
    BY <1>3 DEF s

\* A simple datum is read from bytes that are there, or none is.
LEMMA SimpleMade ==
    ASSUME NEW t, NEW b \in Bytes
    PROVE  ReadSimple(t, b) \in Made(Simple, Len(b))
<1>b. b \in Bytes /\ Len(b) \in Nat
    BY BytesConcat
<1>1. CASE t \in Numeric
    <2> DEFINE n == Carried(t)
               s == SubSeq(b, 1, n)
               v == Widened(t, s)
    <2>1. t \in SimpleTag /\ n \in Nat /\ n \in 0..n
        BY <1>1, HeldFacts, TagsAreBytes
    <2>2. ReadSimple(t, b) = Fixed(t, b, n, v, n)
        BY <1>1, Readings
    <2>3. ASSUME n <= Len(b)
          PROVE  v \in Values(t)
        <3>1. n = Carried(t)
            OBVIOUS
        <3> HIDE DEF n
        <3>2. s \in Seq(Byte) /\ Len(s) = n
            <4>1. b \in Seq(Byte)
                BY DEF Bytes
            <4> QED
                BY <2>1, <2>3, <4>1, FrontType
        <3>3. s \in Bytes
            BY <3>2 DEF Bytes
        <3> HIDE DEF s
        <3> QED
            BY <3>1, <3>2, <3>3, <1>1, WidenedValue
    <2> HIDE DEF n, v
    <2>4. Fixed(t, b, n, v, n) \in Made(Simple, Len(b))
        BY <2>1, <2>3, FixedMade
    <2> QED
        BY <2>2, <2>4
<1>2. CASE t \in {OctetsTag, TextTag}
    <2>1. ReadSimple(t, b) = IF b = <<>> THEN Halted ELSE Text(t, b, 1, b[1])
        BY <1>2, Readings
    <2>2. Halted \in Made(Simple, Len(b))
        BY <1>b, MadeOf
    <2>3. ASSUME b # <<>>
          PROVE  Text(t, b, 1, b[1]) \in Made(Simple, Len(b))
        <3> DEFINE w == 1
                   n == b[1]
        <3>1. w \in Nat /\ n \in Nat
            <4>1. b \in Seq(Byte)
                BY DEF Bytes
            <4>2. b[1] \in Byte
                BY <4>1, <2>3, ElementOfSeq, EmptySeq
            <4> QED
                BY <4>2 DEF Byte
        <3> HIDE DEF w, n
        <3>2. Text(t, b, w, n) \in Made(Simple, Len(b))
            BY <3>1, <1>2, TextMade
        <3> QED
            BY <3>2 DEF w, n
    <2> QED
        BY <2>1, <2>2, <2>3
<1>3. CASE t \in {LongOctetsTag, LongTextTag}
    <2>1. ReadSimple(t, b) = IF Len(b) < 2 THEN Refused ELSE Text(t, b, 2, Number(b))
        BY <1>3, LongCases
    <2>2. Refused \in Made(Simple, Len(b))
        BY <1>b, MadeOf
    <2>3. ASSUME 2 <= Len(b)
          PROVE  Text(t, b, 2, Number(b)) \in Made(Simple, Len(b))
        <3> DEFINE w == 2
                   n == Number(b)
        <3>1. w \in Nat /\ n \in Nat
            BY <2>3, NumberType
        <3> HIDE DEF w, n
        <3>2. Text(t, b, w, n) \in Made(Simple, Len(b))
            BY <3>1, <1>3, TextMade
        <3> QED
            BY <3>2 DEF w, n
    <2>4. Len(b) < 2 \/ 2 <= Len(b)
        BY <1>b
    <2> QED
        BY <2>1, <2>2, <2>3, <2>4
<1>4. CASE t \in {TimeTag, DateTag}
    <2>1. Refused \in Made(Simple, Len(b))
        BY <1>b, MadeOf
    <2>2. ASSUME 4 <= Len(b)
          PROVE  Taken(Datum(t, Unclock(b)), 4) \in Made(Simple, Len(b))
        <3> DEFINE v == Unclock(b)
                   k == 4
        <3>1. v \in Values(t) /\ t \in SimpleTag
            BY <1>4, <2>2, UnclockType, ClockValues, TagsAreBytes DEF OtherTags
        <3>2. k \in 0..Len(b)
            BY <1>b, <2>2
        <3> HIDE DEF v, k
        <3>3. Datum(t, v) \in Simple
            BY <3>1, SimpleDatum
        <3> DEFINE d == Datum(t, v)
        <3>4. d \in Simple
            BY <3>3
        <3> HIDE DEF d
        <3>5. Taken(d, k) \in Made(Simple, Len(b))
            BY <1>b, <3>2, <3>4, MadeOf
        <3> QED
            BY <3>5 DEF d, v, k
    <2>3. Len(b) < 4 \/ 4 <= Len(b)
        BY <1>b
    <2>4. ReadSimple(t, b) \in {Refused, Taken(Datum(t, Unclock(b)), 4)}
        BY <1>4, Readings
    <2>5. Len(b) < 4 => ReadSimple(t, b) = Refused
        BY <1>4, Readings
    <2> QED
        BY <2>1, <2>2, <2>3, <2>4, <2>5
<1>5. CASE t = AddressTag
    <2> DEFINE n == 8
               k == 4
               s == SubSeq(b, 1, n)
    <2>1. n \in Nat /\ k \in 0..n /\ n = 8
        OBVIOUS
    <2>2. ReadSimple(t, b) = Fixed(t, b, n, s, k)
        <3>1. Skipped(t) = 4
            BY <1>5 DEF Skipped
        <3> QED
            BY <3>1, <1>5, Readings
    <2> HIDE DEF n, k
    <2>3. ASSUME n <= Len(b)
          PROVE  s \in Values(t)
        <3>1. s \in [1..n -> Byte]
            BY <2>1, <2>3, FrontFixed
        <3> HIDE DEF s
        <3> QED
            BY <3>1, <2>1, <1>5, OtherValues
    <2> HIDE DEF s
    <2>4. t \in SimpleTag
        BY <1>5, TagsAreBytes DEF OtherTags
    <2>5. Fixed(t, b, n, s, k) \in Made(Simple, Len(b))
        BY <2>1, <2>3, <2>4, FixedMade
    <2> QED
        BY <2>2, <2>5
<1>6. CASE t = KeyTag
    <2> DEFINE n == 16
               s == SubSeq(b, 1, n)
    <2>1. n \in Nat /\ n \in 0..n /\ n = 16
        OBVIOUS
    <2>2. ReadSimple(t, b) = Fixed(t, b, n, s, n)
        <3>1. Skipped(t) = 16
            BY <1>6, TagsDiffer DEF Skipped
        <3> QED
            BY <3>1, <1>6, Readings
    <2> HIDE DEF n
    <2>3. ASSUME n <= Len(b)
          PROVE  s \in Values(t)
        <3>1. s \in [1..n -> Byte]
            BY <2>1, <2>3, FrontFixed
        <3> HIDE DEF s
        <3> QED
            BY <3>1, <2>1, <1>6, OtherValues
    <2> HIDE DEF s
    <2>4. t \in SimpleTag
        BY <1>6, TagsAreBytes DEF OtherTags
    <2>5. Fixed(t, b, n, s, n) \in Made(Simple, Len(b))
        BY <2>1, <2>3, <2>4, FixedMade
    <2> QED
        BY <2>2, <2>5
<1>7. CASE t = BoolTag
    <2> DEFINE n == 1
               v == <<IF b[1] = 0 THEN 0 ELSE 1>>
    <2>1. n \in Nat /\ n \in 0..n /\ n = 1
        OBVIOUS
    <2>2. ReadSimple(t, b) = Fixed(t, b, n, v, n)
        BY <1>7, Readings
    <2>3. v \in Values(t)
        <3>1. v \in {<< 0 >>, << 1 >>}
            OBVIOUS
        <3> HIDE DEF v
        <3> QED
            BY <3>1, <1>7, OtherValues
    <2> HIDE DEF n, v
    <2>4. t \in SimpleTag
        BY <1>7, TagsAreBytes DEF OtherTags
    <2>5. Fixed(t, b, n, v, n) \in Made(Simple, Len(b))
        BY <2>1, <2>3, <2>4, FixedMade
    <2> QED
        BY <2>2, <2>5
<1>8. CASE t = NullTag
    <2> DEFINE v == <<>>
               d == Datum(t, v)
               k == 0
    <2>1. v \in Values(t) /\ t \in SimpleTag
        BY <1>8, OtherValues, TagsAreBytes DEF OtherTags
    <2>2. ReadSimple(t, b) = Taken(d, k)
        BY <1>8, Readings
    <2> HIDE DEF v
    <2>3. d \in Simple /\ k \in 0..Len(b)
        BY <1>b, <2>1, SimpleDatum
    <2> HIDE DEF d, k
    <2> QED
        BY <2>2, <2>3, <1>b, MadeOf
<1>9. CASE t \notin SimpleTag
    BY <1>9, <1>b, Readings, MadeOf
<1> QED
    BY <1>1, <1>2, <1>3, <1>4, <1>5, <1>6, <1>7, <1>8, <1>9, TagsAreBytes DEF OtherTags

\* What a level writes and reads.
IsLevel(l) ==
    /\ \A d \in l.data : l.write[d] \in Bytes /\ Len(l.write[d]) \in Nat \ {0}
    /\ \A b \in Bytes : l.read[b] \in Made(l.data, Len(b))

\* One datum more of a list stays within the bytes.
LEMMA NextItemMade ==
    ASSUME NEW l, IsLevel(l), NEW b \in Bytes, NEW r \in Made(Seq(l.data), Len(b))
    PROVE  NextItem(l, b, r) \in Made(Seq(l.data), Len(b))
<1> DEFINE D == l.data
           Q == Seq(D)
           rest == From(b, r.length)
           item == l.read[rest]
<1>1. Len(b) \in Nat /\ b \in Seq(Byte)
    BY BytesConcat DEF Bytes
<1>2. CASE r.outcome # "taken"
    BY <1>2, Zenon DEF NextItem, Joined
<1>3. CASE r.outcome = "taken"
    <2> HIDE DEF Q
    <2>1. r \in Made(Q, Len(b))
        BY DEF Q
    <2>2. r.value \in Q /\ r.length \in 0..Len(b)
        BY <2>1, <1>1, <1>3, MadeCases
    <2> DEFINE k == r.length
    <2>3. k \in Nat /\ k <= Len(b)
        BY <2>2, <1>1
    <2>4. rest \in Seq(Byte) /\ Len(rest) = Len(b) - k
        <3>1. rest = From(b, k)
            OBVIOUS
        <3> HIDE DEF rest, k
        <3>2. From(b, k) \in Seq(Byte) /\ Len(From(b, k)) = IF k <= Len(b) THEN Len(b) - k ELSE 0
            BY <1>1, <2>3, FromType
        <3> QED
            BY <3>1, <3>2, <2>3
    <2> HIDE DEF rest, k
    <2>5. item \in Made(D, Len(rest)) /\ Len(rest) \in Nat
        <3>1. rest \in Bytes
            BY <2>4 DEF Bytes
        <3>2. Len(rest) \in Nat
            BY <2>3, <2>4, <1>1
        <3>3. item \in Made(D, Len(rest))
            BY <3>1, Zenon DEF IsLevel
        <3> QED
            BY <3>2, <3>3
    <2> HIDE DEF item, D
    <2>6. CASE item.outcome # "taken"
        <3>1. item \in {Refused, Halted}
            BY <2>5, <2>6, MadeCases
        <3>2. item \in Made(Q, Len(b))
            BY <3>1, <1>1, MadeOf
        <3> QED
            BY <3>2, <2>6, <1>3, Zenon DEF NextItem, Joined, item, rest, Q, D
    <2>7. CASE item.outcome = "taken"
        <3>1. item.value \in D /\ item.length \in 0..Len(rest)
            BY <2>5, <2>7, MadeCases
        <3> DEFINE v == Append(r.value, item.value)
                   m == r.length + item.length
        <3>2. v \in Q
            BY <2>2, <3>1, AppendProperties DEF Q
        <3>3. m \in 0..Len(b)
            <4>1. r.length = k
                BY DEF k
            <4> QED
                BY <4>1, <3>1, <2>3, <2>4, <1>1
        <3> HIDE DEF v, m
        <3>4. Taken(v, m) \in Made(Q, Len(b))
            BY <3>2, <3>3, <1>1, MadeOf
        <3> QED
            BY <3>4, <2>7, <1>3, Zenon DEF NextItem, Joined, item, rest, v, m, Q, D
    <2> QED
        BY <2>6, <2>7
<1> QED
    BY <1>2, <1>3

\* A list is read within its bytes.
LEMMA ItemsMade ==
    ASSUME NEW l, IsLevel(l), NEW b \in Bytes, 2 <= Len(b), NEW n \in Nat
    PROVE  ReadItems(l, b, n) \in Made(Seq(l.data), Len(b))
<1> DEFINE S == Made(Seq(l.data), Len(b))
           s0 == Taken(<<>>, 2)
           step == [i \in 1..n |-> [r \in S |-> NextItem(l, b, r)]]
<1>1. Len(b) \in Nat
    BY BytesConcat
<1>2. s0 \in S
    <2> DEFINE Q == Seq(l.data)
               e == <<>>
               k == 2
    <2>1. e \in Q /\ k \in 0..Len(b)
        BY <1>1
    <2> HIDE DEF Q, e, k
    <2>2. Taken(e, k) \in Made(Q, Len(b))
        BY <2>1, <1>1, MadeOf
    <2> QED
        BY <2>2 DEF Q, e, k
<1>3. \A r \in S : NextItem(l, b, r) \in S
    BY NextItemMade
<1>s. s0 = Taken(<<>>, 2) /\ S = Made(Seq(l.data), Len(b))
    OBVIOUS
<1> HIDE DEF S, s0
<1>4. step \in [1..n -> [S -> S]]
    BY <1>3
<1>5. \A i \in 1..n : \A r \in S : step[i][r] = NextItem(l, b, r)
    OBVIOUS
<1> HIDE DEF step
<1>6. HasRun(S, s0, n, step)
    BY <1>2, <1>4, Recursion
<1>7. PICK f \in [0..n -> S] : Runs(f, s0, n, step)
    BY <1>6 DEF HasRun
<1>8. f[0] = s0
    BY <1>7 DEF Runs
<1>9. ASSUME NEW i \in 1..n
      PROVE  f[i] = NextItem(l, b, f[i - 1])
    <2>1. f[i] = step[i][f[i - 1]]
        BY <1>7 DEF Runs
    <2>2. f[i - 1] \in S
        OBVIOUS
    <2> QED
        BY <1>5, <2>1, <2>2
<1>10. f = [i \in 0..n |-> IF i = 0 THEN Taken(<<>>, 2) ELSE NextItem(l, b, f[i - 1])]
    <2>1. \A i \in 0..n : f[i] = IF i = 0 THEN Taken(<<>>, 2) ELSE NextItem(l, b, f[i - 1])
        BY <1>8, <1>9, <1>s
    <2>2. f = [i \in 0..n |-> f[i]]
        OBVIOUS
    <2> QED
        BY <2>1, <2>2
<1>11. ReadItems(l, b, n) = f[n]
    BY <1>10, ItemsAre
<1>12. f[n] \in S
    OBVIOUS
<1> QED
    BY <1>11, <1>12, <1>s

\* A simple datum is its tag and a value of it.
LEMMA SimpleParts ==
    ASSUME NEW d \in Simple
    PROVE  d.tag \in SimpleTag /\ d.value \in Values(d.tag) /\ d = Datum(d.tag, d.value)
    BY DEF Simple, Datum

\* A compound datum is its tag and a sequence of data.
LEMMA CompoundParts ==
    ASSUME NEW S, NEW d \in [tag : Compound, value : Seq(S)]
    PROVE  d.tag \in Compound /\ d.value \in Seq(S) /\ d = Datum(d.tag, d.value)
    BY DEF Datum

\* The items of a list as they are written.
Parts(l, v) == [i \in DOMAIN v |-> l.write[v[i]]]

\* The data of a list are written as bytes.
LEMMA PartsWritten ==
    ASSUME NEW l, IsLevel(l), NEW v \in Seq(l.data)
    PROVE  /\ Parts(l, v) \in Seq(Bytes) /\ Len(Parts(l, v)) = Len(v)
           /\ \A i \in 1..Len(v) : Parts(l, v)[i] = l.write[v[i]]
<1> DEFINE n == Len(v)
           p == Parts(l, v)
<1>1. n \in Nat /\ DOMAIN v = 1..n /\ \A i \in 1..n : v[i] \in l.data
    BY LenProperties, ElementOfSeq
<1> HIDE DEF n
<1>2. p = [i \in 1..n |-> l.write[v[i]]]
    BY <1>1 DEF Parts
<1>3. \A i \in 1..n : l.write[v[i]] \in Bytes
    BY <1>1 DEF IsLevel
<1> HIDE DEF p
<1>4. p \in [1..n -> Bytes] /\ \A i \in 1..n : p[i] = l.write[v[i]]
    BY <1>2, <1>3
<1>5. p \in Seq(Bytes) /\ Len(p) = n
    BY <1>1, <1>4, FunctionIsSeq
<1> QED
    BY <1>4, <1>5 DEF p, n

\* What is written behind the tag.
Body(l, d) ==
    IF d.tag \notin Compound THEN Content(d.tag, d.value)
    ELSE LowFirst(Len(d.value)) \o FlattenSeq(Parts(l, d.value))

\* A datum is its tag followed by its body.
LEMMA BodyWritten ==
    ASSUME NEW l, IsLevel(l), NEW d \in DataAbove(l)
    PROVE  /\ Body(l, d) \in Bytes /\ <<d.tag>> \in Bytes
           /\ WriteAbove(l, d) = <<d.tag>> \o Body(l, d)
<1>1. d \in Simple \/ d \in [tag : Compound, value : Seq(l.data)]
    BY DEF DataAbove
<1>2. WriteAbove(l, d) = <<d.tag>> \o Body(l, d)
    BY DEF WriteAbove, Body, Parts
<1>3. CASE d \in Simple
    <2>1. d.tag \in SimpleTag /\ d.value \in Values(d.tag)
        BY <1>3, SimpleParts
    <2>2. d.tag \in Byte /\ d.tag \notin Compound
        BY <2>1, TagsAreBytes
    <2>3. Content(d.tag, d.value) \in Bytes
        BY <2>1, SimpleWritten
    <2>4. <<d.tag>> \in Bytes
        BY <2>2, ByteSeq
    <2> QED
        BY <1>2, <2>2, <2>3, <2>4 DEF Body
<1>4. CASE d \in [tag : Compound, value : Seq(l.data)]
    <2> DEFINE v == d.value
               p == Parts(l, v)
               m == LowFirst(Len(v))
               w == FlattenSeq(p)
    <2>1. d.tag \in Compound /\ v \in Seq(l.data)
        BY <1>4
    <2>2. Body(l, d) = m \o w
        BY <2>1 DEF Body
    <2>3. d.tag \in Byte
        BY <2>1, TagsAreBytes
    <2>4. <<d.tag>> \in Bytes
        BY <2>3, ByteSeq
    <2> HIDE DEF v
    <2>5. p \in Seq(Bytes) /\ Len(v) \in Nat
        BY <2>1, PartsWritten, LenProperties
    <2> HIDE DEF p
    <2>6. w \in Bytes /\ m \in Bytes
        BY <2>5, FlattenType, LowFirstType
    <2> HIDE DEF w, m
    <2>7. m \o w \in Bytes
        BY <2>6, BytesConcat
    <2> QED
        BY <1>2, <2>2, <2>4, <2>7
<1> QED
    BY <1>1, <1>3, <1>4

\* A compound datum is read within its bytes.
LEMMA CompoundMade ==
    ASSUME NEW l, IsLevel(l), NEW t \in Compound, NEW b \in Bytes
    PROVE  ReadCompound(l, t, b) \in Made(DataAbove(l), Len(b))
<1> DEFINE n == Number(b)
           D == l.data
           Q == Seq(D)
           items == ReadItems(l, b, n)
           A == DataAbove(l)
<1>1. Len(b) \in Nat
    BY BytesConcat
<1>2. CASE Len(b) < 2
    BY <1>1, <1>2, MadeOf DEF ReadCompound
<1>3. CASE 2 <= Len(b)
    <2>1. n \in Nat
        BY <1>3, NumberType
    <2>2. ReadCompound(l, t, b) =
            IF items.outcome # "taken" THEN items ELSE Taken(Datum(t, items.value), items.length)
        <3>1. ~(Len(b) < 2)
            BY <1>1, <1>3
        <3> QED
            BY <3>1, Zenon DEF ReadCompound
    <2> HIDE DEF n
    <2>3. items \in Made(Q, Len(b))
        BY <1>3, <2>1, ItemsMade
    <2> HIDE DEF items, Q
    <2>4. CASE items.outcome # "taken"
        <3>1. items \in {Refused, Halted}
            BY <1>1, <2>3, <2>4, MadeCases
        <3> HIDE DEF A
        <3>2. items \in Made(A, Len(b))
            BY <3>1, <1>1, MadeOf
        <3> QED
            BY <3>2, <2>2, <2>4 DEF A
    <2>5. CASE items.outcome = "taken"
        <3> DEFINE v == items.value
                   k == items.length
                   d == Datum(t, v)
        <3>1. v \in Q /\ k \in 0..Len(b)
            BY <1>1, <2>3, <2>5, MadeCases
        <3>2. d \in A
            BY <3>1 DEF Datum, DataAbove, Q
        <3> HIDE DEF v, k, d, A
        <3>3. Taken(d, k) \in Made(A, Len(b))
            BY <3>1, <3>2, <1>1, MadeOf
        <3> QED
            BY <3>3, <2>2, <2>5 DEF A, d, v, k
    <2> QED
        BY <2>4, <2>5
<1> QED
    BY <1>1, <1>2, <1>3

\* What a reader made of a set it made of a larger one.
LEMMA MadeMore ==
    ASSUME NEW S, NEW T, S \subseteq T, NEW n \in Nat, NEW r \in Made(S, n)
    PROVE  r \in Made(T, n)
    BY DEF Made

\* A datum of the next level is read within its bytes.
LEMMA AboveMade ==
    ASSUME NEW l, IsLevel(l), NEW b \in Bytes
    PROVE  ReadAbove(l, b) \in Made(DataAbove(l), Len(b))
<1> DEFINE A == DataAbove(l)
           rest == Tail(b)
           t == b[1]
           r == IF t \in Compound THEN ReadCompound(l, t, rest) ELSE ReadSimple(t, rest)
<1>1. Len(b) \in Nat /\ b \in Seq(Byte)
    BY BytesConcat DEF Bytes
<1>2. CASE b = <<>>
    <2> HIDE DEF A
    <2>1. Halted \in Made(A, Len(b))
        BY <1>1, MadeOf
    <2> QED
        BY <1>2, <2>1 DEF ReadAbove, Behind, A
<1>3. CASE b # <<>>
    <2>1. rest \in Bytes /\ Len(rest) = Len(b) - 1 /\ Len(rest) \in Nat
        BY <1>1, <1>3, HeadTailProperties DEF Bytes
    <2>2. ReadAbove(l, b) = IF r.outcome # "taken" THEN r ELSE Taken(r.value, r.length + 1)
        BY <1>3, Zenon DEF ReadAbove, Behind
    <2> HIDE DEF rest, t
    <2>3. r \in Made(A, Len(rest))
        <3>1. CASE t \in Compound
            BY <3>1, <2>1, CompoundMade
        <3>2. CASE t \notin Compound
            <4>1. ReadSimple(t, rest) \in Made(Simple, Len(rest))
                BY <2>1, SimpleMade
            <4>2. Simple \subseteq A
                BY DEF DataAbove
            <4> HIDE DEF A
            <4>3. ReadSimple(t, rest) \in Made(A, Len(rest))
                BY <4>1, <4>2, <2>1, MadeMore
            <4> QED
                BY <4>3, <3>2
        <3> QED
            BY <3>1, <3>2
    <2> HIDE DEF r, A
    <2>4. CASE r.outcome # "taken"
        <3>1. r \in {Refused, Halted}
            BY <2>1, <2>3, <2>4, MadeCases
        <3>2. r \in Made(A, Len(b))
            BY <3>1, <1>1, MadeOf
        <3> QED
            BY <3>2, <2>2, <2>4 DEF A
    <2>5. CASE r.outcome = "taken"
        <3> DEFINE v == r.value
                   k == r.length + 1
        <3>1. v \in A /\ r.length \in 0..Len(rest)
            BY <2>1, <2>3, <2>5, MadeCases
        <3>2. k \in 0..Len(b)
            BY <3>1, <2>1, <1>1
        <3> HIDE DEF v, k
        <3>3. Taken(v, k) \in Made(A, Len(b))
            BY <3>1, <3>2, <1>1, MadeOf
        <3> QED
            BY <3>3, <2>2, <2>5 DEF A, v, k
    <2> QED
        BY <2>4, <2>5
<1> QED
    BY <1>2, <1>3

\* Every level writes bytes and reads its data.
LEMMA AboveIsLevel ==
    ASSUME NEW l, IsLevel(l)
    PROVE  IsLevel(Above(l))
<1>1. ASSUME NEW d \in DataAbove(l)
      PROVE  WriteAbove(l, d) \in Bytes /\ Len(WriteAbove(l, d)) \in Nat \ {0}
    <2> DEFINE p == <<d.tag>>
               w == Body(l, d)
    <2>1. p \in Bytes /\ w \in Bytes /\ WriteAbove(l, d) = p \o w
        BY BodyWritten
    <2>2. Len(p) = 1
        OBVIOUS
    <2> HIDE DEF p, w
    <2>3. p \o w \in Bytes /\ Len(p \o w) = Len(p) + Len(w) /\ Len(w) \in Nat
        BY <2>1, BytesConcat
    <2>4. Len(WriteAbove(l, d)) = 1 + Len(w) /\ Len(w) \in Nat
        BY <2>1, <2>2, <2>3
    <2> QED
        BY <2>1, <2>3, <2>4
<1>2. \A b \in Bytes : ReadAbove(l, b) \in Made(DataAbove(l), Len(b))
    BY AboveMade
<1>3. \A b \in Bytes : Above(l).read[b] = ReadAbove(l, b)
    BY DEF Above, Bytes
<1>4. Above(l).data = DataAbove(l)
    BY DEF Above
<1>5. \A d \in DataAbove(l) : Above(l).write[d] = WriteAbove(l, d)
    BY DEF Above
<1> QED
    BY <1>1, <1>2, <1>3, <1>4, <1>5, Zenon DEF IsLevel

\* The level on which nothing is written is one.
LEMMA GroundIsLevel ==
    IsLevel(Ground)
<1>1. Ground.data = {}
    BY DEF Ground
<1>2. \A b \in Bytes : Ground.read[b] = Refused
    BY DEF Ground, Bytes
<1>3. \A b \in Bytes : Refused \in Made({}, Len(b))
    BY BytesConcat, MadeOf
<1> QED
    BY <1>1, <1>2, <1>3 DEF IsLevel

\* Every level writes bytes and reads within them.
LEMMA LevelsAreLevels ==
    \A n \in Nat : IsLevel(Level[n])
<1> DEFINE T == {n \in Nat : IsLevel(Level[n])}
<1>1. 0 \in T
    BY Levels, GroundIsLevel
<1>2. \A n \in Nat : n \in T => n + 1 \in T
    BY Levels, AboveIsLevel
<1>3. Nat \subseteq T
    <2> HIDE DEF T
    <2> QED
        BY <1>1, <1>2, InductionSet
<1> QED
    BY <1>3

-----------------------------------------------------------------------------
(* What is written is read. *)

Firsts(v, i) == SubSeq(v, 1, i)

\* The first i of a sequence, one by one.
LEMMA FrontFacts ==
    ASSUME NEW T, NEW v \in Seq(T)
    PROVE  /\ Firsts(v, 0) = <<>> /\ Firsts(v, Len(v)) = v /\ Len(v) \in Nat
           /\ \A i \in 1..Len(v) : Append(Firsts(v, i - 1), v[i]) = Firsts(v, i)
<1>1. Len(v) \in Nat
    OBVIOUS
<1>2. Firsts(v, 0) = <<>>
    BY DEF Firsts
<1>3. Firsts(v, Len(v)) = v
    BY SubSeqFull DEF Firsts
<1>4. ASSUME NEW i \in 1..Len(v)
      PROVE  Append(Firsts(v, i - 1), v[i]) = Firsts(v, i)
    <2> DEFINE k == i - 1
               a == SubSeq(v, 1, k)
               c == SubSeq(v, 1, i)
               e == Append(a, v[i])
    <2>1. k \in Nat /\ i \in Nat /\ k <= Len(v) /\ i <= Len(v) /\ i = k + 1 /\ v[i] \in T
        BY <1>1
    <2> HIDE DEF k
    <2>2. a \in Seq(T) /\ Len(a) = k /\ \A j \in 1..k : a[j] = v[j]
        BY <2>1, FrontType
    <2>3. c \in Seq(T) /\ Len(c) = i /\ \A j \in 1..i : c[j] = v[j]
        BY <2>1, FrontType
    <2> HIDE DEF a, c
    <2>4. e \in Seq(T) /\ Len(e) = k + 1 /\ e[k + 1] = v[i] /\ \A j \in 1..k : e[j] = a[j]
        BY <2>1, <2>2, AppendProperties
    <2> HIDE DEF e
    <2>5. \A j \in 1..Len(e) : e[j] = c[j]
        BY <2>1, <2>2, <2>3, <2>4
    <2>6. e = c
        BY <2>1, <2>3, <2>4, <2>5, SeqEqual
    <2> QED
        BY <2>6 DEF e, a, c, k, Firsts
<1> QED
    BY <1>1, <1>2, <1>3, <1>4

\* The tail is what is left behind the first.
LEMMA TailIsFrom ==
    ASSUME NEW T, NEW b \in Seq(T), b # <<>>
    PROVE  Tail(b) = From(b, 1)
<1> DEFINE n == 1
           r == Tail(b)
           e == From(b, n)
<1>1. n \in Nat /\ n = 1 /\ Len(b) \in Nat /\ Len(b) # 0
    OBVIOUS
<1>2. r \in Seq(T) /\ Len(r) = Len(b) - 1 /\ \A i \in 1..Len(r) : r[i] = b[i + 1]
    BY HeadTailProperties
<1> HIDE DEF n, r
<1>3. /\ e \in Seq(T) /\ Len(e) = (IF n <= Len(b) THEN Len(b) - n ELSE 0)
      /\ \A i \in 1..(Len(b) - n) : e[i] = b[n + i]
    BY <1>1, FromType
<1> HIDE DEF e
<1>4. Len(r) = Len(e) /\ \A i \in 1..Len(r) : r[i] = e[i]
    BY <1>1, <1>2, <1>3
<1>5. r = e
    BY <1>2, <1>3, <1>4, SeqEqual
<1> QED
    BY <1>5 DEF r, e, n

\* The data of the set are read as they were written, whatever follows.
Faithful(l, S) ==
    /\ S \subseteq l.data
    /\ \A d \in S, b \in Bytes :
          Starts(b, l.write[d]) => l.read[b] = Taken(d, Len(l.write[d]))

\* The next datum of a list is read as it was written.
LEMMA NextItemRead ==
    ASSUME NEW l, NEW S, Faithful(l, S), NEW b \in Bytes, NEW v \in Seq(S),
           NEW i \in 1..Len(v), NEW k \in Nat, Starts(From(b, k), l.write[v[i]])
    PROVE  NextItem(l, b, Taken(Firsts(v, i - 1), k))
           = Taken(Firsts(v, i), k + Len(l.write[v[i]]))
<1> DEFINE r == Taken(Firsts(v, i - 1), k)
           d == v[i]
           rest == From(b, k)
<1>1. d \in S /\ Len(v) \in Nat
    OBVIOUS
<1>2. rest \in Bytes
    <2>1. From(b, k) \in Seq(Byte)
        BY FromType DEF Bytes
    <2> QED
        BY <2>1 DEF Bytes
<1>3. l.read[rest] = Taken(d, Len(l.write[d]))
    BY <1>1, <1>2 DEF Faithful
<1>4. r.outcome = "taken" /\ r.value = Firsts(v, i - 1) /\ r.length = k
    BY TakenParts
<1>5. Append(Firsts(v, i - 1), d) = Firsts(v, i)
    BY FrontFacts
<1> HIDE DEF r, d, rest
<1> DEFINE m == Len(l.write[d])
           item == l.read[rest]
<1>6. item.outcome = "taken" /\ item.value = d /\ item.length = m
    BY <1>3, TakenParts
<1> HIDE DEF m, item
<1>7. NextItem(l, b, r) = Taken(Append(r.value, item.value), r.length + item.length)
    BY <1>4, <1>6, Zenon DEF NextItem, Joined, item, rest
<1>8. NextItem(l, b, r) = Taken(Firsts(v, i), k + m)
    BY <1>4, <1>5, <1>6, <1>7
<1> QED
    BY <1>8 DEF r, d, m

IsFlat(w, l, v) == w = FlattenSeq(Parts(l, v))

\* A list of data that a level carries is read as it was written.
LEMMA ItemsRead ==
    ASSUME NEW l, IsLevel(l), NEW S, Faithful(l, S), NEW v \in Seq(S),
           NEW h, 2 = Len(h), NEW w, IsFlat(w, l, v),
           NEW c, EndToEnd(c, h, w), NEW b, Starts(b, c)
    PROVE  ReadItems(l, b, Len(v)) = Taken(v, Len(c))
<1> DEFINE n == Len(v)
           p == Parts(l, v)
<1>1. n \in Nat /\ b \in Bytes
    BY DEF Starts
<1>2. v \in Seq(l.data)
    BY SeqMore DEF Faithful
<1>3. p \in Seq(Bytes) /\ Len(p) = n /\ \A i \in 1..n : p[i] = l.write[v[i]]
    BY <1>2, PartsWritten
<1>4. w = FlattenSeq(p)
    BY DEF IsFlat
<1>5. n = Len(v)
    OBVIOUS
<1> HIDE DEF p, n
<1>6. PICK f : Laid(p, f)
    BY <1>3, LaidExists
<1>7. w = f[n] /\ f[0] = <<>>
    <2>1. p \in Seq(Bytes) /\ Laid(p, f)
        BY <1>3, <1>6
    <2>2. FlattenSeq(p) = f[Len(p)]
        BY <2>1, LaidFlat
    <2>3. w = f[n]
        BY <2>2, <1>3, <1>4
    <2>4. f[0] = <<>>
        BY <2>1 DEF Laid
    <2> QED
        BY <2>3, <2>4
<1>8. Len(c) = 2 + Len(w)
    <2>1. Len(c) = Len(h) + Len(w)
        BY EndToEndFacts
    <2> QED
        BY <2>1
<1> DEFINE g == [i \in 0..n |-> Taken(Firsts(v, i), 2 + Len(f[i]))]
<1>9. g[0] = Taken(<<>>, 2)
    <2>1. Firsts(v, 0) = <<>>
        BY FrontFacts
    <2>2. 2 + Len(f[0]) = 2
        BY <1>7
    <2> QED
        BY <2>1, <2>2, <1>1
<1>10. ASSUME NEW i \in 1..n
       PROVE  g[i] = NextItem(l, b, g[i - 1])
    <2> DEFINE k == 2 + Len(f[i - 1])
    <2>1. i \in 1..Len(p) /\ i \in 1..Len(v) /\ i \in 0..n /\ i - 1 \in 0..n
        BY <1>1, <1>3, <1>5
    <2>2. /\ Len(f[i - 1]) \in Nat /\ Len(p[i]) \in Nat
          /\ Len(f[i]) = Len(f[i - 1]) + Len(p[i])
        <3>1. /\ p[i] \in Bytes /\ f[i - 1] \in Bytes
              /\ Len(f[i]) = Len(f[i - 1]) + Len(p[i])
            BY <2>1, <1>3, <1>6, LaidStep
        <3> QED
            BY <3>1, BytesConcat
    <2>3. Starts(From(b, Len(h) + Len(f[i - 1])), p[i])
        <3>1. EndToEnd(c, h, f[Len(p)])
            BY <1>3, <1>7
        <3> QED
            BY <2>1, <3>1, <1>3, <1>6, LaidNext
    <2>4. k \in Nat /\ Starts(From(b, k), l.write[v[i]])
        <3>1. Len(h) + Len(f[i - 1]) = k /\ k \in Nat
            <4> DEFINE x == Len(f[i - 1])
                       y == Len(h)
            <4>1. x \in Nat /\ 2 = y
                BY <2>2
            <4>2. k = 2 + x
                OBVIOUS
            <4> HIDE DEF x, y, k
            <4>3. y + x = k /\ k \in Nat
                BY <4>1, <4>2
            <4> QED
                BY <4>3 DEF x, y
        <3>2. p[i] = l.write[v[i]]
            BY <1>3
        <3> HIDE DEF k
        <3> QED
            BY <2>3, <3>1, <3>2
    <2>5. g[i - 1] = Taken(Firsts(v, i - 1), k)
        BY <2>1
    <2>6. 2 + Len(f[i]) = k + Len(l.write[v[i]])
        <3>1. p[i] = l.write[v[i]]
            BY <1>3
        <3>2. 2 + Len(f[i]) = k + Len(p[i])
            <4> DEFINE x == Len(f[i - 1])
                       y == Len(p[i])
                       z == Len(f[i])
            <4>1. x \in Nat /\ y \in Nat /\ z = x + y
                BY <2>2
            <4> HIDE DEF x, y, z
            <4>2. 2 + z = (2 + x) + y
                BY <4>1
            <4> QED
                BY <4>2 DEF x, y, z
        <3> QED
            BY <3>1, <3>2
    <2>7. g[i] = Taken(Firsts(v, i), k + Len(l.write[v[i]]))
        BY <2>1, <2>6
    <2> HIDE DEF k, g
    <2>8. NextItem(l, b, Taken(Firsts(v, i - 1), k)) = Taken(Firsts(v, i), k + Len(l.write[v[i]]))
        BY <2>1, <2>4, <1>1, NextItemRead
    <2> QED
        BY <2>5, <2>7, <2>8
<1>11. g = [i \in 0..n |-> IF i = 0 THEN Taken(<<>>, 2) ELSE NextItem(l, b, g[i - 1])]
    <2>1. g = [i \in 0..n |-> g[i]]
        OBVIOUS
    <2> HIDE DEF g
    <2>2. \A i \in 0..n : g[i] = IF i = 0 THEN Taken(<<>>, 2) ELSE NextItem(l, b, g[i - 1])
        BY <1>9, <1>10
    <2> QED
        BY <2>1, <2>2
<1>12. g[n] = Taken(v, Len(c))
    <2>1. Firsts(v, n) = v
        BY <1>5, FrontFacts
    <2> QED
        BY <2>1, <1>1, <1>7, <1>8
<1> HIDE DEF g
<1>13. ReadItems(l, b, n) = g[n]
    BY <1>1, <1>11, ItemsAre
<1> QED
    BY <1>5, <1>12, <1>13

\* So is the body of a datum whose data the level below carries.
LEMMA BodyRead ==
    ASSUME NEW l, IsLevel(l), NEW S, Faithful(l, S), NEW d \in PlainAbove(S),
           NEW b, Starts(b, Body(l, d))
    PROVE  (IF d.tag \in Compound THEN ReadCompound(l, d.tag, b) ELSE ReadSimple(d.tag, b))
           = Taken(d, Len(Body(l, d)))
<1> DEFINE t == d.tag
           v == d.value
           c == Body(l, d)
<1>1. b \in Bytes /\ Len(b) \in Nat /\ Len(c) \in Nat /\ Len(c) <= Len(b)
      /\ \A i \in 1..Len(c) : b[i] = c[i]
    BY BytesConcat DEF Starts
<1>2. CASE d \in Simple /\ PlainSimple(d)
    <2>1. t \in SimpleTag /\ v \in Values(t) /\ d = Datum(t, v)
        BY <1>2, SimpleParts
    <2>2. t \notin Compound
        BY <2>1, TagsAreBytes
    <2>3. c = Content(t, v)
        BY <2>2 DEF Body
    <2>4. PlainSimple(Datum(t, v)) /\ Starts(b, Content(t, v))
        BY <1>2, <2>1, <2>3
    <2>5. ReadSimple(t, b) = Taken(Datum(t, v), Len(Content(t, v)))
        <3> HIDE DEF t, v
        <3> QED
            BY <2>1, <2>4, SimpleRead
    <2> QED
        BY <2>1, <2>2, <2>3, <2>5
<1>3. CASE d \in [tag : Compound, value : Seq(S)] /\ Len(v) < 65536
    <2> DEFINE h == LowFirst(Len(v))
               w == FlattenSeq(Parts(l, v))
    <2>1. t \in Compound /\ v \in Seq(S) /\ d = Datum(t, v)
        BY <1>3, CompoundParts
    <2>2. c = h \o w
        BY <2>1 DEF Body
    <2>3. v \in Seq(l.data) /\ Len(v) \in Nat /\ Len(v) \in Word
        <3>1. v \in Seq(l.data) /\ Len(v) \in Nat
            <4> HIDE DEF v
            <4> QED
                BY <2>1, SeqMore, LenProperties DEF Faithful
        <3> DEFINE n == Len(v)
        <3>2. n < 65536
            BY <1>3
        <3>3. n \in Nat
            BY <3>1
        <3> HIDE DEF n
        <3>4. n \in Word
            BY <3>2, <3>3, WordFits
        <3> QED
            BY <3>1, <3>4 DEF n
    <2>4. h \in Bytes /\ Len(h) = 2 /\ h[1] + 256 * h[2] = Len(v)
        BY <2>3, LowFirstType
    <2>5. w \in Bytes
        <3> HIDE DEF v
        <3>1. Parts(l, v) \in Seq(Bytes)
            BY <2>3, PartsWritten
        <3> DEFINE p == Parts(l, v)
        <3> HIDE DEF p
        <3>2. p \in Seq(Bytes)
            BY <3>1 DEF p
        <3>3. FlattenSeq(p) \in Bytes
            BY <3>2, FlattenType
        <3> QED
            BY <3>3 DEF p
    <2>6. IsFlat(w, l, v)
        BY DEF IsFlat
    <2>t. 2 = Len(h)
        BY <2>4
    <2>c. Starts(b, c)
        OBVIOUS
    <2> HIDE DEF h, w, v, c
    <2>7. EndToEnd(c, h, w)
        BY <2>2, <2>4, <2>5 DEF EndToEnd
    <2>8. ReadItems(l, b, Len(v)) = Taken(v, Len(c))
        BY <2>1, <2>6, <2>7, <2>t, <2>c, ItemsRead
    <2>9. Number(b) = Len(v) /\ ~(Len(b) < 2)
        <3>1. /\ Len(c) = Len(h) + Len(w) /\ Len(w) \in Nat
              /\ \A i \in 1..Len(h) : c[i] = h[i]
            BY <2>7, EndToEndFacts
        <3>2. 1 \in 1..Len(h) /\ 2 \in 1..Len(h) /\ 1 \in 1..Len(c) /\ 2 \in 1..Len(c)
              /\ ~(Len(b) < 2)
            BY <1>1, <2>t, <3>1, SMTT(30)
        <3>3. b[1] = h[1] /\ b[2] = h[2]
            BY <1>1, <3>1, <3>2
        <3>4. h[1] + 256 * h[2] = Len(v)
            BY <2>4
        <3> QED
            BY <3>2, <3>3, <3>4 DEF Number
    <2> DEFINE items == ReadItems(l, b, Number(b))
    <2>10. items = Taken(v, Len(c))
        BY <2>8, <2>9
    <2> HIDE DEF items
    <2>11. items.outcome = "taken" /\ items.value = v /\ items.length = Len(c)
        BY <2>10, TakenParts
    <2>12. ReadCompound(l, t, b) = Taken(Datum(t, v), Len(c))
        BY <2>9, <2>11, Zenon DEF ReadCompound, items
    <2> QED
        BY <2>1, <2>12 DEF c
<1> QED
    BY <1>2, <1>3 DEF PlainAbove

\* And so is the datum.
LEMMA AboveRead ==
    ASSUME NEW l, IsLevel(l), NEW S, Faithful(l, S), NEW d \in PlainAbove(S),
           d \in DataAbove(l), NEW b, Starts(b, WriteAbove(l, d))
    PROVE  ReadAbove(l, b) = Taken(d, Len(WriteAbove(l, d)))
<1> DEFINE t == d.tag
           p == <<t>>
           w == Body(l, d)
           c == WriteAbove(l, d)
           rest == From(b, 1)
<1>1. c = p \o w /\ p \in Bytes /\ w \in Bytes
    BY BodyWritten
<1>2. p[1] = t /\ 1 = Len(p)
    OBVIOUS
<1>c. Starts(b, c)
    OBVIOUS
<1>w. w = Body(l, d)
    OBVIOUS
<1> HIDE DEF p, w, c
<1>3. EndToEnd(c, p, w)
    BY <1>1 DEF EndToEnd
<1>4. Len(c) = Len(p) + Len(w) /\ Len(w) \in Nat /\ Len(p) \in Nat /\ \A i \in 1..Len(p) : c[i] = p[i]
    BY <1>3, EndToEndFacts
<1>5. Starts(From(b, Len(p)), w)
    BY <1>3, <1>c, StartsConcat
<1>6. Starts(rest, w)
    <2>1. From(b, Len(p)) = rest
        BY <1>2
    <2> HIDE DEF rest
    <2> QED
        BY <1>5, <2>1
<1>7. b \in Seq(Byte) /\ Len(c) <= Len(b) /\ \A i \in 1..Len(c) : b[i] = c[i]
    BY <1>c DEF Starts, Bytes
<1>8. b # <<>> /\ b[1] = t
    <2> DEFINE x == Len(w)
               y == Len(p)
               z == Len(c)
               n == Len(b)
    <2>1. x \in Nat /\ 1 = y /\ z = y + x /\ z <= n /\ n \in Int
        BY <1>2, <1>4, <1>7
    <2> HIDE DEF x, y, z, n
    <2>2. 1 \in 1..y /\ 1 \in 1..z /\ n # 0
        BY <2>1
    <2>3. b # <<>>
        <3>1. Len(b) # 0
            BY <2>2 DEF n
        <3> QED
            BY <3>1
    <2>4. b[1] = c[1] /\ c[1] = p[1]
        BY <2>2, <1>4, <1>7 DEF y, z
    <2> QED
        BY <2>3, <2>4, <1>2
<1>9. Tail(b) = rest
    BY <1>7, <1>8, TailIsFrom
<1> HIDE DEF rest
<1> DEFINE r == IF t \in Compound THEN ReadCompound(l, t, rest) ELSE ReadSimple(t, rest)
<1>10. r = Taken(d, Len(w))
    BY <1>6, <1>w, BodyRead
<1> HIDE DEF r
<1>11. r.outcome = "taken" /\ r.value = d /\ r.length = Len(w)
    BY <1>10, TakenParts
<1>12. ReadAbove(l, b) = IF r.outcome # "taken" THEN r ELSE Taken(r.value, r.length + 1)
    BY <1>8, <1>9, Zenon DEF ReadAbove, Behind, r
<1>13. Len(w) + 1 = Len(c)
    <2> DEFINE x == Len(w)
               y == Len(p)
               z == Len(c)
    <2>1. x \in Nat /\ 1 = y /\ z = y + x
        BY <1>2, <1>4
    <2> HIDE DEF x, y, z
    <2>2. x + 1 = z
        BY <2>1
    <2> QED
        BY <2>2 DEF x, z
<1>14. ReadAbove(l, b) = Taken(d, Len(c))
    BY <1>11, <1>12, <1>13
<1> QED
    BY <1>14 DEF c

\* A level above one that reads what it writes reads what it writes.
LEMMA FaithfulAbove ==
    ASSUME NEW l, IsLevel(l), NEW S, Faithful(l, S)
    PROVE  Faithful(Above(l), PlainAbove(S))
<1>1. PlainAbove(S) \subseteq DataAbove(l)
    <2>1. S \subseteq l.data
        BY DEF Faithful
    <2> DEFINE D == l.data
    <2>2. Seq(S) \subseteq Seq(D)
        <3> HIDE DEF D
        <3>1. S \subseteq D
            BY <2>1 DEF D
        <3>2. \A v \in Seq(S) : v \in Seq(D)
            BY <3>1, SeqMore
        <3> QED
            BY <3>2
    <2> QED
        BY <2>2 DEF PlainAbove, DataAbove
<1>2. \A b \in Bytes : Above(l).read[b] = ReadAbove(l, b)
    BY DEF Above, Bytes
<1>3. Above(l).data = DataAbove(l)
    BY DEF Above
<1>4. \A d \in DataAbove(l) : Above(l).write[d] = WriteAbove(l, d)
    BY DEF Above
<1>5. ASSUME NEW d \in PlainAbove(S), NEW b \in Bytes, Starts(b, WriteAbove(l, d))
      PROVE  ReadAbove(l, b) = Taken(d, Len(WriteAbove(l, d)))
    <2>1. d \in DataAbove(l)
        BY <1>1
    <2> QED
        BY <1>5, <2>1, AboveRead
<1> HIDE DEF Above
<1>6. ASSUME NEW d \in PlainAbove(S), NEW b \in Bytes, Starts(b, Above(l).write[d])
      PROVE  Above(l).read[b] = Taken(d, Len(Above(l).write[d]))
    <2>1. Above(l).write[d] = WriteAbove(l, d)
        BY <1>1, <1>4
    <2> QED
        BY <1>2, <1>5, <1>6, <2>1
<1> QED
    BY <1>1, <1>3, <1>6 DEF Faithful

Bottom == {}

PlainTo(m, f) == f = [i \in 0..m |-> IF i = 0 THEN Bottom ELSE PlainAbove(f[i - 1])]

\* The sets of data that the format carries exist up to any depth.
LEMMA PlainExist ==
    ASSUME NEW m \in Nat
    PROVE  \E f : PlainTo(m, f)
<1> DEFINE T == {k \in Nat : \E f : PlainTo(k, f)}
<1>1. 0 \in T
    <2>1. PlainTo(0, [i \in 0..0 |-> Bottom])
        BY DEF PlainTo
    <2> QED
        BY <2>1
<1>2. ASSUME NEW k \in Nat, k \in T
      PROVE  k + 1 \in T
    <2>1. PICK f : PlainTo(k, f)
        BY <1>2
    <2> DEFINE g == [i \in 0..(k + 1) |-> IF i = k + 1 THEN PlainAbove(f[k]) ELSE f[i]]
    <2>2. g[0] = Bottom
        BY <2>1 DEF PlainTo
    <2>3. \A i \in 1..(k + 1) : g[i] = PlainAbove(g[i - 1])
        BY <2>1 DEF PlainTo
    <2>4. g = [i \in 0..(k + 1) |-> g[i]]
        OBVIOUS
    <2>5. PlainTo(k + 1, g)
        <3> HIDE DEF g
        <3> QED
            <4>1. \A i \in 0..(k + 1) : g[i] = IF i = 0 THEN Bottom ELSE PlainAbove(g[i - 1])
                BY <2>2, <2>3
            <4> QED
                BY <2>4, <4>1 DEF PlainTo
    <2> QED
        BY <2>5
<1>3. Nat \subseteq T
    <2> HIDE DEF T
    <2> QED
        BY <1>1, <1>2, InductionSet
<1> QED
    BY <1>3

\* A deeper sequence of them starts as a shallower one.
LEMMA PlainAgree ==
    ASSUME NEW m \in Nat, NEW f, NEW g, PlainTo(m, f), PlainTo(m + 1, g)
    PROVE  \A i \in 0..m : f[i] = g[i]
<1> DEFINE T == {i \in 0..m : f[i] = g[i]}
<1>1. 0 \in T
    BY DEF PlainTo
<1>2. ASSUME NEW i \in 1..m, i - 1 \in T
      PROVE  i \in T
    <2>1. f[i] = PlainAbove(f[i - 1]) /\ g[i] = PlainAbove(g[i - 1])
        BY DEF PlainTo
    <2> QED
        BY <1>2, <2>1
<1>3. 0..m \subseteq T
    <2> HIDE DEF T
    <2> QED
        BY <1>1, <1>2, InductionUpTo
<1> QED
    BY <1>3

\* Their recursive definition holds at every depth.
LEMMA PlainLevels ==
    /\ PlainLevel[0] = Bottom
    /\ \A n \in Nat : PlainLevel[n + 1] = PlainAbove(PlainLevel[n])
<1> DEFINE to == [m \in Nat |-> CHOOSE f : PlainTo(m, f)]
           F == [n \in Nat |-> to[n][n]]
           Is(f) == f = [n \in Nat |-> IF n = 0 THEN Bottom ELSE PlainAbove(f[n - 1])]
<1>1. \A m \in Nat : PlainTo(m, to[m])
    BY PlainExist
<1> HIDE DEF to
<1>2. F[0] = Bottom
    <2>1. PlainTo(0, to[0])
        BY <1>1
    <2>2. to[0][0] = Bottom
        BY <2>1 DEF PlainTo
    <2> QED
        BY <2>2
<1>3. ASSUME NEW n \in Nat
      PROVE  F[n + 1] = PlainAbove(F[n])
    <2>1. to[n + 1][n + 1] = PlainAbove(to[n + 1][n])
        <3>1. PlainTo(n + 1, to[n + 1])
            BY <1>1
        <3> QED
            BY <3>1 DEF PlainTo
    <2>2. to[n + 1][n] = to[n][n]
        BY <1>1, PlainAgree
    <2> QED
        BY <2>1, <2>2
<1>4. Is(F)
    <2>1. \A n \in Nat : n # 0 => F[n] = PlainAbove(F[n - 1])
        <3> TAKE n \in Nat
        <3> HAVE n # 0
        <3>1. n - 1 \in Nat /\ (n - 1) + 1 = n
            OBVIOUS
        <3> HIDE DEF F
        <3> QED
            BY <3>1, <1>3
    <2>2. F = [n \in Nat |-> F[n]]
        OBVIOUS
    <2> HIDE DEF F
    <2> QED
        BY <1>2, <2>1, <2>2
<1>5. PlainLevel = CHOOSE f : Is(f)
    BY DEF PlainLevel, Bottom
<1> HIDE DEF F
<1>6. Is(PlainLevel)
    <2> HIDE DEF Is
    <2> QED
        BY <1>4, <1>5
<1> QED
    BY <1>6


\* What the format carries is read back at every level.
LEMMA LevelsFaithful ==
    \A n \in Nat : Faithful(Level[n], PlainLevel[n])
<1> DEFINE T == {n \in Nat : Faithful(Level[n], PlainLevel[n])}
<1>1. 0 \in T
    BY PlainLevels DEF Faithful, Bottom
<1>2. \A n \in Nat : n \in T => n + 1 \in T
    BY Levels, PlainLevels, LevelsAreLevels, FaithfulAbove
<1>3. Nat \subseteq T
    <2> HIDE DEF T
    <2> QED
        BY <1>1, <1>2, InductionSet
<1> QED
    BY <1>3

\* A datum is written as one byte or more.
LEMMA DataWritten ==
    ASSUME NEW d \in Data
    PROVE  WriteData(d) \in Bytes /\ Len(WriteData(d)) \in Nat \ {0}
<1>1. MaxDepth + 1 \in Nat
    BY DepthAssumption
<1>2. IsLevel(Whole)
    BY <1>1, LevelsAreLevels DEF Whole
<1> QED
    BY <1>2 DEF IsLevel, WriteData, Data

\* Whatever the bytes, reading a datum takes one within them, refuses or halts.
LEMMA DataMade ==
    ASSUME NEW b \in Bytes
    PROVE  ReadData(b) \in Made(Data, Len(b))
<1>1. MaxDepth + 1 \in Nat
    BY DepthAssumption
<1>2. IsLevel(Whole)
    BY <1>1, LevelsAreLevels DEF Whole
<1> QED
    BY <1>2 DEF IsLevel, ReadData, Data

\* A datum that its format carries is read as it was written, whatever follows it
\* and however deep it nests (zcl/types.rs, try_read and try_write of ZclData).
THEOREM DataRead ==
    ASSUME NEW d, ~AwkwardData(d), NEW b \in Bytes, Starts(b, WriteData(d))
    PROVE  d \in Data /\ ReadData(b) = Taken(d, Len(WriteData(d)))
<1>1. MaxDepth + 1 \in Nat
    BY DepthAssumption
<1>2. Faithful(Whole, PlainLevel[MaxDepth + 1])
    BY <1>1, LevelsFaithful DEF Whole
<1>3. d \in PlainLevel[MaxDepth + 1]
    BY DEF AwkwardData
<1> QED
    BY <1>2, <1>3 DEF Faithful, WriteData, ReadData, Data

-----------------------------------------------------------------------------
(* Fields. *)

FieldType == {"u8", "u16", "bool", "status", "direction", "selector", "data"}

\* The values of each type of field.
LEMMA FieldValuesAre ==
    /\ FieldValues("u8") = Byte /\ FieldValues("u16") = Word
    /\ FieldValues("bool") = BOOLEAN /\ FieldValues("status") = Status
    /\ FieldValues("direction") = {Report, Receive}
    /\ FieldValues("selector") = [identifier : Word, indices : Seq(Word)]
    /\ FieldValues("data") = Data
    BY DEF FieldValues

\* The fields that are written as they are.
ByteType == {"u8", "status", "direction"}

\* The fields of one byte.
LEMMA ByteTypes ==
    /\ Status \subseteq Byte /\ {Report, Receive} \subseteq Byte
    /\ \A t \in ByteType : FieldValues(t) \subseteq Byte
<1>1. Status \subseteq Byte /\ {Report, Receive} \subseteq Byte
    BY DEF Byte, Status, Report, Receive
<1> QED
    BY <1>1, FieldValuesAre, Zenon DEF ByteType

\* The absent value is none of a field that is there.
LEMMA NotNone ==
    \A t \in FieldType : None \notin FieldValues(t)
<1>1. None \notin Byte
    BY NoneIsNoByte
<1>2. None \notin Word
    BY NoneAssumption, WordFits
<1>3. None \notin Status /\ None \notin {Report, Receive}
    BY <1>1, ByteTypes
<1>4. None \notin BOOLEAN /\ None \notin Data /\ None \notin [identifier : Word, indices : Seq(Word)]
    BY NoneAssumption
<1> QED
    BY <1>1, <1>2, <1>3, <1>4, FieldValuesAre, Zenon DEF FieldType

\* Two bytes for each number of a list.
LEMMA PairsWritten ==
    ASSUME NEW s \in Seq(Word), NEW p, p = [i \in DOMAIN s |-> LowFirst(s[i])]
    PROVE  FlattenSeq(p) \in Bytes /\ Len(FlattenSeq(p)) = 2 * Len(s)
<1> DEFINE n == Len(s)
<1>1. n \in Nat /\ DOMAIN s = 1..n /\ \A i \in 1..n : s[i] \in Word
    BY LenProperties, ElementOfSeq
<1> HIDE DEF n
<1>2. \A i \in 1..n : LowFirst(s[i]) \in Bytes /\ Len(LowFirst(s[i])) = 2
    BY <1>1, WordFits, LowFirstType
<1>3. p \in [1..n -> Bytes] /\ \A i \in 1..n : p[i] = LowFirst(s[i])
    BY <1>1, <1>2
<1>4. p \in Seq(Bytes) /\ Len(p) = n
    BY <1>1, <1>3, FunctionIsSeq
<1>5. PICK f : Laid(p, f)
    BY <1>4, LaidExists
<1> DEFINE T == {i \in 0..n : Len(f[i]) = 2 * i}
<1>6. 0 \in T
    <2>1. f[0] = <<>>
        BY <1>5 DEF Laid
    <2>2. Len(f[0]) = 0
        BY <2>1
    <2> QED
        BY <2>2, <1>1
<1>7. ASSUME NEW i \in 1..n, i - 1 \in T
      PROVE  i \in T
    <2> DEFINE x == Len(f[i - 1])
               y == Len(p[i])
               z == Len(f[i])
    <2>1. z = x + y
        <3>1. i \in 1..Len(p)
            BY <1>4
        <3> QED
            BY <3>1, <1>4, <1>5, LaidStep
    <2>2. 2 = y
        <3>1. p[i] = LowFirst(s[i]) /\ Len(LowFirst(s[i])) = 2
            BY <1>2, <1>3
        <3> QED
            BY <3>1
    <2>3. x = 2 * (i - 1)
        BY <1>7
    <2> HIDE DEF x, y, z
    <2>4. z = 2 * i
        BY <2>1, <2>2, <2>3, <1>1
    <2> QED
        BY <2>4, <1>1 DEF z
<1>8. 0..n \subseteq T
    <2> HIDE DEF T
    <2> QED
        BY <1>1, <1>6, <1>7, InductionUpTo
<1>9. FlattenSeq(p) = f[n] /\ Len(f[n]) = 2 * n
    <2>1. FlattenSeq(p) = f[Len(p)]
        BY <1>4, <1>5, LaidFlat
    <2>2. f[Len(p)] = f[n]
        BY <1>4
    <2>3. n \in T
        BY <1>1, <1>8
    <2> QED
        BY <2>1, <2>2, <2>3
<1>10. FlattenSeq(p) \in Bytes
    BY <1>4, FlattenType
<1>11. Len(FlattenSeq(p)) = 2 * n
    BY <1>9
<1> QED
    BY <1>10, <1>11 DEF n

\* A selector is written as bytes.
LEMMA SelectorWritten ==
    ASSUME NEW s \in [identifier : Word, indices : Seq(Word)]
    PROVE  WriteSelector(s) \in Bytes
<1> DEFINE x == s.indices
           n == Len(x)
           a == LowFirst(s.identifier)
           b == <<n % 256>>
           w == FlattenSeq([i \in DOMAIN x |-> LowFirst(x[i])])
           ab == a \o b
           c == ab \o w
           m == 2 * n + 1
<1>1. x \in Seq(Word) /\ n \in Nat /\ s.identifier \in Nat
    BY WordFits
<1>2. a \in Bytes /\ 2 = Len(a)
    BY <1>1, LowFirstType
<1>3. b \in Bytes /\ 1 = Len(b)
    <2>1. n % 256 \in Byte
        BY <1>1, LowByte
    <2> DEFINE y == n % 256
    <2> HIDE DEF y
    <2>2. <<y>> \in Bytes /\ Len(<<y>>) = 1
        BY <2>1, ByteSeq DEF y
    <2> QED
        BY <2>2 DEF y
<1>4. w \in Bytes /\ Len(w) = 2 * n
    BY <1>1, PairsWritten
<1>5. WriteSelector(s) = SubSeq(c, 1, m)
    BY DEF WriteSelector
<1>n. m = 2 * n + 1
    OBVIOUS
<1> HIDE DEF x, n, a, b, w, m
<1>6. ab \in Bytes /\ Len(ab) = Len(a) + Len(b)
    BY <1>2, <1>3, BytesConcat
<1> HIDE DEF ab
<1>7. c \in Bytes /\ Len(c) = Len(ab) + Len(w)
    BY <1>4, <1>6, BytesConcat
<1> HIDE DEF c
<1>8. m \in Nat /\ m <= Len(c) /\ c \in Seq(Byte)
    <2> DEFINE la == Len(a)
               lb == Len(b)
               lab == Len(ab)
               lw == Len(w)
               lc == Len(c)
    <2>1. 2 = la /\ 1 = lb /\ lab = la + lb /\ lw = 2 * n /\ lc = lab + lw
        BY <1>2, <1>3, <1>4, <1>6, <1>7
    <2> HIDE DEF la, lb, lab, lw, lc
    <2>2. m \in Nat /\ m <= lc
        BY <2>1, <1>1, <1>n
    <2> QED
        BY <2>2, <1>7 DEF lc, Bytes
<1>9. SubSeq(c, 1, m) \in Seq(Byte)
    BY <1>8, FrontType
<1> QED
    BY <1>5, <1>9 DEF Bytes

\* What is written of each type of field.
LEMMA FieldWritings ==
    ASSUME NEW f, NEW v
    PROVE  /\ v = None => WriteField(f, v) = <<>>
           /\ v # None /\ f.type = "u16" => WriteField(f, v) = LowFirst(v)
           /\ v # None /\ f.type = "bool" => WriteField(f, v) = <<IF v THEN 1 ELSE 0>>
           /\ v # None /\ f.type = "data" => WriteField(f, v) = WriteData(v)
           /\ v # None /\ f.type = "selector" => WriteField(f, v) = WriteSelector(v)
           /\ v # None /\ f.type \in ByteType => WriteField(f, v) = <<v>>
<1>1. v = None => WriteField(f, v) = <<>>
    BY DEF WriteField
<1>2. v # None /\ f.type = "u16" => WriteField(f, v) = LowFirst(v)
    BY DEF WriteField
<1>3. v # None /\ f.type = "bool" => WriteField(f, v) = <<IF v THEN 1 ELSE 0>>
    BY DEF WriteField
<1>4. v # None /\ f.type = "data" => WriteField(f, v) = WriteData(v)
    BY DEF WriteField
<1>5. v # None /\ f.type = "selector" => WriteField(f, v) = WriteSelector(v)
    BY DEF WriteField
<1>6. v # None /\ f.type \in ByteType => WriteField(f, v) = <<v>>
    BY DEF WriteField, ByteType
<1> QED
    BY <1>1, <1>2, <1>3, <1>4, <1>5, <1>6

\* Two bytes are a word.
LEMMA NumberIsWord ==
    ASSUME NEW b \in Bytes, 2 <= Len(b)
    PROVE  Number(b) \in Word
<1>1. b[1] \in Byte /\ b[2] \in Byte
    BY DEF Bytes
<1>2. \A x, y \in Byte : x + 256 * y \in Nat /\ x + 256 * y < 65536
    BY DEF Byte
<1>3. \A x, y \in Byte : x + 256 * y \in Word
    BY <1>2, WordFits
<1> QED
    BY <1>1, <1>3, Zenon DEF Number

\* A selector is read within its bytes, or is refused or halts its reader.
LEMMA SelectorMade ==
    ASSUME NEW b \in Bytes
    PROVE  ReadSelector(b) \in Made(FieldValues("selector"), Len(b))
<1> DEFINE S == [identifier : Word, indices : Seq(Word)]
           n == b[4]
           x == [i \in 1..n |-> Number(SubSeq(b, 2 * i + 3, 2 * i + 4))]
           v == [identifier |-> Number(b), indices |-> x]
           k == 2 * n + 1
<1>1. Len(b) \in Nat /\ b \in Seq(Byte)
    BY BytesConcat DEF Bytes
<1>2. FieldValues("selector") = S
    BY FieldValuesAre
<1>3. Refused \in Made(S, Len(b)) /\ Halted \in Made(S, Len(b))
    <2> HIDE DEF S
    <2> QED
        BY <1>1, MadeOf
<1>4. ReadSelector(b) = IF Len(b) < 4 THEN Halted
                        ELSE IF Len(b) - 4 < 2 * n THEN Refused
                        ELSE Taken(v, k)
    BY DEF ReadSelector
<1>5. ASSUME ~(Len(b) < 4), ~(Len(b) - 4 < 2 * n)
      PROVE  Taken(v, k) \in Made(S, Len(b))
    <2>1. 4 <= Len(b) /\ 2 <= Len(b)
        BY <1>1, <1>5
    <2>2. n \in Byte
        BY <1>1, <2>1
    <2>3. n \in Nat
        BY <2>2 DEF Byte
    <2>4. k \in 0..Len(b)
        <3> DEFINE m == Len(b)
        <3>1. m \in Nat /\ ~(m - 4 < 2 * n)
            BY <1>1, <1>5
        <3> HIDE DEF m, n
        <3>2. k \in 0..m
            BY <3>1, <2>3
        <3> QED
            BY <3>2 DEF m
    <2>5. ASSUME NEW i \in 1..n
          PROVE  Number(SubSeq(b, 2 * i + 3, 2 * i + 4)) \in Word
        <3> DEFINE w == 2 * i + 2
                   two == 2
                   s == Slice(b, w, two)
                   m == Len(b)
        <3>1. w \in Nat /\ two \in Nat
            BY <2>3
        <3>2. w + two <= m
            <4>1. m \in Nat /\ ~(m - 4 < 2 * n)
                BY <1>1, <1>5
            <4> HIDE DEF m, n
            <4> QED
                BY <4>1, <2>3
        <3>3. w + 1 = 2 * i + 3 /\ w + 2 = 2 * i + 4
            BY <2>3
        <3>t. two = 2
            OBVIOUS
        <3> HIDE DEF w, two
        <3>4. s \in Seq(Byte) /\ Len(s) = two
            <4>1. w + two <= Len(b)
                BY <3>2
            <4> HIDE DEF s, m
            <4>2. Slice(b, w, two) \in Seq(Byte) /\ Len(Slice(b, w, two)) = two
                BY <1>1, <3>1, <4>1, SliceType
            <4> QED
                BY <4>2 DEF s
        <3> HIDE DEF s
        <3>5. s \in Bytes /\ 2 <= Len(s)
            <4>1. 2 <= Len(s)
                BY <3>4, <3>t
            <4> QED
                BY <3>4, <4>1 DEF Bytes
        <3>6. Number(s) \in Word
            BY <3>5, NumberIsWord
        <3>7. s = SubSeq(b, 2 * i + 3, 2 * i + 4)
            BY <3>3, <3>t DEF s, Slice
        <3> QED
            BY <3>6, <3>7
    <2>6. Number(b) \in Word
        BY <2>1, NumberIsWord
    <2> HIDE DEF n
    <2>7. x \in [1..n -> Word]
        BY <2>5
    <2> HIDE DEF x
    <2>8. x \in Seq(Word)
        BY <2>3, <2>7, FunctionIsSeq
    <2>9. v \in S
        BY <2>6, <2>8
    <2> HIDE DEF v, S, k
    <2> QED
        BY <1>1, <2>4, <2>9, MadeOf
<1> QED
    BY <1>2, <1>3, <1>4, <1>5

\* What is read for each type of field.
LEMMA FieldReadings ==
    ASSUME NEW f, NEW b
    PROVE  /\ f.type = "data" => ReadField(f, b) = ReadData(b)
           /\ f.type = "selector" => ReadField(f, b) = ReadSelector(b)
           /\ f.type = "u16" =>
                 ReadField(f, b) = IF Len(b) < 2 THEN Refused ELSE Taken(Number(b), 2)
           /\ f.type \in ByteType \cup {"bool"} /\ b = <<>> => ReadField(f, b) = Refused
           /\ f.type = "bool" /\ b # <<>> => ReadField(f, b) = Taken(b[1] # 0, 1)
           /\ f.type \in ByteType /\ b # <<>> =>
                 \/ b[1] \in FieldValues(f.type) /\ ReadField(f, b) = Taken(b[1], 1)
                 \/ b[1] \notin FieldValues(f.type) /\ ReadField(f, b) = Refused
                 \/ f.type = "u8" /\ ReadField(f, b) = Taken(b[1], 1)
<1>1. f.type = "data" => ReadField(f, b) = ReadData(b)
    BY DEF ReadField
<1>2. f.type = "selector" => ReadField(f, b) = ReadSelector(b)
    BY DEF ReadField
<1>3. f.type = "u16" =>
          ReadField(f, b) = IF Len(b) < 2 THEN Refused ELSE Taken(Number(b), 2)
    BY DEF ReadField
<1>4. f.type \in ByteType \cup {"bool"} /\ b = <<>> => ReadField(f, b) = Refused
    BY DEF ReadField, ByteType
<1>5. f.type = "bool" /\ b # <<>> => ReadField(f, b) = Taken(b[1] # 0, 1)
    BY DEF ReadField
<1>6. f.type = "u8" /\ b # <<>> => ReadField(f, b) = Taken(b[1], 1)
    BY DEF ReadField
<1>7. ASSUME f.type = "status", b # <<>>
      PROVE  \/ b[1] \in Status /\ ReadField(f, b) = Taken(b[1], 1)
             \/ b[1] \notin Status /\ ReadField(f, b) = Refused
    BY <1>7 DEF ReadField
<1>8. ASSUME f.type = "direction", b # <<>>
      PROVE  \/ b[1] \in {Report, Receive} /\ ReadField(f, b) = Taken(b[1], 1)
             \/ b[1] \notin {Report, Receive} /\ ReadField(f, b) = Refused
    BY <1>8 DEF ReadField
<1>9. ASSUME f.type \in ByteType, b # <<>>
      PROVE  \/ b[1] \in FieldValues(f.type) /\ ReadField(f, b) = Taken(b[1], 1)
             \/ b[1] \notin FieldValues(f.type) /\ ReadField(f, b) = Refused
             \/ f.type = "u8" /\ ReadField(f, b) = Taken(b[1], 1)
    BY <1>6, <1>7, <1>8, <1>9, FieldValuesAre, Zenon DEF ByteType
<1> QED
    BY <1>1, <1>2, <1>3, <1>4, <1>5, <1>9

\* A field is read from bytes that are there, as what Rust holds in it.
LEMMA FieldMade ==
    ASSUME NEW f, f.type \in FieldType, NEW b \in Bytes
    PROVE  ReadField(f, b) \in Made(FieldValues(f.type), Len(b))
<1> DEFINE S == FieldValues(f.type)
<1>1. Len(b) \in Nat /\ b \in Seq(Byte)
    BY BytesConcat DEF Bytes
<1>2. CASE f.type = "data"
    BY <1>2, FieldReadings, FieldValuesAre, DataMade
<1>3. CASE f.type = "selector"
    BY <1>3, FieldReadings, SelectorMade
<1>4. CASE f.type = "u16"
    <2> DEFINE v == Number(b)
               k == 2
    <2>1. ReadField(f, b) = IF Len(b) < 2 THEN Refused ELSE Taken(v, k)
        BY <1>4, FieldReadings
    <2>2. ASSUME ~(Len(b) < 2)
          PROVE  v \in S /\ k \in 0..Len(b)
        <3>1. 2 <= Len(b)
            BY <1>1, <2>2
        <3> QED
            BY <1>1, <1>4, <3>1, NumberIsWord, FieldValuesAre
    <2> HIDE DEF v, k, S
    <2>3. Refused \in Made(S, Len(b))
        BY <1>1, MadeOf
    <2>4. ~(Len(b) < 2) => Taken(v, k) \in Made(S, Len(b))
        BY <1>1, <2>2, MadeOf
    <2>5. ReadField(f, b) \in Made(S, Len(b))
        BY <2>1, <2>3, <2>4
    <2> QED
        BY <2>5 DEF S
<1>5. CASE f.type \in ByteType \cup {"bool"} /\ b = <<>>
    <2>1. ReadField(f, b) = Refused
        BY <1>5, FieldReadings
    <2> HIDE DEF S
    <2>2. Refused \in Made(S, Len(b))
        BY <1>1, MadeOf
    <2> QED
        BY <2>1, <2>2 DEF S
<1>6. ASSUME b # <<>>, NEW v \in S
      PROVE  Taken(v, 1) \in Made(S, Len(b))
    <2> DEFINE k == 1
    <2>1. k \in 0..Len(b)
        BY <1>1, <1>6
    <2> HIDE DEF k, S
    <2>2. Taken(v, k) \in Made(S, Len(b))
        BY <1>1, <1>6, <2>1, MadeOf
    <2> QED
        BY <2>2 DEF k, S
<1>7. CASE f.type = "bool" /\ b # <<>>
    <2>1. ReadField(f, b) = Taken(b[1] # 0, 1)
        BY <1>7, FieldReadings
    <2>2. (b[1] # 0) \in S
        BY <1>7, FieldValuesAre
    <2> HIDE DEF S
    <2> DEFINE v == b[1] # 0
    <2> HIDE DEF v
    <2>3. v \in S
        BY <2>2 DEF v
    <2>4. Taken(v, 1) \in Made(S, Len(b))
        BY <1>6, <1>7, <2>3
    <2> QED
        BY <2>1, <2>4, Zenon DEF v, S
<1>8. CASE f.type \in ByteType /\ b # <<>>
    <2>1. b[1] \in Byte
        BY <1>1, <1>8, ElementOfSeq, EmptySeq
    <2>2. f.type = "u8" => b[1] \in S
        BY <2>1, FieldValuesAre
    <2>3. Refused \in Made(S, Len(b))
        <3> HIDE DEF S
        <3> QED
            BY <1>1, MadeOf
    <2>4. b[1] \in S => Taken(b[1], 1) \in Made(S, Len(b))
        BY <1>6, <1>8
    <2> QED
        BY <1>8, <2>2, <2>3, <2>4, FieldReadings, Zenon
<1> QED
    BY <1>2, <1>3, <1>4, <1>5, <1>7, <1>8 DEF FieldType, ByteType

\* A field is written as bytes, and all but a selector as one or more.
LEMMA FieldWritten ==
    ASSUME NEW f, f.type \in FieldType, NEW v \in FieldValues(f.type)
    PROVE  /\ WriteField(f, v) \in Bytes
           /\ f.type # "selector" => Len(WriteField(f, v)) \in Nat \ {0}
<1> DEFINE t == f.type
           w == WriteField(f, v)
<1>1. v # None
    BY NotNone
<1>2. CASE t = "data"
    <2>1. w = WriteData(v) /\ v \in Data
        BY <1>1, <1>2, FieldWritings, FieldValuesAre
    <2> HIDE DEF w
    <2>2. w \in Bytes /\ Len(w) \in Nat \ {0}
        BY <2>1, DataWritten
    <2> QED
        BY <2>2 DEF w
<1>3. CASE t = "selector"
    BY <1>1, <1>3, FieldWritings, FieldValuesAre, SelectorWritten, ZenonT(60)
<1>4. CASE t = "u16"
    <2>1. w = LowFirst(v) /\ v \in Nat
        BY <1>1, <1>4, FieldWritings, FieldValuesAre, WordFits
    <2> HIDE DEF w
    <2>2. w \in Bytes /\ 2 = Len(w)
        BY <2>1, LowFirstType
    <2>3. Len(w) \in Nat \ {0}
        <3> DEFINE y == Len(w)
        <3>1. 2 = y
            BY <2>2
        <3> HIDE DEF y
        <3>2. y \in Nat \ {0}
            BY <3>1
        <3> QED
            BY <3>2 DEF y
    <2> QED
        BY <2>2, <2>3 DEF w
<1>5. CASE t = "bool"
    <2> DEFINE x == IF v THEN 1 ELSE 0
    <2>1. x \in Byte
        BY DEF Byte
    <2>2. w = <<x>>
        BY <1>1, <1>5, FieldWritings
    <2> HIDE DEF w, x
    <2>3. w \in Bytes /\ 1 = Len(w)
        BY <2>1, <2>2, ByteSeq
    <2>4. Len(w) \in Nat \ {0}
        <3> DEFINE y == Len(w)
        <3>1. 1 = y
            BY <2>3
        <3> HIDE DEF y
        <3>2. y \in Nat \ {0}
            BY <3>1
        <3> QED
            BY <3>2 DEF y
    <2> QED
        BY <2>3, <2>4 DEF w
<1>6. CASE t \in ByteType
    <2>1. v \in Byte
        BY <1>6, ByteTypes
    <2>2. w = <<v>>
        BY <1>1, <1>6, FieldWritings
    <2> HIDE DEF w
    <2>3. w \in Bytes /\ 1 = Len(w)
        BY <2>1, <2>2, ByteSeq
    <2>4. Len(w) \in Nat \ {0}
        <3> DEFINE y == Len(w)
        <3>1. 1 = y
            BY <2>3
        <3> HIDE DEF y
        <3>2. y \in Nat \ {0}
            BY <3>1
        <3> QED
            BY <3>2 DEF y
    <2> QED
        BY <2>3, <2>4 DEF w
<1> QED
    BY <1>2, <1>3, <1>4, <1>5, <1>6 DEF FieldType, ByteType

\* A field that its format carries is read as it was written.
LEMMA FieldRead ==
    ASSUME NEW f, f.type \in FieldType, f.type # "selector", NEW v \in FieldValues(f.type),
           f.type = "data" => ~AwkwardData(v), NEW b, Starts(b, WriteField(f, v))
    PROVE  ReadField(f, b) = Taken(v, Len(WriteField(f, v)))
<1> DEFINE t == f.type
           w == WriteField(f, v)
<1>1. v # None
    BY NotNone
<1>2. /\ b \in Bytes /\ w \in Bytes /\ Len(b) \in Nat /\ Len(w) \in Nat /\ Len(w) <= Len(b)
      /\ \A i \in 1..Len(w) : b[i] = w[i]
    BY BytesConcat DEF Starts
<1>3. CASE t = "data"
    <2>1. w = WriteData(v) /\ ReadField(f, b) = ReadData(b)
        BY <1>1, <1>3, FieldWritings, FieldReadings
    <2>2. Starts(b, WriteData(v)) /\ ~AwkwardData(v)
        BY <1>3, <2>1
    <2>3. ReadData(b) = Taken(v, Len(WriteData(v)))
        BY <1>2, <2>2, DataRead
    <2> QED
        BY <2>1, <2>3
<1>4. CASE t = "u16"
    <2>1. w = LowFirst(v)
        BY <1>1, <1>4, FieldWritings
    <2>2. v \in Word /\ v \in Nat
        BY <1>4, FieldValuesAre, WordFits
    <2> HIDE DEF w
    <2>3. 2 = Len(w) /\ w[1] + 256 * w[2] = v
        BY <2>1, <2>2, LowFirstType
    <2>4. ~(Len(b) < 2) /\ b[1] = w[1] /\ b[2] = w[2]
        <3> DEFINE x == Len(w)
                   y == Len(b)
        <3>1. 2 = x /\ x <= y /\ y \in Nat
            BY <1>2, <2>3
        <3> HIDE DEF x, y
        <3>2. ~(y < 2) /\ 1 \in 1..x /\ 2 \in 1..x
            BY <3>1
        <3>3. b[1] = w[1] /\ b[2] = w[2]
            BY <3>2, <1>2 DEF x
        <3> QED
            BY <3>2, <3>3 DEF y
    <2>5. Number(b) = v
        BY <2>3, <2>4 DEF Number
    <2>6. ReadField(f, b) = Taken(v, 2)
        BY <1>4, <2>4, <2>5, FieldReadings
    <2>7. ReadField(f, b) = Taken(v, Len(w))
        BY <2>3, <2>6
    <2> QED
        BY <2>7 DEF w
<1>5. ASSUME NEW x, w = <<x>>
      PROVE  b # <<>> /\ b[1] = x /\ 1 = Len(w)
    <2>1. 1 = Len(w) /\ w[1] = x
        BY <1>5
    <2> DEFINE y == Len(w)
               z == Len(b)
    <2>2. 1 = y /\ y <= z /\ z \in Nat
        BY <1>2, <2>1
    <2> HIDE DEF w, y, z
    <2>3. 1 \in 1..y /\ z # 0
        BY <2>2
    <2>4. b[1] = w[1]
        BY <2>3, <1>2 DEF y
    <2>5. Len(b) # 0
        BY <2>3 DEF z
    <2> QED
        BY <2>1, <2>4, <2>5
<1>6. CASE t = "bool"
    <2> DEFINE x == IF v THEN 1 ELSE 0
    <2>1. w = <<x>>
        BY <1>1, <1>6, FieldWritings
    <2>2. b # <<>> /\ b[1] = x /\ 1 = Len(w)
        BY <1>5, <2>1
    <2>3. ReadField(f, b) = Taken(b[1] # 0, 1)
        BY <1>6, <2>2, FieldReadings
    <2>4. v \in BOOLEAN
        BY <1>6, FieldValuesAre
    <2>5. (b[1] # 0) = v
        BY <2>2, <2>4
    <2> HIDE DEF w, x
    <2> QED
        BY <2>2, <2>3, <2>5, Zenon DEF w
<1>7. CASE t \in ByteType
    <2>1. w = <<v>>
        BY <1>1, <1>7, FieldWritings
    <2>2. b # <<>> /\ b[1] = v /\ 1 = Len(w)
        BY <1>5, <2>1
    <2>3. ReadField(f, b) = Taken(v, 1)
        BY <1>7, <2>2, FieldReadings
    <2> HIDE DEF w
    <2>4. ReadField(f, b) = Taken(v, Len(w))
        BY <2>2, <2>3
    <2> QED
        BY <2>4 DEF w
<1> QED
    BY <1>3, <1>4, <1>6, <1>7 DEF FieldType, ByteType

-----------------------------------------------------------------------------
(* Records. *)

IsLayout(layout) ==
    /\ Len(layout) \in Nat /\ DOMAIN layout = 1..Len(layout)
    /\ \A i \in 1..Len(layout) : layout[i].type \in FieldType /\ layout[i].at \in 0..(i - 1)

\* What may stand in a record's field.
Anything == {None} \cup UNION {FieldValues(t) : t \in FieldType}

RecordParts(layout, r) == [i \in DOMAIN layout |-> WriteField(layout[i], r[i])]

\* A record is a sequence of absent fields and of values.
LEMMA RecordIsSeq ==
    ASSUME NEW layout, IsLayout(layout), NEW r, Fits(layout, r), Writable(layout, r)
    PROVE  /\ r \in Seq(Anything) /\ Len(r) = Len(layout)
           /\ \A i \in 1..Len(layout) : r[i] # None => r[i] \in FieldValues(layout[i].type)
<1> DEFINE n == Len(layout)
<1>1. n \in Nat /\ DOMAIN layout = 1..n /\ \A i \in 1..n : layout[i].type \in FieldType
    BY DEF IsLayout
<1> HIDE DEF n
<1>2. n = Len(r) /\ r = [i \in 1..n |-> r[i]]
    BY DEF Fits, IsSeq, n
<1>3. ASSUME NEW i \in 1..n, r[i] # None
      PROVE  r[i] \in FieldValues(layout[i].type)
    <2>1. CASE layout[i].type = "data"
        BY <1>1, <1>3, <2>1, FieldValuesAre DEF Writable
    <2>2. CASE layout[i].type # "data"
        BY <1>1, <1>3, <2>2 DEF Fits
    <2> QED
        BY <2>1, <2>2
<1>4. \A i \in 1..n : r[i] \in Anything
    BY <1>1, <1>3 DEF Anything
<1>5. r \in [1..n -> Anything]
    BY <1>2, <1>4
<1>6. r \in Seq(Anything)
    BY <1>1, <1>5, FunctionIsSeq
<1> QED
    BY <1>2, <1>3, <1>6 DEF n

\* The bytes of a record are those of its fields.
LEMMA PartsOfRecord ==
    ASSUME NEW layout, IsLayout(layout), NEW r, Fits(layout, r), Writable(layout, r)
    PROVE  /\ RecordParts(layout, r) \in Seq(Bytes)
           /\ Len(RecordParts(layout, r)) = Len(layout)
           /\ \A i \in 1..Len(layout) : RecordParts(layout, r)[i] = WriteField(layout[i], r[i])
           /\ WriteRecord(layout, r) = FlattenSeq(RecordParts(layout, r))
<1> DEFINE n == Len(layout)
           p == RecordParts(layout, r)
<1>1. n \in Nat /\ DOMAIN layout = 1..n /\ \A i \in 1..n : layout[i].type \in FieldType
    BY DEF IsLayout
<1>2. \A i \in 1..n : r[i] # None => r[i] \in FieldValues(layout[i].type)
    BY RecordIsSeq
<1> HIDE DEF n
<1>3. p = [i \in 1..n |-> WriteField(layout[i], r[i])]
    BY <1>1 DEF RecordParts
<1>4. ASSUME NEW i \in 1..n
      PROVE  WriteField(layout[i], r[i]) \in Bytes
    <2>1. CASE r[i] = None
        BY <2>1, FieldWritings, BytesConcat
    <2>2. CASE r[i] # None
        BY <2>2, <1>1, <1>2, FieldWritten
    <2> QED
        BY <2>1, <2>2
<1> HIDE DEF p
<1>5. p \in [1..n -> Bytes] /\ \A i \in 1..n : p[i] = WriteField(layout[i], r[i])
    BY <1>3, <1>4
<1>6. p \in Seq(Bytes) /\ Len(p) = n
    BY <1>1, <1>5, FunctionIsSeq
<1>7. WriteRecord(layout, r) = FlattenSeq(p)
    BY DEF WriteRecord, p, RecordParts
<1> QED
    BY <1>5, <1>6, <1>7 DEF p, n

\* A record that is read as it was written.
Carried1(f, r, v) ==
    /\ (v # None) = Wanted(f, r)
    /\ f.type # "selector"
    /\ f.type = "data" /\ v # None => ~AwkwardData(v)
Carries(layout, r) == \A i \in 1..Len(layout) : Carried1(layout[i], r, r[i])

\* A record is written as bytes, and one that the format carries as one or more.
LEMMA RecordWritten ==
    ASSUME NEW layout, IsLayout(layout), NEW r, Fits(layout, r), Writable(layout, r)
    PROVE  /\ WriteRecord(layout, r) \in Bytes
           /\ Carries(layout, r) /\ layout # <<>> => Len(WriteRecord(layout, r)) # 0
<1> DEFINE n == Len(layout)
           p == RecordParts(layout, r)
           w == WriteRecord(layout, r)
<1>1. n \in Nat /\ DOMAIN layout = 1..n
      /\ \A i \in 1..n : layout[i].type \in FieldType /\ layout[i].at \in 0..(i - 1)
    BY DEF IsLayout
<1>2. /\ p \in Seq(Bytes) /\ Len(p) = n
      /\ \A i \in 1..n : p[i] = WriteField(layout[i], r[i])
      /\ w = FlattenSeq(p)
    BY PartsOfRecord
<1> HIDE DEF p, w
<1>3. w \in Bytes
    BY <1>2, FlattenType
<1>4. ASSUME Carries(layout, r), layout # <<>>
      PROVE  Len(w) # 0
    <2>1. 1 \in 1..n
        <3>1. n # 0
            BY <1>1, <1>4
        <3> HIDE DEF n
        <3> QED
            BY <3>1, <1>1
    <2> DEFINE f == layout[1]
               x == r[1]
    <2>2. f.type \in FieldType /\ f.at = 0
        <3>1. f.at \in 0..(1 - 1)
            BY <1>1, <2>1
        <3>2. f.at = 0
            BY <3>1
        <3> QED
            BY <3>2, <1>1, <2>1
    <2>3. x # None /\ f.type # "selector"
        BY <1>4, <2>1, <2>2 DEF Carries, Carried1, Wanted
    <2>4. x \in FieldValues(f.type)
        BY <2>1, <2>3, RecordIsSeq
    <2>5. p[1] = WriteField(f, x)
        BY <1>2, <2>1
    <2>6. Len(p[1]) # 0
        <3> HIDE DEF f, x
        <3>1. Len(WriteField(f, x)) \in Nat \ {0}
            BY <2>2, <2>3, <2>4, FieldWritten
        <3> QED
            BY <3>1, <2>5
    <2>7. PICK g : Laid(p, g)
        BY <1>2, LaidExists
    <2> HIDE DEF n, f, x
    <2>8. w = g[n]
        <3>1. FlattenSeq(p) = g[Len(p)]
            BY <1>2, <2>7, LaidFlat
        <3> QED
            BY <3>1, <1>2
    <2>9. 1 \in 1..Len(p) /\ 1 \in 0..Len(p)
        BY <1>2, <2>1, <1>1
    <2> DEFINE one == 1
    <2>10. one \in 1..Len(p) /\ one \in 0..Len(p)
        BY <2>9
    <2> HIDE DEF one
    <2>11. PICK rest \in Bytes : g[Len(p)] = g[one] \o rest
        BY <1>2, <2>7, <2>10, LaidRest
    <2>12. /\ p[one] \in Bytes /\ g[one - 1] \in Bytes /\ g[one] \in Bytes
           /\ Len(g[one]) = Len(g[one - 1]) + Len(p[one])
        BY <1>2, <2>7, <2>10, LaidStep
    <2>13. Len(g[Len(p)]) = Len(g[one]) + Len(rest)
        BY <2>11, <2>12, BytesConcat
    <2> DEFINE a == Len(g[one - 1])
               b == Len(p[one])
               c == Len(g[one])
               d == Len(rest)
               e == Len(w)
    <2>14. a \in Nat /\ b \in Nat /\ d \in Nat
        BY <2>11, <2>12, BytesConcat
    <2>15. b # 0
        BY <2>6 DEF one
    <2>16. c = a + b
        BY <2>12
    <2>17. e = c + d
        <3>1. w = g[Len(p)]
            BY <2>8, <1>2
        <3> QED
            BY <3>1, <2>13
    <2> HIDE DEF a, b, c, d, e
    <2>18. e # 0
        BY <2>14, <2>15, <2>16, <2>17
    <2> QED
        BY <2>18 DEF e
<1> QED
    BY <1>3, <1>4 DEF w

\* The next field of a record is read as it was written.
LEMMA NextFieldRead ==
    ASSUME NEW layout, IsLayout(layout), NEW r, Fits(layout, r), Writable(layout, r),
           Carries(layout, r), NEW b \in Bytes, NEW i \in 1..Len(layout), NEW k \in Nat,
           Starts(From(b, k), WriteField(layout[i], r[i]))
    PROVE  NextField(layout[i], b, Taken(Firsts(r, i - 1), k))
           = Taken(Firsts(r, i), k + Len(WriteField(layout[i], r[i])))
<1> DEFINE n == Len(layout)
           f == layout[i]
           v == r[i]
           q == Taken(Firsts(r, i - 1), k)
           rest == From(b, k)
           front == Firsts(r, i - 1)
<1>1. /\ n \in Nat /\ i \in 1..n
      /\ f.type \in FieldType /\ f.at \in 0..(i - 1)
    BY DEF IsLayout
<1>2. /\ r \in Seq(Anything) /\ Len(r) = n
      /\ v # None => v \in FieldValues(f.type)
    BY RecordIsSeq
<1>3. Carried1(f, r, v)
    BY DEF Carries
<1>4. q.outcome = "taken" /\ q.value = front /\ q.length = k
    BY TakenParts
<1>5. Append(front, v) = Firsts(r, i)
    BY <1>1, <1>2, FrontFacts
<1>6. Wanted(f, front) = Wanted(f, r)
    <2>1. CASE f.at = 0
        BY <2>1 DEF Wanted
    <2>2. CASE f.at # 0
        <3> DEFINE j == i - 1
        <3>1. j \in Nat /\ j <= Len(r) /\ f.at \in 1..j
            BY <2>2, <1>1, <1>2
        <3> HIDE DEF j, f
        <3>2. SubSeq(r, 1, j)[f.at] = r[f.at]
            BY <3>1, <1>2, FrontType
        <3>3. front[f.at] = r[f.at]
            BY <3>2 DEF Firsts, j
        <3> HIDE DEF front
        <3> QED
            BY <3>3 DEF Wanted
    <2> QED
        BY <2>1, <2>2
<1> HIDE DEF f, v, q, rest, front, n
<1>7. CASE v = None
    <2>1. ~Wanted(f, q.value)
        BY <1>3, <1>4, <1>6, <1>7 DEF Carried1
    <2>2. NextField(f, b, q) = Taken(Append(q.value, None), q.length)
        BY <2>1, <1>4, Zenon DEF NextField, Joined
    <2>3. WriteField(f, v) = <<>>
        BY <1>7, FieldWritings
    <2>4. k + Len(WriteField(f, v)) = k
        BY <2>3
    <2>5. NextField(f, b, q) = Taken(Firsts(r, i), k + Len(WriteField(f, v)))
        BY <2>2, <2>4, <1>4, <1>5, <1>7
    <2> QED
        BY <2>5 DEF q, front, f, v
<1>8. CASE v # None
    <2>1. Wanted(f, q.value)
        BY <1>3, <1>4, <1>6, <1>8 DEF Carried1
    <2>2. /\ f.type # "selector" /\ v \in FieldValues(f.type)
          /\ f.type = "data" => ~AwkwardData(v)
        BY <1>2, <1>3, <1>8 DEF Carried1
    <2>3. Starts(rest, WriteField(f, v))
        BY DEF rest, f, v
    <2>4. ReadField(f, rest) = Taken(v, Len(WriteField(f, v)))
        BY <2>2, <2>3, <1>1, FieldRead
    <2> DEFINE m == Len(WriteField(f, v))
               field == ReadField(f, rest)
    <2>5. field.outcome = "taken" /\ field.value = v /\ field.length = m
        BY <2>4, TakenParts
    <2> HIDE DEF field, m
    <2>6. NextField(f, b, q) = Taken(Append(q.value, field.value), q.length + field.length)
        BY <2>1, <2>5, <1>4, Zenon DEF NextField, Joined, field, rest
    <2>7. NextField(f, b, q) = Taken(Firsts(r, i), k + m)
        BY <2>5, <2>6, <1>4, <1>5
    <2> QED
        BY <2>7 DEF q, front, f, v, m
<1> QED
    BY <1>7, <1>8

\* A record with the fields that its reader expects is read as it was written,
\* whatever its layout and whatever follows it (the derived readers and writers of
\* zcl/command/global.rs).
THEOREM RecordRead ==
    ASSUME NEW layout, IsLayout(layout), NEW r, Fits(layout, r), Writable(layout, r),
           Carries(layout, r), NEW b, Starts(b, WriteRecord(layout, r))
    PROVE  ReadRecord(layout, b) = Taken(r, Len(WriteRecord(layout, r)))
<1> DEFINE n == Len(layout)
           p == RecordParts(layout, r)
           w == WriteRecord(layout, r)
           none == <<>>
<1>1. n \in Nat /\ b \in Bytes
    BY DEF IsLayout, Starts
<1>2. r \in Seq(Anything) /\ Len(r) = n
    BY RecordIsSeq
<1>3. /\ p \in Seq(Bytes) /\ Len(p) = n
      /\ \A i \in 1..n : p[i] = WriteField(layout[i], r[i])
      /\ w = FlattenSeq(p)
    BY PartsOfRecord
<1>4. n = Len(layout) /\ none \in Bytes /\ none = <<>>
    BY BytesConcat
<1>5. Starts(b, w)
    OBVIOUS
<1> HIDE DEF p, n, w, none
<1>6. PICK f : Laid(p, f)
    BY <1>3, LaidExists
<1>7. w = f[n] /\ f[0] = <<>> /\ w \in Bytes
    <2>1. p \in Seq(Bytes) /\ Laid(p, f)
        BY <1>3, <1>6
    <2>2. FlattenSeq(p) = f[Len(p)]
        BY <2>1, LaidFlat
    <2>3. w = f[n]
        BY <2>2, <1>3
    <2>4. f[0] = <<>>
        BY <2>1 DEF Laid
    <2> QED
        BY <2>3, <2>4, <1>5 DEF Starts
<1>8. EndToEnd(w, none, f[Len(p)])
    <2>1. none \o w = w
        BY <1>4, <1>7, BytesConcat
    <2>2. w = f[Len(p)]
        BY <1>3, <1>7
    <2> QED
        BY <2>1, <2>2, <1>4, <1>7 DEF EndToEnd
<1>9. Len(none) = 0
    BY <1>4
<1> DEFINE g == [i \in 0..n |-> Taken(Firsts(r, i), Len(f[i]))]
<1>10. g[0] = Taken(<<>>, 0)
    <2>1. Firsts(r, 0) = <<>>
        BY <1>2, FrontFacts
    <2>2. Len(f[0]) = 0
        BY <1>7
    <2> QED
        BY <2>1, <2>2, <1>1
<1>11. ASSUME NEW i \in 1..n
       PROVE  g[i] = NextField(layout[i], b, g[i - 1])
    <2> DEFINE k == Len(f[i - 1])
               part == WriteField(layout[i], r[i])
    <2>1. i \in 1..Len(p) /\ i \in 1..Len(layout) /\ i \in 0..n /\ i - 1 \in 0..n
        BY <1>1, <1>3, <1>4
    <2>2. /\ p[i] \in Bytes /\ f[i - 1] \in Bytes
          /\ Len(f[i]) = Len(f[i - 1]) + Len(p[i])
        BY <2>1, <1>3, <1>6, LaidStep
    <2>3. k \in Nat
        BY <2>2, BytesConcat
    <2>4. Starts(From(b, Len(none) + Len(f[i - 1])), p[i])
        BY <2>1, <1>3, <1>5, <1>6, <1>8, LaidNext
    <2>5. Len(none) + Len(f[i - 1]) = k
        BY <2>3, <1>9
    <2>6. p[i] = part
        BY <1>3
    <2>7. g[i - 1] = Taken(Firsts(r, i - 1), k)
        BY <2>1
    <2>8. g[i] = Taken(Firsts(r, i), k + Len(part))
        BY <2>1, <2>2, <2>6
    <2> HIDE DEF k, g, part
    <2>9. Starts(From(b, k), WriteField(layout[i], r[i]))
        BY <2>4, <2>5, <2>6 DEF part
    <2>10. NextField(layout[i], b, Taken(Firsts(r, i - 1), k)) = Taken(Firsts(r, i), k + Len(part))
        BY <2>1, <2>3, <2>9, <1>1, NextFieldRead DEF part
    <2> QED
        BY <2>7, <2>8, <2>10
<1>12. g = [i \in 0..n |-> IF i = 0 THEN Taken(<<>>, 0) ELSE NextField(layout[i], b, g[i - 1])]
    <2>1. g = [i \in 0..n |-> g[i]]
        OBVIOUS
    <2> HIDE DEF g
    <2>2. \A i \in 0..n :
             g[i] = IF i = 0 THEN Taken(<<>>, 0) ELSE NextField(layout[i], b, g[i - 1])
        BY <1>10, <1>11
    <2> QED
        BY <2>1, <2>2
<1>13. g[n] = Taken(r, Len(w))
    <2>1. Firsts(r, n) = r
        BY <1>2, FrontFacts
    <2> QED
        BY <2>1, <1>1, <1>7
<1> HIDE DEF g
<1>14. ReadRecord(layout, b) = g[n]
    BY <1>1, <1>4, <1>12, FieldsAre
<1> QED
    BY <1>13, <1>14 DEF w

\* One field more stays within the bytes.
LEMMA NextFieldMade ==
    ASSUME NEW f, f.type \in FieldType, NEW b \in Bytes, NEW r \in Made(Seq(Anything), Len(b))
    PROVE  NextField(f, b, r) \in Made(Seq(Anything), Len(b))
<1> DEFINE S == Seq(Anything)
           N == Len(b)
           rest == From(b, r.length)
           field == ReadField(f, rest)
<1>1. N \in Nat
    BY BytesConcat
<1>2. CASE r.outcome # "taken"
    BY <1>2 DEF NextField, Joined
<1>3. CASE r.outcome = "taken"
    <2>1. r.value \in S /\ r.length \in 0..N
        <3> HIDE DEF S, N
        <3>1. r \in Made(S, N)
            BY DEF S, N
        <3> QED
            BY <3>1, <1>1, <1>3, MadeCases
    <2> DEFINE k == r.length
    <2>2. k \in Nat /\ k <= Len(b)
        BY <2>1, <1>1
    <2> HIDE DEF k
    <2>3. From(b, k) \in Seq(Byte) /\ Len(From(b, k)) = Len(b) - k
        BY <2>2, FromType DEF Bytes
    <2>4. rest \in Bytes /\ Len(rest) = N - r.length
        BY <2>3 DEF k, Bytes
    <2>5. field \in Made(FieldValues(f.type), Len(rest))
        BY <2>4, FieldMade
    <2>6. Len(rest) \in Nat
        BY <2>4, BytesConcat
    <2>7. CASE ~Wanted(f, r.value)
        <3>1. NextField(f, b, r) = Taken(Append(r.value, None), r.length)
            BY <2>7, <1>3, Zenon DEF NextField, Joined
        <3>2. None \in Anything
            BY DEF Anything
        <3>3. Append(r.value, None) \in S
            BY <2>1, <3>2
        <3> HIDE DEF S, N
        <3>4. Taken(Append(r.value, None), r.length) \in Made(S, N)
            BY <2>1, <3>3, <1>1, MadeOf
        <3> QED
            BY <3>1, <3>4 DEF S, N
    <2>8. CASE Wanted(f, r.value) /\ field.outcome # "taken"
        <3>1. NextField(f, b, r) = field
            BY <2>8, <1>3, Zenon DEF NextField, Joined
        <3> HIDE DEF S, N, field, rest
        <3>2. field \in {Refused, Halted}
            BY <2>5, <2>6, <2>8, MadeCases
        <3>3. field \in Made(S, N)
            BY <3>2, <1>1, MadeOf
        <3> QED
            BY <3>1, <3>3 DEF S, N
    <2>9. CASE Wanted(f, r.value) /\ field.outcome = "taken"
        <3>1. NextField(f, b, r) = Taken(Append(r.value, field.value), r.length + field.length)
            BY <2>9, <1>3, Zenon DEF NextField, Joined
        <3>2. field.value \in FieldValues(f.type) /\ field.length \in 0..Len(rest)
            <4> HIDE DEF field, rest
            <4> QED
                BY <2>5, <2>6, <2>9, MadeCases
        <3>3. field.value \in Anything
            BY <3>2 DEF Anything
        <3>4. Append(r.value, field.value) \in S
            BY <2>1, <3>3
        <3>5. r.length + field.length \in 0..N
            <4> DEFINE x == r.length
                       y == field.length
                       z == Len(rest)
            <4>1. x \in 0..N /\ z = N - x /\ y \in 0..z
                BY <2>1, <2>4, <3>2
            <4> HIDE DEF x, y, z, N
            <4>2. x + y \in 0..N
                BY <4>1, <1>1
            <4> QED
                BY <4>2 DEF x, y
        <3> HIDE DEF S, N
        <3>6. Taken(Append(r.value, field.value), r.length + field.length) \in Made(S, N)
            BY <3>4, <3>5, <1>1, MadeOf
        <3> QED
            BY <3>1, <3>6 DEF S, N
    <2> QED
        BY <2>7, <2>8, <2>9
<1> QED
    BY <1>2, <1>3

\* The first fields of a record, as they are read.
Part1(layout, r, i) ==
    /\ (r[i] # None) = Wanted(layout[i], r)
    /\ r[i] # None => r[i] \in FieldValues(layout[i].type)
PartOf(layout, r, n) ==
    r \in Seq(Anything) /\ Len(r) = n /\ \A i \in 1..n : Part1(layout, r, i)
Records(layout) == {r \in Seq(Anything) : PartOf(layout, r, Len(layout))}

\* A field read later does not decide over an earlier one.
LEMMA WantedMore ==
    ASSUME NEW r \in Seq(Anything), NEW x, NEW f, f.at \in 0..Len(r)
    PROVE  Wanted(f, Append(r, x)) = Wanted(f, r)
<1>1. CASE f.at = 0
    BY <1>1 DEF Wanted
<1>2. CASE f.at # 0
    <2> DEFINE more == Append(r, x)
               n == Len(r)
               at == f.at
    <2>1. n \in Nat
        OBVIOUS
    <2>2. at \in 1..n
        BY <1>2, <2>1
    <2>3. more[at] = r[at]
        BY <2>2
    <2> HIDE DEF more
    <2> QED
        BY <2>3 DEF Wanted, more
<1> QED
    BY <1>1, <1>2

\* A record that fits up to a field fits with the next one.
LEMMA PartMore ==
    ASSUME NEW layout, IsLayout(layout), NEW i \in 1..Len(layout), NEW r,
           PartOf(layout, r, i - 1), NEW x \in Anything,
           (x # None) = Wanted(layout[i], r), x # None => x \in FieldValues(layout[i].type)
    PROVE  PartOf(layout, Append(r, x), i)
<1> DEFINE more == Append(r, x)
           n == Len(layout)
           k == i - 1
<1>1. /\ n \in Nat /\ i \in 1..n /\ k \in Nat /\ k + 1 = i
      /\ \A j \in 1..n : layout[j].at \in 0..(j - 1)
    BY DEF IsLayout
<1>2. r \in Seq(Anything) /\ Len(r) = k /\ \A j \in 1..k : Part1(layout, r, j)
    BY DEF PartOf
<1>3. more \in Seq(Anything) /\ Len(more) = i /\ more[i] = x /\ \A j \in 1..k : more[j] = r[j]
    BY <1>1, <1>2
<1> HIDE DEF n, k
<1>4. \A j \in 1..i : layout[j].at \in 0..Len(r)
    <2> SUFFICES ASSUME NEW j \in 1..i
                 PROVE  layout[j].at \in 0..Len(r)
        OBVIOUS
    <2>1. j \in 1..n /\ j - 1 <= k /\ j \in Nat
        BY <1>1
    <2>2. layout[j].at \in 0..(j - 1)
        BY <2>1, <1>1
    <2> QED
        BY <2>1, <2>2, <1>1, <1>2
<1>5. \A j \in 1..i : Wanted(layout[j], more) = Wanted(layout[j], r)
    BY <1>2, <1>4, WantedMore
<1> HIDE DEF more
<1>6. ASSUME NEW j \in 1..i
      PROVE  Part1(layout, more, j)
    <2>1. CASE j = i
        BY <2>1, <1>3, <1>5 DEF Part1
    <2>2. CASE j # i
        <3>1. j \in 1..k
            BY <2>2, <1>1
        <3>2. Part1(layout, r, j) /\ more[j] = r[j]
            BY <3>1, <1>2, <1>3
        <3> QED
            BY <3>2, <1>5 DEF Part1
    <2> QED
        BY <2>1, <2>2
<1> QED
    BY <1>3, <1>6 DEF PartOf, more

\* A field that was read fits.
LEMMA NextFieldPart ==
    ASSUME NEW layout, IsLayout(layout), NEW i \in 1..Len(layout), NEW b \in Bytes,
           NEW r \in Made(Seq(Anything), Len(b)), r.outcome = "taken" => PartOf(layout, r.value, i - 1),
           NEW s, s = NextField(layout[i], b, r), s.outcome = "taken"
    PROVE  PartOf(layout, s.value, i)
<1> DEFINE f == layout[i]
           N == Len(b)
           rest == From(b, r.length)
           field == ReadField(f, rest)
<1>1. N \in Nat /\ f.type \in FieldType
    BY BytesConcat DEF IsLayout
<1>2. r.outcome = "taken"
    BY Zenon DEF NextField, Joined
<1>3. PartOf(layout, r.value, i - 1) /\ r.length \in 0..N
    <2> DEFINE S == Seq(Anything)
    <2>1. r \in Made(S, N)
        OBVIOUS
    <2> HIDE DEF S, N
    <2>2. r.length \in 0..N
        BY <2>1, <1>1, <1>2, MadeCases
    <2> QED
        BY <2>2, <1>2
<1>4. rest \in Bytes
    <2> DEFINE k == r.length
    <2>1. k \in Nat
        BY <1>1, <1>3
    <2> HIDE DEF k
    <2>2. From(b, k) \in Seq(Byte)
        BY <2>1, FromType DEF Bytes
    <2> QED
        BY <2>2 DEF k, Bytes
<1>5. field \in Made(FieldValues(f.type), Len(rest)) /\ Len(rest) \in Nat
    BY <1>1, <1>4, FieldMade, BytesConcat
<1>6. CASE ~Wanted(f, r.value)
    <2>1. s = Taken(Append(r.value, None), r.length)
        BY <1>2, <1>6, Zenon DEF NextField, Joined
    <2>2. s.value = Append(r.value, None)
        BY <2>1 DEF Taken
    <2> DEFINE x == None
               q == r.value
    <2>3. x \in Anything /\ ~(x # None) /\ PartOf(layout, q, i - 1) /\ ~Wanted(layout[i], q)
        BY <1>3, <1>6 DEF Anything
    <2>4. s.value = Append(q, x)
        BY <2>2
    <2> HIDE DEF x, q
    <2>5. (x # None) = Wanted(layout[i], q)
        BY <2>3 DEF Wanted
    <2>6. x # None => x \in FieldValues(layout[i].type)
        BY <2>3
    <2>7. PartOf(layout, Append(q, x), i)
        BY <2>3, <2>5, <2>6, PartMore
    <2> QED
        BY <2>4, <2>7
<1>7. CASE Wanted(f, r.value)
    <2>1. field.outcome = "taken" /\ s = Taken(Append(r.value, field.value), r.length + field.length)
        BY <1>2, <1>7, Zenon DEF NextField, Joined
    <2> HIDE DEF field, rest
    <2>2. field.value \in FieldValues(f.type)
        BY <2>1, <1>5, MadeCases
    <2> DEFINE x == field.value
    <2>3. x \in Anything /\ x # None
        BY <2>2, <1>1, NotNone DEF Anything
    <2> DEFINE q == r.value
    <2>4. s.value = Append(q, x)
        BY <2>1 DEF Taken
    <2>5. x \in FieldValues(layout[i].type) /\ PartOf(layout, q, i - 1) /\ Wanted(layout[i], q)
        BY <2>2, <1>3, <1>7
    <2> HIDE DEF x, q
    <2>7. (x # None) = Wanted(layout[i], q)
        BY <2>3, <2>5 DEF Wanted
    <2>6. PartOf(layout, Append(q, x), i)
        BY <2>3, <2>5, <2>7, PartMore
    <2> QED
        BY <2>4, <2>6
<1> QED
    BY <1>6, <1>7

\* What is read of any bytes is a record of the layout, whose fields are there
\* when they are wanted.
LEMMA RecordMade ==
    ASSUME NEW layout, IsLayout(layout), NEW b \in Bytes
    PROVE  ReadRecord(layout, b) \in Made(Records(layout), Len(b))
<1> DEFINE n == Len(layout)
           S == Made(Seq(Anything), Len(b))
           s0 == Taken(<<>>, 0)
           step == [i \in 1..n |-> [r \in S |-> NextField(layout[i], b, r)]]
<1>1. Len(b) \in Nat /\ n \in Nat /\ \A i \in 1..n : layout[i].type \in FieldType
    BY BytesConcat DEF IsLayout
<1>2. s0 \in S
    <2> DEFINE Q == Seq(Anything)
               e == <<>>
               k == 0
    <2>1. e \in Q /\ k \in 0..Len(b)
        BY <1>1
    <2> HIDE DEF Q, e, k
    <2>2. Taken(e, k) \in Made(Q, Len(b))
        BY <2>1, <1>1, MadeOf
    <2> QED
        BY <2>2 DEF Q, e, k
<1>3. \A i \in 1..n, r \in S : NextField(layout[i], b, r) \in S
    BY <1>1, NextFieldMade
<1>s. s0 = Taken(<<>>, 0) /\ S = Made(Seq(Anything), Len(b)) /\ n = Len(layout)
    OBVIOUS
<1> HIDE DEF S, s0, n
<1>4. step \in [1..n -> [S -> S]]
    BY <1>3
<1>5. \A i \in 1..n : \A r \in S : step[i][r] = NextField(layout[i], b, r)
    OBVIOUS
<1> HIDE DEF step
<1>6. HasRun(S, s0, n, step)
    BY <1>1, <1>2, <1>4, Recursion
<1>7. PICK f \in [0..n -> S] : Runs(f, s0, n, step)
    BY <1>6 DEF HasRun
<1>8. f[0] = s0
    BY <1>7 DEF Runs
<1>9. ASSUME NEW i \in 1..n
      PROVE  i - 1 \in 0..n /\ f[i - 1] \in S /\ f[i] = NextField(layout[i], b, f[i - 1])
    <2>1. f[i] = step[i][f[i - 1]]
        BY <1>7 DEF Runs
    <2>2. i - 1 \in 0..n
        BY <1>1
    <2>3. f[i - 1] \in S
        BY <2>2
    <2> QED
        BY <1>5, <2>1, <2>2, <2>3
<1>10. f = [i \in 0..n |-> IF i = 0 THEN Taken(<<>>, 0) ELSE NextField(layout[i], b, f[i - 1])]
    <2>1. \A i \in 0..n :
             f[i] = IF i = 0 THEN Taken(<<>>, 0) ELSE NextField(layout[i], b, f[i - 1])
        BY <1>8, <1>9, <1>s
    <2>2. f = [i \in 0..n |-> f[i]]
        OBVIOUS
    <2> QED
        BY <2>1, <2>2
<1>11. ReadRecord(layout, b) = f[n]
    BY <1>1, <1>10, <1>s, FieldsAre, SMTT(30)
<1> DEFINE U == {i \in 0..n : f[i].outcome = "taken" => PartOf(layout, f[i].value, i)}
<1>12. 0 \in U
    <2>1. f[0].value = <<>>
        BY <1>8, <1>s, TakenParts
    <2> DEFINE e == f[0].value
    <2>2. e \in Seq(Anything) /\ Len(e) = 0
        BY <2>1
    <2> HIDE DEF e
    <2>3. PartOf(layout, e, 0)
        BY <2>2 DEF PartOf
    <2> QED
        BY <2>3, <1>1 DEF e
<1>13. ASSUME NEW i \in 1..n, i - 1 \in U
       PROVE  i \in U
    <2>1. f[i - 1] \in S /\ f[i] = NextField(layout[i], b, f[i - 1])
        BY <1>9
    <2>2. f[i - 1].outcome = "taken" => PartOf(layout, f[i - 1].value, i - 1)
        BY <1>13
    <2>3. f[i].outcome = "taken" => PartOf(layout, f[i].value, i)
        BY <2>1, <2>2, <1>s, NextFieldPart
    <2> QED
        BY <2>3, <1>1
<1> HIDE DEF U
<1>14. n \in U
    <2>1. 0..n \subseteq U
        BY <1>1, <1>12, <1>13, InductionUpTo
    <2> QED
        BY <2>1, <1>1
<1>15. f[n] \in S /\ f[n].outcome = "taken" => PartOf(layout, f[n].value, n)
    BY <1>1, <1>14 DEF U
<1> DEFINE r == f[n]
           N == Len(b)
           T == Records(layout)
<1>16. r \in S
    BY <1>1
<1>17. r \in Made(T, N)
    <2> DEFINE Q == Seq(Anything)
    <2>1. r \in Made(Q, N) /\ N \in Nat
        BY <1>1, <1>16, <1>s
    <2> HIDE DEF r, N, T, Q
    <2>2. CASE r.outcome = "taken"
        <3>1. r.value \in Q /\ r.length \in 0..N /\ r = Taken(r.value, r.length)
            BY <2>1, <2>2, MadeCases
        <3>2. PartOf(layout, r.value, n)
            BY <2>2, <1>15, <1>16 DEF r
        <3>3. r.value \in T
            BY <3>1, <3>2, <1>s DEF T, Records, Q
        <3>4. Taken(r.value, r.length) \in Made(T, N)
            BY <2>1, <3>1, <3>3, MadeOf
        <3> QED
            BY <3>1, <3>4
    <2>3. CASE r.outcome # "taken"
        <3>1. r \in {Refused, Halted}
            BY <2>1, <2>3, MadeCases
        <3> QED
            BY <2>1, <3>1, MadeOf
    <2> QED
        BY <2>2, <2>3
<1> QED
    BY <1>11, <1>17 DEF r, T, N

IdRecord == <<Always("u16")>>
ByteRecord == <<Always("u8")>>
SelectorRecord == <<Always("selector")>>
NoFields == <<>>
Limits16 == <<Always("u16"), Always("u8")>>
Limits8 == <<Always("u8"), Always("u8")>>
DefaultFields == <<Always("u8"), Always("status")>>

ItemLayouts ==
    {NoFields, IdRecord, ReadAttributesStatusRecord, AttributeRecord, WriteAttributeStatusRecord,
     ReportingRecord, AttributeStatusRecord, ReportingConfigurationAttributeStatus,
     ReadReportingRecord, DiscoverAttributeRecord, SelectorRecord, WriteAttributeRecord,
     WriteAttributeStructuredStatus, ByteRecord, ExtendedAttributeInformation}
LeadingLayouts == {NoFields, DefaultFields, Limits16, Limits8, DiscoveryComplete}

\* The parts of a field's description.
LEMMA FieldsAreFields ==
    /\ \A t \in FieldType : Always(t).type = t /\ Always(t).at = 0
    /\ \A i, v, t : Given(i, v, t).type = t /\ Given(i, v, t).at = i /\ Given(i, v, t).is = v
    BY DEF Always, Given

\* The layouts of the global commands are layouts.
LEMMA LayoutsAreLayouts ==
    /\ \A l \in ItemLayouts : IsLayout(l)
    /\ \A l \in LeadingLayouts : IsLayout(l)
<1>1. /\ "u8" \in FieldType /\ "u16" \in FieldType /\ "bool" \in FieldType
      /\ "status" \in FieldType /\ "direction" \in FieldType /\ "selector" \in FieldType
      /\ "data" \in FieldType
    BY DEF FieldType
<1>2. IsLayout(NoFields)
    BY DEF NoFields, IsLayout
<1>3. IsLayout(IdRecord) /\ IsLayout(ByteRecord) /\ IsLayout(SelectorRecord)
      /\ IsLayout(DiscoveryComplete)
    BY <1>1 DEF IdRecord, ByteRecord, SelectorRecord, DiscoveryComplete, IsLayout, Always
<1>4. IsLayout(AttributeRecord) /\ IsLayout(Limits16) /\ IsLayout(Limits8)
      /\ IsLayout(DefaultFields) /\ IsLayout(WriteAttributeStatusRecord)
    BY <1>1 DEF AttributeRecord, Limits16, Limits8, DefaultFields, WriteAttributeStatusRecord,
       IsLayout, Always
<1>5. IsLayout(ReportingConfigurationAttributeStatus) /\ IsLayout(DiscoverAttributeRecord)
      /\ IsLayout(WriteAttributeRecord) /\ IsLayout(WriteAttributeStructuredStatus)
    BY <1>1 DEF ReportingConfigurationAttributeStatus, DiscoverAttributeRecord,
       WriteAttributeRecord, WriteAttributeStructuredStatus, IsLayout, Always
<1>6. IsLayout(ReadAttributesStatusRecord) /\ IsLayout(AttributeStatusRecord)
      /\ IsLayout(ExtendedAttributeInformation)
    BY <1>1 DEF ReadAttributesStatusRecord, AttributeStatusRecord, ExtendedAttributeInformation,
       IsLayout, Always, Given
<1>7. IsLayout(ReportingRecord)
    BY <1>1 DEF ReportingRecord, IsLayout, Always, Given
<1>8. IsLayout(ReadReportingRecord)
    BY <1>1 DEF ReadReportingRecord, IsLayout, Always, Given
<1> QED
    BY <1>2, <1>3, <1>4, <1>5, <1>6, <1>7, <1>8, Zenon DEF ItemLayouts, LeadingLayouts

\* Which layouts the commands have.
LEMMA Items ==
    ASSUME NEW c
    PROVE  /\ Item(c) \in ItemLayouts
           /\ c \in GlobalCommand => Leading(c) \in LeadingLayouts
           /\ Item(ReadAttributes) = IdRecord
           /\ Item(ReadAttributesResponse) = ReadAttributesStatusRecord
           /\ \A k \in {WriteAttributes, WriteAttributesUndivided, WriteAttributesNoResponse} :
                 Item(k) = AttributeRecord
           /\ Item(WriteAttributesResponse) = WriteAttributeStatusRecord
           /\ Item(ConfigureReporting) = ReportingRecord
           /\ Item(ConfigureReportingResponse) = AttributeStatusRecord
           /\ Item(ReadReportingConfiguration) = ReportingConfigurationAttributeStatus
           /\ Item(ReadReportingConfigurationResponse) = ReadReportingRecord
           /\ Item(DiscoverAttributesResponse) = DiscoverAttributeRecord
           /\ Item(DefaultResponse) = NoFields
           /\ Item(DiscoverCommandsReceivedResponse) = ByteRecord
           /\ Leading(DefaultResponse) = DefaultFields
           /\ Leading(DiscoverAttributes) = Limits16
           /\ Leading(DiscoverAttributesResponse) = DiscoveryComplete
           /\ Leading(DiscoverCommandsReceivedResponse) = DiscoveryComplete
           /\ \A k \in {ReadAttributesResponse, WriteAttributesResponse, ConfigureReportingResponse,
                        ReadReportingConfigurationResponse} : Leading(k) = NoFields
<1>1. Item(c) \in ItemLayouts
    BY DEF Item, ItemLayouts, NoFields, IdRecord, SelectorRecord, ByteRecord
<1>2. c \in GlobalCommand => Leading(c) \in LeadingLayouts
    BY DEF Leading, LeadingLayouts, NoFields, DefaultFields, Limits16, Limits8, DiscoveryLimits
<1>3. /\ Item(ReadAttributes) = IdRecord
      /\ Item(ReadAttributesResponse) = ReadAttributesStatusRecord
      /\ \A k \in {WriteAttributes, WriteAttributesUndivided, WriteAttributesNoResponse} :
            Item(k) = AttributeRecord
      /\ Item(WriteAttributesResponse) = WriteAttributeStatusRecord
    <2>1. Item(ReadAttributes) = IdRecord
        BY DEF Item, ReadAttributes, ReadAttributesResponse, WriteAttributes,
           WriteAttributesUndivided, WriteAttributesNoResponse, WriteAttributesResponse,
           ReportAttributes, ConfigureReporting, ConfigureReportingResponse,
           ReadReportingConfiguration, ReadReportingConfigurationResponse,
           DiscoverAttributesResponse, DiscoverCommandsReceivedResponse, IdRecord
    <2>2. Item(ReadAttributesResponse) = ReadAttributesStatusRecord
        BY DEF Item, ReadAttributes, ReadAttributesResponse, WriteAttributes,
           WriteAttributesUndivided, WriteAttributesNoResponse, WriteAttributesResponse,
           ReportAttributes, ConfigureReporting, ConfigureReportingResponse,
           ReadReportingConfiguration, ReadReportingConfigurationResponse,
           DiscoverAttributesResponse, DiscoverCommandsReceivedResponse
    <2>3. \A k \in {WriteAttributes, WriteAttributesUndivided, WriteAttributesNoResponse} :
            Item(k) = AttributeRecord
        BY DEF Item, ReadAttributes, ReadAttributesResponse, WriteAttributes,
           WriteAttributesUndivided, WriteAttributesNoResponse, WriteAttributesResponse,
           ReportAttributes, ConfigureReporting, ConfigureReportingResponse,
           ReadReportingConfiguration, ReadReportingConfigurationResponse,
           DiscoverAttributesResponse, DiscoverCommandsReceivedResponse
    <2>4. Item(WriteAttributesResponse) = WriteAttributeStatusRecord
        BY DEF Item, ReadAttributes, ReadAttributesResponse, WriteAttributes,
           WriteAttributesUndivided, WriteAttributesNoResponse, WriteAttributesResponse,
           ReportAttributes, ConfigureReporting, ConfigureReportingResponse,
           ReadReportingConfiguration, ReadReportingConfigurationResponse,
           DiscoverAttributesResponse, DiscoverCommandsReceivedResponse
    <2> QED
        BY <2>1, <2>2, <2>3, <2>4
<1>4. /\ Item(ConfigureReporting) = ReportingRecord
      /\ Item(ConfigureReportingResponse) = AttributeStatusRecord
      /\ Item(ReadReportingConfiguration) = ReportingConfigurationAttributeStatus
      /\ Item(ReadReportingConfigurationResponse) = ReadReportingRecord
    <2>1. Item(ConfigureReporting) = ReportingRecord
        BY DEF Item, ReadAttributes, ReadAttributesResponse, WriteAttributes,
           WriteAttributesUndivided, WriteAttributesNoResponse, WriteAttributesResponse,
           ReportAttributes, ConfigureReporting, ConfigureReportingResponse,
           ReadReportingConfiguration, ReadReportingConfigurationResponse,
           DiscoverAttributesResponse, DiscoverCommandsReceivedResponse
    <2>2. Item(ConfigureReportingResponse) = AttributeStatusRecord
        BY DEF Item, ReadAttributes, ReadAttributesResponse, WriteAttributes,
           WriteAttributesUndivided, WriteAttributesNoResponse, WriteAttributesResponse,
           ReportAttributes, ConfigureReporting, ConfigureReportingResponse,
           ReadReportingConfiguration, ReadReportingConfigurationResponse,
           DiscoverAttributesResponse, DiscoverCommandsReceivedResponse
    <2>3. Item(ReadReportingConfiguration) = ReportingConfigurationAttributeStatus
        BY DEF Item, ReadAttributes, ReadAttributesResponse, WriteAttributes,
           WriteAttributesUndivided, WriteAttributesNoResponse, WriteAttributesResponse,
           ReportAttributes, ConfigureReporting, ConfigureReportingResponse,
           ReadReportingConfiguration, ReadReportingConfigurationResponse,
           DiscoverAttributesResponse, DiscoverCommandsReceivedResponse
    <2>4. Item(ReadReportingConfigurationResponse) = ReadReportingRecord
        BY DEF Item, ReadAttributes, ReadAttributesResponse, WriteAttributes,
           WriteAttributesUndivided, WriteAttributesNoResponse, WriteAttributesResponse,
           ReportAttributes, ConfigureReporting, ConfigureReportingResponse,
           ReadReportingConfiguration, ReadReportingConfigurationResponse,
           DiscoverAttributesResponse, DiscoverCommandsReceivedResponse
    <2> QED
        BY <2>1, <2>2, <2>3, <2>4
<1>5. /\ Item(DiscoverAttributesResponse) = DiscoverAttributeRecord
      /\ Item(DefaultResponse) = NoFields
      /\ Item(DiscoverCommandsReceivedResponse) = ByteRecord
    <2>1. Item(DiscoverAttributesResponse) = DiscoverAttributeRecord
        BY DEF Item, ReadAttributes, ReadAttributesResponse, WriteAttributes,
           WriteAttributesUndivided, WriteAttributesNoResponse, WriteAttributesResponse,
           ReportAttributes, ConfigureReporting, ConfigureReportingResponse,
           ReadReportingConfiguration, ReadReportingConfigurationResponse,
           DiscoverAttributesResponse, DefaultResponse, DiscoverCommandsReceivedResponse
    <2>2. Item(DefaultResponse) = NoFields
        BY DEF Item, ReadAttributes, ReadAttributesResponse, WriteAttributes,
           WriteAttributesUndivided, WriteAttributesNoResponse, WriteAttributesResponse,
           ReportAttributes, ConfigureReporting, ConfigureReportingResponse,
           ReadReportingConfiguration, ReadReportingConfigurationResponse,
           DiscoverAttributesResponse, DefaultResponse, DiscoverCommandsReceivedResponse, NoFields
    <2>3. Item(DiscoverCommandsReceivedResponse) = ByteRecord
        BY DEF Item, ReadAttributes, ReadAttributesResponse, WriteAttributes,
           WriteAttributesUndivided, WriteAttributesNoResponse, WriteAttributesResponse,
           ReportAttributes, ConfigureReporting, ConfigureReportingResponse,
           ReadReportingConfiguration, ReadReportingConfigurationResponse,
           DiscoverAttributesResponse, DefaultResponse, DiscoverCommandsReceivedResponse, ByteRecord
    <2> QED
        BY <2>1, <2>2, <2>3
<1>6. /\ Leading(DefaultResponse) = DefaultFields
      /\ Leading(DiscoverAttributes) = Limits16
      /\ Leading(DiscoverAttributesResponse) = DiscoveryComplete
      /\ Leading(DiscoverCommandsReceivedResponse) = DiscoveryComplete
    <2>1. Leading(DefaultResponse) = DefaultFields
        BY DEF Leading, DefaultResponse, DiscoverAttributes, DiscoverAttributesResponse,
           DiscoverCommandsReceivedResponse, DiscoverCommandsReceived, DefaultFields
    <2>2. Leading(DiscoverAttributes) = Limits16
        BY DEF Leading, DefaultResponse, DiscoverAttributes, DiscoverAttributesResponse,
           DiscoverCommandsReceivedResponse, DiscoverCommandsReceived, DiscoveryLimits, Limits16
    <2>3. Leading(DiscoverAttributesResponse) = DiscoveryComplete
        BY DEF Leading, DefaultResponse, DiscoverAttributes, DiscoverAttributesResponse,
           DiscoverCommandsReceivedResponse, DiscoverCommandsReceived
    <2>4. Leading(DiscoverCommandsReceivedResponse) = DiscoveryComplete
        BY DEF Leading, DefaultResponse, DiscoverAttributes, DiscoverAttributesResponse,
           DiscoverCommandsReceivedResponse, DiscoverCommandsReceived
    <2> QED
        BY <2>1, <2>2, <2>3, <2>4
<1>7. \A k \in {ReadAttributesResponse, WriteAttributesResponse, ConfigureReportingResponse,
                ReadReportingConfigurationResponse} : Leading(k) = NoFields
    BY DEF Leading, DefaultResponse, DiscoverAttributes, DiscoverAttributesResponse,
       DiscoverCommandsReceivedResponse, DiscoverCommandsReceived, NoFields,
       ReadAttributesResponse, WriteAttributesResponse, ConfigureReportingResponse,
       ReadReportingConfigurationResponse
<1> QED
    BY <1>1, <1>2, <1>3, <1>4, <1>5, <1>6, <1>7

\* The fields before the list are there in every frame, and read back as written.
LEMMA LeadingAlways ==
    \A l \in LeadingLayouts : \A i \in 1..Len(l) :
        l[i].at = 0 /\ l[i].type \in FieldType \ {"data", "selector"}
<1>1. /\ {"u8", "u16", "bool", "status"} \subseteq FieldType \ {"data", "selector"}
    BY DEF FieldType
<1>2. \A i \in 1..Len(NoFields) :
        NoFields[i].at = 0 /\ NoFields[i].type \in FieldType \ {"data", "selector"}
    BY DEF NoFields
<1>3. \A i \in 1..Len(DefaultFields) :
        DefaultFields[i].at = 0 /\ DefaultFields[i].type \in FieldType \ {"data", "selector"}
    BY <1>1 DEF DefaultFields, Always
<1>4. \A i \in 1..Len(Limits16) :
        Limits16[i].at = 0 /\ Limits16[i].type \in FieldType \ {"data", "selector"}
    BY <1>1 DEF Limits16, Always
<1>5. \A i \in 1..Len(Limits8) :
        Limits8[i].at = 0 /\ Limits8[i].type \in FieldType \ {"data", "selector"}
    BY <1>1 DEF Limits8, Always
<1>6. \A i \in 1..Len(DiscoveryComplete) :
        /\ DiscoveryComplete[i].at = 0
        /\ DiscoveryComplete[i].type \in FieldType \ {"data", "selector"}
    BY <1>1 DEF DiscoveryComplete, Always
<1> QED
    BY <1>2, <1>3, <1>4, <1>5, <1>6, Zenon DEF LeadingLayouts

\* A record that was read fits its layout and can be written.
LEMMA RecordFacts ==
    ASSUME NEW layout, IsLayout(layout), NEW r \in Records(layout)
    PROVE  /\ Fits(layout, r) /\ Writable(layout, r) /\ r \in Seq(Anything)
           /\ Len(r) = Len(layout) /\ \A i \in 1..Len(layout) : Part1(layout, r, i)
<1>1. r \in Seq(Anything) /\ Len(r) = Len(layout) /\ \A i \in 1..Len(layout) : Part1(layout, r, i)
    BY DEF Records, PartOf
<1>2. Len(r) \in Nat /\ r = [i \in 1..Len(r) |-> r[i]]
    BY <1>1
<1>3. DOMAIN layout = 1..Len(layout)
    BY DEF IsLayout
<1>4. Fits(layout, r)
    BY <1>1, <1>2, <1>3 DEF Fits, IsSeq, Part1
<1>5. Writable(layout, r)
    BY <1>1, <1>3, FieldValuesAre DEF Writable, Part1
<1> QED
    BY <1>1, <1>4, <1>5

\* Three parts.
LEMMA FlattenThree ==
    ASSUME NEW p \in Seq(Bytes), 3 = Len(p)
    PROVE  FlattenSeq(p) = (p[1] \o p[2]) \o p[3]
<1> DEFINE n == Len(p)
<1>1. PICK g : Laid(p, g)
    BY LaidExists
<1>2. FlattenSeq(p) = g[n] /\ g[0] = <<>>
    BY <1>1, LaidFlat DEF Laid
<1>3. \A i \in 1..n : g[i] = g[i - 1] \o p[i] /\ p[i] \in Bytes
    BY <1>1 DEF Laid
<1>4. 3 = n
    OBVIOUS
<1> HIDE DEF n
<1>5. 1 \in 1..n /\ 2 \in 1..n /\ 3 \in 1..n
    BY <1>4
<1>6. g[1] = <<>> \o p[1] /\ g[2] = g[1] \o p[2] /\ g[3] = g[2] \o p[3] /\ p[1] \in Bytes
    <2>1. g[1] = g[1 - 1] \o p[1] /\ g[2] = g[2 - 1] \o p[2] /\ g[3] = g[3 - 1] \o p[3]
        BY <1>3, <1>5
    <2>2. 1 - 1 = 0 /\ 2 - 1 = 1 /\ 3 - 1 = 2
        OBVIOUS
    <2> QED
        BY <2>1, <2>2, <1>2, <1>3, <1>5
<1>7. g[1] = p[1]
    BY <1>6, BytesConcat
<1>8. g[3] = (p[1] \o p[2]) \o p[3]
    BY <1>6, <1>7
<1> QED
    BY <1>2, <1>4, <1>8

\* Four parts.
LEMMA FlattenFour ==
    ASSUME NEW p \in Seq(Bytes), 4 = Len(p)
    PROVE  FlattenSeq(p) = ((p[1] \o p[2]) \o p[3]) \o p[4]
<1> DEFINE n == Len(p)
<1>1. PICK g : Laid(p, g)
    BY LaidExists
<1>2. FlattenSeq(p) = g[n] /\ g[0] = <<>>
    BY <1>1, LaidFlat DEF Laid
<1>3. \A i \in 1..n : g[i] = g[i - 1] \o p[i] /\ p[i] \in Bytes
    BY <1>1 DEF Laid
<1>4. 4 = n
    OBVIOUS
<1> HIDE DEF n
<1>5. 1 \in 1..n /\ 2 \in 1..n /\ 3 \in 1..n /\ 4 \in 1..n
    BY <1>4
<1>6. /\ g[1] = <<>> \o p[1] /\ g[2] = g[1] \o p[2] /\ g[3] = g[2] \o p[3]
      /\ g[4] = g[3] \o p[4] /\ p[1] \in Bytes
    <2>1. /\ g[1] = g[1 - 1] \o p[1] /\ g[2] = g[2 - 1] \o p[2] /\ g[3] = g[3 - 1] \o p[3]
          /\ g[4] = g[4 - 1] \o p[4]
        BY <1>3, <1>5
    <2>2. 1 - 1 = 0 /\ 2 - 1 = 1 /\ 3 - 1 = 2 /\ 4 - 1 = 3
        OBVIOUS
    <2> QED
        BY <2>1, <2>2, <1>2, <1>3, <1>5
<1>7. g[1] = p[1]
    BY <1>6, BytesConcat
<1>8. g[4] = ((p[1] \o p[2]) \o p[3]) \o p[4]
    BY <1>6, <1>7
<1> QED
    BY <1>2, <1>4, <1>8

-----------------------------------------------------------------------------
(* The header. *)

\* The bits of the frame control are read as they were written.
LEMMA Bits ==
    ASSUME NEW a \in BOOLEAN, NEW b \in BOOLEAN, NEW c \in BOOLEAN, NEW d \in BOOLEAN,
           NEW x, x = Bit(a, 1) + Bit(b, 4) + Bit(c, 8) + Bit(d, 16)
    PROVE  /\ x \in Byte
           /\ a => x % 4 = 1
           /\ ~a => x % 4 = 0
           /\ ((x \div 4) % 2 = 1) = b
           /\ ((x \div 8) % 2 = 1) = c
           /\ ((x \div 16) % 2 = 1) = d
<1>1. CASE a
    BY <1>1 DEF Bit, Byte
<1>2. CASE ~a
    BY <1>2 DEF Bit, Byte
<1> QED
    BY <1>1, <1>2

Short == <<Always("u8"), Always("u8"), Always("u8")>>
Long == <<Always("u8"), Always("u16"), Always("u8"), Always("u8")>>

\* The manufacturer's code is in the header when its bit says so.
LEMMA HeaderLayouts ==
    ASSUME NEW control
    PROVE  /\ (control \div 4) % 2 = 1 => HeaderFields(control) = Long
           /\ (control \div 4) % 2 # 1 => HeaderFields(control) = Short
<1> DEFINE a == Always("u8")
           b == Always("u16")
<1> HIDE DEF a, b
<1> DEFINE T == {a, b}
           one == <<a>>
           two == <<b>>
           end == <<a, a>>
           long == <<a, b, a, a>>
           short == <<a, a, a>>
<1>a. /\ one \in Seq(T) /\ 1 = Len(one) /\ one[1] = a
      /\ two \in Seq(T) /\ 1 = Len(two) /\ two[1] = b
      /\ end \in Seq(T) /\ 2 = Len(end) /\ end[1] = a /\ end[2] = a
    OBVIOUS
<1>b. /\ long \in Seq(T) /\ 4 = Len(long)
      /\ long[1] = a /\ long[2] = b /\ long[3] = a /\ long[4] = a
    OBVIOUS
<1>c. /\ short \in Seq(T) /\ 3 = Len(short) /\ short[1] = a /\ short[2] = a /\ short[3] = a
    OBVIOUS
<1>1. <<a>> \o <<b>> \o <<a, a>> = <<a, b, a, a>>
    <2> DEFINE q == one \o two
               c == q \o end
    <2> HIDE DEF one, two, end, long, T
    <2>1. q \in Seq(T) /\ Len(q) = 1 + 1
          /\ \A i \in 1..1 + 1 : q[i] = IF i <= 1 THEN one[i] ELSE two[i - 1]
        BY <1>a, ConcatProperties
    <2> HIDE DEF q
    <2>2. 2 = Len(q) /\ q[1] = a /\ q[2] = b
        BY <2>1, <1>a
    <2>3. c \in Seq(T) /\ Len(c) = 2 + 2
          /\ \A i \in 1..2 + 2 : c[i] = IF i <= 2 THEN q[i] ELSE end[i - 2]
        BY <2>1, <2>2, <1>a, ConcatProperties, SMTT(30)
    <2> HIDE DEF c
    <2>4. 4 = Len(c) /\ c[1] = a /\ c[2] = b /\ c[3] = a /\ c[4] = a
        BY <2>2, <2>3, <1>a
    <2>5. Len(c) = Len(long) /\ \A i \in 1..Len(c) : c[i] = long[i]
        <3> DEFINE n == Len(c)
                   m == Len(long)
        <3>1. 4 = n /\ 4 = m
            BY <2>4, <1>b
        <3> HIDE DEF n, m
        <3>2. \A i \in 1..n : i = 1 \/ i = 2 \/ i = 3 \/ i = 4
            BY <3>1
        <3>3. n = m /\ \A i \in 1..n : c[i] = long[i]
            BY <3>1, <3>2, <2>4, <1>b
        <3> QED
            BY <3>3 DEF n, m
    <2>6. c = long
        BY <2>3, <2>5, <1>b, SeqEqual
    <2> QED
        BY <2>6 DEF c, q, one, two, end, long
<1>2. <<a>> \o <<>> \o <<a, a>> = <<a, a, a>>
    <2> DEFINE c == one \o end
    <2>1. one \o <<>> = one
        <3> HIDE DEF one, T
        <3> QED
            BY <1>a, ConcatEmptySeq
    <2> HIDE DEF one, end, short, T
    <2> DEFINE x == Len(one)
               y == Len(end)
    <2>2. c \in Seq(T) /\ Len(c) = x + y
          /\ \A i \in 1..x + y : c[i] = IF i <= x THEN one[i] ELSE end[i - x]
        BY <1>a, ConcatProperties
    <2>7. 1 = x /\ 2 = y
        BY <1>a
    <2> HIDE DEF c, x, y
    <2>3. 3 = Len(c) /\ c[1] = a /\ c[2] = a /\ c[3] = a
        BY <2>2, <2>7, <1>a
    <2>4. Len(c) = Len(short) /\ \A i \in 1..Len(c) : c[i] = short[i]
        <3> DEFINE n == Len(c)
                   m == Len(short)
        <3>1. 3 = n /\ 3 = m
            BY <2>3, <1>c
        <3> HIDE DEF n, m
        <3>2. \A i \in 1..n : i = 1 \/ i = 2 \/ i = 3
            BY <3>1
        <3>3. n = m /\ \A i \in 1..n : c[i] = short[i]
            BY <3>1, <3>2, <2>3, <1>c
        <3> QED
            BY <3>3 DEF n, m
    <2>5. c = short
        BY <2>2, <2>4, <1>c, SeqEqual
    <2>6. (one \o <<>>) \o end = short
        BY <2>1, <2>5 DEF c
    <2> QED
        BY <2>6 DEF one, end, short
<1> QED
    BY <1>1, <1>2, Zenon DEF HeaderFields, Long, Short, a, b

\* Both headers are layouts.
LEMMA HeadersAreLayouts ==
    /\ IsLayout(Short) /\ IsLayout(Long) /\ 3 = Len(Short) /\ 4 = Len(Long)
    /\ \A l \in {Short, Long} : \A i \in 1..Len(l) :
            l[i].at = 0 /\ l[i].type \in FieldType \ {"data", "selector"}
    /\ Short[1].type = "u8" /\ Short[2].type = "u8" /\ Short[3].type = "u8"
    /\ Long[1].type = "u8" /\ Long[2].type = "u16" /\ Long[3].type = "u8" /\ Long[4].type = "u8"
<1>1. {"u8", "u16"} \subseteq FieldType \ {"data", "selector"}
    BY DEF FieldType
<1>2. IsLayout(Short)
    BY <1>1 DEF Short, IsLayout, Always
<1>3. IsLayout(Long)
    BY <1>1 DEF Long, IsLayout, Always
<1>4. 3 = Len(Short) /\ 4 = Len(Long)
    BY DEF Short, Long
<1>5. \A i \in 1..Len(Short) :
        Short[i].at = 0 /\ Short[i].type \in FieldType \ {"data", "selector"}
    BY <1>1 DEF Short, Always
<1>6. \A i \in 1..Len(Long) :
        Long[i].at = 0 /\ Long[i].type \in FieldType \ {"data", "selector"}
    BY <1>1 DEF Long, Always
<1>7. Short[1].type = "u8" /\ Short[2].type = "u8" /\ Short[3].type = "u8"
    BY DEF Short, Always
<1>8. Long[1].type = "u8" /\ Long[2].type = "u16" /\ Long[3].type = "u8" /\ Long[4].type = "u8"
    BY DEF Long, Always
<1> QED
    BY <1>2, <1>3, <1>4, <1>5, <1>6, <1>7, <1>8, Zenon

\* A record of fields that are always there, none of them a datum or a selector.
AllThere(layout, r) ==
    /\ IsLayout(layout) /\ IsSeq(r) /\ Len(r) = Len(layout)
    /\ \A i \in 1..Len(layout) :
          /\ layout[i].at = 0 /\ layout[i].type \in FieldType \ {"data", "selector"}
          /\ r[i] \in FieldValues(layout[i].type)

\* A record of fields that are always there fits, and the format carries it.
LEMMA ThereFits ==
    ASSUME NEW layout, NEW r, AllThere(layout, r)
    PROVE  /\ IsLayout(layout) /\ Fits(layout, r) /\ Writable(layout, r) /\ Carries(layout, r)
           /\ \A i \in 1..Len(layout) : r[i] # None
<1>1. /\ IsLayout(layout) /\ IsSeq(r) /\ Len(r) = Len(layout) /\ DOMAIN layout = 1..Len(layout)
    BY DEF AllThere, IsLayout
<1>2. \A i \in 1..Len(layout) :
          /\ layout[i].at = 0 /\ layout[i].type \in FieldType
          /\ layout[i].type # "data" /\ layout[i].type # "selector"
          /\ r[i] \in FieldValues(layout[i].type)
    BY DEF AllThere
<1>3. \A i \in 1..Len(layout) : r[i] # None
    BY <1>2, NotNone
<1>4. Fits(layout, r) /\ Writable(layout, r)
    BY <1>1, <1>2 DEF Fits, Writable
<1>5. Carries(layout, r)
    BY <1>2, <1>3, Zenon DEF Carries, Carried1, Wanted
<1> QED
    BY <1>1, <1>3, <1>4, <1>5

\* The parts of a frame.
LEMMA FrameFacts ==
    ASSUME NEW f, IsFrame(f)
    PROVE  /\ f.type \in {"global", "specific"} /\ f.code \in Word \cup {None}
           /\ f.back \in BOOLEAN /\ f.quiet \in BOOLEAN /\ f.sequence \in Byte /\ f.command \in Byte
           /\ f = [type |-> f.type, code |-> f.code, back |-> f.back, quiet |-> f.quiet,
                   sequence |-> f.sequence, command |-> f.command, head |-> f.head,
                   items |-> f.items]
           /\ AllThere(LeadingOf(f), f.head)
           /\ IsLayout(ItemOf(f)) /\ ItemOf(f) \in ItemLayouts
           /\ Len(f.items) \in Nat /\ DOMAIN f.items = 1..Len(f.items)
           /\ IsGlobal(f) => f.command \in GlobalCommand
           /\ \A i \in 1..Len(f.items) : Fits(ItemOf(f), f.items[i])
           /\ ItemOf(f) = <<>> => Len(f.items) = 0
<1> DEFINE F == [type : {"global", "specific"}, code : Word \cup {None}, back : BOOLEAN,
                 quiet : BOOLEAN, sequence : Byte, command : Byte, head : {f.head},
                 items : {f.items}]
<1>1. f \in F
    BY DEF IsFrame
<1>2. /\ f.type \in {"global", "specific"} /\ f.code \in Word \cup {None}
      /\ f.back \in BOOLEAN /\ f.quiet \in BOOLEAN /\ f.sequence \in Byte /\ f.command \in Byte
      /\ f = [type |-> f.type, code |-> f.code, back |-> f.back, quiet |-> f.quiet,
              sequence |-> f.sequence, command |-> f.command, head |-> f.head,
              items |-> f.items]
    BY <1>1, Zenon
<1>3. IsGlobal(f) => f.command \in GlobalCommand
    BY DEF IsFrame
<1>4. LeadingOf(f) \in LeadingLayouts
    <2>1. CASE IsGlobal(f)
        BY <2>1, <1>3, Items DEF LeadingOf
    <2>2. CASE ~IsGlobal(f)
        BY <2>2, Zenon DEF LeadingOf, LeadingLayouts, NoFields
    <2> QED
        BY <2>1, <2>2
<1>5. ItemOf(f) \in ItemLayouts
    <2>1. CASE IsGlobal(f)
        BY <2>1, Items DEF ItemOf
    <2>2. CASE ~IsGlobal(f)
        BY <2>2, Zenon DEF ItemOf, ItemLayouts, ByteRecord
    <2> QED
        BY <2>1, <2>2
<1>6. AllThere(LeadingOf(f), f.head)
    <2> DEFINE l == LeadingOf(f)
               h == f.head
    <2>1. Fits(l, h) /\ \A i \in DOMAIN h : h[i] # None
        BY DEF IsFrame
    <2>2. /\ IsLayout(l)
          /\ \A i \in 1..Len(l) : l[i].at = 0 /\ l[i].type \in FieldType \ {"data", "selector"}
        BY <1>4, LayoutsAreLayouts, LeadingAlways
    <2> HIDE DEF l, h
    <2>3. IsSeq(h) /\ Len(h) = Len(l) /\ DOMAIN h = 1..Len(l) /\ DOMAIN l = 1..Len(l)
        BY <2>1, <2>2 DEF Fits, IsSeq, IsLayout
    <2>4. \A i \in 1..Len(l) : h[i] \in FieldValues(l[i].type)
        BY <2>1, <2>2, <2>3 DEF Fits
    <2>5. AllThere(l, h)
        BY <2>2, <2>3, <2>4 DEF AllThere
    <2> QED
        BY <2>5 DEF l, h
<1>7. IsSeq(f.items) /\ \A i \in DOMAIN f.items : Fits(ItemOf(f), f.items[i])
    BY DEF IsFrame
<1>8. Len(f.items) \in Nat /\ DOMAIN f.items = 1..Len(f.items)
    BY <1>7 DEF IsSeq
<1>9. ItemOf(f) = <<>> => Len(f.items) = 0
    <2>1. ItemOf(f) = <<>> => f.items = <<>>
        BY DEF IsFrame
    <2>2. f.items = <<>> => Len(f.items) = 0
        OBVIOUS
    <2> QED
        BY <2>1, <2>2
<1>10. IsLayout(ItemOf(f))
    BY <1>5, LayoutsAreLayouts
<1> QED
    BY <1>2, <1>3, <1>5, <1>6, <1>7, <1>8, <1>9, <1>10

Heading(f) ==
    IF f.code = None THEN <<Control(f), f.sequence, f.command>>
    ELSE <<Control(f), f.code, f.sequence, f.command>>
HeadingLayout(f) == IF f.code = None THEN Short ELSE Long
HeadingBytes(f) ==
    <<Control(f)>> \o (IF f.code = None THEN <<>> ELSE LowFirst(f.code)) \o <<f.sequence>>
    \o <<f.command>>

\* The frame control says what the frame is.
LEMMA ControlBits ==
    ASSUME NEW f, IsFrame(f)
    PROVE  /\ Control(f) \in Byte
           /\ IsGlobal(f) => Control(f) % 4 = 0
           /\ ~IsGlobal(f) => Control(f) % 4 = 1
           /\ ((Control(f) \div 4) % 2 = 1) = (f.code # None)
           /\ ((Control(f) \div 8) % 2 = 1) = f.back
           /\ ((Control(f) \div 16) % 2 = 1) = f.quiet
<1> DEFINE x == Control(f)
           a == ~IsGlobal(f)
           b == f.code # None
           c == f.back
           d == f.quiet
<1>1. a \in BOOLEAN /\ b \in BOOLEAN /\ c \in BOOLEAN /\ d \in BOOLEAN
    BY FrameFacts DEF IsGlobal
<1>2. x = Bit(a, 1) + Bit(b, 4) + Bit(c, 8) + Bit(d, 16)
    BY Zenon DEF Control
<1> HIDE DEF x, a, b, c, d
<1>3. /\ x \in Byte /\ (a => x % 4 = 1) /\ (~a => x % 4 = 0)
      /\ ((x \div 4) % 2 = 1) = b
      /\ ((x \div 8) % 2 = 1) = c
      /\ ((x \div 16) % 2 = 1) = d
    BY <1>1, <1>2, Bits
<1> QED
    BY <1>3, Zenon DEF x, a, b, c, d

\* The header and the command are records of fields that are always there.
LEMMA HeadingThere ==
    ASSUME NEW f, IsFrame(f)
    PROVE  AllThere(HeadingLayout(f), Heading(f))
<1>1. Control(f) \in Byte /\ f.sequence \in Byte /\ f.command \in Byte
    BY FrameFacts, ControlBits
<1>2. FieldValues("u8") = Byte /\ FieldValues("u16") = Word
    BY FieldValuesAre
<1>3. CASE f.code = None
    <2> DEFINE r == <<Control(f), f.sequence, f.command>>
    <2>1. HeadingLayout(f) = Short /\ Heading(f) = r
        BY <1>3, Zenon DEF HeadingLayout, Heading
    <2>2. r \in Seq(Byte) /\ r[1] \in Byte /\ r[2] \in Byte /\ r[3] \in Byte
        BY <1>1
    <2>3. 3 = Len(r) /\ IsSeq(r)
        BY DEF IsSeq
    <2> HIDE DEF r
    <2> DEFINE n == Len(Short)
    <2>4. Len(r) = n /\ 3 = n
        BY <2>3, HeadersAreLayouts
    <2> HIDE DEF n
    <2>5. \A i \in 1..n : i = 1 \/ i = 2 \/ i = 3
        BY <2>4
    <2>6. \A i \in 1..n : r[i] \in FieldValues(Short[i].type)
        BY <2>2, <2>5, <1>2, HeadersAreLayouts
    <2>7. AllThere(Short, r)
        BY <2>3, <2>4, <2>6, HeadersAreLayouts DEF AllThere, n
    <2> QED
        BY <2>1, <2>7
<1>4. CASE f.code # None
    <2> DEFINE r == <<Control(f), f.code, f.sequence, f.command>>
    <2>1. HeadingLayout(f) = Long /\ Heading(f) = r
        BY <1>4, Zenon DEF HeadingLayout, Heading
    <2>2. r[1] \in Byte /\ r[2] \in Word /\ r[3] \in Byte /\ r[4] \in Byte
        BY <1>1, <1>4, FrameFacts
    <2>3. 4 = Len(r) /\ IsSeq(r)
        BY DEF IsSeq
    <2> HIDE DEF r
    <2> DEFINE n == Len(Long)
    <2>4. Len(r) = n /\ 4 = n
        BY <2>3, HeadersAreLayouts
    <2> HIDE DEF n
    <2>5. \A i \in 1..n : i = 1 \/ i = 2 \/ i = 3 \/ i = 4
        BY <2>4
    <2>6. \A i \in 1..n : r[i] \in FieldValues(Long[i].type)
        BY <2>2, <2>5, <1>2, HeadersAreLayouts
    <2>7. AllThere(Long, r)
        BY <2>3, <2>4, <2>6, HeadersAreLayouts DEF AllThere, n
    <2> QED
        BY <2>1, <2>7
<1> QED
    BY <1>3, <1>4

\* Their bytes.
LEMMA HeadingWritten ==
    ASSUME NEW f, IsFrame(f)
    PROVE  WriteRecord(HeadingLayout(f), Heading(f)) = HeadingBytes(f)
<1> DEFINE l == HeadingLayout(f)
           r == Heading(f)
           p == RecordParts(l, r)
           n == Len(p)
<1>1. IsLayout(l) /\ Fits(l, r) /\ Writable(l, r) /\ \A i \in 1..Len(l) : r[i] # None
    BY HeadingThere, ThereFits
<1>2. /\ p \in Seq(Bytes) /\ n = Len(l)
      /\ \A i \in 1..n : p[i] = WriteField(l[i], r[i])
      /\ WriteRecord(l, r) = FlattenSeq(p)
    <2> HIDE DEF l, r, p
    <2>1. /\ RecordParts(l, r) \in Seq(Bytes) /\ Len(RecordParts(l, r)) = Len(l)
          /\ \A i \in 1..Len(l) : RecordParts(l, r)[i] = WriteField(l[i], r[i])
          /\ WriteRecord(l, r) = FlattenSeq(RecordParts(l, r))
        BY <1>1, PartsOfRecord
    <2> QED
        BY <2>1 DEF p
<1>3. \A i \in 1..n : /\ l[i].type = "u8" => p[i] = <<r[i]>>
                      /\ l[i].type = "u16" => p[i] = LowFirst(r[i])
    <2> HIDE DEF l, r, p, n
    <2> QED
        BY <1>1, <1>2, FieldWritings DEF ByteType
<1>4. Control(f) \in Byte
    BY ControlBits
<1>5. CASE f.code = None
    <2>1. l = Short /\ r = <<Control(f), f.sequence, f.command>>
        BY <1>5, Zenon DEF HeadingLayout, Heading
    <2>2. r[1] = Control(f) /\ r[2] = f.sequence /\ r[3] = f.command
        BY <2>1
    <2>3. 3 = n /\ l[1].type = "u8" /\ l[2].type = "u8" /\ l[3].type = "u8"
        BY <2>1, <1>2, HeadersAreLayouts
    <2>n. n = Len(p)
        OBVIOUS
    <2> HIDE DEF l, r, p, n
    <2>4. 1 \in 1..n /\ 2 \in 1..n /\ 3 \in 1..n
        BY <2>3
    <2>5. p[1] = <<Control(f)>> /\ p[2] = <<f.sequence>> /\ p[3] = <<f.command>>
        BY <2>2, <2>3, <2>4, <1>3
    <2>6. FlattenSeq(p) = (p[1] \o p[2]) \o p[3]
        BY <2>3, <2>n, <1>2, FlattenThree
    <2>7. <<Control(f)>> \o <<>> = <<Control(f)>>
        <3> DEFINE s == <<Control(f)>>
        <3>1. s \in Bytes
            BY <1>4, ByteSeq
        <3> HIDE DEF s
        <3>2. s \o <<>> = s
            BY <3>1, BytesConcat
        <3> QED
            BY <3>2 DEF s
    <2>8. HeadingBytes(f) = ((<<Control(f)>> \o <<>>) \o <<f.sequence>>) \o <<f.command>>
        BY <1>5, Zenon DEF HeadingBytes
    <2>9. WriteRecord(l, r) = HeadingBytes(f)
        BY <2>5, <2>6, <2>7, <2>8, <1>2, Zenon
    <2> QED
        BY <2>9 DEF l, r
<1>6. CASE f.code # None
    <2>1. l = Long /\ r = <<Control(f), f.code, f.sequence, f.command>>
        BY <1>6, Zenon DEF HeadingLayout, Heading
    <2>2. r[1] = Control(f) /\ r[2] = f.code /\ r[3] = f.sequence /\ r[4] = f.command
        BY <2>1
    <2>3. /\ 4 = n /\ l[1].type = "u8" /\ l[2].type = "u16" /\ l[3].type = "u8"
          /\ l[4].type = "u8"
        BY <2>1, <1>2, HeadersAreLayouts
    <2>n. n = Len(p)
        OBVIOUS
    <2> HIDE DEF l, r, p, n
    <2>4. 1 \in 1..n /\ 2 \in 1..n /\ 3 \in 1..n /\ 4 \in 1..n
        BY <2>3
    <2>5. /\ p[1] = <<Control(f)>> /\ p[2] = LowFirst(f.code) /\ p[3] = <<f.sequence>>
          /\ p[4] = <<f.command>>
        BY <2>2, <2>3, <2>4, <1>3
    <2>6. FlattenSeq(p) = ((p[1] \o p[2]) \o p[3]) \o p[4]
        BY <2>3, <2>n, <1>2, FlattenFour
    <2>8. HeadingBytes(f)
          = ((<<Control(f)>> \o LowFirst(f.code)) \o <<f.sequence>>) \o <<f.command>>
        BY <1>6, Zenon DEF HeadingBytes
    <2>9. WriteRecord(l, r) = HeadingBytes(f)
        BY <2>5, <2>6, <2>8, <1>2, Zenon
    <2> QED
        BY <2>9 DEF l, r
<1> QED
    BY <1>5, <1>6

FieldCount(b) == Len(HeaderFields(b[1]))
HeaderOf(b) == ReadRecord(HeaderFields(b[1]), b)
CommandOf(b) == HeaderOf(b).value[FieldCount(b)]
HeadOf(b) == ReadRecord(Leading(CommandOf(b)), From(b, HeaderOf(b).length))
FrameOf(type, fs, b) ==
    [type |-> type, code |-> IF FieldCount(b) = 4 THEN HeaderOf(b).value[2] ELSE None,
     back |-> (b[1] \div 8) % 2 = 1, quiet |-> (b[1] \div 16) % 2 = 1,
     sequence |-> HeaderOf(b).value[FieldCount(b) - 1], command |-> CommandOf(b),
     head |-> fs, items |-> <<>>]

\* What the first bytes of a frame come to.
LEMMA StartCases ==
    ASSUME NEW b
    PROVE  /\ HeaderOf(b).outcome # "taken" => StartRead(b) = HeaderOf(b)
           /\ HeaderOf(b).outcome = "taken" /\ b[1] % 4 = 1 =>
                 StartRead(b) = Taken(FrameOf("specific", <<>>, b), HeaderOf(b).length)
           /\ HeaderOf(b).outcome = "taken" /\ b[1] % 4 # 1
              /\ (b[1] % 4 # 0 \/ CommandOf(b) \notin GlobalCommand) => StartRead(b) = Refused
           /\ HeaderOf(b).outcome = "taken" /\ b[1] % 4 # 1 /\ b[1] % 4 = 0
              /\ CommandOf(b) \in GlobalCommand =>
                 /\ HeadOf(b).outcome # "taken" => StartRead(b) = HeadOf(b)
                 /\ HeadOf(b).outcome = "taken" =>
                       StartRead(b) = Taken(FrameOf("global", HeadOf(b).value, b),
                                            HeaderOf(b).length + HeadOf(b).length)
    BY Zenon DEF StartRead, FrameOf, HeadOf, CommandOf, HeaderOf, FieldCount

Rejoined(a, b, c, d) ==
    (b \o c) \o d \in Bytes /\ ((a \o b) \o c) \o d = a \o ((b \o c) \o d)

\* Four sequences joined either way.
LEMMA FourJoined ==
    ASSUME NEW a \in Bytes, NEW b \in Bytes, NEW c \in Bytes, NEW d \in Bytes
    PROVE  Rejoined(a, b, c, d)
<1>1. b \o c \in Bytes
    BY BytesConcat, Zenon
<1>2. (b \o c) \o d \in Bytes
    BY <1>1, BytesConcat, Zenon
<1>3. (a \o b) \o c = a \o (b \o c)
    BY BytesConcat, Zenon
<1>4. (a \o (b \o c)) \o d = a \o ((b \o c) \o d)
    BY <1>1, BytesConcat, Zenon
<1> QED
    BY <1>2, <1>3, <1>4, Zenon DEF Rejoined

\* The frame without its items.
Bare(f) == [f EXCEPT !.items = <<>>]
Complete(f) == IsGlobal(f) \/ leg = "request"

\* A frame without its items.
LEMMA BareIs ==
    ASSUME NEW f, IsFrame(f)
    PROVE  Bare(f) = [type |-> f.type, code |-> f.code, back |-> f.back, quiet |-> f.quiet,
                      sequence |-> f.sequence, command |-> f.command, head |-> f.head,
                      items |-> <<>>]
<1>1. f = [type |-> f.type, code |-> f.code, back |-> f.back, quiet |-> f.quiet,
           sequence |-> f.sequence, command |-> f.command, head |-> f.head, items |-> f.items]
    BY FrameFacts
<1> QED
    BY <1>1 DEF Bare

\* The start of a frame is its header followed by the fields before the list.
LEMMA HeadWritten ==
    ASSUME NEW f, IsFrame(f)
    PROVE  /\ WriteRecord(LeadingOf(f), f.head) \in Bytes
           /\ HeadingBytes(f) \in Bytes /\ Len(HeadingBytes(f)) # 0
           /\ HeadingBytes(f)[1] = Control(f)
           /\ Complete(f) => Start(f) = HeadingBytes(f) \o WriteRecord(LeadingOf(f), f.head)
<1>1. WriteRecord(LeadingOf(f), f.head) \in Bytes
    BY FrameFacts, ThereFits, RecordWritten
<1>2. WriteRecord(HeadingLayout(f), Heading(f)) \in Bytes
    BY HeadingThere, ThereFits, RecordWritten
<1>3. HeadingBytes(f) \in Bytes
    BY <1>2, HeadingWritten
<1>4. Len(HeadingBytes(f)) # 0 /\ HeadingBytes(f)[1] = Control(f)
    <2> DEFINE a == <<Control(f)>>
               b == IF f.code = None THEN <<>> ELSE LowFirst(f.code)
               c == <<f.sequence>>
               d == <<f.command>>
               t == (b \o c) \o d
    <2>1. a \in Bytes /\ 1 = Len(a) /\ a[1] = Control(f)
        BY ControlBits, ByteSeq
    <2>2. b \in Bytes
        <3>1. CASE f.code = None
            BY <3>1, BytesConcat
        <3>2. CASE f.code # None
            <4>1. f.code \in Nat
                BY <3>2, FrameFacts, WordFits
            <4> QED
                BY <3>2, <4>1, LowFirstType
        <3> QED
            BY <3>1, <3>2
    <2>3. c \in Bytes /\ d \in Bytes
        BY FrameFacts, ByteSeq
    <2>4. HeadingBytes(f) = ((a \o b) \o c) \o d
        BY Zenon DEF HeadingBytes
    <2> HIDE DEF a, b, c, d
    <2>10. t = (b \o c) \o d
        OBVIOUS
    <2> HIDE DEF t
    <2>5. t \in Bytes /\ ((a \o b) \o c) \o d = a \o t
        <3>1. (b \o c) \o d \in Bytes /\ ((a \o b) \o c) \o d = a \o ((b \o c) \o d)
            <4>1. Rejoined(a, b, c, d)
                BY <2>1, <2>2, <2>3, FourJoined
            <4> QED
                BY <4>1, Zenon DEF Rejoined
        <3> QED
            BY <2>10, <3>1, Zenon
    <2> DEFINE h == HeadingBytes(f)
    <2>6. EndToEnd(h, a, t)
        BY <2>1, <2>4, <2>5 DEF EndToEnd
    <2> HIDE DEF t, h
    <2>7. Len(h) = Len(a) + Len(t) /\ Len(t) \in Nat /\ \A i \in 1..Len(a) : h[i] = a[i]
        BY <2>6, EndToEndFacts
    <2> DEFINE x == Len(a)
               y == Len(t)
               z == Len(h)
    <2>8. z = x + y /\ 1 = x /\ y \in Nat /\ \A i \in 1..x : h[i] = a[i]
        BY <2>1, <2>7
    <2> HIDE DEF x, y, z
    <2>9. z # 0 /\ h[1] = a[1]
        BY <2>8
    <2> QED
        BY <2>1, <2>9 DEF z, h
<1>5. ASSUME Complete(f)
      PROVE  Start(f) = HeadingBytes(f) \o WriteRecord(LeadingOf(f), f.head)
    BY <1>5, Zenon DEF Start, HeadingBytes, Complete
<1> QED
    BY <1>1, <1>3, <1>4, <1>5

\* The start of a frame is one byte or more.
LEMMA StartWritten ==
    ASSUME NEW f, IsFrame(f)
    PROVE  Start(f) \in Bytes /\ Len(Start(f)) # 0
<1> DEFINE a == <<Control(f)>>
           b == IF f.code = None THEN <<>> ELSE LowFirst(f.code)
           c == <<f.sequence>>
           d == IF IsGlobal(f) \/ leg = "request" THEN <<f.command>> ELSE <<>>
           e == WriteRecord(LeadingOf(f), f.head)
           t == ((b \o c) \o d) \o e
<1>1. a \in Bytes /\ 1 = Len(a)
    BY ControlBits, ByteSeq
<1>2. b \in Bytes
    <2>1. CASE f.code = None
        BY <2>1, BytesConcat
    <2>2. CASE f.code # None
        <3>1. f.code \in Nat
            BY <2>2, FrameFacts, WordFits
        <3> QED
            BY <2>2, <3>1, LowFirstType
    <2> QED
        BY <2>1, <2>2
<1>3. c \in Bytes /\ d \in Bytes /\ e \in Bytes
    <2>1. c \in Bytes /\ <<f.command>> \in Bytes /\ <<>> \in Bytes
        BY FrameFacts, ByteSeq, BytesConcat
    <2> QED
        BY <2>1, HeadWritten
<1>4. Start(f) = (((a \o b) \o c) \o d) \o e
    BY Zenon DEF Start
<1> HIDE DEF a, b, c, d, e
<1>5. t \in Bytes /\ (((a \o b) \o c) \o d) \o e = a \o t
    <2>1. ((a \o b) \o c) \o d = a \o ((b \o c) \o d) /\ (b \o c) \o d \in Bytes
        <3>1. Rejoined(a, b, c, d)
            BY <1>1, <1>2, <1>3, FourJoined
        <3> QED
            BY <3>1, Zenon DEF Rejoined
    <2>2. ((b \o c) \o d) \o e \in Bytes
        BY <2>1, <1>3, BytesConcat, Zenon
    <2>3. (a \o ((b \o c) \o d)) \o e = a \o (((b \o c) \o d) \o e)
        BY <2>1, <1>1, <1>3, BytesConcat, Zenon
    <2>4. t = ((b \o c) \o d) \o e
        OBVIOUS
    <2> HIDE DEF t
    <2>5. t \in Bytes
        BY <2>2, <2>4, Zenon
    <2>6. (((a \o b) \o c) \o d) \o e = a \o t
        BY <2>1, <2>3, <2>4, Zenon
    <2> QED
        BY <2>5, <2>6
<1> HIDE DEF t
<1>6. Start(f) \in Bytes /\ Len(Start(f)) = Len(a) + Len(t) /\ Len(t) \in Nat
    BY <1>1, <1>4, <1>5, BytesConcat
<1> DEFINE x == Len(a)
           y == Len(t)
           z == Len(Start(f))
<1>7. z = x + y /\ 1 = x /\ y \in Nat
    BY <1>1, <1>6
<1> HIDE DEF x, y, z
<1>8. z # 0
    BY <1>7
<1> QED
    BY <1>6, <1>8 DEF z

\* The start of a frame that says which command it is, is read as it was written,
\* whatever follows it (zcl/frame.rs, try_read and try_write of ZclFrame).
THEOREM StartReadBack ==
    ASSUME NEW f, IsFrame(f), Complete(f), NEW b, Starts(b, Start(f))
    PROVE  StartRead(b) = Taken(Bare(f), Len(Start(f)))
<1> DEFINE c == Start(f)
           s == HeadingBytes(f)
           t == WriteRecord(LeadingOf(f), f.head)
           l == HeadingLayout(f)
           r == Heading(f)
           fields == HeaderFields(b[1])
           n == FieldCount(b)
           header == HeaderOf(b)
           v == header.value
           command == CommandOf(b)
           head == HeadOf(b)
           ls == Len(s)
           lt == Len(t)
<1>1. EndToEnd(c, s, t)
    BY HeadWritten DEF EndToEnd
<1>2. Starts(b, s) /\ Starts(From(b, ls), t) /\ Len(c) = ls + lt
    <2> HIDE DEF c, s, t
    <2>1. Starts(b, c)
        BY DEF c
    <2> QED
        BY <1>1, <2>1, StartsConcat, EndToEndFacts
<1>3. b[1] = Control(f)
    <2>1. s[1] = Control(f) /\ Len(s) # 0 /\ s \in Bytes
        BY HeadWritten
    <2> HIDE DEF s
    <2>2. Len(s) \in Nat
        BY <2>1, BytesConcat
    <2>3. 1 \in 1..Len(s)
        BY <2>1, <2>2
    <2> QED
        BY <2>1, <2>3, <1>2 DEF Starts
<1>4. fields = l
    BY <1>3, ControlBits, HeaderLayouts DEF HeadingLayout
<1>5. /\ IsLayout(l) /\ Fits(l, r) /\ Writable(l, r) /\ Carries(l, r)
      /\ WriteRecord(l, r) = s
    BY HeadingThere, ThereFits, HeadingWritten
<1>6. header = Taken(r, ls)
    <2>1. Starts(b, WriteRecord(l, r))
        BY <1>2, <1>5
    <2> HIDE DEF l, r, fields, s
    <2>2. ReadRecord(l, b) = Taken(r, Len(WriteRecord(l, r)))
        BY <2>1, <1>5, RecordRead
    <2>3. header = ReadRecord(l, b)
        BY <1>4 DEF HeaderOf, fields
    <2> HIDE DEF header
    <2> QED
        BY <2>2, <2>3, <1>5
<1>7. header.outcome = "taken" /\ v = r /\ header.length = ls
    <2> HIDE DEF header, r, ls
    <2> QED
        BY <1>6, TakenParts
<1>8. /\ command = f.command /\ v[n - 1] = f.sequence
      /\ (IF n = 4 THEN v[2] ELSE None) = f.code
    <2>1. CASE f.code = None
        <3>1. l = Short /\ r = <<Control(f), f.sequence, f.command>>
            BY <2>1, Zenon DEF HeadingLayout, Heading
        <3>2. r[3] = f.command /\ r[2] = f.sequence
            BY <3>1
        <3>3. 3 = n
            BY <3>1, <1>4, HeadersAreLayouts DEF FieldCount
        <3>6. command = v[n]
            BY DEF CommandOf
        <3> HIDE DEF n, r, header, l, command
        <3>4. n - 1 = 2 /\ n # 4 /\ n = 3
            BY <3>3
        <3>5. v[n] = f.command /\ v[n - 1] = f.sequence
            BY <3>2, <3>4, <1>7
        <3> QED
            BY <3>4, <3>5, <3>6, <2>1
    <2>2. CASE f.code # None
        <3>1. l = Long /\ r = <<Control(f), f.code, f.sequence, f.command>>
            BY <2>2, Zenon DEF HeadingLayout, Heading
        <3>2. r[4] = f.command /\ r[3] = f.sequence /\ r[2] = f.code
            BY <3>1
        <3>3. 4 = n
            BY <3>1, <1>4, HeadersAreLayouts DEF FieldCount
        <3>6. command = v[n]
            BY DEF CommandOf
        <3> HIDE DEF n, r, header, l, command
        <3>4. n - 1 = 3 /\ n = 4
            BY <3>3
        <3>5. v[n] = f.command /\ v[n - 1] = f.sequence /\ v[2] = f.code
            BY <3>2, <3>4, <1>7
        <3> QED
            BY <3>4, <3>5, <3>6
    <2> QED
        BY <2>1, <2>2
<1>9. \A type, fs : FrameOf(type, fs, b) =
        [type |-> type, code |-> f.code, back |-> f.back, quiet |-> f.quiet,
         sequence |-> f.sequence, command |-> f.command, head |-> fs, items |-> <<>>]
    <2>1. ((b[1] \div 8) % 2 = 1) = f.back /\ ((b[1] \div 16) % 2 = 1) = f.quiet
        BY <1>3, ControlBits
    <2> QED
        BY <2>1, <1>8, Zenon DEF FrameOf
<1>10. /\ Bare(f) = [type |-> f.type, code |-> f.code, back |-> f.back, quiet |-> f.quiet,
                     sequence |-> f.sequence, command |-> f.command, head |-> f.head,
                     items |-> <<>>]
       /\ f.type \in {"global", "specific"} /\ AllThere(LeadingOf(f), f.head)
       /\ IsGlobal(f) => f.command \in GlobalCommand
    BY BareIs, FrameFacts
<1>11. CASE IsGlobal(f)
    <2>1. b[1] % 4 = 0 /\ b[1] % 4 # 1 /\ command \in GlobalCommand /\ f.type = "global"
        <3>1. Control(f) % 4 = 0
            BY <1>11, ControlBits
        <3>2. b[1] % 4 = 0 /\ f.type = "global"
            BY <3>1, <1>3, <1>11 DEF IsGlobal
        <3>3. b[1] % 4 # 1
            BY <3>2
        <3> HIDE DEF command
        <3> QED
            BY <3>2, <3>3, <1>8, <1>10, <1>11
    <2>2. LeadingOf(f) = Leading(command)
        <3> HIDE DEF command
        <3> QED
            BY <1>8, <1>11 DEF LeadingOf
    <2>3. head = Taken(f.head, lt)
        <3> DEFINE k == LeadingOf(f)
                   h == f.head
                   rest == From(b, ls)
        <3>1. IsLayout(k) /\ Fits(k, h) /\ Writable(k, h) /\ Carries(k, h)
            BY <1>10, ThereFits
        <3>2. Starts(rest, WriteRecord(k, h))
            BY <1>2
        <3>3. head = ReadRecord(k, rest)
            <4> HIDE DEF ls
            <4> QED
                BY <2>2, <1>7 DEF HeadOf
        <3>4. lt = Len(WriteRecord(k, h))
            OBVIOUS
        <3> HIDE DEF k, h, rest, head, lt
        <3>5. ReadRecord(k, rest) = Taken(h, Len(WriteRecord(k, h)))
            BY <3>1, <3>2, RecordRead
        <3> QED
            BY <3>3, <3>4, <3>5 DEF h
    <2>4. head.outcome = "taken" /\ head.value = f.head /\ head.length = lt
        <3> HIDE DEF head, lt
        <3> QED
            BY <2>3, TakenParts
    <2>5. StartRead(b) = Taken(FrameOf("global", head.value, b), header.length + head.length)
        BY <2>1, <2>4, <1>7, StartCases
    <2> HIDE DEF fields, n, header, v, head, ls, lt, c
    <2>6. FrameOf("global", head.value, b) = Bare(f)
        BY <2>1, <2>4, <1>9, <1>10, Zenon
    <2>7. StartRead(b) = Taken(Bare(f), Len(c))
        BY <2>4, <2>5, <2>6, <1>2, <1>7
    <2> QED
        BY <2>7 DEF c
<1>12. CASE ~IsGlobal(f)
    <2>1. b[1] % 4 = 1 /\ f.type = "specific"
        BY <1>3, <1>10, <1>12, ControlBits DEF IsGlobal
    <2>2. f.head = <<>> /\ lt = 0
        <3>1. LeadingOf(f) = <<>>
            BY <1>12, Zenon DEF LeadingOf
        <3>2. IsSeq(f.head) /\ Len(f.head) = 0
            BY <3>1, <1>10 DEF AllThere
        <3>3. f.head = <<>>
            BY <3>2 DEF IsSeq
        <3>4. t = FlattenSeq(RecordParts(<<>>, <<>>))
            BY <3>1, <3>3 DEF WriteRecord, RecordParts
        <3>5. RecordParts(<<>>, <<>>) = <<>>
            BY DEF RecordParts
        <3>6. t = <<>>
            BY <3>4, <3>5, FlattenNothing
        <3>7. lt = 0
            BY <3>6
        <3> QED
            BY <3>3, <3>7
    <2>3. StartRead(b) = Taken(FrameOf("specific", <<>>, b), header.length)
        BY <2>1, <1>7, StartCases
    <2> HIDE DEF fields, n, header, v, head, ls, lt, c
    <2>4. FrameOf("specific", <<>>, b) = Bare(f)
        BY <2>1, <2>2, <1>9, <1>10, Zenon
    <2>5. ls \in Nat
        <3>1. s \in Bytes
            BY HeadWritten
        <3> QED
            BY <3>1, BytesConcat DEF ls
    <2>6. StartRead(b) = Taken(Bare(f), Len(c))
        BY <2>2, <2>3, <2>4, <2>5, <1>2, <1>7
    <2> QED
        BY <2>6 DEF c
<1> QED
    BY <1>11, <1>12

\* The start of a frame that is read of any bytes is that of some frame.
LEMMA StartMade ==
    ASSUME NEW b \in Bytes, b # <<>>, NEW r, r = StartRead(b)
    PROVE  /\ r.outcome = "taken" =>
                 IsFrame(r.value) /\ r.value.items = <<>> /\ r.length \in 0..Len(b)
           /\ r.outcome # "taken" => r \in {Refused, Halted}
<1> DEFINE header == HeaderOf(b)
           fields == HeaderFields(b[1])
           n == FieldCount(b)
           v == header.value
           command == CommandOf(b)
           head == HeadOf(b)
           N == Len(b)
<1>1. N \in Nat
    BY BytesConcat
<1>2. fields \in {Short, Long} /\ IsLayout(fields)
    BY HeaderLayouts, HeadersAreLayouts
<1>3. header \in Made(Records(fields), N)
    BY <1>2, RecordMade DEF HeaderOf
<1>4. header.outcome # "taken" => header \in {Refused, Halted}
    <2> HIDE DEF header, fields, N
    <2> QED
        BY <1>1, <1>3, MadeCases
<1>5. ASSUME header.outcome = "taken"
      PROVE  /\ header.length \in 0..N
             /\ command \in Byte /\ v[n - 1] \in Byte
             /\ (IF n = 4 THEN v[2] ELSE None) \in Word \cup {None}
    <2>1. header.length \in 0..N /\ v \in Records(fields)
        <3> HIDE DEF header, fields, N
        <3> QED
            BY <1>1, <1>3, <1>5, MadeCases
    <2> DEFINE l == fields
               m == Len(l)
    <2>2. \A i \in 1..m : Part1(l, v, i)
        <3> HIDE DEF v, l
        <3> QED
            BY <1>2, <2>1, RecordFacts DEF l
    <2>3. \A i \in 1..m : l[i].at = 0
        <3> HIDE DEF l
        <3> QED
            BY <1>2, HeadersAreLayouts DEF l
    <2>4. \A i \in 1..m : v[i] \in FieldValues(l[i].type)
        <3> HIDE DEF v, l, m
        <3> QED
            BY <2>2, <2>3 DEF Part1, Wanted
    <2>5. n = m /\ command = v[n]
        BY DEF FieldCount, CommandOf
    <2>6. FieldValues("u8") = Byte /\ FieldValues("u16") = Word
        BY FieldValuesAre
    <2>7. CASE l = Short
        <3>1. 3 = m /\ l[2].type = "u8" /\ l[3].type = "u8"
            BY <2>7, HeadersAreLayouts
        <3> HIDE DEF v, l, m, n, command
        <3>2. 2 \in 1..m /\ 3 \in 1..m /\ n = 3 /\ n - 1 = 2 /\ n # 4
            BY <3>1, <2>5
        <3>3. v[2] \in Byte /\ v[3] \in Byte
            BY <3>1, <3>2, <2>4, <2>6
        <3>4. command = v[3] /\ v[n - 1] = v[2]
            BY <3>2, <2>5
        <3> QED
            BY <3>2, <3>3, <3>4, <2>1
    <2>8. CASE l = Long
        <3>1. 4 = m /\ l[2].type = "u16" /\ l[3].type = "u8" /\ l[4].type = "u8"
            BY <2>8, HeadersAreLayouts
        <3> HIDE DEF v, l, m, n, command
        <3>2. 2 \in 1..m /\ 3 \in 1..m /\ 4 \in 1..m /\ n = 4 /\ n - 1 = 3
            BY <3>1, <2>5
        <3>3. v[2] \in Word /\ v[3] \in Byte /\ v[4] \in Byte
            BY <3>1, <3>2, <2>4, <2>6
        <3>4. command = v[4] /\ v[n - 1] = v[3]
            BY <3>2, <2>5
        <3> QED
            BY <3>2, <3>3, <3>4, <2>1
    <2> QED
        BY <2>7, <2>8, <1>2
<1>6. CASE header.outcome # "taken"
    <2>1. r = header
        BY <1>6, StartCases
    <2> HIDE DEF header
    <2>2. r.outcome # "taken" /\ r \in {Refused, Halted}
        BY <2>1, <1>4, <1>6
    <2> QED
        BY <2>2
<1>7. CASE header.outcome = "taken" /\ b[1] % 4 = 1
    <2> DEFINE f == FrameOf("specific", <<>>, b)
    <2>1. r = Taken(f, header.length)
        BY <1>7, StartCases
    <2>2. /\ f = [type |-> "specific", code |-> IF n = 4 THEN v[2] ELSE None,
                  back |-> (b[1] \div 8) % 2 = 1, quiet |-> (b[1] \div 16) % 2 = 1,
                  sequence |-> v[n - 1], command |-> command, head |-> <<>>, items |-> <<>>]
        BY Zenon DEF FrameOf
    <2> HIDE DEF f, n, v, command, header
    <2>3. IsFrame(f)
        <3>1. /\ f.type = "specific" /\ f.head = <<>> /\ f.items = <<>>
              /\ f \in [type : {"global", "specific"}, code : Word \cup {None}, back : BOOLEAN,
                        quiet : BOOLEAN, sequence : Byte, command : Byte, head : {f.head},
                        items : {f.items}]
            BY <2>2, <1>5, <1>7
        <3>2. ~IsGlobal(f) /\ LeadingOf(f) = <<>>
            BY <3>1, Zenon DEF IsGlobal, LeadingOf
        <3>3. Fits(<<>>, <<>>) /\ IsSeq(<<>>) /\ DOMAIN <<>> = {}
            BY DEF Fits, IsSeq
        <3>4. ItemOf(f) = <<Always("u8")>>
            BY <3>2, Zenon DEF ItemOf
        <3> QED
            BY <3>1, <3>2, <3>3, <3>4 DEF IsFrame
    <2>4. f.items = <<>>
        BY <2>2
    <2>5. r.outcome = "taken" /\ r.value = f /\ r.length = header.length
        BY <2>1, TakenParts
    <2> QED
        BY <2>3, <2>4, <2>5, <1>5, <1>7
<1>8. CASE header.outcome = "taken" /\ b[1] % 4 # 1
           /\ (b[1] % 4 # 0 \/ command \notin GlobalCommand)
    <2>1. r = Refused
        BY <1>8, StartCases
    <2> QED
        BY <2>1 DEF Refused
<1>9. CASE header.outcome = "taken" /\ b[1] % 4 # 1 /\ b[1] % 4 = 0
           /\ command \in GlobalCommand
    <2> DEFINE f == FrameOf("global", head.value, b)
               l == Leading(command)
               rest == From(b, header.length)
               M == Len(rest)
    <2>1. /\ head.outcome # "taken" => r = head
          /\ head.outcome = "taken" => r = Taken(f, header.length + head.length)
        BY <1>9, StartCases
    <2>2. f = [type |-> "global", code |-> IF n = 4 THEN v[2] ELSE None,
               back |-> (b[1] \div 8) % 2 = 1, quiet |-> (b[1] \div 16) % 2 = 1,
               sequence |-> v[n - 1], command |-> command, head |-> head.value, items |-> <<>>]
        BY Zenon DEF FrameOf
    <2>3. IsLayout(l) /\ l \in LeadingLayouts
        BY <1>9, Items, LayoutsAreLayouts
    <2>4. rest \in Bytes /\ M = N - header.length
        <3> DEFINE k == header.length
        <3>1. k \in Nat /\ k <= Len(b)
            BY <1>1, <1>5, <1>9
        <3> HIDE DEF k
        <3>2. From(b, k) \in Seq(Byte) /\ Len(From(b, k)) = Len(b) - k
            BY <3>1, FromType DEF Bytes
        <3> QED
            BY <3>2 DEF k, Bytes
    <2>5. head \in Made(Records(l), M) /\ M \in Nat
        BY <2>3, <2>4, RecordMade, BytesConcat DEF HeadOf
    <2> HIDE DEF head, l, M
    <2>6. /\ head.outcome # "taken" => head \in {Refused, Halted}
          /\ head.outcome = "taken" => head.value \in Records(l) /\ head.length \in 0..M
        BY <2>5, MadeCases
    <2>7. CASE head.outcome # "taken"
        BY <2>1, <2>6, <2>7
    <2>8. CASE head.outcome = "taken"
        <3>1. header.length + head.length \in 0..N
            <4> DEFINE x == header.length
                       y == head.length
            <4>1. x \in 0..N /\ M = N - x /\ y \in 0..M
                BY <2>4, <2>6, <2>8, <1>5, <1>9
            <4> HIDE DEF x, y, N
            <4>2. x + y \in 0..N
                BY <4>1, <1>1
            <4> QED
                BY <4>2 DEF x, y
        <3> DEFINE h == head.value
        <3>2. Fits(l, h) /\ Len(h) = Len(l) /\ (\A i \in 1..Len(l) : Part1(l, h, i)) /\ h \in Seq(Anything)
            <4> HIDE DEF h
            <4> QED
                BY <2>3, <2>6, <2>8, RecordFacts DEF h
        <3> HIDE DEF f, n, v, command, header, h
        <3>3. /\ f.type = "global" /\ f.head = h /\ f.items = <<>> /\ f.command = command
              /\ f \in [type : {"global", "specific"}, code : Word \cup {None}, back : BOOLEAN,
                        quiet : BOOLEAN, sequence : Byte, command : Byte, head : {f.head},
                        items : {f.items}]
            BY <2>2, <1>5, <1>9 DEF h
        <3>4. IsGlobal(f) /\ LeadingOf(f) = l
            BY <3>3, Zenon DEF IsGlobal, LeadingOf, l
        <3>5. \A i \in DOMAIN h : h[i] # None
            <4>1. \A i \in 1..Len(l) : l[i].at = 0
                BY <2>3, LeadingAlways
            <4>2. \A i \in 1..Len(l) : h[i] # None
                BY <3>2, <4>1 DEF Part1, Wanted
            <4>3. DOMAIN h = 1..Len(h)
                BY <3>2
            <4> QED
                BY <3>2, <4>2, <4>3
        <3>6. IsSeq(<<>>) /\ DOMAIN <<>> = {}
            BY DEF IsSeq
        <3>7. IsFrame(f)
            BY <3>2, <3>3, <3>4, <3>5, <3>6, <1>9 DEF IsFrame
        <3>8. r.outcome = "taken" /\ r.value = f /\ r.length = header.length + head.length
            BY <2>1, <2>8, TakenParts
        <3> QED
            BY <3>1, <3>3, <3>7, <3>8
    <2> QED
        BY <2>7, <2>8
<1> QED
    BY <1>6, <1>7, <1>8, <1>9

-----------------------------------------------------------------------------
(* The frame on the air. *)

PartsUpTo(f, n) == [i \in 1..n |-> WriteRecord(ItemOf(f), f.items[i])]
WrittenUpTo(f, n) == Start(f) \o FlattenSeq(PartsUpTo(f, n))
AllWritable(f, n) == \A i \in 1..n : Writable(ItemOf(f), f.items[i])

\* The items written so far are bytes.
LEMMA UpToType ==
    ASSUME NEW f, IsFrame(f), NEW n \in 0..Len(f.items), AllWritable(f, n)
    PROVE  /\ PartsUpTo(f, n) \in Seq(Bytes) /\ Len(PartsUpTo(f, n)) = n
           /\ \A i \in 1..n : PartsUpTo(f, n)[i] = WriteRecord(ItemOf(f), f.items[i])
           /\ FlattenSeq(PartsUpTo(f, n)) \in Bytes
           /\ WrittenUpTo(f, n) \in Bytes
<1> DEFINE p == PartsUpTo(f, n)
           l == ItemOf(f)
<1>1. /\ IsLayout(l) /\ Len(f.items) \in Nat
      /\ \A i \in 1..Len(f.items) : Fits(l, f.items[i])
    BY FrameFacts
<1>2. n \in Nat /\ \A i \in 1..n : i \in 1..Len(f.items)
    BY <1>1
<1>3. \A i \in 1..n : Writable(l, f.items[i])
    BY DEF AllWritable
<1> HIDE DEF l
<1>4. \A i \in 1..n : WriteRecord(l, f.items[i]) \in Bytes
    <2> SUFFICES ASSUME NEW i \in 1..n
                 PROVE  WriteRecord(l, f.items[i]) \in Bytes
        OBVIOUS
    <2> DEFINE x == f.items[i]
    <2>1. Fits(l, x) /\ Writable(l, x)
        BY <1>1, <1>2, <1>3
    <2> HIDE DEF x
    <2>2. WriteRecord(l, x) \in Bytes
        BY <1>1, <2>1, RecordWritten
    <2> QED
        BY <2>2 DEF x
<1>5. p = [i \in 1..n |-> WriteRecord(l, f.items[i])]
    BY DEF PartsUpTo, l
<1> HIDE DEF p
<1>6. p \in [1..n -> Bytes] /\ \A i \in 1..n : p[i] = WriteRecord(l, f.items[i])
    BY <1>4, <1>5
<1>7. p \in Seq(Bytes) /\ Len(p) = n
    BY <1>2, <1>6, FunctionIsSeq
<1>8. FlattenSeq(p) \in Bytes
    BY <1>7, FlattenType
<1>9. WrittenUpTo(f, n) \in Bytes
    <2>1. Start(f) \in Bytes
        BY StartWritten
    <2> QED
        BY <2>1, <1>8, BytesConcat DEF WrittenUpTo, p
<1> QED
    BY <1>6, <1>7, <1>8, <1>9 DEF p, l

\* Without items the start is all.
LEMMA UpToZero ==
    ASSUME NEW f, IsFrame(f)
    PROVE  WrittenUpTo(f, 0) = Start(f)
<1>1. PartsUpTo(f, 0) = <<>>
    BY DEF PartsUpTo
<1>2. Start(f) \in Bytes
    BY StartWritten
<1>3. Start(f) \o <<>> = Start(f)
    BY <1>2, BytesConcat, Zenon
<1> QED
    BY <1>1, <1>3, FlattenNothing DEF WrittenUpTo

\* One item more is written behind the others.
LEMMA UpToNext ==
    ASSUME NEW f, IsFrame(f), NEW n \in Nat, n < Len(f.items), AllWritable(f, n + 1)
    PROVE  WrittenUpTo(f, n + 1) = WrittenUpTo(f, n) \o WriteRecord(ItemOf(f), f.items[n + 1])
<1> DEFINE p == PartsUpTo(f, n)
           q == PartsUpTo(f, n + 1)
           x == WriteRecord(ItemOf(f), f.items[n + 1])
           a == Start(f)
<1>1. Len(f.items) \in Nat
    BY FrameFacts
<1>2. n \in 0..Len(f.items) /\ n + 1 \in 0..Len(f.items) /\ n + 1 \in 1..n + 1
    BY <1>1
<1>3. AllWritable(f, n)
    BY DEF AllWritable
<1>4. /\ p \in Seq(Bytes) /\ Len(p) = n /\ FlattenSeq(p) \in Bytes
      /\ \A i \in 1..n : p[i] = WriteRecord(ItemOf(f), f.items[i])
    BY <1>2, <1>3, UpToType
<1>5. /\ q \in Seq(Bytes) /\ Len(q) = n + 1 /\ q[n + 1] = x /\ x \in Bytes
      /\ \A i \in 1..n : q[i] = WriteRecord(ItemOf(f), f.items[i])
    <2> DEFINE m == n + 1
    <2>1. m \in 0..Len(f.items) /\ AllWritable(f, m)
        BY <1>2
    <2> HIDE DEF m
    <2>2. /\ PartsUpTo(f, m) \in Seq(Bytes) /\ Len(PartsUpTo(f, m)) = m
          /\ \A i \in 1..m : PartsUpTo(f, m)[i] = WriteRecord(ItemOf(f), f.items[i])
        BY <2>1, UpToType
    <2>3. /\ q \in Seq(Bytes) /\ Len(q) = n + 1
          /\ \A i \in 1..n + 1 : q[i] = WriteRecord(ItemOf(f), f.items[i])
        BY <2>2 DEF m
    <2>4. q[n + 1] = x
        BY <2>3, <1>2
    <2>5. \A i \in 1..n : q[i] = WriteRecord(ItemOf(f), f.items[i])
        BY <2>3
    <2> HIDE DEF q, x
    <2>6. q[n + 1] \in Bytes
        BY <2>3, <1>2
    <2> QED
        BY <2>3, <2>4, <2>5, <2>6
<1> HIDE DEF p, q, x
<1>6. q = Append(p, x)
    <2> DEFINE r == Append(p, x)
    <2>1. /\ r \in Seq(Bytes) /\ Len(r) = n + 1 /\ r[n + 1] = x
          /\ \A i \in 1..n : r[i] = p[i]
        BY <1>4, <1>5, AppendProperties
    <2> HIDE DEF r
    <2>2. Len(q) = Len(r)
        BY <2>1, <1>5
    <2>3. \A i \in 1..Len(q) : q[i] = r[i]
        BY <2>1, <1>4, <1>5, SMTT(30)
    <2>4. q = r
        BY <2>1, <2>2, <2>3, <1>5, SeqEqual
    <2> QED
        BY <2>4 DEF r
<1>7. FlattenSeq(q) = FlattenSeq(p) \o x
    BY <1>4, <1>5, <1>6, FlattenAppend
<1>8. a \in Bytes
    BY StartWritten
<1> HIDE DEF a
<1> DEFINE e == FlattenSeq(p)
<1> HIDE DEF e
<1>9. (a \o e) \o x = a \o (e \o x)
    BY <1>4, <1>5, <1>8, BytesConcat, ZenonT(60) DEF e
<1>10. WrittenUpTo(f, n) = a \o e
    BY Zenon DEF WrittenUpTo, a, e, p
<1>11. WrittenUpTo(f, n + 1) = a \o FlattenSeq(q)
    BY Zenon DEF WrittenUpTo, a, q
<1>12. FlattenSeq(q) = e \o x
    BY <1>7 DEF e
<1>13. WrittenUpTo(f, n + 1) = WrittenUpTo(f, n) \o x
    BY <1>9, <1>10, <1>11, <1>12
<1> QED
    BY <1>13 DEF x

\* The first n parts flatten to what has been laid of them.
LEMMA FlattenFront ==
    ASSUME NEW p \in Seq(Bytes), NEW g, Laid(p, g), NEW n \in 0..Len(p),
           NEW q \in Seq(Bytes), Len(q) = n, \A i \in 1..n : q[i] = p[i]
    PROVE  FlattenSeq(q) = g[n]
<1> DEFINE h == [i \in 0..n |-> g[i]]
           m == Len(p)
<1>1. /\ m \in Nat /\ n \in Nat /\ n <= m
      /\ g \in [0..m -> Bytes] /\ g[0] = <<>> /\ \A i \in 1..m : g[i] = g[i - 1] \o p[i]
    BY DEF Laid
<1> HIDE DEF m
<1>2. h \in [0..n -> Bytes] /\ h[0] = <<>> /\ h[n] = g[n]
    BY <1>1
<1>3. ASSUME NEW i \in 1..n
      PROVE  h[i] = h[i - 1] \o q[i]
    <2>1. i \in 1..m /\ i \in 0..n /\ i - 1 \in 0..n
        BY <1>1
    <2>2. g[i] = g[i - 1] \o p[i] /\ q[i] = p[i]
        BY <2>1, <1>1
    <2> QED
        BY <2>1, <2>2
<1> HIDE DEF h
<1>4. Laid(q, h)
    BY <1>2, <1>3 DEF Laid
<1>5. FlattenSeq(q) = h[Len(q)]
    BY <1>4, LaidFlat
<1> QED
    BY <1>2, <1>5

\* What is written of an item follows what was written before it.
LEMMA UpToReads ==
    ASSUME NEW f, IsFrame(f), NEW n \in 0..Len(f.items), AllWritable(f, n), NEW i \in 1..n
    PROVE  /\ WrittenUpTo(f, n) \in Bytes
           /\ Starts(From(WrittenUpTo(f, n), Len(WrittenUpTo(f, i - 1))),
                     WriteRecord(ItemOf(f), f.items[i]))
           /\ Len(WrittenUpTo(f, i))
              = Len(WrittenUpTo(f, i - 1)) + Len(WriteRecord(ItemOf(f), f.items[i]))
           /\ Len(WrittenUpTo(f, i)) <= Len(WrittenUpTo(f, n))
           /\ Len(WrittenUpTo(f, i - 1)) \in Nat
           /\ WriteRecord(ItemOf(f), f.items[i]) \in Bytes
<1> DEFINE p == PartsUpTo(f, n)
           a == Start(f)
           b == WrittenUpTo(f, n)
           x == WriteRecord(ItemOf(f), f.items[i])
<1>1. n \in Nat /\ i \in Nat /\ i - 1 \in 0..n /\ i \in 0..n /\ Len(f.items) \in Nat
    BY FrameFacts
<1>2. /\ p \in Seq(Bytes) /\ Len(p) = n /\ b \in Bytes
      /\ \A j \in 1..n : p[j] = WriteRecord(ItemOf(f), f.items[j])
    BY UpToType
<1>3. a \in Bytes
    BY StartWritten
<1>4. b = a \o FlattenSeq(p)
    BY Zenon DEF WrittenUpTo
<1>5. PICK g : Laid(p, g)
    BY <1>2, LaidExists
<1>6. ASSUME NEW k \in 0..n
      PROVE  WrittenUpTo(f, k) = a \o g[k] /\ g[k] \in Bytes
    <2> DEFINE q == PartsUpTo(f, k)
    <2>1. k \in 0..Len(f.items) /\ AllWritable(f, k)
        BY <1>1 DEF AllWritable
    <2>2. /\ q \in Seq(Bytes) /\ Len(q) = k
          /\ \A j \in 1..k : q[j] = WriteRecord(ItemOf(f), f.items[j])
        BY <2>1, UpToType
    <2>3. k \in 0..Len(p) /\ \A j \in 1..k : q[j] = p[j]
        BY <2>2, <1>1, <1>2
    <2> HIDE DEF p, q
    <2>4. FlattenSeq(q) = g[k]
        BY <2>2, <2>3, <1>2, <1>5, FlattenFront
    <2>5. g[k] \in Bytes
        BY <2>3, <1>5 DEF Laid
    <2>6. WrittenUpTo(f, k) = a \o FlattenSeq(q)
        BY Zenon DEF WrittenUpTo, q
    <2> QED
        BY <2>4, <2>5, <2>6
<1> HIDE DEF p, a, x
<1>7. b = a \o g[n] /\ g[n] \in Bytes
    BY <1>1, <1>6
<1> DEFINE u == WrittenUpTo(f, i - 1)
           w == WrittenUpTo(f, i)
<1>8. u = a \o g[i - 1] /\ w = a \o g[i]
    BY <1>1, <1>6
<1> HIDE DEF b, u, w
<1>9. EndToEnd(b, a, g[Len(p)])
    BY <1>2, <1>3, <1>7 DEF EndToEnd
<1>10. Starts(b, b)
    <2>1. Len(b) \in Nat
        BY <1>2, BytesConcat
    <2> QED
        BY <2>1, <1>2 DEF Starts
<1>11. i \in 1..Len(p)
    BY <1>2
<1>12. /\ Starts(From(b, Len(a) + Len(g[i - 1])), p[i])
       /\ Len(a) + Len(g[i]) <= Len(b)
    BY <1>2, <1>5, <1>9, <1>10, <1>11, LaidNext
<1>13. /\ p[i] \in Bytes /\ g[i - 1] \in Bytes /\ g[i] \in Bytes
       /\ Len(g[i]) = Len(g[i - 1]) + Len(p[i])
    BY <1>2, <1>5, <1>11, LaidStep
<1>14. p[i] = x
    BY <1>2 DEF x
<1>15. Len(u) = Len(a) + Len(g[i - 1]) /\ Len(w) = Len(a) + Len(g[i])
    BY <1>3, <1>8, <1>13, BytesConcat
<1> DEFINE na == Len(a)
           n0 == Len(g[i - 1])
           n1 == Len(g[i])
           nx == Len(x)
<1>16. na \in Nat /\ n0 \in Nat /\ nx \in Nat /\ n1 = n0 + nx
    BY <1>3, <1>13, <1>14, BytesConcat
<1>17. Len(u) = na + n0 /\ Len(w) = na + n1 /\ na + n1 <= Len(b)
    BY <1>12, <1>15
<1>18. Starts(From(b, Len(u)), x)
    BY <1>12, <1>14, <1>15
<1> HIDE DEF na, n0, n1, nx
<1>19. Len(w) = Len(u) + nx /\ Len(w) <= Len(b) /\ Len(u) \in Nat
    BY <1>16, <1>17
<1> QED
    BY <1>2, <1>13, <1>14, <1>18, <1>19 DEF b, u, w, x, nx

\* A frame on the air starts with its start.
LEMMA UpToStarts ==
    ASSUME NEW f, IsFrame(f), NEW n \in 0..Len(f.items), AllWritable(f, n)
    PROVE  Starts(WrittenUpTo(f, n), Start(f)) /\ Len(Start(f)) \in Nat
<1> DEFINE a == Start(f)
           t == FlattenSeq(PartsUpTo(f, n))
           b == WrittenUpTo(f, n)
<1>1. a \in Bytes /\ t \in Bytes
    BY StartWritten, UpToType
<1>2. b = a \o t
    BY Zenon DEF WrittenUpTo
<1> HIDE DEF a, t, b
<1>3. EndToEnd(b, a, t)
    BY <1>1, <1>2 DEF EndToEnd
<1>4. /\ b \in Bytes /\ Len(b) = Len(a) + Len(t) /\ Len(a) \in Nat /\ Len(t) \in Nat
      /\ \A i \in 1..Len(a) : b[i] = a[i]
    BY <1>3, EndToEndFacts
<1>5. Len(a) <= Len(b)
    BY <1>4
<1> QED
    BY <1>1, <1>4, <1>5 DEF Starts, a, b

-----------------------------------------------------------------------------
(* Items that the format carries. *)

\* The format carries the fields of an item that is not awkward.
LEMMA NotAwkward ==
    ASSUME NEW f, IsFrame(f), NEW i \in 1..Len(f.items), ~Awkward(f, i)
    PROVE  Writable(ItemOf(f), f.items[i]) /\ Carries(ItemOf(f), f.items[i])
<1> DEFINE l == ItemOf(f)
           r == f.items[i]
<1>1. DOMAIN l = 1..Len(l)
    BY FrameFacts DEF IsLayout
<1>2. \A k \in 1..Len(l) :
        /\ (r[k] # None) = Wanted(l[k], r)
        /\ l[k].type # "selector"
        /\ l[k].type = "data" /\ r[k] # None => ~AwkwardData(r[k])
    BY <1>1 DEF Awkward
<1> HIDE DEF l, r
<1>3. Carries(l, r)
    BY <1>2 DEF Carries, Carried1
<1>4. \A d : ~AwkwardData(d) => d \in Data
    <2>1. MaxDepth + 1 \in Nat
        BY DepthAssumption
    <2>2. Faithful(Level[MaxDepth + 1], PlainLevel[MaxDepth + 1])
        BY <2>1, LevelsFaithful
    <2> QED
        BY <2>2 DEF Faithful, AwkwardData, Data, Whole
<1>5. Writable(l, r)
    BY <1>1, <1>2, <1>4 DEF Writable
<1> QED
    BY <1>3, <1>5 DEF l, r

-----------------------------------------------------------------------------
(* Finite sets of numbers. *)

\* There are finitely many words.
LEMMA WordsAreFinite ==
    ASSUME NEW S, S \subseteq Word
    PROVE  IsFiniteSet(S)
<1> DEFINE n == 65536
<1>1. n \in Nat
    OBVIOUS
<1>2. \A s \in S : s \in Nat /\ s < 65536
    BY WordFits
<1>3. \A s \in S : s \in Nat /\ s <= n
    BY <1>2
<1> HIDE DEF n
<1>4. S \in SUBSET Nat
    BY <1>3
<1> QED
    BY <1>1, <1>3, <1>4, FS_BoundedSetOfNaturals

\* A set of numbers below a bound has a greatest one.
LEMMA Greatest ==
    ASSUME NEW n \in Nat, NEW S, S \subseteq 0..n, S # {}
    PROVE  \E m \in S : \A y \in S : y <= m
<1> DEFINE U == {k \in Nat : \A T \in SUBSET (0..k) : T # {} => \E m \in T : \A y \in T : y <= m}
<1>1. 0 \in U
    <2> SUFFICES ASSUME NEW T \in SUBSET (0..0), T # {}
                 PROVE  \E m \in T : \A y \in T : y <= m
        OBVIOUS
    <2>1. PICK m \in T : TRUE
        OBVIOUS
    <2>2. m = 0 /\ \A y \in T : y = 0
        OBVIOUS
    <2>3. \A y \in T : y <= m
        BY <2>2
    <2> QED
        BY <2>3
<1>2. ASSUME NEW k \in Nat, k \in U
      PROVE  k + 1 \in U
    <2> SUFFICES ASSUME NEW T \in SUBSET (0..(k + 1)), T # {}
                 PROVE  \E m \in T : \A y \in T : y <= m
        OBVIOUS
    <2>1. CASE k + 1 \in T
        BY <2>1
    <2>2. CASE k + 1 \notin T
        <3>1. T \in SUBSET (0..k)
            BY <2>2
        <3> QED
            BY <3>1, <1>2
    <2> QED
        BY <2>1, <2>2
<1>3. Nat \subseteq U
    <2> HIDE DEF U
    <2> QED
        BY <1>1, <1>2, InductionSet
<1> QED
    BY <1>3

\* It is what Max returns.
LEMMA MaxOfPlaces ==
    ASSUME NEW n \in Nat, NEW S, S \subseteq 1..n, S # {}
    PROVE  Max(S) \in S /\ \A y \in S : y <= Max(S)
<1>1. S \subseteq 0..n /\ \A y \in S : y \in Nat
    OBVIOUS
<1>2. PICK m \in S : \A y \in S : y <= m
    BY <1>1, Greatest
<1>3. \E x \in S : \A y \in S : x >= y
    BY <1>1, <1>2
<1>4. Max(S) \in S /\ \A y \in S : Max(S) >= y
    BY <1>3 DEF Max
<1> QED
    BY <1>1, <1>4

\* In a finite set of numbers every place but those behind the last is taken.
Below(S, x) == {y \in S : y < x}

\* A set of words has one of each rank.
LEMMA Ranks ==
    ASSUME NEW S, S \subseteq Word, NEW k \in 0..(Cardinality(S) - 1)
    PROVE  \E x \in S : Cardinality(Below(S, x)) = k
<1> DEFINE Ranked(T) == \A j \in 0..(Cardinality(T) - 1) :
                            \E x \in T : Cardinality(Below(T, x)) = j
           U == {n \in Nat : \A T \in SUBSET Word : Cardinality(T) = n => Ranked(T)}
<1>1. 0 \in U
    <2>1. \A T \in SUBSET Word : Cardinality(T) = 0 => Ranked(T)
        OBVIOUS
    <2> HIDE DEF Ranked
    <2> QED
        BY <2>1
<1>2. ASSUME NEW n \in Nat, n \in U
      PROVE  n + 1 \in U
    <2> SUFFICES ASSUME NEW T \in SUBSET Word, Cardinality(T) = n + 1
                 PROVE  Ranked(T)
        OBVIOUS
    <2>1. IsFiniteSet(T) /\ \A y \in T : y \in Nat /\ y < 65536
        BY WordsAreFinite, WordFits
    <2>2. T # {}
        BY FS_EmptySet
    <2>3. PICK m \in T : \A y \in T : y <= m
        <3> DEFINE top == 65536
        <3>1. top \in Nat /\ \A y \in T : y \in Nat /\ y <= top
            BY <2>1
        <3> HIDE DEF top
        <3>2. T \subseteq 0..top
            BY <3>1
        <3> QED
            BY <2>2, <3>1, <3>2, Greatest
    <2> DEFINE V == T \ {m}
    <2>4. IsFiniteSet(V) /\ Cardinality(V) = n /\ V \in SUBSET Word
        BY <2>1, FS_RemoveElement
    <2>5. V = Below(T, m)
        BY <2>1, <2>3 DEF Below
    <2>6. \A x \in V : Below(T, x) = Below(V, x)
        BY <2>1, <2>3 DEF Below
    <2>7. Ranked(V)
        <3> HIDE DEF V, Ranked
        <3> QED
            BY <1>2, <2>4
    <2> HIDE DEF V
    <2>8. ASSUME NEW j \in 0..(Cardinality(T) - 1)
          PROVE  \E x \in T : Cardinality(Below(T, x)) = j
        <3>1. CASE j = n
            BY <3>1, <2>4, <2>5
        <3>2. CASE j # n
            <4>1. j \in 0..(Cardinality(V) - 1)
                BY <3>2, <2>4
            <4>2. PICK x \in V : Cardinality(Below(V, x)) = j
                BY <4>1, <2>7
            <4>3. x \in T /\ Cardinality(Below(T, x)) = j
                BY <4>2, <2>6 DEF V
            <4> QED
                BY <4>3
        <3> QED
            BY <3>1, <3>2
    <2> QED
        BY <2>8
<1>3. Nat \subseteq U
    <2> HIDE DEF U
    <2> QED
        BY <1>1, <1>2, InductionSet
<1>4. Cardinality(S) \in Nat /\ S \in SUBSET Word
    BY WordsAreFinite, FS_CardinalityType
<1>5. Ranked(S)
    <2> HIDE DEF Ranked
    <2> QED
        BY <1>3, <1>4
<1> QED
    BY <1>5

-----------------------------------------------------------------------------
(* The cluster. *)

\* What the assumption says of the cluster: places and identifiers belong to each
\* other.
LEMMA ClusterFacts ==
    /\ Len(Cluster) \in Nat
    /\ \A i \in Places : /\ Cluster[i].id \in Word /\ Cluster[i].default \in Data
                         /\ Cluster[i].write \in BOOLEAN
                         /\ Cluster[i].interval \in {None} \cup (Word \X Word)
    /\ \A id \in Ids : At(id) \in Places /\ Cluster[At(id)].id = id
    /\ \A i \in Places : Cluster[i].id \in Ids /\ At(Cluster[i].id) = i
    /\ \A a, b \in Ids : At(a) = At(b) => a = b
    /\ IdentifyTime \in Ids /\ Cluster[At(IdentifyTime)].default.tag = 33
    /\ Ids \subseteq Word /\ IsFiniteSet(Ids)
<1> DEFINE R == [id : Word, default : Data, write : BOOLEAN,
                 interval : {None} \cup (Word \X Word)]
<1>1. Cluster \in Seq(R)
    BY ClusterAssumption
<1>2. /\ Len(Cluster) \in Nat /\ DOMAIN Cluster = Places
      /\ \A i \in Places : Cluster[i] \in R
    <2> HIDE DEF R
    <2> QED
        BY <1>1 DEF Places
<1>3. \A i \in Places : /\ Cluster[i].id \in Word /\ Cluster[i].default \in Data
                        /\ Cluster[i].write \in BOOLEAN
                        /\ Cluster[i].interval \in {None} \cup (Word \X Word)
    BY <1>2, Zenon
<1>4. \A i, j \in Places : Cluster[i].id = Cluster[j].id => i = j
    BY <1>2, ClusterAssumption
<1>5. \A id \in Ids : At(id) \in Places /\ Cluster[At(id)].id = id
    BY DEF Ids, At
<1>6. \A i \in Places : Cluster[i].id \in Ids
    BY DEF Ids
<1>7. \A i \in Places : At(Cluster[i].id) = i
    BY <1>4, <1>5, <1>6
<1>8. \A a, b \in Ids : At(a) = At(b) => a = b
    BY <1>5
<1>9. IdentifyTime \in Ids /\ Cluster[At(IdentifyTime)].default.tag = 33
    <2>1. PICK i \in Places : Cluster[i].id = IdentifyTime /\ Cluster[i].default.tag = 33
        BY <1>2, ClusterAssumption
    <2>2. At(IdentifyTime) = i
        BY <2>1, <1>7
    <2> QED
        BY <2>1, <2>2, <1>6
<1>10. Ids \subseteq Word
    BY <1>3 DEF Ids
<1>11. IsFiniteSet(Ids)
    BY <1>10, WordsAreFinite
<1> QED
    BY <1>2, <1>3, <1>5, <1>6, <1>7, <1>8, <1>9, <1>10, <1>11

-----------------------------------------------------------------------------
(* Fields of records that were read. *)

\* A field that the layout wants is there.
LEMMA FieldThere ==
    ASSUME NEW layout, IsLayout(layout), NEW r \in Records(layout), NEW i \in 1..Len(layout),
           Wanted(layout[i], r)
    PROVE  r[i] # None /\ r[i] \in FieldValues(layout[i].type)
    BY RecordFacts DEF Part1

\* A field that is always there is wanted.
LEMMA AlwaysWanted ==
    ASSUME NEW f, f.at = 0, NEW r
    PROVE  Wanted(f, r)
    BY DEF Wanted

\* The fields of the short records.
LEMMA SimpleRecords ==
    /\ \A r \in Records(IdRecord) : r[1] \in Word
    /\ \A r \in Records(ByteRecord) : r[1] \in Byte
    /\ \A r \in Records(AttributeRecord) : r[1] \in Word /\ r[2] \in Data
    /\ \A r \in Records(ReportingConfigurationAttributeStatus) :
          r[1] \in {Report, Receive} /\ r[2] \in Word
<1>1. /\ IsLayout(IdRecord) /\ IsLayout(ByteRecord) /\ IsLayout(AttributeRecord)
      /\ IsLayout(ReportingConfigurationAttributeStatus)
    BY LayoutsAreLayouts DEF ItemLayouts
<1>2. /\ FieldValues("u8") = Byte /\ FieldValues("u16") = Word /\ FieldValues("data") = Data
      /\ FieldValues("direction") = {Report, Receive}
    BY FieldValuesAre
<1>3. ASSUME NEW r \in Records(IdRecord)
      PROVE  r[1] \in Word
    <2>1. 1 \in 1..Len(IdRecord) /\ IdRecord[1].at = 0 /\ IdRecord[1].type = "u16"
        BY DEF IdRecord, Always
    <2> QED
        BY <2>1, <1>1, <1>2, FieldThere, AlwaysWanted
<1>4. ASSUME NEW r \in Records(ByteRecord)
      PROVE  r[1] \in Byte
    <2>1. 1 \in 1..Len(ByteRecord) /\ ByteRecord[1].at = 0 /\ ByteRecord[1].type = "u8"
        BY DEF ByteRecord, Always
    <2> QED
        BY <2>1, <1>1, <1>2, FieldThere, AlwaysWanted
<1>5. ASSUME NEW r \in Records(AttributeRecord)
      PROVE  r[1] \in Word /\ r[2] \in Data
    <2> DEFINE l == AttributeRecord
    <2>1. /\ 1 \in 1..Len(l) /\ l[1].at = 0 /\ l[1].type = "u16"
          /\ 2 \in 1..Len(l) /\ l[2].at = 0 /\ l[2].type = "data"
        BY DEF AttributeRecord, Always
    <2> HIDE DEF l
    <2>2. IsLayout(l) /\ r \in Records(l)
        BY <1>1 DEF l
    <2> QED
        BY <2>1, <2>2, <1>2, FieldThere, AlwaysWanted
<1>6. ASSUME NEW r \in Records(ReportingConfigurationAttributeStatus)
      PROVE  r[1] \in {Report, Receive} /\ r[2] \in Word
    <2> DEFINE l == ReportingConfigurationAttributeStatus
    <2>1. /\ 1 \in 1..Len(l) /\ l[1].at = 0 /\ l[1].type = "direction"
          /\ 2 \in 1..Len(l) /\ l[2].at = 0 /\ l[2].type = "u16"
        BY DEF ReportingConfigurationAttributeStatus, Always
    <2> HIDE DEF l
    <2>2. IsLayout(l) /\ r \in Records(l)
        BY <1>1 DEF l
    <2>3. r[1] \in FieldValues("direction") /\ r[2] \in FieldValues("u16")
        BY <2>1, <2>2, FieldThere, AlwaysWanted
    <2> QED
        BY <2>3, <1>2
<1> QED
    BY <1>3, <1>4, <1>5, <1>6

\* The fields of a record that configures reporting.
LEMMA ReportingRecords ==
    ASSUME NEW r \in Records(ReportingRecord)
    PROVE  /\ r[1] \in {Report, Receive} /\ r[2] \in Word
           /\ r[1] = Report => r[4] \in Word /\ r[5] \in Word
<1> DEFINE l == ReportingRecord
<1>1. /\ FieldValues("u16") = Word /\ FieldValues("direction") = {Report, Receive}
    BY FieldValuesAre
<1>2. /\ 1 \in 1..Len(l) /\ l[1].at = 0 /\ l[1].type = "direction"
      /\ 2 \in 1..Len(l) /\ l[2].at = 0 /\ l[2].type = "u16"
    BY DEF ReportingRecord, Always
<1>3. /\ 4 \in 1..Len(l) /\ l[4].at = 1 /\ l[4].is = Report /\ l[4].type = "u16"
      /\ 5 \in 1..Len(l) /\ l[5].at = 1 /\ l[5].is = Report /\ l[5].type = "u16"
    BY DEF ReportingRecord, Given
<1>4. IsLayout(l) /\ r \in Records(l)
    BY LayoutsAreLayouts DEF ItemLayouts
<1> HIDE DEF l
<1>5. r[1] \in FieldValues("direction") /\ r[2] \in FieldValues("u16")
    BY <1>2, <1>4, FieldThere, AlwaysWanted
<1>6. ASSUME r[1] = Report
      PROVE  r[4] \in FieldValues("u16") /\ r[5] \in FieldValues("u16")
    <2>1. Wanted(l[4], r) /\ Wanted(l[5], r)
        BY <1>3, <1>6 DEF Wanted
    <2> QED
        BY <2>1, <1>3, <1>4, FieldThere
<1> QED
    BY <1>1, <1>5, <1>6

-----------------------------------------------------------------------------
(* Data. *)

TimeData == [1..2 -> Byte]

\* The identify time is a datum of two bytes.
LEMMA TimeDatum ==
    /\ \A v \in TimeData : Datum(33, v) \in Data /\ Datum(33, v).tag = 33
                           /\ Number(v) \in Word /\ Len(v) = 2
    /\ \A d \in Data : d.tag \in Byte /\ d = Datum(d.tag, d.value)
    /\ \A d \in Data : d.tag = 33 => d.value \in TimeData
<1>1. 33 \in Numeric /\ 33 \in SimpleTag /\ 33 \notin Compound
    BY DEF Numeric, SimpleTag, Compound
<1>2. Carried(33) = 2
    BY DEF Carried
<1>3. Held(33) = 2
    <2>1. 33 # Float16Tag
        BY DEF Float16Tag
    <2>2. \A n \in {1, 2, 4, 8} :
            (n >= 2 /\ \A m \in {1, 2, 4, 8} : m >= 2 => n <= m) <=> n = 2
        OBVIOUS
    <2>3. Held(33) = CHOOSE n \in {1, 2, 4, 8} :
                n >= Carried(33) /\ \A m \in {1, 2, 4, 8} : m >= Carried(33) => n <= m
        BY <2>1 DEF Held
    <2> QED
        BY <2>2, <2>3, <1>2
<1>4. Values(33) = TimeData
    BY <1>1, <1>3, NumericValues DEF TimeData
<1>5. MaxDepth \in Nat /\ Data = DataAbove(Level[MaxDepth])
    <2>1. MaxDepth \in Nat
        BY DepthAssumption
    <2>2. Level[MaxDepth + 1] = Above(Level[MaxDepth])
        BY <2>1, Levels
    <2> QED
        BY <2>1, <2>2 DEF Data, Whole, Above
<1>6. ASSUME NEW v \in TimeData
      PROVE  /\ Datum(33, v) \in Data /\ Datum(33, v).tag = 33 /\ Number(v) \in Word
             /\ Len(v) = 2
    <2>1. v \in Seq(Byte) /\ Len(v) = 2
        BY FunctionIsSeq DEF TimeData
    <2>2. v \in Seq(Byte \cup {None})
        BY <2>1, SeqMonotonic
    <2>3. Datum(33, v) \in Simple /\ Datum(33, v).tag = 33
        BY <2>2, <1>1, <1>4 DEF Simple, Datum
    <2>4. Number(v) \in Word
        <3>1. v \in Bytes /\ 2 <= Len(v)
            BY <2>1 DEF Bytes
        <3> QED
            BY <3>1, NumberIsWord
    <2> QED
        BY <2>1, <2>3, <2>4, <1>5 DEF DataAbove
<1>7. ASSUME NEW d \in Data
      PROVE  /\ d.tag \in Byte /\ d = Datum(d.tag, d.value)
             /\ d.tag = 33 => d.value \in TimeData
    <2> DEFINE l == Level[MaxDepth]
    <2>1. d \in Simple \/ d \in [tag : Compound, value : Seq(l.data)]
        BY <1>5 DEF DataAbove
    <2> HIDE DEF l
    <2>2. CASE d \in Simple
        BY <2>2, <1>4, SimpleParts, TagsAreBytes
    <2>3. CASE d \in [tag : Compound, value : Seq(l.data)]
        BY <2>3, <1>1, CompoundParts, TagsAreBytes
    <2> QED
        BY <2>1, <2>2, <2>3
<1> QED
    BY <1>6, <1>7

-----------------------------------------------------------------------------
(* Attributes and intervals. *)

IsValues(v) ==
    v \in [Places -> Data] /\ \A i \in Places : v[i].tag = Cluster[i].default.tag
IsConfig(c) ==
    /\ c \in [Places -> {None} \cup (Word \X Word)]
    /\ \A i \in Places : (c[i] = None) = (Cluster[i].interval = None)

\* The defaults are of their types.
LEMMA StartValues ==
    IsValues(Defaults) /\ IsConfig(Intervals)
    BY ClusterFacts DEF IsValues, IsConfig, Defaults, Intervals

\* The time that remains is a word.
LEMMA TimeOfValues ==
    ASSUME NEW v, IsValues(v)
    PROVE  v[At(IdentifyTime)].value \in TimeData /\ Remaining(v) \in Word
<1> DEFINE p == At(IdentifyTime)
<1>1. p \in Places /\ Cluster[p].default.tag = 33
    BY ClusterFacts
<1> HIDE DEF p
<1>2. v[p] \in Data /\ v[p].tag = 33
    BY <1>1 DEF IsValues
<1>3. v[p].value \in TimeData
    BY <1>2, TimeDatum
<1>4. Number(v[p].value) \in Word
    BY <1>3, TimeDatum
<1> QED
    BY <1>3, <1>4 DEF p, Remaining

\* Setting the identify time leaves the other attributes alone.
LEMMA TimeSet ==
    ASSUME NEW v, IsValues(v), NEW x \in TimeData
    PROVE  /\ IsValues([v EXCEPT ![At(IdentifyTime)].value = x])
           /\ \A i \in Places \ {At(IdentifyTime)} :
                 [v EXCEPT ![At(IdentifyTime)].value = x][i] = v[i]
<1> DEFINE p == At(IdentifyTime)
           w == [v EXCEPT ![p].value = x]
           d == [v[p] EXCEPT !.value = x]
<1>1. p \in Places /\ Cluster[p].default.tag = 33
    BY ClusterFacts
<1> HIDE DEF p
<1>2. v \in [Places -> Data] /\ v[p] \in Data /\ v[p].tag = 33
    BY <1>1 DEF IsValues
<1>3. d = Datum(33, x)
    <2>1. v[p] = Datum(33, v[p].value)
        BY <1>2, TimeDatum
    <2> QED
        BY <2>1 DEF Datum
<1>4. d \in Data /\ d.tag = 33
    BY <1>3, TimeDatum
<1>5. w = [v EXCEPT ![p] = d]
    OBVIOUS
<1> HIDE DEF d, w
<1>6. w \in [Places -> Data] /\ w[p] = d /\ \A i \in Places \ {p} : w[i] = v[i]
    BY <1>1, <1>2, <1>4, <1>5
<1>7. \A i \in Places : w[i].tag = Cluster[i].default.tag
    BY <1>1, <1>4, <1>6 DEF IsValues
<1> QED
    BY <1>6, <1>7 DEF IsValues, w, p

-----------------------------------------------------------------------------
(* What a command does to the cluster. *)

\* A frame as its reader makes it.
IsRead(f) ==
    IsFrame(f) /\ \A i \in 1..Len(f.items) : f.items[i] \in Records(ItemOf(f))

ItemsIn(layout) ==
    /\ Len(got.items) \in Nat /\ DOMAIN got.items = 1..Len(got.items)
    /\ \A i \in 1..Len(got.items) : got.items[i] \in Records(layout)

\* The items that were read are records of their layout.
LEMMA ItemsRecords ==
    ASSUME IsRead(got)
    PROVE  ItemsIn(ItemOf(got))
<1> DEFINE n == Len(got.items)
<1>1. n \in Nat /\ DOMAIN got.items = 1..n
    BY FrameFacts DEF IsRead
<1>2. \A i \in 1..n : got.items[i] \in Records(ItemOf(got))
    BY DEF IsRead
<1> QED
    BY <1>1, <1>2 DEF ItemsIn

\* A write that is accepted is of a known attribute and its type.
LEMMA WriteAccepted ==
    ASSUME NEW r \in Records(AttributeRecord)
    PROVE  /\ r[1] \in Word /\ WriteStatus(r) \in Status
           /\ WriteStatus(r) = Success =>
                 r[1] \in Ids /\ r[2] \in Data /\ r[2].tag = Cluster[At(r[1])].default.tag
<1>1. r[1] \in Word /\ r[2] \in Data
    BY SimpleRecords
<1>2. WriteStatus(r) = Success =>
          r[1] \in Ids /\ r[2].tag = Cluster[At(r[1])].default.tag
    BY DEF WriteStatus, Success, Known, UnsupportedAttribute, ReadOnly, InvalidDataType
<1>3. WriteStatus(r) \in Status
    BY DEF WriteStatus, Success, UnsupportedAttribute, ReadOnly, InvalidDataType, Status
<1> QED
    BY <1>1, <1>2, <1>3

\* The last record accepted for an attribute.
LEMMA LastAccepted ==
    ASSUME ItemsIn(AttributeRecord), NEW i \in Places, Accepted(i) # {}
    PROVE  /\ Max(Accepted(i)) \in Accepted(i)
           /\ \A k \in Accepted(i) : k <= Max(Accepted(i))
           /\ \A k \in Accepted(i) : k \in 1..Len(got.items)
<1> DEFINE S == Accepted(i)
           n == Len(got.items)
<1>1. n \in Nat /\ S \subseteq 1..n
    BY DEF ItemsIn, Accepted
<1>2. S # {}
    OBVIOUS
<1> HIDE DEF S, n
<1>3. Max(S) \in S /\ \A y \in S : y <= Max(S)
    BY <1>1, <1>2, MaxOfPlaces
<1> QED
    BY <1>1, <1>3 DEF S, n

\* A divided write keeps the types, and gives an attribute the datum of its last
\* accepted record.
LEMMA DividedValues ==
    ASSUME ItemsIn(AttributeRecord), IsValues(values)
    PROVE  /\ IsValues(Divided)
           /\ \A i \in Places :
                 /\ Accepted(i) = {} => Divided[i] = values[i]
                 /\ Accepted(i) # {} => Divided[i] = got.items[Max(Accepted(i))][2]
<1>1. \A i \in Places :
          /\ Accepted(i) = {} => Divided[i] = values[i]
          /\ Accepted(i) # {} => Divided[i] = got.items[Max(Accepted(i))][2]
    BY DEF Divided
<1>2. \A i \in Places : Divided[i] \in Data /\ Divided[i].tag = Cluster[i].default.tag
    <2> TAKE i \in Places
    <2> DEFINE m == Max(Accepted(i))
               r == got.items[m]
    <2>1. CASE Accepted(i) = {}
        BY <1>1, <2>1 DEF IsValues
    <2>2. CASE Accepted(i) # {}
        <3>1. m \in Accepted(i) /\ m \in 1..Len(got.items)
            BY <2>2, LastAccepted
        <3>2. Divided[i] = r[2]
            BY <1>1, <2>2
        <3> HIDE DEF m
        <3>3. WriteStatus(r) = Success /\ At(r[1]) = i
            BY <3>1 DEF Accepted
        <3>4. r \in Records(AttributeRecord)
            BY <3>1 DEF ItemsIn
        <3> HIDE DEF r
        <3> QED
            BY <3>2, <3>3, <3>4, WriteAccepted
    <2> QED
        BY <2>1, <2>2
<1>3. Divided \in [Places -> Data]
    <2>1. \A i \in Places : Divided[i] \in Data
        BY <1>2
    <2>2. Divided = [i \in Places |-> Divided[i]]
        BY DEF Divided
    <2> QED
        BY <2>1, <2>2
<1> QED
    BY <1>1, <1>2, <1>3 DEF IsValues

\* An undivided write keeps the types.
LEMMA UndividedValues ==
    ASSUME ItemsIn(AttributeRecord), IsValues(values)
    PROVE  IsValues(Undivided)
    BY DividedValues DEF Undivided

\* A record accepted for reporting is of an attribute that can be reported.
LEMMA ReportingAccepted ==
    ASSUME NEW r \in Records(ReportingRecord)
    PROVE  /\ r[1] \in {Report, Receive} /\ r[2] \in Word /\ ReportingStatus(r) \in Status
           /\ ReportingStatus(r) = Success =>
                 r[2] \in Ids /\ config[At(r[2])] # None /\ r[4] \in Word /\ r[5] \in Word
<1>1. r[1] \in {Report, Receive} /\ r[2] \in Word
      /\ (r[1] = Report => r[4] \in Word /\ r[5] \in Word)
    BY ReportingRecords
<1>2. ReportingStatus(r) = Success => r[1] = Report /\ r[2] \in Ids /\ config[At(r[2])] # None
    BY DEF ReportingStatus, Success, Known, Reportable, UnsupportedAttribute,
           UnreportableAttribute, InvalidValue
<1>3. ReportingStatus(r) \in Status
    BY DEF ReportingStatus, Success, UnsupportedAttribute, UnreportableAttribute, InvalidValue,
           Status
<1> QED
    BY <1>1, <1>2, <1>3

\* Configuring keeps the types of the intervals.
LEMMA ConfiguredIntervals ==
    ASSUME ItemsIn(ReportingRecord), IsConfig(config)
    PROVE  IsConfig(Configured)
<1>1. \A i \in Places : /\ Configured[i] \in {None} \cup (Word \X Word)
                        /\ (Configured[i] = None) = (Cluster[i].interval = None)
    <2> TAKE i \in Places
    <2> DEFINE S == Configuring(i)
               n == Len(got.items)
               m == Max(S)
               r == got.items[m]
    <2>1. Configured[i] = IF S = {} THEN config[i] ELSE <<r[4], r[5]>>
        BY DEF Configured
    <2>2. n \in Nat /\ S \subseteq 1..n
        BY DEF ItemsIn, Configuring
    <2>3. CASE S = {}
        BY <2>1, <2>3 DEF IsConfig
    <2>4. CASE S # {}
        <3>1. m \in S
            <4> HIDE DEF S, n
            <4> QED
                BY <2>2, <2>4, MaxOfPlaces
        <3>2. Configured[i] = <<r[4], r[5]>>
            BY <2>1, <2>4
        <3> HIDE DEF m
        <3>3. m \in DOMAIN got.items /\ ReportingStatus(r) = Success /\ At(r[2]) = i
            BY <3>1 DEF Configuring
        <3>4. r \in Records(ReportingRecord)
            BY <3>1, <2>2 DEF ItemsIn
        <3> HIDE DEF r, S, n
        <3>5. r[2] \in Ids /\ config[i] # None /\ r[4] \in Word /\ r[5] \in Word
            BY <3>3, <3>4, ReportingAccepted
        <3>6. Cluster[i].interval # None
            BY <3>5 DEF IsConfig
        <3>7. <<r[4], r[5]>> \in Word \X Word
            BY <3>5
        <3>8. <<r[4], r[5]>> # None
            BY <3>7, ClusterAssumption
        <3> QED
            BY <3>2, <3>6, <3>7, <3>8
    <2> QED
        BY <2>3, <2>4
<1>2. Configured \in [Places -> {None} \cup (Word \X Word)]
    <2>1. \A i \in Places : Configured[i] \in {None} \cup (Word \X Word)
        BY <1>1
    <2>2. Configured = [i \in Places |-> Configured[i]]
        BY DEF Configured
    <2> QED
        BY <2>1, <2>2
<1> QED
    BY <1>1, <1>2 DEF IsConfig

\* A global command keeps the types of the cluster.
LEMMA CarriedOut ==
    ASSUME IsRead(got), IsGlobal(got), IsValues(values), IsConfig(config)
    PROVE  IsValues(ValuesAfter) /\ IsConfig(ConfigAfter)
<1> DEFINE c == got.command
<1>1. ItemsIn(Item(c))
    BY ItemsRecords DEF ItemOf
<1>2. c \in {WriteAttributes, WriteAttributesUndivided, WriteAttributesNoResponse} =>
          ItemsIn(AttributeRecord)
    BY <1>1, Items
<1>3. c = ConfigureReporting => ItemsIn(ReportingRecord)
    BY <1>1, Items
<1>4. IsConfig(ConfigAfter)
    BY <1>3, ConfiguredIntervals DEF ConfigAfter
<1>5. c \in {WriteAttributes, WriteAttributesNoResponse} => ValuesAfter = Divided
    BY DEF ValuesAfter, WriteAttributes, WriteAttributesNoResponse, WriteAttributesUndivided
<1>6. c = WriteAttributesUndivided => ValuesAfter = Undivided
    BY DEF ValuesAfter, WriteAttributes, WriteAttributesNoResponse, WriteAttributesUndivided
<1>7. c \notin {WriteAttributes, WriteAttributesUndivided, WriteAttributesNoResponse} =>
          ValuesAfter = values
    BY DEF ValuesAfter
<1> HIDE DEF c
<1>8. IsValues(ValuesAfter)
    BY <1>2, <1>5, <1>6, <1>7, DividedValues, UndividedValues
<1> QED
    BY <1>4, <1>8

\* An Identify command changes the identify time at most.
LEMMA IdentifiedValues ==
    ASSUME IsRead(got), ~IsGlobal(got), IsValues(values)
    PROVE  /\ IsValues(Identified)
           /\ \A i \in Places \ {At(IdentifyTime)} : Identified[i] = values[i]
<1> DEFINE n == Len(got.items)
           x == SubSeq(Payload, 1, 2)
<1>1. ItemsIn(ByteRecord)
    BY ItemsRecords DEF ItemOf, ByteRecord
<1>2. n \in Nat /\ Payload \in [1..n -> Byte]
    <2>1. n \in Nat /\ DOMAIN got.items = 1..n /\ \A i \in 1..n : got.items[i] \in Records(ByteRecord)
        BY <1>1 DEF ItemsIn
    <2>2. \A i \in 1..n : got.items[i][1] \in Byte
        BY <2>1, SimpleRecords
    <2> QED
        BY <2>1, <2>2 DEF Payload
<1> HIDE DEF n
<1>3. Payload \in Bytes /\ Len(Payload) = n
    BY <1>2, FunctionIsSeq DEF Bytes
<1>4. CASE got.command = Identify /\ Len(Payload) >= 2
    <2>1. x \in TimeData
        BY <1>3, <1>4, FrontFixed DEF TimeData
    <2>2. Identified = [values EXCEPT ![At(IdentifyTime)].value = x]
        BY <1>4 DEF Identified
    <2> HIDE DEF x
    <2> QED
        BY <2>1, <2>2, TimeSet
<1>5. CASE ~(got.command = Identify /\ Len(Payload) >= 2)
    BY <1>5 DEF Identified
<1> QED
    BY <1>4, <1>5

-----------------------------------------------------------------------------
(* What the node answers is a frame that can be written. *)

\* A byte of the cluster's own answer.
LEMMA FitsOne ==
    ASSUME NEW x \in Byte
    PROVE  Fits(ByteRecord, <<x>>)
<1> DEFINE l == ByteRecord
           r == <<x>>
<1>1. IsSeq(r) /\ DOMAIN l = 1..1 /\ Len(l) = Len(r) /\ r[1] = x /\ l[1].type = "u8"
    BY DEF IsSeq, ByteRecord, Always
<1> HIDE DEF l, r
<1>2. \A i \in DOMAIN l : i = 1
    BY <1>1
<1> QED
    BY <1>1, <1>2, FieldValuesAre DEF Fits, l, r

\* An item of the answer to a read.
LEMMA FitsRead ==
    ASSUME NEW x \in Word, NEW y \in Status, NEW z
    PROVE  Fits(ReadAttributesStatusRecord, <<x, y, z>>)
<1> DEFINE l == ReadAttributesStatusRecord
           r == <<x, y, z>>
<1>1. /\ IsSeq(r) /\ DOMAIN l = 1..3 /\ Len(l) = Len(r) /\ r[1] = x /\ r[2] = y
      /\ l[1].type = "u16" /\ l[2].type = "status" /\ l[3].type = "data"
    BY DEF IsSeq, ReadAttributesStatusRecord, Always, Given
<1> HIDE DEF l, r
<1>2. \A i \in DOMAIN l : i = 1 \/ i = 2 \/ i = 3
    BY <1>1
<1> QED
    BY <1>1, <1>2, FieldValuesAre DEF Fits, l, r

\* An item of the answer to a write.
LEMMA FitsWritten ==
    ASSUME NEW x \in Status, NEW y \in Word
    PROVE  Fits(WriteAttributeStatusRecord, <<x, y>>)
<1> DEFINE l == WriteAttributeStatusRecord
           r == <<x, y>>
<1>1. /\ IsSeq(r) /\ DOMAIN l = 1..2 /\ Len(l) = Len(r) /\ r[1] = x /\ r[2] = y
      /\ l[1].type = "status" /\ l[2].type = "u16"
    BY DEF IsSeq, WriteAttributeStatusRecord, Always
<1> HIDE DEF l, r
<1>2. \A i \in DOMAIN l : i = 1 \/ i = 2
    BY <1>1
<1> QED
    BY <1>1, <1>2, FieldValuesAre DEF Fits, l, r

\* An item of the answer to a configuration.
LEMMA FitsConfigured ==
    ASSUME NEW x \in Status, NEW y \in {Report, Receive}, NEW z \in Word
    PROVE  Fits(AttributeStatusRecord, <<x, y, z>>)
<1> DEFINE l == AttributeStatusRecord
           r == <<x, y, z>>
<1>1. /\ IsSeq(r) /\ DOMAIN l = 1..3 /\ Len(l) = Len(r) /\ r[1] = x /\ r[2] = y /\ r[3] = z
      /\ l[1].type = "status" /\ l[2].type = "direction" /\ l[3].type = "u16"
    BY DEF IsSeq, AttributeStatusRecord, Always
<1> HIDE DEF l, r
<1>2. \A i \in DOMAIN l : i = 1 \/ i = 2 \/ i = 3
    BY <1>1
<1> QED
    BY <1>1, <1>2, FieldValuesAre DEF Fits, l, r

\* An item of the answer to a discovery.
LEMMA FitsDiscovered ==
    ASSUME NEW x \in Word, NEW y \in Byte
    PROVE  Fits(DiscoverAttributeRecord, <<x, y>>)
<1> DEFINE l == DiscoverAttributeRecord
           r == <<x, y>>
<1>1. /\ IsSeq(r) /\ DOMAIN l = 1..2 /\ Len(l) = Len(r) /\ r[1] = x /\ r[2] = y
      /\ l[1].type = "u16" /\ l[2].type = "u8"
    BY DEF IsSeq, DiscoverAttributeRecord, Always
<1> HIDE DEF l, r
<1>2. \A i \in DOMAIN l : i = 1 \/ i = 2
    BY <1>1
<1> QED
    BY <1>1, <1>2, FieldValuesAre DEF Fits, l, r

\* An item of the answer that gives a configuration.
LEMMA FitsIntervals ==
    ASSUME NEW x \in Status, NEW y \in {Report, Receive}, NEW z \in Word,
           NEW u \in Byte \cup {None}, NEW v \in Word \cup {None}, NEW w \in Word \cup {None}
    PROVE  Fits(ReadReportingRecord, <<x, y, z, u, v, w, None, None>>)
<1> DEFINE l == ReadReportingRecord
           r == <<x, y, z, u, v, w, None, None>>
<1>1. /\ IsSeq(r) /\ DOMAIN l = 1..8 /\ Len(l) = Len(r) /\ r[1] = x /\ r[2] = y /\ r[3] = z
      /\ r[4] = u /\ r[5] = v /\ r[6] = w /\ r[7] = None /\ r[8] = None
    BY DEF IsSeq, ReadReportingRecord, Always, Given
<1>2. /\ l[1].type = "status" /\ l[2].type = "direction" /\ l[3].type = "u16"
      /\ l[4].type = "u8" /\ l[5].type = "u16" /\ l[6].type = "u16"
    BY DEF ReadReportingRecord, Always, Given
<1> HIDE DEF l, r
<1>3. \A i \in DOMAIN l : i = 1 \/ i = 2 \/ i = 3 \/ i = 4 \/ i = 5 \/ i = 6 \/ i = 7 \/ i = 8
    BY <1>1
<1> QED
    BY <1>1, <1>2, <1>3, FieldValuesAre DEF Fits, l, r

\* An answer's fields and items fit its command.
PartFits(part, type) ==
    /\ type \in {"global", "specific"} /\ part.command \in Byte
    /\ type = "global" => part.command \in GlobalCommand
    /\ AllThere(IF type = "global" THEN Leading(part.command) ELSE <<>>, part.head)
    /\ IsSeq(part.items)
    /\ \A i \in DOMAIN part.items :
          Fits(IF type = "global" THEN Item(part.command) ELSE ByteRecord, part.items[i])
    /\ type = "global" /\ Item(part.command) = <<>> => part.items = <<>>

\* An answer made of fitting parts is a frame.
LEMMA AnswerIsFrame ==
    ASSUME IsFrame(got), NEW part, NEW type, PartFits(part, type)
    PROVE  /\ IsFrame(Answer(part, type)) /\ Answer(part, type).type = type
           /\ Answer(part, type).command = part.command /\ Answer(part, type).items = part.items
<1> DEFINE f == Answer(part, type)
<1>1. /\ got.code \in Word \cup {None} /\ got.back \in BOOLEAN /\ got.sequence \in Byte
    BY FrameFacts
<1>2. /\ f.type = type /\ f.code = got.code /\ f.back = ~got.back /\ f.quiet = TRUE
      /\ f.sequence = got.sequence /\ f.command = part.command /\ f.head = part.head
      /\ f.items = part.items
    BY DEF Answer
<1>3. f \in [type : {"global", "specific"}, code : Word \cup {None}, back : BOOLEAN,
             quiet : BOOLEAN, sequence : Byte, command : Byte, head : {part.head},
             items : {part.items}]
    BY <1>1 DEF Answer, PartFits
<1> HIDE DEF f
<1>4. LeadingOf(f) = IF type = "global" THEN Leading(part.command) ELSE <<>>
    BY <1>2 DEF LeadingOf, IsGlobal
<1>5. ItemOf(f) = IF type = "global" THEN Item(part.command) ELSE ByteRecord
    BY <1>2 DEF ItemOf, IsGlobal, ByteRecord
<1>6. AllThere(LeadingOf(f), f.head)
    BY <1>2, <1>4 DEF PartFits
<1>7. Fits(LeadingOf(f), f.head) /\ \A i \in DOMAIN f.head : f.head[i] # None
    <2>1. Fits(LeadingOf(f), f.head)
        BY <1>6, ThereFits
    <2>2. \A i \in 1..Len(LeadingOf(f)) : f.head[i] # None
        BY <1>6, ThereFits
    <2>3. DOMAIN f.head = 1..Len(f.head) /\ Len(f.head) = Len(LeadingOf(f))
        BY <1>6 DEF AllThere, IsSeq
    <2> QED
        BY <2>1, <2>2, <2>3
<1>8. IsGlobal(f) => f.command \in GlobalCommand
    BY <1>2 DEF PartFits, IsGlobal
<1>9. ItemOf(f) = <<>> => f.items = <<>>
    BY <1>2, <1>5 DEF PartFits, ByteRecord
<1>10. IsSeq(f.items) /\ \A i \in DOMAIN f.items : Fits(ItemOf(f), f.items[i])
    BY <1>2, <1>5 DEF PartFits
<1>11. IsFrame(f)
    BY <1>2, <1>3, <1>7, <1>8, <1>9, <1>10, Zenon DEF IsFrame
<1> QED
    BY <1>2, <1>11 DEF f

\* No fields before the list.
LEMMA NoHead ==
    AllThere(NoFields, <<>>)
<1>1. IsLayout(NoFields)
    BY LayoutsAreLayouts DEF LeadingLayouts
<1> QED
    BY <1>1 DEF AllThere, NoFields, IsSeq

\* The field of an answer to a discovery.
LEMMA BoolHead ==
    ASSUME NEW x \in BOOLEAN
    PROVE  AllThere(DiscoveryComplete, <<x>>)
<1> DEFINE l == DiscoveryComplete
           r == <<x>>
<1>1. IsSeq(r) /\ DOMAIN l = 1..1 /\ Len(l) = Len(r) /\ 1 = Len(r) /\ r[1] = x
      /\ l[1].type = "bool" /\ l[1].at = 0
    BY DEF IsSeq, DiscoveryComplete, Always
<1>2. IsLayout(l)
    BY LayoutsAreLayouts DEF LeadingLayouts
<1> HIDE DEF l, r
<1> DEFINE n == Len(l)
<1>3. n = 1
    BY <1>1
<1> HIDE DEF n
<1>4. \A i \in 1..n : i = 1
    BY <1>3
<1>5. "bool" \in FieldType \ {"data", "selector"}
    BY DEF FieldType
<1>6. \A i \in 1..n : /\ l[i].at = 0 /\ l[i].type \in FieldType \ {"data", "selector"}
                      /\ r[i] \in FieldValues(l[i].type)
    BY <1>1, <1>4, <1>5, FieldValuesAre
<1> QED
    BY <1>1, <1>2, <1>6 DEF AllThere, n, l, r

\* The fields of a default response.
LEMMA DefaultHead ==
    ASSUME NEW x \in Byte, NEW y \in Status
    PROVE  AllThere(DefaultFields, <<x, y>>)
<1> DEFINE l == DefaultFields
           r == <<x, y>>
<1>1. IsSeq(r) /\ DOMAIN l = 1..2 /\ Len(l) = Len(r) /\ 2 = Len(r) /\ r[1] = x /\ r[2] = y
      /\ l[1].type = "u8" /\ l[1].at = 0 /\ l[2].type = "status" /\ l[2].at = 0
    BY DEF IsSeq, DefaultFields, Always
<1>2. IsLayout(l)
    BY LayoutsAreLayouts DEF LeadingLayouts
<1> HIDE DEF l, r
<1> DEFINE n == Len(l)
<1>3. n = 2
    BY <1>1
<1> HIDE DEF n
<1>4. \A i \in 1..n : i = 1 \/ i = 2
    BY <1>3
<1>5. {"u8", "status"} \subseteq FieldType \ {"data", "selector"}
    BY DEF FieldType
<1>6. \A i \in 1..n : /\ l[i].at = 0 /\ l[i].type \in FieldType \ {"data", "selector"}
                      /\ r[i] \in FieldValues(l[i].type)
    BY <1>1, <1>4, <1>5, FieldValuesAre
<1> QED
    BY <1>1, <1>2, <1>6 DEF AllThere, n, l, r

\* A list of fitting items fits.
LEMMA ListPart ==
    ASSUME NEW c \in GlobalCommand, NEW head, AllThere(Leading(c), head), NEW n \in Nat,
           NEW items, items = [k \in 1..n |-> items[k]],
           \A k \in 1..n : Fits(Item(c), items[k]), Item(c) # <<>> \/ n = 0
    PROVE  PartFits(Part(c, head, items), "global")
<1> DEFINE p == Part(c, head, items)
<1>1. p.command = c /\ p.head = head /\ p.items = items
    BY DEF Part
<1>2. c \in Byte
    BY DEF GlobalCommand, Byte
<1>3. DOMAIN items = 1..n /\ IsSeq(items) /\ (n = 0 => items = <<>>)
    <2>1. items \in Seq({items[k] : k \in 1..n}) /\ Len(items) = n
        OBVIOUS
    <2> QED
        BY <2>1 DEF IsSeq
<1> HIDE DEF p
<1> QED
    BY <1>1, <1>2, <1>3 DEF PartFits, p

\* The answers with a list.
LEMMA Responses ==
    /\ {ReadAttributesResponse, WriteAttributesResponse, ConfigureReportingResponse,
        ReadReportingConfigurationResponse, DiscoverAttributesResponse,
        DiscoverCommandsReceivedResponse, DefaultResponse} \subseteq GlobalCommand
    /\ Item(ReadAttributesResponse) # <<>> /\ Item(WriteAttributesResponse) # <<>>
    /\ Item(ConfigureReportingResponse) # <<>> /\ Item(ReadReportingConfigurationResponse) # <<>>
    /\ Item(DiscoverAttributesResponse) # <<>>
<1>1. /\ ReadAttributesStatusRecord # <<>> /\ WriteAttributeStatusRecord # <<>>
      /\ AttributeStatusRecord # <<>> /\ ReadReportingRecord # <<>>
      /\ DiscoverAttributeRecord # <<>>
    BY DEF ReadAttributesStatusRecord, WriteAttributeStatusRecord, AttributeStatusRecord,
       ReadReportingRecord, DiscoverAttributeRecord
<1>2. {ReadAttributesResponse, WriteAttributesResponse, ConfigureReportingResponse,
        ReadReportingConfigurationResponse, DiscoverAttributesResponse,
        DiscoverCommandsReceivedResponse, DefaultResponse} \subseteq GlobalCommand
    BY DEF GlobalCommand, ReadAttributesResponse, WriteAttributesResponse,
       ConfigureReportingResponse, ReadReportingConfigurationResponse,
       DiscoverAttributesResponse, DiscoverCommandsReceivedResponse, DefaultResponse
<1> QED
    BY <1>1, <1>2, Items

\* The answer to a read fits.
LEMMA ReadAnswers ==
    ASSUME ItemsIn(IdRecord), IsValues(values)
    PROVE  PartFits(Part(ReadAttributesResponse, <<>>,
                         [k \in DOMAIN got.items |-> ReadAnswer(got.items[k][1])]), "global")
<1> DEFINE c == ReadAttributesResponse
           n == Len(got.items)
           items == [k \in DOMAIN got.items |-> ReadAnswer(got.items[k][1])]
<1>1. c \in GlobalCommand /\ Item(c) # <<>> /\ Item(c) = ReadAttributesStatusRecord
      /\ AllThere(Leading(c), <<>>)
    BY Responses, Items, NoHead
<1>2. n \in Nat /\ items = [k \in 1..n |-> items[k]]
    BY DEF ItemsIn
<1>3. \A k \in 1..n : Fits(Item(c), items[k])
    <2> TAKE k \in 1..n
    <2>1. got.items[k][1] \in Word
        BY SimpleRecords DEF ItemsIn
    <2>2. items[k] = ReadAnswer(got.items[k][1])
        BY DEF ItemsIn
    <2> DEFINE id == got.items[k][1]
    <2> HIDE DEF id
    <2>3. {Success, UnsupportedAttribute} \subseteq Status
        BY DEF Success, UnsupportedAttribute, Status
    <2>4. Fits(ReadAttributesStatusRecord, ReadAnswer(id))
        BY <2>1, <2>3, FitsRead DEF ReadAnswer, id
    <2> QED
        BY <2>2, <2>4, <1>1 DEF id
<1> HIDE DEF c, n, items
<1> QED
    BY <1>1, <1>2, <1>3, ListPart DEF c, items

\* The answer to a write fits.
LEMMA WriteAnswers ==
    ASSUME ItemsIn(AttributeRecord)
    PROVE  PartFits(Part(WriteAttributesResponse, <<>>,
                         [k \in DOMAIN got.items |->
                            <<WriteStatus(got.items[k]), got.items[k][1]>>]), "global")
<1> DEFINE c == WriteAttributesResponse
           n == Len(got.items)
           items == [k \in DOMAIN got.items |-> <<WriteStatus(got.items[k]), got.items[k][1]>>]
<1>1. c \in GlobalCommand /\ Item(c) # <<>> /\ Item(c) = WriteAttributeStatusRecord
      /\ AllThere(Leading(c), <<>>)
    BY Responses, Items, NoHead
<1>2. n \in Nat /\ items = [k \in 1..n |-> items[k]]
    BY DEF ItemsIn
<1>3. \A k \in 1..n : Fits(Item(c), items[k])
    <2> TAKE k \in 1..n
    <2>1. got.items[k] \in Records(AttributeRecord) /\ k \in DOMAIN got.items
        BY DEF ItemsIn
    <2>2. items[k] = <<WriteStatus(got.items[k]), got.items[k][1]>>
        BY <2>1
    <2> DEFINE r == got.items[k]
    <2> HIDE DEF r, items
    <2>3. r[1] \in Word /\ WriteStatus(r) \in Status
        BY <2>1, WriteAccepted DEF r
    <2>4. Fits(WriteAttributeStatusRecord, <<WriteStatus(r), r[1]>>)
        BY <2>3, FitsWritten
    <2> QED
        BY <2>2, <2>4, <1>1 DEF r
<1> HIDE DEF c, n, items
<1> QED
    BY <1>1, <1>2, <1>3, ListPart DEF c, items

\* The answer to a configuration fits.
LEMMA ConfigureAnswers ==
    ASSUME ItemsIn(ReportingRecord)
    PROVE  PartFits(Part(ConfigureReportingResponse, <<>>,
                         [k \in DOMAIN got.items |->
                            <<ReportingStatus(got.items[k]), got.items[k][1],
                              got.items[k][2]>>]), "global")
<1> DEFINE c == ConfigureReportingResponse
           n == Len(got.items)
           items == [k \in DOMAIN got.items |->
                        <<ReportingStatus(got.items[k]), got.items[k][1], got.items[k][2]>>]
<1>1. c \in GlobalCommand /\ Item(c) # <<>> /\ Item(c) = AttributeStatusRecord
      /\ AllThere(Leading(c), <<>>)
    BY Responses, Items, NoHead
<1>2. n \in Nat /\ items = [k \in 1..n |-> items[k]]
    BY DEF ItemsIn
<1>3. \A k \in 1..n : Fits(Item(c), items[k])
    <2> TAKE k \in 1..n
    <2>1. got.items[k] \in Records(ReportingRecord) /\ k \in DOMAIN got.items
        BY DEF ItemsIn
    <2>2. items[k] = <<ReportingStatus(got.items[k]), got.items[k][1], got.items[k][2]>>
        BY <2>1
    <2> DEFINE r == got.items[k]
    <2> HIDE DEF r, items
    <2>3. r[1] \in {Report, Receive} /\ r[2] \in Word /\ ReportingStatus(r) \in Status
        BY <2>1, ReportingAccepted DEF r
    <2>4. Fits(AttributeStatusRecord, <<ReportingStatus(r), r[1], r[2]>>)
        BY <2>3, FitsConfigured
    <2> QED
        BY <2>2, <2>4, <1>1 DEF r
<1> HIDE DEF c, n, items
<1> QED
    BY <1>1, <1>2, <1>3, ListPart DEF c, items

\* The answer that gives a configuration fits.
LEMMA ReportingAnswers ==
    ASSUME ItemsIn(ReportingConfigurationAttributeStatus), IsConfig(config)
    PROVE  PartFits(Part(ReadReportingConfigurationResponse, <<>>,
                         [k \in DOMAIN got.items |-> ReportingAnswer(got.items[k])]), "global")
<1> DEFINE c == ReadReportingConfigurationResponse
           n == Len(got.items)
           items == [k \in DOMAIN got.items |-> ReportingAnswer(got.items[k])]
<1>1. c \in GlobalCommand /\ Item(c) # <<>> /\ Item(c) = ReadReportingRecord
      /\ AllThere(Leading(c), <<>>)
    BY Responses, Items, NoHead
<1>2. n \in Nat /\ items = [k \in 1..n |-> items[k]]
    BY DEF ItemsIn
<1>3. \A k \in 1..n : Fits(Item(c), items[k])
    <2> TAKE k \in 1..n
    <2>1. got.items[k] \in Records(ReportingConfigurationAttributeStatus) /\ k \in DOMAIN got.items
        BY DEF ItemsIn
    <2>2. items[k] = ReportingAnswer(got.items[k])
        BY <2>1
    <2> DEFINE r == got.items[k]
    <2> HIDE DEF r, items
    <2>3. r[1] \in {Report, Receive} /\ r[2] \in Word
        BY <2>1, SimpleRecords DEF r
    <2>4. {Success, UnsupportedAttribute} \subseteq Status
        BY DEF Success, UnsupportedAttribute, Status
    <2>5. Fits(ReadReportingRecord, ReportingAnswer(r))
        <3>1. CASE r[1] = Report /\ Reportable(r[2])
            <4> DEFINE p == At(r[2])
                       t == Cluster[p].default.tag
                       e == config[p]
            <4>1. r[2] \in Ids /\ e # None
                BY <3>1 DEF Reportable, Known
            <4>2. p \in Places
                BY <4>1, ClusterFacts
            <4>3. t \in Byte
                BY <4>2, ClusterFacts, TimeDatum
            <4>4. e \in Word \X Word
                BY <4>1, <4>2 DEF IsConfig
            <4>5. e[1] \in Word /\ e[2] \in Word
                BY <4>4
            <4>6. ReportingAnswer(r) = <<Success, r[1], r[2], t, e[1], e[2], None, None>>
                BY <3>1 DEF ReportingAnswer
            <4> HIDE DEF p, t, e
            <4>7. \A u \in Byte, v \in Word, w \in Word :
                    Fits(ReadReportingRecord, <<Success, r[1], r[2], u, v, w, None, None>>)
                BY <2>3, <2>4, FitsIntervals
            <4> QED
                BY <4>3, <4>5, <4>6, <4>7
        <3>2. CASE ~(r[1] = Report /\ Reportable(r[2]))
            <4>1. ReportingAnswer(r) =
                    <<UnsupportedAttribute, r[1], r[2], None, None, None, None, None>>
                BY <3>2 DEF ReportingAnswer
            <4> DEFINE x == r[1]
                       y == r[2]
                       u == None
            <4> HIDE DEF x, y, u
            <4>2. Fits(ReadReportingRecord, <<UnsupportedAttribute, x, y, u, u, u, None, None>>)
                BY <2>3, <2>4, FitsIntervals DEF x, y, u
            <4> QED
                BY <4>1, <4>2 DEF x, y, u
        <3> QED
            BY <3>1, <3>2
    <2> QED
        BY <2>2, <2>5, <1>1 DEF r
<1> HIDE DEF c, n, items
<1> QED
    BY <1>1, <1>2, <1>3, ListPart DEF c, items

\* What is discovered are identifiers of the cluster.
LEMMA DiscoveredIds ==
    ASSUME NEW start, NEW limit \in Byte
    PROVE  \E n \in Nat : /\ DOMAIN Discovered(start, limit) = 1..n
                          /\ \A k \in 1..n : Discovered(start, limit)[k] \in Ids
<1> DEFINE ids == {id \in Ids : id >= start}
           m == Cardinality(ids)
           n == IF limit < m THEN limit ELSE m
           d == [k \in 1..n |-> CHOOSE id \in ids : Cardinality({j \in ids : j < id}) = k - 1]
<1>1. Discovered(start, limit) = d
    BY DEF Discovered
<1>2. ids \subseteq Word /\ ids \subseteq Ids /\ IsFiniteSet(ids)
    <2>1. ids \subseteq Ids
        OBVIOUS
    <2> HIDE DEF ids
    <2>2. ids \subseteq Word
        BY <2>1, ClusterFacts
    <2> QED
        BY <2>1, <2>2, WordsAreFinite
<1>3. m \in Nat
    BY <1>2, FS_CardinalityType
<1>4. n \in Nat /\ n <= m
    BY <1>3 DEF Byte
<1>5. \A k \in 1..n : d[k] \in Ids
    <2> TAKE k \in 1..n
    <2> HIDE DEF ids
    <2>1. k - 1 \in 0..(m - 1)
        BY <1>3, <1>4
    <2> DEFINE j == k - 1
    <2> HIDE DEF j
    <2>2. \E x \in ids : Cardinality(Below(ids, x)) = j
        BY <1>2, <2>1, Ranks DEF j
    <2>3. \E x \in ids : Cardinality({y \in ids : y < x}) = k - 1
        BY <2>2 DEF Below, j
    <2>4. d[k] = CHOOSE id \in ids : Cardinality({y \in ids : y < id}) = k - 1
        OBVIOUS
    <2>5. d[k] \in ids
        BY <2>3, <2>4, Zenon
    <2> QED
        BY <2>5, <1>2
<1> HIDE DEF n
<1>6. DOMAIN d = 1..n
    OBVIOUS
<1> HIDE DEF d
<1> QED
    BY <1>1, <1>4, <1>5, <1>6

\* The answer to a discovery fits.
LEMMA DiscoverAnswers ==
    ASSUME IsFrame(got), IsGlobal(got), got.command = DiscoverAttributes
    PROVE  LET ids == Discovered(got.head[1], got.head[2])
           IN  PartFits(Part(DiscoverAttributesResponse, <<TRUE>>,
                   [i \in DOMAIN ids |-> <<ids[i], Cluster[At(ids[i])].default.tag>>]), "global")
<1> DEFINE ids == Discovered(got.head[1], got.head[2])
           c == DiscoverAttributesResponse
           items == [i \in DOMAIN ids |-> <<ids[i], Cluster[At(ids[i])].default.tag>>]
           head == <<TRUE>>
<1>1. got.head[2] \in Byte
    <2>1. AllThere(LeadingOf(got), got.head) /\ LeadingOf(got) = Limits16
        BY FrameFacts, Items DEF LeadingOf
    <2>2. AllThere(Limits16, got.head)
        BY <2>1
    <2>3. 2 \in 1..Len(Limits16) /\ Limits16[2].type = "u8"
        BY DEF Limits16, Always
    <2> QED
        BY <2>2, <2>3, FieldValuesAre DEF AllThere
<1>2. c \in GlobalCommand /\ Item(c) # <<>> /\ Item(c) = DiscoverAttributeRecord
      /\ AllThere(Leading(c), head)
    BY Responses, Items, BoolHead
<1>3. PICK n \in Nat : DOMAIN ids = 1..n /\ \A k \in 1..n : ids[k] \in Ids
    BY <1>1, DiscoveredIds
<1> HIDE DEF ids
<1>4. items = [k \in 1..n |-> items[k]]
    BY <1>3
<1>5. \A k \in 1..n : Fits(Item(c), items[k])
    <2> TAKE k \in 1..n
    <2> DEFINE x == ids[k]
               t == Cluster[At(x)].default.tag
    <2>1. items[k] = <<x, t>>
        BY <1>3
    <2> HIDE DEF items
    <2>2. x \in Ids
        BY <1>3
    <2> HIDE DEF x
    <2>3. x \in Word /\ At(x) \in Places
        BY <2>2, ClusterFacts
    <2>4. t \in Byte
        BY <2>3, ClusterFacts, TimeDatum
    <2> HIDE DEF t
    <2>5. Fits(DiscoverAttributeRecord, <<x, t>>)
        BY <2>3, <2>4, FitsDiscovered
    <2> QED
        BY <2>1, <2>5, <1>2
<1> HIDE DEF items, c, head
<1>6. PartFits(Part(c, head, items), "global")
    BY <1>2, <1>4, <1>5, ListPart
<1> QED
    BY <1>6 DEF items, c, head, ids

\* An answer without a list fits.
LEMMA EmptyPart ==
    ASSUME NEW c \in GlobalCommand, NEW head, AllThere(Leading(c), head)
    PROVE  PartFits(Part(c, head, <<>>), "global")
<1> DEFINE items == <<>>
           n == 0
<1>1. n \in Nat /\ items = [k \in 1..n |-> items[k]] /\ \A k \in 1..n : Fits(Item(c), items[k])
    OBVIOUS
<1>2. Item(c) # <<>> \/ n = 0
    OBVIOUS
<1> HIDE DEF items, n
<1> QED
    BY <1>1, <1>2, ListPart DEF items

\* The default response fits.
LEMMA DefaultFits ==
    ASSUME IsFrame(got)
    PROVE  PartFits(Default, "global")
<1> DEFINE head == <<got.sequence, Success>>
           c == DefaultResponse
<1>1. got.sequence \in Byte /\ Success \in Status
    BY FrameFacts DEF Success, Status
<1>2. AllThere(Leading(c), head)
    BY <1>1, DefaultHead, Items
<1>3. c \in GlobalCommand
    BY Responses
<1> HIDE DEF head, c
<1> QED
    BY <1>2, <1>3, EmptyPart DEF Default, head, c

\* The answer to an identify query fits.
LEMMA IdentifyFits ==
    ASSUME IsValues(values)
    PROVE  IdentifyAnswer = None \/ PartFits(IdentifyAnswer, "specific")
<1> DEFINE t == values[At(IdentifyTime)].value
           items == [i \in DOMAIN t |-> <<t[i]>>]
           p == Part(0, <<>>, items)
<1>1. t \in TimeData
    BY TimeOfValues
<1>2. IdentifyAnswer = None \/ IdentifyAnswer = p
    BY DEF IdentifyAnswer
<1> HIDE DEF t
<1>3. DOMAIN t = 1..2 /\ \A i \in 1..2 : t[i] \in Byte
    BY <1>1 DEF TimeData
<1>4. IsSeq(items) /\ \A i \in DOMAIN items : Fits(ByteRecord, items[i])
    <2>1. items = [i \in 1..2 |-> <<t[i]>>]
        BY <1>3
    <2> HIDE DEF items
    <2>2. DOMAIN items = 1..2 /\ Len(items) = 2 /\ items = [i \in 1..2 |-> items[i]]
        BY <2>1
    <2>3. IsSeq(items)
        BY <2>2 DEF IsSeq
    <2>4. \A x \in Byte : Fits(ByteRecord, <<x>>)
        BY FitsOne
    <2>5. \A i \in 1..2 : Fits(ByteRecord, items[i])
        BY <2>1, <2>4, <1>3
    <2> QED
        BY <2>2, <2>3, <2>5
<1>5. AllThere(<<>>, <<>>) /\ 0 \in Byte
    BY NoHead DEF NoFields, Byte
<1> HIDE DEF items
<1>6. p.command = 0 /\ p.head = <<>> /\ p.items = items
    BY DEF Part
<1> HIDE DEF p
<1>7. PartFits(p, "specific")
    BY <1>4, <1>5, <1>6, SMT DEF PartFits
<1> QED
    BY <1>2, <1>7

WriteAnswerPart ==
    Part(WriteAttributesResponse, <<>>,
         [k \in DOMAIN got.items |-> <<WriteStatus(got.items[k]), got.items[k][1]>>])

\* The answer to each global command.
LEMMA GlobalCases ==
    ASSUME NEW c, c = got.command
    PROVE  /\ c = ReadAttributes =>
                GlobalAnswer = Part(ReadAttributesResponse, <<>>,
                     [k \in DOMAIN got.items |-> ReadAnswer(got.items[k][1])])
           /\ c \in {WriteAttributes, WriteAttributesUndivided} => GlobalAnswer = WriteAnswerPart
           /\ c = ConfigureReporting =>
                GlobalAnswer = Part(ConfigureReportingResponse, <<>>,
                     [k \in DOMAIN got.items |->
                        <<ReportingStatus(got.items[k]), got.items[k][1], got.items[k][2]>>])
           /\ c = ReadReportingConfiguration =>
                GlobalAnswer = Part(ReadReportingConfigurationResponse, <<>>,
                     [k \in DOMAIN got.items |-> ReportingAnswer(got.items[k])])
           /\ c = DiscoverAttributes =>
                GlobalAnswer = LET ids == Discovered(got.head[1], got.head[2])
                               IN  Part(DiscoverAttributesResponse, <<TRUE>>,
                                     [i \in DOMAIN ids |->
                                        <<ids[i], Cluster[At(ids[i])].default.tag>>])
           /\ c = DiscoverCommandsReceived =>
                GlobalAnswer = Part(DiscoverCommandsReceivedResponse, <<FALSE>>, <<>>)
           /\ c \notin {ReadAttributes, WriteAttributes, WriteAttributesUndivided,
                        ConfigureReporting, ReadReportingConfiguration, DiscoverAttributes,
                        DiscoverCommandsReceived} => GlobalAnswer = None
<1> USE DEF ReadAttributes, WriteAttributes, WriteAttributesUndivided, ConfigureReporting,
            ReadReportingConfiguration, DiscoverAttributes, DiscoverCommandsReceived
<1>1. c = ReadAttributes =>
                GlobalAnswer = Part(ReadAttributesResponse, <<>>,
                     [k \in DOMAIN got.items |-> ReadAnswer(got.items[k][1])])
    BY DEF GlobalAnswer
<1>2. c \in {WriteAttributes, WriteAttributesUndivided} => GlobalAnswer = WriteAnswerPart
    BY DEF GlobalAnswer, WriteAnswerPart
<1>3. c = ConfigureReporting =>
                GlobalAnswer = Part(ConfigureReportingResponse, <<>>,
                     [k \in DOMAIN got.items |->
                        <<ReportingStatus(got.items[k]), got.items[k][1], got.items[k][2]>>])
    BY DEF GlobalAnswer
<1>4. c = ReadReportingConfiguration =>
                GlobalAnswer = Part(ReadReportingConfigurationResponse, <<>>,
                     [k \in DOMAIN got.items |-> ReportingAnswer(got.items[k])])
    BY DEF GlobalAnswer
<1>5. c = DiscoverAttributes =>
                GlobalAnswer = LET ids == Discovered(got.head[1], got.head[2])
                               IN  Part(DiscoverAttributesResponse, <<TRUE>>,
                                     [i \in DOMAIN ids |->
                                        <<ids[i], Cluster[At(ids[i])].default.tag>>])
    BY DEF GlobalAnswer
<1>6. c = DiscoverCommandsReceived =>
                GlobalAnswer = Part(DiscoverCommandsReceivedResponse, <<FALSE>>, <<>>)
    BY DEF GlobalAnswer
<1>7. c \notin {ReadAttributes, WriteAttributes, WriteAttributesUndivided,
                        ConfigureReporting, ReadReportingConfiguration, DiscoverAttributes,
                        DiscoverCommandsReceived} => GlobalAnswer = None
    BY DEF GlobalAnswer
<1> QED
    BY <1>1, <1>2, <1>3, <1>4, <1>5, <1>6, <1>7

\* The answer to a global command fits, if it has one.
LEMMA GlobalAnswerFits ==
    ASSUME IsRead(got), IsGlobal(got), IsValues(values), IsConfig(config)
    PROVE  GlobalAnswer = None \/ PartFits(GlobalAnswer, "global")
<1> DEFINE c == got.command
<1>1. ItemsIn(Item(c)) /\ IsFrame(got)
    BY ItemsRecords DEF ItemOf, IsRead
<1>2. CASE c = ReadAttributes
    BY <1>1, <1>2, GlobalCases, Items, ReadAnswers
<1>3. CASE c \in {WriteAttributes, WriteAttributesUndivided}
    <2>1. ItemsIn(AttributeRecord)
        BY <1>1, <1>3, Items
    <2> QED
        BY <2>1, <1>3, GlobalCases, WriteAnswers DEF WriteAnswerPart
<1>4. CASE c = ConfigureReporting
    BY <1>1, <1>4, GlobalCases, Items, ConfigureAnswers
<1>5. CASE c = ReadReportingConfiguration
    BY <1>1, <1>5, GlobalCases, Items, ReportingAnswers
<1>6. CASE c = DiscoverAttributes
    BY <1>1, <1>6, GlobalCases, DiscoverAnswers
<1>7. CASE c = DiscoverCommandsReceived
    <2> DEFINE k == DiscoverCommandsReceivedResponse
               head == <<FALSE>>
    <2>1. k \in GlobalCommand /\ AllThere(Leading(k), head)
        BY Responses, Items, BoolHead
    <2>2. GlobalAnswer = Part(k, head, <<>>)
        BY <1>7, GlobalCases
    <2> HIDE DEF k, head
    <2> QED
        BY <2>1, <2>2, EmptyPart
<1>8. CASE c \notin {ReadAttributes, WriteAttributes, WriteAttributesUndivided,
                     ConfigureReporting, ReadReportingConfiguration, DiscoverAttributes,
                     DiscoverCommandsReceived}
    BY <1>8, GlobalCases
<1> QED
    BY <1>2, <1>3, <1>4, <1>5, <1>6, <1>7, <1>8

\* The part of the answer that is the command's own.
OwnPart == IF IsGlobal(got) THEN GlobalAnswer ELSE IdentifyAnswer
Replied == IF OwnPart = None THEN Answer(Default, "global") ELSE Answer(OwnPart, got.type)

\* What the node answers is a frame.
LEMMA RepliedIsFrame ==
    ASSUME IsRead(got), IsValues(values), IsConfig(config)
    PROVE  IsFrame(Replied)
<1>1. IsFrame(got) /\ got.type \in {"global", "specific"}
    BY FrameFacts DEF IsRead
<1>2. OwnPart # None => PartFits(OwnPart, got.type)
    BY <1>1, GlobalAnswerFits, IdentifyFits DEF OwnPart, IsGlobal
<1>3. OwnPart # None => IsFrame(Answer(OwnPart, got.type))
    BY <1>1, <1>2, AnswerIsFrame
<1>4. IsFrame(Answer(Default, "global"))
    BY <1>1, DefaultFits, AnswerIsFrame
<1> QED
    BY <1>3, <1>4 DEF Replied

\* What the node answers to a write.
LEMMA WriteReplied ==
    ASSUME IsRead(got), Writes(got), IsValues(values), IsConfig(config)
    PROVE  /\ IsGlobal(Replied)
           /\ Replied.command = WriteAttributesResponse =>
                /\ got.command \in {WriteAttributes, WriteAttributesUndivided}
                /\ Replied.items = [k \in DOMAIN got.items |->
                                        <<WriteStatus(got.items[k]), got.items[k][1]>>]
<1> DEFINE c == got.command
           items == [k \in DOMAIN got.items |-> <<WriteStatus(got.items[k]), got.items[k][1]>>]
<1>1. IsFrame(got) /\ IsGlobal(got) /\ got.type = "global"
      /\ c \in {WriteAttributes, WriteAttributesUndivided, WriteAttributesNoResponse}
    BY DEF IsRead, Writes, IsGlobal
<1>2. OwnPart = GlobalAnswer
    BY <1>1 DEF OwnPart
<1>3. CASE OwnPart = None
    <2>1. Replied = Answer(Default, "global")
        BY <1>3 DEF Replied
    <2>2. Replied.type = "global" /\ Replied.command = DefaultResponse
        BY <2>1 DEF Answer, Default, Part
    <2> QED
        BY <2>2 DEF IsGlobal, DefaultResponse, WriteAttributesResponse
<1>4. CASE OwnPart # None
    <2>1. Replied = Answer(OwnPart, "global")
        BY <1>1, <1>4 DEF Replied
    <2>2. c \in {WriteAttributes, WriteAttributesUndivided}
        <3>1. WriteAttributesNoResponse \notin {ReadAttributes, WriteAttributes,
                    WriteAttributesUndivided, ConfigureReporting, ReadReportingConfiguration,
                    DiscoverAttributes, DiscoverCommandsReceived}
            BY DEF ReadAttributes, WriteAttributes, WriteAttributesUndivided, ConfigureReporting,
               ReadReportingConfiguration, DiscoverAttributes, DiscoverCommandsReceived,
               WriteAttributesNoResponse
        <3>2. c = WriteAttributesNoResponse => GlobalAnswer = None
            BY <3>1, GlobalCases
        <3> QED
            BY <3>2, <1>1, <1>2, <1>4
    <2>3. OwnPart = WriteAnswerPart
        BY <2>2, <1>2, GlobalCases
    <2>4. Replied.type = "global" /\ Replied.items = items
        BY <2>1, <2>3 DEF Answer, WriteAnswerPart, Part
    <2> QED
        BY <2>2, <2>4 DEF IsGlobal
<1> QED
    BY <1>3, <1>4

-----------------------------------------------------------------------------
(* The image that the storage holds. *)

\* Short sequences joined.
LEMMA OneTwo ==
    ASSUME NEW a, NEW b, NEW c
    PROVE  <<a>> \o <<b, c>> = <<a, b, c>> /\ <<a>> \o <<>> = <<a>>
<1> DEFINE T == {a, b, c}
           one == <<a>>
           two == <<b, c>>
           all == <<a, b, c>>
           q == one \o two
<1>1. /\ one \in Seq(T) /\ 1 = Len(one) /\ one[1] = a
      /\ two \in Seq(T) /\ 2 = Len(two) /\ two[1] = b /\ two[2] = c
      /\ all \in Seq(T) /\ 3 = Len(all) /\ all[1] = a /\ all[2] = b /\ all[3] = c
    OBVIOUS
<1> HIDE DEF T, one, two, all
<1>2. q \in Seq(T) /\ Len(q) = 1 + 2
      /\ \A i \in 1..1 + 2 : q[i] = IF i <= 1 THEN one[i] ELSE two[i - 1]
    <2>1. q \in Seq(T) /\ Len(q) = Len(one) + Len(two)
          /\ \A i \in 1..Len(one) + Len(two) :
                q[i] = IF i <= Len(one) THEN one[i] ELSE two[i - Len(one)]
        BY <1>1, ConcatProperties
    <2> HIDE DEF q
    <2>2. 1 = Len(one) /\ 2 = Len(two)
        BY <1>1
    <2> QED
        BY <2>1, <2>2
<1> HIDE DEF q
<1> DEFINE n == Len(q)
           m == Len(all)
<1>3. 3 = n /\ 3 = m
    BY <1>1, <1>2
<1>4. q[1] = a /\ q[2] = b /\ q[3] = c
    <2>1. 1 \in 1..1 + 2 /\ 2 \in 1..1 + 2 /\ 3 \in 1..1 + 2
        OBVIOUS
    <2>2. q[1] = one[1] /\ q[2] = two[2 - 1] /\ q[3] = two[3 - 1]
        BY <1>2, <2>1
    <2> QED
        BY <1>1, <2>2
<1> HIDE DEF n, m
<1>5. \A i \in 1..n : i = 1 \/ i = 2 \/ i = 3
    BY <1>3
<1>6. n = m /\ \A i \in 1..n : q[i] = all[i]
    BY <1>1, <1>3, <1>4, <1>5
<1>7. q = all
    BY <1>1, <1>2, <1>6, SeqEqual DEF n, m
<1>8. one \o <<>> = one
    BY <1>1
<1> QED
    BY <1>7, <1>8 DEF q, one, two, all

Alone == <<Always("data")>>
Timed == <<Always("data"), Always("u16"), Always("u16")>>

\* The layout of an attribute in the storage.
LEMMA ImageLayouts ==
    /\ IsLayout(Alone) /\ 1 = Len(Alone) /\ Alone[1].type = "data" /\ Alone[1].at = 0
    /\ IsLayout(Timed) /\ 3 = Len(Timed)
    /\ Timed[1].type = "data" /\ Timed[2].type = "u16" /\ Timed[3].type = "u16"
    /\ Timed[1].at = 0 /\ Timed[2].at = 0 /\ Timed[3].at = 0
    /\ \A i \in Places :
          ImageFields(i) = IF Cluster[i].interval = None THEN Alone ELSE Timed
<1>1. "data" \in FieldType /\ "u16" \in FieldType
    BY DEF FieldType
<1>2. /\ 1 = Len(Alone) /\ Alone[1].type = "data" /\ Alone[1].at = 0 /\ DOMAIN Alone = 1..1
    BY DEF Alone, Always
<1>3. /\ 3 = Len(Timed) /\ DOMAIN Timed = 1..3
      /\ Timed[1].type = "data" /\ Timed[2].type = "u16" /\ Timed[3].type = "u16"
      /\ Timed[1].at = 0 /\ Timed[2].at = 0 /\ Timed[3].at = 0
    BY DEF Timed, Always
<1>4. IsLayout(Alone)
    <2> DEFINE n == Len(Alone)
    <2>1. 1 = n
        BY <1>2
    <2> HIDE DEF n
    <2>2. \A i \in 1..n : i = 1
        BY <2>1
    <2>3. n \in Nat /\ DOMAIN Alone = 1..n
          /\ \A i \in 1..n : Alone[i].type \in FieldType /\ Alone[i].at \in 0..(i - 1)
        BY <2>1, <2>2, <1>1, <1>2
    <2> QED
        BY <2>3 DEF IsLayout, n
<1>5. IsLayout(Timed)
    <2> DEFINE n == Len(Timed)
    <2>1. 3 = n
        BY <1>3
    <2> HIDE DEF n
    <2>2. \A i \in 1..n : i = 1 \/ i = 2 \/ i = 3
        BY <2>1
    <2>3. n \in Nat /\ DOMAIN Timed = 1..n
          /\ \A i \in 1..n : Timed[i].type \in FieldType /\ Timed[i].at \in 0..(i - 1)
        BY <2>1, <2>2, <1>1, <1>3
    <2> QED
        BY <2>3 DEF IsLayout, n
<1>6. \A i \in Places : ImageFields(i) = IF Cluster[i].interval = None THEN Alone ELSE Timed
    <2> DEFINE a == Always("data")
               b == Always("u16")
    <2> HIDE DEF a, b
    <2>1. <<a>> \o <<b, b>> = <<a, b, b>> /\ <<a>> \o <<>> = <<a>>
        BY OneTwo
    <2> QED
        BY <2>1 DEF ImageFields, Alone, Timed, a, b
<1> QED
    BY <1>2, <1>3, <1>4, <1>5, <1>6

ImageRecord(i) ==
    <<saved.values[i]>> \o (IF saved.config[i] = None THEN <<>> ELSE saved.config[i])

\* An attribute's record in the storage can be written, and the format carries it if
\* it carries the datum.
LEMMA ImageRecords ==
    ASSUME IsValues(saved.values), IsConfig(saved.config), NEW i \in Places
    PROVE  /\ IsLayout(ImageFields(i)) /\ Fits(ImageFields(i), ImageRecord(i))
           /\ Writable(ImageFields(i), ImageRecord(i))
           /\ ImageRecord(i)[1] = saved.values[i]
           /\ ~AwkwardData(saved.values[i]) => Carries(ImageFields(i), ImageRecord(i))
<1> DEFINE v == saved.values[i]
           e == saved.config[i]
<1>1. v \in Data /\ e \in {None} \cup (Word \X Word)
      /\ (e = None) = (Cluster[i].interval = None)
    BY DEF IsValues, IsConfig
<1>2. v # None
    BY <1>1, NotNone, FieldValuesAre DEF FieldType
<1> HIDE DEF v, e
<1>3. CASE e = None
    <2> DEFINE r == <<v>>
               l == Alone
    <2>1. ImageFields(i) = l /\ ImageRecord(i) = r
        BY <1>1, <1>3, ImageLayouts, OneTwo DEF ImageRecord, v, e
    <2>2. IsSeq(r) /\ 1 = Len(r) /\ r[1] = v
        BY DEF IsSeq
    <2>3. IsLayout(l) /\ l[1].type = "data" /\ l[1].at = 0
        BY ImageLayouts
    <2> HIDE DEF r
    <2> DEFINE n == Len(l)
    <2>4. n = Len(l) /\ 1 = n /\ Len(r) = n
        BY <2>2, ImageLayouts
    <2> HIDE DEF n, l
    <2>5. \A k \in 1..n : k = 1
        BY <2>4
    <2>6. DOMAIN l = 1..n
        BY <2>3, <2>4 DEF IsLayout
    <2>7. Fits(l, r)
        BY <2>2, <2>3, <2>4, <2>5, <2>6 DEF Fits
    <2>8. Writable(l, r)
        BY <2>2, <2>5, <2>6, <1>1 DEF Writable
    <2>9. ~AwkwardData(v) => Carries(l, r)
        BY <2>2, <2>3, <2>4, <2>5, <1>2 DEF Carries, Carried1, Wanted
    <2> QED
        BY <2>1, <2>2, <2>3, <2>7, <2>8, <2>9 DEF v
<1>4. CASE e # None
    <2> DEFINE x == e[1]
               y == e[2]
    <2>0. x \in Word /\ y \in Word /\ e = <<x, y>>
        BY <1>1, <1>4
    <2>w. x # None /\ y # None
        BY <2>0, NotNone, FieldValuesAre DEF FieldType
    <2> HIDE DEF x, y
    <2> DEFINE r == <<v, x, y>>
               l == Timed
    <2>1. ImageFields(i) = l /\ ImageRecord(i) = r
        <3>1. ImageFields(i) = l
            BY <1>1, <1>4, ImageLayouts
        <3>2. ImageRecord(i) = <<v>> \o <<x, y>>
            BY <2>0, <1>4 DEF ImageRecord, v, e
        <3>3. <<v>> \o <<x, y>> = <<v, x, y>>
            BY OneTwo
        <3> QED
            BY <3>1, <3>2, <3>3
    <2>2. IsSeq(r) /\ 3 = Len(r) /\ r[1] = v /\ r[2] = x /\ r[3] = y
        BY DEF IsSeq
    <2>3. /\ IsLayout(l) /\ l[1].type = "data" /\ l[1].at = 0
          /\ l[2].type = "u16" /\ l[2].at = 0 /\ l[3].type = "u16" /\ l[3].at = 0
        BY ImageLayouts
    <2> HIDE DEF r
    <2> DEFINE n == Len(l)
    <2>4. n = Len(l) /\ 3 = n /\ Len(r) = n
        BY <2>2, ImageLayouts
    <2> HIDE DEF n, l
    <2>5. \A k \in 1..n : k = 1 \/ k = 2 \/ k = 3
        BY <2>4
    <2>6. DOMAIN l = 1..n
        BY <2>3, <2>4 DEF IsLayout
    <2>7. Fits(l, r)
        BY <2>0, <2>2, <2>3, <2>4, <2>5, <2>6, FieldValuesAre DEF Fits
    <2>8. Writable(l, r)
        BY <2>2, <2>3, <2>5, <2>6, <1>1 DEF Writable
    <2>9. ~AwkwardData(v) => Carries(l, r)
        BY <2>2, <2>3, <2>4, <2>5, <1>2, <2>w DEF Carries, Carried1, Wanted
    <2> QED
        BY <2>1, <2>2, <2>3, <2>7, <2>8, <2>9 DEF v
<1> QED
    BY <1>3, <1>4

\* Bytes that start with c still do with more behind them.
LEMMA StartsMore ==
    ASSUME NEW b, NEW c, Starts(b, c), NEW z \in Bytes
    PROVE  Starts(b \o z, c)
<1> DEFINE a == b \o z
           n == Len(c)
           m == Len(b)
<1>1. b \in Bytes /\ c \in Bytes /\ n <= m /\ \A i \in 1..n : b[i] = c[i]
    BY DEF Starts
<1>2. EndToEnd(a, b, z)
    BY <1>1 DEF EndToEnd
<1> HIDE DEF a
<1>3. a \in Bytes /\ Len(a) = m + Len(z) /\ m \in Nat /\ Len(z) \in Nat
      /\ \A i \in 1..m : a[i] = b[i]
    BY <1>2, EndToEndFacts
<1>4. n \in Nat
    BY <1>1, BytesConcat
<1> HIDE DEF n, m
<1>5. n <= Len(a) /\ \A i \in 1..n : a[i] = c[i]
    BY <1>1, <1>3, <1>4
<1> QED
    BY <1>1, <1>3, <1>5 DEF Starts, a, n

Loads ==
    {l \in [stopped : BOOLEAN, at : Nat, values : [Places -> Data],
            config : [Places -> {None} \cup (Word \X Word)]] :
        IsValues(l.values) /\ IsConfig(l.config)}

ImageParts == [i \in Places |-> WriteRecord(ImageFields(i), ImageRecord(i))]

\* The image is the attributes' records one behind the other.
LEMMA ImageWritten ==
    ASSUME IsValues(saved.values), IsConfig(saved.config)
    PROVE  /\ ImageParts \in Seq(Bytes) /\ Len(ImageParts) = Len(Cluster)
           /\ ImageBytes = FlattenSeq(ImageParts) /\ ImageBytes \in Bytes
<1>1. ImageParts \in [1..Len(Cluster) -> Bytes]
    <2>1. \A i \in Places : WriteRecord(ImageFields(i), ImageRecord(i)) \in Bytes
        BY ImageRecords, RecordWritten
    <2> QED
        BY <2>1 DEF ImageParts, Places
<1>2. ImageParts \in Seq(Bytes) /\ Len(ImageParts) = Len(Cluster)
    BY <1>1, ClusterFacts, FunctionIsSeq
<1>3. ImageBytes = FlattenSeq(ImageParts)
    BY Zenon DEF ImageBytes, ImageParts, ImageRecord
<1> QED
    BY <1>2, <1>3, FlattenType

\* The tail of three.
LEMMA TailOfThree ==
    ASSUME NEW T, NEW x \in Seq(T), 3 = Len(x)
    PROVE  Tail(x) = <<x[2], x[3]>>
<1> DEFINE t == Tail(x)
           p == <<x[2], x[3]>>
           n == Len(x)
<1>1. x # <<>> /\ n = 3
    OBVIOUS
<1>2. t = From(x, 1)
    BY <1>1, TailIsFrom
<1>3. x[2] \in T /\ x[3] \in T
    <2>1. 2 \in 1..n /\ 3 \in 1..n
        BY <1>1
    <2> QED
        BY <2>1
<1>4. p \in Seq(T) /\ 2 = Len(p) /\ p[1] = x[2] /\ p[2] = x[3]
    BY <1>3
<1> HIDE DEF t, p
<1>5. 1 \in Nat
    OBVIOUS
<1>6. /\ t \in Seq(T) /\ Len(t) = IF 1 <= n THEN n - 1 ELSE 0
      /\ \A i \in 1..(n - 1) : t[i] = x[1 + i]
    BY <1>2, <1>5, FromType
<1> HIDE DEF n
<1>7. Len(t) = 2 /\ 1 \in 1..(n - 1) /\ 2 \in 1..(n - 1)
    BY <1>1, <1>6
<1>8. t[1] = x[1 + 1] /\ t[2] = x[1 + 2]
    BY <1>6, <1>7
<1>9. \A i \in 1..Len(t) : t[i] = p[i]
    BY <1>4, <1>7, <1>8
<1>10. t = p
    BY <1>4, <1>6, <1>7, <1>9, SeqEqual
<1> QED
    BY <1>10 DEF t, p

\* Loading an attribute keeps the types and the other attributes.
LEMMA LoadingMade ==
    ASSUME IsValues(saved.values), IsConfig(saved.config), NEW i \in Places, NEW l \in Loads
    PROVE  /\ Loading(i, l) \in Loads
           /\ \A k \in Places \ {i} : Loading(i, l).values[k] = l.values[k]
<1> DEFINE layout == ImageFields(i)
           b == From(ImageBytes, l.at) \o Zeros(16)
           r == ReadRecord(layout, b)
           d == r.value[1]
           m == Loading(i, l)
<1>1. l.at \in Nat /\ IsValues(l.values) /\ IsConfig(l.config) /\ l.stopped \in BOOLEAN
      /\ l.values \in [Places -> Data] /\ l.config \in [Places -> {None} \cup (Word \X Word)]
      /\ l = [stopped |-> l.stopped, at |-> l.at, values |-> l.values, config |-> l.config]
    BY DEF Loads
<1>2. b \in Bytes /\ Len(b) \in Nat
    <2>1. From(ImageBytes, l.at) \in Bytes
        BY <1>1, ImageWritten, FromType DEF Bytes
    <2>2. Zeros(16) \in Bytes
        BY ZerosType
    <2> QED
        BY <2>1, <2>2, BytesConcat
<1>3. IsLayout(layout)
    BY ImageRecords
<1>4. m = IF l.stopped \/ r.outcome # "taken" \/ d.tag # Cluster[i].default.tag
          THEN [l EXCEPT !.stopped = TRUE]
          ELSE [stopped |-> FALSE, at |-> l.at + r.length,
                values |-> [l.values EXCEPT ![i] = d],
                config |-> IF Len(r.value) = 1 THEN l.config
                           ELSE [l.config EXCEPT ![i] = Tail(r.value)]]
    BY Zenon DEF Loading
<1>5. CASE l.stopped \/ r.outcome # "taken" \/ d.tag # Cluster[i].default.tag
    <2>1. m = [stopped |-> TRUE, at |-> l.at, values |-> l.values, config |-> l.config]
        BY <1>1, <1>4, <1>5
    <2> HIDE DEF m
    <2> QED
        BY <2>1, <1>1 DEF Loads, m
<1>6. CASE ~(l.stopped \/ r.outcome # "taken" \/ d.tag # Cluster[i].default.tag)
    <2> HIDE DEF b, layout
    <2>1. r \in Made(Records(layout), Len(b))
        BY <1>2, <1>3, RecordMade
    <2>2. r.value \in Records(layout) /\ r.length \in 0..Len(b)
        BY <2>1, <1>2, <1>6, MadeCases
    <2> DEFINE v == [l.values EXCEPT ![i] = d]
               c == IF Len(r.value) = 1 THEN l.config
                    ELSE [l.config EXCEPT ![i] = Tail(r.value)]
               x == r.value
               n == Len(layout)
    <2>3. m = [stopped |-> FALSE, at |-> l.at + r.length, values |-> v, config |-> c]
        BY <1>4, <1>6
    <2>n. /\ n = IF Cluster[i].interval = None THEN 1 ELSE 3
          /\ layout[1].type = "data" /\ layout[1].at = 0
          /\ n = 3 => /\ layout[2].type = "u16" /\ layout[2].at = 0
                      /\ layout[3].type = "u16" /\ layout[3].at = 0
        BY ImageLayouts DEF layout
    <2>q. x \in Records(layout) /\ Len(x) = n /\ n = Len(layout) /\ x \in Seq(Anything)
        BY <2>2, <1>3, RecordFacts
    <2> HIDE DEF x, n
    <2>4. x[1] \in Data
        <3>1. 1 \in 1..Len(layout)
            BY <2>n, <2>q
        <3> QED
            BY <3>1, <2>n, <2>q, <1>3, FieldThere, AlwaysWanted, FieldValuesAre
    <2>5. IsValues(v) /\ v \in [Places -> Data] /\ \A k \in Places \ {i} : v[k] = l.values[k]
        <3>1. d \in Data /\ d.tag = Cluster[i].default.tag
            BY <2>4, <1>6 DEF x
        <3> HIDE DEF d
        <3> QED
            BY <3>1, <1>1 DEF IsValues
    <2>6. IsConfig(c) /\ c \in [Places -> {None} \cup (Word \X Word)]
        <3>1. CASE n = 1
            <4>1. c = l.config
                BY <3>1, <2>q DEF x
            <4> QED
                BY <4>1, <1>1
        <3>2. CASE n # 1
            <4>1. n = 3 /\ Cluster[i].interval # None
                BY <3>2, <2>n
            <4>2. x[2] \in Word /\ x[3] \in Word
                <5>1. 2 \in 1..Len(layout) /\ 3 \in 1..Len(layout)
                    BY <4>1, <2>q
                <5> QED
                    BY <5>1, <4>1, <2>n, <2>q, <1>3, FieldThere, AlwaysWanted, FieldValuesAre
            <4>3. Tail(x) \in Word \X Word
                <5>1. Tail(x) = <<x[2], x[3]>>
                    BY <2>q, <4>1, TailOfThree
                <5> QED
                    BY <5>1, <4>2
            <4>4. Tail(x) # None
                BY <4>3, ClusterAssumption
            <4>5. c = [l.config EXCEPT ![i] = Tail(x)]
                BY <3>2, <2>q DEF x
            <4> QED
                BY <4>1, <4>3, <4>4, <4>5, <1>1 DEF IsConfig
        <3> QED
            BY <3>1, <3>2
    <2>7. l.at + r.length \in Nat
        BY <2>2, <1>1, <1>2
    <2> HIDE DEF v, c, m, r
    <2> QED
        BY <2>3, <2>5, <2>6, <2>7 DEF Loads, m
<1> QED
    BY <1>5, <1>6

\* Behind attributes that came back, an attribute that the format carries comes
\* back.
LEMMA LoadingBack ==
    ASSUME IsValues(saved.values), IsConfig(saved.config), NEW i \in Places, NEW l \in Loads,
           NEW g, Laid(ImageParts, g), ~l.stopped, l.at = Len(g[i - 1]),
           ~AwkwardData(saved.values[i])
    PROVE  /\ Loading(i, l).values[i] = saved.values[i]
           /\ ~Loading(i, l).stopped /\ Loading(i, l).at = Len(g[i])
<1> DEFINE fields == ImageFields(i)
           bytes == From(ImageBytes, l.at) \o Zeros(16)
           w == WriteRecord(fields, ImageRecord(i))
           x == ImageRecord(i)
           made == ReadRecord(fields, bytes)
           n == Len(ImageParts)
           none == <<>>
           whole == ImageBytes
<1>1. /\ ImageParts \in Seq(Bytes) /\ i \in 1..n /\ ImageParts[i] = w
      /\ whole \in Bytes /\ whole = FlattenSeq(ImageParts)
    BY ImageWritten DEF ImageParts, Places
<1>2. whole = g[n]
    BY <1>1, LaidFlat
<1>3. none \in Bytes /\ Len(none) = 0 /\ none \o whole = whole
    BY <1>1, BytesConcat
<1> HIDE DEF none, whole
<1>4. EndToEnd(whole, none, g[n])
    BY <1>1, <1>2, <1>3 DEF EndToEnd
<1>5. Starts(whole, whole)
    BY <1>1, BytesConcat DEF Starts
<1>6. Starts(From(whole, Len(none) + Len(g[i - 1])), ImageParts[i])
    BY <1>1, <1>4, <1>5, LaidNext
<1>7. /\ g[i - 1] \in Bytes /\ Len(g[i]) = Len(g[i - 1]) + Len(ImageParts[i])
    BY <1>1, LaidStep
<1>8. Len(none) + Len(g[i - 1]) = l.at
    BY <1>3, <1>7, BytesConcat
<1>9. Starts(bytes, w)
    <2>1. Starts(From(ImageBytes, l.at), w)
        BY <1>1, <1>6, <1>8 DEF whole
    <2>2. Zeros(16) \in Bytes
        BY ZerosType
    <2> QED
        BY <2>1, <2>2, StartsMore
<1>10. /\ IsLayout(fields) /\ Fits(fields, x) /\ Writable(fields, x) /\ Carries(fields, x)
       /\ x[1] = saved.values[i]
    BY ImageRecords
<1>11. made = Taken(x, Len(w))
    <2>1. IsLayout(fields) /\ Fits(fields, x) /\ Writable(fields, x) /\ Carries(fields, x)
        BY <1>10
    <2>2. Starts(bytes, WriteRecord(fields, x))
        BY <1>9
    <2> HIDE DEF fields, bytes, x
    <2>3. ReadRecord(fields, bytes) = Taken(x, Len(WriteRecord(fields, x)))
        BY <2>1, <2>2, RecordRead
    <2> QED
        BY <2>3 DEF x
<1>12. made.outcome = "taken" /\ made.value = x /\ made.length = Len(w)
    <2> HIDE DEF made, x, w
    <2> QED
        BY <1>11 DEF Taken
<1>13. saved.values[i].tag = Cluster[i].default.tag /\ l.values \in [Places -> Data]
    BY DEF IsValues, Loads
<1>14. Loading(i, l) =
          IF l.stopped \/ made.outcome # "taken" \/ made.value[1].tag # Cluster[i].default.tag
          THEN [l EXCEPT !.stopped = TRUE]
          ELSE [stopped |-> FALSE, at |-> l.at + made.length,
                values |-> [l.values EXCEPT ![i] = made.value[1]],
                config |-> IF Len(made.value) = 1 THEN l.config
                           ELSE [l.config EXCEPT ![i] = Tail(made.value)]]
    BY Zenon DEF Loading
<1> HIDE DEF made, x, w, fields, bytes
<1>15. Loading(i, l).values = [l.values EXCEPT ![i] = saved.values[i]]
       /\ Loading(i, l).stopped = FALSE /\ Loading(i, l).at = l.at + Len(w)
    BY <1>10, <1>12, <1>13, <1>14
<1> QED
    BY <1>1, <1>7, <1>13, <1>15

FirstLoad == [stopped |-> FALSE, at |-> 0, values |-> Defaults, config |-> Intervals]

\* What is loaded is what a run over the attributes ends with.
LEMMA LoadedIs ==
    ASSUME NEW n \in Nat, n = Len(Cluster), NEW f,
           f = [i \in 0..n |-> IF i = 0 THEN FirstLoad ELSE Loading(i, f[i - 1])]
    PROVE  Loaded = f[n]
<1> DEFINE Is(h) == h = [i \in 0..n |-> IF i = 0 THEN FirstLoad ELSE Loading(i, h[i - 1])]
           h == CHOOSE x : Is(x)
<1>1. Is(f)
    OBVIOUS
<1>2. Is(h)
    <2> HIDE DEF Is
    <2> QED
        BY <1>1
<1>7. Loaded = h[n]
    BY DEF Loaded, h, FirstLoad
<1> HIDE DEF h
<1> DEFINE U == {i \in 0..n : h[i] = f[i]}
<1>3. 0 \in U
    BY <1>1, <1>2
<1>4. ASSUME NEW i \in 1..n, i - 1 \in U
      PROVE  i \in U
    <2>1. h[i] = Loading(i, h[i - 1]) /\ f[i] = Loading(i, f[i - 1])
        BY <1>1, <1>2
    <2> QED
        BY <1>4, <2>1
<1>5. 0..n \subseteq U
    <2> HIDE DEF U
    <2> QED
        BY <1>3, <1>4, InductionUpTo
<1>6. h[n] = f[n]
    BY <1>5
<1> QED
    BY <1>6, <1>7

\* The cluster after its first i attributes, as far as they can be read back.
LoadedUpTo(i, l, g) ==
    /\ \A k \in 1..i : PlainImage(k) => l.values[k] = saved.values[k]
    /\ PlainImage(i) => ~l.stopped /\ l.at = Len(g[i])

\* One attribute more.
LEMMA LoadedNext ==
    ASSUME IsValues(saved.values), IsConfig(saved.config), NEW i \in Places, NEW l \in Loads,
           NEW g, Laid(ImageParts, g), LoadedUpTo(i - 1, l, g)
    PROVE  LoadedUpTo(i, Loading(i, l), g)
<1> DEFINE m == Loading(i, l)
<1>0. i \in 1..Len(Cluster) /\ Len(Cluster) \in Nat
    BY ClusterFacts DEF Places
<1>1. \A k \in Places \ {i} : m.values[k] = l.values[k]
    BY LoadingMade
<1>2. \A k \in 1..i : k \in Places /\ (k # i => k \in 1..(i - 1))
    BY <1>0 DEF Places
<1>3. PlainImage(i) => PlainImage(i - 1) /\ ~AwkwardData(saved.values[i])
    BY <1>0 DEF PlainImage
<1>4. PlainImage(i) => ~l.stopped /\ l.at = Len(g[i - 1])
    BY <1>3 DEF LoadedUpTo
<1>5. PlainImage(i) => m.values[i] = saved.values[i] /\ ~m.stopped /\ m.at = Len(g[i])
    BY <1>3, <1>4, LoadingBack
<1>6. \A k \in 1..(i - 1) : PlainImage(k) => l.values[k] = saved.values[k]
    BY DEF LoadedUpTo
<1> HIDE DEF m
<1>7. \A k \in 1..i : PlainImage(k) => m.values[k] = saved.values[k]
    BY <1>1, <1>2, <1>5, <1>6
<1> QED
    BY <1>5, <1>7 DEF LoadedUpTo, m

\* A restart loads every attribute as it was saved if the format carries it and
\* those before it (zb-macros/zcl.rs, try_read and read_with); what it loads is of
\* the right types in any case.
THEOREM LoadedBack ==
    ASSUME IsValues(saved.values), IsConfig(saved.config)
    PROVE  /\ IsValues(Loaded.values) /\ IsConfig(Loaded.config)
           /\ \A p \in Places : PlainImage(p) => Loaded.values[p] = saved.values[p]
<1> DEFINE n == Len(Cluster)
           S == Loads
           s0 == FirstLoad
           step == [i \in 1..n |-> [l \in S |-> Loading(i, l)]]
<1>1. n \in Nat /\ n = Len(Cluster) /\ Places = 1..n
    BY ClusterFacts DEF Places
<1>2. s0 \in S /\ s0.stopped = FALSE /\ s0.at = 0
    BY StartValues DEF Loads, FirstLoad, IsValues, IsConfig
<1>3. \A i \in 1..n, l \in S : Loading(i, l) \in S
    BY <1>1, LoadingMade
<1>s. s0 = FirstLoad /\ S = Loads
    OBVIOUS
<1> HIDE DEF S, s0, n
<1>4. step \in [1..n -> [S -> S]]
    BY <1>3
<1>5. \A i \in 1..n : \A l \in S : step[i][l] = Loading(i, l)
    OBVIOUS
<1> HIDE DEF step
<1>6. HasRun(S, s0, n, step)
    BY <1>1, <1>2, <1>4, Recursion
<1>7. PICK f \in [0..n -> S] : Runs(f, s0, n, step)
    BY <1>6 DEF HasRun
<1>8. f[0] = s0
    BY <1>7 DEF Runs
<1>9. ASSUME NEW i \in 1..n
      PROVE  i - 1 \in 0..n /\ f[i - 1] \in S /\ f[i] = Loading(i, f[i - 1])
    <2>1. f[i] = step[i][f[i - 1]]
        BY <1>7 DEF Runs
    <2>2. i - 1 \in 0..n
        BY <1>1
    <2>3. f[i - 1] \in S
        BY <2>2
    <2> QED
        BY <1>5, <2>1, <2>2, <2>3
<1>10. f = [i \in 0..n |-> IF i = 0 THEN FirstLoad ELSE Loading(i, f[i - 1])]
    <2>1. \A i \in 0..n : f[i] = IF i = 0 THEN FirstLoad ELSE Loading(i, f[i - 1])
        BY <1>8, <1>9, <1>s
    <2>2. f = [i \in 0..n |-> f[i]]
        OBVIOUS
    <2> QED
        BY <2>1, <2>2
<1>11. Loaded = f[n]
    BY <1>1, <1>10, LoadedIs
<1>12. PICK g : Laid(ImageParts, g)
    BY ImageWritten, LaidExists
<1>13. g[0] = <<>> /\ Len(g[0]) = 0
    BY <1>12 DEF Laid
<1> DEFINE U == {i \in 0..n : LoadedUpTo(i, f[i], g)}
<1>14. 0 \in U
    BY <1>1, <1>2, <1>8, <1>13 DEF LoadedUpTo
<1>15. ASSUME NEW i \in 1..n, i - 1 \in U
       PROVE  i \in U
    <2>1. f[i - 1] \in Loads /\ f[i] = Loading(i, f[i - 1]) /\ i \in Places /\ i \in 0..n
        BY <1>1, <1>9, <1>s
    <2>2. LoadedUpTo(i - 1, f[i - 1], g)
        BY <1>15
    <2> DEFINE l == f[i - 1]
    <2> HIDE DEF l
    <2>3. LoadedUpTo(i, Loading(i, l), g)
        BY <2>1, <2>2, <1>12, LoadedNext DEF l
    <2> QED
        BY <2>1, <2>3 DEF l
<1>16. 0..n \subseteq U
    <2> HIDE DEF U
    <2> QED
        BY <1>1, <1>14, <1>15, InductionUpTo
<1>17. n \in 0..n
    BY <1>1
<1>18. LoadedUpTo(n, Loaded, g)
    BY <1>11, <1>16, <1>17
<1>19. Loaded \in Loads
    BY <1>11, <1>17, <1>s
<1>20. \A p \in Places : PlainImage(p) => Loaded.values[p] = saved.values[p]
    BY <1>1, <1>18 DEF LoadedUpTo
<1> QED
    BY <1>19, <1>20 DEF Loads

-----------------------------------------------------------------------------
(* The inductive invariant. *)

\* What is written of a frame on a leg, up to one of its items.
StartOn(f, l) ==
    <<Control(f)>> \o (IF f.code = None THEN <<>> ELSE LowFirst(f.code)) \o <<f.sequence>>
    \o (IF IsGlobal(f) \/ l = "request" THEN <<f.command>> ELSE <<>>)
    \o WriteRecord(LeadingOf(f), f.head)
UpTo(f, n, l) == StartOn(f, l) \o FlattenSeq(PartsUpTo(f, n))

\* What is written on a leg, in terms of the leg.
LEMMA UpToIs ==
    /\ \A f : Start(f) = StartOn(f, leg)
    /\ \A f, n : WrittenUpTo(f, n) = UpTo(f, n, leg)
<1>1. \A f : Start(f) = StartOn(f, leg)
    BY Zenon DEF Start, StartOn
<1> QED
    BY <1>1 DEF WrittenUpTo, UpTo

\* Attributes, intervals and their copies are of their types.
ClusterOk ==
    /\ IsValues(values) /\ IsConfig(config)
    /\ IsValues(saved.values) /\ IsConfig(saved.config)

Phases == {"idle", "writing", "reading", "accepted", "refused", "unsent", "halted"}

\* The frames under way are frames.
FramesOk ==
    /\ phase \in Phases /\ leg \in {"request", "response"}
    /\ asked \in Requests \cup {NoFrame}
    /\ phase # "idle" => asked \in Requests /\ IsFrame(sent)
    /\ leg = "request" => sent = asked
    /\ got = NoFrame \/ IsRead(got)
    /\ DOMAIN confirmed = Lasting

\* The frame has been sent.
IsSent(p) == p \in {"reading", "accepted", "refused", "halted"}

\* The bytes on the air are those of the items written.
WireOk ==
    /\ written \in 0..Len(sent.items) /\ Len(sent.items) \in Nat /\ AllWritable(sent, written)
    /\ wire \in Bytes
    /\ wire = <<>> => written = 0
    /\ wire # <<>> => wire = UpTo(sent, written, leg)
    /\ position \in 0..Len(wire)
    /\ IsSent(phase) => written = Len(sent.items) /\ wire # <<>> /\ Len(wire) <= Capacity

\* A frame that says which command it is.
Told(f, l) == ~(l = "response" /\ f.type = "specific")

Over(f, n, w) == ~(ItemOf(f) # <<>> /\ n < Len(w))

\* What is read of frame f up to byte n: as long as it is plain, its items; the reader
\* then stands where the writer stood.
ReadSoFar(f, l, g, n) ==
    /\ n > 0 => Bare(g) = Bare(f)
    /\ \A i \in DOMAIN g.items :
          PlainUpTo(f, i) => i \in DOMAIN f.items /\ g.items[i] = f.items[i]
    /\ n > 0 /\ PlainUpTo(f, Len(g.items)) => n = Len(UpTo(f, Len(g.items), l))

ReadOk ==
    /\ phase = "writing" => position = 0 /\ got = NoFrame
    /\ IsSent(phase) =>
        /\ position = 0 => got.items = <<>>
        /\ position > 0 => got # NoFrame
        /\ phase = "accepted" => position > 0 /\ Over(got, position, wire)
        /\ Told(sent, leg) =>
            /\ ReadSoFar(sent, leg, got, position)
            /\ Plain(sent) => phase \in {"reading", "accepted"}

UnderWay(p) == p \in {"writing", "reading"}

\* What the peer takes for granted is held and stored; of what it is writing it takes
\* nothing for granted.
HeldOk ==
    /\ \A id \in Lasting : confirmed[id] # None =>
          values[At(id)] = confirmed[id] /\ saved.values[At(id)] = confirmed[id]
    /\ UnderWay(phase) /\ leg = "request" =>
          \A id \in Lasting \cap Touched(sent) : confirmed[id] = None

DoneBy(a, s) ==
    {i \in DOMAIN a.items \cap DOMAIN s.items :
        /\ s.items[i] = <<Success, a.items[i][1]>>
        /\ a.command = WriteAttributesUndivided =>
                \A j \in DOMAIN s.items : s.items[j][1] = Success}
LastDoneBy(a, s, id) ==
    {i \in DoneBy(a, s) : a.items[i][1] = id
                          /\ \A j \in DoneBy(a, s) : a.items[j][1] = id => j <= i}

\* What the answer under way reports as done is done and stored.
Kept(a, s, v) ==
    \A id \in Lasting : \A i \in LastDoneBy(a, s, id) : v[At(id)] = a.items[i][2]

PendingOk ==
    UnderWay(phase) /\ leg = "response" /\ Writes(asked) =>
        /\ IsGlobal(sent)
        /\ Plain(asked) /\ sent.command = WriteAttributesResponse =>
              Plain(sent) /\ Kept(asked, sent, values) /\ Kept(asked, sent, saved.values)

IInv == ClusterOk /\ FramesOk /\ WireOk /\ ReadOk /\ HeldOk /\ PendingOk

-----------------------------------------------------------------------------

\* A frame that is plain is so up to any of its items.
LEMMA PlainDown ==
    ASSUME NEW f, Len(f.items) \in Nat, DOMAIN f.items = 1..Len(f.items)
    PROVE  /\ Plain(f) => \A n \in Nat : PlainUpTo(f, n)
           /\ \A n \in Nat : PlainUpTo(f, n + 1) => PlainUpTo(f, n)
    BY DEF Plain, PlainUpTo

\* Frames that differ in their items only.
LEMMA BareSame ==
    ASSUME NEW f, NEW g, IsFrame(f), IsFrame(g), Bare(g) = Bare(f)
    PROVE  /\ g.type = f.type /\ g.command = f.command /\ ItemOf(g) = ItemOf(f)
           /\ IsGlobal(g) = IsGlobal(f) /\ Writes(g) = Writes(f)
           /\ g.items = f.items => g = f
<1>1. /\ g.type = f.type /\ g.command = f.command /\ g.code = f.code /\ g.back = f.back
      /\ g.quiet = f.quiet /\ g.sequence = f.sequence /\ g.head = f.head
    BY BareIs
<1>2. (g.type = "global") <=> (f.type = "global")
    BY <1>1
<1>3. IsGlobal(g) = IsGlobal(f) /\ Writes(g) = Writes(f) /\ ItemOf(g) = ItemOf(f)
    BY <1>1, <1>2 DEF IsGlobal, Writes, ItemOf
<1>4. g.items = f.items => g = f
    BY <1>1, FrameFacts
<1> QED
    BY <1>1, <1>3, <1>4

\* A plain frame that its reader is through with is read as it was written.
LEMMA ReadWhole ==
    ASSUME FramesOk, WireOk, ReadOk, phase \in {"reading", "accepted"}, Told(sent, leg),
           position > 0, Over(got, position, wire), Plain(sent)
    PROVE  got = sent
<1> DEFINE n == Len(sent.items)
           k == Len(got.items)
<1>1. IsFrame(sent) /\ IsSent(phase) /\ got # NoFrame /\ Bare(got) = Bare(sent)
      /\ ReadSoFar(sent, leg, got, position)
    BY DEF FramesOk, IsSent, ReadOk, ReadSoFar
<1>2. IsFrame(got)
    BY <1>1 DEF FramesOk, IsRead
<1>3. /\ n \in Nat /\ DOMAIN sent.items = 1..n /\ k \in Nat /\ DOMAIN got.items = 1..k
      /\ ItemOf(got) = ItemOf(sent)
    BY <1>1, <1>2, FrameFacts, BareSame
<1>4. \A i \in Nat : PlainUpTo(sent, i)
    BY <1>3, PlainDown
<1>5. \A i \in 1..k : i \in 1..n /\ got.items[i] = sent.items[i]
    BY <1>1, <1>3, <1>4 DEF ReadSoFar
<1>6. k <= n
    BY <1>3, <1>5
<1>7. position = Len(UpTo(sent, k, leg))
    BY <1>1, <1>3, <1>4 DEF ReadSoFar
<1>8. wire = UpTo(sent, n, leg) /\ AllWritable(sent, n) /\ position \in 0..Len(wire)
      /\ Len(wire) \in Nat
    BY <1>1, BytesConcat DEF WireOk
<1>9. k = n
    <2>1. CASE ItemOf(got) = <<>>
        BY <1>1, <1>2, <1>3, <2>1, FrameFacts
    <2>2. CASE ItemOf(got) # <<>>
        <3> SUFFICES ASSUME k # n
                     PROVE  FALSE
            OBVIOUS
        <3> DEFINE i == k + 1
                   r == WriteRecord(ItemOf(sent), sent.items[i])
        <3>1. i \in 1..n /\ i - 1 = k /\ n \in 0..n
            BY <1>3, <1>6
        <3>2. position = Len(wire)
            BY <1>8, <2>2 DEF Over
        <3>3. /\ Len(WrittenUpTo(sent, i)) = Len(WrittenUpTo(sent, i - 1)) + Len(r)
              /\ Len(WrittenUpTo(sent, i)) <= Len(WrittenUpTo(sent, n))
              /\ Len(WrittenUpTo(sent, i - 1)) \in Nat /\ r \in Bytes
            BY <1>1, <1>8, <3>1, UpToReads
        <3>4. /\ Len(WrittenUpTo(sent, i - 1)) = Len(wire)
              /\ Len(WrittenUpTo(sent, n)) = Len(wire)
            BY <1>7, <1>8, <3>1, <3>2, UpToIs
        <3>5. Len(r) # 0 /\ Len(r) \in Nat
            <4>1. ~Awkward(sent, i)
                BY <1>4, <1>3, <3>1 DEF PlainUpTo
            <4>2. /\ Writable(ItemOf(sent), sent.items[i]) /\ Carries(ItemOf(sent), sent.items[i])
                BY <1>1, <3>1, <4>1, NotAwkward
            <4>3. IsLayout(ItemOf(sent)) /\ Fits(ItemOf(sent), sent.items[i])
                BY <1>1, <3>1, FrameFacts
            <4>4. ItemOf(sent) # <<>>
                BY <1>3, <2>2
            <4> DEFINE l == ItemOf(sent)
                       x == sent.items[i]
            <4> HIDE DEF l, x
            <4>5. WriteRecord(l, x) \in Bytes /\ Len(WriteRecord(l, x)) # 0
                BY <4>2, <4>3, <4>4, RecordWritten DEF l, x
            <4> QED
                BY <4>5, BytesConcat DEF l, x
        <3> HIDE DEF r, i
        <3> QED
            BY <1>8, <3>3, <3>4, <3>5
    <2> QED
        BY <2>1, <2>2
<1>10. got.items = sent.items
    <2>1. /\ got.items = [i \in 1..k |-> got.items[i]]
          /\ sent.items = [i \in 1..n |-> sent.items[i]]
        BY <1>1, <1>2 DEF IsFrame, IsSeq
    <2> HIDE DEF n, k
    <2> QED
        BY <2>1, <1>5, <1>9
<1> QED
    BY <1>1, <1>2, <1>10, BareSame

\* The phases in which a frame is on its way and in which it has been sent.
LEMMA Phased ==
    /\ Phases = {"idle", "writing", "reading", "accepted", "refused", "unsent", "halted"}
    /\ \A p \in {"idle", "writing", "unsent"} : ~IsSent(p)
    /\ \A p \in {"reading", "accepted", "refused", "halted"} : IsSent(p)
    /\ \A p \in {"writing", "reading"} : UnderWay(p)
    /\ \A p \in Phases \ {"writing", "reading"} : ~UnderWay(p)
    BY DEF Phases, IsSent, UnderWay

\* An empty frame, which is nobody's.
LEMMA NoFrameFacts ==
    /\ NoFrame.items = <<>> /\ Len(NoFrame.items) = 0 /\ ~IsGlobal(NoFrame) /\ ~Writes(NoFrame)
    /\ NoFrame.type = "none" /\ ~IsFrame(NoFrame) /\ DOMAIN NoFrame.items = {}
<1>1. NoFrame.items = <<>> /\ NoFrame.type = "none"
    BY DEF NoFrame
<1>2. ~IsFrame(NoFrame)
    BY <1>1, FrameFacts
<1>3. ~IsGlobal(NoFrame) /\ ~Writes(NoFrame)
    BY <1>1 DEF IsGlobal, Writes
<1> QED
    BY <1>1, <1>2, <1>3

\* No items can be written.
LEMMA NothingWritten ==
    ASSUME NEW f
    PROVE  AllWritable(f, 0)
    BY DEF AllWritable

\* A request is a frame.
LEMMA RequestFacts ==
    ASSUME NEW f \in Requests
    PROVE  IsFrame(f) /\ Len(f.items) \in Nat
    BY RequestsAssumption, FrameFacts

\* The initial states satisfy the invariant.
LEMMA InitInvariant ==
    Init => IInv
<1> SUFFICES ASSUME Init
             PROVE  IInv
    OBVIOUS
<1> USE DEF Init
<1>1. ClusterOk
    BY StartValues DEF ClusterOk, Image
<1>2. FramesOk
    BY DEF FramesOk, Phases
<1>3. WireOk
    BY NoFrameFacts, NothingWritten, Phased, BytesConcat DEF WireOk
<1>4. ReadOk
    BY Phased DEF ReadOk
<1>5. HeldOk
    BY Phased DEF HeldOk, Phases
<1>6. PendingOk
    BY DEF PendingOk
<1> QED
    BY <1>1, <1>2, <1>3, <1>4, <1>5, <1>6 DEF IInv

\* The peer's request: what it is about to write it no longer takes for granted.
LEMMA AskInvariant ==
    ASSUME IInv, NEW f \in Requests, Ask(f)
    PROVE  IInv'
<1> USE DEF Ask, clusterVars
<1>1. ClusterOk'
    BY DEF IInv, ClusterOk
<1>2. FramesOk'
    BY RequestFacts DEF FramesOk, Phases
<1>3. WireOk'
    BY RequestFacts, NothingWritten, Phased, BytesConcat DEF WireOk
<1>4. ReadOk'
    BY Phased DEF ReadOk
<1>5. HeldOk'
    <2>1. \A id \in Lasting : confirmed'[id] # None => confirmed'[id] = confirmed[id]
        OBVIOUS
    <2>2. \A id \in Lasting \cap Touched(f) : confirmed'[id] = None
        OBVIOUS
    <2>3. \A id \in Lasting : confirmed'[id] # None =>
              values'[At(id)] = confirmed'[id] /\ saved'.values[At(id)] = confirmed'[id]
        BY <2>1 DEF IInv, HeldOk
    <2> QED
        BY <2>2, <2>3 DEF HeldOk
<1>6. PendingOk'
    BY DEF PendingOk
<1> QED
    BY <1>1, <1>2, <1>3, <1>4, <1>5, <1>6 DEF IInv

\* The start of a frame is written.
LEMMA WriteStartInvariant ==
    ASSUME IInv, WriteStart
    PROVE  IInv'
<1> USE DEF WriteStart, clusterVars
<1>1. ClusterOk'
    BY DEF IInv, ClusterOk
<1>2. FramesOk'
    BY DEF IInv, FramesOk
<1>3. WireOk'
    <2>1. IsFrame(sent) /\ written = 0 /\ position = 0
        BY DEF IInv, FramesOk, WireOk, ReadOk
    <2>2. wire' \in Bytes /\ wire' # <<>>
        BY <2>1, StartWritten
    <2>3. wire' = UpTo(sent, 0, leg)
        BY <2>1, UpToZero, UpToIs
    <2>4. Len(wire') \in Nat
        BY <2>2, BytesConcat
    <2>5. /\ written \in 0..Len(sent.items) /\ Len(sent.items) \in Nat
          /\ AllWritable(sent, written)
        BY DEF IInv, WireOk
    <2>6. UNCHANGED <<phase, leg, sent, written, position>> /\ ~IsSent(phase)
        BY Phased
    <2> HIDE DEF WriteStart
    <2> QED
        BY <2>1, <2>2, <2>3, <2>4, <2>5, <2>6 DEF WireOk
<1>4. ReadOk'
    BY Phased DEF IInv, ReadOk
<1>5. HeldOk'
    BY DEF IInv, HeldOk
<1>6. PendingOk'
    BY DEF IInv, PendingOk
<1> QED
    BY <1>1, <1>2, <1>3, <1>4, <1>5, <1>6 DEF IInv

\* An item is written behind the others, or the frame is given up.
LEMMA WriteItemInvariant ==
    ASSUME IInv, WriteItem
    PROVE  IInv'
<1> DEFINE item == sent.items[written + 1]
<1>1. /\ phase = "writing" /\ wire # <<>> /\ written < Len(sent.items)
      /\ UNCHANGED <<values, config, saved, leg, asked, sent, got, position, confirmed>>
      /\ \/ phase' = "unsent" /\ UNCHANGED <<wire, written>>
         \/ /\ Writable(ItemOf(sent), item) /\ wire' = wire \o WriteRecord(ItemOf(sent), item)
            /\ written' = written + 1 /\ UNCHANGED phase
    BY DEF WriteItem, clusterVars
<1>2. IsFrame(sent) /\ position = 0 /\ got = NoFrame
    BY <1>1 DEF IInv, FramesOk, ReadOk
<1> HIDE DEF item
<1>3. ClusterOk'
    BY <1>1 DEF IInv, ClusterOk
<1>4. FramesOk'
    BY <1>1 DEF IInv, FramesOk, Phases
<1>5. WireOk'
    <2>1. /\ written \in 0..Len(sent.items) /\ Len(sent.items) \in Nat /\ AllWritable(sent, written)
          /\ wire \in Bytes /\ wire = UpTo(sent, written, leg)
        BY <1>1 DEF IInv, WireOk
    <2>2. ~IsSent(phase')
        BY <1>1, Phased
    <2>3. CASE phase' = "unsent" /\ UNCHANGED <<wire, written>>
        BY <2>1, <2>2, <2>3, <1>1, <1>2, BytesConcat DEF WireOk
    <2>4. CASE /\ Writable(ItemOf(sent), item) /\ wire' = wire \o WriteRecord(ItemOf(sent), item)
               /\ written' = written + 1 /\ UNCHANGED phase
        <3>1. AllWritable(sent, written + 1)
            BY <2>1, <2>4 DEF AllWritable, item
        <3>2. written \in Nat /\ written + 1 \in 0..Len(sent.items)
            BY <2>1, <1>1
        <3>3. WrittenUpTo(sent, written + 1)
              = WrittenUpTo(sent, written) \o WriteRecord(ItemOf(sent), sent.items[written + 1])
            BY <3>1, <3>2, <1>1, <1>2, UpToNext
        <3>4. wire' = UpTo(sent, written + 1, leg)
            BY <3>3, <2>1, <2>4, UpToIs DEF item
        <3>5. IsLayout(ItemOf(sent)) /\ Fits(ItemOf(sent), item)
            <4>1. written + 1 \in 1..Len(sent.items)
                BY <3>2, <2>1
            <4> QED
                BY <4>1, <1>2, FrameFacts DEF item
        <3>6. WriteRecord(ItemOf(sent), item) \in Bytes
            <4> DEFINE l == ItemOf(sent)
            <4> HIDE DEF l
            <4>1. WriteRecord(l, item) \in Bytes
                BY <3>5, <2>4, RecordWritten DEF l
            <4> QED
                BY <4>1 DEF l
        <3>7. wire' \in Bytes /\ Len(wire') \in Nat /\ wire' # <<>>
            <4> DEFINE r == WriteRecord(ItemOf(sent), item)
            <4>1. wire' = wire \o r /\ r \in Bytes
                BY <2>4, <3>6
            <4> HIDE DEF r
            <4>2. /\ wire \o r \in Bytes /\ Len(wire \o r) = Len(wire) + Len(r)
                  /\ Len(wire) \in Nat /\ Len(r) \in Nat
                BY <4>1, <2>1, BytesConcat
            <4>3. Len(wire) # 0
                BY <2>1, <1>1 DEF Bytes
            <4>4. Len(wire') # 0 /\ Len(wire') \in Nat /\ wire' \in Bytes
                BY <4>1, <4>2, <4>3
            <4> QED
                BY <4>4
        <3> QED
            BY <3>1, <3>2, <3>4, <3>7, <2>1, <2>2, <2>4, <1>1, <1>2 DEF WireOk
    <2> QED
        BY <2>3, <2>4, <1>1
<1>6. ReadOk'
    BY <1>1, <1>2, Phased DEF ReadOk
<1>7. HeldOk'
    BY <1>1, Phased DEF IInv, HeldOk, Phases
<1>8. PendingOk'
    BY <1>1, Phased DEF IInv, PendingOk, Phases
<1> QED
    BY <1>3, <1>4, <1>5, <1>6, <1>7, <1>8 DEF IInv

\* The frame is sent or is too long.
LEMMA SendInvariant ==
    ASSUME IInv, Send
    PROVE  IInv'
<1>1. /\ phase = "writing" /\ wire # <<>> /\ written = Len(sent.items)
      /\ UNCHANGED <<values, config, saved, leg, asked, sent, written, wire, got, position, confirmed>>
      /\ phase' \in {"reading", "unsent"} /\ (phase' = "reading" => Len(wire) <= Capacity)
    BY DEF Send, clusterVars
<1>2. IsFrame(sent) /\ position = 0 /\ got = NoFrame
    BY <1>1 DEF IInv, FramesOk, ReadOk
<1>3. ClusterOk'
    BY <1>1 DEF IInv, ClusterOk
<1>4. FramesOk'
    BY <1>1 DEF IInv, FramesOk, Phases
<1>5. WireOk'
    BY <1>1, Phased DEF IInv, WireOk
<1>6. ReadOk'
    <2>1. ReadSoFar(sent, leg, NoFrame, 0)
        BY NoFrameFacts DEF ReadSoFar
    <2>2. IsSent(phase') => phase' = "reading"
        BY <1>1, Phased
    <2>3. phase' # "writing"
        BY <1>1
    <2> QED
        BY <2>1, <2>2, <2>3, <1>1, <1>2, NoFrameFacts DEF ReadOk
<1>7. HeldOk'
    BY <1>1, Phased DEF IInv, HeldOk, Phases
<1>8. PendingOk'
    BY <1>1, Phased DEF IInv, PendingOk, Phases
<1> QED
    BY <1>3, <1>4, <1>5, <1>6, <1>7, <1>8 DEF IInv

\* A frame that says which command it is has all of its start.
LEMMA ToldIsComplete ==
    ASSUME IsFrame(sent), FramesOk
    PROVE  Told(sent, leg) => Complete(sent)
    BY FrameFacts DEF Told, Complete, FramesOk, IsGlobal

\* The start of a frame is read: StartReadBack for a frame that says its command,
\* StartMade for any other.
LEMMA ReadStartInvariant ==
    ASSUME IInv, ReadStart
    PROVE  IInv'
<1> DEFINE r == StartRead(wire)
<1>1. /\ phase = "reading" /\ position = 0
      /\ UNCHANGED <<values, config, saved, leg, asked, sent, written, wire, confirmed>>
      /\ \/ r.outcome = "taken" /\ got' = r.value /\ position' = r.length /\ UNCHANGED phase
         \/ r.outcome # "taken" /\ phase' = r.outcome /\ UNCHANGED <<got, position>>
    BY DEF ReadStart, clusterVars
<1>2. /\ IsFrame(sent) /\ IsSent(phase) /\ wire # <<>> /\ wire \in Bytes
      /\ written = Len(sent.items) /\ Len(sent.items) \in Nat /\ AllWritable(sent, written)
      /\ wire = UpTo(sent, written, leg) /\ Len(wire) \in Nat /\ got.items = <<>>
    BY <1>1, Phased, BytesConcat DEF IInv, FramesOk, WireOk, ReadOk
<1>3. /\ r.outcome = "taken" =>
            IsFrame(r.value) /\ r.value.items = <<>> /\ r.length \in 0..Len(wire)
      /\ r.outcome # "taken" => r \in {Refused, Halted}
    <2> HIDE DEF r
    <2>1. r = StartRead(wire)
        BY DEF r
    <2> QED
        BY <1>2, <2>1, StartMade
<1>4. Told(sent, leg) => r.outcome = "taken" /\ r.value = Bare(sent) /\ r.length = Len(Start(sent))
    <2> SUFFICES ASSUME Told(sent, leg)
                 PROVE  r.outcome = "taken" /\ r.value = Bare(sent) /\ r.length = Len(Start(sent))
        OBVIOUS
    <2>1. Complete(sent)
        BY <1>2, ToldIsComplete DEF IInv
    <2>2. wire = WrittenUpTo(sent, written) /\ written \in 0..Len(sent.items)
        BY <1>2, UpToIs
    <2>3. Starts(wire, Start(sent))
        BY <1>2, <2>2, UpToStarts
    <2>4. r = Taken(Bare(sent), Len(Start(sent)))
        BY <1>2, <2>1, <2>3, StartReadBack
    <2> HIDE DEF r
    <2> QED
        BY <2>4 DEF Taken
<1>5. Refused.outcome = "refused" /\ Halted.outcome = "halted"
    BY DEF Refused, Halted
<1> HIDE DEF r
<1>6. r.outcome # "taken" => r.outcome \in {"refused", "halted"}
    BY <1>3, <1>5
<1>7. phase' \in {"reading", "refused", "halted"} /\ IsSent(phase')
    BY <1>1, <1>6, Phased
<1>8. ClusterOk'
    BY <1>1 DEF IInv, ClusterOk
<1>9. FramesOk'
    <2>1. got' = NoFrame \/ IsRead(got')
        <3>1. r.outcome = "taken" => IsRead(r.value)
            BY <1>3 DEF IsRead
        <3>2. got = NoFrame \/ IsRead(got)
            BY DEF IInv, FramesOk
        <3> QED
            BY <1>1, <3>1, <3>2
    <2> QED
        BY <2>1, <1>1, <1>7 DEF IInv, FramesOk, Phases
<1>10. WireOk'
    <2>1. position' \in 0..Len(wire)
        BY <1>1, <1>2, <1>3
    <2> QED
        BY <2>1, <1>1, <1>2, <1>7, Phased DEF IInv, WireOk
<1>11. ReadOk'
    <2>1. got'.items = <<>> /\ phase' # "writing" /\ phase' # "accepted"
        BY <1>1, <1>2, <1>3, <1>7
    <2>n. position' > 0 => got' # NoFrame
        BY <1>1, <1>3, NoFrameFacts
    <2>2. ASSUME Told(sent, leg)
          PROVE  ReadSoFar(sent, leg, got', position') /\ phase' = "reading"
        <3>1. got' = Bare(sent) /\ position' = Len(Start(sent)) /\ phase' = "reading"
            BY <1>1, <1>4, <2>2
        <3>2. Bare(sent) # NoFrame /\ Bare(Bare(sent)) = Bare(sent) /\ Bare(sent).items = <<>>
            <4> DEFINE g == Bare(sent)
            <4>0. g = r.value /\ r.outcome = "taken"
                BY <1>4, <2>2
            <4> HIDE DEF g
            <4>1. IsFrame(g) /\ g.items = <<>>
                BY <1>3, <4>0
            <4>2. Bare(g) = g
                BY <4>1, BareIs, FrameFacts
            <4> QED
                BY <4>1, <4>2, NoFrameFacts DEF g
        <3>3. Start(sent) = UpTo(sent, 0, leg)
            BY <1>2, UpToZero, UpToIs
        <3>4. Len(got'.items) = 0 /\ DOMAIN got'.items = {}
            BY <2>1
        <3> HIDE DEF r
        <3> QED
            BY <3>1, <3>2, <3>3, <3>4 DEF ReadSoFar
    <2> QED
        BY <2>1, <2>2, <2>n, <1>1 DEF ReadOk
<1>12. HeldOk'
    BY <1>1, <1>7, Phased DEF IInv, HeldOk, Phases
<1>13. PendingOk'
    BY <1>1, <1>7, Phased DEF IInv, PendingOk, Phases
<1> QED
    BY <1>8, <1>9, <1>10, <1>11, <1>12, <1>13 DEF IInv

\* A frame with one item more.
More(g, x) == [g EXCEPT !.items = Append(@, x)]

\* A frame that was read stays one with a record of its layout more.
LEMMA MoreIsRead ==
    ASSUME NEW g, IsRead(g), ItemOf(g) # <<>>, NEW x \in Records(ItemOf(g))
    PROVE  /\ IsRead(More(g, x)) /\ Bare(More(g, x)) = Bare(g) /\ ItemOf(More(g, x)) = ItemOf(g)
           /\ Len(More(g, x).items) = Len(g.items) + 1
           /\ DOMAIN More(g, x).items = 1..(Len(g.items) + 1)
           /\ More(g, x).items[Len(g.items) + 1] = x
           /\ \A i \in 1..Len(g.items) : More(g, x).items[i] = g.items[i]
<1> DEFINE m == More(g, x)
           n == Len(g.items)
           s == g.items
           l == ItemOf(g)
           q == Append(s, x)
<1>1. IsFrame(g) /\ n \in Nat /\ DOMAIN s = 1..n /\ IsLayout(l)
    BY FrameFacts DEF IsRead
<1>2. g = [type |-> g.type, code |-> g.code, back |-> g.back, quiet |-> g.quiet,
           sequence |-> g.sequence, command |-> g.command, head |-> g.head, items |-> s]
    BY <1>1, FrameFacts
<1>3. m = [type |-> g.type, code |-> g.code, back |-> g.back, quiet |-> g.quiet,
           sequence |-> g.sequence, command |-> g.command, head |-> g.head, items |-> q]
    BY <1>2 DEF More
<1>4. s = [i \in 1..n |-> s[i]]
    BY <1>1 DEF IsFrame, IsSeq
<1>5. s \in Seq({s[i] : i \in 1..n} \cup {x})
    <2> DEFINE T == {s[i] : i \in 1..n} \cup {x}
    <2>1. s \in [1..n -> T]
        BY <1>4
    <2> HIDE DEF T, s, n
    <2> QED
        BY <2>1, <1>1, FunctionIsSeq
<1>6. /\ Len(q) = n + 1 /\ DOMAIN q = 1..(n + 1) /\ q[n + 1] = x /\ IsSeq(q)
      /\ \A i \in 1..n : q[i] = s[i]
    <2> DEFINE T == {s[i] : i \in 1..n} \cup {x}
    <2>1. s \in Seq(T) /\ x \in T /\ n = Len(s)
        BY <1>5
    <2> HIDE DEF T, s, n
    <2>2. n \in Nat /\ q \in Seq(T) /\ Len(q) = n + 1 /\ q[n + 1] = x
          /\ \A i \in 1..n : q[i] = s[i]
        BY <2>1
    <2> HIDE DEF q
    <2>3. DOMAIN q = 1..(n + 1) /\ IsSeq(q)
        BY <2>2 DEF IsSeq
    <2> QED
        BY <2>2, <2>3
<1> HIDE DEF q
<1>7. /\ m.type = g.type /\ m.code = g.code /\ m.back = g.back /\ m.quiet = g.quiet
      /\ m.sequence = g.sequence /\ m.command = g.command /\ m.head = g.head /\ m.items = q
    BY <1>3
<1>8. IsGlobal(m) = IsGlobal(g) /\ ItemOf(m) = l /\ LeadingOf(m) = LeadingOf(g)
    BY <1>7 DEF IsGlobal, ItemOf, LeadingOf
<1>9. \A i \in 1..(n + 1) : q[i] \in Records(l)
    <2>1. \A i \in 1..n : s[i] \in Records(l)
        BY DEF IsRead
    <2>2. \A i \in 1..(n + 1) : i \in 1..n \/ i = n + 1
        BY <1>1
    <2> HIDE DEF n, s, l
    <2>3. x \in Records(l)
        BY DEF l
    <2> QED
        BY <2>1, <2>2, <2>3, <1>6
<1>10. \A i \in DOMAIN q : Fits(l, q[i])
    <2> HIDE DEF l
    <2>1. \A y \in Records(l) : Fits(l, y)
        BY <1>1, RecordFacts
    <2> QED
        BY <2>1, <1>6, <1>9
<1>11. IsFrame(m)
    <2>1. m \in [type : {"global", "specific"}, code : Word \cup {None}, back : BOOLEAN,
                 quiet : BOOLEAN, sequence : Byte, command : Byte, head : {m.head},
                 items : {m.items}]
        <3>1. /\ g.type \in {"global", "specific"} /\ g.code \in Word \cup {None}
              /\ g.back \in BOOLEAN /\ g.quiet \in BOOLEAN /\ g.sequence \in Byte
              /\ g.command \in Byte
            BY <1>1, FrameFacts
        <3> QED
            BY <3>1, <1>3
    <2>2. /\ IsGlobal(g) => g.command \in GlobalCommand
          /\ Fits(LeadingOf(g), g.head) /\ \A i \in DOMAIN g.head : g.head[i] # None
        BY <1>1 DEF IsFrame
    <2>3. l # <<>>
        OBVIOUS
    <2> HIDE DEF m, l
    <2> QED
        BY <2>1, <2>2, <2>3, <1>6, <1>7, <1>8, <1>10 DEF IsFrame
<1>12. IsRead(m)
    <2> HIDE DEF m, l
    <2> QED
        BY <1>6, <1>7, <1>8, <1>9, <1>11 DEF IsRead
<1>13. Bare(m) = Bare(g)
    BY <1>1, <1>7, <1>11, BareIs
<1> HIDE DEF m, l, n, s
<1>14. Len(m.items) = n + 1 /\ DOMAIN m.items = 1..(n + 1) /\ m.items[n + 1] = x
       /\ \A i \in 1..n : m.items[i] = s[i]
    BY <1>6, <1>7
<1> QED
    BY <1>8, <1>12, <1>13, <1>14 DEF m, l, n, s

\* An item is read: RecordRead as long as the frame is plain, RecordMade in any
\* case.
LEMMA ReadItemInvariant ==
    ASSUME IInv, ReadItem
    PROVE  IInv'
<1> DEFINE layout == ItemOf(got)
           rest == From(wire, position)
           r == ReadRecord(layout, rest)
           k == Len(got.items)
           n == Len(sent.items)
<1>1. /\ phase = "reading" /\ position > 0 /\ layout # <<>> /\ position < Len(wire)
      /\ UNCHANGED <<values, config, saved, leg, asked, sent, written, wire, confirmed>>
      /\ \/ r.outcome = "taken" /\ got' = More(got, r.value)
            /\ position' = position + r.length /\ UNCHANGED phase
         \/ r.outcome # "taken" /\ phase' = r.outcome /\ UNCHANGED <<got, position>>
    BY DEF ReadItem, clusterVars, MoreItems, More
<1>2. /\ IsFrame(sent) /\ IsSent(phase) /\ wire # <<>> /\ wire \in Bytes
      /\ written = n /\ n \in Nat /\ DOMAIN sent.items = 1..n /\ AllWritable(sent, n)
      /\ wire = UpTo(sent, n, leg) /\ Len(wire) \in Nat /\ position \in 0..Len(wire)
    BY <1>1, Phased, BytesConcat, FrameFacts DEF IInv, FramesOk, WireOk
<1>3. Told(sent, leg) => ReadSoFar(sent, leg, got, position)
    BY <1>2 DEF IInv, ReadOk
<1>4. got # NoFrame /\ IsRead(got)
    BY <1>1, <1>2 DEF IInv, FramesOk, ReadOk
<1>5. IsFrame(got) /\ k \in Nat /\ DOMAIN got.items = 1..k /\ IsLayout(layout)
    BY <1>4, FrameFacts DEF IsRead
<1>6. rest \in Bytes /\ Len(rest) = Len(wire) - position /\ Len(rest) \in Nat
    <2>1. position \in Nat /\ position <= Len(wire) /\ wire \in Seq(Byte)
        BY <1>2 DEF Bytes
    <2>2. /\ From(wire, position) \in Seq(Byte)
          /\ Len(From(wire, position)) = IF position <= Len(wire) THEN Len(wire) - position ELSE 0
        BY <2>1, FromType
    <2> QED
        BY <2>1, <2>2, <1>2 DEF Bytes
<1>7. r \in Made(Records(layout), Len(rest))
    <2> HIDE DEF layout, rest
    <2> QED
        BY <1>5, <1>6, RecordMade
<1>8. /\ r.outcome = "taken" => r.value \in Records(layout) /\ r.length \in 0..Len(rest)
      /\ r.outcome # "taken" => r \in {Refused, Halted}
    <2> HIDE DEF r, rest, layout
    <2> QED
        BY <1>6, <1>7, MadeCases
<1>9. Refused.outcome = "refused" /\ Halted.outcome = "halted"
    BY DEF Refused, Halted
<1> HIDE DEF r, rest
<1>10. r.outcome # "taken" => r.outcome \in {"refused", "halted"}
    BY <1>8, <1>9
<1>11. phase' \in {"reading", "refused", "halted"} /\ IsSent(phase')
    BY <1>1, <1>10, Phased
\* What the next item is, when the frame is plain so far.
<1>12. ASSUME Told(sent, leg), PlainUpTo(sent, k + 1)
       PROVE  /\ r.outcome = "taken" /\ k + 1 \in 1..n /\ r.value = sent.items[k + 1]
              /\ position + r.length = Len(UpTo(sent, k + 1, leg))
    <2>1. ReadSoFar(sent, leg, got, position) /\ PlainUpTo(sent, k)
        BY <1>2, <1>3, <1>5, <1>12, PlainDown
    <2>2. position = Len(UpTo(sent, k, leg))
        BY <1>1, <2>1 DEF ReadSoFar
    <2>3. k <= n
        <3>1. CASE k = 0
            BY <3>1, <1>2
        <3>2. CASE k # 0
            <4>1. k \in DOMAIN got.items
                BY <1>5, <3>2
            <4> QED
                BY <4>1, <2>1, <1>2 DEF ReadSoFar
        <3> QED
            BY <3>1, <3>2
    <2>4. k # n
        BY <1>1, <1>2, <2>2
    <2> DEFINE i == k + 1
    <2>5. i \in 1..n /\ i - 1 = k /\ n \in 0..n /\ i \in DOMAIN sent.items
        BY <1>2, <1>5, <2>3, <2>4
    <2>6. PlainUpTo(sent, i)
        BY <1>12
    <2> HIDE DEF i
    <2> DEFINE l == ItemOf(sent)
               x == sent.items[i]
               w == WriteRecord(l, x)
    <2>7. ~Awkward(sent, i)
        BY <2>5, <2>6 DEF PlainUpTo
    <2>8. Writable(l, x) /\ Carries(l, x)
        BY <1>2, <2>5, <2>7, NotAwkward
    <2>9. IsLayout(l) /\ Fits(l, x)
        BY <1>2, <2>5, FrameFacts
    <2>10. /\ Starts(From(WrittenUpTo(sent, n), Len(WrittenUpTo(sent, i - 1))), w)
           /\ Len(WrittenUpTo(sent, i)) = Len(WrittenUpTo(sent, i - 1)) + Len(w)
        BY <1>2, <2>5, UpToReads
    <2>11. /\ WrittenUpTo(sent, n) = wire /\ Len(WrittenUpTo(sent, i - 1)) = position
           /\ WrittenUpTo(sent, i) = UpTo(sent, i, leg)
        BY <1>2, <2>2, <2>5, UpToIs
    <2>12. layout = l
        BY <1>1, <1>2, <1>5, <2>1, BareSame DEF ReadSoFar
    <2>13. r = Taken(x, Len(w))
        <3>1. Starts(rest, w)
            BY <2>10, <2>11 DEF rest
        <3> HIDE DEF l, x
        <3>2. ReadRecord(l, rest) = Taken(x, Len(WriteRecord(l, x)))
            BY <3>1, <2>8, <2>9, RecordRead
        <3>3. r = ReadRecord(l, rest)
            BY <2>12 DEF r
        <3> QED
            BY <3>2, <3>3
    <2>14. r.outcome = "taken" /\ r.value = x /\ r.length = Len(w)
        <3> HIDE DEF x, w
        <3> QED
            BY <2>13 DEF Taken
    <2> HIDE DEF w, l, x
    <2>15. position + r.length = Len(UpTo(sent, i, leg))
        BY <2>10, <2>11, <2>14
    <2> QED
        BY <2>5, <2>14, <2>15 DEF i, x
<1>13. ClusterOk'
    BY <1>1 DEF IInv, ClusterOk
<1>14. r.outcome = "taken" =>
          /\ IsRead(More(got, r.value)) /\ Bare(More(got, r.value)) = Bare(got)
          /\ Len(More(got, r.value).items) = k + 1
          /\ DOMAIN More(got, r.value).items = 1..(k + 1)
          /\ More(got, r.value).items[k + 1] = r.value
          /\ \A i \in 1..k : More(got, r.value).items[i] = got.items[i]
    <2> DEFINE v == r.value
    <2> HIDE DEF v
    <2>1. r.outcome = "taken" => v \in Records(ItemOf(got))
        BY <1>8 DEF v
    <2>2. IsRead(got) /\ ItemOf(got) # <<>>
        BY <1>1, <1>4
    <2> QED
        BY <2>1, <2>2, MoreIsRead DEF v
<1>15. FramesOk'
    <2>1. got' = NoFrame \/ IsRead(got')
        BY <1>1, <1>4, <1>14
    <2> HIDE DEF layout
    <2> QED
        BY <2>1, <1>1, <1>11 DEF IInv, FramesOk, Phases
<1>16. WireOk'
    <2>1. position' \in 0..Len(wire)
        BY <1>1, <1>2, <1>6, <1>8
    <2> HIDE DEF layout
    <2> QED
        BY <2>1, <1>1, <1>2, <1>11, Phased DEF IInv, WireOk
<1>17. ReadOk'
    <2>1. /\ phase' # "writing" /\ phase' # "accepted" /\ position' > 0 /\ got' # NoFrame
        <3>1. IsRead(got')
            BY <1>1, <1>4, <1>14
        <3>2. got' # NoFrame
            BY <3>1, NoFrameFacts DEF IsRead
        <3>3. position' > 0
            BY <1>1, <1>2, <1>6, <1>8
        <3> QED
            BY <3>2, <3>3, <1>11
    <2>2. ASSUME Told(sent, leg)
          PROVE  ReadSoFar(sent, leg, got', position')
        <3>1. CASE r.outcome # "taken"
            BY <3>1, <1>1, <1>3, <2>2
        <3>2. CASE r.outcome = "taken"
            <4> DEFINE m == More(got, r.value)
                       p == position + r.length
            <4>1. got' = m /\ position' = p
                BY <3>2, <1>1
            <4>2. /\ Bare(m) = Bare(got) /\ Len(m.items) = k + 1 /\ DOMAIN m.items = 1..(k + 1)
                  /\ m.items[k + 1] = r.value /\ \A i \in 1..k : m.items[i] = got.items[i]
                BY <3>2, <1>14
            <4>3. Bare(m) = Bare(sent)
                BY <4>2, <1>1, <1>3, <2>2 DEF ReadSoFar
            <4> HIDE DEF m, p
            <4>4. ASSUME NEW i \in DOMAIN m.items, PlainUpTo(sent, i)
                  PROVE  i \in DOMAIN sent.items /\ m.items[i] = sent.items[i]
                <5>1. CASE i = k + 1
                    BY <5>1, <4>2, <4>4, <1>2, <1>12, <2>2
                <5>2. CASE i # k + 1
                    <6>1. i \in 1..k
                        BY <5>2, <4>2, <1>5
                    <6> QED
                        BY <6>1, <4>2, <4>4, <1>3, <1>5, <2>2 DEF ReadSoFar
                <5> QED
                    BY <5>1, <5>2
            <4>5. PlainUpTo(sent, Len(m.items)) => p = Len(UpTo(sent, Len(m.items), leg))
                BY <4>2, <1>12, <2>2 DEF p
            <4>6. ReadSoFar(sent, leg, m, p)
                BY <4>3, <4>4, <4>5 DEF ReadSoFar
            <4> QED
                BY <4>1, <4>6
        <3> QED
            BY <3>1, <3>2
    <2>3. ASSUME Told(sent, leg), Plain(sent)
          PROVE  phase' = "reading"
        <3>1. PlainUpTo(sent, k + 1)
            BY <2>3, <1>2, <1>5, PlainDown
        <3> QED
            BY <3>1, <2>3, <1>1, <1>12
    <2> HIDE DEF layout
    <2> QED
        BY <2>1, <2>2, <2>3, <1>1 DEF ReadOk
<1>18. HeldOk'
    BY <1>1, <1>11, Phased DEF IInv, HeldOk, Phases
<1>19. PendingOk'
    BY <1>1, <1>11, Phased DEF IInv, PendingOk, Phases
<1> QED
    BY <1>13, <1>15, <1>16, <1>17, <1>18, <1>19 DEF IInv

\* The reader is through with the frame.
LEMMA OverIs ==
    ~MoreItems <=> Over(got, position, wire)
    BY DEF MoreItems, Over

\* The history of the peer in terms of the invariant.
LEMMA LastDoneIs ==
    \A id : LastDone(id) = LastDoneBy(asked, got, id)
<1>1. Done = DoneBy(asked, got)
    BY DEF Done, DoneBy
<1> QED
    BY <1>1 DEF LastDone, LastDoneBy

\* The answer to a plain write is read as it was written.
LEMMA AnswerReadWhole ==
    ASSUME IInv, phase = "reading", leg = "response", position > 0, Over(got, position, wire),
           Writes(asked), Plain(asked), got.command = WriteAttributesResponse
    PROVE  got = sent /\ Kept(asked, got, values) /\ Kept(asked, got, saved.values)
<1>1. IsGlobal(sent) /\ UnderWay(phase)
    BY Phased DEF IInv, PendingOk
<1>2. Told(sent, leg) /\ IsSent(phase) /\ IsFrame(sent)
    BY <1>1, Phased DEF Told, IsGlobal, IInv, FramesOk
<1>3. got # NoFrame /\ Bare(got) = Bare(sent)
    BY <1>2 DEF IInv, ReadOk, ReadSoFar
<1>4. IsFrame(got)
    BY <1>3 DEF IInv, FramesOk, IsRead
<1>5. sent.command = WriteAttributesResponse
    BY <1>2, <1>3, <1>4, BareSame
<1>6. Plain(sent) /\ Kept(asked, sent, values) /\ Kept(asked, sent, saved.values)
    BY <1>1, <1>5 DEF IInv, PendingOk
<1>7. got = sent
    BY <1>2, <1>6, ReadWhole DEF IInv
<1> QED
    BY <1>6, <1>7

\* The peer takes for granted what the answer reports.
LEMMA ConcludeInvariant ==
    ASSUME IInv, Conclude
    PROVE  IInv'
<1> DEFINE told == Writes(asked) /\ Plain(asked) /\ got.command = WriteAttributesResponse
<1>1. /\ phase = "reading" /\ leg = "response" /\ position > 0 /\ phase' = "accepted"
      /\ UNCHANGED <<values, config, saved, leg, asked, sent, written, wire, got, position>>
    BY DEF Conclude, clusterVars
<1>2. Over(got, position, wire)
    BY OverIs DEF Conclude
<1>3. confirmed' = IF told THEN [id \in Lasting |->
                        IF LastDone(id) = {} THEN confirmed[id]
                        ELSE asked.items[CHOOSE i \in LastDone(id) : TRUE][2]]
                   ELSE confirmed
    BY DEF Conclude
<1>4. ClusterOk'
    BY <1>1 DEF IInv, ClusterOk
<1>5. FramesOk'
    <2>1. DOMAIN confirmed' = Lasting
        BY <1>3 DEF IInv, FramesOk
    <2> QED
        BY <2>1, <1>1 DEF IInv, FramesOk, Phases
<1>6. WireOk'
    BY <1>1, Phased DEF IInv, WireOk
<1>7. ReadOk'
    BY <1>1, <1>2, Phased DEF IInv, ReadOk
<1>8. HeldOk'
    <2>1. ASSUME NEW id \in Lasting, confirmed'[id] # None
          PROVE  values[At(id)] = confirmed'[id] /\ saved.values[At(id)] = confirmed'[id]
        <3>1. CASE told /\ LastDone(id) # {}
            <4> DEFINE i == CHOOSE i \in LastDone(id) : TRUE
            <4>1. confirmed'[id] = asked.items[i][2]
                BY <1>3, <3>1
            <4>2. i \in LastDone(id)
                BY <3>1
            <4> HIDE DEF i
            <4>3. i \in LastDoneBy(asked, got, id)
                BY <4>2, LastDoneIs
            <4>4. Kept(asked, got, values) /\ Kept(asked, got, saved.values)
                BY <1>1, <1>2, <3>1, AnswerReadWhole
            <4> QED
                BY <2>1, <4>1, <4>3, <4>4 DEF Kept
        <3>2. CASE ~(told /\ LastDone(id) # {})
            <4>1. confirmed'[id] = confirmed[id]
                BY <1>3, <2>1, <3>2
            <4> QED
                BY <2>1, <4>1 DEF IInv, HeldOk
        <3> QED
            BY <3>1, <3>2
    <2> QED
        BY <2>1, <1>1, Phased DEF HeldOk, Phases
<1>9. PendingOk'
    BY <1>1, Phased DEF PendingOk, Phases
<1> QED
    BY <1>4, <1>5, <1>6, <1>7, <1>8, <1>9 DEF IInv

\* The identify time is none of the attributes the peer takes for granted.
LEMMA LastingPlaces ==
    \A id \in Lasting : At(id) \in Places \ {At(IdentifyTime)}
    BY ClusterFacts DEF Lasting

\* The timer changes the identify time only.
LEMMA TickInvariant ==
    ASSUME IInv, Tick
    PROVE  IInv'
<1> DEFINE x == LowFirst(Remaining(values) - 1)
<1>1. /\ values' = [values EXCEPT ![At(IdentifyTime)].value = x] /\ Remaining(values) > 0
      /\ UNCHANGED <<config, saved, phase, leg, asked, sent, written, wire, got, position, confirmed>>
    BY DEF Tick
<1>2. x \in TimeData
    <2>1. Remaining(values) - 1 \in Nat
        BY <1>1, TimeOfValues, WordFits DEF IInv, ClusterOk
    <2> DEFINE m == Remaining(values) - 1
    <2> HIDE DEF m
    <2>2. LowFirst(m) \in Bytes /\ Len(LowFirst(m)) = 2
        BY <2>1, LowFirstType DEF m
    <2>3. LowFirst(m) \in TimeData
        BY <2>2 DEF Bytes, TimeData
    <2> QED
        BY <2>3 DEF m
<1> HIDE DEF x
<1>3. IsValues(values') /\ \A id \in Lasting : values'[At(id)] = values[At(id)]
    BY <1>1, <1>2, TimeSet, LastingPlaces DEF IInv, ClusterOk
<1>4. ClusterOk'
    BY <1>1, <1>3 DEF IInv, ClusterOk
<1>5. FramesOk'
    BY <1>1 DEF IInv, FramesOk
<1>6. WireOk'
    BY <1>1 DEF IInv, WireOk
<1>7. ReadOk'
    BY <1>1 DEF IInv, ReadOk
<1>8. HeldOk'
    BY <1>1, <1>3 DEF IInv, HeldOk
<1>9. PendingOk'
    <2>1. \A a, s : Kept(a, s, values) => Kept(a, s, values')
        BY <1>3 DEF Kept
    <2> QED
        BY <2>1, <1>1 DEF IInv, PendingOk
<1> QED
    BY <1>4, <1>5, <1>6, <1>7, <1>8, <1>9 DEF IInv

\* A restart: LoadedBack for the attributes, and the peer forgets the others.
LEMMA RestartInvariant ==
    ASSUME IInv, Restart
    PROVE  IInv'
<1>1. /\ values' = Loaded.values /\ config' = Loaded.config /\ phase' = "idle"
      /\ confirmed' = [id \in Lasting |-> IF PlainImage(At(id)) THEN confirmed[id] ELSE None]
      /\ UNCHANGED <<saved, leg, asked, sent, written, wire, got, position>>
    BY DEF Restart
<1>2. /\ IsValues(Loaded.values) /\ IsConfig(Loaded.config)
      /\ \A p \in Places : PlainImage(p) => Loaded.values[p] = saved.values[p]
    BY LoadedBack DEF IInv, ClusterOk
<1>3. ClusterOk'
    BY <1>1, <1>2 DEF IInv, ClusterOk
<1>4. FramesOk'
    BY <1>1 DEF IInv, FramesOk, Phases
<1>5. WireOk'
    BY <1>1, Phased DEF IInv, WireOk
<1>6. ReadOk'
    BY <1>1, Phased DEF ReadOk
<1>7. HeldOk'
    <2>1. ASSUME NEW id \in Lasting, confirmed'[id] # None
          PROVE  values'[At(id)] = confirmed'[id] /\ saved.values[At(id)] = confirmed'[id]
        <3>1. PlainImage(At(id)) /\ confirmed'[id] = confirmed[id]
            BY <1>1, <2>1
        <3>2. At(id) \in Places
            BY LastingPlaces
        <3> QED
            BY <2>1, <3>1, <3>2, <1>1, <1>2 DEF IInv, HeldOk
    <2> QED
        BY <2>1, <1>1, Phased DEF HeldOk, Phases
<1>8. PendingOk'
    BY <1>1, Phased DEF PendingOk, Phases
<1> QED
    BY <1>3, <1>4, <1>5, <1>6, <1>7, <1>8 DEF IInv

\* The peer goes on.
LEMMA RestInvariant ==
    ASSUME IInv, Rest
    PROVE  IInv'
<1>1. /\ phase' = "idle"
      /\ UNCHANGED <<values, config, saved, leg, asked, sent, written, wire, got, position,
                     confirmed>>
    BY DEF Rest, clusterVars
<1>2. ClusterOk'
    BY <1>1 DEF IInv, ClusterOk
<1>3. FramesOk'
    BY <1>1 DEF IInv, FramesOk, Phases
<1>4. WireOk'
    BY <1>1, Phased DEF IInv, WireOk
<1>5. ReadOk'
    BY <1>1, Phased DEF ReadOk
<1>6. HeldOk'
    BY <1>1, Phased DEF IInv, HeldOk, Phases
<1>7. PendingOk'
    BY <1>1, Phased DEF PendingOk, Phases
<1> QED
    BY <1>2, <1>3, <1>4, <1>5, <1>6, <1>7 DEF IInv

\* Nothing happens.
LEMMA StutterInvariant ==
    ASSUME IInv, UNCHANGED vars
    PROVE  IInv'
<1>1. UNCHANGED <<values, config, saved, phase, leg, asked, sent, written, wire, got, position,
                  confirmed>>
    BY DEF vars
<1> QED
    BY <1>1 DEF IInv, ClusterOk, FramesOk, WireOk, ReadOk, HeldOk, PendingOk

\* The records accepted for an identifier.
LEMMA AcceptedFor ==
    ASSUME ItemsIn(AttributeRecord), NEW id \in Ids, NEW k
    PROVE  k \in Accepted(At(id)) <=>
              /\ k \in DOMAIN got.items /\ WriteStatus(got.items[k]) = Success
              /\ got.items[k][1] = id
<1>1. At(id) \in Places
    BY ClusterFacts
<1>2. ASSUME k \in DOMAIN got.items, WriteStatus(got.items[k]) = Success
      PROVE  got.items[k][1] \in Ids
    <2>1. got.items[k] \in Records(AttributeRecord)
        BY <1>2 DEF ItemsIn
    <2> DEFINE r == got.items[k]
    <2> HIDE DEF r
    <2>2. WriteStatus(r) = Success => r[1] \in Ids
        BY <2>1, WriteAccepted DEF r
    <2> QED
        BY <2>2, <1>2 DEF r
<1>3. \A a \in Ids : At(a) = At(id) => a = id
    BY ClusterFacts
<1> QED
    BY <1>2, <1>3 DEF Accepted

\* The frame that the node has read to its end, and the peer's view of it.
Handling ==
    /\ IInv /\ phase = "reading" /\ leg = "request" /\ position > 0
    /\ Over(got, position, wire)

\* A request that is read whole is of the command that was asked for, and is that
\* request if it is plain.
LEMMA HandlingFacts ==
    ASSUME Handling
    PROVE  /\ IsRead(got) /\ IsFrame(sent) /\ sent = asked /\ asked \in Requests
           /\ Told(sent, leg) /\ Bare(got) = Bare(sent)
           /\ IsGlobal(got) = IsGlobal(asked) /\ Writes(got) = Writes(asked)
           /\ got.command = asked.command
           /\ Plain(asked) => got = asked
<1>1. /\ IsFrame(sent) /\ IsSent(phase) /\ sent = asked /\ asked \in Requests
    BY Phased DEF Handling, IInv, FramesOk
<1>2. Told(sent, leg) /\ got # NoFrame /\ Bare(got) = Bare(sent)
    BY <1>1 DEF Handling, Told, IInv, ReadOk, ReadSoFar
<1>3. IsRead(got) /\ IsFrame(got)
    BY <1>2 DEF Handling, IInv, FramesOk, IsRead
<1>4. Plain(sent) => got = sent
    BY <1>2, ReadWhole DEF Handling, IInv
<1> QED
    BY <1>1, <1>2, <1>3, <1>4, BareSame

\* The items of a write are attribute records.
LEMMA WriteItems ==
    ASSUME IsRead(got), Writes(got)
    PROVE  ItemsIn(AttributeRecord)
<1>1. Item(got.command) = AttributeRecord /\ IsGlobal(got)
    BY Items DEF Writes
<1>2. ItemOf(got) = AttributeRecord
    BY <1>1 DEF ItemOf
<1> QED
    BY <1>2, ItemsRecords

ValuesNext == IF IsGlobal(got) THEN ValuesAfter ELSE Identified

\* What the peer takes for granted stays as it is.
LEMMA HandleLeaves ==
    ASSUME Handling, NEW id \in Lasting, confirmed[id] # None
    PROVE  ValuesNext[At(id)] = values[At(id)]
<1>1. id \in Ids /\ At(id) \in Places \ {At(IdentifyTime)}
    BY LastingPlaces DEF Lasting
<1>2. IsRead(got) /\ IsValues(values) /\ IsConfig(config)
    BY HandlingFacts DEF Handling, IInv, ClusterOk
<1>3. CASE ~IsGlobal(got)
    BY <1>1, <1>2, <1>3, IdentifiedValues DEF ValuesNext
<1>4. CASE IsGlobal(got) /\ ~Writes(got)
    <2>1. ValuesAfter = values
        BY <1>4 DEF ValuesAfter, Writes
    <2> QED
        BY <2>1, <1>4 DEF ValuesNext
<1>5. CASE Writes(got)
    <2>1. id \notin Touched(asked)
        BY HandlingFacts, Phased DEF Handling, IInv, HeldOk
    <2>2. Writes(asked) /\ IsGlobal(got)
        BY <1>5, HandlingFacts DEF Writes
    <2>3. Plain(asked)
        BY <1>1, <2>1, <2>2 DEF Touched
    <2>4. got = asked
        BY <2>3, HandlingFacts
    <2>5. id \notin {got.items[i][1] : i \in DOMAIN got.items}
        BY <2>1, <2>2, <2>3, <2>4 DEF Touched
    <2>6. ItemsIn(AttributeRecord)
        BY <1>2, <1>5, WriteItems
    <2>7. Accepted(At(id)) = {}
        BY <1>1, <2>5, <2>6, AcceptedFor
    <2>8. Divided[At(id)] = values[At(id)] /\ Undivided[At(id)] = values[At(id)]
        BY <1>1, <1>2, <2>6, <2>7, DividedValues DEF Undivided
    <2>9. ValuesAfter \in {Divided, Undivided}
        BY <1>5 DEF ValuesAfter, Writes, WriteAttributes, WriteAttributesNoResponse,
           WriteAttributesUndivided
    <2> QED
        BY <2>2, <2>8, <2>9 DEF ValuesNext
<1> QED
    BY <1>3, <1>4, <1>5

\* An answer to a write can be read back, and what it reports as done is done.
LEMMA HandleDoes ==
    ASSUME Handling, Writes(asked), Plain(asked), Replied.command = WriteAttributesResponse
    PROVE  Plain(Replied) /\ Kept(asked, Replied, ValuesNext)
<1> DEFINE n == Len(got.items)
           s == Replied
<1>1. /\ got = asked /\ IsRead(got) /\ Writes(got) /\ IsGlobal(got)
      /\ IsValues(values) /\ IsConfig(config)
    BY HandlingFacts DEF Handling, IInv, ClusterOk, Writes
<1>2. ItemsIn(AttributeRecord)
    BY <1>1, WriteItems
<1>3. /\ IsGlobal(s) /\ s.command = WriteAttributesResponse
      /\ got.command \in {WriteAttributes, WriteAttributesUndivided}
      /\ s.items = [k \in DOMAIN got.items |-> <<WriteStatus(got.items[k]), got.items[k][1]>>]
    BY <1>1, WriteReplied
<1>4. n \in Nat /\ DOMAIN got.items = 1..n /\ DOMAIN s.items = 1..n
      /\ \A k \in 1..n : s.items[k] = <<WriteStatus(got.items[k]), got.items[k][1]>>
    BY <1>2, <1>3 DEF ItemsIn
<1> HIDE DEF s, n
<1>5. ItemOf(s) = WriteAttributeStatusRecord
    BY <1>3, Items DEF ItemOf
<1>6. \A k \in 1..n : ~Awkward(s, k)
    <2> TAKE k \in 1..n
    <2> DEFINE l == ItemOf(s)
               x == got.items[k][1]
               y == WriteStatus(got.items[k])
    <2>1. x \in Word /\ y \in Status
        <3>1. got.items[k] \in Records(AttributeRecord)
            BY <1>2, <1>4 DEF ItemsIn
        <3> DEFINE r == got.items[k]
        <3> HIDE DEF r
        <3>2. r[1] \in Word /\ WriteStatus(r) \in Status
            BY <3>1, WriteAccepted DEF r
        <3> QED
            BY <3>2 DEF r
    <2>2. x # None /\ y # None
        BY <2>1, NotNone, FieldValuesAre DEF FieldType
    <2> HIDE DEF x, y
    <2>3. s.items[k] = <<y, x>>
        BY <1>4 DEF x, y
    <2>4. /\ DOMAIN l = 1..2 /\ l[1].at = 0 /\ l[2].at = 0
          /\ l[1].type = "status" /\ l[2].type = "u16"
        BY <1>5 DEF WriteAttributeStatusRecord, Always
    <2> HIDE DEF l
    <2>5. \A j \in DOMAIN l : /\ s.items[k][j] # None /\ l[j].at = 0 /\ l[j].type # "selector"
                              /\ l[j].type # "data"
        <3>1. \A j \in DOMAIN l : j = 1 \/ j = 2
            BY <2>4
        <3>2. s.items[k][1] = y /\ s.items[k][2] = x
            BY <2>3
        <3> QED
            BY <3>1, <3>2, <2>2, <2>4
    <2> QED
        BY <2>5 DEF Awkward, Wanted, l
<1>7. Plain(s)
    <2>1. \A i \in DOMAIN s.items : ~Awkward(s, i)
        BY <1>4, <1>6
    <2> QED
        BY <2>1 DEF Plain, PlainUpTo
<1>8. Kept(asked, s, ValuesNext)
    <2> SUFFICES ASSUME NEW id \in Lasting, NEW i \in LastDoneBy(asked, s, id)
                 PROVE  ValuesNext[At(id)] = asked.items[i][2]
        BY DEF Kept
    <2>0. id \in Ids /\ At(id) \in Places
        BY LastingPlaces DEF Lasting
    <2>1. /\ i \in DoneBy(asked, s) /\ asked.items[i][1] = id
          /\ \A j \in DoneBy(asked, s) : asked.items[j][1] = id => j <= i
        BY DEF LastDoneBy
    <2>2. /\ i \in 1..n /\ s.items[i] = <<Success, id>>
          /\ asked.command = WriteAttributesUndivided =>
                \A j \in DOMAIN s.items : s.items[j][1] = Success
        BY <2>1, <1>1, <1>4 DEF DoneBy
    <2>3. \A j \in 1..n : /\ s.items[j][1] = WriteStatus(got.items[j])
                          /\ s.items[j][2] = got.items[j][1]
        BY <1>4
    <2>4. WriteStatus(got.items[i]) = Success /\ got.items[i][1] = id
        BY <2>2, <2>3
    <2>5. i \in Accepted(At(id))
        BY <2>0, <2>2, <2>4, <1>2, <1>4, AcceptedFor
    <2>6. ASSUME NEW j \in Accepted(At(id))
          PROVE  j <= i
        <3>1. j \in 1..n /\ WriteStatus(got.items[j]) = Success /\ got.items[j][1] = id
            BY <2>0, <2>6, <1>2, <1>4, AcceptedFor
        <3>2. s.items[j] = <<Success, asked.items[j][1]>>
            BY <3>1, <1>1, <1>4
        <3>3. j \in DoneBy(asked, s)
            BY <3>1, <3>2, <2>2, <1>1, <1>4 DEF DoneBy
        <3> QED
            BY <3>1, <3>3, <2>1, <1>1
    <2>7. Max(Accepted(At(id))) = i
        <3> DEFINE S == Accepted(At(id))
                   m == Max(S)
        <3>1. m \in S /\ \A k \in S : k <= m /\ k \in 1..n
            BY <2>0, <2>5, <1>2, LastAccepted DEF n
        <3>2. \A j \in S : j <= i
            BY <2>6
        <3>3. i \in S
            BY <2>5
        <3> HIDE DEF S, m
        <3>4. m = i
            BY <3>1, <3>2, <3>3, <1>4
        <3> QED
            BY <3>4 DEF m, S
    <2>8. Divided[At(id)] = got.items[i][2]
        BY <2>0, <2>5, <2>7, <1>1, <1>2, DividedValues
    <2>9. asked.command = WriteAttributesUndivided => Undivided = Divided
        BY <2>2, <2>3, <1>4 DEF Undivided, AllAccepted
    <2>10. ValuesNext = Divided
        BY <2>9, <1>1, <1>3 DEF ValuesNext, ValuesAfter, WriteAttributes,
           WriteAttributesNoResponse, WriteAttributesUndivided
    <2> QED
        BY <2>8, <2>10, <1>1
<1> QED
    BY <1>7, <1>8 DEF s

\* The node carries the request out, saves the cluster and writes its answer.
LEMMA HandleInvariant ==
    ASSUME IInv, Handle
    PROVE  IInv'
<1>1. Handling
    BY OverIs DEF Handle, Handling
<1>2. /\ values' = ValuesNext /\ config' = (IF IsGlobal(got) THEN ConfigAfter ELSE config)
      /\ saved' = Image(values', config') /\ UNCHANGED <<asked, confirmed>>
    BY DEF Handle, ValuesNext
<1>3. \/ phase' = "idle" /\ UNCHANGED <<leg, sent, written, wire, got, position>>
      \/ /\ phase' = "writing" /\ leg' = "response" /\ sent' = Replied
         /\ written' = 0 /\ wire' = <<>> /\ got' = NoFrame /\ position' = 0
    BY DEF Handle, Respond, Replied, OwnPart
<1>4. /\ IsRead(got) /\ IsFrame(sent) /\ IsValues(values) /\ IsConfig(config)
      /\ asked \in Requests /\ leg = "request"
    BY <1>1, HandlingFacts DEF Handling, IInv, ClusterOk
<1>5. IsValues(values') /\ IsConfig(config')
    BY <1>2, <1>4, CarriedOut, IdentifiedValues DEF ValuesNext
<1>6. saved'.values = values' /\ saved'.config = config'
    BY <1>2 DEF Image
<1>7. IsFrame(Replied) /\ Len(Replied.items) \in Nat
    BY <1>4, RepliedIsFrame, FrameFacts
<1>8. ClusterOk'
    BY <1>5, <1>6 DEF ClusterOk
<1>9. FramesOk'
    BY <1>2, <1>3, <1>4, <1>7 DEF IInv, FramesOk, Phases
<1>10. WireOk'
    <2>1. CASE phase' = "idle" /\ UNCHANGED <<leg, sent, written, wire, got, position>>
        BY <2>1, Phased DEF IInv, WireOk
    <2>2. CASE /\ phase' = "writing" /\ leg' = "response" /\ sent' = Replied
               /\ written' = 0 /\ wire' = <<>> /\ got' = NoFrame /\ position' = 0
        BY <2>2, <1>7, NothingWritten, Phased, BytesConcat DEF WireOk
    <2> QED
        BY <1>3, <2>1, <2>2
<1>11. ReadOk'
    BY <1>3, Phased DEF ReadOk
<1>12. HeldOk'
    <2>1. ASSUME NEW id \in Lasting, confirmed'[id] # None
          PROVE  values'[At(id)] = confirmed'[id] /\ saved'.values[At(id)] = confirmed'[id]
        <3>1. confirmed[id] # None /\ confirmed'[id] = confirmed[id]
            BY <1>2, <2>1
        <3>2. ValuesNext[At(id)] = values[At(id)]
            BY <1>1, <3>1, HandleLeaves
        <3>3. values[At(id)] = confirmed[id]
            BY <3>1 DEF IInv, HeldOk
        <3> QED
            BY <3>1, <3>2, <3>3, <1>2, <1>6
    <2>2. ~(UnderWay(phase') /\ leg' = "request")
        BY <1>3, Phased DEF Phases
    <2> QED
        BY <2>1, <2>2 DEF HeldOk
<1>13. PendingOk'
    <2>1. CASE phase' = "idle"
        BY <2>1, Phased DEF PendingOk, Phases
    <2>2. CASE phase' = "writing" /\ leg' = "response" /\ sent' = Replied
        <3>1. Writes(asked) => IsGlobal(Replied)
            BY <1>1, <1>4, HandlingFacts, WriteReplied
        <3>2. Writes(asked) /\ Plain(asked) /\ Replied.command = WriteAttributesResponse =>
                 /\ Plain(Replied) /\ Kept(asked, Replied, values')
                 /\ Kept(asked, Replied, saved'.values)
            BY <1>1, <1>2, <1>6, HandleDoes
        <3> QED
            BY <2>2, <3>1, <3>2, <1>2 DEF PendingOk
    <2> QED
        BY <1>3, <2>1, <2>2
<1> QED
    BY <1>8, <1>9, <1>10, <1>11, <1>12, <1>13 DEF IInv

\* Every step preserves the invariant.
LEMMA NextInvariant ==
    IInv /\ [Next]_vars => IInv'
<1> SUFFICES ASSUME IInv, [Next]_vars
             PROVE  IInv'
    OBVIOUS
<1>1. CASE \E f \in Requests : Ask(f)
    BY <1>1, AskInvariant
<1>2. CASE WriteStart
    BY <1>2, WriteStartInvariant
<1>3. CASE WriteItem
    BY <1>3, WriteItemInvariant
<1>4. CASE Send
    BY <1>4, SendInvariant
<1>5. CASE ReadStart
    BY <1>5, ReadStartInvariant
<1>6. CASE ReadItem
    BY <1>6, ReadItemInvariant
<1>7. CASE Handle
    BY <1>7, HandleInvariant
<1>8. CASE Conclude
    BY <1>8, ConcludeInvariant
<1>9. CASE Tick
    BY <1>9, TickInvariant
<1>10. CASE Restart
    BY <1>10, RestartInvariant
<1>11. CASE Rest
    BY <1>11, RestInvariant
<1>12. CASE UNCHANGED vars
    BY <1>12, StutterInvariant
<1> QED
    BY <1>1, <1>2, <1>3, <1>4, <1>5, <1>6, <1>7, <1>8, <1>9, <1>10, <1>11, <1>12 DEF Next

\* The strengthened invariant holds in every reachable state, for every cluster,
\* every set of requests, every depth of nested data and every longest frame.
THEOREM Invariance ==
    Spec => []IInv
    BY InitInvariant, NextInvariant, PTL DEF Spec

\* The invariant has the types.
LEMMA TypesFollow ==
    IInv => TypeOK
<1> SUFFICES ASSUME IInv
             PROVE  TypeOK
    OBVIOUS
<1>1. Len(values) = Len(Cluster)
    <2>1. values \in [1..Len(Cluster) -> Data] /\ Len(Cluster) \in Nat
        BY ClusterFacts DEF IInv, ClusterOk, IsValues, Places
    <2> QED
        BY <2>1, FunctionIsSeq
<1>2. /\ IsValues(values) /\ IsConfig(config) /\ IsValues(saved.values)
    BY DEF IInv, ClusterOk
<1>6. \A i \in Places : values[i].tag = Cluster[i].default.tag
    BY <1>2 DEF IsValues
<1>7. \A i \in Places : saved.values[i].tag = Cluster[i].default.tag
    BY <1>2 DEF IsValues
<1>8. DOMAIN config = Places
    BY <1>2 DEF IsConfig
<1>9. \A i \in Places : (config[i] = None) = (Cluster[i].interval = None)
    BY <1>2 DEF IsConfig
<1>3. /\ phase \in {"idle", "writing", "reading", "accepted", "refused", "unsent", "halted"}
      /\ leg \in {"request", "response"} /\ asked \in Requests \cup {NoFrame}
      /\ leg = "request" => sent = asked
      /\ DOMAIN confirmed = Lasting
    BY DEF IInv, FramesOk, Phases
<1>4. /\ written \in 0..Len(sent.items) /\ position \in 0..Len(wire) /\ wire \in Bytes
      /\ phase \in {"reading", "accepted"} => Len(wire) <= Capacity
    BY Phased DEF IInv, WireOk
<1>5. \A i \in DOMAIN wire : wire[i] \in 0..255
    <2>1. wire \in Seq(Byte)
        BY <1>4 DEF Bytes
    <2>2. \A i \in 1..Len(wire) : wire[i] \in Byte
        BY <2>1
    <2>3. DOMAIN wire = 1..Len(wire)
        BY <2>1
    <2> QED
        BY <2>2, <2>3 DEF Byte
<1> QED
    BY <1>1, <1>3, <1>4, <1>5, <1>6, <1>7, <1>8, <1>9 DEF TypeOK

\* The invariant says that plain frames are read back.
LEMMA ReadBackFollows ==
    IInv => ReadBack
<1> SUFFICES ASSUME IInv, IsSent(phase), Told(sent, leg)
             PROVE  /\ \A i \in DOMAIN got.items :
                        PlainUpTo(sent, i) => i \in DOMAIN sent.items /\ got.items[i] = sent.items[i]
                    /\ Plain(sent) => phase \in {"reading", "accepted"}
                    /\ phase = "accepted" /\ Plain(sent) => got = sent
    BY Phased DEF ReadBack, Forgetful, Told
<1>1. /\ ReadSoFar(sent, leg, got, position)
      /\ Plain(sent) => phase \in {"reading", "accepted"}
      /\ phase = "accepted" => position > 0 /\ Over(got, position, wire)
    BY DEF IInv, ReadOk
<1>2. phase = "accepted" /\ Plain(sent) => got = sent
    BY <1>1, ReadWhole DEF IInv
<1> QED
    BY <1>1, <1>2 DEF ReadSoFar

\* The invariant says that what the peer takes for granted is held.
LEMMA HeldFollows ==
    IInv => ConfirmedIsHeld
    BY DEF IInv, HeldOk, ConfirmedIsHeld

\* Every variable of the exchange keeps its type (zcl/service.rs,
\* handle_zcl_command).
THEOREM TypeCorrect ==
    Spec => []TypeOK
    BY Invariance, TypesFollow, PTL

\* Whatever is sent, by either side, is read as it was written up to the first item
\* that holds what its format does not carry; a plain frame is neither refused nor
\* halts its reader (zcl/frame.rs and zcl/types.rs, try_read and try_write).
THEOREM RoundTrip ==
    Spec => []ReadBack
    BY Invariance, ReadBackFollows, PTL

\* What an answer reports as written is what the attribute holds, through any other
\* commands, timers and restarts (zcl/cluster/types.rs, write_attributes and
\* write_attributes_undivided; zb_application.rs, load_all).
THEOREM AnswersHold ==
    Spec => []ConfirmedIsHeld
    BY Invariance, HeldFollows, PTL
=============================================================================
