--------------------------- MODULE TileLayoutProofs ---------------------------
(***************************************************************************)
(* TileLayout for every size of image and tiles, every number of devices   *)
(* and samples, and both tile orders: gen_tiles covers the image, by rows  *)
(* and columns of slices and along the Hilbert spiral; get_neighbor_index  *)
(* finds the tiles that touch; and the progress bar reaches its end.       *)
(*                                                                         *)
(* The recursive functions of TileGrid and FlattenSeq and FoldLeft of the  *)
(* community modules are CHOSEN to satisfy an equation.  So a lemma first  *)
(* shows that some function does, and the next, by induction, what every   *)
(* such function returns.  Induction is over the set of the numbers for    *)
(* which something holds, since the sets of naturals are well-founded.     *)
(***************************************************************************)
EXTENDS TileLayout, FiniteSetTheorems, WellFoundedInduction, TLAPS

-----------------------------------------------------------------------------
(* Induction and the recursive functions.                                  *)

(* Induction, over the set of numbers for which something holds. *)
LEMMA Induction ==
  ASSUME NEW T \in SUBSET Nat, 0 \in T, \A n \in T : n + 1 \in T
  PROVE  \A n \in Nat : n \in T
<1> DEFINE R == {ss \in Nat \X Nat : ss[1] < ss[2]}
           Rest == Nat \ T
<1> SUFFICES ASSUME Rest # {} PROVE FALSE
  OBVIOUS
<1>1. IsWellFoundedOn(R, Nat)
  BY NatLessThanWellFounded DEF OpToRel
<1>2. PICK m \in Rest : \A n \in Rest : ~ (<<n, m>> \in R)
  BY <1>1, WFMin
<1>3. m \in Nat \ {0} /\ m - 1 \in Nat /\ <<m - 1, m>> \in R
  BY <1>2
<1>4. m - 1 \in T
  BY <1>2, <1>3
<1>5. (m - 1) + 1 \in T
  BY <1>4
<1>6. (m - 1) + 1 = m
  BY <1>3
<1> QED BY <1>2, <1>5, <1>6

(* The same from a to b. *)
LEMMA InductionUpTo ==
  ASSUME NEW a \in Nat, NEW b \in Nat, NEW T, a <= b => a \in T,
         \A m \in a .. b - 1 : m \in T => m + 1 \in T
  PROVE  \A m \in a .. b : m \in T
<1> DEFINE U == {d \in Nat : a + d <= b => a + d \in T}
<1>1. 0 \in U
  OBVIOUS
<1>2. ASSUME NEW d \in U PROVE d + 1 \in U
  <2>1. d \in Nat /\ a + (d + 1) = (a + d) + 1
    BY <1>2
  <2>2. a + (d + 1) <= b => a + d \in a .. b - 1 /\ a + d \in T
    BY <1>2, <2>1
  <2>3. a + (d + 1) <= b => (a + d) + 1 \in T
    BY <2>2
  <2> QED BY <2>1, <2>3
<1> HIDE DEF U
<1>3. U \in SUBSET Nat
  BY DEF U
<1>4. \A d \in Nat : d \in U
  BY <1>1, <1>2, <1>3, Induction
<1>5. ASSUME NEW m \in a .. b PROVE m \in T
  <2>1. m - a \in U /\ a + (m - a) = m
    BY <1>4
  <2> QED BY <2>1 DEF U
<1> QED BY <1>5

-----------------------------------------------------------------------------
(* The recursion in FlattenSeq: what is joined of the first sequences.     *)
IsJoin(joined, seqs, n) ==
  joined = [i \in 1 .. n |-> IF i = 1 THEN seqs[i] ELSE joined[i - 1] \o seqs[i]]

(* There is such a sequence of joins. *)
LEMMA JoinExists ==
  ASSUME NEW seqs, NEW n \in Nat
  PROVE  \E joined : IsJoin(joined, seqs, n)
<1> DEFINE T == {m \in Nat : \E f : IsJoin(f, seqs, m)}
<1>1. 0 \in T
  <2> DEFINE f == [i \in 1 .. 0 |-> seqs[i]]
  <2>1. IsJoin(f, seqs, 0)
    BY DEF IsJoin
  <2> HIDE DEF f
  <2> QED BY <2>1
<1>2. ASSUME NEW m \in T PROVE m + 1 \in T
  <2>1. PICK f : IsJoin(f, seqs, m)
    BY <1>2
  <2> DEFINE h == [i \in 1 .. m + 1 |-> IF i = 1 THEN seqs[i] ELSE f[i - 1] \o seqs[i]]
  <2>2. m \in Nat
    BY <1>2
  <2>3. ASSUME NEW i \in 1 .. m PROVE h[i] = f[i]
    <3>1. i \in 1 .. m + 1
      BY <2>2
    <3>2. f[i] = IF i = 1 THEN seqs[i] ELSE f[i - 1] \o seqs[i]
      BY <2>1 DEF IsJoin
    <3> QED BY <3>1, <3>2
  <2> HIDE DEF h
  <2>4. ASSUME NEW i \in 1 .. m + 1, i # 1 PROVE f[i - 1] = h[i - 1]
    <3>1. i - 1 \in 1 .. m
      BY <2>2, <2>4
    <3> QED BY <2>3, <3>1
  <2>5. h = [i \in 1 .. m + 1 |-> IF i = 1 THEN seqs[i] ELSE h[i - 1] \o seqs[i]]
    BY <2>4 DEF h
  <2>6. IsJoin(h, seqs, m + 1)
    BY <2>5 DEF IsJoin
  <2> QED BY <2>2, <2>6
<1> HIDE DEF T
<1>3. T \in SUBSET Nat
  BY DEF T
<1>4. n \in T
  BY <1>1, <1>2, <1>3, Induction
<1> QED BY <1>4 DEF T

(* What \o does. *)
LEMMA Appended ==
  ASSUME NEW S, NEW a \in Seq(S), NEW b \in Seq(S)
  PROVE  /\ a \o b \in Seq(S) /\ Len(a \o b) = Len(a) + Len(b)
         /\ Len(a) \in Nat /\ Len(b) \in Nat
         /\ \A k \in 1 .. Len(a) : (a \o b)[k] = a[k]
         /\ \A k \in 1 .. Len(b) : (a \o b)[Len(a) + k] = b[k]
OBVIOUS

(* The first m of the sequences are joined in s; sequence i begins after   *)
(* place from[i].                                                          *)
Joined(s, seqs, m, from) ==
  /\ \A i \in 1 .. m + 1 : from[i] \in Nat
  /\ from[1] = 0
  /\ \A i \in 1 .. m : from[i + 1] = from[i] + Len(seqs[i])
  /\ Len(s) = from[m + 1]
  /\ \A i \in 1 .. m : \A k \in 1 .. Len(seqs[i]) :
       from[i] + k \in 1 .. Len(s) /\ s[from[i] + k] = seqs[i][k]
  /\ \A j \in 1 .. Len(s) : \E i \in 1 .. m : \E k \in 1 .. Len(seqs[i]) : j = from[i] + k

(* Joining begins with the first sequence, ... *)
LEMMA JoinOne ==
  ASSUME NEW S, NEW seqs, seqs[1] \in Seq(S), NEW from, from[1] = 0, from[2] = Len(seqs[1])
  PROVE  Joined(seqs[1], seqs, 1, from)
<1>1. 1 .. 1 = {1} /\ 1 .. 1 + 1 = {1, 2} /\ 1 + 1 = 2
  OBVIOUS
<1>2. Len(seqs[1]) \in Nat /\ from[1] + Len(seqs[1]) = Len(seqs[1])
  OBVIOUS
<1>3. \A k \in 1 .. Len(seqs[1]) : from[1] + k = k
  BY <1>2
<1>4. \A i \in 1 .. 1 + 1 : from[i] \in Nat
  BY <1>1, <1>2
<1>5. \A i \in 1 .. 1 : from[i + 1] = from[i] + Len(seqs[i])
  BY <1>1, <1>2
<1>6. \A i \in 1 .. 1 : \A k \in 1 .. Len(seqs[i]) :
        from[i] + k \in 1 .. Len(seqs[1]) /\ seqs[1][from[i] + k] = seqs[i][k]
  BY <1>1, <1>3
<1>7. \A j \in 1 .. Len(seqs[1]) : \E i \in 1 .. 1 : \E k \in 1 .. Len(seqs[i]) : j = from[i] + k
  BY <1>1, <1>3
<1> QED BY <1>1, <1>4, <1>5, <1>6, <1>7 DEF Joined

(* ... and goes on with the next. *)
LEMMA JoinMore ==
  ASSUME NEW S, NEW seqs, NEW m \in Nat \ {0}, NEW a \in Seq(S), seqs[m + 1] \in Seq(S),
         NEW from, Joined(a, seqs, m, from), from[m + 2] = Len(a \o seqs[m + 1])
  PROVE  Joined(a \o seqs[m + 1], seqs, m + 1, from)
<1> DEFINE b == seqs[m + 1]
           c == a \o b
<1>1. /\ Len(c) = Len(a) + Len(b) /\ Len(a) \in Nat /\ Len(b) \in Nat
      /\ \A k \in 1 .. Len(a) : c[k] = a[k]
      /\ \A k \in 1 .. Len(b) : c[Len(a) + k] = b[k]
  BY Appended
<1>2. /\ \A i \in 1 .. m + 1 : from[i] \in Nat
      /\ from[1] = 0
      /\ \A i \in 1 .. m : from[i + 1] = from[i] + Len(seqs[i])
      /\ Len(a) = from[m + 1]
      /\ \A i \in 1 .. m : \A k \in 1 .. Len(seqs[i]) :
           from[i] + k \in 1 .. Len(a) /\ a[from[i] + k] = seqs[i][k]
      /\ \A j \in 1 .. Len(a) : \E i \in 1 .. m : \E k \in 1 .. Len(seqs[i]) : j = from[i] + k
  BY Zenon DEF Joined
<1>3. from[m + 2] = Len(c) /\ (m + 1) + 1 = m + 2
  OBVIOUS
<1> HIDE DEF c
<1>4. from[m + 2] \in Nat /\ from[m + 2] = from[m + 1] + Len(b)
  BY <1>1, <1>2, <1>3
<1>5. /\ \A i \in 1 .. m + 1 : i \in 1 .. m \/ i = m + 1
      /\ \A i \in 1 .. m : i \in 1 .. m + 1
      /\ \A i \in 1 .. (m + 1) + 1 : i \in 1 .. m + 1 \/ i = m + 2
      /\ m + 1 \in 1 .. m + 1
  OBVIOUS
<1>6. \A i \in 1 .. (m + 1) + 1 : from[i] \in Nat
  BY <1>2, <1>4, <1>5
<1>7. \A i \in 1 .. m + 1 : from[i + 1] = from[i] + Len(seqs[i])
  BY <1>2, <1>3, <1>4, <1>5
<1>8. ASSUME NEW i \in 1 .. m + 1, NEW k \in 1 .. Len(seqs[i])
      PROVE  from[i] + k \in 1 .. Len(c) /\ c[from[i] + k] = seqs[i][k]
  <2>1. CASE i = m + 1
    <3>1. k \in 1 .. Len(b) /\ from[i] + k = Len(a) + k
      BY <1>2, <2>1
    <3>2. c[Len(a) + k] = b[k] /\ Len(a) + k \in 1 .. Len(c)
      BY <1>1, <3>1
    <3> QED BY <2>1, <3>1, <3>2
  <2>2. CASE i \in 1 .. m
    <3>1. from[i] + k \in 1 .. Len(a) /\ a[from[i] + k] = seqs[i][k]
      BY <1>2, <2>2
    <3>2. c[from[i] + k] = a[from[i] + k] /\ from[i] + k \in 1 .. Len(c)
      BY <1>1, <3>1
    <3> QED BY <3>1, <3>2
  <2> QED BY <1>5, <2>1, <2>2
<1>9. ASSUME NEW j \in 1 .. Len(c)
      PROVE  \E i \in 1 .. m + 1 : \E k \in 1 .. Len(seqs[i]) : j = from[i] + k
  <2>1. CASE j \in 1 .. Len(a)
    BY <1>2, <1>5, <2>1
  <2>2. CASE j \notin 1 .. Len(a)
    <3>1. j - Len(a) \in 1 .. Len(b) /\ j = Len(a) + (j - Len(a))
      BY <1>1, <2>2
    <3>2. j = from[m + 1] + (j - Len(a))
      BY <1>2, <3>1
    <3> QED BY <1>5, <3>1, <3>2
  <2> QED BY <2>1, <2>2
<1>10. Joined(c, seqs, m + 1, from)
  BY <1>2, <1>3, <1>6, <1>7, <1>8, <1>9 DEF Joined
<1> QED BY <1>10 DEF c

(* FlattenSeq joins all of them. *)
LEMMA Flattened ==
  ASSUME NEW S, NEW n \in Nat \ {0}, NEW seqs, seqs \in [1 .. n -> Seq(S)]
  PROVE  /\ FlattenSeq(seqs) \in Seq(S)
         /\ \E from : Joined(FlattenSeq(seqs), seqs, n, from)
<1>1. \E f : IsJoin(f, seqs, n)
  BY JoinExists
<1>2. Len(seqs) = n
  OBVIOUS
<1> DEFINE f == CHOOSE g : IsJoin(g, seqs, n)
<1>3. IsJoin(f, seqs, n)
  BY <1>1
<1>4. FlattenSeq(seqs) = f[n]
  BY <1>2 DEF FlattenSeq, IsJoin
<1> HIDE DEF f
<1> DEFINE from == [i \in 1 .. n + 1 |-> IF i = 1 THEN 0 ELSE Len(f[i - 1])]
           T == {m \in 1 .. n : f[m] \in Seq(S) /\ Joined(f[m], seqs, m, from)}
<1>5. \A i \in 1 .. n : f[i] = IF i = 1 THEN seqs[i] ELSE f[i - 1] \o seqs[i]
  BY <1>3 DEF IsJoin
<1>6. \A m \in 1 .. n : seqs[m] \in Seq(S)
  OBVIOUS
<1>7. from[1] = 0 /\ \A m \in 1 .. n : from[m + 1] = Len(f[m])
  OBVIOUS
<1> HIDE DEF from
<1>8. 1 \in T
  <2>1. 1 \in 1 .. n /\ 1 + 1 = 2
    OBVIOUS
  <2>2. f[1] = seqs[1] /\ seqs[1] \in Seq(S) /\ from[2] = Len(f[1])
    BY <1>5, <1>6, <1>7, <2>1
  <2>3. Joined(seqs[1], seqs, 1, from)
    BY <1>7, <2>2, JoinOne
  <2> QED BY <2>1, <2>2, <2>3
<1>9. ASSUME NEW m \in 1 .. n - 1, m \in T PROVE m + 1 \in T
  <2>1. /\ m \in Nat \ {0} /\ m + 1 \in 1 .. n /\ m + 1 # 1 /\ (m + 1) - 1 = m
        /\ (m + 1) + 1 = m + 2
    OBVIOUS
  <2>2. /\ f[m + 1] = f[m] \o seqs[m + 1] /\ seqs[m + 1] \in Seq(S)
        /\ from[m + 2] = Len(f[m + 1]) /\ f[m] \in Seq(S) /\ Joined(f[m], seqs, m, from)
    BY <1>5, <1>6, <1>7, <1>9, <2>1
  <2>3. f[m + 1] \in Seq(S)
    BY <2>2, Appended
  <2>4. Joined(f[m] \o seqs[m + 1], seqs, m + 1, from)
    BY <2>1, <2>2, JoinMore
  <2> QED BY <2>1, <2>2, <2>3, <2>4
<1> HIDE DEF T
<1>10. n \in T
  <2>1. \A m \in 1 .. n : m \in T
    BY <1>8, <1>9, InductionUpTo
  <2> QED BY <2>1
<1> QED BY <1>4, <1>10 DEF T

(* The recursion in AllPixels, which FoldLeft makes over sets of places:   *)
(* what the tiles of a set have together, from the largest place on.       *)
IsTotal(it, ts, n) ==
  it = [s \in SUBSET (1 .. n) |->
          IF s = {} THEN 0 ELSE it[s \ {Max(s)}] + Area(ts[Max(s)])]

(* The largest place is taken off first. *)
LEMMA LargestPlace ==
  ASSUME NEW m \in Nat, NEW s \in SUBSET (1 .. m + 1)
  PROVE  /\ m + 1 \in s => Max(s) = m + 1
         /\ s \ {Max(s)} \in SUBSET (1 .. m)
<1>1. CASE m + 1 \in s
  <2>1. \A y \in s : m + 1 >= y
    OBVIOUS
  <2>2. Max(s) \in s /\ \A y \in s : Max(s) >= y
    BY <1>1, <2>1 DEF Max
  <2> DEFINE x == Max(s)
  <2>3. m + 1 >= x /\ x >= m + 1 /\ x \in 1 .. m + 1
    <3> HIDE DEF x
    <3>1. x \in s /\ \A y \in s : x >= y
      BY <2>2 DEF x
    <3> QED BY <1>1, <2>1, <3>1
  <2>4. Max(s) = m + 1
    <3> HIDE DEF x
    <3>1. x = m + 1
      BY <2>3
    <3> QED BY <3>1 DEF x
  <2>5. \A y \in s \ {m + 1} : y \in 1 .. m
    OBVIOUS
  <2> QED BY <2>4, <2>5
<1>2. CASE m + 1 \notin s
  <2>1. \A y \in s : y \in 1 .. m
    BY <1>2
  <2> QED BY <1>2, <2>1
<1> QED BY <1>1, <1>2

(* There is such a sum for every set of places. *)
LEMMA TotalExists ==
  ASSUME NEW ts, NEW n \in Nat
  PROVE  \E it : IsTotal(it, ts, n)
<1> DEFINE T == {m \in Nat : \E it : IsTotal(it, ts, m)}
<1>1. 0 \in T
  <2> DEFINE f == [s \in SUBSET (1 .. 0) |-> 0]
  <2>1. \A s \in SUBSET (1 .. 0) : s = {}
    <3>1. 1 .. 0 = {}
      OBVIOUS
    <3> QED BY <3>1, Zenon
  <2>2. IsTotal(f, ts, 0)
    BY <2>1 DEF IsTotal
  <2>3. \E it : IsTotal(it, ts, 0)
    BY <2>2, Zenon
  <2> QED BY <2>3
<1>2. ASSUME NEW m \in T PROVE m + 1 \in T
  <2>1. PICK f : IsTotal(f, ts, m)
    BY <1>2
  <2>2. m \in Nat
    BY <1>2
  <2> DEFINE Body(g, s) == IF s = {} THEN 0 ELSE g[s \ {Max(s)}] + Area(ts[Max(s)])
             h == [s \in SUBSET (1 .. m + 1) |-> Body(f, s)]
  <2>3. \A s \in SUBSET (1 .. m) : s \in SUBSET (1 .. m + 1) /\ f[s] = Body(f, s)
    <3>1. f = [s \in SUBSET (1 .. m) |-> Body(f, s)]
      BY <2>1 DEF IsTotal
    <3>2. \A s \in SUBSET (1 .. m) : f[s] = Body(f, s)
      BY <3>1, Zenon
    <3>3. \A s \in SUBSET (1 .. m) : s \in SUBSET (1 .. m + 1)
      BY <2>2
    <3> QED BY <3>2, <3>3, Zenon
  <2>4. \A s \in SUBSET (1 .. m) : h[s] = f[s]
    BY <2>3
  <2>5. \A s \in SUBSET (1 .. m + 1) : s \ {Max(s)} \in SUBSET (1 .. m)
    BY <2>2, LargestPlace
  <2> HIDE DEF h
  <2>6. \A s \in SUBSET (1 .. m + 1) : Body(f, s) = Body(h, s)
    BY <2>4, <2>5
  <2>7. h = [s \in SUBSET (1 .. m + 1) |-> Body(h, s)]
    BY <2>6 DEF h
  <2>8. IsTotal(h, ts, m + 1)
    BY <2>7 DEF IsTotal
  <2> QED BY <2>2, <2>8
<1> HIDE DEF T
<1>3. T \in SUBSET Nat
  BY DEF T
<1>4. n \in T
  BY <1>1, <1>2, <1>3, Induction
<1> QED BY <1>4 DEF T

(* The tiles are added up in order. *)
LEMMA PixelsAdded ==
  ASSUME NEW ts, NEW n \in Nat, DOMAIN ts = 1 .. n
  PROVE  \E P : /\ P[0] = 0 /\ AllPixels(ts) = P[n]
               /\ \A k \in 1 .. n : P[k] = P[k - 1] + Area(ts[k])
<1> DEFINE it == CHOOSE f : IsTotal(f, ts, n)
<1>1. IsTotal(it, ts, n)
  BY TotalExists
<1>2. AllPixels(ts) = it[1 .. n]
  BY DEF AllPixels, FoldLeft, MapThenFoldSet, IsTotal
<1> HIDE DEF it
<1>3. \A s \in SUBSET (1 .. n) :
        it[s] = IF s = {} THEN 0 ELSE it[s \ {Max(s)}] + Area(ts[Max(s)])
  BY <1>1 DEF IsTotal
<1> DEFINE P == [m \in 0 .. n |-> it[1 .. m]]
<1>4. P[0] = 0 /\ P[n] = it[1 .. n]
  <2>1. 1 .. 0 = {} /\ 1 .. 0 \in SUBSET (1 .. n) /\ 0 \in 0 .. n /\ n \in 0 .. n
    OBVIOUS
  <2> QED BY <1>3, <2>1
<1>5. ASSUME NEW k \in 1 .. n PROVE P[k] = P[k - 1] + Area(ts[k])
  <2> DEFINE r == 1 .. k
  <2>1. k - 1 \in Nat /\ (k - 1) + 1 = k /\ k - 1 \in 0 .. n /\ k \in 0 .. n
    OBVIOUS
  <2>2. r \in SUBSET (1 .. (k - 1) + 1) /\ k \in r /\ r # {} /\ r \ {k} = 1 .. k - 1
    <3>1. \A j \in r : j # k => j \in 1 .. k - 1
      OBVIOUS
    <3>2. \A j \in 1 .. k - 1 : j \in r /\ j # k
      OBVIOUS
    <3>3. r \ {k} = 1 .. k - 1
      BY <3>1, <3>2, Zenon
    <3> QED BY <2>1, <3>3
  <2>3. r \in SUBSET (1 .. n)
    <3>1. \A j \in r : j \in 1 .. n
      OBVIOUS
    <3> QED BY <3>1, Zenon
  <2> HIDE DEF r
  <2>4. Max(r) = k
    <3>1. (k - 1) + 1 \in r => Max(r) = (k - 1) + 1
      BY <2>1, <2>2, LargestPlace
    <3> QED BY <2>1, <2>2, <3>1
  <2>5. it[r] = it[r \ {Max(r)}] + Area(ts[Max(r)])
    BY <1>3, <2>2, <2>3, Zenon
  <2>6. it[r] = it[1 .. k - 1] + Area(ts[k])
    BY <2>2, <2>4, <2>5
  <2> QED BY <2>1, <2>6 DEF r
<1> HIDE DEF P
<1> QED BY <1>2, <1>4, <1>5, Zenon

-----------------------------------------------------------------------------
(* The tiles of a slice                                                    *)

(* A number is its quotient and its remainder ... *)
LEMMA Split ==
  ASSUME NEW c \in Nat \ {0}, NEW i \in Nat
  PROVE  /\ i \div c \in Nat /\ i % c \in 0 .. c - 1
         /\ i = (i \div c) * c + (i % c)
<1>1. i \div c \in Int /\ i % c \in 0 .. c - 1
  OBVIOUS
<1>2. i = c * (i \div c) + (i % c)
  OBVIOUS
<1> QED BY <1>1, <1>2, Z3

(* ... and no others. *)
LEMMA Position ==
  ASSUME NEW c \in Nat \ {0}, NEW x \in 0 .. c - 1, NEW y \in Nat
  PROVE  /\ y * c + x \in Nat
         /\ (y * c + x) \div c = y /\ (y * c + x) % c = x
<1>1. y * c \in Nat
  OBVIOUS
<1>2. y * c + x \in Nat
  BY <1>1
<1> QED BY <1>2

(* Products grow with their factors. *)
LEMMA Multiples ==
  ASSUME NEW a \in Nat, NEW b \in Nat, NEW c \in Nat
  PROVE  /\ a * c \in Nat
         /\ a <= b => a * c <= b * c
         /\ a < b => a * c + c <= b * c
<1>1. \A d \in Nat : (a + d) * c = a * c + d * c /\ d * c \in Nat
  OBVIOUS
<1>2. \A d \in Nat \ {0} : d * c >= c
  OBVIOUS
<1>3. a <= b => b - a \in Nat /\ a + (b - a) = b
  OBVIOUS
<1> QED BY <1>1, <1>2, <1>3

(* A row has as many tiles as it takes, the last of which may be smaller. *)
LEMMA TilesCounted ==
  ASSUME NEW size \in Nat \ {0}, NEW tile \in Nat \ {0}
  PROVE  LET n == Count(size, tile) IN
         n \in Nat \ {0} /\ (n - 1) * tile < size /\ size <= n * tile
<1>1. CASE tile >= size
  <2>1. Count(size, tile) = 1
    BY <1>1 DEF Count
  <2> QED BY <1>1, <2>1
<1>2. CASE tile < size
  <2> DEFINE m == size + tile - 1
             n == m \div tile
  <2>1. m \in Nat /\ Count(size, tile) = n
    BY <1>2 DEF Count, DivideUp
  <2>2. n \in Nat /\ m % tile \in 0 .. tile - 1 /\ m = n * tile + (m % tile)
    BY <2>1, Split
  <2> HIDE DEF n
  <2>3. n * tile \in Nat /\ (n - 1) * tile = n * tile - tile
    BY <2>2
  <2>4. n # 0
    BY <1>2, <2>2
  <2> QED BY <2>1, <2>2, <2>3, <2>4
<1> QED BY <1>1, <1>2

(* Tile k of a row of n, whose last tile takes what is left. *)
Extent(size, tile, n, k) == IF k = n - 1 THEN size - k * tile ELSE tile

(* No tile is empty, and each ends where the next begins. *)
LEMMA Extents ==
  ASSUME NEW size \in Nat \ {0}, NEW tile \in Nat \ {0}, NEW n, n = Count(size, tile),
         NEW k \in 0 .. n - 1
  PROVE  /\ k * tile \in Nat /\ Extent(size, tile, n, k) \in 1 .. tile
         /\ k * tile + Extent(size, tile, n, k) = IF k = n - 1 THEN size ELSE (k + 1) * tile
         /\ k * tile + Extent(size, tile, n, k) <= size
<1>1. n \in Nat \ {0} /\ (n - 1) * tile < size /\ size <= n * tile
  BY TilesCounted
<1>2. n * tile = (n - 1) * tile + tile /\ (k + 1) * tile = k * tile + tile
  BY <1>1
<1>3. k * tile \in Nat /\ (n - 1) * tile \in Nat
  BY <1>1, Multiples
<1>4. k < n - 1 => (k + 1) * tile <= (n - 1) * tile
  BY <1>1, Multiples
<1> QED BY <1>1, <1>2, <1>3, <1>4 DEF Extent

(* Tile k of a row covers place x. *)
Covers(size, tile, n, k, x) == x \in k * tile .. k * tile + Extent(size, tile, n, k) - 1

(* Each place is in one of them, ... *)
LEMMA OneHolds ==
  ASSUME NEW size \in Nat \ {0}, NEW tile \in Nat \ {0}, NEW n, n = Count(size, tile),
         NEW x \in 0 .. size - 1
  PROVE  /\ x \div tile \in 0 .. n - 1
         /\ \A k \in 0 .. n - 1 :
              Covers(size, tile, n, k, x) <=> k = x \div tile
<1> DEFINE q == x \div tile
<1>1. n \in Nat \ {0} /\ (n - 1) * tile < size /\ size <= n * tile
  BY TilesCounted
<1>2. q \in Nat /\ x % tile \in 0 .. tile - 1 /\ x = q * tile + (x % tile)
  <2>1. x \in Nat
    OBVIOUS
  <2> QED BY <2>1, Split
<1> HIDE DEF q
<1>3. q < n
  BY <1>1, <1>2, Multiples
<1>4. ASSUME NEW k \in 0 .. n - 1
      PROVE  Covers(size, tile, n, k, x) <=> k = q
  <2>1. /\ k * tile \in Nat /\ Extent(size, tile, n, k) \in 1 .. tile
        /\ k * tile + Extent(size, tile, n, k) = IF k = n - 1 THEN size ELSE (k + 1) * tile
    BY Extents
  <2>2. k < q => k * tile + tile <= q * tile
    BY <1>2, Multiples
  <2>3. q < k => q * tile + tile <= k * tile
    BY <1>2, Multiples
  <2>4. (k + 1) * tile = k * tile + tile
    BY <1>1
  <2> QED BY <1>2, <2>1, <2>2, <2>3, <2>4 DEF Covers
<1>5. /\ q \in 0 .. n - 1
      /\ \A k \in 0 .. n - 1 :
           Covers(size, tile, n, k, x) <=> k = q
  BY <1>1, <1>2, <1>3, <1>4
<1> QED BY <1>5, Zenon DEF q

(* ... and those that touch are next to each other. *)
LEMMA Adjacent ==
  ASSUME NEW size \in Nat \ {0}, NEW tile \in Nat \ {0}, NEW n, n = Count(size, tile),
         NEW a \in 0 .. n - 1, NEW b \in 0 .. n - 1
  PROVE  a * tile <= b * tile + Extent(size, tile, n, b) <=> a <= b + 1
<1>1. /\ b * tile \in Nat /\ Extent(size, tile, n, b) \in 1 .. tile
      /\ b * tile + Extent(size, tile, n, b) = IF b = n - 1 THEN size ELSE (b + 1) * tile
  BY Extents
<1>2. a * tile < size /\ n \in Nat
  <2>1. /\ a * tile \in Nat /\ Extent(size, tile, n, a) \in 1 .. tile
        /\ a * tile + Extent(size, tile, n, a) <= size
    BY Extents
  <2> QED BY <2>1, TilesCounted
<1>3. CASE a <= b + 1
  <2>1. a * tile <= (b + 1) * tile
    BY <1>2, <1>3, Multiples
  <2> QED BY <1>1, <1>2, <1>3, <2>1
<1>4. CASE a > b + 1
  <2>1. (b + 1) * tile + tile <= a * tile
    BY <1>2, <1>4, Multiples
  <2>2. b # n - 1
    BY <1>2, <1>4
  <2>3. a * tile \in Int /\ (b + 1) * tile \in Int
    BY <1>2
  <2> QED BY <1>1, <1>2, <1>4, <2>1, <2>2, <2>3
<1> QED BY <1>2, <1>3, <1>4

(* What the parameters of a session are. *)
GridOK(g) ==
  /\ g.tw \in Nat \ {0} /\ g.th \in Nat \ {0} /\ g.devices \in Nat \ {0}
  /\ g.background \in BOOLEAN /\ g.preserve \in BOOLEAN /\ g.overlap \in Nat

(* How many columns and rows get_neighbor_index counts. *)
Columns(g, iw) == Count(iw, g.tw)
Rows(g, ih) == Count(ih \div Slices(g, ih), g.th) * Slices(g, ih)

(* The neighbours of a tile are the tiles at most one column and one row away. *)
LEMMA NeighborsOf ==
  ASSUME NEW g, NEW iw, NEW ih, NEW columns \in Nat \ {0}, NEW rows \in Nat \ {0},
         columns = Columns(g, iw), rows = Rows(g, ih),
         NEW i \in 0 .. columns * rows - 1, NEW n
  PROVE  n \in NeighborIndices(g, iw, ih, i) <=>
           /\ n \in 0 .. columns * rows - 1
           /\ n % columns \in (i % columns) - 1 .. (i % columns) + 1
           /\ n \div columns \in (i \div columns) - 1 .. (i \div columns) + 1
<1>1. columns * rows \in Nat /\ i \in Nat
  OBVIOUS
<1>2. i \div columns \in Nat /\ i % columns \in 0 .. columns - 1
  BY <1>1, Split
<1>3. n \in NeighborIndices(g, iw, ih, i) <=>
        \E x \in ((i % columns) - 1 .. (i % columns) + 1) \cap (0 .. columns - 1),
           y \in ((i \div columns) - 1 .. (i \div columns) + 1) \cap (0 .. rows - 1) :
          n = y * columns + x
  BY DEF NeighborIndices, Columns, Rows
<1>4. ASSUME NEW x \in ((i % columns) - 1 .. (i % columns) + 1) \cap (0 .. columns - 1),
             NEW y \in ((i \div columns) - 1 .. (i \div columns) + 1) \cap (0 .. rows - 1),
             n = y * columns + x
      PROVE  n \in 0 .. columns * rows - 1 /\ n % columns = x /\ n \div columns = y
  <2>1. x \in 0 .. columns - 1 /\ y \in Nat /\ y < rows
    OBVIOUS
  <2>2. n \in Nat /\ n % columns = x /\ n \div columns = y
    BY <1>4, <2>1, Position
  <2>3. y * columns + columns <= rows * columns /\ y * columns \in Nat
    BY <2>1, Multiples
  <2>4. rows * columns = columns * rows
    OBVIOUS
  <2> QED BY <1>1, <1>4, <2>1, <2>2, <2>3, <2>4
<1>5. ASSUME n \in 0 .. columns * rows - 1
      PROVE  /\ n % columns \in 0 .. columns - 1 /\ n \div columns \in 0 .. rows - 1
             /\ n = (n \div columns) * columns + (n % columns)
  <2>1. n \in Nat /\ n < rows * columns
    BY <1>1, <1>5
  <2> DEFINE q == n \div columns
             r == n % columns
  <2>2. q \in Nat /\ r \in 0 .. columns - 1 /\ n = q * columns + r
    BY <2>1, Split
  <2> HIDE DEF q, r
  <2>3. q >= rows => rows * columns <= q * columns
    BY <2>2, Multiples
  <2>4. q < rows
    BY <2>1, <2>2, <2>3
  <2>5. r \in 0 .. columns - 1 /\ q \in 0 .. rows - 1 /\ n = q * columns + r
    BY <2>2, <2>4
  <2> QED BY <2>5, Zenon DEF q, r
<1>6. ASSUME n \in NeighborIndices(g, iw, ih, i)
      PROVE  /\ n \in 0 .. columns * rows - 1
             /\ n % columns \in (i % columns) - 1 .. (i % columns) + 1
             /\ n \div columns \in (i \div columns) - 1 .. (i \div columns) + 1
  <2>1. PICK x \in ((i % columns) - 1 .. (i % columns) + 1) \cap (0 .. columns - 1),
             y \in ((i \div columns) - 1 .. (i \div columns) + 1) \cap (0 .. rows - 1) :
               n = y * columns + x
    BY <1>3, <1>6, Zenon
  <2>2. n \in 0 .. columns * rows - 1 /\ n % columns = x /\ n \div columns = y
    BY <1>4, <2>1
  <2> QED BY <2>2
<1>7. ASSUME n \in 0 .. columns * rows - 1,
             n % columns \in (i % columns) - 1 .. (i % columns) + 1,
             n \div columns \in (i \div columns) - 1 .. (i \div columns) + 1
      PROVE  n \in NeighborIndices(g, iw, ih, i)
  BY <1>3, <1>5, <1>7, Zenon
<1> QED BY <1>6, <1>7, Zenon

(* There are tiles, and no more slices than rows of pixels. *)
LEMMA GridSize ==
  ASSUME NEW g, GridOK(g), NEW iw \in Nat \ {0}, NEW ih \in Nat \ {0}
  PROVE  /\ Columns(g, iw) \in Nat \ {0} /\ Rows(g, ih) \in Nat \ {0}
         /\ Slices(g, ih) \in 1 .. ih /\ ih \div Slices(g, ih) \in Nat \ {0}
<1> USE DEF GridOK
<1>1. Columns(g, iw) \in Nat \ {0}
  BY TilesCounted DEF Columns
<1>2. Slices(g, ih) \in 1 .. ih
  BY DEF Slices, Lists, Smaller
<1> DEFINE n == Slices(g, ih)
<1> HIDE DEF n
<1>3. ih \div n \in Nat \ {0}
  <2>1. n \in Nat \ {0} /\ n <= ih
    BY <1>2 DEF n
  <2>2. ih \div n \in Nat /\ ih % n \in 0 .. n - 1 /\ ih = (ih \div n) * n + (ih % n)
    BY <2>1, Split
  <2>3. ih \div n = 0 => (ih \div n) * n = 0
    BY <2>1
  <2> QED BY <2>1, <2>2, <2>3
<1>4. Count(ih \div n, g.th) \in Nat \ {0}
  BY <1>3, TilesCounted
<1>5. \A a, b \in Nat \ {0} : a * b \in Nat \ {0}
  OBVIOUS
<1>6. Count(ih \div n, g.th) * n \in Nat \ {0}
  BY <1>2, <1>4, <1>5 DEF n
<1> QED BY <1>1, <1>2, <1>3, <1>6 DEF n, Rows

(* What TileAssumption says of tiles and neighbours holds of every grid of *)
(* the columns and rows that get_neighbor_index counts, which are those of *)
(* the table if there are no slices, as in every final render: it stays    *)
(* within the table and is symmetric, since it checks the column as well   *)
(* as the row.                                                             *)
THEOREM NeighborsAssumed ==
  ASSUME NEW g, GridOK(g), NEW iw \in Nat \ {0}, NEW ih \in Nat \ {0},
         NEW T, T = 0 .. Columns(g, iw) * Rows(g, ih) - 1
  PROVE  /\ IsFiniteSet(T)
         /\ [t \in T |-> NeighborIndices(g, iw, ih, t)] \in [T -> SUBSET T]
         /\ \A t \in T : t \in NeighborIndices(g, iw, ih, t)
         /\ \A t, u \in T : u \in NeighborIndices(g, iw, ih, t)
                           => t \in NeighborIndices(g, iw, ih, u)
<1>1. Columns(g, iw) \in Nat \ {0} /\ Rows(g, ih) \in Nat \ {0}
  BY GridSize
<1>2. \A t \in T : \A n :
        n \in NeighborIndices(g, iw, ih, t) <=>
          /\ n \in T
          /\ n % Columns(g, iw) \in (t % Columns(g, iw)) - 1 .. (t % Columns(g, iw)) + 1
          /\ n \div Columns(g, iw)
               \in (t \div Columns(g, iw)) - 1 .. (t \div Columns(g, iw)) + 1
  <2> SUFFICES ASSUME NEW t \in T, NEW n
               PROVE  n \in NeighborIndices(g, iw, ih, t) <=>
          /\ n \in T
          /\ n % Columns(g, iw) \in (t % Columns(g, iw)) - 1 .. (t % Columns(g, iw)) + 1
          /\ n \div Columns(g, iw)
               \in (t \div Columns(g, iw)) - 1 .. (t \div Columns(g, iw)) + 1
    OBVIOUS
  <2> QED BY <1>1, NeighborsOf, Zenon
<1> DEFINE c == Columns(g, iw)
<1> HIDE DEF c
<1>3. Columns(g, iw) * Rows(g, ih) \in Nat
  BY <1>1
<1>4. \A t \in T : t % c \in Int /\ t \div c \in Int
  <2>1. c \in Nat \ {0} /\ \A t \in T : t \in Nat
    BY <1>1, <1>3 DEF c
  <2> QED BY <2>1, Split
<1>5. IsFiniteSet(T)
  BY <1>3, FS_Interval
<1>6. [t \in T |-> NeighborIndices(g, iw, ih, t)] \in [T -> SUBSET T]
  BY <1>2
<1>7. \A t \in T : t \in NeighborIndices(g, iw, ih, t)
  BY <1>2, <1>4 DEF c
<1>8. \A t, u \in T : u \in NeighborIndices(g, iw, ih, t)
                     => t \in NeighborIndices(g, iw, ih, u)
  BY <1>2, <1>4 DEF c
<1> QED BY <1>5, <1>6, <1>7, <1>8

(* The tiles of one slice, by their columns and rows. *)
LEMMA TileAt ==
  ASSUME NEW g, GridOK(g), NEW iw \in Nat \ {0}, NEW ih \in Nat \ {0}, NEW s \in Nat,
         NEW top \in Nat, NEW height \in Nat \ {0},
         Slice(g, ih, s) = [y |-> top, h |-> height],
         NEW columns, columns = Columns(g, iw), NEW rows, rows = Count(height, g.th),
         NEW k \in 1 .. columns * rows
  PROVE  /\ DOMAIN SliceTiles(g, iw, ih, s) = 1 .. columns * rows
         /\ (k - 1) % columns \in 0 .. columns - 1
         /\ (k - 1) \div columns \in 0 .. rows - 1
         /\ k - 1 = ((k - 1) \div columns) * columns + ((k - 1) % columns)
         /\ LET t == SliceTiles(g, iw, ih, s)[k] IN
            /\ t.x = ((k - 1) % columns) * g.tw
            /\ t.w = Extent(iw, g.tw, columns, (k - 1) % columns)
            /\ t.y = ((k - 1) \div columns) * g.th + top
            /\ t.h = Extent(height, g.th, rows, (k - 1) \div columns)
<1>1. columns \in Nat \ {0} /\ rows \in Nat \ {0}
  BY TilesCounted, GridSize DEF GridOK
<1>2. k - 1 \in Nat /\ k - 1 < rows * columns /\ columns * rows \in Nat
  BY <1>1
<1>3. /\ (k - 1) \div columns \in Nat /\ (k - 1) % columns \in 0 .. columns - 1
      /\ k - 1 = ((k - 1) \div columns) * columns + ((k - 1) % columns)
  BY <1>1, <1>2, Split
<1> DEFINE q == (k - 1) \div columns
           r == (k - 1) % columns
<1>4. q < rows
  <2>1. q \in Nat /\ r \in 0 .. columns - 1 /\ k - 1 = q * columns + r
    BY <1>3
  <2> HIDE DEF q, r
  <2>2. q >= rows => rows * columns <= q * columns
    BY <1>1, <2>1, Multiples
  <2> QED BY <1>1, <1>2, <2>1, <2>2
<1>5. DOMAIN SliceTiles(g, iw, ih, s) = 1 .. columns * rows
  BY DEF SliceTiles, Columns
<1> DEFINE t == SliceTiles(g, iw, ih, s)[k]
<1>6. /\ t.x = r * g.tw
      /\ t.w = IF r = columns - 1 THEN iw - r * g.tw ELSE g.tw
      /\ t.y = q * g.th + top
      /\ t.h = IF q = rows - 1 THEN height - q * g.th ELSE g.th
  BY DEF SliceTiles, LastHeight, Columns
<1> HIDE DEF t
<1>7. /\ t.w = Extent(iw, g.tw, columns, r)
      /\ t.h = Extent(height, g.th, rows, q)
  BY <1>6, Zenon DEF Extent
<1> QED BY <1>1, <1>3, <1>4, <1>5, <1>6, <1>7 DEF t

(* A final render has one slice. *)
LEMMA OneSlice ==
  ASSUME NEW g, GridOK(g), g.background, NEW ih \in Nat \ {0}
  PROVE  /\ Slice(g, ih, 0) = [y |-> 0, h |-> ih]
         /\ Rows(g, ih) = Count(ih, g.th)
<1>1. Slices(g, ih) = 1
  BY DEF Slices
<1>2. ih \div 1 = ih
  OBVIOUS
<1>3. SliceHeight(g, ih, 0) = ih
  BY <1>1, <1>2 DEF SliceHeight
<1>4. Slice(g, ih, 0) = [y |-> 0, h |-> ih]
  <2>1. (ih \div 1) * 0 = 0
    BY <1>2
  <2>2. Larger(0 - g.overlap, 0) = 0 /\ Smaller(0 + ih + g.overlap, ih) = ih
    BY DEF Larger, Smaller, GridOK
  <2>3. Slice(g, ih, 0) = [y |-> Larger(0 - g.overlap, 0),
                            h |-> Smaller(0 + ih + g.overlap, ih) - Larger(0 - g.overlap, 0)]
    BY <1>1, <1>3, <2>1, Zenon DEF Slice
  <2> QED BY <2>2, <2>3
<1>5. Count(ih, g.th) \in Nat
  BY TilesCounted DEF GridOK
<1>6. Count(ih, g.th) * 1 = Count(ih, g.th)
  BY <1>5
<1> QED BY <1>1, <1>2, <1>4, <1>6 DEF Rows

(* In a final render, whose tiles are generated slice by slice, the index  *)
(* arithmetic of get_neighbor_index finds exactly the tiles that share an  *)
(* edge or a corner with the given one, itself included.                   *)
THEOREM TouchingTiles ==
  ASSUME NEW g, GridOK(g), g.background, NEW iw \in Nat \ {0}, NEW ih \in Nat \ {0},
         NEW ts, ts = SliceTiles(g, iw, ih, 0), NEW i \in DOMAIN ts
  PROVE  NeighborIndices(g, iw, ih, i - 1)
           = {k - 1 : k \in {j \in DOMAIN ts : Touch(ts[i], ts[j])}}
<1> DEFINE columns == Columns(g, iw)
           rows == Rows(g, ih)
           X(k) == (k - 1) % columns
           Y(k) == (k - 1) \div columns
<1>1. columns \in Nat \ {0} /\ rows \in Nat \ {0}
  BY GridSize
<1>2. Slice(g, ih, 0) = [y |-> 0, h |-> ih] /\ rows = Count(ih, g.th)
  BY OneSlice
<1>3. columns * rows \in Nat
  BY <1>1
<1>4. DOMAIN ts = 1 .. columns * rows
  <2>1. DOMAIN SliceTiles(g, iw, ih, 0)
          = 1 .. Count(iw, g.tw) * Count(Slice(g, ih, 0).h, g.th)
    BY DEF SliceTiles
  <2> QED BY <1>2, <2>1 DEF Columns
<1>5. ASSUME NEW k \in DOMAIN ts
      PROVE  /\ X(k) \in 0 .. columns - 1 /\ Y(k) \in 0 .. rows - 1
             /\ ts[k].x = X(k) * g.tw /\ ts[k].w = Extent(iw, g.tw, columns, X(k))
             /\ ts[k].y = Y(k) * g.th /\ ts[k].h = Extent(ih, g.th, rows, Y(k))
  <2>1. k \in 1 .. columns * rows
    BY <1>4
  <2>2. /\ X(k) \in 0 .. columns - 1 /\ Y(k) \in 0 .. rows - 1
        /\ ts[k].x = X(k) * g.tw /\ ts[k].w = Extent(iw, g.tw, columns, X(k))
        /\ ts[k].y = Y(k) * g.th + 0 /\ ts[k].h = Extent(ih, g.th, rows, Y(k))
    <3> HIDE DEF columns, rows
    <3>1. columns = Columns(g, iw) /\ rows = Count(ih, g.th) /\ 0 \in Nat
      BY <1>2 DEF columns
    <3>2. /\ (k - 1) % columns \in 0 .. columns - 1
          /\ (k - 1) \div columns \in 0 .. rows - 1
          /\ LET t == SliceTiles(g, iw, ih, 0)[k] IN
             /\ t.x = ((k - 1) % columns) * g.tw
             /\ t.w = Extent(iw, g.tw, columns, (k - 1) % columns)
             /\ t.y = ((k - 1) \div columns) * g.th + 0
             /\ t.h = Extent(ih, g.th, rows, (k - 1) \div columns)
      BY <1>2, <2>1, <3>1, TileAt
    <3> QED BY <3>2, Zenon
  <2>3. Y(k) * g.th \in Nat
    BY <2>2, <1>1 DEF GridOK
  <2> HIDE DEF X, Y, columns, rows
  <2> QED BY <2>2, <2>3
<1>6. ASSUME NEW j \in DOMAIN ts
      PROVE  Touch(ts[i], ts[j]) <=>
               /\ X(j) \in X(i) - 1 .. X(i) + 1
               /\ Y(j) \in Y(i) - 1 .. Y(i) + 1
  <2> HIDE DEF X, Y, columns, rows
  <2>1. /\ g.tw \in Nat \ {0} /\ g.th \in Nat \ {0}
        /\ columns = Count(iw, g.tw)
    BY DEF columns, Columns, GridOK
  <2>2. /\ X(i) \in 0 .. columns - 1 /\ X(j) \in 0 .. columns - 1
        /\ Y(i) \in 0 .. rows - 1 /\ Y(j) \in 0 .. rows - 1
    BY <1>5
  <2>3. /\ ts[i].x <= ts[j].x + ts[j].w <=> X(i) <= X(j) + 1
        /\ ts[j].x <= ts[i].x + ts[i].w <=> X(j) <= X(i) + 1
    <3>1. /\ X(i) * g.tw <= X(j) * g.tw + Extent(iw, g.tw, columns, X(j)) <=> X(i) <= X(j) + 1
          /\ X(j) * g.tw <= X(i) * g.tw + Extent(iw, g.tw, columns, X(i)) <=> X(j) <= X(i) + 1
      BY <2>1, <2>2, Adjacent
    <3> QED BY <1>5, <3>1, Zenon
  <2>4. /\ ts[i].y <= ts[j].y + ts[j].h <=> Y(i) <= Y(j) + 1
        /\ ts[j].y <= ts[i].y + ts[i].h <=> Y(j) <= Y(i) + 1
    <3>1. /\ Y(i) * g.th <= Y(j) * g.th + Extent(ih, g.th, rows, Y(j)) <=> Y(i) <= Y(j) + 1
          /\ Y(j) * g.th <= Y(i) * g.th + Extent(ih, g.th, rows, Y(i)) <=> Y(j) <= Y(i) + 1
      BY <1>2, <2>1, <2>2, Adjacent
    <3> QED BY <1>5, <3>1, Zenon
  <2>5. Touch(ts[i], ts[j]) <=>
          X(i) <= X(j) + 1 /\ X(j) <= X(i) + 1 /\ Y(i) <= Y(j) + 1 /\ Y(j) <= Y(i) + 1
    BY <2>3, <2>4 DEF Touch
  <2> QED BY <1>1, <2>2, <2>5
<1>7. ASSUME NEW n
      PROVE  n \in NeighborIndices(g, iw, ih, i - 1) <=>
               /\ n \in 0 .. columns * rows - 1
               /\ n % columns \in X(i) - 1 .. X(i) + 1
               /\ n \div columns \in Y(i) - 1 .. Y(i) + 1
  <2>1. i - 1 \in 0 .. columns * rows - 1
    BY <1>3, <1>4
  <2> QED BY <1>1, <2>1, NeighborsOf, Zenon
<1>8. ASSUME NEW n
      PROVE  n \in NeighborIndices(g, iw, ih, i - 1) <=>
               n \in {k - 1 : k \in {j \in DOMAIN ts : Touch(ts[i], ts[j])}}
  <2>1. CASE n \in 0 .. columns * rows - 1
    <3>1. n + 1 \in DOMAIN ts /\ (n + 1) - 1 = n
      BY <1>3, <1>4, <2>1
    <3>2. Touch(ts[i], ts[n + 1]) <=>
            /\ n % columns \in X(i) - 1 .. X(i) + 1
            /\ n \div columns \in Y(i) - 1 .. Y(i) + 1
      BY <1>6, <3>1, Zenon
    <3>3. n \in {k - 1 : k \in {j \in DOMAIN ts : Touch(ts[i], ts[j])}}
            <=> Touch(ts[i], ts[n + 1])
      <4>1. \A k \in DOMAIN ts : k - 1 = n => k = n + 1
        BY <1>3, <1>4, <2>1
      <4> QED BY <3>1, <4>1
    <3> QED BY <1>7, <2>1, <3>2, <3>3, Zenon
  <2>2. CASE n \notin 0 .. columns * rows - 1
    <3>1. \A k \in DOMAIN ts : k - 1 \in 0 .. columns * rows - 1
      BY <1>3, <1>4
    <3> QED BY <1>7, <2>2, <3>1, Zenon
  <2> QED BY <2>1, <2>2
<1> HIDE DEF columns, rows, X, Y
<1> QED BY <1>8

(* n slices of height q, the last of which takes what is left of height. *)
LEMMA SliceEnds ==
  ASSUME NEW height \in Nat \ {0}, NEW n \in Nat \ {0}, NEW q \in Nat \ {0}, n * q <= height,
         NEW s \in 0 .. n - 1, NEW h, h = IF s = n - 1 THEN height - s * q ELSE q
  PROVE  /\ s * q \in Nat /\ q * s = s * q /\ h \in Nat \ {0}
         /\ s * q + h = IF s = n - 1 THEN height ELSE s * q + q
         /\ s * q + h <= height
<1>1. s * q \in Nat /\ s * q + q <= n * q /\ q * s = s * q /\ n * q \in Nat
  BY Multiples
<1>2. CASE s = n - 1
  BY <1>1, <1>2
<1>3. CASE s # n - 1
  BY <1>1, <1>3
<1> QED BY <1>2, <1>3, <1>1

(* Slices of equal height fit into the image. *)
LEMMA SlicesFit ==
  ASSUME NEW height \in Nat, NEW n \in Nat \ {0}
  PROVE  n * (height \div n) <= height
<1> DEFINE q == height \div n
           r == height % n
<1>1. q \in Nat /\ r \in 0 .. n - 1 /\ height = q * n + r
  BY Split
<1> HIDE DEF q, r
<1>2. q * n \in Nat /\ q * n = n * q
  BY <1>1
<1>3. n * q <= height
  BY <1>1, <1>2
<1> QED BY <1>3 DEF q

(* Without an overlap the slices take up the image, the last what is left. *)
LEMMA SliceAt ==
  ASSUME NEW g, GridOK(g), g.overlap = 0, NEW ih \in Nat \ {0}, NEW s \in 0 .. Slices(g, ih) - 1
  PROVE  LET n == Slices(g, ih)
             q == ih \div n
         IN  \E h \in Nat \ {0} :
               /\ Slice(g, ih, s) = [y |-> s * q, h |-> h]
               /\ s * q \in Nat
               /\ s * q + h = IF s = n - 1 THEN ih ELSE s * q + q
<1> DEFINE n == Slices(g, ih)
           q == ih \div n
           h == SliceHeight(g, ih, s)
<1>1. n \in 1 .. ih /\ q \in Nat \ {0}
  BY GridSize
<1>2. n * q <= ih
  BY <1>1, SlicesFit
<1>3. h = IF s = n - 1 THEN ih - s * q ELSE q
  BY Zenon DEF SliceHeight
<1>4. Slice(g, ih, s) = [y |-> Larger(q * s - 0, 0),
                          h |-> Smaller(q * s + h + 0, ih) - Larger(q * s - 0, 0)]
  BY Zenon DEF Slice
<1>5. s \in 0 .. n - 1
  OBVIOUS
<1> HIDE DEF n, q, h
<1>6. /\ s * q \in Nat /\ q * s = s * q /\ h \in Nat \ {0}
      /\ s * q + h = IF s = n - 1 THEN ih ELSE s * q + q
      /\ s * q + h <= ih
  BY <1>1, <1>2, <1>3, <1>5, SliceEnds
<1>7. Larger(q * s - 0, 0) = s * q /\ Smaller(q * s + h + 0, ih) = s * q + h
  BY <1>6 DEF Larger, Smaller
<1>8. s * q + h - s * q = h
  BY <1>6
<1>9. Slice(g, ih, s) = [y |-> s * q, h |-> h]
  <2>1. Slice(g, ih, s) = [y |-> s * q, h |-> (s * q + h) - s * q]
    BY <1>4, <1>7
  <2> QED BY <1>6, <2>1
<1> QED BY <1>6, <1>9, Zenon DEF n, q

(* Each row of pixels is in one slice. *)
LEMMA OneSliceHolds ==
  ASSUME NEW g, GridOK(g), g.overlap = 0, NEW ih \in Nat \ {0}, NEW y \in 0 .. ih - 1
  PROVE  \E s \in 0 .. Slices(g, ih) - 1 : \A u \in 0 .. Slices(g, ih) - 1 :
           y \in Slice(g, ih, u).y .. Slice(g, ih, u).y + Slice(g, ih, u).h - 1 <=> u = s
<1> DEFINE n == Slices(g, ih)
           q == ih \div n
           p == y \div q
<1>1. n \in Nat \ {0} /\ q \in Nat \ {0}
  BY GridSize
<1>2. ASSUME NEW u \in 0 .. n - 1
      PROVE  \E h \in Nat \ {0} : /\ Slice(g, ih, u) = [y |-> u * q, h |-> h]
                                  /\ u * q \in Nat
                                  /\ u * q + h = IF u = n - 1 THEN ih ELSE u * q + q
  BY SliceAt
<1> HIDE DEF q, n
<1>3. p \in Nat /\ y % q \in 0 .. q - 1 /\ y = p * q + (y % q)
  <2>1. y \in Nat
    OBVIOUS
  <2> QED BY <1>1, <2>1, Split
<1> HIDE DEF p
<1> DEFINE s == IF p < n THEN p ELSE n - 1
<1>4. s \in 0 .. n - 1 /\ s <= p /\ (s = p \/ s = n - 1)
  BY <1>1, <1>3
<1> HIDE DEF s
<1>5. ASSUME NEW u \in 0 .. n - 1
      PROVE  y \in Slice(g, ih, u).y .. Slice(g, ih, u).y + Slice(g, ih, u).h - 1 <=> u = s
  <2>1. PICK h \in Nat \ {0} : /\ Slice(g, ih, u) = [y |-> u * q, h |-> h]
                               /\ u * q \in Nat
                               /\ u * q + h = IF u = n - 1 THEN ih ELSE u * q + q
    BY <1>2
  <2>2. u < p => u * q + q <= p * q
    BY <1>1, <1>3, Multiples
  <2>3. p < u => p * q + q <= u * q
    BY <1>1, <1>3, Multiples
  <2>4. p * q \in Nat
    BY <1>1, <1>3
  <2>5. y \in u * q .. u * q + h - 1 <=> u = s
    <3>1. CASE u = p
      BY <1>1, <1>3, <1>4, <2>1, <2>4, <3>1
    <3>2. CASE u < p
      BY <1>1, <1>3, <1>4, <2>1, <2>2, <2>4, <3>2
    <3>3. CASE p < u
      BY <1>1, <1>3, <1>4, <2>1, <2>3, <2>4, <3>3
    <3> QED BY <1>3, <3>1, <3>2, <3>3
  <2> QED BY <2>1, <2>5
<1> QED BY <1>4, <1>5, Zenon DEF n

(* Each column of pixels is in one column of tiles. *)
LEMMA ColumnHolds ==
  ASSUME NEW g, GridOK(g), NEW iw \in Nat \ {0}, NEW x \in 0 .. iw - 1
  PROVE  /\ x \div g.tw \in 0 .. Columns(g, iw) - 1
         /\ \A a \in 0 .. Columns(g, iw) - 1 :
              Covers(iw, g.tw, Columns(g, iw), a, x) <=> a = x \div g.tw
<1>1. g.tw \in Nat \ {0} /\ Columns(g, iw) = Count(iw, g.tw)
  BY DEF GridOK, Columns
<1> QED BY <1>1, OneHolds

(* The tile of a slice that covers a pixel, by its place in the list ... *)
TileOf(g, iw, top, x, y) == ((y - top) \div g.th) * Columns(g, iw) + (x \div g.tw) + 1

(* ... is in the list, and no other tile of the slice covers the pixel. *)
LEMMA TileHolds ==
  ASSUME NEW g, GridOK(g), NEW iw \in Nat \ {0}, NEW ih \in Nat \ {0}, NEW s \in Nat,
         NEW top \in Nat, NEW height \in Nat \ {0},
         Slice(g, ih, s) = [y |-> top, h |-> height],
         NEW x \in 0 .. iw - 1, NEW y \in Int
  PROVE  /\ \A k \in DOMAIN SliceTiles(g, iw, ih, s) :
              Holds(SliceTiles(g, iw, ih, s)[k], x, y) <=>
                /\ y \in top .. top + height - 1
                /\ k = TileOf(g, iw, top, x, y)
         /\ y \in top .. top + height - 1 => TileOf(g, iw, top, x, y) \in DOMAIN SliceTiles(g, iw, ih, s)
<1> DEFINE columns == Columns(g, iw)
           rows == Count(height, g.th)
           p == x \div g.tw
           q == (y - top) \div g.th
<1>1. columns \in Nat \ {0} /\ rows \in Nat \ {0} /\ g.tw \in Nat \ {0} /\ g.th \in Nat \ {0}
  BY TilesCounted, GridSize DEF GridOK
<1>2. DOMAIN SliceTiles(g, iw, ih, s) = 1 .. columns * rows
  BY DEF SliceTiles, Columns
<1>3. columns = Columns(g, iw) /\ rows = Count(height, g.th)
  OBVIOUS
<1>4. TileOf(g, iw, top, x, y) = q * columns + p + 1
  BY Zenon DEF TileOf
<1> HIDE DEF columns, rows
<1>5. /\ p \in 0 .. columns - 1
      /\ \A a \in 0 .. columns - 1 :
           Covers(iw, g.tw, columns, a, x) <=> a = p
  BY <1>3, ColumnHolds, Zenon
<1>6. ASSUME y \in top .. top + height - 1
      PROVE  /\ q \in 0 .. rows - 1
             /\ \A b \in 0 .. rows - 1 :
                  Covers(height, g.th, rows, b, y - top) <=> b = q
  <2>1. y - top \in 0 .. height - 1
    BY <1>6
  <2>2. ASSUME NEW z \in 0 .. height - 1
        PROVE  /\ z \div g.th \in 0 .. rows - 1
               /\ \A b \in 0 .. rows - 1 :
                    Covers(height, g.th, rows, b, z) <=> b = z \div g.th
    BY <1>1, <1>3, OneHolds
  <2> QED BY <2>1, <2>2, Zenon
<1> HIDE DEF p, q
<1>7. ASSUME NEW k \in 1 .. columns * rows
      PROVE  Holds(SliceTiles(g, iw, ih, s)[k], x, y) <=>
               y \in top .. top + height - 1 /\ k = q * columns + p + 1
  <2> DEFINE t == SliceTiles(g, iw, ih, s)[k]
             a == (k - 1) % columns
             b == (k - 1) \div columns
  <2>1. /\ a \in 0 .. columns - 1 /\ b \in 0 .. rows - 1 /\ k - 1 = b * columns + a
        /\ t.x = a * g.tw /\ t.w = Extent(iw, g.tw, columns, a)
        /\ t.y = b * g.th + top /\ t.h = Extent(height, g.th, rows, b)
    BY <1>3, TileAt
  <2> HIDE DEF t, a, b
  <2>2. x \in t.x .. t.x + t.w - 1 <=> a = p
    BY <1>5, <2>1 DEF Covers
  <2>3. /\ b * g.th \in Nat /\ t.h \in 1 .. g.th /\ b * g.th + t.h <= height
    <3>1. /\ b * g.th \in Nat /\ Extent(height, g.th, rows, b) \in 1 .. g.th
          /\ b * g.th + Extent(height, g.th, rows, b) <= height
      BY <1>1, <1>3, <2>1, Extents
    <3> QED BY <2>1, <3>1
  <2>4. y \in t.y .. t.y + t.h - 1 <=> y \in top .. top + height - 1 /\ b = q
    <3>1. CASE y \in top .. top + height - 1
      <4>1. y - top \in b * g.th .. b * g.th + t.h - 1 <=> b = q
        BY <1>6, <2>1, <3>1 DEF Covers
      <4> QED BY <2>1, <2>3, <3>1, <4>1
    <3>2. CASE y \notin top .. top + height - 1
      BY <2>1, <2>3, <3>2
    <3> QED BY <3>1, <3>2
  <2>5. Holds(t, x, y) <=> a = p /\ y \in top .. top + height - 1 /\ b = q
    BY <2>2, <2>4, Zenon DEF Holds
  <2>6. y \in top .. top + height - 1 => (a = p /\ b = q <=> k = q * columns + p + 1)
    <3> SUFFICES ASSUME y \in top .. top + height - 1
                 PROVE  a = p /\ b = q <=> k = q * columns + p + 1
      OBVIOUS
    <3>1. q \in Nat /\ k \in Int
      BY <1>1, <1>6
    <3>2. ASSUME k = q * columns + p + 1
          PROVE  a = p /\ b = q
      <4>1. k - 1 = q * columns + p
        BY <1>1, <1>5, <3>1, <3>2
      <4>2. (q * columns + p) \div columns = q /\ (q * columns + p) % columns = p
        BY <1>1, <1>5, <3>1, Position
      <4> QED BY <4>1, <4>2, Zenon DEF a, b
    <3>3. ASSUME a = p, b = q
          PROVE  k = q * columns + p + 1
      <4>1. q * columns \in Nat
        BY <1>1, <3>1
      <4> QED BY <1>5, <2>1, <3>1, <3>3, <4>1
    <3> QED BY <3>2, <3>3
  <2>7. Holds(t, x, y) <=> y \in top .. top + height - 1 /\ k = q * columns + p + 1
    BY <2>5, <2>6
  <2> QED BY <2>7, Zenon DEF t
<1>8. ASSUME y \in top .. top + height - 1
      PROVE  q * columns + p + 1 \in 1 .. columns * rows
  <2>1. q \in 0 .. rows - 1
    BY <1>6, <1>8
  <2>2. q * columns \in Nat /\ q * columns + columns <= rows * columns
    BY <1>1, <2>1, Multiples
  <2>3. rows * columns = columns * rows
    BY <1>1
  <2> QED BY <1>1, <1>5, <2>2, <2>3
<1> QED BY <1>2, <1>7, <1>8, <1>4, Zenon

(* Tile k of slice s is the only tile that holds the pixel. *)
OnlyTile(g, iw, ih, s, k, x, y) ==
  \A u \in 0 .. Slices(g, ih) - 1 : \A j \in DOMAIN SliceTiles(g, iw, ih, u) :
    Holds(SliceTiles(g, iw, ih, u)[j], x, y) <=> u = s /\ j = k

(* gen_tiles covers the image: for every size of image and tiles, and any  *)
(* number of devices, each pixel is in exactly one tile of one slice.      *)
THEOREM OneTilePerPixel ==
  ASSUME NEW g, GridOK(g), g.overlap = 0, NEW iw \in Nat \ {0}, NEW ih \in Nat \ {0},
         NEW x \in 0 .. iw - 1, NEW y \in 0 .. ih - 1
  PROVE  \E s \in 0 .. Slices(g, ih) - 1 : \E k \in DOMAIN SliceTiles(g, iw, ih, s) :
           OnlyTile(g, iw, ih, s, k, x, y)
<1> DEFINE n == Slices(g, ih)
           H(u, j) == Holds(SliceTiles(g, iw, ih, u)[j], x, y)
<1>1. PICK s \in 0 .. n - 1 : \A u \in 0 .. n - 1 :
        y \in Slice(g, ih, u).y .. Slice(g, ih, u).y + Slice(g, ih, u).h - 1 <=> u = s
  BY OneSliceHolds
<1>2. n \in Nat \ {0} /\ y \in Int
  BY GridSize
<1>3. ASSUME NEW u \in 0 .. n - 1
      PROVE  \E m : /\ u = s => m \in DOMAIN SliceTiles(g, iw, ih, u)
                    /\ \A j \in DOMAIN SliceTiles(g, iw, ih, u) : H(u, j) <=> u = s /\ j = m
  <2>1. PICK top \in Nat, h \in Nat \ {0} : Slice(g, ih, u) = [y |-> top, h |-> h]
    BY SliceAt
  <2> DEFINE m == TileOf(g, iw, top, x, y)
  <2>2. /\ \A k \in DOMAIN SliceTiles(g, iw, ih, u) :
             H(u, k) <=> y \in top .. top + h - 1 /\ k = m
        /\ y \in top .. top + h - 1 => m \in DOMAIN SliceTiles(g, iw, ih, u)
    <3>1. u \in Nat
      BY <1>2
    <3> QED BY <1>2, <2>1, <3>1, TileHolds
  <2>3. y \in top .. top + h - 1 <=> u = s
    BY <1>1, <2>1
  <2> HIDE DEF m, H, n
  <2> WITNESS m
  <2> QED BY <2>2, <2>3
<1> HIDE DEF H
<1>4. PICK k : /\ k \in DOMAIN SliceTiles(g, iw, ih, s)
               /\ \A j \in DOMAIN SliceTiles(g, iw, ih, s) : H(s, j) <=> j = k
  BY <1>3
<1>5. \A u \in 0 .. n - 1 : \A j \in DOMAIN SliceTiles(g, iw, ih, u) :
        H(u, j) <=> u = s /\ j = k
  BY <1>3, <1>4, Zenon
<1>6. OnlyTile(g, iw, ih, s, k, x, y)
  BY <1>5, Zenon DEF H, OnlyTile
<1> QED BY <1>4, <1>6, Zenon

-----------------------------------------------------------------------------
(* All slices                                                              *)

(* A slice, with its overlap, lies in the image and has at least the part  *)
(* of it that it would have without.                                       *)
LEMMA SliceSpan ==
  ASSUME NEW g, GridOK(g), NEW ih \in Nat \ {0}, NEW s \in 0 .. Slices(g, ih) - 1
  PROVE  LET n == Slices(g, ih)
             q == ih \div n
         IN  \E top \in Nat, h \in Nat \ {0} :
               /\ Slice(g, ih, s) = [y |-> top, h |-> h]
               /\ s * q \in Nat /\ top <= s * q /\ top + h <= ih /\ q <= h
               /\ (IF s = n - 1 THEN ih ELSE s * q + q) <= top + h
<1> DEFINE n == Slices(g, ih)
           q == ih \div n
           h == SliceHeight(g, ih, s)
           top == Larger(q * s - g.overlap, 0)
           bottom == Smaller(q * s + h + g.overlap, ih)
<1>1. n \in 1 .. ih /\ q \in Nat \ {0}
  BY GridSize
<1>2. n * q <= ih
  BY <1>1, SlicesFit
<1>3. h = IF s = n - 1 THEN ih - s * q ELSE q
  BY Zenon DEF SliceHeight
<1>4. Slice(g, ih, s) = [y |-> top, h |-> bottom - top]
  BY Zenon DEF Slice
<1>5. s \in 0 .. n - 1 /\ g.overlap \in Nat
  BY DEF GridOK
<1> HIDE DEF n, q, h
<1>6. /\ s * q \in Nat /\ q * s = s * q /\ h \in Nat \ {0}
      /\ s * q + h = IF s = n - 1 THEN ih ELSE s * q + q
      /\ s * q + h <= ih
  BY <1>1, <1>2, <1>3, <1>5, SliceEnds
<1>7. q <= h
  <2>1. s * q + q <= n * q
    BY <1>1, <1>5, Multiples
  <2>2. n * q \in Nat
    BY <1>1
  <2> QED BY <1>1, <1>2, <1>3, <1>5, <1>6, <2>1, <2>2
<1>8. /\ top \in Nat /\ top <= s * q /\ bottom \in Nat /\ bottom <= ih
      /\ s * q + h <= bottom
  BY <1>1, <1>5, <1>6 DEF Larger, Smaller
<1> HIDE DEF top, bottom
<1>9. bottom - top \in Nat \ {0} /\ top + (bottom - top) = bottom /\ q <= bottom - top
  BY <1>1, <1>6, <1>7, <1>8
<1> DEFINE height == bottom - top
<1>10. /\ top \in Nat /\ height \in Nat \ {0} /\ Slice(g, ih, s) = [y |-> top, h |-> height]
       /\ s * q \in Nat /\ top <= s * q /\ top + height <= ih /\ q <= height
       /\ (IF s = n - 1 THEN ih ELSE s * q + q) <= top + height
  BY <1>4, <1>6, <1>8, <1>9
<1> HIDE DEF height
<1> QED BY <1>10, Zenon DEF n, q

(* Each row of pixels is in some slice. *)
LEMMA SomeSliceHolds ==
  ASSUME NEW g, GridOK(g), NEW ih \in Nat \ {0}, NEW y \in 0 .. ih - 1
  PROVE  \E s \in 0 .. Slices(g, ih) - 1 :
           y \in Slice(g, ih, s).y .. Slice(g, ih, s).y + Slice(g, ih, s).h - 1
<1> DEFINE n == Slices(g, ih)
           q == ih \div n
           p == y \div q
           s == IF p < n THEN p ELSE n - 1
<1>1. n \in Nat \ {0} /\ q \in Nat \ {0}
  BY GridSize
<1>2. ASSUME NEW u \in 0 .. n - 1
      PROVE  \E top \in Nat, h \in Nat \ {0} :
               /\ Slice(g, ih, u) = [y |-> top, h |-> h]
               /\ u * q \in Nat /\ top <= u * q
               /\ (IF u = n - 1 THEN ih ELSE u * q + q) <= top + h
  BY SliceSpan
<1> HIDE DEF q, n
<1>3. p \in Nat /\ y % q \in 0 .. q - 1 /\ y = p * q + (y % q)
  <2>1. y \in Nat
    OBVIOUS
  <2> QED BY <1>1, <2>1, Split
<1> HIDE DEF p
<1>4. s \in 0 .. n - 1 /\ s <= p /\ (s = p \/ s = n - 1)
  BY <1>1, <1>3
<1> HIDE DEF s
<1>5. PICK top \in Nat, h \in Nat \ {0} :
               /\ Slice(g, ih, s) = [y |-> top, h |-> h]
               /\ s * q \in Nat /\ top <= s * q
               /\ (IF s = n - 1 THEN ih ELSE s * q + q) <= top + h
  BY <1>2, <1>4
<1>6. s * q <= p * q /\ p * q \in Nat
  BY <1>1, <1>3, <1>4, Multiples
<1>7. top <= y
  BY <1>1, <1>3, <1>5, <1>6
<1>8. y < top + h
  BY <1>1, <1>3, <1>4, <1>5, <1>6
<1>9. y \in top .. top + h - 1
  BY <1>5, <1>7, <1>8
<1> QED BY <1>4, <1>5, <1>9 DEF n

(* The tiles of a slice lie in the image. *)
LEMMA SliceInside ==
  ASSUME NEW g, GridOK(g), NEW iw \in Nat \ {0}, NEW ih \in Nat \ {0},
         NEW s \in 0 .. Slices(g, ih) - 1, NEW k \in DOMAIN SliceTiles(g, iw, ih, s)
  PROVE  LET t == SliceTiles(g, iw, ih, s)[k] IN
         /\ {t.x, t.y} \subseteq Nat /\ {t.w, t.h} \subseteq Nat \ {0}
         /\ t.x + t.w <= iw /\ t.y + t.h <= ih
<1>1. PICK top \in Nat, height \in Nat \ {0} :
        Slice(g, ih, s) = [y |-> top, h |-> height] /\ top + height <= ih
  BY SliceSpan
<1> DEFINE columns == Columns(g, iw)
           rows == Count(height, g.th)
           t == SliceTiles(g, iw, ih, s)[k]
           a == (k - 1) % columns
           b == (k - 1) \div columns
<1>2. s \in Nat /\ g.tw \in Nat \ {0} /\ g.th \in Nat \ {0}
  BY GridSize DEF GridOK
<1>3. columns \in Nat \ {0} /\ rows \in Nat \ {0}
  BY <1>2, GridSize, TilesCounted
<1>4. DOMAIN SliceTiles(g, iw, ih, s) = 1 .. columns * rows
  BY <1>1 DEF SliceTiles, Columns
<1>5. /\ a \in 0 .. columns - 1 /\ b \in 0 .. rows - 1
      /\ t.x = a * g.tw /\ t.w = Extent(iw, g.tw, columns, a)
      /\ t.y = b * g.th + top /\ t.h = Extent(height, g.th, rows, b)
  <2>1. columns = Columns(g, iw) /\ rows = Count(height, g.th) /\ k \in 1 .. columns * rows
    BY <1>4
  <2> HIDE DEF columns, rows
  <2> QED BY <1>1, <1>2, <2>1, TileAt
<1> HIDE DEF t, a, b
<1>6. columns = Count(iw, g.tw)
  BY DEF Columns
<1>7. /\ a * g.tw \in Nat /\ Extent(iw, g.tw, columns, a) \in 1 .. g.tw
      /\ a * g.tw + Extent(iw, g.tw, columns, a) <= iw
  BY <1>2, <1>5, <1>6, Extents
<1>8. /\ b * g.th \in Nat /\ Extent(height, g.th, rows, b) \in 1 .. g.th
      /\ b * g.th + Extent(height, g.th, rows, b) <= height
  BY <1>2, <1>5, Extents
<1> HIDE DEF columns, rows
<1>9. /\ t.x \in Nat /\ t.w \in Nat \ {0} /\ t.x + t.w <= iw
  BY <1>2, <1>5, <1>7
<1>10. /\ t.y \in Nat /\ t.h \in Nat \ {0} /\ t.y + t.h <= ih
  BY <1>1, <1>2, <1>5, <1>8
<1> QED BY <1>9, <1>10, Zenon DEF t

(* No tile goes to a device that is not there. *)
LEMMA DeviceBelow ==
  ASSUME NEW m \in Nat, NEW L \in Nat \ {0}, NEW k \in 1 .. m
  PROVE  (k - 1) \div PerDevice(m, L) < L
<1> DEFINE p == PerDevice(m, L)
<1>1. p = (m + L - 1) \div L
  BY DEF PerDevice, DivideUp
<1> HIDE DEF p
<1>2. p \in Nat /\ m <= p * L
  <2> DEFINE e == m + L - 1
  <2>1. e \in Nat
    OBVIOUS
  <2> HIDE DEF e
  <2>2. e \div L \in Nat /\ e % L \in 0 .. L - 1 /\ e = (e \div L) * L + (e % L)
    BY <2>1, Split
  <2>3. p = e \div L
    BY <1>1 DEF e
  <2>4. p \in Nat /\ p * L \in Nat /\ e = p * L + (e % L)
    BY <2>2, <2>3
  <2> QED BY <2>2, <2>4 DEF e
<1>3. p # 0
  BY <1>2
<1> DEFINE d == (k - 1) \div p
           r == (k - 1) % p
<1>4. d \in Nat /\ r \in 0 .. p - 1 /\ k - 1 = d * p + r
  <2>1. k - 1 \in Nat
    OBVIOUS
  <2> QED BY <1>2, <1>3, <2>1, Split
<1> HIDE DEF d, r
<1>5. L <= d => L * p <= d * p
  BY <1>2, <1>4, Multiples
<1>6. L * p = p * L /\ L * p \in Nat /\ d * p \in Nat
  BY <1>2, <1>4
<1>7. d < L
  BY <1>2, <1>4, <1>5, <1>6
<1> QED BY <1>7 DEF d, p

(* The device of a tile of slice s. *)
LEMMA SliceDevice ==
  ASSUME NEW g, GridOK(g), NEW iw \in Nat \ {0}, NEW ih \in Nat \ {0},
         NEW s \in 0 .. Slices(g, ih) - 1, NEW k \in DOMAIN SliceTiles(g, iw, ih, s)
  PROVE  /\ SliceTiles(g, iw, ih, s)[k].device < Lists(g, ih)
         /\ ~g.background => SliceTiles(g, iw, ih, s)[k].device = s
<1>1. g.background \in BOOLEAN /\ Lists(g, ih) \in Nat \ {0}
  BY DEF GridOK, Lists, Smaller
<1>2. CASE ~g.background
  <2>1. SliceTiles(g, iw, ih, s)[k].device = s
    BY <1>2 DEF SliceTiles
  <2>2. Slices(g, ih) = Lists(g, ih)
    BY <1>2 DEF Slices
  <2> QED BY <1>1, <2>1, <2>2
<1>3. CASE g.background
  <2> DEFINE columns == Count(iw, g.tw)
             rows == Count(Slice(g, ih, s).h, g.th)
             m == columns * rows
  <2>1. PICK top \in Nat, height \in Nat \ {0} :
          Slice(g, ih, s) = [y |-> top, h |-> height]
    BY SliceSpan
  <2>2. columns \in Nat \ {0} /\ rows \in Nat \ {0}
    BY <2>1, TilesCounted DEF GridOK
  <2>3. m \in Nat
    BY <2>2
  <2>4. k \in 1 .. m /\ SliceTiles(g, iw, ih, s)[k].device = (k - 1) \div PerDevice(m, Lists(g, ih))
    BY <1>3 DEF SliceTiles
  <2> HIDE DEF m
  <2>5. (k - 1) \div PerDevice(m, Lists(g, ih)) < Lists(g, ih)
    BY <1>1, <2>3, <2>4, DeviceBelow
  <2> QED BY <1>3, <2>4, <2>5
<1> QED BY <1>1, <1>2, <1>3

(* What is covered from place a on when, at each place, an extent times    *)
(* width is added: all that the extents take up.                           *)
AddsExtents(P, size, tile, n, width) ==
  /\ P[0] \in Int
  /\ \A x \in 0 .. n - 1 : P[x + 1] = P[x] + Extent(size, tile, n, x) * width

(* A row of tiles adds up to its size times their height. *)
LEMMA ExtentsAdded ==
  ASSUME NEW size \in Nat \ {0}, NEW tile \in Nat \ {0}, NEW n, n = Count(size, tile),
         NEW width \in Nat, NEW P, AddsExtents(P, size, tile, n, width)
  PROVE  P[n] = P[0] + size * width
<1> USE DEF AddsExtents
<1> DEFINE Upto(x) == IF x = n THEN size ELSE x * tile
           T == {x \in 0 .. n : P[x] = P[0] + Upto(x) * width}
<1>1. n \in Nat \ {0}
  BY TilesCounted
<1>2. 0 \in T
  <2>1. Upto(0) = 0 /\ 0 * width = 0
    BY <1>1
  <2> QED BY <1>1, <2>1
<1>3. ASSUME NEW x \in 0 .. n - 1, x \in T PROVE x + 1 \in T
  <2>1. x \in Nat /\ x # n /\ x + 1 \in 0 .. n
    BY <1>1
  <2>2. /\ x * tile \in Nat /\ Extent(size, tile, n, x) \in Nat
        /\ x * tile + Extent(size, tile, n, x) = IF x = n - 1 THEN size ELSE (x + 1) * tile
    BY Extents
  <2> DEFINE e == Extent(size, tile, n, x)
             u == x * tile
  <2>3. Upto(x) = u /\ Upto(x + 1) = u + e
    BY <1>1, <2>1, <2>2
  <2>4. P[x] = P[0] + u * width /\ P[x + 1] = P[x] + e * width
    BY <1>3, <2>3
  <2> HIDE DEF Upto
  <2>5. e \in Nat /\ u \in Nat
    BY <2>2
  <2> HIDE DEF e, u
  <2>6. u * width + e * width = (u + e) * width /\ u * width \in Nat /\ e * width \in Nat
    BY <2>5
  <2>7. P[x + 1] = P[0] + (u + e) * width
    BY <2>4, <2>6
  <2> QED BY <2>1, <2>3, <2>7
<1> HIDE DEF T
<1>4. \A x \in 0 .. n : x \in T
  <2>1. 0 <= n => 0 \in T
    BY <1>2
  <2>2. n \in Nat
    BY <1>1
  <2> QED BY <1>3, <2>1, <2>2, InductionUpTo
<1>5. n \in T
  BY <1>1, <1>4
<1> QED BY <1>5 DEF T

(* The same of rows of columns. *)
AddsRows(P, a, iw, tw, c, height, th, r) ==
  /\ P[a] \in Int
  /\ \A b \in 0 .. r - 1, x \in 0 .. c - 1 :
       P[(a + b * c) + (x + 1)] =
         P[(a + b * c) + x] + Extent(iw, tw, c, x) * Extent(height, th, r, b)

(* Rows of rows of tiles add up to the pixels of the slice. *)
LEMMA RowsAdded ==
  ASSUME NEW iw \in Nat \ {0}, NEW tw \in Nat \ {0},
         NEW height \in Nat \ {0}, NEW th \in Nat \ {0},
         NEW a \in Nat, NEW P, AddsRows(P, a, iw, tw, Count(iw, tw), height, th, Count(height, th))
  PROVE  P[a + Count(height, th) * Count(iw, tw)] = P[a] + iw * height
<1> USE DEF AddsRows
<1> DEFINE c == Count(iw, tw)
           r == Count(height, th)
<1>0. /\ c = Count(iw, tw) /\ r = Count(height, th)
      /\ AddsRows(P, a, iw, tw, c, height, th, r)
  OBVIOUS
<1> HIDE DEF c, r
<1> USE <1>0
<1> DEFINE R == [b \in 0 .. r |-> P[a + b * c]]
<1>1. c \in Nat \ {0} /\ r \in Nat \ {0}
  BY TilesCounted
<1>2. R[0] = P[a] /\ R[r] = P[a + r * c]
  <2>1. a + 0 * c = a /\ 0 \in 0 .. r /\ r \in 0 .. r
    BY <1>1
  <2> QED BY <2>1
<1>3. ASSUME NEW b \in 0 .. r - 1, R[b] \in Int
      PROVE  R[b + 1] = R[b] + Extent(height, th, r, b) * iw
  <2> DEFINE o == a + b * c
             H == Extent(height, th, r, b)
             Q == [x \in 0 .. c |-> P[o + x]]
  <2>1. b \in Nat /\ b \in 0 .. r /\ b + 1 \in 0 .. r /\ a + (b + 1) * c = o + c /\ o \in Nat
    BY <1>1
  <2>2. Q[0] = R[b] /\ Q[c] = R[b + 1]
    <3>1. o + 0 = o /\ 0 \in 0 .. c /\ c \in 0 .. c
      BY <1>1, <2>1
    <3> QED BY <2>1, <3>1
  <2>3. H \in Nat
    BY Extents
  <2>4. \A x \in 0 .. c - 1 : Q[x + 1] = Q[x] + Extent(iw, tw, c, x) * H
    <3>1. \A x \in 0 .. c - 1 : x \in 0 .. c /\ x + 1 \in 0 .. c
      BY <1>1
    <3> QED BY <3>1
  <2> HIDE DEF Q, R, H
  <2>5. Q[c] = Q[0] + iw * H
    <3>1. Q[0] \in Int
      BY <1>3, <2>2
    <3>2. iw \in Nat \ {0} /\ tw \in Nat \ {0} /\ c = Count(iw, tw)
      OBVIOUS
    <3>3. AddsExtents(Q, iw, tw, c, H)
      BY <2>4, <3>1 DEF AddsExtents
    <3> QED BY <2>3, <3>2, <3>3, ExtentsAdded
  <2>6. iw * H = H * iw
    BY <2>3
  <2> QED BY <2>2, <2>5, <2>6 DEF H
<1> HIDE DEF R
<1>4. \A b \in 0 .. r - 1 : R[b] \in Int
  <2> DEFINE T == {b \in 0 .. r - 1 : R[b] \in Int}
  <2>1. 0 \in T /\ r - 1 \in Nat
    BY <1>1, <1>2
  <2>2. ASSUME NEW b \in 0 .. (r - 1) - 1, b \in T PROVE b + 1 \in T
    <3>1. b \in 0 .. r - 1 /\ b + 1 \in 0 .. r - 1 /\ R[b] \in Int
      BY <1>1, <2>2
    <3>2. Extent(height, th, r, b) * iw \in Int
      <4>1. Extent(height, th, r, b) \in Nat
        BY <3>1, Extents
      <4> QED BY <4>1
    <3>3. R[b + 1] = R[b] + Extent(height, th, r, b) * iw
      BY <1>3, <3>1
    <3> QED BY <3>1, <3>2, <3>3
  <2> HIDE DEF T
  <2>3. \A b \in 0 .. r - 1 : b \in T
    BY <2>1, <2>2, InductionUpTo
  <2> QED BY <2>3 DEF T
<1>5. R[r] = R[0] + height * iw
  <2>1. \A b \in 0 .. r - 1 : R[b + 1] = R[b] + Extent(height, th, r, b) * iw
    BY <1>3, <1>4
  <2>2. R[0] \in Int
    BY <1>2
  <2>3. height \in Nat \ {0} /\ th \in Nat \ {0} /\ r = Count(height, th) /\ iw \in Nat
    OBVIOUS
  <2>4. AddsExtents(R, height, th, r, iw)
    BY <2>1, <2>2 DEF AddsExtents
  <2> QED BY <2>3, <2>4, ExtentsAdded
<1> QED BY <1>2, <1>5 DEF c, r

(* The size of the tile in column x and row b. *)
LEMMA TileExtents ==
  ASSUME NEW g, GridOK(g), NEW iw \in Nat \ {0}, NEW ih \in Nat \ {0}, NEW s \in Nat,
         NEW top \in Nat, NEW height \in Nat \ {0},
         Slice(g, ih, s) = [y |-> top, h |-> height],
         NEW b \in 0 .. Count(height, g.th) - 1, NEW x \in 0 .. Columns(g, iw) - 1
  PROVE  LET k == b * Columns(g, iw) + x + 1 IN
         /\ k \in 1 .. Columns(g, iw) * Count(height, g.th)
         /\ SliceTiles(g, iw, ih, s)[k].w = Extent(iw, g.tw, Columns(g, iw), x)
         /\ SliceTiles(g, iw, ih, s)[k].h = Extent(height, g.th, Count(height, g.th), b)
<1> DEFINE c == Columns(g, iw)
           r == Count(height, g.th)
           k == b * c + x + 1
           t == SliceTiles(g, iw, ih, s)[k]
<1>1. c \in Nat \ {0} /\ r \in Nat \ {0}
  BY GridSize, TilesCounted DEF GridOK
<1>2. b \in 0 .. r - 1 /\ x \in 0 .. c - 1
  OBVIOUS
<1> HIDE DEF c, r
<1>3. b * c \in Nat /\ b * c + c <= r * c /\ r * c = c * r /\ r * c \in Nat
  BY <1>1, <1>2, Multiples
<1>4. k \in 1 .. c * r /\ k - 1 = b * c + x /\ b \in Nat
  BY <1>1, <1>2, <1>3
<1>5. (b * c + x) \div c = b /\ (b * c + x) % c = x
  BY <1>1, <1>2, <1>4, Position
<1> HIDE DEF k
<1>6. /\ t.w = Extent(iw, g.tw, Columns(g, iw), (k - 1) % Columns(g, iw))
      /\ t.h = Extent(height, g.th, Count(height, g.th), (k - 1) \div Columns(g, iw))
  <2>1. k \in 1 .. Columns(g, iw) * Count(height, g.th)
    BY <1>4 DEF c, r
  <2> QED BY <2>1, TileAt
<1>7. (k - 1) % c = x /\ (k - 1) \div c = b
  BY <1>4, <1>5
<1>8. t.w = Extent(iw, g.tw, c, x) /\ t.h = Extent(height, g.th, r, b)
  BY <1>6, <1>7 DEF c, r
<1> HIDE DEF t
<1>9. k = b * Columns(g, iw) + x + 1
  BY Zenon DEF k, c
<1> QED BY <1>4, <1>8, <1>9, Zenon DEF t, c, r

(* From place a on, the pixels of the tiles ts are added. *)
AddsTiles(P, a, ts) ==
  /\ P[a] \in Int
  /\ \A k \in DOMAIN ts : P[a + k] = P[a + k - 1] + Area(ts[k])

(* The tiles of a slice have its pixels. *)
LEMMA SliceArea ==
  ASSUME NEW g, GridOK(g), NEW iw \in Nat \ {0}, NEW ih \in Nat \ {0}, NEW s \in Nat,
         NEW top \in Nat, NEW height \in Nat \ {0},
         Slice(g, ih, s) = [y |-> top, h |-> height],
         NEW a \in Nat, NEW P, AddsTiles(P, a, SliceTiles(g, iw, ih, s))
  PROVE  P[a + Len(SliceTiles(g, iw, ih, s))] = P[a] + iw * height
<1> DEFINE c == Columns(g, iw)
           r == Count(height, g.th)
<1>1. /\ c \in Nat \ {0} /\ r \in Nat \ {0} /\ c = Count(iw, g.tw) /\ c = Columns(g, iw)
      /\ g.tw \in Nat \ {0} /\ g.th \in Nat \ {0} /\ r = Count(height, g.th)
  BY GridSize, TilesCounted DEF GridOK, Columns
<1>2. DOMAIN SliceTiles(g, iw, ih, s) = 1 .. c * r
  BY DEF SliceTiles, Columns
<1>3. Len(SliceTiles(g, iw, ih, s)) = r * c
  <2>1. c * r \in Nat /\ c * r = r * c
    BY <1>1
  <2> DEFINE ts == SliceTiles(g, iw, ih, s)
  <2>2. ts = [k \in 1 .. c * r |-> ts[k]]
    BY DEF SliceTiles, Columns
  <2> HIDE DEF ts, c, r
  <2>3. Len(ts) = c * r
    BY <2>1, <2>2
  <2> QED BY <2>1, <2>3 DEF ts
<1> HIDE DEF c, r
<1>4. ASSUME NEW b \in 0 .. r - 1, NEW x \in 0 .. c - 1
      PROVE  P[(a + b * c) + (x + 1)] =
               P[(a + b * c) + x] + Extent(iw, g.tw, c, x) * Extent(height, g.th, r, b)
  <2> DEFINE k == b * c + x + 1
  <2>1. b * c \in Nat /\ b * c + c <= r * c /\ r * c = c * r /\ r * c \in Nat
    BY <1>1, Multiples
  <2>2. k \in 1 .. c * r /\ k - 1 = b * c + x /\ k \in Nat
    BY <1>1, <2>1
  <2>3. (b * c + x) \div c = b /\ (b * c + x) % c = x
    <3>1. b \in Nat
      BY <1>1
    <3> QED BY <1>1, <3>1, Position
  <2>4. a + k = (a + b * c) + (x + 1) /\ a + k - 1 = (a + b * c) + x
    BY <1>1, <2>1
  <2> HIDE DEF k
  <2> DEFINE t == SliceTiles(g, iw, ih, s)[k]
  <2>6. t.w = Extent(iw, g.tw, c, x) /\ t.h = Extent(height, g.th, r, b)
    <3>1. /\ SliceTiles(g, iw, ih, s)[b * Columns(g, iw) + x + 1].w
               = Extent(iw, g.tw, Columns(g, iw), x)
          /\ SliceTiles(g, iw, ih, s)[b * Columns(g, iw) + x + 1].h
               = Extent(height, g.th, Count(height, g.th), b)
      BY TileExtents DEF c, r
    <3> QED BY <3>1, Zenon DEF t, k, c, r
  <2>7. P[a + k] = P[a + k - 1] + Area(t)
    BY <1>2, <2>2, Zenon DEF AddsTiles, t
  <2> QED BY <2>4, <2>6, <2>7 DEF Area
<1>5. P[a + r * c] = P[a] + iw * height
  <2>1. iw \in Nat \ {0} /\ height \in Nat \ {0} /\ a \in Nat /\ P[a] \in Int
    BY DEF AddsTiles
  <2>2. AddsRows(P, a, iw, g.tw, c, height, g.th, r)
    BY <1>4, <2>1 DEF AddsRows
  <2> DEFINE tw == g.tw
             th == g.th
  <2>3. AddsRows(P, a, iw, tw, Count(iw, tw), height, th, Count(height, th))
    BY <2>2, Zenon DEF c, r, Columns
  <2>4. tw \in Nat \ {0} /\ th \in Nat \ {0}
    BY <1>1
  <2> HIDE DEF tw, th
  <2>5. P[a + Count(height, th) * Count(iw, tw)] = P[a] + iw * height
    BY <2>1, <2>3, <2>4, RowsAdded
  <2> QED BY <2>5, Zenon DEF c, r, Columns, tw, th
<1> QED BY <1>3, <1>5

-----------------------------------------------------------------------------
(* The tiles of all slices.                                                *)

(* What SlicedTiles joins. *)
SlicesOf(g, iw, ih) == [s \in 1 .. Slices(g, ih) |-> SliceTiles(g, iw, ih, s - 1)]

(* A slice has tiles. *)
LEMMA SliceTyped ==
  ASSUME NEW g, GridOK(g), NEW iw \in Nat \ {0}, NEW ih \in Nat \ {0},
         NEW s \in 1 .. Slices(g, ih)
  PROVE  LET ss == SliceTiles(g, iw, ih, s - 1) IN
         /\ s - 1 \in 0 .. Slices(g, ih) - 1
         /\ SlicesOf(g, iw, ih)[s] = ss
         /\ Len(ss) \in Nat \ {0} /\ DOMAIN ss = 1 .. Len(ss) /\ ss \in Seq({ss[k] : k \in DOMAIN ss})
<1>1. Slices(g, ih) \in Nat \ {0}
  BY GridSize
<1>2. s - 1 \in 0 .. Slices(g, ih) - 1
  BY <1>1
<1>3. PICK top \in Nat, height \in Nat \ {0} : Slice(g, ih, s - 1) = [y |-> top, h |-> height]
  BY <1>2, SliceSpan
<1> DEFINE ss == SliceTiles(g, iw, ih, s - 1)
           m == Columns(g, iw) * Count(height, g.th)
<1>4. m \in Nat \ {0}
  <2>1. Columns(g, iw) \in Nat \ {0} /\ Count(height, g.th) \in Nat \ {0}
    BY GridSize, TilesCounted DEF GridOK
  <2>2. \A a, b \in Nat \ {0} : a * b \in Nat \ {0}
    OBVIOUS
  <2> QED BY <2>1, <2>2
<1>5. ss = [k \in 1 .. m |-> ss[k]]
  BY <1>3 DEF SliceTiles, Columns
<1>6. SlicesOf(g, iw, ih)[s] = ss
  BY DEF SlicesOf
<1> HIDE DEF ss, m
<1>7. Len(ss) = m /\ DOMAIN ss = 1 .. m
  BY <1>4, <1>5
<1>8. ss \in Seq({ss[k] : k \in DOMAIN ss})
  <2>1. \A k \in 1 .. m : ss[k] \in {ss[j] : j \in DOMAIN ss}
    BY <1>7
  <2> DEFINE S == {ss[j] : j \in DOMAIN ss}
  <2> HIDE DEF S
  <2>2. \A k \in 1 .. m : ss[k] \in S
    BY <2>1 DEF S
  <2>3. ss \in [1 .. m -> S]
    BY <1>5, <2>2
  <2>4. ss \in Seq(S)
    BY <1>4, <2>3
  <2> QED BY <2>4 DEF S
<1> QED BY <1>2, <1>4, <1>6, <1>7, <1>8 DEF ss

(* SlicedTiles joins the slices. *)
LEMMA SlicesJoined ==
  ASSUME NEW g, GridOK(g), NEW iw \in Nat \ {0}, NEW ih \in Nat \ {0}
  PROVE  /\ Len(SlicedTiles(g, iw, ih)) \in Nat
         /\ DOMAIN SlicedTiles(g, iw, ih) = 1 .. Len(SlicedTiles(g, iw, ih))
         /\ \E from : Joined(SlicedTiles(g, iw, ih), SlicesOf(g, iw, ih), Slices(g, ih), from)
<1> DEFINE n == Slices(g, ih)
           seqs == SlicesOf(g, iw, ih)
           S == UNION {{seqs[s][k] : k \in DOMAIN seqs[s]} : s \in 1 .. n}
<1>1. n \in Nat \ {0}
  BY GridSize
<1>2. DOMAIN seqs = 1 .. n /\ seqs = [s \in 1 .. n |-> seqs[s]]
  BY DEF SlicesOf
<1>3. ASSUME NEW s \in 1 .. n
      PROVE  seqs[s] \in Seq(S)
  <2> DEFINE ss == seqs[s]
  <2>1. ss = SliceTiles(g, iw, ih, s - 1)
    BY DEF SlicesOf
  <2>2. Len(ss) \in Nat /\ ss \in Seq({ss[k] : k \in DOMAIN ss})
    BY <2>1, SliceTyped
  <2>3. {ss[k] : k \in DOMAIN ss} \subseteq S
    BY Zenon
  <2> HIDE DEF ss, S
  <2>4. \A U, V : U \subseteq V => \A q \in Seq(U) : q \in Seq(V)
    OBVIOUS
  <2>5. ss \in Seq(S)
    BY <2>2, <2>3, <2>4, Zenon
  <2> QED BY <2>5 DEF ss
<1>4. SlicedTiles(g, iw, ih) = FlattenSeq(seqs)
  BY Zenon DEF SlicedTiles, SlicesOf
<1> HIDE DEF S, seqs, n
<1>5. seqs \in [1 .. n -> Seq(S)]
  BY <1>2, <1>3
<1>6. /\ FlattenSeq(seqs) \in Seq(S)
      /\ \E from : Joined(FlattenSeq(seqs), seqs, n, from)
  BY <1>1, <1>5, Flattened
<1> DEFINE ts == SlicedTiles(g, iw, ih)
<1>7. ts \in Seq(S) /\ \E from : Joined(ts, seqs, n, from)
  BY <1>4, <1>6
<1> HIDE DEF ts
<1>8. Len(ts) \in Nat /\ DOMAIN ts = 1 .. Len(ts)
  BY <1>7
<1> QED BY <1>7, <1>8, Zenon DEF ts, seqs, n

(* Each tile is one of a slice, and each of a slice is one of the tiles. *)
LEMMA TilesOfSlices ==
  ASSUME NEW g, GridOK(g), NEW iw \in Nat \ {0}, NEW ih \in Nat \ {0}
  PROVE  LET ts == SlicedTiles(g, iw, ih) IN
         \E from :
           /\ Joined(ts, SlicesOf(g, iw, ih), Slices(g, ih), from)
           /\ \A s \in 0 .. Slices(g, ih) - 1 : \A k \in DOMAIN SliceTiles(g, iw, ih, s) :
                from[s + 1] + k \in DOMAIN ts /\ ts[from[s + 1] + k] = SliceTiles(g, iw, ih, s)[k]
           /\ \A j \in DOMAIN ts :
                \E s \in 0 .. Slices(g, ih) - 1 : \E k \in DOMAIN SliceTiles(g, iw, ih, s) :
                  j = from[s + 1] + k
<1> DEFINE n == Slices(g, ih)
           seqs == SlicesOf(g, iw, ih)
           ts == SlicedTiles(g, iw, ih)
<1>1. n \in Nat \ {0}
  BY GridSize
<1>2. PICK from : Joined(ts, seqs, n, from)
  BY SlicesJoined
<1>3. DOMAIN ts = 1 .. Len(ts)
  BY SlicesJoined
<1>4. \A s \in 1 .. n :
        /\ seqs[s] = SliceTiles(g, iw, ih, s - 1)
        /\ DOMAIN SliceTiles(g, iw, ih, s - 1) = 1 .. Len(seqs[s])
  <2> SUFFICES ASSUME NEW s \in 1 .. Slices(g, ih)
               PROVE  /\ SlicesOf(g, iw, ih)[s] = SliceTiles(g, iw, ih, s - 1)
                      /\ DOMAIN SliceTiles(g, iw, ih, s - 1) = 1 .. Len(SlicesOf(g, iw, ih)[s])
    BY Zenon
  <2> DEFINE ss == SliceTiles(g, iw, ih, s - 1)
  <2>1. SlicesOf(g, iw, ih)[s] = ss /\ DOMAIN ss = 1 .. Len(ss)
    BY SliceTyped
  <2> HIDE DEF ss
  <2>2. DOMAIN ss = 1 .. Len(SlicesOf(g, iw, ih)[s])
    BY <2>1
  <2> QED BY <2>1, <2>2, Zenon DEF ss
<1> HIDE DEF n, seqs, ts
<1>5. /\ \A i \in 1 .. n : \A k \in 1 .. Len(seqs[i]) :
           from[i] + k \in 1 .. Len(ts) /\ ts[from[i] + k] = seqs[i][k]
      /\ \A j \in 1 .. Len(ts) : \E i \in 1 .. n : \E k \in 1 .. Len(seqs[i]) : j = from[i] + k
  BY <1>2, Zenon DEF Joined
<1>6. ASSUME NEW s \in 0 .. n - 1, NEW k \in DOMAIN SliceTiles(g, iw, ih, s)
      PROVE  from[s + 1] + k \in DOMAIN ts /\ ts[from[s + 1] + k] = SliceTiles(g, iw, ih, s)[k]
  <2>1. s + 1 \in 1 .. n /\ (s + 1) - 1 = s
    BY <1>1
  <2>2. seqs[s + 1] = SliceTiles(g, iw, ih, s) /\ k \in 1 .. Len(seqs[s + 1])
    BY <1>4, <2>1
  <2> QED BY <1>3, <1>5, <2>1, <2>2
<1>7. ASSUME NEW j \in DOMAIN ts
      PROVE  \E s \in 0 .. n - 1 : \E k \in DOMAIN SliceTiles(g, iw, ih, s) : j = from[s + 1] + k
  <2>1. PICK i \in 1 .. n : \E k \in 1 .. Len(seqs[i]) : j = from[i] + k
    BY <1>3, <1>5
  <2>2. i - 1 \in 0 .. n - 1 /\ (i - 1) + 1 = i /\ DOMAIN SliceTiles(g, iw, ih, i - 1) = 1 .. Len(seqs[i])
    BY <1>1, <1>4
  <2> QED BY <2>1, <2>2
<1> QED BY <1>2, <1>6, <1>7, Zenon DEF n, seqs, ts

(* TilesCoverImage, but for the length of the Hilbert spiral, of the tiles *)
(* ts of an image.                                                         *)
CoversImage(g, iw, ih, ts) ==
  /\ \A x \in 0 .. iw - 1, y \in 0 .. ih - 1 :
       LET holders == {k \in DOMAIN ts : Holds(ts[k], x, y)}
       IN  /\ holders # {}
           /\ g.overlap = 0 => Cardinality(holders) = 1
  /\ \A k \in DOMAIN ts :
       LET t == ts[k] IN
       /\ t.x >= 0 /\ t.y >= 0 /\ t.w > 0 /\ t.h > 0
       /\ t.x + t.w <= iw /\ t.y + t.h <= ih
       /\ t.device < Lists(g, ih)
  /\ ~g.background =>
       \A d \in 0 .. Lists(g, ih) - 1 : \E k \in DOMAIN ts : ts[k].device = d

(* Some tile of some slice holds a pixel. *)
LEMMA SomeTileHolds ==
  ASSUME NEW g, GridOK(g), NEW iw \in Nat \ {0}, NEW ih \in Nat \ {0},
         NEW x \in 0 .. iw - 1, NEW y \in 0 .. ih - 1
  PROVE  \E s \in 0 .. Slices(g, ih) - 1 : \E k \in DOMAIN SliceTiles(g, iw, ih, s) :
           Holds(SliceTiles(g, iw, ih, s)[k], x, y)
<1>1. PICK s \in 0 .. Slices(g, ih) - 1 :
        y \in Slice(g, ih, s).y .. Slice(g, ih, s).y + Slice(g, ih, s).h - 1
  BY SomeSliceHolds
<1>2. PICK top \in Nat, height \in Nat \ {0} : Slice(g, ih, s) = [y |-> top, h |-> height]
  BY SliceSpan
<1>3. y \in top .. top + height - 1 /\ s \in Nat /\ y \in Int
  BY <1>1, <1>2, GridSize
<1> DEFINE k == TileOf(g, iw, top, x, y)
<1>4. /\ \A j \in DOMAIN SliceTiles(g, iw, ih, s) :
           Holds(SliceTiles(g, iw, ih, s)[j], x, y) <=> y \in top .. top + height - 1 /\ j = k
      /\ k \in DOMAIN SliceTiles(g, iw, ih, s)
  BY <1>2, <1>3, TileHolds
<1> HIDE DEF k
<1> QED BY <1>3, <1>4

(* The tiles of the slices cover the image. *)
LEMMA SlicedCover ==
  ASSUME NEW g, GridOK(g), NEW iw \in Nat \ {0}, NEW ih \in Nat \ {0}
  PROVE  CoversImage(g, iw, ih, SlicedTiles(g, iw, ih))
<1> DEFINE ts == SlicedTiles(g, iw, ih)
           n == Slices(g, ih)
           T(s) == SliceTiles(g, iw, ih, s)
<1>1. n \in Nat \ {0}
  BY GridSize
<1>2. PICK from :
        /\ Joined(ts, SlicesOf(g, iw, ih), n, from)
        /\ \A s \in 0 .. n - 1 : \A k \in DOMAIN T(s) :
             from[s + 1] + k \in DOMAIN ts /\ ts[from[s + 1] + k] = T(s)[k]
        /\ \A j \in DOMAIN ts :
             \E s \in 0 .. n - 1 : \E k \in DOMAIN T(s) : j = from[s + 1] + k
  BY TilesOfSlices
<1>3. \A s \in 0 .. n - 1 : 1 \in DOMAIN T(s)
  <2> SUFFICES ASSUME NEW s \in 0 .. n - 1 PROVE 1 \in DOMAIN T(s)
    BY Zenon
  <2>1. s + 1 \in 1 .. n /\ (s + 1) - 1 = s
    BY <1>1
  <2> DEFINE u == s + 1
  <2>2. u \in 1 .. Slices(g, ih) /\ u - 1 = s
    BY <2>1
  <2> HIDE DEF u
  <2>3. /\ Len(SliceTiles(g, iw, ih, u - 1)) \in Nat \ {0}
        /\ DOMAIN SliceTiles(g, iw, ih, u - 1) = 1 .. Len(SliceTiles(g, iw, ih, u - 1))
    BY <2>2, SliceTyped
  <2> QED BY <2>2, <2>3
<1> HIDE DEF ts
<1>4. ASSUME NEW x \in 0 .. iw - 1, NEW y \in 0 .. ih - 1
      PROVE  \E k \in DOMAIN ts : Holds(ts[k], x, y)
  <2>1. PICK s \in 0 .. n - 1 : \E k \in DOMAIN T(s) : Holds(T(s)[k], x, y)
    BY SomeTileHolds
  <2>2. PICK k \in DOMAIN T(s) : Holds(T(s)[k], x, y)
    BY <2>1
  <2>3. from[s + 1] + k \in DOMAIN ts /\ ts[from[s + 1] + k] = T(s)[k]
    BY <1>2, Zenon
  <2> QED BY <2>2, <2>3, Zenon
<1>5. ASSUME g.overlap = 0, NEW x \in 0 .. iw - 1, NEW y \in 0 .. ih - 1
      PROVE  Cardinality({k \in DOMAIN ts : Holds(ts[k], x, y)}) = 1
  <2> DEFINE H(j) == Holds(ts[j], x, y)
  <2>1. PICK s \in 0 .. n - 1 : \E k \in DOMAIN T(s) : OnlyTile(g, iw, ih, s, k, x, y)
    BY <1>5, OneTilePerPixel, Zenon
  <2>2. PICK k \in DOMAIN T(s) : OnlyTile(g, iw, ih, s, k, x, y)
    BY <2>1, Zenon
  <2>20. \A u \in 0 .. n - 1 : \A j \in DOMAIN T(u) : Holds(T(u)[j], x, y) <=> u = s /\ j = k
    BY <2>2, Zenon DEF OnlyTile
  <2> DEFINE one == from[s + 1] + k
  <2>3. one \in DOMAIN ts /\ ts[one] = T(s)[k]
    BY <1>2, Zenon
  <2>4. H(one)
    BY <2>20, <2>3, Zenon
  <2>5. ASSUME NEW j \in DOMAIN ts, H(j) PROVE j = one
    <3>1. PICK u \in 0 .. n - 1 : \E i \in DOMAIN T(u) : j = from[u + 1] + i
      BY <1>2, Zenon
    <3>2. PICK i \in DOMAIN T(u) : j = from[u + 1] + i
      BY <3>1, Zenon
    <3>3. ts[j] = T(u)[i]
      BY <1>2, <3>2, Zenon
    <3>4. u = s /\ i = k
      BY <2>20, <2>5, <3>3, Zenon
    <3> QED BY <3>2, <3>4, Zenon
  <2> HIDE DEF one, H
  <2>6. {j \in DOMAIN ts : H(j)} = {one}
    BY <2>3, <2>4, <2>5, Zenon
  <2> QED BY <2>6, FS_Singleton DEF H
<1>6. ASSUME NEW j \in DOMAIN ts
      PROVE  /\ ts[j].x >= 0 /\ ts[j].y >= 0 /\ ts[j].w > 0 /\ ts[j].h > 0
             /\ ts[j].x + ts[j].w <= iw /\ ts[j].y + ts[j].h <= ih
             /\ ts[j].device < Lists(g, ih)
  <2>1. PICK s \in 0 .. n - 1 : \E k \in DOMAIN T(s) : j = from[s + 1] + k
    BY <1>2, Zenon
  <2>2. PICK k \in DOMAIN T(s) : j = from[s + 1] + k
    BY <2>1, Zenon
  <2>3. ts[j] = T(s)[k]
    BY <1>2, <2>2, Zenon
  <2> DEFINE t == T(s)[k]
  <2>4. /\ {t.x, t.y} \subseteq Nat /\ {t.w, t.h} \subseteq Nat \ {0}
        /\ t.x + t.w <= iw /\ t.y + t.h <= ih
        /\ t.device < Lists(g, ih)
    BY SliceInside, SliceDevice
  <2> HIDE DEF t
  <2>5. t.x \in Nat /\ t.y \in Nat /\ t.w \in Nat \ {0} /\ t.h \in Nat \ {0}
    BY <2>4
  <2>6. /\ t.x >= 0 /\ t.y >= 0 /\ t.w > 0 /\ t.h > 0
    BY <2>5
  <2> QED BY <2>3, <2>4, <2>6, Zenon DEF t
<1>7. ASSUME ~g.background, NEW d \in 0 .. Lists(g, ih) - 1
      PROVE  \E j \in DOMAIN ts : ts[j].device = d
  <2>1. d \in 0 .. n - 1
    BY <1>7 DEF Slices
  <2>2. T(d)[1].device = d
    BY <1>3, <1>7, <2>1, SliceDevice
  <2>3. from[d + 1] + 1 \in DOMAIN ts /\ ts[from[d + 1] + 1] = T(d)[1]
    BY <1>2, <1>3, <2>1, Zenon
  <2> QED BY <2>2, <2>3, Zenon
<1>8. CoversImage(g, iw, ih, ts)
  <2>1. \A x \in 0 .. iw - 1, y \in 0 .. ih - 1 :
       LET holders == {k \in DOMAIN ts : Holds(ts[k], x, y)}
       IN  /\ holders # {}
           /\ g.overlap = 0 => Cardinality(holders) = 1
    BY <1>4, <1>5
  <2> QED BY <1>6, <1>7, <2>1, Zenon DEF CoversImage
<1> QED BY <1>8 DEF ts

(* The slices that are joined. *)
LEMMA SlicesTyped ==
  ASSUME NEW g, GridOK(g), NEW iw \in Nat \ {0}, NEW ih \in Nat \ {0}
  PROVE  \A s \in 1 .. Slices(g, ih) :
           /\ SlicesOf(g, iw, ih)[s] = SliceTiles(g, iw, ih, s - 1)
           /\ Len(SlicesOf(g, iw, ih)[s]) \in Nat \ {0}
           /\ DOMAIN SlicesOf(g, iw, ih)[s] = 1 .. Len(SlicesOf(g, iw, ih)[s])
<1> TAKE s \in 1 .. Slices(g, ih)
<1> DEFINE ss == SliceTiles(g, iw, ih, s - 1)
<1>1. SlicesOf(g, iw, ih)[s] = ss /\ Len(ss) \in Nat \ {0} /\ DOMAIN ss = 1 .. Len(ss)
  BY SliceTyped
<1> HIDE DEF ss
<1> QED BY <1>1, Zenon DEF ss

NoOverlap(g) == g.overlap = 0

(* Without an overlap the tiles have the pixels of the image. *)
LEMMA SlicedArea ==
  ASSUME NEW g, GridOK(g), NoOverlap(g), NEW iw \in Nat \ {0}, NEW ih \in Nat \ {0}
  PROVE  AllPixels(SlicedTiles(g, iw, ih)) = iw * ih
<1> DEFINE ts == SlicedTiles(g, iw, ih)
           n == Slices(g, ih)
           seqs == SlicesOf(g, iw, ih)
           q == ih \div n
<1>1. n \in Nat \ {0} /\ q \in Nat \ {0}
  BY GridSize
<1>2. Len(ts) \in Nat /\ DOMAIN ts = 1 .. Len(ts)
  BY SlicesJoined
<1>3. PICK from : Joined(ts, seqs, n, from)
  BY SlicesJoined
<1>4. PICK P : /\ P[0] = 0 /\ AllPixels(ts) = P[Len(ts)]
               /\ \A k \in 1 .. Len(ts) : P[k] = P[k - 1] + Area(ts[k])
  BY <1>2, PixelsAdded
<1>5. \A s \in 1 .. n :
        \E h \in Nat \ {0} : /\ Slice(g, ih, s - 1) = [y |-> (s - 1) * q, h |-> h]
                             /\ (s - 1) * q \in Nat
                             /\ (s - 1) * q + h = IF s - 1 = n - 1 THEN ih ELSE (s - 1) * q + q
  <2> SUFFICES ASSUME NEW s \in 1 .. n
               PROVE  \E h \in Nat \ {0} : /\ Slice(g, ih, s - 1) = [y |-> (s - 1) * q, h |-> h]
                             /\ (s - 1) * q \in Nat
                             /\ (s - 1) * q + h = IF s - 1 = n - 1 THEN ih ELSE (s - 1) * q + q
    BY Zenon
  <2> DEFINE u == s - 1
  <2>1. u \in 0 .. Slices(g, ih) - 1
    BY <1>1
  <2> HIDE DEF u, q, n
  <2>2. \E h \in Nat \ {0} : /\ Slice(g, ih, u) = [y |-> u * q, h |-> h]
                             /\ u * q \in Nat
                             /\ u * q + h = IF u = n - 1 THEN ih ELSE u * q + q
    BY <2>1, SliceAt DEF n, q, NoOverlap
  <2> QED BY <2>2, Zenon DEF u
<1>6. \A s \in 1 .. n : /\ seqs[s] = SliceTiles(g, iw, ih, s - 1)
                        /\ Len(seqs[s]) \in Nat \ {0} /\ DOMAIN seqs[s] = 1 .. Len(seqs[s])
  <2>1. \A s \in 1 .. Slices(g, ih) :
          /\ SlicesOf(g, iw, ih)[s] = SliceTiles(g, iw, ih, s - 1)
          /\ Len(SlicesOf(g, iw, ih)[s]) \in Nat \ {0}
          /\ DOMAIN SlicesOf(g, iw, ih)[s] = 1 .. Len(SlicesOf(g, iw, ih)[s])
    BY SlicesTyped
  <2> QED BY <2>1
<1> HIDE DEF ts, n, seqs, q
<1>7. /\ \A s \in 1 .. n + 1 : from[s] \in Nat
      /\ from[1] = 0
      /\ \A s \in 1 .. n : from[s + 1] = from[s] + Len(seqs[s])
      /\ Len(ts) = from[n + 1]
      /\ \A s \in 1 .. n : \A k \in 1 .. Len(seqs[s]) :
           from[s] + k \in 1 .. Len(ts) /\ ts[from[s] + k] = seqs[s][k]
  BY <1>3, Zenon DEF Joined
<1> DEFINE Upto(s) == IF s = n + 1 THEN ih ELSE (s - 1) * q
           T == {s \in 1 .. n + 1 : P[from[s]] = iw * Upto(s)}
<1>8. 1 \in T
  <2>1. Upto(1) = 0 /\ 1 \in 1 .. n + 1 /\ iw * 0 = 0
    BY <1>1
  <2> QED BY <1>4, <1>7, <2>1
<1>9. ASSUME NEW s \in 1 .. (n + 1) - 1, s \in T PROVE s + 1 \in T
  <2>1. s \in 1 .. n /\ s + 1 \in 1 .. n + 1 /\ s # n + 1 /\ s \in 1 .. n + 1
    BY <1>1
  <2> DEFINE u == s - 1
  <2>2. u \in Nat /\ u = s - 1 /\ s = u + 1
    BY <2>1
  <2>3. PICK h \in Nat \ {0} : /\ Slice(g, ih, u) = [y |-> u * q, h |-> h]
                               /\ u * q \in Nat
                               /\ u * q + h = IF u = n - 1 THEN ih ELSE u * q + q
    BY <1>5, <2>1
  <2>4. Upto(s) = u * q /\ Upto(s + 1) = u * q + h
    <3>1. s + 1 = n + 1 <=> u = n - 1
      BY <1>1, <2>2
    <3>2. ((s + 1) - 1) * q = u * q + q
      <4>1. (u + 1) * q = u * q + q /\ (s + 1) - 1 = u + 1
        BY <1>1, <2>2
      <4> QED BY <4>1
    <3> QED BY <2>1, <2>3, <3>1, <3>2
  <2>5. P[from[s]] = iw * (u * q)
    BY <1>9, <2>4
  <2>6. from[s] \in Nat /\ from[s + 1] = from[s] + Len(seqs[s]) /\ seqs[s] = SliceTiles(g, iw, ih, u)
    BY <1>6, <1>7, <2>1
  <2>7. AddsTiles(P, from[s], SliceTiles(g, iw, ih, u))
    <3>1. P[from[s]] \in Int
      BY <2>3, <2>5
    <3>2. ASSUME NEW k \in DOMAIN seqs[s]
          PROVE  P[from[s] + k] = P[from[s] + k - 1] + Area(seqs[s][k])
      <4>1. k \in 1 .. Len(seqs[s])
        BY <1>6, <2>1
      <4>2. from[s] + k \in 1 .. Len(ts) /\ ts[from[s] + k] = seqs[s][k]
        BY <1>7, <2>1, <4>1
      <4>3. P[from[s] + k] = P[(from[s] + k) - 1] + Area(ts[from[s] + k])
        BY <1>4, <4>2, Zenon
      <4>4. (from[s] + k) - 1 = from[s] + k - 1
        BY <2>6, <4>1
      <4> QED BY <4>2, <4>3, <4>4, Zenon
    <3> QED BY <2>6, <3>1, <3>2 DEF AddsTiles
  <2> HIDE DEF u, Upto
  <2>8. P[from[s] + Len(SliceTiles(g, iw, ih, u))] = P[from[s]] + iw * h
    <3> DEFINE top == u * q
               a == from[s]
    <3>1. top \in Nat /\ a \in Nat /\ Slice(g, ih, u) = [y |-> top, h |-> h] /\ AddsTiles(P, a, SliceTiles(g, iw, ih, u))
      BY <2>3, <2>6, <2>7
    <3> HIDE DEF top, a
    <3>2. P[a + Len(SliceTiles(g, iw, ih, u))] = P[a] + iw * h
      BY <2>2, <3>1, SliceArea
    <3> QED BY <3>2 DEF a
  <2>9. iw * (u * q) + iw * h = iw * (u * q + h)
    BY <2>3
  <2> QED BY <2>1, <2>4, <2>5, <2>6, <2>8, <2>9
<1> HIDE DEF T
<1>10. n + 1 \in T
  <2>1. \A s \in 1 .. n + 1 : s \in T
    <3>1. n + 1 \in Nat
      BY <1>1
    <3> QED BY <1>8, <1>9, <3>1, InductionUpTo
  <2> QED BY <1>1, <2>1
<1> QED BY <1>4, <1>7, <1>10 DEF T, ts

(* The indices of get_neighbor_index are those of its columns and rows. *)
LEMMA NeighborsBelow ==
  ASSUME NEW g, GridOK(g), NEW iw \in Nat \ {0}, NEW ih \in Nat \ {0}, NEW i \in Nat,
         NEW n \in NeighborIndices(g, iw, ih, i)
  PROVE  n \in Nat /\ n < Rows(g, ih) * Columns(g, iw)
<1> DEFINE columns == Columns(g, iw)
           rows == Rows(g, ih)
<1>1. columns \in Nat \ {0} /\ rows \in Nat \ {0}
  BY GridSize
<1>2. \E x \in ((i % columns) - 1 .. (i % columns) + 1) \cap (0 .. columns - 1),
         y \in ((i \div columns) - 1 .. (i \div columns) + 1) \cap (0 .. rows - 1) :
        n = y * columns + x
  BY DEF NeighborIndices, Columns, Rows
<1> HIDE DEF columns, rows
<1>3. PICK x \in 0 .. columns - 1, y \in 0 .. rows - 1 : n = y * columns + x
  BY <1>2
<1>4. y * columns + columns <= rows * columns /\ y * columns \in Nat
  BY <1>1, Multiples
<1>5. rows * columns \in Nat
  BY <1>1
<1>6. n \in Nat /\ n < rows * columns
  BY <1>1, <1>3, <1>4, <1>5
<1> QED BY <1>6 DEF columns, rows

(* More pixels do not take fewer tiles. *)
LEMMA CountGrows ==
  ASSUME NEW a \in Nat \ {0}, NEW b \in Nat \ {0}, a <= b, NEW tile \in Nat \ {0}
  PROVE  Count(a, tile) <= Count(b, tile)
<1> DEFINE m == Count(a, tile)
           n == Count(b, tile)
<1>1. /\ m \in Nat \ {0} /\ (m - 1) * tile < a
      /\ n \in Nat \ {0} /\ b <= n * tile
  BY TilesCounted
<1> HIDE DEF m, n
<1>2. m > n => n * tile <= (m - 1) * tile
  BY <1>1, Multiples
<1>3. n * tile \in Int /\ (m - 1) * tile \in Int
  BY <1>1
<1>4. m <= n
  BY <1>1, <1>2, <1>3
<1> QED BY <1>4 DEF m, n

(* No slice has fewer rows of tiles than get_neighbor_index counts. *)
LEMMA SliceLength ==
  ASSUME NEW g, GridOK(g), NEW iw \in Nat \ {0}, NEW ih \in Nat \ {0},
         NEW s \in 0 .. Slices(g, ih) - 1
  PROVE  Len(SliceTiles(g, iw, ih, s))
           >= Columns(g, iw) * Count(ih \div Slices(g, ih), g.th)
<1> DEFINE q == ih \div Slices(g, ih)
           c == Columns(g, iw)
           r == Count(q, g.th)
<1>1. q \in Nat \ {0} /\ c \in Nat \ {0} /\ g.th \in Nat \ {0}
  BY GridSize DEF GridOK
<1>2. PICK top \in Nat, height \in Nat \ {0} :
        Slice(g, ih, s) = [y |-> top, h |-> height] /\ q <= height
  BY SliceSpan
<1> DEFINE rows == Count(height, g.th)
           ss == SliceTiles(g, iw, ih, s)
<1>3. r \in Nat /\ rows \in Nat /\ r <= rows
  <2> HIDE DEF q
  <2> QED BY <1>1, <1>2, TilesCounted, CountGrows
<1>4. ss = [k \in 1 .. c * rows |-> ss[k]]
  BY <1>2 DEF SliceTiles, Columns
<1> HIDE DEF c, r, rows, ss
<1>5. c * rows \in Nat /\ c * r <= c * rows
  <2>1. r * c <= rows * c
    BY <1>1, <1>3, Multiples
  <2>2. r * c = c * r /\ rows * c = c * rows /\ c * rows \in Nat
    BY <1>1, <1>3
  <2> QED BY <2>1, <2>2
<1>6. Len(ss) = c * rows
  BY <1>4, <1>5
<1>7. c * r \in Nat
  BY <1>1, <1>3
<1>8. Len(ss) >= c * r
  BY <1>5, <1>6, <1>7
<1> QED BY <1>8 DEF c, r, ss

(* So there are as many tiles. *)
LEMMA EnoughTiles ==
  ASSUME NEW g, GridOK(g), NEW iw \in Nat \ {0}, NEW ih \in Nat \ {0}
  PROVE  /\ Len(SlicedTiles(g, iw, ih)) \in Nat
         /\ Rows(g, ih) * Columns(g, iw) <= Len(SlicedTiles(g, iw, ih))
<1> DEFINE ts == SlicedTiles(g, iw, ih)
           n == Slices(g, ih)
           seqs == SlicesOf(g, iw, ih)
           c == Columns(g, iw)
           r == Count(ih \div Slices(g, ih), g.th)
           m == c * r
<1>1. n \in Nat \ {0} /\ c \in Nat \ {0} /\ r \in Nat \ {0} /\ m \in Nat
  <2>1. n \in Nat \ {0} /\ c \in Nat \ {0}
    BY GridSize
  <2>2. ih \div Slices(g, ih) \in Nat \ {0} /\ g.th \in Nat \ {0}
    BY GridSize DEF GridOK
  <2>3. r \in Nat \ {0}
    BY <2>2, TilesCounted
  <2> HIDE DEF n, c, r
  <2> QED BY <2>1, <2>3
<1>2. Len(ts) \in Nat
  BY SlicesJoined
<1>3. PICK from : Joined(ts, seqs, n, from)
  BY SlicesJoined
<1>4. \A s \in 1 .. n : Len(seqs[s]) >= m /\ Len(seqs[s]) \in Nat
  <2> SUFFICES ASSUME NEW s \in 1 .. n PROVE Len(seqs[s]) >= m /\ Len(seqs[s]) \in Nat
    BY Zenon
  <2> DEFINE u == s - 1
  <2>1. u \in 0 .. Slices(g, ih) - 1
    BY <1>1
  <2>2. seqs[s] = SliceTiles(g, iw, ih, u) /\ Len(seqs[s]) \in Nat
    BY SlicesTyped
  <2> HIDE DEF u, seqs
  <2>3. Len(SliceTiles(g, iw, ih, u)) >= m
    BY <2>1, SliceLength
  <2> QED BY <2>2, <2>3
<1>5. Rows(g, ih) = r * n
  BY DEF Rows
<1> HIDE DEF ts, n, seqs, c, r
<1>6. /\ \A s \in 1 .. n + 1 : from[s] \in Nat
      /\ from[1] = 0
      /\ \A s \in 1 .. n : from[s + 1] = from[s] + Len(seqs[s])
      /\ Len(ts) = from[n + 1]
  BY <1>3, Zenon DEF Joined
<1> DEFINE T == {s \in 1 .. n + 1 : from[s] >= (s - 1) * m}
<1> HIDE DEF m
<1>7. 1 \in T
  BY <1>1, <1>6
<1>8. ASSUME NEW s \in 1 .. (n + 1) - 1, s \in T PROVE s + 1 \in T
  <2>1. s \in 1 .. n /\ s + 1 \in 1 .. n + 1 /\ s \in 1 .. n + 1
    BY <1>1
  <2>2. (s - 1) * m \in Nat /\ ((s + 1) - 1) * m = (s - 1) * m + m
    BY <1>1, <2>1
  <2>3. Len(seqs[s]) >= m /\ Len(seqs[s]) \in Nat /\ from[s] \in Nat
        /\ from[s + 1] = from[s] + Len(seqs[s]) /\ from[s] >= (s - 1) * m
    BY <1>4, <1>6, <1>8, <2>1
  <2>4. from[s + 1] >= ((s + 1) - 1) * m
    BY <1>1, <2>2, <2>3
  <2> QED BY <2>1, <2>4
<1> HIDE DEF T
<1>9. n + 1 \in T
  <2>1. n + 1 \in Nat
    BY <1>1
  <2>2. \A s \in 1 .. n + 1 : s \in T
    BY <1>7, <1>8, <2>1, InductionUpTo
  <2> QED BY <1>1, <2>2
<1>10. Len(ts) >= n * m
  <2>1. (n + 1) - 1 = n
    BY <1>1
  <2> QED BY <1>6, <1>9, <2>1 DEF T
<1>11. n * m = (r * n) * c
  BY <1>1, Z3 DEF m
<1>12. (r * n) * c \in Nat
  BY <1>1
<1>13. Rows(g, ih) * Columns(g, iw) <= Len(ts)
  BY <1>2, <1>5, <1>10, <1>11, <1>12 DEF c
<1> QED BY <1>2, <1>13 DEF ts

(* A final render has the tiles of its one slice. *)
LEMMA BackgroundTiles ==
  ASSUME NEW g, GridOK(g), g.background, NEW iw \in Nat \ {0}, NEW ih \in Nat \ {0}
  PROVE  /\ DOMAIN SlicedTiles(g, iw, ih) = DOMAIN SliceTiles(g, iw, ih, 0)
         /\ \A k \in DOMAIN SliceTiles(g, iw, ih, 0) :
              SlicedTiles(g, iw, ih)[k] = SliceTiles(g, iw, ih, 0)[k]
<1> DEFINE ts == SlicedTiles(g, iw, ih)
           us == SliceTiles(g, iw, ih, 0)
           seqs == SlicesOf(g, iw, ih)
<1>1. Slices(g, ih) = 1
  BY DEF Slices
<1>2. Len(ts) \in Nat /\ DOMAIN ts = 1 .. Len(ts)
  BY SlicesJoined
<1>3. PICK from : Joined(ts, seqs, 1, from)
  <2>1. \E from : Joined(SlicedTiles(g, iw, ih), SlicesOf(g, iw, ih), Slices(g, ih), from)
    BY SlicesJoined
  <2> QED BY <1>1, <2>1, Zenon
<1>4. seqs[1] = us /\ Len(us) \in Nat /\ DOMAIN us = 1 .. Len(us)
  <2>1. 1 \in 1 .. Slices(g, ih) /\ 1 - 1 = 0
    BY <1>1
  <2>2. /\ seqs[1] = SliceTiles(g, iw, ih, 1 - 1)
        /\ Len(seqs[1]) \in Nat /\ DOMAIN seqs[1] = 1 .. Len(seqs[1])
    BY <2>1, SlicesTyped
  <2> QED BY <2>1, <2>2, Zenon
<1> HIDE DEF ts, us, seqs
<1>5. /\ from[1] = 0 /\ from[2] = from[1] + Len(us) /\ Len(ts) = from[2]
      /\ \A k \in 1 .. Len(us) : ts[from[1] + k] = us[k]
  <2>1. 1 \in 1 .. 1 /\ 1 + 1 = 2
    OBVIOUS
  <2> QED BY <1>3, <1>4, <2>1, Zenon DEF Joined
<1>6. Len(ts) = Len(us) /\ \A k \in 1 .. Len(us) : ts[k] = us[k]
  BY <1>4, <1>5
<1>7. DOMAIN ts = DOMAIN us /\ \A k \in DOMAIN us : ts[k] = us[k]
  BY <1>2, <1>4, <1>6
<1> QED BY <1>7 DEF ts, us

(* Tiles that differ in their devices only. *)
SameRectangles(ts, us) ==
  /\ DOMAIN ts = DOMAIN us
  /\ \A k \in DOMAIN us :
       ts[k].x = us[k].x /\ ts[k].y = us[k].y /\ ts[k].w = us[k].w /\ ts[k].h = us[k].h

(* NeighborsTouch, of the tiles ts of an image. *)
NeighborsFound(g, iw, ih, ts) ==
  \A i \in DOMAIN ts :
    LET neighbors == NeighborIndices(g, iw, ih, i - 1) IN
    /\ \A n \in neighbors : n + 1 \in DOMAIN ts
    /\ g.background =>
         neighbors = {k - 1 : k \in {j \in DOMAIN ts : Touch(ts[i], ts[j])}}

(* Only the rectangles matter to it. *)
LEMMA NeighborsOfRectangles ==
  ASSUME NEW g, NEW iw, NEW ih, NEW ts, NEW us, SameRectangles(ts, us),
         NeighborsFound(g, iw, ih, us)
  PROVE  NeighborsFound(g, iw, ih, ts)
<1>1. DOMAIN ts = DOMAIN us
  BY DEF SameRectangles
<1>2. ASSUME NEW i \in DOMAIN us
      PROVE  {j \in DOMAIN ts : Touch(ts[i], ts[j])} = {j \in DOMAIN us : Touch(us[i], us[j])}
  <2>1. \A j \in DOMAIN us : Touch(ts[i], ts[j]) <=> Touch(us[i], us[j])
    BY Zenon DEF SameRectangles, Touch
  <2> QED BY <1>1, <2>1
<1> QED BY <1>1, <1>2, Zenon DEF NeighborsFound

(* It holds of the tiles of the slices. *)
LEMMA SlicedNeighbors ==
  ASSUME NEW g, GridOK(g), NEW iw \in Nat \ {0}, NEW ih \in Nat \ {0}
  PROVE  NeighborsFound(g, iw, ih, SlicedTiles(g, iw, ih))
<1> DEFINE ts == SlicedTiles(g, iw, ih)
           us == SliceTiles(g, iw, ih, 0)
<1>1. Len(ts) \in Nat /\ DOMAIN ts = 1 .. Len(ts)
  BY SlicesJoined
<1>2. Rows(g, ih) * Columns(g, iw) <= Len(ts) /\ Rows(g, ih) * Columns(g, iw) \in Nat
  BY EnoughTiles, GridSize
<1>3. ASSUME NEW i \in DOMAIN ts, NEW n \in NeighborIndices(g, iw, ih, i - 1)
      PROVE  n + 1 \in DOMAIN ts
  <2> DEFINE j == i - 1
  <2>1. j \in Nat
    BY <1>1
  <2>2. n \in NeighborIndices(g, iw, ih, j)
    OBVIOUS
  <2> HIDE DEF j
  <2>3. n \in Nat /\ n < Rows(g, ih) * Columns(g, iw)
    BY <2>1, <2>2, NeighborsBelow
  <2> QED BY <1>1, <1>2, <2>3
<1>4. ASSUME g.background, NEW i \in DOMAIN ts
      PROVE  NeighborIndices(g, iw, ih, i - 1)
               = {k - 1 : k \in {j \in DOMAIN ts : Touch(ts[i], ts[j])}}
  <2>1. DOMAIN ts = DOMAIN us /\ \A k \in DOMAIN us : ts[k] = us[k]
    BY <1>4, BackgroundTiles
  <2>2. NeighborIndices(g, iw, ih, i - 1)
          = {k - 1 : k \in {j \in DOMAIN us : Touch(us[i], us[j])}}
    BY <1>4, <2>1, TouchingTiles
  <2> HIDE DEF ts, us
  <2>3. {j \in DOMAIN ts : Touch(ts[i], ts[j])} = {j \in DOMAIN us : Touch(us[i], us[j])}
    BY <2>1
  <2> QED BY <2>2, <2>3
<1> HIDE DEF ts
<1>5. NeighborsFound(g, iw, ih, ts)
  BY <1>3, <1>4, Zenon DEF NeighborsFound
<1> QED BY <1>5 DEF ts

-----------------------------------------------------------------------------
(* The spiral of blocks.                                                   *)

(* The n * n positions X[k], Y[k] in a square of n by n are different, ... *)
Different(n, X, Y) ==
  /\ \A k \in 1 .. n * n : X[k] \in 0 .. n - 1 /\ Y[k] \in 0 .. n - 1
  /\ \A k, l \in 1 .. n * n : X[k] = X[l] /\ Y[k] = Y[l] => k = l

(* ... which means that none is missing. *)
Complete(n, X, Y) ==
  \A x, y \in 0 .. n - 1 : \E k \in 1 .. n * n : X[k] = x /\ Y[k] = y

(* n * n different positions in a square of n by n are all of them. *)
LEMMA AllPositions ==
  ASSUME NEW n \in Nat \ {0}, NEW X, NEW Y, Different(n, X, Y)
  PROVE  Complete(n, X, Y)
<1> DEFINE D == 1 .. n * n
           P == 0 .. n * n - 1
           f == [k \in D |-> Y[k] * n + X[k]]
<1> USE DEF Different
<1>1. n * n \in Nat \ {0}
  OBVIOUS
<1>2. ASSUME NEW x \in 0 .. n - 1, NEW y \in 0 .. n - 1
      PROVE  y * n + x \in P /\ (y * n + x) \div n = y /\ (y * n + x) % n = x
  <2>1. y \in Nat /\ y < n
    OBVIOUS
  <2>2. y * n + x \in Nat /\ (y * n + x) \div n = y /\ (y * n + x) % n = x
    BY <2>1, Position
  <2>3. y * n \in Nat /\ y * n + n <= n * n
    BY <2>1, Multiples
  <2>4. y * n + x \in P
    BY <1>1, <2>3
  <2> QED BY <2>2, <2>4
<1> HIDE DEF D, P
<1>3. f \in [D -> P]
  BY <1>2 DEF D
<1>4. \A k, l \in D : f[k] = f[l] => k = l
  <2> SUFFICES ASSUME NEW k \in D, NEW l \in D, f[k] = f[l] PROVE k = l
    OBVIOUS
  <2>1. Y[k] * n + X[k] = Y[l] * n + X[l]
    OBVIOUS
  <2>2. /\ (Y[k] * n + X[k]) \div n = Y[k] /\ (Y[k] * n + X[k]) % n = X[k]
        /\ (Y[l] * n + X[l]) \div n = Y[l] /\ (Y[l] * n + X[l]) % n = X[l]
    BY <1>2 DEF D
  <2>3. X[k] = X[l] /\ Y[k] = Y[l]
    BY <2>1, <2>2, Zenon
  <2> QED BY <2>3 DEF D
<1>5. f \in Injection(D, P)
  <2> HIDE DEF f
  <2> QED BY <1>3, <1>4 DEF Injection, IsInjective
<1>6. IsFiniteSet(D) /\ IsFiniteSet(P) /\ Cardinality(D) = Cardinality(P)
  <2>1. \A a \in Nat \ {0} : 1 \in Int /\ 0 \in Int /\ a \in Int /\ a - 1 \in Int
           /\ (IF 1 > a THEN 0 ELSE a - 1 + 1) = a
           /\ (IF 0 > a - 1 THEN 0 ELSE (a - 1) - 0 + 1) = a
    OBVIOUS
  <2> QED BY <1>1, <2>1, FS_Interval DEF D, P
<1>7. f \in Surjection(D, P)
  BY <1>5, <1>6, FS_Injection
<1>8. ASSUME NEW x \in 0 .. n - 1, NEW y \in 0 .. n - 1
      PROVE  \E k \in D : X[k] = x /\ Y[k] = y
  <2>1. y * n + x \in P /\ (y * n + x) \div n = y /\ (y * n + x) % n = x
    BY <1>2
  <2>2. PICK k \in D : f[k] = y * n + x
    BY <1>7, <2>1 DEF Surjection
  <2>3. Y[k] * n + X[k] = y * n + x
    BY <2>2
  <2>4. (Y[k] * n + X[k]) \div n = Y[k] /\ (Y[k] * n + X[k]) % n = X[k]
    BY <1>2 DEF D
  <2>5. X[k] = x /\ Y[k] = y
    BY <2>1, <2>3, <2>4, Zenon
  <2> QED BY <2>5
<1> QED BY <1>8 DEF D, Complete

(* The recursion in Spiral, up to block m. *)
IsSpiral(block, n, m) ==
  block = [k \in 1 .. m |->
             IF k = 1 THEN [x |-> 0, y |-> 0, i |-> 0, prev |-> "up", dir |-> "up"]
             ELSE NextBlock(block[k - 1], n)]

(* There is such a spiral. *)
LEMMA SpiralExists ==
  ASSUME NEW n, NEW m \in Nat
  PROVE  \E block : IsSpiral(block, n, m)
<1> DEFINE T == {k \in Nat : \E f : IsSpiral(f, n, k)}
           first == [x |-> 0, y |-> 0, i |-> 0, prev |-> "up", dir |-> "up"]
<1>1. 0 \in T
  <2> DEFINE f == [k \in 1 .. 0 |-> k]
  <2>1. IsSpiral(f, n, 0)
    BY DEF IsSpiral
  <2> HIDE DEF f
  <2> QED BY <2>1
<1> HIDE DEF first
<1>2. ASSUME NEW k \in T PROVE k + 1 \in T
  <2>1. PICK f : IsSpiral(f, n, k)
    BY <1>2
  <2> DEFINE h == [i \in 1 .. k + 1 |-> IF i = 1 THEN first ELSE NextBlock(f[i - 1], n)]
  <2>2. k \in Nat
    BY <1>2
  <2>3. ASSUME NEW i \in 1 .. k PROVE h[i] = f[i]
    <3>1. i \in 1 .. k + 1
      BY <2>2
    <3>2. f[i] = IF i = 1 THEN first ELSE NextBlock(f[i - 1], n)
      BY <2>1, Zenon DEF IsSpiral, first
    <3> QED BY <3>1, <3>2
  <2> HIDE DEF h
  <2>4. ASSUME NEW i \in 1 .. k + 1, i # 1 PROVE f[i - 1] = h[i - 1]
    <3>1. i - 1 \in 1 .. k
      BY <2>2, <2>4
    <3> QED BY <2>3, <3>1
  <2>5. h = [i \in 1 .. k + 1 |-> IF i = 1 THEN first ELSE NextBlock(h[i - 1], n)]
    BY <2>4 DEF h
  <2>6. IsSpiral(h, n, k + 1)
    BY <2>5, Zenon DEF IsSpiral, first
  <2> QED BY <2>2, <2>6
<1> HIDE DEF T
<1>3. T \in SUBSET Nat
  BY DEF T
<1>4. m \in T
  BY <1>1, <1>2, <1>3, Induction
<1> QED BY <1>4 DEF T

(* Spiral begins in the corner and goes on with NextBlock. *)
LEMMA SpiralBlocks ==
  ASSUME NEW n \in Nat \ {0}
  PROVE  /\ Spiral(n)[1] = [x |-> 0, y |-> 0, i |-> 0, prev |-> "up", dir |-> "up"]
         /\ \A k \in 1 .. n * n : k # 1 => Spiral(n)[k] = NextBlock(Spiral(n)[k - 1], n)
<1>1. n * n \in Nat \ {0}
  OBVIOUS
<1>2. \E block : IsSpiral(block, n, n * n)
  BY <1>1, SpiralExists
<1>3. Spiral(n) = CHOOSE block : IsSpiral(block, n, n * n)
  BY Zenon DEF Spiral, IsSpiral
<1>4. IsSpiral(Spiral(n), n, n * n)
  BY <1>2, <1>3, Zenon
<1> DEFINE s == Spiral(n)
           first == [x |-> 0, y |-> 0, i |-> 0, prev |-> "up", dir |-> "up"]
<1> HIDE DEF first
<1>5. s = [k \in 1 .. n * n |-> IF k = 1 THEN first ELSE NextBlock(s[k - 1], n)]
  BY <1>4, Zenon DEF IsSpiral, first
<1> HIDE DEF s
<1>6. s[1] = first /\ \A k \in 1 .. n * n : k # 1 => s[k] = NextBlock(s[k - 1], n)
  BY <1>1, <1>5
<1> QED BY <1>6 DEF s, first

(* A square of 2 c + 1 by 2 c + 1 blocks has c + 1 rings, of which ring i  *)
(* begins after this many blocks.                                          *)
RingStart(c, i) == 4 * (i * (2 * c + 1 - i))

(* A ring of the spiral begins where the one around it ends. *)
LEMMA RingStarts ==
  ASSUME NEW c \in Nat
  PROVE  /\ \A i \in 0 .. c : RingStart(c, i) \in Int
         /\ \A i \in 0 .. c : i < c => RingStart(c, i + 1) = RingStart(c, i) + 4 * (2 * c - 2 * i)
         /\ RingStart(c, 0) = 0
         /\ RingStart(c, c) + 1 = (2 * c + 1) * (2 * c + 1)
<1>1. ASSUME NEW i \in 0 .. c
      PROVE  /\ i * (2 * c + 1 - i) \in Int
             /\ (i + 1) * (2 * c + 1 - (i + 1)) = i * (2 * c + 1 - i) + (2 * c - 2 * i)
  OBVIOUS
<1>2. 0 * (2 * c + 1 - 0) = 0
  OBVIOUS
<1>3. 4 * (c * (2 * c + 1 - c)) + 1 = (2 * c + 1) * (2 * c + 1)
  OBVIOUS
<1> QED BY <1>1, <1>2, <1>3 DEF RingStart

(* Block x, y is on ring i, r blocks after the first of the spiral, on the *)
(* way up, to the left, down, to the right, or in the centre.              *)
OnRing(c, i, x, y, r) ==
  LET far == 2 * c - i
      q == r - RingStart(c, i)
  IN  \/ x = i /\ y \in i .. far - 1 /\ q = y - i
      \/ y = far /\ x \in i .. far - 1 /\ q = (far - i) + (x - i)
      \/ x = far /\ y \in i + 1 .. far /\ q = 2 * (far - i) + (far - y)
      \/ y = i /\ x \in i + 1 .. far /\ q = 3 * (far - i) + (far - x)
      \/ i = far /\ x = i /\ y = i /\ q = 0

(* A block is in one place of the spiral. *)
LEMMA OnOneRing ==
  ASSUME NEW c \in Nat, NEW i \in 0 .. c, NEW j \in 0 .. c, NEW x \in Int, NEW y \in Int,
         NEW r \in Int, NEW u \in Int, OnRing(c, i, x, y, r), OnRing(c, j, x, y, u)
  PROVE  r = u
<1>1. RingStart(c, i) \in Int /\ RingStart(c, j) \in Int
  BY RingStarts
<1>2. i = j
  BY <1>1 DEF OnRing
<1>3. RingStart(c, i) = RingStart(c, j)
  BY <1>2
<1> QED BY <1>1, <1>2, <1>3 DEF OnRing

Directions == {"up", "left", "down", "right"}

BlockType == [x : Int, y : Int, i : Nat, prev : Directions, dir : Directions]

(* Block b comes after r others, and where the spiral goes from it. *)
Heading(c, b, r) ==
  LET i == b.i
      far == 2 * c - i
      q == r - RingStart(c, i)
  IN  /\ i <= c
      /\ \/ b.dir = "up" /\ b.x = i /\ b.y \in i - 1 .. far - 1 /\ b.y >= 0 /\ q = b.y - i
         \/ /\ b.dir = "left" /\ b.y = far /\ b.x \in i .. far /\ (b.x = far => i = far)
            /\ q = (far - i) + (b.x - i)
         \/ b.dir = "down" /\ b.x = far /\ b.y \in i + 1 .. far /\ q = 2 * (far - i) + (far - b.y)
         \/ b.dir = "right" /\ b.y = i /\ b.x \in i + 2 .. far /\ q = 3 * (far - i) + (far - b.x)

(* The block it is at lies on its ring. *)
LEMMA HeadingOnRing ==
  ASSUME NEW c \in Nat, NEW b \in BlockType, NEW r \in Int, Heading(c, b, r)
  PROVE  /\ b.x \in 0 .. 2 * c /\ b.y \in 0 .. 2 * c
         /\ \E i \in 0 .. c : OnRing(c, i, b.x, b.y, r)
<1> DEFINE i == b.i
           x == b.x
           y == b.y
           far == 2 * c - i
           q == r - RingStart(c, i)
<1>1. i \in 0 .. c /\ x \in Int /\ y \in Int
  BY DEF Heading, BlockType
<1>2. RingStart(c, i) \in Int
  BY <1>1, RingStarts
<1>3. \/ x = i /\ y \in i - 1 .. far - 1 /\ y >= 0 /\ q = y - i
      \/ y = far /\ x \in i .. far /\ (x = far => i = far) /\ q = (far - i) + (x - i)
      \/ x = far /\ y \in i + 1 .. far /\ q = 2 * (far - i) + (far - y)
      \/ y = i /\ x \in i + 2 .. far /\ q = 3 * (far - i) + (far - x)
  BY Zenon DEF Heading
<1> HIDE DEF i, x, y
<1>4. CASE x = i /\ y = i - 1 /\ y >= 0 /\ q = y - i
  <2>1. y \in 0 .. c /\ y < c /\ i = y + 1
    BY <1>1, <1>4
  <2>2. RingStart(c, i) = RingStart(c, y) + 4 * (2 * c - 2 * y) /\ RingStart(c, y) \in Int
    BY <2>1, RingStarts
  <2>3. OnRing(c, y, x, y, r)
    <3>1. r - RingStart(c, y) = 3 * ((2 * c - y) - y) + ((2 * c - y) - x)
      BY <1>1, <1>4, <2>1, <2>2
    <3>2. x \in y + 1 .. 2 * c - y
      BY <1>1, <1>4, <2>1
    <3> QED BY <3>1, <3>2 DEF OnRing
  <2>4. x \in 0 .. 2 * c /\ y \in 0 .. 2 * c
    BY <1>1, <1>4, <2>1
  <2> QED BY <2>1, <2>3, <2>4 DEF x, y
<1>5. CASE ~ (x = i /\ y = i - 1 /\ y >= 0 /\ q = y - i)
  <2>1. x \in 0 .. 2 * c /\ y \in 0 .. 2 * c
    BY <1>1, <1>2, <1>3, <1>5
  <2>2. OnRing(c, i, x, y, r)
    BY <1>1, <1>2, <1>3, <1>5 DEF OnRing
  <2> QED BY <1>1, <2>1, <2>2 DEF x, y
<1> QED BY <1>4, <1>5

(* What a step of the spiral changes of a block. *)
LEMMA StepUp ==
  ASSUME NEW b \in BlockType, b.dir = "up", NEW n \in Int
  PROVE  LET d == NextBlock(b, n) IN
         /\ d \in BlockType /\ d.x = b.x /\ d.y = b.y + 1 /\ d.i = b.i
         /\ d.dir = IF b.y + 1 = n - b.i - 1 THEN "left" ELSE "up"
<1> DEFINE d == NextBlock(b, n)
           turn == IF b.y + 1 = n - b.i - 1 THEN "left" ELSE "up"
<1>1. d = [b EXCEPT !.y = b.y + 1, !.prev = "up", !.dir = turn]
  BY DEF NextBlock
<1>2. turn \in Directions
  BY DEF Directions, BlockType
<1> HIDE DEF d, turn
<1>3. d.x = b.x /\ d.y = b.y + 1 /\ d.i = b.i /\ d.dir = turn
  BY <1>1, <1>2 DEF BlockType
<1>4. d \in BlockType
  <2> DEFINE v == b.y + 1
  <2>1. v \in Int /\ "up" \in Directions
    BY DEF BlockType, Directions
  <2>2. d = [b EXCEPT !.y = v, !.prev = "up", !.dir = turn]
    BY <1>1
  <2> HIDE DEF v
  <2> QED BY <1>2, <2>1, <2>2 DEF BlockType
<1> QED BY <1>3, <1>4 DEF d, turn

(* The same of a step in direction left, ... *)
LEMMA StepLeft ==
  ASSUME NEW b \in BlockType, b.dir = "left", NEW n \in Int
  PROVE  LET d == NextBlock(b, n) IN
         /\ d \in BlockType /\ d.x = b.x + 1 /\ d.y = b.y /\ d.i = b.i
         /\ d.dir = IF b.x + 1 = n - b.i - 1 THEN "down" ELSE "left"
<1> DEFINE d == NextBlock(b, n)
           turn == IF b.x + 1 = n - b.i - 1 THEN "down" ELSE "left"
<1>1. d = [b EXCEPT !.x = b.x + 1, !.prev = "left", !.dir = turn]
  BY DEF NextBlock
<1>2. turn \in Directions
  BY DEF Directions, BlockType
<1> HIDE DEF d, turn
<1>3. d.x = b.x + 1 /\ d.y = b.y /\ d.i = b.i /\ d.dir = turn
  BY <1>1, <1>2 DEF BlockType
<1>4. d \in BlockType
  <2> DEFINE v == b.x + 1
  <2>1. v \in Int /\ "left" \in Directions
    BY DEF BlockType, Directions
  <2>2. d = [b EXCEPT !.x = v, !.prev = "left", !.dir = turn]
    BY <1>1
  <2> HIDE DEF v
  <2> QED BY <1>2, <2>1, <2>2 DEF BlockType
<1> QED BY <1>3, <1>4 DEF d, turn

(* ... in direction down, ... *)
LEMMA StepDown ==
  ASSUME NEW b \in BlockType, b.dir = "down", NEW n \in Int
  PROVE  LET d == NextBlock(b, n) IN
         /\ d \in BlockType /\ d.x = b.x /\ d.y = b.y - 1 /\ d.i = b.i
         /\ d.dir = IF b.y - 1 = b.i THEN "right" ELSE "down"
<1> DEFINE d == NextBlock(b, n)
           turn == IF b.y - 1 = b.i THEN "right" ELSE "down"
<1>1. d = [b EXCEPT !.y = b.y - 1, !.prev = "down", !.dir = turn]
  BY DEF NextBlock
<1>2. turn \in Directions
  BY DEF Directions, BlockType
<1> HIDE DEF d, turn
<1>3. d.x = b.x /\ d.y = b.y - 1 /\ d.i = b.i /\ d.dir = turn
  BY <1>1, <1>2 DEF BlockType
<1>4. d \in BlockType
  <2> DEFINE v == b.y - 1
  <2>1. v \in Int /\ "down" \in Directions
    BY DEF BlockType, Directions
  <2>2. d = [b EXCEPT !.y = v, !.prev = "down", !.dir = turn]
    BY <1>1
  <2> HIDE DEF v
  <2> QED BY <1>2, <2>1, <2>2 DEF BlockType
<1> QED BY <1>3, <1>4 DEF d, turn

(* ... and in direction right, at whose end the next ring begins. *)
LEMMA StepRight ==
  ASSUME NEW b \in BlockType, b.dir = "right", NEW n \in Int
  PROVE  LET d == NextBlock(b, n) IN
         /\ d \in BlockType /\ d.x = b.x - 1 /\ d.y = b.y /\ d.i = (IF b.x - 1 = b.i + 1 THEN b.i + 1 ELSE b.i)
         /\ d.dir = IF b.x - 1 = b.i + 1 THEN "up" ELSE "right"
<1> DEFINE d == NextBlock(b, n)
           turn == IF b.x - 1 = b.i + 1 THEN "up" ELSE "right"
           ring == IF b.x - 1 = b.i + 1 THEN b.i + 1 ELSE b.i
<1>1. d = [b EXCEPT !.x = b.x - 1, !.prev = "right", !.dir = turn, !.i = ring]
  BY DEF NextBlock
<1>2. turn \in Directions /\ ring \in Nat
  BY DEF Directions, BlockType
<1> HIDE DEF d, turn, ring
<1>3. d.x = b.x - 1 /\ d.y = b.y /\ d.i = ring /\ d.dir = turn
  BY <1>1, <1>2 DEF BlockType
<1>4. d \in BlockType
  <2> DEFINE v == b.x - 1
  <2>1. v \in Int /\ "right" \in Directions
    BY DEF BlockType, Directions
  <2>2. d = [b EXCEPT !.x = v, !.prev = "right", !.dir = turn, !.i = ring]
    BY <1>1
  <2> HIDE DEF v
  <2> QED BY <1>2, <2>1, <2>2 DEF BlockType
<1> QED BY <1>3, <1>4 DEF d, turn, ring

(* The next block is one further. *)
LEMMA HeadingNext ==
  ASSUME NEW c \in Nat, NEW b \in BlockType, NEW r \in Int, Heading(c, b, r),
         r + 1 < (2 * c + 1) * (2 * c + 1)
  PROVE  /\ NextBlock(b, 2 * c + 1) \in BlockType
         /\ Heading(c, NextBlock(b, 2 * c + 1), r + 1)
<1> DEFINE n == 2 * c + 1
           i == b.i
           x == b.x
           y == b.y
           far == 2 * c - i
           q == r - RingStart(c, i)
           d == NextBlock(b, n)
<1>1. i \in 0 .. c /\ x \in Int /\ y \in Int /\ b.dir \in Directions /\ b.prev \in Directions
  BY DEF Heading, BlockType
<1>2. RingStart(c, i) \in Int /\ far \in Int /\ q \in Int
  <2> HIDE DEF i
  <2>1. RingStart(c, i) \in Int
    BY <1>1, RingStarts, Zenon
  <2> QED BY <1>1, <2>1
<1>3. n - i - 1 = far
  BY <1>1
<1>4. \/ b.dir = "up" /\ x = i /\ y \in i - 1 .. far - 1 /\ y >= 0 /\ q = y - i
      \/ b.dir = "left" /\ y = far /\ x \in i .. far /\ (x = far => i = far) /\ q = (far - i) + (x - i)
      \/ b.dir = "down" /\ x = far /\ y \in i + 1 .. far /\ q = 2 * (far - i) + (far - y)
      \/ b.dir = "right" /\ y = i /\ x \in i + 2 .. far /\ q = 3 * (far - i) + (far - x)
  BY Zenon DEF Heading
<1>5. CASE b.dir = "up"
  <2>1. n \in Int
    OBVIOUS
  <2>2. /\ d \in BlockType /\ d.x = x /\ d.y = y + 1 /\ d.i = i
        /\ d.dir = IF y + 1 = n - i - 1 THEN "left" ELSE "up"
    BY <1>5, <2>1, StepUp, Zenon
  <2> HIDE DEF d, x, y, i
  <2>3. x = i /\ y \in i - 1 .. far - 1 /\ y >= 0 /\ q = y - i
    BY <1>4, <1>5
  <2>4. Heading(c, d, r + 1)
    BY <1>1, <1>2, <1>3, <2>2, <2>3 DEF Heading
  <2> QED BY <2>2, <2>4 DEF d
<1>6. CASE b.dir = "left"
  <2>1. n \in Int
    OBVIOUS
  <2>2. /\ d \in BlockType /\ d.x = x + 1 /\ d.y = y /\ d.i = i
        /\ d.dir = IF x + 1 = n - i - 1 THEN "down" ELSE "left"
    BY <1>6, <2>1, StepLeft, Zenon
  <2> HIDE DEF d, x, y, i
  <2>3. y = far /\ x \in i .. far /\ (x = far => i = far) /\ q = (far - i) + (x - i)
    BY <1>4, <1>6
  <2>4. x # far
    <3> SUFFICES ASSUME x = far PROVE FALSE
      OBVIOUS
    <3>1. i = c /\ q = 0
      BY <1>1, <2>3
    <3>2. RingStart(c, c) + 1 = (2 * c + 1) * (2 * c + 1) /\ (2 * c + 1) * (2 * c + 1) \in Int
      BY RingStarts
    <3> QED BY <1>2, <3>1, <3>2
  <2>5. Heading(c, d, r + 1)
    BY <1>1, <1>2, <1>3, <2>2, <2>3, <2>4 DEF Heading
  <2> QED BY <2>2, <2>5 DEF d
<1>7. CASE b.dir = "down"
  <2>1. n \in Int
    OBVIOUS
  <2>2. /\ d \in BlockType /\ d.x = x /\ d.y = y - 1 /\ d.i = i
        /\ d.dir = IF y - 1 = i THEN "right" ELSE "down"
    BY <1>7, <2>1, StepDown, Zenon
  <2> HIDE DEF d, x, y, i
  <2>3. x = far /\ y \in i + 1 .. far /\ q = 2 * (far - i) + (far - y)
    BY <1>4, <1>7
  <2>4. Heading(c, d, r + 1)
    BY <1>1, <1>2, <1>3, <2>2, <2>3 DEF Heading
  <2> QED BY <2>2, <2>4 DEF d
<1>8. CASE b.dir = "right"
  <2>1. n \in Int
    OBVIOUS
  <2>2. /\ d \in BlockType /\ d.x = x - 1 /\ d.y = y /\ d.i = (IF x - 1 = i + 1 THEN i + 1 ELSE i)
        /\ d.dir = IF x - 1 = i + 1 THEN "up" ELSE "right"
    BY <1>8, <2>1, StepRight, Zenon
  <2> HIDE DEF d, x, y, i
  <2>3. y = i /\ x \in i + 2 .. far /\ q = 3 * (far - i) + (far - x)
    BY <1>4, <1>8
  <2>4. i < c
    BY <1>1, <2>3
  <2>5. RingStart(c, i + 1) = RingStart(c, i) + 4 * (2 * c - 2 * i)
    BY <1>1, <2>4, RingStarts
  <2>6. CASE x - 1 = i + 1
    <3>1. d.i = i + 1 /\ d.x = i + 1 /\ d.y = i /\ d.dir = "up"
      BY <1>1, <2>2, <2>3, <2>6
    <3>2. (r + 1) - RingStart(c, i + 1) = i - (i + 1)
      BY <1>1, <1>2, <2>3, <2>5, <2>6
    <3> HIDE DEF d
    <3>3. (r + 1) - RingStart(c, d.i) = d.y - d.i
      BY <3>1, <3>2
    <3>4. /\ d.i <= c /\ d.dir = "up" /\ d.x = d.i /\ d.y >= 0
          /\ d.y \in d.i - 1 .. (2 * c - d.i) - 1
      BY <1>1, <2>4, <3>1
    <3>5. Heading(c, d, r + 1)
      BY <3>3, <3>4, Zenon DEF Heading
    <3> QED BY <2>2, <3>5 DEF d
  <2>7. CASE x - 1 # i + 1
    <3>1. Heading(c, d, r + 1)
      BY <1>1, <1>2, <2>2, <2>3, <2>7 DEF Heading
    <3> QED BY <2>2, <3>1 DEF d
  <2> QED BY <2>6, <2>7
<1> QED BY <1>1, <1>5, <1>6, <1>7, <1>8 DEF Directions

(* So each block of the spiral is where its place in the order says. *)
LEMMA SpiralHeadings ==
  ASSUME NEW c \in Nat \ {0}, NEW n, n = 2 * c + 1, NEW k \in 1 .. n * n
  PROVE  Spiral(n)[k] \in BlockType /\ Heading(c, Spiral(n)[k], k - 1)
<1> DEFINE s == Spiral(n)
           N == n * n
           T == {j \in 1 .. N : s[j] \in BlockType /\ Heading(c, s[j], j - 1)}
<1>1. n \in Nat \ {0} /\ N \in Nat \ {0} /\ N = (2 * c + 1) * (2 * c + 1)
  OBVIOUS
<1>2. /\ s[1] = [x |-> 0, y |-> 0, i |-> 0, prev |-> "up", dir |-> "up"]
      /\ \A j \in 1 .. N : j # 1 => s[j] = NextBlock(s[j - 1], n)
  BY <1>1, SpiralBlocks
<1> HIDE DEF s, N
<1>3. 1 \in T
  <2>1. s[1] \in BlockType /\ s[1].dir = "up" /\ s[1].x = 0 /\ s[1].y = 0 /\ s[1].i = 0
    BY <1>2 DEF BlockType, Directions
  <2>2. RingStart(c, 0) = 0
    BY RingStarts
  <2>3. Heading(c, s[1], 1 - 1)
    BY <2>1, <2>2 DEF Heading
  <2> QED BY <1>1, <2>1, <2>3
<1>4. ASSUME NEW j \in 1 .. N - 1, j \in T PROVE j + 1 \in T
  <2>1. j + 1 \in 1 .. N /\ j + 1 # 1 /\ (j + 1) - 1 = j /\ j - 1 \in Int /\ (j - 1) + 1 = j
        /\ j < N
    BY <1>1
  <2>2. s[j + 1] = NextBlock(s[j], n)
    BY <1>2, <2>1
  <2>3. s[j] \in BlockType /\ Heading(c, s[j], j - 1)
    BY <1>4
  <2>4. (j - 1) + 1 < (2 * c + 1) * (2 * c + 1)
    BY <1>1, <2>1, Zenon
  <2>5. /\ NextBlock(s[j], 2 * c + 1) \in BlockType
        /\ Heading(c, NextBlock(s[j], 2 * c + 1), (j - 1) + 1)
    BY <2>1, <2>3, <2>4, HeadingNext
  <2>6. s[j + 1] \in BlockType /\ Heading(c, s[j + 1], (j + 1) - 1)
    BY <2>1, <2>2, <2>5, Zenon
  <2> QED BY <2>1, <2>6
<1> HIDE DEF T
<1>5. \A j \in 1 .. N : j \in T
  BY <1>1, <1>3, <1>4, InductionUpTo
<1> QED BY <1>5 DEF T, s, N

(* The spiral comes to each block of the square once. *)
LEMMA SpiralPositions ==
  ASSUME NEW c \in Nat, NEW n, n = 2 * c + 1
  PROVE  LET s == Spiral(n) IN
         /\ \A k \in 1 .. n * n : s[k].x \in 0 .. n - 1 /\ s[k].y \in 0 .. n - 1
         /\ \A k, l \in 1 .. n * n : s[k].x = s[l].x /\ s[k].y = s[l].y => k = l
<1> DEFINE s == Spiral(n)
           N == n * n
<1>1. n \in Nat \ {0} /\ N \in Nat \ {0} /\ n - 1 = 2 * c
  OBVIOUS
<1>2. CASE c = 0
  <2>1. n = 1 /\ N = 1
    BY <1>2
  <2>2. s[1] = [x |-> 0, y |-> 0, i |-> 0, prev |-> "up", dir |-> "up"]
    BY <1>1, SpiralBlocks
  <2> HIDE DEF s, N
  <2>3. s[1].x = 0 /\ s[1].y = 0 /\ 1 .. 1 = {1} /\ 0 .. 1 - 1 = {0}
    BY <2>2
  <2>4. /\ \A k \in 1 .. N : s[k].x \in 0 .. n - 1 /\ s[k].y \in 0 .. n - 1
        /\ \A k, l \in 1 .. N : s[k].x = s[l].x /\ s[k].y = s[l].y => k = l
    BY <2>1, <2>3
  <2> QED BY <2>4 DEF s, N
<1>3. CASE c # 0
  <2>1. \A k \in 1 .. N : s[k] \in BlockType /\ Heading(c, s[k], k - 1)
    BY <1>3, SpiralHeadings
  <2> HIDE DEF s, N
  <2>2. ASSUME NEW k \in 1 .. N
        PROVE  /\ s[k].x \in 0 .. 2 * c /\ s[k].y \in 0 .. 2 * c
               /\ \E i \in 0 .. c : OnRing(c, i, s[k].x, s[k].y, k - 1)
    <3>1. k - 1 \in Int
      BY <1>1
    <3> QED BY <2>1, <3>1, HeadingOnRing
  <2>3. ASSUME NEW k \in 1 .. N, NEW l \in 1 .. N, s[k].x = s[l].x, s[k].y = s[l].y
        PROVE  k = l
    <3> DEFINE x == s[k].x
               y == s[k].y
    <3>1. PICK i \in 0 .. c : OnRing(c, i, x, y, k - 1)
      BY <2>2
    <3>2. PICK j \in 0 .. c : OnRing(c, j, x, y, l - 1)
      BY <2>2, <2>3
    <3>3. x \in Int /\ y \in Int /\ k - 1 \in Int /\ l - 1 \in Int
      BY <1>1, <2>2
    <3> HIDE DEF x, y
    <3>4. k - 1 = l - 1
      BY <3>1, <3>2, <3>3, OnOneRing
    <3> QED BY <1>1, <3>4
  <2> QED BY <1>1, <2>2, <2>3 DEF s, N
<1> QED BY <1>2, <1>3

(* The code leaves the loop over the blocks at the center.  That is the    *)
(* last of the n * n blocks, and none before it.                           *)
THEOREM SpiralStops ==
  ASSUME NEW c \in Nat, NEW n, n = 2 * c + 1, NEW k \in 1 .. n * n
  PROVE  Spiral(n)[k].x = c /\ Spiral(n)[k].y = c <=> k = n * n
<1> DEFINE s == Spiral(n)
           N == n * n
<1>1. n \in Nat \ {0} /\ N \in Nat \ {0} /\ c \in 0 .. n - 1
  OBVIOUS
<1>2. /\ \A l \in 1 .. N : s[l].x \in 0 .. n - 1 /\ s[l].y \in 0 .. n - 1
      /\ \A l, m \in 1 .. N : s[l].x = s[m].x /\ s[l].y = s[m].y => l = m
  BY SpiralPositions
<1>3. \E l \in 1 .. N : s[l].x = c /\ s[l].y = c
  <2> DEFINE X == [l \in 1 .. N |-> s[l].x]
             Y == [l \in 1 .. N |-> s[l].y]
  <2>1. \A l \in 1 .. N : X[l] = s[l].x /\ Y[l] = s[l].y
    OBVIOUS
  <2> HIDE DEF X, Y, s
  <2>2. Different(n, X, Y)
    BY <1>2, <2>1 DEF Different
  <2>3. Complete(n, X, Y)
    BY <1>1, <2>2, AllPositions
  <2> QED BY <1>1, <2>1, <2>3 DEF Complete
<1>4. PICK l \in 1 .. N : s[l].x = c /\ s[l].y = c
  BY <1>3
<1>5. l = N
  <2>1. CASE c = 0
    BY <2>1
  <2>2. CASE c # 0
    <3>1. s[l] \in BlockType /\ Heading(c, s[l], l - 1) /\ l - 1 \in Int
      BY <2>2, SpiralHeadings
    <3> DEFINE b == s[l]
    <3>2. b.x = c /\ b.y = c
      BY <1>4
    <3> HIDE DEF s, b
    <3>3. PICK i \in 0 .. c : OnRing(c, i, c, c, l - 1)
      <4>1. \E i \in 0 .. c : OnRing(c, i, b.x, b.y, l - 1)
        BY <3>1, HeadingOnRing DEF b
      <4> QED BY <3>2, <4>1
    <3>4. OnRing(c, c, c, c, N - 1) /\ N - 1 \in Int /\ c \in Int /\ c \in 0 .. c
      <4>1. RingStart(c, c) \in Int /\ RingStart(c, c) + 1 = N
        BY RingStarts
      <4> QED BY <1>1, <4>1 DEF OnRing
    <3>5. l - 1 = N - 1
      BY <3>1, <3>3, <3>4, OnOneRing
    <3> QED BY <1>1, <3>5
  <2> QED BY <2>1, <2>2
<1> HIDE DEF s, N
<1>6. k \in 1 .. N /\ (s[k].x = c /\ s[k].y = c => k = l)
  <2>1. k \in 1 .. N
    BY DEF N
  <2> QED BY <1>2, <1>4, <2>1, Zenon
<1>7. k = N => s[k].x = c /\ s[k].y = c
  BY <1>4, <1>5, Zenon
<1>8. s[k].x = c /\ s[k].y = c <=> k = N
  BY <1>5, <1>6, <1>7, Zenon
<1> QED BY <1>8, Zenon DEF s, N

-----------------------------------------------------------------------------
(* The curve through a block.                                              *)

(* The recursion in HilbertPos. *)
IsCurve(pos, n, d) ==
  pos = [s \in 1 .. n |->
           IF s = 1 THEN [x |-> 0, y |-> 0, d |-> d]
           ELSE Quadrant(pos[s \div 2], s \div 2)]

(* There is such a curve. *)
LEMMA CurveExists ==
  ASSUME NEW n \in {4, 8}, NEW d
  PROVE  \E pos : IsCurve(pos, n, d)
<1> DEFINE p == [x |-> 0, y |-> 0, d |-> d]
           p2 == Quadrant(p, 1)
           p4 == Quadrant(p2, 2)
           p6 == Quadrant(p2, 3)
           p8 == Quadrant(p4, 4)
           At(s) == IF s = 1 THEN p
                    ELSE IF s \in {2, 3} THEN p2
                    ELSE IF s \in {4, 5} THEN p4
                    ELSE IF s \in {6, 7} THEN p6
                    ELSE p8
           f == [s \in 1 .. n |-> At(s)]
<1> HIDE DEF p, p2, p4, p6, p8
<1>1. \A s \in 1 .. n : s \in {1, 2, 3, 4, 5, 6, 7, 8} /\ s \div 2 \in Int
  OBVIOUS
<1>2. ASSUME NEW s \in 1 .. n, s # 1
      PROVE  f[s] = Quadrant(f[s \div 2], s \div 2)
  <2>1. /\ 2 \div 2 = 1 /\ 3 \div 2 = 1 /\ 4 \div 2 = 2 /\ 5 \div 2 = 2
        /\ 6 \div 2 = 3 /\ 7 \div 2 = 3 /\ 8 \div 2 = 4
    OBVIOUS
  <2>2. s \in {2, 3, 4, 5, 6, 7, 8} /\ f[s] = At(s)
    BY <1>1, <1>2
  <2>3. s \div 2 \in 1 .. n
    BY <1>2
  <2>4. f[s \div 2] = At(s \div 2)
    BY <2>3
  <2> HIDE DEF f
  <2>5. At(s) = Quadrant(At(s \div 2), s \div 2)
    BY <2>1, <2>2 DEF p2, p4, p6, p8
  <2> QED BY <2>2, <2>4, <2>5, Zenon
<1>3. 1 \in 1 .. n /\ f[1] = p
  OBVIOUS
<1>4. f = [s \in 1 .. n |-> f[s]]
  OBVIOUS
<1> HIDE DEF f
<1>5. f = [s \in 1 .. n |-> IF s = 1 THEN p ELSE Quadrant(f[s \div 2], s \div 2)]
  BY <1>2, <1>3, <1>4
<1>6. IsCurve(f, n, d)
  BY <1>5, Zenon DEF IsCurve, p
<1> QED BY <1>6

(* The position in the square of side 4, or 8. *)
LEMMA CurveAt ==
  ASSUME NEW d
  PROVE  LET p4 == Quadrant(Quadrant([x |-> 0, y |-> 0, d |-> d], 1), 2) IN
         HilbertPos(4, d) = p4 /\ HilbertPos(8, d) = Quadrant(p4, 4)
<1> DEFINE p == [x |-> 0, y |-> 0, d |-> d]
<1>1. ASSUME NEW n \in {4, 8}
      PROVE  \E f : IsCurve(f, n, d) /\ HilbertPos(n, d) = f[n]
  <2> DEFINE f == CHOOSE pos : IsCurve(pos, n, d)
  <2>1. IsCurve(f, n, d)
    BY CurveExists, Zenon
  <2>2. HilbertPos(n, d) = f[n]
    BY Zenon DEF HilbertPos, IsCurve
  <2> QED BY <2>1, <2>2, Zenon
<1> HIDE DEF p
<1>2. ASSUME NEW n \in {4, 8}, NEW f, IsCurve(f, n, d)
      PROVE  /\ f[4] = Quadrant(Quadrant(p, 1), 2)
             /\ n = 8 => f[8] = Quadrant(Quadrant(Quadrant(p, 1), 2), 4)
  <2>1. \A s \in 1 .. n : f[s] = IF s = 1 THEN p ELSE Quadrant(f[s \div 2], s \div 2)
    <3>1. f = [s \in 1 .. n |-> IF s = 1 THEN p ELSE Quadrant(f[s \div 2], s \div 2)]
      BY <1>2, Zenon DEF IsCurve, p
    <3> QED BY <3>1
  <2>2. 2 \div 2 = 1 /\ 4 \div 2 = 2 /\ 8 \div 2 = 4 /\ {1, 2, 4} \subseteq 1 .. n
    OBVIOUS
  <2>3. f[1] = p /\ f[2] = Quadrant(f[1], 1) /\ f[4] = Quadrant(f[2], 2)
    BY <2>1, <2>2
  <2>4. n = 8 => f[8] = Quadrant(f[4], 4)
    BY <2>1, <2>2
  <2> QED BY <2>3, <2>4, Zenon
<1>3. HilbertPos(4, d) = Quadrant(Quadrant(p, 1), 2)
  <2>1. 4 \in {4, 8}
    OBVIOUS
  <2> QED BY <1>1, <1>2, <2>1, Zenon
<1>4. HilbertPos(8, d) = Quadrant(Quadrant(Quadrant(p, 1), 2), 4)
  <2>1. 8 \in {4, 8}
    OBVIOUS
  <2> QED BY <1>1, <1>2, <2>1, Zenon
<1> QED BY <1>3, <1>4, Zenon DEF p

(* A quadrant keeps positions apart that were, or are in different quarters. *)
LEMMA QuadrantApart ==
  ASSUME NEW s \in Nat \ {0}, NEW p, p.x \in 0 .. s - 1, p.y \in 0 .. s - 1, p.d \in Nat
  PROVE  /\ Quadrant(p, s).x \in 0 .. 2 * s - 1 /\ Quadrant(p, s).y \in 0 .. 2 * s - 1
         /\ Quadrant(p, s).d = p.d \div 4
         /\ \A o : /\ o.x \in 0 .. s - 1 /\ o.y \in 0 .. s - 1 /\ o.d \in Nat
                   /\ Quadrant(o, s).x = Quadrant(p, s).x
                   /\ Quadrant(o, s).y = Quadrant(p, s).y
                   => p.x = o.x /\ p.y = o.y /\ p.d % 4 = o.d % 4
<1> DEFINE Rx(d) == (d \div 2) % 2
           Ry(d) == (d + Rx(d)) % 2
<1>1. ASSUME NEW d \in Nat
      PROVE  /\ d % 4 = 0 => Rx(d) = 0 /\ Ry(d) = 0
             /\ d % 4 = 1 => Rx(d) = 0 /\ Ry(d) = 1
             /\ d % 4 = 2 => Rx(d) = 1 /\ Ry(d) = 1
             /\ d % 4 = 3 => Rx(d) = 1 /\ Ry(d) = 0
             /\ d % 4 \in {0, 1, 2, 3}
  OBVIOUS
<1> HIDE DEF Rx, Ry
<1>2. ASSUME NEW o, o.x \in 0 .. s - 1, o.y \in 0 .. s - 1, o.d \in Nat
      PROVE  LET q == Quadrant(o, s) IN
             /\ q.d = o.d \div 4
             /\ o.d % 4 = 0 => q.x = o.y /\ q.y = o.x
             /\ o.d % 4 = 1 => q.x = o.x /\ q.y = o.y + s
             /\ o.d % 4 = 2 => q.x = o.x + s /\ q.y = o.y + s
             /\ o.d % 4 = 3 => q.x = (s - 1 - o.y) + s /\ q.y = s - 1 - o.x
             /\ o.d % 4 \in {0, 1, 2, 3}
  <2> DEFINE rx == Rx(o.d)
             ry == Ry(o.d)
             x == IF ry = 0 /\ rx = 1 THEN s - 1 - o.x ELSE o.x
             y == IF ry = 0 /\ rx = 1 THEN s - 1 - o.y ELSE o.y
             q == Quadrant(o, s)
  <2>1. q = [x |-> (IF ry = 0 THEN y ELSE x) + rx * s,
             y |-> (IF ry = 0 THEN x ELSE y) + ry * s,
             d |-> o.d \div 4]
    BY Zenon DEF Quadrant, Rx, Ry
  <2> HIDE DEF q
  <2>2. /\ q.x = (IF ry = 0 THEN y ELSE x) + rx * s
        /\ q.y = (IF ry = 0 THEN x ELSE y) + ry * s
        /\ q.d = o.d \div 4
    BY <2>1
  <2>3. /\ o.d % 4 = 0 => rx = 0 /\ ry = 0
        /\ o.d % 4 = 1 => rx = 0 /\ ry = 1
        /\ o.d % 4 = 2 => rx = 1 /\ ry = 1
        /\ o.d % 4 = 3 => rx = 1 /\ ry = 0
        /\ o.d % 4 \in {0, 1, 2, 3}
    BY <1>1, <1>2
  <2> HIDE DEF rx, ry
  <2>4. 0 * s = 0 /\ 1 * s = s
    OBVIOUS
  <2>5. o.x \in Int /\ o.y \in Int
    BY <1>2
  <2>6. /\ o.d % 4 = 0 => q.x = o.y /\ q.y = o.x
        /\ o.d % 4 = 1 => q.x = o.x /\ q.y = o.y + s
        /\ o.d % 4 = 2 => q.x = o.x + s /\ q.y = o.y + s
        /\ o.d % 4 = 3 => q.x = (s - 1 - o.y) + s /\ q.y = s - 1 - o.x
    BY <2>2, <2>3, <2>4, <2>5
  <2> QED BY <2>2, <2>3, <2>6 DEF q
<1>3. Quadrant(p, s).x \in 0 .. 2 * s - 1 /\ Quadrant(p, s).y \in 0 .. 2 * s - 1
  BY <1>2
<1>4. ASSUME NEW o, o.x \in 0 .. s - 1, o.y \in 0 .. s - 1, o.d \in Nat,
             Quadrant(o, s).x = Quadrant(p, s).x, Quadrant(o, s).y = Quadrant(p, s).y
      PROVE  p.x = o.x /\ p.y = o.y /\ p.d % 4 = o.d % 4
  BY <1>2, <1>4
<1> QED BY <1>2, <1>3, <1>4

(* The curve keeps inside its square and comes to no place twice. *)
LEMMA CurveInside ==
  ASSUME NEW n \in {4, 8}, NEW d \in 0 .. n * n - 1
  PROVE  /\ HilbertPos(n, d).x \in 0 .. n - 1 /\ HilbertPos(n, d).y \in 0 .. n - 1
         /\ \A e \in 0 .. n * n - 1 :
              HilbertPos(n, e).x = HilbertPos(n, d).x /\ HilbertPos(n, e).y = HilbertPos(n, d).y
              => e = d
<1> DEFINE P1(e) == [x |-> 0, y |-> 0, d |-> e]
           P2(e) == Quadrant(P1(e), 1)
           P4(e) == Quadrant(P2(e), 2)
           P8(e) == Quadrant(P4(e), 4)
<1>1. \A e : HilbertPos(4, e) = P4(e) /\ HilbertPos(8, e) = P8(e)
  BY CurveAt
<1>2. \A e \in Nat : e \div 4 \in Nat /\ (e \div 4) \div 4 \in Nat
  OBVIOUS
<1>3. \A e \in Nat : P1(e).x \in 0 .. 1 - 1 /\ P1(e).y \in 0 .. 1 - 1 /\ P1(e).d = e
  OBVIOUS
<1> HIDE DEF P1
<1>4. \A e \in Nat : P2(e).x \in 0 .. 2 * 1 - 1 /\ P2(e).y \in 0 .. 2 * 1 - 1 /\ P2(e).d = e \div 4
  BY <1>3, QuadrantApart
<1>5. \A e, f \in Nat : P2(f).x = P2(e).x /\ P2(f).y = P2(e).y => e % 4 = f % 4
  BY <1>3, QuadrantApart
<1> HIDE DEF P2
<1>6. \A e \in Nat : P2(e).x \in 0 .. 2 - 1 /\ P2(e).y \in 0 .. 2 - 1 /\ P2(e).d \in Nat
  BY <1>2, <1>4
<1>7. \A e \in Nat : P4(e).x \in 0 .. 2 * 2 - 1 /\ P4(e).y \in 0 .. 2 * 2 - 1
                     /\ P4(e).d = (e \div 4) \div 4
  <2> TAKE e \in Nat
  <2>1. 2 \in Nat \ {0} /\ P2(e).d = e \div 4
    BY <1>4
  <2>2. P2(e).x \in 0 .. 2 - 1 /\ P2(e).y \in 0 .. 2 - 1 /\ P2(e).d \in Nat
    BY <1>6
  <2>3. /\ P4(e).x \in 0 .. 2 * 2 - 1 /\ P4(e).y \in 0 .. 2 * 2 - 1
        /\ P4(e).d = P2(e).d \div 4
    BY <2>1, <2>2, QuadrantApart
  <2> QED BY <2>1, <2>3
<1>8. \A e, f \in Nat : P4(f).x = P4(e).x /\ P4(f).y = P4(e).y
         => P2(e).x = P2(f).x /\ P2(e).y = P2(f).y /\ (e \div 4) % 4 = (f \div 4) % 4
  BY <1>4, <1>6, QuadrantApart
<1> HIDE DEF P4
<1>9. \A e \in Nat : P4(e).x \in 0 .. 4 - 1 /\ P4(e).y \in 0 .. 4 - 1 /\ P4(e).d \in Nat
  BY <1>2, <1>7
<1>10. \A e \in Nat : P8(e).x \in 0 .. 2 * 4 - 1 /\ P8(e).y \in 0 .. 2 * 4 - 1
  <2> TAKE e \in Nat
  <2>1. 4 \in Nat \ {0}
    OBVIOUS
  <2>2. P4(e).x \in 0 .. 4 - 1 /\ P4(e).y \in 0 .. 4 - 1 /\ P4(e).d \in Nat
    BY <1>9
  <2> QED BY <2>1, <2>2, QuadrantApart
<1>11. \A e, f \in Nat : P8(f).x = P8(e).x /\ P8(f).y = P8(e).y
          => /\ P4(e).x = P4(f).x /\ P4(e).y = P4(f).y
             /\ ((e \div 4) \div 4) % 4 = ((f \div 4) \div 4) % 4
  <2> SUFFICES ASSUME NEW e \in Nat, NEW f \in Nat, P8(f).x = P8(e).x, P8(f).y = P8(e).y
               PROVE  /\ P4(e).x = P4(f).x /\ P4(e).y = P4(f).y
                      /\ ((e \div 4) \div 4) % 4 = ((f \div 4) \div 4) % 4
    BY Zenon
  <2>1. 4 \in Nat \ {0} /\ P4(e).d = (e \div 4) \div 4 /\ P4(f).d = (f \div 4) \div 4
    BY <1>7
  <2>2. /\ P4(e).x \in 0 .. 4 - 1 /\ P4(e).y \in 0 .. 4 - 1 /\ P4(e).d \in Nat
        /\ P4(f).x \in 0 .. 4 - 1 /\ P4(f).y \in 0 .. 4 - 1 /\ P4(f).d \in Nat
    BY <1>9
  <2>3. P4(e).x = P4(f).x /\ P4(e).y = P4(f).y /\ P4(e).d % 4 = P4(f).d % 4
    BY <2>1, <2>2, QuadrantApart
  <2> QED BY <2>1, <2>3
<1> HIDE DEF P8
<1>12. CASE n = 4
  <2>1. \A e \in 0 .. n * n - 1 : e \in Nat /\ e < 16
    BY <1>12
  <2>2. ASSUME NEW e \in 0 .. n * n - 1, P4(e).x = P4(d).x, P4(e).y = P4(d).y
        PROVE  e = d
    <3>1. e % 4 = d % 4 /\ (e \div 4) % 4 = (d \div 4) % 4
      BY <1>5, <1>8, <2>1, <2>2
    <3> QED BY <2>1, <3>1
  <2> QED BY <1>1, <1>9, <1>12, <2>1, <2>2
<1>13. CASE n = 8
  <2>1. \A e \in 0 .. n * n - 1 : e \in Nat /\ e < 64
    BY <1>13
  <2>2. ASSUME NEW e \in 0 .. n * n - 1, P8(e).x = P8(d).x, P8(e).y = P8(d).y
        PROVE  e = d
    <3>1. /\ e % 4 = d % 4 /\ (e \div 4) % 4 = (d \div 4) % 4
          /\ ((e \div 4) \div 4) % 4 = ((d \div 4) \div 4) % 4
      BY <1>5, <1>8, <1>11, <2>1, <2>2
    <3> QED BY <2>1, <3>1
  <2>3. P8(d).x \in 0 .. 8 - 1 /\ P8(d).y \in 0 .. 8 - 1
    BY <1>10, <2>1
  <2> QED BY <1>1, <1>13, <2>1, <2>2, <2>3
<1> QED BY <1>12, <1>13

(* Turning a block keeps its positions apart. *)
LEMMA TurnedApart ==
  ASSUME NEW last \in Nat, NEW b, NEW p, p.x \in 0 .. last, p.y \in 0 .. last
  PROVE  /\ Turned(p, b, last).x \in 0 .. last /\ Turned(p, b, last).y \in 0 .. last
         /\ \A o : /\ o.x \in 0 .. last /\ o.y \in 0 .. last
                   /\ Turned(o, b, last).x = Turned(p, b, last).x
                   /\ Turned(o, b, last).y = Turned(p, b, last).y
                   => o.x = p.x /\ o.y = p.y
<1> DEFINE First(o) == [x |-> o.y, y |-> o.x]
           Second(o) == [x |-> o.x, y |-> o.y]
           Third(o) == [x |-> last - o.y, y |-> last - o.x]
           Fourth(o) == [x |-> last - o.x, y |-> last - o.y]
<1>1. \/ \A o : Turned(o, b, last) = First(o)
      \/ \A o : Turned(o, b, last) = Second(o)
      \/ \A o : Turned(o, b, last) = Third(o)
      \/ \A o : Turned(o, b, last) = Fourth(o)
  <2>1. CASE b.prev = "up" /\ b.dir = "up"
    BY <2>1 DEF Turned
  <2>2. CASE b.dir = "left" \/ b.prev = "left"
    BY <2>2 DEF Turned
  <2>3. CASE b.dir = "down" /\ b.prev # "left"
    BY <2>3 DEF Turned
  <2>4. CASE ~ (b.prev = "up" /\ b.dir = "up") /\ ~ (b.dir = "left" \/ b.prev = "left")
             /\ ~ (b.dir = "down" /\ b.prev # "left")
    BY <2>4 DEF Turned
  <2> QED BY <2>1, <2>2, <2>3, <2>4
<1> QED BY <1>1

(* P is the curve through block b, ... *)
IsCurveOf(n, b, P) ==
  \A d \in 1 .. n * n : P[d] = Turned(HilbertPos(n, d - 1), b, n - 1)

(* ... which comes to each place of the block once. *)
PlacesBlock(n, P) ==
  /\ \A d \in 1 .. n * n : P[d].x \in 0 .. n - 1 /\ P[d].y \in 0 .. n - 1
  /\ \A d, e \in 1 .. n * n : P[d].x = P[e].x /\ P[d].y = P[e].y => d = e
  /\ \A x, y \in 0 .. n - 1 : \E d \in 1 .. n * n : P[d].x = x /\ P[d].y = y

(* A curve that is turned still comes to each place once. *)
LEMMA CurvePlaces ==
  ASSUME NEW n \in {4, 8}, NEW b, NEW P, IsCurveOf(n, b, P)
  PROVE  PlacesBlock(n, P)
<1> DEFINE D == 1 .. n * n
           H(d) == HilbertPos(n, d - 1)
<1>1. \A d \in D : d - 1 \in 0 .. n * n - 1
  OBVIOUS
<1>2. ASSUME NEW d \in D
      PROVE  /\ H(d).x \in 0 .. n - 1 /\ H(d).y \in 0 .. n - 1
             /\ \A e \in D : H(e).x = H(d).x /\ H(e).y = H(d).y => e - 1 = d - 1
  BY <1>1, CurveInside
<1>3. n - 1 \in Nat /\ n \in Nat \ {0} /\ \A d, e \in D : e - 1 = d - 1 => e = d
  OBVIOUS
<1>4. \A d \in D : P[d] = Turned(H(d), b, n - 1)
  BY DEF IsCurveOf
<1> HIDE DEF D, H
<1>5. ASSUME NEW d \in D
      PROVE  /\ P[d].x \in 0 .. n - 1 /\ P[d].y \in 0 .. n - 1
             /\ \A e \in D : P[d].x = P[e].x /\ P[d].y = P[e].y => d = e
  <2>1. H(d).x \in 0 .. n - 1 /\ H(d).y \in 0 .. n - 1
    BY <1>2
  <2>2. /\ Turned(H(d), b, n - 1).x \in 0 .. n - 1 /\ Turned(H(d), b, n - 1).y \in 0 .. n - 1
        /\ \A o : /\ o.x \in 0 .. n - 1 /\ o.y \in 0 .. n - 1
                  /\ Turned(o, b, n - 1).x = Turned(H(d), b, n - 1).x
                  /\ Turned(o, b, n - 1).y = Turned(H(d), b, n - 1).y
                  => o.x = H(d).x /\ o.y = H(d).y
    BY <1>3, <2>1, TurnedApart
  <2>3. ASSUME NEW e \in D, P[d].x = P[e].x, P[d].y = P[e].y
        PROVE  d = e
    <3>1. H(e).x \in 0 .. n - 1 /\ H(e).y \in 0 .. n - 1
      BY <1>2
    <3>2. H(e).x = H(d).x /\ H(e).y = H(d).y
      BY <1>4, <2>2, <2>3, <3>1, Zenon
    <3> QED BY <1>2, <1>3, <3>2
  <2> QED BY <1>4, <2>2, <2>3, Zenon
<1> DEFINE X == [d \in D |-> P[d].x]
           Y == [d \in D |-> P[d].y]
<1>6. /\ \A d \in D : X[d] = P[d].x /\ Y[d] = P[d].y
  OBVIOUS
<1> HIDE DEF X, Y
<1>7. /\ \A d \in D : X[d] \in 0 .. n - 1 /\ Y[d] \in 0 .. n - 1
      /\ \A d, e \in D : X[d] = X[e] /\ Y[d] = Y[e] => d = e
  BY <1>5, <1>6
<1>8. \A x, y \in 0 .. n - 1 : \E d \in D : X[d] = x /\ Y[d] = y
  <2>1. Different(n, X, Y)
    BY <1>7 DEF D, Different
  <2>2. Complete(n, X, Y)
    BY <1>3, <2>1, AllPositions
  <2> QED BY <2>2 DEF D, Complete
<1>9. \A x, y \in 0 .. n - 1 : \E d \in D : P[d].x = x /\ P[d].y = y
  BY <1>6, <1>8
<1> QED BY <1>5, <1>9, Zenon DEF PlacesBlock, D

-----------------------------------------------------------------------------
(* The tiles in the image.                                                 *)

(* The recursion in KeptTiles. *)
IsKept(kept, ts, n, iw, ih) ==
  kept = [k \in 0 .. n |->
            IF k = 0 THEN <<>>
            ELSE IF InImage(ts[k], iw, ih) THEN Append(kept[k - 1], ts[k])
            ELSE kept[k - 1]]

(* There is such a sequence of tiles. *)
LEMMA KeptExists ==
  ASSUME NEW ts, NEW n \in Nat, NEW iw, NEW ih
  PROVE  \E kept : IsKept(kept, ts, n, iw, ih)
<1> DEFINE T == {m \in Nat : \E f : IsKept(f, ts, m, iw, ih)}
           In(k) == InImage(ts[k], iw, ih)
<1> HIDE DEF In
<1>1. 0 \in T
  <2> DEFINE f == [k \in 0 .. 0 |-> <<>>]
  <2>1. f = [k \in 0 .. 0 |-> IF k = 0 THEN <<>> ELSE IF In(k) THEN Append(f[k - 1], ts[k]) ELSE f[k - 1]]
    OBVIOUS
  <2> HIDE DEF f
  <2>2. IsKept(f, ts, 0, iw, ih)
    BY <2>1, Zenon DEF IsKept, In
  <2> QED BY <2>2
<1>2. ASSUME NEW m \in T PROVE m + 1 \in T
  <2>1. PICK f : IsKept(f, ts, m, iw, ih)
    BY <1>2
  <2> DEFINE Step(h, k) == IF In(k) THEN Append(h, ts[k]) ELSE h
             h == [k \in 0 .. m + 1 |-> IF k = 0 THEN <<>> ELSE Step(f[k - 1], k)]
  <2>2. m \in Nat
    BY <1>2
  <2>3. f = [k \in 0 .. m |-> IF k = 0 THEN <<>> ELSE Step(f[k - 1], k)]
    BY <2>1, Zenon DEF IsKept, In
  <2> HIDE DEF Step
  <2>4. ASSUME NEW k \in 0 .. m PROVE h[k] = f[k]
    <3>1. k \in 0 .. m + 1
      BY <2>2
    <3>2. f[k] = IF k = 0 THEN <<>> ELSE Step(f[k - 1], k)
      BY <2>3
    <3> QED BY <3>1, <3>2
  <2> HIDE DEF h
  <2>5. ASSUME NEW k \in 0 .. m + 1, k # 0 PROVE f[k - 1] = h[k - 1]
    <3>1. k - 1 \in 0 .. m
      BY <2>2, <2>5
    <3> QED BY <2>4, <3>1
  <2>6. h = [k \in 0 .. m + 1 |-> IF k = 0 THEN <<>> ELSE Step(h[k - 1], k)]
    BY <2>5 DEF h
  <2>7. IsKept(h, ts, m + 1, iw, ih)
    BY <2>6, Zenon DEF IsKept, Step, In
  <2> QED BY <2>2, <2>7
<1> HIDE DEF T
<1>3. T \in SUBSET Nat
  BY DEF T
<1>4. n \in T
  BY <1>1, <1>2, <1>3, Induction
<1> QED BY <1>4 DEF T

(* us has those of the first m elements of ts that are in the image. *)
Keeps(us, ts, m, iw, ih) ==
  /\ \A j \in 1 .. Len(us) : \E k \in 1 .. m : us[j] = ts[k] /\ InImage(ts[k], iw, ih)
  /\ \A k \in 1 .. m : InImage(ts[k], iw, ih) => \E j \in 1 .. Len(us) : us[j] = ts[k]
  /\ \A j, l \in 1 .. Len(us) : us[j] = us[l] => j = l

(* What is in the image is kept. *)
LEMMA AppendKept ==
  ASSUME NEW S, NEW ts, NEW m \in Nat, NEW us \in Seq(S), NEW iw, NEW ih, ts[m + 1] \in S,
         \A k \in 1 .. m : ts[k] # ts[m + 1],
         Keeps(us, ts, m, iw, ih), InImage(ts[m + 1], iw, ih)
  PROVE  Append(us, ts[m + 1]) \in Seq(S) /\ Keeps(Append(us, ts[m + 1]), ts, m + 1, iw, ih)
<1> DEFINE t == ts[m + 1]
           vs == Append(us, t)
           In(k) == InImage(ts[k], iw, ih)
           L == Len(us)
<1>1. /\ vs \in Seq(S) /\ L \in Nat /\ Len(vs) = L + 1 /\ vs[L + 1] = t
      /\ \A j \in 1 .. L : vs[j] = us[j]
  OBVIOUS
<1>2. /\ \A j \in 1 .. L : \E k \in 1 .. m : us[j] = ts[k] /\ In(k)
      /\ \A k \in 1 .. m : In(k) => \E j \in 1 .. L : us[j] = ts[k]
      /\ \A j, l \in 1 .. L : us[j] = us[l] => j = l
  BY Zenon DEF Keeps
<1>3. In(m + 1) /\ \A k \in 1 .. m : ts[k] # t
  OBVIOUS
<1>4. /\ \A k \in 1 .. m + 1 : k \in 1 .. m \/ k = m + 1
      /\ \A k \in 1 .. m : k \in 1 .. m + 1
      /\ m + 1 \in 1 .. m + 1
      /\ \A k \in 1 .. L + 1 : k \in 1 .. L \/ k = L + 1
      /\ \A k \in 1 .. L : k \in 1 .. L + 1
      /\ L + 1 \in 1 .. L + 1
  BY <1>1
<1>5. t = ts[m + 1]
  OBVIOUS
<1> HIDE DEF vs, t, In, L
<1>6. \A j \in 1 .. L + 1 : \E k \in 1 .. m + 1 : vs[j] = ts[k] /\ In(k)
  BY <1>1, <1>2, <1>3, <1>4, <1>5, Zenon
<1>7. \A k \in 1 .. m + 1 : In(k) => \E j \in 1 .. L + 1 : vs[j] = ts[k]
  BY <1>1, <1>2, <1>3, <1>4, <1>5, Zenon
<1>8. ASSUME NEW j \in 1 .. L PROVE vs[j] # t
  <2>1. vs[j] = us[j]
    BY <1>1
  <2>2. PICK k \in 1 .. m : us[j] = ts[k]
    BY <1>2, Zenon
  <2> QED BY <1>3, <2>1, <2>2, Zenon
<1>9. \A j, l \in 1 .. L + 1 : vs[j] = vs[l] => j = l
  BY <1>1, <1>2, <1>4, <1>8, Zenon
<1>10. Keeps(vs, ts, m + 1, iw, ih)
  BY <1>1, <1>6, <1>7, <1>9, Zenon DEF Keeps, In
<1> QED BY <1>1, <1>10 DEF vs, t

(* KeptTiles drops the tiles out of the image and no others. *)
LEMMA TilesKept ==
  ASSUME NEW S, NEW n \in Nat, NEW ts \in [1 .. n -> S], NEW iw, NEW ih,
         \A k, l \in 1 .. n : ts[k] = ts[l] => k = l
  PROVE  KeptTiles(ts, iw, ih) \in Seq(S) /\ Keeps(KeptTiles(ts, iw, ih), ts, n, iw, ih)
<1>1. Len(ts) = n
  OBVIOUS
<1> DEFINE f == CHOOSE kept : IsKept(kept, ts, n, iw, ih)
           In(k) == InImage(ts[k], iw, ih)
<1>2. IsKept(f, ts, n, iw, ih)
  BY KeptExists, Zenon
<1>3. KeptTiles(ts, iw, ih) = f[n]
  BY <1>1, Zenon DEF KeptTiles, IsKept
<1> HIDE DEF f
<1>4. f = [k \in 0 .. n |-> IF k = 0 THEN <<>> ELSE IF In(k) THEN Append(f[k - 1], ts[k]) ELSE f[k - 1]]
  BY <1>2, Zenon DEF IsKept
<1> HIDE DEF In
<1> DEFINE T == {m \in 0 .. n : f[m] \in Seq(S) /\ Keeps(f[m], ts, m, iw, ih)}
<1>5. 0 \in T
  <2>1. f[0] = <<>> /\ 0 \in 0 .. n
    BY <1>4
  <2>2. <<>> \in Seq(S) /\ Len(<<>>) = 0 /\ 1 .. 0 = {}
    OBVIOUS
  <2>3. Keeps(<<>>, ts, 0, iw, ih)
    BY <2>2 DEF Keeps
  <2> QED BY <2>1, <2>2, <2>3
<1>6. ASSUME NEW m \in 0 .. n - 1, m \in T PROVE m + 1 \in T
  <2>1. /\ m \in Nat /\ m + 1 \in 0 .. n /\ m + 1 # 0 /\ (m + 1) - 1 = m /\ m + 1 \in 1 .. n
        /\ \A k \in 1 .. m : k \in 1 .. n /\ k # m + 1
        /\ \A k \in 1 .. m + 1 : k \in 1 .. m \/ k = m + 1
        /\ \A k \in 1 .. m : k \in 1 .. m + 1
    OBVIOUS
  <2>2. f[m + 1] = IF In(m + 1) THEN Append(f[m], ts[m + 1]) ELSE f[m]
    BY <1>4, <2>1
  <2>3. f[m] \in Seq(S) /\ Keeps(f[m], ts, m, iw, ih)
    BY <1>6
  <2>4. ts[m + 1] \in S /\ \A k \in 1 .. m : ts[k] # ts[m + 1]
    BY <2>1
  <2>5. CASE In(m + 1)
    <3>1. InImage(ts[m + 1], iw, ih) /\ f[m + 1] = Append(f[m], ts[m + 1])
      BY <2>2, <2>5 DEF In
    <3>2. /\ Append(f[m], ts[m + 1]) \in Seq(S)
          /\ Keeps(Append(f[m], ts[m + 1]), ts, m + 1, iw, ih)
      BY <2>1, <2>3, <2>4, <3>1, AppendKept
    <3> QED BY <2>1, <3>1, <3>2
  <2>6. CASE ~ In(m + 1)
    <3>1. f[m + 1] = f[m]
      BY <2>2, <2>6
    <3>2. Keeps(f[m], ts, m + 1, iw, ih)
      BY <2>1, <2>3, <2>6, Zenon DEF Keeps, In
    <3> QED BY <2>1, <2>3, <3>1, <3>2
  <2> QED BY <2>5, <2>6
<1> HIDE DEF T
<1>7. n \in T
  <2>1. 0 \in Nat
    OBVIOUS
  <2>2. \A m \in 0 .. n : m \in T
    BY <1>5, <1>6, <2>1, InductionUpTo
  <2> QED BY <2>2
<1> QED BY <1>3, <1>7 DEF T

(* Quotients below zero are rounded towards zero. *)
LEMMA QuotientBelow ==
  ASSUME NEW a \in Nat, NEW b \in Nat \ {0}
  PROVE  Quotient(-a, b) = -(a \div b)
<1>1. - (-a) = a /\ (-a < 0 \/ a <= 0)
  OBVIOUS
<1>2. CASE a <= 0
  <2> DEFINE q == a \div b
  <2>1. q \in Nat /\ q <= 0
    <3>1. q \in Nat /\ a % b \in 0 .. b - 1 /\ a = q * b + (a % b)
      BY Split
    <3> HIDE DEF q
    <3>2. 1 <= q => 1 * b <= q * b
      BY <3>1, Multiples
    <3>3. q * b \in Nat /\ 1 * b = b
      BY <3>1
    <3> QED BY <1>2, <3>1, <3>2, <3>3
  <2>2. -a = a /\ ~ (-a < 0)
    BY <1>2
  <2>3. Quotient(-a, b) = q
    BY <2>2, Zenon DEF Quotient
  <2> HIDE DEF q
  <2>4. -q = q
    BY <2>1
  <2> QED BY <2>3, <2>4, Zenon DEF q
<1>3. CASE -a < 0
  BY <1>1, <1>3, Zenon DEF Quotient
<1> QED BY <1>1, <1>2, <1>3

(* Where the spiral begins, which is not inside the image: it has a place  *)
(* for every column, or row, of tiles.                                     *)
LEMMA SpiralFits ==
  ASSUME NEW size \in Nat \ {0}, NEW tile \in Nat \ {0}, NEW n \in Nat \ {0}, size <= n * tile
  PROVE  \E h \in Nat : SpiralOffset(size, tile, n) = -h /\ Count(size, tile) + h <= n
<1> DEFINE e == n * tile - size
           f == e \div 2
           h == f \div tile
           m == Count(size, tile)
<1>1. n * tile \in Nat /\ e \in Nat /\ n * tile = size + e
  OBVIOUS
<1> HIDE DEF e
<1>2. f \in Nat /\ f <= e
  BY <1>1
<1>3. Quotient(size - n * tile, 2) = -f
  <2>1. size - n * tile = -e /\ 2 \in Nat \ {0}
    BY <1>1
  <2>2. Quotient(-e, 2) = -f
    BY <1>1, <2>1, QuotientBelow, Zenon
  <2> QED BY <2>1, <2>2, Zenon
<1> HIDE DEF f
<1>4. h \in Nat /\ h * tile <= f /\ h * tile \in Nat
  <2>1. h \in Nat /\ f % tile \in 0 .. tile - 1 /\ f = h * tile + (f % tile)
    BY <1>2, Split
  <2> HIDE DEF h
  <2>2. h * tile \in Nat
    BY <2>1
  <2> QED BY <2>1, <2>2
<1>5. Quotient(-f, tile) = -h
  BY <1>2, QuotientBelow, Zenon
<1>6. SpiralOffset(size, tile, n) = -h
  BY <1>3, <1>5, Zenon DEF SpiralOffset
<1>7. m \in Nat \ {0} /\ (m - 1) * tile < size
  BY TilesCounted
<1> HIDE DEF h, m
<1>8. m + h <= n
  <2>1. m + h > n => n * tile <= (m - 1 + h) * tile
    BY <1>4, <1>7, Multiples
  <2>2. (m - 1 + h) * tile = (m - 1) * tile + h * tile
    BY <1>4, <1>7
  <2>3. (m - 1) * tile \in Int
    BY <1>7
  <2> QED BY <1>1, <1>2, <1>4, <1>7, <2>1, <2>2, <2>3
<1> QED BY <1>4, <1>6, <1>8 DEF m

-----------------------------------------------------------------------------
(* The spiral over the image.                                              *)

(* The blocks of the spiral make a square that is no smaller than the image. *)
LEMMA SpiralSquare ==
  ASSUME NEW g, GridOK(g), NEW iw \in Nat \ {0}, NEW ih \in Nat \ {0}
  PROVE  LET n == SpiralSide(g, iw, ih)
             N == n * HilbertSize(g)
         IN  /\ HilbertSize(g) \in {4, 8}
             /\ \E c \in Nat : n = 2 * c + 1
             /\ N \in Nat \ {0} /\ iw <= N * g.tw /\ ih <= N * g.th
<1> DEFINE s == HilbertSize(g)
           a == Count(iw, g.tw * s)
           b == Count(ih, g.th * s)
           m == Larger(a, b)
           n == SpiralSide(g, iw, ih)
<1>1. s \in {4, 8}
  BY DEF HilbertSize
<1>2. n = IF m % 2 = 0 THEN m + 1 ELSE m
  BY Zenon DEF SpiralSide
<1> HIDE DEF s, n
<1>3. g.tw \in Nat \ {0} /\ g.th \in Nat \ {0} /\ g.tw * s \in Nat \ {0} /\ g.th * s \in Nat \ {0}
  <2>1. g.tw \in Nat \ {0} /\ g.th \in Nat \ {0}
    BY DEF GridOK
  <2>2. \A t \in Nat \ {0} : t * s \in Nat \ {0}
    BY <1>1
  <2> QED BY <2>1, <2>2
<1>4. /\ a \in Nat \ {0} /\ iw <= a * (g.tw * s)
      /\ b \in Nat \ {0} /\ ih <= b * (g.th * s)
  BY <1>3, TilesCounted
<1> HIDE DEF a, b
<1>5. m \in Nat \ {0} /\ a <= m /\ b <= m
  BY <1>4 DEF Larger
<1> HIDE DEF m
<1>6. n \in Nat \ {0} /\ a <= n /\ b <= n /\ n % 2 = 1
  BY <1>2, <1>4, <1>5
<1>7. n \div 2 \in Nat /\ n = 2 * (n \div 2) + 1
  BY <1>6
<1>8. n * s \in Nat \ {0}
  BY <1>1, <1>6
<1>9. ASSUME NEW t \in Nat \ {0}, NEW u \in Nat \ {0}, u <= n
      PROVE  u * (t * s) <= (n * s) * t
  <2>1. t * s \in Nat
    BY <1>1
  <2>2. u * (t * s) <= n * (t * s)
    BY <1>6, <1>9, <2>1, Multiples
  <2>3. n * (t * s) = (n * s) * t
    BY <1>1, <1>6
  <2> QED BY <2>2, <2>3
<1>10. iw <= (n * s) * g.tw /\ ih <= (n * s) * g.th
  <2>1. \A t, u \in Nat : u * (t * s) \in Nat /\ (n * s) * t \in Nat
    BY <1>1, <1>6
  <2>2. a * (g.tw * s) <= (n * s) * g.tw /\ b * (g.th * s) <= (n * s) * g.th
    BY <1>3, <1>4, <1>6, <1>9
  <2>3. /\ a * (g.tw * s) \in Nat /\ (n * s) * g.tw \in Nat
        /\ b * (g.th * s) \in Nat /\ (n * s) * g.th \in Nat
    BY <1>3, <1>4, <2>1
  <2> QED BY <1>4, <2>2, <2>3
<1> QED BY <1>1, <1>7, <1>8, <1>10 DEF s, n

(* The place of tile d of block k in the square of the spiral. *)
PlaceX(g, iw, ih, k, d) ==
  LET block == Spiral(SpiralSide(g, iw, ih))[k]
      side == HilbertSize(g)
  IN  block.x * side + Turned(HilbertPos(side, d - 1), block, side - 1).x

PlaceY(g, iw, ih, k, d) ==
  LET block == Spiral(SpiralSide(g, iw, ih))[k]
      side == HilbertSize(g)
  IN  block.y * side + Turned(HilbertPos(side, d - 1), block, side - 1).y

(* Each place in the square is that of one tile of one block. *)
PlacedOnce(g, iw, ih) ==
  LET n == SpiralSide(g, iw, ih)
      side == HilbertSize(g)
  IN  /\ \A k \in 1 .. n * n : \A d \in 1 .. side * side :
           PlaceX(g, iw, ih, k, d) \in Int /\ PlaceY(g, iw, ih, k, d) \in Int
      /\ \A k, l \in 1 .. n * n : \A d, e \in 1 .. side * side :
           /\ PlaceX(g, iw, ih, k, d) = PlaceX(g, iw, ih, l, e)
           /\ PlaceY(g, iw, ih, k, d) = PlaceY(g, iw, ih, l, e)
           => k = l /\ d = e
      /\ \A x, y \in 0 .. n * side - 1 : \E k \in 1 .. n * n : \E d \in 1 .. side * side :
           x = PlaceX(g, iw, ih, k, d) /\ y = PlaceY(g, iw, ih, k, d)

(* Blocks come to each place of the square once. *)
LEMMA SpiralFills ==
  ASSUME NEW g, GridOK(g), NEW iw \in Nat \ {0}, NEW ih \in Nat \ {0}
  PROVE  PlacedOnce(g, iw, ih)
<1> DEFINE n == SpiralSide(g, iw, ih)
           side == HilbertSize(g)
           s == Spiral(n)
           P(k) == [d \in 1 .. side * side |-> Turned(HilbertPos(side, d - 1), s[k], side - 1)]
           K == 1 .. n * n
           D == 1 .. side * side
           X(k, d) == PlaceX(g, iw, ih, k, d)
           Y(k, d) == PlaceY(g, iw, ih, k, d)
<1>1. side \in {4, 8} /\ \E c \in Nat : n = 2 * c + 1
  BY SpiralSquare
<1> HIDE DEF n, side
<1>2. n \in Nat \ {0} /\ side \in Nat \ {0}
  BY <1>1
<1>3. /\ \A k \in K : s[k].x \in 0 .. n - 1 /\ s[k].y \in 0 .. n - 1
      /\ \A k, l \in K : s[k].x = s[l].x /\ s[k].y = s[l].y => k = l
  BY <1>1, SpiralPositions
<1>4. \A x, y \in 0 .. n - 1 : \E k \in K : s[k].x = x /\ s[k].y = y
  <2> DEFINE U == [k \in K |-> s[k].x]
             V == [k \in K |-> s[k].y]
  <2>1. \A k \in K : U[k] = s[k].x /\ V[k] = s[k].y
    OBVIOUS
  <2> HIDE DEF U, V, s
  <2>2. Different(n, U, V)
    BY <1>3, <2>1 DEF Different
  <2>3. Complete(n, U, V)
    BY <1>2, <2>2, AllPositions
  <2> QED BY <2>1, <2>3 DEF Complete
<1>5. ASSUME NEW k \in K
      PROVE  /\ \A d \in D : P(k)[d].x \in 0 .. side - 1 /\ P(k)[d].y \in 0 .. side - 1
             /\ \A d, e \in D : P(k)[d].x = P(k)[e].x /\ P(k)[d].y = P(k)[e].y => d = e
             /\ \A x, y \in 0 .. side - 1 : \E d \in D : P(k)[d].x = x /\ P(k)[d].y = y
  <2> DEFINE b == s[k]
             p == P(k)
  <2>1. \A d \in 1 .. side * side : p[d] = Turned(HilbertPos(side, d - 1), b, side - 1)
    OBVIOUS
  <2> HIDE DEF p, b
  <2>2. PlacesBlock(side, p)
    BY <1>1, <2>1, CurvePlaces DEF IsCurveOf
  <2> QED BY <2>2 DEF PlacesBlock, p
<1>6. \A k \in K, d \in D :
        X(k, d) = s[k].x * side + P(k)[d].x /\ Y(k, d) = s[k].y * side + P(k)[d].y
  BY DEF PlaceX, PlaceY, n, side
<1> HIDE DEF s, P, K, D, X, Y
<1>7. ASSUME NEW k \in K, NEW d \in D
      PROVE  /\ X(k, d) \in Int /\ Y(k, d) \in Int
             /\ X(k, d) \div side = s[k].x /\ X(k, d) % side = P(k)[d].x
             /\ Y(k, d) \div side = s[k].y /\ Y(k, d) % side = P(k)[d].y
  <2>1. ASSUME NEW q \in 0 .. n - 1, NEW r \in 0 .. side - 1
        PROVE  /\ q * side + r \in Int
               /\ (q * side + r) \div side = q /\ (q * side + r) % side = r
    <3>1. q \in Nat
      BY <1>2
    <3> QED BY <1>2, <3>1, Position
  <2>2. /\ s[k].x \in 0 .. n - 1 /\ s[k].y \in 0 .. n - 1
        /\ P(k)[d].x \in 0 .. side - 1 /\ P(k)[d].y \in 0 .. side - 1
    BY <1>3, <1>5, Zenon
  <2>3. X(k, d) = s[k].x * side + P(k)[d].x /\ Y(k, d) = s[k].y * side + P(k)[d].y
    BY <1>6, Zenon
  <2> DEFINE bx == s[k].x
             by == s[k].y
             px == P(k)[d].x
             py == P(k)[d].y
  <2>4. bx \in 0 .. n - 1 /\ by \in 0 .. n - 1 /\ px \in 0 .. side - 1 /\ py \in 0 .. side - 1
    BY <2>2, Zenon
  <2>5. X(k, d) = bx * side + px /\ Y(k, d) = by * side + py
    BY <2>3, Zenon
  <2> HIDE DEF bx, by, px, py
  <2>6. /\ X(k, d) \in Int /\ Y(k, d) \in Int
        /\ X(k, d) \div side = bx /\ X(k, d) % side = px
        /\ Y(k, d) \div side = by /\ Y(k, d) % side = py
    <3>1. /\ bx * side + px \in Int
          /\ (bx * side + px) \div side = bx /\ (bx * side + px) % side = px
      BY <2>1, <2>4, Zenon
    <3>2. /\ by * side + py \in Int
          /\ (by * side + py) \div side = by /\ (by * side + py) % side = py
      BY <2>1, <2>4, Zenon
    <3> QED BY <2>5, <3>1, <3>2, Zenon
  <2> QED BY <2>6, Zenon DEF bx, by, px, py
<1>8. ASSUME NEW k \in K, NEW l \in K, NEW d \in D, NEW e \in D,
             X(k, d) = X(l, e), Y(k, d) = Y(l, e)
      PROVE  k = l /\ d = e
  <2>1. /\ X(k, d) \div side = s[k].x /\ X(k, d) % side = P(k)[d].x
        /\ Y(k, d) \div side = s[k].y /\ Y(k, d) % side = P(k)[d].y
    BY <1>7, Zenon
  <2>2. /\ X(l, e) \div side = s[l].x /\ X(l, e) % side = P(l)[e].x
        /\ Y(l, e) \div side = s[l].y /\ Y(l, e) % side = P(l)[e].y
    BY <1>7, Zenon
  <2>3. s[k].x = s[l].x /\ s[k].y = s[l].y /\ P(k)[d].x = P(l)[e].x /\ P(k)[d].y = P(l)[e].y
    BY <1>8, <2>1, <2>2, Zenon
  <2>4. k = l
    BY <1>3, <2>3, Zenon
  <2>5. P(k)[d].x = P(k)[e].x /\ P(k)[d].y = P(k)[e].y
    BY <2>3, <2>4, Zenon
  <2>6. \A c, f \in D : P(k)[c].x = P(k)[f].x /\ P(k)[c].y = P(k)[f].y => c = f
    BY <1>5, Zenon
  <2>7. d = e
    BY <2>5, <2>6
  <2> QED BY <2>4, <2>7
<1>9. ASSUME NEW x \in 0 .. n * side - 1, NEW y \in 0 .. n * side - 1
      PROVE  \E k \in K : \E d \in D : x = X(k, d) /\ y = Y(k, d)
  <2>1. ASSUME NEW z \in 0 .. n * side - 1
        PROVE  /\ z \div side \in 0 .. n - 1 /\ z % side \in 0 .. side - 1
               /\ z = (z \div side) * side + (z % side)
    <3> DEFINE q == z \div side
               r == z % side
    <3>1. n * side \in Nat /\ z \in Nat /\ z < n * side
      BY <1>2
    <3>2. q \in Nat /\ r \in 0 .. side - 1 /\ z = q * side + r
      BY <1>2, <3>1, Split
    <3> HIDE DEF q, r
    <3>3. q >= n => n * side <= q * side
      BY <1>2, <3>2, Multiples
    <3>4. q * side \in Nat
      BY <1>2, <3>2
    <3>5. q \in 0 .. n - 1 /\ r \in 0 .. side - 1 /\ z = q * side + r
      BY <1>2, <3>1, <3>2, <3>3, <3>4
    <3> QED BY <3>5, Zenon DEF q, r
  <2>2. PICK k \in K : s[k].x = x \div side /\ s[k].y = y \div side
    BY <1>4, <2>1, Zenon
  <2>3. PICK d \in D : P(k)[d].x = x % side /\ P(k)[d].y = y % side
    <3>1. x % side \in 0 .. side - 1 /\ y % side \in 0 .. side - 1
      BY <2>1
    <3>2. \A u, v \in 0 .. side - 1 : \E d \in D : P(k)[d].x = u /\ P(k)[d].y = v
      BY <1>5, Zenon
    <3> QED BY <3>1, <3>2
  <2>4. x = X(k, d) /\ y = Y(k, d)
    BY <1>6, <2>1, <2>2, <2>3, Zenon
  <2> QED BY <2>4
<1>10. \A k \in 1 .. n * n : \A d \in 1 .. side * side :
         PlaceX(g, iw, ih, k, d) \in Int /\ PlaceY(g, iw, ih, k, d) \in Int
  BY <1>7, Zenon DEF K, D, X, Y
<1>11. \A k, l \in 1 .. n * n : \A d, e \in 1 .. side * side :
         /\ PlaceX(g, iw, ih, k, d) = PlaceX(g, iw, ih, l, e)
         /\ PlaceY(g, iw, ih, k, d) = PlaceY(g, iw, ih, l, e)
         => k = l /\ d = e
  BY <1>8, Zenon DEF K, D, X, Y
<1>12. \A x, y \in 0 .. n * side - 1 : \E k \in 1 .. n * n : \E d \in 1 .. side * side :
         x = PlaceX(g, iw, ih, k, d) /\ y = PlaceY(g, iw, ih, k, d)
  BY <1>9, Zenon DEF K, D, X, Y
<1> QED BY <1>10, <1>11, <1>12, Zenon DEF PlacedOnce, n, side

(* Which multiples of the size of a tile are in a row: those of its tiles. *)
LEMMA InRow ==
  ASSUME NEW size \in Nat \ {0}, NEW tile \in Nat \ {0}, NEW a \in Int
  PROVE  /\ a * tile \in Int
         /\ a * tile \in 0 .. size - 1 <=> a \in 0 .. Count(size, tile) - 1
         /\ \A b \in Int : a * tile = b * tile => a = b
<1> DEFINE n == Count(size, tile)
<1>1. n \in Nat \ {0} /\ (n - 1) * tile < size /\ size <= n * tile
  BY TilesCounted
<1> HIDE DEF n
<1>2. ASSUME NEW b \in Int, NEW c \in Int, b < c
      PROVE  b * tile + tile <= c * tile
  <2>1. (c - b - 1) * tile >= 0
    <3>1. c - b - 1 \in Nat
      BY <1>2
    <3> QED BY <3>1, Multiples
  <2>2. (c - b - 1) * tile = c * tile - b * tile - tile
    BY <1>2
  <2>3. b * tile \in Int /\ c * tile \in Int
    BY <1>2
  <2> QED BY <2>1, <2>2, <2>3
<1>3. /\ a * tile \in Int /\ 0 * tile = 0 /\ n * tile \in Int /\ (n - 1) * tile \in Int
      /\ \A b \in Int : b * tile \in Int
  BY <1>1
<1>4. a \in 0 .. n - 1 => a * tile \in 0 .. size - 1
  <2> SUFFICES ASSUME a \in 0 .. n - 1 PROVE a * tile \in 0 .. size - 1
    BY Zenon
  <2>1. 0 <= a * tile
    BY <1>3, Multiples
  <2>2. a * tile <= (n - 1) * tile
    BY <1>1, Multiples
  <2> QED BY <1>1, <1>3, <2>1, <2>2
<1>5. a * tile \in 0 .. size - 1 => a \in 0 .. n - 1
  <2>1. a < 0 => a * tile + tile <= 0 * tile
    BY <1>2
  <2>2. a >= n => a = n \/ n * tile + tile <= a * tile
    BY <1>1, <1>2
  <2> QED BY <1>1, <1>3, <2>1, <2>2
<1>6. \A b \in Int : a * tile = b * tile => a = b
  <2> TAKE b \in Int
  <2>1. a < b => a * tile + tile <= b * tile
    BY <1>2
  <2>2. b < a => b * tile + tile <= a * tile
    BY <1>2
  <2> QED BY <1>3, <2>1, <2>2
<1> QED BY <1>3, <1>4, <1>5, <1>6 DEF n

(* The column and the row of tile d of block k, of those of the image if   *)
(* the tile is in it.                                                      *)
ColumnOf(g, iw, ih, k, d) ==
  PlaceX(g, iw, ih, k, d) + SpiralOffset(iw, g.tw, SpiralSide(g, iw, ih) * HilbertSize(g))

RowOf(g, iw, ih, k, d) ==
  PlaceY(g, iw, ih, k, d) + SpiralOffset(ih, g.th, SpiralSide(g, iw, ih) * HilbertSize(g))

Blocks(g, iw, ih) == 1 .. SpiralSide(g, iw, ih) * SpiralSide(g, iw, ih)
BlockPlaces(g) == 1 .. HilbertSize(g) * HilbertSize(g)

ReachedOnce(g, iw, ih) ==
  /\ \A k \in Blocks(g, iw, ih) : \A d \in BlockPlaces(g) :
       ColumnOf(g, iw, ih, k, d) \in Int /\ RowOf(g, iw, ih, k, d) \in Int
  /\ \A k, l \in Blocks(g, iw, ih) : \A d, e \in BlockPlaces(g) :
       /\ ColumnOf(g, iw, ih, k, d) = ColumnOf(g, iw, ih, l, e)
       /\ RowOf(g, iw, ih, k, d) = RowOf(g, iw, ih, l, e)
       => k = l /\ d = e
  /\ \A x \in 0 .. Columns(g, iw) - 1 : \A y \in 0 .. Count(ih, g.th) - 1 :
       \E k \in Blocks(g, iw, ih) : \E d \in BlockPlaces(g) :
         ColumnOf(g, iw, ih, k, d) = x /\ RowOf(g, iw, ih, k, d) = y

(* The spiral comes to each column and row of the image once. *)
LEMMA SpiralReaches ==
  ASSUME NEW g, GridOK(g), NEW iw \in Nat \ {0}, NEW ih \in Nat \ {0}
  PROVE  ReachedOnce(g, iw, ih)
<1> DEFINE n == SpiralSide(g, iw, ih)
           side == HilbertSize(g)
           N == n * side
           ox == SpiralOffset(iw, g.tw, N)
           oy == SpiralOffset(ih, g.th, N)
           X(k, d) == PlaceX(g, iw, ih, k, d)
           Y(k, d) == PlaceY(g, iw, ih, k, d)
           K == 1 .. n * n
           D == 1 .. side * side
           C == Columns(g, iw)
           R == Count(ih, g.th)
<1>1. N \in Nat \ {0} /\ iw <= N * g.tw /\ ih <= N * g.th
  BY SpiralSquare
<1>2. /\ \A k \in K : \A d \in D : X(k, d) \in Int /\ Y(k, d) \in Int
      /\ \A k, l \in K : \A d, e \in D :
            X(k, d) = X(l, e) /\ Y(k, d) = Y(l, e) => k = l /\ d = e
      /\ \A x, y \in 0 .. N - 1 : \E k \in K : \E d \in D : x = X(k, d) /\ y = Y(k, d)
  BY SpiralFills, Zenon DEF PlacedOnce
<1>3. g.tw \in Nat \ {0} /\ g.th \in Nat \ {0}
  BY DEF GridOK
<1> HIDE DEF N
<1>4. PICK i \in Nat : ox = -i /\ Count(iw, g.tw) + i <= N
  BY <1>1, <1>3, SpiralFits
<1>5. PICK j \in Nat : oy = -j /\ Count(ih, g.th) + j <= N
  BY <1>1, <1>3, SpiralFits
<1>6. C \in Nat \ {0} /\ R \in Nat \ {0} /\ C + i <= N /\ R + j <= N
  BY <1>3, <1>4, <1>5, TilesCounted DEF Columns
<1> HIDE DEF ox, oy, X, Y, K, D, C, R
<1> DEFINE A(k, d) == X(k, d) + ox
           B(k, d) == Y(k, d) + oy
<1>7. \A k \in K : \A d \in D : A(k, d) \in Int /\ B(k, d) \in Int
  BY <1>2, <1>4, <1>5
<1>8. ASSUME NEW k \in K, NEW l \in K, NEW d \in D, NEW e \in D, A(k, d) = A(l, e), B(k, d) = B(l, e)
      PROVE  k = l /\ d = e
  <2>1. /\ X(k, d) \in Int /\ Y(k, d) \in Int /\ X(l, e) \in Int /\ Y(l, e) \in Int
        /\ ox \in Int /\ oy \in Int
    BY <1>2, <1>4, <1>5
  <2>2. \A a, b, c \in Int : a + c = b + c => a = b
    OBVIOUS
  <2>3. X(k, d) + ox = X(l, e) + ox /\ Y(k, d) + oy = Y(l, e) + oy
    BY <1>8, Zenon
  <2>4. X(k, d) = X(l, e) /\ Y(k, d) = Y(l, e)
    BY <2>1, <2>2, <2>3, Zenon
  <2>5. \A o, p \in K : \A c, f \in D :
            X(o, c) = X(p, f) /\ Y(o, c) = Y(p, f) => o = p /\ c = f
    BY <1>2, Zenon
  <2>6. \A c, f \in D : X(k, c) = X(l, f) /\ Y(k, c) = Y(l, f) => k = l /\ c = f
    BY <2>5, Zenon
  <2> QED BY <2>4, <2>6
<1>9. ASSUME NEW x \in 0 .. C - 1, NEW y \in 0 .. R - 1
      PROVE  \E k \in K : \E d \in D : A(k, d) = x /\ B(k, d) = y
  <2>1. x + i \in 0 .. N - 1 /\ y + j \in 0 .. N - 1
    BY <1>1, <1>6
  <2>2. PICK k \in K : \E d \in D : x + i = X(k, d) /\ y + j = Y(k, d)
    BY <1>2, <2>1
  <2>3. PICK d \in D : x + i = X(k, d) /\ y + j = Y(k, d)
    BY <2>2
  <2>4. A(k, d) = x /\ B(k, d) = y
    BY <1>4, <1>5, <2>3
  <2> QED BY <2>4
<1> HIDE DEF A, B
<1>10. \A k \in Blocks(g, iw, ih) : \A d \in BlockPlaces(g) :
       ColumnOf(g, iw, ih, k, d) \in Int /\ RowOf(g, iw, ih, k, d) \in Int
  BY <1>7, Zenon DEF K, D, A, B, X, Y, ox, oy, N, ColumnOf, RowOf, Blocks, BlockPlaces
<1>11. \A k, l \in Blocks(g, iw, ih) : \A d, e \in BlockPlaces(g) :
       /\ ColumnOf(g, iw, ih, k, d) = ColumnOf(g, iw, ih, l, e)
       /\ RowOf(g, iw, ih, k, d) = RowOf(g, iw, ih, l, e)
       => k = l /\ d = e
  BY <1>8, Zenon DEF K, D, A, B, X, Y, ox, oy, N, ColumnOf, RowOf, Blocks, BlockPlaces
<1>12. \A x \in 0 .. Columns(g, iw) - 1 : \A y \in 0 .. Count(ih, g.th) - 1 :
       \E k \in Blocks(g, iw, ih) : \E d \in BlockPlaces(g) :
         ColumnOf(g, iw, ih, k, d) = x /\ RowOf(g, iw, ih, k, d) = y
  BY <1>9, Zenon DEF K, D, A, B, X, Y, ox, oy, N, C, R, ColumnOf, RowOf, Blocks, BlockPlaces
<1> QED BY <1>10, <1>11, <1>12, Zenon DEF ReachedOnce

(* The corner of the tile in a column and a row. *)
Corner(g, x, y) == [x |-> x * g.tw, y |-> y * g.th]

(* us are corners of tiles of the image in block k, each of them once. *)
KeepsBlock(g, iw, ih, k, us) ==
  /\ \A j \in 1 .. Len(us) : \E d \in BlockPlaces(g) :
       /\ us[j] = Corner(g, ColumnOf(g, iw, ih, k, d), RowOf(g, iw, ih, k, d))
       /\ ColumnOf(g, iw, ih, k, d) \in 0 .. Columns(g, iw) - 1
       /\ RowOf(g, iw, ih, k, d) \in 0 .. Count(ih, g.th) - 1
  /\ \A d \in BlockPlaces(g) :
       /\ ColumnOf(g, iw, ih, k, d) \in 0 .. Columns(g, iw) - 1
       /\ RowOf(g, iw, ih, k, d) \in 0 .. Count(ih, g.th) - 1
       => \E j \in 1 .. Len(us) :
            us[j] = Corner(g, ColumnOf(g, iw, ih, k, d), RowOf(g, iw, ih, k, d))
  /\ \A j, l \in 1 .. Len(us) : us[j] = us[l] => j = l

(* Two corners differ if their columns or their rows do. *)
LEMMA CornersApart ==
  ASSUME NEW g, GridOK(g), NEW iw \in Nat \ {0}, NEW ih \in Nat \ {0},
         NEW x \in Int, NEW y \in Int
  PROVE  /\ Corner(g, x, y) \in [x : Int, y : Int]
         /\ InImage(Corner(g, x, y), iw, ih) <=>
              x \in 0 .. Columns(g, iw) - 1 /\ y \in 0 .. Count(ih, g.th) - 1
         /\ \A u, v \in Int : Corner(g, x, y) = Corner(g, u, v) => x = u /\ y = v
<1>1. g.tw \in Nat \ {0} /\ g.th \in Nat \ {0}
  BY DEF GridOK
<1>2. /\ x * g.tw \in Int
      /\ x * g.tw \in 0 .. iw - 1 <=> x \in 0 .. Columns(g, iw) - 1
      /\ \A u \in Int : x * g.tw = u * g.tw => x = u
  BY <1>1, InRow DEF Columns
<1>3. /\ y * g.th \in Int
      /\ y * g.th \in 0 .. ih - 1 <=> y \in 0 .. Count(ih, g.th) - 1
      /\ \A v \in Int : y * g.th = v * g.th => y = v
  BY <1>1, InRow
<1>4. \A u, v : Corner(g, u, v).x = u * g.tw /\ Corner(g, u, v).y = v * g.th
  BY DEF Corner
<1>5. Corner(g, x, y) \in [x : Int, y : Int]
  BY <1>2, <1>3 DEF Corner
<1>6. InImage(Corner(g, x, y), iw, ih) <=>
              x \in 0 .. Columns(g, iw) - 1 /\ y \in 0 .. Count(ih, g.th) - 1
  BY <1>2, <1>3, <1>4, Zenon DEF InImage
<1>7. ASSUME NEW u \in Int, NEW v \in Int, Corner(g, x, y) = Corner(g, u, v)
      PROVE  x = u /\ y = v
  <2>1. x * g.tw = u * g.tw /\ y * g.th = v * g.th
    BY <1>4, <1>7, Zenon
  <2> QED BY <1>2, <1>3, <2>1, Zenon
<1> QED BY <1>5, <1>6, <1>7, Zenon

(* What is left of a block are its tiles in the image. *)
LEMMA BlockKept ==
  ASSUME NEW g, GridOK(g), NEW iw \in Nat \ {0}, NEW ih \in Nat \ {0},
         NEW k \in Blocks(g, iw, ih),
         NEW us, us = KeptTiles(BlockTiles(g, iw, ih, Spiral(SpiralSide(g, iw, ih))[k]), iw, ih)
  PROVE  us \in Seq([x : Int, y : Int]) /\ KeepsBlock(g, iw, ih, k, us)
<1> DEFINE n == HilbertSize(g) * HilbertSize(g)
           b == Spiral(SpiralSide(g, iw, ih))[k]
           ts == BlockTiles(g, iw, ih, b)
           A(d) == ColumnOf(g, iw, ih, k, d)
           B(d) == RowOf(g, iw, ih, k, d)
           S == [x : Int, y : Int]
           D == BlockPlaces(g)
           In(d) == A(d) \in 0 .. Columns(g, iw) - 1 /\ B(d) \in 0 .. Count(ih, g.th) - 1
<1>1. n \in Nat /\ D = 1 .. n
  <2>1. HilbertSize(g) \in {4, 8}
    BY SpiralSquare
  <2> QED BY <2>1 DEF BlockPlaces
<1>2. ts = [d \in 1 .. n |-> Corner(g, A(d), B(d))]
  BY Zenon DEF BlockTiles, Corner, ColumnOf, RowOf, PlaceX, PlaceY
<1>3. \A d \in D : A(d) \in Int /\ B(d) \in Int
  BY SpiralReaches, Zenon DEF ReachedOnce
<1>4. \A d, e \in D : A(d) = A(e) /\ B(d) = B(e) => d = e
  <2>1. \A l, m \in Blocks(g, iw, ih) : \A d, e \in BlockPlaces(g) :
          /\ ColumnOf(g, iw, ih, l, d) = ColumnOf(g, iw, ih, m, e)
          /\ RowOf(g, iw, ih, l, d) = RowOf(g, iw, ih, m, e)
          => l = m /\ d = e
    BY SpiralReaches, Zenon DEF ReachedOnce
  <2> SUFFICES ASSUME NEW d \in D, NEW e \in D, A(d) = A(e), B(d) = B(e) PROVE d = e
    BY Zenon
  <2>2. k = k /\ d = e
    BY <2>1
  <2> QED BY <2>2
<1>5. us = KeptTiles(ts, iw, ih)
  OBVIOUS
<1> HIDE DEF n, b, ts, A, B, S, D
<1>6. \A d \in D : ts[d] = Corner(g, A(d), B(d))
  BY <1>1, <1>2
<1>7. ASSUME NEW d \in D
      PROVE  /\ ts[d] \in S /\ (InImage(ts[d], iw, ih) <=> In(d))
             /\ \A e \in D : ts[d] = ts[e] => d = e
  <2>1. A(d) \in Int /\ B(d) \in Int
    BY <1>3, Zenon
  <2>2. /\ Corner(g, A(d), B(d)) \in S
        /\ InImage(Corner(g, A(d), B(d)), iw, ih) <=> In(d)
        /\ \A u, v \in Int : Corner(g, A(d), B(d)) = Corner(g, u, v) => A(d) = u /\ B(d) = v
    <3> DEFINE a == A(d)
               c == B(d)
    <3>1. a \in Int /\ c \in Int
      BY <2>1, Zenon
    <3> HIDE DEF a, c
    <3>2. /\ Corner(g, a, c) \in S
          /\ InImage(Corner(g, a, c), iw, ih) <=>
               a \in 0 .. Columns(g, iw) - 1 /\ c \in 0 .. Count(ih, g.th) - 1
          /\ \A u, v \in Int : Corner(g, a, c) = Corner(g, u, v) => a = u /\ c = v
      BY <3>1, CornersApart DEF S
    <3> QED BY <3>2, Zenon DEF a, c
  <2>3. ts[d] \in S /\ (InImage(ts[d], iw, ih) <=> In(d))
    BY <1>6, <2>2
  <2>4. ASSUME NEW e \in D, ts[d] = ts[e] PROVE d = e
    <3>1. Corner(g, A(d), B(d)) = Corner(g, A(e), B(e))
      BY <1>6, <2>4
    <3>2. A(e) \in Int /\ B(e) \in Int
      BY <1>3, Zenon
    <3>3. A(d) = A(e) /\ B(d) = B(e)
      BY <2>2, <3>1, <3>2, Zenon
    <3> QED BY <1>4, <3>3, Zenon
  <2> QED BY <2>3, <2>4, Zenon
<1>8. ts \in [1 .. n -> S]
  <2>1. ts = [d \in 1 .. n |-> ts[d]]
    BY <1>2
  <2> QED BY <1>1, <1>7, <2>1
<1>9. us \in Seq(S) /\ Keeps(us, ts, n, iw, ih)
  <2>1. \A d, e \in 1 .. n : ts[d] = ts[e] => d = e
    BY <1>1, <1>7, Zenon
  <2>2. KeptTiles(ts, iw, ih) \in Seq(S) /\ Keeps(KeptTiles(ts, iw, ih), ts, n, iw, ih)
    BY <1>1, <1>8, <2>1, TilesKept
  <2> QED BY <1>5, <2>2
<1>10. /\ \A j \in 1 .. Len(us) : \E d \in D : us[j] = ts[d] /\ InImage(ts[d], iw, ih)
       /\ \A d \in D : InImage(ts[d], iw, ih) => \E j \in 1 .. Len(us) : us[j] = ts[d]
       /\ \A j, l \in 1 .. Len(us) : us[j] = us[l] => j = l
  BY <1>1, <1>9, Zenon DEF Keeps
<1>11. \A j \in 1 .. Len(us) : \E d \in D : us[j] = Corner(g, A(d), B(d)) /\ In(d)
  <2> TAKE j \in 1 .. Len(us)
  <2>1. PICK d \in D : us[j] = ts[d] /\ InImage(ts[d], iw, ih)
    BY <1>10, Zenon
  <2>2. In(d)
    BY <1>7, <2>1, Zenon
  <2>3. us[j] = Corner(g, A(d), B(d))
    BY <1>6, <2>1
  <2> QED BY <2>2, <2>3, Zenon
<1>12. \A d \in D : In(d) => \E j \in 1 .. Len(us) : us[j] = Corner(g, A(d), B(d))
  <2> SUFFICES ASSUME NEW d \in D, In(d) PROVE \E j \in 1 .. Len(us) : us[j] = Corner(g, A(d), B(d))
    BY Zenon
  <2>1. InImage(ts[d], iw, ih)
    BY <1>7, Zenon
  <2>2. PICK j \in 1 .. Len(us) : us[j] = ts[d]
    BY <1>10, <2>1, Zenon
  <2> QED BY <1>6, <2>2
<1>13. \A j, l \in 1 .. Len(us) : us[j] = us[l] => j = l
  BY <1>10, Zenon
<1> QED BY <1>9, <1>11, <1>12, <1>13, Zenon DEF KeepsBlock, A, B, D, S

(* The corners of all tiles of the image, each of them once. *)
EachOnce(g, iw, ih, order) ==
  /\ \A j \in 1 .. Len(order) :
       \E x \in 0 .. Columns(g, iw) - 1 : \E y \in 0 .. Count(ih, g.th) - 1 :
         order[j] = Corner(g, x, y)
  /\ \A x \in 0 .. Columns(g, iw) - 1 : \A y \in 0 .. Count(ih, g.th) - 1 :
       \E j \in 1 .. Len(order) : order[j] = Corner(g, x, y)
  /\ \A j, l \in 1 .. Len(order) : order[j] = order[l] => j = l

(* What the blocks keep is joined. *)
KeptBlocks(g, iw, ih) ==
  LET n == SpiralSide(g, iw, ih) IN
  [k \in 1 .. n * n |-> KeptTiles(BlockTiles(g, iw, ih, Spiral(n)[k]), iw, ih)]

(* The order of tiles is that of the blocks. *)
LEMMA BlocksJoined ==
  ASSUME NEW g, GridOK(g), NEW iw \in Nat \ {0}, NEW ih \in Nat \ {0}
  PROVE  /\ HilbertOrder(g, iw, ih) \in Seq([x : Int, y : Int])
         /\ \A k \in Blocks(g, iw, ih) : KeepsBlock(g, iw, ih, k, KeptBlocks(g, iw, ih)[k])
         /\ \E n \in Nat : \E from :
              /\ Blocks(g, iw, ih) = 1 .. n
              /\ Joined(HilbertOrder(g, iw, ih), KeptBlocks(g, iw, ih), n, from)
<1> DEFINE m == SpiralSide(g, iw, ih)
           n == m * m
           seqs == KeptBlocks(g, iw, ih)
           S == [x : Int, y : Int]
           One(k) == KeptTiles(BlockTiles(g, iw, ih, Spiral(m)[k]), iw, ih)
<1>1. n \in Nat \ {0} /\ Blocks(g, iw, ih) = 1 .. n
  <2>1. \E c \in Nat : m = 2 * c + 1
    BY SpiralSquare
  <2> HIDE DEF m
  <2>2. m \in Nat \ {0}
    BY <2>1
  <2> QED BY <2>2 DEF Blocks, m
<1>2. seqs = [k \in 1 .. n |-> One(k)]
  BY Zenon DEF KeptBlocks
<1>3. HilbertOrder(g, iw, ih) = FlattenSeq(seqs)
  BY Zenon DEF HilbertOrder, KeptBlocks
<1>4. ASSUME NEW k \in 1 .. n
      PROVE  One(k) \in Seq(S) /\ KeepsBlock(g, iw, ih, k, One(k))
  <2> DEFINE us == One(k)
  <2>1. us = KeptTiles(BlockTiles(g, iw, ih, Spiral(SpiralSide(g, iw, ih))[k]), iw, ih)
    BY Zenon
  <2> HIDE DEF us
  <2>2. us \in Seq(S) /\ KeepsBlock(g, iw, ih, k, us)
    BY <1>1, <2>1, BlockKept
  <2> QED BY <2>2, Zenon DEF us
<1> HIDE DEF n, seqs, One, S
<1>5. seqs \in [1 .. n -> Seq(S)] /\ \A k \in 1 .. n : seqs[k] = One(k)
  BY <1>2, <1>4
<1>6. /\ FlattenSeq(seqs) \in Seq(S)
      /\ \E from : Joined(FlattenSeq(seqs), seqs, n, from)
  BY <1>1, <1>5, Flattened
<1>7. \A k \in Blocks(g, iw, ih) : KeepsBlock(g, iw, ih, k, seqs[k])
  BY <1>1, <1>4, <1>5
<1>8. \E from : Blocks(g, iw, ih) = 1 .. n /\ Joined(HilbertOrder(g, iw, ih), seqs, n, from)
  BY <1>1, <1>3, <1>6
<1>9. HilbertOrder(g, iw, ih) \in Seq(S)
  BY <1>3, <1>6
<1> QED BY <1>1, <1>7, <1>8, <1>9 DEF seqs, S

(* The spiral comes to each tile of the image once. *)
LEMMA OrderOnce ==
  ASSUME NEW g, GridOK(g), NEW iw \in Nat \ {0}, NEW ih \in Nat \ {0}
  PROVE  /\ HilbertOrder(g, iw, ih) \in Seq([x : Int, y : Int])
         /\ EachOnce(g, iw, ih, HilbertOrder(g, iw, ih))
<1> DEFINE order == HilbertOrder(g, iw, ih)
           seqs == KeptBlocks(g, iw, ih)
           A(k, d) == ColumnOf(g, iw, ih, k, d)
           B(k, d) == RowOf(g, iw, ih, k, d)
           D == BlockPlaces(g)
           XS == 0 .. Columns(g, iw) - 1
           YS == 0 .. Count(ih, g.th) - 1
           L == Len(order)
<1>1. order \in Seq([x : Int, y : Int])
  BY BlocksJoined
<1>0. PICK n \in Nat : \E fr : Blocks(g, iw, ih) = 1 .. n /\ Joined(order, seqs, n, fr)
  BY BlocksJoined
<1>2. PICK from : Blocks(g, iw, ih) = 1 .. n /\ Joined(order, seqs, n, from)
  BY <1>0
<1> DEFINE K == 1 .. n
<1>3. /\ \A i \in K : \A k \in 1 .. Len(seqs[i]) :
           from[i] + k \in 1 .. L /\ order[from[i] + k] = seqs[i][k]
      /\ \A j \in 1 .. L : \E i \in K : \E k \in 1 .. Len(seqs[i]) : j = from[i] + k
  BY <1>2 DEF Joined
<1>4. \A k \in K : KeepsBlock(g, iw, ih, k, seqs[k])
  BY <1>2, BlocksJoined
<1>5. ASSUME NEW k \in K
      PROVE  /\ \A j \in 1 .. Len(seqs[k]) : \E d \in D :
                  seqs[k][j] = Corner(g, A(k, d), B(k, d)) /\ A(k, d) \in XS /\ B(k, d) \in YS
             /\ \A d \in D : A(k, d) \in XS /\ B(k, d) \in YS =>
                  \E j \in 1 .. Len(seqs[k]) : seqs[k][j] = Corner(g, A(k, d), B(k, d))
             /\ \A j, l \in 1 .. Len(seqs[k]) : seqs[k][j] = seqs[k][l] => j = l
  BY <1>4, Zenon DEF KeepsBlock
<1> DEFINE M == Blocks(g, iw, ih)
<1>6. \A k, l \in K : \A d, e \in D : A(k, d) = A(l, e) /\ B(k, d) = B(l, e) => k = l
  <2>1. \A k, l \in M : \A d, e \in D : A(k, d) = A(l, e) /\ B(k, d) = B(l, e) => k = l /\ d = e
    BY SpiralReaches, Zenon DEF ReachedOnce
  <2>2. M = K
    BY <1>2, Zenon
  <2> HIDE DEF M, K, A, B, D
  <2> QED BY <2>1, <2>2
<1>7. \A x \in XS : \A y \in YS : \E k \in K : \E d \in D : A(k, d) = x /\ B(k, d) = y
  <2>1. \A x \in XS : \A y \in YS : \E k \in M : \E d \in D : A(k, d) = x /\ B(k, d) = y
    <3>1. ReachedOnce(g, iw, ih)
      BY SpiralReaches
    <3> QED BY <3>1, SMT DEF ReachedOnce
  <2>2. M = K
    BY <1>2, Zenon
  <2> HIDE DEF M, K, A, B, D, XS, YS
  <2> QED BY <2>1, <2>2
<1>8. XS \subseteq Int /\ YS \subseteq Int
  OBVIOUS
<1> HIDE DEF order, seqs, M, A, B, D, XS, YS, L, K
<1>9. ASSUME NEW j \in 1 .. L
      PROVE  \E x \in XS : \E y \in YS : order[j] = Corner(g, x, y)
  <2>1. PICK i \in K : \E k \in 1 .. Len(seqs[i]) : j = from[i] + k
    BY <1>3, Zenon
  <2>2. PICK k \in 1 .. Len(seqs[i]) : j = from[i] + k
    BY <2>1, Zenon
  <2>3. PICK d \in D : seqs[i][k] = Corner(g, A(i, d), B(i, d)) /\ A(i, d) \in XS /\ B(i, d) \in YS
    BY <1>5, Zenon
  <2> QED BY <1>3, <2>2, <2>3, Zenon
<1>10. ASSUME NEW x \in XS, NEW y \in YS
       PROVE  \E j \in 1 .. L : order[j] = Corner(g, x, y)
  <2>1. PICK k \in K : \E d \in D : A(k, d) = x /\ B(k, d) = y
    BY <1>7, Zenon
  <2>2. PICK d \in D : A(k, d) = x /\ B(k, d) = y
    BY <2>1, Zenon
  <2>3. PICK j \in 1 .. Len(seqs[k]) : seqs[k][j] = Corner(g, A(k, d), B(k, d))
    BY <1>5, <2>2, Zenon
  <2>4. from[k] + j \in 1 .. L /\ order[from[k] + j] = Corner(g, x, y)
    BY <1>3, <2>2, <2>3, Zenon
  <2> QED BY <2>4, Zenon
<1>11. ASSUME NEW j \in 1 .. L, NEW l \in 1 .. L, order[j] = order[l]
       PROVE  j = l
  <2>1. PICK i \in K : \E k \in 1 .. Len(seqs[i]) : j = from[i] + k
    BY <1>3, Zenon
  <2>2. PICK k \in 1 .. Len(seqs[i]) : j = from[i] + k
    BY <2>1, Zenon
  <2>3. PICK o \in K : \E k1 \in 1 .. Len(seqs[o]) : l = from[o] + k1
    BY <1>3, Zenon
  <2>4. PICK p \in 1 .. Len(seqs[o]) : l = from[o] + p
    BY <2>3, Zenon
  <2>5. PICK d \in D : seqs[i][k] = Corner(g, A(i, d), B(i, d)) /\ A(i, d) \in XS /\ B(i, d) \in YS
    BY <1>5, Zenon
  <2>6. PICK e \in D : seqs[o][p] = Corner(g, A(o, e), B(o, e)) /\ A(o, e) \in XS /\ B(o, e) \in YS
    BY <1>5, Zenon
  <2>7. seqs[i][k] = seqs[o][p]
    <3>1. order[from[i] + k] = seqs[i][k] /\ order[from[o] + p] = seqs[o][p]
      BY <1>3, Zenon
    <3> QED BY <1>11, <2>2, <2>4, <3>1, Zenon
  <2>8. A(i, d) = A(o, e) /\ B(i, d) = B(o, e)
    <3> DEFINE a == A(i, d)
               b == B(i, d)
               u == A(o, e)
               v == B(o, e)
    <3>1. a \in Int /\ b \in Int /\ u \in Int /\ v \in Int
      BY <1>8, <2>5, <2>6
    <3>2. Corner(g, a, b) = Corner(g, u, v)
      BY <2>5, <2>6, <2>7, Zenon
    <3> HIDE DEF a, b, u, v
    <3>3. a = u /\ b = v
      BY <3>1, <3>2, CornersApart
    <3> QED BY <3>3, Zenon DEF a, b, u, v
  <2>9. i = o
    BY <1>6, <2>8
  <2>10. k = p
    <3>1. \A q, s \in 1 .. Len(seqs[i]) : seqs[i][q] = seqs[i][s] => q = s
      BY <1>5, Zenon
    <3> QED BY <2>7, <2>9, <3>1
  <2> QED BY <2>2, <2>4, <2>9, <2>10, Zenon
<1>12. EachOnce(g, iw, ih, order)
  BY <1>9, <1>10, <1>11, Zenon DEF EachOnce, L, XS, YS
<1> QED BY <1>1, <1>12, Zenon DEF order

(* The index of the tile with corner p. *)
IndexOf(g, iw, p) == (p.y \div g.th) * Columns(g, iw) + p.x \div g.tw

(* A column and a row have one index. *)
LEMMA CornerIndex ==
  ASSUME NEW g, GridOK(g), NEW iw \in Nat \ {0}, NEW rows \in Nat,
         NEW x \in 0 .. Columns(g, iw) - 1, NEW y \in 0 .. rows - 1
  PROVE  LET i == IndexOf(g, iw, Corner(g, x, y)) IN
         /\ i = y * Columns(g, iw) + x
         /\ i \in 0 .. Columns(g, iw) * rows - 1
         /\ i % Columns(g, iw) = x /\ i \div Columns(g, iw) = y
<1> DEFINE c == Columns(g, iw)
<1>1. g.tw \in Nat \ {0} /\ g.th \in Nat \ {0} /\ c \in Nat \ {0}
  BY TilesCounted DEF GridOK, Columns
<1>2. (x * g.tw) \div g.tw = x /\ (y * g.th) \div g.th = y
  <2>1. ASSUME NEW a \in Nat, NEW t \in Nat \ {0} PROVE (a * t) \div t = a
    <3>1. 0 \in 0 .. t - 1 /\ a * t + 0 = a * t
      OBVIOUS
    <3>2. (a * t + 0) \div t = a
      BY <3>1, Position
    <3> QED BY <3>1, <3>2
  <2>2. x \in Nat /\ y \in Nat
    OBVIOUS
  <2> QED BY <1>1, <2>1, <2>2
<1>3. IndexOf(g, iw, Corner(g, x, y)) = y * c + x
  <2>1. Corner(g, x, y).x = x * g.tw /\ Corner(g, x, y).y = y * g.th
    BY DEF Corner
  <2> QED BY <1>2, <2>1, Zenon DEF IndexOf
<1>4. x \in 0 .. c - 1 /\ y \in Nat
  OBVIOUS
<1> HIDE DEF c
<1>5. /\ y * c + x \in Nat
      /\ (y * c + x) \div c = y /\ (y * c + x) % c = x
  <2>1. \A b \in Nat : \A a \in 0 .. c - 1 :
          b * c + a \in Nat /\ (b * c + a) \div c = b /\ (b * c + a) % c = a
    BY <1>1, Position
  <2> QED BY <1>4, <2>1, Zenon
<1>6. y * c + c <= rows * c /\ rows * c = c * rows /\ y * c \in Nat /\ c * rows \in Nat
  BY <1>1, Multiples
<1>7. y * c + x \in 0 .. c * rows - 1
  BY <1>1, <1>4, <1>5, <1>6
<1> QED BY <1>3, <1>5, <1>7 DEF c

(* So the spiral has as many tiles as there are. *)
LEMMA OrderIndices ==
  ASSUME NEW g, GridOK(g), NEW iw \in Nat \ {0}, NEW ih \in Nat \ {0}
  PROVE  LET order == HilbertOrder(g, iw, ih)
             count == Columns(g, iw) * Count(ih, g.th)
         IN  /\ count \in Nat \ {0} /\ Len(order) = count /\ DOMAIN order = 1 .. count
             /\ \A i \in 0 .. count - 1 : \E k \in 1 .. count : IndexOf(g, iw, order[k]) = i
             /\ \A k \in 1 .. count :
                  LET i == IndexOf(g, iw, order[k]) IN
                  /\ i \in 0 .. count - 1
                  /\ order[k] = Corner(g, i % Columns(g, iw), i \div Columns(g, iw))
<1> DEFINE order == HilbertOrder(g, iw, ih)
           c == Columns(g, iw)
           r == Count(ih, g.th)
           count == c * r
           I(k) == IndexOf(g, iw, order[k])
           K == 1 .. Len(order)
           T == 0 .. count - 1
<1>1. c \in Nat \ {0} /\ r \in Nat \ {0}
  BY TilesCounted DEF GridOK, Columns
<1>2. Len(order) \in Nat /\ DOMAIN order = K
  BY OrderOnce
<1>3. /\ \A j \in K : \E x \in 0 .. c - 1 : \E y \in 0 .. r - 1 : order[j] = Corner(g, x, y)
      /\ \A x \in 0 .. c - 1 : \A y \in 0 .. r - 1 : \E j \in K : order[j] = Corner(g, x, y)
      /\ \A j, l \in K : order[j] = order[l] => j = l
  BY OrderOnce, Zenon DEF EachOnce
<1>4. ASSUME NEW x \in 0 .. c - 1, NEW y \in 0 .. r - 1
      PROVE  LET i == IndexOf(g, iw, Corner(g, x, y)) IN
             i = y * c + x /\ i \in T /\ i % c = x /\ i \div c = y
  BY <1>1, CornerIndex
<1> HIDE DEF order, c, r
<1>5. count \in Nat \ {0}
  BY <1>1
<1> HIDE DEF count
<1>6. ASSUME NEW k \in K
      PROVE  I(k) \in T /\ order[k] = Corner(g, I(k) % c, I(k) \div c)
  <2>1. PICK x \in 0 .. c - 1 : \E y \in 0 .. r - 1 : order[k] = Corner(g, x, y)
    BY <1>3, Zenon
  <2>2. PICK y \in 0 .. r - 1 : order[k] = Corner(g, x, y)
    BY <2>1, Zenon
  <2>3. I(k) = IndexOf(g, iw, Corner(g, x, y))
    BY <2>2, Zenon
  <2>4. I(k) \in T /\ I(k) % c = x /\ I(k) \div c = y
    BY <1>4, <2>3, Zenon
  <2> QED BY <2>2, <2>4, Zenon
<1>7. ASSUME NEW i \in T PROVE \E k \in K : I(k) = i
  <2>1. i \in Nat /\ i < r * c
    BY <1>1, <1>5 DEF count
  <2>2. i \div c \in Nat /\ i % c \in 0 .. c - 1 /\ i = (i \div c) * c + (i % c)
    BY <1>1, <2>1, Split
  <2> DEFINE y == i \div c
             x == i % c
  <2>3. y \in Nat /\ x \in 0 .. c - 1 /\ i = y * c + x
    BY <2>2, Zenon
  <2> HIDE DEF x, y
  <2>4. r <= y => r * c <= y * c
    BY <1>1, <2>3, Multiples
  <2>5. y \in 0 .. r - 1
    BY <1>1, <2>1, <2>3, <2>4
  <2>6. PICK k \in K : order[k] = Corner(g, x, y)
    BY <1>3, <2>3, <2>5, Zenon
  <2>7. IndexOf(g, iw, Corner(g, x, y)) = i
    BY <1>4, <2>3, <2>5
  <2> QED BY <2>6, <2>7, Zenon
<1>8. ASSUME NEW k \in K, NEW l \in K, I(k) = I(l) PROVE k = l
  <2>1. order[k] = order[l]
    BY <1>6, <1>8, Zenon
  <2> QED BY <1>3, <2>1, Zenon
<1>9. Len(order) = count
  <2> DEFINE f == [k \in K |-> I(k)]
  <2>1. f \in [K -> T] /\ \A k \in K : f[k] = I(k)
    BY <1>6
  <2> HIDE DEF f, I, K, T
  <2>2. \A k, l \in K : f[k] = f[l] => k = l
    BY <1>8, <2>1
  <2>3. \A i \in T : \E k \in K : f[k] = i
    BY <1>7, <2>1
  <2>4. f \in Injection(K, T) /\ f \in Surjection(K, T)
    BY <2>1, <2>2, <2>3 DEF Injection, IsInjective, Surjection
  <2>5. IsFiniteSet(K) /\ Cardinality(K) = Len(order)
    <3>1. \A a \in Nat : a \in Int /\ 1 \in Int /\ (IF 1 > a THEN 0 ELSE a - 1 + 1) = a
      OBVIOUS
    <3> QED BY <1>2, <3>1, FS_Interval DEF K
  <2>6. IsFiniteSet(T) /\ Cardinality(T) = count
    <3>1. \A a \in Nat \ {0} : a - 1 \in Int /\ 0 \in Int /\ (IF 0 > a - 1 THEN 0 ELSE (a - 1) - 0 + 1) = a
      OBVIOUS
    <3> QED BY <1>5, <3>1, FS_Interval DEF T
  <2>7. Cardinality(K) = Cardinality(T)
    BY <2>4, <2>6, FS_Injection
  <2> QED BY <2>5, <2>6, <2>7
<1>10. DOMAIN order = 1 .. count
  BY <1>2, <1>9
<1>11. K = 1 .. count
  BY <1>9
<1>12. \A i \in T : \E k \in 1 .. count : I(k) = i
  BY <1>7, <1>11
<1>13. \A k \in 1 .. count : I(k) \in T /\ order[k] = Corner(g, I(k) % c, I(k) \div c)
  BY <1>6, <1>11
<1> HIDE DEF I, T
<1> QED BY <1>5, <1>9, <1>10, <1>12, <1>13 DEF order, count, c, r, I, T

(* A tile takes what is left of the row, but no more than its size. *)
LEMMA ExtentLeft ==
  ASSUME NEW size \in Nat \ {0}, NEW tile \in Nat \ {0}, NEW k \in 0 .. Count(size, tile) - 1
  PROVE  Smaller(tile, size - k * tile) = Extent(size, tile, Count(size, tile), k)
<1> DEFINE n == Count(size, tile)
           e == Extent(size, tile, n, k)
<1>1. /\ k * tile \in Nat /\ e \in 1 .. tile
      /\ k * tile + e <= size
  BY Extents
<1>2. e = IF k = n - 1 THEN size - k * tile ELSE tile
  BY Zenon DEF Extent
<1> HIDE DEF n, e
<1>3. Smaller(tile, size - k * tile) = e
  BY <1>1, <1>2 DEF Smaller
<1> QED BY <1>3, Zenon DEF n, e

(* The corner of a tile of the spiral, by its index. *)
CornerAt(g, iw, i) == Corner(g, i % Columns(g, iw), i \div Columns(g, iw))

(* The tiles of the Hilbert spiral are those of the rows and columns, in   *)
(* another order.                                                          *)
LEMMA HilbertAt ==
  ASSUME NEW g, GridOK(g), NEW iw \in Nat \ {0}, NEW ih \in Nat \ {0},
         NEW count, count = Columns(g, iw) * Count(ih, g.th),
         NEW i \in 1 .. count
  PROVE  /\ DOMAIN HilbertTiles(g, iw, ih) = 1 .. count
         /\ LET t == HilbertTiles(g, iw, ih)[i]
                p == CornerAt(g, iw, i - 1)
            IN  /\ t.x = p.x /\ t.w = Smaller(g.tw, iw - p.x)
                /\ t.y = p.y /\ t.h = Smaller(g.th, ih - p.y)
                /\ t.device < Lists(g, ih)
<1> DEFINE order == HilbertOrder(g, iw, ih)
           At(j) == CHOOSE k \in DOMAIN order : IndexOf(g, iw, order[k]) = j
           L == Lists(g, ih)
<1>1. /\ count \in Nat \ {0} /\ Len(order) = count /\ DOMAIN order = 1 .. count
      /\ \A j \in 0 .. count - 1 : \E k \in 1 .. count : IndexOf(g, iw, order[k]) = j
      /\ \A k \in 1 .. count :
           LET j == IndexOf(g, iw, order[k]) IN
           /\ j \in 0 .. count - 1
           /\ order[k] = Corner(g, j % Columns(g, iw), j \div Columns(g, iw))
  <2> DEFINE N == Columns(g, iw) * Count(ih, g.th)
  <2>1. /\ N \in Nat \ {0} /\ Len(order) = N /\ DOMAIN order = 1 .. N
        /\ \A j \in 0 .. N - 1 : \E k \in 1 .. N : IndexOf(g, iw, order[k]) = j
        /\ \A k \in 1 .. N :
             LET j == IndexOf(g, iw, order[k]) IN
             /\ j \in 0 .. N - 1
             /\ order[k] = Corner(g, j % Columns(g, iw), j \div Columns(g, iw))
    BY OrderIndices, Zenon
  <2>2. N = count
    OBVIOUS
  <2> QED BY <2>1, <2>2, Zenon
<1>2. HilbertTiles(g, iw, ih) =
        [j \in 1 .. count |->
           [x |-> order[At(j - 1)].x,
            y |-> order[At(j - 1)].y,
            w |-> Smaller(g.tw, iw - order[At(j - 1)].x),
            h |-> Smaller(g.th, ih - order[At(j - 1)].y),
            device |-> (At(j - 1) - 1) \div PerDevice(count, Lists(g, ih))]]
  BY Zenon DEF HilbertTiles, IndexOf, Columns
<1> DEFINE k == At(i - 1)
<1>3. k \in 1 .. count /\ IndexOf(g, iw, order[k]) = i - 1
  <2>1. i - 1 \in 0 .. count - 1
    BY <1>1
  <2>2. \E l \in DOMAIN order : IndexOf(g, iw, order[l]) = i - 1
    BY <1>1, <2>1
  <2>3. k \in DOMAIN order /\ IndexOf(g, iw, order[k]) = i - 1
    BY <2>2, Zenon
  <2> QED BY <1>1, <2>3
<1> DEFINE p == CornerAt(g, iw, i - 1)
<1>4. order[k] = p
  BY <1>1, <1>3, Zenon DEF CornerAt
<1> HIDE DEF order, p
<1>5. /\ DOMAIN HilbertTiles(g, iw, ih) = 1 .. count
      /\ HilbertTiles(g, iw, ih)[i] =
           [x |-> p.x, y |-> p.y, w |-> Smaller(g.tw, iw - p.x), h |-> Smaller(g.th, ih - p.y),
            device |-> (k - 1) \div PerDevice(count, Lists(g, ih))]
  <2> HIDE DEF At
  <2> QED BY <1>2, <1>4
<1> HIDE DEF k
<1>6. (k - 1) \div PerDevice(count, Lists(g, ih)) < Lists(g, ih)
  <2>1. L \in Nat \ {0}
    BY DEF Lists, GridOK, Smaller
  <2> HIDE DEF L
  <2>2. (k - 1) \div PerDevice(count, L) < L
    BY <1>1, <1>3, <2>1, DeviceBelow
  <2> QED BY <2>2, Zenon DEF L
<1> QED BY <1>5, <1>6 DEF p

(* So they are the tiles of the slice, which is the whole image. *)
LEMMA HilbertRectangles ==
  ASSUME NEW g, GridOK(g), g.background, NEW iw \in Nat \ {0}, NEW ih \in Nat \ {0}
  PROVE  /\ SameRectangles(HilbertTiles(g, iw, ih), SlicedTiles(g, iw, ih))
         /\ \A i \in DOMAIN HilbertTiles(g, iw, ih) :
              HilbertTiles(g, iw, ih)[i].device < Lists(g, ih)
<1> DEFINE ts == HilbertTiles(g, iw, ih)
           us == SliceTiles(g, iw, ih, 0)
           vs == SlicedTiles(g, iw, ih)
           c == Columns(g, iw)
           r == Count(ih, g.th)
           count == c * r
<1>1. /\ Slice(g, ih, 0) = [y |-> 0, h |-> ih] /\ 0 \in Nat
      /\ g.tw \in Nat \ {0} /\ g.th \in Nat \ {0}
  BY OneSlice DEF GridOK
<1>2. c \in Nat \ {0} /\ r \in Nat \ {0}
  BY <1>1, TilesCounted DEF Columns
<1> HIDE DEF ts, us
<1>3. ASSUME NEW k \in 1 .. count
      PROVE  /\ DOMAIN us = 1 .. count /\ DOMAIN ts = 1 .. count
             /\ ts[k].x = us[k].x /\ ts[k].y = us[k].y /\ ts[k].w = us[k].w /\ ts[k].h = us[k].h
             /\ ts[k].device < Lists(g, ih)
  <2> DEFINE x == (k - 1) % c
             y == (k - 1) \div c
  <2>1. /\ DOMAIN us = 1 .. count
        /\ x \in 0 .. c - 1 /\ y \in 0 .. r - 1
        /\ us[k].x = x * g.tw /\ us[k].w = Extent(iw, g.tw, c, x)
        /\ us[k].y = y * g.th + 0 /\ us[k].h = Extent(ih, g.th, r, y)
    BY <1>1, TileAt DEF us
  <2> DEFINE p == CornerAt(g, iw, k - 1)
  <2>2. /\ DOMAIN ts = 1 .. count
        /\ ts[k].x = p.x /\ ts[k].w = Smaller(g.tw, iw - p.x)
        /\ ts[k].y = p.y /\ ts[k].h = Smaller(g.th, ih - p.y)
        /\ ts[k].device < Lists(g, ih)
    BY HilbertAt DEF ts
  <2>3. p.x = x * g.tw /\ p.y = y * g.th
    BY DEF CornerAt, Corner
  <2> HIDE DEF x, y, p
  <2>4. Smaller(g.tw, iw - x * g.tw) = Extent(iw, g.tw, c, x)
    <3>1. x \in 0 .. Count(iw, g.tw) - 1 /\ c = Count(iw, g.tw)
      BY <2>1 DEF Columns
    <3> QED BY <1>1, <3>1, ExtentLeft
  <2>5. Smaller(g.th, ih - y * g.th) = Extent(ih, g.th, r, y)
    BY <1>1, <2>1, ExtentLeft
  <2>6. y * g.th + 0 = y * g.th
    BY <1>1, <2>1
  <2> QED BY <2>1, <2>2, <2>3, <2>4, <2>5, <2>6, Zenon
<1>4. 1 \in 1 .. count
  <2>1. count \in Nat \ {0}
    BY <1>2
  <2> QED BY <2>1
<1> HIDE DEF c, r, count
<1>5. DOMAIN us = 1 .. count /\ DOMAIN ts = 1 .. count
  BY <1>3, <1>4, Zenon
<1>6. DOMAIN vs = DOMAIN us /\ \A k \in DOMAIN us : vs[k] = us[k]
  BY BackgroundTiles DEF us
<1> HIDE DEF vs
<1>7. SameRectangles(ts, vs)
  BY <1>3, <1>5, <1>6, Zenon DEF SameRectangles
<1>8. \A i \in DOMAIN ts : ts[i].device < Lists(g, ih)
  BY <1>3, <1>5, Zenon
<1> QED BY <1>7, <1>8, Zenon DEF ts, vs

-----------------------------------------------------------------------------
(* Resolution dividers, which are powers of two.                           *)

(* What doubling makes of 1. *)
Doublings ==
  {d \in Nat \ {0} : \A S \in SUBSET Nat : 1 \in S /\ (\A x \in S : 2 * x \in S) => d \in S}

(* 1 is one of them, and so is the double of each. *)
LEMMA Doubled ==
  /\ 1 \in Doublings
  /\ \A d \in Doublings : 2 * d \in Doublings
BY DEF Doublings

(* Half of what is larger than the pixel size is no smaller than it, and is *)
(* itself a doubling.                                                      *)
LEMMA Halved ==
  ASSUME NEW d \in Doublings, d # 1
  PROVE  d \div 2 \in Doublings /\ \A p \in {1, 2, 4, 8} : d > p => d \div 2 >= p
<1> DEFINE S == {1} \cup {2 * e : e \in Doublings}
           U == {1, 2, 4, 8} \cup {e \in Nat : e >= 16}
<1>1. S \in SUBSET Nat /\ 1 \in S /\ \A x \in S : 2 * x \in S
  <2>1. \A e \in Doublings : e \in Nat
    BY DEF Doublings
  <2>2. \A x \in S : x \in Doublings
    BY Doubled
  <2> QED BY <2>1, <2>2
<1>2. d \in S
  BY <1>1 DEF Doublings
<1>3. PICK e \in Doublings : d = 2 * e
  BY <1>2
<1>4. d \div 2 = e
  BY <1>3 DEF Doublings
<1>5. U \in SUBSET Nat /\ 1 \in U /\ \A x \in U : 2 * x \in U
  OBVIOUS
<1>6. d \in U
  BY <1>5 DEF Doublings
<1>7. \A p \in {1, 2, 4, 8} : d > p => e >= p
  BY <1>3, <1>6 DEF Doublings
<1> QED BY <1>3, <1>4, <1>7

(* An image has a pixel at every resolution, and the one at resolution 1   *)
(* is the whole.                                                           *)
LEMMA ScaledSize ==
  ASSUME NEW size \in Nat \ {0}, NEW d \in Nat \ {0}
  PROVE  /\ Scaled(size, d) \in Nat \ {0}
         /\ d >= size => Scaled(size, d) = 1
         /\ Scaled(size, 1) = size
<1>1. size \div d \in Nat /\ (d > size => size \div d = 0) /\ (d = size => size \div d = 1)
  OBVIOUS
<1>2. size \div 1 = size
  OBVIOUS
<1> QED BY <1>1, <1>2 DEF Scaled, Larger

(* The recursion in GetDivider, from divider a on. *)
IsDivider(f, w, h, r, a) ==
  f = [d \in {d \in Nat \ {0} : d >= a} |->
         IF Scaled(w, d) * Scaled(h, d) > r * r THEN f[2 * d] ELSE d]

(* It ends, since an image is one pixel at a high resolution divider. *)
LEMMA DividerExists ==
  ASSUME NEW w \in Nat \ {0}, NEW h \in Nat \ {0}, NEW r \in Nat \ {0}
  PROVE  \E f : IsDivider(f, w, h, r, 1)
<1> DEFINE b == w + h
           Dom(a) == {d \in Nat \ {0} : d >= a}
           Fits(d) == ~ (Scaled(w, d) * Scaled(h, d) > r * r)
           T == {m \in Nat : \E f : IsDivider(f, w, h, r, b - m)}
<1>1. \A d \in Nat : d >= b => Fits(d)
  <2> SUFFICES ASSUME NEW d \in Nat, d >= b PROVE Fits(d)
    OBVIOUS
  <2>1. Scaled(w, d) = 1 /\ Scaled(h, d) = 1
    BY ScaledSize
  <2>2. r * r >= 1
    OBVIOUS
  <2> QED BY <2>1, <2>2
<1> HIDE DEF Fits
<1>2. 0 \in T
  <2> DEFINE f == [d \in Dom(b - 0) |-> d]
  <2>1. f = [d \in Dom(b - 0) |-> IF ~ Fits(d) THEN f[2 * d] ELSE d]
    BY <1>1
  <2>2. IsDivider(f, w, h, r, b - 0)
    BY <2>1, Zenon DEF IsDivider, Fits
  <2> HIDE DEF f
  <2> QED BY <2>2
<1>3. ASSUME NEW m \in T PROVE m + 1 \in T
  <2>1. PICK f : IsDivider(f, w, h, r, b - m)
    BY <1>3
  <2>2. m \in Nat
    BY <1>3
  <2> DEFINE Body(g, d) == IF ~ Fits(d) THEN g[2 * d] ELSE d
             k == [d \in Dom(b - (m + 1)) |-> Body(f, d)]
  <2>3. \A d \in Dom(b - m) : d \in Dom(b - (m + 1)) /\ f[d] = Body(f, d)
    <3>1. f = [d \in Dom(b - m) |-> Body(f, d)]
      BY <2>1, Zenon DEF IsDivider, Fits
    <3>2. \A d \in Dom(b - m) : f[d] = Body(f, d)
      BY <3>1, Zenon
    <3>3. \A d \in Dom(b - m) : d \in Dom(b - (m + 1))
      BY <2>2
    <3> QED BY <3>2, <3>3, Zenon
  <2>4. \A d \in Dom(b - m) : k[d] = f[d]
    BY <2>3
  <2>5. \A d \in Dom(b - (m + 1)) : 2 * d \in Dom(b - m)
    BY <2>2
  <2> HIDE DEF k
  <2>6. \A d \in Dom(b - (m + 1)) : Body(f, d) = Body(k, d)
    <3> HIDE DEF Dom
    <3> QED BY <2>4, <2>5, Zenon
  <2>7. k = [d \in Dom(b - (m + 1)) |-> Body(k, d)]
    BY <2>6, Zenon DEF k
  <2>8. IsDivider(k, w, h, r, b - (m + 1))
    BY <2>7, Zenon DEF IsDivider, Fits
  <2> QED BY <2>2, <2>8
<1> HIDE DEF T
<1>4. T \in SUBSET Nat
  BY DEF T
<1>5. b - 1 \in T /\ b - (b - 1) = 1
  BY <1>2, <1>3, <1>4, Induction
<1> QED BY <1>5 DEF T

(* get_divider returns a doubling. *)
LEMMA DividerDoubled ==
  ASSUME NEW w \in Nat \ {0}, NEW h \in Nat \ {0}, NEW r \in Nat
  PROVE  GetDivider(w, h, r) \in Doublings
<1>1. CASE r = Unlimited
  BY <1>1, Doubled DEF GetDivider
<1>2. CASE r # Unlimited
  <2>1. r \in Nat \ {0}
    BY <1>2 DEF Unlimited
  <2> DEFINE Fits(d) == ~ (Scaled(w, d) * Scaled(h, d) > r * r)
             f == CHOOSE g : g = [d \in Nat \ {0} |->
                    IF Scaled(w, d) * Scaled(h, d) > r * r THEN g[2 * d] ELSE d]
  <2>2. GetDivider(w, h, r) = f[1]
    BY <1>2 DEF GetDivider
  <2>3. f = [d \in Nat \ {0} |-> IF ~ Fits(d) THEN f[2 * d] ELSE d]
    <3>1. {d \in Nat \ {0} : d >= 1} = Nat \ {0}
      OBVIOUS
    <3>2. \E g : g = [d \in Nat \ {0} |->
                    IF Scaled(w, d) * Scaled(h, d) > r * r THEN g[2 * d] ELSE d]
      <4>1. PICK g : IsDivider(g, w, h, r, 1)
        BY <2>1, DividerExists
      <4>2. g = [d \in {d \in Nat \ {0} : d >= 1} |->
                    IF Scaled(w, d) * Scaled(h, d) > r * r THEN g[2 * d] ELSE d]
        BY <4>1, Zenon DEF IsDivider
      <4> QED BY <3>1, <4>2, Zenon
    <3> QED BY <3>2, Zenon DEF Fits
  <2> DEFINE T == {m \in Nat : \A d \in Doublings : d + m >= w + h => f[d] \in Doublings}
  <2>4. \A d \in Nat \ {0} : f[d] = IF ~ Fits(d) THEN f[2 * d] ELSE d
    <3> HIDE DEF f, Fits
    <3> QED BY <2>3, Zenon
  <2>5. \A d \in Nat \ {0} : d >= w + h => Fits(d)
    <3> SUFFICES ASSUME NEW d \in Nat \ {0}, d >= w + h PROVE Fits(d)
      BY Zenon
    <3>1. Scaled(w, d) = 1 /\ Scaled(h, d) = 1
      BY ScaledSize
    <3>2. r * r >= 1
      BY <2>1
    <3> QED BY <3>1, <3>2
  <2> HIDE DEF f, Fits
  <2>6. \A d \in Doublings : d \in Nat \ {0}
    BY DEF Doublings
  <2>7. 0 \in T
    BY <2>4, <2>5, <2>6
  <2>8. ASSUME NEW m \in T PROVE m + 1 \in T
    <3>1. m \in Nat
      BY <2>8
    <3>2. ASSUME NEW d \in Doublings, d + (m + 1) >= w + h PROVE f[d] \in Doublings
      <4>1. 2 * d \in Doublings /\ 2 * d + m >= w + h
        BY <2>6, <3>1, <3>2, Doubled
      <4>2. f[2 * d] \in Doublings
        BY <2>8, <4>1
      <4> QED BY <2>4, <2>6, <4>2
    <3> QED BY <3>1, <3>2
  <2> HIDE DEF T
  <2>9. T \in SUBSET Nat
    BY DEF T
  <2>10. w + h \in T
    BY <2>7, <2>8, <2>9, Induction
  <2> QED BY <2>2, <2>6, <2>10, Doubled DEF T
<1> QED BY <1>1, <1>2

-----------------------------------------------------------------------------
(* The passes of a render.                                                 *)

(* PassCounter with its parameters put in. *)
Preview == setup.progressive /\ divider > setup.pixelSize
Samples == IF setup.num = -1 THEN numSamples ELSE setup.num
End == IF setup.num = -1 THEN numSamples ELSE setup.start + setup.num
Over == divider = setup.pixelSize /\ sample + passSamples >= End
Half(d, p) == IF d \div 2 > p THEN d \div 2 ELSE p

(* What next() does, and what is reported of the pass it starts. *)
LEMMA PassTaken ==
  ASSUME NextPass
  PROVE  /\ ~Over
         /\ IF Preview
            THEN sample' = 0 /\ passSamples' = 1 /\ divider' = Half(divider, setup.pixelSize)
            ELSE /\ sample' = sample + 1 /\ divider' = setup.pixelSize
                 /\ passSamples' = IF setup.progressive THEN 1 ELSE Samples
         /\ IF Preview \/ sample + 1 = setup.start
            THEN SetTiles(divider')
            ELSE UNCHANGED <<tiles, lists>>
         /\ pixelSamples' = pixelSamples + passSamples' * AllPixels(tiles')
              + (IF setup.denoise /\ Over' THEN AllPixels(tiles') ELSE 0)
         /\ UNCHANGED <<setup, numSamples, total>>
BY DEF NextPass, Counter!NextPass, Counter!Done, Counter!IsPreviewPass, Counter!NextPreview,
  Counter!NextSample, Counter!LaysOutTiles, Counter!Finer, Counter!EndSample,
  Counter!EffectiveSamples, Preview, Samples, End, Over, Half

(* When it returns false. *)
LEMMA WhenFinished == Finished <=> Over
BY DEF Finished, Counter!Done, Counter!EndSample, Over, End

(* What SetupAssumption says of one setup. *)
LEMMA SetupTyped ==
  ASSUME NEW g \in Setups
  PROVE  /\ g.w \in Nat \ {0} /\ g.h \in Nat \ {0} /\ g.tw \in Nat \ {0} /\ g.th \in Nat \ {0}
         /\ g.devices \in Nat \ {0} /\ g.overlap \in Nat /\ g.startResolution \in Nat
         /\ g.start \in Nat /\ g.background \in BOOLEAN /\ g.preserve \in BOOLEAN
         /\ g.hilbert \in BOOLEAN /\ g.denoise \in BOOLEAN /\ g.progressive \in BOOLEAN
         /\ g.pixelSize \in {1, 2, 4, 8}
         /\ g.hilbert => g.background /\ g.overlap = 0
         /\ g.num \in Nat \cup {-1}
         /\ g.num = -1 => g.start = 0
         /\ g.startResolution # Unlimited => g.progressive /\ g.num = -1
         /\ g.denoise => g.pixelSize = 1
BY SetupAssumption

(* Before the first pass there are no tiles; after it they are those of    *)
(* the resolution of the pass, though most passes do not lay them out.     *)
BeforeFirst == sample = setup.start - 1

LaidOut ==
  /\ setup \in Setups /\ numSamples \in SampleCounts /\ divider \in Doublings
  /\ sample \in Int /\ sample >= setup.start - 1 /\ passSamples \in Nat
  /\ IF BeforeFirst
     THEN tiles = <<>>
     ELSE /\ tiles = GenTiles(setup, Width, Height) /\ lists = Lists(setup, Height)
          /\ divider >= setup.pixelSize
  /\ divider > setup.pixelSize => setup.progressive /\ setup.num = -1 /\ sample \in {-1, 0}

(* It holds before the first pass, ... *)
LEMMA LaidOutInit == Init => LaidOut
<1> SUFFICES ASSUME Init PROVE LaidOut
  OBVIOUS
<1>1. setup \in Setups /\ numSamples \in SampleCounts
  BY DEF Init
<1>2. /\ setup.w \in Nat \ {0} /\ setup.h \in Nat \ {0} /\ setup.startResolution \in Nat
      /\ setup.start \in Nat /\ setup.pixelSize \in {1, 2, 4, 8}
      /\ setup.num = -1 => setup.start = 0
      /\ setup.startResolution # Unlimited => setup.progressive /\ setup.num = -1
  BY <1>1, SetupTyped
<1>3. divider \in Doublings
  BY <1>2, DividerDoubled DEF Init
<1>4. setup.startResolution = Unlimited => divider = 1
  BY DEF Init, GetDivider
<1>5. sample = setup.start - 1 /\ passSamples = 0 /\ tiles = <<>>
  BY DEF Init
<1>6. BeforeFirst /\ sample \in Int /\ sample >= setup.start - 1
  BY <1>2, <1>5 DEF BeforeFirst
<1>7. divider > setup.pixelSize => setup.progressive /\ setup.num = -1 /\ sample \in {-1, 0}
  BY <1>2, <1>4, <1>5
<1> QED BY <1>1, <1>3, <1>5, <1>6, <1>7 DEF LaidOut

(* ... and every pass keeps it, ... *)
LEMMA LaidOutNext == LaidOut /\ [Next]_vars => LaidOut'
<1> SUFFICES ASSUME LaidOut, [Next]_vars PROVE LaidOut'
  OBVIOUS
<1>1. CASE UNCHANGED vars
  BY <1>1 DEF LaidOut, vars, counters, BeforeFirst, Width, Height
<1>2. CASE NextPass
  <2>1. /\ setup \in Setups /\ numSamples \in SampleCounts /\ divider \in Doublings
        /\ sample \in Int /\ sample >= setup.start - 1 /\ passSamples \in Nat
        /\ BeforeFirst => tiles = <<>>
        /\ ~BeforeFirst => /\ tiles = GenTiles(setup, Width, Height)
                           /\ lists = Lists(setup, Height)
                           /\ divider >= setup.pixelSize
        /\ divider > setup.pixelSize
             => setup.progressive /\ setup.num = -1 /\ sample \in {-1, 0}
    BY DEF LaidOut
  <2>2. /\ setup.start \in Nat /\ setup.pixelSize \in {1, 2, 4, 8}
        /\ setup.num = -1 => setup.start = 0
        /\ setup.num \in Nat \cup {-1} /\ setup.progressive \in BOOLEAN
    BY <2>1, SetupTyped
  <2>3. divider \in Nat \ {0} /\ numSamples \in Nat
    BY <2>1, SetupAssumption DEF Doublings
  <2>4. setup' = setup /\ numSamples' = numSamples
    BY <1>2, PassTaken
  <2>5. CASE Preview
    <3>1. divider > setup.pixelSize /\ setup.start = 0 /\ sample' = 0 /\ passSamples' = 1
      BY <1>2, <2>1, <2>2, <2>5, PassTaken DEF Preview
    <3>2. divider \div 2 \in Doublings /\ divider \div 2 >= setup.pixelSize
      BY <2>1, <2>2, <2>3, <3>1, Halved
    <3>3. divider' = divider \div 2
      <4>1. divider' = Half(divider, setup.pixelSize)
        BY <1>2, <2>5, PassTaken
      <4> QED BY <2>2, <3>2, <4>1 DEF Half, Doublings
    <3>4. SetTiles(divider')
      BY <1>2, <2>5, PassTaken
    <3>5. tiles' = GenTiles(setup, Width, Height)' /\ lists' = Lists(setup, Height)'
      BY <2>4, <3>4 DEF SetTiles, Width, Height
    <3> QED BY <2>1, <2>2, <2>4, <3>1, <3>2, <3>3, <3>5 DEF LaidOut, BeforeFirst
  <2>6. CASE ~Preview
    <3>1. /\ sample' = sample + 1 /\ divider' = setup.pixelSize
          /\ passSamples' = IF setup.progressive THEN 1 ELSE Samples
      BY <1>2, <2>6, PassTaken
    <3>2. passSamples' \in Nat /\ ~BeforeFirst' /\ sample' \in Int /\ sample' >= setup.start - 1
      BY <2>1, <2>2, <2>3, <2>4, <3>1 DEF Samples, BeforeFirst
    <3>3. divider' \in Doublings
      <4>1. 1 \in Doublings /\ 2 * 1 \in Doublings /\ 2 * 2 \in Doublings /\ 2 * 4 \in Doublings
        <5>1. 2 * 1 \in Doublings
          BY Doubled
        <5>2. 2 * 2 \in Doublings
          BY <5>1, Doubled
        <5>3. 2 * 4 \in Doublings
          BY <5>2, Doubled
        <5> QED BY <5>1, <5>2, <5>3, Doubled
      <4> QED BY <2>2, <3>1, <4>1
    <3>4. tiles' = GenTiles(setup, Width, Height)' /\ lists' = Lists(setup, Height)'
      <4>1. CASE sample + 1 = setup.start
        <5>1. SetTiles(divider')
          BY <1>2, <4>1, PassTaken
        <5> QED BY <2>4, <5>1 DEF SetTiles, Width, Height
      <4>2. CASE sample + 1 # setup.start
        <5>1. tiles' = tiles /\ lists' = lists
          BY <1>2, <2>6, <4>2, PassTaken
        <5>2. ~BeforeFirst
          BY <2>1, <2>2, <4>2 DEF BeforeFirst
        <5>3. divider' = divider
          BY <2>1, <2>2, <2>3, <2>6, <3>1, <5>2 DEF Preview
        <5> QED BY <2>1, <2>4, <5>1, <5>2, <5>3 DEF Width, Height
      <4> QED BY <4>1, <4>2
    <3>5. divider' >= setup'.pixelSize /\ ~ (divider' > setup'.pixelSize)
      BY <2>2, <2>4, <3>1
    <3> QED BY <2>1, <2>4, <3>2, <3>3, <3>4, <3>5 DEF LaidOut
  <2> QED BY <2>5, <2>6
<1>3. CASE NoMorePasses
  BY <1>1, <1>3 DEF NoMorePasses
<1> QED BY <1>1, <1>2, <1>3 DEF Next

(* ... so that it holds throughout. *)
LEMMA AlwaysLaidOut == Spec => []LaidOut
BY LaidOutInit, LaidOutNext, PTL DEF Spec

(* Only the rectangles matter to it, and that their devices are there. *)
LEMMA CoverOfRectangles ==
  ASSUME NEW g, g.background, NEW iw, NEW ih, NEW ts, NEW us, SameRectangles(ts, us),
         \A k \in DOMAIN ts : ts[k].device < Lists(g, ih),
         CoversImage(g, iw, ih, us)
  PROVE  CoversImage(g, iw, ih, ts)
<1> DEFINE H(vs, x, y) == {k \in DOMAIN vs : Holds(vs[k], x, y)}
<1>1. DOMAIN ts = DOMAIN us
  BY DEF SameRectangles
<1>2. ASSUME NEW x, NEW y PROVE H(ts, x, y) = H(us, x, y)
  <2>1. \A k \in DOMAIN us : Holds(ts[k], x, y) <=> Holds(us[k], x, y)
    BY Zenon DEF SameRectangles, Holds
  <2> QED BY <1>1, <2>1
<1>3. \A x \in 0 .. iw - 1, y \in 0 .. ih - 1 :
        H(ts, x, y) # {} /\ (g.overlap = 0 => Cardinality(H(ts, x, y)) = 1)
  <2>1. \A x \in 0 .. iw - 1, y \in 0 .. ih - 1 :
          H(us, x, y) # {} /\ (g.overlap = 0 => Cardinality(H(us, x, y)) = 1)
    BY Zenon DEF CoversImage
  <2> QED BY <1>2, <2>1, Zenon
<1>4. ASSUME NEW k \in DOMAIN ts
      PROVE  /\ ts[k].x >= 0 /\ ts[k].y >= 0 /\ ts[k].w > 0 /\ ts[k].h > 0
             /\ ts[k].x + ts[k].w <= iw /\ ts[k].y + ts[k].h <= ih
             /\ ts[k].device < Lists(g, ih)
  <2>1. k \in DOMAIN us
    BY <1>1
  <2>2. ts[k].x = us[k].x /\ ts[k].y = us[k].y /\ ts[k].w = us[k].w /\ ts[k].h = us[k].h
    BY <2>1, Zenon DEF SameRectangles
  <2>3. /\ us[k].x >= 0 /\ us[k].y >= 0 /\ us[k].w > 0 /\ us[k].h > 0
        /\ us[k].x + us[k].w <= iw /\ us[k].y + us[k].h <= ih
    BY <2>1, Zenon DEF CoversImage
  <2> QED BY <2>2, <2>3, Zenon
<1> QED BY <1>3, <1>4, Zenon DEF CoversImage

(* The same rectangles have the same pixels. *)
LEMMA AreaOfRectangles ==
  ASSUME NEW ts, NEW us, SameRectangles(ts, us), NEW n \in Nat, DOMAIN us = 1 .. n
  PROVE  AllPixels(ts) = AllPixels(us)
<1>1. DOMAIN ts = 1 .. n
  BY DEF SameRectangles
<1>2. PICK P : /\ P[0] = 0 /\ AllPixels(ts) = P[n]
               /\ \A k \in 1 .. n : P[k] = P[k - 1] + Area(ts[k])
  BY <1>1, PixelsAdded
<1>3. PICK Q : /\ Q[0] = 0 /\ AllPixels(us) = Q[n]
               /\ \A k \in 1 .. n : Q[k] = Q[k - 1] + Area(us[k])
  BY PixelsAdded
<1>4. \A k \in 1 .. n : Area(ts[k]) = Area(us[k])
  BY Zenon DEF SameRectangles, Area
<1> DEFINE T == {k \in 0 .. n : P[k] = Q[k]}
<1>5. 0 \in T
  BY <1>2, <1>3
<1>6. ASSUME NEW k \in 0 .. n - 1, k \in T PROVE k + 1 \in T
  <2>1. k + 1 \in 1 .. n /\ (k + 1) - 1 = k /\ k + 1 \in 0 .. n
    OBVIOUS
  <2>2. P[k + 1] = P[k] + Area(ts[k + 1]) /\ Q[k + 1] = Q[k] + Area(us[k + 1])
    BY <1>2, <1>3, <2>1, Zenon
  <2>3. P[k] = Q[k]
    BY <1>6
  <2>4. P[k + 1] = Q[k + 1]
    BY <1>4, <2>1, <2>2, <2>3, Zenon
  <2> QED BY <2>1, <2>4
<1> HIDE DEF T
<1>7. n \in T
  <2>1. 0 \in Nat
    OBVIOUS
  <2>2. \A k \in 0 .. n : k \in T
    BY <1>5, <1>6, <2>1, InductionUpTo
  <2> QED BY <2>2
<1> QED BY <1>2, <1>3, <1>7 DEF T

(* Every setup has the parameters the lemmas on grids are about. *)
LEMMA SetupOK ==
  ASSUME NEW g \in Setups
  PROVE  GridOK(g) /\ (g.hilbert => g.background)
BY SetupTyped DEF GridOK

(* gen_tiles covers the image with any setup, ... *)
LEMMA GenTilesCover ==
  ASSUME NEW g \in Setups, NEW iw \in Nat \ {0}, NEW ih \in Nat \ {0}
  PROVE  /\ CoversImage(g, iw, ih, GenTiles(g, iw, ih))
         /\ g.hilbert => Len(HilbertOrder(g, iw, ih)) = Len(GenTiles(g, iw, ih))
<1>1. GridOK(g)
  BY SetupOK
<1>2. CASE g.hilbert
  <2>1. g.background /\ GenTiles(g, iw, ih) = HilbertTiles(g, iw, ih)
    BY <1>2, SetupOK DEF GenTiles
  <2>2. CoversImage(g, iw, ih, SlicedTiles(g, iw, ih))
    BY <1>1, SlicedCover
  <2>3. CoversImage(g, iw, ih, HilbertTiles(g, iw, ih))
    BY <1>1, <2>1, <2>2, HilbertRectangles, CoverOfRectangles
  <2> DEFINE count == Columns(g, iw) * Count(ih, g.th)
  <2>4. count \in Nat \ {0} /\ Len(HilbertOrder(g, iw, ih)) = count
    BY <1>1, OrderIndices
  <2>5. Len(HilbertTiles(g, iw, ih)) = count
    <3>1. HilbertTiles(g, iw, ih) = [i \in 1 .. count |-> HilbertTiles(g, iw, ih)[i]]
      BY DEF HilbertTiles, Columns
    <3> QED BY <2>4, <3>1
  <2> QED BY <2>1, <2>3, <2>4, <2>5
<1>3. CASE ~g.hilbert
  <2>1. GenTiles(g, iw, ih) = SlicedTiles(g, iw, ih)
    BY <1>3 DEF GenTiles
  <2> QED BY <1>1, <1>3, <2>1, SlicedCover
<1> QED BY <1>2, <1>3

(* ... get_neighbor_index finds the tiles that touch, ... *)
LEMMA GenTilesNeighbors ==
  ASSUME NEW g \in Setups, NEW iw \in Nat \ {0}, NEW ih \in Nat \ {0}
  PROVE  NeighborsFound(g, iw, ih, GenTiles(g, iw, ih))
<1>1. GridOK(g) /\ (g.hilbert => g.background)
  BY SetupOK
<1>2. NeighborsFound(g, iw, ih, SlicedTiles(g, iw, ih))
  BY <1>1, SlicedNeighbors
<1>3. CASE g.hilbert
  <2>1. GenTiles(g, iw, ih) = HilbertTiles(g, iw, ih)
    BY <1>3 DEF GenTiles
  <2>2. NeighborsFound(g, iw, ih, HilbertTiles(g, iw, ih))
    BY <1>1, <1>2, <1>3, HilbertRectangles, NeighborsOfRectangles
  <2> QED BY <2>1, <2>2
<1>4. CASE ~g.hilbert
  BY <1>2, <1>4 DEF GenTiles
<1> QED BY <1>3, <1>4

(* ... and the tiles have the pixels of the image. *)
LEMMA TilesArea ==
  ASSUME NEW g \in Setups, NoOverlap(g), NEW iw \in Nat \ {0}, NEW ih \in Nat \ {0}
  PROVE  AllPixels(GenTiles(g, iw, ih)) = iw * ih
<1>1. GridOK(g) /\ (g.hilbert => g.background)
  BY SetupOK
<1>2. AllPixels(SlicedTiles(g, iw, ih)) = iw * ih
  BY <1>1, SlicedArea
<1>3. CASE g.hilbert
  <2>1. GenTiles(g, iw, ih) = HilbertTiles(g, iw, ih)
    BY <1>3 DEF GenTiles
  <2>2. SameRectangles(HilbertTiles(g, iw, ih), SlicedTiles(g, iw, ih))
    BY <1>1, <1>3, HilbertRectangles
  <2>3. \E n \in Nat : DOMAIN SlicedTiles(g, iw, ih) = 1 .. n
    BY <1>1, SlicesJoined
  <2>4. AllPixels(HilbertTiles(g, iw, ih)) = AllPixels(SlicedTiles(g, iw, ih))
    BY <2>2, <2>3, AreaOfRectangles
  <2> QED BY <1>2, <2>1, <2>4
<1>4. CASE ~g.hilbert
  BY <1>2, <1>4 DEF GenTiles
<1> QED BY <1>3, <1>4

-----------------------------------------------------------------------------
(* The progress bar.                                                       *)

(* The recursion in TotalPixelSamples. *)
Pixels(g, d) == Scaled(g.w, d) * Scaled(g.h, d)

First(g) == Larger(GetDivider(g.w, g.h, g.startResolution) \div 2, g.pixelSize)

IsRest(f, g, p, n, m) ==
  f = [d \in 0 .. m |-> IF d > p THEN Pixels(g, d) + f[d \div 2] ELSE n * Pixels(g, d)]

Rest(g, n) == CHOOSE f : IsRest(f, g, g.pixelSize, n, First(g))

(* There is such a function. *)
LEMMA RestExists ==
  ASSUME NEW g, NEW p \in Nat \ {0}, NEW n, NEW m \in Nat
  PROVE  \E f : IsRest(f, g, p, n, m)
<1> DEFINE T == {a \in Nat : \E f : IsRest(f, g, p, n, a)}
<1>1. 0 \in T
  <2> DEFINE f == [d \in 0 .. 0 |-> n * Pixels(g, d)]
  <2>1. \A d \in 0 .. 0 : ~ (d > p)
    OBVIOUS
  <2>2. f = [d \in 0 .. 0 |-> IF d > p THEN Pixels(g, d) + f[d \div 2] ELSE n * Pixels(g, d)]
    BY <2>1
  <2>3. \E k : IsRest(k, g, p, n, 0)
    BY <2>2, Zenon DEF IsRest
  <2> QED BY <2>3
<1>2. ASSUME NEW a \in T PROVE a + 1 \in T
  <2>1. PICK f : IsRest(f, g, p, n, a)
    BY <1>2
  <2>2. a \in Nat
    BY <1>2
  <2> DEFINE Body(k, d) == IF d > p THEN Pixels(g, d) + k[d \div 2] ELSE n * Pixels(g, d)
             h == [d \in 0 .. a + 1 |-> Body(f, d)]
  <2>3. \A d \in 0 .. a : h[d] = f[d]
    <3>1. f = [d \in 0 .. a |-> Body(f, d)]
      BY <2>1, Zenon DEF IsRest
    <3>2. \A d \in 0 .. a : f[d] = Body(f, d)
      BY <3>1, Zenon
    <3>3. \A d \in 0 .. a : d \in 0 .. a + 1
      BY <2>2
    <3>4. \A d \in 0 .. a + 1 : h[d] = Body(f, d)
      BY Zenon
    <3> QED BY <3>2, <3>3, <3>4, Zenon
  <2>4. \A d \in 0 .. a + 1 : d > p => d \div 2 \in 0 .. a
    BY <2>2
  <2> HIDE DEF h
  <2>5. \A d \in 0 .. a + 1 : Body(f, d) = Body(h, d)
    BY <2>3, <2>4, Zenon
  <2>6. h = [d \in 0 .. a + 1 |-> Body(h, d)]
    BY <2>5, Zenon DEF h
  <2>7. \E k : IsRest(k, g, p, n, a + 1)
    BY <2>6, Zenon DEF IsRest
  <2> QED BY <2>2, <2>7
<1> HIDE DEF T
<1>3. T \in SUBSET Nat
  BY DEF T
<1>4. m \in T
  BY <1>1, <1>2, <1>3, Induction
<1> QED BY <1>4 DEF T

(* What is rendered from resolution divider d on. *)
LEMMA RestOf ==
  ASSUME NEW g \in Setups, NEW n \in Nat
  PROVE  /\ TotalPixelSamples(g, g.pixelSize, n)
              = Rest(g, n)[First(g)] + (IF g.denoise THEN g.w * g.h ELSE 0)
         /\ First(g) \in Nat /\ g.pixelSize <= First(g)
         /\ \A d \in 0 .. First(g) :
              Rest(g, n)[d] = IF d > g.pixelSize THEN Pixels(g, d) + Rest(g, n)[d \div 2]
                              ELSE n * Pixels(g, d)
         /\ \A d \in 1 .. First(g) : Rest(g, n)[d] \in Int
         /\ \A d \in Nat \ {0} : Pixels(g, d) \in Nat
<1>1. /\ g.w \in Nat \ {0} /\ g.h \in Nat \ {0} /\ g.startResolution \in Nat
      /\ g.pixelSize \in Nat \ {0}
  BY SetupTyped
<1>2. First(g) \in Nat /\ g.pixelSize <= First(g)
  <2>1. GetDivider(g.w, g.h, g.startResolution) \in Nat
    BY <1>1, DividerDoubled DEF Doublings
  <2> DEFINE a == GetDivider(g.w, g.h, g.startResolution)
  <2> HIDE DEF a
  <2>2. a \div 2 \in Nat
    BY <2>1 DEF a
  <2> QED BY <1>1, <2>2 DEF First, Larger, a
<1>3. TotalPixelSamples(g, g.pixelSize, n)
        = Rest(g, n)[First(g)] + (IF g.denoise THEN g.w * g.h ELSE 0)
  BY Zenon DEF TotalPixelSamples, Rest, First, IsRest, Pixels
<1>4. IsRest(Rest(g, n), g, g.pixelSize, n, First(g))
  <2>1. \E f : IsRest(f, g, g.pixelSize, n, First(g))
    BY <1>1, <1>2, RestExists
  <2> QED BY <2>1, Zenon DEF Rest
<1>5. \A d \in 0 .. First(g) :
        Rest(g, n)[d] = IF d > g.pixelSize THEN Pixels(g, d) + Rest(g, n)[d \div 2]
                        ELSE n * Pixels(g, d)
  <2> DEFINE f == Rest(g, n)
  <2>1. IsRest(f, g, g.pixelSize, n, First(g))
    BY <1>4
  <2> HIDE DEF f
  <2>2. f = [d \in 0 .. First(g) |->
               IF d > g.pixelSize THEN Pixels(g, d) + f[d \div 2] ELSE n * Pixels(g, d)]
    BY <2>1, Zenon DEF IsRest
  <2>3. \A d \in 0 .. First(g) :
          f[d] = IF d > g.pixelSize THEN Pixels(g, d) + f[d \div 2] ELSE n * Pixels(g, d)
    BY <2>2, Zenon
  <2> QED BY <2>3, Zenon DEF f
<1>6. \A d \in Nat \ {0} : Pixels(g, d) \in Nat
  <2>1. \A a, b \in Nat : a * b \in Nat
    OBVIOUS
  <2>2. \A d \in Nat \ {0} : Scaled(g.w, d) \in Nat /\ Scaled(g.h, d) \in Nat
    BY <1>1, ScaledSize
  <2> QED BY <2>1, <2>2 DEF Pixels
<1>7. \A d \in 1 .. First(g) : Rest(g, n)[d] \in Int
  <2> DEFINE f == Rest(g, n)
             m == First(g)
             T == {a \in Nat : \A d \in 1 .. m : d <= a => f[d] \in Int}
  <2>1. \A d \in 0 .. m :
          f[d] = IF d > g.pixelSize THEN Pixels(g, d) + f[d \div 2] ELSE n * Pixels(g, d)
    BY <1>5
  <2>2. m \in Nat
    BY <1>2
  <2> HIDE DEF f, m
  <2>3. 0 \in T
    OBVIOUS
  <2>4. ASSUME NEW a \in T PROVE a + 1 \in T
    <3>1. a \in Nat
      BY <2>4
    <3>2. ASSUME NEW d \in 1 .. m, d <= a + 1 PROVE f[d] \in Int
      <4>1. Pixels(g, d) \in Nat
        BY <1>6, <2>2
      <4>2. n * Pixels(g, d) \in Int
        BY <4>1
      <4>3. d > g.pixelSize => d \div 2 \in 1 .. m /\ d \div 2 <= a
        BY <1>1, <2>2, <3>1, <3>2
      <4>4. d > g.pixelSize => f[d \div 2] \in Int
        BY <2>4, <4>3
      <4>5. f[d] = IF d > g.pixelSize THEN Pixels(g, d) + f[d \div 2] ELSE n * Pixels(g, d)
        BY <2>1, <2>2
      <4> QED BY <4>1, <4>2, <4>4, <4>5
    <3> QED BY <3>1, <3>2
  <2> HIDE DEF T
  <2>5. T \in SUBSET Nat
    BY DEF T
  <2>6. m \in T
    BY <2>2, <2>3, <2>4, <2>5, Induction
  <2> QED BY <2>2, <2>6 DEF T, f, m
<1> QED BY <1>2, <1>3, <1>5, <1>6, <1>7, Zenon

(* A render with `progressive' is asked for samples.  (It takes one sample *)
(* even if it is asked for none, which the progress bar does not count on.)*)
SomeSamples ==
  \A g \in Setups :
    g.progressive => IF g.num = -1 THEN 0 \notin SampleCounts ELSE g.num # 0

(* What the denoising of the last sample reports. *)
Denoised == IF setup.denoise THEN setup.w * setup.h ELSE 0

(* What is reported and what is left to report make the total: previews    *)
(* and samples, then, at the last resolution, samples.                     *)
Counted ==
  setup.overlap = 0 =>
    /\ total = TotalPixelSamples(setup, setup.pixelSize, Samples)
    /\ pixelSamples \in Int
    /\ BeforeFirst => /\ pixelSamples = 0 /\ passSamples = 0
                      /\ divider = GetDivider(setup.w, setup.h, setup.startResolution)
    /\ ~BeforeFirst /\ divider > setup.pixelSize =>
         /\ divider <= First(setup)
         /\ pixelSamples + Rest(setup, Samples)[divider \div 2] + Denoised = total
    /\ ~BeforeFirst /\ divider = setup.pixelSize =>
         /\ sample + passSamples <= End
         /\ IF setup.progressive THEN passSamples = 1 ELSE Over
         /\ pixelSamples + (End - (sample + passSamples)) * Pixels(setup, setup.pixelSize)
              + (IF Over THEN 0 ELSE Denoised) = total

(* Before the first pass nothing is reported and all is left to report, ... *)
LEMMA CountedInit == Init => Counted
BY DEF Init, Counted, BeforeFirst, Samples

(* What the cases below use of the invariant. *)
LEMMA CountTyped ==
  ASSUME LaidOut, SomeSamples
  PROVE  /\ setup.pixelSize \in {1, 2, 4, 8} /\ setup.pixelSize \in Nat \ {0}
         /\ setup.progressive \in BOOLEAN /\ setup.denoise \in BOOLEAN
         /\ Samples \in Nat /\ End = setup.start + Samples /\ setup.start \in Nat
         /\ setup.progressive => Samples # 0
         /\ Denoised \in Int
         /\ setup.denoise => Denoised = Pixels(setup, setup.pixelSize)
         /\ sample \in Int /\ sample >= setup.start - 1 /\ passSamples \in Nat
         /\ divider \in Nat \ {0}
         /\ Pixels(setup, setup.pixelSize) \in Nat
<1>1. setup \in Setups /\ numSamples \in SampleCounts /\ divider \in Doublings
  BY DEF LaidOut
<1>2. /\ setup.w \in Nat \ {0} /\ setup.h \in Nat \ {0}
      /\ setup.start \in Nat /\ setup.denoise \in BOOLEAN /\ setup.progressive \in BOOLEAN
      /\ setup.pixelSize \in {1, 2, 4, 8}
      /\ setup.num \in Nat \cup {-1}
      /\ setup.num = -1 => setup.start = 0
      /\ setup.denoise => setup.pixelSize = 1
  BY <1>1, SetupTyped
<1>3. numSamples \in Nat
  BY <1>1, SetupAssumption
<1>4. Samples \in Nat /\ End = setup.start + Samples
  BY <1>2, <1>3 DEF Samples, End
<1>5. setup.progressive => Samples # 0
  BY <1>1, <1>2 DEF SomeSamples, Samples
<1>6. \A a, b \in Nat : a * b \in Nat
  OBVIOUS
<1>7. Denoised \in Int
  BY <1>2, <1>6 DEF Denoised
<1>8. setup.denoise => Denoised = Pixels(setup, setup.pixelSize)
  <2>1. Scaled(setup.w, 1) = setup.w /\ Scaled(setup.h, 1) = setup.h
    BY <1>2, ScaledSize
  <2> QED BY <1>2, <2>1 DEF Denoised, Pixels
<1>9. Pixels(setup, setup.pixelSize) \in Nat
  BY <1>1, <1>2, <1>4, RestOf
<1> QED BY <1>1, <1>2, <1>4, <1>5, <1>7, <1>8, <1>9 DEF LaidOut, Doublings

(* The pixels of a pass. *)
LEMMA PassPixels ==
  ASSUME LaidOut', setup'.overlap = 0, ~BeforeFirst'
  PROVE  AllPixels(tiles') = Pixels(setup', divider')
<1>1. /\ setup' \in Setups /\ divider' \in Nat \ {0} /\ tiles' = GenTiles(setup', Width', Height')
  BY DEF LaidOut, Doublings
<1>2. setup'.w \in Nat \ {0} /\ setup'.h \in Nat \ {0}
  BY <1>1, SetupTyped
<1>3. Width' = Scaled(setup'.w, divider') /\ Height' = Scaled(setup'.h, divider')
  BY DEF Width, Height
<1>4. Width' \in Nat \ {0} /\ Height' \in Nat \ {0}
  BY <1>1, <1>2, <1>3, ScaledSize
<1>5. AllPixels(GenTiles(setup', Width', Height')) = Width' * Height'
  <2> DEFINE g == setup'
             iw == Width'
             ih == Height'
  <2>1. g \in Setups /\ NoOverlap(g) /\ iw \in Nat \ {0} /\ ih \in Nat \ {0}
    BY <1>1, <1>4 DEF NoOverlap
  <2> HIDE DEF g, iw, ih
  <2>2. AllPixels(GenTiles(g, iw, ih)) = iw * ih
    BY <2>1, TilesArea
  <2> QED BY <2>2, Zenon DEF g, iw, ih
<1> QED BY <1>1, <1>3, <1>5 DEF Pixels

(* ... a preview reports its pixels, ... *)
LEMMA CountedPreview ==
  ASSUME LaidOut, LaidOut', SomeSamples, Counted, NextPass, Preview, setup.overlap = 0
  PROVE  Counted'
<1> DEFINE p == setup.pixelSize
           P(d) == Pixels(setup, d)
           R(d) == Rest(setup, Samples)[d]
<1>1. /\ setup \in Setups /\ divider \in Doublings
      /\ setup.progressive /\ divider > p
      /\ setup.num = -1
      /\ ~BeforeFirst => divider >= p
  BY DEF LaidOut, Preview
<1>2. /\ p \in {1, 2, 4, 8} /\ Samples \in Nat /\ Samples # 0
      /\ Denoised \in Int
      /\ setup.denoise => Denoised = P(p)
      /\ divider \in Nat \ {0} /\ End = setup.start + Samples
  BY <1>1, CountTyped
<1>3. divider \div 2 \in Nat \ {0} /\ divider \div 2 >= p
  BY <1>1, <1>2, Halved DEF Doublings
<1>4. setup.start = 0
  BY <1>1, SetupTyped
<1>5. /\ sample' = 0 /\ passSamples' = 1 /\ setup' = setup /\ numSamples' = numSamples
      /\ total' = total
      /\ divider' = Half(divider, p)
      /\ pixelSamples' = pixelSamples + passSamples' * AllPixels(tiles')
              + (IF setup.denoise /\ Over' THEN AllPixels(tiles') ELSE 0)
  BY PassTaken
<1>6. divider' = divider \div 2
  BY <1>2, <1>3, <1>5 DEF Half
<1>7. ~BeforeFirst' /\ Samples' = Samples /\ End' = End /\ Denoised' = Denoised
  BY <1>4, <1>5 DEF BeforeFirst, Samples, End, Denoised
<1>8. AllPixels(tiles') = P(divider')
  BY <1>5, <1>7, PassPixels
<1>9. /\ First(setup) \in Nat
      /\ total = TotalPixelSamples(setup, p, Samples) /\ pixelSamples \in Int
      /\ total = R(First(setup)) + Denoised
      /\ \A d \in 0 .. First(setup) :
              R(d) = IF d > p THEN P(d) + R(d \div 2) ELSE Samples * P(d)
      /\ \A d \in 1 .. First(setup) : R(d) \in Int
      /\ \A d \in Nat \ {0} : P(d) \in Nat
  BY <1>1, <1>2, RestOf DEF Counted, Denoised
<1> HIDE DEF P, R
<1>10. divider' <= First(setup) /\ pixelSamples + R(divider') + Denoised = total
  <2>1. CASE BeforeFirst
    <3>1. First(setup) = divider \div 2
      BY <1>2, <1>3, <2>1 DEF Counted, First, Larger
    <3>2. pixelSamples = 0
      BY <2>1 DEF Counted
    <3>3. divider \div 2 \in 1 .. First(setup)
      BY <1>3, <3>1
    <3>4. R(divider \div 2) \in Int
      BY <1>9, <3>3
    <3> QED BY <1>2, <1>6, <1>9, <3>1, <3>2, <3>4
  <2>2. CASE ~BeforeFirst
    <3>1. divider <= First(setup) /\ pixelSamples + R(divider \div 2) + Denoised = total
      BY <1>1, <2>2 DEF Counted, R
    <3> QED BY <1>2, <1>3, <1>6, <1>9, <3>1
  <2> QED BY <2>1, <2>2
<1>11. divider' \in 1 .. First(setup) /\ divider' \in Nat \ {0} /\ divider' >= p
  BY <1>3, <1>6, <1>9, <1>10
<1>12. R(divider') = IF divider' > p THEN P(divider') + R(divider' \div 2) ELSE Samples * P(divider')
  BY <1>9, <1>11
<1>13. pixelSamples' = pixelSamples + P(divider') + (IF setup.denoise /\ Over' THEN P(divider') ELSE 0)
       /\ P(divider') \in Nat
  <2>1. P(divider') \in Nat
    BY <1>9, <1>11
  <2> QED BY <1>5, <1>8, <2>1
<1>14. pixelSamples' \in Int
  BY <1>9, <1>13
<1>15. CASE divider' > p
  <2>1. ~Over'
    BY <1>2, <1>5, <1>11, <1>15 DEF Over
  <2>2. divider' \div 2 \in 1 .. First(setup)
    <3>1. \A a \in Nat : a > 1 => a \div 2 \in Nat /\ a \div 2 >= 1 /\ a \div 2 <= a
      OBVIOUS
    <3>2. divider' \in Nat /\ divider' > 1 /\ divider' <= First(setup)
      BY <1>2, <1>10, <1>11, <1>15
    <3>3. divider' \div 2 \in Nat /\ divider' \div 2 >= 1 /\ divider' \div 2 <= divider'
      BY <3>1, <3>2, Zenon
    <3> DEFINE e == divider' \div 2
    <3>4. e \in Nat /\ e >= 1 /\ e <= divider'
      BY <3>3
    <3> HIDE DEF e
    <3>5. e \in 1 .. First(setup)
      BY <1>9, <3>2, <3>4
    <3> QED BY <3>5 DEF e
  <2>3. R(divider' \div 2) \in Int
    BY <1>9, <2>2
  <2>4. pixelSamples' + R(divider' \div 2) + Denoised = total
    BY <1>2, <1>9, <1>10, <1>12, <1>13, <1>15, <2>1, <2>3
  <2>5. Rest(setup', Samples')[divider' \div 2] = R(divider' \div 2)
    BY <1>5, <1>7 DEF R
  <2> QED BY <1>2, <1>5, <1>7, <1>9, <1>10, <1>11, <1>14, <1>15, <2>4, <2>5 DEF Counted
<1>16. CASE divider' = p
  <2> DEFINE k == Samples - 1
  <2>1. End' - (sample' + passSamples') = k /\ k \in Nat /\ sample' + passSamples' <= End'
    BY <1>2, <1>4, <1>5, <1>7
  <2>2. Over' <=> k = 0
    BY <1>5, <1>16, <2>1, <1>2, <1>4, <1>7 DEF Over
  <2>3. R(divider') = Samples * P(p)
    BY <1>2, <1>12, <1>16
  <2>4. P(p) \in Nat /\ Samples * P(p) = P(p) + k * P(p) /\ k * P(p) \in Int
    BY <1>2, <1>13, <1>16, <2>1
  <2>5. pixelSamples' = pixelSamples + P(p) + (IF k = 0 THEN Denoised ELSE 0)
    BY <1>2, <1>13, <1>16, <2>2, <2>4, <1>9 DEF Denoised
  <2> HIDE DEF k
  <2>6. pixelSamples' + k * P(p) + (IF k = 0 THEN 0 ELSE Denoised) = total
    BY <1>2, <1>9, <1>10, <2>3, <2>4, <2>5
  <2>7. pixelSamples' + (End' - (sample' + passSamples')) * Pixels(setup', setup'.pixelSize)
              + (IF Over' THEN 0 ELSE Denoised') = total'
    BY <1>5, <1>7, <2>1, <2>2, <2>6 DEF P
  <2> QED BY <1>1, <1>2, <1>5, <1>7, <1>9, <1>14, <1>16, <2>1, <2>7 DEF Counted
<1> QED BY <1>2, <1>11, <1>15, <1>16

(* ... as do a sample and the denoising of the last, ... *)
LEMMA CountedSample ==
  ASSUME LaidOut, LaidOut', SomeSamples, Counted, NextPass, ~Preview, setup.overlap = 0
  PROVE  Counted'
<1> DEFINE p == setup.pixelSize
           A == Pixels(setup, setup.pixelSize)
           k == End - (sample + 1)
<1>1. /\ setup \in Setups
      /\ ~BeforeFirst => divider >= p
      /\ divider > p => setup.progressive
  BY DEF LaidOut
<1>2. /\ p \in {1, 2, 4, 8} /\ Samples \in Nat
      /\ setup.progressive => Samples # 0
      /\ Denoised \in Int
      /\ setup.denoise => Denoised = A
      /\ divider \in Nat \ {0} /\ End = setup.start + Samples /\ setup.start \in Nat
      /\ sample \in Int /\ sample >= setup.start - 1 /\ A \in Nat
      /\ passSamples \in Nat
  BY CountTyped
<1>3. /\ ~Over
      /\ sample' = sample + 1 /\ divider' = p /\ setup' = setup /\ numSamples' = numSamples
      /\ passSamples' = IF setup.progressive THEN 1 ELSE Samples
      /\ total' = total
      /\ pixelSamples' = pixelSamples + passSamples' * AllPixels(tiles')
              + (IF setup.denoise /\ Over' THEN AllPixels(tiles') ELSE 0)
  BY PassTaken
<1>4. ~ (divider > p)
  BY <1>1 DEF Preview
<1>5. ~BeforeFirst' /\ Samples' = Samples /\ End' = End /\ Denoised' = Denoised
  BY <1>2, <1>3 DEF BeforeFirst, Samples, End, Denoised
<1>6. AllPixels(tiles') = A
  BY <1>3, <1>5, PassPixels
<1>7. total = TotalPixelSamples(setup, p, Samples) /\ pixelSamples \in Int
  BY DEF Counted
<1>8. /\ k \in Int /\ passSamples' <= k /\ passSamples' \in Nat
      /\ ~setup.progressive => passSamples' = k
      /\ pixelSamples + k * A + Denoised = total
  <2>1. CASE BeforeFirst
    <3>1. k = Samples /\ pixelSamples = 0
      BY <1>2, <2>1 DEF Counted, BeforeFirst
    <3>2. passSamples' <= k /\ passSamples' \in Nat /\ (~setup.progressive => passSamples' = k)
      BY <1>2, <1>3, <3>1
    <3>3. First(setup) = p
      BY <1>2, <1>4, <2>1 DEF Counted, First, Larger
    <3>4. /\ total = Rest(setup, Samples)[First(setup)] + Denoised
          /\ \A d \in 0 .. First(setup) :
               Rest(setup, Samples)[d] = IF d > p THEN Pixels(setup, d) + Rest(setup, Samples)[d \div 2]
                                         ELSE Samples * Pixels(setup, d)
      BY <1>1, <1>2, <1>7, RestOf DEF Denoised
    <3>5. Rest(setup, Samples)[p] = Samples * A
      BY <1>2, <3>3, <3>4
    <3>6. Samples * A \in Int
      BY <1>2
    <3> HIDE DEF A, k
    <3> QED BY <1>2, <3>1, <3>2, <3>3, <3>4, <3>5, <3>6
  <2>2. CASE ~BeforeFirst
    <3>1. divider = p
      BY <1>1, <1>2, <1>4, <2>2
    <3>2. /\ sample + passSamples <= End
          /\ IF setup.progressive THEN passSamples = 1 ELSE Over
          /\ pixelSamples + (End - (sample + passSamples)) * A
               + (IF Over THEN 0 ELSE Denoised) = total
      BY <2>2, <3>1 DEF Counted
    <3>3. setup.progressive /\ passSamples = 1
      BY <1>3, <3>2
    <3>4. k \in Int /\ k >= 1
      BY <1>2, <1>3, <3>1, <3>3 DEF Over
    <3> QED BY <1>3, <3>2, <3>3, <3>4
  <2> QED BY <2>1, <2>2
<1> HIDE DEF k, A
<1>9. End' - (sample' + passSamples') = k - passSamples'
  BY <1>2, <1>3, <1>5, <1>8 DEF k
<1>10. Over' <=> k = passSamples'
  <2>1. Over' <=> sample' + passSamples' >= End'
    BY <1>3 DEF Over
  <2> QED BY <1>2, <1>3, <1>5, <1>8, <2>1 DEF k
<1>11. sample' + passSamples' <= End'
  BY <1>2, <1>3, <1>5, <1>8 DEF k
<1>12. k * A = passSamples' * A + (k - passSamples') * A
       /\ passSamples' * A \in Int /\ (k - passSamples') * A \in Int
  <2>1. \A a, b, c \in Int : a * c = b * c + (a - b) * c /\ b * c \in Int /\ (a - b) * c \in Int
    OBVIOUS
  <2>2. k \in Int /\ passSamples' \in Int /\ A \in Int
    BY <1>2, <1>8
  <2> QED BY <2>1, <2>2, Zenon
<1>13. pixelSamples' = pixelSamples + passSamples' * A + (IF Over' THEN Denoised ELSE 0)
  <2>1. ~setup.denoise => Denoised = 0
    BY DEF Denoised
  <2> QED BY <1>2, <1>3, <1>6, <1>7, <1>12, <2>1
<1>14. pixelSamples' \in Int
  BY <1>2, <1>7, <1>12, <1>13
<1>15. pixelSamples' + (k - passSamples') * A + (IF Over' THEN 0 ELSE Denoised) = total
  BY <1>2, <1>7, <1>8, <1>12, <1>13
<1>16. pixelSamples' + (End' - (sample' + passSamples')) * Pixels(setup', setup'.pixelSize)
           + (IF Over' THEN 0 ELSE Denoised') = total'
  BY <1>3, <1>5, <1>9, <1>15 DEF A
<1>17. ~setup.progressive => Over'
  BY <1>8, <1>10
<1>18. setup.progressive => passSamples' = 1
  BY <1>3
<1>19. ~ (divider' > setup'.pixelSize)
  BY <1>2, <1>3
<1> QED BY <1>3, <1>5, <1>7, <1>11, <1>14, <1>16, <1>17, <1>18, <1>19 DEF Counted

(* ... and nothing else changes what is reported. *)
LEMMA CountedNext == SomeSamples /\ LaidOut /\ LaidOut' /\ Counted /\ [Next]_vars => Counted'
<1> SUFFICES ASSUME SomeSamples, LaidOut, LaidOut', Counted, [Next]_vars PROVE Counted'
  OBVIOUS
<1>1. CASE UNCHANGED vars
  BY <1>1 DEF Counted, vars, counters, BeforeFirst, Samples, End, Over, Denoised
<1>2. CASE NextPass
  <2>1. CASE setup.overlap = 0
    BY <1>2, <2>1, CountedPreview, CountedSample
  <2>2. CASE setup.overlap # 0
    <3>1. setup' = setup
      BY <1>2, PassTaken
    <3> QED BY <2>2, <3>1 DEF Counted
  <2> QED BY <2>1, <2>2
<1>3. CASE NoMorePasses
  BY <1>1, <1>3 DEF NoMorePasses
<1> QED BY <1>1, <1>2, <1>3 DEF Next

(* When the last pass is over, the pixels that were reported are those the *)
(* progress bar counts on: for every size, resolution of the previews,     *)
(* number of samples, sample range and denoising.                          *)
THEOREM ProgressEnds == SomeSamples => (Spec => []ProgressReachesTotal)
<1> SUFFICES ASSUME SomeSamples PROVE Spec => []ProgressReachesTotal
  OBVIOUS
<1>1. LaidOut /\ Counted => ProgressReachesTotal
  <2> SUFFICES ASSUME LaidOut, Counted, Finished, setup.overlap = 0 PROVE pixelSamples = total
    BY DEF ProgressReachesTotal
  <2>1. Over
    BY WhenFinished
  <2>2. /\ Samples \in Nat /\ End = setup.start + Samples /\ setup.start \in Nat
        /\ sample \in Int /\ passSamples \in Nat /\ Pixels(setup, setup.pixelSize) \in Nat
        /\ pixelSamples \in Int
    BY CountTyped DEF Counted
  <2>3. ~BeforeFirst
    BY <2>1, <2>2 DEF BeforeFirst, Over, Counted
  <2>4. /\ sample + passSamples = End
        /\ pixelSamples + (End - (sample + passSamples)) * Pixels(setup, setup.pixelSize)
             + (IF Over THEN 0 ELSE Denoised) = total
    <3>1. divider = setup.pixelSize /\ sample + passSamples >= End
      BY <2>1 DEF Over
    <3>2. /\ sample + passSamples <= End
          /\ pixelSamples + (End - (sample + passSamples)) * Pixels(setup, setup.pixelSize)
               + (IF Over THEN 0 ELSE Denoised) = total
      BY <2>3, <3>1 DEF Counted
    <3>3. sample + passSamples = End
      <4>1. sample + passSamples \in Int /\ End \in Int
        BY <2>2
      <4>2. sample + passSamples <= End /\ sample + passSamples >= End
        BY <3>1, <3>2
      <4> QED BY <4>1, <4>2
    <3> QED BY <3>2, <3>3
  <2>5. (End - (sample + passSamples)) * Pixels(setup, setup.pixelSize) = 0
    <3>1. End - (sample + passSamples) = 0 /\ \A a \in Nat : 0 * a = 0
      BY <2>2, <2>4
    <3> QED BY <2>2, <3>1
  <2> QED BY <2>1, <2>2, <2>4, <2>5
<1>2. Counted /\ LaidOut /\ LaidOut' /\ [Next]_vars => Counted'
  BY CountedNext
<1> QED BY <1>1, <1>2, CountedInit, AlwaysLaidOut, PTL DEF Spec

-----------------------------------------------------------------------------
(* The properties of TileLayout.                                           *)

(* Every pass has pixels. *)
LEMMA SizeOfPass ==
  ASSUME LaidOut
  PROVE  setup \in Setups /\ Width \in Nat \ {0} /\ Height \in Nat \ {0}
<1>1. setup \in Setups /\ divider \in Nat \ {0}
  BY DEF LaidOut, Doublings
<1>2. setup.w \in Nat \ {0} /\ setup.h \in Nat \ {0}
  BY <1>1, SetupTyped
<1> QED BY <1>1, <1>2, ScaledSize DEF Width, Height

(* Every pixel of every pass of every render is in one tile, ... *)
THEOREM ImageIsCovered == Spec => []TilesCoverImage
<1>1. LaidOut => TilesCoverImage
  <2> SUFFICES ASSUME LaidOut, tiles # <<>> PROVE TilesCoverImage
    BY DEF TilesCoverImage
  <2>1. setup \in Setups /\ Width \in Nat \ {0} /\ Height \in Nat \ {0}
    BY SizeOfPass
  <2>2. tiles = GenTiles(setup, Width, Height) /\ lists = Lists(setup, Height)
    BY Zenon DEF LaidOut
  <2>3. /\ CoversImage(setup, Width, Height, tiles)
        /\ setup.hilbert => Len(HilbertOrder(setup, Width, Height)) = Len(tiles)
    <3>1. /\ CoversImage(setup, Width, Height, GenTiles(setup, Width, Height))
          /\ setup.hilbert => Len(HilbertOrder(setup, Width, Height)) = Len(GenTiles(setup, Width, Height))
      BY <2>1, GenTilesCover
    <3> QED BY <2>2, <3>1, Zenon
  <2> QED BY <2>2, <2>3, Zenon DEF TilesCoverImage, CoversImage
<1> QED BY <1>1, AlwaysLaidOut, PTL

(* ... and get_neighbor_index finds the tiles that touch. *)
THEOREM NeighborsAlwaysTouch == Spec => []NeighborsTouch
<1>1. LaidOut => NeighborsTouch
  <2> SUFFICES ASSUME LaidOut PROVE NeighborsTouch
    BY Zenon
  <2>1. setup \in Setups /\ Width \in Nat \ {0} /\ Height \in Nat \ {0}
    BY SizeOfPass
  <2>2. CASE BeforeFirst
    <3>1. tiles = <<>>
      BY <2>2, Zenon DEF LaidOut
    <3>2. DOMAIN tiles = {}
      BY <3>1
    <3> QED BY <3>2, Zenon DEF NeighborsTouch
  <2>3. CASE ~BeforeFirst
    <3>1. tiles = GenTiles(setup, Width, Height)
      BY <2>3, Zenon DEF LaidOut
    <3>2. NeighborsFound(setup, Width, Height, tiles)
      BY <2>1, <3>1, GenTilesNeighbors
    <3> QED BY <3>2, Zenon DEF NeighborsTouch, NeighborsFound
  <2> QED BY <2>2, <2>3
<1> QED BY <1>1, AlwaysLaidOut, PTL
===============================================================================
