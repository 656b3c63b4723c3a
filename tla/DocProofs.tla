----------------------------- MODULE DocProofs -----------------------------
(***************************************************************************)
(* NothingDangles for every fleet, every set of requests and any number of *)
(* writes: no write of the console leaves the document with a reference to *)
(* nothing.                                                                *)
(*                                                                         *)
(* Part 1: induction over a sequence and over a walk.  The provers take no *)
(* predicate as a parameter; a set of numbers takes its place.             *)
(*                                                                         *)
(* Part 2: the forest of groups.  In a document whose groups have depths,  *)
(* a walk to the root arrives there.                                       *)
(*                                                                         *)
(* Part 3: what a write may touch and keep a document sound, and then      *)
(* every mutation of the document.  Moving a group is the hard one: new    *)
(* depths have to be found for all that moves with it.                     *)
(*                                                                         *)
(* Part 4: the writes, and what a reader of one scope is shown.            *)
(***************************************************************************)
EXTENDS FleetWrites, FiniteSetTheorems, WellFoundedInduction, TLAPS

(***************************************************************************)
(* The fleet document: induction and sequences.                            *)
(***************************************************************************)
\* Induction, with a set of numbers in the place of the predicate.
LEMMA Inductive ==
    ASSUME NEW T, 0 \in T, \A n \in Nat : n \in T => n + 1 \in T
    PROVE  \A n \in Nat : n \in T
<1> DEFINE B == Nat \ T
<1> SUFFICES ASSUME B # {} PROVE FALSE
    OBVIOUS
<1>1. PICK n \in B : \A m \in B : ~(<<m, n>> \in OpToRel(<, Nat))
    BY WFMin, NatLessThanWellFounded
<1>2. \A m \in B : ~(m < n)
    BY <1>1 DEF OpToRel
<1>3. n \in Nat /\ n # 0
    OBVIOUS
<1>4. n - 1 \in Nat /\ n - 1 < n /\ n = (n - 1) + 1
    BY <1>3
<1>5. n - 1 \in T
    BY <1>2, <1>4
<1> QED BY <1>4, <1>5

\* What a sequence holds, and what it holds after one more element.
LEMMA Holds ==
    ASSUME NEW U, NEW s \in Seq(U)
    PROVE  /\ ToSet(s) \in SUBSET U
           /\ ToSet(s) = {s[i] : i \in 1..Len(s)}
           /\ \A V : ToSet(s) \in SUBSET V => s \in Seq(V)
           /\ \A x : x \in U => Append(s, x) \in Seq(U)
           /\ \A x : ToSet(Append(s, x)) = ToSet(s) \cup {x}
<1>1. ToSet(s) = {s[i] : i \in 1..Len(s)}
    BY DEF ToSet
<1>2. ToSet(s) \in SUBSET U
    BY <1>1
<1>3. ASSUME NEW V, ToSet(s) \in SUBSET V PROVE s \in Seq(V)
  <2>1. \A i \in 1..Len(s) : s[i] \in V
    BY <1>1, <1>3
  <2> QED BY <2>1
<1>4. ASSUME NEW x PROVE ToSet(Append(s, x)) = ToSet(s) \cup {x}
  <2>1. s \in Seq(U \cup {x})
    BY <1>2, <1>3
  <2>2. /\ Append(s, x) \in Seq(U \cup {x}) /\ Len(Append(s, x)) = Len(s) + 1
        /\ \A i \in 1..Len(s) : Append(s, x)[i] = s[i]
        /\ Append(s, x)[Len(s) + 1] = x /\ Len(s) \in Nat
    BY <2>1
  <2>3. ToSet(Append(s, x)) = {Append(s, x)[i] : i \in 1..(Len(s) + 1)}
    BY <2>2 DEF ToSet
  <2> HIDE DEF ToSet
  <2>4. 1..(Len(s) + 1) = (1..Len(s)) \cup {Len(s) + 1}
    BY <2>2
  <2> QED BY <1>1, <2>2, <2>3, <2>4
<1> QED BY <1>1, <1>2, <1>3, <1>4

\* Among filters: the recursive function behind it exists, and by induction its
\* n-th value holds what the first n elements leave.
LEMMA Kept ==
    ASSUME NEW U, NEW s \in Seq(U), NEW S
    PROVE  Among(s, S) \in Seq(U) /\ ToSet(Among(s, S)) = ToSet(s) \cap S
<1> DEFINE Step(f, i) == IF i = 0 THEN <<>>
                         ELSE IF s[i] \in S THEN Append(f[i-1], s[i]) ELSE f[i-1]
           Def(f, n) == f = [i \in 0..n |-> Step(f, i)]
           T == {n \in Nat : \E f : Def(f, n)}
<1>1. 0 \in T
  <2> DEFINE f == [i \in 0..0 |-> <<>>]
  <2>1. Def(f, 0)
    OBVIOUS
  <2> QED BY <2>1
<1>2. ASSUME NEW n \in Nat, n \in T PROVE n + 1 \in T
  <2>1. PICK f : Def(f, n)
    BY <1>2
  <2>2. DOMAIN f = 0..n /\ \A i \in 0..n : f[i] = Step(f, i)
    BY <2>1, Zenon
  <2> DEFINE last == IF s[n+1] \in S THEN Append(f[n], s[n+1]) ELSE f[n]
             g == [i \in 0..(n+1) |-> IF i = n + 1 THEN last ELSE f[i]]
  <2>3. \A i \in 0..n : g[i] = f[i]
    OBVIOUS
  <2>4. ASSUME NEW i \in 0..(n+1) PROVE g[i] = Step(g, i)
    <3>1. CASE i = n + 1
      BY <3>1, <2>3
    <3>2. CASE i \in 0..n
      <4>1. i = 0 \/ i - 1 \in 0..n
        BY <3>2
      <4>2. g[i] = f[i] /\ (i # 0 => g[i-1] = f[i-1]) /\ f[i] = Step(f, i)
        BY <3>2, <4>1, <2>3, <2>2
      <4> HIDE DEF g
      <4> QED BY <4>2
    <3> QED BY <3>1, <3>2
  <2>5. g = [i \in 0..(n+1) |-> g[i]]
    OBVIOUS
  <2> HIDE DEF g
  <2>6. Def(g, n+1)
    BY <2>4, <2>5
  <2> QED BY <2>6
<1>3. Len(s) \in T
  <2> HIDE DEF T
  <2> QED BY <1>1, <1>2, Inductive
<1> DEFINE K == CHOOSE f : Def(f, Len(s))
<1>4. Among(s, S) = K[Len(s)]
    BY DEF Among
<1>5. Def(K, Len(s))
    BY <1>3, Zenon
<1> HIDE DEF K
<1>6. \A i \in 0..Len(s) : K[i] = Step(K, i)
    BY <1>5, Zenon
<1> DEFINE Upto(n) == {s[i] : i \in 1..n}
           R == {n \in Nat : n <= Len(s) => K[n] \in Seq(U) /\ ToSet(K[n]) = Upto(n) \cap S}
<1>7. 0 \in R
  <2>1. K[0] = <<>> /\ ToSet(<<>>) = {} /\ Upto(0) = {}
    BY <1>6 DEF ToSet
  <2>2. <<>> \in Seq(U)
    OBVIOUS
  <2>3. K[0] \in Seq(U) /\ ToSet(K[0]) = Upto(0) \cap S
    BY <2>1, <2>2, Zenon
  <2> QED BY <2>3
<1>8. ASSUME NEW n \in Nat, n \in R PROVE n + 1 \in R
  <2> SUFFICES ASSUME n + 1 <= Len(s)
               PROVE  K[n+1] \in Seq(U) /\ ToSet(K[n+1]) = Upto(n+1) \cap S
    OBVIOUS
  <2>1. K[n] \in Seq(U) /\ ToSet(K[n]) = Upto(n) \cap S
    BY <1>8
  <2>2. K[n+1] = IF s[n+1] \in S THEN Append(K[n], s[n+1]) ELSE K[n]
    BY <1>6
  <2>3. s[n+1] \in U /\ Upto(n+1) = Upto(n) \cup {s[n+1]}
    OBVIOUS
  <2>4. /\ Append(K[n], s[n+1]) \in Seq(U)
        /\ ToSet(Append(K[n], s[n+1])) = ToSet(K[n]) \cup {s[n+1]}
    BY <2>1, <2>3, Holds
  <2> HIDE DEF Upto
  <2> QED BY <2>1, <2>2, <2>3, <2>4
<1>9. Len(s) \in R
  <2> HIDE DEF R
  <2> QED BY <1>7, <1>8, Inductive
<1>10. Upto(Len(s)) = ToSet(s)
    BY Holds
<1> QED BY <1>4, <1>9, <1>10

(***************************************************************************)
(* The forest of groups.                                                   *)
(***************************************************************************)
\* One step up: the parent of the first group goes in front, unless there is none
\* or the walk has been there.
Climb(f, chain) ==
    IF chain # <<>> /\ f.groups[chain[1]].parent \in DOMAIN f.groups \ ToSet(chain)
    THEN <<f.groups[chain[1]].parent>> \o chain ELSE chain

\* The walk that GroupAncestry takes, N steps of it.
Walk(f, g, N, w) ==
    /\ GroupAncestry(f, g) = w[N]
    /\ w[0] = <<g>>
    /\ \A i \in 1..N : w[i] = Climb(f, w[i-1])

\* The recursive function behind GroupAncestry exists.
LEMMA WalkDefined ==
    ASSUME NEW f, NEW g \in DOMAIN f.groups, NEW N \in Nat, N = Cardinality(DOMAIN f.groups)
    PROVE  \E w : Walk(f, g, N, w)
<1> DEFINE Up(chain) == Climb(f, chain)
           Step(w, i) == IF i = 0 THEN IF g \in DOMAIN f.groups THEN <<g>> ELSE <<>>
                         ELSE Up(w[i-1])
           Def(w, n) == w = [i \in 0..n |-> Step(w, i)]
           T == {n \in Nat : \E w : Def(w, n)}
<1>1. 0 \in T
  <2> DEFINE w == [i \in 0..0 |-> <<g>>]
  <2>1. Def(w, 0)
    OBVIOUS
  <2> QED BY <2>1
<1>2. ASSUME NEW n \in Nat, n \in T PROVE n + 1 \in T
  <2>1. PICK w : Def(w, n)
    BY <1>2
  <2>2. DOMAIN w = 0..n /\ \A i \in 0..n : w[i] = Step(w, i)
    BY <2>1, Zenon
  <2> DEFINE v == [i \in 0..(n+1) |-> IF i = n + 1 THEN Up(w[n]) ELSE w[i]]
  <2>3. \A i \in 0..n : v[i] = w[i]
    OBVIOUS
  <2>4. ASSUME NEW i \in 0..(n+1) PROVE v[i] = Step(v, i)
    <3>1. CASE i = n + 1
      BY <3>1, <2>3
    <3>2. CASE i \in 0..n
      <4>1. i = 0 \/ i - 1 \in 0..n
        BY <3>2
      <4>2. v[i] = w[i] /\ (i # 0 => v[i-1] = w[i-1]) /\ w[i] = Step(w, i)
        BY <3>2, <4>1, <2>3, <2>2
      <4> HIDE DEF v
      <4> QED BY <4>2
    <3> QED BY <3>1, <3>2
  <2>5. v = [i \in 0..(n+1) |-> v[i]]
    OBVIOUS
  <2> HIDE DEF v
  <2>6. Def(v, n+1)
    BY <2>4, <2>5
  <2> QED BY <2>6
<1>3. N \in T
  <2> HIDE DEF T
  <2> QED BY <1>1, <1>2, Inductive
<1> DEFINE W == CHOOSE w : Def(w, N)
<1>4. GroupAncestry(f, g) = W[N]
    BY DEF GroupAncestry, Climb
<1>5. Def(W, N)
    BY <1>3, Zenon
<1> HIDE DEF W
<1>6. \A i \in 0..N : W[i] = Step(W, i)
    BY <1>5, Zenon
<1>7. W[0] = <<g>> /\ \A i \in 1..N : W[i] = Up(W[i-1])
    BY <1>6
<1>8. Walk(f, g, N, W)
    BY <1>4, <1>7, Zenon DEF Walk
<1> QED BY <1>8

\* A chain of groups on its way up from g, after n steps.
Chain(P, par, depth, g, c, n) ==
    /\ c \in Seq(P) /\ c # <<>> /\ g \in ToSet(c)
    /\ \A x \in ToSet(c) : depth[c[1]] <= depth[x]
    /\ \A x \in ToSet(c) : x = c[1] \/ par[x] \in ToSet(c)
    /\ par[c[1]] \notin P \/ Cardinality(ToSet(c)) > n

\* The walk starts at g.
LEMMA ChainStarts ==
    ASSUME NEW P, NEW par, NEW depth \in [P -> Nat], NEW g \in P
    PROVE  Chain(P, par, depth, g, <<g>>, 0)
<1>1. <<g>> \in Seq(P) /\ Len(<<g>>) = 1 /\ <<g>>[1] = g /\ <<g>> # <<>>
    OBVIOUS
<1>2. ToSet(<<g>>) = {g}
    BY DEF ToSet
<1>3. Cardinality({g}) = 1
    BY FS_Singleton
<1>4. depth[g] \in Nat
    OBVIOUS
<1>5. Cardinality(ToSet(<<g>>)) > 0
    BY <1>2, <1>3
<1>6. \A x \in ToSet(<<g>>) : x = <<g>>[1] /\ depth[<<g>>[1]] <= depth[x]
    BY <1>1, <1>2, <1>4
<1> QED BY <1>1, <1>2, <1>5, <1>6 DEF Chain

\* One step up from a group that is no root: its parent is new to the chain, for it
\* is less deep than all of it.
LEMMA ChainClimbs ==
    ASSUME NEW P, IsFiniteSet(P), NEW par, NEW depth \in [P -> Nat], NEW g \in P,
           NEW n \in Nat, NEW c, Chain(P, par, depth, g, c, n),
           NEW p \in P, p = par[c[1]], depth[p] < depth[c[1]]
    PROVE  p \notin ToSet(c) /\ Chain(P, par, depth, g, <<p>> \o c, n + 1)
<1> DEFINE d == <<p>> \o c
<1>a. /\ c \in Seq(P) /\ c # <<>> /\ g \in ToSet(c)
      /\ \A x \in ToSet(c) : depth[c[1]] <= depth[x]
      /\ \A x \in ToSet(c) : x = c[1] \/ par[x] \in ToSet(c)
      /\ Cardinality(ToSet(c)) > n
    BY Zenon DEF Chain
<1>1. c \in Seq(P) /\ Len(c) \in Nat /\ 1 \in 1..Len(c) /\ c[1] \in P
    BY <1>a
<1>2. ToSet(c) = {c[i] : i \in 1..Len(c)} /\ ToSet(c) \in SUBSET P
    BY <1>1, Holds
<1>3. p \notin ToSet(c)
  <2>1. \A x \in ToSet(c) : depth[p] < depth[x]
    BY <1>a, <1>1, <1>2
  <2> QED BY <2>1
<1>4. d \in Seq(P) /\ Len(d) = Len(c) + 1 /\ d[1] = p /\ \A i \in 1..Len(c) : d[i+1] = c[i]
  <2>1. <<p>> \in Seq(P) /\ Len(<<p>>) = 1 /\ <<p>>[1] = p
    OBVIOUS
  <2> QED BY <1>1, <2>1
<1>5. ToSet(d) = {d[i] : i \in 1..(Len(c) + 1)}
    BY <1>4, Holds
<1> HIDE DEF d
<1>6. \A i \in 1..(Len(c) + 1) : i = 1 \/ (i - 1 \in 1..Len(c) /\ d[i] = c[i-1])
  <2> SUFFICES ASSUME NEW i \in 1..(Len(c) + 1), i # 1 PROVE i - 1 \in 1..Len(c) /\ d[i] = c[i-1]
    OBVIOUS
  <2>1. i - 1 \in 1..Len(c) /\ (i - 1) + 1 = i
    BY <1>1
  <2>2. d[(i - 1) + 1] = c[i - 1]
    BY <1>4, <2>1
  <2> QED BY <2>1, <2>2
<1>7. ToSet(d) = ToSet(c) \cup {p}
  <2>1. \A i \in 1..(Len(c) + 1) : d[i] = p \/ d[i] \in ToSet(c)
    BY <1>2, <1>4, <1>6
  <2>2. p \in ToSet(d)
    BY <1>1, <1>4, <1>5
  <2>3. \A i \in 1..Len(c) : i + 1 \in 1..(Len(c) + 1) /\ d[i+1] = c[i]
    BY <1>1, <1>4
  <2>4. \A i \in 1..Len(c) : c[i] \in ToSet(d)
    BY <1>5, <2>3
  <2> QED BY <1>2, <1>5, <2>1, <2>2, <2>4
<1>8. Cardinality(ToSet(d)) > n + 1
  <2>1. IsFiniteSet(ToSet(c)) /\ Cardinality(ToSet(c)) \in Nat
    BY <1>2, FS_Subset, FS_CardinalityType
  <2>2. Cardinality(ToSet(c) \cup {p}) = Cardinality(ToSet(c)) + 1
    BY <1>3, <2>1, FS_AddElement
  <2>3. Cardinality(ToSet(d)) = Cardinality(ToSet(c)) + 1
    BY <1>7, <2>2
  <2> QED BY <1>a, <2>1, <2>3
<1>9. \A x \in ToSet(d) : depth[d[1]] <= depth[x]
  <2> SUFFICES ASSUME NEW x \in ToSet(d) PROVE depth[p] <= depth[x]
    BY <1>4
  <2>1. x = p \/ x \in ToSet(c)
    BY <1>7
  <2>2. x \in ToSet(c) => depth[c[1]] <= depth[x] /\ x \in P
    BY <1>a, <1>2
  <2> QED BY <1>1, <2>1, <2>2
<1>10. \A x \in ToSet(d) : x = d[1] \/ par[x] \in ToSet(d)
  <2> SUFFICES ASSUME NEW x \in ToSet(d), x # p PROVE par[x] \in ToSet(d)
    BY <1>4
  <2>1. x \in ToSet(c)
    BY <1>7
  <2>2. x = c[1] \/ par[x] \in ToSet(c)
    BY <1>a, <2>1
  <2> QED BY <1>7, <2>2
<1>11. d # <<>> /\ g \in ToSet(d)
  <2>1. Len(d) # 0
    BY <1>1, <1>4
  <2> QED BY <1>a, <1>4, <1>7, <2>1
<1>12. Chain(P, par, depth, g, d, n + 1)
    BY <1>4, <1>8, <1>9, <1>10, <1>11 DEF Chain
<1> QED BY <1>3, <1>12 DEF d

\* GroupAncestry of a forest: the walk ends at a root, it contains the group, and
\* what it contains it contains with its parent.  It cannot run in a circle, since
\* it climbs, and it cannot stop short, since it has a step for every group.
LEMMA Ancestry ==
    ASSUME NEW f, Sound(f), NEW depth \in [DOMAIN f.groups -> Nat], Deeper(f, depth),
           NEW g \in DOMAIN f.groups
    PROVE  LET up == GroupAncestry(f, g) IN
           /\ up \in Seq(DOMAIN f.groups) /\ up # <<>> /\ g \in ToSet(up)
           /\ f.groups[up[1]].parent = ""
           /\ \A x \in ToSet(up) : f.groups[x].parent \in ToSet(up) \/ f.groups[x].parent = ""
<1>1. PICK P : P = DOMAIN f.groups
    OBVIOUS
<1>2. PICK par : par = [x \in P |-> f.groups[x].parent]
    OBVIOUS
<1>3. PICK N : N = Cardinality(P)
    OBVIOUS
<1>4. IsFiniteSet(P) /\ N \in Nat /\ depth \in [P -> Nat] /\ g \in P
    BY <1>1, <1>3, FS_CardinalityType DEF Sound, SoundGroups
<1>a. PICK root : root = ""
    OBVIOUS
<1>b. \A x \in P : par[x] = f.groups[x].parent
    BY <1>2, Zenon
<1>c. root \notin P /\ \A x \in P : par[x] \in P \/ par[x] = root
    BY <1>1, <1>a, <1>b, Zenon DEF Sound, SoundGroups
<1>d. \A x \in P : par[x] \in P => depth[par[x]] < depth[x]
    BY <1>1, <1>b, Zenon DEF Deeper
<1>e. PICK w : Walk(f, g, N, w)
  <2>1. N \in Nat /\ N = Cardinality(DOMAIN f.groups)
    BY <1>1, <1>3, <1>4
  <2> QED BY <2>1, WalkDefined
<1>5. /\ GroupAncestry(f, g) = w[N]
      /\ w[0] = <<g>>
      /\ \A i \in 1..N : w[i] = Climb(f, w[i-1])
    BY <1>e, Zenon DEF Walk
<1> DEFINE R == {n \in Nat : n <= N => Chain(P, par, depth, g, w[n], n)}
<1>6. 0 \in R
  <2>1. Chain(P, par, depth, g, w[0], 0)
    BY <1>4, <1>5, ChainStarts
  <2> QED BY <2>1
<1>7. ASSUME NEW n \in Nat, n \in R PROVE n + 1 \in R
  <2> SUFFICES ASSUME n + 1 <= N PROVE Chain(P, par, depth, g, w[n+1], n + 1)
    OBVIOUS
  <2>1. PICK c : c = w[n]
    OBVIOUS
  <2>a. n <= N /\ n + 1 \in 1..N
    BY <1>4
  <2>2. Chain(P, par, depth, g, c, n)
    BY <1>7, <2>1, <2>a
  <2>3. c \in Seq(P) /\ c # <<>> /\ c[1] \in P
    BY <2>2 DEF Chain
  <2>4. w[n+1] = IF par[c[1]] \in P \ ToSet(c) THEN <<par[c[1]]>> \o c ELSE c
    <3>1. w[n+1] = Climb(f, c)
      BY <1>5, <2>1, <2>a
    <3>2. f.groups[c[1]].parent = par[c[1]]
      BY <1>b, <2>3, Zenon
    <3> QED BY <1>1, <2>3, <3>1, <3>2, Zenon DEF Climb
  <2>5. CASE par[c[1]] = root
    BY <1>c, <2>2, <2>4, <2>5, Zenon DEF Chain
  <2>6. CASE par[c[1]] \in P
    <3>1. PICK p \in P : p = par[c[1]]
      BY <2>6
    <3>2. p \notin ToSet(c) /\ Chain(P, par, depth, g, <<p>> \o c, n + 1)
      <4>1. depth[p] < depth[c[1]]
        BY <1>d, <2>3, <3>1
      <4> QED BY <1>4, <2>2, <3>1, <4>1, ChainClimbs
    <3> QED BY <2>4, <3>1, <3>2
  <2> QED BY <1>c, <2>3, <2>5, <2>6
<1>8. Chain(P, par, depth, g, w[N], N)
  <2>1. N \in R
    <3> HIDE DEF R
    <3> QED BY <1>4, <1>6, <1>7, Inductive
  <2>2. N <= N
    BY <1>4
  <2> QED BY <2>1, <2>2
<1>9. PICK up : up = w[N]
    OBVIOUS
<1>10. Chain(P, par, depth, g, up, N) /\ ToSet(up) \in SUBSET P /\ up[1] \in P
    BY <1>8, <1>9, Holds DEF Chain
<1>11. par[up[1]] \notin P
  <2>1. Cardinality(ToSet(up)) <= N /\ Cardinality(ToSet(up)) \in Nat
    BY <1>3, <1>4, <1>10, FS_Subset, FS_CardinalityType
  <2>2. par[up[1]] \notin P \/ Cardinality(ToSet(up)) > N
    BY <1>10, Zenon DEF Chain
  <2> QED BY <1>4, <2>1, <2>2
<1>12. par[up[1]] = root
    BY <1>c, <1>10, <1>11
<1>13. \A x \in ToSet(up) : f.groups[x].parent \in ToSet(up) \/ f.groups[x].parent = ""
  <2>1. \A x \in ToSet(up) : x = up[1] \/ par[x] \in ToSet(up)
    BY <1>10, Zenon DEF Chain
  <2> QED BY <1>a, <1>b, <1>10, <1>12, <2>1, Zenon
<1>14. up \in Seq(P) /\ up # <<>> /\ g \in ToSet(up)
    BY <1>10, Zenon DEF Chain
<1>15. f.groups[up[1]].parent = ""
    BY <1>a, <1>b, <1>10, <1>12, Zenon
<1> QED BY <1>1, <1>5, <1>9, <1>13, <1>14, <1>15, Zenon

(***************************************************************************)
(* Sound documents, and what a write may touch.                            *)
(***************************************************************************)
\* The groups form a forest.
Forest(f) == \E depth \in [DOMAIN f.groups -> Nat] : Deeper(f, depth)

\* A document to which nothing dangles.
Intact(f) == Sound(f) /\ Forest(f)

\* The parts of a document.
LEMMA Parts ==
    ASSUME NEW f, Sound(f)
    PROVE  DOMAIN f = {"org", "groups", "devices", "policies", "filters",
                       "assignments", "rings", "access", "assurance"}
    BY DEF Sound, EmptyFleet

\* What is left alone stays sound as long as what it may name only grows.
LEMMA Carried ==
    ASSUME NEW f, Sound(f), NEW h, DOMAIN h = DOMAIN f, DOMAIN f.groups \subseteq DOMAIN h.groups
    PROVE  /\ h.groups = f.groups => SoundGroups(h)
           /\ h.devices = f.devices => SoundDevices(h)
           /\ h.filters = f.filters => SoundFilters(h)
           /\ h.rings = f.rings => SoundRings(h)
           /\ h.access = f.access => SoundAccess(h)
           /\ DOMAIN h = DOMAIN EmptyFleet
<1>1. h.groups = f.groups => SoundGroups(h)
    BY Zenon DEF Sound, SoundGroups
<1>2. h.devices = f.devices => SoundDevices(h)
    BY DEF Sound, SoundDevices
<1>3. h.filters = f.filters => SoundFilters(h)
    BY DEF Sound, SoundFilters
<1>4. h.rings = f.rings => SoundRings(h)
    BY DEF Sound, SoundRings
<1>5. h.access = f.access => SoundAccess(h)
    BY DEF Sound, SoundAccess
<1> QED BY <1>1, <1>2, <1>3, <1>4, <1>5 DEF Sound

\* So do the bindings.
LEMMA BindingsCarried ==
    ASSUME NEW f, Sound(f), NEW h, NEW s \in Seq(SoundBindings(f)),
           DOMAIN f.groups \subseteq DOMAIN h.groups, DOMAIN f.devices \subseteq DOMAIN h.devices,
           DOMAIN f.policies \subseteq DOMAIN h.policies, DOMAIN f.filters \subseteq DOMAIN h.filters
    PROVE  s \in Seq(SoundBindings(h))
<1>1. Refs(f) \subseteq Refs(h)
    BY DEF Refs
<1>2. ASSUME NEW a \in SoundBindings(f) PROVE a \in SoundBindings(h)
    BY <1>1 DEF SoundBindings
<1>3. ToSet(s) \in SUBSET SoundBindings(f)
    BY Holds
<1>4. ToSet(s) \in SUBSET SoundBindings(h)
    BY <1>2, <1>3
<1> QED BY <1>4, Holds

\* Groups with the same parents form the same forest.
LEMMA ForestCarried ==
    ASSUME NEW f, Forest(f), NEW h, DOMAIN h.groups = DOMAIN f.groups,
           \A g \in DOMAIN f.groups : h.groups[g].parent = f.groups[g].parent
    PROVE  Forest(h)
    BY DEF Forest, Deeper

\* A write that touches groups but not their parents.
LEMMA GroupsTouched ==
    ASSUME NEW f, Intact(f), NEW e, DOMAIN e = DOMAIN f.groups,
           \A g \in DOMAIN e : "parent" \in DOMAIN e[g] /\ e[g].parent = f.groups[g].parent
    PROVE  Intact([f EXCEPT !.groups = e])
<1> DEFINE h == [f EXCEPT !.groups = e]
<1>1. Sound(f) /\ Forest(f)
    BY DEF Intact
<1>2. /\ DOMAIN h = DOMAIN f /\ h.groups = e /\ h.devices = f.devices /\ h.filters = f.filters
      /\ h.rings = f.rings /\ h.access = f.access /\ h.policies = f.policies
      /\ h.assignments = f.assignments
    BY <1>1, Parts
<1> HIDE DEF h
<1>3. SoundGroups(h)
    BY <1>1, <1>2 DEF Sound, SoundGroups
<1>4. h.assignments \in Seq(SoundBindings(h))
    BY <1>1, <1>2, BindingsCarried DEF Sound
<1>5. Sound(h)
    BY <1>1, <1>2, <1>3, <1>4, Carried DEF Sound
<1>6. Forest(h)
    BY <1>1, <1>2, ForestCarried
<1> QED BY <1>5, <1>6 DEF Intact, h

\* A write that touches devices.
LEMMA DevicesTouched ==
    ASSUME NEW f, Intact(f), NEW e, DOMAIN f.devices \subseteq DOMAIN e,
           \A t \in DOMAIN e : "groups" \in DOMAIN e[t] /\ e[t].groups \in Seq(DOMAIN f.groups)
    PROVE  Intact([f EXCEPT !.devices = e])
<1> DEFINE h == [f EXCEPT !.devices = e]
<1>1. Sound(f) /\ Forest(f)
    BY DEF Intact
<1>2. /\ DOMAIN h = DOMAIN f /\ h.groups = f.groups /\ h.devices = e /\ h.filters = f.filters
      /\ h.rings = f.rings /\ h.access = f.access /\ h.policies = f.policies
      /\ h.assignments = f.assignments
    BY <1>1, Parts
<1> HIDE DEF h
<1>3. SoundDevices(h)
    BY <1>2 DEF SoundDevices
<1>4. h.assignments \in Seq(SoundBindings(h))
    BY <1>1, <1>2, BindingsCarried DEF Sound
<1>5. Sound(h)
    BY <1>1, <1>2, <1>3, <1>4, Carried DEF Sound
<1>6. Forest(h)
    BY <1>1, <1>2, ForestCarried
<1> QED BY <1>5, <1>6 DEF Intact, h

\* A write that touches neither groups nor devices.
LEMMA RestTouched ==
    ASSUME NEW f, Intact(f), NEW h, DOMAIN h = DOMAIN f, h.groups = f.groups, h.devices = f.devices,
           h.assignments \in Seq(SoundBindings(h)), SoundFilters(h), SoundRings(h), SoundAccess(h)
    PROVE  Intact(h)
<1>1. Sound(f) /\ Forest(f)
    BY DEF Intact
<1>2. Sound(h)
    BY <1>1, Carried DEF Sound
<1>3. Forest(h)
    BY <1>1, ForestCarried
<1> QED BY <1>2, <1>3 DEF Intact

\* The fields of a sound document, as the lemmas below use them.
LEMMA IntactParts ==
    ASSUME NEW f, Intact(f)
    PROVE  /\ DOMAIN f = {"org", "groups", "devices", "policies", "filters",
                          "assignments", "rings", "access", "assurance"}
           /\ "" \notin DOMAIN f.groups
           /\ \A g \in DOMAIN f.groups : "parent" \in DOMAIN f.groups[g]
           /\ \A t \in DOMAIN f.devices : /\ "groups" \in DOMAIN f.devices[t]
                                          /\ f.devices[t].groups \in Seq(DOMAIN f.groups)
           /\ f.assignments \in Seq(SoundBindings(f))
           /\ SoundFilters(f) /\ SoundRings(f) /\ SoundAccess(f)
    BY Parts, Zenon DEF Intact, Sound, SoundGroups, SoundDevices

\* Every write to one scope.
LEMMA ScopeTouched ==
    ASSUME NEW f, Intact(f), NEW e
    PROVE  /\ \A g \in DOMAIN f.groups : Intact([f EXCEPT !.groups[g].scope = e])
           /\ \A t \in DOMAIN f.devices : Intact([f EXCEPT !.devices[t].scope = e])
           /\ Intact([f EXCEPT !.org = e])
<1> USE IntactParts
<1>1. ASSUME NEW g \in DOMAIN f.groups PROVE Intact([f EXCEPT !.groups[g].scope = e])
  <2> DEFINE k == [f.groups EXCEPT ![g] = [@ EXCEPT !.scope = e]]
  <2>1. /\ DOMAIN k = DOMAIN f.groups
        /\ \A x \in DOMAIN k : "parent" \in DOMAIN k[x] /\ k[x].parent = f.groups[x].parent
    OBVIOUS
  <2>2. [f EXCEPT !.groups[g].scope = e] = [f EXCEPT !.groups = k]
    OBVIOUS
  <2> HIDE DEF k
  <2>3. Intact([f EXCEPT !.groups = k])
    BY <2>1, GroupsTouched
  <2> QED BY <2>2, <2>3
<1>2. ASSUME NEW t \in DOMAIN f.devices PROVE Intact([f EXCEPT !.devices[t].scope = e])
  <2> DEFINE k == [f.devices EXCEPT ![t] = [@ EXCEPT !.scope = e]]
  <2>1. /\ DOMAIN k = DOMAIN f.devices
        /\ \A x \in DOMAIN k : "groups" \in DOMAIN k[x] /\ k[x].groups = f.devices[x].groups
    OBVIOUS
  <2>2. [f EXCEPT !.devices[t].scope = e] = [f EXCEPT !.devices = k]
    OBVIOUS
  <2> HIDE DEF k
  <2>3. Intact([f EXCEPT !.devices = k])
    BY <2>1, DevicesTouched
  <2> QED BY <2>2, <2>3
<1>3. Intact([f EXCEPT !.org = e])
  <2> DEFINE h == [f EXCEPT !.org = e]
  <2>1. /\ DOMAIN h = DOMAIN f /\ h.groups = f.groups /\ h.devices = f.devices /\ h.filters = f.filters
        /\ h.rings = f.rings /\ h.access = f.access /\ h.policies = f.policies
        /\ h.assignments = f.assignments
    OBVIOUS
  <2> HIDE DEF h
  <2>2. h.assignments \in Seq(SoundBindings(h))
    BY <2>1, BindingsCarried DEF Intact
  <2>3. SoundFilters(h) /\ SoundRings(h) /\ SoundAccess(h)
    BY <2>1, Carried DEF Intact
  <2>4. Intact(h)
    BY <2>1, <2>2, <2>3, RestTouched
  <2> QED BY <2>4 DEF h
<1> QED BY <1>1, <1>2, <1>3

\* Settings, enforcement and apps.
LEMMA ScopeEdited ==
    ASSUME NEW f, Intact(f), NEW ref, NEW v
    PROVE  /\ \A h \in SetScopeSetting(f, ref, v) : Intact(h)
           /\ \A h \in ClearScopeSetting(f, ref) : Intact(h)
           /\ \A h \in SetScopeApps(f, ref, v) : Intact(h)
           /\ \A h \in SetScopeEnforce(f, ref, v) : Intact(h)
<1>1. ASSUME NEW s, NEW h \in withScope(f, ref, s) PROVE Intact(h)
  <2>1. \/ \E g \in DOMAIN f.groups : h = [f EXCEPT !.groups[g].scope = s]
        \/ \E t \in DOMAIN f.devices : h = [f EXCEPT !.devices[t].scope = s]
        \/ h = [f EXCEPT !.org = s]
    BY <1>1, Zenon DEF withScope
  <2>2. ASSUME NEW g \in DOMAIN f.groups, h = [f EXCEPT !.groups[g].scope = s] PROVE Intact(h)
    BY <2>2, ScopeTouched
  <2>3. ASSUME NEW t \in DOMAIN f.devices, h = [f EXCEPT !.devices[t].scope = s] PROVE Intact(h)
    BY <2>3, ScopeTouched
  <2>4. CASE h = [f EXCEPT !.org = s]
    BY <2>4, ScopeTouched
  <2> QED BY <2>1, <2>2, <2>3, <2>4
<1> QED BY <1>1 DEF SetScopeSetting, ClearScopeSetting, SetScopeApps, SetScopeEnforce

(***************************************************************************)
(* The mutations: devices.                                                 *)
(***************************************************************************)
\* A sequence is one over any set that holds its elements.
LEMMA SeqOver ==
    ASSUME NEW s, NEW U, s \in Seq(U), NEW V, ToSet(s) \subseteq V
    PROVE  s \in Seq(V)
    BY Holds

\* A field of a device other than its groups.
LEMMA DeviceEdited ==
    ASSUME NEW f, Intact(f), NEW t \in DOMAIN f.devices, NEW d, DOMAIN d = DOMAIN f.devices[t],
           d.groups \in Seq(DOMAIN f.groups)
    PROVE  Intact([f EXCEPT !.devices[t] = d])
<1> DEFINE e == [f.devices EXCEPT ![t] = d]
<1>1. /\ DOMAIN e = DOMAIN f.devices
      /\ \A x \in DOMAIN e : "groups" \in DOMAIN e[x] /\ e[x].groups \in Seq(DOMAIN f.groups)
    BY IntactParts
<1>2. [f EXCEPT !.devices[t] = d] = [f EXCEPT !.devices = e]
    BY IntactParts
<1> HIDE DEF e
<1> QED BY <1>1, <1>2, DevicesTouched

\* Retirement, reactivation, the first report, the release.
LEMMA DeviceStates ==
    ASSUME NEW f, Intact(f), NEW t, NEW v
    PROVE  /\ \A h \in RetireDevice(f, t) : Intact(h)
           /\ \A h \in ReactivateDevice(f, t) : Intact(h)
           /\ \A h \in ActivateProvisional(f, t) : Intact(h)
           /\ \A h \in SetDevicePin(f, t, v) : Intact(h)
<1>1. ASSUME NEW to, NEW u \in DOMAIN f.devices PROVE Intact([f EXCEPT !.devices[u].state = to])
  <2> DEFINE d == [f.devices[u] EXCEPT !.state = to]
  <2>1. DOMAIN d = DOMAIN f.devices[u] /\ d.groups \in Seq(DOMAIN f.groups)
    BY IntactParts
  <2>2. [f EXCEPT !.devices[u].state = to] = [f EXCEPT !.devices[u] = d]
    OBVIOUS
  <2> HIDE DEF d
  <2> QED BY <2>1, <2>2, DeviceEdited
<1>2. ASSUME NEW to, NEW from, NEW h \in setDeviceState(f, t, to, from) PROVE Intact(h)
  <2>1. PICK u \in DOMAIN f.devices : h = [f EXCEPT !.devices[u].state = to]
    BY <1>2, Zenon DEF setDeviceState
  <2> QED BY <1>1, <2>1
<1>3. ASSUME NEW h \in SetDevicePin(f, t, v) PROVE Intact(h)
  <2>1. PICK u \in DOMAIN f.devices : h = [f EXCEPT !.devices[u].pin = v]
    BY <1>3, Zenon DEF SetDevicePin
  <2> DEFINE d == [f.devices[u] EXCEPT !.pin = v]
  <2>2. DOMAIN d = DOMAIN f.devices[u] /\ d.groups \in Seq(DOMAIN f.groups)
    BY IntactParts
  <2>3. h = [f EXCEPT !.devices[u] = d]
    BY <2>1
  <2> HIDE DEF d
  <2> QED BY <2>2, <2>3, DeviceEdited
<1> QED BY <1>2, <1>3, Zenon DEF RetireDevice, ReactivateDevice, ActivateProvisional

\* A new device: AddDevice has checked the groups it names.
LEMMA DeviceAdded ==
    ASSUME NEW f, Intact(f), NEW t, NEW hw, NEW class, NEW g,
           NEW h \in AddDevice(f, t, NewDevice(hw, class, <<g>>))
    PROVE  Intact(h)
<1> DEFINE d == [NewDevice(hw, class, <<g>>) EXCEPT !.state = "provisional"]
           e == With(f.devices, t, d)
<1>1. h = [f EXCEPT !.devices = e] /\ ToSet(<<g>>) \subseteq DOMAIN f.groups
    BY Zenon DEF AddDevice, NewDevice
<1>2. "groups" \in DOMAIN d /\ d.groups = <<g>>
    BY DEF NewDevice
<1>3. <<g>> \in Seq({g}) 
    OBVIOUS
<1>4. d.groups \in Seq(DOMAIN f.groups)
    BY <1>1, <1>2, <1>3, SeqOver
<1> HIDE DEF d
<1>5. /\ DOMAIN f.devices \subseteq DOMAIN e
      /\ \A x \in DOMAIN e : "groups" \in DOMAIN e[x] /\ e[x].groups \in Seq(DOMAIN f.groups)
    BY <1>2, <1>4, IntactParts DEF With
<1> HIDE DEF e
<1> QED BY <1>1, <1>5, DevicesTouched

\* A patch: the groups are the old ones, or checked.
LEMMA DeviceUpdated ==
    ASSUME NEW f, Intact(f), NEW t, NEW hw, NEW class, NEW groups, NEW U, groups \in Seq(U),
           NEW h \in UpdateDevice(f, t, hw, class, groups)
    PROVE  Intact(h)
<1> DEFINE d == [f.devices[t] EXCEPT !.hw = hw, !.class = class, !.groups = groups]
<1>a. /\ t \in DOMAIN f.devices
      /\ groups # f.devices[t].groups => ToSet(groups) \subseteq DOMAIN f.groups
      /\ h \in {[f EXCEPT !.devices[t] = [@ EXCEPT !.hw = hw, !.class = class, !.groups = groups]]}
    BY Zenon DEF UpdateDevice
<1>b. h = [f EXCEPT !.devices[t] = [@ EXCEPT !.hw = hw, !.class = class, !.groups = groups]]
    BY <1>a
<1>1. h = [f EXCEPT !.devices[t] = d]
    BY <1>b
<1>2. groups \in Seq(DOMAIN f.groups)
  <2>1. CASE groups = f.devices[t].groups
    BY <1>a, <2>1, IntactParts, Zenon
  <2>2. CASE groups # f.devices[t].groups
    BY <1>a, <2>2, SeqOver, Zenon
  <2> QED BY <2>1, <2>2
<1>3. DOMAIN d = DOMAIN f.devices[t] /\ d.groups = groups
    BY <1>a, IntactParts
<1> HIDE DEF d
<1> QED BY <1>a, <1>1, <1>2, <1>3, DeviceEdited

\* What is left of the bindings, and that it is still sound.
LEMMA Unbinds ==
    ASSUME NEW f, Intact(f), NEW gone
    PROVE  /\ Unbinding(f, gone) \in Seq(SoundBindings(f))
           /\ ToSet(Unbinding(f, gone)) = ToSet(f.assignments) \ gone
<1>1. f.assignments \in Seq(SoundBindings(f))
    BY IntactParts
<1> DEFINE S == ToSet(f.assignments) \ gone
<1>2. /\ Among(f.assignments, S) \in Seq(SoundBindings(f))
      /\ ToSet(Among(f.assignments, S)) = ToSet(f.assignments) \cap S
    BY <1>1, Kept
<1> QED BY <1>2 DEF Unbinding

\* A binding that is sound and names no device that went is sound without it.
LEMMA DevicesRemoved ==
    ASSUME NEW f, Intact(f), NEW h, NEW gone, DOMAIN h = DOMAIN f,
           h.groups = f.groups, h.policies = f.policies, h.filters = f.filters,
           h.rings = f.rings, h.access = f.access,
           DOMAIN h.devices = DOMAIN f.devices \ gone,
           \A t \in DOMAIN h.devices : h.devices[t] = f.devices[t],
           h.assignments \in Seq(SoundBindings(f)),
           \A a \in ToSet(h.assignments) : \A t \in gone : a.target # DeviceRef(t)
    PROVE  Intact(h)
<1>1. Sound(f) /\ Forest(f)
    BY DEF Intact
<1>2. SoundDevices(h)
    BY <1>1 DEF Sound, SoundDevices
<1>3. ToSet(h.assignments) \in SUBSET SoundBindings(f)
    BY Holds
<1>4. ASSUME NEW a \in ToSet(h.assignments) PROVE a \in SoundBindings(h)
  <2>1. a \in SoundBindings(f) /\ a.target \in Refs(f)
    BY <1>3 DEF SoundBindings
  <2>2. a.target \in Refs(h)
    BY <2>1 DEF Refs
  <2> QED BY <2>1, <2>2 DEF SoundBindings
<1>5. h.assignments \in Seq(SoundBindings(h))
    BY <1>4, Holds
<1>6. Sound(h)
    BY <1>1, <1>2, <1>5, Carried DEF Sound
<1>7. Forest(h)
    BY <1>1, ForestCarried
<1> QED BY <1>6, <1>7 DEF Intact

\* A device goes with the bindings to it.
LEMMA DeviceRemoved ==
    ASSUME NEW f, Intact(f), NEW t, NEW h \in RemoveDevice(f, t)
    PROVE  Intact(h)
<1>1. PICK u \in DOMAIN f.devices :
        h = [f EXCEPT !.devices = Without(@, u),
                      !.assignments = Unbinding(f, {a \in ToSet(@) : a.target = DeviceRef(u)})]
    BY Zenon DEF RemoveDevice
<1> DEFINE gone == {a \in ToSet(f.assignments) : a.target = DeviceRef(u)}
           left == Unbinding(f, gone)
<1>2. h = [f EXCEPT !.devices = Without(f.devices, u), !.assignments = left]
    BY <1>1, IntactParts
<1>3. left \in Seq(SoundBindings(f)) /\ \A a \in ToSet(left) : a.target # DeviceRef(u)
    BY Unbinds
<1> HIDE DEF left
<1>4. /\ DOMAIN h = DOMAIN f /\ h.groups = f.groups /\ h.policies = f.policies
      /\ h.filters = f.filters /\ h.rings = f.rings /\ h.access = f.access
      /\ h.devices = Without(f.devices, u) /\ h.assignments = left
    BY <1>2, IntactParts
<1>5. /\ DOMAIN h.devices = DOMAIN f.devices \ {u}
      /\ \A x \in DOMAIN h.devices : h.devices[x] = f.devices[x]
    BY <1>4 DEF Without
<1> QED BY <1>3, <1>4, <1>5, DevicesRemoved

\* The reaper's list may be old: what counts is what it takes out.
LEMMA Reaped ==
    ASSUME NEW f, Intact(f), NEW stale
    PROVE  Intact([f EXCEPT
                    !.devices = [t \in DOMAIN @ \ stale |-> @[t]],
                    !.assignments = Unbinding(f, {a \in ToSet(@) : a.target \in {DeviceRef(t) : t \in stale}})])
<1> DEFINE gone == {a \in ToSet(f.assignments) : a.target \in {DeviceRef(t) : t \in stale}}
           left == Unbinding(f, gone)
           kept == [t \in DOMAIN f.devices \ stale |-> f.devices[t]]
           h == [f EXCEPT !.devices = kept, !.assignments = left]
<1>1. left \in Seq(SoundBindings(f)) /\ \A a \in ToSet(left) : \A t \in stale : a.target # DeviceRef(t)
    BY Unbinds
<1>2. DOMAIN kept = DOMAIN f.devices \ stale /\ \A x \in DOMAIN kept : kept[x] = f.devices[x]
    OBVIOUS
<1>3. h = [f EXCEPT
            !.devices = [t \in DOMAIN @ \ stale |-> @[t]],
            !.assignments = Unbinding(f, {a \in ToSet(@) : a.target \in {DeviceRef(t) : t \in stale}})]
    BY IntactParts
<1> HIDE DEF left, kept
<1>4. /\ DOMAIN h = DOMAIN f /\ h.groups = f.groups /\ h.policies = f.policies
      /\ h.filters = f.filters /\ h.rings = f.rings /\ h.access = f.access
      /\ h.devices = kept /\ h.assignments = left
    BY IntactParts
<1> HIDE DEF h
<1>5. Intact(h)
    BY <1>1, <1>2, <1>4, DevicesRemoved
<1> QED BY <1>3, <1>5

(***************************************************************************)
(* The mutations: groups.                                                  *)
(***************************************************************************)
\* Classes and pins.
LEMMA GroupEdited ==
    ASSUME NEW f, Intact(f), NEW g, NEW v
    PROVE  /\ \A h \in SetGroupAllowedClasses(f, g, v) : Intact(h)
           /\ \A h \in SetGroupPin(f, g, v) : Intact(h)
<1>1. ASSUME NEW k \in DOMAIN f.groups, NEW c, DOMAIN c = DOMAIN f.groups[k],
             c.parent = f.groups[k].parent
      PROVE  Intact([f EXCEPT !.groups[k] = c])
  <2> DEFINE e == [f.groups EXCEPT ![k] = c]
  <2>1. /\ DOMAIN e = DOMAIN f.groups
        /\ \A x \in DOMAIN e : "parent" \in DOMAIN e[x] /\ e[x].parent = f.groups[x].parent
    BY <1>1, IntactParts
  <2>2. [f EXCEPT !.groups[k] = c] = [f EXCEPT !.groups = e]
    BY IntactParts
  <2> HIDE DEF e
  <2> QED BY <2>1, <2>2, GroupsTouched
<1>2. ASSUME NEW h \in SetGroupAllowedClasses(f, g, v) PROVE Intact(h)
  <2>1. g \in DOMAIN f.groups /\ h \in {[f EXCEPT !.groups[g].allowed = v]}
    BY <1>2, Zenon DEF SetGroupAllowedClasses
  <2> DEFINE c == [f.groups[g] EXCEPT !.allowed = v]
  <2>2. h = [f EXCEPT !.groups[g] = c]
    BY <2>1
  <2>3. DOMAIN c = DOMAIN f.groups[g] /\ c.parent = f.groups[g].parent
    BY <2>1, IntactParts
  <2> HIDE DEF c
  <2> QED BY <1>1, <2>1, <2>2, <2>3
<1>3. ASSUME NEW h \in SetGroupPin(f, g, v) PROVE Intact(h)
  <2>1. PICK k \in DOMAIN f.groups : h = [f EXCEPT !.groups[k].pin = v]
    BY <1>3, Zenon DEF SetGroupPin
  <2> DEFINE c == [f.groups[k] EXCEPT !.pin = v]
  <2>2. h = [f EXCEPT !.groups[k] = c]
    BY <2>1
  <2>3. DOMAIN c = DOMAIN f.groups[k] /\ c.parent = f.groups[k].parent
    BY <2>1, IntactParts
  <2> HIDE DEF c
  <2> QED BY <1>1, <2>2, <2>3
<1> QED BY <1>2, <1>3

\* The depths of a forest, its names and its parents as plain functions: a root or a
\* leaf more, a leaf less, and a tree moved under another.
Depths(P, par, depth) == /\ depth \in [P -> Nat]
                         /\ \A x \in P : par[x] \in P => depth[par[x]] < depth[x]

\* A group more: below its parent, or a root.
LEMMA ForestGrows ==
    ASSUME NEW P, NEW par, NEW depth, Depths(P, par, depth), NEW g, g \notin P,
           NEW p, p # g, NEW new, new[g] = p, \A x \in P : new[x] = par[x] /\ par[x] # g
    PROVE  \E d : Depths(P \cup {g}, new, d)
<1>1. depth \in [P -> Nat] /\ \A x \in P : par[x] \in P => depth[par[x]] < depth[x]
    BY Zenon DEF Depths
<1>2. PICK n \in Nat : p \in P => n = depth[p] + 1
  <2>1. CASE p \in P
    <3>1. depth[p] + 1 \in Nat
      BY <1>1, <2>1
    <3> QED BY <3>1
  <2>2. CASE p \notin P
    BY <2>2
  <2> QED BY <2>1, <2>2
<1> DEFINE d == [x \in P \cup {g} |-> IF x = g THEN n ELSE depth[x]]
<1>3. d \in [P \cup {g} -> Nat] /\ d[g] = n /\ \A x \in P : d[x] = depth[x]
    BY <1>1
<1> HIDE DEF d
<1>4. ASSUME NEW x \in P \cup {g}, new[x] \in P \cup {g} PROVE d[new[x]] < d[x]
  <2>1. CASE x = g
    <3>1. p \in P /\ d[p] = depth[p] /\ depth[p] \in Nat
      BY <1>1, <1>3, <1>4, <2>1
    <3> QED BY <1>2, <1>3, <2>1, <3>1
  <2>2. CASE x \in P
    <3>1. new[x] = par[x] /\ par[x] \in P
      BY <1>4, <2>2
    <3> QED BY <1>1, <1>3, <2>2, <3>1
  <2> QED BY <2>1, <2>2
<1> QED BY <1>3, <1>4 DEF Depths

\* Groups less.
LEMMA ForestShrinks ==
    ASSUME NEW P, NEW par, NEW depth, Depths(P, par, depth), NEW Q, Q \subseteq P,
           NEW new, \A x \in Q : new[x] = par[x]
    PROVE  \E d : Depths(Q, new, d)
<1>1. depth \in [P -> Nat] /\ \A x \in P : par[x] \in P => depth[par[x]] < depth[x]
    BY Zenon DEF Depths
<1> DEFINE d == [x \in Q |-> depth[x]]
<1>2. d \in [Q -> Nat] /\ \A x \in Q : d[x] = depth[x]
    BY <1>1
<1> HIDE DEF d
<1>3. \A x \in Q : new[x] \in Q => d[new[x]] < d[x]
    BY <1>1, <1>2
<1> QED BY <1>2, <1>3 DEF Depths

\* A holds p and all above it: it keeps its depths, and the rest goes below p.
LEMMA ForestMoves ==
    ASSUME NEW P, NEW par, NEW depth, Depths(P, par, depth), NEW g \in P, NEW p \in P,
           NEW A, A \subseteq P, p \in A, g \notin A, \A x \in A : par[x] \in P => par[x] \in A,
           NEW new, new[g] = p, \A x \in P \ {g} : new[x] = par[x]
    PROVE  \E d : Depths(P, new, d)
<1>1. depth \in [P -> Nat] /\ \A x \in P : par[x] \in P => depth[par[x]] < depth[x]
    BY Zenon DEF Depths
<1>2. PICK n \in Nat : n = depth[p] + 1
    BY <1>1
<1> DEFINE d == [x \in P |-> IF x \in A THEN depth[x] ELSE depth[x] + n]
<1>3. /\ d \in [P -> Nat]
      /\ \A x \in A : d[x] = depth[x]
      /\ \A x \in P : x \notin A => d[x] = depth[x] + n
    BY <1>1
<1> HIDE DEF d
<1>4. ASSUME NEW x \in P, new[x] \in P PROVE d[new[x]] < d[x]
  <2>1. CASE x = g
    <3>1. d[p] = depth[p] /\ d[g] = depth[g] + n /\ depth[g] \in Nat /\ depth[p] \in Nat
      BY <1>1, <1>3
    <3> QED BY <1>2, <2>1, <3>1
  <2>2. CASE x # g
    <3>1. PICK q \in P : q = new[x] /\ q = par[x] /\ depth[q] < depth[x]
      BY <1>1, <1>4, <2>2
    <3>2. x \in A => q \in A
      BY <3>1
    <3>3. depth[q] \in Nat /\ depth[x] \in Nat
      BY <1>1
    <3>4. d[q] = depth[q] \/ (x \notin A /\ d[q] = depth[q] + n)
      BY <1>3, <3>2
    <3>5. d[x] = depth[x] + n \/ (x \in A /\ d[x] = depth[x])
      BY <1>3
    <3> QED BY <1>2, <3>1, <3>2, <3>3, <3>4, <3>5
  <2> QED BY <2>1, <2>2
<1> QED BY <1>3, <1>4 DEF Depths

\* The parent of every group.
Parents(f) == [g \in DOMAIN f.groups |-> f.groups[g].parent]

\* The two ways to say that the groups of f form a forest.
LEMMA ForestDepths ==
    ASSUME NEW f
    PROVE  /\ \A d : Depths(DOMAIN f.groups, Parents(f), d) <=>
                        d \in [DOMAIN f.groups -> Nat] /\ Deeper(f, d)
           /\ Forest(f) <=> \E d : Depths(DOMAIN f.groups, Parents(f), d)
<1>1. \A g \in DOMAIN f.groups : Parents(f)[g] = f.groups[g].parent
    BY Zenon DEF Parents
<1>2. \A d : Depths(DOMAIN f.groups, Parents(f), d) <=>
                d \in [DOMAIN f.groups -> Nat] /\ Deeper(f, d)
    BY <1>1, Zenon DEF Depths, Deeper
<1> QED BY <1>2, Zenon DEF Forest

\* A new group names a parent that exists, and nothing names it yet.
LEMMA GroupAdded ==
    ASSUME NEW f, Intact(f), NEW g, g # "", NEW parent, NEW h \in AddGroup(f, g, parent)
    PROVE  Intact(h) /\ DOMAIN h.groups = DOMAIN f.groups \cup {g} /\ h.devices = f.devices
<1>1. /\ g \notin DOMAIN f.groups /\ parent \in DOMAIN f.groups \cup {""}
      /\ h = [f EXCEPT !.groups = With(@, g, NewGroup(parent))]
    BY Zenon DEF AddGroup
<1> DEFINE e == With(f.groups, g, NewGroup(parent))
<1>2. /\ DOMAIN h = DOMAIN f /\ h.groups = e /\ h.devices = f.devices /\ h.filters = f.filters
      /\ h.rings = f.rings /\ h.access = f.access /\ h.policies = f.policies
      /\ h.assignments = f.assignments
    BY <1>1, IntactParts
<1>3. /\ DOMAIN e = DOMAIN f.groups \cup {g} /\ e[g] = NewGroup(parent)
      /\ \A x \in DOMAIN f.groups : e[x] = f.groups[x]
    BY <1>1 DEF With
<1>4. "parent" \in DOMAIN NewGroup(parent) /\ NewGroup(parent).parent = parent
    BY DEF NewGroup
<1> HIDE DEF e
<1>5. Sound(f) /\ Forest(f) /\ SoundGroups(f)
    BY DEF Intact, Sound
<1>6. SoundGroups(h)
  <2>1. IsFiniteSet(DOMAIN f.groups \cup {g})
    BY <1>5, FS_AddElement DEF SoundGroups
  <2>2. "" \notin DOMAIN f.groups \cup {g}
    BY <1>5 DEF SoundGroups
  <2>3. ASSUME NEW x \in DOMAIN f.groups \cup {g}
        PROVE  "parent" \in DOMAIN e[x] /\ e[x].parent \in (DOMAIN f.groups \cup {g}) \cup {""}
    BY <1>1, <1>3, <1>4, <1>5 DEF SoundGroups
  <2> QED BY <1>2, <1>3, <2>1, <2>2, <2>3 DEF SoundGroups
<1>7. h.assignments \in Seq(SoundBindings(h))
    BY <1>2, <1>3, <1>5, BindingsCarried DEF Sound
<1>8. Sound(h)
    BY <1>2, <1>3, <1>5, <1>6, <1>7, Carried DEF Sound
<1>9. Forest(h)
  <2>1. PICK d : Depths(DOMAIN f.groups, Parents(f), d)
    BY <1>5, ForestDepths
  <2>2. \A x \in DOMAIN f.groups : Parents(f)[x] = f.groups[x].parent
    BY Zenon DEF Parents
  <2>3. \A x \in DOMAIN f.groups \cup {g} : Parents(h)[x] = e[x].parent
    BY <1>2, <1>3, Zenon DEF Parents
  <2>4. Parents(h)[g] = parent /\ \A x \in DOMAIN f.groups : Parents(h)[x] = Parents(f)[x]
    BY <1>3, <1>4, <2>2, <2>3
  <2>5. \A x \in DOMAIN f.groups : Parents(f)[x] # g
    BY <1>1, <1>5, <2>2 DEF SoundGroups
  <2>6. parent # g
    BY <1>1
  <2>7. \E k : Depths(DOMAIN f.groups \cup {g}, Parents(h), k)
    BY <1>1, <2>1, <2>4, <2>5, <2>6, ForestGrows
  <2> QED BY <1>2, <1>3, <2>7, ForestDepths
<1> QED BY <1>2, <1>3, <1>8, <1>9 DEF Intact

\* A new group with devices in it: both halves of the change land together.
LEMMA GroupCreated ==
    ASSUME NEW f, Intact(f), NEW g, g # "", NEW parent, NEW tags,
           NEW h \in CreateGroupWithDevices(f, g, parent, tags)
    PROVE  Intact(h)
<1> DEFINE joined(t) == IF t \in tags THEN [f.devices[t] EXCEPT !.groups = Append(@, g)]
                        ELSE f.devices[t]
           e == [t \in DOMAIN f.devices |-> joined(t)]
<1>1. PICK k \in AddGroup(f, g, parent) : h = [k EXCEPT !.devices = e]
    BY Zenon DEF CreateGroupWithDevices
<1>2. DOMAIN e = DOMAIN f.devices /\ \A t \in DOMAIN f.devices : e[t] = joined(t)
    BY Zenon
<1> HIDE DEF e
<1>3. Intact(k) /\ g \in DOMAIN k.groups /\ k.devices = f.devices
  <2>1. Intact(k) /\ DOMAIN k.groups = DOMAIN f.groups \cup {g} /\ k.devices = f.devices
    BY GroupAdded, Zenon
  <2> QED BY <2>1, Zenon
<1>4. ASSUME NEW t \in DOMAIN f.devices
      PROVE  "groups" \in DOMAIN joined(t) /\ joined(t).groups \in Seq(DOMAIN k.groups)
  <2>1. "groups" \in DOMAIN f.devices[t] /\ f.devices[t].groups \in Seq(DOMAIN k.groups)
    BY <1>3, IntactParts
  <2>2. Append(f.devices[t].groups, g) \in Seq(DOMAIN k.groups)
    BY <1>3, <2>1, Holds, Zenon
  <2> QED BY <2>1, <2>2
<1> HIDE DEF joined
<1> QED BY <1>1, <1>2, <1>3, <1>4, DevicesTouched

\* The group moves with all below it; the check on the new parent's ancestry is what
\* keeps it from moving under itself.
LEMMA GroupMoved ==
    ASSUME NEW f, Intact(f), NEW g, NEW parent, NEW h \in SetGroupParent(f, g, parent)
    PROVE  Intact(h)
<1>1. /\ g \in DOMAIN f.groups /\ parent \in DOMAIN f.groups \cup {""}
      /\ g \notin ToSet(GroupAncestry(f, parent))
      /\ h \in {[f EXCEPT !.groups[g].parent = parent]}
    BY Zenon DEF SetGroupParent
<1> DEFINE e == [f.groups EXCEPT ![g] = [@ EXCEPT !.parent = parent]]
<1>2. h = [f EXCEPT !.groups = e]
    BY <1>1
<1>3. Sound(f) /\ Forest(f) /\ SoundGroups(f)
    BY DEF Intact, Sound
<1>4. /\ DOMAIN e = DOMAIN f.groups
      /\ \A x \in DOMAIN f.groups : "parent" \in DOMAIN e[x]
      /\ e[g].parent = parent
      /\ \A x \in DOMAIN f.groups \ {g} : e[x].parent = f.groups[x].parent
    BY <1>1, IntactParts
<1> HIDE DEF e
<1>5. /\ DOMAIN h = DOMAIN f /\ h.groups = e /\ h.devices = f.devices /\ h.filters = f.filters
      /\ h.rings = f.rings /\ h.access = f.access /\ h.policies = f.policies
      /\ h.assignments = f.assignments
    BY <1>2, IntactParts
<1>6. SoundGroups(h)
    BY <1>1, <1>3, <1>4, <1>5, Zenon DEF SoundGroups
<1>7. h.assignments \in Seq(SoundBindings(h))
    BY <1>3, <1>4, <1>5, BindingsCarried DEF Sound
<1>8. Sound(h)
    BY <1>3, <1>4, <1>5, <1>6, <1>7, Carried DEF Sound
<1>9. Forest(h)
  <2>1. PICK d : Depths(DOMAIN f.groups, Parents(f), d)
    BY <1>3, ForestDepths
  <2>2. /\ \A x \in DOMAIN f.groups : Parents(f)[x] = f.groups[x].parent
        /\ \A x \in DOMAIN f.groups : Parents(h)[x] = e[x].parent
    BY <1>4, <1>5, Zenon DEF Parents
  <2>3. Parents(h)[g] = parent /\ \A x \in DOMAIN f.groups \ {g} : Parents(h)[x] = Parents(f)[x]
    BY <1>1, <1>4, <2>2, Zenon
  <2>4. CASE parent = ""
    <3>1. parent \notin DOMAIN f.groups
      BY <1>3, <2>4, Zenon DEF SoundGroups
    <3>2. Depths(DOMAIN f.groups, Parents(h), d)
      <4>1. ASSUME NEW x \in DOMAIN f.groups, Parents(h)[x] \in DOMAIN f.groups
            PROVE  d[Parents(h)[x]] < d[x]
        <5>1. Parents(h)[x] = Parents(f)[x]
          BY <2>3, <3>1, <4>1, Zenon
        <5> QED BY <2>1, <4>1, <5>1, Zenon DEF Depths
      <4> QED BY <2>1, <4>1, Zenon DEF Depths
    <3> QED BY <1>4, <1>5, <3>2, ForestDepths, Zenon
  <2>5. CASE parent \in DOMAIN f.groups
    <3> DEFINE A == ToSet(GroupAncestry(f, parent))
    <3>1. d \in [DOMAIN f.groups -> Nat] /\ Deeper(f, d)
      BY <2>1, ForestDepths, Zenon
    <3>2. /\ GroupAncestry(f, parent) \in Seq(DOMAIN f.groups) /\ parent \in A
          /\ \A x \in A : f.groups[x].parent \in A \/ f.groups[x].parent = ""
      BY <1>3, <2>5, <3>1, Ancestry, Zenon
    <3>3. A \subseteq DOMAIN f.groups
      BY <3>2, Holds, Zenon
    <3>4. \A x \in A : Parents(f)[x] \in DOMAIN f.groups => Parents(f)[x] \in A
      BY <1>3, <2>2, <3>2, <3>3, Zenon DEF SoundGroups
    <3> HIDE DEF A
    <3>5. g \notin A
      BY <1>1 DEF A
    <3>6. \E k : Depths(DOMAIN f.groups, Parents(h), k)
      BY <1>1, <2>1, <2>3, <2>5, <3>2, <3>3, <3>4, <3>5, ForestMoves, Zenon
    <3> QED BY <1>4, <1>5, <3>6, ForestDepths, Zenon
  <2> QED BY <1>1, <2>4, <2>5, Zenon
<1> QED BY <1>8, <1>9 DEF Intact

\* Every check of RemoveGroup keeps one part of the document sound.
LEMMA GroupRemoved ==
    ASSUME NEW f, Intact(f), NEW g, NEW h \in RemoveGroup(f, g)
    PROVE  Intact(h)
<1>1. /\ g \in DOMAIN f.groups /\ GroupChildren(f, g) = {} /\ GroupDevices(f, g) = {}
      /\ \A a \in ToSet(f.assignments) : a.target # GroupRef(g)
      /\ \A b \in f.access : b.scope # GroupRef(g)
      /\ \A id \in DOMAIN f.filters : \A r \in f.filters[id].rules :
            r.attr = "group" => g \notin r.values
      /\ \A r \in ToSet(f.rings) : r.group # g
      /\ h \in {[f EXCEPT !.groups = Without(@, g)]}
    BY Zenon DEF RemoveGroup
<1>2. Sound(f) /\ Forest(f) /\ SoundGroups(f)
    BY DEF Intact, Sound
<1>3. /\ DOMAIN h = DOMAIN f /\ h.groups = Without(f.groups, g) /\ h.devices = f.devices
      /\ h.filters = f.filters /\ h.rings = f.rings /\ h.access = f.access
      /\ h.policies = f.policies /\ h.assignments = f.assignments
    BY <1>1, IntactParts
<1>4. /\ DOMAIN h.groups = DOMAIN f.groups \ {g}
      /\ \A x \in DOMAIN h.groups : h.groups[x] = f.groups[x]
    BY <1>3, Zenon DEF Without
<1>5. \A x \in DOMAIN f.groups : f.groups[x].parent # g
    BY <1>1 DEF GroupChildren
<1>6. SoundGroups(h)
  <2>1. IsFiniteSet(DOMAIN f.groups \ {g})
    BY <1>2, FS_Subset DEF SoundGroups
  <2> QED BY <1>2, <1>4, <1>5, <2>1, Zenon DEF SoundGroups
<1>7. SoundDevices(h)
  <2> SUFFICES ASSUME NEW t \in DOMAIN f.devices
               PROVE  /\ "groups" \in DOMAIN f.devices[t]
                      /\ f.devices[t].groups \in Seq(DOMAIN h.groups)
    BY <1>3 DEF SoundDevices
  <2>1. "groups" \in DOMAIN f.devices[t] /\ f.devices[t].groups \in Seq(DOMAIN f.groups)
    BY IntactParts
  <2>2. g \notin ToSet(f.devices[t].groups)
    BY <1>1, Zenon DEF GroupDevices
  <2>3. ToSet(f.devices[t].groups) \subseteq DOMAIN h.groups
    <3>1. ToSet(f.devices[t].groups) \in SUBSET DOMAIN f.groups
      BY <2>1, Holds, Zenon
    <3> QED BY <1>4, <2>2, <3>1
  <2> QED BY <2>1, <2>3, SeqOver, Zenon
<1>8. h.assignments \in Seq(SoundBindings(h))
  <2>a. f.assignments \in Seq(SoundBindings(f))
    BY IntactParts
  <2>1. f.assignments \in Seq(SoundBindings(f)) /\ ToSet(f.assignments) \in SUBSET SoundBindings(f)
    BY <2>a, Holds, Zenon
  <2>2. ASSUME NEW a \in ToSet(f.assignments) PROVE a \in SoundBindings(h)
    <3>1. a \in SoundBindings(f) /\ a.target \in Refs(f) /\ a.target # GroupRef(g)
      BY <1>1, <2>1 DEF SoundBindings
    <3>2. a.target \in Refs(h)
      BY <1>3, <1>4, <3>1, Zenon DEF Refs
    <3> QED BY <1>3, <3>1, <3>2 DEF SoundBindings
  <2>3. ToSet(f.assignments) \subseteq SoundBindings(h)
    BY <2>2, Zenon
  <2> QED BY <1>3, <2>1, <2>3, SeqOver, Zenon
<1>9. SoundFilters(h)
    BY <1>1, <1>2, <1>3, <1>4 DEF Sound, SoundFilters
<1>10. SoundRings(h)
    BY <1>1, <1>2, <1>3, <1>4, Zenon DEF Sound, SoundRings
<1>11. SoundAccess(h)
  <2>1. \A b \in f.access : b.scope \in {Org} \cup {GroupRef(x) : x \in DOMAIN f.groups}
    BY <1>2, Zenon DEF Sound, SoundAccess
  <2>2. \A b \in f.access : b.scope \in {Org} \cup {GroupRef(x) : x \in DOMAIN h.groups}
    BY <1>1, <1>4, <2>1
  <2> QED BY <1>3, <2>2 DEF SoundAccess
<1>12. Sound(h)
    BY <1>2, <1>3, <1>6, <1>7, <1>8, <1>9, <1>10, <1>11, Zenon DEF Sound
<1>13. Forest(h)
  <2>1. PICK d : Depths(DOMAIN f.groups, Parents(f), d)
    BY <1>2, ForestDepths
  <2>2. \A x \in DOMAIN h.groups : Parents(h)[x] = Parents(f)[x]
    BY <1>4, Zenon DEF Parents
  <2>3. \E k : Depths(DOMAIN h.groups, Parents(h), k)
    BY <1>4, <2>1, <2>2, ForestShrinks, Zenon
  <2> QED BY <2>3, ForestDepths, Zenon
<1> QED BY <1>12, <1>13 DEF Intact

(***************************************************************************)
(* The mutations: policies, filters, assignments, profiles, hardware.      *)
(***************************************************************************)
\* A binding without what it need not name.
LEMMA BindingStays ==
    ASSUME NEW f, NEW a \in SoundBindings(f), NEW h, h.groups = f.groups, h.devices = f.devices,
           a.policy \in DOMAIN f.policies => \/ a.policy \in DOMAIN h.policies
                                             \/ a.policy \in DerivedPolicies,
           a.filter # "" => a.filter \in DOMAIN h.filters
    PROVE  a \in SoundBindings(h)
<1>1. Refs(h) = Refs(f)
    BY DEF Refs
<1>2. a.target \in Refs(h)
    BY <1>1 DEF SoundBindings
<1>3. /\ a.policy \in DOMAIN h.policies \cup DerivedPolicies
      /\ a.filter \in DOMAIN h.filters \cup {""}
    BY DEF SoundBindings
<1> QED BY <1>2, <1>3 DEF SoundBindings

\* A policy put: what bindings may name grows.
LEMMA PolicyPut ==
    ASSUME NEW f, Intact(f), NEW id, NEW p, NEW h \in PutPolicy(f, id, p)
    PROVE  Intact(h) /\ h.filters = f.filters /\ h.groups = f.groups
<1>1. h \in {[f EXCEPT !.policies = With(@, id, p)]}
    BY Zenon DEF PutPolicy
<1> DEFINE e == With(f.policies, id, p)
<1>2. DOMAIN f.policies \subseteq DOMAIN e
    BY DEF With
<1>3. h = [f EXCEPT !.policies = e]
    BY <1>1, IntactParts
<1> HIDE DEF e
<1>4. /\ DOMAIN h = DOMAIN f /\ h.groups = f.groups /\ h.devices = f.devices /\ h.filters = f.filters
      /\ h.rings = f.rings /\ h.access = f.access /\ h.policies = e
      /\ h.assignments = f.assignments
    BY <1>3, IntactParts
<1>5. h.assignments \in Seq(SoundBindings(h))
    BY <1>2, <1>4, BindingsCarried DEF Intact, Sound
<1>6. SoundFilters(h) /\ SoundRings(h) /\ SoundAccess(h)
    BY <1>4, Carried DEF Intact
<1> QED BY <1>4, <1>5, <1>6, RestTouched

\* A filter put: PutFilter has checked the groups it names.
LEMMA FilterPut ==
    ASSUME NEW f, Intact(f), NEW id, NEW fl, NEW h \in PutFilter(f, id, fl)
    PROVE  Intact(h)
<1>1. /\ \A r \in fl.rules : r.attr = "group" /\ r.op # "ne" => r.values \subseteq DOMAIN f.groups
      /\ h \in {[f EXCEPT !.filters = With(@, id, fl)]}
    BY Zenon DEF PutFilter
<1> DEFINE e == With(f.filters, id, fl)
<1>2. /\ DOMAIN f.filters \subseteq DOMAIN e
      /\ \A x \in DOMAIN e : x = id \/ (x \in DOMAIN f.filters /\ e[x] = f.filters[x])
    BY DEF With
<1>a. e[id] = fl
    BY DEF With
<1>3. h = [f EXCEPT !.filters = e]
    BY <1>1, IntactParts
<1> HIDE DEF e
<1>4. /\ DOMAIN h = DOMAIN f /\ h.groups = f.groups /\ h.devices = f.devices /\ h.filters = e
      /\ h.rings = f.rings /\ h.access = f.access /\ h.policies = f.policies
      /\ h.assignments = f.assignments
    BY <1>3, IntactParts
<1>5. h.assignments \in Seq(SoundBindings(h))
    BY <1>2, <1>4, BindingsCarried DEF Intact, Sound
<1>6. SoundRings(h) /\ SoundAccess(h)
    BY <1>4, Carried DEF Intact
<1>7. SoundFilters(h)
  <2> SUFFICES ASSUME NEW x \in DOMAIN e, NEW r \in e[x].rules, r.attr = "group" /\ r.op # "ne"
               PROVE  r.values \subseteq DOMAIN f.groups
    BY <1>4, Zenon DEF SoundFilters
  <2>1. CASE x = id
    BY <1>1, <1>a, <2>1, Zenon
  <2>2. CASE x \in DOMAIN f.filters /\ e[x] = f.filters[x]
    BY <2>2, Zenon DEF Intact, Sound, SoundFilters
  <2> QED BY <1>2, <2>1, <2>2
<1> QED BY <1>4, <1>5, <1>6, <1>7, RestTouched

\* Any change to the bindings alone.
LEMMA Rebound ==
    ASSUME NEW f, Intact(f), NEW s \in Seq(SoundBindings(f))
    PROVE  Intact([f EXCEPT !.assignments = s])
<1> DEFINE h == [f EXCEPT !.assignments = s]
<1>1. /\ DOMAIN h = DOMAIN f /\ h.groups = f.groups /\ h.devices = f.devices /\ h.filters = f.filters
      /\ h.rings = f.rings /\ h.access = f.access /\ h.policies = f.policies /\ h.assignments = s
    BY IntactParts
<1> HIDE DEF h
<1>2. h.assignments \in Seq(SoundBindings(h))
    BY <1>1, BindingsCarried DEF Intact
<1>3. SoundFilters(h) /\ SoundRings(h) /\ SoundAccess(h)
    BY <1>1, Carried DEF Intact
<1>4. Intact(h)
    BY <1>1, <1>2, <1>3, RestTouched
<1> QED BY <1>4 DEF h

\* A binding made: Assign has checked the three things it names.
LEMMA Assigned ==
    ASSUME NEW f, Intact(f), NEW a, IsRef(a.target),
           a \in [policy : {a.policy}, target : {a.target}, filter : {a.filter}, prio : Int],
           NEW h \in Assign(f, a)
    PROVE  Intact(h)
<1>1. /\ a.policy \in DOMAIN f.policies /\ validateTarget(f, a.target)
      /\ a.filter \in DOMAIN f.filters \cup {""}
      /\ h \in {[f EXCEPT !.assignments = Append(@, a)]}
    BY Zenon DEF Assign
<1>2. a.target \in Refs(f)
  <2>1. CASE a.target = Org
    BY <2>1 DEF Refs
  <2>2. CASE a.target = GroupRef(a.target[2])
    <3>1. a.target[1] = "group"
      BY <2>2 DEF GroupRef
    <3>2. a.target[2] \in DOMAIN f.groups
      BY <1>1, <3>1 DEF validateTarget
    <3> QED BY <2>2, <3>2 DEF Refs
  <2>3. CASE a.target = DeviceRef(a.target[2])
    <3>1. a.target[1] = "device"
      BY <2>3 DEF DeviceRef
    <3>2. a.target[2] \in DOMAIN f.devices
      BY <1>1, <3>1 DEF validateTarget
    <3> QED BY <2>3, <3>2 DEF Refs
  <2> QED BY <2>1, <2>2, <2>3 DEF IsRef
<1>3. a \in SoundBindings(f)
    BY <1>1, <1>2 DEF SoundBindings
<1>4. f.assignments \in Seq(SoundBindings(f))
    BY IntactParts
<1> DEFINE s == Append(f.assignments, a)
<1>5. s \in Seq(SoundBindings(f))
    BY <1>3, <1>4
<1>6. h = [f EXCEPT !.assignments = s]
    BY <1>1, IntactParts
<1> HIDE DEF s
<1> QED BY <1>5, <1>6, Rebound

\* A binding taken away.
LEMMA Unassigned ==
    ASSUME NEW f, Intact(f), NEW a, NEW h \in Unassign(f, a)
    PROVE  Intact(h)
<1> DEFINE gone == {x \in ToSet(f.assignments) : SameBinding(x, a)}
           s == Unbinding(f, gone)
<1>1. h \in {[f EXCEPT !.assignments = Unbinding(f, {x \in ToSet(@) : SameBinding(x, a)})]}
    BY Zenon DEF Unassign
<1>2. h = [f EXCEPT !.assignments = s]
    BY <1>1, IntactParts
<1>3. s \in Seq(SoundBindings(f))
    BY Unbinds
<1> HIDE DEF s
<1> QED BY <1>2, <1>3, Rebound

\* A policy goes, and a filter: no binding that is left names it.
LEMMA BooksRemoved ==
    ASSUME NEW f, Intact(f), NEW h, DOMAIN h = DOMAIN f, h.groups = f.groups, h.devices = f.devices,
           h.rings = f.rings, h.access = f.access,
           DOMAIN h.filters \subseteq DOMAIN f.filters,
           \A id \in DOMAIN h.filters : h.filters[id] = f.filters[id],
           h.assignments \in Seq(SoundBindings(f)),
           \A a \in ToSet(h.assignments) :
                /\ a.policy \in DOMAIN f.policies => \/ a.policy \in DOMAIN h.policies
                                                     \/ a.policy \in DerivedPolicies
                /\ a.filter # "" => a.filter \in DOMAIN h.filters
    PROVE  Intact(h)
<1>1. ToSet(h.assignments) \in SUBSET SoundBindings(f)
    BY Holds, Zenon
<1>2. \A a \in ToSet(h.assignments) : a \in SoundBindings(h)
    BY <1>1, BindingStays
<1>3. h.assignments \in Seq(SoundBindings(h))
    BY <1>2, SeqOver
<1>4. SoundRings(h) /\ SoundAccess(h)
    BY Carried DEF Intact
<1>5. SoundFilters(h)
    BY Zenon DEF Intact, Sound, SoundFilters
<1> QED BY <1>3, <1>4, <1>5, RestTouched

\* A policy deleted: DeletePolicy has checked that nothing binds it.
LEMMA PolicyDeleted ==
    ASSUME NEW f, Intact(f), NEW id, NEW h \in DeletePolicy(f, id)
    PROVE  Intact(h)
<1>1. /\ \A a \in ToSet(f.assignments) : a.policy # id
      /\ h \in {[f EXCEPT !.policies = Without(@, id)]}
    BY Zenon DEF DeletePolicy
<1>2. /\ DOMAIN h = DOMAIN f /\ h.groups = f.groups /\ h.devices = f.devices /\ h.filters = f.filters
      /\ h.rings = f.rings /\ h.access = f.access /\ h.policies = Without(f.policies, id)
      /\ h.assignments = f.assignments
    BY <1>1, IntactParts
<1>3. DOMAIN h.policies = DOMAIN f.policies \ {id}
    BY <1>2 DEF Without
<1>4. f.assignments \in Seq(SoundBindings(f))
    BY IntactParts
<1>5. ToSet(f.assignments) \in SUBSET SoundBindings(f)
    BY <1>4, Holds, Zenon
<1>6. \A a \in ToSet(f.assignments) : a.filter # "" => a.filter \in DOMAIN f.filters
    BY <1>5 DEF SoundBindings
<1> QED BY <1>1, <1>2, <1>3, <1>4, <1>6, BooksRemoved

\* A filter deleted: DeleteFilter has checked that nothing names it.
LEMMA FilterDeleted ==
    ASSUME NEW f, Intact(f), NEW id, NEW h \in DeleteFilter(f, id)
    PROVE  Intact(h)
<1>1. /\ \A a \in ToSet(f.assignments) : a.filter # id
      /\ h \in {[f EXCEPT !.filters = Without(@, id)]}
    BY Zenon DEF DeleteFilter
<1>2. /\ DOMAIN h = DOMAIN f /\ h.groups = f.groups /\ h.devices = f.devices
      /\ h.filters = Without(f.filters, id)
      /\ h.rings = f.rings /\ h.access = f.access /\ h.policies = f.policies
      /\ h.assignments = f.assignments
    BY <1>1, IntactParts
<1>3. /\ DOMAIN h.filters = DOMAIN f.filters \ {id}
      /\ \A x \in DOMAIN h.filters : h.filters[x] = f.filters[x]
    BY <1>2 DEF Without
<1>4. f.assignments \in Seq(SoundBindings(f))
    BY IntactParts
<1>5. ToSet(f.assignments) \in SUBSET SoundBindings(f)
    BY <1>4, Holds, Zenon
<1>6. \A a \in ToSet(f.assignments) : a.filter # "" => a.filter \in DOMAIN f.filters
    BY <1>5 DEF SoundBindings
<1> QED BY <1>1, <1>2, <1>3, <1>4, <1>6, BooksRemoved

\* The filter a profile or a hardware model derives.
LEMMA FilterEnsured ==
    ASSUME NEW f, Intact(f), NEW id, NEW fl, NEW h \in EnsureFilter(f, id, fl)
    PROVE  Intact(h)
<1>1. h \in PutFilter(f, id, fl) \/ h \in {f}
    BY Zenon DEF EnsureFilter
<1> QED BY <1>1, FilterPut

\* A profile: the policy, the filter and the binding, and the bindings it replaces.
LEMMA ProfileApplied ==
    ASSUME NEW f, Intact(f), NEW pr, NEW h \in ApplyProfile(f, pr)
    PROVE  Intact(h)
<1> DEFINE pol == [set |-> pr.set, enf |-> FALSE, profile |-> TRUE]
           bind == [policy |-> pr.name, target |-> Org, filter |-> pr.filter, prio |-> 0]
           stale(a) == /\ a.policy = pr.name /\ a.target = Org
                       /\ a.filter # pr.filter /\ a.filter \in ClassFilters
           kept(k) == [k EXCEPT !.assignments = Unbinding(k, {a \in ToSet(@) : stale(a)})]
           mine == pr.name \notin DOMAIN f.policies \/ f.policies[pr.name].profile
           bound(k) == IF \E a \in ToSet(kept(k).assignments) : SameBinding(a, bind)
                       THEN {kept(k)} ELSE Assign(kept(k), bind)
           ensured(j) == EnsureFilter(j, pr.filter, Selecting("class", pr.class))
<1>b. h \in UNION {bound(k) : k \in UNION {ensured(j) : j \in IF mine THEN PutPolicy(f, pr.name, pol) ELSE {}}}
    BY Zenon DEF ApplyProfile
<1>c. \A k : h \in bound(k) => h = kept(k) \/ h \in Assign(kept(k), bind)
    BY Zenon
<1>d. \E j \in PutPolicy(f, pr.name, pol) : \E k \in ensured(j) : h \in bound(k)
  <2> HIDE DEF bound, ensured, mine, pol
  <2> QED BY <1>b
<1>a. PICK j \in PutPolicy(f, pr.name, pol) :
        \E k \in EnsureFilter(j, pr.filter, Selecting("class", pr.class)) :
            h = kept(k) \/ h \in Assign(kept(k), bind)
    BY <1>c, <1>d, Zenon
<1>1. PICK k \in EnsureFilter(j, pr.filter, Selecting("class", pr.class)) :
        h = kept(k) \/ h \in Assign(kept(k), bind)
    BY <1>a
<1>2. Intact(j)
    BY PolicyPut
<1>3. Intact(k)
    BY <1>2, FilterEnsured
<1>4. Intact(kept(k))
  <2> DEFINE s == Unbinding(k, {a \in ToSet(k.assignments) : stale(a)})
  <2>1. kept(k) = [k EXCEPT !.assignments = s]
    BY <1>3, IntactParts
  <2>2. s \in Seq(SoundBindings(k))
    BY <1>3, Unbinds
  <2> HIDE DEF s, kept
  <2> QED BY <1>3, <2>1, <2>2, Rebound
<1> HIDE DEF kept
<1>5. /\ IsRef(bind.target)
      /\ bind \in [policy : {bind.policy}, target : {bind.target}, filter : {bind.filter}, prio : Int]
    BY DEF IsRef
<1> HIDE DEF bind
<1>6. h \in Assign(kept(k), bind) => Intact(h)
    BY <1>4, <1>5, Assigned
<1> QED BY <1>1, <1>4, <1>6

\* A hardware model configured, or cleared: its filter stays as long as a binding is left that
\* names it.
LEMMA HardwareConfigured ==
    ASSUME NEW f, Intact(f), NEW hw \in DOMAIN HardwarePolicies, NEW v, NEW enf,
           NEW h \in ConfigureHardware(f, hw, Org, v, enf)
    PROVE  Intact(h)
<1> DEFINE ids == HardwarePolicies[hw]
           pol == [set |-> v, enf |-> enf, profile |-> FALSE]
           bind == [policy |-> ids.policy, target |-> Org, filter |-> ids.filter, prio |-> 0]
           cleared(k) == [k EXCEPT !.assignments = Unbound(k, ids)]
<1>1. \/ h \in unconfigureHardware(f, ids)
      \/ \E j \in EnsureFilter(f, ids.filter, Selecting("hardware", hw)) :
            \E k \in PutPolicy(j, ids.policy, pol) : h \in Assign(cleared(k), bind)
    BY DEF ConfigureHardware
<1>2. ASSUME NEW k, Intact(k)
      PROVE  /\ Unbound(k, ids) \in Seq(SoundBindings(k))
             /\ ToSet(Unbound(k, ids)) \subseteq ToSet(k.assignments)
    BY <1>2, Unbinds DEF Unbound
<1>3. ASSUME NEW j \in EnsureFilter(f, ids.filter, Selecting("hardware", hw)),
             NEW k \in PutPolicy(j, ids.policy, pol), h \in Assign(cleared(k), bind)
      PROVE  Intact(h)
  <2>1. Intact(k)
    BY FilterEnsured, PolicyPut
  <2>2. Intact(cleared(k))
    BY <1>2, <2>1, Rebound
  <2>3. /\ IsRef(bind.target)
        /\ bind \in [policy : {bind.policy}, target : {bind.target}, filter : {bind.filter}, prio : Int]
    BY DEF IsRef
  <2> HIDE DEF bind, cleared
  <2> QED BY <1>3, <2>2, <2>3, Assigned
<1>4. ASSUME h \in unconfigureHardware(f, ids) PROVE Intact(h)
  <2> DEFINE left == Unbound(f, ids)
             fs == IF \E a \in ToSet(left) : a.filter = ids.filter
                   THEN f.filters ELSE Without(f.filters, ids.filter)
  <2>1. h = [f EXCEPT !.assignments = left, !.policies = Without(f.policies, ids.policy), !.filters = fs]
    BY <1>4, IntactParts DEF unconfigureHardware
  <2>2. left \in Seq(SoundBindings(f))
    BY <1>2
  <2>3. \A a \in ToSet(left) : a.filter # "" => a.filter \in DOMAIN f.filters
    <3>1. ToSet(left) \in SUBSET SoundBindings(f)
      BY <2>2, Holds, Zenon
    <3> QED BY <3>1 DEF SoundBindings
  <2>4. /\ DOMAIN fs \subseteq DOMAIN f.filters
        /\ \A id \in DOMAIN fs : fs[id] = f.filters[id]
        /\ \A a \in ToSet(left) : a.filter # "" => a.filter \in DOMAIN fs
    BY <2>3 DEF Without
  <2> HIDE DEF left, fs
  <2>5. /\ DOMAIN h = DOMAIN f /\ h.groups = f.groups /\ h.devices = f.devices /\ h.filters = fs
        /\ h.rings = f.rings /\ h.access = f.access /\ h.policies = Without(f.policies, ids.policy)
        /\ h.assignments = left
    BY <2>1, IntactParts
  <2>6. DOMAIN h.policies = DOMAIN f.policies \ {ids.policy}
    BY <2>5 DEF Without
  <2>7. \A a \in ToSet(h.assignments) :
            /\ a.policy \in DOMAIN f.policies => \/ a.policy \in DOMAIN h.policies
                                                 \/ a.policy \in DerivedPolicies
            /\ a.filter # "" => a.filter \in DOMAIN h.filters
    BY <2>4, <2>5, <2>6 DEF DerivedPolicies
  <2> QED BY <2>2, <2>4, <2>5, <2>7, BooksRemoved
<1> QED BY <1>1, <1>3, <1>4

(***************************************************************************)
(* The mutations: the rollout plan, access, governance.                    *)
(***************************************************************************)
\* A plan: SetRolloutPlan has checked the groups of its waves.
LEMMA PlanSet ==
    ASSUME NEW f, Intact(f), NEW rings, NEW h \in SetRolloutPlan(f, rings)
    PROVE  Intact(h)
<1>1. /\ \A i \in DOMAIN rings : GroupList(rings[i]) \subseteq DOMAIN f.groups
      /\ h \in {[f EXCEPT !.rings = rings]}
    BY Zenon DEF SetRolloutPlan
<1>2. /\ DOMAIN h = DOMAIN f /\ h.groups = f.groups /\ h.devices = f.devices /\ h.filters = f.filters
      /\ h.rings = rings /\ h.access = f.access /\ h.policies = f.policies
      /\ h.assignments = f.assignments
    BY <1>1, IntactParts
<1>3. h.assignments \in Seq(SoundBindings(h))
    BY <1>2, BindingsCarried DEF Intact, Sound
<1>4. SoundFilters(h) /\ SoundAccess(h)
    BY <1>2, Carried DEF Intact
<1>5. SoundRings(h)
  <2> SUFFICES ASSUME NEW i \in DOMAIN rings
               PROVE  rings[i].groups = <<>> => rings[i].group \in DOMAIN f.groups \cup {""}
    BY <1>2 DEF SoundRings, ToSet
  <2>1. CASE rings[i].groups = <<>>
    <3>1. {rings[i].group} \ {""} \subseteq DOMAIN f.groups
      BY <1>1, <2>1 DEF GroupList
    <3> QED BY <3>1
  <2> QED BY <2>1
<1> QED BY <1>2, <1>3, <1>4, <1>5, RestTouched

\* Grants, revocations, assurance.
LEMMA AccessChanged ==
    ASSUME NEW f, Intact(f)
    PROVE  /\ \A b : IsRef(b.scope) => \A h \in Grant(f, b) : Intact(h)
           /\ \A who, scope : \A h \in Revoke(f, who, scope) : Intact(h)
           /\ \A on : \A h \in SetAssurance(f, on) : Intact(h)
<1>1. ASSUME NEW e, \A b \in e : b \in f.access \/ b.scope \in {Org} \cup {GroupRef(g) : g \in DOMAIN f.groups}
      PROVE  Intact([f EXCEPT !.access = e])
  <2> DEFINE h == [f EXCEPT !.access = e]
  <2>1. /\ DOMAIN h = DOMAIN f /\ h.groups = f.groups /\ h.devices = f.devices /\ h.filters = f.filters
        /\ h.rings = f.rings /\ h.access = e /\ h.policies = f.policies
        /\ h.assignments = f.assignments
    BY IntactParts
  <2> HIDE DEF h
  <2>2. h.assignments \in Seq(SoundBindings(h))
    BY <2>1, BindingsCarried DEF Intact, Sound
  <2>3. SoundFilters(h) /\ SoundRings(h)
    BY <2>1, Carried DEF Intact
  <2>4. SoundAccess(h)
    BY <1>1, <2>1, IntactParts DEF SoundAccess
  <2>5. Intact(h)
    BY <2>1, <2>2, <2>3, <2>4, RestTouched
  <2> QED BY <2>5 DEF h
<1>2. ASSUME NEW b, IsRef(b.scope), NEW h \in Grant(f, b) PROVE Intact(h)
  <2> DEFINE e == {x \in f.access : ~(x.who = b.who /\ x.scope = b.scope)} \cup {b}
  <2>1. /\ b.scope = Org \/ (b.scope[1] = "group" /\ b.scope[2] \in DOMAIN f.groups)
        /\ h \in {[f EXCEPT !.access = {x \in @ : ~(x.who = b.who /\ x.scope = b.scope)} \cup {b}]}
    BY <1>2, Zenon DEF Grant
  <2>2. h = [f EXCEPT !.access = e]
    BY <2>1, IntactParts
  <2>3. b.scope \in {Org} \cup {GroupRef(g) : g \in DOMAIN f.groups}
    <3>1. CASE b.scope = DeviceRef(b.scope[2])
      <4>1. b.scope # Org /\ b.scope[1] # "group"
        BY <3>1 DEF DeviceRef, Org
      <4> QED BY <2>1, <4>1
    <3>2. CASE b.scope = GroupRef(b.scope[2])
      <4>1. b.scope # Org
        BY <3>2 DEF GroupRef, Org
      <4> QED BY <2>1, <3>2, <4>1
    <3> QED BY <1>2, <3>1, <3>2 DEF IsRef
  <2>4. \A x \in e : x \in f.access \/ x.scope \in {Org} \cup {GroupRef(g) : g \in DOMAIN f.groups}
    BY <2>3, Zenon
  <2> HIDE DEF e
  <2> QED BY <1>1, <2>2, <2>4
<1>3. ASSUME NEW who, NEW scope, NEW h \in Revoke(f, who, scope) PROVE Intact(h)
  <2> DEFINE e == {x \in f.access : ~(x.who = who /\ x.scope = scope)}
  <2>1. h \in {[f EXCEPT !.access = {x \in @ : ~(x.who = who /\ x.scope = scope)}]}
    BY <1>3, Zenon DEF Revoke
  <2>2. h = [f EXCEPT !.access = e]
    BY <2>1, IntactParts
  <2>3. \A x \in e : x \in f.access
    OBVIOUS
  <2> HIDE DEF e
  <2> QED BY <1>1, <2>2, <2>3
<1>4. ASSUME NEW on, NEW h \in SetAssurance(f, on) PROVE Intact(h)
  <2>1. h = [f EXCEPT !.assurance = on]
    BY <1>4 DEF SetAssurance
  <2>2. /\ DOMAIN h = DOMAIN f /\ h.groups = f.groups /\ h.devices = f.devices /\ h.filters = f.filters
        /\ h.rings = f.rings /\ h.access = f.access /\ h.policies = f.policies
        /\ h.assignments = f.assignments
    BY <2>1, IntactParts
  <2>3. h.assignments \in Seq(SoundBindings(h))
    BY <2>2, BindingsCarried DEF Intact, Sound
  <2>4. SoundFilters(h) /\ SoundRings(h) /\ SoundAccess(h)
    BY <2>2, Carried DEF Intact
  <2> QED BY <2>2, <2>3, <2>4, RestTouched
<1> QED BY <1>2, <1>3, <1>4

(***************************************************************************)
(* The writes.                                                             *)
(***************************************************************************)
\* The committed document, and the one the lock's holder is about to commit.
DocInv == Intact(fdoc) /\ (tx # NoTx => Intact(tx.doc))

\* A write begins: whatever hosts it sends to the gate, the document it holds is one
\* the mutation made of the committed one.
LEMMA Written ==
    ASSUME DocInv, NEW results, \A h \in results : Intact(h)
    PROVE  /\ \A hosts : Apply(hosts, results) => DocInv'
           /\ ApplyStructural(results) => DocInv'
           /\ \A ref : ApplyAt(ref, results) => DocInv'
<1>1. ASSUME NEW gate, NEW hosts, NEW late, Begin(gate, hosts, results, late) PROVE DocInv'
  <2>1. PICK f \in results : tx' = [gate |-> gate, hosts |-> hosts, doc |-> f, late |-> late]
    BY <1>1, Zenon DEF Begin
  <2>2. fdoc' = fdoc
    BY <1>1, Zenon DEF Begin
  <2>3. tx'.doc = f
    BY <2>1
  <2> QED BY <2>2, <2>3 DEF DocInv
<1> QED BY <1>1, Zenon DEF Apply, ApplyStructural, ApplyAt

\* The settings handlers.
LEMMA SettingsWritten ==
    ASSUME DocInv, SettingWrites PROVE DocInv'
<1>1. Intact(fdoc)
    BY DEF DocInv
<1>2. ASSUME NEW ref, NEW v, NEW on, SetSetting(ref, v, on) PROVE DocInv'
  <2> DEFINE results == UNION {SetScopeEnforce(f, ref, on) : f \in SetScopeSetting(fdoc, ref, v)}
  <2>1. \A h \in results : Intact(h)
    BY <1>1, ScopeEdited
  <2>2. ApplyAt(ref, results)
    BY <1>2, Zenon DEF SetSetting
  <2> HIDE DEF results
  <2> QED BY <2>1, <2>2, Written
<1>3. ASSUME NEW ref, ClearSetting(ref) PROVE DocInv'
  <2>1. \A h \in ClearScopeSetting(fdoc, ref) : Intact(h)
    BY <1>1, ScopeEdited
  <2> QED BY <1>3, <2>1, Written DEF ClearSetting
<1>4. ASSUME NEW t, NEW v, postDeviceSetting(t, v) PROVE DocInv'
  <2>1. \A h \in SetScopeSetting(fdoc, DeviceRef(t), v) : Intact(h)
    BY <1>1, ScopeEdited
  <2> QED BY <1>4, <2>1, Written DEF postDeviceSetting
<1>5. ASSUME NEW ref, NEW names, putApps(ref, names) PROVE DocInv'
  <2>1. \A h \in SetScopeApps(fdoc, ref, names) : Intact(h)
    BY <1>1, ScopeEdited
  <2> QED BY <1>5, <2>1, Written DEF putApps
<1> QED BY <1>2, <1>3, <1>4, <1>5, Zenon DEF SettingWrites

\* The device handlers, the first report, the release and the reaper.
LEMMA DevicesWritten ==
    ASSUME DocInv, DeviceWrites PROVE DocInv'
<1>1. Intact(fdoc)
    BY DEF DocInv
<1>2. ASSUME NEW class, NEW g, postDevice("hwA", class, <<g>>) PROVE DocInv'
  <2>1. \A h \in AddDevice(fdoc, FreshTag, NewDevice("hwA", class, <<g>>)) : Intact(h)
    BY <1>1, DeviceAdded
  <2> QED BY <1>2, <2>1, Written DEF postDevice
<1>3. ASSUME NEW t, NEW hw, NEW class, NEW groups, NEW U, groups \in Seq(U),
             patchDevice(t, hw, class, groups)
      PROVE  DocInv'
  <2>1. \A h \in UpdateDevice(fdoc, t, hw, class, groups) : Intact(h)
    BY <1>1, <1>3, DeviceUpdated
  <2> QED BY <1>3, <2>1, Written DEF patchDevice
<1>4. ASSUME NEW t, deleteDevice(t) \/ postDeviceRemove(t) PROVE DocInv'
  <2>1. \A h \in RemoveDevice(fdoc, t) : Intact(h)
    BY <1>1, DeviceRemoved
  <2> QED BY <1>4, <2>1, Written DEF deleteDevice, postDeviceRemove
<1>5. ASSUME NEW t, apiRetire(t) \/ postDeviceRetire(t) PROVE DocInv'
  <2>1. \A h \in RetireDevice(fdoc, t) : Intact(h)
    BY <1>1, DeviceStates
  <2> QED BY <1>5, <2>1, Written DEF apiRetire, postDeviceRetire
<1>6. ASSUME NEW t, postDeviceReactivate(t) PROVE DocInv'
  <2>1. \A h \in ReactivateDevice(fdoc, t) : Intact(h)
    BY <1>1, DeviceStates
  <2> QED BY <1>6, <2>1, Written DEF postDeviceReactivate
<1>7. ASSUME NEW t, FirstReport(t) PROVE DocInv'
  <2>1. \A h \in ActivateProvisional(fdoc, t) : Intact(h)
    BY <1>1, DeviceStates
  <2> QED BY <1>7, <2>1, Written DEF FirstReport
<1>8. ASSUME NEW t, NEW g, ReleaseDevice(t, g) PROVE DocInv'
  <2>1. \A h \in SetDevicePin(fdoc, t, g) : Intact(h)
    BY <1>1, DeviceStates
  <2>2. Apply({t}, SetDevicePin(fdoc, t, g))
    BY <1>8, Zenon DEF ReleaseDevice
  <2> QED BY <2>1, <2>2, Written
<1>9. ASSUME ReapAbandonedEnrolments PROVE DocInv'
  <2> DEFINE reaped(stale) == [fdoc EXCEPT
                    !.devices = [t \in DOMAIN @ \ stale |-> @[t]],
                    !.assignments = Unbinding(fdoc, {a \in ToSet(@) : a.target \in {DeviceRef(t) : t \in stale}})]
  <2>1. PICK stale : Apply({}, {reaped(stale)})
    BY <1>9, Zenon DEF ReapAbandonedEnrolments
  <2>2. Intact(reaped(stale))
    BY <1>1, Reaped, Zenon
  <2> HIDE DEF reaped
  <2>3. \A h \in {reaped(stale)} : Intact(h)
    BY <2>2
  <2> QED BY <2>1, <2>3, Written
<1>10. ASSUME NEW t \in DOMAIN fdoc.devices, NEW d, d = fdoc.devices[t],
              \/ \E class \in Classes : patchDevice(t, d.hw, class, d.groups)
              \/ \E g \in EditGroups : patchDevice(t, d.hw, d.class, Append(d.groups, g))
              \/ patchDevice(t, d.hw, d.class, <<>>)
              \/ patchDevice(t, "hwA", d.class, d.groups)
       PROVE  DocInv'
  <2>1. d.groups \in Seq(DOMAIN fdoc.groups)
    BY <1>1, <1>10, IntactParts
  <2>2. \A g : Append(d.groups, g) \in Seq(DOMAIN fdoc.groups \cup {g})
    <3> SUFFICES ASSUME NEW g PROVE Append(d.groups, g) \in Seq(DOMAIN fdoc.groups \cup {g})
      OBVIOUS
    <3>1. d.groups \in Seq(DOMAIN fdoc.groups \cup {g})
      BY <2>1
    <3> QED BY <3>1
  <2>3. <<>> \in Seq({})
    OBVIOUS
  <2> QED BY <1>3, <1>10, <2>1, <2>2, <2>3, Zenon
<1> QED BY <1>2, <1>4, <1>5, <1>6, <1>7, <1>8, <1>9, <1>10, Zenon DEF DeviceWrites

\* The group handlers and the rollout's pin.
LEMMA GroupsWritten ==
    ASSUME DocInv, GroupWrites PROVE DocInv'
<1>1. Intact(fdoc)
    BY DEF DocInv
<1>2. ASSUME NEW parent, postGroup(parent) \/ postGroupAdd(parent) PROVE DocInv'
  <2>1. \A h \in AddGroup(fdoc, FreshGroup, parent) : Intact(h)
    BY <1>1, WriteAssumption, GroupAdded, Zenon
  <2> QED BY <1>2, <2>1, Written DEF postGroup, postGroupAdd
<1>3. ASSUME NEW g, deleteGroup(g) \/ postGroupRemove(g) PROVE DocInv'
  <2>1. \A h \in RemoveGroup(fdoc, g) : Intact(h)
    BY <1>1, GroupRemoved
  <2> QED BY <1>3, <2>1, Written DEF deleteGroup, postGroupRemove
<1>4. ASSUME NEW g, NEW parent, patchGroup(g, parent) PROVE DocInv'
  <2>1. \A h \in SetGroupParent(fdoc, g, parent) : Intact(h)
    BY <1>1, GroupMoved
  <2> QED BY <1>4, <2>1, Written DEF patchGroup
<1>5. ASSUME NEW g, NEW classes, postGroupAllowed(g, classes) PROVE DocInv'
  <2>1. \A h \in SetGroupAllowedClasses(fdoc, g, classes) : Intact(h)
    BY <1>1, GroupEdited
  <2> QED BY <1>5, <2>1, Written DEF postGroupAllowed
<1>6. ASSUME NEW g, postGroupUnpin(g) \/ PinRing(g, "rev") PROVE DocInv'
  <2>1. \A v : \A h \in SetGroupPin(fdoc, g, v) : Intact(h)
    BY <1>1, GroupEdited
  <2>2. CASE postGroupUnpin(g)
    BY <2>1, <2>2, Written, Zenon DEF postGroupUnpin
  <2>3. CASE PinRing(g, "rev")
    BY <2>1, <2>3, Written, Zenon DEF PinRing
  <2> QED BY <1>6, <2>2, <2>3
<1>7. ASSUME NEW tags, postDevicesGroupCreate("", tags) PROVE DocInv'
  <2>1. \A h \in CreateGroupWithDevices(fdoc, FreshGroup, "", tags) : Intact(h)
    BY <1>1, WriteAssumption, GroupCreated, Zenon
  <2> QED BY <1>7, <2>1, Written, Zenon DEF postDevicesGroupCreate
<1> QED BY <1>2, <1>3, <1>4, <1>5, <1>6, <1>7, Zenon DEF GroupWrites

\* The handlers of policies, filters, bindings, profiles and hardware.
LEMMA PoliciesWritten ==
    ASSUME DocInv, PolicyWrites PROVE DocInv'
<1>1. Intact(fdoc)
    BY DEF DocInv
<1>2. ASSUME NEW id, NEW p, putPolicy(id, p) \/ postPolicyPut(id, p) PROVE DocInv'
  <2>1. \A q : \A h \in PutPolicy(fdoc, id, q) : Intact(h)
    BY <1>1, PolicyPut
  <2>2. \E q : Apply({}, PutPolicy(fdoc, id, q))
    BY <1>2, Zenon DEF putPolicy, postPolicyPut
  <2> QED BY <2>1, <2>2, Written, Zenon
<1>3. ASSUME NEW id, deletePolicy(id) PROVE DocInv'
  <2>1. \A h \in DeletePolicy(fdoc, id) : Intact(h)
    BY <1>1, PolicyDeleted
  <2> QED BY <1>3, <2>1, Written DEF deletePolicy
<1>4. ASSUME NEW pr, postProfileApply(pr) PROVE DocInv'
  <2>1. \A h \in ApplyProfile(fdoc, pr) : Intact(h)
    BY <1>1, ProfileApplied
  <2> QED BY <1>4, <2>1, Written DEF postProfileApply
<1>5. ASSUME NEW id, NEW fl, putFilter(id, fl) PROVE DocInv'
  <2>1. \A h \in PutFilter(fdoc, id, fl) : Intact(h)
    BY <1>1, FilterPut
  <2> QED BY <1>5, <2>1, Written DEF putFilter
<1>6. ASSUME NEW id, deleteFilter(id) PROVE DocInv'
  <2>1. \A h \in DeleteFilter(fdoc, id) : Intact(h)
    BY <1>1, FilterDeleted
  <2> QED BY <1>6, <2>1, Written DEF deleteFilter
<1>7. ASSUME NEW a \in Bindings, postAssignment(a) PROVE DocInv'
  <2>1. IsRef(a.target) /\ a \in [policy : {a.policy}, target : {a.target}, filter : {a.filter}, prio : Int]
    BY WriteAssumption, Zenon
  <2>2. \A h \in Assign(fdoc, a) : Intact(h)
    BY <1>1, <2>1, Assigned
  <2> QED BY <1>7, <2>2, Written DEF postAssignment
<1>8. ASSUME NEW a, deleteAssignment(a) PROVE DocInv'
  <2>1. \A h \in Unassign(fdoc, a) : Intact(h)
    BY <1>1, Unassigned
  <2> QED BY <1>8, <2>1, Written DEF deleteAssignment
<1>9. ASSUME NEW hw \in DOMAIN HardwarePolicies, NEW v, postHardwareConfigure(hw, Org, v, FALSE) PROVE DocInv'
  <2>1. \A h \in ConfigureHardware(fdoc, hw, Org, v, FALSE) : Intact(h)
    BY <1>1, HardwareConfigured
  <2> QED BY <1>9, <2>1, Written DEF postHardwareConfigure
<1> QED BY <1>2, <1>3, <1>4, <1>5, <1>6, <1>7, <1>8, <1>9, Zenon DEF PolicyWrites

\* The handlers of the plan, of access and of assurance.
LEMMA GovernanceWritten ==
    ASSUME DocInv, GovernanceWrites PROVE DocInv'
<1>1. Intact(fdoc)
    BY DEF DocInv
<1>2. ASSUME NEW rings \in Plans, putRolloutPlan(rings) PROVE DocInv'
  <2>2. \A h \in SetRolloutPlan(fdoc, rings) : Intact(h)
    BY <1>1, PlanSet
  <2> QED BY <1>2, <2>2, Written DEF putRolloutPlan
<1>3. ASSUME NEW test, NEW percents \in Ladders, postUpdatesPolicy(test, percents) PROVE DocInv'
  <2>a. PICK s \in Seen : \E p \in parsePercents(percents) :
            Apply({}, SetRolloutPlan(fdoc, derivePlan(s, test, p)))
    BY <1>3, Zenon DEF postUpdatesPolicy
  <2>1. PICK p \in parsePercents(percents) : Apply({}, SetRolloutPlan(fdoc, derivePlan(s, test, p)))
    BY <2>a, Zenon
  <2>4. \A h \in SetRolloutPlan(fdoc, derivePlan(s, test, p)) : Intact(h)
    BY <1>1, PlanSet, Zenon
  <2> QED BY <2>1, <2>4, Written, Zenon
<1>4. ASSUME NEW b \in AccessGrants, postAccess(b) \/ postAccessGrant(b) PROVE DocInv'
  <2>1. \A h \in Grant(fdoc, b) : Intact(h)
    BY <1>1, WriteAssumption, AccessChanged, Zenon
  <2> QED BY <1>4, <2>1, Written DEF postAccess, postAccessGrant
<1>5. ASSUME NEW b, deleteAccess(b) \/ postAccessRevoke(b) PROVE DocInv'
  <2>1. \A h \in Revoke(fdoc, b.who, b.scope) : Intact(h)
    BY <1>1, AccessChanged
  <2> QED BY <1>5, <2>1, Written DEF deleteAccess, postAccessRevoke
<1>6. ASSUME NEW on, putAssurance(on) \/ postAssurance(on) PROVE DocInv'
  <2>1. \A h \in SetAssurance(fdoc, on) : Intact(h)
    BY <1>1, AccessChanged
  <2> QED BY <1>6, <2>1, Written DEF putAssurance, postAssurance
<1> QED BY <1>2, <1>3, <1>4, <1>5, <1>6, Zenon DEF GovernanceWrites

\* Every write, the commit and the refusal keep both documents sound.
LEMMA DocStep ==
    ASSUME DocInv, [DocNext]_docVars PROVE DocInv'
<1>1. CASE UNCHANGED docVars
    BY <1>1 DEF DocInv, docVars
<1>2. CASE CoreBump
    BY <1>2 DEF CoreBump, DocInv
<1>3. CASE applyTx
  <2>1. tx # NoTx /\ fdoc' = tx.doc /\ tx' = NoTx
    BY <1>3, Zenon DEF applyTx
  <2> QED BY <2>1 DEF DocInv
<1>4. CASE Refused
  <2>1. fdoc' = fdoc /\ tx' = NoTx
    BY <1>4, Zenon DEF Refused
  <2> QED BY <2>1 DEF DocInv
<1> QED BY <1>1, <1>2, <1>3, <1>4, SettingsWritten, DevicesWritten, GroupsWritten,
           PoliciesWritten, GovernanceWritten, Zenon DEF DocNext

\* A target the document holds passes the check that Assign makes.
LEMMA TargetHeld ==
    ASSUME NEW f, NEW ref \in Refs(f)
    PROVE  validateTarget(f, ref)
<1>1. \/ ref = Org
      \/ \E g \in DOMAIN f.groups : ref = GroupRef(g)
      \/ \E t \in DOMAIN f.devices : ref = DeviceRef(t)
    BY Zenon DEF Refs
<1> QED BY <1>1 DEF validateTarget, Org, GroupRef, DeviceRef

\* The document a reader of one scope is given keeps what its bindings name.
LEMMA ViewSound ==
    ASSUME NEW f, Intact(f), NEW groups, NEW a \in ToSet(VisibleTo(f, groups).assignments)
    PROVE  LET view == VisibleTo(f, groups) IN
           /\ a.policy \in DOMAIN f.policies => a.policy \in DOMAIN view.policies
           /\ a.filter \in DOMAIN view.filters \cup {""}
           /\ validateTarget(view, a.target)
<1> DEFINE canView(ref) == RoleAt(f, groups, ref) >= Viewer
           S == {x \in ToSet(f.assignments) : x.target = Org \/ canView(x.target)}
           kept == Among(f.assignments, S)
           view == VisibleTo(f, groups)
<1>0. ASSUME NEW x \in ToSet(f.assignments)
      PROVE  x.filter \in DOMAIN f.filters \cup {""} /\ x.target \in Refs(f)
  <2>1. f.assignments \in Seq(SoundBindings(f))
    BY IntactParts
  <2>2. ToSet(f.assignments) \in SUBSET SoundBindings(f)
    BY <2>1, Holds, Zenon
  <2> QED BY <2>2 DEF SoundBindings
<1>2. CASE canView(Org)
  <2>1. view = f
    BY <1>2, Zenon DEF VisibleTo
  <2>2. a \in ToSet(f.assignments)
    BY <2>1
  <2>3. validateTarget(f, a.target)
    BY <1>0, <2>2, TargetHeld
  <2> QED BY <1>0, <2>1, <2>2, <2>3
<1>3. CASE ~canView(Org)
  <2> DEFINE policies == {x.policy : x \in ToSet(kept)}
             whole == {x.filter : x \in {y \in ToSet(kept) : y.target # Org}}
             named == {x.filter : x \in ToSet(kept)}
             part(fn, ks) == [k \in DOMAIN fn \cap ks |-> fn[k]]
             gs == part(f.groups, {g \in DOMAIN f.groups : canView(GroupRef(g))})
             ds == part(f.devices, {t \in DOMAIN f.devices : canView(DeviceRef(t))})
             ps == part(f.policies, policies)
             fs == [id \in DOMAIN f.filters \cap named |->
                        IF id \in whole THEN f.filters[id] ELSE [f.filters[id] EXCEPT !.rules = {}]]
             ac == {b \in f.access : b.scope = Org \/ canView(b.scope)}
  <2>1. view = [f EXCEPT !.groups = gs, !.devices = ds, !.assignments = kept, !.policies = ps,
                         !.filters = fs, !.access = ac, !.rings = <<>>]
    BY <1>3, Zenon DEF VisibleTo
  <2>2. /\ DOMAIN gs = {g \in DOMAIN f.groups : canView(GroupRef(g))}
        /\ DOMAIN ds = {t \in DOMAIN f.devices : canView(DeviceRef(t))}
        /\ DOMAIN ps = DOMAIN f.policies \cap policies
        /\ DOMAIN fs = DOMAIN f.filters \cap named
    BY Zenon
  <2> HIDE DEF gs, ds, ps, fs, ac
  <2>3. /\ view.groups = gs /\ view.devices = ds /\ view.assignments = kept
        /\ view.policies = ps /\ view.filters = fs
    <3> HIDE DEF kept, view
    <3> QED BY <2>1, IntactParts
  <2>4. ToSet(kept) = ToSet(f.assignments) \cap S
    <3>1. f.assignments \in Seq(SoundBindings(f))
      BY IntactParts
    <3> QED BY <3>1, Kept, Zenon
  <2>5. a \in ToSet(kept) /\ a \in ToSet(f.assignments) /\ (a.target = Org \/ canView(a.target))
    BY <2>3, <2>4, Zenon
  <2> HIDE DEF kept, S, canView, view
  <2>6. a.policy \in policies /\ a.filter \in named
    BY <2>5, Zenon
  <2>7. validateTarget(view, a.target)
    <3>1. a.target \in Refs(f)
      BY <1>0, <2>5
    <3>2. \/ a.target = Org
          \/ \E g \in DOMAIN f.groups : a.target = GroupRef(g) /\ canView(GroupRef(g))
          \/ \E t \in DOMAIN f.devices : a.target = DeviceRef(t) /\ canView(DeviceRef(t))
      BY <2>5, <3>1, Zenon DEF Refs
    <3>3. a.target \in Refs(view)
      BY <2>2, <2>3, <3>2, Zenon DEF Refs
    <3> QED BY <3>3, TargetHeld
  <2>8. a.filter \in DOMAIN f.filters \cup {""}
    BY <1>0, <2>5
  <2> QED BY <2>2, <2>3, <2>6, <2>7, <2>8, Zenon DEF view
<1> QED BY <1>2, <1>3

\* What the invariant is for.
LEMMA IntactIsUndangling ==
    ASSUME DocInv PROVE NothingDangles
<1>1. Intact(fdoc) /\ Sound(fdoc) /\ Forest(fdoc)
    BY DEF DocInv, Intact
<1>2. ASSUME NEW a \in ToSet(fdoc.assignments)
      PROVE  /\ a.policy \in DOMAIN fdoc.policies \cup DerivedPolicies
             /\ a.filter \in DOMAIN fdoc.filters \cup {""}
             /\ validateTarget(fdoc, a.target)
  <2>1. fdoc.assignments \in Seq(SoundBindings(fdoc))
    BY <1>1, IntactParts
  <2>2. ToSet(fdoc.assignments) \in SUBSET SoundBindings(fdoc)
    BY <2>1, Holds, Zenon
  <2>3. /\ a.policy \in DOMAIN fdoc.policies \cup DerivedPolicies
        /\ a.filter \in DOMAIN fdoc.filters \cup {""}
        /\ a.target \in Refs(fdoc)
    BY <2>2 DEF SoundBindings
  <2>4. validateTarget(fdoc, a.target)
    BY <2>3, TargetHeld
  <2> QED BY <2>3, <2>4, Zenon
<1>3. ASSUME NEW g \in DOMAIN fdoc.groups
      PROVE  fdoc.groups[GroupAncestry(fdoc, g)[1]].parent = ""
  <2>1. PICK depth \in [DOMAIN fdoc.groups -> Nat] : Deeper(fdoc, depth)
    BY <1>1, Zenon DEF Forest
  <2> QED BY <1>1, <2>1, Ancestry, Zenon
<1>4. \A t \in DOMAIN fdoc.devices : ToSet(fdoc.devices[t].groups) \subseteq DOMAIN fdoc.groups
  <2> SUFFICES ASSUME NEW t \in DOMAIN fdoc.devices
               PROVE  ToSet(fdoc.devices[t].groups) \subseteq DOMAIN fdoc.groups
    OBVIOUS
  <2>1. fdoc.devices[t].groups \in Seq(DOMAIN fdoc.groups)
    BY <1>1, IntactParts, Zenon
  <2>2. ToSet(fdoc.devices[t].groups) \in SUBSET DOMAIN fdoc.groups
    BY <2>1, Holds, Zenon
  <2> QED BY <2>2
<1>5. /\ \A id \in DOMAIN fdoc.filters : \A r \in fdoc.filters[id].rules :
            r.attr = "group" /\ r.op # "ne" => r.values \subseteq DOMAIN fdoc.groups
      /\ \A r \in ToSet(fdoc.rings) : r.groups = <<>> => r.group \in DOMAIN fdoc.groups \cup {""}
    BY <1>1, Zenon DEF Sound, SoundFilters, SoundRings
<1>6. ASSUME NEW b \in fdoc.access, b.scope[1] = "group" PROVE b.scope[2] \in DOMAIN fdoc.groups
  <2>1. b.scope \in {Org} \cup {GroupRef(g) : g \in DOMAIN fdoc.groups}
    BY <1>1, Zenon DEF Sound, SoundAccess
  <2>2. Org[1] # "group"
    BY DEF Org
  <2>3. PICK g \in DOMAIN fdoc.groups : b.scope = GroupRef(g)
    BY <1>6, <2>1, <2>2
  <2> QED BY <2>3 DEF GroupRef
<1>7. ASSUME NEW b \in fdoc.access, NEW a \in ToSet(VisibleTo(fdoc, {b.who}).assignments)
      PROVE  LET view == VisibleTo(fdoc, {b.who}) IN
             /\ a.policy \in DOMAIN fdoc.policies => a.policy \in DOMAIN view.policies
             /\ a.filter \in DOMAIN view.filters \cup {""}
             /\ validateTarget(view, a.target)
    BY <1>1, ViewSound, Zenon
<1> QED BY <1>2, <1>3, <1>4, <1>5, <1>6, <1>7, Zenon DEF NothingDangles

\* The start.
LEMMA DocStarts ==
    ASSUME DocInit PROVE DocInv
<1>1. fdoc \in SeedDocs /\ tx = NoTx
    BY DEF DocInit
<1>2. Sound(fdoc)
    BY <1>1, WriteAssumption, Zenon
<1>3. PICK depth \in [DOMAIN fdoc.groups -> 0..Cardinality(DOMAIN fdoc.groups)] : Deeper(fdoc, depth)
    BY <1>1, WriteAssumption, Zenon
<1>4. depth \in [DOMAIN fdoc.groups -> Nat]
  <2>1. Cardinality(DOMAIN fdoc.groups) \in Nat
    BY <1>2, FS_CardinalityType DEF Sound, SoundGroups
  <2>2. 0..Cardinality(DOMAIN fdoc.groups) \subseteq Nat
    BY <2>1
  <2> QED BY <2>2
<1> QED BY <1>1, <1>2, <1>3, <1>4, Zenon DEF DocInv, Intact, Forest

\* No write leaves a reference to nothing (NothingDangles): bindings name a policy, a filter
\* and a target that exist, every walk up from a group ends at a root, devices, filters,
\* rings and access name groups that exist, and the document narrowed for a reader of one
\* scope keeps what its bindings name (the mutations of src/internal/domain/fleet under the
\* writes of src/internal/http and src/internal/app, VisibleTo).
THEOREM NothingEverDangles == DocSpec => []NothingDangles
<1>1. DocInit => DocInv
    BY DocStarts
<1>2. DocInv /\ [DocNext]_docVars => DocInv'
    BY DocStep
<1>3. DocInv => NothingDangles
    BY IntactIsUndangling
<1> QED BY <1>1, <1>2, <1>3, PTL DEF DocSpec
=============================================================================
