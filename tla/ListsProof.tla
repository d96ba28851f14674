----------------------------- MODULE ListsProof -----------------------------
(***************************************************************************)
(* Induction over numbers as a fact about sets, functions defined by       *)
(* recursion over an interval, and with them what Only makes of a list.    *)
(***************************************************************************)
EXTENDS Lists, Integers, FiniteSetTheorems, WellFoundedInduction, TLAPS

\* A set of numbers that is not empty has a least member.
LEMMA LeastMember ==
  ASSUME NEW numbers \in SUBSET Nat, numbers # {}
  PROVE  \E i \in numbers : \A j \in numbers : i <= j
<1>. DEFINE less == {ss \in Nat \X Nat : ss[1] < ss[2]}
<1>1. less = OpToRel(<, Nat)
  BY DEF OpToRel
<1>2. IsWellFoundedOn(less, Nat)
  BY <1>1, NatLessThanWellFounded
<1>3. PICK i \in numbers : \A j \in numbers : ~ (<<j, i>> \in less)
  <2>. HIDE DEF less
  <2>. QED  BY <1>2, WFMin
<1>4. \A j \in numbers : ~ (j < i)
  BY <1>3
<1>. QED  BY <1>4

\* And if a number bounds them, a greatest.
LEMMA GreatestMember ==
  ASSUME NEW bound \in Nat, NEW numbers \in SUBSET (1..bound), numbers # {}
  PROVE  \E i \in numbers : \A j \in numbers : i >= j
<1>. DEFINE below == {bound - i : i \in numbers}
<1>1. below \in SUBSET Nat /\ below # {}
  <2>1. \A i \in numbers : bound - i \in Nat
    OBVIOUS
  <2>. QED  BY <2>1
<1>2. PICK b \in below : \A c \in below : b <= c
  <2>. HIDE DEF below
  <2>. QED  BY <1>1, LeastMember
<1>3. PICK i \in numbers : b = bound - i
  OBVIOUS
<1>4. \A j \in numbers : bound - i <= bound - j
  BY <1>2, <1>3
<1>. QED  BY <1>4

\* What holds at 0 and passes from each number to the next holds up to N.
LEMMA Climb ==
  ASSUME NEW N \in Nat, NEW holds, 0 \in holds,
         \A n \in 0..(N - 1) : n \in holds => n + 1 \in holds
  PROVE  \A n \in 0..N : n \in holds
<1>. DEFINE fails == {n \in 0..N : n \notin holds}
<1>. SUFFICES ASSUME fails # {} PROVE FALSE
  OBVIOUS
<1>1. PICK least \in fails : \A n \in fails : least <= n
  <2>. fails \in SUBSET Nat
    OBVIOUS
  <2>. HIDE DEF fails
  <2>. QED  BY LeastMember
<1>2. least # 0 /\ least - 1 \in 0..(N - 1)
  OBVIOUS
<1>3. least - 1 \in holds
  BY <1>1, <1>2
<1>4. (least - 1) + 1 = least
  BY <1>2
<1>. QED  BY <1>2, <1>3, <1>4

\* A function on 0..N is defined by its first value and a step.
Steps(g, N, base, step) == g[0] = base /\ \A n \in 1..N : g[n] = step[<<g[n - 1], n>>]

LEMMA Recursion ==
  ASSUME NEW N \in Nat, NEW Values, NEW base \in Values,
         NEW step \in [Values \X (1..N) -> Values]
  PROVE  \E g \in [0..N -> Values] : Steps(g, N, base, step)
<1>. DEFINE Upto(n) == \E g \in [0..n -> Values] : Steps(g, n, base, step)
            holds == {n \in 0..N : Upto(n)}
<1>1. 0 \in holds
  <2>. DEFINE g == [m \in 0..0 |-> base]
  <2>1. g \in [0..0 -> Values] /\ g[0] = base
    OBVIOUS
  <2>2. Upto(0)
    <3>1. 1..0 = {}
      OBVIOUS
    <3>. HIDE DEF g
    <3>. QED  BY <2>1, <3>1 DEF Steps
  <2>. QED  BY <2>2
<1>2. ASSUME NEW n \in 0..(N - 1), n \in holds
      PROVE  n + 1 \in holds
  <2>1. PICK g \in [0..n -> Values] :
          g[0] = base /\ \A m \in 1..n : g[m] = step[<<g[m - 1], m>>]
    BY <1>2 DEF Steps
  <2>. DEFINE h == [m \in 0..(n + 1) |-> IF m = n + 1 THEN step[<<g[n], n + 1>>] ELSE g[m]]
  <2>2. step[<<g[n], n + 1>>] \in Values
    <3>1. <<g[n], n + 1>> \in Values \X (1..N)
      BY <2>1
    <3>. QED  BY <3>1
  <2>3. h \in [0..(n + 1) -> Values]
    BY <2>2
  <2>4. h[0] = base
    BY <2>1
  <2>5. ASSUME NEW m \in 1..(n + 1)
        PROVE  h[m] = step[<<h[m - 1], m>>]
    <3>1. h[m - 1] = g[m - 1]
      OBVIOUS
    <3>2. CASE m = n + 1
      <4>1. m - 1 = n /\ h[m] = step[<<g[n], n + 1>>]
        BY <3>2
      <4>. HIDE DEF h
      <4>. QED  BY <3>1, <3>2, <4>1
    <3>3. CASE m # n + 1
      <4>1. m \in 1..n /\ h[m] = g[m]
        BY <3>3
      <4>. HIDE DEF h
      <4>. QED  BY <2>1, <3>1, <4>1
    <3>. QED  BY <3>2, <3>3
  <2>6. Upto(n + 1)
    <3>. HIDE DEF h
    <3>. QED  BY <2>3, <2>4, <2>5 DEF Steps
  <2>. QED  BY <2>6
<1>. HIDE DEF holds
<1>3. N \in holds
  BY <1>1, <1>2, Climb
<1>. QED  BY <1>3 DEF holds

\* What the empty list has and each list passes on to a longer one, all have.
LEMMA ListClimb ==
  ASSUME NEW T, NEW holds,
         \A list \in Seq(T) : list = <<>> => list \in holds,
         \A list \in Seq(T), x \in T : list \in holds => Append(list, x) \in holds
  PROVE  \A list \in Seq(T) : list \in holds
<1>. TAKE list \in Seq(T)
<1>. DEFINE upto(n) == SubSeq(list, 1, n)
            N == Len(list)
            good == {n \in 0..N : upto(n) \in holds}
<1>1. N \in Nat
  OBVIOUS
<1>2. 0 \in good
  <2>1. upto(0) \in Seq(T) /\ upto(0) = <<>>
    OBVIOUS
  <2>. HIDE DEF upto, N
  <2>. QED  BY <1>1, <2>1
<1>3. ASSUME NEW n \in 0..(N - 1), n \in good
      PROVE  n + 1 \in good
  <2>1. upto(n) \in Seq(T) /\ list[n + 1] \in T
    OBVIOUS
  <2>2. upto(n + 1) = Append(upto(n), list[n + 1])
    OBVIOUS
  <2>3. upto(n + 1) \in holds
    <3>1. upto(n) \in holds
      BY <1>3
    <3>. HIDE DEF upto
    <3>. QED  BY <2>1, <2>2, <3>1
  <2>. QED  BY <2>3
<1>4. N \in good
  <2>. HIDE DEF good, N
  <2>1. \A n \in 0..N : n \in good
    BY <1>1, <1>2, <1>3, Climb
  <2>. QED  BY <1>1, <2>1
<1>5. upto(N) = list
  OBVIOUS
<1>. QED  BY <1>4, <1>5

----------------------------------------------------------------------------
\* How Only computes: nothing of the empty list, and of a longer one what it
\* has of all but the last.
KeptBy(kept, list, keep) ==
  kept = [n \in 0..Len(list) |->
            IF n = 0 THEN <<>>
            ELSE IF list[n] \in keep THEN Append(kept[n - 1], list[n]) ELSE kept[n - 1]]

LEMMA KeptExists ==
  ASSUME NEW T, NEW list \in Seq(T), NEW keep
  PROVE  \E kept \in [0..Len(list) -> Seq(T)] : KeptBy(kept, list, keep)
<1>. DEFINE N == Len(list)
            none == <<>>
            Some == Seq(T)
            step == [x \in Some \X (1..N) |->
                       IF list[x[2]] \in keep THEN Append(x[1], list[x[2]]) ELSE x[1]]
<1>1. step \in [Some \X (1..N) -> Some]
  OBVIOUS
<1>2. none \in Some /\ N \in Nat
  OBVIOUS
<1>3. PICK g \in [0..N -> Some] : Steps(g, N, none, step)
  <2>. HIDE DEF step, N, none, Some
  <2>. QED  BY <1>1, <1>2, Recursion
<1>4. \A n \in 1..N : g[n - 1] \in Seq(T)
  BY <1>3
<1>5. \A n \in 1..N : g[n] = IF list[n] \in keep THEN Append(g[n - 1], list[n]) ELSE g[n - 1]
  BY <1>3, <1>4 DEF Steps
<1>6. \A n \in 0..N : g[n] = IF n = 0 THEN <<>>
                            ELSE IF list[n] \in keep THEN Append(g[n - 1], list[n]) ELSE g[n - 1]
  <2>1. \A n \in 0..N : n = 0 \/ n \in 1..N
    OBVIOUS
  <2>2. g[0] = <<>>
    BY <1>3 DEF Steps
  <2>. HIDE DEF step, N
  <2>. QED  BY <1>5, <2>1, <2>2
<1>7. KeptBy(g, list, keep)
  <2>. HIDE DEF step
  <2>. QED  BY <1>3, <1>6 DEF KeptBy
<1>. QED  BY <1>7

LEMMA OnlyIsKept ==
  ASSUME NEW T, NEW list \in Seq(T), NEW keep
  PROVE  \E kept : KeptBy(kept, list, keep) /\ Only(list, keep) = kept[Len(list)]
<1>1. \E kept : KeptBy(kept, list, keep)
  BY KeptExists
<1>. QED  BY <1>1 DEF Only, KeptBy

LEMMA OnlyOfNothing ==
  ASSUME NEW T, NEW list \in Seq(T), list = <<>>, NEW keep
  PROVE  Only(list, keep) = <<>>
<1>1. PICK kept : KeptBy(kept, list, keep) /\ Only(list, keep) = kept[Len(list)]
  BY OnlyIsKept
<1>2. Len(list) = 0
  OBVIOUS
<1>. QED  BY <1>1, <1>2 DEF KeptBy

LEMMA OnlyOfAppend ==
  ASSUME NEW T, NEW list \in Seq(T), NEW x \in T, NEW keep
  PROVE  Only(Append(list, x), keep) =
           IF x \in keep THEN Append(Only(list, keep), x) ELSE Only(list, keep)
<1>. DEFINE more == Append(list, x)
<1>1. /\ more \in Seq(T) /\ Len(more) = Len(list) + 1 /\ Len(list) \in Nat
      /\ \A n \in 1..Len(list) : more[n] = list[n]
      /\ more[Len(list) + 1] = x
  OBVIOUS
<1>. HIDE DEF more
<1>2. PICK kept : KeptBy(kept, list, keep) /\ Only(list, keep) = kept[Len(list)]
  BY OnlyIsKept
<1>3. PICK k : KeptBy(k, more, keep) /\ Only(more, keep) = k[Len(more)]
  BY <1>1, OnlyIsKept
<1>. DEFINE N == Len(list)
            same == {n \in 0..N : k[n] = kept[n]}
<1>4. 0 \in same
  BY <1>1, <1>2, <1>3 DEF KeptBy
<1>5. ASSUME NEW n \in 0..(N - 1), n \in same
      PROVE  n + 1 \in same
  <2>1. n + 1 \in 1..Len(list) /\ n + 1 # 0 /\ (n + 1) - 1 = n
        /\ n + 1 \in 0..Len(list) /\ n + 1 \in 0..Len(more)
    BY <1>1
  <2>2. k[n + 1] = IF more[n + 1] \in keep THEN Append(k[n], more[n + 1]) ELSE k[n]
    BY <1>3, <2>1 DEF KeptBy
  <2>3. kept[n + 1] = IF list[n + 1] \in keep THEN Append(kept[n], list[n + 1]) ELSE kept[n]
    BY <1>2, <2>1 DEF KeptBy
  <2>. QED  BY <1>1, <1>5, <2>1, <2>2, <2>3
<1>6. N \in same
  <2>1. N \in Nat
    BY <1>1
  <2>. HIDE DEF same, N
  <2>2. \A n \in 0..N : n \in same
    BY <2>1, <1>4, <1>5, Climb
  <2>. QED  BY <2>1, <2>2
<1>7. k[Len(list) + 1] = IF x \in keep THEN Append(k[Len(list)], x) ELSE k[Len(list)]
  <2>1. Len(list) + 1 \in 0..Len(more) /\ Len(list) + 1 # 0 /\ (Len(list) + 1) - 1 = Len(list)
    BY <1>1
  <2>. QED  BY <1>1, <1>3, <2>1 DEF KeptBy
<1>. QED  BY <1>1, <1>2, <1>3, <1>6, <1>7 DEF more

LEMMA OnlyType ==
  ASSUME NEW T, NEW keep
  PROVE  \A list \in Seq(T) : Only(list, keep) \in Seq(T)
<1>. DEFINE holds == {list \in Seq(T) : Only(list, keep) \in Seq(T)}
<1>1. \A list \in Seq(T) : list = <<>> => list \in holds
  BY OnlyOfNothing
<1>2. \A list \in Seq(T), x \in T : list \in holds => Append(list, x) \in holds
  <2>. TAKE list \in Seq(T), x \in T
  <2>. HAVE list \in holds
  <2>1. Append(list, x) \in Seq(T) /\ Append(Only(list, keep), x) \in Seq(T)
    OBVIOUS
  <2>2. Only(Append(list, x), keep) \in {Only(list, keep), Append(Only(list, keep), x)}
    BY OnlyOfAppend
  <2>. QED  BY <2>1, <2>2
<1>3. \A list \in Seq(T) : list \in holds
  <2>. HIDE DEF holds
  <2>. QED  BY <1>1, <1>2, ListClimb
<1>. QED  BY <1>3

\* Nothing is left out of a list whose elements are all in the set.
LEMMA OnlyOfAll ==
  ASSUME NEW T, NEW keep, T \subseteq keep
  PROVE  \A list \in Seq(T) : Only(list, keep) = list
<1>. DEFINE holds == {list \in Seq(T) : Only(list, keep) = list}
<1>1. \A list \in Seq(T) : list = <<>> => list \in holds
  BY OnlyOfNothing
<1>2. \A list \in Seq(T), x \in T : list \in holds => Append(list, x) \in holds
  <2>. TAKE list \in Seq(T), x \in T
  <2>. HAVE list \in holds
  <2>1. Append(list, x) \in Seq(T) /\ Only(list, keep) = list /\ x \in keep
    OBVIOUS
  <2>2. Only(Append(list, x), keep) = Append(list, x)
    BY <2>1, OnlyOfAppend
  <2>. QED  BY <2>1, <2>2
<1>3. \A list \in Seq(T) : list \in holds
  <2>. HIDE DEF holds
  <2>. QED  BY <1>1, <1>2, ListClimb
<1>. QED  BY <1>3

LEMMA AppendBehind ==
  ASSUME NEW T, NEW x \in T
  PROVE  \A a, b \in Seq(T) : Append(a \o b, x) = a \o Append(b, x)
<1>. TAKE a, b \in Seq(T)
<1>. DEFINE u == Append(a \o b, x)
            v == a \o Append(b, x)
<1>1. u \in Seq(T) /\ v \in Seq(T) /\ Len(u) = Len(v)
  OBVIOUS
<1>2. \A i \in 1..Len(u) : u[i] = v[i]
  OBVIOUS
<1>. HIDE DEF u, v
<1>3. u = v
  BY <1>1, <1>2
<1>. QED  BY <1>3 DEF u, v

\* Of two lists, one behind the other, each gives its part.
LEMMA OnlyOfConcat ==
  ASSUME NEW T, NEW keep, NEW front \in Seq(T)
  PROVE  \A list \in Seq(T) : Only(front \o list, keep) = Only(front, keep) \o Only(list, keep)
<1>. DEFINE holds == {list \in Seq(T) :
                        Only(front \o list, keep) = Only(front, keep) \o Only(list, keep)}
<1>0. Only(front, keep) \in Seq(T)
  BY OnlyType
<1>1. ASSUME NEW list \in Seq(T), list = <<>> PROVE list \in holds
  <2>1. Only(list, keep) = <<>>
    BY <1>1, OnlyOfNothing
  <2>2. front \o list = front
    BY <1>1
  <2>3. Only(front, keep) \o Only(list, keep) = Only(front, keep)
    BY <1>0, <2>1
  <2>. QED  BY <2>2, <2>3
<1>2. ASSUME NEW list \in Seq(T), NEW x \in T, list \in holds
      PROVE  Append(list, x) \in holds
  <2>. DEFINE all == front \o list
              a == Only(front, keep)
              b == Only(list, keep)
  <2>1. /\ Append(list, x) \in Seq(T) /\ all \in Seq(T) /\ a \in Seq(T) /\ b \in Seq(T)
        /\ front \o Append(list, x) = Append(all, x)
        /\ Only(all, keep) = a \o b
    <3>1. b \in Seq(T)
      BY OnlyType
    <3>. QED  BY <1>0, <1>2, <3>1
  <2>2. Only(Append(all, x), keep) = IF x \in keep THEN Append(Only(all, keep), x)
                                     ELSE Only(all, keep)
    <3>. HIDE DEF all
    <3>. QED  BY <2>1, OnlyOfAppend
  <2>3. Only(Append(list, x), keep) = IF x \in keep THEN Append(b, x) ELSE b
    BY OnlyOfAppend
  <2>. HIDE DEF a, b, all
  <2>4. Append(a \o b, x) = a \o Append(b, x)
    BY <2>1, AppendBehind, Zenon
  <2>5. Only(front \o Append(list, x), keep) = a \o Only(Append(list, x), keep)
    BY <2>1, <2>2, <2>3, <2>4
  <2>. QED  BY <2>1, <2>5 DEF a
<1>3. \A list \in Seq(T) : list \in holds
  <2>. HIDE DEF holds
  <2>. QED  BY <1>1, <1>2, ListClimb
<1>. QED  BY <1>3

\* Where the elements of Only stand in the list: in the same order, and every
\* place of an element of the set is among them.
Places(at, list, keep) ==
  LET some == Only(list, keep)
  IN  /\ at \in [1..Len(some) -> 1..Len(list)]
      /\ \A i, j \in 1..Len(some) : i < j => at[i] < at[j]
      /\ \A i \in 1..Len(some) : some[i] = list[at[i]] /\ some[i] \in keep
      /\ \A k \in 1..Len(list) : list[k] \in keep => \E i \in 1..Len(some) : at[i] = k

LEMMA OnlyPlaces ==
  ASSUME NEW T, NEW keep
  PROVE  \A list \in Seq(T) : \E at : Places(at, list, keep)
<1>. DEFINE holds == {list \in Seq(T) : \E at : Places(at, list, keep)}
<1>1. ASSUME NEW list \in Seq(T), list = <<>> PROVE list \in holds
  <2>1. Only(list, keep) = <<>>
    BY <1>1, OnlyOfNothing
  <2>2. Len(list) = 0 /\ Len(Only(list, keep)) = 0
    BY <1>1, <2>1
  <2>. DEFINE at == [i \in 1..0 |-> 0]
  <2>3. at \in [1..0 -> 1..0]
    OBVIOUS
  <2>4. 1..0 = {}
    OBVIOUS
  <2>. HIDE DEF at
  <2>5. Places(at, list, keep)
    BY <2>2, <2>3, <2>4 DEF Places
  <2>. QED  BY <2>5
<1>2. ASSUME NEW list \in Seq(T), NEW x \in T, list \in holds
      PROVE  Append(list, x) \in holds
  <2>. DEFINE more == Append(list, x)
              some == Only(list, keep)
              N == Len(list)
              S == Len(some)
  <2>1. PICK at : Places(at, list, keep)
    BY <1>2
  <2>2. some \in Seq(T)
    BY OnlyType
  <2>3. /\ more \in Seq(T) /\ Len(more) = N + 1 /\ N \in Nat /\ S \in Nat
        /\ \A n \in 1..N : more[n] = list[n]
        /\ more[N + 1] = x
    BY <2>2
  <2>4. Only(more, keep) = IF x \in keep THEN Append(some, x) ELSE some
    BY OnlyOfAppend
  <2>5. /\ at \in [1..S -> 1..N]
        /\ \A i, j \in 1..S : i < j => at[i] < at[j]
        /\ \A i \in 1..S : some[i] = list[at[i]] /\ some[i] \in keep
        /\ \A k \in 1..N : list[k] \in keep => \E i \in 1..S : at[i] = k
    BY <2>1 DEF Places
  <2>6. /\ Len(Append(some, x)) = S + 1 /\ Append(some, x)[S + 1] = x
        /\ \A i \in 1..S : Append(some, x)[i] = some[i]
    BY <2>2
  <2>. DEFINE longer == Append(some, x)
  <2>. HIDE DEF more, some, N, S, longer
  <2>7. CASE x \notin keep
    <3>1. Only(more, keep) = some
      BY <2>4, <2>7
    <3>2. at \in [1..S -> 1..(N + 1)]
      BY <2>3, <2>5
    <3>3. \A k \in 1..(N + 1) : more[k] \in keep => \E i \in 1..S : at[i] = k
      <4>. TAKE k \in 1..(N + 1)
      <4>. HAVE more[k] \in keep
      <4>1. k # N + 1 /\ k \in 1..N
        BY <2>3, <2>7
      <4>. QED  BY <2>3, <2>5, <4>1
    <3>4. \A i \in 1..S : some[i] = more[at[i]] /\ some[i] \in keep
      BY <2>3, <2>5
    <3>5. Places(at, more, keep)
      BY <2>3, <2>5, <3>1, <3>2, <3>3, <3>4 DEF Places, S
    <3>. QED  BY <2>3, <3>5 DEF more
  <2>8. CASE x \in keep
    <3>. DEFINE to == [i \in 1..(S + 1) |-> IF i = S + 1 THEN N + 1 ELSE at[i]]
    <3>1. Only(more, keep) = longer
      BY <2>4, <2>8 DEF longer
    <3>2. to \in [1..(S + 1) -> 1..(N + 1)]
      BY <2>3, <2>5
    <3>3. /\ to[S + 1] = N + 1
          /\ \A i \in 1..S : to[i] = at[i] /\ at[i] \in 1..N
          /\ \A i \in 1..(S + 1) : i = S + 1 \/ i \in 1..S
          /\ \A i \in 1..(N + 1) : i = N + 1 \/ i \in 1..N
      BY <2>3, <2>5
    <3>. HIDE DEF to
    <3>4. \A i, j \in 1..(S + 1) : i < j => to[i] < to[j]
      <4>. TAKE i, j \in 1..(S + 1)
      <4>. HAVE i < j
      <4>1. i \in 1..S
        BY <2>3
      <4>2. CASE j = S + 1
        BY <2>3, <3>3, <4>1, <4>2
      <4>3. CASE j \in 1..S
        BY <2>5, <3>3, <4>1, <4>3
      <4>. QED  BY <3>3, <4>2, <4>3
    <3>5. ASSUME NEW i \in 1..(S + 1) PROVE longer[i] = more[to[i]] /\ longer[i] \in keep
      <4>1. CASE i = S + 1
        BY <2>3, <2>6, <2>8, <3>3, <4>1 DEF longer
      <4>2. CASE i \in 1..S
        BY <2>3, <2>5, <2>6, <3>3, <4>2 DEF longer
      <4>. QED  BY <3>3, <4>1, <4>2
    <3>6. ASSUME NEW k \in 1..(N + 1), more[k] \in keep
          PROVE  \E i \in 1..(S + 1) : to[i] = k
      <4>1. CASE k = N + 1
        BY <2>3, <3>3, <4>1
      <4>2. CASE k \in 1..N
        <5>1. PICK i \in 1..S : at[i] = k
          BY <2>3, <2>5, <3>6, <4>2
        <5>2. i \in 1..(S + 1) /\ to[i] = k
          BY <2>3, <3>3, <5>1
        <5>. QED  BY <5>2
      <4>. QED  BY <3>3, <4>1, <4>2
    <3>7. Len(longer) = S + 1
      BY <2>6 DEF longer
    <3>8. Places(to, more, keep)
      BY <2>3, <3>1, <3>2, <3>4, <3>5, <3>6, <3>7 DEF Places
    <3>. QED  BY <2>3, <3>8 DEF more
  <2>. QED  BY <2>7, <2>8
<1>3. \A list \in Seq(T) : list \in holds
  <2>. HIDE DEF holds
  <2>. QED  BY <1>1, <1>2, ListClimb
<1>. QED  BY <1>3

\* What belongs to both is what Only has.
LEMMA OnlyMembers ==
  ASSUME NEW T, NEW list \in Seq(T), NEW keep
  PROVE  /\ \A i \in 1..Len(Only(list, keep)) :
              Only(list, keep)[i] \in keep
              /\ \E k \in 1..Len(list) : list[k] = Only(list, keep)[i]
         /\ \A k \in 1..Len(list) : list[k] \in keep =>
              \E i \in 1..Len(Only(list, keep)) : Only(list, keep)[i] = list[k]
<1>1. PICK at : Places(at, list, keep)
  BY OnlyPlaces
<1>. QED  BY <1>1 DEF Places

\* What differs stays different.
LEMMA OnlyDistinct ==
  ASSUME NEW T, NEW list \in Seq(T), NEW keep,
         \A i, j \in 1..Len(list) : list[i] = list[j] => i = j
  PROVE  \A i, j \in 1..Len(Only(list, keep)) :
           Only(list, keep)[i] = Only(list, keep)[j] => i = j
<1>1. PICK at : Places(at, list, keep)
  BY OnlyPlaces
<1>. DEFINE some == Only(list, keep)
<1>2. /\ at \in [1..Len(some) -> 1..Len(list)]
      /\ \A i, j \in 1..Len(some) : i < j => at[i] < at[j]
      /\ \A i \in 1..Len(some) : some[i] = list[at[i]]
  BY <1>1 DEF Places
<1>. HIDE DEF some
<1>3. \A i, j \in 1..Len(some) : some[i] = some[j] => i = j
  <2>. TAKE i, j \in 1..Len(some)
  <2>. HAVE some[i] = some[j]
  <2>1. at[i] = at[j] /\ at[i] \in Nat
    BY <1>2
  <2>2. ~(i < j) /\ ~(j < i)
    BY <1>2, <2>1
  <2>. QED  BY <2>2
<1>. QED  BY <1>3 DEF some

\* Two lists of the same elements, each of them once, are equally long.
LEMMA SameLength ==
  ASSUME NEW T, NEW a \in Seq(T), NEW b \in Seq(T),
         \A i, j \in 1..Len(a) : a[i] = a[j] => i = j,
         \A i, j \in 1..Len(b) : b[i] = b[j] => i = j,
         \A i \in 1..Len(a) : \E j \in 1..Len(b) : b[j] = a[i],
         \A j \in 1..Len(b) : \E i \in 1..Len(a) : a[i] = b[j]
  PROVE  Len(a) = Len(b)
<1>. DEFINE S == {a[i] : i \in 1..Len(a)}
<1>1. Len(a) \in Nat /\ Len(b) \in Nat
  OBVIOUS
<1>2. a \in [1..Len(a) -> S] /\ \A s \in S : \E i \in 1..Len(a) : a[i] = s
  OBVIOUS
<1>3. b \in [1..Len(b) -> S] /\ \A s \in S : \E j \in 1..Len(b) : b[j] = s
  OBVIOUS
<1>. HIDE DEF S
<1>4. a \in Bijection(1..Len(a), S)
  BY <1>2 DEF Bijection, Injection, Surjection, IsInjective
<1>5. b \in Bijection(1..Len(b), S)
  BY <1>3 DEF Bijection, Injection, Surjection, IsInjective
<1>6. Cardinality(S) = Len(a)
  BY <1>1, <1>4, FS_CountingElements DEF ExistsBijection
<1>7. Cardinality(S) = Len(b)
  BY <1>1, <1>5, FS_CountingElements DEF ExistsBijection
<1>. QED  BY <1>6, <1>7

\* Nothing is left of a list whose elements are all outside the set.
LEMMA OnlyOfNone ==
  ASSUME NEW T, NEW keep, T \cap keep = {}
  PROVE  \A list \in Seq(T) : Only(list, keep) = <<>>
<1>. DEFINE holds == {list \in Seq(T) : Only(list, keep) = <<>>}
<1>1. \A list \in Seq(T) : list = <<>> => list \in holds
  BY OnlyOfNothing
<1>2. \A list \in Seq(T), x \in T : list \in holds => Append(list, x) \in holds
  <2>. TAKE list \in Seq(T), x \in T
  <2>. HAVE list \in holds
  <2>1. Append(list, x) \in Seq(T) /\ Only(list, keep) = <<>> /\ x \notin keep
    OBVIOUS
  <2>2. Only(Append(list, x), keep) = <<>>
    BY <2>1, OnlyOfAppend
  <2>. QED  BY <2>1, <2>2
<1>3. \A list \in Seq(T) : list \in holds
  <2>. HIDE DEF holds
  <2>. QED  BY <1>1, <1>2, ListClimb
<1>. QED  BY <1>3

\* Two sets that agree on the elements of a list leave the same of it.
LEMMA OnlyAgrees ==
  ASSUME NEW T, NEW keep, NEW other, \A x \in T : x \in keep <=> x \in other
  PROVE  \A list \in Seq(T) : Only(list, keep) = Only(list, other)
<1>. DEFINE holds == {list \in Seq(T) : Only(list, keep) = Only(list, other)}
<1>1. \A list \in Seq(T) : list = <<>> => list \in holds
  <2>. TAKE list \in Seq(T)
  <2>. HAVE list = <<>>
  <2>1. Only(list, keep) = <<>> /\ Only(list, other) = <<>>
    BY OnlyOfNothing
  <2>. QED  BY <2>1
<1>2. \A list \in Seq(T), x \in T : list \in holds => Append(list, x) \in holds
  <2>. TAKE list \in Seq(T), x \in T
  <2>. HAVE list \in holds
  <2>1. Append(list, x) \in Seq(T) /\ Only(list, keep) = Only(list, other)
    OBVIOUS
  <2>2. Only(Append(list, x), keep) =
          IF x \in keep THEN Append(Only(list, keep), x) ELSE Only(list, keep)
    BY OnlyOfAppend
  <2>3. Only(Append(list, x), other) =
          IF x \in other THEN Append(Only(list, other), x) ELSE Only(list, other)
    BY OnlyOfAppend
  <2>4. Only(Append(list, x), keep) = Only(Append(list, x), other)
    BY <2>1, <2>2, <2>3
  <2>. QED  BY <2>1, <2>4
<1>3. \A list \in Seq(T) : list \in holds
  <2>. HIDE DEF holds
  <2>. QED  BY <1>1, <1>2, ListClimb
<1>. QED  BY <1>3

\* What a set leaves of what another left.
LEMMA OnlyOfOnly ==
  ASSUME NEW T, NEW keep, NEW few, few \subseteq keep
  PROVE  \A list \in Seq(T) : Only(list, few) = Only(Only(list, keep), few)
<1>. DEFINE holds == {list \in Seq(T) : Only(list, few) = Only(Only(list, keep), few)}
<1>1. ASSUME NEW list \in Seq(T), list = <<>> PROVE list \in holds
  <2>1. Only(list, keep) = list
    BY <1>1, OnlyOfNothing
  <2>. QED  BY <1>1, <2>1
<1>2. ASSUME NEW list \in Seq(T), NEW x \in T, list \in holds
      PROVE  Append(list, x) \in holds
  <2>. DEFINE b == Only(list, keep)
  <2>1. /\ Append(list, x) \in Seq(T) /\ Only(list, few) = Only(b, few)
        /\ b \in Seq(T)
    BY <1>2, OnlyType
  <2>2. Only(Append(list, x), keep) = IF x \in keep THEN Append(b, x) ELSE b
    BY OnlyOfAppend
  <2>3. Only(Append(list, x), few) =
          IF x \in few THEN Append(Only(list, few), x) ELSE Only(list, few)
    BY OnlyOfAppend
  <2>. HIDE DEF b
  <2>4. Only(Append(b, x), few) = IF x \in few THEN Append(Only(b, few), x) ELSE Only(b, few)
    BY <2>1, OnlyOfAppend
  <2>5. CASE x \in keep
    <3>1. Only(Append(list, x), few) = Only(Append(b, x), few)
      BY <2>1, <2>3, <2>4
    <3>. QED  BY <2>1, <2>2, <2>5, <3>1
  <2>6. CASE x \notin keep
    <3>1. Only(Append(list, x), few) = Only(b, few)
      BY <2>1, <2>3, <2>6
    <3>. QED  BY <2>1, <2>2, <2>6, <3>1
  <2>. QED  BY <2>5, <2>6
<1>3. \A list \in Seq(T) : list \in holds
  <2>. HIDE DEF holds
  <2>. QED  BY <1>1, <1>2, ListClimb
<1>. QED  BY <1>3

\* The set without the elements of a list.
Without(keep, back) == {x \in keep : \A i \in 1..Len(back) : x # back[i]}

\* No element twice.
Once(list) == \A i, j \in 1..Len(list) : list[i] = list[j] => i = j

\* When the end of what is left of a list without repetitions leaves the set,
\* the rest is left.
LEMMA OnlyWithoutEnd ==
  ASSUME NEW T, NEW list \in Seq(T), NEW keep, NEW front \in Seq(T), NEW back \in Seq(T),
         Only(list, keep) = front \o back, Once(list)
  PROVE  Only(list, Without(keep, back)) = front
<1>. DEFINE some == Only(list, keep)
            ends == {back[i] : i \in 1..Len(back)}
            few == Without(keep, back)
            rest == T \cap few
<1>1. \A i, j \in 1..Len(some) : some[i] = some[j] => i = j
  BY OnlyDistinct DEF Once
<1>2. \A i \in 1..Len(some) : some[i] \in keep
  BY OnlyMembers
<1>3. some \in Seq(T) /\ some = front \o back /\ Len(some) = Len(front) + Len(back)
  BY OnlyType
<1>4. Only(list, few) = Only(some, few)
  <2>1. few \subseteq keep
    BY DEF Without
  <2>2. \A l \in Seq(T) : Only(l, few) = Only(Only(l, keep), few)
    BY <2>1, OnlyOfOnly
  <2>. QED  BY <2>2
<1>5. Only(front \o back, few) = Only(front, few) \o Only(back, few)
  <2>1. \A l \in Seq(T) : Only(front \o l, few) = Only(front, few) \o Only(l, few)
    BY OnlyOfConcat
  <2>. QED  BY <2>1
<1>6. Only(back, few) = <<>>
  <2>1. back \in Seq(ends)
    OBVIOUS
  <2>2. ends \cap few = {}
    BY DEF Without
  <2>. HIDE DEF ends
  <2>. QED  BY <2>1, <2>2, OnlyOfNone
<1>7. Only(front, few) = front
  <2>1. ASSUME NEW i \in 1..Len(front)  PROVE front[i] \in rest
    <3>1. i \in 1..Len(some) /\ some[i] = front[i]
      BY <1>3
    <3>2. front[i] \in keep /\ front[i] \in T
      BY <1>2, <3>1
    <3>3. ASSUME NEW j \in 1..Len(back)  PROVE front[i] # back[j]
      <4>1. Len(front) + j \in 1..Len(some) /\ some[Len(front) + j] = back[j]
        BY <1>3
      <4>2. i # Len(front) + j
        OBVIOUS
      <4>. HIDE DEF some
      <4>. QED  BY <1>1, <3>1, <4>1, <4>2
    <3>. QED  BY <3>2, <3>3 DEF Without
  <2>. HIDE DEF rest
  <2>2. front \in Seq(rest)
    BY <2>1
  <2>3. rest \subseteq few
    BY DEF rest
  <2>. QED  BY <2>2, <2>3, OnlyOfAll
<1>. HIDE DEF some
<1>8. front \o <<>> = front
  OBVIOUS
<1>. QED  BY <1>3, <1>4, <1>5, <1>6, <1>7, <1>8

----------------------------------------------------------------------------
\* Lists put one behind the other.
JoinedUp(lists) ==
  LET joined[n \in 0..Len(lists)] == IF n = 0 THEN <<>> ELSE joined[n - 1] \o lists[n]
  IN  joined[Len(lists)]

JoinedBy(joined, lists) ==
  joined = [n \in 0..Len(lists) |-> IF n = 0 THEN <<>> ELSE joined[n - 1] \o lists[n]]

LEMMA JoinedExists ==
  ASSUME NEW T, NEW lists \in Seq(Seq(T))
  PROVE  \E joined \in [0..Len(lists) -> Seq(T)] : JoinedBy(joined, lists)
<1>. DEFINE N == Len(lists)
            none == <<>>
            Some == Seq(T)
            step == [x \in Some \X (1..N) |-> x[1] \o lists[x[2]]]
<1>1. \A x \in Some \X (1..N) : x[1] \in Seq(T) /\ lists[x[2]] \in Seq(T)
  OBVIOUS
<1>2. step \in [Some \X (1..N) -> Some]
  BY <1>1
<1>3. none \in Some /\ N \in Nat
  OBVIOUS
<1>4. PICK g \in [0..N -> Some] : Steps(g, N, none, step)
  <2>. HIDE DEF step, N, none, Some
  <2>. QED  BY <1>2, <1>3, Recursion
<1>5. \A n \in 1..N : n - 1 \in 0..N /\ g[n - 1] \in Some
  <2>1. \A n \in 1..N : n - 1 \in 0..N
    OBVIOUS
  <2>. HIDE DEF N, Some
  <2>. QED  BY <2>1
<1>6. \A n \in 1..N : g[n] = g[n - 1] \o lists[n]
  <2>. TAKE n \in 1..N
  <2>1. g[n] = step[<<g[n - 1], n>>]
    BY <1>4 DEF Steps
  <2>2. <<g[n - 1], n>> \in Some \X (1..N)
    <3>. HIDE DEF N, Some
    <3>. QED  BY <1>5
  <2>. QED  BY <2>1, <2>2
<1>7. \A n \in 0..N : g[n] = IF n = 0 THEN <<>> ELSE g[n - 1] \o lists[n]
  <2>1. \A n \in 0..N : n = 0 \/ n \in 1..N
    OBVIOUS
  <2>2. g[0] = <<>>
    BY <1>4 DEF Steps
  <2>. HIDE DEF step, N
  <2>. QED  BY <1>6, <2>1, <2>2
<1>8. JoinedBy(g, lists)
  <2>. HIDE DEF step
  <2>. QED  BY <1>4, <1>7 DEF JoinedBy
<1>. QED  BY <1>4, <1>8

LEMMA JoinedSteps ==
  ASSUME NEW T, NEW lists \in Seq(Seq(T))
  PROVE  \E g : /\ g \in [0..Len(lists) -> Seq(T)] /\ g[0] = <<>>
                /\ JoinedUp(lists) = g[Len(lists)]
                /\ \A n \in 1..Len(lists) : g[n] = g[n - 1] \o lists[n]
<1>. DEFINE joined == CHOOSE joined : JoinedBy(joined, lists)
<1>1. \E j : j \in [0..Len(lists) -> Seq(T)] /\ JoinedBy(j, lists)
  BY JoinedExists
<1>2. JoinedBy(joined, lists)
  BY <1>1
<1>3. JoinedUp(lists) = joined[Len(lists)]
  BY DEF JoinedUp, JoinedBy
<1>. HIDE DEF joined
<1>. DEFINE N == Len(lists)
            good == {n \in 0..N : joined[n] \in Seq(T)}
<1>4. N \in Nat /\ \A n \in 1..N : lists[n] \in Seq(T)
  OBVIOUS
<1>5. joined[0] = <<>> /\ \A n \in 1..N : joined[n] = joined[n - 1] \o lists[n]
  BY <1>2 DEF JoinedBy
<1>. HIDE DEF N
<1>6. 0 \in good
  <2>1. 0 \in 0..N /\ <<>> \in Seq(T)
    BY <1>4
  <2>. QED  BY <1>5, <2>1
<1>7. ASSUME NEW n \in 0..(N - 1), n \in good  PROVE n + 1 \in good
  <2>1. n + 1 \in 1..N /\ (n + 1) - 1 = n /\ n + 1 \in 0..N
    BY <1>4
  <2>2. joined[n] \in Seq(T) /\ lists[n + 1] \in Seq(T)
    BY <1>4, <1>7, <2>1
  <2>3. joined[n + 1] = joined[(n + 1) - 1] \o lists[n + 1]
    BY <1>5, <2>1, Zenon
  <2>4. joined[n] \o lists[n + 1] \in Seq(T)
    BY <2>2
  <2>5. joined[n + 1] = joined[n] \o lists[n + 1]
    BY <2>1, <2>3
  <2>. QED  BY <2>1, <2>4, <2>5
<1>8. \A n \in 0..N : joined[n] \in Seq(T)
  <2>1. \A n \in 0..N : n \in good
    <3>. HIDE DEF good
    <3>. QED  BY <1>4, <1>6, <1>7, Climb
  <2>. QED  BY <2>1
<1>9. joined \in [0..N -> Seq(T)]
  <2>1. joined = [n \in 0..N |-> joined[n]]
    BY <1>2 DEF JoinedBy, N
  <2>. QED  BY <1>8, <2>1
<1>. QED  BY <1>3, <1>5, <1>9 DEF N

\* What is defined like them is them.
Grows(g, lists, N) == \A n \in 1..N : g[n] = g[n - 1] \o lists[n]

LEMMA SameSteps ==
  ASSUME NEW N \in Nat, NEW lists, NEW g, NEW h,
         g[0] = h[0] /\ Grows(g, lists, N) /\ Grows(h, lists, N)
  PROVE  g[N] = h[N]
<1>. DEFINE same == {n \in 0..N : g[n] = h[n]}
<1>1. 0 \in same
  OBVIOUS
<1>2. ASSUME NEW n \in 0..(N - 1), n \in same  PROVE n + 1 \in same
  <2>1. n + 1 \in 1..N /\ (n + 1) - 1 = n /\ n + 1 \in 0..N /\ g[n] = h[n]
    BY <1>2
  <2>2. g[n + 1] = g[n] \o lists[n + 1] /\ h[n + 1] = h[n] \o lists[n + 1]
    BY <2>1 DEF Grows
  <2>. QED  BY <2>1, <2>2
<1>3. \A n \in 0..N : n \in same
  <2>. HIDE DEF same
  <2>. QED  BY <1>1, <1>2, Climb
<1>. QED  BY <1>3

\* Flattening adds one list after the other.
FlatBy(flat, lists) ==
  flat = [i \in 1..Len(lists) |-> IF i = 1 THEN lists[i] ELSE flat[i - 1] \o lists[i]]

LEMMA FlatExists ==
  ASSUME NEW T, NEW lists \in Seq(Seq(T)), lists # <<>>
  PROVE  \E flat : FlatBy(flat, lists)
<1>. DEFINE N == Len(lists)
            none == <<>>
            Some == Seq(T)
            step == [x \in Some \X (1..N) |-> IF x[2] = 1 THEN lists[x[2]] ELSE x[1] \o lists[x[2]]]
<1>1. \A x \in Some \X (1..N) : x[1] \in Seq(T) /\ lists[x[2]] \in Seq(T)
  OBVIOUS
<1>2. step \in [Some \X (1..N) -> Some]
  BY <1>1
<1>3. none \in Some /\ N \in Nat
  OBVIOUS
<1>4. PICK g \in [0..N -> Some] : Steps(g, N, none, step)
  <2>. HIDE DEF step, N, none, Some
  <2>. QED  BY <1>2, <1>3, Recursion
<1>5. \A n \in 1..N : <<g[n - 1], n>> \in Some \X (1..N)
  <2>. TAKE n \in 1..N
  <2>1. n - 1 \in 0..N
    OBVIOUS
  <2>2. g[n - 1] \in Some
    <3>. HIDE DEF N, Some
    <3>. QED  BY <2>1
  <2>. HIDE DEF N, Some
  <2>. QED  BY <2>2
<1>6. \A n \in 1..N : g[n] = IF n = 1 THEN lists[n] ELSE g[n - 1] \o lists[n]
  BY <1>4, <1>5 DEF Steps
<1>. DEFINE f == [n \in 1..N |-> g[n]]
<1>7. \A n \in 1..N : f[n] = IF n = 1 THEN lists[n] ELSE f[n - 1] \o lists[n]
  <2>. TAKE n \in 1..N
  <2>1. n # 1 => f[n - 1] = g[n - 1]
    OBVIOUS
  <2>2. f[n] = g[n]
    OBVIOUS
  <2>. HIDE DEF f, step
  <2>. QED  BY <1>6, <2>1, <2>2
<1>8. f = [i \in 1..Len(lists) |-> IF i = 1 THEN lists[i] ELSE f[i - 1] \o lists[i]]
  <2>1. f = [n \in 1..N |-> f[n]]
    OBVIOUS
  <2>. HIDE DEF f
  <2>. QED  BY <1>7, <2>1
<1>. QED  BY <1>8 DEF FlatBy

LEMMA FlatIsJoined ==
  ASSUME NEW T, NEW lists \in Seq(Seq(T)), NEW flat, FlatBy(flat, lists), lists # <<>>
  PROVE  flat[Len(lists)] = JoinedUp(lists)
<1>. DEFINE N == Len(lists)
            g == [n \in 0..N |-> IF n = 0 THEN <<>> ELSE flat[n]]
<1>1. N \in Nat /\ N # 0 /\ \A n \in 1..N : lists[n] \in Seq(T)
  OBVIOUS
<1>2. \A n \in 1..N : flat[n] = IF n = 1 THEN lists[n] ELSE flat[n - 1] \o lists[n]
  BY DEF FlatBy
<1>3. PICK j : j[0] = <<>> /\ JoinedUp(lists) = j[N] /\ \A n \in 1..N : j[n] = j[n - 1] \o lists[n]
  BY JoinedSteps
<1>. HIDE DEF N
<1>4. g[0] = <<>> /\ \A n \in 1..N : g[n] = flat[n] /\ (n # 1 => g[n - 1] = flat[n - 1])
  BY <1>1
<1>. HIDE DEF g
<1>5. \A n \in 1..N : g[n] = g[n - 1] \o lists[n]
  <2>. TAKE n \in 1..N
  <2>1. CASE n = 1
    <3>1. <<>> \o lists[n] = lists[n] /\ g[n - 1] = <<>>
      BY <1>1, <1>4, <2>1
    <3>. QED  BY <1>2, <1>4, <2>1, <3>1
  <2>2. CASE n # 1
    BY <1>2, <1>4, <2>2
  <2>. QED  BY <2>1, <2>2
<1>6. g[0] = j[0] /\ Grows(g, lists, N) /\ Grows(j, lists, N)
  BY <1>3, <1>4, <1>5 DEF Grows
<1>7. g[N] = j[N]
  BY <1>1, <1>6, SameSteps
<1>8. g[N] = flat[N]
  BY <1>1, <1>4
<1>. QED  BY <1>3, <1>7, <1>8 DEF N

LEMMA JoinedOfNothing ==
  ASSUME NEW T, NEW lists \in Seq(Seq(T)), lists = <<>>
  PROVE  JoinedUp(lists) = <<>>
<1>1. PICK g : g[0] = <<>> /\ JoinedUp(lists) = g[Len(lists)]
  BY JoinedSteps
<1>2. Len(lists) = 0
  OBVIOUS
<1>. QED  BY <1>1, <1>2

LEMMA JoinedType ==
  ASSUME NEW T, NEW lists \in Seq(Seq(T))
  PROVE  JoinedUp(lists) \in Seq(T)
<1>1. PICK g : g \in [0..Len(lists) -> Seq(T)] /\ JoinedUp(lists) = g[Len(lists)]
  BY JoinedSteps
<1>. QED  BY <1>1

LEMMA JoinedOfAppend ==
  ASSUME NEW T, NEW lists \in Seq(Seq(T)), NEW list \in Seq(T)
  PROVE  JoinedUp(Append(lists, list)) = JoinedUp(lists) \o list
<1>. DEFINE more == Append(lists, list)
            N == Len(lists)
<1>1. /\ more \in Seq(Seq(T)) /\ Len(more) = N + 1 /\ N \in Nat
      /\ \A n \in 1..N : more[n] = lists[n]
      /\ more[N + 1] = list
  OBVIOUS
<1>. HIDE DEF more, N
<1>2. PICK g : /\ g[0] = <<>> /\ JoinedUp(lists) = g[Len(lists)]
               /\ \A n \in 1..Len(lists) : g[n] = g[n - 1] \o lists[n]
  BY JoinedSteps
<1>3. PICK h : /\ h[0] = <<>> /\ JoinedUp(more) = h[Len(more)]
               /\ \A n \in 1..Len(more) : h[n] = h[n - 1] \o more[n]
  <2>1. \A l \in Seq(Seq(T)) :
          \E k : /\ k \in [0..Len(l) -> Seq(T)] /\ k[0] = <<>>
                 /\ JoinedUp(l) = k[Len(l)]
                 /\ \A n \in 1..Len(l) : k[n] = k[n - 1] \o l[n]
    BY JoinedSteps
  <2>. QED  BY <1>1, <2>1
<1>4. Grows(h, lists, N) /\ Grows(g, lists, N) /\ g[0] = h[0]
  <2>1. \A n \in 1..N : n \in 1..Len(more) /\ more[n] = lists[n]
    BY <1>1
  <2>2. \A n \in 1..N : h[n] = h[n - 1] \o lists[n]
    BY <1>3, <2>1
  <2>. QED  BY <1>2, <1>3, <2>2 DEF Grows, N
<1>5. g[N] = h[N]
  BY <1>1, <1>4, SameSteps
<1>6. h[N + 1] = h[N] \o list
  <2>1. N + 1 \in 1..Len(more) /\ (N + 1) - 1 = N
    BY <1>1
  <2>. QED  BY <1>1, <1>3, <2>1
<1>. QED  BY <1>1, <1>2, <1>3, <1>5, <1>6 DEF more, N

\* A function applied to each element of a list, and the lists it gives joined.
MapOf(f, a) == [i \in 1..Len(a) |-> f[a[i]]]
Each(f, a) == JoinedUp(MapOf(f, a))

\* Named, so that the provers see which function it is.
Maps(f, T, V) == f \in [T -> V]

LEMMA ListOf ==
  ASSUME NEW V, NEW N \in Nat, NEW f, f = [i \in 1..N |-> f[i]], \A i \in 1..N : f[i] \in V
  PROVE  f \in Seq(V) /\ Len(f) = N
<1>1. f \in [1..N -> V]
  OBVIOUS
<1>. QED  BY <1>1

LEMMA MapType ==
  ASSUME NEW T, NEW V, NEW f, Maps(f, T, V)
  PROVE  \A a \in Seq(T) : MapOf(f, a) \in Seq(V)
<1>. f \in [T -> V]
  BY DEF Maps
<1>. TAKE a \in Seq(T)
<1>1. \A i \in 1..Len(a) : f[a[i]] \in V
  OBVIOUS
<1>. QED  BY <1>1 DEF MapOf

LEMMA MapPlaces ==
  ASSUME NEW T, NEW f
  PROVE  \A a \in Seq(T) : /\ Len(MapOf(f, a)) = Len(a)
                           /\ \A i \in 1..Len(a) : MapOf(f, a)[i] = f[a[i]]
BY DEF MapOf

\* c is b behind a, element by element.
GoesOver(c, a, b) ==
  /\ Len(c) = Len(a) + Len(b)
  /\ \A i \in 1..Len(a) : c[i] = a[i]
  /\ \A i \in 1..Len(b) : c[Len(a) + i] = b[i]

LEMMA ConcatIs ==
  ASSUME NEW T, NEW a \in Seq(T), NEW b \in Seq(T), NEW c \in Seq(T), GoesOver(c, a, b)
  PROVE  c = a \o b
<1>. USE DEF GoesOver
<1>. DEFINE v == a \o b
<1>1. v \in Seq(T) /\ Len(v) = Len(a) + Len(b) /\ Len(a) \in Nat /\ Len(b) \in Nat
  OBVIOUS
<1>2. /\ \A i \in 1..Len(a) : v[i] = a[i]
      /\ \A i \in 1..Len(b) : v[Len(a) + i] = b[i]
  OBVIOUS
<1>. HIDE DEF v
<1>3. ASSUME NEW i \in 1..Len(c)  PROVE c[i] = v[i]
  <2>1. CASE i \in 1..Len(a)
    BY <1>2, <2>1
  <2>2. CASE i \notin 1..Len(a)
    <3>1. i - Len(a) \in 1..Len(b) /\ Len(a) + (i - Len(a)) = i
      BY <1>1, <2>2
    <3>2. c[Len(a) + (i - Len(a))] = v[Len(a) + (i - Len(a))]
      BY <1>2, <3>1
    <3>. QED  BY <3>1, <3>2
  <2>. QED  BY <2>1, <2>2
<1>4. c = v
  BY <1>1, <1>3
<1>. QED  BY <1>4 DEF v

\* A function of lists is made piece by piece.
MapSplits(f, T) == \A a, b \in Seq(T) : MapOf(f, a \o b) = MapOf(f, a) \o MapOf(f, b)
EachSplits(f, T) == \A a, b \in Seq(T) : Each(f, a \o b) = Each(f, a) \o Each(f, b)

LEMMA MapOfConcat ==
  ASSUME NEW T, NEW V, NEW f, Maps(f, T, V)
  PROVE  MapSplits(f, T)
<1>. f \in [T -> V]
  BY DEF Maps
<1>. SUFFICES ASSUME NEW a \in Seq(T), NEW b \in Seq(T)
              PROVE  MapOf(f, a \o b) = MapOf(f, a) \o MapOf(f, b)
  BY DEF MapSplits
<1>. DEFINE u == MapOf(f, a \o b)
            p == MapOf(f, a)
            q == MapOf(f, b)
<1>1. a \o b \in Seq(T) /\ Len(a \o b) = Len(a) + Len(b) /\ Len(a) \in Nat /\ Len(b) \in Nat
  OBVIOUS
<1>2. p \in Seq(V) /\ q \in Seq(V) /\ u \in Seq(V)
  BY <1>1, MapType
<1>3. Len(p) = Len(a) /\ \A i \in 1..Len(a) : p[i] = f[a[i]]
  BY DEF MapOf
<1>4. Len(q) = Len(b) /\ \A i \in 1..Len(b) : q[i] = f[b[i]]
  BY DEF MapOf
<1>5. Len(u) = Len(a \o b) /\ \A i \in 1..Len(a \o b) : u[i] = f[(a \o b)[i]]
  BY <1>1 DEF MapOf
<1>. HIDE DEF u, p, q
<1>6. \A i \in 1..Len(p) : u[i] = p[i]
  BY <1>1, <1>3, <1>5
<1>7. \A i \in 1..Len(q) : u[Len(p) + i] = q[i]
  BY <1>1, <1>3, <1>4, <1>5
<1>8. Len(u) = Len(p) + Len(q)
  BY <1>1, <1>3, <1>4, <1>5
<1>9. u = p \o q
  <2>1. GoesOver(u, p, q)
    BY <1>6, <1>7, <1>8 DEF GoesOver
  <2>. QED  BY <1>2, <2>1, ConcatIs
<1>. QED  BY <1>9 DEF u, p, q

LEMMA MapOfAppend ==
  ASSUME NEW T, NEW V, NEW f, Maps(f, T, V), NEW a \in Seq(T), NEW x \in T
  PROVE  MapOf(f, Append(a, x)) = Append(MapOf(f, a), f[x])
<1>. f \in [T -> V]
  BY DEF Maps
<1>. DEFINE u == MapOf(f, Append(a, x))
            v == Append(MapOf(f, a), f[x])
<1>1. /\ Append(a, x) \in Seq(T) /\ Len(Append(a, x)) = Len(a) + 1 /\ Len(a) \in Nat
      /\ Append(a, x)[Len(a) + 1] = x /\ \A i \in 1..Len(a) : Append(a, x)[i] = a[i]
      /\ f[x] \in V
  OBVIOUS
<1>2. MapOf(f, a) \in Seq(V) /\ u \in Seq(V)
  BY <1>1, MapType
<1>3. Len(MapOf(f, a)) = Len(a) /\ \A i \in 1..Len(a) : MapOf(f, a)[i] = f[a[i]]
  BY DEF MapOf
<1>4. Len(u) = Len(a) + 1 /\ \A i \in 1..(Len(a) + 1) : u[i] = f[Append(a, x)[i]]
  BY <1>1 DEF MapOf
<1>5. v \in Seq(V) /\ Len(v) = Len(a) + 1
  BY <1>1, <1>2, <1>3
<1>6. \A i \in 1..(Len(a) + 1) : u[i] = v[i]
  BY <1>1, <1>2, <1>3, <1>4
<1>. HIDE DEF u, v
<1>7. u = v
  BY <1>1, <1>2, <1>4, <1>5, <1>6
<1>. QED  BY <1>7 DEF u, v

LEMMA EachType ==
  ASSUME NEW T, NEW U, NEW f, Maps(f, T, Seq(U)), NEW a \in Seq(T)
  PROVE  Each(f, a) \in Seq(U)
<1>. f \in [T -> Seq(U)]
  BY DEF Maps
<1>1. MapOf(f, a) \in Seq(Seq(U))
  BY MapType
<1>. QED  BY <1>1, JoinedType DEF Each

LEMMA EachOfNothing ==
  ASSUME NEW T, NEW U, NEW f, Maps(f, T, Seq(U)), NEW a \in Seq(T), a = <<>>
  PROVE  Each(f, a) = <<>>
<1>. f \in [T -> Seq(U)]
  BY DEF Maps
<1>1. MapOf(f, a) \in Seq(Seq(U)) /\ Len(MapOf(f, a)) = 0
  <2>1. Len(a) = 0 /\ Len(MapOf(f, a)) = Len(a)
    BY MapPlaces
  <2>. QED  BY <2>1, MapType
<1>2. MapOf(f, a) = <<>>
  BY <1>1
<1>. QED  BY <1>1, <1>2, JoinedOfNothing DEF Each

LEMMA EachOfAppend ==
  ASSUME NEW T, NEW U, NEW f, Maps(f, T, Seq(U)), NEW a \in Seq(T), NEW x \in T
  PROVE  Each(f, Append(a, x)) = Each(f, a) \o f[x]
<1>. f \in [T -> Seq(U)]
  BY DEF Maps
<1>1. MapOf(f, a) \in Seq(Seq(U)) /\ f[x] \in Seq(U)
  BY MapType
<1>2. MapOf(f, Append(a, x)) = Append(MapOf(f, a), f[x])
  BY MapOfAppend
<1>3. \A l \in Seq(Seq(U)), k \in Seq(U) : JoinedUp(Append(l, k)) = JoinedUp(l) \o k
  BY JoinedOfAppend
<1>. QED  BY <1>1, <1>2, <1>3 DEF Each

LEMMA ConcatBehind ==
  ASSUME NEW T, NEW a \in Seq(T), NEW b \in Seq(T), NEW c \in Seq(T)
  PROVE  (a \o b) \o c = a \o (b \o c)
<1>. DEFINE u == (a \o b) \o c
            v == a \o (b \o c)
<1>1. u \in Seq(T) /\ v \in Seq(T) /\ Len(u) = Len(v)
  OBVIOUS
<1>2. \A i \in 1..Len(u) : u[i] = v[i]
  OBVIOUS
<1>. HIDE DEF u, v
<1>3. u = v
  BY <1>1, <1>2
<1>. QED  BY <1>3 DEF u, v

\* Of the lists a function gives, another makes what it makes of each.
LEMMA EachOfConcat ==
  ASSUME NEW T, NEW U, NEW f, Maps(f, T, Seq(U))
  PROVE  EachSplits(f, T)
<1>. f \in [T -> Seq(U)]
  BY DEF Maps
<1>. SUFFICES ASSUME NEW front \in Seq(T)
              PROVE  \A list \in Seq(T) : Each(f, front \o list) = Each(f, front) \o Each(f, list)
  BY DEF EachSplits
<1>. DEFINE holds == {list \in Seq(T) : Each(f, front \o list) = Each(f, front) \o Each(f, list)}
<1>0. \A list \in Seq(T) : Each(f, list) \in Seq(U)
  BY EachType
<1>1. ASSUME NEW list \in Seq(T), list = <<>> PROVE list \in holds
  <2>1. Each(f, list) = <<>>
    BY <1>1, EachOfNothing
  <2>2. front \o list = front
    BY <1>1
  <2>3. Each(f, front) \o Each(f, list) = Each(f, front)
    BY <1>0, <2>1
  <2>. QED  BY <2>2, <2>3
<1>2. ASSUME NEW list \in Seq(T), NEW x \in T, list \in holds
      PROVE  Append(list, x) \in holds
  <2>. DEFINE all == front \o list
  <2>1. /\ all \in Seq(T) /\ Append(list, x) \in Seq(T) /\ f[x] \in Seq(U)
        /\ front \o Append(list, x) = Append(all, x)
        /\ Each(f, all) = Each(f, front) \o Each(f, list)
    BY <1>2
  <2>2. Each(f, Append(list, x)) = Each(f, list) \o f[x]
    BY EachOfAppend
  <2>3. Each(f, Append(all, x)) = Each(f, all) \o f[x]
    <3>1. \A l \in Seq(T) : Each(f, Append(l, x)) = Each(f, l) \o f[x]
      BY EachOfAppend
    <3>. QED  BY <2>1, <3>1
  <2>4. (Each(f, front) \o Each(f, list)) \o f[x] = Each(f, front) \o (Each(f, list) \o f[x])
    <3>1. \A k, l, m \in Seq(U) : (k \o l) \o m = k \o (l \o m)
      BY ConcatBehind
    <3>. QED  BY <1>0, <2>1, <3>1
  <2>. QED  BY <2>1, <2>2, <2>3, <2>4
<1>3. \A list \in Seq(T) : list \in holds
  <2>. HIDE DEF holds
  <2>. QED  BY <1>1, <1>2, ListClimb
<1>. QED  BY <1>3

LEMMA EachOfOne ==
  ASSUME NEW T, NEW U, NEW f, Maps(f, T, Seq(U)), NEW x \in T
  PROVE  Each(f, <<x>>) = f[x]
<1>. f \in [T -> Seq(U)]
  BY DEF Maps
<1>1. <<>> \in Seq(T) /\ Append(<<>>, x) = <<x>> /\ f[x] \in Seq(U)
  OBVIOUS
<1>2. Each(f, Append(<<>>, x)) = Each(f, <<>>) \o f[x]
  <2>1. \A l \in Seq(T) : Each(f, Append(l, x)) = Each(f, l) \o f[x]
    BY EachOfAppend
  <2>. QED  BY <1>1, <2>1
<1>3. Each(f, <<>>) = <<>>
  BY <1>1, EachOfNothing
<1>4. <<>> \o f[x] = f[x]
  BY <1>1
<1>. QED  BY <1>1, <1>2, <1>3, <1>4

EachLeads(f, T) == \A x \in T : \A a \in Seq(T) : Each(f, <<x>> \o a) = f[x] \o Each(f, a)

LEMMA EachBehind ==
  ASSUME NEW T, NEW U, NEW f, Maps(f, T, Seq(U))
  PROVE  EachLeads(f, T)
<1>. SUFFICES ASSUME NEW x \in T, NEW a \in Seq(T)
              PROVE  Each(f, <<x>> \o a) = f[x] \o Each(f, a)
  BY DEF EachLeads
<1>1. <<x>> \in Seq(T)
  OBVIOUS
<1>2. EachSplits(f, T)
  BY EachOfConcat
<1>3. Each(f, <<x>> \o a) = Each(f, <<x>>) \o Each(f, a)
  BY <1>1, <1>2 DEF EachSplits
<1>. QED  BY <1>3, EachOfOne

LEMMA EachOfEach ==
  ASSUME NEW T, NEW U, NEW V, NEW f, Maps(f, T, Seq(U)), NEW g, Maps(g, U, Seq(V)),
         NEW h, Maps(h, T, Seq(V)), \A x \in T : h[x] = Each(g, f[x])
  PROVE  \A list \in Seq(T) : Each(g, Each(f, list)) = Each(h, list)
<1>. f \in [T -> Seq(U)] /\ g \in [U -> Seq(V)] /\ h \in [T -> Seq(V)]
  BY DEF Maps
<1>. DEFINE holds == {list \in Seq(T) : Each(g, Each(f, list)) = Each(h, list)}
<1>0. \A list \in Seq(T) : Each(f, list) \in Seq(U)
  BY EachType
<1>1. ASSUME NEW list \in Seq(T), list = <<>> PROVE list \in holds
  <2>1. Each(f, list) = <<>> /\ Each(h, list) = <<>>
    BY <1>1, EachOfNothing
  <2>2. Each(g, <<>>) = <<>>
    <3>1. <<>> \in Seq(U)
      OBVIOUS
    <3>. QED  BY <3>1, EachOfNothing
  <2>. QED  BY <2>1, <2>2
<1>2. ASSUME NEW list \in Seq(T), NEW x \in T, list \in holds
      PROVE  Append(list, x) \in holds
  <2>1. Append(list, x) \in Seq(T) /\ f[x] \in Seq(U) /\ Each(f, list) \in Seq(U)
    BY <1>0
  <2>2. /\ Each(f, Append(list, x)) = Each(f, list) \o f[x]
        /\ Each(h, Append(list, x)) = Each(h, list) \o h[x]
    BY EachOfAppend
  <2>3. \A k, l \in Seq(U) : Each(g, k \o l) = Each(g, k) \o Each(g, l)
    <3>1. EachSplits(g, U)
      BY EachOfConcat
    <3>. QED  BY <3>1 DEF EachSplits
  <2>4. Each(g, Each(f, list)) = Each(h, list) /\ h[x] = Each(g, f[x])
    BY <1>2
  <2>. QED  BY <2>1, <2>2, <2>3, <2>4
<1>3. \A list \in Seq(T) : list \in holds
  <2>. HIDE DEF holds
  <2>. QED  BY <1>1, <1>2, ListClimb
<1>. QED  BY <1>3

LEMMA OnlyOfEach ==
  ASSUME NEW T, NEW U, NEW keep, NEW f, Maps(f, T, Seq(U)),
         NEW h, Maps(h, T, Seq(U)), \A x \in T : h[x] = Only(f[x], keep)
  PROVE  \A list \in Seq(T) : Only(Each(f, list), keep) = Each(h, list)
<1>. f \in [T -> Seq(U)] /\ h \in [T -> Seq(U)]
  BY DEF Maps
<1>. DEFINE holds == {list \in Seq(T) : Only(Each(f, list), keep) = Each(h, list)}
<1>0. \A list \in Seq(T) : Each(f, list) \in Seq(U)
  BY EachType
<1>1. ASSUME NEW list \in Seq(T), list = <<>> PROVE list \in holds
  <2>1. Each(f, list) = <<>> /\ Each(h, list) = <<>>
    BY <1>1, EachOfNothing
  <2>2. Only(<<>>, keep) = <<>>
    <3>1. <<>> \in Seq(U)
      OBVIOUS
    <3>. QED  BY <3>1, OnlyOfNothing
  <2>. QED  BY <2>1, <2>2
<1>2. ASSUME NEW list \in Seq(T), NEW x \in T, list \in holds
      PROVE  Append(list, x) \in holds
  <2>1. Append(list, x) \in Seq(T) /\ f[x] \in Seq(U) /\ Each(f, list) \in Seq(U)
    BY <1>0
  <2>2. /\ Each(f, Append(list, x)) = Each(f, list) \o f[x]
        /\ Each(h, Append(list, x)) = Each(h, list) \o h[x]
    BY EachOfAppend
  <2>3. \A l \in Seq(U) : Only(Each(f, list) \o l, keep) = Only(Each(f, list), keep) \o Only(l, keep)
    BY <2>1, OnlyOfConcat
  <2>4. Only(Each(f, list), keep) = Each(h, list) /\ h[x] = Only(f[x], keep)
    BY <1>2
  <2>. QED  BY <2>1, <2>2, <2>3, <2>4
<1>3. \A list \in Seq(T) : list \in holds
  <2>. HIDE DEF holds
  <2>. QED  BY <1>1, <1>2, ListClimb
<1>. QED  BY <1>3

LEMMA MapOfEach ==
  ASSUME NEW T, NEW U, NEW V, NEW f, Maps(f, T, Seq(U)), NEW g, Maps(g, U, V),
         NEW h, Maps(h, T, Seq(V)), \A x \in T : h[x] = MapOf(g, f[x])
  PROVE  \A list \in Seq(T) : MapOf(g, Each(f, list)) = Each(h, list)
<1>. f \in [T -> Seq(U)] /\ g \in [U -> V] /\ h \in [T -> Seq(V)]
  BY DEF Maps
<1>. DEFINE holds == {list \in Seq(T) : MapOf(g, Each(f, list)) = Each(h, list)}
<1>0. \A list \in Seq(T) : Each(f, list) \in Seq(U)
  BY EachType
<1>1. ASSUME NEW list \in Seq(T), list = <<>> PROVE list \in holds
  <2>1. Each(f, list) = <<>> /\ Each(h, list) = <<>>
    BY <1>1, EachOfNothing
  <2>2. MapOf(g, <<>>) = <<>>
    BY DEF MapOf
  <2>. QED  BY <2>1, <2>2
<1>2. ASSUME NEW list \in Seq(T), NEW x \in T, list \in holds
      PROVE  Append(list, x) \in holds
  <2>1. Append(list, x) \in Seq(T) /\ f[x] \in Seq(U) /\ Each(f, list) \in Seq(U)
    BY <1>0
  <2>2. /\ Each(f, Append(list, x)) = Each(f, list) \o f[x]
        /\ Each(h, Append(list, x)) = Each(h, list) \o h[x]
    BY EachOfAppend
  <2>3. \A k, l \in Seq(U) : MapOf(g, k \o l) = MapOf(g, k) \o MapOf(g, l)
    <3>1. MapSplits(g, U)
      BY MapOfConcat
    <3>. QED  BY <3>1 DEF MapSplits
  <2>4. MapOf(g, Each(f, list)) = Each(h, list) /\ h[x] = MapOf(g, f[x])
    BY <1>2
  <2>. QED  BY <2>1, <2>2, <2>3, <2>4
<1>3. \A list \in Seq(T) : list \in holds
  <2>. HIDE DEF holds
  <2>. QED  BY <1>1, <1>2, ListClimb
<1>. QED  BY <1>3

\* What a set leaves of a list, and what a function makes of its elements.
LEMMA OnlyIsEach ==
  ASSUME NEW T, NEW keep, NEW f, Maps(f, T, Seq(T)),
         \A x \in T : f[x] = IF x \in keep THEN <<x>> ELSE <<>>
  PROVE  \A list \in Seq(T) : Only(list, keep) = Each(f, list)
<1>. f \in [T -> Seq(T)]
  BY DEF Maps
<1>. DEFINE holds == {list \in Seq(T) : Only(list, keep) = Each(f, list)}
<1>1. \A list \in Seq(T) : list = <<>> => list \in holds
  <2>. TAKE list \in Seq(T)
  <2>. HAVE list = <<>>
  <2>1. Only(list, keep) = <<>> /\ Each(f, list) = <<>>
    BY OnlyOfNothing, EachOfNothing
  <2>. QED  BY <2>1
<1>2. ASSUME NEW list \in Seq(T), NEW x \in T, list \in holds
      PROVE  Append(list, x) \in holds
  <2>1. Append(list, x) \in Seq(T) /\ Only(list, keep) = Each(f, list)
    BY <1>2
  <2>2. Each(f, Append(list, x)) = Each(f, list) \o f[x]
    BY EachOfAppend
  <2>3. Only(Append(list, x), keep) =
          IF x \in keep THEN Append(Only(list, keep), x) ELSE Only(list, keep)
    BY OnlyOfAppend
  <2>4. \A l \in Seq(T) : l \o <<x>> = Append(l, x) /\ l \o <<>> = l
    OBVIOUS
  <2>5. Each(f, list) \in Seq(T)
    BY EachType
  <2>. QED  BY <2>1, <2>2, <2>3, <2>4, <2>5
<1>3. \A list \in Seq(T) : list \in holds
  <2>. HIDE DEF holds
  <2>. QED  BY <1>1, <1>2, ListClimb
<1>. QED  BY <1>3

LEMMA MapIsEach ==
  ASSUME NEW T, NEW V, NEW g, Maps(g, T, V), NEW f, Maps(f, T, Seq(V)), \A x \in T : f[x] = <<g[x]>>
  PROVE  \A list \in Seq(T) : MapOf(g, list) = Each(f, list)
<1>. g \in [T -> V] /\ f \in [T -> Seq(V)]
  BY DEF Maps
<1>. DEFINE holds == {list \in Seq(T) : MapOf(g, list) = Each(f, list)}
<1>1. \A list \in Seq(T) : list = <<>> => list \in holds
  <2>. TAKE list \in Seq(T)
  <2>. HAVE list = <<>>
  <2>1. Each(f, list) = <<>>
    BY EachOfNothing
  <2>2. MapOf(g, <<>>) = <<>>
    BY DEF MapOf
  <2>. QED  BY <2>1, <2>2
<1>2. ASSUME NEW list \in Seq(T), NEW x \in T, list \in holds
      PROVE  Append(list, x) \in holds
  <2>1. Append(list, x) \in Seq(T) /\ MapOf(g, list) = Each(f, list)
    BY <1>2
  <2>2. Each(f, Append(list, x)) = Each(f, list) \o f[x]
    BY EachOfAppend
  <2>3. MapOf(g, Append(list, x)) = Append(MapOf(g, list), g[x])
    BY MapOfAppend
  <2>4. \A l \in Seq(V), v \in V : l \o <<v>> = Append(l, v)
    OBVIOUS
  <2>5. Each(f, list) \in Seq(V) /\ g[x] \in V /\ f[x] = <<g[x]>>
    BY EachType
  <2>. QED  BY <2>1, <2>2, <2>3, <2>4, <2>5
<1>3. \A list \in Seq(T) : list \in holds
  <2>. HIDE DEF holds
  <2>. QED  BY <1>1, <1>2, ListClimb
<1>. QED  BY <1>3

\* Functions that agree on a list's elements make the same of it.
LEMMA EachAgrees ==
  ASSUME NEW T, NEW U, NEW f, Maps(f, T, Seq(U)), NEW g, Maps(g, T, Seq(U)), NEW a \in Seq(T),
         \A i \in 1..Len(a) : f[a[i]] = g[a[i]]
  PROVE  Each(f, a) = Each(g, a)
<1>. f \in [T -> Seq(U)] /\ g \in [T -> Seq(U)]
  BY DEF Maps
<1>1. MapOf(f, a) = MapOf(g, a)
  BY DEF MapOf
<1>. QED  BY <1>1 DEF Each

\* Choosing from what a function gives, by what it is given.
LEMMA OnlyOfMap ==
  ASSUME NEW T, NEW U, NEW g, Maps(g, T, U), NEW keep, NEW few,
         \A x \in T : g[x] \in keep <=> x \in few
  PROVE  \A list \in Seq(T) : Only(MapOf(g, list), keep) = MapOf(g, Only(list, few))
<1>. DEFINE one == [x \in T |-> <<g[x]>>]
            those == [x \in T |-> IF x \in few THEN <<x>> ELSE <<>>]
            gives == [x \in T |-> IF x \in few THEN <<g[x]>> ELSE <<>>]
<1>1. \A x \in T : g[x] \in U
  BY DEF Maps
<1>2. \A x \in T : /\ <<x>> \in Seq(T) /\ <<>> \in Seq(T) /\ <<g[x]>> \in Seq(U) /\ <<>> \in Seq(U)
  BY <1>1
<1>3. /\ Maps(one, T, Seq(U)) /\ \A x \in T : one[x] = <<g[x]>>
      /\ Maps(those, T, Seq(T)) /\ \A x \in T : those[x] = IF x \in few THEN <<x>> ELSE <<>>
      /\ Maps(gives, T, Seq(U)) /\ \A x \in T : gives[x] = IF x \in few THEN <<g[x]>> ELSE <<>>
  BY <1>2 DEF Maps
<1>. HIDE DEF one, those, gives
<1>4. \A list \in Seq(T) : MapOf(g, list) = Each(one, list)
  BY <1>3, MapIsEach
<1>5. \A x \in T : gives[x] = Only(one[x], keep)
  <2>. TAKE x \in T
  <2>1. <<>> \in Seq(U) /\ Append(<<>>, g[x]) = <<g[x]>>
    OBVIOUS
  <2>2. Only(Append(<<>>, g[x]), keep) =
          IF g[x] \in keep THEN Append(Only(<<>>, keep), g[x]) ELSE Only(<<>>, keep)
    <3>1. \A y \in U : Only(Append(<<>>, y), keep) =
                           IF y \in keep THEN Append(Only(<<>>, keep), y) ELSE Only(<<>>, keep)
      BY <2>1, OnlyOfAppend
    <3>. QED  BY <1>1, <3>1
  <2>3. Only(<<>>, keep) = <<>>
    BY <2>1, OnlyOfNothing
  <2>. QED  BY <1>3, <2>1, <2>2, <2>3
<1>6. \A list \in Seq(T) : Only(Each(one, list), keep) = Each(gives, list)
  BY <1>3, <1>5, OnlyOfEach
<1>7. \A list \in Seq(T) : Only(list, few) = Each(those, list)
  BY <1>3, OnlyIsEach
<1>8. \A x \in T : gives[x] = MapOf(g, those[x])
  <2>. TAKE x \in T
  <2>1. MapOf(g, <<x>>) = <<g[x]>> /\ MapOf(g, <<>>) = <<>>
    BY DEF MapOf
  <2>. QED  BY <1>3, <2>1
<1>9. \A list \in Seq(T) : MapOf(g, Each(those, list)) = Each(gives, list)
  BY <1>3, <1>8, MapOfEach
<1>. QED  BY <1>4, <1>6, <1>7, <1>9

\* Where each list begins among those joined, and what stands there.
Offsets(off, lists) ==
  /\ off \in [0..Len(lists) -> Nat] /\ off[0] = 0
  /\ \A n \in 1..Len(lists) : off[n] = off[n - 1] + Len(lists[n])
Stands(off, lists, all) ==
  /\ Len(all) = off[Len(lists)]
  /\ \A n \in 1..Len(lists) : \A k \in 1..Len(lists[n]) : all[off[n - 1] + k] = lists[n][k]
  /\ \A i \in 1..Len(all) : \E n \in 1..Len(lists) : i - off[n - 1] \in 1..Len(lists[n])

LEMMA OffsetsRise ==
  ASSUME NEW T, NEW lists \in Seq(Seq(T)), NEW off, Offsets(off, lists), NEW m \in 0..Len(lists)
  PROVE  \A n \in m..Len(lists) : off[m] <= off[n]
<1>. DEFINE N == Len(lists)
            holds == {n \in 0..N : n >= m => off[m] <= off[n]}
<1>1. N \in Nat /\ \A n \in 0..N : off[n] \in Nat
  <2>1. off \in [0..N -> Nat]
    BY DEF Offsets
  <2>2. N \in Nat
    OBVIOUS
  <2>. HIDE DEF N
  <2>. QED  BY <2>1, <2>2
<1>2. 0 \in holds
  BY <1>1
<1>3. ASSUME NEW n \in 0..(N - 1), n \in holds  PROVE n + 1 \in holds
  <2>1. n + 1 \in 1..N /\ (n + 1) - 1 = n /\ n + 1 \in 0..N /\ n \in 0..N
    BY <1>1
  <2>2. off[n + 1] = off[(n + 1) - 1] + Len(lists[n + 1]) /\ Len(lists[n + 1]) \in Nat
    BY <2>1 DEF Offsets
  <2>3. off[n + 1] >= off[n] /\ off[n] \in Nat /\ off[n + 1] \in Nat /\ off[m] \in Nat
    BY <1>1, <2>1, <2>2
  <2>4. CASE n + 1 = m
    BY <2>1, <2>3, <2>4
  <2>5. CASE n + 1 # m
    BY <1>3, <2>1, <2>3, <2>5
  <2>. QED  BY <2>4, <2>5
<1>4. \A n \in 0..N : n \in holds
  <2>. HIDE DEF holds, N
  <2>. QED  BY <1>1, <1>2, <1>3, Climb
<1>. QED  BY <1>4

LEMMA JoinedPlaces ==
  ASSUME NEW T
  PROVE  \A lists \in Seq(Seq(T)) : \E off : Offsets(off, lists) /\ Stands(off, lists, JoinedUp(lists))
<1>. DEFINE Some == Seq(T)
            holds == {lists \in Seq(Some) :
                        \E off : Offsets(off, lists) /\ Stands(off, lists, JoinedUp(lists))}
<1>1. ASSUME NEW lists \in Seq(Some), lists = <<>>  PROVE lists \in holds
  <2>. DEFINE off == [n \in 0..0 |-> 0]
  <2>1. JoinedUp(lists) = <<>>
    BY <1>1, JoinedOfNothing
  <2>2. Len(lists) = 0 /\ Len(JoinedUp(lists)) = 0 /\ 1..0 = {}
    BY <1>1, <2>1
  <2>3. off \in [0..0 -> Nat] /\ off[0] = 0
    OBVIOUS
  <2>. HIDE DEF off
  <2>4. Offsets(off, lists) /\ Stands(off, lists, JoinedUp(lists))
    BY <2>2, <2>3 DEF Offsets, Stands
  <2>. QED  BY <2>4
<1>2. ASSUME NEW lists \in Seq(Some), NEW list \in Some, lists \in holds
      PROVE  Append(lists, list) \in holds
  <2>. DEFINE N == Len(lists)
              more == Append(lists, list)
              all == JoinedUp(lists)
              longer == all \o list
  <2>1. PICK off : Offsets(off, lists) /\ Stands(off, lists, JoinedUp(lists))
    BY <1>2
  <2>2. all \in Seq(T) /\ JoinedUp(more) = longer
    BY JoinedType, JoinedOfAppend
  <2>3. /\ more \in Seq(Some) /\ Len(more) = N + 1 /\ N \in Nat /\ more[N + 1] = list
        /\ \A n \in 1..N : more[n] = lists[n]
    OBVIOUS
  <2>. HIDE DEF all
  <2>4. /\ Len(longer) = Len(all) + Len(list) /\ Len(all) \in Nat /\ Len(list) \in Nat
        /\ \A i \in 1..Len(all) : longer[i] = all[i]
        /\ \A i \in 1..Len(list) : longer[Len(all) + i] = list[i]
    BY <2>2
  <2>. HIDE DEF N, more, longer
  <2>5. /\ off \in [0..N -> Nat] /\ off[0] = 0 /\ Len(all) = off[N]
        /\ \A n \in 1..N : off[n] = off[n - 1] + Len(lists[n])
    BY <2>1 DEF Offsets, Stands, all, N
  <2>6. /\ \A n \in 1..N : \A k \in 1..Len(lists[n]) : all[off[n - 1] + k] = lists[n][k]
        /\ \A i \in 1..Len(all) : \E n \in 1..N : i - off[n - 1] \in 1..Len(lists[n])
    BY <2>1 DEF Stands, all, N
  <2>. DEFINE to == [n \in 0..(N + 1) |-> IF n = N + 1 THEN off[N] + Len(list) ELSE off[n]]
  <2>7. /\ to \in [0..(N + 1) -> Nat] /\ to[0] = 0 /\ to[N + 1] = off[N] + Len(list)
        /\ \A n \in 0..N : to[n] = off[n]
    BY <2>3, <2>4, <2>5
  <2>. HIDE DEF to
  <2>8. \A n \in 1..(N + 1) : (n = N + 1 \/ n \in 1..N) /\ n - 1 \in 0..N
    BY <2>3
  <2>9. \A n \in 1..(N + 1) : to[n] = to[n - 1] + Len(more[n])
    <3>. TAKE n \in 1..(N + 1)
    <3>1. CASE n = N + 1
      <4>1. n - 1 = N
        BY <2>3, <3>1
      <4>. QED  BY <2>3, <2>7, <2>8, <3>1, <4>1
    <3>2. CASE n \in 1..N
      <4>1. n \in 0..N
        BY <3>2
      <4>. QED  BY <2>3, <2>5, <2>7, <2>8, <3>2, <4>1
    <3>. QED  BY <2>8, <3>1, <3>2
  <2>10. ASSUME NEW n \in 1..(N + 1), NEW k \in 1..Len(more[n])
         PROVE  longer[to[n - 1] + k] = more[n][k]
    <3>1. CASE n = N + 1
      <4>1. n - 1 = N /\ to[n - 1] = Len(all) /\ more[n] = list
        BY <2>3, <2>5, <2>7, <2>8, <3>1
      <4>. QED  BY <2>4, <2>10, <4>1
    <3>2. CASE n \in 1..N
      <4>1. to[n - 1] = off[n - 1] /\ more[n] = lists[n]
        BY <2>3, <2>7, <2>8, <3>2
      <4>2. off[n] <= off[N]
        <5>1. \A m \in 0..Len(lists) : \A j \in m..Len(lists) : off[m] <= off[j]
          BY <2>1, OffsetsRise
        <5>2. n \in 0..Len(lists) /\ N \in n..Len(lists)
          BY <2>3, <3>2 DEF N
        <5>. QED  BY <5>1, <5>2
      <4>3. off[n] = off[n - 1] + Len(lists[n]) /\ off[n - 1] \in Nat /\ Len(lists[n]) \in Nat
        <5>1. lists[n] \in Seq(T)
          BY <3>2 DEF N
        <5>2. n - 1 \in 0..N
          BY <2>3, <3>2
        <5>3. Len(lists[n]) \in Nat
          BY <5>1
        <5>4. off[n - 1] \in Nat
          BY <2>5, <5>2
        <5>. QED  BY <2>5, <3>2, <5>3, <5>4
      <4>4. off[n - 1] + k \in 1..Len(all)
        BY <2>4, <2>5, <2>10, <4>1, <4>2, <4>3
      <4>5. all[off[n - 1] + k] = lists[n][k]
        BY <2>6, <2>10, <3>2, <4>1
      <4>. QED  BY <2>4, <4>1, <4>4, <4>5
    <3>. QED  BY <2>8, <3>1, <3>2
  <2>11. ASSUME NEW i \in 1..Len(longer)
         PROVE  \E n \in 1..(N + 1) : i - to[n - 1] \in 1..Len(more[n])
    <3>1. CASE i \in 1..Len(all)
      <4>1. PICK n \in 1..N : i - off[n - 1] \in 1..Len(lists[n])
        BY <2>6, <3>1
      <4>2. n \in 1..(N + 1) /\ to[n - 1] = off[n - 1] /\ more[n] = lists[n]
        BY <2>3, <2>7, <2>8, <4>1
      <4>. QED  BY <4>1, <4>2
    <3>2. CASE i \notin 1..Len(all)
      <4>1. i - Len(all) \in 1..Len(list)
        BY <2>4, <3>2
      <4>2. N + 1 \in 1..(N + 1) /\ to[(N + 1) - 1] = Len(all) /\ more[N + 1] = list
        BY <2>3, <2>5, <2>7
      <4>. QED  BY <4>1, <4>2
    <3>. QED  BY <3>1, <3>2
  <2>12. Offsets(to, more)
    BY <2>3, <2>7, <2>9 DEF Offsets
  <2>13. Stands(to, more, longer)
    BY <2>3, <2>4, <2>5, <2>7, <2>10, <2>11 DEF Stands
  <2>. QED  BY <2>2, <2>3, <2>12, <2>13 DEF more
<1>3. \A lists \in Seq(Some) : lists \in holds
  <2>. HIDE DEF holds, Some
  <2>. QED  BY <1>1, <1>2, ListClimb
<1>. QED  BY <1>3
=============================================================================
