----------------------------- MODULE ListProofs -----------------------------
(***************************************************************************)
(* Facts about lists and sums for every list and every function, which the *)
(* proofs about the feeds, the book, the toolkit and the training data     *)
(* cite.  What is recursive is shown to satisfy its equation first, by     *)
(* induction in the form of a set that holds 0 and every successor.        *)
(***************************************************************************)
EXTENDS Integers, Filter, FiniteSetsExt, Functions, FiniteSetTheorems, WellFoundedInduction, TLAPS

----------------------------------------------------------------------------
(* Induction *)

(* A set of numbers has a least one. *)
LEMMA LeastOf ==
  ASSUME NEW T \in SUBSET Nat, T # {}
  PROVE  \E m \in T : \A k \in T : m <= k
<1>1. PICK m \in T : \A k \in T : ~ (<<k, m>> \in OpToRel(<, Nat))
  BY NatLessThanWellFounded, WFMin, Zenon
<1>2. \A k \in T : m <= k
  <2>. TAKE k \in T
  <2>1. <<k, m>> \notin OpToRel(<, Nat) /\ m \in Nat /\ k \in Nat
    BY <1>1, Zenon
  <2>. QED
    BY <2>1 DEF OpToRel
<1>. QED
  BY <1>2

(* What holds of 0 and passes to the successor holds of every number. *)
LEMMA AllNumbers ==
  ASSUME NEW T, 0 \in T, \A n \in Nat : n \in T => n + 1 \in T
  PROVE  \A n \in Nat : n \in T
<1>. SUFFICES ASSUME Nat \ T # {} PROVE FALSE
  OBVIOUS
<1>1. PICK m \in Nat \ T : \A k \in Nat \ T : m <= k
  BY LeastOf
<1>2. m - 1 \in Nat /\ m - 1 \in T
  BY <1>1
<1>. QED
  BY <1>1, <1>2

----------------------------------------------------------------------------
(* Running values *)

(* A value that is carried along a list: it starts at start and goes on by *)
(* step, which is a function of the value so far and of the place.         *)
Running(run, start, n, step) ==
  /\ DOMAIN run = 0 .. n /\ run[0] = start
  /\ \A k \in 1 .. n : run[k] = step[<<run[k - 1], k>>]

LEMMA RunningExists ==
  ASSUME NEW X, NEW start \in X, NEW n \in Nat, NEW step \in [X \X (1 .. n) -> X]
  PROVE  \E run \in [0 .. n -> X] : Running(run, start, n, step)
<1>. DEFINE T == {m \in Nat : m <= n => \E run \in [0 .. m -> X] : Running(run, start, m, step)}
<1>1. 0 \in T
  <2>1. PICK run : run = [k \in 0 .. 0 |-> start]
    OBVIOUS
  <2>2. run \in [0 .. 0 -> X] /\ Running(run, start, 0, step)
    BY <2>1 DEF Running
  <2>. QED
    BY <2>2
<1>2. ASSUME NEW m \in Nat, m \in T
      PROVE  m + 1 \in T
  <2>1. SUFFICES ASSUME m + 1 <= n
                 PROVE  \E run \in [0 .. m + 1 -> X] : Running(run, start, m + 1, step)
    OBVIOUS
  <2>2. PICK run \in [0 .. m -> X] : Running(run, start, m, step)
    BY <1>2, <2>1
  <2>3. PICK x : x = step[<<run[m], m + 1>>]
    OBVIOUS
  <2>4. x \in X
    BY <2>1, <2>2, <2>3
  <2>5. PICK next : next = [k \in 0 .. m + 1 |-> IF k = m + 1 THEN x ELSE run[k]]
    OBVIOUS
  <2>6. next \in [0 .. m + 1 -> X]
    BY <2>2, <2>4, <2>5
  <2>7. next[m + 1] = x /\ \A k \in 0 .. m : next[k] = run[k]
    BY <2>5
  <2>8. ASSUME NEW k \in 1 .. m + 1
        PROVE  next[k] = step[<<next[k - 1], k>>]
    <3>1. CASE k = m + 1
      <4>1. k - 1 = m /\ m \in 0 .. m
        BY <3>1
      <4>. QED
        BY <2>3, <2>7, <3>1, <4>1
    <3>2. CASE k \in 1 .. m
      BY <2>2, <2>7, <3>2 DEF Running
    <3>. QED
      BY <3>1, <3>2
  <2>9. next[0] = start
    BY <2>2, <2>7 DEF Running
  <2>. QED
    BY <2>6, <2>8, <2>9 DEF Running
<1>. HIDE DEF T
<1>3. n \in T
  BY <1>1, <1>2, AllNumbers
<1>. QED
  BY <1>3 DEF T

----------------------------------------------------------------------------
(* Filtered lists *)

(* The recursion of Filtered, up to place n of the list. *)
UpTo(list, S, n, part) ==
  part = [k \in 0 .. n |->
            IF k = 0 THEN <<>>
            ELSE IF list[k] \in S THEN Append(part[k - 1], list[k]) ELSE part[k - 1]]

LEMMA UpToExists ==
  ASSUME NEW list, NEW S, NEW n \in Nat
  PROVE  \E part : UpTo(list, S, n, part)
<1>. DEFINE T == {m \in Nat : \E part : UpTo(list, S, m, part)}
<1>1. 0 \in T
  <2>1. UpTo(list, S, 0, [k \in 0 .. 0 |-> <<>>])
    BY DEF UpTo
  <2>. QED
    BY <2>1
<1>2. ASSUME NEW m \in Nat, m \in T
      PROVE  m + 1 \in T
  <2>1. PICK part : UpTo(list, S, m, part)
    BY <1>2
  <2>. DEFINE next == [k \in 0 .. m + 1 |->
                IF k = m + 1
                THEN IF list[k] \in S THEN Append(part[m], list[k]) ELSE part[m]
                ELSE part[k]]
  <2>2. \A k \in 0 .. m : next[k] = part[k]
    OBVIOUS
  <2>3. UpTo(list, S, m + 1, next)
    <3>1. ASSUME NEW k \in 0 .. m + 1
          PROVE  next[k] = IF k = 0 THEN <<>>
                           ELSE IF list[k] \in S THEN Append(next[k - 1], list[k]) ELSE next[k - 1]
      <4>1. CASE k = m + 1
        <5>1. k # 0 /\ k - 1 = m /\ m \in 0 .. m
          BY <4>1
        <5>2. next[m] = part[m]
          BY <5>1, <2>2
        <5>3. next[k] = IF list[k] \in S THEN Append(part[m], list[k]) ELSE part[m]
          BY <4>1
        <5>. QED
          BY <5>1, <5>2, <5>3
      <4>2. CASE k # m + 1
        <5>1. k \in 0 .. m /\ (k # 0 => k - 1 \in 0 .. m)
          BY <4>2
        <5>2. part[k] = IF k = 0 THEN <<>>
                        ELSE IF list[k] \in S THEN Append(part[k - 1], list[k]) ELSE part[k - 1]
          BY <2>1, <5>1 DEF UpTo
        <5>3. next[k] = part[k] /\ (k # 0 => next[k - 1] = part[k - 1])
          BY <2>2, <5>1
        <5>. HIDE DEF next
        <5>. QED
          BY <5>2, <5>3
      <4>. QED
        BY <4>1, <4>2
    <3>2. next = [k \in 0 .. m + 1 |-> next[k]]
      OBVIOUS
    <3>. HIDE DEF next
    <3>. QED
      BY <3>1, <3>2 DEF UpTo
  <2>. QED
    BY <2>3
<1>. HIDE DEF T
<1>3. n \in T
  BY <1>1, <1>2, AllNumbers
<1>. QED
  BY <1>3 DEF T

LEMMA FilteredUpTo ==
  ASSUME NEW X, NEW list \in Seq(X), NEW S
  PROVE  \E part : UpTo(list, S, Len(list), part) /\ Filtered(list, S) = part[Len(list)]
<1>. DEFINE part == CHOOSE p : UpTo(list, S, Len(list), p)
<1>1. \E p : UpTo(list, S, Len(list), p)
  <2>1. Len(list) \in Nat
    OBVIOUS
  <2>. QED
    BY <2>1, UpToExists
<1>2. UpTo(list, S, Len(list), part)
  BY <1>1
<1>3. Filtered(list, S) = part[Len(list)]
  BY DEF Filtered, UpTo
<1>. QED
  BY <1>2, <1>3

(* Where the elements that stay come from: places in their order, and all  *)
(* those whose element is in the set.                                      *)
Places(list, S, n, rest, at) ==
  /\ at \in [1 .. Len(rest) -> 1 .. n]
  /\ \A k \in 1 .. Len(rest) : rest[k] = list[at[k]] /\ list[at[k]] \in S
  /\ \A j, k \in 1 .. Len(rest) : j < k => at[j] < at[k]
  /\ \A i \in 1 .. n : list[i] \in S => \E k \in 1 .. Len(rest) : at[k] = i

LEMMA PlacesAppend ==
  ASSUME NEW X, NEW list \in Seq(X), NEW S, NEW n \in Nat, n + 1 <= Len(list),
         NEW rest \in Seq(X), NEW at, Places(list, S, n, rest, at), list[n + 1] \in S
  PROVE  \E next : Places(list, S, n + 1, Append(rest, list[n + 1]), next)
<1>1. PICK l \in Nat : Len(rest) = l
  OBVIOUS
<1>2. PICK more : more = Append(rest, list[n + 1])
  OBVIOUS
<1>3. /\ more \in Seq(X) /\ Len(more) = l + 1 /\ more[l + 1] = list[n + 1]
      /\ \A k \in 1 .. l : more[k] = rest[k]
  BY <1>1, <1>2
<1>4. /\ at \in [1 .. l -> 1 .. n]
      /\ \A k \in 1 .. l : rest[k] = list[at[k]] /\ list[at[k]] \in S
      /\ \A j, k \in 1 .. l : j < k => at[j] < at[k]
      /\ \A i \in 1 .. n : list[i] \in S => \E k \in 1 .. l : at[k] = i
  BY <1>1 DEF Places
<1>. DEFINE f == [k \in 1 .. l + 1 |-> IF k = l + 1 THEN n + 1 ELSE at[k]]
<1>5. PICK next : next = f
  OBVIOUS
<1>6. l + 1 \in 1 .. l + 1 /\ (\A k \in 1 .. l : k \in 1 .. l + 1 /\ k # l + 1)
  OBVIOUS
<1>7. next[l + 1] = n + 1 /\ \A k \in 1 .. l : next[k] = at[k]
  BY <1>5, <1>6
<1>8. next \in [1 .. l + 1 -> 1 .. n + 1]
  BY <1>4, <1>5
<1>9. \A k \in 1 .. l + 1 : k = l + 1 \/ k \in 1 .. l
  OBVIOUS
<1>10. \A k \in 1 .. l + 1 : more[k] = list[next[k]] /\ list[next[k]] \in S
  BY <1>3, <1>4, <1>7, <1>9
<1>11. ASSUME NEW j \in 1 .. l + 1, NEW k \in 1 .. l + 1, j < k
       PROVE  next[j] < next[k]
  <2>1. j \in 1 .. l /\ next[j] = at[j] /\ at[j] \in 1 .. n
    BY <1>4, <1>7, <1>11
  <2>2. CASE k = l + 1
    BY <2>1, <2>2, <1>7
  <2>3. CASE k \in 1 .. l
    BY <2>1, <2>3, <1>4, <1>7, <1>11
  <2>. QED
    BY <2>2, <2>3, <1>9
<1>12. ASSUME NEW i \in 1 .. n + 1, list[i] \in S
       PROVE  \E k \in 1 .. l + 1 : next[k] = i
  <2>1. CASE i = n + 1
    BY <2>1, <1>6, <1>7
  <2>2. CASE i # n + 1
    <3>1. PICK k \in 1 .. l : at[k] = i
      BY <2>2, <1>4, <1>12
    <3>. QED
      BY <3>1, <1>6, <1>7
  <2>. QED
    BY <2>1, <2>2
<1>13. Places(list, S, n + 1, more, next)
  BY <1>3, <1>8, <1>10, <1>11, <1>12 DEF Places
<1>. QED
  BY <1>2, <1>13

LEMMA PlacesOf ==
  ASSUME NEW X, NEW list \in Seq(X), NEW S
  PROVE  /\ Filtered(list, S) \in Seq(X) /\ Len(Filtered(list, S)) <= Len(list)
         /\ \E at : Places(list, S, Len(list), Filtered(list, S), at)
<1>1. PICK part : UpTo(list, S, Len(list), part) /\ Filtered(list, S) = part[Len(list)]
  BY FilteredUpTo
<1>. DEFINE OK(n) == /\ part[n] \in Seq(X) /\ Len(part[n]) <= n
                     /\ \E at : Places(list, S, n, part[n], at)
            T     == {n \in Nat : n <= Len(list) => OK(n)}
<1>2. 0 \in T
  <2>1. part[0] = <<>>
    BY <1>1 DEF UpTo
  <2>2. Places(list, S, 0, <<>>, <<>>)
    BY DEF Places
  <2>3. <<>> \in Seq(X) /\ Len(<<>>) <= 0
    OBVIOUS
  <2>4. OK(0)
    BY <2>1, <2>2, <2>3
  <2>. HIDE DEF OK
  <2>. QED
    BY <2>4
<1>3. ASSUME NEW n \in Nat, n \in T
      PROVE  n + 1 \in T
  <2>1. ASSUME n + 1 <= Len(list)
        PROVE  OK(n + 1)
    <3>1. part[n] \in Seq(X) /\ Len(part[n]) <= n
      BY <1>3, <2>1
    <3>2. PICK at : Places(list, S, n, part[n], at)
      BY <1>3, <2>1
    <3>3. n + 1 \in 0 .. Len(list) /\ n + 1 # 0 /\ (n + 1) - 1 = n /\ list[n + 1] \in X
      BY <2>1
    <3>4. part[n + 1] = IF list[n + 1] \in S THEN Append(part[n], list[n + 1]) ELSE part[n]
      BY <1>1, <3>3 DEF UpTo
    <3>5. CASE list[n + 1] \in S
      <4>1. part[n + 1] = Append(part[n], list[n + 1])
        BY <3>4, <3>5
      <4>2. \E next : Places(list, S, n + 1, part[n + 1], next)
        BY <3>1, <3>2, <3>5, <4>1, PlacesAppend, <2>1
      <4>. QED
        BY <3>1, <3>3, <4>1, <4>2
    <3>6. CASE list[n + 1] \notin S
      <4>1. Places(list, S, n + 1, part[n], at)
        BY <3>1, <3>2, <3>6 DEF Places
      <4>. QED
        BY <3>1, <3>4, <3>6, <4>1
    <3>. QED
      BY <3>5, <3>6
  <2>. HIDE DEF OK
  <2>. QED
    BY <2>1
<1>. HIDE DEF T
<1>4. Len(list) \in T
  BY <1>2, <1>3, AllNumbers
<1>. QED
  BY <1>1, <1>4 DEF T

(* A filtered list is a list of the same things, and has just those that   *)
(* are in the set.                                                         *)
LEMMA FilteredMembers ==
  ASSUME NEW X, NEW list \in Seq(X), NEW S
  PROVE  /\ Filtered(list, S) \in Seq(X)
         /\ {Filtered(list, S)[k] : k \in DOMAIN Filtered(list, S)}
              = {list[i] : i \in DOMAIN list} \cap S
<1>. DEFINE rest == Filtered(list, S)
<1>1. rest \in Seq(X) /\ DOMAIN rest = 1 .. Len(rest) /\ DOMAIN list = 1 .. Len(list)
  BY PlacesOf
<1>2. PICK at : Places(list, S, Len(list), rest, at)
  BY PlacesOf
<1>. HIDE DEF rest
<1>3. \A k \in DOMAIN rest : \E i \in DOMAIN list : rest[k] = list[i] /\ list[i] \in S
  BY <1>1, <1>2 DEF Places
<1>4. \A i \in DOMAIN list : list[i] \in S => \E k \in DOMAIN rest : rest[k] = list[i]
  <2>. TAKE i \in DOMAIN list
  <2>. HAVE list[i] \in S
  <2>1. PICK k \in 1 .. Len(rest) : at[k] = i
    BY <1>1, <1>2 DEF Places
  <2>. QED
    BY <1>1, <1>2, <2>1 DEF Places
<1>5. {rest[k] : k \in DOMAIN rest} = {list[i] : i \in DOMAIN list} \cap S
  BY <1>3, <1>4
<1>. QED
  BY <1>1, <1>5 DEF rest

(* What is not repeated in a list is not repeated in what stays of it. *)
LEMMA FilteredUnrepeated ==
  ASSUME NEW X, NEW list \in Seq(X), NEW S,
         \A i, j \in DOMAIN list : list[i] = list[j] => i = j
  PROVE  \A j, k \in DOMAIN Filtered(list, S) :
           Filtered(list, S)[j] = Filtered(list, S)[k] => j = k
<1>. DEFINE rest == Filtered(list, S)
<1>1. rest \in Seq(X) /\ DOMAIN rest = 1 .. Len(rest) /\ DOMAIN list = 1 .. Len(list)
  BY PlacesOf
<1>2. PICK at : Places(list, S, Len(list), rest, at)
  BY PlacesOf
<1>. HIDE DEF rest
<1>3. ASSUME NEW j \in DOMAIN rest, NEW k \in DOMAIN rest, rest[j] = rest[k]
      PROVE  j = k
  <2>1. at[j] \in DOMAIN list /\ at[k] \in DOMAIN list /\ list[at[j]] = list[at[k]]
    BY <1>1, <1>2, <1>3 DEF Places
  <2>2. at[j] = at[k]
    BY <2>1
  <2>3. (j < k => at[j] < at[k]) /\ (k < j => at[k] < at[j])
    BY <1>1, <1>2 DEF Places
  <2>. QED
    BY <1>1, <2>1, <2>2, <2>3
<1>. QED
  BY <1>3 DEF rest

----------------------------------------------------------------------------
(* Numbers.  The lesser and the greater, and how products keep an order. *)

LEMMA MinIs ==
  ASSUME NEW S \in SUBSET Int, NEW m \in S, \A k \in S : m <= k
  PROVE  Min(S) = m
<1>1. \A x \in S : (\A y \in S : x <= y) => x = m
  <2>. TAKE x \in S
  <2>. HAVE \A y \in S : x <= y
  <2>1. x <= m /\ m <= x /\ x \in Int /\ m \in Int
    OBVIOUS
  <2>. QED
    BY <2>1
<1>. QED
  BY <1>1 DEF Min

LEMMA MaxIs ==
  ASSUME NEW S \in SUBSET Int, NEW m \in S, \A k \in S : k <= m
  PROVE  Max(S) = m
<1>1. \A x \in S : (\A y \in S : x >= y) => x = m
  <2>. TAKE x \in S
  <2>. HAVE \A y \in S : x >= y
  <2>1. x >= m /\ m >= x /\ x \in Int /\ m \in Int
    OBVIOUS
  <2>. QED
    BY <2>1
<1>. QED
  BY <1>1 DEF Max

LEMMA MinOfTwo ==
  ASSUME NEW a \in Int, NEW b \in Int
  PROVE  Min({a, b}) = IF a <= b THEN a ELSE b
<1>1. CASE a <= b
  BY <1>1, MinIs
<1>2. CASE ~(a <= b)
  BY <1>2, MinIs
<1>. QED
  BY <1>1, <1>2

LEMMA MaxOfTwo ==
  ASSUME NEW a \in Int, NEW b \in Int
  PROVE  Max({a, b}) = IF a >= b THEN a ELSE b
<1>1. CASE a >= b
  BY <1>1, MaxIs
<1>2. CASE ~(a >= b)
  BY <1>2, MaxIs
<1>. QED
  BY <1>1, <1>2

LEMMA TimesKeepsOrder ==
  ASSUME NEW a \in Int, NEW b \in Int, NEW d \in Nat, a <= b
  PROVE  a * d <= b * d
<1>1. PICK e \in Nat : b = a + e
  <2>1. b - a \in Nat /\ b = a + (b - a)
    OBVIOUS
  <2>. QED
    BY <2>1
<1>2. b * d = a * d + e * d /\ e * d \in Nat /\ a * d \in Int
  BY <1>1
<1>. QED
  BY <1>2

LEMMA OrderIsKept ==
  ASSUME NEW a \in Int, NEW b \in Int, NEW d \in Nat, a * d < b * d
  PROVE  a < b
<1>. SUFFICES ASSUME b <= a PROVE FALSE
  OBVIOUS
<1>1. b * d <= a * d /\ a * d \in Int /\ b * d \in Int
  BY TimesKeepsOrder
<1>. QED
  BY <1>1

----------------------------------------------------------------------------
(* Sums.  The sum of a function over a finite set takes one element after  *)
(* the other, in an order of its own; that the order does not matter is    *)
(* shown below, by induction over the size of the set.                     *)

Chosen(s) == CHOOSE x \in s : TRUE

(* The recursion of the sum, over the sets that D holds. *)
SumsUp(f, D, t) ==
  t = [s \in D |-> IF s = {} THEN 0 ELSE f[Chosen(s)] + t[s \ {Chosen(s)}]]

LEMMA SumUnfolds ==
  ASSUME NEW f, NEW S
  PROVE  SumFunctionOnSet(f, S) = (CHOOSE t : SumsUp(f, SUBSET S, t))[S]
BY DEF SumFunctionOnSet, FoldFunctionOnSet, MapThenFoldSet, SumsUp, Chosen

(* One element less. *)
LEMMA LessChosen ==
  ASSUME NEW s, IsFiniteSet(s), s # {}
  PROVE  /\ Chosen(s) \in s /\ IsFiniteSet(s \ {Chosen(s)})
         /\ Cardinality(s \ {Chosen(s)}) = Cardinality(s) - 1 /\ Cardinality(s) \in Nat \ {0}
<1>1. Chosen(s) \in s
  BY DEF Chosen
<1>2. /\ IsFiniteSet(s \ {Chosen(s)})
      /\ Cardinality(s \ {Chosen(s)}) = Cardinality(s) - 1
  BY <1>1, FS_RemoveElement
<1>3. Cardinality(s) \in Nat /\ Cardinality(s) # 0
  BY FS_CardinalityType, FS_EmptySet
<1>. QED
  BY <1>1, <1>2, <1>3

LEMMA SumsExist ==
  ASSUME NEW S, IsFiniteSet(S), NEW f, \A x \in S : f[x] \in Int
  PROVE  \E t : t \in [SUBSET S -> Int] /\ SumsUp(f, SUBSET S, t)
<1>. DEFINE D(m) == {s \in SUBSET S : Cardinality(s) <= m}
            T == {m \in Nat : \E t : t \in [D(m) -> Int] /\ SumsUp(f, D(m), t)}
<1>1. \A s \in SUBSET S : IsFiniteSet(s) /\ Cardinality(s) \in Nat /\ Cardinality(s) <= Cardinality(S)
  BY FS_Subset, FS_CardinalityType
<1>2. 0 \in T
  <2>1. D(0) = {{}}
    <3>1. \A s \in SUBSET S : Cardinality(s) <= 0 <=> s = {}
      BY <1>1, FS_EmptySet
    <3>. QED
      BY <3>1
  <2>2. PICK t : t = [s \in {{}} |-> 0]
    OBVIOUS
  <2>3. t \in [{{}} -> Int] /\ t = [s \in {{}} |-> IF s = {} THEN 0 ELSE f[Chosen(s)] + t[s \ {Chosen(s)}]]
    BY <2>2
  <2>. QED
    BY <2>1, <2>3 DEF SumsUp
<1>3. ASSUME NEW m \in Nat, m \in T PROVE m + 1 \in T
  <2>1. PICK t : t \in [D(m) -> Int] /\ SumsUp(f, D(m), t)
    BY <1>3
  <2>2. PICK small : small = D(m)
    OBVIOUS
  <2>3. PICK large : large = D(m + 1)
    OBVIOUS
  <2>4. \A s \in large : s # {} => s \ {Chosen(s)} \in small /\ Chosen(s) \in S
    <3>. SUFFICES ASSUME NEW s \in large, s # {} PROVE s \ {Chosen(s)} \in small /\ Chosen(s) \in S
      OBVIOUS
    <3>1. s \in SUBSET S /\ Cardinality(s) <= m + 1
      BY <2>3
    <3>2. Chosen(s) \in s /\ Cardinality(s \ {Chosen(s)}) = Cardinality(s) - 1 /\ Cardinality(s) \in Nat
      BY <1>1, <3>1, LessChosen
    <3>3. s \ {Chosen(s)} \in SUBSET S /\ Cardinality(s \ {Chosen(s)}) <= m
      BY <3>1, <3>2
    <3>. QED
      BY <2>2, <3>1, <3>2, <3>3
  <2>5. small \subseteq large
    BY <1>1, <2>2, <2>3
  <2>. HIDE DEF D
  <2>6. PICK u : u = [s \in large |-> IF s = {} THEN 0 ELSE f[Chosen(s)] + t[s \ {Chosen(s)}]]
    OBVIOUS
  <2>7. t \in [small -> Int] /\ t = [s \in small |-> IF s = {} THEN 0 ELSE f[Chosen(s)] + t[s \ {Chosen(s)}]]
    BY <2>1, <2>2 DEF SumsUp
  <2>8. u \in [large -> Int]
    <3>1. ASSUME NEW s \in large, s # {} PROVE f[Chosen(s)] + t[s \ {Chosen(s)}] \in Int
      <4>1. t[s \ {Chosen(s)}] \in Int /\ f[Chosen(s)] \in Int
        BY <2>4, <2>7, <3>1
      <4>. QED
        BY <4>1
    <3>. QED
      BY <2>6, <3>1
  <2>9. \A s \in small : u[s] = t[s]
    <3>. TAKE s \in small
    <3>1. t[s] = IF s = {} THEN 0 ELSE f[Chosen(s)] + t[s \ {Chosen(s)}]
      BY <2>7
    <3>2. u[s] = IF s = {} THEN 0 ELSE f[Chosen(s)] + t[s \ {Chosen(s)}]
      BY <2>5, <2>6
    <3>. QED
      BY <3>1, <3>2
  <2>10. \A s \in large : u[s] = IF s = {} THEN 0 ELSE f[Chosen(s)] + u[s \ {Chosen(s)}]
    BY <2>4, <2>6, <2>9
  <2>11. u = [s \in large |-> IF s = {} THEN 0 ELSE f[Chosen(s)] + u[s \ {Chosen(s)}]]
    BY <2>8, <2>10
  <2>12. SumsUp(f, large, u)
    BY <2>11 DEF SumsUp
  <2>. QED
    BY <2>3, <2>8, <2>12
<1>. HIDE DEF T
<1>4. Cardinality(S) \in T
  BY <1>1, <1>2, <1>3, AllNumbers
<1>5. D(Cardinality(S)) = SUBSET S
  BY <1>1
<1>. HIDE DEF D
<1>. QED
  BY <1>4, <1>5 DEF T

(* Sums over subsets go the same way. *)
LEMMA SumsAgree ==
  ASSUME NEW S, IsFiniteSet(S), NEW R \in SUBSET S, NEW f, NEW t, NEW u,
         SumsUp(f, SUBSET S, t), SumsUp(f, SUBSET R, u)
  PROVE  t[R] = u[R]
<1>. DEFINE T == {m \in Nat : \A s \in SUBSET R : Cardinality(s) = m => t[s] = u[s]}
<1>1. \A s \in SUBSET R : IsFiniteSet(s) /\ Cardinality(s) \in Nat
  BY FS_Subset, FS_CardinalityType
<1>2. \A s \in SUBSET R : /\ t[s] = IF s = {} THEN 0 ELSE f[Chosen(s)] + t[s \ {Chosen(s)}]
                          /\ u[s] = IF s = {} THEN 0 ELSE f[Chosen(s)] + u[s \ {Chosen(s)}]
  <2>. TAKE s \in SUBSET R
  <2>1. s \in SUBSET S
    OBVIOUS
  <2>2. t[s] = IF s = {} THEN 0 ELSE f[Chosen(s)] + t[s \ {Chosen(s)}]
    BY <2>1, Zenon DEF SumsUp
  <2>3. u[s] = IF s = {} THEN 0 ELSE f[Chosen(s)] + u[s \ {Chosen(s)}]
    BY Zenon DEF SumsUp
  <2>. QED
    BY <2>2, <2>3
<1>3. 0 \in T
  BY <1>1, <1>2, FS_EmptySet
<1>4. ASSUME NEW m \in Nat, m \in T PROVE m + 1 \in T
  <2>. SUFFICES ASSUME NEW s \in SUBSET R, Cardinality(s) = m + 1 PROVE t[s] = u[s]
    OBVIOUS
  <2>1. s # {}
    <3>1. Cardinality({}) = 0 /\ m + 1 # 0
      BY FS_EmptySet
    <3>. QED
      BY <3>1
  <2>2. s \ {Chosen(s)} \in SUBSET R /\ Cardinality(s \ {Chosen(s)}) = m
    BY <1>1, <2>1, LessChosen
  <2>3. t[s \ {Chosen(s)}] = u[s \ {Chosen(s)}]
    BY <1>4, <2>2
  <2>. QED
    BY <1>2, <2>1, <2>3
<1>. HIDE DEF T
<1>5. Cardinality(R) \in T
  BY <1>1, <1>3, <1>4, AllNumbers
<1>. QED
  BY <1>1, <1>5 DEF T

(* A sum is a number, 0 over nothing, and else the chosen one and the rest.*)
LEMMA SumStep ==
  ASSUME NEW S, IsFiniteSet(S), NEW f, \A x \in S : f[x] \in Int
  PROVE  /\ SumFunctionOnSet(f, S) \in Int
         /\ S = {} => SumFunctionOnSet(f, S) = 0
         /\ S # {} => SumFunctionOnSet(f, S)
                        = f[Chosen(S)] + SumFunctionOnSet(f, S \ {Chosen(S)})
<1>. DEFINE Of(R) == CHOOSE t : SumsUp(f, SUBSET R, t)
<1>1. \A R \in SUBSET S : SumsUp(f, SUBSET R, Of(R)) /\ SumFunctionOnSet(f, R) = Of(R)[R]
  <2>. TAKE R \in SUBSET S
  <2>1. IsFiniteSet(R) /\ \A x \in R : f[x] \in Int
    BY FS_Subset
  <2>2. \E t : SumsUp(f, SUBSET R, t)
    BY <2>1, SumsExist
  <2>. QED
    BY <2>2, SumUnfolds
<1>. HIDE DEF Of
<1>2. PICK u : u \in [SUBSET S -> Int] /\ SumsUp(f, SUBSET S, u)
  BY SumsExist
<1>3. ASSUME NEW R \in SUBSET S PROVE SumFunctionOnSet(f, R) = u[R]
  <2>1. PICK t : t = Of(R)
    OBVIOUS
  <2>2. SumsUp(f, SUBSET R, t) /\ SumFunctionOnSet(f, R) = t[R]
    BY <1>1, <2>1
  <2>3. u[R] = t[R]
    BY <1>2, <2>2, SumsAgree
  <2>. QED
    BY <2>2, <2>3
<1>4. S \in SUBSET S /\ (S # {} => S \ {Chosen(S)} \in SUBSET S)
  OBVIOUS
<1>5. u[S] = IF S = {} THEN 0 ELSE f[Chosen(S)] + u[S \ {Chosen(S)}]
  BY <1>2, <1>4, Zenon DEF SumsUp
<1>. QED
  BY <1>2, <1>3, <1>4, <1>5

(* Any element may come first. *)
LEMMA SumSplit ==
  ASSUME NEW S, IsFiniteSet(S), NEW f, \A x \in S : f[x] \in Int, NEW a \in S
  PROVE  SumFunctionOnSet(f, S) = f[a] + SumFunctionOnSet(f, S \ {a})
<1>. DEFINE T == {m \in Nat : \A s \in SUBSET S : Cardinality(s) = m =>
                    \A x \in s : SumFunctionOnSet(f, s) = f[x] + SumFunctionOnSet(f, s \ {x})}
<1>1. \A s \in SUBSET S : IsFiniteSet(s) /\ Cardinality(s) \in Nat /\ \A x \in s : f[x] \in Int
  BY FS_Subset, FS_CardinalityType
<1>2. \A s \in SUBSET S : /\ SumFunctionOnSet(f, s) \in Int
                          /\ s # {} => SumFunctionOnSet(f, s) = f[Chosen(s)] + SumFunctionOnSet(f, s \ {Chosen(s)})
  BY <1>1, SumStep
<1>3. 0 \in T
  BY <1>1, FS_EmptySet
<1>4. ASSUME NEW m \in Nat, m \in T PROVE m + 1 \in T
  <2>. SUFFICES ASSUME NEW s \in SUBSET S, Cardinality(s) = m + 1, NEW x \in s
                PROVE  SumFunctionOnSet(f, s) = f[x] + SumFunctionOnSet(f, s \ {x})
    OBVIOUS
  <2>1. PICK c \in s : c = Chosen(s)
    BY LessChosen, <1>1
  <2>2. SumFunctionOnSet(f, s) = f[c] + SumFunctionOnSet(f, s \ {c})
    BY <1>2, <2>1
  <2>3. CASE x = c
    BY <2>2, <2>3
  <2>4. CASE x # c
    <3>1. PICK noC : noC = s \ {c}
      OBVIOUS
    <3>2. PICK noX : noX = s \ {x}
      OBVIOUS
    <3>3. PICK rest : rest = s \ {c, x}
      OBVIOUS
    <3>4. noC \in SUBSET S /\ noX \in SUBSET S /\ rest \in SUBSET S /\ x \in noC /\ c \in noX
      BY <2>4, <3>1, <3>2, <3>3
    <3>5. Cardinality(noC) = m /\ Cardinality(noX) = m
      <4>1. IsFiniteSet(s) /\ c \in s /\ x \in s
        BY <1>1
      <4>2. Cardinality(s \ {c}) = Cardinality(s) - 1 /\ Cardinality(s \ {x}) = Cardinality(s) - 1
        BY <4>1, FS_RemoveElement, Zenon
      <4>. QED
        BY <3>1, <3>2, <4>2
    <3>6. noC \ {x} = rest /\ noX \ {c} = rest
      BY <3>1, <3>2, <3>3
    <3>7. SumFunctionOnSet(f, noC) = f[x] + SumFunctionOnSet(f, rest)
      BY <1>4, <3>4, <3>5, <3>6
    <3>8. SumFunctionOnSet(f, noX) = f[c] + SumFunctionOnSet(f, rest)
      BY <1>4, <3>4, <3>5, <3>6
    <3>9. SumFunctionOnSet(f, rest) \in Int /\ f[x] \in Int /\ f[c] \in Int
      BY <1>1, <1>2, <3>4
    <3>. QED
      BY <2>2, <3>1, <3>2, <3>7, <3>8, <3>9
  <2>. QED
    BY <2>3, <2>4
<1>. HIDE DEF T
<1>5. Cardinality(S) \in T
  BY <1>1, <1>3, <1>4, AllNumbers
<1>. QED
  BY <1>1, <1>5 DEF T

(* A sum of natural numbers is one. *)
LEMMA SumNatural ==
  ASSUME NEW S, IsFiniteSet(S), NEW f, \A x \in S : f[x] \in Nat
  PROVE  SumFunctionOnSet(f, S) \in Nat
<1>. DEFINE T == {m \in Nat : \A s \in SUBSET S : Cardinality(s) = m => SumFunctionOnSet(f, s) \in Nat}
<1>1. \A s \in SUBSET S : IsFiniteSet(s) /\ Cardinality(s) \in Nat /\ \A x \in s : f[x] \in Int
  BY FS_Subset, FS_CardinalityType
<1>2. 0 \in T
  <2>. SUFFICES ASSUME NEW s \in SUBSET S, Cardinality(s) = 0 PROVE SumFunctionOnSet(f, s) \in Nat
    OBVIOUS
  <2>1. s = {}
    BY <1>1, FS_EmptySet
  <2>2. SumFunctionOnSet(f, s) = 0
    BY <1>1, <2>1, SumStep
  <2>. QED
    BY <2>2
<1>3. ASSUME NEW m \in Nat, m \in T PROVE m + 1 \in T
  <2>. SUFFICES ASSUME NEW s \in SUBSET S, Cardinality(s) = m + 1 PROVE SumFunctionOnSet(f, s) \in Nat
    OBVIOUS
  <2>1. s # {}
    <3>1. Cardinality({}) = 0 /\ m + 1 # 0
      BY FS_EmptySet
    <3>. QED
      BY <3>1
  <2>2. s \ {Chosen(s)} \in SUBSET S /\ Cardinality(s \ {Chosen(s)}) = m /\ Chosen(s) \in s
    BY <1>1, <2>1, LessChosen
  <2>3. SumFunctionOnSet(f, s \ {Chosen(s)}) \in Nat /\ f[Chosen(s)] \in Nat
    BY <1>3, <2>2
  <2>4. SumFunctionOnSet(f, s) = f[Chosen(s)] + SumFunctionOnSet(f, s \ {Chosen(s)})
    BY <1>1, <2>1, SumStep
  <2>. QED
    BY <2>3, <2>4
<1>. HIDE DEF T
<1>4. Cardinality(S) \in T
  BY <1>1, <1>2, <1>3, AllNumbers
<1>. QED
  BY <1>1, <1>4 DEF T

(* What is a difference at each place is one in the sum. *)
LEMMA SumDifference ==
  ASSUME NEW S, IsFiniteSet(S), NEW f, NEW g, NEW h,
         \A x \in S : f[x] \in Int /\ g[x] \in Int /\ h[x] = f[x] - g[x]
  PROVE  SumFunctionOnSet(h, S) = SumFunctionOnSet(f, S) - SumFunctionOnSet(g, S)
<1>. DEFINE T == {m \in Nat : \A s \in SUBSET S : Cardinality(s) = m =>
                    SumFunctionOnSet(h, s) = SumFunctionOnSet(f, s) - SumFunctionOnSet(g, s)}
<1>1. \A s \in SUBSET S : IsFiniteSet(s) /\ Cardinality(s) \in Nat
  BY FS_Subset, FS_CardinalityType
<1>2. \A x \in S : h[x] \in Int
  OBVIOUS
<1>3. ASSUME NEW s \in SUBSET S, NEW k, \A x \in s : k[x] \in Int
      PROVE  /\ SumFunctionOnSet(k, s) \in Int
             /\ s = {} => SumFunctionOnSet(k, s) = 0
             /\ s # {} => SumFunctionOnSet(k, s) = k[Chosen(s)] + SumFunctionOnSet(k, s \ {Chosen(s)})
  BY <1>1, <1>3, SumStep
<1>4. 0 \in T
  <2>1. SumFunctionOnSet(f, {}) = 0 /\ SumFunctionOnSet(g, {}) = 0 /\ SumFunctionOnSet(h, {}) = 0
    BY <1>3
  <2>2. \A s \in SUBSET S : Cardinality(s) = 0 => s = {}
    BY <1>1, FS_EmptySet
  <2>3. \A s \in SUBSET S : Cardinality(s) = 0 =>
          SumFunctionOnSet(h, s) = SumFunctionOnSet(f, s) - SumFunctionOnSet(g, s)
    <3>. TAKE s \in SUBSET S
    <3>. HAVE Cardinality(s) = 0
    <3>1. s = {} /\ 0 = 0 - 0
      BY <2>2
    <3>. QED
      BY <2>1, <3>1
  <2>. QED
    BY <2>3
<1>5. ASSUME NEW m \in Nat, m \in T PROVE m + 1 \in T
  <2>. SUFFICES ASSUME NEW s \in SUBSET S, Cardinality(s) = m + 1
                PROVE  SumFunctionOnSet(h, s) = SumFunctionOnSet(f, s) - SumFunctionOnSet(g, s)
    OBVIOUS
  <2>1. s # {}
    <3>1. Cardinality({}) = 0 /\ m + 1 # 0
      BY FS_EmptySet
    <3>. QED
      BY <3>1
  <2>2. PICK c \in s : c = Chosen(s)
    BY <1>1, <2>1, LessChosen
  <2>3. PICK rest \in SUBSET S : rest = s \ {c}
    OBVIOUS
  <2>4. Cardinality(rest) = m
    <3>1. IsFiniteSet(s)
      BY <1>1
    <3>2. Cardinality(s \ {Chosen(s)}) = Cardinality(s) - 1
      BY <2>1, <3>1, LessChosen, Zenon
    <3>3. (m + 1) - 1 = m
      OBVIOUS
    <3>. QED
      BY <2>2, <2>3, <3>2, <3>3
  <2>5. SumFunctionOnSet(h, rest) = SumFunctionOnSet(f, rest) - SumFunctionOnSet(g, rest)
    BY <1>5, <2>4
  <2>6. SumFunctionOnSet(f, s) = f[c] + SumFunctionOnSet(f, rest) /\ SumFunctionOnSet(f, rest) \in Int
    BY <1>3, <2>1, <2>2, <2>3
  <2>7. SumFunctionOnSet(g, s) = g[c] + SumFunctionOnSet(g, rest) /\ SumFunctionOnSet(g, rest) \in Int
    BY <1>3, <2>1, <2>2, <2>3
  <2>8. SumFunctionOnSet(h, s) = h[c] + SumFunctionOnSet(h, rest)
    BY <1>2, <1>3, <2>1, <2>2, <2>3
  <2>9. f[c] \in Int /\ g[c] \in Int /\ h[c] = f[c] - g[c]
    OBVIOUS
  <2>. QED
    BY <2>5, <2>6, <2>7, <2>8, <2>9
<1>. HIDE DEF T
<1>6. Cardinality(S) \in T
  BY <1>1, <1>4, <1>5, AllNumbers
<1>. QED
  BY <1>1, <1>6 DEF T

(* Only what a function is on the set counts. *)
LEMMA SumSame ==
  ASSUME NEW S, IsFiniteSet(S), NEW f, NEW g, \A x \in S : f[x] \in Int /\ g[x] = f[x]
  PROVE  SumFunctionOnSet(g, S) = SumFunctionOnSet(f, S)
<1>1. PICK zero : zero = [x \in S |-> 0]
  OBVIOUS
<1>2. \A x \in S : /\ f[x] \in Int /\ f[x] \in Int /\ zero[x] = f[x] - f[x]
                   /\ g[x] \in Int /\ zero[x] = f[x] - g[x]
  BY <1>1
<1>3. SumFunctionOnSet(zero, S) = SumFunctionOnSet(f, S) - SumFunctionOnSet(f, S)
  BY <1>2, SumDifference
<1>4. SumFunctionOnSet(zero, S) = SumFunctionOnSet(f, S) - SumFunctionOnSet(g, S)
  BY <1>2, SumDifference
<1>5. SumFunctionOnSet(f, S) \in Int
  BY SumStep
<1>6. SumFunctionOnSet(g, S) \in Int
  BY <1>2, SumStep
<1>. QED
  BY <1>3, <1>4, <1>5, <1>6

(* The sum turns round with every part of it. *)
LEMMA SumNegated ==
  ASSUME NEW S, IsFiniteSet(S), NEW f, NEW g, \A x \in S : f[x] \in Int /\ g[x] = -f[x]
  PROVE  SumFunctionOnSet(f, S) + SumFunctionOnSet(g, S) = 0
<1>1. PICK zero : zero = [x \in S |-> 0]
  OBVIOUS
<1>2. \A x \in S : /\ f[x] \in Int /\ f[x] \in Int /\ zero[x] = f[x] - f[x]
                   /\ zero[x] \in Int /\ g[x] = zero[x] - f[x]
  BY <1>1
<1>3. SumFunctionOnSet(zero, S) = SumFunctionOnSet(f, S) - SumFunctionOnSet(f, S)
  BY <1>2, SumDifference
<1>4. SumFunctionOnSet(g, S) = SumFunctionOnSet(zero, S) - SumFunctionOnSet(f, S)
  BY <1>2, SumDifference
<1>5. SumFunctionOnSet(f, S) \in Int
  BY SumStep
<1>. QED
  BY <1>3, <1>4, <1>5

(* One place changes. *)
LEMMA SumChanged ==
  ASSUME NEW S, IsFiniteSet(S), NEW a \in S, NEW f, NEW g, g[a] \in Int,
         \A x \in S : f[x] \in Int, \A x \in S \ {a} : g[x] = f[x]
  PROVE  SumFunctionOnSet(g, S) = SumFunctionOnSet(f, S) - f[a] + g[a]
<1>1. IsFiniteSet(S \ {a}) /\ \A x \in S : g[x] \in Int
  BY FS_Subset
<1>2. SumFunctionOnSet(g, S \ {a}) = SumFunctionOnSet(f, S \ {a})
  BY <1>1, SumSame
<1>3. SumFunctionOnSet(f, S) = f[a] + SumFunctionOnSet(f, S \ {a})
  BY SumSplit
<1>4. SumFunctionOnSet(g, S) = g[a] + SumFunctionOnSet(g, S \ {a})
  BY <1>1, SumSplit
<1>5. SumFunctionOnSet(f, S \ {a}) \in Int
  BY <1>1, SumStep
<1>. QED
  BY <1>2, <1>3, <1>4, <1>5

(* A list grows by one. *)
LEMMA SumAppended ==
  ASSUME NEW n \in Nat, NEW f, NEW g, g[n + 1] \in Int,
         \A i \in 1 .. n : f[i] \in Int /\ g[i] = f[i]
  PROVE  SumFunctionOnSet(g, 1 .. n + 1) = SumFunctionOnSet(f, 1 .. n) + g[n + 1]
<1>1. IsFiniteSet(1 .. n) /\ IsFiniteSet(1 .. n + 1)
  BY FS_Interval
<1>2. (1 .. n + 1) \ {n + 1} = 1 .. n /\ n + 1 \in 1 .. n + 1
  OBVIOUS
<1>3. \A i \in 1 .. n + 1 : g[i] \in Int
  OBVIOUS
<1>4. SumFunctionOnSet(g, 1 .. n + 1) = g[n + 1] + SumFunctionOnSet(g, 1 .. n)
  BY <1>1, <1>2, <1>3, SumSplit
<1>5. SumFunctionOnSet(g, 1 .. n) = SumFunctionOnSet(f, 1 .. n)
  BY <1>1, SumSame
<1>6. SumFunctionOnSet(f, 1 .. n) \in Int
  BY <1>1, SumStep
<1>. QED
  BY <1>4, <1>5, <1>6
(* The places of a list move together. *)
LEMMA SumShifted ==
  ASSUME NEW n \in Nat, NEW k \in Int, NEW f, NEW g, \A i \in 1 .. n : f[i] \in Int /\ g[k + i] = f[i]
  PROVE  SumFunctionOnSet(g, k + 1 .. k + n) = SumFunctionOnSet(f, 1 .. n)
<1>. DEFINE T == {m \in Nat : m <= n => SumFunctionOnSet(g, k + 1 .. k + m) = SumFunctionOnSet(f, 1 .. m)}
<1>1. 0 \in T
  <2>1. k + 1 .. k + 0 = {} /\ 1 .. 0 = {}
    OBVIOUS
  <2>2. SumFunctionOnSet(g, {}) = 0 /\ SumFunctionOnSet(f, {}) = 0
    BY SumStep, FS_EmptySet
  <2>3. SumFunctionOnSet(g, k + 1 .. k + 0) = SumFunctionOnSet(f, 1 .. 0)
    BY <2>1, <2>2, Zenon
  <2>. QED
    BY <2>3
<1>2. ASSUME NEW m \in Nat, m \in T
      PROVE  m + 1 \in T
  <2>1. ASSUME m + 1 <= n
        PROVE  SumFunctionOnSet(g, k + 1 .. k + (m + 1)) = SumFunctionOnSet(f, 1 .. m + 1)
    <3>1. PICK a : a = k + (m + 1)
      OBVIOUS
    <3>2. PICK S : S = k + 1 .. k + (m + 1)
      OBVIOUS
    <3>3. PICK R : R = 1 .. m + 1
      OBVIOUS
    <3>4. IsFiniteSet(S) /\ IsFiniteSet(R)
      BY <3>2, <3>3, FS_Interval
    <3>5. a \in S /\ S \ {a} = k + 1 .. k + m
      BY <3>1, <3>2
    <3>6. m + 1 \in R /\ R \ {m + 1} = 1 .. m
      BY <3>3
    <3>7. \A i \in R : f[i] \in Int
      BY <2>1, <3>3
    <3>8. \A x \in S : g[x] \in Int
      <4>. TAKE x \in S
      <4>1. PICK i \in 1 .. n : x = k + i
        <5>1. x - k \in 1 .. n /\ x = k + (x - k)
          BY <2>1, <3>2
        <5>. QED
          BY <5>1
      <4>. QED
        BY <4>1
    <3>9. SumFunctionOnSet(g, S) = g[a] + SumFunctionOnSet(g, S \ {a})
      BY <3>4, <3>5, <3>8, SumSplit
    <3>10. SumFunctionOnSet(f, R) = f[m + 1] + SumFunctionOnSet(f, R \ {m + 1})
      BY <3>4, <3>6, <3>7, SumSplit
    <3>11. g[a] = f[m + 1]
      BY <2>1, <3>1
    <3>12. SumFunctionOnSet(g, k + 1 .. k + m) = SumFunctionOnSet(f, 1 .. m)
      BY <1>2, <2>1
    <3>13. SumFunctionOnSet(g, S) = SumFunctionOnSet(f, R)
      BY <3>5, <3>6, <3>9, <3>10, <3>11, <3>12, Zenon
    <3>. QED
      BY <3>2, <3>3, <3>13, Zenon
  <2>. QED
    BY <2>1
<1>. HIDE DEF T
<1>3. n \in T
  BY <1>1, <1>2, AllNumbers
<1>. QED
  BY <1>3 DEF T

(* What is a sum at each place is one in the sum. *)
LEMMA SumAdded ==
  ASSUME NEW S, IsFiniteSet(S), NEW f, NEW g, NEW h,
         \A x \in S : f[x] \in Int /\ g[x] \in Int /\ h[x] = f[x] + g[x]
  PROVE  SumFunctionOnSet(h, S) = SumFunctionOnSet(f, S) + SumFunctionOnSet(g, S)
<1>1. \A x \in S : h[x] \in Int /\ g[x] \in Int /\ f[x] = h[x] - g[x]
  OBVIOUS
<1>2. SumFunctionOnSet(f, S) = SumFunctionOnSet(h, S) - SumFunctionOnSet(g, S)
  BY <1>1, SumDifference
<1>3. SumFunctionOnSet(h, S) \in Int /\ SumFunctionOnSet(g, S) \in Int
  BY <1>1, SumStep
<1>. QED
  BY <1>2, <1>3

(* What is a multiple at each place is one in the sum. *)
LEMMA SumScaled ==
  ASSUME NEW S, IsFiniteSet(S), NEW d \in Int, NEW f, NEW g,
         \A x \in S : f[x] \in Int /\ g[x] = d * f[x]
  PROVE  SumFunctionOnSet(g, S) = d * SumFunctionOnSet(f, S)
<1>. DEFINE T == {m \in Nat : \A s \in SUBSET S : Cardinality(s) = m =>
                    SumFunctionOnSet(g, s) = d * SumFunctionOnSet(f, s)}
<1>1. \A s \in SUBSET S : IsFiniteSet(s) /\ Cardinality(s) \in Nat
  BY FS_Subset, FS_CardinalityType
<1>2. \A x \in S : g[x] \in Int
  <2>. TAKE x \in S
  <2>1. f[x] \in Int /\ g[x] = d * f[x]
    OBVIOUS
  <2>. QED
    BY <2>1
<1>3. ASSUME NEW s \in SUBSET S, NEW k, \A x \in s : k[x] \in Int
      PROVE  /\ SumFunctionOnSet(k, s) \in Int
             /\ s = {} => SumFunctionOnSet(k, s) = 0
             /\ s # {} => SumFunctionOnSet(k, s) = k[Chosen(s)] + SumFunctionOnSet(k, s \ {Chosen(s)})
  BY <1>1, <1>3, SumStep
<1>4. 0 \in T
  <2>. SUFFICES ASSUME NEW s \in SUBSET S, Cardinality(s) = 0
                PROVE  SumFunctionOnSet(g, s) = d * SumFunctionOnSet(f, s)
    OBVIOUS
  <2>1. s = {}
    BY <1>1, FS_EmptySet
  <2>2. SumFunctionOnSet(f, s) = 0 /\ SumFunctionOnSet(g, s) = 0
    BY <1>3, <2>1
  <2>. QED
    BY <2>2
<1>5. ASSUME NEW m \in Nat, m \in T PROVE m + 1 \in T
  <2>. SUFFICES ASSUME NEW s \in SUBSET S, Cardinality(s) = m + 1
                PROVE  SumFunctionOnSet(g, s) = d * SumFunctionOnSet(f, s)
    OBVIOUS
  <2>1. s # {}
    <3>1. Cardinality({}) = 0 /\ m + 1 # 0
      BY FS_EmptySet
    <3>. QED
      BY <3>1
  <2>2. Chosen(s) \in s /\ Cardinality(s \ {Chosen(s)}) = m /\ s \ {Chosen(s)} \in SUBSET S
    BY <1>1, <2>1, LessChosen
  <2>3. PICK c \in s : c = Chosen(s)
    BY <2>2
  <2>4. PICK rest \in SUBSET S : rest = s \ {Chosen(s)}
    BY <2>2
  <2>5. PICK x \in Int, y \in Int : x = f[c] /\ y = SumFunctionOnSet(f, rest)
    <3>1. f[c] \in Int /\ SumFunctionOnSet(f, rest) \in Int
      BY <1>3
    <3>. QED
      BY <3>1
  <2>6. SumFunctionOnSet(f, s) = x + y
    BY <1>3, <2>1, <2>3, <2>4, <2>5
  <2>7. SumFunctionOnSet(g, s) = g[c] + SumFunctionOnSet(g, rest)
    BY <1>2, <1>3, <2>1, <2>3, <2>4
  <2>8. SumFunctionOnSet(g, rest) = d * y
    BY <1>5, <2>2, <2>4, <2>5
  <2>9. g[c] = d * x
    BY <2>5
  <2>10. d * (x + y) = d * x + d * y
    OBVIOUS
  <2>. QED
    BY <2>6, <2>7, <2>8, <2>9, <2>10
<1>. HIDE DEF T
<1>6. Cardinality(S) \in T
  BY <1>1, <1>4, <1>5, AllNumbers
<1>. QED
  BY <1>1, <1>6 DEF T

(* The same number at every place. *)
LEMMA SumOfSame ==
  ASSUME NEW S, IsFiniteSet(S), NEW d \in Int, NEW f, \A x \in S : f[x] = d
  PROVE  SumFunctionOnSet(f, S) = d * Cardinality(S)
<1>1. PICK one : one = [x \in S |-> 1]
  OBVIOUS
<1>. DEFINE T == {m \in Nat : \A s \in SUBSET S : Cardinality(s) = m => SumFunctionOnSet(one, s) = m}
<1>2. \A s \in SUBSET S : IsFiniteSet(s) /\ Cardinality(s) \in Nat /\ \A x \in s : one[x] = 1 /\ one[x] \in Int
  BY <1>1, FS_Subset, FS_CardinalityType
<1>3. 0 \in T
  <2>. SUFFICES ASSUME NEW s \in SUBSET S, Cardinality(s) = 0 PROVE SumFunctionOnSet(one, s) = 0
    OBVIOUS
  <2>1. s = {}
    BY <1>2, FS_EmptySet
  <2>. QED
    BY <1>2, <2>1, SumStep
<1>4. ASSUME NEW m \in Nat, m \in T PROVE m + 1 \in T
  <2>. SUFFICES ASSUME NEW s \in SUBSET S, Cardinality(s) = m + 1 PROVE SumFunctionOnSet(one, s) = m + 1
    OBVIOUS
  <2>1. s # {}
    <3>1. Cardinality({}) = 0 /\ m + 1 # 0
      BY FS_EmptySet
    <3>. QED
      BY <3>1
  <2>2. s \ {Chosen(s)} \in SUBSET S /\ Cardinality(s \ {Chosen(s)}) = m /\ Chosen(s) \in s
    BY <1>2, <2>1, LessChosen
  <2>3. SumFunctionOnSet(one, s \ {Chosen(s)}) = m /\ one[Chosen(s)] = 1
    BY <1>2, <1>4, <2>2
  <2>4. SumFunctionOnSet(one, s) = one[Chosen(s)] + SumFunctionOnSet(one, s \ {Chosen(s)})
    BY <1>2, <2>1, SumStep
  <2>. QED
    BY <2>3, <2>4
<1>. HIDE DEF T
<1>5. Cardinality(S) \in T
  BY <1>2, <1>3, <1>4, AllNumbers
<1>6. SumFunctionOnSet(one, S) = Cardinality(S)
  BY <1>2, <1>5 DEF T
<1>7. \A x \in S : one[x] \in Int /\ f[x] = d * one[x]
  BY <1>1
<1>. QED
  BY <1>6, <1>7, SumScaled

(* A single place that counts. *)
LEMMA SumOfOne ==
  ASSUME NEW S, IsFiniteSet(S), NEW a \in S, NEW f, f[a] \in Int, \A x \in S \ {a} : f[x] = 0
  PROVE  SumFunctionOnSet(f, S) = f[a]
<1>1. PICK R : R = S \ {a}
  OBVIOUS
<1>2. IsFiniteSet(R) /\ \A x \in R : f[x] \in Int /\ f[x] = 0 * f[x]
  <2>1. IsFiniteSet(S \ {a})
    BY FS_Subset
  <2>. QED
    BY <1>1, <2>1
<1>3. SumFunctionOnSet(f, R) = 0 * SumFunctionOnSet(f, R)
  <2>1. 0 \in Int
    OBVIOUS
  <2>. QED
    BY <1>2, <2>1, SumScaled
<1>4. SumFunctionOnSet(f, R) \in Int
  BY <1>2, SumStep
<1>5. SumFunctionOnSet(f, S) = f[a] + SumFunctionOnSet(f, R)
  <2>1. \A x \in S : f[x] \in Int
    BY <1>1, <1>2
  <2>. QED
    BY <1>1, <2>1, SumSplit
<1>. QED
  BY <1>3, <1>4, <1>5

(* A table has one total, by its rows or by its columns. *)
TotalsOf(row, S, R) == [x \in S |-> SumFunctionOnSet(row[x], R)]

LEMMA SumExchange ==
  ASSUME NEW S, IsFiniteSet(S), NEW R, IsFiniteSet(R), NEW row, NEW column,
         \A x \in S : \A y \in R : row[x][y] \in Int,
         \A x \in S : \A y \in R : column[y][x] = row[x][y]
  PROVE  SumFunctionOnSet(TotalsOf(row, S, R), S) = SumFunctionOnSet(TotalsOf(column, R, S), R)
<1>11. PICK rows : rows = TotalsOf(row, S, R)
  OBVIOUS
<1>. DEFINE Upper(s) == [y \in R |-> SumFunctionOnSet(column[y], s)]
            T == {m \in Nat : \A s \in SUBSET S : Cardinality(s) = m =>
                    SumFunctionOnSet(rows, s) = SumFunctionOnSet(Upper(s), R)}
<1>1. \A s \in SUBSET S : IsFiniteSet(s) /\ Cardinality(s) \in Nat
  BY FS_Subset, FS_CardinalityType
<1>2. \A x \in S : rows[x] \in Int /\ rows[x] = SumFunctionOnSet(row[x], R)
  <2>. SUFFICES ASSUME NEW x \in S PROVE SumFunctionOnSet(row[x], R) \in Int
    BY <1>11 DEF TotalsOf
  <2>. QED
    BY SumStep
<1>3. ASSUME NEW s \in SUBSET S, NEW y \in R
      PROVE  /\ SumFunctionOnSet(column[y], s) \in Int
             /\ s = {} => SumFunctionOnSet(column[y], s) = 0
             /\ s # {} => SumFunctionOnSet(column[y], s)
                            = column[y][Chosen(s)] + SumFunctionOnSet(column[y], s \ {Chosen(s)})
  <2>1. IsFiniteSet(s) /\ \A x \in s : column[y][x] \in Int
    BY <1>1
  <2>. QED
    BY <2>1, SumStep
<1>4. \A s \in SUBSET S : \A y \in R : Upper(s)[y] \in Int /\ Upper(s)[y] = SumFunctionOnSet(column[y], s)
  BY <1>3
<1>. HIDE DEF Upper
<1>5. 0 \in T
  <2>. SUFFICES ASSUME NEW s \in SUBSET S, Cardinality(s) = 0
                PROVE  SumFunctionOnSet(rows, s) = SumFunctionOnSet(Upper(s), R)
    OBVIOUS
  <2>1. s = {}
    BY <1>1, FS_EmptySet
  <2>2. SumFunctionOnSet(rows, s) = 0
    BY <1>1, <1>2, <2>1, SumStep
  <2>3. \A y \in R : Upper(s)[y] = 0
    BY <1>3, <1>4, <2>1
  <2>4. PICK u : u = Upper(s)
    OBVIOUS
  <2>5. \A y \in R : u[y] \in Int /\ u[y] \in Int /\ u[y] = u[y] - u[y]
    BY <2>3, <2>4
  <2>6. SumFunctionOnSet(u, R) \in Int
    BY <2>5, SumStep
  <2>7. SumFunctionOnSet(u, R) = SumFunctionOnSet(u, R) - SumFunctionOnSet(u, R)
    BY <2>5, SumDifference
  <2>. QED
    BY <2>2, <2>4, <2>6, <2>7
<1>6. ASSUME NEW m \in Nat, m \in T PROVE m + 1 \in T
  <2>. SUFFICES ASSUME NEW s \in SUBSET S, Cardinality(s) = m + 1
                PROVE  SumFunctionOnSet(rows, s) = SumFunctionOnSet(Upper(s), R)
    OBVIOUS
  <2>1. s # {}
    <3>1. Cardinality({}) = 0 /\ m + 1 # 0
      BY FS_EmptySet
    <3>. QED
      BY <3>1
  <2>2. Chosen(s) \in s /\ Cardinality(s \ {Chosen(s)}) = m /\ s \ {Chosen(s)} \in SUBSET S
    BY <1>1, <2>1, LessChosen
  <2>3. PICK c \in S : c = Chosen(s)
    BY <2>2
  <2>4. PICK rest \in SUBSET S : rest = s \ {Chosen(s)}
    BY <2>2
  <2>5. SumFunctionOnSet(rows, s) = rows[c] + SumFunctionOnSet(rows, rest)
    <3>1. IsFiniteSet(s) /\ \A x \in s : rows[x] \in Int
      BY <1>1, <1>2
    <3>. QED
      BY <2>1, <2>3, <2>4, <3>1, SumStep
  <2>6. SumFunctionOnSet(rows, rest) = SumFunctionOnSet(Upper(rest), R)
    BY <1>6, <2>2, <2>4
  <2>7. PICK u, v, w : u = row[c] /\ v = Upper(rest) /\ w = Upper(s)
    OBVIOUS
  <2>8. ASSUME NEW y \in R PROVE u[y] \in Int /\ v[y] \in Int /\ w[y] = u[y] + v[y]
    <3>1. w[y] = column[y][c] + SumFunctionOnSet(column[y], rest)
      BY <1>3, <1>4, <2>1, <2>3, <2>4, <2>7
    <3>2. v[y] \in Int /\ v[y] = SumFunctionOnSet(column[y], rest)
      BY <1>4, <2>7
    <3>3. u[y] \in Int /\ column[y][c] = u[y]
      BY <2>7
    <3>. QED
      BY <3>1, <3>2, <3>3
  <2>9. SumFunctionOnSet(w, R) = SumFunctionOnSet(u, R) + SumFunctionOnSet(v, R)
    BY <2>8, SumAdded
  <2>10. rows[c] = SumFunctionOnSet(u, R)
    BY <1>2, <2>7
  <2>. QED
    BY <2>5, <2>6, <2>7, <2>9, <2>10
<1>. HIDE DEF T
<1>7. Cardinality(S) \in T
  BY <1>1, <1>5, <1>6, AllNumbers
<1>8. SumFunctionOnSet(rows, S) = SumFunctionOnSet(Upper(S), R)
  BY <1>1, <1>7 DEF T
<1>9. Upper(S) = TotalsOf(column, R, S)
  BY DEF Upper, TotalsOf
<1>. QED
  BY <1>8, <1>9, <1>11, Zenon

(* The differences of a row of numbers leave its ends. *)
LEMMA SumTelescopes ==
  ASSUME NEW n \in Nat, NEW edge, NEW f, \A i \in 0 .. n : edge[i] \in Int,
         \A i \in 1 .. n : f[i] = edge[i] - edge[i - 1]
  PROVE  SumFunctionOnSet(f, 1 .. n) = edge[n] - edge[0]
<1>. DEFINE T == {m \in Nat : m <= n => SumFunctionOnSet(f, 1 .. m) = edge[m] - edge[0]}
<1>1. 0 \in T
  <2>1. SumFunctionOnSet(f, {}) = 0 /\ 1 .. 0 = {}
    BY SumStep, FS_EmptySet
  <2>2. edge[0] \in Int
    OBVIOUS
  <2>3. edge[0] - edge[0] = 0
    BY <2>2
  <2>. QED
    BY <2>1, <2>3
<1>2. ASSUME NEW m \in Nat, m \in T PROVE m + 1 \in T
  <2>. SUFFICES ASSUME m + 1 <= n
                PROVE  SumFunctionOnSet(f, 1 .. m + 1) = edge[m + 1] - edge[0]
    OBVIOUS
  <2>1. ASSUME NEW i \in 1 .. m + 1 PROVE f[i] \in Int
    <3>1. i \in 1 .. n /\ i \in 0 .. n /\ i - 1 \in 0 .. n
      OBVIOUS
    <3>2. edge[i] \in Int /\ edge[i - 1] \in Int /\ f[i] = edge[i] - edge[i - 1]
      BY <3>1
    <3>. QED
      BY <3>2
  <2>2. SumFunctionOnSet(f, 1 .. m + 1) = SumFunctionOnSet(f, 1 .. m) + f[m + 1]
    <3>1. f[m + 1] \in Int /\ \A i \in 1 .. m : f[i] \in Int /\ f[i] = f[i]
      BY <2>1
    <3>. QED
      BY <3>1, SumAppended
  <2>3. SumFunctionOnSet(f, 1 .. m) = edge[m] - edge[0]
    BY <1>2
  <2>4. m + 1 \in 1 .. n /\ m + 1 - 1 = m /\ m \in 0 .. n /\ 0 \in 0 .. n /\ m + 1 \in 0 .. n
    OBVIOUS
  <2>5. f[m + 1] = edge[m + 1] - edge[m]
    BY <2>4
  <2>6. edge[m] \in Int /\ edge[0] \in Int /\ edge[m + 1] \in Int
    BY <2>4
  <2>. QED
    BY <2>2, <2>3, <2>5, <2>6
<1>. HIDE DEF T
<1>3. n \in T
  BY <1>1, <1>2, AllNumbers
<1>. QED
  BY <1>3 DEF T
=============================================================================
