---------------------------- MODULE TurnOrderProofs ----------------------------
(***************************************************************************)
(* The types of TurnOrder, that its numbers stay unique, that only a       *)
(* listing others came into changes the order of turns, that no text is    *)
(* lost, and that a request that met no other does what it promises.       *)
(***************************************************************************)
EXTENDS TurnOrder, FiniteSetTheorems, WellFoundedInduction, TLAPS

USE TurnOrderAssumption

\* Rows of a request come with its last commits.
Fresh ==
    \A q \in Reqs : pc[q] \notin {"list", "passes", "over"} =>
        /\ \A t \in DOMAIN rows : rows[t].by # q
        /\ \A t \in DOMAIN disk : disk[t].by # q
        /\ \A r \in Reqs : \A t \in DOMAIN seen[r] : seen[r][t].by # q

\* A listing numbers its rows below their count, each once.
SeenOK ==
    \A r \in Reqs : pc[r] = "passes" =>
        /\ IsFiniteSet(DOMAIN seen[r])
        /\ \A t \in DOMAIN seen[r] : seen[r][t].place < Cardinality(DOMAIN seen[r])
        /\ \A t, u \in DOMAIN seen[r] : seen[r][t].place = seen[r][u].place => t = u

\* Nothing is left in the negative range.
NonNeg ==
    ~slipped => /\ \A t \in DOMAIN rows : rows[t].seq >= 0
                /\ \A t \in DOMAIN disk : disk[t].seq >= 0
                /\ \A r \in Reqs : pc[r] = "place" => at[r] >= 0

\* A listing still meets every row, in their order, or none at all.
InStep ==
    ~slipped => \A r \in Reqs : pc[r] = "passes" =>
        /\ Hit(r) = {} \/ Hit(r) = DOMAIN rows
        /\ \A t, u \in Hit(r) : seen[r][t].place < seen[r][u].place <=> rows[t].seq < rows[u].seq

\* What is committed is on the connection; only a reset cut short has more there.
Ahead ==
    ~slipped => \A t \in DOMAIN disk : t \in DOMAIN rows /\ rows[t] = disk[t]

\* What a request has at each of its statements.
Kinds ==
    \A r \in Reqs :
        /\ pc[r] = "new" => op[r] = "none" /\ got[r] = Nothing /\ r \notin met
        /\ pc[r] \in {"fetch", "keep", "drop"} => op[r] = "join" /\ Cardinality(want[r]) >= 2
        /\ pc[r] = "fetch" => DOMAIN got[r] \subseteq want[r]
        /\ pc[r] = "keep" => DOMAIN got[r] = want[r]
        /\ pc[r] \in {"anchor", "place"} => op[r] \in {"insert", "split"}
        /\ pc[r] = "head" => op[r] = "split"
        /\ pc[r] \in {"head", "anchor", "place"} /\ op[r] = "split" =>
             anchor[r] \in DOMAIN got[r] /\ cut[r] \in 0 .. Len(got[r][anchor[r]].text)

-----------------------------------------------------------------------------
LEMMA FiniteIds == IsFiniteSet(Ids)
<1>1. IsFiniteSet(0 .. N - 1) BY FS_Interval
<1>2. QED BY <1>1, FS_Union DEF Ids, Turns

LEMMA FiniteRows == ASSUME NEW rs, IsTable(rs) PROVE IsFiniteSet(DOMAIN rs)
BY FiniteIds, FS_Subset DEF IsTable

\* A part without t counts less than the whole.
LEMMA FewerWithout ==
    ASSUME NEW S, IsFiniteSet(S), NEW T \in SUBSET S, NEW t \in S, t \notin T
    PROVE  /\ Cardinality(T) \in Nat /\ Cardinality(S) \in Nat
           /\ Cardinality(T) < Cardinality(S)
<1>1. IsFiniteSet(T) /\ Cardinality(T) <= Cardinality(S) /\ (Cardinality(S) = Cardinality(T) => S = T)
  BY FS_Subset
<1>2. Cardinality(T) \in Nat /\ Cardinality(S) \in Nat BY <1>1, FS_CardinalityType
<1>3. S # T OBVIOUS
<1>4. QED BY <1>1, <1>2, <1>3

\* A set of numbers up to n, not empty, has a least one: the set of what is
\* below a member is smallest there.
LEMMA Least ==
    ASSUME NEW n \in Nat, NEW T \in SUBSET (0 .. n), T # {}
    PROVE  \E x \in T : \A y \in T : x <= y
<1> DEFINE B == {0 .. y : y \in T}
<1>1. B \subseteq FiniteSubsetsOf(Nat)
  <2> SUFFICES ASSUME NEW y \in T PROVE 0 .. y \in FiniteSubsetsOf(Nat) OBVIOUS
  <2>1. y \in Int /\ 0 \in Int /\ 0 .. y \in SUBSET Nat OBVIOUS
  <2>2. IsFiniteSet(0 .. y) BY <2>1, FS_Interval
  <2>3. QED BY <2>1, <2>2 DEF FiniteSubsetsOf
<1>2. PICK b \in B : \A c \in B : ~(<<c, b>> \in StrictSubsetOrdering(Nat))
  <2>1. IsWellFoundedOn(StrictSubsetOrdering(Nat), FiniteSubsetsOf(Nat))
    BY FS_StrictSubsetOrderingWellFounded
  <2>2. B # {} OBVIOUS
  <2>3. QED BY <1>1, <2>1, <2>2, WFMin
<1>3. PICK x \in T : b = 0 .. x BY <1>2
<1>4. ASSUME NEW y \in T PROVE x <= y
  <2>1. SUFFICES ASSUME y < x PROVE FALSE OBVIOUS
  <2>2. (0 .. y) \subseteq (0 .. x) /\ x \in 0 .. x /\ x \notin 0 .. y BY <2>1
  <2>3. <<0 .. y, b>> \in StrictSubsetOrdering(Nat)
    BY <2>2, <1>3 DEF StrictSubsetOrdering
  <2>4. QED BY <2>3, <1>2
<1>5. QED BY <1>4

\* The updates that go through leave the numbers unique.
LEMMA ReachedFits ==
    ASSUME NEW rs, NEW p, NEW f, NEW g, NEW n \in Nat, Distinct(rs),
           \A t \in DOMAIN p : p[t] \in Nat
    PROVE  /\ Reached(rs, p, f, g, n) \in 0 .. 2 * n
           /\ Unique(Numbers(rs, p, f, g, n, Reached(rs, p, f, g, n)))
<1> DEFINE Num(k) == Numbers(rs, p, f, g, n, k)
           Bad == {k \in 0 .. 2 * n : ~Unique(Num(k))}
           Ok(k) == /\ \A j \in 0 .. k : Unique(Num(j))
                    /\ k = 2 * n \/ ~Unique(Num(k + 1))
<1>1. Unique(Num(0)) BY DEF Unique, Numbers, Distinct
<1>2. \E k \in 0 .. 2 * n : Ok(k)
  <2>1. CASE Bad = {} BY <2>1
  <2>2. CASE Bad # {}
    <3>1. PICK b \in Bad : \A c \in Bad : b <= c
      <4>1. Bad \in SUBSET (0 .. 2 * n) /\ 2 * n \in Nat OBVIOUS
      <4>2. QED BY <4>1, <2>2, Least
    <3>2. b # 0 BY <1>1, <3>1
    <3>3. b - 1 \in 0 .. 2 * n /\ (b - 1) + 1 = b BY <3>1, <3>2
    <3>4. \A j \in 0 .. b - 1 : j \in 0 .. 2 * n /\ ~(b <= j) BY <3>1
    <3>5. \A j \in 0 .. b - 1 : Unique(Num(j)) BY <3>1, <3>4
    <3>6. ~Unique(Num((b - 1) + 1)) BY <3>3, <3>1
    <3>7. QED BY <3>3, <3>5, <3>6
  <2>3. QED BY <2>1, <2>2
<1> HIDE DEF Num
<1>3. Reached(rs, p, f, g, n) = CHOOSE k \in 0 .. 2 * n : Ok(k) BY DEF Reached, Num
<1> HIDE DEF Ok
<1>4. Reached(rs, p, f, g, n) \in 0 .. 2 * n /\ Ok(Reached(rs, p, f, g, n)) BY <1>2, <1>3
<1>5. Unique(Num(Reached(rs, p, f, g, n)))
  <2> DEFINE k == Reached(rs, p, f, g, n)
  <2>1. k \in 0 .. k BY <1>4
  <2>2. \A j \in 0 .. k : Unique(Num(j)) BY <1>4 DEF Ok
  <2>3. QED BY <2>1, <2>2
<1>6. QED BY <1>4, <1>5 DEF Num

\* Where no update clashes, all go through.
LEMMA ReachedAll ==
    ASSUME NEW rs, NEW p, NEW f, NEW g, NEW n \in Nat,
           \A k \in 0 .. 2 * n : Unique(Numbers(rs, p, f, g, n, k))
    PROVE  Reached(rs, p, f, g, n) = 2 * n
<1> DEFINE Num(k) == Numbers(rs, p, f, g, n, k)
           Ok(k) == /\ \A j \in 0 .. k : Unique(Num(j))
                    /\ k = 2 * n \/ ~Unique(Num(k + 1))
<1>1. \A k \in 0 .. 2 * n : Unique(Num(k)) OBVIOUS
<1> HIDE DEF Num
<1>2. Ok(2 * n) /\ 2 * n \in 0 .. 2 * n BY <1>1
<1>3. \A k \in 0 .. 2 * n : Ok(k) => k = 2 * n
  <2> SUFFICES ASSUME NEW k \in 0 .. 2 * n, Ok(k), k # 2 * n PROVE FALSE OBVIOUS
  <2>1. k + 1 \in 0 .. 2 * n OBVIOUS
  <2>2. QED BY <2>1, <1>1
<1>4. Reached(rs, p, f, g, n) = CHOOSE k \in 0 .. 2 * n : Ok(k) BY DEF Reached, Num
<1> HIDE DEF Ok
<1>5. QED BY <1>2, <1>3, <1>4

-----------------------------------------------------------------------------
(* Texts: their parts, and several on end.                                 *)

LEMMA OnEnd ==
    ASSUME NEW A, NEW s \in Seq(A), NEW t \in Seq(A)
    PROVE  /\ s \o t \in Seq(A)
           /\ Pieces(s) \subseteq Pieces(s \o t) /\ Pieces(t) \subseteq Pieces(s \o t)
<1>1. /\ s \o t \in Seq(A) /\ Len(s \o t) = Len(s) + Len(t)
      /\ \A i \in 1 .. Len(s) : (s \o t)[i] = s[i]
      /\ \A i \in 1 .. Len(t) : (s \o t)[i + Len(s)] = t[i]
  OBVIOUS
<1>2. /\ Len(s) \in Nat /\ DOMAIN s = 1 .. Len(s) /\ Len(t) \in Nat /\ DOMAIN t = 1 .. Len(t)
      /\ DOMAIN (s \o t) = 1 .. Len(s) + Len(t)
  BY <1>1
<1>3. ASSUME NEW i \in 1 .. Len(s) PROVE s[i] \in Pieces(s \o t)
  <2>1. i \in DOMAIN (s \o t) BY <1>2
  <2>2. QED BY <1>1, <2>1 DEF Pieces
<1>4. ASSUME NEW i \in 1 .. Len(t) PROVE t[i] \in Pieces(s \o t)
  <2>1. i + Len(s) \in DOMAIN (s \o t) BY <1>2
  <2>2. QED BY <1>1, <2>1 DEF Pieces
<1>5. QED BY <1>1, <1>2, <1>3, <1>4 DEF Pieces

LEMMA PartOf ==
    ASSUME NEW A, NEW s \in Seq(A), NEW c \in 0 .. Len(s)
    PROVE  /\ SubSeq(s, 1, c) \in Seq(A) /\ SubSeq(s, c + 1, Len(s)) \in Seq(A)
           /\ Pieces(s) \subseteq Pieces(SubSeq(s, 1, c)) \cup Pieces(SubSeq(s, c + 1, Len(s)))
<1> DEFINE h == SubSeq(s, 1, c)
           t == SubSeq(s, c + 1, Len(s))
<1>1. /\ h \in Seq(A) /\ Len(h) = c /\ \A i \in 1 .. c : h[i] = s[i]
      /\ t \in Seq(A) /\ Len(t) = Len(s) - c /\ \A i \in 1 .. Len(s) - c : t[i] = s[c + i]
  OBVIOUS
<1>2. /\ c \in Nat /\ Len(s) \in Nat /\ DOMAIN s = 1 .. Len(s)
      /\ DOMAIN h = 1 .. c /\ DOMAIN t = 1 .. Len(s) - c
  BY <1>1
<1> HIDE DEF h, t
<1>3. ASSUME NEW i \in 1 .. Len(s) PROVE s[i] \in Pieces(h) \cup Pieces(t)
  <2>1. CASE i <= c
    <3>1. i \in DOMAIN h /\ h[i] = s[i] BY <1>1, <1>2, <2>1
    <3>2. QED BY <3>1 DEF Pieces
  <2>2. CASE ~(i <= c)
    <3>1. i - c \in 1 .. Len(s) - c /\ c + (i - c) = i BY <1>2, <2>2
    <3>2. i - c \in DOMAIN t /\ t[i - c] = s[i] BY <1>1, <1>2, <3>1
    <3>3. QED BY <3>2 DEF Pieces
  <2>3. QED BY <2>1, <2>2
<1>4. Pieces(s) \subseteq Pieces(h) \cup Pieces(t) BY <1>2, <1>3 DEF Pieces
<1>5. QED BY <1>1, <1>4 DEF h, t

\* The text of many on end has the pieces of each: FlattenSeq is defined along its
\* argument, and a first place where it failed would have one before it.
LEMMA OnEndOfAll ==
    ASSUME NEW A, NEW n \in Nat, n # 0, NEW s \in [1 .. n -> Seq(A)]
    PROVE  /\ FlattenSeq(s) \in Seq(A)
           /\ \A i \in 1 .. n : Pieces(s[i]) \subseteq Pieces(FlattenSeq(s))
<1> DEFINE Def(g, m) == g = [i \in 1 .. m |-> IF i = 1 THEN s[i] ELSE g[i - 1] \o s[i]]
           None == {m \in 1 .. n : ~\E g : Def(g, m)}
           flat == CHOOSE g : Def(g, n)
           Bad  == {m \in 1 .. n : ~(/\ flat[m] \in Seq(A)
                                     /\ \A i \in 1 .. m : Pieces(s[i]) \subseteq Pieces(flat[m]))}
<1>1. Len(s) = n /\ n \in 1 .. n OBVIOUS
<1>2. None = {}
  <2> SUFFICES ASSUME None # {} PROVE FALSE OBVIOUS
  <2> HIDE DEF Def
  <2>1. None \in SUBSET (0 .. n) OBVIOUS
  <2>2. PICK m \in None : \A k \in None : m <= k BY <2>1, Least
  <2> USE DEF Def
  <2>3. CASE m = 1
    <3>1. Def([i \in 1 .. 1 |-> s[i]], 1) OBVIOUS
    <3>2. QED BY <2>2, <2>3, <3>1
  <2>4. CASE m # 1
    <3>1. m - 1 \in 1 .. n /\ m - 1 \notin None
      <4> HIDE DEF Def
      <4>1. m \in 1 .. n /\ m - 1 \in 1 .. n /\ ~(m <= m - 1) BY <2>4
      <4>2. QED BY <2>2, <4>1
    <3>2. PICK h : Def(h, m - 1) BY <3>1
    <3> DEFINE g == [i \in 1 .. m |-> IF i = m THEN h[m - 1] \o s[m] ELSE h[i]]
    <3>3. ASSUME NEW i \in 1 .. m PROVE g[i] = IF i = 1 THEN s[i] ELSE g[i - 1] \o s[i]
      <4>1. CASE i = m
        <5>1. g[i - 1] = h[m - 1] BY <3>1, <4>1
        <5>2. QED BY <4>1, <5>1, <2>4
      <4>2. CASE i # m
        <5>1. i \in 1 .. m - 1 /\ g[i] = h[i] BY <4>2
        <5>2. h[i] = IF i = 1 THEN s[i] ELSE h[i - 1] \o s[i] BY <3>2, <5>1
        <5>3. i # 1 => g[i - 1] = h[i - 1] BY <5>1
        <5>4. QED BY <5>1, <5>2, <5>3
      <4>3. QED BY <4>1, <4>2
    <3>4. g = [i \in 1 .. m |-> g[i]] OBVIOUS
    <3> HIDE DEF g
    <3>5. Def(g, m) BY <3>3, <3>4
    <3>6. QED BY <2>2, <3>5
  <2>5. QED BY <2>3, <2>4
<1>3. \E g : Def(g, n) BY <1>1, <1>2
<1>4. Def(flat, n) BY <1>3
<1>5. FlattenSeq(s) = flat[n] BY <1>1 DEF FlattenSeq
<1> HIDE DEF flat
<1>6. Bad = {}
  <2> SUFFICES ASSUME Bad # {} PROVE FALSE OBVIOUS
  <2>1. Bad \in SUBSET (0 .. n) OBVIOUS
  <2>2. PICK m \in Bad : \A k \in Bad : m <= k BY <2>1, Least
  <2>3. m \in 1 .. n /\ s[m] \in Seq(A) OBVIOUS
  <2>4. flat[m] = IF m = 1 THEN s[m] ELSE flat[m - 1] \o s[m] BY <1>4, <2>3
  <2>5. CASE m = 1
    <3>1. \A i \in 1 .. m : i = m BY <2>5
    <3>2. QED BY <2>2, <2>3, <2>4, <2>5, <3>1
  <2>6. CASE m # 1
    <3>1. m - 1 \in 1 .. n /\ ~(m <= m - 1) BY <2>3, <2>6
    <3>2. m - 1 \notin Bad BY <2>2, <3>1
    <3>3. flat[m - 1] \in Seq(A) /\ \A i \in 1 .. m - 1 : Pieces(s[i]) \subseteq Pieces(flat[m - 1])
      BY <3>1, <3>2
    <3>4. /\ flat[m] \in Seq(A) /\ Pieces(flat[m - 1]) \subseteq Pieces(flat[m])
          /\ Pieces(s[m]) \subseteq Pieces(flat[m])
      BY <2>3, <2>4, <2>6, <3>3, OnEnd
    <3>5. \A i \in 1 .. m : i = m \/ i \in 1 .. m - 1 BY <2>3
    <3>6. QED BY <2>2, <3>3, <3>4, <3>5
  <2>7. QED BY <2>5, <2>6
<1>7. n \notin Bad BY <1>6
<1>8. QED BY <1>1, <1>5, <1>7

\* An order of S names each of S, once.
LEMMA OrderOnto ==
    ASSUME NEW rs, NEW S, IsFiniteSet(S), NEW f \in InOrder(rs, S)
    PROVE  LET n == Cardinality(S)
           IN  /\ n \in Nat /\ f \in [1 .. n -> S]
               /\ \A i, j \in 1 .. n : f[i] = f[j] => i = j
               /\ \A i, j \in 1 .. n : i < j => rs[f[i]].seq <= rs[f[j]].seq
               /\ \A t \in S : \E i \in 1 .. n : f[i] = t
<1> DEFINE n == Cardinality(S)
<1>1. n \in Nat BY FS_CardinalityType
<1>2. /\ f \in [1 .. n -> S]
      /\ \A i, j \in 1 .. n : i < j => f[i] # f[j] /\ rs[f[i]].seq <= rs[f[j]].seq
  BY DEF InOrder
<1>3. \A i, j \in 1 .. n : f[i] = f[j] => i = j
  <2> SUFFICES ASSUME NEW i \in 1 .. n, NEW j \in 1 .. n, i # j PROVE f[i] # f[j] OBVIOUS
  <2>1. i < j \/ j < i OBVIOUS
  <2>2. QED BY <1>2, <2>1
<1>4. f \in Surjection(1 .. n, S)
  <2>1. f \in Injection(1 .. n, S) BY <1>2, <1>3 DEF Injection, IsInjective
  <2>2. Cardinality(1 .. n) = Cardinality(S) /\ IsFiniteSet(1 .. n) BY <1>1, FS_Interval
  <2>3. QED BY <2>1, <2>2, FS_Injection
<1>5. \A t \in S : \E i \in 1 .. n : f[i] = t BY <1>4 DEF Surjection
<1>6. QED BY <1>1, <1>2, <1>3, <1>5

\* There is one order where no two have one number: at the first place where two
\* orders differed, what each has there would come before what the other has.
LEMMA OneOrder ==
    ASSUME NEW rs, NEW S, IsFiniteSet(S), \A t \in S : rs[t].seq \in Int,
           \A t, u \in S : rs[t].seq = rs[u].seq => t = u,
           NEW f \in InOrder(rs, S), NEW g \in InOrder(rs, S)
    PROVE  f = g
<1> DEFINE n == Cardinality(S)
           Bad == {i \in 1 .. n : f[i] # g[i]}
<1>1. /\ n \in Nat /\ f \in [1 .. n -> S] /\ g \in [1 .. n -> S]
      /\ \A i, j \in 1 .. n : f[i] = f[j] => i = j
      /\ \A i, j \in 1 .. n : g[i] = g[j] => i = j
      /\ \A i, j \in 1 .. n : i < j => rs[f[i]].seq <= rs[f[j]].seq
      /\ \A i, j \in 1 .. n : i < j => rs[g[i]].seq <= rs[g[j]].seq
      /\ \A t \in S : \E i \in 1 .. n : f[i] = t
      /\ \A t \in S : \E i \in 1 .. n : g[i] = t
  BY OrderOnto
<1> HIDE DEF n
<1>2. Bad = {}
  <2> SUFFICES ASSUME Bad # {} PROVE FALSE OBVIOUS
  <2>1. Bad \in SUBSET (0 .. n) OBVIOUS
  <2>2. PICK i \in Bad : \A j \in Bad : i <= j BY <1>1, <2>1, Least
  <2>3. i \in 1 .. n /\ f[i] # g[i] /\ \A j \in 1 .. n : j < i => f[j] = g[j] BY <1>1, <2>2
  <2>4. PICK j \in 1 .. n : f[j] = g[i] BY <1>1, <2>3
  <2>5. PICK k \in 1 .. n : g[k] = f[i] BY <1>1, <2>3
  <2>6. i < j
    <3>1. CASE j < i
      <4>1. g[j] = g[i] BY <2>3, <2>4, <3>1
      <4>2. QED BY <1>1, <2>3, <3>1, <4>1
    <3>2. CASE j = i BY <2>3, <2>4, <3>2
    <3>3. QED BY <1>1, <2>3, <3>1, <3>2
  <2>7. i < k
    <3>1. CASE k < i
      <4>1. f[k] = f[i] BY <2>3, <2>5, <3>1
      <4>2. QED BY <1>1, <2>3, <3>1, <4>1
    <3>2. CASE k = i BY <2>3, <2>5, <3>2
    <3>3. QED BY <1>1, <2>3, <3>1, <3>2
  <2>8. rs[f[i]].seq <= rs[g[i]].seq /\ rs[g[i]].seq <= rs[f[i]].seq
    BY <1>1, <2>3, <2>4, <2>5, <2>6, <2>7
  <2>9. f[i] \in S /\ g[i] \in S BY <1>1, <2>3
  <2>10. rs[f[i]].seq = rs[g[i]].seq BY <2>8, <2>9
  <2>11. QED BY <2>3, <2>9, <2>10
<1>3. \A i \in 1 .. n : f[i] = g[i] BY <1>2
<1>4. QED BY <1>1, <1>3

\* An order of S names each of S, and what it joins has the pieces of each.
LEMMA JoinedHas ==
    ASSUME NEW A, NEW rs, NEW S, IsFiniteSet(S), Cardinality(S) >= 2,
           \A t \in S : rs[t].text \in Seq(A), NEW f \in InOrder(rs, S)
    PROVE  /\ f[1] \in S /\ Joined(rs, f) \in Seq(A)
           /\ \A t \in S : Pieces(rs[t].text) \subseteq Pieces(Joined(rs, f))
<1> DEFINE n == Cardinality(S)
           s == [i \in 1 .. n |-> rs[f[i]].text]
<1>1. n \in Nat /\ n # 0 /\ 1 \in 1 .. n BY FS_CardinalityType
<1>2. f \in [1 .. n -> S] /\ \A t \in S : \E i \in 1 .. n : f[i] = t BY OrderOnto
<1>6. s \in [1 .. n -> Seq(A)] BY <1>2
<1>7. FlattenSeq(s) \in Seq(A) /\ \A i \in 1 .. n : Pieces(s[i]) \subseteq Pieces(FlattenSeq(s))
  BY <1>1, <1>6, OnEndOfAll
<1>8. Joined(rs, f) = FlattenSeq(s) BY <1>2 DEF Joined
<1>9. ASSUME NEW t \in S PROVE Pieces(rs[t].text) \subseteq Pieces(Joined(rs, f))
  <2>1. PICK i \in 1 .. n : f[i] = t BY <1>2
  <2>2. s[i] = rs[t].text BY <2>1
  <2> HIDE DEF s
  <2>3. QED BY <1>7, <1>8, <2>2
<1>10. QED BY <1>1, <1>2, <1>7, <1>8, <1>9

-----------------------------------------------------------------------------
(* What the two passes and the insert do to the numbers.                   *)

Places(r) == [t \in Hit(r) |-> seen[r][t].place]
Below(r)  == [t \in Hit(r) |-> -(Places(r)[t] + 1)]
Count(r)  == Cardinality(DOMAIN seen[r])

LEMMA PlacesOK ==
    ASSUME TypeOK, SeenOK, NEW r \in Reqs, pc[r] = "passes"
    PROVE  /\ Count(r) \in Nat
           /\ \A t \in Hit(r) : /\ Places(r)[t] \in 0 .. Count(r) - 1
                                /\ Below(r)[t] \in Int /\ Below(r)[t] < 0
           /\ \A t, u \in Hit(r) : Places(r)[t] = Places(r)[u] => t = u
           /\ \A t, u \in Hit(r) : Below(r)[t] = Below(r)[u] => t = u
<1>1. IsFiniteSet(DOMAIN seen[r]) BY DEF SeenOK
<1>2. Count(r) \in Nat BY <1>1, FS_CardinalityType DEF Count
<1>3. \A t \in Hit(r) : /\ Places(r)[t] \in Nat /\ Places(r)[t] < Count(r)
                        /\ Below(r)[t] = -(Places(r)[t] + 1)
  BY DEF TypeOK, SeenOK, Hit, Places, Below, Count
<1>4. \A t, u \in Hit(r) : Places(r)[t] = Places(r)[u] => t = u
  BY DEF SeenOK, Hit, Places
<1>5. QED BY <1>2, <1>3, <1>4

\* Unfolded: the step of the two passes.
LEMMA PassesStep ==
    ASSUME TypeOK, SeenOK, NEW r \in Reqs, Passes(r)
    PROVE  LET n == Count(r)
               k == Reached(rows, Places(r), Below(r), Places(r), n)
               num == Numbers(rows, Places(r), Below(r), Places(r), n, k)
           IN  /\ rows' = Renumbered(rows, num)
               /\ disk' = IF k = 2 * n THEN rows' ELSE disk
               /\ k \in 0 .. 2 * n /\ Unique(num)
<1>1. pc[r] = "passes" BY DEF Passes
<1>2. /\ Count(r) \in Nat /\ \A t \in DOMAIN Places(r) : Places(r)[t] \in Nat
  BY <1>1, PlacesOK DEF Places
<1>3. Distinct(rows) BY DEF TypeOK
<1>4. LET n == Count(r)
          k == Reached(rows, Places(r), Below(r), Places(r), n)
      IN k \in 0 .. 2 * n /\ Unique(Numbers(rows, Places(r), Below(r), Places(r), n, k))
  BY <1>2, <1>3, ReachedFits
<1>5. /\ Places(r) = [t \in Hit(r) |-> seen[r][t].place]
      /\ [t \in Hit(r) |-> -(seen[r][t].place + 1)] = Below(r)
      /\ [t \in Hit(r) |-> -(Places(r)[t] + 1)] = Below(r)
  BY DEF Places, Below
<1>6. QED BY <1>4, <1>5 DEF Passes, Count

\* Whatever the updates meet, the numbers stay unique and the rows the same.
LEMMA PassesMove ==
    ASSUME TypeOK, SeenOK, NEW r \in Reqs, Passes(r)
    PROVE  /\ DOMAIN rows' = DOMAIN rows
           /\ \A t \in DOMAIN rows : /\ rows'[t].by = rows[t].by /\ rows'[t].text = rows[t].text
                                     /\ rows'[t].seq \in Int
           /\ Distinct(rows')
           /\ disk' \in {rows', disk}
<1> DEFINE n == Count(r)
           k == Reached(rows, Places(r), Below(r), Places(r), n)
           num == Numbers(rows, Places(r), Below(r), Places(r), n, k)
<1>1. pc[r] = "passes" BY DEF Passes
<1>2. rows' = Renumbered(rows, num) /\ disk' \in {rows', disk} /\ Unique(num) BY PassesStep
<1>3. /\ DOMAIN num = DOMAIN rows
      /\ \A t \in DOMAIN rows : num[t] \in Int
  <2>1. DOMAIN num = DOMAIN rows BY DEF Numbers
  <2>2. ASSUME NEW t \in DOMAIN rows PROVE num[t] \in Int
    <3>1. num[t] = IF t \notin Hit(r) \/ k <= Places(r)[t] THEN rows[t].seq
                   ELSE IF k <= n + Places(r)[t] THEN Below(r)[t] ELSE Places(r)[t]
      BY DEF Numbers, Places
    <3>2. rows[t].seq \in Int BY DEF TypeOK, IsTable
    <3>3. t \in Hit(r) => Below(r)[t] \in Int /\ Places(r)[t] \in Int BY <1>1, PlacesOK
    <3>4. QED BY <3>1, <3>2, <3>3
  <2>3. QED BY <2>1, <2>2
<1> HIDE DEF num
<1>4. /\ DOMAIN rows' = DOMAIN rows
      /\ \A t \in DOMAIN rows : /\ rows'[t].by = rows[t].by /\ rows'[t].text = rows[t].text
                                /\ rows'[t].seq = num[t]
  BY <1>2 DEF Renumbered
<1>5. Distinct(rows') BY <1>2, <1>3, <1>4 DEF Distinct, Unique
<1>6. QED BY <1>2, <1>3, <1>4, <1>5

\* A listing that still meets every row, or none, goes through to the end and
\* keeps the order, where no number is left negative.
LEMMA PassesGoThrough ==
    ASSUME TypeOK, SeenOK, NEW r \in Reqs, Passes(r), \A t \in DOMAIN rows : rows[t].seq >= 0,
           Hit(r) = {} \/ Hit(r) = DOMAIN rows,
           \A t, u \in Hit(r) : seen[r][t].place < seen[r][u].place <=> rows[t].seq < rows[u].seq
    PROVE  /\ disk' = rows'
           /\ \A t \in DOMAIN rows :
                rows'[t].seq >= 0 /\ rows'[t].seq = IF Hit(r) = {} THEN rows[t].seq ELSE seen[r][t].place
           /\ \A t, u \in DOMAIN rows : rows'[t].seq < rows'[u].seq <=> rows[t].seq < rows[u].seq
<1> DEFINE n == Count(r)
           Num(k) == Numbers(rows, Places(r), Below(r), Places(r), n, k)
<1>1. pc[r] = "passes" BY DEF Passes
<1>2. /\ n \in Nat
      /\ \A t \in Hit(r) : /\ Places(r)[t] \in 0 .. n - 1
                           /\ Below(r)[t] \in Int /\ Below(r)[t] < 0
      /\ \A t, u \in Hit(r) : Places(r)[t] = Places(r)[u] => t = u
      /\ \A t, u \in Hit(r) : Below(r)[t] = Below(r)[u] => t = u
  BY <1>1, PlacesOK
<1>3. \A t \in DOMAIN rows : rows[t].seq \in Int /\ rows[t].seq >= 0
  BY DEF TypeOK, IsTable
<1>4. Distinct(rows) BY DEF TypeOK
<1>5. Hit(r) = {} \/ Hit(r) = DOMAIN rows OBVIOUS
<1>6. \A t, u \in Hit(r) : Places(r)[t] < Places(r)[u] <=> rows[t].seq < rows[u].seq
  BY DEF Places
<1>7. \A k : /\ DOMAIN Num(k) = DOMAIN rows
             /\ \A t \in DOMAIN rows :
                  Num(k)[t] = IF t \notin Hit(r) \/ k <= Places(r)[t] THEN rows[t].seq
                              ELSE IF k <= n + Places(r)[t] THEN Below(r)[t] ELSE Places(r)[t]
  BY DEF Numbers, Places
<1> HIDE DEF n, Num
<1>8. ASSUME NEW k \in 0 .. 2 * n PROVE Unique(Num(k))
  <2> SUFFICES ASSUME NEW t \in DOMAIN rows, NEW u \in DOMAIN rows, Num(k)[t] = Num(k)[u]
               PROVE  t = u
    BY <1>7 DEF Unique
  <2>1. CASE Hit(r) = {} BY <2>1, <1>7, <1>4 DEF Distinct
  <2>2. CASE Hit(r) = DOMAIN rows
    <3>1. CASE k <= n
      <4>1. \A v \in DOMAIN rows : k <= n + Places(r)[v] BY <3>1, <2>2, <1>2
      <4>2. \A v \in DOMAIN rows : Num(k)[v] = IF k <= Places(r)[v] THEN rows[v].seq ELSE Below(r)[v]
        BY <4>1, <2>2, <1>7
      <4>3. rows[t].seq = rows[u].seq => t = u BY <1>4 DEF Distinct
      <4>4. QED BY <4>2, <4>3, <2>2, <1>2, <1>3
    <3>2. CASE ~(k <= n)
      <4>1. \A v \in DOMAIN rows : ~(k <= Places(r)[v]) BY <3>2, <2>2, <1>2
      <4>2. \A v \in DOMAIN rows : Num(k)[v] = IF k <= n + Places(r)[v] THEN Below(r)[v] ELSE Places(r)[v]
        BY <4>1, <2>2, <1>7
      <4>3. QED BY <4>2, <2>2, <1>2
    <3>3. QED BY <3>1, <3>2
  <2>3. QED BY <1>5, <2>1, <2>2
<1>9. Reached(rows, Places(r), Below(r), Places(r), n) = 2 * n
  BY <1>2, <1>8, ReachedAll DEF Num
<1>10. rows' = Renumbered(rows, Num(2 * n)) /\ disk' = rows'
  BY <1>9, PassesStep DEF Num, n
<1>11. \A t \in DOMAIN rows : rows'[t].seq = Num(2 * n)[t] BY <1>10 DEF Renumbered
<1>12. \A t \in DOMAIN rows : rows'[t].seq = IF Hit(r) = {} THEN rows[t].seq ELSE Places(r)[t]
  <2>1. CASE Hit(r) = {} BY <2>1, <1>7, <1>11
  <2>2. CASE Hit(r) # {}
    <3>1. Hit(r) = DOMAIN rows BY <2>2, <1>5
    <3>2. \A t \in DOMAIN rows : ~(2 * n <= Places(r)[t]) /\ ~(2 * n <= n + Places(r)[t])
      BY <3>1, <1>2
    <3>3. QED BY <3>1, <3>2, <2>2, <1>7, <1>11
  <2>3. QED BY <2>1, <2>2
<1>13. \A t \in Hit(r) : Places(r)[t] = seen[r][t].place BY DEF Places
<1>14. QED BY <1>2, <1>3, <1>5, <1>6, <1>10, <1>12, <1>13

LEMMA PassesKeepOrder ==
    ASSUME TypeOK, SeenOK, NonNeg, InStep, ~slipped, NEW r \in Reqs, Passes(r)
    PROVE  /\ disk' = rows'
           /\ \A t \in DOMAIN rows : rows'[t].seq >= 0
           /\ \A t, u \in DOMAIN rows : rows'[t].seq < rows'[u].seq <=> rows[t].seq < rows[u].seq
<1>1. pc[r] = "passes" BY DEF Passes
<1>2. QED BY <1>1, PassesGoThrough DEF NonNeg, InStep

Ranks(r) == [t \in Rest(r) |-> Cardinality({u \in Rest(r) : rows[u].seq > rows[t].seq})]
Down(r)  == [t \in Rest(r) |-> -(rows[t].seq + 2)]
Up(r)    == [t \in Rest(r) |-> rows[t].seq + 1]
Moved(r) == Cardinality(Rest(r))

LEMMA RanksOK ==
    ASSUME TypeOK, NEW r \in Reqs
    PROVE  /\ Moved(r) \in Nat
           /\ \A t \in Rest(r) : /\ Ranks(r)[t] \in 0 .. Moved(r) - 1
                                 /\ Down(r)[t] = -(rows[t].seq + 2) /\ Up(r)[t] = rows[t].seq + 1
<1>1. IsFiniteSet(DOMAIN rows) BY FiniteRows DEF TypeOK
<1>2. IsFiniteSet(Rest(r)) BY <1>1, FS_Subset DEF Rest
<1>3. Moved(r) \in Nat BY <1>2, FS_CardinalityType DEF Moved
<1>4. ASSUME NEW t \in Rest(r) PROVE Ranks(r)[t] \in 0 .. Moved(r) - 1
  <2> DEFINE T == {u \in Rest(r) : rows[u].seq > rows[t].seq}
  <2>1. rows[t].seq \in Int BY DEF TypeOK, IsTable, Rest
  <2>2. T \in SUBSET Rest(r) /\ t \notin T BY <2>1
  <2>3. Cardinality(T) \in Nat /\ Cardinality(T) < Cardinality(Rest(r))
    BY <2>2, <1>2, FewerWithout
  <2>4. Ranks(r)[t] = Cardinality(T) BY DEF Ranks
  <2>5. QED BY <2>3, <2>4, <1>3 DEF Moved
<1>5. QED BY <1>3, <1>4 DEF Down, Up

\* Unfolded: the step of the insert.
LEMMA PlaceStep ==
    ASSUME TypeOK, NEW r \in Reqs, PlaceTurn(r)
    PROVE  LET n == Moved(r)
               k == Reached(rows, Ranks(r), Down(r), Up(r), n)
               num == Numbers(rows, Ranks(r), Down(r), Up(r), n, k)
           IN  /\ k \in 0 .. 2 * n /\ Unique(num)
               /\ \/ /\ k = 2 * n /\ disk' = rows' /\ slipped' = (slipped \/ Listed)
                     /\ pc' = [pc EXCEPT ![r] = "list"]
                     /\ DOMAIN rows' = DOMAIN rows \cup {r}
                     /\ rows'[r].seq = at[r] /\ rows'[r].by = r /\ rows'[r].text = NewText(r)
                     /\ \A t \in DOMAIN rows \ {r} : /\ rows'[t].seq = num[t]
                                                     /\ rows'[t].by = rows[t].by
                                                     /\ rows'[t].text = rows[t].text
                     /\ loose' = loose \ Pieces(NewText(r))
                  \/ /\ k # 2 * n /\ disk' = disk /\ slipped' = slipped
                     /\ pc' = [pc EXCEPT ![r] = "over"]
                     /\ rows' = Renumbered(rows, num) /\ loose' = loose
<1>1. Moved(r) \in Nat /\ \A t \in DOMAIN Ranks(r) : Ranks(r)[t] \in Nat
  BY RanksOK DEF Ranks
<1>2. Distinct(rows) BY DEF TypeOK
<1> DEFINE n == Moved(r)
           k == Reached(rows, Ranks(r), Down(r), Up(r), n)
           num == Numbers(rows, Ranks(r), Down(r), Up(r), n, k)
           made == [t \in DOMAIN rows \cup {r} |->
                      IF t = r THEN [seq |-> at[r], by |-> r, text |-> NewText(r)]
                               ELSE Renumbered(rows, num)[t]]
<1>3. k \in 0 .. 2 * n /\ Unique(num) BY <1>1, <1>2, ReachedFits
<1>4. \/ /\ k = 2 * n /\ rows' = made /\ disk' = made /\ slipped' = (slipped \/ Listed)
         /\ pc' = [pc EXCEPT ![r] = "list"] /\ loose' = loose \ Pieces(NewText(r))
      \/ /\ k # 2 * n /\ disk' = disk /\ slipped' = slipped
         /\ pc' = [pc EXCEPT ![r] = "over"]
         /\ rows' = Renumbered(rows, num) /\ loose' = loose
  BY DEF PlaceTurn, Commit, Goes, Ranks, Down, Up, Moved
<1>5. /\ DOMAIN made = DOMAIN rows \cup {r}
      /\ made[r].seq = at[r] /\ made[r].by = r /\ made[r].text = NewText(r)
      /\ \A t \in DOMAIN rows \ {r} :
           made[t].seq = num[t] /\ made[t].by = rows[t].by /\ made[t].text = rows[t].text
  BY DEF Renumbered
<1> HIDE DEF made, num, k
<1>6. QED BY <1>3, <1>4, <1>5 DEF k, num

\* The whole shift, when nothing stops it: everything from there on moves up by one.
LEMMA Shifted ==
    ASSUME TypeOK, NEW r \in Reqs, NEW t \in DOMAIN rows
    PROVE  LET n == Moved(r)
           IN  Numbers(rows, Ranks(r), Down(r), Up(r), n, 2 * n)[t]
                 = IF rows[t].seq >= at[r] THEN rows[t].seq + 1 ELSE rows[t].seq
<1> DEFINE n == Moved(r)
<1>1. Numbers(rows, Ranks(r), Down(r), Up(r), n, 2 * n)[t]
        = IF t \notin Rest(r) \/ 2 * n <= Ranks(r)[t] THEN rows[t].seq
          ELSE IF 2 * n <= n + Ranks(r)[t] THEN Down(r)[t] ELSE Up(r)[t]
  BY DEF Numbers, Ranks
<1>2. CASE t \in Rest(r)
  <2>1. n \in Nat /\ Ranks(r)[t] \in 0 .. n - 1 /\ Up(r)[t] = rows[t].seq + 1 BY <1>2, RanksOK
  <2>2. rows[t].seq >= at[r] BY <1>2 DEF Rest
  <2>3. ~(2 * n <= Ranks(r)[t]) /\ ~(2 * n <= n + Ranks(r)[t]) BY <2>1
  <2>4. QED BY <1>1, <1>2, <2>1, <2>2, <2>3
<1>3. CASE t \notin Rest(r)
  <2>1. ~(rows[t].seq >= at[r]) BY <1>3 DEF Rest
  <2>2. QED BY <1>1, <1>3, <2>1
<1>4. QED BY <1>2, <1>3

\* Whatever the shift meets, the numbers stay unique.
LEMMA PlaceMove ==
    ASSUME TypeOK, NEW r \in Reqs, PlaceTurn(r)
    PROVE  /\ DOMAIN rows \subseteq DOMAIN rows' /\ DOMAIN rows' \subseteq DOMAIN rows \cup {r}
           /\ \A t \in DOMAIN rows' : /\ rows'[t].seq \in Int
                                      /\ rows'[t].by = r \/ (t \in DOMAIN rows /\ rows'[t].by = rows[t].by)
           /\ Distinct(rows')
           /\ disk' \in {rows', disk}
<1> DEFINE n == Moved(r)
           k == Reached(rows, Ranks(r), Down(r), Up(r), n)
           num == Numbers(rows, Ranks(r), Down(r), Up(r), n, k)
<1>1. \A t \in DOMAIN rows : rows[t].seq \in Int BY DEF TypeOK, IsTable
<1>2. at[r] \in Int BY DEF TypeOK
<1>3. /\ DOMAIN num = DOMAIN rows
      /\ \A t \in DOMAIN rows : num[t] \in Int
  <2>1. DOMAIN num = DOMAIN rows BY DEF Numbers
  <2>2. ASSUME NEW t \in DOMAIN rows PROVE num[t] \in Int
    <3>1. num[t] = IF t \notin Rest(r) \/ k <= Ranks(r)[t] THEN rows[t].seq
                   ELSE IF k <= n + Ranks(r)[t] THEN Down(r)[t] ELSE Up(r)[t]
      BY DEF Numbers, Ranks
    <3>2. t \in Rest(r) => Down(r)[t] \in Int /\ Up(r)[t] \in Int BY <1>1, RanksOK
    <3>3. QED BY <3>1, <3>2, <1>1
  <2>3. QED BY <2>1, <2>2
<1>4. CASE /\ k = 2 * n /\ disk' = rows'
           /\ DOMAIN rows' = DOMAIN rows \cup {r}
           /\ rows'[r].seq = at[r] /\ rows'[r].by = r
           /\ \A t \in DOMAIN rows \ {r} : rows'[t].seq = num[t] /\ rows'[t].by = rows[t].by
  <2>1. \A t \in DOMAIN rows : num[t] = IF rows[t].seq >= at[r] THEN rows[t].seq + 1 ELSE rows[t].seq
    BY <1>4, Shifted
  <2> HIDE DEF num, k, n
  <2>2. \A t \in DOMAIN rows : num[t] # at[r] BY <2>1, <1>1, <1>2
  <2>3. \A t, u \in DOMAIN rows : num[t] = num[u] => rows[t].seq = rows[u].seq
    BY <2>1, <1>1, <1>2
  <2>4. Distinct(rows) BY DEF TypeOK
  <2>5. Distinct(rows')
    <3> SUFFICES ASSUME NEW t \in DOMAIN rows', NEW u \in DOMAIN rows', rows'[t].seq = rows'[u].seq
                 PROVE  t = u
      BY DEF Distinct
    <3>1. CASE t = r \/ u = r BY <3>1, <1>4, <2>2
    <3>2. CASE t # r /\ u # r BY <3>2, <1>4, <2>3, <2>4 DEF Distinct
    <3>3. QED BY <3>1, <3>2
  <2>6. QED BY <1>2, <1>3, <1>4, <2>5
<1>5. CASE disk' = disk /\ rows' = Renumbered(rows, num)
  <2>1. Unique(num) BY PlaceStep
  <2> HIDE DEF num
  <2>2. /\ DOMAIN rows' = DOMAIN rows
        /\ \A t \in DOMAIN rows : rows'[t].by = rows[t].by /\ rows'[t].seq = num[t]
    BY <1>5 DEF Renumbered
  <2>3. Distinct(rows') BY <2>1, <2>2, <1>3 DEF Distinct, Unique
  <2>4. QED BY <1>5, <2>2, <2>3, <1>3
<1>6. QED BY <1>4, <1>5, PlaceStep

\* Where nothing is left in the negative range, an insert goes through and keeps
\* the order of the turns there are.
LEMMA PlaceKeepsOrder ==
    ASSUME TypeOK, NEW r \in Reqs, PlaceTurn(r), at[r] >= 0, \A t \in DOMAIN rows : rows[t].seq >= 0
    PROVE  /\ disk' = rows' /\ slipped' = (slipped \/ Listed) /\ pc' = [pc EXCEPT ![r] = "list"]
           /\ \A t \in DOMAIN rows' : rows'[t].seq >= 0
           /\ DOMAIN rows' = DOMAIN rows \cup {r} /\ rows'[r].seq = at[r] /\ rows'[r].text = NewText(r)
           /\ \A t \in DOMAIN rows \ {r} :
                /\ rows'[t].text = rows[t].text
                /\ rows'[t].seq = IF rows[t].seq >= at[r] THEN rows[t].seq + 1 ELSE rows[t].seq
           /\ \A t, u \in DOMAIN rows \ {r} : rows'[t].seq < rows'[u].seq <=> rows[t].seq < rows[u].seq
<1> DEFINE n == Moved(r)
           Num(k) == Numbers(rows, Ranks(r), Down(r), Up(r), n, k)
<1>2. at[r] \in Int /\ at[r] >= 0 BY DEF TypeOK
<1>3. \A t \in DOMAIN rows : rows[t].seq \in Int /\ rows[t].seq >= 0
  BY DEF TypeOK, IsTable
<1>4. Distinct(rows) BY DEF TypeOK
<1>5. /\ n \in Nat
      /\ \A t \in Rest(r) : /\ Ranks(r)[t] \in 0 .. n - 1
                            /\ Down(r)[t] = -(rows[t].seq + 2) /\ Up(r)[t] = rows[t].seq + 1
  BY RanksOK
<1>6. \A k : /\ DOMAIN Num(k) = DOMAIN rows
             /\ \A t \in DOMAIN rows :
                  Num(k)[t] = IF t \notin Rest(r) \/ k <= Ranks(r)[t] THEN rows[t].seq
                              ELSE IF k <= n + Ranks(r)[t] THEN Down(r)[t] ELSE Up(r)[t]
  BY DEF Numbers, Ranks
<1>7. \A t \in DOMAIN rows : t \in Rest(r) <=> rows[t].seq >= at[r] BY DEF Rest
<1> HIDE DEF n, Num
<1>8. ASSUME NEW k \in 0 .. 2 * n PROVE Unique(Num(k))
  <2> SUFFICES ASSUME NEW t \in DOMAIN rows, NEW u \in DOMAIN rows, Num(k)[t] = Num(k)[u]
               PROVE  rows[t].seq = rows[u].seq
    BY <1>6, <1>4 DEF Unique, Distinct
  <2>1. CASE k <= n
    <3>1. \A v \in Rest(r) : k <= n + Ranks(r)[v] BY <2>1, <1>5
    <3>2. \A v \in DOMAIN rows :
            \/ Num(k)[v] = rows[v].seq
            \/ Num(k)[v] = -(rows[v].seq + 2)
      BY <3>1, <1>5, <1>6
    <3>3. QED BY <3>2, <1>3
  <2>2. CASE ~(k <= n)
    <3>1. \A v \in Rest(r) : ~(k <= Ranks(r)[v]) BY <2>2, <1>5
    <3>2. \A v \in DOMAIN rows :
            \/ Num(k)[v] = rows[v].seq /\ rows[v].seq < at[r]
            \/ Num(k)[v] = -(rows[v].seq + 2) /\ rows[v].seq >= at[r]
            \/ Num(k)[v] = rows[v].seq + 1 /\ rows[v].seq >= at[r]
      BY <3>1, <1>2, <1>3, <1>5, <1>6, <1>7
    <3>3. QED BY <3>2, <1>2, <1>3
  <2>3. QED BY <2>1, <2>2
<1>9. Reached(rows, Ranks(r), Down(r), Up(r), n) = 2 * n
  BY <1>5, <1>8, ReachedAll DEF Num
<1>10. /\ disk' = rows' /\ slipped' = (slipped \/ Listed) /\ pc' = [pc EXCEPT ![r] = "list"]
       /\ DOMAIN rows' = DOMAIN rows \cup {r} /\ rows'[r].seq = at[r] /\ rows'[r].text = NewText(r)
       /\ \A t \in DOMAIN rows \ {r} : rows'[t].seq = Num(2 * n)[t] /\ rows'[t].text = rows[t].text
  BY <1>9, PlaceStep DEF n, Num
<1>11. \A t \in DOMAIN rows :
         Num(2 * n)[t] = IF rows[t].seq >= at[r] THEN rows[t].seq + 1 ELSE rows[t].seq
  BY Shifted DEF n, Num
<1>12. QED BY <1>2, <1>3, <1>10, <1>11

-----------------------------------------------------------------------------
(* The types.                                                              *)

LEMMA LoadedOK ==
    ASSUME NEW b \in Reqs \cup {Top}
    PROVE  /\ IsTable(Loaded(b)) /\ Distinct(Loaded(b)) /\ DOMAIN Loaded(b) = Turns
           /\ \A t \in Turns : Loaded(b)[t].by = b /\ Loaded(b)[t].seq = t /\ Loaded(b)[t].text = Body(t)
BY DEF Loaded, IsTable, Distinct, Ids, Turns

LEMMA InitType == Init => TypeOK
<1> SUFFICES ASSUME Init PROVE TypeOK OBVIOUS
<1>1. IsTable(Nothing) BY DEF Nothing, IsTable
<1>2. Cardinality(Ids) \in Nat BY FiniteIds, FS_CardinalityType
<1>3. DOMAIN Nothing = {} BY DEF Nothing
<1>4. IsTable(rows) /\ Distinct(rows) /\ rows = disk BY LoadedOK DEF Init
<1>5. /\ DOMAIN got = Reqs /\ DOMAIN was = Reqs /\ DOMAIN seen = Reqs
      /\ \A r \in Reqs : got[r] = Nothing /\ was[r] = Nothing /\ seen[r] = Nothing
  BY DEF Init
<1>6. /\ pc \in [Reqs -> {"new"}] /\ op \in [Reqs -> {"none"}] /\ want \in [Reqs -> {{}}]
      /\ anchor \in [Reqs -> {Top}] /\ cut \in [Reqs -> {0}] /\ at \in [Reqs -> {0}]
      /\ met = {} /\ slipped = FALSE /\ crashes = 0
  BY DEF Init
<1> HIDE DEF Nothing, Init
<1>7. \A r \in Reqs : /\ IsTable(got[r]) /\ IsTable(was[r])
                      /\ \A t \in DOMAIN seen[r] : t \in Ids /\ seen[r][t].place \in Nat
  BY <1>1, <1>3, <1>5
<1>8. slipped \in BOOLEAN BY <1>6
<1>9. QED BY <1>2, <1>4, <1>5, <1>6, <1>7, <1>8 DEF TypeOK

\* A part of a table is a table; so is one whose texts change.
LEMMA PartOK ==
    ASSUME IsTable(rows), Distinct(rows), NEW S
    PROVE  IsTable(Without(S)) /\ Distinct(Without(S))
BY DEF IsTable, Distinct, Without

LEMMA TextOK ==
    ASSUME IsTable(rows), Distinct(rows), NEW r, NEW t, NEW text
    PROVE  /\ IsTable(Rewritten(r, t, text)) /\ Distinct(Rewritten(r, t, text))
           /\ DOMAIN Rewritten(r, t, text) = DOMAIN rows
           /\ \A u \in DOMAIN rows : /\ Rewritten(r, t, text)[u].by = rows[u].by
                                     /\ Rewritten(r, t, text)[u].seq = rows[u].seq
<1>1. DOMAIN Rewritten(r, t, text) = DOMAIN rows BY DEF Rewritten
<1>2. \A u \in DOMAIN rows : /\ Rewritten(r, t, text)[u].by = rows[u].by
                             /\ Rewritten(r, t, text)[u].seq = rows[u].seq
  BY DEF Rewritten
<1> HIDE DEF Rewritten
<1>3. QED BY <1>1, <1>2 DEF IsTable, Distinct, Rewritten

\* How far a refill comes, and what it leaves.
Free == {k \in 0 .. N : \A t \in 0 .. k - 1 : \A u \in DOMAIN rows : rows[u].seq # t /\ u # t}

LEMMA RefillStep ==
    ASSUME TypeOK, NEW r \in Reqs, Refill(r)
    PROVE  \E k \in Free :
             /\ \A j \in Free : j <= k
             /\ DOMAIN rows' = DOMAIN rows \cup 0 .. k - 1
             /\ \A t \in DOMAIN rows : t \notin 0 .. k - 1 /\ rows'[t] = rows[t]
             /\ \A t \in 0 .. k - 1 : /\ t \in Turns /\ rows'[t].seq = t /\ rows'[t].by = r
                                     /\ rows'[t].text = Body(t)
             /\ \/ k = N /\ disk' = rows' /\ loose' = loose \ TextIn(rows')
                \/ k # N /\ disk' = disk /\ loose' = loose
<1> DEFINE top == CHOOSE k \in Free : \A j \in Free : j <= k
<1>1. \E k \in Free : \A j \in Free : j <= k
  <2> DEFINE T == {N - k : k \in Free}
  <2>1. T \in SUBSET (0 .. N) /\ N \in Nat BY DEF Free
  <2>2. 0 \in Free BY DEF Free
  <2>3. T # {} BY <2>2
  <2>4. PICK x \in T : \A y \in T : x <= y BY <2>1, <2>3, Least
  <2>5. PICK k \in Free : x = N - k BY <2>4
  <2>6. \A j \in Free : j <= k
    <3> SUFFICES ASSUME NEW j \in Free PROVE j <= k OBVIOUS
    <3>1. N - j \in T OBVIOUS
    <3>2. N - k <= N - j BY <3>1, <2>4, <2>5
    <3>3. QED BY <3>2 DEF Free
  <2>7. QED BY <2>6
<1>2. top \in Free /\ \A j \in Free : j <= top BY <1>1
<1>3. /\ rows' = [t \in DOMAIN rows \cup 0 .. top - 1 |->
                    IF t \in 0 .. top - 1 THEN Loaded(r)[t] ELSE rows[t]]
      /\ \/ top = N /\ disk' = rows' /\ loose' = loose \ TextIn(rows')
         \/ top # N /\ disk' = disk /\ loose' = loose
  BY DEF Refill, Free
<1> HIDE DEF top
<1>4. \A t \in 0 .. top - 1 : t \in Turns BY <1>2 DEF Free, Turns
<1>5. \A t \in DOMAIN rows : t \notin 0 .. top - 1 BY <1>2 DEF Free
<1>6. \A t \in Turns : Loaded(r)[t].seq = t /\ Loaded(r)[t].by = r /\ Loaded(r)[t].text = Body(t)
  BY LoadedOK
<1>7. QED BY <1>2, <1>3, <1>4, <1>5, <1>6

LEMMA RefillMove ==
    ASSUME TypeOK, NEW r \in Reqs, Refill(r)
    PROVE  /\ IsTable(rows') /\ Distinct(rows') /\ disk' \in {rows', disk}
           /\ DOMAIN rows \subseteq DOMAIN rows'
           /\ \A t \in DOMAIN rows : rows'[t] = rows[t]
           /\ \A t \in DOMAIN rows' \ DOMAIN rows : rows'[t].by = r /\ rows'[t].seq >= 0
<1>1. PICK k \in Free :
             /\ DOMAIN rows' = DOMAIN rows \cup 0 .. k - 1
             /\ \A t \in DOMAIN rows : t \notin 0 .. k - 1 /\ rows'[t] = rows[t]
             /\ \A t \in 0 .. k - 1 : t \in Turns /\ rows'[t].seq = t /\ rows'[t].by = r
             /\ disk' \in {rows', disk}
  BY RefillStep
<1>2. k \in 0 .. N /\ \A t \in 0 .. k - 1 : \A u \in DOMAIN rows : rows[u].seq # t
  BY DEF Free
<1>3. IsTable(rows') BY <1>1, <1>2 DEF TypeOK, IsTable, Ids
<1>4. Distinct(rows') BY <1>1, <1>2 DEF TypeOK, Distinct
<1>5. QED BY <1>1, <1>2, <1>3, <1>4

LEMMA NextKinds == TypeOK /\ Kinds /\ [Next]_vars => Kinds'
<1> SUFFICES ASSUME TypeOK, Kinds, [Next]_vars PROVE Kinds' OBVIOUS
<1> USE DEF Goes
<1>1. /\ IsTable(rows) /\ DOMAIN got = Reqs /\ met \subseteq Reqs
      /\ pc \in [Reqs -> {"new", "fetch", "head", "keep", "drop", "anchor", "place", "list", "passes", "refill", "over"}]
      /\ op \in [Reqs -> Ops \cup {"none"}] /\ want \in [Reqs -> SUBSET Ids]
      /\ anchor \in [Reqs -> Ids \cup {Top}] /\ cut \in [Reqs -> 0 .. 2 * Cardinality(Ids)]
  BY DEF TypeOK
\* Nobody starts: only one request comes further, and keeps what it was asked.
<1>2. ASSUME NEW r \in Reqs, NEW to \in {"over", "list", "passes", "drop"},
             pc[r] # "new", pc' = [pc EXCEPT ![r] = to], to = "drop" => pc[r] = "keep",
             op' = op, want' = want, cut' = cut, got' = got, met' = met,
             anchor' = anchor \/ (to = "drop" /\ \E t : anchor' = [anchor EXCEPT ![r] = t])
      PROVE  Kinds'
  BY <1>1, <1>2 DEF Kinds
<1>3. ASSUME NEW r \in Reqs, List(r) \/ Passes(r) \/ Keep(r) \/ Drop(r) \/ Refill(r) PROVE Kinds'
  BY <1>2, <1>3 DEF List, Passes, Keep, Drop, Refill, asked, held, history
<1>4. ASSUME NEW r \in Reqs, Shorten(r) PROVE Kinds'
  BY <1>1, <1>4 DEF Shorten, asked, held, Kinds
<1>5. ASSUME NEW r \in Reqs, Anchor(r) PROVE Kinds'
  BY <1>1, <1>5 DEF Anchor, asked, history, Kinds
<1>6. ASSUME NEW r \in Reqs, PlaceTurn(r) PROVE Kinds'
  <2>1. pc' = [pc EXCEPT ![r] = "list"] \/ pc' = [pc EXCEPT ![r] = "over"] BY <1>6 DEF PlaceTurn
  <2>2. QED BY <1>2, <1>6, <2>1 DEF PlaceTurn, asked, held
\* Someone starts.
<1>7. ASSUME NEW r \in Reqs, NEW o \in Ops, Starts(r, o)
      PROVE  /\ pc[r] = "new" /\ op' = [op EXCEPT ![r] = o]
             /\ \A q \in Reqs : q # r /\ q \in met' => q \in met \/ pc[q] # "new"
             /\ got[r] = Nothing
  BY <1>1, <1>7 DEF Starts, Active, Kinds
<1>8. ASSUME NEW r \in Reqs, NEW o \in Ops, Starts(r, o), NEW to \in {"list", "over", "refill"},
             pc' = [pc EXCEPT ![r] = to], got' = got, anchor' = anchor, cut' = cut,
             want' = want \/ \E S : want' = [want EXCEPT ![r] = S]
      PROVE  Kinds'
  BY <1>1, <1>7, <1>8 DEF Kinds
<1>9. ASSUME NEW r \in Reqs, NEW S \in SUBSET Shown, Delete(r, S) PROVE Kinds'
  <2>1. Starts(r, "delete") /\ "delete" \in Ops BY <1>9 DEF Delete, Starts
  <2>2. QED BY <1>8, <1>9, <2>1 DEF Delete, held
<1>10. ASSUME NEW r \in Reqs, Reset(r) \/ Rewrite(r) PROVE Kinds'
  <2>1. \E o \in Ops : Starts(r, o) BY <1>10 DEF Reset, Rewrite, Starts
  <2>2. QED BY <1>8, <1>10, <2>1 DEF Reset, Rewrite, held
<1>11. ASSUME NEW r \in Reqs, NEW a \in Shown \cup {Top}, Insert(r, a) PROVE Kinds'
  <2>1. Starts(r, "insert") /\ "insert" \in Ops BY <1>11 DEF Insert, Starts
  <2>2. got' = got /\ want' = want /\ cut' = cut /\ pc' = [pc EXCEPT ![r] = "anchor"]
        /\ anchor' = [anchor EXCEPT ![r] = a]
    BY <1>11 DEF Insert, held
  <2>3. QED BY <1>1, <1>7, <2>1, <2>2 DEF Kinds
<1>12. ASSUME NEW r \in Reqs, NEW t \in Shown, NEW c \in 0 .. 2 * Cardinality(Ids), Split(r, t, c)
       PROVE  Kinds'
  <2>1. Starts(r, "split") /\ "split" \in Ops BY <1>12 DEF Split, Starts
  <2>2. /\ want' = want /\ anchor' = [anchor EXCEPT ![r] = t] /\ cut' = [cut EXCEPT ![r] = c]
        /\ got' = [got EXCEPT ![r] = [u \in {t} \cap DOMAIN rows |-> rows[u]]]
    BY <1>12 DEF Split
  <2>3. CASE t \notin DOMAIN rows
    <3>1. pc' = [pc EXCEPT ![r] = "over"] BY <1>12, <2>3 DEF Split
    <3>2. QED BY <1>1, <1>7, <2>1, <2>2, <3>1 DEF Kinds
  <2>4. CASE t \in DOMAIN rows
    <3>1. pc' = [pc EXCEPT ![r] = "head"] /\ c \in 0 .. Len(rows[t].text) BY <1>12, <2>4 DEF Split
    <3>2. t \in Ids BY <1>1, <2>4 DEF IsTable
    <3>3. t \in DOMAIN got'[r] /\ got'[r][t] = rows[t] BY <1>1, <2>2, <2>4
    <3>4. anchor'[r] = t /\ cut'[r] = c /\ op'[r] = "split" BY <1>1, <1>7, <2>1, <2>2
    <3>5. QED BY <1>1, <1>7, <2>1, <2>2, <3>1, <3>3, <3>4 DEF Kinds
  <2>5. QED BY <2>3, <2>4
<1>13. ASSUME NEW r \in Reqs, NEW S \in SUBSET Shown, Join(r, S) PROVE Kinds'
  <2>1. Starts(r, "join") /\ "join" \in Ops BY <1>13 DEF Join, Starts
  <2>2. /\ got' = got /\ cut' = cut /\ anchor' = anchor /\ pc' = [pc EXCEPT ![r] = "fetch"]
        /\ want' = [want EXCEPT ![r] = S] /\ Cardinality(S) >= 2
    BY <1>13 DEF Join, held
  <2>3. DOMAIN Nothing = {} BY DEF Nothing
  <2>4. QED BY <1>1, <1>7, <2>1, <2>2, <2>3 DEF Kinds
<1>14. ASSUME NEW r \in Reqs, NEW t \in Ids, Fetch(r, t) PROVE Kinds'
  <2>1. /\ op' = op /\ want' = want /\ cut' = cut /\ anchor' = anchor /\ met' = met
        /\ pc[r] = "fetch" /\ t \in want[r] \ DOMAIN got[r]
        /\ got' = [got EXCEPT ![r] = [u \in DOMAIN got[r] \cup ({t} \cap DOMAIN rows) |->
                                        IF u = t THEN rows[t] ELSE got[r][u]]]
        /\ pc' = [pc EXCEPT ![r] = IF t \notin DOMAIN rows THEN "over"
                                   ELSE IF want[r] = DOMAIN got[r] \cup {t} THEN "keep" ELSE "fetch"]
    BY <1>14 DEF Fetch, asked, history
  <2>2. DOMAIN got'[r] = DOMAIN got[r] \cup ({t} \cap DOMAIN rows) BY <1>1, <2>1
  <2>3. \A q \in Reqs \ {r} : got'[q] = got[q] /\ pc'[q] = pc[q] BY <1>1, <2>1
  <2>4. QED BY <1>1, <2>1, <2>2, <2>3 DEF Kinds
<1>15. CASE OtherCommit \/ Crash \/ UNCHANGED vars
  BY <1>1, <1>15 DEF OtherCommit, Crash, Active, vars, asked, held, history, Kinds
<1>16. QED
  BY <1>3, <1>4, <1>5, <1>6, <1>9, <1>10, <1>11, <1>12, <1>13, <1>14, <1>15 DEF Next

LEMMA NextType == TypeOK /\ SeenOK /\ Kinds /\ [Next]_vars => TypeOK'
<1> SUFFICES ASSUME TypeOK, SeenOK, Kinds, [Next]_vars PROVE TypeOK' OBVIOUS
<1> USE DEF Goes
<1>1. IsTable(rows) /\ Distinct(rows) BY DEF TypeOK
<1>2. ASSUME NEW r \in Reqs, List(r) PROVE TypeOK'
  <2>1. \A t \in DOMAIN rows : t \in Ids /\ Place(rows, t) \in Nat
    <3> SUFFICES ASSUME NEW t \in DOMAIN rows PROVE t \in Ids /\ Place(rows, t) \in Nat OBVIOUS
    <3>1. IsFiniteSet(DOMAIN rows) BY <1>1, FiniteRows
    <3>2. IsFiniteSet({u \in DOMAIN rows : rows[u].seq < rows[t].seq}) BY <3>1, FS_Subset
    <3>3. QED BY <1>1, <3>2, FS_CardinalityType DEF Place, IsTable
  <2>2. DOMAIN seen' = Reqs BY <1>2 DEF List, TypeOK
  <2>3. \A q \in Reqs : \A t \in DOMAIN seen'[q] : t \in Ids /\ seen'[q][t].place \in Nat
    BY <1>2, <2>1 DEF List, TypeOK
  <2>4. QED BY <1>2, <2>2, <2>3 DEF List, TypeOK, asked, history
<1>3. ASSUME NEW r \in Reqs, Passes(r) PROVE TypeOK'
  <2>1. IsTable(rows') /\ Distinct(rows') /\ disk' \in {rows', disk}
    BY <1>3, PassesMove DEF TypeOK, IsTable
  <2>2. IsTable(disk') /\ Distinct(disk') BY <2>1 DEF TypeOK
  <2>3. QED BY <1>3, <2>1, <2>2 DEF Passes, TypeOK, asked, held, history
<1>4. ASSUME NEW r \in Reqs, Shorten(r) PROVE TypeOK'
  <2>1. rows' = Rewritten(r, anchor[r], SubSeq(got[r][anchor[r]].text, 1, cut[r])) /\ disk' = rows'
    BY <1>4 DEF Shorten, Commit
  <2>2. IsTable(rows') /\ Distinct(rows') BY <1>1, <2>1, TextOK
  <2>3. QED BY <1>4, <2>1, <2>2 DEF Shorten, TypeOK, asked, held
<1>5. ASSUME NEW r \in Reqs, Anchor(r) PROVE TypeOK'
  BY <1>5 DEF Anchor, TypeOK, asked, history, IsTable
<1>6. ASSUME NEW r \in Reqs, PlaceTurn(r) PROVE TypeOK'
  <2>1. IsTable(rows') /\ Distinct(rows') /\ disk' \in {rows', disk}
    <3>1. /\ DOMAIN rows' \subseteq DOMAIN rows \cup {r} /\ DOMAIN rows \subseteq Ids
          /\ r \in Ids /\ r \in Reqs
          /\ \A t \in DOMAIN rows : rows[t].by \in Reqs \cup {Top}
      BY <1>1, <1>6, PlaceMove DEF IsTable, Ids
    <3>2. \A t \in DOMAIN rows' : rows'[t].seq \in Int /\ rows'[t].by \in Reqs \cup {Top}
      BY <1>6, <3>1, PlaceMove
    <3>3. QED BY <1>6, <3>1, <3>2, PlaceMove DEF IsTable
  <2>2. IsTable(disk') /\ Distinct(disk') BY <2>1 DEF TypeOK
  <2>3. slipped' \in BOOLEAN BY <1>6 DEF PlaceTurn, TypeOK
  <2>4. pc' = [pc EXCEPT ![r] = "list"] \/ pc' = [pc EXCEPT ![r] = "over"] BY <1>6 DEF PlaceTurn
  <2>5. QED BY <1>6, <2>1, <2>2, <2>3, <2>4 DEF PlaceTurn, TypeOK, asked, held
<1>7. ASSUME NEW r \in Reqs, Keep(r) PROVE TypeOK'
  <2>1. PICK f \in InOrder(got[r], want[r]) :
          /\ rows' = Rewritten(r, f[1], Joined(got[r], f)) /\ disk' = rows'
          /\ anchor' = [anchor EXCEPT ![r] = f[1]]
    BY <1>7 DEF Keep, Commit
  <2>2. IsTable(rows') /\ Distinct(rows') BY <1>1, <2>1, TextOK
  <2>3. want[r] \in SUBSET Ids BY DEF TypeOK
  <2>4. Cardinality(want[r]) \in Nat BY <2>3, FiniteIds, FS_Subset, FS_CardinalityType
  <2>5. f[1] \in Ids BY <1>7, <2>3, <2>4 DEF Keep, Kinds, InOrder
  <2>6. QED BY <1>7, <2>1, <2>2, <2>5 DEF Keep, TypeOK, held, history
<1>8. ASSUME NEW r \in Reqs, Drop(r) PROVE TypeOK'
  <2>1. rows' = Without(want[r] \ {anchor[r]}) /\ disk' = rows'
    BY <1>8 DEF Drop, Commit
  <2>2. IsTable(rows') /\ Distinct(rows') BY <1>1, <2>1, PartOK
  <2>3. QED BY <1>8, <2>1, <2>2 DEF Drop, TypeOK, asked, held, history
<1>9. ASSUME NEW r \in Reqs, Reset(r) PROVE TypeOK'
  <2>1. rows' = Nothing /\ disk' = rows' BY <1>9 DEF Reset, Commit
  <2>2. IsTable(rows') /\ Distinct(rows') BY <2>1 DEF Nothing, IsTable, Distinct
  <2>3. QED BY <1>1, <1>9, <2>1, <2>2 DEF Reset, Starts, Active, TypeOK, held
<1>10. ASSUME NEW r \in Reqs, Refill(r) PROVE TypeOK'
  <2>1. IsTable(rows') /\ Distinct(rows') /\ disk' \in {rows', disk} BY <1>10, RefillMove
  <2>2. IsTable(disk') /\ Distinct(disk') BY <2>1 DEF TypeOK
  <2>3. slipped' \in BOOLEAN BY <1>10 DEF Refill, TypeOK
  <2>4. QED BY <1>10, <2>1, <2>2, <2>3 DEF Refill, TypeOK, asked, held
<1>11. ASSUME NEW r \in Reqs, Rewrite(r) PROVE TypeOK'
  <2>1. rows' = Loaded(r) /\ disk' = rows' BY <1>11 DEF Rewrite, Commit
  <2>2. IsTable(rows') /\ Distinct(rows') BY <2>1, LoadedOK
  <2>3. QED BY <1>1, <1>11, <2>1, <2>2 DEF Rewrite, Starts, Active, TypeOK, held
<1>12. ASSUME NEW r \in Reqs, NEW S \in SUBSET Shown, Delete(r, S) PROVE TypeOK'
  <2>1. rows' = Without(S) /\ disk' = rows' BY <1>12 DEF Delete, Commit
  <2>2. IsTable(rows') /\ Distinct(rows') BY <1>1, <2>1, PartOK
  <2>3. S \in SUBSET Ids BY <1>1 DEF Shown, Ids, IsTable
  <2>4. QED BY <1>1, <1>12, <2>1, <2>2, <2>3 DEF Delete, Starts, Active, TypeOK, held
<1>13. ASSUME NEW r \in Reqs, NEW S \in SUBSET Shown, Join(r, S) PROVE TypeOK'
  <2>1. S \in SUBSET Ids BY <1>1 DEF Shown, Ids, IsTable
  <2>2. QED BY <1>1, <1>13, <2>1 DEF Join, Starts, Active, TypeOK, held
<1>14. ASSUME NEW r \in Reqs, NEW a \in Shown \cup {Top}, Insert(r, a) PROVE TypeOK'
  <2>1. a \in Ids \cup {Top} BY <1>1 DEF Shown, Ids, IsTable
  <2>2. QED BY <1>1, <1>14, <2>1 DEF Insert, Starts, Active, TypeOK, held
<1>15. ASSUME NEW r \in Reqs, NEW t \in Shown, NEW c \in 0 .. 2 * Cardinality(Ids), Split(r, t, c)
       PROVE  TypeOK'
  <2>1. t \in Ids BY <1>1 DEF Shown, Ids, IsTable
  <2>2. IsTable([u \in {t} \cap DOMAIN rows |-> rows[u]]) BY <1>1 DEF IsTable
  <2>3. DOMAIN got' = Reqs /\ \A q \in Reqs : IsTable(got'[q]) BY <1>15, <2>2 DEF Split, TypeOK
  <2>4. pc' = [pc EXCEPT ![r] = "over"] \/ pc' = [pc EXCEPT ![r] = "head"] BY <1>15 DEF Split
  <2>5. QED BY <1>1, <1>15, <2>1, <2>3, <2>4 DEF Split, Starts, Active, TypeOK
<1>16. ASSUME NEW r \in Reqs, NEW t \in Ids, Fetch(r, t) PROVE TypeOK'
  <2>1. got' = [got EXCEPT ![r] = [u \in DOMAIN got[r] \cup ({t} \cap DOMAIN rows) |->
                                      IF u = t THEN rows[t] ELSE got[r][u]]]
    BY <1>16 DEF Fetch
  <2>2. IsTable([u \in DOMAIN got[r] \cup ({t} \cap DOMAIN rows) |->
                    IF u = t THEN rows[t] ELSE got[r][u]])
    <3>1. IsTable(got[r]) BY DEF TypeOK
    <3>2. t \notin DOMAIN got[r] BY <1>16 DEF Fetch
    <3>3. QED BY <1>1, <3>1, <3>2 DEF IsTable
  <2>3. DOMAIN got' = Reqs /\ \A q \in Reqs : IsTable(got'[q]) BY <2>1, <2>2 DEF TypeOK
  <2>4. QED BY <1>16, <2>3 DEF Fetch, TypeOK, asked, history
<1>17. CASE OtherCommit
  BY <1>17 DEF OtherCommit, Commit, TypeOK, asked, held, history
<1>18. CASE Crash
  BY <1>18 DEF Crash, Active, TypeOK, asked, held, history
<1>19. CASE UNCHANGED vars
  BY <1>19 DEF vars, TypeOK, asked, held, history
<1>20. QED
  BY <1>2, <1>3, <1>4, <1>5, <1>6, <1>7, <1>8, <1>9, <1>10, <1>11, <1>12, <1>13, <1>14, <1>15,
     <1>16, <1>17, <1>18, <1>19 DEF Next

-----------------------------------------------------------------------------
(* The parts of the invariant, one by one.                                 *)

Late == {"list", "passes", "over"}

\* What a step may add to the rows, and that nobody comes back from his last commits.
RowsStep ==
    /\ \A t \in DOMAIN rows' :
         \/ t \in DOMAIN rows /\ rows'[t].by = rows[t].by
         \/ t \in DOMAIN disk /\ rows'[t].by = disk[t].by
         \/ \E r \in Reqs : rows'[t].by = r /\ pc'[r] \in Late
    /\ disk' \in {disk, rows'}
    /\ \A q \in Reqs : pc[q] \in Late => pc'[q] \in Late
    /\ \A q \in Reqs : \A t \in DOMAIN seen'[q] :
         \/ t \in DOMAIN seen[q] /\ seen'[q][t].by = seen[q][t].by
         \/ t \in DOMAIN rows /\ seen'[q][t].by = rows[t].by

LEMMA NextRows == TypeOK /\ SeenOK /\ [Next]_vars => RowsStep
<1> SUFFICES ASSUME TypeOK, SeenOK, [Next]_vars PROVE RowsStep OBVIOUS
<1> USE DEF Goes, RowsStep, Late
<1>1. IsTable(rows) /\ Distinct(rows) /\ pc \in [Reqs -> {"new", "fetch", "head", "keep", "drop", "anchor", "place", "list", "passes", "refill", "over"}] /\ DOMAIN seen = Reqs
  BY DEF TypeOK
<1>2. ASSUME NEW r \in Reqs, List(r) PROVE RowsStep BY <1>1, <1>2 DEF List
<1>3. ASSUME NEW r \in Reqs, Passes(r) PROVE RowsStep
  <2>1. /\ DOMAIN rows' = DOMAIN rows /\ \A t \in DOMAIN rows : rows'[t].by = rows[t].by
        /\ disk' \in {rows', disk}
    BY <1>3, PassesMove
  <2>2. pc[r] = "passes" /\ pc' = [pc EXCEPT ![r] = "over"] /\ seen' = seen BY <1>3 DEF Passes, held
  <2>3. QED BY <1>1, <2>1, <2>2
<1>4. ASSUME NEW r \in Reqs, Shorten(r) PROVE RowsStep
  <2>1. rows' = Rewritten(r, anchor[r], SubSeq(got[r][anchor[r]].text, 1, cut[r])) /\ disk' = rows'
    BY <1>4 DEF Shorten, Commit
  <2>2. DOMAIN rows' = DOMAIN rows /\ \A u \in DOMAIN rows : rows'[u].by = rows[u].by
    BY <1>1, <2>1, TextOK
  <2>3. QED BY <1>1, <1>4, <2>1, <2>2 DEF Shorten, held
<1>5. ASSUME NEW r \in Reqs, Anchor(r) PROVE RowsStep BY <1>1, <1>5 DEF Anchor
<1>6. ASSUME NEW r \in Reqs, PlaceTurn(r) PROVE RowsStep
  <2>1. pc[r] = "place" /\ seen' = seen BY <1>6 DEF PlaceTurn, held
  <2>2. pc' = [pc EXCEPT ![r] = "list"] \/ pc' = [pc EXCEPT ![r] = "over"] BY <1>6, PlaceStep
  <2>3. /\ \A t \in DOMAIN rows' : rows'[t].by = r \/ (t \in DOMAIN rows /\ rows'[t].by = rows[t].by)
        /\ disk' \in {rows', disk}
    BY <1>6, PlaceMove
  <2>4. QED BY <1>1, <2>1, <2>2, <2>3
<1>7. ASSUME NEW r \in Reqs, Keep(r) PROVE RowsStep
  <2>1. PICK f \in InOrder(got[r], want[r]) :
          rows' = Rewritten(r, f[1], Joined(got[r], f)) /\ disk' = rows'
    BY <1>7 DEF Keep, Commit
  <2>2. DOMAIN rows' = DOMAIN rows /\ \A u \in DOMAIN rows : rows'[u].by = rows[u].by
    BY <1>1, <2>1, TextOK
  <2>3. QED BY <1>1, <1>7, <2>1, <2>2 DEF Keep, held
<1>8. ASSUME NEW r \in Reqs, Drop(r) PROVE RowsStep BY <1>1, <1>8 DEF Drop, Commit, Without, held
<1>9. ASSUME NEW r \in Reqs, Reset(r) PROVE RowsStep
  <2>1. rows' = Nothing /\ disk' = rows' /\ DOMAIN Nothing = {} BY <1>9 DEF Reset, Commit, Nothing
  <2>2. QED BY <1>1, <1>9, <2>1 DEF Reset, Starts, held
<1>10. ASSUME NEW r \in Reqs, Refill(r) PROVE RowsStep
  <2>1. pc' = [pc EXCEPT ![r] = "over"] /\ seen' = seen BY <1>10 DEF Refill, held
  <2>2. /\ \A t \in DOMAIN rows : rows'[t] = rows[t]
        /\ \A t \in DOMAIN rows' \ DOMAIN rows : rows'[t].by = r
        /\ disk' \in {rows', disk}
    BY <1>10, RefillMove
  <2>3. QED BY <1>1, <2>1, <2>2
<1>11. ASSUME NEW r \in Reqs, Rewrite(r) PROVE RowsStep
  <2>1. rows' = Loaded(r) /\ disk' = rows' BY <1>11 DEF Rewrite, Commit
  <2>2. \A t \in DOMAIN rows' : rows'[t].by = r BY <2>1, LoadedOK
  <2>3. QED BY <1>1, <1>11, <2>1, <2>2 DEF Rewrite, Starts, held
<1>12. ASSUME NEW r \in Reqs, NEW S \in SUBSET Shown, Delete(r, S) PROVE RowsStep
  BY <1>1, <1>12 DEF Delete, Starts, Commit, Without, held
<1>13. ASSUME NEW r \in Reqs, NEW S \in SUBSET Shown, Join(r, S) PROVE RowsStep
  BY <1>1, <1>13 DEF Join, Starts, held
<1>14. ASSUME NEW r \in Reqs, NEW a \in Shown \cup {Top}, Insert(r, a) PROVE RowsStep
  BY <1>1, <1>14 DEF Insert, Starts, held
<1>15. ASSUME NEW r \in Reqs, NEW t \in Shown, NEW c \in 0 .. 2 * Cardinality(Ids), Split(r, t, c)
       PROVE  RowsStep
  <2>1. pc[r] = "new" /\ seen' = seen /\ rows' = rows /\ disk' = disk BY <1>15 DEF Split, Starts
  <2>2. pc' = [pc EXCEPT ![r] = "over"] \/ pc' = [pc EXCEPT ![r] = "head"] BY <1>15 DEF Split
  <2>3. QED BY <1>1, <2>1, <2>2
<1>16. ASSUME NEW r \in Reqs, NEW t \in Ids, Fetch(r, t) PROVE RowsStep
  BY <1>1, <1>16 DEF Fetch
<1>17. CASE OtherCommit BY <1>1, <1>17 DEF OtherCommit, Commit, held
<1>18. CASE Crash BY <1>1, <1>18 DEF Crash, Active, held
<1>19. CASE UNCHANGED vars BY <1>1, <1>19 DEF vars, held
<1>20. QED
  BY <1>2, <1>3, <1>4, <1>5, <1>6, <1>7, <1>8, <1>9, <1>10, <1>11, <1>12, <1>13, <1>14, <1>15,
     <1>16, <1>17, <1>18, <1>19 DEF Next

LEMMA NextFresh == TypeOK /\ SeenOK /\ Fresh /\ [Next]_vars => Fresh'
<1> SUFFICES ASSUME TypeOK, Fresh, RowsStep, NEW q \in Reqs, pc'[q] \notin Late
             PROVE  /\ \A t \in DOMAIN rows' : rows'[t].by # q
                    /\ \A t \in DOMAIN disk' : disk'[t].by # q
                    /\ \A r \in Reqs : \A t \in DOMAIN seen'[r] : seen'[r][t].by # q
  BY NextRows DEF Fresh, Late
<1>1. pc[q] \notin Late BY DEF RowsStep
<1>2. /\ \A t \in DOMAIN rows : rows[t].by # q
      /\ \A t \in DOMAIN disk : disk[t].by # q
      /\ \A r \in Reqs : \A t \in DOMAIN seen[r] : seen[r][t].by # q
  BY <1>1 DEF Fresh, Late
<1>3. \A t \in DOMAIN rows' : rows'[t].by # q BY <1>2 DEF RowsStep
<1>4. \A t \in DOMAIN disk' : disk'[t].by # q BY <1>2, <1>3 DEF RowsStep
<1>5. \A r \in Reqs : \A t \in DOMAIN seen'[r] : seen'[r][t].by # q BY <1>2 DEF RowsStep
<1>6. QED BY <1>3, <1>4, <1>5

\* A turn with a smaller number has the smaller place.
LEMMA Further ==
    ASSUME TypeOK, NEW t \in DOMAIN rows, NEW u \in DOMAIN rows
    PROVE  /\ Place(rows, t) \in Nat /\ Place(rows, u) \in Nat
           /\ rows[t].seq < rows[u].seq <=> Place(rows, t) < Place(rows, u)
<1> DEFINE Under(v) == {w \in DOMAIN rows : rows[w].seq < rows[v].seq}
<1>1. IsFiniteSet(DOMAIN rows) BY FiniteRows DEF TypeOK
<1>2. \A v \in DOMAIN rows : rows[v].seq \in Int BY DEF TypeOK, IsTable
<1>3. IsFiniteSet(Under(t)) /\ IsFiniteSet(Under(u)) BY <1>1, FS_Subset
<1>4. Cardinality(Under(t)) \in Nat /\ Cardinality(Under(u)) \in Nat BY <1>3, FS_CardinalityType
<1>5. rows[t].seq < rows[u].seq => Cardinality(Under(t)) < Cardinality(Under(u))
  <2> SUFFICES ASSUME rows[t].seq < rows[u].seq PROVE Cardinality(Under(t)) < Cardinality(Under(u)) OBVIOUS
  <2>1. Under(t) \in SUBSET Under(u) /\ t \in Under(u) /\ t \notin Under(t) BY <1>2
  <2>2. QED BY <2>1, <1>3, FewerWithout
<1>6. ~(rows[t].seq < rows[u].seq) => Cardinality(Under(u)) <= Cardinality(Under(t))
  <2> SUFFICES ASSUME ~(rows[t].seq < rows[u].seq) PROVE Cardinality(Under(u)) <= Cardinality(Under(t)) OBVIOUS
  <2>1. Under(u) \in SUBSET Under(t) BY <1>2
  <2>2. QED BY <2>1, <1>3, FS_Subset
<1>7. QED BY <1>4, <1>5, <1>6 DEF Place

\* Only List writes a listing, and starts its passes.
LEMMA NextSeen == TypeOK /\ SeenOK /\ [Next]_vars => SeenOK'
<1> SUFFICES ASSUME TypeOK, SeenOK, [Next]_vars, NEW q \in Reqs, pc'[q] = "passes"
             PROVE  /\ IsFiniteSet(DOMAIN seen'[q])
                    /\ \A t \in DOMAIN seen'[q] : seen'[q][t].place < Cardinality(DOMAIN seen'[q])
                    /\ \A t, u \in DOMAIN seen'[q] : seen'[q][t].place = seen'[q][u].place => t = u
  BY DEF SeenOK
<1>1. pc \in [Reqs -> {"new", "fetch", "head", "keep", "drop", "anchor", "place", "list", "passes", "refill", "over"}]
      /\ DOMAIN seen = Reqs
  BY DEF TypeOK
<1>2. CASE List(q)
  <2>1. /\ DOMAIN seen'[q] = DOMAIN rows
        /\ \A t \in DOMAIN rows : seen'[q][t].place = Place(rows, t)
    BY <1>1, <1>2 DEF List
  <2>2. IsFiniteSet(DOMAIN rows) BY FiniteRows DEF TypeOK
  <2>3. ASSUME NEW t \in DOMAIN rows
        PROVE  Place(rows, t) \in Nat /\ Place(rows, t) < Cardinality(DOMAIN rows)
    <3> DEFINE T == {u \in DOMAIN rows : rows[u].seq < rows[t].seq}
    <3>1. rows[t].seq \in Int BY DEF TypeOK, IsTable
    <3>2. T \in SUBSET DOMAIN rows /\ t \notin T BY <3>1
    <3>3. QED BY <2>2, <3>2, FewerWithout DEF Place
  <2>4. ASSUME NEW t \in DOMAIN rows, NEW u \in DOMAIN rows, Place(rows, t) = Place(rows, u)
        PROVE  t = u
    <3>1. rows[t].seq \in Int /\ rows[u].seq \in Int BY DEF TypeOK, IsTable
    <3>2. ~(rows[t].seq < rows[u].seq) /\ ~(rows[u].seq < rows[t].seq)
      BY <2>4, Further
    <3>3. rows[t].seq = rows[u].seq BY <3>1, <3>2
    <3>4. Distinct(rows) BY DEF TypeOK
    <3>5. QED BY <3>3, <3>4 DEF Distinct
  <2>5. QED BY <2>1, <2>2, <2>3, <2>4
<1>3. CASE ~List(q)
  <2>1. pc[q] = "passes" /\ seen'[q] = seen[q]
    <3> USE <1>1, <1>3 DEF Goes
    <3>1. ASSUME NEW r \in Reqs, List(r) PROVE pc[q] = "passes" /\ seen'[q] = seen[q]
      BY <3>1 DEF List
    <3>2. ASSUME NEW r \in Reqs,
                 Passes(r) \/ Shorten(r) \/ Anchor(r) \/ Keep(r) \/ Drop(r) \/ Reset(r)
                 \/ Refill(r) \/ Rewrite(r)
          PROVE  pc[q] = "passes" /\ seen'[q] = seen[q]
      BY <3>2 DEF Passes, Shorten, Anchor, Keep, Drop, Reset, Refill, Rewrite, held, Starts
    <3>3. ASSUME NEW r \in Reqs, PlaceTurn(r) PROVE pc[q] = "passes" /\ seen'[q] = seen[q]
      <4>1. pc' = [pc EXCEPT ![r] = "list"] \/ pc' = [pc EXCEPT ![r] = "over"] BY <3>3, PlaceStep
      <4>2. QED BY <3>3, <4>1 DEF PlaceTurn, held
    <3>4. ASSUME NEW r \in Reqs, NEW S, Delete(r, S) \/ Join(r, S) PROVE pc[q] = "passes" /\ seen'[q] = seen[q]
      BY <3>4 DEF Delete, Join, Starts, held
    <3>5. ASSUME NEW r \in Reqs, NEW a, Insert(r, a) PROVE pc[q] = "passes" /\ seen'[q] = seen[q]
      BY <3>5 DEF Insert, Starts, held
    <3>6. ASSUME NEW r \in Reqs, NEW t, NEW c, Split(r, t, c) PROVE pc[q] = "passes" /\ seen'[q] = seen[q]
      BY <3>6 DEF Split, Starts
    <3>7. ASSUME NEW r \in Reqs, NEW t, Fetch(r, t) PROVE pc[q] = "passes" /\ seen'[q] = seen[q]
      BY <3>7 DEF Fetch
    <3>8. CASE OtherCommit \/ Crash \/ UNCHANGED vars
      BY <3>8 DEF OtherCommit, Crash, Active, vars, held
    <3>9. QED BY <3>1, <3>2, <3>3, <3>4, <3>5, <3>6, <3>7, <3>8 DEF Next
  <2>2. QED BY <2>1 DEF SeenOK
<1>4. QED BY <1>2, <1>3

\* What every step keeps until a turn slips in.
Kept ==
    /\ \A t, u \in DOMAIN rows \cap DOMAIN rows' :
         rows'[t].by = rows[t].by /\ rows'[u].by = rows[u].by
         => (rows[t].seq < rows[u].seq <=> rows'[t].seq < rows'[u].seq)
    /\ \A t \in DOMAIN rows' : rows'[t].seq >= 0
    /\ \/ disk' = rows'
       \/ disk' = disk /\ \A t \in DOMAIN rows : t \in DOMAIN rows' /\ rows'[t] = rows[t]
    /\ \/ \A q \in Reqs : pc'[q] = "place" => pc[q] = "place" /\ at'[q] = at[q]
       \/ \A q \in Reqs : pc'[q] = "place" => at'[q] >= 0
    /\ \/ \A q \in Reqs : pc'[q] # "passes"
       \/ \A q \in Reqs : pc'[q] = "passes" =>
            \/ List(q)
            \/ /\ pc[q] = "passes" /\ seen'[q] = seen[q]
               /\ \/ /\ DOMAIN rows' \subseteq DOMAIN rows
                     /\ \A t \in DOMAIN rows' : rows'[t].by = rows[t].by
                  \/ \A t \in DOMAIN rows' \cap DOMAIN seen[q] : rows'[t].by # seen[q][t].by

LEMMA NextKeeps ==
    TypeOK /\ SeenOK /\ Fresh /\ NonNeg /\ InStep /\ Ahead /\ [Next]_vars /\ ~slipped' => Kept /\ ~slipped
<1> SUFFICES ASSUME TypeOK, SeenOK, Fresh, NonNeg, InStep, Ahead, [Next]_vars, ~slipped'
             PROVE  Kept /\ ~slipped
  OBVIOUS
<1> USE DEF Goes
<1>0. ~slipped
  <2>1. ASSUME NEW r \in Reqs, PlaceTurn(r) PROVE ~slipped BY <2>1 DEF PlaceTurn
  <2>2. ASSUME NEW r \in Reqs, Refill(r) PROVE ~slipped BY <2>2 DEF Refill
  <2>3. ASSUME slipped' = slipped PROVE ~slipped BY <2>3
  <2>4. QED
    BY <2>1, <2>2, <2>3
    DEF Next, List, Passes, Shorten, Anchor, Keep, Drop, Reset, Rewrite, Delete, Join, Insert, Split,
        Fetch, OtherCommit, Crash, vars, history, Starts
<1>1. /\ IsTable(rows) /\ Distinct(rows) /\ DOMAIN seen = Reqs
      /\ pc \in [Reqs -> {"new", "fetch", "head", "keep", "drop", "anchor", "place", "list", "passes", "refill", "over"}]
      /\ at \in [Reqs -> Int]
      /\ \A t \in DOMAIN rows : rows[t].seq \in Int /\ rows[t].seq >= 0
  BY <1>0 DEF TypeOK, IsTable, NonNeg
<1>2. ASSUME NEW r \in Reqs, List(r) PROVE Kept BY <1>1, <1>2 DEF List, Kept
<1>3. ASSUME NEW r \in Reqs, Passes(r) PROVE Kept
  <2>1. DOMAIN rows' = DOMAIN rows /\ \A t \in DOMAIN rows : rows'[t].by = rows[t].by
    BY <1>3, PassesMove
  <2>2. /\ disk' = rows' /\ \A t \in DOMAIN rows : rows'[t].seq >= 0
        /\ \A t, u \in DOMAIN rows : rows'[t].seq < rows'[u].seq <=> rows[t].seq < rows[u].seq
    BY <1>0, <1>3, PassesKeepOrder
  <2>3. pc' = [pc EXCEPT ![r] = "over"] /\ seen' = seen /\ at' = at BY <1>3 DEF Passes, held
  <2>4. QED BY <1>1, <2>1, <2>2, <2>3 DEF Kept
<1>4. ASSUME NEW r \in Reqs, Shorten(r) PROVE Kept
  <2>1. rows' = Rewritten(r, anchor[r], SubSeq(got[r][anchor[r]].text, 1, cut[r])) /\ disk' = rows'
    BY <1>4 DEF Shorten, Commit
  <2>2. /\ DOMAIN rows' = DOMAIN rows
        /\ \A u \in DOMAIN rows : rows'[u].by = rows[u].by /\ rows'[u].seq = rows[u].seq
    BY <1>1, <2>1, TextOK
  <2>3. pc' = [pc EXCEPT ![r] = "anchor"] /\ seen' = seen /\ at' = at BY <1>4 DEF Shorten, held
  <2>4. QED BY <1>1, <2>1, <2>2, <2>3 DEF Kept
<1>5. ASSUME NEW r \in Reqs, Anchor(r) PROVE Kept
  <2>1. rows' = rows /\ disk' = disk /\ seen' = seen BY <1>5 DEF Anchor
  <2>2. \A q \in Reqs : pc'[q] = "passes" => pc[q] = "passes" BY <1>1, <1>5 DEF Anchor
  <2>3. CASE anchor[r] # Top /\ anchor[r] \notin DOMAIN rows
    BY <1>1, <1>5, <2>1, <2>2, <2>3 DEF Anchor, Kept
  <2>4. CASE ~(anchor[r] # Top /\ anchor[r] \notin DOMAIN rows)
    <3>1. at' = [at EXCEPT ![r] = IF anchor[r] = Top THEN 0 ELSE rows[anchor[r]].seq + 1]
          /\ pc' = [pc EXCEPT ![r] = "place"]
      BY <1>5, <2>4 DEF Anchor
    <3>2. at'[r] >= 0 BY <1>1, <2>4, <3>1
    <3>3. \A q \in Reqs : pc'[q] = "place" => at'[q] >= 0 BY <1>0, <1>1, <3>1, <3>2 DEF NonNeg
    <3>4. QED BY <1>1, <2>1, <2>2, <3>3 DEF Kept
  <2>5. QED BY <2>3, <2>4
<1>6. ASSUME NEW r \in Reqs, PlaceTurn(r) PROVE Kept
  <2>1. /\ disk' = rows' /\ slipped' = (slipped \/ Listed) /\ pc' = [pc EXCEPT ![r] = "list"]
        /\ \A t \in DOMAIN rows' : rows'[t].seq >= 0
        /\ \A t, u \in DOMAIN rows \ {r} : rows'[t].seq < rows'[u].seq <=> rows[t].seq < rows[u].seq
    BY <1>0, <1>6, PlaceKeepsOrder DEF NonNeg, PlaceTurn
  <2>2. \A q \in Reqs : pc[q] # "passes" BY <2>1 DEF Listed
  <2>3. \A q \in Reqs : pc'[q] # "passes" BY <1>1, <2>1, <2>2
  <2>4. at' = at BY <1>6 DEF PlaceTurn, held
  <2>5. pc[r] = "place" BY <1>6 DEF PlaceTurn
  <2>6. \A t \in DOMAIN rows : rows[t].by # r BY <2>5 DEF Fresh
  <2>7. r \in DOMAIN rows' /\ rows'[r].by = r
    <3>1. pc' # [pc EXCEPT ![r] = "over"] BY <1>1, <2>1
    <3>2. DOMAIN rows' = DOMAIN rows \cup {r} /\ rows'[r].by = r BY <1>6, <3>1, PlaceStep
    <3>3. QED BY <3>2
  <2>8. QED BY <1>1, <2>1, <2>3, <2>4, <2>6, <2>7 DEF Kept
<1>7. ASSUME NEW r \in Reqs, Keep(r) PROVE Kept
  <2>1. PICK f \in InOrder(got[r], want[r]) :
          rows' = Rewritten(r, f[1], Joined(got[r], f)) /\ disk' = rows'
    BY <1>7 DEF Keep, Commit
  <2>2. /\ DOMAIN rows' = DOMAIN rows
        /\ \A u \in DOMAIN rows : rows'[u].by = rows[u].by /\ rows'[u].seq = rows[u].seq
    BY <1>1, <2>1, TextOK
  <2>3. pc' = [pc EXCEPT ![r] = "drop"] /\ seen' = seen /\ at' = at BY <1>7 DEF Keep, held
  <2>4. QED BY <1>1, <2>1, <2>2, <2>3 DEF Kept
<1>8. ASSUME NEW r \in Reqs, Drop(r) PROVE Kept
  BY <1>1, <1>8 DEF Drop, Commit, Without, held, Kept
<1>9. ASSUME NEW r \in Reqs, Reset(r) PROVE Kept
  <2>1. rows' = Nothing /\ disk' = rows' /\ DOMAIN Nothing = {} BY <1>9 DEF Reset, Commit, Nothing
  <2>2. QED BY <1>1, <1>9, <2>1 DEF Reset, held, Kept
<1>10. ASSUME NEW r \in Reqs, Refill(r) PROVE Kept
  <2>1. pc' = [pc EXCEPT ![r] = "over"] /\ at' = at /\ slipped' = (slipped \/ Listed)
    BY <1>10 DEF Refill, held
  <2>2. \A q \in Reqs : pc[q] # "passes" BY <2>1 DEF Listed
  <2>3. \A q \in Reqs : pc'[q] # "passes" BY <1>1, <2>1, <2>2
  <2>4. /\ disk' \in {rows', disk} /\ DOMAIN rows \subseteq DOMAIN rows'
        /\ \A t \in DOMAIN rows : rows'[t] = rows[t]
        /\ \A t \in DOMAIN rows' \ DOMAIN rows : rows'[t].seq >= 0
    BY <1>10, RefillMove
  <2>5. QED BY <1>1, <2>1, <2>3, <2>4 DEF Kept
<1>11. ASSUME NEW r \in Reqs, Rewrite(r) PROVE Kept
  <2>1. rows' = Loaded(r) /\ disk' = rows' /\ pc[r] = "new" /\ pc' = [pc EXCEPT ![r] = "over"]
        /\ seen' = seen /\ at' = at
    BY <1>11 DEF Rewrite, Commit, Starts, held
  <2>2. /\ \A t \in DOMAIN rows' : rows'[t].by = r /\ rows'[t].seq >= 0
    BY <2>1, LoadedOK DEF Turns
  <2>3. /\ \A t \in DOMAIN rows : rows[t].by # r
        /\ \A q \in Reqs : \A t \in DOMAIN seen[q] : seen[q][t].by # r
    BY <2>1 DEF Fresh
  <2>4. QED BY <1>1, <2>1, <2>2, <2>3 DEF Kept
<1>12. ASSUME NEW r \in Reqs, NEW S \in SUBSET Shown, Delete(r, S) PROVE Kept
  BY <1>1, <1>12 DEF Delete, Commit, Without, held, Kept
<1>13. ASSUME NEW r \in Reqs, NEW S \in SUBSET Shown, Join(r, S) PROVE Kept
  BY <1>1, <1>13 DEF Join, held, Kept
<1>14. ASSUME NEW r \in Reqs, NEW a \in Shown \cup {Top}, Insert(r, a) PROVE Kept
  BY <1>1, <1>14 DEF Insert, held, Kept
<1>15. ASSUME NEW r \in Reqs, NEW t \in Shown, NEW c \in 0 .. 2 * Cardinality(Ids), Split(r, t, c)
       PROVE  Kept
  <2>1. seen' = seen /\ rows' = rows /\ disk' = disk /\ at' = at BY <1>15 DEF Split
  <2>2. pc' = [pc EXCEPT ![r] = "over"] \/ pc' = [pc EXCEPT ![r] = "head"] BY <1>15 DEF Split
  <2>3. QED BY <1>1, <2>1, <2>2 DEF Kept
<1>16. ASSUME NEW r \in Reqs, NEW t \in Ids, Fetch(r, t) PROVE Kept
  BY <1>1, <1>16 DEF Fetch, Kept
<1>17. CASE OtherCommit BY <1>0, <1>1, <1>17 DEF OtherCommit, Commit, held, Kept
<1>18. CASE Crash
  <2>1. rows' = disk /\ disk' = disk /\ at' = at BY <1>18 DEF Crash, held
  <2>2. \A q \in Reqs : pc'[q] # "passes" /\ pc'[q] # "place" BY <1>1, <1>18 DEF Crash, Active
  <2>3. \A t \in DOMAIN disk : t \in DOMAIN rows /\ rows[t] = disk[t] BY <1>0 DEF Ahead
  <2>4. QED BY <1>0, <1>1, <2>1, <2>2, <2>3 DEF Kept
<1>19. CASE UNCHANGED vars BY <1>0, <1>1, <1>19 DEF vars, held, Kept
<1>20. QED
  BY <1>0, <1>2, <1>3, <1>4, <1>5, <1>6, <1>7, <1>8, <1>9, <1>10, <1>11, <1>12, <1>13, <1>14, <1>15,
     <1>16, <1>17, <1>18, <1>19 DEF Next

IInv == TypeOK /\ Kinds /\ Fresh /\ SeenOK /\ NonNeg /\ InStep /\ Ahead

LEMMA InitInv == Init => IInv
<1> SUFFICES ASSUME Init PROVE IInv OBVIOUS
<1>1. TypeOK BY InitType
<1>2. /\ DOMAIN rows = Turns /\ rows = disk
      /\ \A t \in Turns : rows[t].by = Top /\ rows[t].seq = t
  BY LoadedOK DEF Init
<1>3. /\ \A r \in Reqs : seen[r] = Nothing /\ pc[r] = "new"
      /\ DOMAIN Nothing = {}
  BY DEF Init, Nothing
<1>4. Fresh BY <1>2, <1>3 DEF Fresh
<1>5. SeenOK BY <1>3 DEF SeenOK
<1>6. NonNeg BY <1>2, <1>3 DEF NonNeg, Turns
<1>7. InStep BY <1>3 DEF InStep
<1>8. Ahead BY <1>2 DEF Ahead
<1>9. Kinds BY DEF Init, Kinds
<1>10. QED BY <1>1, <1>4, <1>5, <1>6, <1>7, <1>8, <1>9 DEF IInv

LEMMA NextInv == IInv /\ [Next]_vars => IInv'
<1> SUFFICES ASSUME IInv, [Next]_vars PROVE IInv' OBVIOUS
<1>1. TypeOK /\ Kinds /\ Fresh /\ SeenOK /\ NonNeg /\ InStep /\ Ahead BY DEF IInv
<1>2. TypeOK' BY <1>1, NextType
<1>3. Fresh' BY <1>1, NextFresh
<1>4. SeenOK' BY <1>1, NextSeen
<1>5. NonNeg'
  <2> SUFFICES ASSUME ~slipped'
               PROVE  /\ \A t \in DOMAIN rows' : rows'[t].seq >= 0
                      /\ \A t \in DOMAIN disk' : disk'[t].seq >= 0
                      /\ \A r \in Reqs : pc'[r] = "place" => at'[r] >= 0
    BY DEF NonNeg
  <2>1. Kept /\ ~slipped BY <1>1, NextKeeps
  <2>2. /\ \A t \in DOMAIN disk : disk[t].seq >= 0
        /\ \A r \in Reqs : pc[r] = "place" => at[r] >= 0
    BY <1>1, <2>1 DEF NonNeg
  <2>3. QED BY <2>1, <2>2 DEF Kept
<1>6. InStep'
  <2> SUFFICES ASSUME ~slipped', NEW q \in Reqs, pc'[q] = "passes"
               PROVE  /\ Hit(q)' = {} \/ Hit(q)' = DOMAIN rows'
                      /\ \A t, u \in Hit(q)' :
                           seen'[q][t].place < seen'[q][u].place <=> rows'[t].seq < rows'[u].seq
    BY DEF InStep
  <2>1. Kept /\ ~slipped BY <1>1, NextKeeps
  <2>2. Hit(q)' = {t \in DOMAIN rows' \cap DOMAIN seen'[q] : seen'[q][t].by = rows'[t].by} BY DEF Hit
  <2>3. CASE List(q)
    <3>1. /\ DOMAIN seen'[q] = DOMAIN rows /\ rows' = rows
          /\ \A t \in DOMAIN rows : seen'[q][t].place = Place(rows, t) /\ seen'[q][t].by = rows[t].by
      BY <1>1, <2>3 DEF List, TypeOK
    <3>2. Hit(q)' = DOMAIN rows' BY <2>2, <3>1
    <3>3. QED BY <1>1, <3>1, <3>2, Further
  <2>4. CASE /\ pc[q] = "passes" /\ seen'[q] = seen[q]
             /\ DOMAIN rows' \subseteq DOMAIN rows
             /\ \A t \in DOMAIN rows' : rows'[t].by = rows[t].by
    <3>1. Hit(q)' = Hit(q) \cap DOMAIN rows' BY <2>2, <2>4 DEF Hit
    <3>2. /\ Hit(q) = {} \/ Hit(q) = DOMAIN rows
          /\ \A t, u \in Hit(q) : seen[q][t].place < seen[q][u].place <=> rows[t].seq < rows[u].seq
      BY <1>1, <2>1, <2>4 DEF InStep
    <3>3. \A t, u \in DOMAIN rows' : rows[t].seq < rows[u].seq <=> rows'[t].seq < rows'[u].seq
      BY <2>1, <2>4 DEF Kept
    <3>4. QED BY <2>4, <3>1, <3>2, <3>3
  <2>5. CASE /\ pc[q] = "passes" /\ seen'[q] = seen[q]
             /\ \A t \in DOMAIN rows' \cap DOMAIN seen[q] : rows'[t].by # seen[q][t].by
    BY <2>2, <2>5
  <2>6. QED BY <2>1, <2>3, <2>4, <2>5 DEF Kept
<1>7. Ahead'
  <2> SUFFICES ASSUME ~slipped', NEW t \in DOMAIN disk' PROVE t \in DOMAIN rows' /\ rows'[t] = disk'[t]
    BY DEF Ahead
  <2>1. Kept /\ ~slipped BY <1>1, NextKeeps
  <2>2. QED BY <1>1, <2>1 DEF Kept, Ahead
<1>8. Kinds' BY <1>1, NextKinds
<1>9. QED BY <1>2, <1>3, <1>4, <1>5, <1>6, <1>7, <1>8 DEF IInv

-----------------------------------------------------------------------------
(* Where the text is.                                                      *)

Piece     == Ids \X {1, 2}
Lines(rs) == \A t \in DOMAIN rs : rs[t].text \in Seq(Piece)
Texts     == Lines(rows) /\ Lines(disk) /\ \A r \in Reqs : Lines(got[r])

\* A turn that a request inserted is on that request's row.
Named ==
    /\ \A t \in DOMAIN rows \cap Reqs : rows[t].by = t
    /\ \A t \in DOMAIN disk \cap Reqs : disk[t].by = t

\* Two at work at once have met.
Meet == \A q, r \in Active : q # r => q \in met

\* A split or a join that met no other still has what is on the rows; then the turn
\* a join keeps has the text of all of them.
Joins ==
    \A r \in Reqs \ met :
        /\ pc[r] \in {"fetch", "keep", "head"} =>
             \A t \in DOMAIN got[r] : t \in DOMAIN rows /\ rows[t] = got[r][t]
        /\ pc[r] = "drop" =>
             /\ anchor[r] \in DOMAIN rows
             /\ \A t \in want[r] \cap DOMAIN rows :
                  Pieces(rows[t].text) \subseteq Pieces(rows[anchor[r]].text)

\* The baseline's text is on the rows or let go; what is on the rows is committed or
\* let go.
Base  == UNION {Pieces(Body(t)) : t \in Turns}
Saved == /\ Base \subseteq TextIn(rows) \cup loose
         /\ TextIn(rows) \subseteq TextIn(disk) \cup loose

Shape == Texts /\ Named /\ Meet /\ Joins

LEMMA Within ==
    ASSUME NEW rs, NEW A, \A t \in DOMAIN rs : Pieces(rs[t].text) \subseteq A
    PROVE  TextIn(rs) \subseteq A
BY DEF TextIn

LEMMA Has ==
    ASSUME NEW rs, NEW t \in DOMAIN rs
    PROVE  Pieces(rs[t].text) \subseteq TextIn(rs)
BY DEF TextIn

LEMMA BodyOK == ASSUME NEW t \in Ids PROVE Body(t) \in Seq(Piece)
BY DEF Body, Piece

LEMMA NewTextOK ==
    ASSUME Kinds, Texts, NEW r \in Reqs, pc[r] \in {"head", "anchor", "place"}
    PROVE  NewText(r) \in Seq(Piece)
<1>1. CASE op[r] = "insert"
  <2>1. r \in Ids BY DEF Ids
  <2>2. QED BY <1>1, <2>1, BodyOK DEF NewText
<1>2. CASE op[r] # "insert"
  <2>1. op[r] = "split" BY <1>2 DEF Kinds
  <2> DEFINE text == got[r][anchor[r]].text
  <2>2. text \in Seq(Piece) /\ cut[r] \in 0 .. Len(text) BY <2>1 DEF Kinds, Texts, Lines
  <2>3. NewText(r) = SubSeq(text, cut[r] + 1, Len(text)) BY <1>2 DEF NewText
  <2> HIDE DEF text
  <2>4. QED BY <2>2, <2>3, PartOf
<1>3. QED BY <1>1, <1>2

\* What a statement by row id leaves.
LEMMA RewrittenText ==
    ASSUME NEW r, NEW t, NEW text, NEW u \in DOMAIN rows
    PROVE  /\ Rewritten(r, t, text)[u].text =
                IF u = t /\ rows[u].by = got[r][t].by THEN text ELSE rows[u].text
           /\ Rewritten(r, t, text)[u].by = rows[u].by
BY DEF Rewritten

\* What a join writes.
LEMMA KeepText ==
    ASSUME TypeOK, Kinds, Texts, NEW r \in Reqs, Keep(r)
    PROVE  \E text \in Seq(Piece), t \in want[r] :
             /\ rows' = Rewritten(r, t, text) /\ disk' = rows' /\ anchor' = [anchor EXCEPT ![r] = t]
             /\ \A u \in want[r] : Pieces(got[r][u].text) \subseteq Pieces(text)
<1>1. PICK f \in InOrder(got[r], want[r]) :
        /\ rows' = Rewritten(r, f[1], Joined(got[r], f)) /\ disk' = rows'
        /\ anchor' = [anchor EXCEPT ![r] = f[1]]
  BY DEF Keep, Commit
<1>2. Cardinality(want[r]) >= 2 /\ DOMAIN got[r] = want[r] BY DEF Keep, Kinds
<1>3. IsFiniteSet(want[r]) BY FiniteIds, FS_Subset DEF TypeOK
<1>4. \A t \in want[r] : got[r][t].text \in Seq(Piece) BY <1>2 DEF Texts, Lines
<1>5. /\ f[1] \in want[r] /\ Joined(got[r], f) \in Seq(Piece)
      /\ \A t \in want[r] : Pieces(got[r][t].text) \subseteq Pieces(Joined(got[r], f))
  BY <1>2, <1>3, <1>4, JoinedHas
<1>6. QED BY <1>1, <1>5

\* What an insert adds.
PlaceText(r) ==
    \/ /\ DOMAIN rows' = DOMAIN rows \cup {r} /\ disk' = rows'
       /\ rows'[r].by = r /\ rows'[r].text = NewText(r)
       /\ \A t \in DOMAIN rows \ {r} : rows'[t].by = rows[t].by /\ rows'[t].text = rows[t].text
       /\ loose' = loose \ Pieces(NewText(r))
    \/ /\ DOMAIN rows' = DOMAIN rows /\ disk' = disk /\ loose' = loose
       /\ \A t \in DOMAIN rows : rows'[t].by = rows[t].by /\ rows'[t].text = rows[t].text

LEMMA PlaceTexts == ASSUME TypeOK, NEW r \in Reqs, PlaceTurn(r) PROVE PlaceText(r)
<1> DEFINE n == Moved(r)
           num == Numbers(rows, Ranks(r), Down(r), Up(r), n,
                          Reached(rows, Ranks(r), Down(r), Up(r), n))
<1>1. \/ /\ DOMAIN rows' = DOMAIN rows \cup {r} /\ disk' = rows'
         /\ rows'[r].by = r /\ rows'[r].text = NewText(r)
         /\ \A t \in DOMAIN rows \ {r} : rows'[t].by = rows[t].by /\ rows'[t].text = rows[t].text
         /\ loose' = loose \ Pieces(NewText(r))
      \/ disk' = disk /\ loose' = loose /\ rows' = Renumbered(rows, num)
  BY PlaceStep
<1> HIDE DEF num
<1>2. /\ DOMAIN Renumbered(rows, num) = DOMAIN rows
      /\ \A t \in DOMAIN rows : /\ Renumbered(rows, num)[t].by = rows[t].by
                                /\ Renumbered(rows, num)[t].text = rows[t].text
  BY DEF Renumbered
<1>3. QED BY <1>1, <1>2 DEF PlaceText

\* The rows of a step, by where they come from.
RowText ==
    /\ \A t \in DOMAIN rows' :
         /\ rows'[t].text \in Seq(Piece)
         /\ t \in Reqs => rows'[t].by = t
    /\ disk' \in {disk, rows'}

LEMMA NextRowText == TypeOK /\ SeenOK /\ Kinds /\ Texts /\ Named /\ [Next]_vars => RowText
<1> SUFFICES ASSUME TypeOK, SeenOK, Kinds, Texts, Named, [Next]_vars PROVE RowText OBVIOUS
<1>1. /\ \A t \in DOMAIN rows : /\ t \in Ids /\ rows[t].text \in Seq(Piece)
                                /\ t \in Reqs => rows[t].by = t
      /\ \A t \in DOMAIN disk : /\ disk[t].text \in Seq(Piece)
                                /\ t \in Reqs => disk[t].by = t
  BY DEF Texts, Lines, Named, TypeOK, IsTable
<1>2. \A t \in Turns : t \notin Reqs /\ Body(t) \in Seq(Piece)
  BY BodyOK DEF Turns, Ids
\* Every row is one that was there, its text written anew or not.
<1>3. ASSUME \A t \in DOMAIN rows' : /\ t \in DOMAIN rows /\ rows'[t].by = rows[t].by
                                     /\ rows'[t].text = rows[t].text \/ rows'[t].text \in Seq(Piece),
             disk' \in {disk, rows'}
      PROVE  RowText
  BY <1>1, <1>3 DEF RowText
<1>4. ASSUME NEW r \in Reqs, Passes(r) PROVE RowText BY <1>3, <1>4, PassesMove
<1>5. ASSUME NEW r \in Reqs, Shorten(r) PROVE RowText
  <2> DEFINE text == got[r][anchor[r]].text
             part == SubSeq(text, 1, cut[r])
  <2>1. rows' = Rewritten(r, anchor[r], part) /\ disk' = rows' /\ pc[r] = "head"
    BY <1>5 DEF Shorten, Commit
  <2>2. text \in Seq(Piece) /\ cut[r] \in 0 .. Len(text) BY <2>1 DEF Kinds, Texts, Lines
  <2>3. part \in Seq(Piece) BY <2>2, PartOf
  <2> HIDE DEF part
  <2>4. DOMAIN rows' = DOMAIN rows BY <2>1 DEF Rewritten
  <2>5. QED BY <1>3, <2>1, <2>3, <2>4, RewrittenText
<1>6. ASSUME NEW r \in Reqs, Keep(r) PROVE RowText
  <2>1. PICK text \in Seq(Piece), t \in want[r] : rows' = Rewritten(r, t, text) /\ disk' = rows'
    BY <1>6, KeepText
  <2>2. DOMAIN rows' = DOMAIN rows BY <2>1 DEF Rewritten
  <2>3. QED BY <1>3, <2>1, <2>2, RewrittenText
<1>7. ASSUME NEW r \in Reqs, PlaceTurn(r) PROVE RowText
  <2>1. pc[r] = "place" BY <1>7 DEF PlaceTurn
  <2>2. NewText(r) \in Seq(Piece) BY <2>1, NewTextOK
  <2>3. PlaceText(r) BY <1>7, PlaceTexts
  <2>4. QED BY <1>1, <2>2, <2>3 DEF RowText, PlaceText
<1>8. ASSUME NEW r \in Reqs, Refill(r) PROVE RowText
  <2>1. PICK k \in Free :
          /\ DOMAIN rows' = DOMAIN rows \cup 0 .. k - 1
          /\ \A t \in DOMAIN rows : rows'[t] = rows[t]
          /\ \A t \in 0 .. k - 1 : t \in Turns /\ rows'[t].text = Body(t)
          /\ disk' \in {disk, rows'}
    BY <1>8, RefillStep
  <2>2. QED BY <1>1, <1>2, <2>1 DEF RowText
<1>9. ASSUME NEW r \in Reqs, Rewrite(r) PROVE RowText
  <2>1. rows' = Loaded(r) /\ disk' = rows' BY <1>9 DEF Rewrite, Commit
  <2>2. DOMAIN rows' = Turns /\ \A t \in Turns : rows'[t].text = Body(t) BY <2>1, LoadedOK
  <2>3. QED BY <1>2, <2>1, <2>2 DEF RowText
<1>10. ASSUME NEW S, rows' = Without(S), disk' = rows' PROVE RowText
  BY <1>3, <1>10 DEF Without
<1>11. ASSUME NEW r \in Reqs, Reset(r) PROVE RowText
  <2>1. rows' = Nothing /\ disk' = rows' /\ DOMAIN Nothing = {} BY <1>11 DEF Reset, Commit, Nothing
  <2>2. QED BY <1>3, <2>1
<1>12. ASSUME rows' = rows, disk' \in {disk, rows'} PROVE RowText BY <1>3, <1>12
<1>13. CASE Crash BY <1>1, <1>13 DEF Crash, RowText
<1>14. ASSUME NEW r \in Reqs,
              \/ List(r) \/ Anchor(r) \/ \E S : Join(r, S)
              \/ \E a : Insert(r, a)
              \/ \E t, c : Split(r, t, c)
              \/ \E t : Fetch(r, t)
       PROVE  RowText
  BY <1>12, <1>14 DEF List, Anchor, Join, Insert, Split, Fetch
<1>15. ASSUME NEW r \in Reqs, Drop(r) \/ \E S : Delete(r, S) PROVE RowText
  BY <1>10, <1>15 DEF Drop, Delete, Commit
<1>16. CASE OtherCommit \/ UNCHANGED vars BY <1>12, <1>16 DEF OtherCommit, Commit, vars
<1>17. QED
  BY <1>4, <1>5, <1>6, <1>7, <1>8, <1>9, <1>11, <1>13, <1>14, <1>15, <1>16 DEF Next

\* Only a split and a join read rows, as they are.
LEMMA NextTexts ==
    TypeOK /\ SeenOK /\ Kinds /\ Texts /\ Named /\ [Next]_vars => Texts' /\ Named'
<1> SUFFICES ASSUME TypeOK, SeenOK, Kinds, Texts, Named, [Next]_vars PROVE Texts' /\ Named' OBVIOUS
<1>1. RowText BY NextRowText
<1>2. \A t \in DOMAIN disk : disk[t].text \in Seq(Piece) /\ (t \in Reqs => disk[t].by = t)
  BY DEF Texts, Lines, Named
<1>3. ASSUME NEW q \in Reqs, NEW t \in DOMAIN got'[q] PROVE got'[q][t].text \in Seq(Piece)
  <2>1. DOMAIN got = Reqs BY DEF TypeOK
  <2>2. \A u \in DOMAIN rows : rows[u].text \in Seq(Piece) BY DEF Texts, Lines
  <2>3. \A p \in Reqs : \A u \in DOMAIN got[p] : got[p][u].text \in Seq(Piece) BY DEF Texts, Lines
  <2>4. ASSUME NEW r \in Reqs, NEW u, NEW c, Split(r, u, c) PROVE got'[q][t].text \in Seq(Piece)
    BY <2>1, <2>2, <2>3, <2>4 DEF Split
  <2>5. ASSUME NEW r \in Reqs, NEW u, Fetch(r, u) PROVE got'[q][t].text \in Seq(Piece)
    BY <2>1, <2>2, <2>3, <2>5 DEF Fetch
  <2>6. CASE got' = got BY <2>3, <2>6
  <2>7. QED
    BY <2>4, <2>5, <2>6
    DEF Next, List, Passes, Shorten, Anchor, PlaceTurn, Keep, Drop, Reset, Refill, Rewrite, Delete, Join,
        Insert, OtherCommit, Crash, vars, held
<1>4. Texts' BY <1>1, <1>2, <1>3 DEF Texts, Lines, RowText
<1>5. Named' BY <1>1, <1>2 DEF Named, RowText
<1>6. QED BY <1>4, <1>5

\* Whoever starts while others are at work has met them, and they him.
StartsNow(r) ==
    /\ pc[r] = "new" /\ r \notin Active
    /\ met' = IF Active = {} THEN met ELSE met \cup Active \cup {r}
    /\ \A q \in Reqs \ {r} : pc'[q] = pc[q] /\ op'[q] = op[q]

LEMMA Starters ==
    ASSUME TypeOK, NEW r \in Reqs,
           \/ Reset(r) \/ Rewrite(r)
           \/ \E S : Delete(r, S) \/ Join(r, S)
           \/ \E a : Insert(r, a)
           \/ \E t, c : Split(r, t, c)
    PROVE  StartsNow(r)
<1>1. pc \in [Reqs -> {"new", "fetch", "head", "keep", "drop", "anchor", "place", "list", "passes", "refill", "over"}]
      /\ op \in [Reqs -> Ops \cup {"none"}]
  BY DEF TypeOK
<1>2. ASSUME NEW o, NEW to, Starts(r, o), Goes(r, to) PROVE StartsNow(r)
  BY <1>1, <1>2 DEF Starts, Goes, StartsNow, Active
<1>3. QED BY <1>2 DEF Reset, Rewrite, Delete, Join, Insert, Split

\* Any other step of a request is of one at work.
GoesOn(r) ==
    /\ r \in Active /\ met' = met /\ op' = op
    /\ \A q \in Reqs \ {r} : pc'[q] = pc[q]

LEMMA Goers ==
    ASSUME TypeOK, NEW r \in Reqs,
           \/ List(r) \/ Passes(r) \/ Shorten(r) \/ Anchor(r) \/ PlaceTurn(r)
           \/ Keep(r) \/ Drop(r) \/ Refill(r) \/ \E t : Fetch(r, t)
    PROVE  GoesOn(r)
<1>1. pc \in [Reqs -> {"new", "fetch", "head", "keep", "drop", "anchor", "place", "list", "passes", "refill", "over"}]
  BY DEF TypeOK
<1>2. ASSUME NEW to, Goes(r, to), pc[r] \notin {"new", "over"}, met' = met, op' = op PROVE GoesOn(r)
  BY <1>1, <1>2 DEF Goes, GoesOn, Active
<1>3. ASSUME PlaceTurn(r) PROVE GoesOn(r)
  <2>1. Goes(r, "list") \/ Goes(r, "over") BY <1>3 DEF PlaceTurn
  <2>2. QED BY <1>2, <1>3, <2>1 DEF PlaceTurn, asked
<1>4. ASSUME Anchor(r) PROVE GoesOn(r)
  <2>1. Goes(r, "place") \/ Goes(r, "over") BY <1>4 DEF Anchor
  <2>2. QED BY <1>2, <1>4, <2>1 DEF Anchor, asked, history
<1>5. QED
  BY <1>2, <1>3, <1>4
  DEF List, Passes, Shorten, Keep, Drop, Refill, Fetch, asked, held, history

LEMMA NextMeet == TypeOK /\ Meet /\ [Next]_vars => Meet' /\ met \subseteq met'
<1> SUFFICES ASSUME TypeOK, Meet, [Next]_vars PROVE Meet' /\ met \subseteq met' OBVIOUS
<1>1. Active' = {q \in Reqs : pc'[q] \notin {"new", "over"}} BY DEF Active
<1>2. ASSUME NEW r \in Reqs, GoesOn(r) PROVE Meet' /\ met \subseteq met'
  <2>1. \A q \in Active' : q \in Active BY <1>1, <1>2 DEF GoesOn, Active
  <2>2. QED BY <1>2, <2>1 DEF GoesOn, Meet
<1>3. ASSUME NEW r \in Reqs, StartsNow(r) PROVE Meet' /\ met \subseteq met'
  <2>1. \A q \in Active' : q \in Active \/ q = r BY <1>1, <1>3 DEF StartsNow, Active
  <2>2. QED BY <1>3, <2>1 DEF StartsNow, Meet
<1>4. CASE OtherCommit \/ UNCHANGED vars BY <1>4 DEF OtherCommit, vars, history, Meet, Active
<1>5. CASE Crash
  <2>1. \A q \in Active' : FALSE BY <1>1, <1>5 DEF Crash, Active
  <2>2. QED BY <1>5, <2>1 DEF Crash, history, Meet
<1>6. QED BY <1>2, <1>3, <1>4, <1>5, Goers, Starters DEF Next

\* While a split or a join goes on that met nobody, the steps are its own.
LEMMA Alone ==
    ASSUME TypeOK, Meet, [Next]_vars, NEW r \in Reqs, r \notin met', 
           pc'[r] \in {"head", "fetch", "keep", "drop"}
    PROVE  \/ \E S : Join(r, S)
           \/ \E t, c : Split(r, t, c)
           \/ \E t : Fetch(r, t)
           \/ Keep(r)
           \/ rows' = rows /\ pc'[r] = pc[r] /\ got' = got /\ want' = want /\ anchor' = anchor
<1>1. \A q \in Reqs : q \in Active <=> pc[q] \notin {"new", "over"} BY DEF Active
<1>2. pc \in [Reqs -> {"new", "fetch", "head", "keep", "drop", "anchor", "place", "list", "passes", "refill", "over"}]
  BY DEF TypeOK
<1>3. ASSUME NEW q \in Reqs, q # r, GoesOn(q) PROVE FALSE
  BY <1>1, <1>3 DEF GoesOn, Meet
<1>4. ASSUME NEW q \in Reqs, q # r, StartsNow(q) PROVE FALSE
  BY <1>1, <1>4 DEF StartsNow
<1>5. CASE OtherCommit \/ UNCHANGED vars
  BY <1>5 DEF OtherCommit, Commit, vars, asked, held
<1>6. CASE Crash BY <1>1, <1>2, <1>6 DEF Crash
<1>7. ASSUME List(r) \/ Passes(r) \/ Shorten(r) \/ Drop(r) \/ Reset(r) \/ Refill(r) \/ Rewrite(r)
             \/ (\E S : Delete(r, S)) \/ (\E a : Insert(r, a))
      PROVE  FALSE
  BY <1>2, <1>7 DEF List, Passes, Shorten, Drop, Reset, Refill, Rewrite, Delete, Insert, Goes
<1>8. ASSUME Anchor(r) \/ PlaceTurn(r) PROVE FALSE
  <2>1. Goes(r, "over") \/ Goes(r, "place") \/ Goes(r, "list") BY <1>8 DEF Anchor, PlaceTurn
  <2>2. QED BY <1>2, <2>1 DEF Goes
<1>9. QED BY <1>3, <1>4, <1>5, <1>6, <1>7, <1>8, Goers, Starters DEF Next

\* What a join that met nobody writes to the turn it keeps.
LEMMA KeepAll ==
    ASSUME TypeOK, Kinds, Texts, Joins, NEW r \in Reqs \ met, Keep(r)
    PROVE  /\ DOMAIN rows' = DOMAIN rows /\ disk' = rows'
           /\ anchor'[r] \in DOMAIN rows'
           /\ \A t \in DOMAIN rows : Pieces(rows[t].text) \subseteq Pieces(rows'[t].text)
           /\ \A t \in want[r] : Pieces(rows'[t].text) \subseteq Pieces(rows'[anchor'[r]].text)
<1>1. PICK text \in Seq(Piece), a \in want[r] :
        /\ rows' = Rewritten(r, a, text) /\ disk' = rows' /\ anchor' = [anchor EXCEPT ![r] = a]
        /\ \A u \in want[r] : Pieces(got[r][u].text) \subseteq Pieces(text)
  BY KeepText
<1>2. anchor'[r] = a BY <1>1 DEF TypeOK
<1>3. pc[r] = "keep" BY DEF Keep
<1>4. \A t \in want[r] : t \in DOMAIN rows /\ rows[t] = got[r][t] BY <1>3 DEF Kinds, Joins
<1>5. DOMAIN rows' = DOMAIN rows BY <1>1 DEF Rewritten
<1>6. \A t \in DOMAIN rows : rows'[t].text = IF t = a THEN text ELSE rows[t].text
  BY <1>1, <1>4, RewrittenText
<1>7. QED BY <1>1, <1>2, <1>4, <1>5, <1>6

LEMMA NextJoins == TypeOK /\ Kinds /\ Texts /\ Meet /\ Joins /\ [Next]_vars => Joins'
<1> SUFFICES ASSUME TypeOK, Kinds, Texts, Meet, Joins, [Next]_vars, NEW r \in Reqs, r \notin met',
                    pc'[r] \in {"head", "fetch", "keep", "drop"}
             PROVE  /\ pc'[r] \in {"fetch", "keep", "head"} =>
                         \A t \in DOMAIN got'[r] : t \in DOMAIN rows' /\ rows'[t] = got'[r][t]
                    /\ pc'[r] = "drop" =>
                         /\ anchor'[r] \in DOMAIN rows'
                         /\ \A t \in want'[r] \cap DOMAIN rows' :
                              Pieces(rows'[t].text) \subseteq Pieces(rows'[anchor'[r]].text)
  BY DEF Joins
<1>1. r \notin met BY NextMeet
<1>2. DOMAIN got = Reqs
      /\ pc \in [Reqs -> {"new", "fetch", "head", "keep", "drop", "anchor", "place", "list", "passes", "refill", "over"}]
  BY DEF TypeOK
<1>3. ASSUME NEW S, Join(r, S) PROVE pc'[r] = "fetch" /\ DOMAIN got'[r] = {}
  <2>1. pc[r] = "new" /\ got' = got /\ pc'[r] = "fetch" BY <1>2, <1>3 DEF Join, Starts, Goes, held
  <2>2. QED BY <2>1 DEF Kinds, Nothing
<1>4. ASSUME NEW t, Fetch(r, t)
      PROVE  /\ pc'[r] # "drop"
             /\ \A u \in DOMAIN got'[r] : u \in DOMAIN rows' /\ rows'[u] = got'[r][u]
  <2>1. /\ pc[r] = "fetch" /\ rows' = rows
        /\ got'[r] = [u \in DOMAIN got[r] \cup ({t} \cap DOMAIN rows) |->
                        IF u = t THEN rows[t] ELSE got[r][u]]
        /\ pc'[r] \in {"over", "keep", "fetch"}
    BY <1>2, <1>4 DEF Fetch, Goes
  <2>2. \A u \in DOMAIN got[r] : u \in DOMAIN rows /\ rows[u] = got[r][u] BY <1>1, <2>1 DEF Joins
  <2>3. QED BY <2>1, <2>2
<1>5. ASSUME Keep(r)
      PROVE  /\ pc'[r] = "drop" /\ anchor'[r] \in DOMAIN rows'
             /\ \A t \in want'[r] : Pieces(rows'[t].text) \subseteq Pieces(rows'[anchor'[r]].text)
  <2>1. pc'[r] = "drop" /\ want' = want BY <1>2, <1>5 DEF Keep, Goes
  <2>2. QED BY <1>1, <1>5, <2>1, KeepAll
<1>6. CASE rows' = rows /\ pc'[r] = pc[r] /\ got' = got /\ want' = want /\ anchor' = anchor
  BY <1>1, <1>6 DEF Joins
<1>7. ASSUME NEW t, NEW c, Split(r, t, c)
      PROVE  /\ pc'[r] # "drop"
             /\ \A u \in DOMAIN got'[r] : u \in DOMAIN rows' /\ rows'[u] = got'[r][u]
  <2>1. rows' = rows /\ got'[r] = [u \in {t} \cap DOMAIN rows |-> rows[u]]
    BY <1>2, <1>7 DEF Split
  <2>2. Goes(r, "over") \/ Goes(r, "head") BY <1>7 DEF Split
  <2>3. QED BY <1>2, <2>1, <2>2 DEF Goes
<1>8. QED BY <1>3, <1>4, <1>5, <1>6, <1>7, Alone

\* What a step does to the text there is.
TextMove ==
    /\ TextIn(rows) \cup loose \subseteq TextIn(rows') \cup loose'
    /\ \/ disk' = rows'
       \/ disk' = disk /\ loose' = loose /\ TextIn(rows') \subseteq TextIn(rows) \cup Base

LEMMA NextText ==
    TypeOK /\ SeenOK /\ Kinds /\ Fresh /\ Shape /\ Saved /\ [Next]_vars => TextMove
<1> SUFFICES ASSUME TypeOK, SeenOK, Kinds, Fresh, Shape, Saved, [Next]_vars PROVE TextMove
  OBVIOUS
<1>1. Texts /\ Named /\ Meet /\ Joins BY DEF Shape
<1>2. ASSUME NEW r \in met, disk' = rows', loose' = loose \cup Over(r) PROVE TextMove
  BY <1>2 DEF Over, TextMove
<1>3. TextIn(rows) \subseteq TextIn(disk) \cup loose BY DEF Saved
\* Texts only grow, or stay where they are.
<1>4. ASSUME \A t \in DOMAIN rows : t \in DOMAIN rows' /\ Pieces(rows[t].text) \subseteq Pieces(rows'[t].text)
      PROVE  TextIn(rows) \subseteq TextIn(rows')
  BY <1>4 DEF TextIn
<1>5. ASSUME NEW r \in Reqs, Passes(r) PROVE TextMove
  <2>1. /\ DOMAIN rows' = DOMAIN rows /\ \A t \in DOMAIN rows : rows'[t].text = rows[t].text
        /\ disk' \in {rows', disk}
    BY <1>5, PassesMove
  <2>2. TextIn(rows') = TextIn(rows) BY <2>1 DEF TextIn
  <2>3. loose' = loose BY <1>5 DEF Passes, history
  <2>4. QED BY <2>1, <2>2, <2>3 DEF TextMove
<1>6. ASSUME NEW r \in Reqs, PlaceTurn(r) PROVE TextMove
  <2>1. pc[r] = "place" BY <1>6 DEF PlaceTurn
  <2>2. r \notin DOMAIN rows BY <1>1, <2>1 DEF Fresh, Named
  <2>3. PlaceText(r) BY <1>6, PlaceTexts
  <2>4. CASE /\ DOMAIN rows' = DOMAIN rows \cup {r} /\ disk' = rows' /\ rows'[r].text = NewText(r)
             /\ \A t \in DOMAIN rows \ {r} : rows'[t].text = rows[t].text
             /\ loose' = loose \ Pieces(NewText(r))
    <3>1. TextIn(rows) \subseteq TextIn(rows') BY <1>4, <2>2, <2>4
    <3>2. Pieces(NewText(r)) \subseteq TextIn(rows') BY <2>4, Has
    <3>3. QED BY <2>4, <3>1, <3>2 DEF TextMove
  <2>5. CASE /\ DOMAIN rows' = DOMAIN rows /\ disk' = disk /\ loose' = loose
             /\ \A t \in DOMAIN rows : rows'[t].text = rows[t].text
    <3>1. TextIn(rows') = TextIn(rows) BY <2>5 DEF TextIn
    <3>2. QED BY <2>5, <3>1 DEF TextMove
  <2>6. QED BY <2>3, <2>4, <2>5 DEF PlaceText
<1>7. ASSUME NEW r \in Reqs, Keep(r) PROVE TextMove
  <2>1. loose' = loose \cup Over(r) /\ disk' = rows' BY <1>7 DEF Keep, Commit
  <2>2. CASE r \notin met
    <3>1. /\ DOMAIN rows' = DOMAIN rows
          /\ \A t \in DOMAIN rows : Pieces(rows[t].text) \subseteq Pieces(rows'[t].text)
      BY <1>1, <1>7, <2>2, KeepAll
    <3>2. TextIn(rows) \subseteq TextIn(rows') BY <1>4, <3>1
    <3>3. QED BY <2>1, <3>2 DEF TextMove
  <2>3. QED BY <1>2, <2>1, <2>2
<1>8. ASSUME NEW r \in Reqs, Drop(r) PROVE TextMove
  <2>1. /\ rows' = Without(want[r] \ {anchor[r]}) /\ disk' = rows' /\ loose' = loose \cup Over(r)
        /\ pc[r] = "drop"
    BY <1>8 DEF Drop, Commit
  <2>2. CASE r \notin met
    <3>1. /\ anchor[r] \in DOMAIN rows
          /\ \A t \in want[r] \cap DOMAIN rows : Pieces(rows[t].text) \subseteq Pieces(rows[anchor[r]].text)
      BY <1>1, <2>1, <2>2 DEF Joins
    <3>2. /\ anchor[r] \in DOMAIN rows' /\ rows'[anchor[r]] = rows[anchor[r]]
          /\ \A t \in DOMAIN rows \ want[r] : t \in DOMAIN rows' /\ rows'[t] = rows[t]
      BY <2>1, <3>1 DEF Without
    <3>3. ASSUME NEW t \in DOMAIN rows PROVE Pieces(rows[t].text) \subseteq TextIn(rows')
      <4>1. CASE t \in want[r] BY <3>1, <3>2, <4>1, Has
      <4>2. CASE t \notin want[r] BY <3>2, <4>2, Has
      <4>3. QED BY <4>1, <4>2
    <3>4. TextIn(rows) \subseteq TextIn(rows') BY <3>3, Within
    <3>5. QED BY <2>1, <3>4 DEF TextMove
  <2>3. QED BY <1>2, <2>1, <2>2
<1>9. ASSUME NEW r \in Reqs, Refill(r) PROVE TextMove
  <2>1. PICK k \in Free :
          /\ DOMAIN rows' = DOMAIN rows \cup 0 .. k - 1
          /\ \A t \in DOMAIN rows : rows'[t] = rows[t]
          /\ \A t \in 0 .. k - 1 : t \in Turns /\ rows'[t].text = Body(t)
          /\ \/ k = N /\ disk' = rows' /\ loose' = loose \ TextIn(rows')
             \/ k # N /\ disk' = disk /\ loose' = loose
    BY <1>9, RefillStep
  <2>2. TextIn(rows) \subseteq TextIn(rows') BY <1>4, <2>1
  <2>3. ASSUME NEW t \in DOMAIN rows' PROVE Pieces(rows'[t].text) \subseteq TextIn(rows) \cup Base
    <3>1. CASE t \in DOMAIN rows BY <2>1, <3>1, Has
    <3>2. CASE t \in 0 .. k - 1 BY <2>1, <3>2 DEF Base
    <3>3. QED BY <2>1, <3>1, <3>2
  <2>4. TextIn(rows') \subseteq TextIn(rows) \cup Base BY <2>3, Within
  <2>5. QED BY <2>1, <2>2, <2>4 DEF TextMove
\* The text a delete, a reset, a rewrite or a split takes away is let go.
<1>10. ASSUME disk' = rows', TextIn(rows) \cup loose \subseteq TextIn(rows') \cup loose'
       PROVE  TextMove
  BY <1>10 DEF TextMove
<1>11. ASSUME NEW r \in Reqs, Shorten(r) PROVE TextMove
  <2> DEFINE a == anchor[r]
             text == got[r][a].text
             part == SubSeq(text, 1, cut[r])
  <2>1. /\ pc[r] = "head" /\ disk' = rows' /\ rows' = Rewritten(r, a, part)
        /\ loose' = loose \cup Pieces(NewText(r)) \cup Over(r)
    BY <1>11 DEF Shorten, Commit
  <2>2. CASE r \notin met
    <3>1. op[r] = "split" /\ a \in DOMAIN got[r] /\ cut[r] \in 0 .. Len(text) BY <2>1 DEF Kinds
    <3>2. text \in Seq(Piece) BY <1>1, <3>1 DEF Texts, Lines
    <3>3. rows[a] = got[r][a] /\ a \in DOMAIN rows BY <1>1, <2>1, <2>2, <3>1 DEF Joins
    <3>4. NewText(r) = SubSeq(text, cut[r] + 1, Len(text)) BY <3>1 DEF NewText
    <3>5. Pieces(text) \subseteq Pieces(part) \cup Pieces(NewText(r)) BY <3>1, <3>2, <3>4, PartOf
    <3>6. DOMAIN rows' = DOMAIN rows BY <2>1 DEF Rewritten
    <3>7. \A u \in DOMAIN rows : rows'[u].text = IF u = a THEN part ELSE rows[u].text
      <4> HIDE DEF part
      <4>1. QED BY <2>1, <3>3, RewrittenText
    <3> HIDE DEF part, a
    <3>8. ASSUME NEW u \in DOMAIN rows
          PROVE  Pieces(rows[u].text) \subseteq TextIn(rows') \cup Pieces(NewText(r))
      <4>1. Pieces(rows'[u].text) \subseteq TextIn(rows') BY <3>6, Has
      <4>2. CASE u = a BY <3>3, <3>5, <3>7, <4>1, <4>2
      <4>3. CASE u # a BY <3>7, <4>1, <4>3
      <4>4. QED BY <4>2, <4>3
    <3>9. TextIn(rows) \subseteq TextIn(rows') \cup Pieces(NewText(r)) BY <3>8, Within
    <3>10. QED BY <2>1, <3>9 DEF TextMove
  <2>3. CASE r \in met BY <1>10, <2>1, <2>3 DEF Over
  <2>4. QED BY <2>2, <2>3
<1>12. ASSUME NEW r \in Reqs, NEW S, Delete(r, S) PROVE TextMove
  <2>1. rows' = Without(S) /\ disk' = rows' /\ loose' = loose \cup (TextIn(rows) \ TextIn(rows'))
    BY <1>12 DEF Delete, Commit
  <2>2. QED BY <1>10, <2>1
<1>13. ASSUME NEW r \in Reqs, Reset(r) PROVE TextMove
  <2>1. disk' = rows' /\ loose' = loose \cup TextIn(rows) BY <1>13 DEF Reset, Commit
  <2>2. QED BY <1>10, <2>1
<1>14. ASSUME NEW r \in Reqs, Rewrite(r) PROVE TextMove
  <2>1. rows' = Loaded(r) /\ disk' = rows' /\ loose' = (loose \cup TextIn(rows)) \ TextIn(rows')
    BY <1>14 DEF Rewrite, Commit
  <2>2. QED BY <1>10, <2>1
<1>15. ASSUME rows' = rows, loose' = loose, disk' \in {disk, rows'} PROVE TextMove
  BY <1>15 DEF TextMove
<1>16. ASSUME NEW r \in Reqs,
              \/ List(r) \/ Anchor(r) \/ \E S : Join(r, S)
              \/ \E a : Insert(r, a)
              \/ \E t, c : Split(r, t, c)
              \/ \E t : Fetch(r, t)
       PROVE  TextMove
  BY <1>15, <1>16 DEF List, Anchor, Join, Insert, Split, Fetch, history
<1>17. CASE OtherCommit \/ UNCHANGED vars BY <1>15, <1>17 DEF OtherCommit, Commit, vars, history
\* What a stop takes back was not committed.
<1>18. CASE Crash
  <2>1. rows' = disk /\ disk' = disk /\ loose' = loose BY <1>18 DEF Crash, history
  <2>2. QED BY <1>3, <1>10, <2>1
<1>19. QED
  BY <1>5, <1>6, <1>7, <1>8, <1>9, <1>11, <1>12, <1>13, <1>14, <1>16, <1>17, <1>18 DEF Next

TInv == IInv /\ Shape /\ Saved

LEMMA InitText == Init => TInv
<1> SUFFICES ASSUME Init PROVE TInv OBVIOUS
<1>1. IInv BY InitInv
<1>2. /\ rows = Loaded(Top) /\ disk = rows /\ met = {}
      /\ \A r \in Reqs : pc[r] = "new" /\ got[r] = Nothing
      /\ DOMAIN Nothing = {}
  BY DEF Init, Nothing
<1>3. /\ DOMAIN rows = Turns
      /\ \A t \in Turns : rows[t].text = Body(t) /\ Body(t) \in Seq(Piece) /\ t \notin Reqs
  BY <1>2, LoadedOK, BodyOK DEF Turns, Ids
<1>4. Texts BY <1>2, <1>3 DEF Texts, Lines
<1>5. Named BY <1>2, <1>3 DEF Named
<1>6. Meet BY <1>2 DEF Meet, Active
<1>7. Joins BY <1>2 DEF Joins
<1>8. Saved BY <1>2, <1>3 DEF Saved, Base, TextIn
<1>9. QED BY <1>1, <1>4, <1>5, <1>6, <1>7, <1>8 DEF TInv, Shape

LEMMA NextTextInv == TInv /\ [Next]_vars => TInv'
<1> SUFFICES ASSUME TInv, [Next]_vars PROVE TInv' OBVIOUS
<1>1. /\ TypeOK /\ Kinds /\ Fresh /\ SeenOK /\ Texts /\ Named /\ Meet /\ Joins /\ Saved
      /\ IInv /\ Shape
  BY DEF TInv, IInv, Shape
<1>2. IInv' BY <1>1, NextInv
<1>3. Texts' /\ Named' BY <1>1, NextTexts
<1>4. Meet' /\ met \subseteq met' BY <1>1, NextMeet
<1>5. Joins' BY <1>1, NextJoins
<1>6. Saved'
  <2>1. TextMove BY <1>1, NextText
  <2>2. Base' = Base BY DEF Base, Turns, Body, Pieces
  <2>3. QED BY <1>1, <2>1, <2>2 DEF TextMove, Saved
<1>7. QED BY <1>2, <1>3, <1>4, <1>5, <1>6 DEF TInv, Shape

-----------------------------------------------------------------------------
(* What a request does that met no other.                                  *)

\* A transcript by its parts.
LEMMA LineIs ==
    ASSUME NEW rs, NEW line,
           line.text = [t \in DOMAIN rs |-> rs[t].text],
           \A t, u \in DOMAIN rs : <<t, u>> \in line.before <=> rs[t].seq < rs[u].seq,
           line.before \subseteq (DOMAIN rs) \X (DOMAIN rs),
           line = [text |-> line.text, before |-> line.before]
    PROVE  Line(rs) = line
<1>1. {p \in (DOMAIN rs) \X (DOMAIN rs) : rs[p[1]].seq < rs[p[2]].seq} = line.before OBVIOUS
<1>2. QED BY <1>1 DEF Line

LEMMA LineParts ==
    ASSUME NEW rs
    PROVE  /\ DOMAIN Line(rs).text = DOMAIN rs
           /\ \A t \in DOMAIN rs : Line(rs).text[t] = rs[t].text
           /\ Line(rs).before \subseteq (DOMAIN rs) \X (DOMAIN rs)
           /\ \A t, u \in DOMAIN rs : <<t, u>> \in Line(rs).before <=> rs[t].seq < rs[u].seq
BY DEF Line

\* Only the texts and the order count.
LEMMA SameLine ==
    ASSUME NEW rs, NEW ss, DOMAIN rs = DOMAIN ss,
           \A t \in DOMAIN rs : rs[t].text = ss[t].text,
           \A t, u \in DOMAIN rs : rs[t].seq < rs[u].seq <=> ss[t].seq < ss[u].seq
    PROVE  Line(rs) = Line(ss)
<1>1. [t \in DOMAIN rs |-> rs[t].text] = [t \in DOMAIN ss |-> ss[t].text] OBVIOUS
<1>2. {p \in (DOMAIN rs) \X (DOMAIN rs) : rs[p[1]].seq < rs[p[2]].seq}
        = {p \in (DOMAIN ss) \X (DOMAIN ss) : ss[p[1]].seq < ss[p[2]].seq}
  OBVIOUS
<1>3. QED BY <1>1, <1>2 DEF Line

LEMMA LineLess ==
    ASSUME NEW S
    PROVE  Line(Without(S)) = Less(Line(rows), S)
<1> DEFINE rs == Without(S)
           line == Less(Line(rows), S)
<1>1. DOMAIN rs = DOMAIN rows \ S /\ \A t \in DOMAIN rs : rs[t] = rows[t] BY DEF Without
<1>2. /\ line.text = [t \in DOMAIN Line(rows).text \ S |-> Line(rows).text[t]]
      /\ line.before = {p \in Line(rows).before : p[1] \notin S /\ p[2] \notin S}
      /\ line = [text |-> line.text, before |-> line.before]
  BY DEF Less
<1> HIDE DEF rs, line
<1>3. line.text = [t \in DOMAIN rs |-> rs[t].text]
  <2>1. DOMAIN Line(rows).text = DOMAIN rows /\ \A t \in DOMAIN rows : Line(rows).text[t] = rows[t].text
    BY LineParts
  <2>2. line.text = [t \in DOMAIN rs |-> Line(rows).text[t]] BY <1>1, <1>2, <2>1
  <2>3. \A t \in DOMAIN rs : Line(rows).text[t] = rs[t].text BY <1>1, <2>1
  <2>4. QED BY <2>2, <2>3
<1>4. \A t, u \in DOMAIN rs : <<t, u>> \in line.before <=> rs[t].seq < rs[u].seq
  <2> SUFFICES ASSUME NEW t \in DOMAIN rs, NEW u \in DOMAIN rs
               PROVE  <<t, u>> \in line.before <=> rs[t].seq < rs[u].seq
    OBVIOUS
  <2>1. <<t, u>> \in Line(rows).before <=> rows[t].seq < rows[u].seq BY <1>1, LineParts
  <2>2. QED BY <1>1, <1>2, <2>1
<1>5. line.before \subseteq (DOMAIN rs) \X (DOMAIN rs)
  <2>1. Line(rows).before \subseteq (DOMAIN rows) \X (DOMAIN rows) BY LineParts
  <2>2. QED BY <1>1, <1>2, <2>1
<1>6. Line(rs) = line BY <1>2, <1>3, <1>4, <1>5, LineIs
<1>7. QED BY <1>6 DEF rs, line

\* A statement that writes a text to the row it was read from.
LEMMA LineSays ==
    ASSUME NEW r, NEW t \in DOMAIN rows, NEW text, rows[t].by = got[r][t].by
    PROVE  Line(Rewritten(r, t, text)) = Says(Line(rows), t, text)
<1> DEFINE rs == Rewritten(r, t, text)
           line == Says(Line(rows), t, text)
<1>1. /\ DOMAIN rs = DOMAIN rows
      /\ \A u \in DOMAIN rows : rs[u].seq = rows[u].seq
                                /\ rs[u].text = IF u = t THEN text ELSE rows[u].text
  BY DEF Rewritten
<1>2. /\ line.text = [u \in DOMAIN Line(rows).text |-> IF u = t THEN text ELSE Line(rows).text[u]]
      /\ line.before = Line(rows).before
      /\ line = [text |-> line.text, before |-> line.before]
  BY DEF Says
<1> HIDE DEF rs, line
<1>3. line.text = [u \in DOMAIN rs |-> rs[u].text]
  <2>1. DOMAIN Line(rows).text = DOMAIN rows /\ \A u \in DOMAIN rows : Line(rows).text[u] = rows[u].text
    BY LineParts
  <2>2. line.text = [u \in DOMAIN rs |-> IF u = t THEN text ELSE Line(rows).text[u]]
    BY <1>1, <1>2, <2>1
  <2>3. \A u \in DOMAIN rs : rs[u].text = IF u = t THEN text ELSE Line(rows).text[u]
    BY <1>1, <2>1
  <2>4. QED BY <2>2, <2>3
<1>4. /\ line.before \subseteq (DOMAIN rs) \X (DOMAIN rs)
      /\ \A u, v \in DOMAIN rs : <<u, v>> \in line.before <=> rs[u].seq < rs[v].seq
  <2>1. /\ Line(rows).before \subseteq (DOMAIN rows) \X (DOMAIN rows)
        /\ \A u, v \in DOMAIN rows : <<u, v>> \in Line(rows).before <=> rows[u].seq < rows[v].seq
    BY LineParts
  <2>2. QED BY <1>1, <1>2, <2>1
<1>5. Line(rs) = line BY <1>2, <1>3, <1>4, LineIs
<1>6. QED BY <1>5 DEF rs, line

\* Where a new turn is placed with a number, the others from there on moved up.
LEMMA LinePlus ==
    ASSUME NEW rs, NEW n, n \notin DOMAIN rows, DOMAIN rs = DOMAIN rows \cup {n},
           NEW S \in SUBSET DOMAIN rows, NEW at0 \in Int,
           \A t \in DOMAIN rows : rows[t].seq \in Int /\ (t \in S <=> rows[t].seq < at0),
           \A t \in DOMAIN rows :
             /\ rs[t].text = rows[t].text
             /\ rs[t].seq = IF rows[t].seq >= at0 THEN rows[t].seq + 1 ELSE rows[t].seq,
           rs[n].seq = at0
    PROVE  Line(rs) = Plus(Line(rows), S, n, rs[n].text)
<1> DEFINE line == Plus(Line(rows), S, n, rs[n].text)
<1>1. /\ line.text = [t \in DOMAIN Line(rows).text \cup {n} |-> IF t = n THEN rs[n].text ELSE Line(rows).text[t]]
      /\ line.before = Line(rows).before \cup (S \X {n}) \cup ({n} \X (DOMAIN Line(rows).text \ S))
      /\ line = [text |-> line.text, before |-> line.before]
  BY DEF Plus
<1> HIDE DEF line
<1>2. line.text = [t \in DOMAIN rs |-> rs[t].text]
  <2>1. DOMAIN Line(rows).text = DOMAIN rows /\ \A t \in DOMAIN rows : Line(rows).text[t] = rows[t].text
    BY LineParts
  <2>2. line.text = [t \in DOMAIN rs |-> IF t = n THEN rs[n].text ELSE Line(rows).text[t]]
    BY <1>1, <2>1
  <2>3. \A t \in DOMAIN rs : rs[t].text = IF t = n THEN rs[n].text ELSE Line(rows).text[t]
    BY <2>1
  <2>4. QED BY <2>2, <2>3
<1>3. line.before = Line(rows).before \cup (S \X {n}) \cup ({n} \X (DOMAIN rows \ S))
      /\ Line(rows).before \subseteq (DOMAIN rows) \X (DOMAIN rows)
  BY <1>1, LineParts
<1>4. ASSUME NEW t \in DOMAIN rs, NEW u \in DOMAIN rs
      PROVE  <<t, u>> \in line.before <=> rs[t].seq < rs[u].seq
  <2>1. CASE t \in DOMAIN rows /\ u \in DOMAIN rows
    <3>1. <<t, u>> \in Line(rows).before <=> rows[t].seq < rows[u].seq BY <2>1, LineParts
    <3>2. <<t, u>> \in line.before <=> <<t, u>> \in Line(rows).before BY <1>3, <2>1
    <3>3. rs[t].seq < rs[u].seq <=> rows[t].seq < rows[u].seq BY <2>1
    <3>4. QED BY <3>1, <3>2, <3>3
  <2>2. CASE t \in DOMAIN rows /\ u = n
    <3>1. <<t, u>> \in line.before <=> t \in S BY <1>3, <2>2
    <3>2. rs[t].seq < rs[u].seq <=> rows[t].seq < at0 BY <2>2
    <3>3. QED BY <2>2, <3>1, <3>2
  <2>3. CASE t = n /\ u \in DOMAIN rows
    <3>1. <<t, u>> \in line.before <=> u \notin S BY <1>3, <2>3
    <3>2. rs[t].seq < rs[u].seq <=> ~(rows[u].seq < at0) BY <2>3
    <3>3. QED BY <2>3, <3>1, <3>2
  <2>4. CASE t = n /\ u = n
    <3>1. <<t, u>> \notin line.before BY <1>3, <2>4
    <3>2. QED BY <2>4, <3>1
  <2>5. QED BY <2>1, <2>2, <2>3, <2>4
<1>5. line.before \subseteq (DOMAIN rs) \X (DOMAIN rs) BY <1>3
<1>6. QED BY <1>1, <1>2, <1>4, <1>5, LineIs DEF line

\* A chat as it is loaded is numbered by its places.
LEMMA LoadedPlaces ==
    ASSUME NEW rs, DOMAIN rs = Turns, \A t \in Turns : rs[t].seq = t
    PROVE  \A t \in DOMAIN rs : rs[t].seq = Place(rs, t)
<1> SUFFICES ASSUME NEW t \in Turns PROVE Place(rs, t) = t OBVIOUS
<1>1. {u \in DOMAIN rs : rs[u].seq < rs[t].seq} = 0 .. t - 1 BY DEF Turns
<1>2. Cardinality(0 .. t - 1) = t BY FS_Interval DEF Turns
<1>3. QED BY <1>1, <1>2 DEF Place

Chosen(rs, S) == CHOOSE h \in InOrder(rs, S) : TRUE

\* The order a join takes is the one there is.
LEMMA ChosenIs ==
    ASSUME NEW rs, IsTable(rs), Distinct(rs), NEW S \in SUBSET DOMAIN rs, NEW f \in InOrder(rs, S)
    PROVE  f = Chosen(rs, S)
<1>1. IsFiniteSet(S) BY FiniteRows, FS_Subset
<1>2. Chosen(rs, S) \in InOrder(rs, S) BY DEF Chosen
<1>3. /\ \A t \in S : rs[t].seq \in Int
      /\ \A t, u \in S : rs[t].seq = rs[u].seq => t = u
  BY DEF IsTable, Distinct
<1>4. QED BY <1>1, <1>2, <1>3, OneOrder

\* What was promised stays promised.
LEMMA PromisedStays ==
    ASSUME NEW r, was'[r] = was[r], op'[r] = op[r], want'[r] = want[r], anchor'[r] = anchor[r],
           cut'[r] = cut[r]
    PROVE  Promised(r)' = Promised(r)
BY DEF Promised

\* The turns a request found have no number left negative.
Untouched(r) == \A t \in DOMAIN was[r] : was[r][t].seq >= 0

\* How far a request has come with its promise, if it met no other.
Stage(r) ==
    /\ \A t \in DOMAIN rows : rows[t].seq >= 0
    /\ pc[r] \in {"fetch", "keep", "head"} => rows = was[r]
    /\ pc[r] = "drop" =>
         LET f == Chosen(was[r], want[r])
         IN  /\ want[r] \subseteq DOMAIN was[r] /\ anchor[r] = f[1]
             /\ Line(rows) = Says(Line(was[r]), f[1], Joined(was[r], f))
    /\ pc[r] \in {"anchor", "place"} =>
         \/ op[r] = "insert" /\ rows = was[r]
         \/ LET text == was[r][anchor[r]].text
            IN  /\ op[r] = "split" /\ anchor[r] \in DOMAIN was[r]
                /\ Line(rows) = Says(Line(was[r]), anchor[r], SubSeq(text, 1, cut[r]))
                /\ NewText(r) = SubSeq(text, cut[r] + 1, Len(text))
    /\ pc[r] = "place" =>
         IF anchor[r] = Top THEN at[r] = 0
         ELSE anchor[r] \in DOMAIN rows /\ at[r] = rows[anchor[r]].seq + 1
    /\ pc[r] = "refill" => op[r] = "reset" /\ rows = Nothing
    /\ pc[r] \in {"list", "passes"} => Line(rows) = Promised(r)
    /\ pc[r] = "passes" =>
         /\ DOMAIN seen[r] = DOMAIN rows
         /\ \A t \in DOMAIN rows : seen[r][t].by = rows[t].by /\ seen[r][t].place = Place(rows, t)

Works == \A r \in Active \ met : Untouched(r) => Stage(r)

\* What a request leaves that is done.
Delivered(r) ==
    /\ Line(rows') = Promised(r)'
    /\ pc[r] \in {"passes", "refill"} \/ op'[r] = "rewrite" =>
         /\ \A t \in DOMAIN rows' : rows'[t].seq = Place(rows', t)
         /\ disk' = rows'

\* A step of a request comes to the next stage, or to the end.
Comes(r) ==
    \/ pc'[r] = "over" /\ Delivered(r)
    \/ pc'[r] # "over" /\ Stage(r)'

\* The steps of one request.
Own(r) ==
    \/ List(r) \/ Passes(r) \/ Shorten(r) \/ Anchor(r) \/ PlaceTurn(r)
    \/ Keep(r) \/ Drop(r) \/ Reset(r) \/ Refill(r) \/ Rewrite(r)
    \/ \E S \in SUBSET Shown : Delete(r, S) \/ Join(r, S)
    \/ \E a \in Shown \cup {Top} : Insert(r, a)
    \/ \E t \in Shown, c \in 0 .. 2 * Cardinality(Ids) : Split(r, t, c)
    \/ \E t \in Ids : Fetch(r, t)

Idle(r) ==
    /\ rows' = rows /\ pc'[r] = pc[r] /\ op'[r] = op[r] /\ want'[r] = want[r]
    /\ anchor'[r] = anchor[r] /\ cut'[r] = cut[r] /\ got'[r] = got[r] /\ at'[r] = at[r]
    /\ seen'[r] = seen[r] /\ was'[r] = was[r]

\* The steps while a request is at work that met nobody are its own, but for commits.
LEMMA Solo ==
    ASSUME TypeOK, Meet, [Next]_vars, NEW r \in Reqs, r \notin met', ~Crash,
           r \in Active' \/ pc'[r] # pc[r]
    PROVE  Own(r) \/ Idle(r)
<1>1. \A q \in Reqs : q \in Active <=> pc[q] \notin {"new", "over"} BY DEF Active
<1>2. r \in Active' <=> pc'[r] \notin {"new", "over"} BY DEF Active
<1>3. ASSUME NEW q \in Reqs, q # r, GoesOn(q) PROVE FALSE
  BY <1>1, <1>2, <1>3 DEF GoesOn, Meet
<1>4. ASSUME NEW q \in Reqs, q # r, StartsNow(q) PROVE FALSE
  BY <1>1, <1>2, <1>4 DEF StartsNow
<1>5. CASE OtherCommit \/ UNCHANGED vars
  BY <1>5 DEF OtherCommit, Commit, vars, asked, held, history, Idle
<1>6. QED BY <1>3, <1>4, <1>5, Goers, Starters DEF Next, Own

\* A request that starts finds what it will be held to.
LEMMA Begins ==
    ASSUME TypeOK, NEW r \in Reqs, Untouched(r)',
           \/ Reset(r) \/ Rewrite(r)
           \/ \E S \in SUBSET Shown : Delete(r, S) \/ Join(r, S)
           \/ \E a \in Shown \cup {Top} : Insert(r, a)
           \/ \E t \in Shown, c \in 0 .. 2 * Cardinality(Ids) : Split(r, t, c)
    PROVE  Comes(r)
<1>1. /\ pc \in [Reqs -> {"new", "fetch", "head", "keep", "drop", "anchor", "place", "list", "passes", "refill", "over"}]
      /\ op \in [Reqs -> Ops \cup {"none"}] /\ want \in [Reqs -> SUBSET Ids]
      /\ anchor \in [Reqs -> Ids \cup {Top}] /\ DOMAIN was = Reqs /\ DOMAIN got = Reqs
  BY DEF TypeOK
<1>2. ASSUME NEW o, Starts(r, o) PROVE op'[r] = o /\ was'[r] = rows /\ pc[r] = "new"
  BY <1>1, <1>2 DEF Starts
<1>3. ASSUME was'[r] = rows PROVE \A t \in DOMAIN rows : rows[t].seq >= 0
  BY <1>3 DEF Untouched
<1>4. ASSUME Reset(r) PROVE Comes(r)
  <2>1. pc'[r] = "refill" /\ op'[r] = "reset" /\ rows' = Nothing
    BY <1>1, <1>2, <1>4 DEF Reset, Goes, Commit
  <2>2. DOMAIN Nothing = {} BY DEF Nothing
  <2>3. QED BY <2>1, <2>2 DEF Comes, Stage
<1>5. ASSUME Rewrite(r) PROVE Comes(r)
  <2>1. pc'[r] = "over" /\ op'[r] = "rewrite" /\ rows' = Loaded(r) /\ disk' = rows'
    BY <1>1, <1>2, <1>5 DEF Rewrite, Goes, Commit
  <2>2. Promised(r)' = Line(Loaded(r)) BY <2>1 DEF Promised
  <2>3. DOMAIN rows' = Turns /\ \A t \in Turns : rows'[t].seq = t BY <2>1, LoadedOK
  <2>4. \A t \in DOMAIN rows' : rows'[t].seq = Place(rows', t) BY <2>3, LoadedPlaces
  <2>5. QED BY <2>1, <2>2, <2>4 DEF Comes, Delivered
<1>6. ASSUME NEW S, Delete(r, S), S \in SUBSET Shown PROVE Comes(r)
  <2>1. /\ pc'[r] = "list" /\ op'[r] = "delete" /\ was'[r] = rows /\ want'[r] = S
        /\ rows' = Without(S)
    BY <1>1, <1>2, <1>6 DEF Delete, Goes, Commit
  <2>2. Promised(r)' = Less(Line(rows), S) BY <2>1 DEF Promised
  <2>3. Line(rows') = Promised(r)' BY <2>1, <2>2, LineLess
  <2>4. \A t \in DOMAIN rows' : rows'[t].seq >= 0 BY <1>3, <2>1 DEF Without
  <2>5. QED BY <2>1, <2>3, <2>4 DEF Comes, Stage
<1>7. ASSUME NEW S, Join(r, S) PROVE Comes(r)
  <2>1. pc'[r] = "fetch" /\ was'[r] = rows /\ rows' = rows BY <1>1, <1>2, <1>7 DEF Join, Goes
  <2>2. QED BY <1>3, <2>1 DEF Comes, Stage
<1>8. ASSUME NEW a, Insert(r, a) PROVE Comes(r)
  <2>1. pc'[r] = "anchor" /\ op'[r] = "insert" /\ was'[r] = rows /\ rows' = rows
    BY <1>1, <1>2, <1>8 DEF Insert, Goes
  <2>2. QED BY <1>3, <2>1 DEF Comes, Stage
<1>9. ASSUME NEW t \in Shown, NEW c, Split(r, t, c) PROVE Comes(r)
  <2>1. op'[r] = "split" /\ was'[r] = rows /\ rows' = rows /\ anchor'[r] = t /\ pc[r] = "new"
    BY <1>1, <1>2, <1>9 DEF Split
  <2>2. CASE t \in DOMAIN rows
    <3>1. pc'[r] = "head" BY <1>1, <1>9, <2>2 DEF Split, Goes
    <3>2. QED BY <1>3, <2>1, <3>1 DEF Comes, Stage
  <2>3. CASE t \notin DOMAIN rows
    <3>1. pc'[r] = "over" BY <1>1, <1>9, <2>3 DEF Split, Goes
    <3>2. Promised(r)' = Line(rows) BY <2>1, <2>3 DEF Promised
    <3>3. QED BY <2>1, <3>1, <3>2 DEF Comes, Delivered
  <2>4. QED BY <2>2, <2>3
<1>10. QED BY <1>4, <1>5, <1>6, <1>7, <1>8, <1>9

\* A renumbering.
LEMMA EndsByPasses ==
    ASSUME TypeOK, SeenOK, NEW r \in Reqs, Stage(r), List(r) \/ Passes(r)
    PROVE  Comes(r)
<1>1. /\ pc \in [Reqs -> {"new", "fetch", "head", "keep", "drop", "anchor", "place", "list", "passes", "refill", "over"}]
      /\ DOMAIN seen = Reqs
  BY DEF TypeOK
<1>2. /\ op' = op /\ want' = want /\ anchor' = anchor /\ cut' = cut /\ was' = was
  BY DEF List, Passes, asked, history
<1>3. Promised(r)' = Promised(r) BY <1>2, PromisedStays
<1>4. pc[r] \in {"list", "passes"} BY DEF List, Passes
<1>5. Line(rows) = Promised(r) /\ \A t \in DOMAIN rows : rows[t].seq >= 0 BY <1>4 DEF Stage
<1>6. CASE List(r)
  <2>1. /\ pc'[r] = "passes" /\ rows' = rows /\ DOMAIN seen'[r] = DOMAIN rows
        /\ \A t \in DOMAIN rows : seen'[r][t].by = rows[t].by /\ seen'[r][t].place = Place(rows, t)
    BY <1>1, <1>6 DEF List, Goes
  <2>2. Stage(r)' BY <1>3, <1>5, <2>1 DEF Stage
  <2>3. QED BY <2>1, <2>2 DEF Comes
<1>7. CASE Passes(r)
  <2>1. pc[r] = "passes" /\ pc'[r] = "over" BY <1>1, <1>7 DEF Passes, Goes
  <2>2. /\ DOMAIN seen[r] = DOMAIN rows
        /\ \A t \in DOMAIN rows : seen[r][t].by = rows[t].by /\ seen[r][t].place = Place(rows, t)
    BY <2>1 DEF Stage
  <2>3. Hit(r) = DOMAIN rows BY <2>2 DEF Hit
  <2>4. \A t, u \in Hit(r) : seen[r][t].place < seen[r][u].place <=> rows[t].seq < rows[u].seq
    BY <2>2, <2>3, Further
  <2>5. /\ disk' = rows'
        /\ \A t \in DOMAIN rows :
             rows'[t].seq = IF Hit(r) = {} THEN rows[t].seq ELSE seen[r][t].place
        /\ \A t, u \in DOMAIN rows : rows'[t].seq < rows'[u].seq <=> rows[t].seq < rows[u].seq
    BY <1>5, <1>7, <2>3, <2>4, PassesGoThrough
  <2>6. DOMAIN rows' = DOMAIN rows /\ \A t \in DOMAIN rows : rows'[t].text = rows[t].text
    BY <1>7, PassesMove
  <2>7. Line(rows') = Promised(r)' BY <1>3, <1>5, <2>5, <2>6, SameLine
  <2>8. ASSUME NEW t \in DOMAIN rows PROVE rows'[t].seq = Place(rows', t)
    <3>1. rows'[t].seq = Place(rows, t) BY <2>2, <2>3, <2>5
    <3>2. {u \in DOMAIN rows' : rows'[u].seq < rows'[t].seq} = {u \in DOMAIN rows : rows[u].seq < rows[t].seq}
      BY <2>5, <2>6
    <3>3. QED BY <3>1, <3>2 DEF Place
  <2>9. QED BY <2>1, <2>5, <2>6, <2>7, <2>8 DEF Comes, Delivered
<1>8. QED BY <1>6, <1>7

\* The filling of an emptied chat.
LEMMA EndsByRefill ==
    ASSUME TypeOK, NEW r \in Reqs, Stage(r), Refill(r)
    PROVE  Comes(r)
<1>1. pc[r] = "refill" /\ op' = op BY DEF Refill, asked
<1>2. pc'[r] = "over" BY DEF Refill, Goes, TypeOK
<1>3. op[r] = "reset" /\ rows = Nothing /\ DOMAIN Nothing = {} BY <1>1 DEF Stage, Nothing
<1>4. PICK k \in Free :
        /\ \A j \in Free : j <= k
        /\ DOMAIN rows' = DOMAIN rows \cup 0 .. k - 1
        /\ \A t \in 0 .. k - 1 : rows'[t].seq = t /\ rows'[t].text = Body(t)
        /\ \/ k = N /\ disk' = rows'
           \/ k # N
  BY RefillStep
<1>5. N \in Free /\ k \in 0 .. N BY <1>3 DEF Free
<1>6. k = N BY <1>4, <1>5
<1>7. DOMAIN rows' = Turns /\ \A t \in Turns : rows'[t].seq = t /\ rows'[t].text = Body(t)
  BY <1>3, <1>4, <1>6 DEF Turns
<1>8. Line(rows') = Line(Loaded(r))
  <2>1. /\ DOMAIN Loaded(r) = Turns
        /\ \A t \in Turns : Loaded(r)[t].seq = t /\ Loaded(r)[t].text = Body(t)
    BY LoadedOK
  <2>2. QED BY <1>7, <2>1, SameLine
<1>9. Promised(r)' = Line(Loaded(r)) BY <1>1, <1>3 DEF Promised
<1>10. \A t \in DOMAIN rows' : rows'[t].seq = Place(rows', t) BY <1>7, LoadedPlaces
<1>11. QED BY <1>2, <1>4, <1>6, <1>8, <1>9, <1>10 DEF Comes, Delivered

\* A split shortens its turn.
LEMMA Shortens ==
    ASSUME TypeOK, Kinds, Joins, NEW r \in Reqs \ met, Stage(r), Shorten(r)
    PROVE  Comes(r)
<1> DEFINE a == anchor[r]
           part == SubSeq(got[r][a].text, 1, cut[r])
<1>1. /\ pc[r] = "head" /\ rows' = Rewritten(r, a, part) /\ pc'[r] = "anchor"
      /\ op' = op /\ want' = want /\ anchor' = anchor /\ cut' = cut /\ was' = was /\ got' = got
  BY DEF Shorten, Commit, Goes, TypeOK, asked, held
<1>2. op[r] = "split" /\ a \in DOMAIN got[r] BY <1>1 DEF Kinds
<1>3. rows = was[r] /\ a \in DOMAIN rows /\ rows[a] = got[r][a] BY <1>1, <1>2 DEF Joins, Stage
<1>4. part = SubSeq(was[r][a].text, 1, cut[r]) BY <1>3
<1>5. Line(rows') = Says(Line(rows), a, part) BY <1>1, <1>3, LineSays
<1>6. \A t \in DOMAIN rows' : rows'[t].seq >= 0
  <2>1. DOMAIN rows' = DOMAIN rows /\ \A t \in DOMAIN rows : rows'[t].seq = rows[t].seq
    BY <1>1, TextOK DEF TypeOK
  <2>2. QED BY <2>1 DEF Stage
<1>7. NewText(r)' = SubSeq(was[r][a].text, cut[r] + 1, Len(was[r][a].text))
  BY <1>1, <1>2, <1>3 DEF NewText
<1> HIDE DEF part
<1>8. Stage(r)' BY <1>1, <1>2, <1>3, <1>4, <1>5, <1>6, <1>7 DEF Stage
<1>9. QED BY <1>1, <1>8 DEF Comes

\* A number for the new turn, or none.
LEMMA Anchors ==
    ASSUME TypeOK, NEW r \in Reqs, Stage(r), Anchor(r)
    PROVE  Comes(r)
<1> DEFINE a == anchor[r]
           text == was[r][a].text
<1>1. /\ pc[r] = "anchor" /\ rows' = rows /\ op' = op /\ want' = want /\ anchor' = anchor
      /\ cut' = cut /\ was' = was /\ got' = got
  BY DEF Anchor, asked, history
<1>2. CASE a # Top /\ a \notin DOMAIN rows
  <2>1. pc'[r] = "over" BY <1>2 DEF Anchor, Goes, TypeOK
  <2>2. CASE op[r] = "insert" /\ rows = was[r]
    <3>1. Promised(r)' = Line(rows) BY <1>1, <1>2, <2>2 DEF Promised
    <3>2. QED BY <1>1, <2>1, <2>2, <3>1 DEF Comes, Delivered
  <2>3. CASE a \in DOMAIN was[r] /\ Line(rows) = Says(Line(was[r]), a, SubSeq(text, 1, cut[r]))
    <3>1. DOMAIN Line(rows).text = DOMAIN Line(was[r]).text BY <2>3 DEF Says
    <3>2. DOMAIN rows = DOMAIN was[r] BY <3>1, LineParts
    <3>3. QED BY <1>2, <2>3, <3>2
  <2>4. QED BY <1>1, <2>2, <2>3 DEF Stage
<1>3. CASE ~(a # Top /\ a \notin DOMAIN rows)
  <2>1. pc'[r] = "place" /\ at'[r] = IF a = Top THEN 0 ELSE rows[a].seq + 1
    BY <1>3 DEF Anchor, Goes, TypeOK
  <2>2. NewText(r)' = NewText(r) BY <1>1 DEF NewText
  <2>3. Stage(r)' BY <1>1, <1>3, <2>1, <2>2 DEF Stage
  <2>4. QED BY <2>1, <2>3 DEF Comes
<1>4. QED BY <1>2, <1>3

\* The new turn comes where it was to come.
LEMMA NewPlaces ==
    ASSUME TypeOK, Fresh, Named, NEW r \in Reqs, Stage(r), PlaceTurn(r)
    PROVE  Comes(r)
<1> DEFINE a == anchor[r]
           S == IF a = Top THEN {} ELSE UpTo(Line(rows), a)
<1>1. /\ pc[r] = "place" /\ op' = op /\ want' = want /\ anchor' = anchor
      /\ cut' = cut /\ was' = was
  BY DEF PlaceTurn, asked
<1>2. \A t \in DOMAIN rows : rows[t].seq \in Int /\ rows[t].seq >= 0 BY DEF Stage, TypeOK, IsTable
<1>3. IF a = Top THEN at[r] = 0 ELSE a \in DOMAIN rows /\ at[r] = rows[a].seq + 1
  BY <1>1 DEF Stage
<1>4. at[r] \in Int /\ at[r] >= 0 BY <1>2, <1>3
<1>5. /\ pc' = [pc EXCEPT ![r] = "list"] /\ \A t \in DOMAIN rows' : rows'[t].seq >= 0
      /\ DOMAIN rows' = DOMAIN rows \cup {r} /\ rows'[r].seq = at[r] /\ rows'[r].text = NewText(r)
      /\ \A t \in DOMAIN rows \ {r} :
           /\ rows'[t].text = rows[t].text
           /\ rows'[t].seq = IF rows[t].seq >= at[r] THEN rows[t].seq + 1 ELSE rows[t].seq
  BY <1>2, <1>4, PlaceKeepsOrder
<1>6. pc'[r] = "list" BY <1>5 DEF TypeOK
<1>7. r \notin DOMAIN rows BY <1>1 DEF Fresh, Named
<1>8. \A t \in DOMAIN rows :
        /\ rows'[t].text = rows[t].text
        /\ rows'[t].seq = IF rows[t].seq >= at[r] THEN rows[t].seq + 1 ELSE rows[t].seq
  BY <1>5, <1>7
<1>9. S \in SUBSET DOMAIN rows /\ \A t \in DOMAIN rows : t \in S <=> rows[t].seq < at[r]
  <2>1. CASE a = Top BY <1>2, <1>3, <2>1
  <2>2. CASE a # Top
    <3>1. a \in DOMAIN rows /\ at[r] = rows[a].seq + 1 BY <1>3, <2>2
    <3>2. S = {u \in DOMAIN rows : u = a \/ <<u, a>> \in Line(rows).before}
      BY <2>2, LineParts DEF UpTo
    <3>3. \A u \in DOMAIN rows : <<u, a>> \in Line(rows).before <=> rows[u].seq < rows[a].seq
      BY <3>1, LineParts
    <3>4. \A u \in DOMAIN rows : rows[u].seq = rows[a].seq => u = a
      BY <3>1 DEF TypeOK, Distinct
    <3> HIDE DEF S
    <3>5. ASSUME NEW t \in DOMAIN rows PROVE t \in S <=> rows[t].seq < at[r]
      <4>1. t \in S <=> t = a \/ rows[t].seq < rows[a].seq BY <3>2, <3>3
      <4>2. t = a <=> rows[t].seq = rows[a].seq BY <3>4
      <4>3. rows[t].seq \in Int /\ rows[a].seq \in Int BY <1>2, <3>1
      <4>4. QED BY <3>1, <4>1, <4>2, <4>3
    <3>6. S \in SUBSET DOMAIN rows BY <3>2
    <3>7. QED BY <3>5, <3>6
  <2>3. QED BY <2>1, <2>2
<1> HIDE DEF S
<1>10. Line(rows') = Plus(Line(rows), S, r, NewText(r))
  <2>1. \A t \in DOMAIN rows : rows[t].seq \in Int /\ (t \in S <=> rows[t].seq < at[r])
    BY <1>2, <1>9
  <2>2. at[r] \in Int /\ S \in SUBSET DOMAIN rows BY <1>4, <1>9
  <2>3. DOMAIN rows' = DOMAIN rows \cup {r} /\ rows'[r].seq = at[r] BY <1>5
  <2> HIDE DEF a
  <2>4. Line(rows') = Plus(Line(rows), S, r, rows'[r].text)
    BY <1>7, <1>8, <2>1, <2>2, <2>3, LinePlus
  <2>5. QED BY <1>5, <2>4
<1>11. Line(rows') = Promised(r)
  <2>1. CASE op[r] = "insert" /\ rows = was[r]
    <3>1. NewText(r) = Body(r) BY <2>1 DEF NewText
    <3>2. Promised(r) = Plus(Line(rows), S, r, Body(r)) BY <1>3, <2>1 DEF Promised, S
    <3>3. QED BY <1>10, <3>1, <3>2
  <2>2. CASE LET text == was[r][a].text
             IN  /\ op[r] = "split" /\ a \in DOMAIN was[r]
                 /\ Line(rows) = Says(Line(was[r]), a, SubSeq(text, 1, cut[r]))
                 /\ NewText(r) = SubSeq(text, cut[r] + 1, Len(text))
    <3> DEFINE text == was[r][a].text
    <3>1. a # Top BY <2>2 DEF TypeOK, IsTable, Ids, Turns
    <3>2. UpTo(Line(rows), a) = UpTo(Line(was[r]), a) BY <2>2 DEF UpTo, Says
    <3>3. Promised(r) = Plus(Line(rows), UpTo(Line(was[r]), a), r, SubSeq(text, cut[r] + 1, Len(text)))
      BY <2>2 DEF Promised
    <3>4. S = UpTo(Line(was[r]), a) BY <3>1, <3>2 DEF S
    <3>5. QED BY <1>10, <2>2, <3>3, <3>4
  <2>3. QED BY <1>1, <2>1, <2>2 DEF Stage
<1>12. Line(rows') = Promised(r)' BY <1>1, <1>11, PromisedStays
<1>13. QED BY <1>5, <1>6, <1>12 DEF Comes, Stage

\* A row of a join is read, or is not there.
LEMMA Fetches ==
    ASSUME TypeOK, Kinds, NEW r \in Reqs, Stage(r), NEW t, Fetch(r, t)
    PROVE  Comes(r)
<1>1. /\ pc[r] = "fetch" /\ t \in want[r] /\ rows' = rows
      /\ op' = op /\ want' = want /\ was' = was /\ anchor' = anchor
  BY DEF Fetch, asked, history
<1>2. op[r] = "join" /\ rows = was[r] /\ \A u \in DOMAIN rows : rows[u].seq >= 0
  BY <1>1 DEF Kinds, Stage
<1>3. CASE t \in DOMAIN rows
  <2>1. pc'[r] \in {"keep", "fetch"} BY <1>3 DEF Fetch, Goes, TypeOK
  <2>2. QED BY <1>1, <1>2, <2>1 DEF Comes, Stage
<1>4. CASE t \notin DOMAIN rows
  <2>1. pc'[r] = "over" BY <1>4 DEF Fetch, Goes, TypeOK
  <2>2. ~(want[r] \subseteq DOMAIN was[r]) BY <1>1, <1>2, <1>4
  <2>3. Promised(r)' = Line(was[r]) BY <1>1, <1>2, <2>2 DEF Promised
  <2>4. QED BY <1>1, <1>2, <2>1, <2>3 DEF Comes, Delivered
<1>5. QED BY <1>3, <1>4

\* The text of all is written to the first of them.
LEMMA Keeps ==
    ASSUME TypeOK, Kinds, Joins, NEW r \in Reqs \ met, Stage(r), Keep(r)
    PROVE  Comes(r)
<1> DEFINE S == want[r]
<1>1. /\ pc[r] = "keep" /\ pc'[r] = "drop" /\ op' = op /\ want' = want /\ was' = was
  BY DEF Keep, Goes, TypeOK
<1>2. PICK f \in InOrder(got[r], S) :
        anchor' = [anchor EXCEPT ![r] = f[1]] /\ rows' = Rewritten(r, f[1], Joined(got[r], f))
  BY DEF Keep, Commit
<1>3. Cardinality(S) >= 2 /\ DOMAIN got[r] = S BY <1>1 DEF Kinds
<1>4. rows = was[r] /\ \A t \in S : t \in DOMAIN rows /\ rows[t] = got[r][t]
  BY <1>1, <1>3 DEF Joins, Stage
<1>5. IsFiniteSet(S) BY FiniteIds, FS_Subset DEF TypeOK
<1>6. LET n == Cardinality(S)
      IN  n \in Nat /\ f \in [1 .. n -> S] /\ f[1] \in S
  <2>1. Cardinality(S) \in Nat /\ f \in [1 .. Cardinality(S) -> S] BY <1>5, OrderOnto
  <2>2. QED BY <1>3, <2>1
<1>7. f \in InOrder(rows, S) BY <1>4, <1>6 DEF InOrder
<1>8. f = Chosen(rows, S) BY <1>4, <1>7, ChosenIs DEF TypeOK
<1>9. Joined(got[r], f) = Joined(rows, f)
  <2>1. \A i \in DOMAIN f : got[r][f[i]].text = rows[f[i]].text BY <1>4, <1>6
  <2>2. [i \in DOMAIN f |-> got[r][f[i]].text] = [i \in DOMAIN f |-> rows[f[i]].text] BY <2>1
  <2>3. QED BY <2>2 DEF Joined
<1>10. Line(rows') = Says(Line(rows), f[1], Joined(rows, f))
  <2>1. f[1] \in DOMAIN rows /\ rows[f[1]].by = got[r][f[1]].by BY <1>4, <1>6
  <2>2. QED BY <1>2, <1>9, <2>1, LineSays
<1>11. \A t \in DOMAIN rows' : rows'[t].seq >= 0
  <2>1. DOMAIN rows' = DOMAIN rows /\ \A t \in DOMAIN rows : rows'[t].seq = rows[t].seq
    BY <1>2, TextOK DEF TypeOK
  <2>2. QED BY <2>1 DEF Stage
<1>12. anchor'[r] = f[1] BY <1>2 DEF TypeOK
<1>13. /\ want'[r] \subseteq DOMAIN was'[r] /\ anchor'[r] = Chosen(was'[r], want'[r])[1]
       /\ Line(rows') = Says(Line(was'[r]), Chosen(was'[r], want'[r])[1],
                             Joined(was'[r], Chosen(was'[r], want'[r])))
  BY <1>1, <1>4, <1>8, <1>10, <1>12
<1>14. Stage(r)' BY <1>1, <1>11, <1>13 DEF Stage
<1>15. QED BY <1>1, <1>14 DEF Comes

\* The rest of a join goes.
LEMMA Drops ==
    ASSUME TypeOK, Kinds, NEW r \in Reqs, Stage(r), Drop(r)
    PROVE  Comes(r)
<1> DEFINE f == Chosen(was[r], want[r])
<1>1. /\ pc[r] = "drop" /\ pc'[r] = "list" /\ rows' = Without(want[r] \ {anchor[r]})
      /\ op' = op /\ want' = want /\ anchor' = anchor /\ cut' = cut /\ was' = was
  BY DEF Drop, Commit, Goes, TypeOK, asked
<1>2. /\ op[r] = "join" /\ want[r] \subseteq DOMAIN was[r] /\ anchor[r] = f[1]
      /\ Line(rows) = Says(Line(was[r]), f[1], Joined(was[r], f))
      /\ \A t \in DOMAIN rows : rows[t].seq >= 0
  BY <1>1 DEF Kinds, Stage
<1>3. Promised(r) = Less(Says(Line(was[r]), f[1], Joined(was[r], f)), want[r] \ {f[1]})
  BY <1>2 DEF Promised, Chosen
<1>4. Line(rows') = Promised(r) BY <1>1, <1>2, <1>3, LineLess
<1>5. Line(rows') = Promised(r)' BY <1>1, <1>4, PromisedStays
<1>6. \A t \in DOMAIN rows' : rows'[t].seq >= 0 BY <1>1, <1>2 DEF Without
<1>7. QED BY <1>1, <1>5, <1>6 DEF Comes, Stage

\* Each own step of a request that met no other keeps its promise.
LEMMA OwnComes ==
    ASSUME TInv, Works, [Next]_vars, NEW r \in Reqs, r \notin met', Untouched(r)', Own(r)
    PROVE  Comes(r)
<1>1. /\ TypeOK /\ Kinds /\ Fresh /\ SeenOK /\ Named /\ Meet /\ Joins
  BY DEF TInv, IInv, Shape
<1>2. r \notin met BY <1>1, NextMeet
<1>3. ASSUME GoesOn(r), was'[r] = was[r] PROVE Stage(r)
  BY <1>2, <1>3 DEF GoesOn, Works, Untouched
<1>4. ASSUME \/ List(r) \/ Passes(r) \/ Shorten(r) \/ Anchor(r) \/ PlaceTurn(r)
             \/ Keep(r) \/ Drop(r) \/ Refill(r) \/ \E t : Fetch(r, t)
      PROVE  Stage(r)
  <2>1. GoesOn(r) BY <1>1, <1>4, Goers
  <2>2. was' = was
    BY <1>4 DEF List, Passes, Shorten, Anchor, PlaceTurn, Keep, Drop, Refill, Fetch, history
  <2>3. QED BY <1>3, <2>1, <2>2
<1>5. CASE List(r) \/ Passes(r) BY <1>1, <1>4, <1>5, EndsByPasses
<1>6. CASE Shorten(r) BY <1>1, <1>2, <1>4, <1>6, Shortens
<1>7. CASE Anchor(r) BY <1>1, <1>4, <1>7, Anchors
<1>8. CASE PlaceTurn(r) BY <1>1, <1>4, <1>8, NewPlaces
<1>9. CASE Keep(r) BY <1>1, <1>2, <1>4, <1>9, Keeps
<1>10. CASE Drop(r) BY <1>1, <1>4, <1>10, Drops
<1>11. CASE Refill(r) BY <1>1, <1>4, <1>11, EndsByRefill
<1>12. CASE \E t : Fetch(r, t) BY <1>1, <1>4, <1>12, Fetches
<1>13. QED BY <1>1, <1>5, <1>6, <1>7, <1>8, <1>9, <1>10, <1>11, <1>12, Begins DEF Own

LEMMA NextWorks == TInv /\ Works /\ [Next]_vars => Works'
<1> SUFFICES ASSUME TInv, Works, [Next]_vars, NEW r \in Reqs, r \in Active', r \notin met', Untouched(r)'
             PROVE  Stage(r)'
  BY DEF Works, Active
<1>1. /\ TypeOK /\ Meet BY DEF TInv, IInv, Shape
<1>2. ~Crash
  <2>1. pc'[r] \notin {"new", "over"} BY DEF Active
  <2>2. QED BY <2>1 DEF Crash, Active
<1>3. Own(r) \/ Idle(r) BY <1>1, <1>2, Solo
<1>4. CASE Own(r)
  <2>1. Comes(r) BY <1>4, OwnComes
  <2>2. pc'[r] # "over" BY DEF Active
  <2>3. QED BY <2>1, <2>2 DEF Comes
<1>5. CASE Idle(r)
  <2>1. r \in Active /\ Untouched(r) /\ r \notin met
    <3>1. pc'[r] \notin {"new", "over"} BY DEF Active
    <3>2. r \in Active BY <1>5, <3>1 DEF Idle, Active
    <3>3. Untouched(r) BY <1>5 DEF Idle, Untouched
    <3>4. QED BY <1>1, <3>2, <3>3, NextMeet
  <2>2. Stage(r) BY <2>1 DEF Works
  <2>3. Promised(r)' = Promised(r) BY <1>5, PromisedStays DEF Idle
  <2>4. NewText(r)' = NewText(r) BY <1>5 DEF Idle, NewText
  <2>5. QED BY <1>5, <2>2, <2>3, <2>4 DEF Idle, Stage
<1>6. QED BY <1>3, <1>4, <1>5

-----------------------------------------------------------------------------
\* The type invariant: among it, that no two turns ever have one number, also where
\* passes stop half-way (the index turns_order).
THEOREM TypeCorrect == Spec => []TypeOK
<1>1. IInv => TypeOK BY DEF IInv
<1>2. QED BY <1>1, InitInv, NextInv, PTL DEF Spec

\* Turns keep their order through any number of overlapping requests and stops, for
\* chats of any length, unless one slips in between a listing of _renumber and its
\* passes.
THEOREM OrderStays == Spec => OrderKept
<1> DEFINE Same == ~slipped' =>
             \A t, u \in DOMAIN rows \cap DOMAIN rows' :
               /\ rows'[t].by = rows[t].by /\ rows'[u].by = rows[u].by
               => (Ordered(t, u) <=> Ordered(t, u)')
<1>1. IInv /\ [Next]_vars => [Same]_vars
  <2> SUFFICES ASSUME IInv, [Next]_vars, ~slipped', NEW t \in DOMAIN rows \cap DOMAIN rows',
                      NEW u \in DOMAIN rows \cap DOMAIN rows',
                      rows'[t].by = rows[t].by, rows'[u].by = rows[u].by
               PROVE  Ordered(t, u) <=> Ordered(t, u)'
    OBVIOUS
  <2>1. Kept BY NextKeeps DEF IInv
  <2>2. QED BY <2>1 DEF Kept, Ordered
<1>2. QED BY <1>1, InitInv, NextInv, PTL DEF Spec, OrderKept

\* No step loses text but what was to go: however many requests overlap and wherever
\* the backend stops, the text on the rows is on them afterwards, or a delete, a reset
\* or a rewrite took it, or a split holds it (merge_turns, split_turn, insert_turn,
\* _renumber). What a split or a join that met another request writes over is exempt.
THEOREM TextStays == Spec => NoTextLost
<1>1. TInv /\ [Next]_vars => TextIn(rows) \subseteq TextIn(rows') \cup loose'
  <2> SUFFICES ASSUME TInv, [Next]_vars PROVE TextIn(rows) \subseteq TextIn(rows') \cup loose'
    OBVIOUS
  <2>1. TextMove BY NextText DEF TInv, IInv
  <2>2. QED BY <2>1 DEF TextMove
<1>2. QED BY <1>1, InitText, NextTextInv, PTL DEF Spec, NoTextLost

\* A request that met no other does what it promises, for chats and texts of any
\* length and whatever other requests and stops left behind: the transcript it found,
\* changed as it was asked, numbered from 0 and committed; refused for a turn that is
\* gone, it leaves the turns as they were (delete_turns, insert_turn, split_turn,
\* merge_turns, reset_working, _renumber).
THEOREM AloneKeepsItsWord == Spec => AloneDoesWhatItSays
<1> DEFINE Inv == TInv /\ Works
<1>1. Init => Inv
  <2>1. ASSUME Init PROVE Works BY <2>1 DEF Init, Works, Active
  <2>2. QED BY <2>1, InitText
<1>2. Inv /\ [Next]_vars => Inv' BY NextTextInv, NextWorks
<1>3. ASSUME Inv, [Next]_vars, NEW r \in Reqs,
             pc[r] # "over", pc'[r] = "over", crashes' = crashes, r \notin met',
             \A t \in DOMAIN was'[r] : was'[r][t].seq >= 0
      PROVE  Delivered(r)
  <2>1. TypeOK /\ Meet BY <1>3 DEF TInv, IInv, Shape
  <2>2. ~Crash BY <1>3, <2>1 DEF Crash, TypeOK
  <2>3. Own(r) \/ Idle(r) BY <1>3, <2>1, <2>2, Solo
  <2>4. Own(r) BY <1>3, <2>3 DEF Idle
  <2>5. Comes(r) BY <1>3, <2>4, OwnComes DEF Untouched
  <2>6. QED BY <1>3, <2>5 DEF Comes
<1> DEFINE Word ==
      \A r \in Reqs :
         /\ pc[r] # "over" /\ pc'[r] = "over" /\ crashes' = crashes
         /\ r \notin met' /\ \A t \in DOMAIN (was'[r]) : was'[r][t].seq >= 0
         => Delivered(r)
<1>4. Inv /\ [Next]_vars => [Word]_vars BY <1>3
<1> HIDE DEF Inv
<1>5. QED BY <1>1, <1>2, <1>4, PTL DEF Spec, AloneDoesWhatItSays, Delivered
=============================================================================
