-------------------------- MODULE SnapshotsProofs --------------------------
(***************************************************************************)
(* Theorems about Snapshots, for any limits and any number of requests.    *)
(***************************************************************************)
EXTENDS Snapshots, FiniteSetTheorems, TLAPS

-----------------------------------------------------------------------------
(* Types. A request's number is its own, and unused until its INSERT.      *)

Numbered ==
    \A w \in Workers :
        /\ mine[w] <= made
        /\ phase[w] \in {"idle", "fold"} => mine[w] = 0
        /\ phase[w] = "insert" => mine[w] # 0 /\ mine[w] \notin Ids(saved)
        /\ mine[w] # 0 => \A v \in Workers \ {w} : mine[v] # mine[w]

Sound == TypeOK /\ Numbered

LEMMA SoundInit == Init => Sound
  BY SnapshotsAssumption DEF Init, Sound, Numbered, TypeOK, Content, Phases, Ops

\* Thinning the list keeps it well formed, and so does forgetting numbers.
LEMMA Thinned ==
    ASSUME Sound, saved' \subseteq saved, made' = made,
           mine' \in [Workers -> 0..MaxMade], phase' \in [Workers -> Phases],
           \A w \in Workers : mine'[w] \in {0, mine[w]},
           \A w \in Workers : phase'[w] \in {"idle", "fold"} => mine'[w] = 0,
           \A w \in Workers : phase'[w] = "insert" => phase[w] = "insert" /\ mine'[w] = mine[w]
    PROVE  /\ saved' \subseteq Snap
           /\ \A s, t \in saved' : s.id = t.id => s = t
           /\ \A s \in saved' : s.id <= made'
           /\ Numbered'
  BY DEF Sound, TypeOK, Numbered, Ids

\* The same without a change of the numbers.
LEMMA Untouched ==
    ASSUME Sound, UNCHANGED <<saved, made, mine>>, phase' \in [Workers -> Phases],
           \A w \in Workers : phase'[w] \in {"idle", "fold"} => mine[w] = 0,
           \A w \in Workers : phase'[w] = "insert" => phase[w] = "insert"
    PROVE  /\ saved' \subseteq Snap
           /\ \A s, t \in saved' : s.id = t.id => s = t
           /\ \A s \in saved' : s.id <= made'
           /\ mine' \in [Workers -> 0..MaxMade]
           /\ Numbered'
<1>1. \A w \in Workers : mine'[w] \in {0, mine[w]} OBVIOUS
<1>2. mine' \in [Workers -> 0..MaxMade] BY DEF Sound, TypeOK
<1> QED BY <1>1, <1>2, Thinned

LEMMA SoundStep == Sound /\ [Next]_vars => Sound'
<1> SUFFICES ASSUME Sound, [Next]_vars PROVE Sound' OBVIOUS
<1> USE SnapshotsAssumption
<1>1. ASSUME NEW i \in Parts, UserEdit(i) PROVE Sound'
  <2>1. TypeOK' BY <1>1 DEF UserEdit, Becomes, Sound, TypeOK, Content, reqVars
  <2>2. Numbered' BY <1>1 DEF UserEdit, Becomes, Sound, Numbered, Ids, reqVars
  <2> QED BY <2>1, <2>2 DEF Sound
<1>2. ASSUME NEW S \in SUBSET saved, Removes(S) PROVE Sound'
  <2>1. mine' \in [Workers -> 0..MaxMade] /\ \A w \in Workers : mine'[w] \in {0, mine[w]}
    BY <1>2 DEF Removes, Left, Sound, TypeOK
  <2>2. \A w \in Workers : phase[w] = "insert" => mine'[w] = mine[w]
    BY <1>2 DEF Removes, Left, Sound, Numbered, Ids
  <2>3. UNCHANGED <<made, phase>> BY <1>2 DEF Removes, reqVars
  <2>4. \A w \in Workers : phase[w] \in {"idle", "fold"} => mine'[w] = 0
    BY <2>1 DEF Sound, Numbered
  <2>5. saved' \subseteq saved /\ phase' \in [Workers -> Phases]
    BY <1>2, <2>3 DEF Removes, Sound, TypeOK
  <2>6. /\ saved' \subseteq Snap
        /\ \A s, t \in saved' : s.id = t.id => s = t
        /\ \A s \in saved' : s.id <= made'
        /\ Numbered'
    BY <2>1, <2>2, <2>3, <2>4, <2>5, Thinned
  <2>7. TypeOK' BY <1>2, <2>1, <2>3, <2>6 DEF Removes, Sound, TypeOK, reqVars, bounds
  <2> QED BY <2>6, <2>7 DEF Sound
<1>3. ASSUME NEW s \in saved, Delete(s) PROVE Sound'
  BY <1>2, <1>3 DEF Delete
<1>4. ASSUME NEW n \in 0..Cap, Clear(n) PROVE Sound'
  BY <1>2, <1>4 DEF Clear, Named
<1>5. ASSUME NEW w \in Workers, NEW o \in Ops, NEW x \in Content, NEW T \in SUBSET Parts,
             Start(w, o, x, T)
      PROVE  Sound'
  <2>1. phase' \in [Workers -> Phases] BY <1>5 DEF Start, Step, Sound, TypeOK, Phases
  <2>2. \A v \in Workers : /\ phase'[v] \in {"idle", "fold"} => mine[v] = 0
                           /\ phase'[v] = "insert" => phase[v] = "insert"
    BY <1>5 DEF Start, Step, Sound, TypeOK, Numbered
  <2>3. UNCHANGED <<saved, made, mine>> BY <1>5 DEF Start, history
  <2>4. /\ saved' \subseteq Snap
        /\ \A s, t \in saved' : s.id = t.id => s = t
        /\ \A s \in saved' : s.id <= made'
        /\ mine' \in [Workers -> 0..MaxMade]
        /\ Numbered'
    BY <2>1, <2>2, <2>3, Untouched
  <2>5. TypeOK' BY <1>5, <2>1, <2>4 DEF Start, Sound, TypeOK, Content, history, bounds
  <2> QED BY <2>4, <2>5 DEF Sound
<1>6. ASSUME NEW w \in Workers, NEW s \in saved, Restore(w, s) PROVE Sound'
  <2>1. s.content \in Content BY DEF Sound, TypeOK, Snap
  <2> QED BY <1>5, <1>6, <2>1 DEF Restore, Ops
<1>7. ASSUME NEW w \in Workers, NEW T \in SUBSET Parts, AllTheirs(w, T) PROVE Sound'
  BY <1>5, <1>7 DEF AllTheirs, Ops, Content
<1>8. ASSUME NEW w \in Workers, Save(w) \/ Backup(w) \/ Commit(w) \/ Reset(w) PROVE Sound'
  BY <1>5, <1>8 DEF Save, Backup, Commit, Reset, Ops, Content
<1>9. ASSUME NEW w \in Workers, Fold(w) PROVE Sound'
  <2>1. mine' \in [Workers -> 0..MaxMade] /\ \A v \in Workers : mine'[v] \in {0, mine[v]}
    BY <1>9 DEF Fold, Left, Sound, TypeOK
  <2>2. \A v \in Workers : phase[v] = "insert" => mine'[v] = mine[v]
    BY <1>9 DEF Fold, Left, Undos, Autos, Sound, Numbered, Ids
  <2>3. /\ phase' = [phase EXCEPT ![w] = "read"] /\ made' = made
        /\ phase' \in [Workers -> Phases]
    BY <1>9 DEF Fold, Step, Sound, TypeOK, Phases
  <2>4. \A v \in Workers : /\ phase'[v] \in {"idle", "fold"} => mine'[v] = 0
                           /\ phase'[v] = "insert" => phase[v] = "insert" /\ mine'[v] = mine[v]
    BY <2>1, <2>2, <2>3 DEF Sound, TypeOK, Numbered
  <2>5. saved' \subseteq saved BY <1>9 DEF Fold
  <2>6. /\ saved' \subseteq Snap
        /\ \A s, t \in saved' : s.id = t.id => s = t
        /\ \A s \in saved' : s.id <= made'
        /\ Numbered'
    BY <2>1, <2>3, <2>4, <2>5, Thinned
  <2>7. TypeOK' BY <1>9, <2>1, <2>3, <2>6 DEF Fold, Sound, TypeOK, bounds
  <2> QED BY <2>6, <2>7 DEF Sound
<1>10. ASSUME NEW w \in Workers, Read(w) PROVE Sound'
  <2>1. made + 1 \in 1..MaxMade /\ made \in Nat /\ made' = made + 1
    BY <1>10 DEF Read, Sound, TypeOK
  <2>2. \A s \in saved : s.id \in Nat /\ s.id <= made BY DEF Sound, TypeOK, Snap
  <2>3. /\ mine' = [mine EXCEPT ![w] = made + 1] /\ phase' = [phase EXCEPT ![w] = "insert"]
        /\ saved' = saved
    BY <1>10 DEF Read, Step
  <2>4. \A v \in Workers : mine[v] \in Nat /\ mine[v] <= made
    BY DEF Sound, TypeOK, Numbered
  <2>5. TypeOK'
    <3>1. \A s \in saved' : s.id <= made' BY <2>1, <2>2, <2>3
    <3>2. mine' \in [Workers -> 0..MaxMade] BY <2>1, <2>3 DEF Sound, TypeOK
    <3>3. phase' \in [Workers -> Phases] BY <2>3 DEF Sound, TypeOK, Phases
    <3> QED BY <1>10, <2>1, <2>3, <3>1, <3>2, <3>3 DEF Read, Sound, TypeOK, bounds
  <2>6. Numbered'
    <3>1. made + 1 \notin Ids(saved) BY <2>1, <2>2 DEF Ids
    <3>2. mine \in [Workers -> 0..MaxMade] /\ phase \in [Workers -> Phases]
      BY DEF Sound, TypeOK
    <3> QED BY <2>1, <2>3, <2>4, <3>1, <3>2 DEF Sound, Numbered, Ids
  <2> QED BY <2>5, <2>6 DEF Sound
<1>11. ASSUME NEW w \in Workers, Insert(w) PROVE Sound'
  <2> DEFINE row == [id |-> mine[w], kind |-> IF op[w] = "save" THEN "user" ELSE "auto",
                     restore |-> op[w] = "restore", content |-> got[w]]
  <2>1. /\ saved' = saved \cup {row} /\ made' = made /\ mine' = mine
        /\ phase' = [phase EXCEPT ![w] = IF row.kind = "auto" THEN "prune" ELSE "cap"]
    BY <1>11 DEF Insert, Step, history
  <2>2. mine[w] \in 1..MaxMade /\ mine[w] <= made /\ \A s \in saved : s.id # mine[w]
    BY <1>11 DEF Insert, Sound, TypeOK, Numbered, Ids
  <2>3. row \in Snap /\ row.id = mine[w] BY <2>2 DEF Sound, TypeOK, Snap
  <2>4. phase' \in [Workers -> Phases] /\ phase'[w] \in {"prune", "cap"}
        /\ \A v \in Workers \ {w} : phase'[v] = phase[v]
    BY <2>1 DEF Sound, TypeOK, Phases
  <2> HIDE DEF row
  <2>5. /\ saved' \subseteq Snap
        /\ \A s, t \in saved' : s.id = t.id => s = t
        /\ \A s \in saved' : s.id <= made'
    BY <2>1, <2>2, <2>3 DEF Sound, TypeOK
  <2>6. TypeOK'
    BY <1>11, <2>1, <2>4, <2>5 DEF Insert, Sound, TypeOK, history, bounds
  <2>7. Numbered'
    <3>1. Ids(saved') = Ids(saved) \cup {mine[w]} BY <2>1, <2>3 DEF Ids
    <3> QED BY <2>1, <2>2, <2>4, <3>1 DEF Sound, Numbered, Ids
  <2> QED BY <2>6, <2>7 DEF Sound
<1>12. ASSUME NEW w \in Workers, Prune(w) PROVE Sound'
  <2>1. saved' \subseteq saved BY <1>12 DEF Prune, Named, Autos, Newest
  <2>2. /\ phase' = [phase EXCEPT ![w] = "cap"] /\ made' = made /\ mine' = mine
        /\ phase' \in [Workers -> Phases]
    BY <1>12 DEF Prune, Step, Sound, TypeOK, Phases
  <2>3. \A v \in Workers : /\ phase'[v] \in {"idle", "fold"} => mine'[v] = 0
                           /\ phase'[v] = "insert" => phase[v] = "insert" /\ mine'[v] = mine[v]
                           /\ mine'[v] \in {0, mine[v]}
    BY <2>2 DEF Sound, TypeOK, Numbered
  <2>4. mine' \in [Workers -> 0..MaxMade] BY <2>2 DEF Sound, TypeOK
  <2>5. /\ saved' \subseteq Snap
        /\ \A s, t \in saved' : s.id = t.id => s = t
        /\ \A s \in saved' : s.id <= made'
        /\ Numbered'
    BY <2>1, <2>2, <2>3, <2>4, Thinned
  <2>6. TypeOK' BY <1>12, <2>2, <2>4, <2>5 DEF Prune, Sound, TypeOK, bounds
  <2> QED BY <2>5, <2>6 DEF Sound
\* A request that returns or goes on leaves everybody else's number alone.
<1>13. ASSUME NEW w \in Workers, Quit(w), Forget(w), made' = made, saved' \subseteq saved,
              cur' \in Content, moved' \in [Workers -> BOOLEAN], cut' = cut, UNCHANGED bounds
       PROVE  Sound'
  <2>1. /\ phase' \in [Workers -> Phases] /\ op' \in [Workers -> Ops]
        /\ mine' \in [Workers -> 0..MaxMade]
    BY <1>13 DEF Quit, Forget, Step, Sound, TypeOK, Phases, Ops
  <2>2. /\ back' \in [Workers -> Content] /\ todo' \in [Workers -> SUBSET Parts]
        /\ got' \in [Workers -> Content]
    BY <1>13 DEF Quit, Sound, TypeOK, Content
  <2>3. \A v \in Workers : /\ phase'[v] \in {"idle", "fold"} => mine'[v] = 0
                           /\ phase'[v] = "insert" => phase[v] = "insert" /\ mine'[v] = mine[v]
                           /\ mine'[v] \in {0, mine[v]}
    BY <1>13 DEF Quit, Forget, Step, Sound, TypeOK, Numbered
  <2>4. /\ saved' \subseteq Snap
        /\ \A s, t \in saved' : s.id = t.id => s = t
        /\ \A s \in saved' : s.id <= made'
        /\ Numbered'
    BY <1>13, <2>1, <2>3, Thinned
  <2>5. TypeOK' BY <1>13, <2>1, <2>2, <2>4 DEF Sound, TypeOK, bounds
  <2> QED BY <2>4, <2>5 DEF Sound
<1>14. ASSUME NEW w \in Workers, NEW to \in {"act", "read"}, Step(w, to),
              phase[w] \in {"cap", "act"}, UNCHANGED <<made, op, back, got, mine, cut, bounds>>,
              saved' \subseteq saved, cur' \in Content, moved' \in [Workers -> BOOLEAN],
              todo' \in [Workers -> SUBSET Parts]
       PROVE  Sound'
  <2>1. phase' \in [Workers -> Phases] /\ mine' \in [Workers -> 0..MaxMade]
    BY <1>14 DEF Step, Sound, TypeOK, Phases
  <2>2. \A v \in Workers : /\ phase'[v] \in {"idle", "fold"} => mine'[v] = 0
                           /\ phase'[v] = "insert" => phase[v] = "insert" /\ mine'[v] = mine[v]
                           /\ mine'[v] \in {0, mine[v]}
    BY <1>14 DEF Step, Sound, TypeOK, Numbered
  <2>3. /\ saved' \subseteq Snap
        /\ \A s, t \in saved' : s.id = t.id => s = t
        /\ \A s \in saved' : s.id <= made'
        /\ Numbered'
    BY <1>14, <2>1, <2>2, Thinned
  <2>4. TypeOK' BY <1>14, <2>1, <2>3 DEF Sound, TypeOK, bounds
  <2> QED BY <2>3, <2>4 DEF Sound
<1>15. ASSUME NEW w \in Workers, Trim(w) PROVE Sound'
  <2>1. saved' \subseteq saved BY <1>15 DEF Trim, Newest
  <2>2. phase[w] = "cap" /\ UNCHANGED <<cur, made, cut, bounds>> BY <1>15 DEF Trim
  <2>3. cur' \in Content BY <2>2 DEF Sound, TypeOK
  <2>4. CASE Quit(w) /\ Forget(w) /\ moved' = [moved EXCEPT ![w] = FALSE]
    <3>1. moved' \in [Workers -> BOOLEAN] BY <2>4 DEF Sound, TypeOK
    <3> QED BY <1>13, <2>1, <2>2, <2>3, <2>4, <3>1
  <2>5. CASE Step(w, "act") /\ UNCHANGED <<op, back, todo, got, mine, moved>>
    <3>1. moved' \in [Workers -> BOOLEAN] /\ todo' \in [Workers -> SUBSET Parts]
      BY <2>5 DEF Sound, TypeOK
    <3> QED BY <1>14, <2>1, <2>2, <2>3, <2>5, <3>1
  <2> QED BY <1>15, <2>4, <2>5 DEF Trim
<1>16. ASSUME NEW w \in Workers, Overwrite(w) PROVE Sound'
  <2>1. ASSUME NEW x \in Content, NEW R \in SUBSET Workers, Becomes(x, R)
        PROVE  cur' \in Content /\ moved' \in [Workers -> BOOLEAN]
    BY <2>1 DEF Becomes
  <2>2. back[w] \in Content /\ todo[w] \subseteq Parts /\ \A i \in Parts : cur \ {i} \in Content
    BY DEF Sound, TypeOK, Content
  <2>3. UNCHANGED <<saved, made, cut, bounds>> /\ saved' \subseteq saved /\ phase[w] = "act"
    BY <1>16 DEF Overwrite
  <2>4. CASE op[w] \in {"reset", "restore"} /\ Becomes(back[w], Workers \ {w})
             /\ Quit(w) /\ Forget(w)
    <3>1. cur' \in Content /\ moved' \in [Workers -> BOOLEAN] BY <2>1, <2>2, <2>4
    <3> QED BY <1>13, <2>3, <2>4, <3>1
  <2>5. ASSUME NEW i \in todo[w], Becomes(cur \ {i}, Workers \ {w}), Quit(w), Forget(w)
        PROVE  Sound'
    <3>1. cur' \in Content /\ moved' \in [Workers -> BOOLEAN] BY <2>1, <2>2, <2>5
    <3> QED BY <1>13, <2>3, <2>5, <3>1
  <2>6. ASSUME NEW i \in todo[w], Becomes(cur \ {i}, Workers), Step(w, "read"),
               todo' = [todo EXCEPT ![w] = @ \ {i}], UNCHANGED <<op, back, got, mine>>
        PROVE  Sound'
    <3>1. cur' \in Content /\ moved' \in [Workers -> BOOLEAN] BY <2>1, <2>2, <2>6
    <3>2. todo' \in [Workers -> SUBSET Parts] BY <2>2, <2>6 DEF Sound, TypeOK
    <3> QED BY <1>14, <2>3, <2>6, <3>1, <3>2
  <2> QED BY <1>16, <2>4, <2>5, <2>6 DEF Overwrite
<1>17. CASE Crash
  <2>1. TypeOK'
    <3>1. IsFiniteSet(Pruning) BY FS_Subset DEF Pruning
    <3>2. cut' \in Nat BY <1>17, <3>1, FS_CardinalityType DEF Crash, Sound, TypeOK
    <3> QED BY <1>17, <3>2 DEF Crash, Sound, TypeOK, Phases, Ops, Content
  <2>2. Numbered' BY <1>17 DEF Crash, Sound, TypeOK, Numbered, Ids
  <2> QED BY <2>1, <2>2 DEF Sound
<1>18. CASE UNCHANGED vars
  BY <1>18 DEF vars, Sound, TypeOK, Numbered, Ids
<1> QED
  BY <1>1, <1>3, <1>4, <1>6, <1>7, <1>8, <1>9, <1>10, <1>11, <1>12, <1>15, <1>16, <1>17, <1>18
  DEF Next, User, Request

\* The type invariant: no row is saved twice, and none is newer than the newest.
THEOREM TypeCorrect == Spec => []TypeOK
  BY SoundInit, SoundStep, PTL DEF Spec, Sound

-----------------------------------------------------------------------------
(* Counting rows. Numbers differ, so rows are as many as their numbers.    *)

\* The rows newer than one are no more than the snapshots begun since.
LEMMA Crowd ==
    ASSUME TypeOK, NEW S \in SUBSET saved, NEW n \in 0..made, \A s \in S : s.id > n
    PROVE  IsFiniteSet(S) /\ Cardinality(S) \in Nat /\ Cardinality(S) <= made - n
<1> DEFINE number == [s \in S |-> s.id]
<1>1. made \in Nat /\ n \in Nat /\ n <= made BY SnapshotsAssumption DEF TypeOK
<1>2. \A s \in S : s.id \in (n + 1)..made BY <1>1 DEF TypeOK, Snap
<1>3. number \in Injection(S, (n + 1)..made)
  BY <1>2 DEF TypeOK, Injection, IsInjective
<1>4. IsFiniteSet((n + 1)..made) /\ Cardinality((n + 1)..made) = made - n
  <2>1. n + 1 \in Int /\ made \in Int BY <1>1
  <2>2. /\ IsFiniteSet((n + 1)..made)
        /\ Cardinality((n + 1)..made) = IF n + 1 > made THEN 0 ELSE made - (n + 1) + 1
    BY <2>1, FS_Interval
  <2> QED BY <1>1, <2>2
<1>5. IsFiniteSet(S) /\ Cardinality(S) <= Cardinality((n + 1)..made)
  BY <1>3, <1>4, FS_Injection
<1> QED BY <1>4, <1>5, FS_CardinalityType

\* The list is finite.
LEMMA Finite ==
    ASSUME TypeOK, NEW S \in SUBSET saved
    PROVE  IsFiniteSet(S) /\ Cardinality(S) \in Nat
<1>1. 0 \in 0..made /\ \A s \in S : s.id > 0 BY SnapshotsAssumption DEF TypeOK, Snap
<1> QED BY <1>1, Crowd

\* LIMIT n leaves no more than n rows: each is told by how many are newer.
LEMMA NewestFew ==
    ASSUME TypeOK, NEW S \in SUBSET saved, NEW n \in Nat
    PROVE  Cardinality(Newest(S, n)) <= n
<1> DEFINE N == Newest(S, n)
           Above(s) == {t \in S : t.id > s.id}
           rank == [s \in N |-> Cardinality(Above(s))]
<1>1. \A s \in S : IsFiniteSet(Above(s)) /\ Cardinality(Above(s)) \in Nat BY Finite
<1>2. \A s \in N : s \in S /\ rank[s] \in 0..(n - 1) BY <1>1 DEF Newest
<1>3. ASSUME NEW s \in S, NEW t \in S, s.id < t.id
      PROVE  Cardinality(Above(s)) # Cardinality(Above(t))
  <2>1. s.id \in Nat /\ t.id \in Nat /\ \A u \in S : u.id \in Nat BY DEF TypeOK, Snap
  <2>2. Above(t) \subseteq Above(s) /\ t \in Above(s) /\ t \notin Above(t) BY <1>3, <2>1
  <2> QED BY <1>1, <2>2, FS_Subset
<1>4. ASSUME NEW s \in N, NEW t \in N, s # t PROVE rank[s] # rank[t]
  <2>1. s \in S /\ t \in S /\ s \in saved /\ t \in saved BY DEF Newest
  <2>2. s.id \in Nat /\ t.id \in Nat /\ s.id # t.id BY <1>4, <2>1 DEF TypeOK, Snap
  <2>3. s.id < t.id \/ t.id < s.id BY <2>2
  <2> QED BY <1>3, <2>1, <2>3
<1>5. rank \in Injection(N, 0..(n - 1)) BY <1>2, <1>4 DEF Injection, IsInjective
<1>6. IsFiniteSet(0..(n - 1)) /\ Cardinality(0..(n - 1)) = n
  <2>1. 0 \in Int /\ n - 1 \in Int OBVIOUS
  <2>2. /\ IsFiniteSet(0..(n - 1))
        /\ Cardinality(0..(n - 1)) = IF 0 > n - 1 THEN 0 ELSE (n - 1) - 0 + 1
    BY <2>1, FS_Interval
  <2> QED BY <2>2
<1>7. Cardinality(N) <= Cardinality(0..(n - 1)) BY <1>5, <1>6, FS_Injection
<1> QED BY <1>6, <1>7

\* What few newer rows there are do not crowd a row out.
LEMMA NotCrowded ==
    ASSUME TypeOK, NEW S \in SUBSET saved, NEW s \in S, NEW n \in Nat, made < s.id + n
    PROVE  s \in Newest(S, n)
<1>1. s.id \in 0..made /\ made \in Nat BY SnapshotsAssumption DEF TypeOK, Snap
<1>2. {t \in S : t.id > s.id} \in SUBSET saved OBVIOUS
<1>3. /\ Cardinality({t \in S : t.id > s.id}) \in Nat
      /\ Cardinality({t \in S : t.id > s.id}) <= made - s.id
  BY <1>1, <1>2, Crowd
<1> QED BY <1>1, <1>3 DEF Newest

-----------------------------------------------------------------------------
(* What is overwritten is saved.                                           *)

Recent(w) == made < mine[w] + Keep /\ made < mine[w] + Cap

\* The row of a request holds what was read, and what was read is the working
\* copy unless that is noted.
Held ==
    \A w \in Workers : mine[w] # 0 /\ ~moved[w] =>
        IF phase[w] = "insert" THEN got[w] = cur
        ELSE Recent(w) => \E s \in saved : s.id = mine[w] /\ s.content = cur

\* Only a restore's own row is the backup of a restore.
Own == \A w \in Workers : \A s \in saved : s.id = mine[w] /\ s.restore => op[w] = "restore"

Safe == Held /\ Own

LEMMA SafeInit == Init => Safe
  BY DEF Init, Safe, Held, Own

\* A step of w that changes neither the list nor the working copy nor what is
\* noted, and does not come from or lead to an INSERT.
LEMMA Elsewhere ==
    ASSUME Sound, Safe, NEW w \in Workers,
           UNCHANGED <<cur, saved, made, got, mine, moved>>,
           \A v \in Workers : phase'[v] = "insert" <=> phase[v] = "insert",
           \A v \in Workers \ {w} : op'[v] = op[v], mine[w] # 0 => op'[w] = op[w]
    PROVE  Safe'
<1>1. Held' BY DEF Safe, Held, Recent
<1>2. Own' BY DEF Safe, Own, Sound, TypeOK, Snap
<1> QED BY <1>1, <1>2 DEF Safe

\* Rows go, but none that a request counts on.
LEMMA Thinning ==
    ASSUME Sound, Safe, saved' \subseteq saved, UNCHANGED <<cur, made, got, moved, op>>,
           mine' \in [Workers -> 0..MaxMade],
           \A v \in Workers : mine'[v] \in {0, mine[v]},
           \A v \in Workers : phase'[v] = "insert" <=> phase[v] = "insert",
           \A v \in Workers : \A s \in saved :
              s.id = mine'[v] /\ Recent(v) => s \in saved'
    PROVE  Safe'
<1>1. Held'
  <2> SUFFICES ASSUME NEW v \in Workers, mine'[v] # 0, ~moved[v]
               PROVE  IF phase[v] = "insert" THEN got[v] = cur
                      ELSE Recent(v)' => \E s \in saved' : s.id = mine'[v] /\ s.content = cur
    BY DEF Held
  <2>1. mine'[v] = mine[v] /\ Recent(v)' = Recent(v) BY DEF Recent
  <2> QED BY <2>1 DEF Safe, Held
<1>2. Own' BY DEF Safe, Own, Sound, TypeOK, Snap
<1> QED BY <1>1, <1>2 DEF Safe

\* Every change of the working copy is noted.
LEMMA Noted ==
    ASSUME Sound, Safe, NEW R \in SUBSET Workers, NEW x, Becomes(x, R),
           UNCHANGED <<saved, made>>,
           \A v \in Workers : mine'[v] \in {0, mine[v]},
           \A v \in Workers \ R : mine'[v] = 0,
           \A v \in Workers : mine'[v] # 0 => (got'[v] = got[v] /\ op'[v] = op[v]),
           \A v \in Workers : phase'[v] = "insert" <=> phase[v] = "insert"
    PROVE  Safe'
<1>1. Held'
  <2> SUFFICES ASSUME NEW v \in Workers, mine'[v] # 0, ~moved'[v]
               PROVE  IF phase[v] = "insert" THEN got[v] = cur'
                      ELSE Recent(v)' => \E s \in saved : s.id = mine'[v] /\ s.content = cur'
    BY DEF Held
  <2>1. mine'[v] = mine[v] /\ v \in R OBVIOUS
  <2>2. ~moved[v] /\ cur' = cur BY <2>1 DEF Becomes
  <2> QED BY <2>1, <2>2 DEF Safe, Held, Recent
<1>2. Own' BY DEF Safe, Own, Sound, TypeOK, Snap
<1> QED BY <1>1, <1>2 DEF Safe

LEMMA SafeStep == Sound /\ Safe /\ [Next]_vars => Safe'
<1> SUFFICES ASSUME Sound, Safe, [Next]_vars PROVE Safe' OBVIOUS
<1> USE SnapshotsAssumption
<1>1. ASSUME NEW i \in Parts, UserEdit(i) PROVE Safe'
  <2>1. Becomes(cur \cup {i}, Workers) /\ UNCHANGED <<saved, made, reqVars, mine>>
    BY <1>1 DEF UserEdit
  <2>2. \A v \in Workers : mine'[v] \in {0, mine[v]} BY <2>1
  <2> QED BY <2>1, <2>2, Noted DEF reqVars
<1>2. ASSUME NEW S \in SUBSET saved, Removes(S) PROVE Safe'
  <2>1. mine' = [w \in Workers |-> Left(mine[w], S)] /\ saved' = saved \ S
        /\ UNCHANGED <<cur, made, got, moved, op, phase>>
    BY <1>2 DEF Removes, reqVars
  <2>2. mine' \in [Workers -> 0..MaxMade] /\ \A v \in Workers : mine'[v] \in {0, mine[v]}
    BY <2>1 DEF Left, Sound, TypeOK
  <2>3. \A v \in Workers : \A s \in saved : s.id = mine'[v] => s \in saved'
    BY <2>1 DEF Left, Ids, Sound, TypeOK, Snap
  <2> QED BY <2>1, <2>2, <2>3, Thinning
<1>3. ASSUME NEW s \in saved, Delete(s) PROVE Safe'
  BY <1>2, <1>3 DEF Delete
<1>4. ASSUME NEW n \in 0..Cap, Clear(n) PROVE Safe'
  BY <1>2, <1>4 DEF Clear, Named
<1>5. ASSUME NEW w \in Workers, NEW o, NEW x, NEW T, Start(w, o, x, T) PROVE Safe'
  <2>1. mine[w] = 0 BY <1>5 DEF Start, Sound, Numbered
  <2>2. \A v \in Workers : phase'[v] = "insert" <=> phase[v] = "insert"
    BY <1>5 DEF Start, Step, Sound, TypeOK
  <2>3. \A v \in Workers \ {w} : op'[v] = op[v] BY <1>5 DEF Start, Sound, TypeOK
  <2>4. UNCHANGED <<cur, saved, made, got, mine, moved>> BY <1>5 DEF Start, history
  <2> QED BY <2>1, <2>2, <2>3, <2>4, Elsewhere
<1>6. ASSUME NEW w \in Workers,
             \/ Save(w) \/ Backup(w) \/ Commit(w) \/ Reset(w)
             \/ \E s \in saved : Restore(w, s)
             \/ \E T \in SUBSET Parts : AllTheirs(w, T)
      PROVE  Safe'
  BY <1>5, <1>6 DEF Save, Backup, Commit, Reset, Restore, AllTheirs
\* A restore folds only the backups of restores.
<1>7. ASSUME NEW w \in Workers, Fold(w) PROVE Safe'
  <2>1. /\ mine' = [v \in Workers |-> IF op[v] = "restore" THEN Left(mine[v], Undos) ELSE mine[v]]
        /\ saved' = saved \ Undos /\ UNCHANGED <<cur, made, got, moved, op>>
        /\ phase' = [phase EXCEPT ![w] = "read"] /\ phase[w] = "fold"
    BY <1>7 DEF Fold, Step
  <2>2. mine' \in [Workers -> 0..MaxMade] /\ \A v \in Workers : mine'[v] \in {0, mine[v]}
    BY <2>1 DEF Left, Sound, TypeOK
  <2>3. ASSUME NEW v \in Workers, NEW s \in saved, s.id = mine'[v] PROVE s \in saved'
    <3>1. mine'[v] = mine[v] /\ s.id # 0 BY <2>2, <2>3 DEF Sound, TypeOK, Snap
    <3>2. CASE op[v] = "restore" BY <2>1, <2>3, <3>1, <3>2 DEF Left, Ids
    <3>3. CASE op[v] # "restore" BY <2>1, <2>3, <3>1, <3>3 DEF Safe, Own, Undos
    <3> QED BY <3>2, <3>3
  <2>4. \A v \in Workers : phase'[v] = "insert" <=> phase[v] = "insert"
    BY <2>1 DEF Sound, TypeOK
  <2> QED BY <2>1, <2>2, <2>3, <2>4, Thinning
<1>8. ASSUME NEW w \in Workers, Read(w) PROVE Safe'
  <2>1. /\ made' = made + 1 /\ mine' = [mine EXCEPT ![w] = made + 1]
        /\ moved' = [moved EXCEPT ![w] = FALSE] /\ got' = [got EXCEPT ![w] = cur]
        /\ phase' = [phase EXCEPT ![w] = "insert"] /\ UNCHANGED <<cur, saved, op>>
    BY <1>8 DEF Read, Step
  <2>2. made \in Nat /\ \A v \in Workers : mine[v] \in Nat BY DEF Sound, TypeOK
  <2>3. /\ phase' \in [Workers -> Phases] /\ phase'[w] = "insert" /\ got'[w] = cur
        /\ mine'[w] = made + 1
        /\ \A v \in Workers \ {w} : /\ mine'[v] = mine[v] /\ moved'[v] = moved[v]
                                     /\ got'[v] = got[v] /\ phase'[v] = phase[v]
    BY <2>1 DEF Sound, TypeOK, Phases
  <2>4. \A v \in Workers \ {w} : Recent(v)' => Recent(v) BY <2>1, <2>2, <2>3 DEF Recent
  <2>5. Held' BY <2>1, <2>3, <2>4 DEF Safe, Held
  <2>6. \A s \in saved : s.id # made + 1 BY <2>2 DEF Sound, TypeOK, Snap
  <2>7. Own' BY <2>1, <2>3, <2>6 DEF Safe, Own
  <2> QED BY <2>5, <2>7 DEF Safe
<1>9. ASSUME NEW w \in Workers, Insert(w) PROVE Safe'
  <2> DEFINE row == [id |-> mine[w], kind |-> IF op[w] = "save" THEN "user" ELSE "auto",
                     restore |-> op[w] = "restore", content |-> got[w]]
  <2>1. /\ saved' = saved \cup {row} /\ UNCHANGED <<cur, made, op, got, mine, moved>>
        /\ phase' = [phase EXCEPT ![w] = IF row.kind = "auto" THEN "prune" ELSE "cap"]
        /\ phase[w] = "insert"
    BY <1>9 DEF Insert, Step, history
  <2>2. row.id = mine[w] /\ row.content = got[w] /\ (row.restore => op[w] = "restore")
    OBVIOUS
  <2>3. \A v \in Workers \ {w} : mine[v] # mine[w] BY <2>1 DEF Sound, Numbered
  <2>4. phase'[w] # "insert" /\ \A v \in Workers \ {w} : phase'[v] = phase[v]
    BY <2>1 DEF Sound, TypeOK
  <2> HIDE DEF row
  <2>5. Held' BY <2>1, <2>2, <2>4 DEF Safe, Held, Recent
  <2>6. Own' BY <2>1, <2>2, <2>3 DEF Safe, Own
  <2> QED BY <2>5, <2>6 DEF Safe
\* Neither limit takes a row that has few newer ones.
<1>10. ASSUME NEW v \in Workers, NEW s \in saved, s.id = mine[v], Recent(v)
       PROVE  /\ s \in Newest(saved, Cap)
              /\ s \in Named(saved) \cup Newest(Autos(saved), Keep)
  <2>1. s \in Newest(saved, Cap) BY <1>10, NotCrowded DEF Sound, Recent
  <2>2. CASE s.kind = "user" BY <2>1, <2>2 DEF Named
  <2>3. CASE s.kind = "auto"
    <3>1. s \in Autos(saved) /\ Autos(saved) \in SUBSET saved BY <2>3 DEF Autos
    <3> QED BY <1>10, <2>1, <3>1, NotCrowded DEF Sound, Recent
  <2> QED BY <2>2, <2>3 DEF Sound, TypeOK, Snap
<1>11. ASSUME NEW w \in Workers, Prune(w) PROVE Safe'
  <2>1. /\ saved' = Named(saved) \cup Newest(Autos(saved), Keep)
        /\ UNCHANGED <<cur, made, got, mine, moved, op>>
        /\ phase' = [phase EXCEPT ![w] = "cap"] /\ phase[w] = "prune"
    BY <1>11 DEF Prune, Step
  <2>2. saved' \subseteq saved BY <2>1 DEF Named, Autos, Newest
  <2>3. mine' \in [Workers -> 0..MaxMade] /\ \A v \in Workers : mine'[v] \in {0, mine[v]}
    BY <2>1 DEF Sound, TypeOK
  <2>4. \A v \in Workers : phase'[v] = "insert" <=> phase[v] = "insert"
    BY <2>1 DEF Sound, TypeOK
  <2> QED BY <1>10, <2>1, <2>2, <2>3, <2>4, Thinning
<1>12. ASSUME NEW w \in Workers, Trim(w) PROVE Safe'
  <2>1. saved' = Newest(saved, Cap) /\ saved' \subseteq saved /\ UNCHANGED <<cur, made>>
        /\ phase[w] = "cap"
    BY <1>12 DEF Trim, Newest
  <2>2. CASE Step(w, "act") /\ UNCHANGED <<op, back, todo, got, mine, moved>>
    <3>1. mine' \in [Workers -> 0..MaxMade] /\ \A v \in Workers : mine'[v] \in {0, mine[v]}
      BY <2>2 DEF Sound, TypeOK
    <3>2. \A v \in Workers : phase'[v] = "insert" <=> phase[v] = "insert"
      BY <2>1, <2>2 DEF Step, Sound, TypeOK
    <3> QED BY <1>10, <2>1, <2>2, <3>1, <3>2, Thinning
  <2>3. CASE Quit(w) /\ Forget(w) /\ moved' = [moved EXCEPT ![w] = FALSE]
    <3>1. \A v \in Workers \ {w} : /\ mine'[v] = mine[v] /\ moved'[v] = moved[v]
                                   /\ got'[v] = got[v] /\ op'[v] = op[v] /\ phase'[v] = phase[v]
      BY <2>3 DEF Quit, Forget, Step, Sound, TypeOK
    <3>2. mine'[w] = 0 BY <2>3 DEF Forget, Sound, TypeOK
    <3>3. Held' BY <1>10, <2>1, <3>1, <3>2 DEF Safe, Held, Recent
    <3>4. Own' BY <2>1, <3>1, <3>2 DEF Safe, Own, Sound, TypeOK, Snap
    <3> QED BY <3>3, <3>4 DEF Safe
  <2> QED BY <1>12, <2>2, <2>3 DEF Trim
<1>13. ASSUME NEW w \in Workers, Overwrite(w) PROVE Safe'
  <2>1. UNCHANGED <<saved, made>> /\ phase[w] = "act" BY <1>13 DEF Overwrite
  <2>2. ASSUME NEW x, Becomes(x, Workers \ {w}), Quit(w), Forget(w) PROVE Safe'
    <3>1. \A v \in Workers \ {w} : /\ mine'[v] = mine[v] /\ got'[v] = got[v]
                                   /\ op'[v] = op[v] /\ phase'[v] = phase[v]
      BY <2>2 DEF Quit, Forget, Step, Sound, TypeOK
    <3>2. mine'[w] = 0 /\ phase'[w] = "idle"
      BY <2>2 DEF Quit, Step, Forget, Sound, TypeOK
    <3> QED BY <2>1, <2>2, <3>1, <3>2, Noted
  <2>3. ASSUME NEW i \in todo[w], Becomes(cur \ {i}, Workers), Step(w, "read"),
               UNCHANGED <<op, back, got, mine>>
        PROVE  Safe'
    <3>1. \A v \in Workers : phase'[v] = "insert" <=> phase[v] = "insert"
      BY <2>1, <2>3 DEF Step, Sound, TypeOK
    <3>2. \A v \in Workers : mine'[v] \in {0, mine[v]} BY <2>3
    <3> QED BY <2>1, <2>3, <3>1, <3>2, Noted
  <2> QED BY <1>13, <2>2, <2>3 DEF Overwrite
<1>14. CASE Crash BY <1>14 DEF Crash, Safe, Held, Own, Sound, TypeOK, Snap
<1>15. CASE UNCHANGED vars BY <1>15 DEF vars, Safe, Held, Own, Recent
<1> QED
  BY <1>1, <1>3, <1>4, <1>6, <1>7, <1>8, <1>9, <1>11, <1>12, <1>13, <1>14, <1>15
  DEF Next, User, Request

\* What an overwriting request is about to write over is in the list, whatever
\* other requests save, prune, fold and overwrite in between.
THEOREM OverwritesSaved == Spec => []OverwritesAreSaved
<1>1. Sound /\ Safe => OverwritesAreSaved
  BY DEF Safe, Held, Recent, OverwritesAreSaved
<1> QED BY <1>1, SoundInit, SoundStep, SafeInit, SafeStep, PTL DEF Spec

-----------------------------------------------------------------------------
(* Named versions. Automatic rows above their limit are each accounted for: *)
(* by a request that will prune, or one that a restart kept from it.        *)

Few == Cardinality(Autos(saved)) <= Keep + Cardinality(Pruning) + cut

LEMMA FewInit == Init => Few
<1> SUFFICES ASSUME Init PROVE Few OBVIOUS
<1>1. Autos(saved) = {} /\ Pruning = {} /\ cut = 0 BY DEF Init, Autos, Pruning
<1> QED BY <1>1, FS_EmptySet, SnapshotsAssumption DEF Few

LEMMA Counts ==
    ASSUME Sound
    PROVE  /\ IsFiniteSet(Autos(saved)) /\ Cardinality(Autos(saved)) \in Nat
           /\ IsFiniteSet(Pruning) /\ Cardinality(Pruning) \in Nat
           /\ Keep \in Nat /\ cut \in Nat
<1>1. Autos(saved) \in SUBSET saved BY DEF Autos
<1>2. IsFiniteSet(Pruning) BY FS_Subset, SnapshotsAssumption DEF Pruning
<1> QED BY <1>1, <1>2, Finite, FS_CardinalityType, SnapshotsAssumption DEF Sound, TypeOK

\* No more automatic rows, and no fewer requests that will prune.
LEMMA FewStays ==
    ASSUME Sound, Few, Autos(saved') \subseteq Autos(saved), Pruning \subseteq Pruning',
           IsFiniteSet(Pruning'), cut' = cut
    PROVE  Few'
<1>1. /\ Cardinality(Autos(saved')) <= Cardinality(Autos(saved))
      /\ Cardinality(Autos(saved')) \in Nat
  BY Counts, FS_Subset, FS_CardinalityType
<1>2. Cardinality(Pruning) <= Cardinality(Pruning') /\ Cardinality(Pruning') \in Nat
  BY FS_Subset, FS_CardinalityType
<1> QED BY <1>1, <1>2, Counts DEF Few

LEMMA FewStep == Sound /\ Few /\ [Next]_vars => Few'
<1> SUFFICES ASSUME Sound, Few, [Next]_vars PROVE Few' OBVIOUS
<1> USE SnapshotsAssumption
<1>0. IsFiniteSet(Pruning') BY FS_Subset DEF Pruning
<1>1. ASSUME saved' \subseteq saved, phase' = phase, cut' = cut PROVE Few'
  <2>1. Autos(saved') \subseteq Autos(saved) /\ Pruning' = Pruning BY <1>1 DEF Autos, Pruning
  <2> QED BY <1>0, <1>1, <2>1, FewStays
<1>2. CASE User BY <1>1, <1>2 DEF User, UserEdit, Delete, Clear, Removes, reqVars
<1>3. ASSUME NEW w \in Workers, NEW to \in Phases, phase' = [phase EXCEPT ![w] = to],
             saved' \subseteq saved, cut' = cut, phase[w] # "prune"
      PROVE  Few'
  <2>1. Autos(saved') \subseteq Autos(saved) BY <1>3 DEF Autos
  <2>2. Pruning \subseteq Pruning' BY <1>3 DEF Pruning, Sound, TypeOK
  <2> QED BY <1>0, <1>3, <2>1, <2>2, FewStays
<1>4. ASSUME NEW w \in Workers,
             \/ Save(w) \/ Backup(w) \/ Commit(w) \/ Reset(w)
             \/ \E s \in saved : Restore(w, s)
             \/ \E T \in SUBSET Parts : AllTheirs(w, T)
      PROVE  Few'
  <2>1. \A o, x, T : Start(w, o, x, T) => Few'
    BY <1>3 DEF Start, Step, Phases, history
  <2> QED BY <1>4, <2>1 DEF Save, Backup, Commit, Reset, Restore, AllTheirs
<1>5. ASSUME NEW w \in Workers, Fold(w) \/ Read(w) PROVE Few'
  BY <1>3, <1>5 DEF Fold, Read, Step, Phases
\* An INSERT adds one row, and one request that will prune.
<1>6. ASSUME NEW w \in Workers, Insert(w) PROVE Few'
  <2> DEFINE row == [id |-> mine[w], kind |-> IF op[w] = "save" THEN "user" ELSE "auto",
                     restore |-> op[w] = "restore", content |-> got[w]]
  <2>1. /\ saved' = saved \cup {row} /\ cut' = cut /\ phase[w] = "insert"
        /\ phase' = [phase EXCEPT ![w] = IF row.kind = "auto" THEN "prune" ELSE "cap"]
    BY <1>6 DEF Insert, Step, history
  <2> HIDE DEF row
  <2>2. CASE row.kind # "auto"
    <3>1. Autos(saved') \subseteq Autos(saved) BY <2>1, <2>2 DEF Autos
    <3>2. Pruning \subseteq Pruning' BY <2>1 DEF Pruning, Sound, TypeOK
    <3> QED BY <1>0, <2>1, <3>1, <3>2, FewStays
  <2>3. CASE row.kind = "auto"
    <3>1. Autos(saved') = Autos(saved) \cup {row} BY <2>1, <2>3 DEF Autos
    <3>2. Pruning' = Pruning \cup {w} /\ w \notin Pruning
      BY <2>1, <2>3 DEF Pruning, Sound, TypeOK
    <3>3. /\ Cardinality(Autos(saved')) \in Nat
          /\ Cardinality(Autos(saved')) <= Cardinality(Autos(saved)) + 1
      <4>1. /\ IsFiniteSet(Autos(saved) \cup {row})
            /\ Cardinality(Autos(saved) \cup {row})
                 = IF row \in Autos(saved) THEN Cardinality(Autos(saved))
                   ELSE Cardinality(Autos(saved)) + 1
        BY Counts, FS_AddElement
      <4> QED BY <3>1, <4>1, Counts
    <3>4. Cardinality(Pruning') = Cardinality(Pruning) + 1 BY <3>2, Counts, FS_AddElement
    <3> QED BY <2>1, <3>3, <3>4, Counts DEF Few
  <2> QED BY <2>2, <2>3
\* A pruning makes good for all.
<1>7. ASSUME NEW w \in Workers, Prune(w) PROVE Few'
  <2>1. saved' = Named(saved) \cup Newest(Autos(saved), Keep) /\ cut' = 0
    BY <1>7 DEF Prune
  <2>2. Autos(saved') = Newest(Autos(saved), Keep) BY <2>1 DEF Named, Autos, Newest
  <2>3. Autos(saved) \in SUBSET saved BY DEF Autos
  <2>4. Cardinality(Autos(saved')) <= Keep BY <2>2, <2>3, NewestFew DEF Sound
  <2>5. Autos(saved') \in SUBSET saved BY <2>2, <2>3 DEF Newest
  <2>6. Cardinality(Autos(saved')) \in Nat BY <2>5, Finite DEF Sound
  <2>7. Cardinality(Pruning') \in Nat BY <1>0, FS_CardinalityType
  <2> QED BY <2>1, <2>4, <2>6, <2>7 DEF Few
<1>8. ASSUME NEW w \in Workers, Trim(w) PROVE Few'
  <2>1. saved' \subseteq saved /\ cut' = cut /\ phase[w] = "cap" BY <1>8 DEF Trim, Newest
  <2>2. \E to \in Phases : phase' = [phase EXCEPT ![w] = to]
    BY <1>8 DEF Trim, Quit, Step, Phases
  <2> QED BY <1>3, <2>1, <2>2
<1>9. ASSUME NEW w \in Workers, Overwrite(w) PROVE Few'
  <2>1. saved' = saved /\ cut' = cut /\ phase[w] = "act" BY <1>9 DEF Overwrite
  <2>2. \E to \in Phases : phase' = [phase EXCEPT ![w] = to]
    BY <1>9 DEF Overwrite, Quit, Step, Phases
  <2> QED BY <1>3, <2>1, <2>2
\* A restart leaves the rows of those it stopped.
<1>10. CASE Crash
  <2>1. saved' = saved /\ cut' = cut + Cardinality(Pruning) /\ Pruning' = {}
    BY <1>10 DEF Crash, Pruning
  <2>2. Cardinality(Pruning') = 0 BY <2>1, FS_EmptySet
  <2> QED BY <2>1, <2>2, Counts DEF Few
<1>11. CASE UNCHANGED vars BY <1>1, <1>11 DEF vars
<1> QED
  BY <1>2, <1>4, <1>5, <1>6, <1>7, <1>8, <1>9, <1>10, <1>11 DEF Next, Request

\* A named version the cap drops has enough newer named ones: the automatic
\* rows take their own share of the list and what is still to be pruned.
LEMMA DropsNamed ==
    ASSUME Sound, Few, [Next]_vars, NEW s \in Named(saved) \ saved', ~User
    PROVE  Cardinality({t \in Named(saved) : t.id > s.id})
               + Keep + Cardinality(Pruning) + cut >= Cap
<1> DEFINE A == {t \in saved : t.id > s.id}
           N == {t \in Named(saved) : t.id > s.id}
<1>1. s \in saved /\ s.kind = "user" BY DEF Named
<1>2. PICK w \in Workers : Trim(w)
  <2>1. ASSUME NEW w \in Workers, Request(w) PROVE Trim(w)
    <3>1. CASE Fold(w) BY <1>1, <3>1 DEF Fold, Undos, Autos
    <3>2. CASE Prune(w) BY <1>1, <3>2 DEF Prune, Named
    <3>3. CASE Insert(w) BY <1>1, <3>3 DEF Insert
    <3> QED
      BY <1>1, <2>1, <3>1, <3>2, <3>3
      DEF Request, Save, Backup, Commit, Reset, Restore, AllTheirs, Start, Read, Overwrite
  <2> QED BY <1>1, <2>1 DEF Next, Crash, vars
<1>3. ~(Cardinality(A) < Cap) BY <1>1, <1>2 DEF Trim, Newest
<1>4. /\ IsFiniteSet(A) /\ Cardinality(A) \in Nat
      /\ IsFiniteSet(N) /\ Cardinality(N) \in Nat
  <2>1. A \in SUBSET saved /\ N \in SUBSET saved BY DEF Named
  <2> QED BY <2>1, Finite DEF Sound
<1>5. A \subseteq N \cup Autos(saved) BY DEF Named, Autos, Sound, TypeOK, Snap
<1>6. /\ IsFiniteSet(N \cup Autos(saved))
      /\ Cardinality(N \cup Autos(saved)) <= Cardinality(N) + Cardinality(Autos(saved))
  <2>1. /\ IsFiniteSet(N \cup Autos(saved))
        /\ Cardinality(N \cup Autos(saved))
             = Cardinality(N) + Cardinality(Autos(saved)) - Cardinality(N \cap Autos(saved))
    BY <1>4, Counts, FS_Union
  <2>2. Cardinality(N \cap Autos(saved)) \in Nat BY <1>4, FS_Intersection, FS_CardinalityType
  <2> QED BY <1>4, <2>1, <2>2, Counts
<1>7. Cardinality(A) <= Cardinality(N \cup Autos(saved)) BY <1>5, <1>6, FS_Subset
<1>8. Cardinality(N \cup Autos(saved)) \in Nat BY <1>6, FS_CardinalityType
<1> HIDE DEF A, N
<1>9. Cardinality(N) + Keep + Cardinality(Pruning) + cut >= Cap
  BY <1>3, <1>4, <1>6, <1>7, <1>8, Counts, SnapshotsAssumption DEF Few
<1> QED BY <1>9 DEF N

\* Automatic backups never crowd out more versions than their share.
THEOREM NamedVersionsKept == Spec => VersionsKept
<1>1. Sound /\ Few /\ [Next]_vars =>
        \A s \in Named(saved) \ saved' :
          User \/ Cardinality({t \in Named(saved) : t.id > s.id})
                    + Keep + Cardinality(Pruning) + cut >= Cap
  BY DropsNamed
<1> QED BY <1>1, SoundInit, SoundStep, FewInit, FewStep, PTL DEF Spec, VersionsKept
=============================================================================
