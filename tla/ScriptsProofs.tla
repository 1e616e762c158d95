--------------------------- MODULE ScriptsProofs ---------------------------
(***************************************************************************)
(* Theorems of Scripts, for any number of runs, chats and lines.           *)
(***************************************************************************)
EXTENDS Scripts, TLAPS

-----------------------------------------------------------------------------
(* The inductive invariant, one part per question.                         *)

\* Where the tool is says how far its process and its harvest are.
Placed(r) ==
    /\ at[r] \in {"idle", "building", "stamping", "ready", "coded", "raised"} => proc[r] = "none"
    /\ at[r] \in {"harvests", "read", "staging", "done"} => proc[r] = "dead"
    /\ at[r] \in {"spawned", "waits", "lost"} \/ proc[r] \in {"none", "dead"}
    /\ at[r] \notin {"read", "staging"} => lines[r] = {}
    /\ proc[r] \in {"none", "boot"} => wrote[r] = 0 /\ runs[r] = Nobody
    /\ proc[r] = "none" => ~seen[r].there

\* A run that has met nobody is the only one there is.
Lone(r) == r \in Active /\ r \notin met => Active = {r}

\* The code file is still its own when its process reads it.
Own(r) ==
    r \notin met =>
        /\ at[r] = "coded" \/ proc[r] = "boot" => code = r
        /\ runs[r] \in {r, Nobody}
        /\ at[r] # "raised"

\* The snapshot is never older than its stamp, nor than what was there when a
\* run that is going to read it began.
Fresh(r) ==
    /\ asked[r] <= data /\ mark[r] <= data
    /\ at[r] \in {"building", "stamping"} => mark[r] = asked[r]
    /\ at[r] \in {"stamping", "ready", "coded"} \/ proc[r] = "boot" =>
           /\ scope.there => scope.rows >= asked[r]
           /\ r \notin met => scope.there
    /\ r \notin met /\ at[r] = "building" => ~scope.there
    /\ seen[r].there => seen[r].rows >= asked[r]
    /\ r \notin met /\ runs[r] # Nobody => seen[r].there

Stamped ==
    /\ scope.rows <= data
    /\ \A n \in stamp : n <= data /\ (scope.there => scope.rows >= n)

\* A line that is held, in hand or as a proposal, has left the spool unless its
\* reader is about to remove the file; two that hold it have met.
Holds(l, r) == l \in lines[r] \/ <<l, r>> \in staged
Real        == \A l \in Written, r \in Runs : l \in spool \/ Holds(l, r) => l[2] <= wrote[l[1]]
Gone(l, r)  ==
    /\ <<l, r>> \in staged => l \notin spool /\ at[r] \in {"staging", "done", "lost"}
    /\ at[r] = "staging" /\ l \in lines[r] => l \notin spool
Once(l)     == \A q, r \in Runs : q # r /\ Holds(l, q) /\ Holds(l, r) => {q, r} \subseteq met
Chat        == \A l \in Written, r \in Runs : <<l, r>> \in staged => chat[l[1]] = chat[r]
Held        == \A l \in Written : Once(l) /\ \A r \in Runs : Gone(l, r)

\* Where the lines of a run that met nobody are.
Landed(r) ==
    r \notin met => \A n \in 1..wrote[r] :
        /\ at[r] \in {"spawned", "waits", "harvests"} => <<r, n>> \in spool
        /\ at[r] = "read" => <<r, n>> \in lines[r]
        /\ at[r] = "staging" => Holds(<<r, n>>, r)
        /\ at[r] = "done" => <<<<r, n>>, r>> \in staged

IInv == /\ TypeOK /\ Stamped /\ Real /\ Held /\ Chat
        /\ \A r \in Runs : Placed(r) /\ Lone(r) /\ Own(r) /\ Fresh(r) /\ Landed(r)

LEMMA IInvInit == Init => IInv
<1> SUFFICES ASSUME Init PROVE IInv OBVIOUS
<1> USE ScriptsAssumption DEF Init, Absent
<1>1. TypeOK BY DEF TypeOK, Views, Places
<1>2. Stamped /\ Real /\ Held /\ Chat
  BY DEF Stamped, Real, Held, Chat, Holds, Once, Gone
<1>3. \A r \in Runs : Placed(r) /\ Lone(r) /\ Own(r) /\ Landed(r)
  BY DEF Placed, Lone, Own, Landed, Active, Alive, Over
<1>4. \A r \in Runs : Fresh(r) BY DEF Fresh
<1> QED BY <1>1, <1>2, <1>3, <1>4 DEF IInv

-----------------------------------------------------------------------------
(* Every step preserves each part.                                         *)

LEMMA TypeStep == ASSUME IInv, [Next]_vars PROVE TypeOK'
<1> USE ScriptsAssumption
    DEF IInv, TypeOK, Goes, Alive, Places, Over, Views, Absent, Written, tool, process, files, history
<1>1. ASSUME Edit PROVE TypeOK'
  BY <1>1 DEF Edit
<1>2. ASSUME NEW k \in Chats, Abort(k) PROVE TypeOK'
  BY <1>2 DEF Abort
<1>3. CASE Crash
  BY <1>3 DEF Crash
<1>4. ASSUME NEW r \in Runs, Look(r) PROVE TypeOK'
  <2>1. data \in 0..MaxEdits BY DEF IInv, TypeOK
  <2>2. met' \subseteq Runs BY <1>4 DEF Look, Active, IInv, TypeOK
  <2>3. Absent \in Views BY DEF Absent, Views
  <2>4. CASE scope.there /\ stamp = {data}
    <3>1. mark' = mark /\ scope' = scope /\ at' = [at EXCEPT ![r] = "ready"] BY <1>4, <2>4 DEF Look
    <3>2. asked' \in [Runs -> 0..MaxEdits] BY <1>4, <2>1 DEF Look
    <3> QED BY <1>4, <2>2, <3>1, <3>2 DEF Look
  <2>5. CASE ~(scope.there /\ stamp = {data})
    <3>1. /\ mark' = [mark EXCEPT ![r] = data] /\ scope' = Absent
          /\ at' = [at EXCEPT ![r] = "building"] /\ asked' = [asked EXCEPT ![r] = data]
      BY <1>4, <2>5 DEF Look
    <3>2. scope' \in Views BY <2>3, <3>1
    <3>3. mark' \in [Runs -> 0..MaxEdits] /\ asked' \in [Runs -> 0..MaxEdits]
      BY <2>1, <3>1
    <3>4. at' \in [Runs -> Places] /\ registered' = {q \in Runs : at'[q] = "waits"}
      BY <1>4, <3>1 DEF Look
    <3>5. /\ UNCHANGED <<data, crashesLeft, staged, spool, stamp, code>>
          /\ UNCHANGED <<chat, lines, proc, runs, seen, wrote>>
      BY <1>4 DEF Look
    <3> QED BY <2>2, <3>2, <3>3, <3>4, <3>5
  <2> QED BY <2>4, <2>5
<1>5. ASSUME NEW r \in Runs, Copy(r) PROVE TypeOK'
  BY <1>5 DEF Copy
<1>6. ASSUME NEW r \in Runs, CopyRaises(r) PROVE TypeOK'
  BY <1>6 DEF CopyRaises
<1>7. ASSUME NEW r \in Runs, Stamp(r) PROVE TypeOK'
  <2>1. mark[r] \in 0..MaxEdits /\ 0 \in 0..MaxEdits BY DEF IInv, TypeOK
  <2>2. {mark[r]} \in {{}} \cup {{n} : n \in 0..MaxEdits} BY <2>1
  <2> QED BY <1>7, <2>1, <2>2 DEF Stamp
<1>8. ASSUME NEW r \in Runs, Write(r) PROVE TypeOK'
  BY <1>8 DEF Write
<1>9. ASSUME NEW r \in Runs, Spawn(r) PROVE TypeOK'
  BY <1>9 DEF Spawn
<1>10. ASSUME NEW r \in Runs, Register(r) PROVE TypeOK'
  BY <1>10 DEF Register
<1>11. ASSUME NEW r \in Runs, Collect(r) PROVE TypeOK'
  BY <1>11 DEF Collect
<1>12. ASSUME NEW r \in Runs, ReadSpool(r) PROVE TypeOK'
  BY <1>12 DEF ReadSpool
<1>13. ASSUME NEW r \in Runs, Unlink(r) PROVE TypeOK'
  BY <1>13 DEF Unlink
<1>14. ASSUME NEW r \in Runs, Return(r) PROVE TypeOK'
  BY <1>14 DEF Return
<1>15. ASSUME NEW r \in Runs, Boot(r) PROVE TypeOK'
  BY <1>15 DEF Boot
<1>16. ASSUME NEW r \in Runs, Propose(r) PROVE TypeOK'
  BY <1>16 DEF Propose
<1>17. ASSUME NEW r \in Runs, Exit(r) PROVE TypeOK'
  BY <1>17 DEF Exit
<1>18. ASSUME NEW r \in Runs, NEW l \in Written, StageLine(r, l) PROVE TypeOK'
  BY <1>18 DEF StageLine
<1>19. CASE UNCHANGED vars
  BY <1>19 DEF vars
<1> QED BY <1>1, <1>2, <1>3, <1>4, <1>5, <1>6, <1>7, <1>8, <1>9, <1>10,
        <1>11, <1>12, <1>13, <1>14, <1>15, <1>16, <1>17, <1>18, <1>19 DEF Next, Tool

LEMMA PlacedStep == ASSUME IInv, [Next]_vars PROVE \A q \in Runs : Placed(q)'
<1> USE DEF IInv, TypeOK, Goes, Alive, Over, Places, Placed, tool, process, files, history, Absent, Views
<1>1. ASSUME Edit PROVE \A q \in Runs : Placed(q)'
  BY <1>1 DEF Edit
<1>2. ASSUME NEW k \in Chats, Abort(k) PROVE \A q \in Runs : Placed(q)'
  BY <1>2 DEF Abort
<1>3. CASE Crash
  BY <1>3 DEF Crash
<1>4. ASSUME NEW r \in Runs, Look(r) PROVE \A q \in Runs : Placed(q)'
  BY <1>4 DEF Look
<1>5. ASSUME NEW r \in Runs, Copy(r) PROVE \A q \in Runs : Placed(q)'
  BY <1>5 DEF Copy
<1>6. ASSUME NEW r \in Runs, CopyRaises(r) PROVE \A q \in Runs : Placed(q)'
  BY <1>6 DEF CopyRaises
<1>7. ASSUME NEW r \in Runs, Stamp(r) PROVE \A q \in Runs : Placed(q)'
  BY <1>7 DEF Stamp
<1>8. ASSUME NEW r \in Runs, Write(r) PROVE \A q \in Runs : Placed(q)'
  BY <1>8 DEF Write
<1>9. ASSUME NEW r \in Runs, Spawn(r) PROVE \A q \in Runs : Placed(q)'
  BY <1>9 DEF Spawn
<1>10. ASSUME NEW r \in Runs, Register(r) PROVE \A q \in Runs : Placed(q)'
  BY <1>10 DEF Register
<1>11. ASSUME NEW r \in Runs, Collect(r) PROVE \A q \in Runs : Placed(q)'
  BY <1>11 DEF Collect
<1>12. ASSUME NEW r \in Runs, ReadSpool(r) PROVE \A q \in Runs : Placed(q)'
  BY <1>12 DEF ReadSpool
<1>13. ASSUME NEW r \in Runs, Unlink(r) PROVE \A q \in Runs : Placed(q)'
  BY <1>13 DEF Unlink
<1>14. ASSUME NEW r \in Runs, Return(r) PROVE \A q \in Runs : Placed(q)'
  BY <1>14 DEF Return
<1>15. ASSUME NEW r \in Runs, Boot(r) PROVE \A q \in Runs : Placed(q)'
  BY <1>15 DEF Boot
<1>16. ASSUME NEW r \in Runs, Propose(r) PROVE \A q \in Runs : Placed(q)'
  BY <1>16 DEF Propose
<1>17. ASSUME NEW r \in Runs, Exit(r) PROVE \A q \in Runs : Placed(q)'
  BY <1>17 DEF Exit
<1>18. ASSUME NEW r \in Runs, NEW l \in Written, StageLine(r, l) PROVE \A q \in Runs : Placed(q)'
  BY <1>18 DEF StageLine
<1>19. CASE UNCHANGED vars
  BY <1>19 DEF vars
<1> QED BY <1>1, <1>2, <1>3, <1>4, <1>5, <1>6, <1>7, <1>8, <1>9, <1>10,
        <1>11, <1>12, <1>13, <1>14, <1>15, <1>16, <1>17, <1>18, <1>19 DEF Next, Tool

LEMMA LoneStep == ASSUME IInv, [Next]_vars PROVE \A q \in Runs : Lone(q)'
<1> USE DEF IInv, TypeOK, Goes, Alive, Over, Placed, Lone, Active, tool, process, files, history
<1>1. ASSUME Edit PROVE \A q \in Runs : Lone(q)'
  BY <1>1 DEF Edit
<1>2. ASSUME NEW k \in Chats, Abort(k) PROVE \A q \in Runs : Lone(q)'
  BY <1>2 DEF Abort
<1>3. CASE Crash
  BY <1>3 DEF Crash
<1>4. ASSUME NEW r \in Runs, Look(r) PROVE \A q \in Runs : Lone(q)'
  BY <1>4 DEF Look
<1>5. ASSUME NEW r \in Runs, Copy(r) PROVE \A q \in Runs : Lone(q)'
  BY <1>5 DEF Copy
<1>6. ASSUME NEW r \in Runs, CopyRaises(r) PROVE \A q \in Runs : Lone(q)'
  BY <1>6 DEF CopyRaises
<1>7. ASSUME NEW r \in Runs, Stamp(r) PROVE \A q \in Runs : Lone(q)'
  BY <1>7 DEF Stamp
<1>8. ASSUME NEW r \in Runs, Write(r) PROVE \A q \in Runs : Lone(q)'
  BY <1>8 DEF Write
<1>9. ASSUME NEW r \in Runs, Spawn(r) PROVE \A q \in Runs : Lone(q)'
  BY <1>9 DEF Spawn
<1>10. ASSUME NEW r \in Runs, Register(r) PROVE \A q \in Runs : Lone(q)'
  BY <1>10 DEF Register
<1>11. ASSUME NEW r \in Runs, Collect(r) PROVE \A q \in Runs : Lone(q)'
  BY <1>11 DEF Collect
<1>12. ASSUME NEW r \in Runs, ReadSpool(r) PROVE \A q \in Runs : Lone(q)'
  BY <1>12 DEF ReadSpool
<1>13. ASSUME NEW r \in Runs, Unlink(r) PROVE \A q \in Runs : Lone(q)'
  BY <1>13 DEF Unlink
<1>14. ASSUME NEW r \in Runs, Return(r) PROVE \A q \in Runs : Lone(q)'
  BY <1>14 DEF Return
<1>15. ASSUME NEW r \in Runs, Boot(r) PROVE \A q \in Runs : Lone(q)'
  BY <1>15 DEF Boot
<1>16. ASSUME NEW r \in Runs, Propose(r) PROVE \A q \in Runs : Lone(q)'
  BY <1>16 DEF Propose
<1>17. ASSUME NEW r \in Runs, Exit(r) PROVE \A q \in Runs : Lone(q)'
  BY <1>17 DEF Exit
<1>18. ASSUME NEW r \in Runs, NEW l \in Written, StageLine(r, l) PROVE \A q \in Runs : Lone(q)'
  BY <1>18 DEF StageLine
<1>19. CASE UNCHANGED vars
  BY <1>19 DEF vars
<1> QED BY <1>1, <1>2, <1>3, <1>4, <1>5, <1>6, <1>7, <1>8, <1>9, <1>10,
        <1>11, <1>12, <1>13, <1>14, <1>15, <1>16, <1>17, <1>18, <1>19 DEF Next, Tool

LEMMA OwnStep == ASSUME IInv, [Next]_vars PROVE \A q \in Runs : Own(q)'
<1> USE DEF IInv, TypeOK, Goes, Alive, Over, Placed, Lone, Own, Fresh, Active, tool, process, files, history
<1>1. ASSUME Edit PROVE \A q \in Runs : Own(q)'
  BY <1>1 DEF Edit
<1>2. ASSUME NEW k \in Chats, Abort(k) PROVE \A q \in Runs : Own(q)'
  BY <1>2 DEF Abort
<1>3. CASE Crash
  BY <1>3 DEF Crash
<1>4. ASSUME NEW r \in Runs, Look(r) PROVE \A q \in Runs : Own(q)'
  BY <1>4 DEF Look
<1>5. ASSUME NEW r \in Runs, Copy(r) PROVE \A q \in Runs : Own(q)'
  BY <1>5 DEF Copy
<1>6. ASSUME NEW r \in Runs, CopyRaises(r) PROVE \A q \in Runs : Own(q)'
  BY <1>6 DEF CopyRaises
<1>7. ASSUME NEW r \in Runs, Stamp(r) PROVE \A q \in Runs : Own(q)'
  BY <1>7 DEF Stamp
<1>8. ASSUME NEW r \in Runs, Write(r) PROVE \A q \in Runs : Own(q)'
  BY <1>8 DEF Write
<1>9. ASSUME NEW r \in Runs, Spawn(r) PROVE \A q \in Runs : Own(q)'
  BY <1>9 DEF Spawn
<1>10. ASSUME NEW r \in Runs, Register(r) PROVE \A q \in Runs : Own(q)'
  BY <1>10 DEF Register
<1>11. ASSUME NEW r \in Runs, Collect(r) PROVE \A q \in Runs : Own(q)'
  BY <1>11 DEF Collect
<1>12. ASSUME NEW r \in Runs, ReadSpool(r) PROVE \A q \in Runs : Own(q)'
  BY <1>12 DEF ReadSpool
<1>13. ASSUME NEW r \in Runs, Unlink(r) PROVE \A q \in Runs : Own(q)'
  BY <1>13 DEF Unlink
<1>14. ASSUME NEW r \in Runs, Return(r) PROVE \A q \in Runs : Own(q)'
  BY <1>14 DEF Return
<1>15. ASSUME NEW r \in Runs, Boot(r) PROVE \A q \in Runs : Own(q)'
  BY <1>15 DEF Boot
<1>16. ASSUME NEW r \in Runs, Propose(r) PROVE \A q \in Runs : Own(q)'
  BY <1>16 DEF Propose
<1>17. ASSUME NEW r \in Runs, Exit(r) PROVE \A q \in Runs : Own(q)'
  BY <1>17 DEF Exit
<1>18. ASSUME NEW r \in Runs, NEW l \in Written, StageLine(r, l) PROVE \A q \in Runs : Own(q)'
  BY <1>18 DEF StageLine
<1>19. CASE UNCHANGED vars
  BY <1>19 DEF vars
<1> QED BY <1>1, <1>2, <1>3, <1>4, <1>5, <1>6, <1>7, <1>8, <1>9, <1>10,
        <1>11, <1>12, <1>13, <1>14, <1>15, <1>16, <1>17, <1>18, <1>19 DEF Next, Tool

LEMMA StampedStep == ASSUME IInv, [Next]_vars PROVE Stamped'
<1> USE DEF IInv, TypeOK, Goes, Views, Absent, Stamped, Fresh, tool, process, files, history
<1>1. ASSUME Edit PROVE Stamped'
  BY <1>1 DEF Edit
<1>2. ASSUME NEW k \in Chats, Abort(k) PROVE Stamped'
  BY <1>2 DEF Abort
<1>3. CASE Crash
  BY <1>3 DEF Crash
<1>4. ASSUME NEW r \in Runs, Look(r) PROVE Stamped'
  BY <1>4 DEF Look
<1>5. ASSUME NEW r \in Runs, Copy(r) PROVE Stamped'
  BY <1>5 DEF Copy
<1>6. ASSUME NEW r \in Runs, CopyRaises(r) PROVE Stamped'
  BY <1>6 DEF CopyRaises
<1>7. ASSUME NEW r \in Runs, Stamp(r) PROVE Stamped'
  BY <1>7 DEF Stamp
<1>8. ASSUME NEW r \in Runs, Write(r) PROVE Stamped'
  BY <1>8 DEF Write
<1>9. ASSUME NEW r \in Runs, Spawn(r) PROVE Stamped'
  BY <1>9 DEF Spawn
<1>10. ASSUME NEW r \in Runs, Register(r) PROVE Stamped'
  BY <1>10 DEF Register
<1>11. ASSUME NEW r \in Runs, Collect(r) PROVE Stamped'
  BY <1>11 DEF Collect
<1>12. ASSUME NEW r \in Runs, ReadSpool(r) PROVE Stamped'
  BY <1>12 DEF ReadSpool
<1>13. ASSUME NEW r \in Runs, Unlink(r) PROVE Stamped'
  BY <1>13 DEF Unlink
<1>14. ASSUME NEW r \in Runs, Return(r) PROVE Stamped'
  BY <1>14 DEF Return
<1>15. ASSUME NEW r \in Runs, Boot(r) PROVE Stamped'
  BY <1>15 DEF Boot
<1>16. ASSUME NEW r \in Runs, Propose(r) PROVE Stamped'
  BY <1>16 DEF Propose
<1>17. ASSUME NEW r \in Runs, Exit(r) PROVE Stamped'
  BY <1>17 DEF Exit
<1>18. ASSUME NEW r \in Runs, NEW l \in Written, StageLine(r, l) PROVE Stamped'
  BY <1>18 DEF StageLine
<1>19. CASE UNCHANGED vars
  BY <1>19 DEF vars
<1> QED BY <1>1, <1>2, <1>3, <1>4, <1>5, <1>6, <1>7, <1>8, <1>9, <1>10,
        <1>11, <1>12, <1>13, <1>14, <1>15, <1>16, <1>17, <1>18, <1>19 DEF Next, Tool

LEMMA FreshStep == ASSUME IInv, [Next]_vars PROVE \A q \in Runs : Fresh(q)'
<1> USE DEF IInv, TypeOK, Goes, Alive, Over, Views, Absent, Placed, Lone, Active, Stamped, Fresh, tool, process, files, history
<1>1. ASSUME Edit PROVE \A q \in Runs : Fresh(q)'
  BY <1>1 DEF Edit
<1>2. ASSUME NEW k \in Chats, Abort(k) PROVE \A q \in Runs : Fresh(q)'
  BY <1>2 DEF Abort
<1>3. CASE Crash
  BY <1>3 DEF Crash
<1>4. ASSUME NEW r \in Runs, Look(r) PROVE \A q \in Runs : Fresh(q)'
  <2>1. data \in Nat /\ data' = data /\ asked'[r] = data /\ proc' = proc /\ seen' = seen
        /\ runs' = runs /\ at[r] = "idle" /\ proc[r] = "none" /\ stamp' = stamp /\ met \subseteq met'
    BY <1>4 DEF Look
  <2>2. Fresh(r)'
    <3>1. CASE scope.there /\ stamp = {data}
      <4>1. scope.rows >= data BY <3>1
      <4>2. at'[r] = "ready" /\ mark' = mark /\ scope' = scope BY <1>4, <3>1 DEF Look
      <4> QED BY <1>4, <2>1, <3>1, <4>1, <4>2
    <3>2. CASE ~(scope.there /\ stamp = {data})
      <4>1. at'[r] = "building" /\ mark'[r] = data /\ ~scope'.there BY <1>4, <3>2 DEF Look
      <4> QED BY <1>4, <2>1, <4>1
    <3> QED BY <3>1, <3>2
  <2>3. ASSUME NEW q \in Runs \ {r} PROVE Fresh(q)'
    <3>1. at'[q] = at[q] /\ mark'[q] = mark[q] /\ asked'[q] = asked[q] BY <1>4, <2>3 DEF Look
    <3>2. q \in Active => q \in met' BY <1>4 DEF Look
    <3>3. scope' = scope \/ ~scope'.there BY <1>4 DEF Look
    <3> QED BY <2>1, <2>3, <3>1, <3>2, <3>3
  <2> QED BY <2>2, <2>3
<1>5. ASSUME NEW r \in Runs, Copy(r) PROVE \A q \in Runs : Fresh(q)'
  <2>1. scope'.rows = data /\ scope'.there /\ data' = data BY <1>5 DEF Copy
  <2>2. \A q \in Runs \ {r} : at'[q] = at[q] BY <1>5 DEF Copy
  <2>3. ASSUME NEW q \in Runs, at[q] = "building", q \notin met PROVE q = r
    <3>1. q \in Active /\ r \in Active BY <1>5, <2>3 DEF Copy
    <3>2. q \in Active /\ q \notin met => Active = {q} BY <2>3
    <3> QED BY <3>1, <3>2, <2>3, Zenon
  <2>4. at'[r] = "stamping" BY <1>5 DEF Copy
  <2>5. \A q \in Runs : asked[q] <= data /\ met' = met /\ asked' = asked /\ mark' = mark
                     /\ seen' = seen /\ runs' = runs /\ proc' = proc
    BY <1>5 DEF Copy
  <2> QED BY <1>5, <2>1, <2>2, <2>3, <2>4, <2>5 DEF Copy
<1>6. ASSUME NEW r \in Runs, CopyRaises(r) PROVE \A q \in Runs : Fresh(q)'
  BY <1>6 DEF CopyRaises
<1>7. ASSUME NEW r \in Runs, Stamp(r) PROVE \A q \in Runs : Fresh(q)'
  BY <1>7 DEF Stamp
<1>8. ASSUME NEW r \in Runs, Write(r) PROVE \A q \in Runs : Fresh(q)'
  BY <1>8 DEF Write
<1>9. ASSUME NEW r \in Runs, Spawn(r) PROVE \A q \in Runs : Fresh(q)'
  BY <1>9 DEF Spawn
<1>10. ASSUME NEW r \in Runs, Register(r) PROVE \A q \in Runs : Fresh(q)'
  BY <1>10 DEF Register
<1>11. ASSUME NEW r \in Runs, Collect(r) PROVE \A q \in Runs : Fresh(q)'
  BY <1>11 DEF Collect
<1>12. ASSUME NEW r \in Runs, ReadSpool(r) PROVE \A q \in Runs : Fresh(q)'
  BY <1>12 DEF ReadSpool
<1>13. ASSUME NEW r \in Runs, Unlink(r) PROVE \A q \in Runs : Fresh(q)'
  BY <1>13 DEF Unlink
<1>14. ASSUME NEW r \in Runs, Return(r) PROVE \A q \in Runs : Fresh(q)'
  BY <1>14 DEF Return
<1>15. ASSUME NEW r \in Runs, Boot(r) PROVE \A q \in Runs : Fresh(q)'
  BY <1>15 DEF Boot
<1>16. ASSUME NEW r \in Runs, Propose(r) PROVE \A q \in Runs : Fresh(q)'
  BY <1>16 DEF Propose
<1>17. ASSUME NEW r \in Runs, Exit(r) PROVE \A q \in Runs : Fresh(q)'
  BY <1>17 DEF Exit
<1>18. ASSUME NEW r \in Runs, NEW l \in Written, StageLine(r, l) PROVE \A q \in Runs : Fresh(q)'
  BY <1>18 DEF StageLine
<1>19. CASE UNCHANGED vars
  BY <1>19 DEF vars
<1> QED BY <1>1, <1>2, <1>3, <1>4, <1>5, <1>6, <1>7, <1>8, <1>9, <1>10,
        <1>11, <1>12, <1>13, <1>14, <1>15, <1>16, <1>17, <1>18, <1>19 DEF Next, Tool

LEMMA RealStep == ASSUME IInv, [Next]_vars PROVE Real'
<1> USE ScriptsAssumption DEF IInv, TypeOK, Goes, Placed, Written, Real, Holds, tool, process, files, history
<1>1. ASSUME Edit PROVE Real'
  BY <1>1 DEF Edit
<1>2. ASSUME NEW k \in Chats, Abort(k) PROVE Real'
  BY <1>2 DEF Abort
<1>3. CASE Crash
  BY <1>3 DEF Crash
<1>4. ASSUME NEW r \in Runs, Look(r) PROVE Real'
  BY <1>4 DEF Look
<1>5. ASSUME NEW r \in Runs, Copy(r) PROVE Real'
  BY <1>5 DEF Copy
<1>6. ASSUME NEW r \in Runs, CopyRaises(r) PROVE Real'
  BY <1>6 DEF CopyRaises
<1>7. ASSUME NEW r \in Runs, Stamp(r) PROVE Real'
  BY <1>7 DEF Stamp
<1>8. ASSUME NEW r \in Runs, Write(r) PROVE Real'
  BY <1>8 DEF Write
<1>9. ASSUME NEW r \in Runs, Spawn(r) PROVE Real'
  BY <1>9 DEF Spawn
<1>10. ASSUME NEW r \in Runs, Register(r) PROVE Real'
  BY <1>10 DEF Register
<1>11. ASSUME NEW r \in Runs, Collect(r) PROVE Real'
  BY <1>11 DEF Collect
<1>12. ASSUME NEW r \in Runs, ReadSpool(r) PROVE Real'
  BY <1>12 DEF ReadSpool
<1>13. ASSUME NEW r \in Runs, Unlink(r) PROVE Real'
  BY <1>13 DEF Unlink
<1>14. ASSUME NEW r \in Runs, Return(r) PROVE Real'
  BY <1>14 DEF Return
<1>15. ASSUME NEW r \in Runs, Boot(r) PROVE Real'
  BY <1>15 DEF Boot
<1>16. ASSUME NEW r \in Runs, Propose(r) PROVE Real'
  BY <1>16 DEF Propose
<1>17. ASSUME NEW r \in Runs, Exit(r) PROVE Real'
  BY <1>17 DEF Exit
<1>18. ASSUME NEW r \in Runs, NEW l \in Written, StageLine(r, l) PROVE Real'
  BY <1>18 DEF StageLine
<1>19. CASE UNCHANGED vars
  BY <1>19 DEF vars
<1> QED BY <1>1, <1>2, <1>3, <1>4, <1>5, <1>6, <1>7, <1>8, <1>9, <1>10,
        <1>11, <1>12, <1>13, <1>14, <1>15, <1>16, <1>17, <1>18, <1>19 DEF Next, Tool

LEMMA HeldStep == ASSUME IInv, [Next]_vars PROVE Held'
<1> USE ScriptsAssumption DEF IInv, TypeOK, Goes, Over, Alive, Placed, Lone, Active, Written, Real, Holds, Held, Once, Gone, tool, process, files, history
<1>1. ASSUME Edit PROVE Held'
  BY <1>1 DEF Edit
<1>2. ASSUME NEW k \in Chats, Abort(k) PROVE Held'
  BY <1>2 DEF Abort
<1>3. CASE Crash
  BY <1>3 DEF Crash
<1>4. ASSUME NEW r \in Runs, Look(r) PROVE Held'
  BY <1>4 DEF Look
<1>5. ASSUME NEW r \in Runs, Copy(r) PROVE Held'
  BY <1>5 DEF Copy
<1>6. ASSUME NEW r \in Runs, CopyRaises(r) PROVE Held'
  BY <1>6 DEF CopyRaises
<1>7. ASSUME NEW r \in Runs, Stamp(r) PROVE Held'
  BY <1>7 DEF Stamp
<1>8. ASSUME NEW r \in Runs, Write(r) PROVE Held'
  BY <1>8 DEF Write
<1>9. ASSUME NEW r \in Runs, Spawn(r) PROVE Held'
  BY <1>9 DEF Spawn
<1>10. ASSUME NEW r \in Runs, Register(r) PROVE Held'
  BY <1>10 DEF Register
<1>11. ASSUME NEW r \in Runs, Collect(r) PROVE Held'
  BY <1>11 DEF Collect
<1>12. ASSUME NEW r \in Runs, ReadSpool(r) PROVE Held'
  BY <1>12 DEF ReadSpool
<1>13. ASSUME NEW r \in Runs, Unlink(r) PROVE Held'
  BY <1>13 DEF Unlink
<1>14. ASSUME NEW r \in Runs, Return(r) PROVE Held'
  BY <1>14 DEF Return
<1>15. ASSUME NEW r \in Runs, Boot(r) PROVE Held'
  BY <1>15 DEF Boot
<1>16. ASSUME NEW r \in Runs, Propose(r) PROVE Held'
  BY <1>16 DEF Propose
<1>17. ASSUME NEW r \in Runs, Exit(r) PROVE Held'
  BY <1>17 DEF Exit
<1>18. ASSUME NEW r \in Runs, NEW l \in Written, StageLine(r, l) PROVE Held'
  BY <1>18 DEF StageLine
<1>19. CASE UNCHANGED vars
  BY <1>19 DEF vars
<1> QED BY <1>1, <1>2, <1>3, <1>4, <1>5, <1>6, <1>7, <1>8, <1>9, <1>10,
        <1>11, <1>12, <1>13, <1>14, <1>15, <1>16, <1>17, <1>18, <1>19 DEF Next, Tool

LEMMA ChatStep == ASSUME IInv, [Next]_vars PROVE Chat'
<1> USE DEF IInv, TypeOK, Goes, Chat, tool, process, files, history
<1>1. ASSUME Edit PROVE Chat'
  BY <1>1 DEF Edit
<1>2. ASSUME NEW k \in Chats, Abort(k) PROVE Chat'
  BY <1>2 DEF Abort
<1>3. CASE Crash
  BY <1>3 DEF Crash
<1>4. ASSUME NEW r \in Runs, Look(r) PROVE Chat'
  BY <1>4 DEF Look
<1>5. ASSUME NEW r \in Runs, Copy(r) PROVE Chat'
  BY <1>5 DEF Copy
<1>6. ASSUME NEW r \in Runs, CopyRaises(r) PROVE Chat'
  BY <1>6 DEF CopyRaises
<1>7. ASSUME NEW r \in Runs, Stamp(r) PROVE Chat'
  BY <1>7 DEF Stamp
<1>8. ASSUME NEW r \in Runs, Write(r) PROVE Chat'
  BY <1>8 DEF Write
<1>9. ASSUME NEW r \in Runs, Spawn(r) PROVE Chat'
  BY <1>9 DEF Spawn
<1>10. ASSUME NEW r \in Runs, Register(r) PROVE Chat'
  BY <1>10 DEF Register
<1>11. ASSUME NEW r \in Runs, Collect(r) PROVE Chat'
  BY <1>11 DEF Collect
<1>12. ASSUME NEW r \in Runs, ReadSpool(r) PROVE Chat'
  BY <1>12 DEF ReadSpool
<1>13. ASSUME NEW r \in Runs, Unlink(r) PROVE Chat'
  BY <1>13 DEF Unlink
<1>14. ASSUME NEW r \in Runs, Return(r) PROVE Chat'
  BY <1>14 DEF Return
<1>15. ASSUME NEW r \in Runs, Boot(r) PROVE Chat'
  BY <1>15 DEF Boot
<1>16. ASSUME NEW r \in Runs, Propose(r) PROVE Chat'
  BY <1>16 DEF Propose
<1>17. ASSUME NEW r \in Runs, Exit(r) PROVE Chat'
  BY <1>17 DEF Exit
<1>18. ASSUME NEW r \in Runs, NEW l \in Written, StageLine(r, l) PROVE Chat'
  BY <1>18 DEF StageLine
<1>19. CASE UNCHANGED vars
  BY <1>19 DEF vars
<1> QED BY <1>1, <1>2, <1>3, <1>4, <1>5, <1>6, <1>7, <1>8, <1>9, <1>10,
        <1>11, <1>12, <1>13, <1>14, <1>15, <1>16, <1>17, <1>18, <1>19 DEF Next, Tool

LEMMA LandedStep == ASSUME IInv, [Next]_vars PROVE \A q \in Runs : Landed(q)'
<1> USE ScriptsAssumption DEF IInv, TypeOK, Goes, Over, Alive, Placed, Lone, Active, Written, Holds, Landed, tool, process, files, history
<1>1. ASSUME Edit PROVE \A q \in Runs : Landed(q)'
  BY <1>1 DEF Edit
<1>2. ASSUME NEW k \in Chats, Abort(k) PROVE \A q \in Runs : Landed(q)'
  BY <1>2 DEF Abort
<1>3. CASE Crash
  BY <1>3 DEF Crash
<1>4. ASSUME NEW r \in Runs, Look(r) PROVE \A q \in Runs : Landed(q)'
  BY <1>4 DEF Look
<1>5. ASSUME NEW r \in Runs, Copy(r) PROVE \A q \in Runs : Landed(q)'
  BY <1>5 DEF Copy
<1>6. ASSUME NEW r \in Runs, CopyRaises(r) PROVE \A q \in Runs : Landed(q)'
  BY <1>6 DEF CopyRaises
<1>7. ASSUME NEW r \in Runs, Stamp(r) PROVE \A q \in Runs : Landed(q)'
  BY <1>7 DEF Stamp
<1>8. ASSUME NEW r \in Runs, Write(r) PROVE \A q \in Runs : Landed(q)'
  BY <1>8 DEF Write
<1>9. ASSUME NEW r \in Runs, Spawn(r) PROVE \A q \in Runs : Landed(q)'
  BY <1>9 DEF Spawn
<1>10. ASSUME NEW r \in Runs, Register(r) PROVE \A q \in Runs : Landed(q)'
  BY <1>10 DEF Register
<1>11. ASSUME NEW r \in Runs, Collect(r) PROVE \A q \in Runs : Landed(q)'
  BY <1>11 DEF Collect
<1>12. ASSUME NEW r \in Runs, ReadSpool(r) PROVE \A q \in Runs : Landed(q)'
  BY <1>12 DEF ReadSpool
<1>13. ASSUME NEW r \in Runs, Unlink(r) PROVE \A q \in Runs : Landed(q)'
  BY <1>13 DEF Unlink
<1>14. ASSUME NEW r \in Runs, Return(r) PROVE \A q \in Runs : Landed(q)'
  BY <1>14 DEF Return
<1>15. ASSUME NEW r \in Runs, Boot(r) PROVE \A q \in Runs : Landed(q)'
  BY <1>15 DEF Boot
<1>16. ASSUME NEW r \in Runs, Propose(r) PROVE \A q \in Runs : Landed(q)'
  BY <1>16 DEF Propose
<1>17. ASSUME NEW r \in Runs, Exit(r) PROVE \A q \in Runs : Landed(q)'
  BY <1>17 DEF Exit
<1>18. ASSUME NEW r \in Runs, NEW l \in Written, StageLine(r, l) PROVE \A q \in Runs : Landed(q)'
  BY <1>18 DEF StageLine
<1>19. CASE UNCHANGED vars
  BY <1>19 DEF vars
<1> QED BY <1>1, <1>2, <1>3, <1>4, <1>5, <1>6, <1>7, <1>8, <1>9, <1>10,
        <1>11, <1>12, <1>13, <1>14, <1>15, <1>16, <1>17, <1>18, <1>19 DEF Next, Tool

LEMMA IInvStep == IInv /\ [Next]_vars => IInv'
<1> SUFFICES ASSUME IInv, [Next]_vars PROVE IInv' OBVIOUS
<1> QED BY TypeStep, PlacedStep, LoneStep, OwnStep, StampedStep, FreshStep, RealStep,
           HeldStep, ChatStep, LandedStep DEF IInv

LEMMA Inductive == Spec => []IInv
  BY IInvInit, IInvStep, PTL DEF Spec

-----------------------------------------------------------------------------
(* What follows.                                                           *)

\* Types, and that the list of running scripts names exactly those waited for.
THEOREM TypeCorrect == Spec => []TypeOK
<1>1. IInv => TypeOK BY DEF IInv
<1> QED BY <1>1, Inductive, PTL

\* A run that meets no other runs its own code, for any number of runs.
THEOREM LoneRunsItsOwn == Spec => []RunsItsOwn
<1>1. IInv => RunsItsOwn BY DEF IInv, Own, RunsItsOwn
<1> QED BY <1>1, Inductive, PTL

\* A run that meets no other stages all that its process wrote, however it ended.
THEOREM LinesLand == Spec => []EveryLineLands
<1>1. IInv => EveryLineLands BY DEF IInv, Landed, EveryLineLands
<1> QED BY <1>1, Inductive, PTL

\* Two runs that stage the same line have overlapped.
THEOREM NoLineTwice == Spec => []StagedOnce
<1>1. ASSUME IInv PROVE StagedOnce
  <2> SUFFICES ASSUME NEW x \in staged, NEW y \in staged, x[1] = y[1], x[2] # y[2]
               PROVE  {x[2], y[2]} \subseteq met
    BY DEF StagedOnce
  <2>1. x = <<x[1], x[2]>> /\ y = <<x[1], y[2]>> /\ x[1] \in Written
        /\ x[2] \in Runs /\ y[2] \in Runs
    BY <1>1 DEF IInv, TypeOK
  <2> QED BY <1>1, <2>1 DEF IInv, Held, Once, Holds
<1> QED BY <1>1, Inductive, PTL

\* A proposal is staged for the chat its script was started in.
THEOREM LinesBelong == Spec => []StagedForItsChat
<1>1. ASSUME IInv PROVE StagedForItsChat
  <2> SUFFICES ASSUME NEW x \in staged PROVE chat[x[1][1]] = chat[x[2]]
    BY DEF StagedForItsChat
  <2>1. x = <<x[1], x[2]>> /\ x[1] \in Written /\ x[2] \in Runs
    BY <1>1 DEF IInv, TypeOK
  <2> QED BY <1>1, <2>1 DEF IInv, Chat
<1> QED BY <1>1, Inductive, PTL

\* No script reads a snapshot older than the timed changes made before it began.
THEOREM SnapshotIsFresh == Spec => []SeesEdits
<1>1. IInv => SeesEdits BY DEF IInv, Fresh, SeesEdits
<1> QED BY <1>1, Inductive, PTL
=============================================================================
