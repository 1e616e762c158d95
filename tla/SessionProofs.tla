--------------------------- MODULE SessionProofs ---------------------------
(***************************************************************************)
(* Theorems of Session, for any number of turns, requests and kinds.       *)
(***************************************************************************)
EXTENDS Session, TLAPS

-----------------------------------------------------------------------------
(* The inductive invariant.                                                *)

\* A turn that has met nobody is the only one that runs.
Lone == \A t \in Active : t \in met \/ Active = {t}

\* A prompt on the screen and a standing permission belong to a turn that is on.
Live      == {t \in Turns : turn[t] \in {"streams", "stored"}}
Standing  == /\ \A q \in Reqs : entry[q] # "none" => asker[q] \in Live
             /\ \A k \in always : giver[k] \in Live
Answered  == \A q \in Reqs : /\ entry[q] = "yes" => q \in auto \/ answer[q] = "yes"
                             /\ tool[q] = "ran" => q \in auto \/ answer[q] = "yes"
                             /\ q \in auto => tool[q] = "ran"

\* The turns whose prompts have to be in every history from which one will be
\* stored: the newest, those that turns have read, and the summary.
Safe == {t \in Turns \ (met \cup early \cup passed) : turn[t] \in {"stored", "over"}}
Kept == /\ Safe \subseteq hist
        /\ \A t \in Turns : turn[t] \in {"summing", "streams"} => Safe \subseteq base[t]
        /\ \A s \in compacted : Safe \subseteq s

Asked == \A q \in Reqs :
    entry[q] # "none" => kind[q] \in Kinds /\ asker[q] \in Turns /\ (q \in auto \/ tool[q] = "waits")

IInv == TypeOK /\ Asked /\ Lone /\ Standing /\ Answered /\ Kept

LEMMA IInvInit == Init => IInv
<1> SUFFICES ASSUME Init PROVE IInv OBVIOUS
<1> USE SessionAssumption DEF Init
<1>1. TypeOK BY DEF TypeOK, Heard, Running
<1>2. Asked /\ Lone /\ Standing /\ Answered /\ Kept
  BY DEF Asked, Lone, Active, Running, Standing, Live, Answered, Kept, Safe
<1> QED BY <1>1, <1>2 DEF IInv

-----------------------------------------------------------------------------
(* Every step preserves each part.                                         *)

LEMMA TypeStep == ASSUME IInv, [Next]_vars PROVE TypeOK'
<1> USE SessionAssumption
    DEF IInv, TypeOK, Goes, Active, Running, Heard, memory, prompt, history
<1>1. CASE Restart
  BY <1>1 DEF Restart, EndTurn
<1>2. ASSUME NEW t \in Turns, Begin(t) PROVE TypeOK'
  BY <1>2 DEF Begin
<1>3. ASSUME NEW t \in Turns, Vanish(t) PROVE TypeOK'
  BY <1>3 DEF Vanish
<1>4. ASSUME NEW t \in Turns, Read(t) PROVE TypeOK'
  BY <1>4 DEF Read
<1>5. ASSUME NEW t \in Turns, Prepare(t) PROVE TypeOK'
  <2>1. base[t] \in SUBSET Heard BY DEF IInv, TypeOK
  <2>2. compacted' \in {{}} \cup {{s} : s \in SUBSET Heard} BY <1>5, <2>1 DEF Prepare
  <2> QED BY <1>5, <2>2 DEF Prepare
<1>6. ASSUME NEW t \in Turns, Reply(t) PROVE TypeOK'
  <2>1. base[t] \subseteq Heard /\ UNION compacted \subseteq Heard BY DEF IInv, TypeOK
  <2>2. hist' \subseteq Heard BY <1>6, <2>1 DEF Reply
  <2> QED BY <1>6, <2>2 DEF Reply
<1>7. ASSUME NEW t \in Turns, Done(t) PROVE TypeOK'
  BY <1>7 DEF Done, EndTurn
<1>8. ASSUME NEW t \in Turns, Cut(t) PROVE TypeOK'
  BY <1>8 DEF Cut, EndTurn
<1>9. ASSUME NEW t \in Turns, NEW q \in Reqs, NEW k \in Kinds, Ask(t, q, k) PROVE TypeOK'
  <2>0. UNCHANGED <<turn, memory, always, answer, giver, met, early, passed>>
        /\ asker' \in [Reqs -> Turns \cup {Before}] /\ kind' \in [Reqs -> Kinds \cup {NoKind}]
    BY <1>9 DEF Ask
  <2>1. CASE k \in always
    <3>1. /\ tool' = [tool EXCEPT ![q] = "ran"] /\ entry' = [entry EXCEPT ![q] = "yes"]
          /\ auto' = auto \cup {q}
      BY <1>9, <2>1 DEF Ask
    <3> QED BY <3>1, <2>0
  <2>2. CASE k \notin always BY <1>9, <2>2 DEF Ask
  <2> QED BY <2>1, <2>2
<1>10. ASSUME NEW q \in Reqs, Look(q) PROVE TypeOK'
  BY <1>10 DEF Look
<1>11. ASSUME NEW q \in Reqs, GiveUp(q) PROVE TypeOK'
  BY <1>11 DEF GiveUp
<1>12. ASSUME NEW q \in Reqs, NEW allow \in BOOLEAN, NEW forAll \in BOOLEAN,
             Decide(q, allow, forAll) PROVE TypeOK'
  <2>1. PICK a \in {"yes", "no"} : /\ entry' = [entry EXCEPT ![q] = a]
                                  /\ answer' = [answer EXCEPT ![q] = a]
    BY <1>12, Zenon DEF Decide
  <2>2. \/ always' = always \cup {kind[q]} /\ giver' = [giver EXCEPT ![kind[q]] = asker[q]]
        \/ always' = always /\ giver' = giver
    BY <1>12, Zenon DEF Decide
  <2>3. /\ entry[q] # "none" /\ q \notin auto
        /\ UNCHANGED <<turn, memory, asker, kind, tool, auto, met, early, passed>>
    BY <1>12 DEF Decide
  <2>4. kind[q] \in Kinds /\ asker[q] \in Turns BY <2>3 DEF Asked
  <2>5. tool[q] = "waits" BY <2>3 DEF Asked
  <2>6. entry' \in [Reqs -> {"none", "open", "yes", "no"}]
        /\ answer' \in [Reqs -> {"none", "yes", "no"}]
    BY <2>1
  <2>7. always' \subseteq Kinds /\ giver' \in [Kinds -> Turns \cup {Before}]
    BY <2>2, <2>4
  <2>8. \A p \in Reqs : entry'[p] = "open" => tool'[p] = "waits" BY <2>1, <2>3
  <2> QED BY <2>3, <2>6, <2>7, <2>8
<1>13. CASE UNCHANGED vars
  BY <1>13 DEF vars
<1> HIDE DEF TypeOK, IInv
<1> QED BY <1>1, <1>2, <1>3, <1>4, <1>5, <1>6, <1>7, <1>8, <1>9, <1>10, <1>11, <1>12, <1>13 DEF Next

LEMMA AskedStep == ASSUME IInv, [Next]_vars PROVE Asked'
<1> USE DEF IInv, TypeOK, Goes, Asked, memory, prompt, history
<1>1. CASE Restart
  BY <1>1 DEF Restart, EndTurn
<1>2. ASSUME NEW t \in Turns, Begin(t) PROVE Asked'
  BY <1>2 DEF Begin
<1>3. ASSUME NEW t \in Turns, Vanish(t) PROVE Asked'
  BY <1>3 DEF Vanish
<1>4. ASSUME NEW t \in Turns, Read(t) PROVE Asked'
  BY <1>4 DEF Read
<1>5. ASSUME NEW t \in Turns, Prepare(t) PROVE Asked'
  BY <1>5 DEF Prepare
<1>6. ASSUME NEW t \in Turns, Reply(t) PROVE Asked'
  BY <1>6 DEF Reply
<1>7. ASSUME NEW t \in Turns, Done(t) PROVE Asked'
  BY <1>7 DEF Done, EndTurn
<1>8. ASSUME NEW t \in Turns, Cut(t) PROVE Asked'
  BY <1>8 DEF Cut, EndTurn
<1>9. ASSUME NEW t \in Turns, NEW q \in Reqs, NEW k \in Kinds, Ask(t, q, k) PROVE Asked'
  BY <1>9 DEF Ask
<1>10. ASSUME NEW q \in Reqs, Look(q) PROVE Asked'
  BY <1>10 DEF Look
<1>11. ASSUME NEW q \in Reqs, GiveUp(q) PROVE Asked'
  BY <1>11 DEF GiveUp
<1>12. ASSUME NEW q \in Reqs, NEW allow \in BOOLEAN, NEW forAll \in BOOLEAN,
             Decide(q, allow, forAll) PROVE Asked'
  <2>1. PICK a \in {"yes", "no"} : /\ entry' = [entry EXCEPT ![q] = a]
                                  /\ answer' = [answer EXCEPT ![q] = a]
    BY <1>12, Zenon DEF Decide
  <2>2. \/ always' = always \cup {kind[q]} /\ giver' = [giver EXCEPT ![kind[q]] = asker[q]]
        \/ always' = always /\ giver' = giver
    BY <1>12, Zenon DEF Decide
  <2>3. /\ entry[q] # "none" /\ q \notin auto
        /\ UNCHANGED <<turn, memory, asker, kind, tool, auto, met, early, passed>>
    BY <1>12 DEF Decide
  <2> QED BY <2>1, <2>3 DEF Asked
<1>13. CASE UNCHANGED vars
  BY <1>13 DEF vars
<1> QED BY <1>1, <1>2, <1>3, <1>4, <1>5, <1>6, <1>7, <1>8, <1>9, <1>10, <1>11, <1>12, <1>13 DEF Next

LEMMA LoneStep == ASSUME IInv, [Next]_vars PROVE Lone'
<1> USE DEF IInv, TypeOK, Goes, Lone, Active, Running, memory, prompt, history
<1>1. CASE Restart
  BY <1>1 DEF Restart, EndTurn
<1>2. ASSUME NEW t \in Turns, Begin(t) PROVE Lone'
  BY <1>2 DEF Begin
<1>3. ASSUME NEW t \in Turns, Vanish(t) PROVE Lone'
  BY <1>3 DEF Vanish
<1>4. ASSUME NEW t \in Turns, Read(t) PROVE Lone'
  BY <1>4 DEF Read
<1>5. ASSUME NEW t \in Turns, Prepare(t) PROVE Lone'
  BY <1>5 DEF Prepare
<1>6. ASSUME NEW t \in Turns, Reply(t) PROVE Lone'
  BY <1>6 DEF Reply
<1>7. ASSUME NEW t \in Turns, Done(t) PROVE Lone'
  BY <1>7 DEF Done, EndTurn
<1>8. ASSUME NEW t \in Turns, Cut(t) PROVE Lone'
  BY <1>8 DEF Cut, EndTurn
<1>9. ASSUME NEW t \in Turns, NEW q \in Reqs, NEW k \in Kinds, Ask(t, q, k) PROVE Lone'
  BY <1>9 DEF Ask
<1>10. ASSUME NEW q \in Reqs, Look(q) PROVE Lone'
  BY <1>10 DEF Look
<1>11. ASSUME NEW q \in Reqs, GiveUp(q) PROVE Lone'
  BY <1>11 DEF GiveUp
<1>12. ASSUME NEW q \in Reqs, NEW allow \in BOOLEAN, NEW forAll \in BOOLEAN,
             Decide(q, allow, forAll) PROVE Lone'
  BY <1>12 DEF Decide
<1>13. CASE UNCHANGED vars
  BY <1>13 DEF vars
<1> QED BY <1>1, <1>2, <1>3, <1>4, <1>5, <1>6, <1>7, <1>8, <1>9, <1>10, <1>11, <1>12, <1>13 DEF Next

LEMMA StandingStep == ASSUME IInv, [Next]_vars PROVE Standing'
<1> USE DEF IInv, TypeOK, Goes, Standing, Live, memory, prompt, history
<1>1. CASE Restart
  BY <1>1 DEF Restart, EndTurn
<1>2. ASSUME NEW t \in Turns, Begin(t) PROVE Standing'
  BY <1>2 DEF Begin
<1>3. ASSUME NEW t \in Turns, Vanish(t) PROVE Standing'
  BY <1>3 DEF Vanish
<1>4. ASSUME NEW t \in Turns, Read(t) PROVE Standing'
  BY <1>4 DEF Read
<1>5. ASSUME NEW t \in Turns, Prepare(t) PROVE Standing'
  BY <1>5 DEF Prepare
<1>6. ASSUME NEW t \in Turns, Reply(t) PROVE Standing'
  BY <1>6 DEF Reply
<1>7. ASSUME NEW t \in Turns, Done(t) PROVE Standing'
  BY <1>7 DEF Done, EndTurn
<1>8. ASSUME NEW t \in Turns, Cut(t) PROVE Standing'
  BY <1>8 DEF Cut, EndTurn
<1>9. ASSUME NEW t \in Turns, NEW q \in Reqs, NEW k \in Kinds, Ask(t, q, k) PROVE Standing'
  BY <1>9 DEF Ask
<1>10. ASSUME NEW q \in Reqs, Look(q) PROVE Standing'
  BY <1>10 DEF Look
<1>11. ASSUME NEW q \in Reqs, GiveUp(q) PROVE Standing'
  BY <1>11 DEF GiveUp
<1>12. ASSUME NEW q \in Reqs, NEW allow \in BOOLEAN, NEW forAll \in BOOLEAN,
             Decide(q, allow, forAll) PROVE Standing'
  <2>1. PICK a \in {"yes", "no"} : /\ entry' = [entry EXCEPT ![q] = a]
                                  /\ answer' = [answer EXCEPT ![q] = a]
    BY <1>12, Zenon DEF Decide
  <2>2. \/ always' = always \cup {kind[q]} /\ giver' = [giver EXCEPT ![kind[q]] = asker[q]]
        \/ always' = always /\ giver' = giver
    BY <1>12, Zenon DEF Decide
  <2>3. /\ entry[q] # "none" /\ q \notin auto
        /\ UNCHANGED <<turn, memory, asker, kind, tool, auto, met, early, passed>>
    BY <1>12 DEF Decide
  <2> QED BY <2>1, <2>2, <2>3 DEF Asked
<1>13. CASE UNCHANGED vars
  BY <1>13 DEF vars
<1> QED BY <1>1, <1>2, <1>3, <1>4, <1>5, <1>6, <1>7, <1>8, <1>9, <1>10, <1>11, <1>12, <1>13 DEF Next

LEMMA AnsweredStep == ASSUME IInv, [Next]_vars PROVE Answered'
<1> USE DEF IInv, TypeOK, Goes, Answered, memory, prompt, history
<1>1. CASE Restart
  BY <1>1 DEF Restart, EndTurn
<1>2. ASSUME NEW t \in Turns, Begin(t) PROVE Answered'
  BY <1>2 DEF Begin
<1>3. ASSUME NEW t \in Turns, Vanish(t) PROVE Answered'
  BY <1>3 DEF Vanish
<1>4. ASSUME NEW t \in Turns, Read(t) PROVE Answered'
  BY <1>4 DEF Read
<1>5. ASSUME NEW t \in Turns, Prepare(t) PROVE Answered'
  BY <1>5 DEF Prepare
<1>6. ASSUME NEW t \in Turns, Reply(t) PROVE Answered'
  BY <1>6 DEF Reply
<1>7. ASSUME NEW t \in Turns, Done(t) PROVE Answered'
  BY <1>7 DEF Done, EndTurn
<1>8. ASSUME NEW t \in Turns, Cut(t) PROVE Answered'
  BY <1>8 DEF Cut, EndTurn
<1>9. ASSUME NEW t \in Turns, NEW q \in Reqs, NEW k \in Kinds, Ask(t, q, k) PROVE Answered'
  BY <1>9 DEF Ask
<1>10. ASSUME NEW q \in Reqs, Look(q) PROVE Answered'
  BY <1>10 DEF Look
<1>11. ASSUME NEW q \in Reqs, GiveUp(q) PROVE Answered'
  BY <1>11 DEF GiveUp
<1>12. ASSUME NEW q \in Reqs, NEW allow \in BOOLEAN, NEW forAll \in BOOLEAN,
             Decide(q, allow, forAll) PROVE Answered'
  <2>1. PICK a \in {"yes", "no"} : /\ entry' = [entry EXCEPT ![q] = a]
                                  /\ answer' = [answer EXCEPT ![q] = a]
    BY <1>12, Zenon DEF Decide
  <2>2. \/ always' = always \cup {kind[q]} /\ giver' = [giver EXCEPT ![kind[q]] = asker[q]]
        \/ always' = always /\ giver' = giver
    BY <1>12, Zenon DEF Decide
  <2>3. /\ entry[q] # "none" /\ q \notin auto
        /\ UNCHANGED <<turn, memory, asker, kind, tool, auto, met, early, passed>>
    BY <1>12 DEF Decide
  <2> QED BY <2>1, <2>3 DEF Asked
<1>13. CASE UNCHANGED vars
  BY <1>13 DEF vars
<1> QED BY <1>1, <1>2, <1>3, <1>4, <1>5, <1>6, <1>7, <1>8, <1>9, <1>10, <1>11, <1>12, <1>13 DEF Next

LEMMA KeptStep == ASSUME IInv, [Next]_vars PROVE Kept'
<1> USE DEF IInv, TypeOK, Goes, Lone, Active, Running, Kept, Safe, memory, prompt, history
<1>1. CASE Restart
  BY <1>1 DEF Restart, EndTurn
<1>2. ASSUME NEW t \in Turns, Begin(t) PROVE Kept'
  BY <1>2 DEF Begin
<1>3. ASSUME NEW t \in Turns, Vanish(t) PROVE Kept'
  BY <1>3 DEF Vanish
<1>4. ASSUME NEW t \in Turns, Read(t) PROVE Kept'
  BY <1>4 DEF Read
<1>5. ASSUME NEW t \in Turns, Prepare(t) PROVE Kept'
  BY <1>5 DEF Prepare
<1>6. ASSUME NEW t \in Turns, Reply(t) PROVE Kept'
  BY <1>6 DEF Reply
<1>7. ASSUME NEW t \in Turns, Done(t) PROVE Kept'
  BY <1>7 DEF Done, EndTurn
<1>8. ASSUME NEW t \in Turns, Cut(t) PROVE Kept'
  BY <1>8 DEF Cut, EndTurn
<1>9. ASSUME NEW t \in Turns, NEW q \in Reqs, NEW k \in Kinds, Ask(t, q, k) PROVE Kept'
  BY <1>9 DEF Ask
<1>10. ASSUME NEW q \in Reqs, Look(q) PROVE Kept'
  BY <1>10 DEF Look
<1>11. ASSUME NEW q \in Reqs, GiveUp(q) PROVE Kept'
  BY <1>11 DEF GiveUp
<1>12. ASSUME NEW q \in Reqs, NEW allow \in BOOLEAN, NEW forAll \in BOOLEAN,
             Decide(q, allow, forAll) PROVE Kept'
  BY <1>12 DEF Decide
<1>13. CASE UNCHANGED vars
  BY <1>13 DEF vars
<1> QED BY <1>1, <1>2, <1>3, <1>4, <1>5, <1>6, <1>7, <1>8, <1>9, <1>10, <1>11, <1>12, <1>13 DEF Next

LEMMA IInvStep == IInv /\ [Next]_vars => IInv'
<1> SUFFICES ASSUME IInv, [Next]_vars PROVE IInv' OBVIOUS
<1> QED BY TypeStep, AskedStep, LoneStep, StandingStep, AnsweredStep, KeptStep DEF IInv

LEMMA Inductive == Spec => []IInv
  BY IInvInit, IInvStep, PTL DEF Spec

-----------------------------------------------------------------------------
(* What follows.                                                           *)

\* Types, and that every prompt on the screen has a tool that waits for it.
THEOREM TypeCorrect == Spec => []TypeOK
<1>1. IInv => TypeOK BY DEF IInv
<1> QED BY <1>1, Inductive, PTL

\* No command runs that was not allowed, for any number of overlapping turns.
THEOREM OnlyAllowedRuns == Spec => []RanWasAllowed
<1>1. IInv => RanWasAllowed BY DEF IInv, Answered, RanWasAllowed
<1> QED BY <1>1, Inductive, PTL

\* Nothing is asked and nothing allowed when no turn runs.
THEOREM TurnTakesAll == Spec => []NothingOutlivesTheTurn
<1>1. IInv => NothingOutlivesTheTurn
  BY DEF IInv, TypeOK, Standing, Live, NothingOutlivesTheTurn, Active, Running
<1> QED BY <1>1, Inductive, PTL

\* Prompts stay in the history, but for the three exceptions the property names.
THEOREM PromptsStay == Spec => []PromptIsKept
<1>1. IInv => PromptIsKept BY DEF IInv, Kept, Safe, PromptIsKept
<1> QED BY <1>1, Inductive, PTL

\* A standing permission is used by the turn it was given in.
THEOREM AlwaysIsForOneTurn == Spec => AlwaysEndsWithTurn
<1>1. ASSUME IInv, [Next]_vars, NEW p \in Reqs, p \in auto', p \notin auto
      PROVE  giver[kind'[p]] = asker'[p] \/ {giver[kind'[p]], asker'[p]} \subseteq met
  <2>1. \E t \in Turns, q \in Reqs, k \in Kinds : Ask(t, q, k)
    BY <1>1 DEF Next, Restart, Begin, Vanish, Read, Prepare, Reply, Done, Cut, Look, GiveUp,
                Decide, vars, history
  <2>2. PICK t \in Turns, q \in Reqs, k \in Kinds : Ask(t, q, k) BY <2>1
  <2>3. p = q /\ k \in always BY <1>1, <2>2 DEF Ask
  <2>4. kind'[p] = k /\ asker'[p] = t BY <1>1, <2>2, <2>3 DEF Ask, IInv, TypeOK
  <2>5. giver[k] \in Active /\ t \in Active
    BY <1>1, <2>2, <2>3 DEF IInv, Standing, Live, Active, Running, Ask
  <2> QED BY <1>1, <2>4, <2>5 DEF IInv, Lone
<1>2. IInv /\ [Next]_vars
        => [\A q \in Reqs : q \in auto' \ auto =>
              \/ giver[kind'[q]] = asker'[q]
              \/ {giver[kind'[q]], asker'[q]} \subseteq met]_vars
  BY <1>1
<1> QED BY <1>2, Inductive, PTL DEF Spec, AlwaysEndsWithTurn
=============================================================================
