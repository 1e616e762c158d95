--------------------------- MODULE ActionsProofs ---------------------------
(***************************************************************************)
(* Theorems of Actions, for any number of actions, calls and chats and for *)
(* every bound.                                                            *)
(***************************************************************************)
EXTENDS Actions, TLAPS

Active(c) == phase[c] # "idle"

\* An action that no two calls met on is in one call's hands at most.
Sole ==
    \A c, d \in Calls :
        c # d /\ Active(c) /\ Active(d) /\ act[c] = act[d] => act[c] \in mixed

\* What the queue says of such an action while a call has it.
InStep ==
    \A c \in Calls : Active(c) /\ act[c] \notin mixed =>
        LET a == act[c] IN
        /\ phase[c] \in {"read", "clear"} => status[a] = "pending" /\ ran[a] = 0
        /\ phase[c] \in {"ranOk", "ranBad"} => status[a] = "pending"
        /\ phase[c] = "host" => status[a] = "approved" /\ ran[a] = 0
        /\ phase[c] \in {"reportOk", "reportBad"} => status[a] \in {"approved", "done"}

\* A call only says that an action worked when it did, or when RisuAI said so.
Evidence ==
    \A c \in Calls :
        /\ phase[c] = "ranOk" => ran[act[c]] > 0
        /\ phase[c] = "reportOk" => ran[act[c]] > 0 \/ act[c] \in unkept

NotYetRun == \A a \in Acts \ mixed : status[a] = "none" => ran[a] = 0

Telling == AloneTellsTruth /\ DoneMeansCarriedOut /\ Sole /\ InStep /\ Evidence /\ NotYetRun

-----------------------------------------------------------------------------
(* Types.                                                                  *)

LEMMA TypeInit == Init => TypeOK
<1> SUFFICES ASSUME Init PROVE TypeOK OBVIOUS
<1>1. approve \in [Calls -> BOOLEAN] BY Zenon DEF Init
<1> QED BY <1>1, ActionsAssumption DEF Init, TypeOK, Targets, Statuses, Phases

LEMMA TypeStep == TypeOK /\ [Next]_vars => TypeOK'
<1> SUFFICES ASSUME TypeOK, [Next]_vars PROVE TypeOK' OBVIOUS
<1> USE ActionsAssumption DEF TypeOK, Statuses, Phases, Backend, Plugin, bounds, history, callVars
<1>1. ASSUME NEW a \in Acts, NEW x \in Targets, Propose(a, x) PROVE TypeOK'
  BY <1>1 DEF Propose
<1>2. CASE Panel
  <2>1. CASE Clear BY <2>1 DEF Clear, Pending
  <2>2. ASSUME NEW f \in Fronts, UserEdit(f) PROVE TypeOK'
    BY <2>2 DEF UserEdit, Dirties, Crossing
  <2>3. ASSUME NEW f \in Fronts, Clean(f) PROVE TypeOK' BY <2>3 DEF Clean
  <2> QED BY <1>2, <2>1, <2>2, <2>3 DEF Panel
<1>3. CASE Crash
  <2>1. mixed' \subseteq Acts BY <1>3 DEF Crash
  <2>2. approve' \in [Calls -> BOOLEAN] BY <1>3, Zenon DEF Crash
  <2>3. crossed' \in [Calls -> SUBSET Fronts] BY <1>3 DEF Crash, Crossing
  <2>4. /\ phase' \in [Calls -> Phases] /\ act' \in [Calls -> Acts \cup {NoAct}]
        /\ \A c \in Calls : phase'[c] # "idle" => act'[c] \in Acts
    BY <1>3 DEF Crash
  <2>5. crashesLeft' \in 0..MaxCrashes BY <1>3 DEF Crash
  <2> QED BY <1>3, <2>1, <2>2, <2>3, <2>4, <2>5 DEF Crash
<1>4. ASSUME NEW c \in Calls, Call(c) PROVE TypeOK'
  <2> DEFINE Typed == /\ phase' \in [Calls -> Phases] /\ act' \in [Calls -> Acts \cup {NoAct}]
                      /\ \A d \in Calls : phase'[d] # "idle" => act'[d] \in Acts
                      /\ approve' \in [Calls -> BOOLEAN]
  <2>1. End(c) => Typed
    <3>1. End(c) => approve' \in [Calls -> BOOLEAN] BY Zenon DEF End
    <3> QED BY <3>1 DEF End
  <2>2. ASSUME NEW to \in Phases, Active(c), Step(c, to) PROVE Typed
    BY <2>2 DEF Step, Active
  <2>3. ASSUME NEW s \in Statuses, SetStatus(act[c], s) PROVE status' \in [Acts -> Statuses]
    BY <2>3 DEF SetStatus
  <2>4. Ran(act[c]) => ran' \in [Acts -> 0..2]
    <3> SUFFICES ASSUME Ran(act[c]), NEW a \in Acts PROVE ran'[a] \in 0..2
      BY DEF Ran
    <3>1. \A n \in 0..2 : (IF n < 2 THEN n + 1 ELSE 2) \in 0..2 OBVIOUS
    <3>2. ran[a] \in 0..2 OBVIOUS
    <3> QED BY <3>1, <3>2 DEF Ran
  <2>5. ASSUME NEW fs \in SUBSET Fronts, Dirties(fs)
        PROVE  dirty' \subseteq Fronts /\ crossed' \in [Calls -> SUBSET Fronts]
    BY <2>5 DEF Dirties, Crossing
  <2> HIDE DEF Typed
  <2>6. ASSUME NEW a \in Acts, NEW yes \in BOOLEAN, Read(c, a, yes) PROVE TypeOK'
    <3>1. approve' \in [Calls -> BOOLEAN] BY <2>6, Zenon DEF Read
    <3>2. mixed' \subseteq Acts BY <2>6 DEF Read
    <3> QED BY <2>6, <3>1, <3>2 DEF Read
  <2>7. CASE Reject(c) BY <2>7, <2>1, <2>3 DEF Reject, Typed
  <2>8. CASE CheckFronts(c) BY <2>8, <2>1, <2>2 DEF CheckFronts, Typed, Active
  <2>9. CASE HandOver(c) BY <2>9, <2>2, <2>3 DEF HandOver, Typed, Active
  <2>10. CASE Execute(c)
    <3>1. Typed BY <2>10, <2>2 DEF Execute, Active
    <3>2. dirty' \subseteq Fronts /\ crossed' \in [Calls -> SUBSET Fronts]
      BY <2>10, <2>5 DEF Execute
    <3>3. ran' \in [Acts -> 0..2] BY <2>10, <2>4 DEF Execute
    <3> QED BY <2>10, <3>1, <3>2, <3>3 DEF Execute, Typed
  <2>11. CASE Finish(c) BY <2>11, <2>1, <2>3 DEF Finish, Typed
  <2>12. CASE CarryOut(c)
    <3>1. Typed BY <2>12, <2>2 DEF CarryOut, Active
    <3>2. ran' \in [Acts -> 0..2] BY <2>12, <2>4 DEF CarryOut
    <3>3. unkept' \subseteq Acts BY <2>12 DEF CarryOut
    <3>4. dirty' \subseteq Fronts BY <2>12 DEF CarryOut
    <3> QED BY <2>12, <3>1, <3>2, <3>3, <3>4 DEF CarryOut, Typed
  <2>13. CASE Report(c)
    <3>1. Typed BY <2>13, <2>1, <2>2 DEF Report, Active
    <3>2. status' \in [Acts -> Statuses] BY <2>13, <2>3 DEF Report
    <3> QED BY <2>13, <3>1, <3>2 DEF Report, Typed
  <2>14. CASE Abandon(c) BY <2>14, <2>1 DEF Abandon, Typed
  <2> QED BY <1>4, <2>6, <2>7, <2>8, <2>9, <2>10, <2>11, <2>12, <2>13, <2>14 DEF Call
<1>5. CASE UNCHANGED vars BY <1>5 DEF vars
<1> QED BY <1>1, <1>2, <1>3, <1>4, <1>5 DEF Next

\* Every reachable state is of the declared types, and a call that is under way
\* is about a proposed action.
THEOREM TypeCorrect == Spec => []TypeOK
  BY TypeInit, TypeStep, PTL DEF Spec

-----------------------------------------------------------------------------
(* What the queue says. Two calls hold one action only when it is in mixed: *)
(* the second read it as pending while the first had it. For every other    *)
(* action the status says how far its one call has come.                    *)

LEMMA TellingInit == Init => Telling
  BY DEF Init, Telling, AloneTellsTruth, DoneMeansCarriedOut, Sole, InStep, Evidence,
         NotYetRun, InHand, Active

LEMMA TellingStep == TypeOK /\ Telling /\ [Next]_vars => Telling'
<1> SUFFICES ASSUME TypeOK, Telling, [Next]_vars PROVE Telling' OBVIOUS
<1> USE ActionsAssumption DEF TypeOK, Telling, AloneTellsTruth, DoneMeansCarriedOut, Sole,
        InStep, Evidence, NotYetRun, InHand, Active, Backend, bounds, history, callVars
<1>1. ASSUME NEW a \in Acts, NEW x \in Targets, Propose(a, x) PROVE Telling'
  BY <1>1 DEF Propose
<1>2. CASE Panel
  <2>1. CASE Clear BY <2>1 DEF Clear, Pending
  <2>2. ASSUME NEW f \in Fronts, UserEdit(f) PROVE Telling' BY <2>2 DEF UserEdit
  <2>3. ASSUME NEW f \in Fronts, Clean(f) PROVE Telling' BY <2>3 DEF Clean
  <2> QED BY <1>2, <2>1, <2>2, <2>3 DEF Panel
<1>3. CASE Crash BY <1>3 DEF Crash
<1>4. ASSUME NEW c \in Calls, Call(c) PROVE Telling'
  <2> USE DEF End, Step, SetStatus, Ran
  <2>1. ASSUME NEW a \in Acts, NEW yes \in BOOLEAN, Read(c, a, yes) PROVE Telling'
    <3>1. /\ phase[c] = "idle" /\ status[a] = "pending"
          /\ phase' = [phase EXCEPT ![c] = "read"] /\ act' = [act EXCEPT ![c] = a]
          /\ mixed \subseteq mixed' /\ (InHand(a) => a \in mixed')
          /\ UNCHANGED <<status, ran, unkept>>
      BY <2>1 DEF Read
    <3>2. Sole'
      <4>1. ASSUME NEW d \in Calls, d # c, Active(d), act[d] = a PROVE a \in mixed'
        BY <3>1, <4>1, ActionsAssumption DEF Phases, Plugin
      <4> QED BY <3>1, <4>1
    <3>3. AloneTellsTruth' BY <3>1
    <3>4. InStep' BY <3>1
    <3>5. DoneMeansCarriedOut' /\ Evidence' /\ NotYetRun' BY <3>1
    <3> QED BY <3>2, <3>3, <3>4, <3>5
  <2>2. CASE Reject(c) BY <2>2 DEF Reject
  <2>3. CASE CheckFronts(c) BY <2>3 DEF CheckFronts
  <2>4. CASE HandOver(c) BY <2>4 DEF HandOver
  <2>5. CASE Execute(c)
    <3>1. /\ act[c] \in Acts /\ phase[c] \in {"read", "clear"}
          /\ phase'[c] \in {"ranOk", "ranBad"} /\ \A d \in Calls \ {c} : phase'[d] = phase[d]
          /\ UNCHANGED <<status, act, unkept, mixed>>
      BY <2>5 DEF Execute
    <3>2. /\ ran' \in [Acts -> 0..2]
          /\ \A a \in Acts \ {act[c]} : ran'[a] = ran[a]
          /\ ran[act[c]] > 0 => ran'[act[c]] > 0
          /\ ran[act[c]] = 0 => ran'[act[c]] \in {0, 1}
          /\ phase'[c] = "ranOk" => ran'[act[c]] > 0
      BY <2>5 DEF Execute
    <3>3. AloneTellsTruth' BY <3>1, <3>2
    <3>4. DoneMeansCarriedOut' BY <3>1, <3>2
    <3>5. Sole' BY <3>1
    <3>6. InStep' BY <3>1, <3>2
    <3>7. Evidence' BY <3>1, <3>2
    <3>8. NotYetRun' BY <3>1, <3>2
    <3> QED BY <3>3, <3>4, <3>5, <3>6, <3>7, <3>8
  <2>6. CASE Finish(c) BY <2>6 DEF Finish
  <2>7. CASE CarryOut(c) BY <2>7 DEF CarryOut
  <2>8. CASE Report(c) BY <2>8 DEF Report
  <2>9. CASE Abandon(c) BY <2>9 DEF Abandon, Plugin
  <2> QED BY <1>4, <2>1, <2>2, <2>3, <2>4, <2>5, <2>6, <2>7, <2>8, <2>9 DEF Call
<1>5. CASE UNCHANGED vars BY <1>5 DEF vars
<1> QED BY <1>1, <1>2, <1>3, <1>4, <1>5 DEF Next

\* Unless two calls met on an action or a restart cut its executor from its
\* record, it runs once at most and the queue says of it what happened.
THEOREM QueueTellsTruth == Spec => []AloneTellsTruth
  BY TypeInit, TypeStep, TellingInit, TellingStep, PTL DEF Spec, Telling

\* Whatever calls meet on it, an action filed as done was carried out or RisuAI
\* dropped the write.
THEOREM DoneIsCarriedOut == Spec => []DoneMeansCarriedOut
  BY TypeInit, TypeStep, TellingInit, TellingStep, PTL DEF Spec, Telling

-----------------------------------------------------------------------------
(* The one-dirty-thing rule. What is dirty beside the front of a call that  *)
(* passed the check got dirty after it.                                     *)

Checked ==
    \A c \in Calls :
        /\ Active(c) => status[act[c]] # "none"
        /\ phase[c] = "clear" =>
             /\ target[act[c]] \in Fronts
             /\ dirty \ {target[act[c]]} \subseteq crossed[c]
        /\ crossed[c] # {} => phase[c] = "clear"

LEMMA CheckedInit == Init => Checked
  BY DEF Init, Checked, Active

LEMMA CheckedStep == TypeOK /\ Checked /\ [Next]_vars => Checked'
<1> SUFFICES ASSUME TypeOK, Checked, [Next]_vars PROVE Checked' OBVIOUS
<1> USE DEF TypeOK, Checked, Active, bounds, history, callVars
<1>1. ASSUME NEW a \in Acts, NEW x \in Targets, Propose(a, x) PROVE Checked'
  BY <1>1 DEF Propose
<1>2. CASE Panel
  <2>1. CASE Clear BY <2>1 DEF Clear, Pending
  <2>2. ASSUME NEW f \in Fronts, UserEdit(f) PROVE Checked'
    BY <2>2 DEF UserEdit, Dirties, Crossing
  <2>3. ASSUME NEW f \in Fronts, Clean(f) PROVE Checked' BY <2>3 DEF Clean
  <2> QED BY <1>2, <2>1, <2>2, <2>3 DEF Panel
<1>3. CASE Crash BY <1>3 DEF Crash, Crossing, Backend
<1>4. ASSUME NEW c \in Calls, Call(c) PROVE Checked'
  <2> USE DEF End, Step, SetStatus
  <2>1. ASSUME NEW a \in Acts, NEW yes \in BOOLEAN, Read(c, a, yes) PROVE Checked'
    BY <2>1 DEF Read
  <2>2. CASE Reject(c) BY <2>2 DEF Reject
  <2>3. CASE CheckFronts(c) BY <2>3 DEF CheckFronts, Blocked
  <2>4. CASE HandOver(c) BY <2>4 DEF HandOver
  <2>5. CASE Execute(c) BY <2>5 DEF Execute, Dirties, Crossing
  <2>6. CASE Finish(c) BY <2>6 DEF Finish
  <2>7. CASE CarryOut(c) BY <2>7 DEF CarryOut
  <2>8. CASE Report(c) BY <2>8 DEF Report
  <2>9. CASE Abandon(c) BY <2>9 DEF Abandon, Plugin
  <2> QED BY <1>4, <2>1, <2>2, <2>3, <2>4, <2>5, <2>6, <2>7, <2>8, <2>9 DEF Call
<1>5. CASE UNCHANGED vars BY <1>5 DEF vars
<1> QED BY <1>1, <1>2, <1>3, <1>4, <1>5 DEF Next

LEMMA ExecuteGuarded ==
  ASSUME TypeOK, Checked, [Next]_vars, NEW c \in Calls,
         phase[c] \in {"read", "clear"}, phase'[c] \in {"ranOk", "ranBad"}, dirty' # dirty
  PROVE  dirty \subseteq crossed[c]
<1> USE DEF TypeOK, bounds, history, callVars
<1>1. Execute(c)
  BY DEF Next, Panel, Call, Propose, Clear, UserEdit, Clean, Crash, Read, Reject, CheckFronts,
         HandOver, Execute, Finish, CarryOut, Report, Abandon, End, Step, Backend, Plugin, vars
<1>2. dirty' = dirty \cup ({target[act[c]]} \cap Fronts) \/ dirty' = dirty
  BY <1>1 DEF Execute, Dirties
<1>3. target[act[c]] \in Fronts /\ target[act[c]] \notin dirty BY <1>2
<1>4. phase[c] = "clear" BY <1>1, <1>3, ActionsAssumption DEF Execute
<1> QED BY <1>3, <1>4 DEF Checked

\* An approval opens a second dirty front only when the first got dirty between
\* its check and its write.
THEOREM FrontsAreGuarded == Spec => GuardedFronts
<1>1. TypeOK /\ Checked /\ [Next]_vars =>
        [\A c \in Calls :
           phase[c] \in {"read", "clear"} /\ phase'[c] \in {"ranOk", "ranBad"} /\ dirty' # dirty
             => dirty \subseteq crossed[c]]_vars
  BY ExecuteGuarded
<1> QED BY <1>1, TypeInit, TypeStep, CheckedInit, CheckedStep, PTL DEF Spec, GuardedFronts
=============================================================================
