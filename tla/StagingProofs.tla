--------------------------- MODULE StagingProofs ---------------------------
(***************************************************************************)
(* Theorems of Staging, for any number of turns, proposals and concurrent  *)
(* approvals and for every bound.                                          *)
(***************************************************************************)
EXTENDS Staging, TLAPS

-----------------------------------------------------------------------------
(* Types.                                                                  *)

LEMMA TypeInit == Init => TypeOK
<1> SUFFICES ASSUME Init PROVE TypeOK OBVIOUS
<1>1. body \in [Turns -> Texts] BY DEF Init, Texts
<1>2. row \in [Props -> Row]
  <2>1. PICK t \in Turns, b \in Batches :
          row = [p \in Props |-> [op |-> "edit", turn |-> t, before |-> Absent,
                                  after |-> Absent, batch |-> b]]
    BY DEF Init
  <2>2. [op |-> "edit", turn |-> t, before |-> Absent, after |-> Absent, batch |-> b] \in Row
    BY DEF Row, Ops, Texts
  <2> QED BY <2>1, <2>2
<1>3. /\ status \in [Props -> Statuses] /\ effects \in [Props -> 0..2]
      /\ phase \in [Requests -> Phases] /\ approve \in [Requests -> BOOLEAN]
  BY DEF Init, Statuses, Phases
<1>4. /\ rows \in [Requests -> SUBSET Props] /\ left \in [Requests -> SUBSET Props]
      /\ \A r \in Requests : left[r] \subseteq rows[r]
      /\ moved \in [Requests -> SUBSET Turns]
  BY DEF Init
<1>5. blocked \in BOOLEAN BY Zenon DEF Init
<1>6. editsLeft \in 0..MaxEdits /\ crashesLeft \in 0..MaxCrashes
  BY StagingAssumption DEF Init
<1> QED BY <1>1, <1>2, <1>3, <1>4, <1>5, <1>6 DEF TypeOK

LEMMA TypeStep == TypeOK /\ [Next]_vars => TypeOK'
<1> SUFFICES ASSUME TypeOK, [Next]_vars PROVE TypeOK' OBVIOUS
<1> USE StagingAssumption DEF TypeOK, Statuses, Phases, bounds, reqVars
<1>1. ASSUME NEW S \in SUBSET Props, NEW b \in Batches, ToolCall(S, b) PROVE TypeOK'
  <2>1. row' \in [Props -> Row] BY <1>1, Zenon DEF ToolCall
  <2> QED BY <1>1, <2>1 DEF ToolCall
<1>2. ASSUME NEW p \in Props, StoreRow(p) PROVE TypeOK'
  BY <1>2 DEF StoreRow
<1>3. CASE User
  <2>1. ASSUME NEW t \in Turns, NEW x \in Texts, UserEdit(t, x) PROVE TypeOK'
    <3>1. body' \in [Turns -> Texts] BY <2>1 DEF UserEdit
    <3>2. moved' \in [Requests -> SUBSET Turns] BY <2>1 DEF UserEdit, Touch
    <3> QED BY <2>1, <3>1, <3>2 DEF UserEdit
  <2>2. CASE OtherScope
    <3>1. blocked' \in BOOLEAN BY <2>2, Zenon DEF OtherScope
    <3> QED BY <2>2, <3>1 DEF OtherScope
  <2>3. CASE ClearStaged BY <2>3 DEF ClearStaged
  <2> QED BY <1>3, <2>1, <2>2, <2>3 DEF User
<1>4. CASE Crash BY <1>4 DEF Crash
<1>5. ASSUME NEW r \in Requests, Handle(r) PROVE TypeOK'
  <2> USE DEF End, Step, Works, Touch, Applied, Did
  <2>1. ASSUME NEW yes \in BOOLEAN, Press(r, yes) PROVE TypeOK' BY <2>1 DEF Press, With
  <2>2. CASE Decide(r) BY <2>2 DEF Decide, Decided, Answer
  <2>3. CASE RefuseScope(r) BY <2>3 DEF RefuseScope
  <2>14. CASE End(r) /\ UNCHANGED <<body, row, status, effects, blocked, bounds>>
    BY <2>14
  <2>4. CASE Select(r)
    <3>1. With("approved") \in SUBSET Props BY DEF With
    <3>2. CASE With("approved") # {}
      <4>1. /\ phase' \in [Requests -> Phases] /\ rows' \in [Requests -> SUBSET Props]
            /\ left' \in [Requests -> SUBSET Props]
            /\ \A q \in Requests : left'[q] \subseteq rows'[q]
        BY <2>4, <3>1, <3>2 DEF Select
      <4> QED BY <2>4, <3>2, <4>1 DEF Select
    <3> QED BY <2>4, <2>14, <3>2 DEF Select
  <2>5. ASSUME NEW p \in Props, CheckRow(r, p) PROVE TypeOK'
    <3>1. CASE Fits(p)
      <4>1. /\ phase' \in [Requests -> Phases] /\ rows' \in [Requests -> SUBSET Props]
            /\ left' \in [Requests -> SUBSET Props]
            /\ \A q \in Requests : left'[q] \subseteq rows'[q]
        BY <2>5, <3>1 DEF CheckRow
      <4> QED BY <2>5, <3>1, <4>1 DEF CheckRow
    <3> QED BY <2>5, <2>14, <3>1 DEF CheckRow
  <2>0. \A ps : Did(ps) => effects' \in [Props -> 0..2]
    <3> SUFFICES ASSUME NEW ps, Did(ps) PROVE effects' \in [Props -> 0..2] OBVIOUS
    <3>1. \A n \in 0..2 : n < 2 => n + 1 \in 0..2 OBVIOUS
    <3> QED BY <3>1
  <2> HIDE DEF Did
  <2>10. \A ts \in SUBSET Turns : Touch(ts) => moved' \in [Requests -> SUBSET Turns] OBVIOUS
  <2>11. \A p \in Props : row[p].turn \in Turns /\ row[p].after \in Texts BY DEF Row
  <2>13. ASSUME NEW ps \in SUBSET Props, Applied(r, ps), body' \in [Turns -> Texts],
                moved' \in [Requests -> SUBSET Turns]
         PROVE  TypeOK'
    BY <2>0, <2>13
  <2> HIDE DEF Applied, Touch
  <2>6. ASSUME NEW p \in Props, ApplyEdit(r, p) PROVE TypeOK'
    BY <2>6, <2>10, <2>11, <2>14, <2>13 DEF ApplyEdit
  <2>7. ASSUME NEW p \in Props, ApplyInsert(r, p) PROVE TypeOK'
    BY <2>7, <2>14, <2>13 DEF ApplyInsert
  <2>8. CASE ApplyDeletes(r)
    <3>1. {row[p].turn : p \in left[r]} \in SUBSET Turns BY <2>11
    <3>2. body' \in [Turns -> Texts] BY <2>8 DEF ApplyDeletes, Texts
    <3>3. left[r] \in SUBSET Props OBVIOUS
    <3> QED BY <2>8, <2>10, <2>13, <3>1, <3>2, <3>3 DEF ApplyDeletes
  <2>9. CASE Mark(r) BY <2>9 DEF Mark
  <2> QED BY <1>5, <2>1, <2>2, <2>3, <2>4, <2>5, <2>6, <2>7, <2>8, <2>9 DEF Handle
<1>6. CASE UNCHANGED vars BY <1>6 DEF vars
<1> QED BY <1>1, <1>2, <1>3, <1>4, <1>5, <1>6 DEF Next, Agent

\* Every reachable state is of the declared types, and no request ever works on
\* a row it did not select.
THEOREM TypeCorrect == Spec => []TypeOK
  BY TypeInit, TypeStep, PTL DEF Spec

-----------------------------------------------------------------------------
(* Approval. The rows a request has selected stay approved or applied under *)
(* it: no answer, restart or clearing touches a row that is not pending.    *)

Busy(r) == phase[r] \in {"checking", "applying"}

SelectedStay ==
    \A r \in Requests : Busy(r) => \A p \in rows[r] : status[p] \in {"approved", "applied"}

DoneInOrder ==
    \A r \in Requests : phase[r] = "applying" => \A p \in rows[r] \ left[r] : effects[p] > 0

Approval == OnlyApproved /\ AppliedTookEffect /\ SelectedStay /\ DoneInOrder

LEMMA ApprovalInit == Init => Approval
  BY DEF Init, Approval, OnlyApproved, AppliedTookEffect, SelectedStay, DoneInOrder, Busy

LEMMA ApprovalStep == TypeOK /\ Approval /\ [Next]_vars => Approval'
<1> SUFFICES ASSUME TypeOK, Approval, [Next]_vars PROVE Approval' OBVIOUS
<1> USE DEF TypeOK, Approval, OnlyApproved, AppliedTookEffect, SelectedStay, DoneInOrder, Busy,
            bounds, reqVars
<1>1. ASSUME NEW S \in SUBSET Props, NEW b \in Batches, ToolCall(S, b) PROVE Approval'
  <2>1. \A p \in S : status[p] = "none" BY <1>1 DEF ToolCall, With
  <2> QED BY <1>1, <2>1 DEF ToolCall
<1>2. ASSUME NEW p \in Props, StoreRow(p) PROVE Approval'
  BY <1>2 DEF StoreRow
<1>3. CASE User BY <1>3 DEF User, UserEdit, OtherScope, ClearStaged
<1>4. CASE Crash BY <1>4 DEF Crash
<1>5. ASSUME NEW r \in Requests, Handle(r) PROVE Approval'
  <2> USE DEF End, Step, Works, Applied, Did
  <2>1. ASSUME NEW yes \in BOOLEAN, Press(r, yes) PROVE Approval' BY <2>1 DEF Press
  <2>2. CASE Decide(r) BY <2>2 DEF Decide, Decided, Answer
  <2>3. CASE RefuseScope(r) BY <2>3 DEF RefuseScope
  <2>4. CASE Select(r) BY <2>4 DEF Select, With
  <2>5. ASSUME NEW p \in Props, CheckRow(r, p) PROVE Approval' BY <2>5 DEF CheckRow
  <2>6. ASSUME NEW p \in Props, ApplyEdit(r, p) PROVE Approval'
    BY <2>6 DEF ApplyEdit, OpsIn
  <2>7. ASSUME NEW p \in Props, ApplyInsert(r, p) PROVE Approval'
    BY <2>7 DEF ApplyInsert, OpsIn
  <2>8. CASE ApplyDeletes(r) BY <2>8 DEF ApplyDeletes, OpsIn
  <2>9. CASE Mark(r) BY <2>9 DEF Mark
  <2> QED BY <1>5, <2>1, <2>2, <2>3, <2>4, <2>5, <2>6, <2>7, <2>8, <2>9 DEF Handle
<1>6. CASE UNCHANGED vars BY <1>6 DEF vars
<1> QED BY <1>1, <1>2, <1>3, <1>4, <1>5, <1>6 DEF Next, Agent

\* Whatever answers, tool calls, edits and restarts interleave, a proposal that
\* reached the transcript had been approved and never rejected or cleared.
THEOREM NothingUnapproved == Spec => []OnlyApproved
  BY TypeInit, TypeStep, ApprovalInit, ApprovalStep, PTL DEF Spec, Approval

\* And one filed as applied did reach it.
THEOREM AppliedIsApplied == Spec => []AppliedTookEffect
  BY TypeInit, TypeStep, ApprovalInit, ApprovalStep, PTL DEF Spec, Approval

-----------------------------------------------------------------------------
(* The guard. What a request has found to fit goes on fitting, or is noted  *)
(* as moved; its rows say the same all along because they are answered.     *)

\* The rows a request has looked at and not carried out.
Seen(r) == IF phase[r] = "checking" THEN rows[r] \ left[r]
           ELSE IF phase[r] = "applying" THEN left[r] ELSE {}

Fitting ==
    \A r \in Requests : \A p \in Seen(r) : Fits(p) \/ row[p].turn \in moved[r]

LEMMA FittingInit == Init => Fitting
  BY DEF Init, Fitting, Seen

LEMMA FittingStep == TypeOK /\ Approval /\ Fitting /\ [Next]_vars => Fitting'
<1> SUFFICES ASSUME TypeOK, Approval, Fitting, [Next]_vars PROVE Fitting' OBVIOUS
<1> USE DEF bounds, reqVars
<1>0. \A r \in Requests : Seen(r) \subseteq rows[r] /\ Seen(r) \subseteq Props
  BY DEF Seen, TypeOK
\* What nobody looks at may change; what somebody looks at is answered.
<1>1. ASSUME NEW S \in SUBSET Props, NEW b \in Batches, ToolCall(S, b) PROVE Fitting'
  <2>1. \A p \in S : status[p] = "none" BY <1>1 DEF ToolCall, With
  <2>2. \A r \in Requests : \A p \in Seen(r) : p \notin S
    BY <1>0, <2>1 DEF Approval, SelectedStay, Busy, Seen
  <2>3. \A r \in Requests : Seen(r)' = Seen(r) BY <1>1 DEF ToolCall, Seen
  <2>4. \A p \in Props \ S : row'[p] = row[p] BY <1>1 DEF ToolCall
  <2> QED BY <1>0, <1>1, <2>2, <2>3, <2>4 DEF ToolCall, Fitting, Fits
\* Changes of the transcript are noted for every request that looks.
<1>2. ASSUME NEW ts \in SUBSET Turns, Touch(ts), UNCHANGED <<row, phase>>,
             \A t \in Turns \ ts : body'[t] = body[t],
             \A r \in Requests : Seen(r)' \subseteq Seen(r)
      PROVE  Fitting'
  <2> SUFFICES ASSUME NEW r \in Requests, NEW p \in Seen(r)'
               PROVE  Fits(p)' \/ row[p].turn \in moved'[r]
    BY <1>2 DEF Fitting
  <2>1. p \in Seen(r) /\ p \in Props BY <1>0, <1>2
  <2>2. phase[r] \in {"checking", "applying"} BY <2>1 DEF Seen
  <2>3. moved'[r] = moved[r] \cup ts BY <1>2, <2>2 DEF Touch
  <2>4. row[p].turn \in Turns BY <2>1 DEF TypeOK, Row
  <2> QED BY <1>2, <2>1, <2>3, <2>4 DEF Fitting, Fits
<1>3. ASSUME UNCHANGED <<body, row, phase, rows, left, moved>> PROVE Fitting'
  BY <1>3 DEF Fitting, Fits, Seen
<1>4. CASE User
  <2>1. ASSUME NEW t \in Turns, NEW x \in Texts, UserEdit(t, x) PROVE Fitting'
    <3>1. \A u \in Turns \ {t} : body'[u] = body[u] BY <2>1 DEF UserEdit, TypeOK
    <3>2. \A r \in Requests : Seen(r)' = Seen(r) BY <2>1 DEF UserEdit, Seen
    <3> QED BY <1>2, <2>1, <3>1, <3>2 DEF UserEdit
  <2> QED BY <1>3, <1>4, <2>1 DEF User, OtherScope, ClearStaged
<1>5. CASE Crash BY <1>5 DEF Crash, Fitting, Seen
<1>6. ASSUME NEW r \in Requests, Handle(r) PROVE Fitting'
  \* A step of r that leaves the transcript alone, and what it has now.
  <2>1. ASSUME UNCHANGED <<body, row>>,
               \A q \in Requests \ {r} : /\ phase'[q] = phase[q] /\ rows'[q] = rows[q]
                                         /\ left'[q] = left[q] /\ moved'[q] = moved[q],
               \A p \in Seen(r)' : Fits(p) \/ row[p].turn \in moved'[r]
        PROVE  Fitting'
    <3>1. \A q \in Requests \ {r} : Seen(q)' = Seen(q) BY <2>1 DEF Seen
    <3> QED BY <2>1, <3>1 DEF Fitting, Fits
  <2>2. ASSUME End(r), UNCHANGED <<body, row>> PROVE Fitting'
    <3>1. Seen(r)' = {} BY <2>2 DEF End, Step, Seen, TypeOK
    <3> QED BY <2>1, <2>2, <3>1 DEF End, Step, Works, TypeOK
  <2>3. ASSUME NEW yes \in BOOLEAN, Press(r, yes) PROVE Fitting'
    <3>1. Seen(r)' = {} BY <2>3 DEF Press, Step, Seen, TypeOK
    <3> QED BY <2>1, <2>3, <3>1 DEF Press, Step, Works, TypeOK
  <2>4. CASE Decide(r)
    <3>1. CASE ~approve[r] BY <2>2, <2>4, <3>1 DEF Decide, Decided
    <3>2. CASE approve[r]
      <4>1. Seen(r)' = {} BY <2>4, <3>2 DEF Decide, Decided, Step, Seen, TypeOK
      <4> QED BY <2>1, <2>4, <3>2, <4>1 DEF Decide, Decided, Step, Works, TypeOK
    <3> QED BY <3>1, <3>2
  <2>5. CASE RefuseScope(r) BY <2>2, <2>5 DEF RefuseScope
  <2>6. CASE Select(r)
    <3>1. CASE With("approved") = {} BY <2>2, <2>6, <3>1 DEF Select
    <3>2. CASE With("approved") # {}
      <4>1. Seen(r)' = {} BY <2>6, <3>2 DEF Select, Step, Works, Seen, TypeOK
      <4> QED BY <2>1, <2>6, <3>2, <4>1 DEF Select, Step, Works, TypeOK
    <3> QED BY <3>1, <3>2
  <2>7. ASSUME NEW p \in Props, CheckRow(r, p) PROVE Fitting'
    <3>1. CASE ~Fits(p) BY <2>2, <2>7, <3>1 DEF CheckRow
    <3>2. CASE Fits(p)
      <4>1. Seen(r)' \subseteq Seen(r) \cup {p}
        BY <2>7, <3>2 DEF CheckRow, Step, Works, Seen, TypeOK
      <4>2. moved' = moved /\ UNCHANGED <<body, row>> BY <2>7, <3>2 DEF CheckRow
      <4>3. \A q \in Requests \ {r} : /\ phase'[q] = phase[q] /\ rows'[q] = rows[q]
                                       /\ left'[q] = left[q]
        BY <2>7, <3>2 DEF CheckRow, Step, Works, TypeOK
      <4> QED BY <2>1, <3>2, <4>1, <4>2, <4>3 DEF Fitting
    <3> QED BY <3>1, <3>2
  \* What is carried out is no longer to do.
  <2>8. ASSUME NEW ps, phase[r] = "applying", Applied(r, ps)
        PROVE  \A q \in Requests : Seen(q)' \subseteq Seen(q)
    BY <2>8 DEF Applied, Works, Seen, TypeOK
  <2>9. ASSUME NEW p \in Props, ApplyEdit(r, p) PROVE Fitting'
    <3>1. CASE body[row[p].turn] = Absent BY <2>2, <2>9, <3>1 DEF ApplyEdit
    <3>2. CASE body[row[p].turn] # Absent
      <4>1. /\ body' = [body EXCEPT ![row[p].turn] = row[p].after]
            /\ Touch({row[p].turn}) /\ Applied(r, {p}) /\ phase[r] = "applying"
        BY <2>9, <3>2 DEF ApplyEdit
      <4>2. row[p].turn \in Turns BY DEF TypeOK, Row
      <4>3. \A t \in Turns \ {row[p].turn} : body'[t] = body[t] BY <4>1 DEF TypeOK
      <4> QED BY <1>2, <2>8, <4>1, <4>2, <4>3 DEF Applied
    <3> QED BY <3>1, <3>2
  <2>10. ASSUME NEW p \in Props, ApplyInsert(r, p) PROVE Fitting'
    <3>1. CASE body[row[p].turn] = Absent BY <2>2, <2>10, <3>1 DEF ApplyInsert
    <3>2. CASE body[row[p].turn] # Absent
      <4>1. Applied(r, {p}) /\ UNCHANGED <<body, moved>> /\ phase[r] = "applying"
        BY <2>10, <3>2 DEF ApplyInsert
      <4>2. \A q \in Requests : Seen(q)' \subseteq Seen(q) BY <2>8, <4>1
      <4> QED BY <4>1, <4>2 DEF Applied, Fitting, Fits
    <3> QED BY <3>1, <3>2
  <2>11. CASE ApplyDeletes(r)
    <3> DEFINE ts == {row[p].turn : p \in left[r]}
    <3>1. ts \in SUBSET Turns BY DEF TypeOK, Row
    <3>2. \A t \in Turns \ ts : body'[t] = body[t] BY <2>11 DEF ApplyDeletes
    <3>3. Touch(ts) /\ Applied(r, left[r]) /\ phase[r] = "applying" BY <2>11 DEF ApplyDeletes
    <3> QED BY <1>2, <2>8, <3>1, <3>2, <3>3 DEF Applied
  <2>12. CASE Mark(r) BY <2>2, <2>12 DEF Mark
  <2> QED BY <1>6, <2>3, <2>4, <2>5, <2>6, <2>7, <2>9, <2>10, <2>11, <2>12 DEF Handle
<1>7. CASE UNCHANGED vars BY <1>3, <1>7 DEF vars
<1> QED BY <1>1, <1>3, <1>4, <1>5, <1>6, <1>7 DEF Next, Agent, StoreRow

\* Whatever edits, approvals and restarts come in between, carrying out a
\* proposal takes away only the text it was made against, or one that got there
\* after the request had looked.
THEOREM ApplyIsGuarded == Spec => GuardedApply
<1>1. TypeOK /\ Fitting =>
        \A r \in Requests : \A p \in left[r] :
           (phase[r] = "applying" /\ row[p].op # "insert" /\ effects'[p] > effects[p])
              => \/ body[row[p].turn] = row[p].before
                 \/ row[p].turn \in moved[r]
  BY DEF Fitting, Seen, Fits, TypeOK
<1> QED
  BY <1>1, TypeInit, TypeStep, ApprovalInit, ApprovalStep, FittingInit, FittingStep, PTL
  DEF Spec, GuardedApply

-----------------------------------------------------------------------------
(* The handlers implement the gate. SelectedStay is what makes a write of a *)
(* request the carrying out of something allowed.                           *)

LEMMA GateInit == Init => G!Init
<1> SUFFICES ASSUME Init PROVE G!Init OBVIOUS
<1>1. body \in [Turns -> Texts \ {Absent}] BY StagingAssumption DEF Init, Texts
<1>2. \A p \in Props : Verdict(p) = "open" BY DEF Init, Verdict
<1> QED BY <1>1, <1>2 DEF G!Init

\* A step that leaves transcript and proposals alone and answers only rows
\* nobody has answered is a decision.
LEMMA DecideMaps ==
    ASSUME UNCHANGED <<body, row>>,
           \A p \in Props : Verdict(p) # "open" => Verdict(p)' = Verdict(p)
    PROVE  G!Decide
<1>1. [p \in Props |-> Verdict(p)]' \in [Props -> {"open", "allowed", "refused"}]
  BY DEF Verdict
<1> QED BY <1>1 DEF G!Decide

\* A step that changes only turns of rows a request has selected carries out
\* what was allowed.
LEMMA CarryMaps ==
    ASSUME TypeOK, Approval, NEW r \in Requests, phase[r] = "applying",
           UNCHANGED <<row, status>>, body' \in [Turns -> Texts],
           \A t \in Turns : \/ body'[t] = body[t]
                            \/ \E p \in left[r] : /\ row[p].turn = t /\ row[p].op # "insert"
                                                  /\ body'[t] = row[p].after
    PROVE  G!CarryOut
<1>1. \A p \in left[r] : p \in Props /\ Verdict(p) = "allowed"
  BY DEF TypeOK, Approval, SelectedStay, Busy, Verdict
<1>2. \A p \in left[r] : p \in G!Allowed BY <1>1 DEF G!Allowed
<1>3. UNCHANGED [p \in Props |-> Verdict(p)] BY DEF Verdict
<1> QED BY <1>2, <1>3 DEF G!CarryOut

\* A row that deletes names no text to leave behind.
DeletesClear == \A p \in Props : row[p].op = "delete" => row[p].after = Absent

LEMMA DeletesClearInit == Init => DeletesClear
  BY DEF Init, DeletesClear

LEMMA DeletesClearStep == TypeOK /\ DeletesClear /\ [Next]_vars => DeletesClear'
<1> SUFFICES ASSUME TypeOK, DeletesClear, [Next]_vars PROVE DeletesClear' OBVIOUS
<1>1. ASSUME NEW S \in SUBSET Props, NEW b \in Batches, ToolCall(S, b) PROVE DeletesClear'
  <2>1. PICK d \in [S -> {x \in Row : x.batch = b /\ Sensible(x)}] :
          row' = [p \in Props |-> IF p \in S THEN d[p] ELSE row[p]]
    BY <1>1, Zenon DEF ToolCall
  <2>2. \A p \in S : Sensible(d[p]) OBVIOUS
  <2>3. \A p \in S : d[p].op = "delete" => d[p].after = Absent BY <2>2 DEF Sensible
  <2> QED BY <2>1, <2>3 DEF DeletesClear
<1>2. CASE UNCHANGED row BY <1>2 DEF DeletesClear
<1>3. ASSUME NEW r \in Requests, Handle(r) PROVE UNCHANGED row
  BY <1>3 DEF Handle, Press, Decide, RefuseScope, Select, CheckRow, ApplyEdit, ApplyInsert,
              ApplyDeletes, Applied, Mark
<1> QED BY <1>1, <1>2, <1>3
        DEF Next, Agent, User, StoreRow, UserEdit, OtherScope, ClearStaged, Crash, vars

LEMMA GateStep == TypeOK /\ Approval /\ DeletesClear /\ [Next]_vars => [G!Next]_G!vars
<1> SUFFICES ASSUME TypeOK, Approval, DeletesClear, [Next]_vars PROVE [G!Next]_G!vars OBVIOUS
<1> USE DEF bounds, reqVars, G!vars
<1>0. UNCHANGED <<body, row, status>> => UNCHANGED G!vars BY DEF Verdict
<1>1. ASSUME NEW S \in SUBSET Props, NEW b \in Batches, ToolCall(S, b) PROVE G!Next
  <2>1. \A p \in S : status[p] = "none" BY <1>1 DEF ToolCall, With
  <2>2. \A p \in Props : Verdict(p)' = Verdict(p)
    BY <1>1, <2>1 DEF ToolCall, Verdict, TypeOK
  <2>3. \A p \in Props : Verdict(p) # "open" => row'[p] = row[p]
    BY <1>1, <2>1 DEF ToolCall, Verdict, TypeOK
  <2>4. UNCHANGED [p \in Props |-> Verdict(p)] BY <2>2
  <2>5. G!Propose BY <1>1, <2>3, <2>4 DEF G!Propose, ToolCall
  <2> QED BY <2>5 DEF G!Next
<1>2. ASSUME NEW p \in Props, StoreRow(p) PROVE G!Next
  BY <1>2, DecideMaps DEF StoreRow, Verdict, TypeOK, G!Next
<1>3. CASE User
  <2>1. ASSUME NEW t \in Turns, NEW x \in Texts, UserEdit(t, x) PROVE G!Next
    <3>1. body' \in [Turns -> Texts] /\ \A u \in Turns \ {t} : body'[u] = body[u]
      BY <2>1 DEF UserEdit, TypeOK
    <3>2. body[t] # Absent BY <2>1, StagingAssumption DEF UserEdit
    <3>3. UNCHANGED [p \in Props |-> Verdict(p)] BY <2>1 DEF UserEdit, Verdict
    <3>4. G!UserEdit BY <2>1, <3>1, <3>2, <3>3 DEF G!UserEdit, UserEdit
    <3> QED BY <3>4 DEF G!Next
  <2>2. CASE OtherScope BY <2>2, <1>0 DEF OtherScope
  <2>3. CASE ClearStaged BY <2>3, DecideMaps DEF ClearStaged, Verdict, TypeOK, G!Next
  <2> QED BY <1>3, <2>1, <2>2, <2>3 DEF User
<1>4. CASE Crash BY <1>4, DecideMaps DEF Crash, Verdict, TypeOK, G!Next
<1>5. ASSUME NEW r \in Requests, Handle(r) PROVE [G!Next]_G!vars
  <2>1. ASSUME NEW yes \in BOOLEAN, Press(r, yes) PROVE UNCHANGED G!vars
    BY <2>1, <1>0 DEF Press
  <2>2. CASE Decide(r)
    BY <2>2, DecideMaps DEF Decide, Answer, Verdict, TypeOK, G!Next
  <2>3. CASE RefuseScope(r) BY <2>3, <1>0 DEF RefuseScope
  <2>4. CASE Select(r) BY <2>4, <1>0 DEF Select
  <2>5. ASSUME NEW p \in Props, CheckRow(r, p) PROVE UNCHANGED G!vars
    BY <2>5, <1>0 DEF CheckRow
  <2>6. ASSUME NEW p \in Props, ApplyEdit(r, p) PROVE [G!Next]_G!vars
    <3>1. CASE body[row[p].turn] = Absent BY <2>6, <3>1, <1>0 DEF ApplyEdit
    <3>2. CASE body[row[p].turn] # Absent
      <4>1. /\ UNCHANGED <<row, status>>
            /\ body' = [body EXCEPT ![row[p].turn] = row[p].after]
            /\ p \in left[r] /\ row[p].op = "edit" /\ phase[r] = "applying"
        BY <2>6, <3>2 DEF ApplyEdit, Applied, OpsIn
      <4>2. row[p].turn \in Turns /\ row[p].after \in Texts BY DEF TypeOK, Row
      <4>3. body' \in [Turns -> Texts] BY <4>1, <4>2 DEF TypeOK
      <4>4. \A t \in Turns : body'[t] = body[t] \/ (t = row[p].turn /\ body'[t] = row[p].after)
        BY <4>1 DEF TypeOK
      <4>5. G!CarryOut BY <4>1, <4>3, <4>4, CarryMaps
      <4> QED BY <4>5 DEF G!Next
    <3> QED BY <3>1, <3>2
  <2>7. ASSUME NEW p \in Props, ApplyInsert(r, p) PROVE UNCHANGED G!vars
    BY <2>7, <1>0 DEF ApplyInsert, Applied
  <2>8. CASE ApplyDeletes(r)
    <3>1. /\ UNCHANGED <<row, status>> /\ phase[r] = "applying"
          /\ \A p \in left[r] : row[p].op = "delete"
          /\ body' = [t \in Turns |-> IF t \in {row[p].turn : p \in left[r]}
                                      THEN Absent ELSE body[t]]
      BY <2>8 DEF ApplyDeletes, Applied, OpsIn
    <3>2. \A p \in left[r] : row[p].after = Absent BY <3>1 DEF TypeOK, DeletesClear
    <3>3. body' \in [Turns -> Texts] BY <3>1 DEF TypeOK, Texts
    <3>4. G!CarryOut BY <3>1, <3>2, <3>3, CarryMaps
    <3> QED BY <3>4 DEF G!Next
  <2>9. CASE Mark(r)
    <3>1. \A p \in rows[r] : status[p] \in {"approved", "applied"}
      BY <2>9 DEF Mark, Approval, SelectedStay, Busy
    <3> QED BY <2>9, <3>1, DecideMaps DEF Mark, Verdict, TypeOK, G!Next
  <2> QED BY <1>5, <2>1, <2>2, <2>3, <2>4, <2>5, <2>6, <2>7, <2>8, <2>9 DEF Handle
<1>6. CASE UNCHANGED vars BY <1>6, <1>0 DEF vars
<1> QED BY <1>1, <1>2, <1>3, <1>4, <1>5, <1>6 DEF Next, Agent

\* Staging implements Gate, for any numbers of turns, proposals and requests.
THEOREM StagingImplementsGate == Spec => ImplementsGate
  BY TypeInit, TypeStep, ApprovalInit, ApprovalStep, DeletesClearInit, DeletesClearStep,
     GateInit, GateStep, PTL
     DEF Spec, ImplementsGate, G!Spec
=============================================================================
