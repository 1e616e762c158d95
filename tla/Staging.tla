------------------------------ MODULE Staging ------------------------------
(***************************************************************************)
(* The approval gate of the transcript (pyserver/app/staging.py and the    *)
(* handler of /approve, main.h_approve). The agent's tools only store      *)
(* proposals; a person approves or rejects them; approving applies every   *)
(* approved proposal of the chat to the working copy.                      *)
(*                                                                         *)
(* The handlers run in a thread pool and take db.LOCK one statement at a   *)
(* time, so two approvals, the agent's next proposal, the user's own edits *)
(* and a backend that stops can fall between any two of their statements.  *)
(* The table of proposals survives all of them.                            *)
(***************************************************************************)
EXTENDS Naturals, FiniteSets

CONSTANTS
    Turns,      \* message ids of the chat
    Bodies,     \* turn texts
    Absent,     \* "no such turn"
    Props,      \* ids of staged_edits rows
    Batches,    \* batch ids
    Requests,   \* /approve calls that may run at the same time
    MaxEdits,   \* bound: edits the user makes
    MaxCrashes  \* bound: backend restarts

ASSUME StagingAssumption ==
    /\ Absent \notin Bodies
    /\ MaxEdits \in Nat
    /\ MaxCrashes \in Nat

Ops == {"edit", "insert", "delete"}

\* "held": computed by a tool call, not stored yet. "gone": cleared.
Statuses == {"none", "held", "pending", "approved", "rejected", "applied", "gone"}

Texts == Bodies \cup {Absent}
Row   == [op: Ops, turn: Turns, before: Texts, after: Texts, batch: Batches]
Phases == {"idle", "listed", "decided", "checking", "applying"}

VARIABLES
    body,       \* turns: the working copy
    row,        \* staged_edits, without the status
    status,     \* staged_edits.status
    phase,      \* per request, how far h_approve is
    approve,    \* per request, what was pressed
    rows,       \* per request, the ids it works on
    left,       \* per request, those it still has to check or apply
    moved,      \* history: turns that changed since the request selected its rows
    effects,    \* history: how often a proposal was carried out (up to 2)
    blocked,    \* workspace.cross_scope_blocker has a refusal
    editsLeft, crashesLeft \* bound counters

reqVars == <<phase, approve, rows, left>>
bounds  == <<editsLeft, crashesLeft>>
vars    == <<body, row, status, phase, approve, rows, left, moved, effects, blocked,
             editsLeft, crashesLeft>>

With(s) == {p \in Props : status[p] = s}
OpsIn(S, op) == {p \in S : row[p].op = op}

TypeOK ==
    /\ body \in [Turns -> Texts]
    /\ row \in [Props -> Row]
    /\ status \in [Props -> Statuses]
    /\ phase \in [Requests -> Phases]
    /\ approve \in [Requests -> BOOLEAN]
    /\ rows \in [Requests -> SUBSET Props]
    /\ left \in [Requests -> SUBSET Props]
    /\ \A r \in Requests : left[r] \subseteq rows[r]
    /\ moved \in [Requests -> SUBSET Turns]
    /\ effects \in [Props -> 0..2]
    /\ blocked \in BOOLEAN
    /\ editsLeft \in 0..MaxEdits
    /\ crashesLeft \in 0..MaxCrashes

Init ==
    /\ body \in [Turns -> Bodies]
    /\ \E t \in Turns, b \in Batches :
         row = [p \in Props |-> [op |-> "edit", turn |-> t, before |-> Absent,
                                 after |-> Absent, batch |-> b]]
    /\ status = [p \in Props |-> "none"]
    /\ phase = [r \in Requests |-> "idle"]
    /\ approve = [r \in Requests |-> FALSE]
    /\ rows = [r \in Requests |-> {}]
    /\ left = [r \in Requests |-> {}]
    /\ moved = [r \in Requests |-> {}]
    /\ effects = [p \in Props |-> 0]
    /\ blocked = FALSE
    /\ editsLeft = MaxEdits
    /\ crashesLeft = MaxCrashes

-----------------------------------------------------------------------------
(* The agent's tools and the scripts it runs.                              *)

\* A proposal is only made against the text the turn has now, and an edit only
\* when it changes it. An insert names an anchor and nobody checks it.
Sensible(d) ==
    \/ d.op = "insert" /\ d.before = Absent /\ d.after # Absent
    \/ d.op = "delete" /\ d.before = body[d.turn] /\ d.before # Absent /\ d.after = Absent
    \/ d.op = "edit" /\ d.before = body[d.turn] /\ d.before # Absent
                     /\ d.after \notin {Absent, d.before}

\* One tool call computes a group of proposals that belong together.
ToolCall(S, b) ==
    /\ S # {} /\ S \subseteq With("none")
    /\ With("held") = {}
    /\ \E d \in [S -> {x \in Row : x.batch = b /\ Sensible(x)}] :
         row' = [p \in Props |-> IF p \in S THEN d[p] ELSE row[p]]
    /\ \A p \in Props : status[p] # "none" => row[p].batch # b
    /\ status' = [p \in Props |-> IF p \in S THEN "held" ELSE status[p]]
    /\ UNCHANGED <<body, reqVars, moved, effects, blocked, bounds>>

\* staging.stage: one row, one commit.
StoreRow(p) ==
    /\ status[p] = "held"
    /\ status' = [status EXCEPT ![p] = "pending"]
    /\ UNCHANGED <<body, row, reqVars, moved, effects, blocked, bounds>>

-----------------------------------------------------------------------------
(* The user's own edits of the chat, and what makes an approval refused.   *)

Touch(ts) == moved' = [r \in Requests |-> IF phase[r] \in {"checking", "applying"}
                                          THEN moved[r] \cup ts ELSE moved[r]]

UserEdit(t, x) ==
    /\ editsLeft > 0
    /\ body[t] \in Bodies \ {x}
    /\ body' = [body EXCEPT ![t] = x]
    /\ Touch({t})
    /\ editsLeft' = editsLeft - 1
    /\ UNCHANGED <<row, status, reqVars, effects, blocked, crashesLeft>>

\* The card or another chat gets or loses unapplied edits.
OtherScope ==
    /\ blocked' = ~blocked
    /\ UNCHANGED <<body, row, status, reqVars, moved, effects, bounds>>

\* Wrong: also clears what was approved and is waiting for its writes.
ClearStaged_Approved ==
    /\ With("pending") # {}
    /\ status' = [p \in Props |-> IF status[p] \in {"pending", "approved"} THEN "gone" ELSE status[p]]
    /\ UNCHANGED <<body, row, reqVars, moved, effects, blocked, bounds>>

ClearStaged ==
    /\ With("pending") # {}
    /\ status' = [p \in Props |-> IF status[p] = "pending" THEN "gone" ELSE status[p]]
    /\ UNCHANGED <<body, row, reqVars, moved, effects, blocked, bounds>>

-----------------------------------------------------------------------------
(* One /approve call.                                                      *)

Step(r, to)    == phase' = [phase EXCEPT ![r] = to]
Works(r, R, L) == rows' = [rows EXCEPT ![r] = R] /\ left' = [left EXCEPT ![r] = L]

\* Wrong: the rows a request has not come to stay on its list.
End_KeepsLeft(r) ==
    /\ Step(r, "idle")
    /\ rows' = [rows EXCEPT ![r] = {}]
    /\ UNCHANGED left
    /\ approve' = [approve EXCEPT ![r] = FALSE]
    /\ moved' = [moved EXCEPT ![r] = {}]

\* The handler returns or raises.
End(r) ==
    /\ Step(r, "idle")
    /\ Works(r, {}, {})
    /\ approve' = [approve EXCEPT ![r] = FALSE]
    /\ moved' = [moved EXCEPT ![r] = {}]

\* "all": the ids that are pending now.
Press(r, yes) ==
    /\ phase[r] = "idle"
    /\ Step(r, "listed")
    /\ Works(r, With("pending"), {})
    /\ approve' = [approve EXCEPT ![r] = yes]
    /\ UNCHANGED <<body, row, status, moved, effects, blocked, bounds>>

Answer(r) == IF approve[r] THEN "approved" ELSE "rejected"
Decided(r) ==
    IF approve[r] THEN /\ Step(r, "decided")
                       /\ UNCHANGED <<approve, moved>>
                       /\ Works(r, {}, {})
    ELSE End(r)

\* staging.decide: one UPDATE, of the listed rows that are still pending.
Decide(r) ==
    /\ phase[r] = "listed"
    /\ status' = [p \in Props |-> IF p \in rows[r] /\ status[p] = "pending"
                                  THEN Answer(r) ELSE status[p]]
    /\ Decided(r)
    /\ UNCHANGED <<body, row, effects, blocked, bounds>>

\* A refusal by the one-dirty-thing rule.
RefuseScope(r) ==
    /\ phase[r] = "decided"
    /\ blocked
    /\ End(r)
    /\ UNCHANGED <<body, row, status, effects, blocked, bounds>>

\* A snapshot, then apply_approved reads every approved row of the chat.
Select(r) ==
    /\ phase[r] = "decided"
    /\ ~blocked
    /\ IF With("approved") = {} THEN End(r)
       ELSE /\ Step(r, "checking")
            /\ Works(r, With("approved"), With("approved"))
            /\ UNCHANGED <<approve, moved>>
    /\ UNCHANGED <<body, row, status, effects, blocked, bounds>>

\* Wrong: only asks whether the turn is still there.
Fits_Exists(p) == row[p].op = "insert" \/ body[row[p].turn] # Absent

Fits(p) == row[p].op = "insert" \/ body[row[p].turn] = row[p].before

\* One row against its turn. A mismatch refuses the whole set.
CheckRow(r, p) ==
    /\ phase[r] = "checking"
    /\ p \in left[r]
    /\ IF ~Fits(p) THEN End(r)
       ELSE /\ IF left[r] = {p} THEN Step(r, "applying") /\ Works(r, rows[r], rows[r])
               ELSE UNCHANGED phase /\ Works(r, rows[r], left[r] \ {p})
            /\ UNCHANGED <<approve, moved>>
    /\ UNCHANGED <<body, row, status, effects, blocked, bounds>>

Did(ps) == effects' = [p \in Props |-> IF p \in ps /\ effects[p] < 2
                                       THEN effects[p] + 1 ELSE effects[p]]
Applied(r, ps) ==
    /\ Did(ps)
    /\ Works(r, rows[r], left[r] \ ps)
    /\ UNCHANGED <<row, status, phase, approve, blocked, bounds>>

\* store.set_body; a turn that is gone raises and the handler ends there.
ApplyEdit(r, p) ==
    /\ phase[r] = "applying"
    /\ p \in OpsIn(left[r], "edit")
    /\ IF body[row[p].turn] = Absent
       THEN End(r) /\ UNCHANGED <<body, row, status, effects, blocked, bounds>>
       ELSE /\ body' = [body EXCEPT ![row[p].turn] = row[p].after]
            /\ Touch({row[p].turn})
            /\ Applied(r, {p})

\* store.insert_turn; a missing anchor raises. The new turn has a fresh msg_id,
\* which no proposal names.
ApplyInsert(r, p) ==
    /\ phase[r] = "applying"
    /\ OpsIn(left[r], "edit") = {}
    /\ p \in OpsIn(left[r], "insert")
    /\ IF body[row[p].turn] = Absent
       THEN End(r) /\ UNCHANGED <<body, row, status, effects, blocked, bounds>>
       ELSE Applied(r, {p}) /\ UNCHANGED <<body, moved>>

\* store.delete_turns: all of them in one statement, last.
ApplyDeletes(r) ==
    LET dels == left[r]
        ts   == {row[p].turn : p \in dels} IN
    /\ phase[r] = "applying"
    /\ dels # {} /\ dels = OpsIn(left[r], "delete")
    /\ body' = [t \in Turns |-> IF t \in ts THEN Absent ELSE body[t]]
    /\ Touch(ts)
    /\ Applied(r, dels)

\* Wrong: marks whatever is approved by now instead of what was applied.
Mark_Approved(r) ==
    /\ phase[r] = "applying" /\ left[r] = {}
    /\ status' = [p \in Props |-> IF status[p] = "approved" THEN "applied" ELSE status[p]]
    /\ End(r)
    /\ UNCHANGED <<body, row, effects, blocked, bounds>>

Mark(r) ==
    /\ phase[r] = "applying" /\ left[r] = {}
    /\ status' = [p \in Props |-> IF p \in rows[r] THEN "applied" ELSE status[p]]
    /\ End(r)
    /\ UNCHANGED <<body, row, effects, blocked, bounds>>

\* The backend stops and comes back: what ran in it is lost, the tables are not.
Crash ==
    /\ crashesLeft > 0
    /\ crashesLeft' = crashesLeft - 1
    /\ phase' = [r \in Requests |-> "idle"]
    /\ approve' = [r \in Requests |-> FALSE]
    /\ rows' = [r \in Requests |-> {}]
    /\ left' = [r \in Requests |-> {}]
    /\ moved' = [r \in Requests |-> {}]
    /\ status' = [p \in Props |-> IF status[p] = "held" THEN "gone" ELSE status[p]]
    /\ UNCHANGED <<body, row, effects, blocked, editsLeft>>

-----------------------------------------------------------------------------

Agent  == (\E S \in SUBSET Props, b \in Batches : ToolCall(S, b)) \/ \E p \in Props : StoreRow(p)
User   == (\E t \in Turns, x \in Texts : UserEdit(t, x)) \/ OtherScope \/ ClearStaged
Handle(r) ==
    \/ \E yes \in BOOLEAN : Press(r, yes)
    \/ Decide(r) \/ RefuseScope(r) \/ Select(r)
    \/ \E p \in Props : CheckRow(r, p) \/ ApplyEdit(r, p) \/ ApplyInsert(r, p)
    \/ ApplyDeletes(r) \/ Mark(r)

Next == Agent \/ User \/ Crash \/ \E r \in Requests : Handle(r)

Spec == Init /\ [][Next]_vars

-----------------------------------------------------------------------------
(* Properties.                                                             *)

\* Nothing the agent proposed reaches the transcript unless a person approved
\* it, however approvals, rejections and restarts interleave (staging.py: the
\* agent never writes to turns).
OnlyApproved == \A p \in Props : effects[p] > 0 => status[p] \in {"approved", "applied"}

\* A proposal filed as applied was carried out, also when other requests and
\* restarts came in between.
AppliedTookEffect == \A p \in Props : status[p] = "applied" => effects[p] > 0

\* An approved edit or deletion takes away only the text it was proposed
\* against; a turn that changed before the request looked is safe from it
\* (apply_approved).
GuardedApply ==
    [][\A r \in Requests : \A p \in left[r] :
         (phase[r] = "applying" /\ row[p].op # "insert" /\ effects'[p] > effects[p])
            => \/ body[row[p].turn] = row[p].before
               \/ row[p].turn \in moved[r]]_vars

\* The handlers implement the gate: the transcript changes by the user's hand or
\* by an allowed proposal only, a verdict is final however many requests and
\* restarts race for it, and a proposal says the same from its verdict on.
Verdict(p) ==
    IF status[p] \in {"approved", "applied"} THEN "allowed"
    ELSE IF status[p] \in {"rejected", "gone"} THEN "refused" ELSE "open"
G == INSTANCE Gate WITH proposal <- row, verdict <- [p \in Props |-> Verdict(p)]
ImplementsGate == G!Spec
=============================================================================
