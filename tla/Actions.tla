------------------------------ MODULE Actions ------------------------------
(***************************************************************************)
(* The approval queue of everything the agent writes that is not a turn    *)
(* (pyserver/app/actions.py, the handlers /actions/decide, /complete and   *)
(* /clear, and state.ts decideAction on the plugin's side).                *)
(*                                                                         *)
(* A call is one press of a button: the request the backend handles and,   *)
(* for an action only the plugin can carry out, what the plugin does with  *)
(* the answer. Every statement of the backend commits by itself, the       *)
(* requests run in threads, and the plugin can be closed at any point.     *)
(***************************************************************************)
EXTENDS Naturals, FiniteSets

CONSTANTS
    Acts,       \* ids of pending_actions rows
    Calls,      \* presses of a button that may be under way at once
    Chats,      \* working copies of the bot's chats
    Card,       \* the working copy of its card
    Host,       \* target of HOST_KINDS: the plugin carries it out
    Free,       \* target of an action that writes no working copy
    NoAct,      \* what an idle call decides
    MaxEdits,   \* bound: edits made in the panel itself
    MaxCrashes  \* bound: backend restarts

Fronts  == Chats \cup {Card}
Targets == Fronts \cup {Host, Free}

ASSUME ActionsAssumption ==
    /\ Host \notin Fronts /\ Free \notin Fronts /\ Host # Free
    /\ NoAct \notin Acts
    /\ MaxEdits \in Nat
    /\ MaxCrashes \in Nat

\* "none": not proposed yet. "gone": cleared.
Statuses == {"none", "pending", "approved", "rejected", "done", "failed", "gone"}
Backend  == {"read", "clear", "ranOk", "ranBad"}     \* in actions.decide
Plugin   == {"host", "reportOk", "reportBad"}        \* in decideAction
Phases   == {"idle"} \cup Backend \cup Plugin

VARIABLES
    target,     \* per action, actions.scope_of and HOST_KINDS
    status,     \* pending_actions.status
    dirty,      \* working copies with unapplied changes (dirty_summary)
    phase,      \* per call
    act,        \* per call, the action it decides
    approve,    \* per call, which button it was
    ran,        \* history: how often an action was carried out (up to 2)
    unkept,     \* history: host writes RisuAI accepted and did not keep
    mixed,      \* history: actions two calls, or a call and a restart, met on
    crossed,    \* history: per call, fronts that got dirty since it checked
    editsLeft, crashesLeft \* bound counters

callVars == <<phase, act, approve>>
history  == <<unkept, mixed>>
bounds   == <<editsLeft, crashesLeft>>
vars     == <<target, status, dirty, phase, act, approve, ran, unkept, mixed, crossed,
              editsLeft, crashesLeft>>

TypeOK ==
    /\ target \in [Acts -> Targets]
    /\ status \in [Acts -> Statuses]
    /\ dirty \subseteq Fronts
    /\ phase \in [Calls -> Phases]
    /\ act \in [Calls -> Acts \cup {NoAct}]
    /\ \A c \in Calls : phase[c] # "idle" => act[c] \in Acts
    /\ approve \in [Calls -> BOOLEAN]
    /\ ran \in [Acts -> 0..2]
    /\ unkept \subseteq Acts /\ mixed \subseteq Acts
    /\ crossed \in [Calls -> SUBSET Fronts]
    /\ editsLeft \in 0..MaxEdits
    /\ crashesLeft \in 0..MaxCrashes

Init ==
    /\ target = [a \in Acts |-> Free]
    /\ status = [a \in Acts |-> "none"]
    /\ dirty = {}
    /\ phase = [c \in Calls |-> "idle"]
    /\ act = [c \in Calls |-> NoAct]
    /\ approve = [c \in Calls |-> FALSE]
    /\ ran = [a \in Acts |-> 0]
    /\ unkept = {} /\ mixed = {}
    /\ crossed = [c \in Calls |-> {}]
    /\ editsLeft = MaxEdits
    /\ crashesLeft = MaxCrashes

-----------------------------------------------------------------------------
(* The agent and the panel.                                                *)

Propose(a, x) ==
    /\ status[a] = "none"
    /\ status' = [status EXCEPT ![a] = "pending"]
    /\ target' = [target EXCEPT ![a] = x]
    /\ UNCHANGED <<dirty, callVars, ran, history, crossed, bounds>>

InHand(a) == \E c \in Calls : phase[c] \in Backend /\ act[c] = a
Pending   == {a \in Acts : status[a] = "pending"}

\* actions.clear deletes what is pending, also under a call that has read it.
Clear ==
    /\ Pending # {}
    /\ status' = [a \in Acts |-> IF a \in Pending THEN "gone" ELSE status[a]]
    /\ mixed' = mixed \cup {a \in Pending : InHand(a)}
    /\ UNCHANGED <<target, dirty, callVars, ran, unkept, crossed, bounds>>

\* Edits in the panel are kept to one front by the panel's own leave guard only.
Crossing(fs) == crossed' = [c \in Calls |-> IF phase'[c] = "clear" THEN crossed[c] \cup fs ELSE {}]
Dirties(fs)  == dirty' = dirty \cup fs /\ Crossing(fs)

UserEdit(f) ==
    /\ editsLeft > 0
    /\ f \notin dirty
    /\ UNCHANGED <<target, status, callVars, ran, history, crashesLeft>>
    /\ Dirties({f})
    /\ editsLeft' = editsLeft - 1

\* A write-back or a reset from the bars.
Clean(f) ==
    /\ f \in dirty
    /\ dirty' = dirty \ {f}
    /\ UNCHANGED <<target, status, callVars, ran, history, crossed, bounds>>

-----------------------------------------------------------------------------
(* actions.decide.                                                         *)

Step(c, to)     == phase' = [phase EXCEPT ![c] = to] /\ UNCHANGED <<act, approve>>
End(c)          == /\ phase' = [phase EXCEPT ![c] = "idle"]
                   /\ act' = [act EXCEPT ![c] = NoAct]
                   /\ approve' = [approve EXCEPT ![c] = FALSE]
SetStatus(a, s) == status' = [status EXCEPT ![a] = IF @ = "gone" THEN "gone" ELSE s]
Ran(a)          == ran' = [ran EXCEPT ![a] = IF @ < 2 THEN @ + 1 ELSE 2]

\* Wrong: any action that is not finished can be decided.
Read_Unfinished(c, a, yes) ==
    /\ phase[c] = "idle"
    /\ status[a] \in {"pending", "approved"}
    /\ phase' = [phase EXCEPT ![c] = "read"]
    /\ act' = [act EXCEPT ![c] = a]
    /\ approve' = [approve EXCEPT ![c] = yes]
    /\ mixed' = IF InHand(a) THEN mixed \cup {a} ELSE mixed
    /\ UNCHANGED <<target, status, dirty, ran, unkept, crossed, bounds>>

\* A row that is not pending is refused ("already handled").
Read(c, a, yes) ==
    /\ phase[c] = "idle"
    /\ status[a] = "pending"
    /\ phase' = [phase EXCEPT ![c] = "read"]
    /\ act' = [act EXCEPT ![c] = a]
    /\ approve' = [approve EXCEPT ![c] = yes]
    /\ mixed' = IF InHand(a) THEN mixed \cup {a} ELSE mixed
    /\ UNCHANGED <<target, status, dirty, ran, unkept, crossed, bounds>>

Reject(c) ==
    /\ phase[c] = "read" /\ ~approve[c]
    /\ SetStatus(act[c], "rejected")
    /\ End(c)
    /\ UNCHANGED <<target, dirty, ran, history, crossed, bounds>>

\* workspace.cross_scope_blocker. It reads the card and the chats one by one;
\* one read here.
Blocked(f) == dirty \ {f} # {}

CheckFronts(c) ==
    /\ phase[c] = "read" /\ approve[c]
    /\ target[act[c]] \in Fronts
    /\ IF Blocked(target[act[c]]) THEN End(c) ELSE Step(c, "clear")
    /\ UNCHANGED <<target, status, dirty, ran, history, crossed, bounds>>

\* The UPDATE that hands a host action over does not look at the status.
HandOver(c) ==
    /\ phase[c] = "read" /\ approve[c]
    /\ target[act[c]] = Host
    /\ SetStatus(act[c], "approved")
    /\ Step(c, "host")
    /\ UNCHANGED <<target, dirty, ran, history, crossed, bounds>>

\* The executor: it works, it raises before it wrote anything, or (a restore)
\* after it wrote part of it.
Execute(c) ==
    LET f == target[act[c]] IN
    /\ \/ phase[c] = "clear"
       \/ phase[c] = "read" /\ approve[c] /\ f = Free
    /\ \/ /\ Step(c, "ranBad")
          /\ UNCHANGED ran
          /\ Dirties({})
       \/ \E to \in {"ranOk", "ranBad"} :
            /\ Step(c, to)
            /\ Ran(act[c])
            /\ Dirties({f} \cap Fronts)
    /\ UNCHANGED <<target, status, history, bounds>>

\* actions._finish.
Finish(c) ==
    /\ phase[c] \in {"ranOk", "ranBad"}
    /\ SetStatus(act[c], IF phase[c] = "ranOk" THEN "done" ELSE "failed")
    /\ End(c)
    /\ UNCHANGED <<target, dirty, ran, history, crossed, bounds>>

-----------------------------------------------------------------------------
(* decideAction, with a host block in the answer.                          *)

\* The write lands (a card write-back also commits the card), or it throws
\* before or after it wrote, or RisuAI accepts it and does not keep it. An
\* unverified write does not throw.
CarryOut(c) ==
    /\ phase[c] = "host"
    /\ \/ Step(c, "reportOk") /\ Ran(act[c])
          /\ dirty' \in {dirty, dirty \ {Card}} /\ UNCHANGED unkept
       \/ Step(c, "reportBad") /\ Ran(act[c]) /\ UNCHANGED <<dirty, unkept>>
       \/ Step(c, "reportBad") /\ UNCHANGED <<ran, dirty, unkept>>
       \/ Step(c, "reportOk") /\ unkept' = unkept \cup {act[c]} /\ UNCHANGED <<ran, dirty>>
    /\ UNCHANGED <<target, status, mixed, crossed, bounds>>

\* Wrong: what the report says is not looked at.
Report_NotRead(c) ==
    /\ phase[c] \in {"reportOk", "reportBad"}
    /\ SetStatus(act[c], "done")
    /\ End(c)
    /\ UNCHANGED <<target, dirty, ran, history, crossed, bounds>>

\* actions.complete; when the first report fails, a second says that the action
\* failed, whether or not the first one arrived.
Report(c) ==
    /\ phase[c] \in {"reportOk", "reportBad"}
    /\ \/ /\ SetStatus(act[c], IF phase[c] = "reportOk" THEN "done" ELSE "failed")
          /\ \/ End(c)
             \/ phase[c] = "reportOk" /\ Step(c, "reportBad")
       \/ /\ IF phase[c] = "reportOk" THEN Step(c, "reportBad") ELSE End(c)
          /\ UNCHANGED status
    /\ UNCHANGED <<target, dirty, ran, history, crossed, bounds>>

\* The answer to the decision is lost, or the panel is closed.
Abandon(c) ==
    /\ phase[c] \in Plugin
    /\ End(c)
    /\ UNCHANGED <<target, status, dirty, ran, history, crossed, bounds>>

\* Wrong: a restart also takes from the plugin what it was carrying out.
Crash_TakesAll ==
    /\ crashesLeft > 0
    /\ crashesLeft' = crashesLeft - 1
    /\ phase' = [c \in Calls |-> IF phase[c] \in Backend THEN "idle" ELSE phase[c]]
    /\ act' = [c \in Calls |-> NoAct]
    /\ Crossing({})
    /\ UNCHANGED <<target, status, dirty, approve, ran, history, editsLeft>>

\* The backend stops and comes back.
Crash ==
    /\ crashesLeft > 0
    /\ crashesLeft' = crashesLeft - 1
    /\ mixed' = mixed \cup {act[c] : c \in {d \in Calls : phase[d] \in {"ranOk", "ranBad"}}}
    /\ phase' = [c \in Calls |-> IF phase[c] \in Backend THEN "idle" ELSE phase[c]]
    /\ act' = [c \in Calls |-> IF phase[c] \in Backend THEN NoAct ELSE act[c]]
    /\ approve' = [c \in Calls |-> IF phase[c] \in Backend THEN FALSE ELSE approve[c]]
    /\ Crossing({})
    /\ UNCHANGED <<target, status, dirty, ran, unkept, editsLeft>>

-----------------------------------------------------------------------------

Panel  == Clear \/ \E f \in Fronts : UserEdit(f) \/ Clean(f)
Call(c) ==
    \/ \E a \in Acts, yes \in BOOLEAN : Read(c, a, yes)
    \/ Reject(c) \/ CheckFronts(c) \/ HandOver(c) \/ Execute(c) \/ Finish(c)
    \/ CarryOut(c) \/ Report(c) \/ Abandon(c)

Next ==
    \/ \E a \in Acts, x \in Targets : Propose(a, x)
    \/ Panel \/ Crash
    \/ \E c \in Calls : Call(c)

Spec == Init /\ [][Next]_vars

-----------------------------------------------------------------------------
(* Properties.                                                             *)

\* What the queue says of an action is what happened to it, as long as no two
\* calls met on it and no restart cut its executor from its record: nothing runs
\* twice, however often it is decided again, reported twice or abandoned.
AloneTellsTruth ==
    \A a \in Acts \ mixed :
        /\ ran[a] <= 1
        /\ status[a] \in {"rejected", "gone"} => ran[a] = 0
        /\ status[a] = "pending" /\ ~InHand(a) => ran[a] = 0

\* An action filed as done was carried out, unless RisuAI dropped the write
\* without a word; also when calls meet on it.
DoneMeansCarriedOut ==
    \A a \in Acts : status[a] = "done" => ran[a] > 0 \/ a \in unkept

\* An approval opens a second dirty front only when the other front got dirty
\* after it had checked (actions.decide, cross_scope_blocker).
GuardedFronts ==
    [][\A c \in Calls :
         phase[c] \in {"read", "clear"} /\ phase'[c] \in {"ranOk", "ranBad"}
            /\ dirty' # dirty
         => dirty \subseteq crossed[c]]_vars
=============================================================================
