------------------------------- MODULE Gate -------------------------------
(***************************************************************************)
(* What the approval gate of the transcript promises (staging.py, first    *)
(* lines: the agent proposes, a person decides, the agent never writes to  *)
(* turns). The transcript changes by the user's own hand or because a      *)
(* proposal that a person allowed is carried out; a verdict is final, and  *)
(* a proposal says the same from its verdict on. Nothing is promised about *)
(* how often an allowed proposal is carried out.                           *)
(***************************************************************************)
EXTENDS Naturals

CONSTANTS Turns, Texts, Absent, Props

VARIABLES
    body,       \* the transcript
    proposal,   \* what each proposal says: a turn, the text it is to become
    verdict     \* "open", "allowed" or "refused"

vars == <<body, proposal, verdict>>

Init ==
    /\ body \in [Turns -> Texts \ {Absent}]
    /\ verdict = [p \in Props |-> "open"]

Propose ==
    /\ \A p \in Props : verdict[p] # "open" => proposal'[p] = proposal[p]
    /\ UNCHANGED <<body, verdict>>

Decide ==
    /\ verdict' \in [Props -> {"open", "allowed", "refused"}]
    /\ \A p \in Props : verdict[p] # "open" => verdict'[p] = verdict[p]
    /\ UNCHANGED <<body, proposal>>

UserEdit ==
    /\ body' \in [Turns -> Texts]
    /\ \E t \in Turns : body[t] # Absent /\ \A u \in Turns \ {t} : body'[u] = body[u]
    /\ UNCHANGED <<proposal, verdict>>

Allowed == {p \in Props : verdict[p] = "allowed"}

\* An insertion adds a turn of its own and leaves the others as they are.
CarryOut ==
    /\ body' \in [Turns -> Texts]
    /\ \A t \in Turns :
         \/ body'[t] = body[t]
         \/ \E p \in Allowed : /\ proposal[p].turn = t /\ proposal[p].op # "insert"
                               /\ body'[t] = proposal[p].after
    /\ UNCHANGED <<proposal, verdict>>

Next == Propose \/ Decide \/ UserEdit \/ CarryOut

Spec == Init /\ [][Next]_vars
=============================================================================
