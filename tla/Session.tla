------------------------------- MODULE Session -------------------------------
(***************************************************************************)
(* The turns of one agent session (pyserver/app/session.py): the stored    *)
(* history each starts from and adds to, its summary when it is too long   *)
(* (agent.compact_history), and the prompts a tool asks the user before a  *)
(* shell command or an install (permits.py).                               *)
(*                                                                         *)
(* A turn is a generator on the backend's event loop: what stands between  *)
(* two awaits or yields is one step. It is closed at a yield when the      *)
(* client is gone, and nothing keeps a second turn of the session from     *)
(* starting before the first is closed. Answers come from other threads.   *)
(***************************************************************************)
EXTENDS Naturals, FiniteSets

CONSTANTS
    Turns,      \* prompts sent to the session
    Reqs,       \* permissions asked for
    Kinds,      \* permits.KINDS
    Before,     \* the conversation before these turns; no turn
    NoKind

ASSUME SessionAssumption == Before \notin Turns /\ NoKind \notin Kinds

Heard   == Turns \cup {Before}
Running == {"begun", "summing", "streams", "stored"}

VARIABLES
    turn,           \* per turn, where its generator is
    base,           \* per turn, the history it read: the prompts in it
    hist,           \* the newest history message: the prompts in it
    compacted,      \* agent.COMPACTED: no summary, or the prompts in it
    asker, kind,    \* per request, the turn that asked, for what
    entry,          \* per request, in _pending: open, answered, or not there
    tool,           \* per request, the tool that waits
    always,         \* _always of the session
    answer, auto,   \* history: the last answer taken; allowed without a question
    giver,          \* history, per kind: the turn in whose prompt it was allowed
    met, early, passed  \* history: turns that overlapped; that ended without a
                        \* handler; that were cut while a summary was remembered

memory  == <<base, hist, compacted>>
prompt  == <<asker, kind, entry, tool, always>>
history == <<answer, auto, giver, met, early, passed>>
vars    == <<turn, memory, prompt, history>>

TypeOK ==
    /\ turn \in [Turns -> {"new", "over"} \cup Running]
    /\ base \in [Turns -> SUBSET Heard] /\ hist \subseteq Heard
    /\ compacted \in {{}} \cup {{s} : s \in SUBSET Heard}
    /\ asker \in [Reqs -> Turns \cup {Before}] /\ kind \in [Reqs -> Kinds \cup {NoKind}]
    /\ entry \in [Reqs -> {"none", "open", "yes", "no"}]
    /\ tool \in [Reqs -> {"none", "waits", "ran", "refused", "dropped"}]
    /\ \A q \in Reqs : entry[q] = "open" => tool[q] = "waits"
    /\ always \subseteq Kinds
    /\ answer \in [Reqs -> {"none", "yes", "no"}]
    /\ auto \subseteq Reqs /\ giver \in [Kinds -> Turns \cup {Before}]
    /\ met \subseteq Turns /\ early \subseteq Turns /\ passed \subseteq Turns

Init ==
    /\ turn = [t \in Turns |-> "new"]
    /\ base = [t \in Turns |-> {}] /\ hist \in {{}, {Before}} /\ compacted = {}
    /\ asker = [q \in Reqs |-> Before] /\ kind = [q \in Reqs |-> NoKind]
    /\ entry = [q \in Reqs |-> "none"] /\ tool = [q \in Reqs |-> "none"]
    /\ always = {}
    /\ answer = [q \in Reqs |-> "none"] /\ auto = {}
    /\ giver = [k \in Kinds |-> Before]
    /\ met = {} /\ early = {} /\ passed = {}

Active == {t \in Turns : turn[t] \in Running}
Goes(t, to) == turn' = [turn EXCEPT ![t] = to]

-----------------------------------------------------------------------------
(* session.run, from one await or yield to the next.                       *)

\* Up to the first line of the stream; the prompt is saved for the transcript.
Begin(t) ==
    /\ turn[t] = "new"
    /\ Goes(t, "begun")
    /\ met' = IF Active = {} THEN met ELSE met \cup Active \cup {t}
    /\ UNCHANGED <<memory, prompt, answer, auto, giver, early, passed>>

\* The client is gone at the first line, before the try: no handler runs.
Vanish(t) ==
    /\ turn[t] = "begun"
    /\ Goes(t, "over")
    /\ early' = early \cup {t}
    /\ UNCHANGED <<memory, prompt, answer, auto, giver, met, passed>>

Read(t) ==
    /\ turn[t] = "begun"
    /\ base' = [base EXCEPT ![t] = hist]
    /\ Goes(t, "summing")
    /\ UNCHANGED <<hist, compacted, prompt, history>>

\* compact_history: short enough, or the summary failed; or summed up by the model.
Prepare(t) ==
    /\ turn[t] = "summing"
    /\ \/ UNCHANGED compacted
       \/ base[t] # {} /\ compacted' = {base[t]}
    /\ Goes(t, "streams")
    /\ UNCHANGED <<base, hist, prompt, history>>

\* permits.end_turn.
EndTurn ==
    /\ always' = {}
    /\ entry' = [q \in Reqs |-> "none"]

\* The model is through: the summary, if there is one, and the new messages.
Reply(t) ==
    /\ turn[t] = "streams"
    /\ \A q \in Reqs : asker[q] = t => tool[q] # "waits"
    /\ hist' = (IF compacted = {} THEN base[t] ELSE UNION compacted) \cup {t}
    /\ compacted' = {}
    /\ Goes(t, "stored")
    /\ UNCHANGED <<base, prompt, history>>

\* Wrong: only a turn that fails goes through end_turn.
Done_Keeps(t) ==
    /\ turn[t] = "stored"
    /\ Goes(t, "over")
    /\ UNCHANGED <<memory, prompt, history>>

Done(t) ==
    /\ turn[t] = "stored"
    /\ Goes(t, "over")
    /\ EndTurn
    /\ UNCHANGED <<memory, asker, kind, tool, history>>

\* Wrong: leaves nothing of its prompt.
Cut_Forgets(t) ==
    /\ turn[t] \in {"summing", "streams", "stored"}
    /\ Goes(t, "over")
    /\ passed' = IF compacted = {} THEN passed ELSE passed \cup {t}
    /\ EndTurn
    /\ UNCHANGED <<memory, asker, kind, tool, answer, auto, giver, met, early>>

\* An error, or the client is gone: the prompt goes to the history as it is now.
\* A tool that waits is dropped with the stream or goes on looking.
Cut(t) ==
    /\ turn[t] \in {"summing", "streams", "stored"}
    /\ Goes(t, "over")
    /\ hist' = hist \cup {t}
    /\ passed' = IF compacted = {} THEN passed ELSE passed \cup {t}
    /\ EndTurn
    /\ \/ UNCHANGED tool
       \/ tool' = [q \in Reqs |-> IF asker[q] = t /\ tool[q] = "waits" THEN "dropped" ELSE tool[q]]
    /\ UNCHANGED <<base, compacted, asker, kind, answer, auto, giver, met, early>>

\* The backend is started anew: of the turns there is only what was stored.
Restart ==
    /\ turn' = [t \in Turns |-> IF turn[t] \in Running THEN "over" ELSE turn[t]]
    /\ early' = early \cup {t \in Turns : turn[t] \in Running \ {"stored"}}
    /\ compacted' = {}
    /\ tool' = [q \in Reqs |-> IF tool[q] = "waits" THEN "dropped" ELSE tool[q]]
    /\ EndTurn
    /\ UNCHANGED <<base, hist, asker, kind, answer, auto, giver, met, passed>>

-----------------------------------------------------------------------------
(* permits: a tool asks, the user answers, the tool looks every half second. *)

\* request, by _permitted: allowed at once, or asked.
Ask(t, q, k) ==
    /\ turn[t] = "streams" /\ tool[q] = "none"
    /\ asker' = [asker EXCEPT ![q] = t] /\ kind' = [kind EXCEPT ![q] = k]
    /\ IF k \in always
       THEN /\ tool' = [tool EXCEPT ![q] = "ran"] /\ entry' = [entry EXCEPT ![q] = "yes"]
            /\ auto' = auto \cup {q}
       ELSE /\ tool' = [tool EXCEPT ![q] = "waits"] /\ entry' = [entry EXCEPT ![q] = "open"]
            /\ UNCHANGED auto
    /\ UNCHANGED <<turn, memory, always, answer, giver, met, early, passed>>

\* decide, from a panel that has the prompt on its screen; a second panel may
\* answer once more before the tool has looked.
Decide(q, allow, forAll) ==
    /\ entry[q] # "none" /\ q \notin auto
    /\ entry' = [entry EXCEPT ![q] = IF allow THEN "yes" ELSE "no"]
    /\ answer' = [answer EXCEPT ![q] = IF allow THEN "yes" ELSE "no"]
    /\ IF allow /\ forAll
       THEN always' = always \cup {kind[q]} /\ giver' = [giver EXCEPT ![kind[q]] = asker[q]]
       ELSE UNCHANGED <<always, giver>>
    /\ UNCHANGED <<turn, memory, asker, kind, tool, auto, met, early, passed>>

\* Wrong: any answer will do.
Look_Answered(q) ==
    /\ tool[q] = "waits" /\ entry[q] # "open"
    /\ tool' = [tool EXCEPT ![q] = IF entry[q] # "none" THEN "ran" ELSE "refused"]
    /\ entry' = [entry EXCEPT ![q] = "none"]
    /\ UNCHANGED <<turn, memory, asker, kind, always, history>>

\* decision: the command follows in the same step of the loop.
Look(q) ==
    /\ tool[q] = "waits" /\ entry[q] # "open"
    /\ tool' = [tool EXCEPT ![q] = IF entry[q] = "yes" THEN "ran" ELSE "refused"]
    /\ entry' = [entry EXCEPT ![q] = "none"]
    /\ UNCHANGED <<turn, memory, asker, kind, always, history>>

\* Wrong: gives up and leaves the question on the screen.
GiveUp_Leaves(q) ==
    /\ tool[q] = "waits"
    /\ tool' = [tool EXCEPT ![q] = "refused"]
    /\ UNCHANGED <<turn, memory, asker, kind, entry, always, history>>

\* Ten minutes are over; an answer of the last half second is not looked at.
GiveUp(q) ==
    /\ tool[q] = "waits"
    /\ tool' = [tool EXCEPT ![q] = "refused"]
    /\ entry' = [entry EXCEPT ![q] = "none"]
    /\ UNCHANGED <<turn, memory, asker, kind, always, history>>

-----------------------------------------------------------------------------

Next ==
    \/ Restart
    \/ \E t \in Turns : \/ Begin(t) \/ Vanish(t) \/ Read(t) \/ Prepare(t)
                        \/ Reply(t) \/ Done(t) \/ Cut(t)
                        \/ \E q \in Reqs, k \in Kinds : Ask(t, q, k)
    \/ \E q \in Reqs : \/ Look(q) \/ GiveUp(q)
                       \/ \E allow, forAll \in BOOLEAN : Decide(q, allow, forAll)

Spec == Init /\ [][Next]_vars

-----------------------------------------------------------------------------
(* Properties.                                                             *)

\* A command runs only if the last answer to its own prompt was yes, or it was
\* let through by a standing permission: through timeouts, second answers, turns
\* that end meanwhile and turns that overlap.
RanWasAllowed == \A q \in Reqs : tool[q] = "ran" => q \in auto \/ answer[q] = "yes"

\* "Always in this turn" lets through what the same turn asks, unless two turns
\* of the session ran at once.
AlwaysEndsWithTurn ==
    [][\A q \in Reqs : q \in auto' \ auto =>
         \/ giver[kind'[q]] = asker'[q]
         \/ {giver[kind'[q]], asker'[q]} \subseteq met]_vars

\* With no turn running no prompt is on the screen and no permission stands.
NothingOutlivesTheTurn ==
    Active = {} => always = {} /\ \A q \in Reqs : entry[q] = "none"

\* A turn that is over has left its prompt in the history, failed, cut off or
\* replied, and later turns keep it: unless another turn ran beside it, it was
\* closed at its first line or by a restart, or it was cut with a summary remembered that it is
\* not in.
PromptIsKept ==
    \A t \in Turns \ (met \cup early \cup passed) :
        turn[t] \in {"stored", "over"} => t \in hist
=============================================================================
