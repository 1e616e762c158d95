------------------------------- MODULE Scripts -------------------------------
(***************************************************************************)
(* Scripts of the agent (pyserver/app/pyexec.py, sandbox.py): a tool call  *)
(* writes the code and a snapshot of the bot's rows into files all runs of *)
(* the bot share, starts a process, waits for it, and stages what the      *)
(* process appended to the spool. The model asks for tools in parallel, a  *)
(* stopped turn leaves its tool threads running, and other panels have     *)
(* turns of their own, so runs may overlap; a process outlives the backend. *)
(***************************************************************************)
EXTENDS Naturals, FiniteSets

CONSTANTS
    Runs,       \* calls of run_python for one bot
    Nobody,     \* no run: no code file yet
    Chats,      \* the bot's chats, one session each
    Lines,      \* bound: proposals a script writes
    MaxEdits,   \* bound: changes the stamp sees
    MaxCrashes  \* bound: backend restarts

ASSUME ScriptsAssumption ==
    /\ Nobody \notin Runs
    /\ Lines \in Nat /\ MaxEdits \in Nat /\ MaxCrashes \in Nat

Places == {"idle", "building", "stamping", "ready", "coded", "spawned", "waits",
           "harvests", "read", "staging", "done", "raised", "lost"}
Over   == {"done", "raised", "lost"}
Absent == [rows |-> 0, there |-> FALSE]
Views  == [rows : 0..MaxEdits, there : BOOLEAN]
Written == Runs \X (1..Lines)

VARIABLES
    at, chat, mark,       \* per run: where the tool is, its chat, the stamp it read
    lines,                \* per run: what it read from the spool and has not staged
    proc, runs, seen,     \* per run: its process, the code and snapshot it read
    wrote,                \* per run: lines its process has appended
    code,                 \* scripts/_agent_run.py: whose code
    scope, stamp,         \* .scratch/scope.db and scope.stamp
    spool,                \* .scratch/staged.jsonl
    registered,           \* _RUNNING
    staged,               \* the proposals: <<line, the run that staged it>>
    data,                 \* the working copy, as far as the stamp sees it
    met, asked,           \* history: runs that overlapped; the data at the start
    crashesLeft           \* bound counter

tool    == <<at, chat, mark, lines>>
process == <<proc, runs, seen, wrote>>
files   == <<code, scope, stamp>>
history == <<met, asked>>
vars    == <<tool, process, files, spool, registered, staged, data, history, crashesLeft>>

TypeOK ==
    /\ at \in [Runs -> Places] /\ chat \in [Runs -> Chats]
    /\ mark \in [Runs -> 0..MaxEdits] /\ lines \in [Runs -> SUBSET Written]
    /\ proc \in [Runs -> {"none", "boot", "runs", "dead"}]
    /\ runs \in [Runs -> Runs \cup {Nobody}] /\ seen \in [Runs -> Views]
    /\ wrote \in [Runs -> 0..Lines]
    /\ code \in Runs \cup {Nobody} /\ scope \in Views
    /\ stamp \in {{}} \cup {{n} : n \in 0..MaxEdits}
    /\ spool \subseteq Written /\ registered = {r \in Runs : at[r] = "waits"}
    /\ staged \subseteq Written \X Runs
    /\ data \in 0..MaxEdits /\ asked \in [Runs -> 0..MaxEdits]
    /\ met \subseteq Runs
    /\ crashesLeft \in 0..MaxCrashes

Init ==
    /\ at = [r \in Runs |-> "idle"] /\ chat \in [Runs -> Chats]
    /\ mark = [r \in Runs |-> 0] /\ lines = [r \in Runs |-> {}]
    /\ proc = [r \in Runs |-> "none"] /\ runs = [r \in Runs |-> Nobody]
    /\ seen = [r \in Runs |-> Absent] /\ wrote = [r \in Runs |-> 0]
    /\ code = Nobody /\ scope = Absent /\ stamp = {}
    /\ spool = {} /\ registered = {} /\ staged = {}
    /\ data = 0
    /\ met = {} /\ asked = [r \in Runs |-> 0]
    /\ crashesLeft = MaxCrashes

Goes(r, to) == at' = [at EXCEPT ![r] = to]
Alive(r)    == proc[r] \in {"boot", "runs"}
Active      == {r \in Runs : Alive(r) \/ at[r] \notin {"idle"} \cup Over}

-----------------------------------------------------------------------------
(* The working copy moves: an edit of a turn or a card field, which carries *)
(* a time. Those of the lorebook and the scripts and deletions do not.      *)

Edit ==
    /\ data < MaxEdits
    /\ data' = data + 1
    /\ UNCHANGED <<tool, process, files, spool, registered, staged, history, crashesLeft>>

-----------------------------------------------------------------------------
(* pyexec.build_scope_db.                                                  *)

\* layout, then the stamp: the snapshot is kept or removed to be built anew.
Look(r) ==
    /\ at[r] = "idle"
    /\ met' = IF Active = {} THEN met ELSE met \cup Active \cup {r}
    /\ asked' = [asked EXCEPT ![r] = data]
    /\ IF scope.there /\ stamp = {data}
       THEN Goes(r, "ready") /\ UNCHANGED <<mark, scope>>
       ELSE /\ Goes(r, "building") /\ scope' = Absent
            /\ mark' = [mark EXCEPT ![r] = data]
    /\ UNCHANGED <<chat, lines, process, code, stamp, spool, registered, staged, data, crashesLeft>>

\* Copied under db.LOCK, from the rows as they are now.
Copy(r) ==
    /\ at[r] = "building"
    /\ scope' = [rows |-> data, there |-> TRUE]
    /\ Goes(r, "stamping")
    /\ UNCHANGED <<chat, mark, lines, process, code, stamp, spool, registered, staged,
                   data, history, crashesLeft>>

\* Another run built the file meanwhile: CREATE TABLE raises, out of the tool.
CopyRaises(r) ==
    /\ at[r] = "building" /\ scope.there
    /\ Goes(r, "raised")
    /\ UNCHANGED <<chat, mark, lines, process, files, spool, registered, staged,
                   data, history, crashesLeft>>

\* Wrong: the stamp is taken when the copy is there.
Stamp_Late(r) ==
    /\ at[r] = "stamping"
    /\ stamp' = {data}
    /\ Goes(r, "ready")
    /\ UNCHANGED <<chat, mark, lines, process, code, scope, spool, registered, staged,
                   data, history, crashesLeft>>

Stamp(r) ==
    /\ at[r] = "stamping"
    /\ stamp' = {mark[r]}
    /\ mark' = [mark EXCEPT ![r] = 0]
    /\ Goes(r, "ready")
    /\ UNCHANGED <<chat, lines, process, code, scope, spool, registered, staged,
                   data, history, crashesLeft>>

-----------------------------------------------------------------------------
(* pyexec.run.                                                             *)

Write(r) ==
    /\ at[r] = "ready"
    /\ code' = r
    /\ Goes(r, "coded")
    /\ UNCHANGED <<chat, mark, lines, process, scope, stamp, spool, registered, staged,
                   data, history, crashesLeft>>

\* Wrong: the process is started before its code is there.
Spawn_Early(r) ==
    /\ at[r] \in {"ready", "coded"}
    /\ proc' = [proc EXCEPT ![r] = "boot"]
    /\ Goes(r, "spawned")
    /\ UNCHANGED <<chat, mark, lines, runs, seen, wrote, files, spool, registered, staged,
                   data, history, crashesLeft>>

Spawn(r) ==
    /\ at[r] = "coded"
    /\ proc' = [proc EXCEPT ![r] = "boot"]
    /\ Goes(r, "spawned")
    /\ UNCHANGED <<chat, mark, lines, runs, seen, wrote, files, spool, registered, staged,
                   data, history, crashesLeft>>

Register(r) ==
    /\ at[r] = "spawned"
    /\ registered' = registered \cup {r}
    /\ Goes(r, "waits")
    /\ UNCHANGED <<chat, mark, lines, process, files, spool, staged, data, history, crashesLeft>>

\* Wrong: harvests what there is and leaves a slow script running.
Collect_Leaves(r) ==
    /\ at[r] = "waits"
    /\ registered' = registered \ {r}
    /\ Goes(r, "harvests")
    /\ UNCHANGED <<chat, mark, lines, process, files, spool, staged, data, history, crashesLeft>>

\* Wrong: what has ended stays in the list.
Collect_Listed(r) ==
    /\ at[r] = "waits"
    /\ proc' = [proc EXCEPT ![r] = "dead"]
    /\ Goes(r, "harvests")
    /\ UNCHANGED <<chat, mark, lines, runs, seen, wrote, files, spool, registered, staged,
                   data, history, crashesLeft>>

\* communicate: the process has ended, or is killed when its time is up.
Collect(r) ==
    /\ at[r] = "waits"
    /\ proc' = [proc EXCEPT ![r] = "dead"]
    /\ registered' = registered \ {r}
    /\ Goes(r, "harvests")
    /\ UNCHANGED <<chat, mark, lines, runs, seen, wrote, files, spool, staged, data,
                   history, crashesLeft>>

\* pyexec.abort, when the turn of the chat's session is stopped.
Abort(k) ==
    /\ proc' = [r \in Runs |-> IF r \in registered /\ chat[r] = k THEN "dead" ELSE proc[r]]
    /\ UNCHANGED <<tool, runs, seen, wrote, files, spool, registered, staged, data,
                   history, crashesLeft>>

-----------------------------------------------------------------------------
(* pyexec.harvest.                                                         *)

ReadSpool(r) ==
    /\ at[r] = "harvests"
    /\ lines' = [lines EXCEPT ![r] = spool]
    /\ Goes(r, IF spool = {} THEN "done" ELSE "read")
    /\ UNCHANGED <<chat, mark, process, files, spool, registered, staged, data, history, crashesLeft>>

\* Wrong: leaves the file for the next one.
Unlink_Not(r) ==
    /\ at[r] = "read"
    /\ Goes(r, "staging")
    /\ UNCHANGED <<chat, mark, lines, process, files, spool, registered, staged, data,
                   history, crashesLeft>>

Unlink(r) ==
    /\ at[r] = "read"
    /\ spool' = {}
    /\ Goes(r, "staging")
    /\ UNCHANGED <<chat, mark, lines, process, files, registered, staged, data, history, crashesLeft>>

\* One line: dropped when it is for another chat. (Lines of turns that are gone
\* or say nothing new are not modelled.)
StageLine(r, l) ==
    /\ at[r] = "staging" /\ l \in lines[r]
    /\ lines' = [lines EXCEPT ![r] = @ \ {l}]
    /\ staged' = IF chat[l[1]] = chat[r] THEN staged \cup {<<l, r>>} ELSE staged
    /\ UNCHANGED <<at, chat, mark, process, files, spool, registered, data, history, crashesLeft>>

Return(r) ==
    /\ at[r] = "staging" /\ lines[r] = {}
    /\ Goes(r, "done")
    /\ UNCHANGED <<chat, mark, lines, process, files, spool, registered, staged, data,
                   history, crashesLeft>>

-----------------------------------------------------------------------------
(* The process (sandbox.BOOTSTRAP and HELPER), and the backend's restart.  *)

Boot(r) ==
    /\ proc[r] = "boot"
    /\ proc' = [proc EXCEPT ![r] = "runs"]
    /\ runs' = [runs EXCEPT ![r] = code]
    /\ seen' = [seen EXCEPT ![r] = scope]
    /\ UNCHANGED <<tool, wrote, files, spool, registered, staged, data, history, crashesLeft>>

Propose(r) ==
    /\ proc[r] = "runs" /\ wrote[r] < Lines
    /\ wrote' = [wrote EXCEPT ![r] = @ + 1]
    /\ spool' = spool \cup {<<r, wrote'[r]>>}
    /\ UNCHANGED <<tool, proc, runs, seen, files, registered, staged, data, history, crashesLeft>>

Exit(r) ==
    /\ proc[r] = "runs"
    /\ proc' = [proc EXCEPT ![r] = "dead"]
    /\ UNCHANGED <<tool, runs, seen, wrote, files, spool, registered, staged, data,
                   history, crashesLeft>>

\* The tools are gone, the processes and the files are not.
Crash ==
    /\ crashesLeft > 0 /\ crashesLeft' = crashesLeft - 1
    /\ at' = [r \in Runs |-> IF at[r] \in {"idle"} \cup Over THEN at[r] ELSE "lost"]
    /\ lines' = [r \in Runs |-> {}] /\ registered' = {}
    /\ UNCHANGED <<chat, mark, process, files, spool, staged, data, history>>

-----------------------------------------------------------------------------

Tool(r) ==
    \/ Copy(r) \/ CopyRaises(r) \/ Stamp(r) \/ Write(r) \/ Spawn(r) \/ Register(r)
    \/ Collect(r) \/ ReadSpool(r) \/ Unlink(r) \/ Return(r)
    \/ \E l \in Written : StageLine(r, l)

Next ==
    \/ Edit
    \/ \E k \in Chats : Abort(k)
    \/ Crash
    \/ \E r \in Runs : Look(r) \/ Tool(r) \/ Boot(r) \/ Propose(r) \/ Exit(r)

Spec == Init /\ [][Next]_vars

-----------------------------------------------------------------------------
(* Properties.                                                             *)

\* A run that no other overlapped builds its snapshot without an error and runs
\* the code it was given.
RunsItsOwn == \A r \in Runs \ met : at[r] # "raised" /\ runs[r] \in {r, Nobody}

\* A run that no other overlapped stages every line its process wrote, also
\* when it was stopped or its time was up: nothing is appended after the spool
\* is read.
EveryLineLands ==
    \A r \in Runs \ met : at[r] = "done" => \A n \in 1..wrote[r] : <<<<r, n>>, r>> \in staged

\* A proposal reaches the user twice only if two runs overlapped.
StagedOnce ==
    \A x, y \in staged : x[1] = y[1] /\ x[2] # y[2] => {x[2], y[2]} \subseteq met

\* A script's proposals are staged for the chat it was started in, whoever
\* harvests the spool.
StagedForItsChat == \A x \in staged : chat[x[1][1]] = chat[x[2]]

\* A script reads every timed change made before its run began, whoever built
\* the snapshot: the stamp is read before the rows are, so a change in between
\* makes the next run copy again. Only a run that overlaps may find no snapshot.
SeesEdits ==
    \A r \in Runs :
        /\ seen[r].there => seen[r].rows >= asked[r]
        /\ r \notin met /\ runs[r] # Nobody => seen[r].there
=============================================================================
