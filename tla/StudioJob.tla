----------------------------- MODULE StudioJob -----------------------------
(***************************************************************************)
(* Image batches (pyserver/app/studiojob.py): a row of the jobs table and  *)
(* a thread per batch, one slot for the account, cancelling between two    *)
(* images; and the agent's tool that waits for a batch, which a stop of    *)
(* the turn reaches through session._STOPPED only.                         *)
(*                                                                         *)
(* A worker can die of an exception outside the per-image try, and the     *)
(* backend can stop: rows stay, threads and marks do not.                  *)
(***************************************************************************)
EXTENDS Naturals, FiniteSets

CONSTANTS
    Jobs,       \* ids of the batches started
    NoJob,      \* nobody holds the slot, no tool waits
    GaveUp,     \* the tool has waited for an hour
    Images,     \* images of a batch
    MaxFaults   \* bound: workers that die of an exception, backend restarts

ASSUME StudioJobAssumption ==
    /\ NoJob \notin Jobs /\ GaveUp \notin Jobs /\ NoJob # GaveUp
    /\ Images \in Nat \ {0}
    /\ MaxFaults \in Nat

Final   == {"done", "partial", "cancelled"}
States  == {"none", "pending", "running"} \cup Final
Waiting == {"queued", "woke"}
Inside  == {"taken", "loop", "drawing", "saved", "failed", "closing", "leaving"}

VARIABLES
    state, saved, failed,   \* per job, the row
    worker,                 \* per job, where its thread is
    gate,                   \* _GEN_GATE: the job that holds it
    cancel,                 \* _cancel
    files,                  \* per job, images written to disk
    waits,                  \* the job studio_generate(wait=True) waits for
    stopped,                \* the session's mark in _STOPPED
    asked, late,            \* history: cancelled ids, images written since
    orphans,                \* history: unfinished jobs that lost their thread
    faultsLeft              \* bound counter

row    == <<state, saved, failed>>
thread == <<worker, gate>>
marks  == <<cancel, asked>>
disk   == <<files, late>>
agent  == <<waits, stopped>>
faults == <<orphans, faultsLeft>>
vars   == <<row, thread, marks, disk, agent, faults>>

TypeOK ==
    /\ state \in [Jobs -> States]
    /\ saved \in [Jobs -> 0..Images] /\ failed \in [Jobs -> 0..Images]
    /\ worker \in [Jobs -> {"none"} \cup Waiting \cup Inside]
    /\ gate \in Jobs \cup {NoJob}
    /\ cancel \subseteq Jobs /\ asked \subseteq Jobs /\ orphans \subseteq Jobs
    /\ files \in [Jobs -> 0..Images] /\ late \in [Jobs -> 0..Images]
    /\ waits \in Jobs \cup {NoJob, GaveUp} /\ stopped \in BOOLEAN
    /\ faultsLeft \in 0..MaxFaults

Init ==
    /\ state = [j \in Jobs |-> "none"]
    /\ saved = [j \in Jobs |-> 0] /\ failed = [j \in Jobs |-> 0]
    /\ worker = [j \in Jobs |-> "none"]
    /\ gate = NoJob
    /\ cancel = {} /\ asked = {} /\ orphans = {}
    /\ files = [j \in Jobs |-> 0] /\ late = [j \in Jobs |-> 0]
    /\ waits = NoJob /\ stopped = FALSE
    /\ faultsLeft = MaxFaults

At(j, place) == worker[j] = place
Goes(j, to)  == worker' = [worker EXCEPT ![j] = to]
Sets(j, s)   == state' = [state EXCEPT ![j] = s] /\ UNCHANGED <<saved, failed>>
Rest         == UNCHANGED <<agent, faults>>
Through(j)   == saved[j] + failed[j]

-----------------------------------------------------------------------------
(* studiojob.start and studiojob.cancel.                                   *)

\* From the panel's button, or from a tool that does not wait.
Start(j) ==
    /\ state[j] = "none"
    /\ Sets(j, "pending")
    /\ Goes(j, "queued")
    /\ UNCHANGED <<gate, marks, disk, agent, faults>>

\* studio_generate with wait=True, for one tool at a time that waits. The mark
\* may be set already, when the turn was stopped before the tool's thread ran.
StartAndWait(j) ==
    /\ state[j] = "none" /\ waits = NoJob
    /\ Sets(j, "pending")
    /\ Goes(j, "queued")
    /\ waits' = j
    /\ UNCHANGED <<gate, marks, disk, stopped, faults>>

Mark(j) == cancel' = cancel \cup {j} /\ asked' = asked \cup {j}

\* Any id is taken, also of a batch that is about to end or has ended.
Cancel(j) ==
    /\ state[j] # "none"
    /\ Mark(j)
    /\ UNCHANGED <<row, thread, disk, agent, faults>>

-----------------------------------------------------------------------------
(* The thread of a batch: _run.                                            *)

Grab(j) ==
    /\ At(j, "queued") /\ gate = NoJob
    /\ gate' = j
    /\ Goes(j, "taken")
    /\ UNCHANGED <<row, marks, disk>> /\ Rest

\* acquire(timeout=1.0) gives up; then the loop looks at the marks.
Wake(j) ==
    /\ At(j, "queued") /\ gate # NoJob
    /\ Goes(j, "woke")
    /\ UNCHANGED <<row, gate, marks, disk>> /\ Rest

\* Wrong: leaves by way of the finally, which gives the slot back.
CheckQueued_Releases(j) ==
    /\ At(j, "woke")
    /\ IF j \in cancel
       THEN Sets(j, "cancelled") /\ Goes(j, "none") /\ cancel' = cancel \ {j} /\ gate' = NoJob
       ELSE Goes(j, "queued") /\ UNCHANGED <<row, cancel, gate>>
    /\ UNCHANGED <<asked, disk>> /\ Rest

CheckQueued(j) ==
    /\ At(j, "woke")
    /\ IF j \in cancel
       THEN Sets(j, "cancelled") /\ Goes(j, "none") /\ cancel' = cancel \ {j}
       ELSE Goes(j, "queued") /\ UNCHANGED <<row, cancel>>
    /\ UNCHANGED <<gate, asked, disk>> /\ Rest

-----------------------------------------------------------------------------
(* _run_locked.                                                            *)

Run(j) ==
    /\ At(j, "taken")
    /\ Sets(j, "running")
    /\ Goes(j, "loop")
    /\ UNCHANGED <<gate, marks, disk>> /\ Rest

\* Wrong: looks for a cancel also when all the images are there.
Cancelled_Late(j) ==
    /\ At(j, "loop") /\ j \in cancel
    /\ cancel' = cancel \ {j}
    /\ Sets(j, "cancelled")
    /\ Goes(j, "leaving")
    /\ UNCHANGED <<gate, asked, disk>> /\ Rest

Cancelled(j) ==
    /\ At(j, "loop") /\ Through(j) < Images /\ j \in cancel
    /\ cancel' = cancel \ {j}
    /\ Sets(j, "cancelled")
    /\ Goes(j, "leaving")
    /\ UNCHANGED <<gate, asked, disk>> /\ Rest

\* Wrong: one image more than the batch has.
Begin_More(j) ==
    /\ At(j, "loop") /\ Through(j) <= Images /\ j \notin cancel
    /\ Goes(j, "drawing")
    /\ UNCHANGED <<row, gate, marks, disk>> /\ Rest

\* Wrong: a batch that has begun looks at the marks no more.
Begin_Unasked(j) ==
    /\ At(j, "loop") /\ Through(j) < Images /\ (Through(j) = 0 => j \notin cancel)
    /\ Goes(j, "drawing")
    /\ UNCHANGED <<row, gate, marks, disk>> /\ Rest

\* References that do not fit are skipped; the image is streamed, or asked for
\* as a ZIP once a stream has failed.
Begin(j) ==
    /\ At(j, "loop") /\ Through(j) < Images /\ j \notin cancel
    /\ Goes(j, "drawing")
    /\ UNCHANGED <<row, gate, marks, disk>> /\ Rest

\* studio.save_image.
Save(j) ==
    /\ At(j, "drawing")
    /\ files' = [files EXCEPT ![j] = @ + 1]
    /\ late' = [late EXCEPT ![j] = IF j \in asked THEN @ + 1 ELSE @]
    /\ Goes(j, "saved")
    /\ UNCHANGED <<row, gate, marks>> /\ Rest

ImageFails(j) ==
    /\ At(j, "drawing")
    /\ Goes(j, "failed")
    /\ UNCHANGED <<row, gate, marks, disk>> /\ Rest

\* Wrong: an image that failed is not counted.
Record_Saved(j) ==
    /\ worker[j] \in {"saved", "failed"}
    /\ saved' = [saved EXCEPT ![j] = @ + 1]
    /\ Goes(j, "loop")
    /\ UNCHANGED <<state, failed, gate, marks, disk>> /\ Rest

\* done += 1 and the row's payload, in one update.
Record(j) ==
    /\ \/ At(j, "saved") /\ saved' = [saved EXCEPT ![j] = @ + 1] /\ UNCHANGED failed
       \/ At(j, "failed") /\ failed' = [failed EXCEPT ![j] = @ + 1] /\ UNCHANGED saved
    /\ Goes(j, "loop")
    /\ UNCHANGED <<state, gate, marks, disk>> /\ Rest

\* The account is asked what is left, which takes a while.
Wrap(j) ==
    /\ At(j, "loop") /\ Through(j) = Images
    /\ Goes(j, "closing")
    /\ UNCHANGED <<row, gate, marks, disk>> /\ Rest

Close(j) ==
    /\ At(j, "closing")
    /\ Sets(j, IF failed[j] = 0 THEN "done" ELSE "partial")
    /\ Goes(j, "leaving")
    /\ UNCHANGED <<gate, marks, disk>> /\ Rest

\* Wrong: the slot is given back only by a batch that went through.
Leave_Done(j) ==
    /\ At(j, "leaving")
    /\ gate' = IF state[j] = "done" THEN NoJob ELSE gate
    /\ Goes(j, "none")
    /\ UNCHANGED <<row, marks, disk>> /\ Rest

Leave(j) ==
    /\ At(j, "leaving")
    /\ gate' = NoJob
    /\ Goes(j, "none")
    /\ UNCHANGED <<row, marks, disk>> /\ Rest

\* An update of the row raises: the slot is given back, the row says what it
\* said, a mark just read is gone.
Dies(j) ==
    /\ faultsLeft > 0 /\ faultsLeft' = faultsLeft - 1
    /\ worker[j] \in {"woke", "taken", "loop", "saved", "failed", "closing"}
    /\ At(j, "loop") => Through(j) < Images
    /\ IF At(j, "woke") THEN j \in cancel /\ UNCHANGED gate ELSE gate' = NoJob
    /\ cancel' = IF worker[j] \in {"woke", "loop"} THEN cancel \ {j} ELSE cancel
    /\ Goes(j, "none")
    /\ orphans' = orphans \cup {j}
    /\ UNCHANGED <<row, asked, disk, agent>>

\* The backend stops and comes back. Nothing starts a batch again.
Crash ==
    /\ faultsLeft > 0 /\ faultsLeft' = faultsLeft - 1
    /\ worker' = [j \in Jobs |-> "none"] /\ gate' = NoJob
    /\ cancel' = {} /\ stopped' = FALSE
    /\ waits' = NoJob
    /\ orphans' = orphans \cup {j \in Jobs : state[j] \in {"pending", "running"}}
    /\ UNCHANGED <<row, asked, disk>>

-----------------------------------------------------------------------------
(* The tool that waits, and the turn it runs in.                           *)

\* The turn is cut off (a mark), or the next one begins (it is taken off).
StopTurn == /\ ~stopped /\ stopped' = TRUE
            /\ UNCHANGED <<row, thread, marks, disk, waits, faults>>
NextTurn == /\ stopped /\ stopped' = FALSE
            /\ UNCHANGED <<row, thread, marks, disk, waits, faults>>

\* Wrong: looks at the mark only when the batch has ended.
ToolLooks_Last(j) ==
    /\ waits = j /\ state[j] \in Final
    /\ waits' = NoJob
    /\ UNCHANGED <<row, thread, marks, disk, stopped, faults>>

ToolLooks(j) ==
    /\ waits = j
    /\ \/ stopped /\ Mark(j)
       \/ ~stopped /\ state[j] \in Final /\ UNCHANGED marks
    /\ waits' = NoJob
    /\ UNCHANGED <<row, thread, disk, stopped, faults>>

\* An hour has passed.
ToolGivesUp(j) ==
    /\ waits = j /\ waits' = GaveUp
    /\ UNCHANGED <<row, thread, marks, disk, stopped, faults>>

-----------------------------------------------------------------------------

Worker(j) ==
    \/ Grab(j) \/ Wake(j) \/ CheckQueued(j) \/ Run(j) \/ Cancelled(j) \/ Begin(j)
    \/ Save(j) \/ ImageFails(j) \/ Record(j) \/ Wrap(j) \/ Close(j) \/ Leave(j)

Next ==
    \/ StopTurn \/ NextTurn \/ Crash
    \/ \E j \in Jobs : \/ Start(j) \/ StartAndWait(j) \/ Cancel(j)
                      \/ Worker(j) \/ Dies(j) \/ ToolLooks(j) \/ ToolGivesUp(j)

\* Threads run, requests to NovelAI time out, the tool looks every 1.5 s.
\* Users and failures are free.
Fairness == \A j \in Jobs : WF_vars(Worker(j)) /\ WF_vars(ToolLooks(j))

Spec == Init /\ [][Next]_vars /\ Fairness

-----------------------------------------------------------------------------
(* Properties.                                                             *)

\* The account's slot: whoever is between taking it and giving it back is the
\* one that holds it, through cancels in the queue, failed updates and restarts
\* (NovelAI refuses a second generation at a time).
OneAtATime == \A j \in Jobs : worker[j] \in Inside <=> gate = j

\* What a finished row says happened: done has every image on disk, partial is
\* through with every image, a cancelled batch was asked for; and an image on
\* disk is missing from the row only when a stop fell between the two writes.
RowTellsTruth ==
    \A j \in Jobs :
        /\ state[j] \in {"done", "partial"} => saved[j] = files[j] /\ Through(j) = Images
        /\ state[j] = "done" => files[j] = Images
        /\ state[j] = "partial" => failed[j] > 0
        /\ state[j] = "cancelled" => j \in asked /\ Through(j) < Images
        /\ files[j] \in {saved[j], saved[j] + 1}

\* After a cancel at most the image being drawn is still written, wherever the
\* batch was: in the queue, between two images, or with the stream broken.
CancelStops == \A j \in Jobs : late[j] <= 1

\* The row goes through the life that everyone who polls it relies on, and
\* never leaves its end.
Life == INSTANCE JobLife WITH life <- state, count <- [j \in Jobs |-> Through(j)]
ImplementsJobLife == Life!Spec

\* A batch that was started ends, however many wait for the slot, unless its
\* thread was lost.
EveryBatchEnds ==
    \A j \in Jobs : state[j] = "pending" ~> state[j] \in Final \/ j \in orphans

\* A stop of the turn reaches the batch the turn waits for, unless the next
\* turn (or a restart) takes the mark off first or the tool had waited too long.
StopReachesBatch ==
    \A j \in Jobs : (stopped /\ waits = j) ~> (j \in asked \/ ~stopped \/ waits = GaveUp)
=============================================================================
