------------------------------ MODULE ChatSync ------------------------------
(***************************************************************************)
(* One chat held in two places: RisuAI's live chat, and the panel's copy   *)
(* of it in the backend (the working turns and the baseline they were read *)
(* from). The two are edited independently. The panel brings RisuAI's side *)
(* in with an upload (store.ingest_chat, a three-way merge) and pushes its *)
(* own side out with a write-back (state.writeBack, host.writeChat), which *)
(* is a sequence of awaits with nothing locked between them.               *)
(*                                                                         *)
(* Turns are addressed by msg_id, so a copy of the chat is a function from *)
(* message ids to bodies, with Absent where the copy has no such turn. The *)
(* order of the turns is not part of this module.                          *)
(***************************************************************************)
EXTENDS Merge, Naturals, FiniteSets

CONSTANTS
    Ids,        \* message ids
    Seeded,     \* ids of the turns RisuAI holds before the panel ever opens
    Bodies,     \* turn texts
    Absent,     \* "no such turn"
    Writers,    \* who runs write-backs: "bar" (the button), "queue" (an approved action)
    Faults,     \* which failures the environment may produce
    MaxRisu,    \* bound: edits made in RisuAI
    MaxPanel    \* bound: edits made in the panel

AllFaults == {"lost-upload", "lost-commit", "dropped-write", "stub"}

ASSUME ConstantsAssumption ==
    /\ Absent \notin Bodies
    /\ Seeded \subseteq Ids
    /\ Writers \subseteq {"bar", "queue"}
    /\ Faults \subseteq AllFaults
    /\ MaxRisu \in Nat
    /\ MaxPanel \in Nat

Panel   == "panel"
Clients == {Panel} \cup Writers

Copy  == [Ids -> Bodies \cup {Absent}]
Empty == [i \in Ids |-> Absent]

\* conflict_json: the kinds of merge.py, with the "deleted-here" side of a
\* deleted-upstream conflict told apart (store._merge_turns stores it so).
Flags   == {NoConflict, "both-moved", "deleted-upstream", "deleted-here"}
NoFlags == [i \in Ids |-> NoConflict]

UploadKinds == {"none", "open", "reload", "reread"}
NoUpload    == [kind |-> "none", live |-> TRUE, chat |-> Empty]

Phases == {"idle", "patched", "checked", "sent", "verified", "rereading"}

VARIABLES
    host,       \* RisuAI's live chat
    base,       \* turns_original: RisuAI's chat as of the last upload
    work,       \* turns: the panel's working copy
    flag,       \* turns.conflict_json
    loaded,     \* the chat has a row in chats: it was ingested once
    snap,       \* one named snapshot of the working copy
    issued,     \* msg_ids already handed out (uuid4: never handed out twice)
    upload,     \* per client, the upload it has read from RisuAI and not yet stored
    armed,      \* the bar's apply button was drawn enabled
    phase,      \* per writer, how far its write-back is
    pBase,      \* the baseline its patch was computed from
    pWork,      \* the working copy its patch was computed from
    seen,       \* the live chat it read and checked
    next,       \* the chat it composed to write
    risuLeft,   \* bound counter
    panelLeft   \* bound counter

copies == <<host, base, work, flag, loaded, snap, issued>>
wbVars == <<armed, phase, pBase, pWork, seen, next>>
bounds == <<risuLeft, panelLeft>>
vars   == <<host, base, work, flag, loaded, snap, issued, upload,
            armed, phase, pBase, pWork, seen, next, risuLeft, panelLeft>>

TypeOK ==
    /\ host \in Copy /\ base \in Copy /\ work \in Copy /\ snap \in Copy
    /\ flag \in [Ids -> Flags]
    /\ loaded \in BOOLEAN
    /\ issued \in SUBSET Ids
    /\ upload \in [Clients -> [kind: UploadKinds, live: BOOLEAN, chat: Copy]]
    /\ armed \in BOOLEAN
    /\ phase \in [Writers -> Phases]
    /\ pBase \in [Writers -> Copy] /\ pWork \in [Writers -> Copy]
    /\ seen \in [Writers -> Copy] /\ next \in [Writers -> Copy]
    /\ risuLeft \in 0..MaxRisu /\ panelLeft \in 0..MaxPanel

\* Never loaded: both tables are empty, RisuAI has its own turns.
Init ==
    /\ \E b \in Bodies : host = [i \in Ids |-> IF i \in Seeded THEN b ELSE Absent]
    /\ base = Empty /\ work = Empty /\ snap = Empty
    /\ flag = NoFlags
    /\ loaded = FALSE
    /\ issued = Seeded
    /\ upload = [c \in Clients |-> NoUpload]
    /\ armed = FALSE
    /\ phase = [w \in Writers |-> "idle"]
    /\ pBase = [w \in Writers |-> Empty] /\ pWork = [w \in Writers |-> Empty]
    /\ seen = [w \in Writers |-> Empty] /\ next = [w \in Writers |-> Empty]
    /\ risuLeft = MaxRisu /\ panelLeft = MaxPanel

-----------------------------------------------------------------------------
(* RisuAI: the user (or a generation) edits, deletes and adds messages     *)
(* there while the panel is open.                                          *)

RisuSpends == risuLeft > 0 /\ risuLeft' = risuLeft - 1
RisuFrame  == UNCHANGED <<base, work, flag, loaded, snap, upload, wbVars, panelLeft>>

RisuEdit(i, b) ==
    /\ RisuSpends
    /\ host[i] \in Bodies \ {b}
    /\ host' = [host EXCEPT ![i] = b]
    /\ UNCHANGED issued /\ RisuFrame

RisuDelete(i) ==
    /\ RisuSpends
    /\ host[i] # Absent
    /\ host' = [host EXCEPT ![i] = Absent]
    /\ UNCHANGED issued /\ RisuFrame

RisuAdd(i, b) ==
    /\ RisuSpends
    /\ i \notin issued
    /\ host' = [host EXCEPT ![i] = b]
    /\ issued' = issued \cup {i}
    /\ RisuFrame

-----------------------------------------------------------------------------
(* The panel's edits of the working copy.                                  *)

PanelSpends == loaded /\ panelLeft > 0 /\ panelLeft' = panelLeft - 1
PanelFrame  == UNCHANGED <<host, base, loaded, snap, upload, wbVars, risuLeft>>

\* store.set_body: the flag of a conflicted row stays on it.
SetBody(i, b) ==
    /\ PanelSpends
    /\ work[i] \in Bodies \ {b}
    /\ work' = [work EXCEPT ![i] = b]
    /\ UNCHANGED <<flag, issued>> /\ PanelFrame

\* store.delete_turns: the flag goes with the row.
DeleteTurn(i) ==
    /\ PanelSpends
    /\ work[i] # Absent
    /\ work' = [work EXCEPT ![i] = Absent]
    /\ flag' = [flag EXCEPT ![i] = NoConflict]
    /\ UNCHANGED issued /\ PanelFrame

\* store.insert_turn: a fresh msg_id, no baseline.
InsertTurn(i, b) ==
    /\ PanelSpends
    /\ i \notin issued
    /\ work' = [work EXCEPT ![i] = b]
    /\ flag' = [flag EXCEPT ![i] = NoConflict]
    /\ issued' = issued \cup {i}
    /\ PanelFrame

\* Wrong: the conflict marks outlive the rows they were on.
ResetWorking_KeepsFlags ==
    /\ PanelSpends
    /\ work' = base
    /\ UNCHANGED <<flag, issued>> /\ PanelFrame

\* main.h_reset, store.reset_working.
ResetWorking ==
    /\ PanelSpends
    /\ work' = base
    /\ flag' = NoFlags
    /\ UNCHANGED issued /\ PanelFrame

\* snapshots.create by name.
SaveSnapshot ==
    /\ PanelSpends
    /\ snap' = work
    /\ UNCHANGED <<host, base, work, flag, loaded, issued, upload, wbVars, risuLeft>>

\* snapshots.restore, store.restore_turns: the working copy only.
RestoreSnapshot ==
    /\ PanelSpends
    /\ snap # Empty
    /\ work' = snap
    /\ flag' = NoFlags
    /\ UNCHANGED issued /\ PanelFrame

\* conflicts.resolve. Taking RisuAI's side copies the baseline; a conflict of
\* kind deleted-upstream deletes the row, and a turn deleted here and edited
\* there carries that kind too.
KeepMine(i) ==
    /\ flag[i] # NoConflict
    /\ flag' = [flag EXCEPT ![i] = NoConflict]
    /\ UNCHANGED <<host, base, work, loaded, snap, issued, upload, wbVars, bounds>>

TakeTheirs(i) ==
    /\ flag[i] # NoConflict
    /\ \/ /\ flag[i] \in {"deleted-upstream", "deleted-here"}
          /\ work' = [work EXCEPT ![i] = Absent]
       \/ /\ flag[i] = "both-moved"
          /\ base[i] # Absent          \* else ConflictError
          /\ work' = [work EXCEPT ![i] = base[i]]
    /\ flag' = [flag EXCEPT ![i] = NoConflict]
    /\ UNCHANGED <<host, base, loaded, snap, issued, upload, wbVars, bounds>>

-----------------------------------------------------------------------------
(* Uploads: state.upload reads RisuAI, the backend stores what it is sent. *)
(* RisuAI may do anything in between. A chat RisuAI does not have open may *)
(* be handed over as a stub with no messages.                              *)

\* What a read of this chat can hand the panel. live marks the chat RisuAI has
\* open itself; it only matters when the messages are missing.
Reads(kind) ==
    {[kind |-> kind, live |-> TRUE, chat |-> host]}
    \cup (IF kind = "open" /\ ("stub" \in Faults \/ host = Empty)
          THEN {[kind |-> kind, live |-> FALSE, chat |-> Empty]} ELSE {})

\* state.openChat ("open") and the header's reload of RisuAI's open chat
\* ("reload": force).
StartUpload(kind) ==
    /\ kind \in {"open", "reload"}
    /\ upload[Panel] = NoUpload
    /\ \E u \in Reads(kind) : upload' = [upload EXCEPT ![Panel] = u]
    /\ UNCHANGED <<copies, wbVars, bounds>>

Row(body, kind) == [body |-> body, kind |-> kind]

\* store._merge_turns, one turn. Both sides hold it: the three-way rule,
\* unless it was inserted here and only reached RisuAI since.
MergeBoth(i, theirs) ==
    LET op == Decide(work[i], base[i], theirs, FALSE, "keyed")
    IN  IF base[i] = Absent THEN Row(work[i], NoConflict)
        ELSE Row(IF op.action = "adopt" THEN theirs ELSE work[i], op.kind)

\* Only RisuAI holds it: new there, or deleted here.
MergeTheirsOnly(i, theirs) ==
    IF base[i] = Absent THEN Row(theirs, NoConflict)
    ELSE IF base[i] # theirs THEN Row(theirs, "deleted-here")
    ELSE Row(Absent, NoConflict)

\* Only the panel holds it: inserted here, or deleted there.
MergeOursOnly(i) ==
    LET op == DecideMissing(work[i], base[i], FALSE, TRUE)
    IN  IF base[i] = Absent THEN Row(work[i], flag[i])
        ELSE IF op.action = "delete" THEN Row(Absent, NoConflict)
        ELSE Row(work[i], op.kind)

\* Wrong: turns are paired as if by position only.
MergeTurn_Positional(i, theirs) ==
    Row(work[i], Decide(work[i], base[i], theirs, FALSE, "positional").kind)

\* Wrong: RisuAI's text always replaces the panel's.
MergeTurn_TheirsWin(i, theirs) == Row(theirs, NoConflict)

\* Wrong: the working copy is left alone while the baseline moves under it.
MergeTurn_OursStay(i, theirs) == Row(work[i], NoConflict)

\* One turn's new body and new flag.
MergeTurn(i, theirs) ==
    IF work[i] # Absent /\ theirs # Absent THEN MergeBoth(i, theirs)
    ELSE IF theirs # Absent THEN MergeTheirsOnly(i, theirs)
    ELSE IF work[i] # Absent THEN MergeOursOnly(i)
    ELSE Row(Absent, NoConflict)

Refused(u) == u.kind = "open" /\ ~u.live /\ u.chat = Empty
Resets(u)  == u.kind \in {"reload", "reread"} \/ (work = Empty /\ base = Empty)

\* A client's upload has been answered (or lost): its flow goes on without it.
UploadOver(c) ==
    /\ upload' = [upload EXCEPT ![c] = NoUpload]
    /\ phase'  = IF c \in Writers THEN [phase EXCEPT ![c] = "idle"] ELSE phase
    /\ UNCHANGED <<armed, pBase, pWork, seen, next, host, snap, issued, bounds>>

\* The backend refuses an empty chat nobody vouches for.
IngestRefused(c) ==
    /\ upload[c] # NoUpload
    /\ Refused(upload[c])
    /\ UploadOver(c)
    /\ UNCHANGED <<base, work, flag, loaded>>

IngestReset(c) ==
    /\ upload[c] # NoUpload
    /\ ~Refused(upload[c])
    /\ Resets(upload[c])
    /\ base' = upload[c].chat
    /\ work' = upload[c].chat
    /\ flag' = NoFlags
    /\ loaded' = TRUE
    /\ UploadOver(c)

\* Wrong: the baseline of a conflicted turn stays behind.
IngestMerge_BaseStays(c) ==
    LET theirs == upload[c].chat
        merged == [i \in Ids |-> MergeTurn(i, theirs[i])] IN
    /\ upload[c] # NoUpload
    /\ ~Refused(upload[c])
    /\ ~Resets(upload[c])
    /\ base' = [i \in Ids |-> IF merged[i].kind = NoConflict THEN theirs[i] ELSE base[i]]
    /\ work' = [i \in Ids |-> merged[i].body]
    /\ flag' = [i \in Ids |-> merged[i].kind]
    /\ UNCHANGED loaded
    /\ UploadOver(c)

IngestMerge(c) ==
    LET theirs == upload[c].chat IN
    /\ upload[c] # NoUpload
    /\ ~Refused(upload[c])
    /\ ~Resets(upload[c])
    /\ base' = theirs
    /\ work' = [i \in Ids |-> MergeTurn(i, theirs[i]).body]
    /\ flag' = [i \in Ids |-> MergeTurn(i, theirs[i]).kind]
    /\ UNCHANGED loaded
    /\ UploadOver(c)

LoseUpload(c) ==
    /\ "lost-upload" \in Faults
    /\ upload[c] # NoUpload
    /\ UploadOver(c)
    /\ UNCHANGED <<base, work, flag, loaded>>

-----------------------------------------------------------------------------
(* Write-back: patch, read and check RisuAI's chat, set it, read it back,  *)
(* commit and re-read. The bar's button does all of it; an approved        *)
(* host_writeback stops after the read-back.                               *)

Edited(w)     == {i \in Ids : pBase[w][i] # pWork[w][i]}
Structural(w) == \E i \in Ids : (pBase[w][i] = Absent) # (pWork[w][i] = Absent)

\* Wrong: the whole array is replaced without looking.
GuardsPass_BlindReplace(w) == Structural(w) \/ \A i \in Edited(w) : host[i] = pBase[w][i]

\* host.writeChat's checks: the whole list for a structural change, each
\* edited turn otherwise.
GuardsPass(w) ==
    IF Structural(w) THEN host = pBase[w]
    ELSE \A i \in Edited(w) : host[i] = pBase[w][i]

Composed(w) ==
    IF Structural(w) THEN pWork[w]
    ELSE [i \in Ids |-> IF i \in Edited(w) THEN pWork[w][i] ELSE host[i]]

WriterFrame == UNCHANGED <<base, work, flag, loaded, snap, issued, bounds>>
\* The flow is past its last use of what it read.
Forget(w) ==
    /\ pBase' = [pBase EXCEPT ![w] = Empty]
    /\ pWork' = [pWork EXCEPT ![w] = Empty]
    /\ seen'  = [seen EXCEPT ![w] = Empty]
    /\ next'  = [next EXCEPT ![w] = Empty]
Idle(w) ==
    /\ phase' = [phase EXCEPT ![w] = "idle"]
    /\ Forget(w)
    /\ UNCHANGED <<armed, host, upload>> /\ WriterFrame

\* The popover is drawn; its button is enabled when no conflict is open.
ArmBar ==
    /\ "bar" \in Writers
    /\ phase["bar"] = "idle"
    /\ ~armed
    /\ flag = NoFlags
    /\ armed' = TRUE
    /\ UNCHANGED <<copies, upload, phase, pBase, pWork, seen, next, bounds>>

\* state.writeBack: GET /patch. A patch with nothing in it is a no-op.
TakePatch(w) ==
    /\ phase[w] = "idle"
    /\ w = "bar" => armed
    /\ work # base
    /\ armed' = IF w = "bar" THEN FALSE ELSE armed
    /\ phase' = [phase EXCEPT ![w] = "patched"]
    /\ pBase' = [pBase EXCEPT ![w] = base]
    /\ pWork' = [pWork EXCEPT ![w] = work]
    /\ UNCHANGED <<host, upload, seen, next>> /\ WriterFrame

CheckHost(w) ==
    /\ phase[w] = "patched"
    /\ GuardsPass(w)
    /\ phase' = [phase EXCEPT ![w] = "checked"]
    /\ seen'  = [seen EXCEPT ![w] = host]
    /\ next'  = [next EXCEPT ![w] = Composed(w)]
    /\ UNCHANGED <<armed, pBase, pWork, host, upload>> /\ WriterFrame

RefuseWrite(w) ==
    /\ phase[w] = "patched"
    /\ ~GuardsPass(w)
    /\ Idle(w)

\* setChatToIndex replaces the chat object whole. It may resolve without
\* having kept the write.
SetChat(w) ==
    /\ phase[w] = "checked"
    /\ \/ host' = next[w]
       \/ "dropped-write" \in Faults /\ host' = host
    /\ phase' = [phase EXCEPT ![w] = "sent"]
    /\ UNCHANGED <<armed, pBase, pWork, seen, next, upload>> /\ WriterFrame

ReadBack(w) ==
    /\ phase[w] = "sent"
    /\ host = next[w]
    /\ w = "bar"
    /\ phase' = [phase EXCEPT ![w] = "verified"]
    /\ Forget(w)
    /\ UNCHANGED <<armed, host, upload>> /\ WriterFrame

\* The bar gives up when the write does not verify; the queue's flow ends
\* here either way.
EndUncommitted(w) ==
    /\ phase[w] = "sent"
    /\ w = "bar" => host # next[w]
    /\ Idle(w)

\* state.commit: POST /commit (a snapshot), then state.rereadChat.
StartReread(w) ==
    /\ phase[w] = "verified"
    /\ upload' = [upload EXCEPT ![w] = [kind |-> "reread", live |-> TRUE, chat |-> host]]
    /\ phase' = [phase EXCEPT ![w] = "rereading"]
    /\ UNCHANGED <<armed, pBase, pWork, seen, next, copies, bounds>>

LoseCommit(w) ==
    /\ "lost-commit" \in Faults
    /\ phase[w] = "verified"
    /\ Idle(w)

-----------------------------------------------------------------------------

RisuMoves  == \E i \in Ids : RisuDelete(i) \/ \E b \in Bodies : RisuEdit(i, b) \/ RisuAdd(i, b)
PanelMoves ==
    \/ \E i \in Ids : DeleteTurn(i) \/ \E b \in Bodies : SetBody(i, b) \/ InsertTurn(i, b)
    \/ ResetWorking \/ SaveSnapshot \/ RestoreSnapshot
Resolve    == \E i \in Ids : KeepMine(i) \/ TakeTheirs(i)
Uploads    ==
    \/ \E kind \in {"open", "reload"} : StartUpload(kind)
    \/ \E c \in Clients : IngestRefused(c) \/ IngestReset(c) \/ IngestMerge(c) \/ LoseUpload(c)
WriteBack(w) ==
    \/ TakePatch(w) \/ CheckHost(w) \/ RefuseWrite(w) \/ SetChat(w) \/ ReadBack(w)
    \/ EndUncommitted(w) \/ StartReread(w) \/ LoseCommit(w)

Next == RisuMoves \/ PanelMoves \/ Resolve \/ Uploads \/ ArmBar \/ \E w \in Writers : WriteBack(w)

Spec == Init /\ [][Next]_vars

\* What a flow does once it has begun: every await is answered one way or the
\* other, and nothing in it waits for the user.
Ingest(c) == IngestRefused(c) \/ IngestReset(c) \/ IngestMerge(c)
Proceed(w) ==
    CheckHost(w) \/ RefuseWrite(w) \/ SetChat(w) \/ ReadBack(w) \/ EndUncommitted(w) \/ StartReread(w)
FlowsProceed ==
    /\ \A w \in Writers : WF_vars(Proceed(w))
    /\ \A c \in Clients : WF_vars(Ingest(c))

\* Liveness of the protocol asks whether a user who keeps at it gets through:
\* opens the chat where RisuAI has it open, decides conflicts, presses the
\* button, on a host that does not drop every write and a link that does not
\* lose every call.
OpenLive ==
    /\ upload[Panel] = NoUpload
    /\ upload' = [upload EXCEPT ![Panel] = [kind |-> "open", live |-> TRUE, chat |-> host]]
    /\ UNCHANGED <<copies, wbVars, bounds>>
UserPersists ==
    /\ SF_vars(OpenLive)
    /\ WF_vars(\E i \in Ids : KeepMine(i))
    /\ SF_vars(ArmBar)
    /\ \A w \in Writers : /\ SF_vars(TakePatch(w))
                          /\ SF_vars(SetChat(w) /\ host' = next[w])
                          /\ SF_vars(StartReread(w))
    /\ \A c \in Clients : SF_vars(IngestReset(c) \/ IngestMerge(c))

LiveSpec == Spec /\ FlowsProceed /\ UserPersists

-----------------------------------------------------------------------------
(* Properties.                                                             *)

\* A step in which an open of the chat is stored (and not lost or refused).
Reopens(c) == upload[c].kind = "open" /\ (IngestReset(c) \/ IngestMerge(c))

\* Re-opening a chat keeps every edit made in the panel, whatever RisuAI did
\* meanwhile; a deletion is undone only to show RisuAI's edit as a conflict
\* (store.ingest_chat: re-ingesting never discards edits in progress).
PanelEditsSurviveReopen ==
    [][\A c \in Clients : Reopens(c) =>
         \A i \in Ids : work[i] # base[i] =>
            work'[i] = work[i] \/ flag'[i] = "deleted-here"]_vars

\* RisuAI's edit of a turn the panel holds a baseline of is never absorbed
\* into that baseline unnoticed: the panel then shows it, or shows a conflict
\* (merge.py: both moved -> conflict).
NoSilentRebase ==
    [][\A c \in Clients : Reopens(c) =>
         \A i \in Ids : base[i] # Absent /\ base'[i] # base[i] =>
            work'[i] = base'[i] \/ flag'[i] # NoConflict]_vars

\* A write-back overwrites only what its patch was computed against; what moved
\* in RisuAI before the check is safe from it (host.writeChat). What moves
\* between the check and the write itself is beyond the host's interface.
GuardedOverwrite ==
    [][\A w \in Writers : phase[w] = "checked" /\ phase'[w] = "sent" =>
         \A i \in Ids : host'[i] # host[i] =>
            host[i] = pBase[w][i] \/ host[i] # seen[w][i]]_vars

\* Both buttons of every open conflict work: its row exists, and RisuAI's side
\* is in the baseline unless the conflict says RisuAI dropped the turn
\* (conflicts.resolve would raise otherwise).
ConflictsDecidable ==
    \A i \in Ids :
        /\ flag[i] # NoConflict => work[i] # Absent
        /\ flag[i] \in {"both-moved", "deleted-here"} => base[i] # Absent
        /\ flag[i] = "deleted-upstream" => base[i] = Absent

\* A conflict stays open until somebody decides it: re-opening the chat does
\* not take the mark off while the two sides still differ.
ConflictSurvivesReopen ==
    [][\A c \in Clients : Reopens(c) =>
         \A i \in Ids : flag[i] # NoConflict =>
            flag'[i] # NoConflict \/ work'[i] = base'[i]]_vars

\* No refusal is final: once both sides stop editing, a user who keeps opening
\* and pressing the button ends with RisuAI, the baseline and the panel equal.
Converges == <>[](host = base /\ base = work)
=============================================================================
