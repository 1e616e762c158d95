----------------------------- MODULE Snapshots -----------------------------
(***************************************************************************)
(* The snapshots of one chat (pyserver/app/snapshots.py; its card twins    *)
(* do the same on card_checkpoints) and the operations that overwrite the  *)
(* working copy after taking one: a restore, a reset, taking RisuAI's side *)
(* of every conflict, a commit after a write-back.                         *)
(*                                                                         *)
(* Requests run in threads; every INSERT and DELETE commits by itself, and *)
(* what a snapshot holds is read before its INSERT.                        *)
(***************************************************************************)
EXTENDS Naturals, FiniteSets

CONSTANTS
    Parts,      \* turns, lorebook entries and summaries of the chat
    Workers,    \* requests that may run at once
    Keep,       \* limits.autoBackupKeep
    Cap,        \* limits.checkpointKeep
    MaxMade,    \* bound: snapshots taken
    MaxEdits,   \* bound: edits in the panel
    MaxCrashes  \* bound: backend restarts

ASSUME SnapshotsAssumption ==
    /\ IsFiniteSet(Workers)
    /\ Keep \in Nat \ {0} /\ Cap \in Nat \ {0}
    /\ MaxMade \in Nat /\ MaxEdits \in Nat /\ MaxCrashes \in Nat

\* A working copy, as the set of parts the user has changed.
Content == SUBSET Parts
Ops     == {"none", "save", "backup", "reset", "restore", "theirs"}
Phases  == {"idle", "fold", "read", "insert", "prune", "cap", "act"}

VARIABLES
    cur,        \* the working copy
    saved,      \* checkpoints; ids in the order of created_at
    made,       \* snapshots begun so far
    phase,      \* per request
    op,         \* per request
    back,       \* per request, the snapshot a restore read
    todo,       \* per request, conflicts resolve_all has left
    got,        \* per request, the export its snapshot will hold
    \* History; an id becomes 0 when the user deletes that snapshot himself, or
    \* the next restore folds it.
    mine,       \* per request, the last snapshot it took
    moved,      \* per request, the working copy changed since that was read
    cut,        \* requests a restart stopped before their pruning, since the last one
    editsLeft, crashesLeft \* bound counters

reqVars == <<phase, op, back, todo, got>>
history == <<mine, moved, cut>>
bounds  == <<editsLeft, crashesLeft>>
vars    == <<cur, saved, made, phase, op, back, todo, got, mine, moved, cut,
             editsLeft, crashesLeft>>

Snap == [id: 1..MaxMade, kind: {"user", "auto"}, restore: BOOLEAN, content: Content]
Ids(S)   == {s.id : s \in S}
Autos(S) == {s \in S : s.kind = "auto"}
Named(S) == {s \in S : s.kind = "user"}

\* ORDER BY created_at DESC LIMIT n.
Newest(S, n) == {s \in S : Cardinality({t \in S : t.id > s.id}) < n}

TypeOK ==
    /\ cur \in Content
    /\ saved \subseteq Snap
    /\ \A s, t \in saved : s.id = t.id => s = t
    /\ made \in 0..MaxMade
    /\ \A s \in saved : s.id <= made
    /\ phase \in [Workers -> Phases]
    /\ op \in [Workers -> Ops]
    /\ back \in [Workers -> Content]
    /\ todo \in [Workers -> SUBSET Parts]
    /\ got \in [Workers -> Content]
    /\ mine \in [Workers -> 0..MaxMade]
    /\ moved \in [Workers -> BOOLEAN]
    /\ cut \in Nat
    /\ editsLeft \in 0..MaxEdits
    /\ crashesLeft \in 0..MaxCrashes

Init ==
    /\ cur = {}
    /\ saved = {}
    /\ made = 0
    /\ phase = [w \in Workers |-> "idle"]
    /\ op = [w \in Workers |-> "none"]
    /\ back = [w \in Workers |-> {}]
    /\ todo = [w \in Workers |-> {}]
    /\ got = [w \in Workers |-> {}]
    /\ mine = [w \in Workers |-> 0]
    /\ moved = [w \in Workers |-> FALSE]
    /\ cut = 0
    /\ editsLeft = MaxEdits
    /\ crashesLeft = MaxCrashes

-----------------------------------------------------------------------------
(* The working copy and the list.                                          *)

\* Every change of the working copy is noted against the snapshots of the
\* requests that run on.
Becomes(x, running) ==
    /\ cur' = x
    /\ moved' = [w \in Workers |-> w \in running /\ (moved[w] \/ (mine[w] # 0 /\ cur # x))]

UserEdit(i) ==
    /\ editsLeft > 0
    /\ i \notin cur
    /\ Becomes(cur \cup {i}, Workers)
    /\ editsLeft' = editsLeft - 1
    /\ UNCHANGED <<saved, made, reqVars, mine, cut, crashesLeft>>

Left(id, S) == IF id \in Ids(S) THEN 0 ELSE id

Removes(S) ==
    /\ S # {}
    /\ saved' = saved \ S
    /\ mine' = [w \in Workers |-> Left(mine[w], S)]
    /\ UNCHANGED <<cur, made, reqVars, moved, cut, bounds>>

\* snapshots.delete.
Delete(s) == Removes({s})

\* snapshots.clear: the user's own rows, the newest n kept.
Clear(n) == Removes(Named(saved) \ Newest(Named(saved), n))

-----------------------------------------------------------------------------
(* One request.                                                            *)

Step(w, to) == phase' = [phase EXCEPT ![w] = to]
Quit(w) ==
    /\ Step(w, "idle")
    /\ op' = [op EXCEPT ![w] = "none"]
    /\ back' = [back EXCEPT ![w] = {}]
    /\ todo' = [todo EXCEPT ![w] = {}]
    /\ got' = [got EXCEPT ![w] = {}]

\* The request has returned.
Forget(w) == mine' = [mine EXCEPT ![w] = 0]

Start(w, o, x, T) ==
    /\ phase[w] = "idle"
    /\ made < MaxMade
    /\ Step(w, IF o = "restore" THEN "fold" ELSE "read")
    /\ op' = [op EXCEPT ![w] = o]
    /\ back' = [back EXCEPT ![w] = x]
    /\ todo' = [todo EXCEPT ![w] = T]
    /\ UNCHANGED <<cur, saved, made, got, history, bounds>>

Save(w)       == Start(w, "save", {}, {})
Backup(w)     == Start(w, "backup", {}, {})
Commit(w)     == Start(w, "backup", {}, {})
Reset(w)      == Start(w, "reset", {}, {})
Restore(w, s) == Start(w, "restore", s.content, {})
\* The conflicts listed are rows the user changed.
AllTheirs(w, T) == T # {} /\ T \subseteq cur /\ Start(w, "theirs", {}, T)

\* The backups of restores.
Undos == {s \in Autos(saved) : s.restore}

\* A restore drops the backups earlier restores took.
Fold(w) ==
    /\ phase[w] = "fold"
    /\ saved' = saved \ Undos
    /\ mine' = [v \in Workers |-> IF op[v] = "restore" THEN Left(mine[v], Undos) ELSE mine[v]]
    /\ Step(w, "read")
    /\ UNCHANGED <<cur, made, op, back, todo, got, moved, cut, bounds>>

\* snapshots.create: the export, and the instant the list is ordered by.
Read(w) ==
    /\ phase[w] = "read"
    /\ made < MaxMade
    /\ made' = made + 1
    /\ got' = [got EXCEPT ![w] = cur]
    /\ mine' = [mine EXCEPT ![w] = made + 1]
    /\ moved' = [moved EXCEPT ![w] = FALSE]
    /\ Step(w, "insert")
    /\ UNCHANGED <<cur, saved, op, back, todo, cut, bounds>>

\* Wrong: two snapshots of one instant share an id.
Insert_SameId(w) ==
    /\ phase[w] = "insert"
    /\ saved' = saved \cup {[id |-> 1, kind |-> IF op[w] = "save" THEN "user" ELSE "auto",
                             restore |-> op[w] = "restore", content |-> got[w]]}
    /\ Step(w, "cap")
    /\ UNCHANGED <<cur, made, op, back, todo, got, history, bounds>>

\* Wrong: a caller forgets to prune.
Insert_Unpruned(w) ==
    /\ phase[w] = "insert"
    /\ saved' = saved \cup {[id |-> mine[w], kind |-> IF op[w] = "save" THEN "user" ELSE "auto",
                             restore |-> op[w] = "restore", content |-> got[w]]}
    /\ Step(w, "cap")
    /\ UNCHANGED <<cur, made, op, back, todo, got, history, bounds>>

\* Its INSERT.
Insert(w) ==
    LET kind == IF op[w] = "save" THEN "user" ELSE "auto" IN
    /\ phase[w] = "insert"
    /\ saved' = saved \cup {[id |-> mine[w], kind |-> kind, restore |-> op[w] = "restore",
                             content |-> got[w]]}
    /\ Step(w, IF kind = "auto" THEN "prune" ELSE "cap")
    /\ UNCHANGED <<cur, made, op, back, todo, got, history, bounds>>

\* Wrong: the oldest are kept.
Prune_Oldest(w) ==
    /\ phase[w] = "prune"
    /\ saved' = Named(saved) \cup {s \in Autos(saved) :
                   Cardinality({t \in Autos(saved) : t.id < s.id}) < Keep}
    /\ Step(w, "cap")
    /\ UNCHANGED <<cur, made, op, back, todo, got, history, bounds>>

\* snapshots.prune_auto.
Prune(w) ==
    /\ phase[w] = "prune"
    /\ saved' = Named(saved) \cup Newest(Autos(saved), Keep)
    /\ cut' = 0
    /\ Step(w, "cap")
    /\ UNCHANGED <<cur, made, op, back, todo, got, mine, moved, bounds>>

\* The last DELETE of snapshots.create.
Trim(w) ==
    /\ phase[w] = "cap"
    /\ saved' = Newest(saved, Cap)
    /\ IF op[w] \in {"save", "backup"}
       THEN Quit(w) /\ Forget(w) /\ moved' = [moved EXCEPT ![w] = FALSE]
       ELSE Step(w, "act") /\ UNCHANGED <<op, back, todo, got, mine, moved>>
    /\ UNCHANGED <<cur, made, cut, bounds>>

\* What the snapshot was taken for. resolve_all takes one before every row.
Overwrite(w) ==
    /\ phase[w] = "act"
    /\ \/ /\ op[w] \in {"reset", "restore"}
          /\ Becomes(back[w], Workers \ {w})
          /\ Quit(w) /\ Forget(w)
       \/ \E i \in todo[w] :
            /\ op[w] = "theirs"
            /\ IF todo[w] = {i}
               THEN Becomes(cur \ {i}, Workers \ {w}) /\ Quit(w) /\ Forget(w)
               ELSE /\ Becomes(cur \ {i}, Workers)
                    /\ Step(w, "read")
                    /\ todo' = [todo EXCEPT ![w] = @ \ {i}]
                    /\ UNCHANGED <<op, back, got, mine>>
    /\ UNCHANGED <<saved, made, cut, bounds>>

\* The requests between their INSERT and their pruning.
Pruning == {w \in Workers : phase[w] = "prune"}

\* The backend stops and comes back.
Crash ==
    /\ crashesLeft > 0
    /\ crashesLeft' = crashesLeft - 1
    /\ phase' = [w \in Workers |-> "idle"]
    /\ op' = [w \in Workers |-> "none"]
    /\ back' = [w \in Workers |-> {}]
    /\ todo' = [w \in Workers |-> {}]
    /\ got' = [w \in Workers |-> {}]
    /\ mine' = [w \in Workers |-> 0]
    /\ moved' = [w \in Workers |-> FALSE]
    /\ cut' = cut + Cardinality(Pruning)
    /\ UNCHANGED <<cur, saved, made, editsLeft>>

-----------------------------------------------------------------------------

User ==
    \/ \E i \in Parts : UserEdit(i)
    \/ \E s \in saved : Delete(s)
    \/ \E n \in 0..Cap : Clear(n)
Request(w) ==
    \/ Save(w) \/ Backup(w) \/ Commit(w) \/ Reset(w)
    \/ \E s \in saved : Restore(w, s)
    \/ \E T \in SUBSET Parts : AllTheirs(w, T)
    \/ Fold(w) \/ Read(w) \/ Insert(w) \/ Prune(w) \/ Trim(w) \/ Overwrite(w)

Next == User \/ Crash \/ \E w \in Workers : Request(w)

Spec == Init /\ [][Next]_vars

-----------------------------------------------------------------------------
(* Properties.                                                             *)

\* An overwriting request is about to write: the snapshot it took a moment ago
\* is there and holds what it overwrites, unless the working copy changed since
\* it was read, the user deleted it, the next restore folded it, or as many newer
\* ones as the list keeps crowded it out.
OverwritesAreSaved ==
    \A w \in Workers :
        phase[w] = "act" /\ mine[w] # 0 /\ ~moved[w] /\ made < mine[w] + Keep
            /\ made < mine[w] + Cap =>
            \E s \in saved : s.id = mine[w] /\ s.content = cur

\* Automatic backups crowd no version the user named out of the list beyond
\* their own share: what the list drops has Cap - Keep newer named versions,
\* less one for each request between its INSERT and its pruning and for each
\* that a restart stopped there since the last pruning.
VersionsKept ==
    [][\A s \in Named(saved) \ saved' :
         User \/ Cardinality({t \in Named(saved) : t.id > s.id})
                   + Keep + Cardinality(Pruning) + cut >= Cap]_vars
=============================================================================
