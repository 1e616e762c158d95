------------------------------ MODULE LoreSync ------------------------------
(***************************************************************************)
(* A chat's lorebook in two places: RisuAI's list, and the panel's rows    *)
(* with the baseline each was last seen with (pyserver/app/store.py, its   *)
(* merge from merge.py, the decisions from conflicts.py, the write-back of *)
(* plugin/src/host.ts). Unlike turns, entries have no id that RisuAI       *)
(* keeps: an open pairs them by content, then by title, then by position,  *)
(* and a deletion waits as a row of its own until it is written back.      *)
(*                                                                         *)
(* A list is a set here: its order and entries that occur twice are left   *)
(* out. Lost uploads, refused and dropped writes, and what happens between *)
(* the panel's check and its write, are the subject of ChatSync, whose     *)
(* names this module does not reuse: ChatSyncProofs extends both.          *)
(***************************************************************************)
EXTENDS Merge, Naturals, FiniteSets

CONSTANTS
    RowIds,           \* bound: ids of rows
    Names, LoreTexts, \* what an entry is told by, and what it says
    None,             \* no baseline: added in the panel
    MaxEdits,         \* bound: edits, on either side
    MaxRestores       \* bound: restores of a snapshot

Entries == [name : Names, text : LoreTexts]

ASSUME LoreSyncAssumption ==
    None \notin Entries /\ IsFiniteSet(RowIds) /\ MaxEdits \in Nat /\ MaxRestores \in Nat

Origins == {"original", "edited", "added", "deleted"}
LoreRow == [entry : Entries, orig : Entries \cup {None}, origin : Origins,
            flag : ConflictKinds \cup {NoConflict}]
IsTable(t) == DOMAIN t \subseteq RowIds /\ \A i \in DOMAIN t : t[i] \in LoreRow

VARIABLES
    list,         \* RisuAI's list
    lore,         \* lore_entries of the chat
    saved,        \* lore_json of the last snapshot, that may be restored
    restoring,    \* a restore has deleted the rows and not yet inserted saved
    touched,      \* history: rows the user edited, restored or decided
    editsLeft, restoresLeft \* bound counters

loreBounds == <<editsLeft, restoresLeft>>
loreVars   == <<list, lore, saved, restoring, touched, loreBounds>>

Live(i)  == lore[i].origin # "deleted"
Based(i) == lore[i].orig # None

\* Wrong: a deletion that waits counts as untouched.
Dirty_NotDeleted(i) == lore[i].origin \in {"edited", "added"}

Dirty(i) == lore[i].origin # "original"
Fresh    == RowIds \ (DOMAIN lore \cup DOMAIN saved)

LoreTypeOK ==
    /\ list \subseteq Entries
    /\ IsTable(lore) /\ IsTable(saved)
    /\ \A i \in DOMAIN lore : Based(i) \/ (lore[i].origin = "added" /\ lore[i].flag = NoConflict)
    /\ restoring \in BOOLEAN
    /\ touched \subseteq DOMAIN lore
    /\ editsLeft \in 0..MaxEdits /\ restoresLeft \in 0..MaxRestores

LoreInit ==
    /\ list \in {S \in SUBSET Entries : IsFiniteSet(S) /\ Cardinality(S) \in 1..2}
    /\ lore = <<>> /\ saved = <<>> /\ restoring = FALSE
    /\ touched = {}
    /\ editsLeft = MaxEdits /\ restoresLeft = MaxRestores

-----------------------------------------------------------------------------
(* RisuAI's user edits the list.                                           *)

RisuMovesList ==
    /\ editsLeft > 0 /\ editsLeft' = editsLeft - 1
    /\ \/ \E e \in list : list' = list \ {e}
       \/ \E e \in Entries \ list : list' = list \cup {e}
       \/ \E e \in list, n \in Entries \ list : list' = (list \ {e}) \cup {n}
    /\ UNCHANGED <<lore, saved, restoring, touched, restoresLeft>>

-----------------------------------------------------------------------------
(* merge.match: pairs of a row and an entry of RisuAI's, and how sure.     *)

\* Each row and each entry at most once.
OneToOne(P) == \A p, q \in P : p # q => p[1] # q[1] /\ p[2] # q[2]

\* A key pairs what carries it alone on either side.
Keyed(B, T, key) ==
    {p \in B \X T :
        /\ lore[p[1]].orig[key] = p[2][key]
        /\ \A i \in B : lore[i].orig[key] = p[2][key] => i = p[1]
        /\ \A t \in T : t[key] = p[2][key] => t = p[2]}

Left(B, P)  == B \ {p[1] : p \in P}
Right(T, P) == T \ {p[2] : p \in P}

\* Exact content first, then the keys, strongest first; the rest by position,
\* where the texts look alike: any pairs, as the order is not modelled.
Exact(B, T) ==
    LET Same == {p \in B \X T : lore[p[1]].orig = p[2]}
    IN  {Q \in SUBSET Same : OneToOne(Q) /\ {p[2] : p \in Q} = {p[2] : p \in Same}}

WithKeys(B, T, P) ==
    LET N == P \cup Keyed(Left(B, P), Right(T, P), "name")
    IN  N \cup Keyed(Left(B, N), Right(T, N), "text")

ByPosition(B, T, P) ==
    {Q \in SUBSET (Left(B, P) \X Right(T, P)) : OneToOne(Q)}

Matchings(B, T) ==
    UNION {{[sure |-> K, guess |-> P] : P \in ByPosition(B, T, K)} :
              K \in {WithKeys(B, T, E) : E \in Exact(B, T)}}

-----------------------------------------------------------------------------
(* store._merge_lore: a re-open.                                           *)

Original(e) == [entry |-> e, orig |-> e, origin |-> "original", flag |-> NoConflict]

\* Wrong: a conflict leaves the baseline where it was.
Paired_BaseStays(i, t, tier) ==
    LET d == Decide(lore[i].entry, lore[i].orig, t, Dirty(i), tier) IN
    IF d.action = "adopt" THEN Original(t)
    ELSE IF d.action = "conflict" THEN [lore[i] EXCEPT !.flag = d.kind]
    ELSE [lore[i] EXCEPT !.orig = t]

\* Wrong: a row that stays as it is loses its mark, as a turn's does.
Paired_Unmarks(i, t, tier) ==
    LET d == Decide(lore[i].entry, lore[i].orig, t, Dirty(i), tier) IN
    IF d.action = "adopt" THEN Original(t)
    ELSE [lore[i] EXCEPT !.orig = t, !.flag = d.kind]

\* A row RisuAI still has. Its baseline moves whatever the answer.
Paired(i, t, tier) ==
    LET d == Decide(lore[i].entry, lore[i].orig, t, Dirty(i), tier) IN
    IF d.action = "adopt" THEN Original(t)
    ELSE IF d.action = "conflict" THEN [lore[i] EXCEPT !.orig = t, !.flag = d.kind]
    ELSE [lore[i] EXCEPT !.orig = t]

\* A row RisuAI has no more.
Missing(i) ==
    [lore[i] EXCEPT !.flag = DecideMissing(lore[i].entry, lore[i].orig, Dirty(i), FALSE).kind]

\* merge.adopted_additions: added in the panel, and RisuAI has it too.
Folded(New) ==
    {CHOOSE i \in DOMAIN lore : ~Based(i) /\ lore[i].entry = t :
        t \in {e \in New : \E i \in DOMAIN lore : ~Based(i) /\ lore[i].entry = e}}

\* Rows for entries, with ids nobody else has.
Loaded(New, Free) ==
    IF New = {} THEN <<>>
    ELSE LET id == CHOOSE f \in [New -> Free] : \A e, n \in New : e # n => f[e] # f[n]
         IN  [i \in {id[e] : e \in New} |-> Original(CHOOSE e \in New : id[e] = i)]

Join(f, g) == [i \in DOMAIN f \cup DOMAIN g |-> IF i \in DOMAIN f THEN f[i] ELSE g[i]]

Merged(M) ==
    LET sure(i)  == {p[2] : p \in {q \in M.sure : q[1] = i}}
        guess(i) == {p[2] : p \in {q \in M.guess : q[1] = i}}
        New      == Right(list, M.sure \cup M.guess)
        kept     == [i \in DOMAIN lore |->
                       IF ~Based(i)
                       THEN IF i \in Folded(New)
                            THEN [lore[i] EXCEPT !.orig = lore[i].entry, !.origin = "original"]
                            ELSE lore[i]
                       ELSE IF sure(i) # {} THEN Paired(i, CHOOSE t \in sure(i) : TRUE, "keyed")
                       ELSE IF guess(i) # {} THEN Paired(i, CHOOSE t \in guess(i) : TRUE, "positional")
                       ELSE Missing(i)]
    IN  Join(kept, Loaded(New \ {lore[i].entry : i \in Folded(New)}, Fresh))

\* store._load_lore: first sight, the header's reload, and the re-read after a
\* write-back, which comes late or never.
Load ==
    /\ Cardinality(RowIds \ DOMAIN saved) >= Cardinality(list)
    /\ lore' = Loaded(list, RowIds \ DOMAIN saved)
    /\ touched' = {}

Open ==
    /\ \/ lore = <<>> /\ Load
       \/ /\ lore # <<>>
          /\ \E M \in Matchings({i \in DOMAIN lore : Based(i)}, list) :
                /\ Cardinality(Fresh) >= Cardinality(Right(list, M.sure \cup M.guess))
                /\ lore' = Merged(M)
          /\ UNCHANGED touched
    /\ UNCHANGED <<list, saved, restoring, loreBounds>>

Reload ==
    /\ Load
    /\ UNCHANGED <<list, saved, restoring, loreBounds>>

-----------------------------------------------------------------------------
(* The panel.                                                              *)

Becomes(i, row) == lore' = [lore EXCEPT ![i] = row]

\* store.add_lore.
Add(e) ==
    /\ Fresh # {}
    /\ lore' = Join(lore, [i \in {CHOOSE j \in Fresh : TRUE} |->
                  [entry |-> e, orig |-> None, origin |-> "added", flag |-> NoConflict]])
    /\ UNCHANGED touched

\* Wrong: an addition that is edited becomes an edit.
Update_ForgetsAdded(i, e) ==
    /\ Live(i) /\ lore[i].entry # e
    /\ Becomes(i, [lore[i] EXCEPT !.entry = e,
                     !.origin = IF lore[i].orig = e THEN "original" ELSE "edited"])
    /\ touched' = touched \cup {i}

\* store.update_lore: against the baseline, not against the last save.
Update(i, e) ==
    /\ Live(i) /\ lore[i].entry # e
    /\ Becomes(i, [lore[i] EXCEPT !.entry = e,
                     !.origin = IF @ = "added" THEN "added"
                                ELSE IF lore[i].orig = e THEN "original" ELSE "edited"])
    /\ touched' = touched \cup {i}

\* store.delete_lore: an addition is gone, the rest waits to be written back.
Delete(i) ==
    /\ Live(i)
    /\ IF lore[i].origin = "added"
       THEN /\ lore' = [j \in DOMAIN lore \ {i} |-> lore[j]]
            /\ touched' = touched \ {i}
       ELSE /\ Becomes(i, [lore[i] EXCEPT !.origin = "deleted"])
            /\ touched' = touched \cup {i}
        
Edit ==
    /\ editsLeft > 0 /\ editsLeft' = editsLeft - 1
    /\ \/ \E e \in Entries \ {lore[i].entry : i \in {j \in DOMAIN lore : Live(j)}} :
            Add(e) \/ \E i \in DOMAIN lore : Update(i, e)
       \/ \E i \in DOMAIN lore : Delete(i)
    /\ UNCHANGED <<list, saved, restoring, restoresLeft>>

\* conflicts.resolve.
KeepMyEntry(i) == Becomes(i, [lore[i] EXCEPT !.flag = NoConflict])

TakeTheirEntry(i) ==
    Becomes(i, IF lore[i].flag = "deleted-upstream"
               THEN [lore[i] EXCEPT !.origin = "deleted", !.flag = NoConflict]
               ELSE Original(lore[i].orig))

ResolveLore(i) ==
    /\ lore[i].flag # NoConflict
    /\ KeepMyEntry(i) \/ TakeTheirEntry(i)
    /\ touched' = touched \cup {i}
    /\ UNCHANGED <<list, saved, restoring, loreBounds>>

\* store.reset_lore_local, its three statements in one step. A row that is
\* "original" keeps its text, also when that is not its baseline's.
Reset ==
    /\ lore' = [i \in {j \in DOMAIN lore : lore[j].origin # "added"} |->
                  IF Dirty(i) THEN Original(lore[i].orig)
                  ELSE [lore[i] EXCEPT !.flag = NoConflict]]
    /\ touched' = (touched \cup {i \in DOMAIN lore : lore[i].flag # NoConflict}) \cap DOMAIN lore'
    /\ UNCHANGED <<list, saved, restoring, loreBounds>>

-----------------------------------------------------------------------------
(* Snapshots: store.lore_rows and restore_lore_rows, a commit for the      *)
(* DELETE and one for the INSERT, which takes no conflict marks along.     *)

Save ==
    /\ ~restoring /\ restoresLeft > 0
    /\ saved' = lore
    /\ UNCHANGED <<list, lore, restoring, touched, loreBounds>>

Clear ==
    /\ ~restoring /\ saved # <<>> /\ restoresLeft > 0 /\ restoresLeft' = restoresLeft - 1
    /\ restoring' = TRUE
    /\ lore' = <<>> /\ touched' = {}
    /\ UNCHANGED <<list, saved, editsLeft>>

PutBack ==
    /\ restoring /\ restoring' = FALSE
    /\ lore' = Join([i \in DOMAIN saved |-> [saved[i] EXCEPT !.flag = NoConflict]], lore)
    /\ touched' = touched \cup DOMAIN saved
    /\ UNCHANGED <<list, saved, loreBounds>>

\* The backend stops between the two.
Crash ==
    /\ restoring /\ restoring' = FALSE
    /\ UNCHANGED <<list, lore, saved, touched, loreBounds>>

-----------------------------------------------------------------------------
(* The write-back.                                                         *)

\* main.h_patch, state.ts writeBack and host.writeChat: the list goes whole when
\* a row counts as changed, and checkList refuses it unless RisuAI's list is what
\* the panel's baselines say. None of them asks whether a conflict is open: only
\* the bar's button does, and an approved host_writeback does without the bar.
Shipped == {lore[i].entry : i \in {j \in DOMAIN lore : Live(j)}}

Before == {lore[i].orig : i \in {j \in DOMAIN lore : lore[j].origin # "added" /\ Based(j)}}

WriteLore ==
    /\ \E i \in DOMAIN lore : Dirty(i)
    /\ \A i, j \in DOMAIN lore : i # j /\ Live(i) /\ Live(j) => lore[i].entry # lore[j].entry
    /\ list = Before
    /\ list' = Shipped
    /\ UNCHANGED <<lore, saved, restoring, touched, loreBounds>>

-----------------------------------------------------------------------------

LoreNext ==
    \/ RisuMovesList \/ Open \/ Reload \/ Edit \/ \E i \in DOMAIN lore : ResolveLore(i)
    \/ Reset \/ Save \/ Clear \/ PutBack \/ Crash
    \/ WriteLore

LoreSpec == LoreInit /\ [][LoreNext]_loreVars

-----------------------------------------------------------------------------
(* Properties.                                                             *)

\* Opening a chat again loses nothing the panel holds of its own: what differs
\* from its baseline stays as it is, a deletion stays a deletion, and an
\* addition stays one until RisuAI has the same entry (store.ingest_lore).
OwnEntriesSurviveOpen ==
    [][Open => \A i \in DOMAIN lore : lore[i].origin # "original" \/ lore[i].entry # lore[i].orig =>
         /\ i \in DOMAIN lore' /\ lore'[i].entry = lore[i].entry
         /\ \/ lore'[i].origin = lore[i].origin
            \/ lore[i].origin = "added" /\ lore[i].entry \in list]_loreVars

\* After an open every entry of RisuAI's is the baseline of a row, of one row
\* unless RisuAI is said to have dropped it, every other baseline is marked as
\* dropped by RisuAI, and what both sides added is one row: no entry is taken
\* in twice, and none goes by unseen (store._merge_lore).
OpenAccountsForAll ==
    [][Open =>
         LET D  == DOMAIN lore'
             B  == {i \in D : lore'[i].orig # None}
             Up == {i \in B : lore'[i].flag # "deleted-upstream"}
         IN  /\ list \subseteq {lore'[i].orig : i \in B}
             /\ \A i \in Up : lore'[i].orig \in list
             /\ \A i, j \in Up : i # j => lore'[i].orig # lore'[j].orig
             /\ \A n \in D \ DOMAIN lore, i \in DOMAIN lore :
                   ~Based(i) => lore[i].entry # lore'[n].entry]_loreVars

\* A write-back takes from RisuAI only entries of rows the user edited, deleted,
\* restored or decided, or of rows that show an open conflict, which an approved
\* host_writeback does not wait for. A row nobody touched that bears no mark takes
\* nothing, however it was paired, at whichever open (store._merge_lore). A
\* conflict that was open when the user reset counts as decided.
Accounted(i) == Based(i) /\ (i \in touched \/ lore[i].flag # NoConflict)
WritesOnlyAccounted ==
    [][WriteLore => list \ list' \subseteq {lore[i].orig : i \in {j \in DOMAIN lore : Accounted(j)}}]_loreVars
=============================================================================
