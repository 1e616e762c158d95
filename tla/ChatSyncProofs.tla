--------------------------- MODULE ChatSyncProofs ---------------------------
(***************************************************************************)
(* Theorems of ChatSync, for every set of messages, texts, writers and     *)
(* faults and for every bound, and of LoreSync, the same two copies for    *)
(* the chat's lorebook, for every finite set of row ids and every bound.   *)
(* TLC checks the same properties on the small instances of ChatSync.cfg   *)
(* and LoreSync.cfg.                                                       *)
(***************************************************************************)
EXTENDS ChatSync, LoreSync, TLAPS, FiniteSetTheorems

Texts == Bodies \cup {Absent}

\* What one turn of the merge may come out as.
LEMMA MergeTurnType ==
    ASSUME NEW i \in Ids, NEW theirs \in Texts,
           work[i] \in Texts, base[i] \in Texts, flag[i] \in Flags
    PROVE  /\ MergeTurn(i, theirs).body \in Texts
           /\ MergeTurn(i, theirs).kind \in Flags
  BY DEF MergeTurn, MergeBoth, MergeTheirsOnly, MergeOursOnly,
         Row, Decide, DecideMissing, Flags, Texts, NoConflict

\* A pending edit comes out of the merge as it went in; a pending deletion may
\* come out as a deleted-here conflict.
LEMMA MergeKeepsEdits ==
    ASSUME NEW i, NEW theirs, work[i] # base[i]
    PROVE  \/ MergeTurn(i, theirs).body = work[i]
           \/ MergeTurn(i, theirs).kind = "deleted-here"
  BY DEF MergeTurn, MergeBoth, MergeTheirsOnly, MergeOursOnly,
         Row, Decide, DecideMissing

\* Where RisuAI moved away from the baseline, the merge shows it or flags it.
LEMMA MergeShowsTheirs ==
    ASSUME NEW i, NEW theirs, base[i] # Absent, theirs # base[i]
    PROVE  \/ MergeTurn(i, theirs).body = theirs
           \/ MergeTurn(i, theirs).kind # NoConflict
  BY DEF MergeTurn, MergeBoth, MergeTheirsOnly, MergeOursOnly,
         Row, Decide, DecideMissing, NoConflict

\* A flag the merge leaves has a row under it, and RisuAI's side of it is in
\* the new baseline exactly when the flag does not say it was dropped.
LEMMA MergeFlagsDecidable ==
    ASSUME NEW i \in Ids, NEW theirs \in Texts, flag[i] \in Flags,
           flag[i] \in {"both-moved", "deleted-here"} => base[i] # Absent
    PROVE  LET r == MergeTurn(i, theirs) IN
           /\ r.kind # NoConflict => r.body # Absent
           /\ r.kind \in {"both-moved", "deleted-here"} => theirs # Absent
           /\ r.kind = "deleted-upstream" => theirs = Absent
  BY DEF MergeTurn, MergeBoth, MergeTheirsOnly, MergeOursOnly,
         Row, Decide, DecideMissing, Flags, Texts, NoConflict

-----------------------------------------------------------------------------
(* The types, one step per action.                                         *)

LEMMA TypeInit == Init => TypeOK
<1> SUFFICES ASSUME Init PROVE TypeOK OBVIOUS
<1>1. Empty \in Copy BY DEF Empty, Copy
<1>2. host \in Copy BY DEF Init, Copy
<1>3. NoUpload \in [kind: UploadKinds, live: BOOLEAN, chat: Copy]
  BY <1>1 DEF NoUpload, UploadKinds
<1>4. NoFlags \in [Ids -> Flags] BY DEF NoFlags, Flags
<1>5. upload \in [Clients -> [kind: UploadKinds, live: BOOLEAN, chat: Copy]]
  BY <1>3 DEF Init
<1>6. flag \in [Ids -> Flags] BY <1>4 DEF Init
<1>7. /\ phase \in [Writers -> Phases] /\ pBase \in [Writers -> Copy]
      /\ pWork \in [Writers -> Copy] /\ seen \in [Writers -> Copy] /\ next \in [Writers -> Copy]
  BY <1>1 DEF Init, Phases
<1>8. risuLeft \in 0..MaxRisu /\ panelLeft \in 0..MaxPanel BY ConstantsAssumption DEF Init
<1> QED
  BY <1>1, <1>2, <1>5, <1>6, <1>7, <1>8, ConstantsAssumption DEF Init, TypeOK

\* The merge of two whole copies has the shape of a copy.
LEMMA MergeType ==
    ASSUME TypeOK, NEW c \in Clients, IngestMerge(c)
    PROVE  work' \in Copy /\ flag' \in [Ids -> Flags]
<1> DEFINE theirs == upload[c].chat
<1>1. theirs \in Copy BY DEF TypeOK
<1>2. ASSUME NEW i \in Ids
      PROVE  /\ MergeTurn(i, theirs[i]).body \in Texts
             /\ MergeTurn(i, theirs[i]).kind \in Flags
  <2>1. /\ theirs[i] \in Texts /\ work[i] \in Texts
        /\ base[i] \in Texts /\ flag[i] \in Flags
    BY <1>1 DEF TypeOK, Copy, Texts
  <2> QED BY <2>1, MergeTurnType
<1> QED BY <1>2 DEF IngestMerge, Copy, Texts

LEMMA TypeStep == TypeOK /\ [Next]_vars => TypeOK'
<1> SUFFICES ASSUME TypeOK, [Next]_vars PROVE TypeOK' OBVIOUS
<1> USE ConstantsAssumption DEF TypeOK
<1>8. Empty \in Copy /\ NoFlags \in [Ids -> Flags] BY DEF Empty, Copy, NoFlags, Flags
<1>9. NoUpload \in [kind: UploadKinds, live: BOOLEAN, chat: Copy]
  BY <1>8 DEF NoUpload, UploadKinds
<1>1. CASE RisuMoves
  BY <1>1 DEF RisuMoves, RisuEdit, RisuDelete, RisuAdd, RisuSpends, RisuFrame, wbVars, Copy
<1>2. CASE PanelMoves
  <2> USE DEF PanelSpends, PanelFrame, wbVars
  <2>1. CASE \E i \in Ids : DeleteTurn(i) BY <2>1 DEF DeleteTurn, Copy, Flags
  <2>2. CASE \E i \in Ids, b \in Bodies : SetBody(i, b) BY <2>2 DEF SetBody, Copy
  <2>3. CASE \E i \in Ids, b \in Bodies : InsertTurn(i, b) BY <2>3 DEF InsertTurn, Copy, Flags
  <2>4. CASE ResetWorking BY <2>4, <1>8 DEF ResetWorking
  <2>5. CASE SaveSnapshot BY <2>5 DEF SaveSnapshot
  <2>6. CASE RestoreSnapshot BY <2>6, <1>8 DEF RestoreSnapshot
  <2> QED BY <1>2, <2>1, <2>2, <2>3, <2>4, <2>5, <2>6 DEF PanelMoves
<1>3. CASE Resolve
  BY <1>3 DEF Resolve, KeepMine, TakeTheirs, wbVars, bounds, Copy, Flags
<1>4. CASE \E kind \in {"open", "reload"} : StartUpload(kind)
  <2>1. PICK kind \in {"open", "reload"} : StartUpload(kind) BY <1>4
  <2>2. PICK u \in Reads(kind) : upload' = [upload EXCEPT ![Panel] = u]
    BY <2>1 DEF StartUpload
  <2>3. u \in [kind: UploadKinds, live: BOOLEAN, chat: Copy]
    <3>1. kind \in UploadKinds BY DEF UploadKinds
    <3>2. \/ u = [kind |-> kind, live |-> TRUE, chat |-> host]
          \/ u = [kind |-> kind, live |-> FALSE, chat |-> Empty]
      BY <2>2, Zenon DEF Reads
    <3>3. ASSUME NEW live \in BOOLEAN, NEW chat \in Copy
          PROVE  [kind |-> kind, live |-> live, chat |-> chat]
                   \in [kind: UploadKinds, live: BOOLEAN, chat: Copy]
      BY <3>1
    <3> QED BY <3>2, <3>3, <1>8, Zenon
  <2> QED BY <2>1, <2>2, <2>3 DEF StartUpload, copies, wbVars, bounds
<1>5. ASSUME NEW c \in Clients,
             IngestRefused(c) \/ IngestReset(c) \/ IngestMerge(c) \/ LoseUpload(c)
      PROVE  TypeOK'
  <2> USE DEF UploadOver, bounds
  <2>0. UploadOver(c) =>
          /\ upload' \in [Clients -> [kind: UploadKinds, live: BOOLEAN, chat: Copy]]
          /\ phase' \in [Writers -> Phases]
    BY <1>9 DEF Phases
  <2>1. CASE IngestRefused(c) BY <2>0, <2>1 DEF IngestRefused
  <2>2. CASE IngestReset(c)
    <3>1. upload[c].chat \in Copy OBVIOUS
    <3> QED BY <2>0, <2>2, <3>1, <1>8 DEF IngestReset
  <2>3. CASE IngestMerge(c)
    <3>1. upload[c].chat \in Copy OBVIOUS
    <3>2. work' \in Copy /\ flag' \in [Ids -> Flags] BY <2>3, MergeType
    <3> QED BY <2>0, <2>3, <3>1, <3>2 DEF IngestMerge
  <2>4. CASE LoseUpload(c) BY <2>0, <2>4 DEF LoseUpload
  <2> QED BY <1>5, <2>1, <2>2, <2>3, <2>4
<1>6. CASE ArmBar BY <1>6 DEF ArmBar, copies, bounds
<1>7. ASSUME NEW w \in Writers, WriteBack(w) PROVE TypeOK'
  <2> USE <1>8 DEF WriterFrame, Forget, bounds, Phases
  <2>1. CASE TakePatch(w) BY <2>1 DEF TakePatch
  <2>2. CASE CheckHost(w)
    <3>1. Composed(w) \in Copy BY DEF Composed, Copy
    <3> QED BY <2>2, <3>1 DEF CheckHost
  <2>3. CASE RefuseWrite(w) BY <2>3 DEF RefuseWrite, Idle
  <2>4. CASE SetChat(w) BY <2>4 DEF SetChat
  <2>5. CASE ReadBack(w) BY <2>5 DEF ReadBack
  <2>6. CASE EndUncommitted(w) BY <2>6 DEF EndUncommitted, Idle
  <2>7. CASE StartReread(w)
    <3>1. w \in Clients BY DEF Clients
    <3>2. [kind |-> "reread", live |-> TRUE, chat |-> host]
            \in [kind: UploadKinds, live: BOOLEAN, chat: Copy]
      BY DEF UploadKinds
    <3> QED BY <2>7, <3>1, <3>2 DEF StartReread, copies
  <2>8. CASE LoseCommit(w) BY <2>8 DEF LoseCommit, Idle
  <2> QED BY <1>7, <2>1, <2>2, <2>3, <2>4, <2>5, <2>6, <2>7, <2>8 DEF WriteBack
<1>10. CASE UNCHANGED vars BY <1>10 DEF vars
<1> QED BY <1>1, <1>2, <1>3, <1>4, <1>5, <1>6, <1>7, <1>10 DEF Next, Uploads

\* Every reachable state is of the declared types: the merge, the restores and
\* the write-back never produce a turn with an unknown text or flag.
THEOREM TypeCorrect == Spec => []TypeOK
  BY TypeInit, TypeStep, PTL DEF Spec

-----------------------------------------------------------------------------
(* Every open conflict can be decided both ways. Inductive with the types:  *)
(* only a merge raises a flag, and every action that takes a row away or     *)
(* moves the baseline also settles the flags of the rows it touches.         *)

LEMMA DecidableInit == Init => ConflictsDecidable
  BY DEF Init, ConflictsDecidable, NoFlags, NoConflict

LEMMA DecidableStep == TypeOK /\ ConflictsDecidable /\ [Next]_vars => ConflictsDecidable'
<1> SUFFICES ASSUME TypeOK, ConflictsDecidable, [Next]_vars PROVE ConflictsDecidable' OBVIOUS
<1> USE ConstantsAssumption DEF TypeOK, ConflictsDecidable
<1>1. CASE UNCHANGED <<base, work, flag>> BY <1>1
<1>2. ASSUME flag' = NoFlags PROVE ConflictsDecidable'
  BY <1>2 DEF NoFlags, NoConflict
<1>3. CASE RisuMoves
  BY <1>1, <1>3 DEF RisuMoves, RisuEdit, RisuDelete, RisuAdd, RisuFrame
<1>4. CASE PanelMoves
  <2> USE DEF PanelFrame, Copy, Flags, NoConflict
  <2>1. CASE \E i \in Ids : DeleteTurn(i) BY <2>1 DEF DeleteTurn
  <2>2. CASE \E i \in Ids, b \in Bodies : SetBody(i, b) BY <2>2 DEF SetBody
  <2>3. CASE \E i \in Ids, b \in Bodies : InsertTurn(i, b) BY <2>3 DEF InsertTurn
  <2>4. CASE ResetWorking \/ RestoreSnapshot BY <1>2, <2>4 DEF ResetWorking, RestoreSnapshot
  <2>5. CASE SaveSnapshot BY <1>1, <2>5 DEF SaveSnapshot
  <2> QED BY <1>4, <2>1, <2>2, <2>3, <2>4, <2>5 DEF PanelMoves
<1>5. CASE Resolve
  BY <1>5 DEF Resolve, KeepMine, TakeTheirs, Copy, Flags, NoConflict
<1>6. CASE \E kind \in {"open", "reload"} : StartUpload(kind)
  BY <1>1, <1>6 DEF StartUpload, copies
<1>7. ASSUME NEW c \in Clients,
             IngestRefused(c) \/ IngestReset(c) \/ IngestMerge(c) \/ LoseUpload(c)
      PROVE  ConflictsDecidable'
  <2>1. CASE IngestRefused(c) \/ LoseUpload(c) BY <1>1, <2>1 DEF IngestRefused, LoseUpload
  <2>2. CASE IngestReset(c) BY <1>2, <2>2 DEF IngestReset
  <2>3. CASE IngestMerge(c)
    <3> DEFINE theirs == upload[c].chat
    <3>1. theirs \in Copy OBVIOUS
    <3>2. ASSUME NEW i \in Ids
          PROVE  LET r == MergeTurn(i, theirs[i]) IN
                 /\ r.kind # NoConflict => r.body # Absent
                 /\ r.kind \in {"both-moved", "deleted-here"} => theirs[i] # Absent
                 /\ r.kind = "deleted-upstream" => theirs[i] = Absent
      <4>1. theirs[i] \in Texts BY <3>1 DEF Copy, Texts
      <4>2. flag[i] \in Flags OBVIOUS
      <4> QED BY <4>1, <4>2, MergeFlagsDecidable
    <3> QED BY <2>3, <3>2 DEF IngestMerge
  <2> QED BY <1>7, <2>1, <2>2, <2>3
<1>8. CASE ArmBar BY <1>1, <1>8 DEF ArmBar, copies
<1>9. ASSUME NEW w \in Writers, WriteBack(w) PROVE ConflictsDecidable'
  BY <1>1, <1>9 DEF WriteBack, TakePatch, CheckHost, RefuseWrite, SetChat, ReadBack,
     EndUncommitted, StartReread, LoseCommit, Idle, WriterFrame, copies
<1>10. CASE UNCHANGED vars BY <1>1, <1>10 DEF vars
<1> QED BY <1>3, <1>4, <1>5, <1>6, <1>7, <1>8, <1>9, <1>10 DEF Next, Uploads

\* conflicts.resolve never meets a conflict it cannot carry out: the row of an
\* open conflict exists, and RisuAI's side is in the baseline unless the
\* conflict says RisuAI dropped the turn.
THEOREM ConflictsAlwaysDecidable == Spec => []ConflictsDecidable
  BY TypeInit, TypeStep, DecidableInit, DecidableStep, PTL DEF Spec

-----------------------------------------------------------------------------
(* Re-opening a chat.                                                       *)

LEMMA KeepsEditsStep ==
    ASSUME TypeOK, NEW c \in Clients, Reopens(c), NEW i \in Ids, work[i] # base[i]
    PROVE  work'[i] = work[i] \/ flag'[i] = "deleted-here"
<1>1. CASE IngestReset(c)
  BY <1>1 DEF Reopens, IngestReset, Resets, Empty
<1>2. CASE IngestMerge(c)
  BY <1>2, MergeKeepsEdits DEF IngestMerge
<1> QED BY <1>1, <1>2 DEF Reopens

\* store.ingest_chat never discards an edit in progress, whatever RisuAI did
\* since the last upload and in whatever order the calls arrived.
THEOREM EditsSurviveReopen == Spec => PanelEditsSurviveReopen
<1>1. TypeOK /\ [Next]_vars =>
        [\A c \in Clients : Reopens(c) =>
           \A i \in Ids : work[i] # base[i] =>
              work'[i] = work[i] \/ flag'[i] = "deleted-here"]_vars
  BY KeepsEditsStep
<1> QED BY <1>1, TypeInit, TypeStep, PTL DEF Spec, PanelEditsSurviveReopen

LEMMA ShowsTheirsStep ==
    ASSUME TypeOK, NEW c \in Clients, Reopens(c),
           NEW i \in Ids, base[i] # Absent, base'[i] # base[i]
    PROVE  work'[i] = base'[i] \/ flag'[i] # NoConflict
<1>1. CASE IngestReset(c) BY <1>1 DEF IngestReset
<1>2. CASE IngestMerge(c) BY <1>2, MergeShowsTheirs DEF IngestMerge
<1> QED BY <1>1, <1>2 DEF Reopens

\* A merge never moves the baseline of a turn to a text the panel neither shows
\* nor flags, so a later write-back cannot revert RisuAI's edit unnoticed.
THEOREM NeverSilentlyRebased == Spec => NoSilentRebase
<1>1. TypeOK /\ [Next]_vars =>
        [\A c \in Clients : Reopens(c) =>
           \A i \in Ids : base[i] # Absent /\ base'[i] # base[i] =>
              work'[i] = base'[i] \/ flag'[i] # NoConflict]_vars
  BY ShowsTheirsStep
<1> QED BY <1>1, TypeInit, TypeStep, PTL DEF Spec, NoSilentRebase

-----------------------------------------------------------------------------
(* Writing back. Between the check and the write nothing is locked, so the  *)
(* invariant speaks of what the writer saw, not of what RisuAI holds.       *)

\* What a checked write-back is about to change is what its patch was computed
\* against, in the chat as the writer read it.
CheckedChange ==
    \A w \in Writers : phase[w] = "checked" =>
        \A i \in Ids : next[w][i] # seen[w][i] => seen[w][i] = pBase[w][i]

LEMMA CheckedInit == Init => CheckedChange
  BY DEF Init, CheckedChange

\* No step outside the write-backs touches what a writer remembers.
LEMMA WritersAlone ==
    ASSUME TypeOK, [Next]_vars, \A w \in Writers : ~WriteBack(w)
    PROVE  /\ UNCHANGED <<pBase, seen, next>>
           /\ \A w \in Writers : phase'[w] = phase[w] \/ phase'[w] = "idle"
<1>1. CASE RisuMoves
  BY <1>1 DEF RisuMoves, RisuEdit, RisuDelete, RisuAdd, RisuFrame, wbVars
<1>2. CASE PanelMoves
  BY <1>2 DEF PanelMoves, DeleteTurn, SetBody, InsertTurn, ResetWorking, SaveSnapshot,
     RestoreSnapshot, PanelFrame, wbVars
<1>3. CASE Resolve BY <1>3 DEF Resolve, KeepMine, TakeTheirs, wbVars
<1>4. CASE \E kind \in {"open", "reload"} : StartUpload(kind)
  BY <1>4 DEF StartUpload, wbVars
<1>5. ASSUME NEW c \in Clients,
             IngestRefused(c) \/ IngestReset(c) \/ IngestMerge(c) \/ LoseUpload(c)
      PROVE  /\ UNCHANGED <<pBase, seen, next>>
             /\ \A w \in Writers : phase'[w] = phase[w] \/ phase'[w] = "idle"
  <2>1. UploadOver(c) BY <1>5 DEF IngestRefused, IngestReset, IngestMerge, LoseUpload
  <2> QED BY <2>1 DEF UploadOver, TypeOK
<1>6. CASE ArmBar BY <1>6 DEF ArmBar
<1>7. CASE UNCHANGED vars BY <1>7 DEF vars
<1> QED BY <1>1, <1>2, <1>3, <1>4, <1>5, <1>6, <1>7 DEF Next, Uploads

LEMMA CheckedStep == TypeOK /\ CheckedChange /\ [Next]_vars => CheckedChange'
<1> SUFFICES ASSUME TypeOK, CheckedChange, [Next]_vars PROVE CheckedChange' OBVIOUS
<1> USE DEF CheckedChange
<1>1. CASE \A w \in Writers : ~WriteBack(w) BY <1>1, WritersAlone
<1>2. ASSUME NEW w \in Writers, WriteBack(w) PROVE CheckedChange'
  <2> USE DEF TypeOK, Forget
  <2>1. CASE TakePatch(w) BY <2>1 DEF TakePatch
  <2>2. CASE CheckHost(w)
    <3>1. \A i \in Ids : Composed(w)[i] # host[i] => host[i] = pBase[w][i]
      BY <2>2 DEF CheckHost, GuardsPass, Composed, Edited, Copy
    <3> QED BY <2>2, <3>1 DEF CheckHost
  <2>3. CASE RefuseWrite(w) \/ EndUncommitted(w) \/ LoseCommit(w)
    BY <2>3 DEF RefuseWrite, EndUncommitted, LoseCommit, Idle
  <2>4. CASE SetChat(w) BY <2>4 DEF SetChat
  <2>5. CASE ReadBack(w) BY <2>5 DEF ReadBack
  <2>6. CASE StartReread(w) BY <2>6 DEF StartReread
  <2> QED BY <1>2, <2>1, <2>2, <2>3, <2>4, <2>5, <2>6 DEF WriteBack
<1> QED BY <1>1, <1>2

LEMMA OverwriteStep ==
    ASSUME TypeOK, CheckedChange, [Next]_vars, NEW w \in Writers,
           phase[w] = "checked", phase'[w] = "sent",
           NEW i \in Ids, host'[i] # host[i]
    PROVE  host[i] = pBase[w][i] \/ host[i] # seen[w][i]
<1>1. PICK v \in Writers : WriteBack(v) BY WritersAlone
<1>2. CASE v # w
  <2>1. phase'[w] = phase[w]
    BY <1>1, <1>2 DEF WriteBack, TakePatch, CheckHost, RefuseWrite, SetChat, ReadBack,
       EndUncommitted, StartReread, LoseCommit, Idle, TypeOK
  <2> QED BY <2>1
<1>3. CASE v = w
  <2>1. SetChat(w)
    BY <1>1, <1>3 DEF WriteBack, TakePatch, CheckHost, RefuseWrite, ReadBack,
       EndUncommitted, StartReread, LoseCommit, Idle, TypeOK
  <2>2. host' = next[w] BY <2>1 DEF SetChat
  <2> QED BY <2>2 DEF CheckedChange
<1> QED BY <1>2, <1>3

\* host.writeChat replaces only text its patch was computed against, unless
\* RisuAI moved it after the writer looked.
THEOREM OverwritesAreGuarded == Spec => GuardedOverwrite
<1>1. TypeOK /\ CheckedChange /\ [Next]_vars =>
        [\A w \in Writers : phase[w] = "checked" /\ phase'[w] = "sent" =>
           \A i \in Ids : host'[i] # host[i] =>
              host[i] = pBase[w][i] \/ host[i] # seen[w][i]]_vars
  BY OverwriteStep
<1> QED
  BY <1>1, TypeInit, TypeStep, CheckedInit, CheckedStep, PTL DEF Spec, GuardedOverwrite

-----------------------------------------------------------------------------
(* The lorebook of the chat, which shares no constant and no variable with  *)
(* the turns above.                                                         *)

\* A finite set fits, one to one, into one at least as large.
LEMMA FitsInto ==
    ASSUME NEW A, NEW B, IsFiniteSet(A), IsFiniteSet(B), Cardinality(A) <= Cardinality(B)
    PROVE  \E f \in [A -> B] : \A x, y \in A : x # y => f[x] # f[y]
<1>1. Cardinality(A) \in Nat /\ Cardinality(B) \in Nat BY FS_CardinalityType
<1>2. PICK a \in Bijection(1..Cardinality(A), A) : TRUE
  BY FS_CardinalityType DEF ExistsBijection
<1>3. PICK b \in Bijection(1..Cardinality(B), B) : TRUE
  BY FS_CardinalityType DEF ExistsBijection
<1>4. /\ \A x \in A : \E n \in 1..Cardinality(A) : a[n] = x
      /\ b \in [1..Cardinality(B) -> B]
      /\ \A m, n \in 1..Cardinality(B) : m # n => b[m] # b[n]
  BY <1>2, <1>3 DEF Bijection, Injection, Surjection, IsInjective
<1> DEFINE at(x) == CHOOSE n \in 1..Cardinality(A) : a[n] = x
           f == [x \in A |-> b[at(x)]]
<1>5. \A x \in A : at(x) \in 1..Cardinality(B) /\ a[at(x)] = x
  BY <1>4, <1>1
<1>6. f \in [A -> B] BY <1>4, <1>5
<1>7. \A x, y \in A : x # y => f[x] # f[y] BY <1>4, <1>5
<1> HIDE DEF f
<1> QED BY <1>6, <1>7

\* Rows for entries: one new row for each, with an id from the free ones.
LEMMA LoadedRows ==
    ASSUME NEW New, NEW Free, IsFiniteSet(New), IsFiniteSet(Free),
           Cardinality(New) <= Cardinality(Free)
    PROVE  LET t == Loaded(New, Free) IN
           /\ DOMAIN t \subseteq Free
           /\ \A i \in DOMAIN t : t[i].entry \in New /\ t[i] = Original(t[i].entry)
           /\ \A e \in New : \E i \in DOMAIN t : t[i].entry = e
           /\ \A i, j \in DOMAIN t : i # j => t[i].entry # t[j].entry
<1>1. CASE New = {} BY <1>1 DEF Loaded
<1>2. CASE New # {}
  <2> DEFINE id == CHOOSE f \in [New -> Free] : \A e, n \in New : e # n => f[e] # f[n]
             t  == [i \in {id[e] : e \in New} |-> Original(CHOOSE e \in New : id[e] = i)]
  <2>1. Loaded(New, Free) = t BY <1>2 DEF Loaded
  <2>2. id \in [New -> Free] /\ \A e, n \in New : e # n => id[e] # id[n] BY FitsInto
  <2> HIDE DEF id
  <2>3. \A e \in New : t[id[e]] = Original(e) /\ id[e] \in DOMAIN t
    <3> TAKE e \in New
    <3>1. (CHOOSE n \in New : id[n] = id[e]) = e BY <2>2
    <3> QED BY <3>1
  <2>4. \A e : Original(e).entry = e BY DEF Original
  <2>5. \A i \in DOMAIN t : \E e \in New : i = id[e] OBVIOUS
  <2>6. DOMAIN t \subseteq Free BY <2>2
  <2> HIDE DEF t
  <2> QED BY <2>1, <2>2, <2>3, <2>4, <2>5, <2>6
<1> QED BY <1>1, <1>2

-----------------------------------------------------------------------------
(* The pairing: every rule pairs what the rules before it left.            *)

\* What a later rule pairs of the rest can be added to what is paired.
LEMMA PairsAdd ==
    ASSUME NEW B, NEW T, NEW P, NEW Q, P \subseteq B \X T, OneToOne(P),
           Q \subseteq Left(B, P) \X Right(T, P), OneToOne(Q)
    PROVE  P \cup Q \subseteq B \X T /\ OneToOne(P \cup Q)
<1>1. \A q \in Q : /\ q \in B \X T
                   /\ \A p \in P : p[1] # q[1] /\ p[2] # q[2]
  BY DEF Left, Right
<1>2. P \cup Q \subseteq B \X T BY <1>1
<1>3. ASSUME NEW p \in P \cup Q, NEW q \in P \cup Q, p # q
      PROVE  p[1] # q[1] /\ p[2] # q[2]
  BY <1>1, <1>3 DEF OneToOne
<1> QED BY <1>2, <1>3 DEF OneToOne

\* A key pairs a row and an entry that carry it alone.
LEMMA KeyedPairs ==
    ASSUME NEW B, NEW T, NEW key
    PROVE  Keyed(B, T, key) \subseteq B \X T /\ OneToOne(Keyed(B, T, key))
<1> DEFINE K == Keyed(B, T, key)
<1>1. K \subseteq B \X T BY DEF Keyed
<1>2. ASSUME NEW p \in K, NEW q \in K, p[1] = q[1] \/ p[2] = q[2] PROVE p = q
  <2>1. /\ lore[p[1]].orig[key] = p[2][key] /\ lore[q[1]].orig[key] = q[2][key]
        /\ \A i \in B : lore[i].orig[key] = p[2][key] => i = p[1]
        /\ \A t \in T : t[key] = p[2][key] => t = p[2]
    BY DEF Keyed
  <2>2. p \in B \X T /\ q \in B \X T BY <1>1
  <2>3. p[1] = q[1] /\ p[2] = q[2] BY <1>2, <2>1, <2>2
  <2> QED BY <2>2, <2>3
<1> QED BY <1>1, <1>2 DEF OneToOne

\* What the merge pairs, for sure or by a guess: every row and every entry at
\* most once.
LEMMA MatchedOnce ==
    ASSUME NEW B, NEW T, NEW M \in Matchings(B, T)
    PROVE  /\ M.sure \cup M.guess \subseteq B \X T
           /\ OneToOne(M.sure \cup M.guess)
<1>1. PICK E \in Exact(B, T) :
        \E P \in ByPosition(B, T, WithKeys(B, T, E)) :
           M = [sure |-> WithKeys(B, T, E), guess |-> P]
  BY DEF Matchings
<1> DEFINE N == E \cup Keyed(Left(B, E), Right(T, E), "name")
           K == N \cup Keyed(Left(B, N), Right(T, N), "text")
<1>2. E \subseteq B \X T /\ OneToOne(E) BY DEF Exact
<1>3. N \subseteq B \X T /\ OneToOne(N)
  <2> DEFINE Q == Keyed(Left(B, E), Right(T, E), "name")
  <2>1. Q \subseteq Left(B, E) \X Right(T, E) /\ OneToOne(Q) BY KeyedPairs
  <2> HIDE DEF Q
  <2>2. E \cup Q \subseteq B \X T /\ OneToOne(E \cup Q) BY <1>2, <2>1, PairsAdd
  <2> QED BY <2>2 DEF Q
<1>4. WithKeys(B, T, E) = K BY DEF WithKeys
<1> HIDE DEF N
<1>5. K \subseteq B \X T /\ OneToOne(K)
  <2> DEFINE Q == Keyed(Left(B, N), Right(T, N), "text")
  <2>1. Q \subseteq Left(B, N) \X Right(T, N) /\ OneToOne(Q) BY KeyedPairs
  <2> HIDE DEF Q
  <2>2. N \cup Q \subseteq B \X T /\ OneToOne(N \cup Q) BY <1>3, <2>1, PairsAdd
  <2> QED BY <2>2 DEF Q
<1> HIDE DEF K
<1>6. PICK P \in ByPosition(B, T, K) : M = [sure |-> K, guess |-> P] BY <1>1, <1>4
<1>7. P \subseteq Left(B, K) \X Right(T, K) /\ OneToOne(P)
  BY <1>6 DEF ByPosition
<1>8. K \cup P \subseteq B \X T /\ OneToOne(K \cup P) BY <1>5, <1>7, PairsAdd
<1> QED BY <1>6, <1>8

-----------------------------------------------------------------------------
(* The types, and what every step keeps.                                   *)

\* Rows that wait in a snapshot are rows of the panel too, and both sides' lists
\* are finite, which the ids an open hands out need. A row nobody decided says
\* what its baseline says.
LoreInv ==
    /\ LoreTypeOK
    /\ IsFiniteSet(list)
    /\ \A i \in DOMAIN saved : saved[i].orig # None \/ saved[i].origin = "added"
    /\ \A i \in DOMAIN lore \ touched :
         Based(i) /\ lore[i].flag = NoConflict
            => Live(i) /\ lore[i].entry = lore[i].orig

\* Rows of the panel's table t, of which the user touched those in T.
Sound(t, T) ==
    /\ DOMAIN t \subseteq RowIds /\ T \subseteq DOMAIN t
    /\ \A i \in DOMAIN t :
         /\ t[i] \in LoreRow
         /\ t[i].orig # None \/ (t[i].origin = "added" /\ t[i].flag = NoConflict)
    /\ \A i \in DOMAIN t \ T :
         t[i].orig # None /\ t[i].flag = NoConflict
           => t[i].origin # "deleted" /\ t[i].entry = t[i].orig

LEMMA SoundNow == LoreInv => Sound(lore, touched)
  BY DEF Sound, LoreInv, LoreTypeOK, IsTable, Based, Live

Pairs(M) == M.sure \cup M.guess
NewIn(M) == Right(list, Pairs(M))

LEMMA LoreInvInit == LoreInit => LoreInv
<1> SUFFICES ASSUME LoreInit PROVE LoreInv OBVIOUS
<1>1. list \subseteq Entries /\ IsFiniteSet(list) BY DEF LoreInit
<1>2. DOMAIN lore = {} /\ DOMAIN saved = {} BY DEF LoreInit
<1>4. touched = {} /\ restoring \in BOOLEAN BY DEF LoreInit
<1>5. editsLeft \in 0..MaxEdits /\ restoresLeft \in 0..MaxRestores
  BY LoreSyncAssumption DEF LoreInit
<1>6. LoreTypeOK BY <1>1, <1>2, <1>4, <1>5 DEF LoreTypeOK, IsTable
<1> QED BY <1>1, <1>2, <1>6 DEF LoreInv

\* First sight, reload and re-read: a row for each entry of RisuAI's.
LEMMA LoadIs ==
    ASSUME LoreInv, Load
    PROVE  /\ touched' = {}
           /\ DOMAIN lore' \subseteq RowIds
           /\ \A i \in DOMAIN lore' : lore'[i].entry \in list /\ lore'[i] = Original(lore'[i].entry)
           /\ \A e \in list : \E i \in DOMAIN lore' : lore'[i].entry = e
           /\ \A i, j \in DOMAIN lore' : i # j => lore'[i].entry # lore'[j].entry
<1> DEFINE Free == RowIds \ DOMAIN saved
<1>1. IsFiniteSet(list) /\ IsFiniteSet(Free) BY FS_Difference, LoreSyncAssumption DEF LoreInv
<1>2. Cardinality(list) \in Nat /\ Cardinality(Free) \in Nat BY <1>1, FS_CardinalityType
<1>3. lore' = Loaded(list, Free) /\ touched' = {} BY DEF Load
<1>4. Cardinality(list) <= Cardinality(Free) BY <1>2 DEF Load
<1> HIDE DEF Free
<1>5. LET t == Loaded(list, Free) IN
      /\ DOMAIN t \subseteq Free
      /\ \A i \in DOMAIN t : t[i].entry \in list /\ t[i] = Original(t[i].entry)
      /\ \A e \in list : \E i \in DOMAIN t : t[i].entry = e
      /\ \A i, j \in DOMAIN t : i # j => t[i].entry # t[j].entry
  BY <1>1, <1>4, LoadedRows
<1> QED BY <1>3, <1>5 DEF Free

\* What both sides added is one row.
LEMMA FoldedRows ==
    ASSUME NEW New
    PROVE  /\ \A i \in Folded(New) :
                i \in DOMAIN lore /\ ~Based(i) /\ lore[i].entry \in New
           /\ \A i, j \in Folded(New) : lore[i].entry = lore[j].entry => i = j
           /\ \A i \in DOMAIN lore : ~Based(i) /\ lore[i].entry \in New
                => \E j \in Folded(New) : lore[j].entry = lore[i].entry
<1> DEFINE Both == {e \in New : \E i \in DOMAIN lore : ~Based(i) /\ lore[i].entry = e}
           of(t) == CHOOSE i \in DOMAIN lore : ~Based(i) /\ lore[i].entry = t
<1>1. Folded(New) = {of(t) : t \in Both} BY DEF Folded
<1>2. \A t \in Both : of(t) \in DOMAIN lore /\ ~Based(of(t)) /\ lore[of(t)].entry = t
  OBVIOUS
<1>3. \A i \in DOMAIN lore : ~Based(i) /\ lore[i].entry \in New => lore[i].entry \in Both
  OBVIOUS
<1>4. Both \subseteq New OBVIOUS
<1> HIDE DEF Both, of
<1> QED BY <1>1, <1>2, <1>3, <1>4

\* The open of a chat the panel knows, row by row: rows with a baseline, rows
\* added in the panel, and the new ones.
OldRows(M) ==
    \A i \in DOMAIN lore : Based(i) =>
        IF \E t : <<i, t>> \in Pairs(M)
        THEN \E t \in list, tier \in Tiers : <<i, t>> \in Pairs(M) /\ lore'[i] = Paired(i, t, tier)
        ELSE lore'[i] = Missing(i)

AddedRows(M) ==
    \A i \in DOMAIN lore : ~Based(i) =>
        IF i \in Folded(NewIn(M))
        THEN lore'[i] = [lore[i] EXCEPT !.orig = lore[i].entry, !.origin = "original"]
        ELSE lore'[i] = lore[i]

NewRows(M) ==
    LET D == DOMAIN lore' \ DOMAIN lore IN
    /\ \A i \in D : /\ lore'[i].entry \in NewIn(M)
                    /\ lore'[i] = Original(lore'[i].entry)
                    /\ \A j \in Folded(NewIn(M)) : lore'[i].entry # lore[j].entry
    /\ \A i, j \in D : i # j => lore'[i].entry # lore'[j].entry
    /\ \A e \in NewIn(M) : \/ \E j \in Folded(NewIn(M)) : lore[j].entry = e
                           \/ \E i \in D : lore'[i].entry = e

LEMMA MergeIs ==
    ASSUME LoreInv,
           NEW M \in Matchings({i \in DOMAIN lore : Based(i)}, list),
           Cardinality(Fresh) >= Cardinality(NewIn(M)),
           lore' = Merged(M)
    PROVE  /\ DOMAIN lore \subseteq DOMAIN lore' /\ DOMAIN lore' \subseteq RowIds
           /\ OldRows(M) /\ AddedRows(M) /\ NewRows(M)
<1> DEFINE B      == {i \in DOMAIN lore : Based(i)}
           New    == NewIn(M)
           Rest   == New \ {lore[i].entry : i \in Folded(New)}
           L      == Loaded(Rest, Fresh)
           sure(i)  == {p[2] : p \in {q \in M.sure : q[1] = i}}
           guess(i) == {p[2] : p \in {q \in M.guess : q[1] = i}}
           kept   == [i \in DOMAIN lore |->
                        IF ~Based(i)
                        THEN IF i \in Folded(New)
                             THEN [lore[i] EXCEPT !.orig = lore[i].entry, !.origin = "original"]
                             ELSE lore[i]
                        ELSE IF sure(i) # {} THEN Paired(i, CHOOSE t \in sure(i) : TRUE, "keyed")
                        ELSE IF guess(i) # {} THEN Paired(i, CHOOSE t \in guess(i) : TRUE, "positional")
                        ELSE Missing(i)]
<1>1. lore' = Join(kept, L) BY DEF Merged, NewIn, Pairs
<1>2. Pairs(M) \subseteq B \X list BY MatchedOnce DEF Pairs
<1>3. /\ DOMAIN L \subseteq Fresh
      /\ \A i \in DOMAIN L : L[i].entry \in Rest /\ L[i] = Original(L[i].entry)
      /\ \A e \in Rest : \E i \in DOMAIN L : L[i].entry = e
      /\ \A i, j \in DOMAIN L : i # j => L[i].entry # L[j].entry
  <2>1. New \subseteq list BY DEF NewIn, Right
  <2>2. IsFiniteSet(New) /\ IsFiniteSet(Fresh)
    BY <2>1, FS_Subset, FS_Difference, LoreSyncAssumption DEF LoreInv, Fresh
  <2>3. IsFiniteSet(Rest) /\ Cardinality(Rest) <= Cardinality(New) BY <2>2, FS_Subset
  <2>4. Cardinality(Rest) <= Cardinality(Fresh)
    <3>1. Cardinality(New) <= Cardinality(Fresh)
      <4>1. Cardinality(New) \in Nat /\ Cardinality(Fresh) \in Nat BY <2>2, FS_CardinalityType
      <4> QED BY <4>1
    <3>2. /\ Cardinality(New) \in Nat /\ Cardinality(Fresh) \in Nat
          /\ Cardinality(Rest) \in Nat
      BY <2>2, <2>3, FS_CardinalityType
    <3> QED BY <2>3, <3>1, <3>2
  <2> HIDE DEF Rest
  <2> QED BY <2>2, <2>3, <2>4, LoadedRows
<1>4. DOMAIN kept = DOMAIN lore OBVIOUS
<1>5. /\ DOMAIN lore' = DOMAIN lore \cup DOMAIN L
      /\ \A i \in DOMAIN lore : lore'[i] = kept[i]
      /\ \A i \in DOMAIN L : lore'[i] = L[i]
  <2>1. \A i \in DOMAIN L : i \notin DOMAIN lore BY <1>3 DEF Fresh
  <2> HIDE DEF L, kept
  <2> QED BY <1>1, <1>4, <2>1 DEF Join
<1>6. \A i \in B : \A t : (<<i, t>> \in Pairs(M)) <=> (t \in sure(i) \cup guess(i))
  <2>1. \A p \in Pairs(M) : p = <<p[1], p[2]>> BY <1>2
  <2> QED BY <2>1 DEF Pairs
<1>7. ASSUME NEW i \in B
      PROVE  IF \E t : <<i, t>> \in Pairs(M)
             THEN \E t \in list, tier \in Tiers : <<i, t>> \in Pairs(M) /\ lore'[i] = Paired(i, t, tier)
             ELSE lore'[i] = Missing(i)
  <2>1. lore'[i] = IF sure(i) # {} THEN Paired(i, CHOOSE t \in sure(i) : TRUE, "keyed")
                   ELSE IF guess(i) # {} THEN Paired(i, CHOOSE t \in guess(i) : TRUE, "positional")
                   ELSE Missing(i)
    BY <1>5
  <2>2. \A t \in sure(i) \cup guess(i) : t \in list /\ <<i, t>> \in Pairs(M)
    BY <1>2, <1>6
  <2> HIDE DEF sure, guess, kept, L
  <2>3. CASE sure(i) # {}
    <3>1. (CHOOSE t \in sure(i) : TRUE) \in sure(i) BY <2>3
    <3> QED BY <2>1, <2>2, <2>3, <3>1 DEF Tiers
  <2>4. CASE sure(i) = {} /\ guess(i) # {}
    <3>1. (CHOOSE t \in guess(i) : TRUE) \in guess(i) BY <2>4
    <3> QED BY <2>1, <2>2, <2>4, <3>1 DEF Tiers
  <2>5. CASE sure(i) = {} /\ guess(i) = {}
    BY <1>6, <2>1, <2>5
  <2> QED BY <2>3, <2>4, <2>5
<1>8. \A i \in DOMAIN lore : ~Based(i) =>
        IF i \in Folded(New)
        THEN lore'[i] = [lore[i] EXCEPT !.orig = lore[i].entry, !.origin = "original"]
        ELSE lore'[i] = lore[i]
  BY <1>5
<1>9. DOMAIN lore \subseteq RowIds /\ DOMAIN L \subseteq RowIds
  BY <1>3 DEF LoreInv, LoreTypeOK, IsTable, Fresh
<1>10. DOMAIN lore' \ DOMAIN lore = DOMAIN L BY <1>3, <1>5 DEF Fresh
<1> HIDE DEF kept, L, New
<1>11. ASSUME NEW i \in DOMAIN L
       PROVE  /\ lore'[i].entry \in New /\ lore'[i] = Original(lore'[i].entry)
              /\ \A j \in Folded(New) : lore'[i].entry # lore[j].entry
  <2>1. lore'[i] = L[i] /\ L[i].entry \in Rest BY <1>3, <1>5
  <2> QED BY <1>3, <2>1
<1>12. \A i, j \in DOMAIN L : i # j => lore'[i].entry # lore'[j].entry BY <1>3, <1>5
<1>13. ASSUME NEW e \in New
       PROVE  \/ \E j \in Folded(New) : lore[j].entry = e
              \/ \E i \in DOMAIN L : lore'[i].entry = e
  <2>1. CASE e \in Rest
    <3>1. PICK i \in DOMAIN L : L[i].entry = e BY <1>3, <2>1
    <3> QED BY <1>5, <3>1
  <2>2. CASE e \notin Rest BY <2>2
  <2> QED BY <2>1, <2>2
<1>14. OldRows(M) BY <1>7 DEF OldRows
<1>15. AddedRows(M) BY <1>8 DEF AddedRows, New
<1>16. NewRows(M) BY <1>10, <1>11, <1>12, <1>13 DEF NewRows, New
<1> QED BY <1>5, <1>9, <1>14, <1>15, <1>16

\* Which rows have a baseline.
LEMMA RowTypes ==
    ASSUME LoreInv
    PROVE  /\ \A i \in DOMAIN lore : lore[i] \in LoreRow /\ i \in RowIds
           /\ \A i \in DOMAIN lore : lore[i].origin # "added" => lore[i].orig \in Entries
           /\ \A i \in DOMAIN lore : lore[i].flag # NoConflict => lore[i].orig \in Entries
           /\ \A i \in DOMAIN lore : Based(i) <=> lore[i].orig \in Entries
  BY LoreSyncAssumption DEF LoreInv, LoreTypeOK, IsTable, LoreRow, Based

\* A row an open pairs with one of RisuAI's.
LEMMA PairedRow ==
    ASSUME LoreInv, NEW i \in DOMAIN lore, Based(i), NEW t \in list, NEW tier,
           NEW r, r = Paired(i, t, tier)
    PROVE  /\ r \in LoreRow /\ r.orig = t
           /\ r.flag # "deleted-upstream" \/ r.flag = lore[i].flag
           /\ lore[i].origin # "original" \/ lore[i].entry # lore[i].orig
                => r.entry = lore[i].entry /\ r.origin = lore[i].origin
           /\ r.flag = NoConflict =>
                \/ r.origin # "deleted" /\ r.entry = r.orig
                \/ lore[i].flag = NoConflict /\ r.origin = lore[i].origin /\ r.entry = lore[i].entry
                   /\ (t = lore[i].orig \/ t = lore[i].entry)
<1>1. t \in Entries /\ lore[i] \in LoreRow /\ lore[i].orig \in Entries
  BY RowTypes DEF LoreInv, LoreTypeOK
<1> DEFINE d == Decide(lore[i].entry, lore[i].orig, t, Dirty(i), tier)
<1>2. /\ d.action \in {"adopt", "conflict", "keep"}
      /\ d.kind \in {"weak-match", "both-moved", NoConflict}
      /\ d.action = "conflict" => d.kind # NoConflict
      /\ d.action = "adopt" => lore[i].origin = "original" /\ lore[i].entry = lore[i].orig
      /\ d.action = "keep" => t = lore[i].orig \/ t = lore[i].entry
  BY DEF Decide, Dirty, NoConflict
<1>3. r = IF d.action = "adopt" THEN Original(t)
          ELSE IF d.action = "conflict" THEN [lore[i] EXCEPT !.orig = t, !.flag = d.kind]
          ELSE [lore[i] EXCEPT !.orig = t]
  BY DEF Paired
<1> HIDE DEF d
<1>4. CASE d.action = "adopt"
  BY <1>1, <1>2, <1>3, <1>4 DEF Original, LoreRow, Origins, NoConflict
<1>5. CASE d.action = "conflict"
  <2>1. r = [[lore[i] EXCEPT !.orig = t] EXCEPT !.flag = d.kind] BY <1>3, <1>5
  <2>2. r = [entry |-> lore[i].entry, orig |-> t, origin |-> lore[i].origin, flag |-> d.kind]
    BY <1>1, <1>3, <1>5 DEF LoreRow
  <2> QED BY <1>1, <1>2, <1>5, <2>2 DEF LoreRow, ConflictKinds, NoConflict
<1>6. CASE d.action = "keep"
  BY <1>1, <1>2, <1>3, <1>6 DEF LoreRow, NoConflict
<1> QED BY <1>2, <1>4, <1>5, <1>6

\* A row taken from RisuAI.
LEMMA OriginalRow ==
    ASSUME LoreInv, NEW e \in Entries, NEW r, r = Original(e)
    PROVE  /\ r \in LoreRow /\ r.orig = e /\ r.entry = e
           /\ r.origin = "original" /\ r.orig # None
  BY LoreSyncAssumption DEF LoreInv, Original, LoreRow, Origins

\* Nothing of a fresh load is the user's.
LEMMA LoadedAreSound ==
    ASSUME LoreInv, Load
    PROVE  Sound(lore', touched')
<1>1. \A i \in DOMAIN lore' : /\ lore'[i].entry \in Entries
                              /\ lore'[i] = Original(lore'[i].entry)
  BY LoadIs DEF LoreInv, LoreTypeOK
<1> QED BY <1>1, LoadIs, OriginalRow DEF Sound

\* What an open leaves: rows of their kind, and a row nobody decided still says
\* what its baseline says.
LEMMA OpenedRows ==
    ASSUME LoreInv, Open
    PROVE  Sound(lore', touched')
<1> USE DEF Sound
<1>L. list \subseteq Entries BY DEF LoreInv, LoreTypeOK
<1>1. CASE Load BY <1>1, LoadedAreSound
<1>2. ASSUME NEW M \in Matchings({i \in DOMAIN lore : Based(i)}, list),
             Cardinality(Fresh) >= Cardinality(NewIn(M)),
             lore' = Merged(M), UNCHANGED touched
      PROVE  Sound(lore', touched')
  <2> DEFINE Good(i) == /\ lore'[i] \in LoreRow
                        /\ \/ lore'[i].orig # None
                           \/ lore'[i].origin = "added" /\ lore'[i].flag = NoConflict
                        /\ i \notin touched /\ lore'[i].orig # None /\ lore'[i].flag = NoConflict
                             => lore'[i].origin # "deleted" /\ lore'[i].entry = lore'[i].orig
  <2>0. /\ DOMAIN lore \subseteq DOMAIN lore' /\ DOMAIN lore' \subseteq RowIds
        /\ OldRows(M) /\ AddedRows(M) /\ NewRows(M)
    BY <1>2, MergeIs
  <2> HIDE DEF Good
  <2>1. ASSUME NEW i \in DOMAIN lore, Based(i) PROVE Good(i)
    <3> USE DEF Good
    <3>1. CASE \E t : <<i, t>> \in Pairs(M)
      <4>1. PICK t \in list, tier \in Tiers : lore'[i] = Paired(i, t, tier)
        BY <2>0, <2>1, <3>1 DEF OldRows
      <4>2. /\ lore'[i] \in LoreRow /\ lore'[i].orig = t /\ t # None
            /\ lore'[i].flag = NoConflict =>
                \/ lore'[i].origin # "deleted" /\ lore'[i].entry = lore'[i].orig
                \/ /\ lore[i].flag = NoConflict /\ lore'[i].origin = lore[i].origin
                   /\ lore'[i].entry = lore[i].entry
                   /\ (t = lore[i].orig \/ t = lore[i].entry)
        BY <1>L, <2>1, <4>1, PairedRow, LoreSyncAssumption DEF LoreInv
      <4>3. i \notin touched /\ lore[i].flag = NoConflict
              => lore[i].origin # "deleted" /\ lore[i].entry = lore[i].orig
        BY <2>1 DEF LoreInv, Live
      <4> QED BY <4>2, <4>3
    <3>2. CASE ~\E t : <<i, t>> \in Pairs(M)
      <4>1. lore'[i] = Missing(i) BY <2>0, <2>1, <3>2 DEF OldRows
      <4>2. lore'[i] = [lore[i] EXCEPT !.flag = "deleted-upstream"]
        BY <4>1 DEF Missing, DecideMissing
      <4> QED BY <2>1, <4>2, RowTypes DEF LoreRow, ConflictKinds, NoConflict, Based
    <3> QED BY <3>1, <3>2
  <2>2. ASSUME NEW i \in DOMAIN lore, ~Based(i) PROVE Good(i)
    <3> USE DEF Good
    <3>1. /\ lore[i] \in LoreRow /\ lore[i].orig = None
          /\ lore[i].origin = "added" /\ lore[i].flag = NoConflict
      BY <2>2 DEF LoreInv, LoreTypeOK, IsTable, Based
    <3>2. CASE i \in Folded(NewIn(M))
      <4>1. lore'[i] = [lore[i] EXCEPT !.orig = lore[i].entry, !.origin = "original"]
        BY <2>0, <2>2, <3>2 DEF AddedRows
      <4>2. lore'[i] = [entry |-> lore[i].entry, orig |-> lore[i].entry,
                        origin |-> "original", flag |-> lore[i].flag]
        BY <3>1, <4>1 DEF LoreRow
      <4> QED BY <3>1, <4>2, LoreSyncAssumption DEF LoreRow, Origins, LoreInv
    <3>3. CASE i \notin Folded(NewIn(M))
      <4>1. lore'[i] = lore[i] BY <2>0, <2>2, <3>3 DEF AddedRows
      <4> QED BY <3>1, <4>1
    <3> QED BY <3>2, <3>3
  <2>3. ASSUME NEW i \in DOMAIN lore' \ DOMAIN lore PROVE Good(i)
    <3> USE DEF Good
    <3>1. lore'[i].entry \in NewIn(M) /\ lore'[i] = Original(lore'[i].entry)
      BY <2>0 DEF NewRows
    <3>2. lore'[i].entry \in Entries BY <1>L, <3>1 DEF NewIn, Right
    <3> QED BY <3>1, <3>2, OriginalRow
  <2>4. \A i \in DOMAIN lore' : Good(i) BY <2>1, <2>2, <2>3
  <2>5. /\ DOMAIN lore \subseteq DOMAIN lore' /\ DOMAIN lore' \subseteq RowIds
        /\ touched \subseteq DOMAIN lore
    BY <2>0 DEF LoreInv, LoreTypeOK
  <2> QED BY <1>2, <2>4, <2>5 DEF Good
<1> QED BY <1>1, <1>2 DEF Open, NewIn, Pairs

\* The steps that leave RisuAI's list and what waits in the snapshot alone: what
\* they do to the rows is all there is to show.
LEMMA RowsStep ==
    ASSUME LoreInv, list' = list, saved' = saved, restoring' \in BOOLEAN,
           editsLeft' \in 0..MaxEdits, restoresLeft' \in 0..MaxRestores,
           Sound(lore', touched')
    PROVE  LoreInv'
  BY DEF Sound, LoreInv, LoreTypeOK, IsTable, Based, Live, NoConflict,
     LoreRow, Origins, ConflictKinds, Entries

\* The bounds of the environment, through a step that spends one.
LEMMA LoreBounds ==
    ASSUME LoreInv
    PROVE  /\ restoring \in BOOLEAN
           /\ editsLeft \in 0..MaxEdits /\ restoresLeft \in 0..MaxRestores
           /\ editsLeft > 0 => editsLeft - 1 \in 0..MaxEdits
           /\ restoresLeft > 0 => restoresLeft - 1 \in 0..MaxRestores
  BY LoreSyncAssumption DEF LoreInv, LoreTypeOK
\* Every action keeps it.
LEMMA EditStep == LoreInv /\ Edit => LoreInv'
<1> SUFFICES ASSUME LoreInv, Edit PROVE LoreInv' OBVIOUS
<1>0. Sound(lore, touched) BY SoundNow
<1> USE DEF Sound
<1>1. ASSUME NEW e \in Entries, Add(e) PROVE Sound(lore', touched')
  <2> DEFINE j == CHOOSE k \in Fresh : TRUE
             n == [entry |-> e, orig |-> None, origin |-> "added", flag |-> NoConflict]
  <2>1. j \in RowIds /\ j \notin DOMAIN lore BY <1>1 DEF Add, Fresh
  <2>2. n \in LoreRow BY DEF LoreRow, Origins
  <2> HIDE DEF j
  <2>3. lore' = Join(lore, [i \in {j} |-> n]) /\ touched' = touched
    BY <1>1 DEF Add, j
  <2>4. /\ DOMAIN lore' = DOMAIN lore \cup {j}
        /\ lore'[j] = n
        /\ \A i \in DOMAIN lore : lore'[i] = lore[i]
    BY <2>1, <2>3 DEF Join
  <2>5. n.orig = None /\ n.origin = "added" /\ n.flag = NoConflict OBVIOUS
  <2> HIDE DEF n
  <2> QED BY <1>0, <2>1, <2>2, <2>3, <2>4, <2>5
<1>2. ASSUME NEW i \in DOMAIN lore, NEW e \in Entries, Update(i, e) PROVE Sound(lore', touched')
  <2> DEFINE o == IF lore[i].origin = "added" THEN "added"
                  ELSE IF lore[i].orig = e THEN "original" ELSE "edited"
             n == [entry |-> e, orig |-> lore[i].orig, origin |-> o, flag |-> lore[i].flag]
  <2>0. lore[i] \in LoreRow /\ lore[i].orig \in Entries \cup {None}
        /\ lore[i].flag \in ConflictKinds \cup {NoConflict}
    BY <1>0 DEF LoreRow
  <2>1. lore' = [lore EXCEPT ![i] = n] /\ touched' = touched \cup {i}
    <3> DEFINE x == [lore[i] EXCEPT !.entry = e, !.origin = o]
    <3>1. x = [lore[i] EXCEPT !.entry = e, !.origin = o] OBVIOUS
    <3>2. lore' = [lore EXCEPT ![i] = x] /\ touched' = touched \cup {i}
      BY <1>2 DEF Update, Becomes
    <3> HIDE DEF x
    <3>3. x = n BY <2>0, <3>1 DEF LoreRow
    <3> QED BY <3>2, <3>3
  <2>2. n \in LoreRow BY <2>0 DEF LoreRow, Origins
  <2>3. n.orig # None \/ (n.origin = "added" /\ n.flag = NoConflict)
    <3>1. lore[i].orig # None \/ (lore[i].origin = "added" /\ lore[i].flag = NoConflict)
      BY DEF LoreInv, LoreTypeOK, Based
    <3>2. n.orig = lore[i].orig /\ n.flag = lore[i].flag /\ n.origin = o OBVIOUS
    <3> HIDE DEF n
    <3> QED BY <3>1, <3>2
  <2> HIDE DEF n
  <2> QED BY <1>0, <2>1, <2>2, <2>3
<1>3. ASSUME NEW i \in DOMAIN lore, Delete(i) PROVE Sound(lore', touched')
  <2>1. CASE lore[i].origin = "added"
    BY <1>0, <1>3, <2>1 DEF Delete
  <2>2. CASE lore[i].origin # "added"
    <3> DEFINE n == [lore[i] EXCEPT !.origin = "deleted"]
    <3>1. lore' = [lore EXCEPT ![i] = n] /\ touched' = touched \cup {i}
      BY <1>3, <2>2 DEF Delete, Becomes
    <3>2. n \in LoreRow /\ n.orig # None BY <1>0, <2>2 DEF LoreRow, Origins
    <3> HIDE DEF n
    <3> QED BY <1>0, <3>1, <3>2
  <2> QED BY <2>1, <2>2
<1>4. Sound(lore', touched') BY <1>1, <1>2, <1>3 DEF Edit
<1> HIDE DEF Sound
<1>5. /\ list' = list /\ saved' = saved /\ restoring' \in BOOLEAN
      /\ editsLeft' \in 0..MaxEdits /\ restoresLeft' \in 0..MaxRestores
  BY LoreBounds DEF Edit
<1> QED BY <1>4, <1>5, RowsStep

LEMMA ResolveStep == \A i \in DOMAIN lore : LoreInv /\ ResolveLore(i) => LoreInv'
<1> SUFFICES ASSUME LoreInv, NEW i \in DOMAIN lore, ResolveLore(i) PROVE LoreInv' OBVIOUS
<1>0. Sound(lore, touched) BY SoundNow
<1> USE DEF Sound
<1>1. lore[i].flag # NoConflict /\ lore[i].orig # None /\ lore[i].orig \in Entries
  BY <1>0 DEF ResolveLore, LoreRow
<1>2. PICK n \in LoreRow : n.orig # None /\ lore' = [lore EXCEPT ![i] = n]
  <2>1. CASE KeepMyEntry(i)
    <3>1. [lore[i] EXCEPT !.flag = NoConflict] \in LoreRow BY <1>0 DEF LoreRow
    <3>2. [lore[i] EXCEPT !.flag = NoConflict].orig # None BY <1>0, <1>1 DEF LoreRow
    <3> QED BY <2>1, <3>1, <3>2 DEF KeepMyEntry, Becomes
  <2>2. CASE TakeTheirEntry(i)
    <3> DEFINE x == [lore[i] EXCEPT !.origin = "deleted", !.flag = NoConflict]
    <3>0. lore[i] \in LoreRow BY <1>0
    <3>1. x = [lore[i] EXCEPT !.origin = "deleted", !.flag = NoConflict] OBVIOUS
    <3>4. lore[i].flag = "deleted-upstream" => lore' = [lore EXCEPT ![i] = x]
      BY <2>2 DEF TakeTheirEntry, Becomes
    <3> HIDE DEF x
    <3>2. x \in LoreRow /\ x.orig # None
      <4>1. x = [entry |-> lore[i].entry, orig |-> lore[i].orig, origin |-> "deleted",
                 flag |-> NoConflict]
        BY <3>0, <3>1 DEF LoreRow
      <4> QED BY <1>1, <3>0, <4>1 DEF LoreRow, Origins
    <3>3. Original(lore[i].orig) \in LoreRow /\ Original(lore[i].orig).orig # None
      BY <1>1 DEF Original, LoreRow, Origins
    <3>5. CASE lore[i].flag # "deleted-upstream"
      BY <2>2, <3>3, <3>5 DEF TakeTheirEntry, Becomes
    <3> QED BY <3>2, <3>4, <3>5
  <2> QED BY <2>1, <2>2 DEF ResolveLore
<1>3. touched' = touched \cup {i} /\ list' = list /\ saved' = saved /\ restoring' = restoring
      /\ UNCHANGED <<editsLeft, restoresLeft>>
  BY DEF ResolveLore, loreBounds
<1>4. Sound(lore', touched')
  BY <1>0, <1>2, <1>3
<1> QED BY <1>3, <1>4, LoreBounds, RowsStep

LEMMA ResetStep == LoreInv /\ Reset => LoreInv'
<1> SUFFICES ASSUME LoreInv, Reset PROVE LoreInv' OBVIOUS
<1>0. Sound(lore, touched) BY SoundNow
<1> USE DEF Sound
<1>1. /\ DOMAIN lore' = {j \in DOMAIN lore : lore[j].origin # "added"}
      /\ \A i \in DOMAIN lore' :
           lore'[i] = IF Dirty(i) THEN Original(lore[i].orig)
                      ELSE [lore[i] EXCEPT !.flag = NoConflict]
  BY DEF Reset
<1>2. touched' = (touched \cup {i \in DOMAIN lore : lore[i].flag # NoConflict}) \cap DOMAIN lore'
  BY DEF Reset
<1>3. ASSUME NEW i \in DOMAIN lore'
      PROVE  /\ lore'[i] \in LoreRow /\ lore'[i].orig # None
             /\ i \notin touched' => lore'[i].origin # "deleted" /\ lore'[i].entry = lore'[i].orig
  <2>1. i \in DOMAIN lore /\ lore[i].origin # "added" /\ lore[i] \in LoreRow BY <1>0, <1>1
  <2>2. lore[i].orig \in Entries /\ lore[i].orig # None
    BY <2>1, RowTypes, LoreSyncAssumption DEF LoreInv
  <2>3. CASE Dirty(i)
    <3>1. lore'[i] = Original(lore[i].orig) BY <1>1, <2>3
    <3> QED BY <2>2, <3>1 DEF Original, LoreRow, Origins
  <2>4. CASE ~Dirty(i)
    <3>1. lore'[i] = [lore[i] EXCEPT !.flag = NoConflict] BY <1>1, <2>4
    <3>2. /\ lore'[i] \in LoreRow /\ lore'[i].orig = lore[i].orig
          /\ lore'[i].entry = lore[i].entry /\ lore'[i].origin = lore[i].origin
      BY <2>1, <3>1 DEF LoreRow
    <3>3. lore[i].origin = "original" BY <2>4 DEF Dirty
    <3>4. i \notin touched' => i \notin touched /\ lore[i].flag = NoConflict BY <1>2, <2>1
    <3> QED BY <1>0, <2>1, <2>2, <3>2, <3>3, <3>4
  <2> QED BY <2>3, <2>4
<1>4. /\ list' = list /\ saved' = saved /\ restoring' = restoring
      /\ editsLeft' = editsLeft /\ restoresLeft' = restoresLeft
  BY DEF Reset, loreBounds
<1>5. DOMAIN lore' \subseteq RowIds /\ touched' \subseteq DOMAIN lore' BY <1>0, <1>1, <1>2
<1> QED BY <1>3, <1>4, <1>5, LoreBounds, RowsStep

\* A snapshot comes back in two commits. What it captured were rows of the panel.
LEMMA RestoreStep == LoreInv /\ (Save \/ Clear \/ PutBack \/ Crash) => LoreInv'
<1> SUFFICES ASSUME LoreInv PROVE Save \/ Clear \/ PutBack \/ Crash => LoreInv'
  OBVIOUS
<1> USE DEF loreBounds
<1>1. ASSUME Save PROVE LoreInv'
  BY <1>1 DEF Save, LoreInv, LoreTypeOK, IsTable, Based, Live, NoConflict,
     LoreRow, Origins, ConflictKinds, Entries
<1>2. ASSUME Clear PROVE LoreInv'
  <2>1. DOMAIN lore' = {} /\ touched' = {} /\ list' = list /\ saved' = saved BY <1>2 DEF Clear
  <2>2. restoring' \in BOOLEAN /\ editsLeft' \in 0..MaxEdits /\ restoresLeft' \in 0..MaxRestores
    BY <1>2, LoreBounds DEF Clear
  <2>3. Sound(lore', touched') BY <2>1 DEF Sound
  <2> QED BY <2>1, <2>2, <2>3, RowsStep
<1>3. ASSUME PutBack PROVE LoreInv'
  <2> USE DEF Sound
  <2> DEFINE back == [i \in DOMAIN saved |-> [saved[i] EXCEPT !.flag = NoConflict]]
  <2>1. lore' = Join(back, lore) /\ touched' = touched \cup DOMAIN saved
    BY <1>3 DEF PutBack
  <2>2. ASSUME NEW i \in DOMAIN saved
        PROVE  /\ i \in RowIds /\ back[i] \in LoreRow
               /\ back[i].orig # None \/ (back[i].origin = "added" /\ back[i].flag = NoConflict)
    <3>1. /\ i \in RowIds /\ saved[i] \in LoreRow
          /\ saved[i].orig # None \/ saved[i].origin = "added"
      BY DEF LoreInv, LoreTypeOK, IsTable
    <3>2. back[i] = [saved[i] EXCEPT !.flag = NoConflict] OBVIOUS
    <3> HIDE DEF back
    <3> QED BY <3>1, <3>2 DEF LoreRow
  <2>3. DOMAIN back = DOMAIN saved OBVIOUS
  <2> HIDE DEF back
  <2>4. /\ DOMAIN lore' = DOMAIN saved \cup DOMAIN lore
        /\ \A i \in DOMAIN saved : lore'[i] = back[i]
        /\ \A i \in DOMAIN lore \ DOMAIN saved : lore'[i] = lore[i]
    BY <2>1, <2>3 DEF Join
  <2>5. Sound(lore, touched) BY SoundNow
  <2>6. DOMAIN lore' \subseteq RowIds /\ touched' \subseteq DOMAIN lore'
    BY <2>1, <2>2, <2>4, <2>5
  <2>8. ASSUME NEW j \in DOMAIN lore'
        PROVE  /\ lore'[j] \in LoreRow
               /\ lore'[j].orig # None \/ (lore'[j].origin = "added" /\ lore'[j].flag = NoConflict)
               /\ j \notin touched' => (lore'[j].orig # None /\ lore'[j].flag = NoConflict
                    => lore'[j].origin # "deleted" /\ lore'[j].entry = lore'[j].orig)
    <3>1. CASE j \in DOMAIN saved BY <2>1, <2>2, <2>4, <3>1
    <3>2. CASE j \notin DOMAIN saved BY <2>1, <2>4, <2>5, <3>2
    <3> QED BY <3>1, <3>2
  <2>7. /\ list' = list /\ saved' = saved /\ restoring' \in BOOLEAN
        /\ editsLeft' = editsLeft /\ restoresLeft' = restoresLeft
    BY <1>3 DEF PutBack
  <2> QED BY <2>6, <2>7, <2>8, LoreBounds, RowsStep
<1>4. ASSUME Crash PROVE LoreInv'
  BY <1>4 DEF Crash, LoreInv, LoreTypeOK, IsTable, Based, Live, NoConflict,
     LoreRow, Origins, ConflictKinds, Entries
<1> QED BY <1>1, <1>2, <1>3, <1>4

LEMMA LoreInvStep == LoreInv /\ [LoreNext]_loreVars => LoreInv'
<1> SUFFICES ASSUME LoreInv, [LoreNext]_loreVars PROVE LoreInv' OBVIOUS
<1>1. CASE RisuMovesList
  <2>0. list \subseteq Entries /\ IsFiniteSet(list) BY DEF LoreInv, LoreTypeOK
  <2>1. IsFiniteSet(list') /\ list' \subseteq Entries
    <3>1. CASE \E e \in list : list' = list \ {e} BY <2>0, <3>1, FS_RemoveElement
    <3>2. CASE \E e \in Entries \ list : list' = list \cup {e} BY <2>0, <3>2, FS_AddElement
    <3>3. ASSUME NEW e \in list, NEW n \in Entries \ list, list' = (list \ {e}) \cup {n}
          PROVE  IsFiniteSet(list') /\ list' \subseteq Entries
      <4>1. IsFiniteSet(list \ {e}) BY <2>0, FS_RemoveElement
      <4>2. IsFiniteSet((list \ {e}) \cup {n}) BY <4>1, FS_AddElement
      <4> QED BY <2>0, <3>3, <4>2
    <3> QED BY <1>1, <3>1, <3>2, <3>3 DEF RisuMovesList
  <2>2. editsLeft' \in 0..MaxEdits /\ UNCHANGED <<lore, saved, restoring, touched, restoresLeft>>
    BY <1>1, LoreBounds DEF RisuMovesList
  <2> QED
    BY <2>1, <2>2 DEF LoreInv, LoreTypeOK, IsTable, Based, Live,
       NoConflict, LoreRow, Origins, ConflictKinds, Entries
<1>2. CASE Open
  <2>1. /\ list' = list /\ saved' = saved /\ restoring' = restoring
        /\ editsLeft' = editsLeft /\ restoresLeft' = restoresLeft
    BY <1>2 DEF Open, loreBounds
  <2> QED BY <1>2, <2>1, OpenedRows, LoreBounds, RowsStep
<1>3. CASE Reload
  <2>1. /\ list' = list /\ saved' = saved /\ restoring' = restoring
        /\ editsLeft' = editsLeft /\ restoresLeft' = restoresLeft
    BY <1>3 DEF Reload, loreBounds
  <2>2. Sound(lore', touched') BY <1>3, LoadedAreSound DEF Reload
  <2> QED BY <2>1, <2>2, LoreBounds, RowsStep
<1>4. CASE Edit BY <1>4, EditStep
<1>5. CASE \E i \in DOMAIN lore : ResolveLore(i) BY <1>5, ResolveStep
<1>6. CASE Reset BY <1>6, ResetStep
<1>7. CASE Save \/ Clear \/ PutBack \/ Crash BY <1>7, RestoreStep
<1>8. CASE WriteLore
  <2>1. list' = Shipped /\ UNCHANGED <<lore, saved, restoring, touched, editsLeft, restoresLeft>>
    BY <1>8 DEF WriteLore, loreBounds
  <2>2. list' \subseteq Entries BY <2>1, RowTypes DEF Shipped, LoreRow
  <2>3. IsFiniteSet(list')
    <3> DEFINE D == {j \in DOMAIN lore : Live(j)}
               said == [i \in D |-> lore[i].entry]
    <3>1. IsFiniteSet(D)
      <4>1. D \subseteq RowIds BY DEF LoreInv, LoreTypeOK, IsTable
      <4> QED BY <4>1, FS_Subset, LoreSyncAssumption DEF LoreInv
    <3>2. said \in Surjection(D, Shipped) BY DEF Surjection, Shipped
    <3> HIDE DEF D, said
    <3> QED BY <2>1, <3>1, <3>2, FS_Surjection
  <2> QED
    BY <2>1, <2>2, <2>3 DEF LoreInv, LoreTypeOK, IsTable, Based, Live,
       NoConflict, LoreRow, Origins, ConflictKinds, Entries
<1>9. CASE UNCHANGED loreVars
  BY <1>9 DEF loreVars, loreBounds, LoreInv, LoreTypeOK, IsTable, Based, Live,
     NoConflict, LoreRow, Origins, ConflictKinds, Entries
<1> QED BY <1>1, <1>2, <1>3, <1>4, <1>5, <1>6, <1>7, <1>8, <1>9 DEF LoreNext

\* The rows of a chat's lorebook keep their shape: a row without a baseline is
\* one added in the panel, and bears no conflict (store.py, conflicts.py).
THEOREM LoreTypeCorrect == LoreSpec => []LoreTypeOK
<1>1. LoreInv => LoreTypeOK BY DEF LoreInv
<1> QED BY <1>1, LoreInvInit, LoreInvStep, PTL DEF LoreSpec

\* What a write-back takes from RisuAI was the baseline of a row; a row nobody
\* touched and that bears no mark still says it, so the list has it again.
LEMMA AccountedOnly ==
    ASSUME LoreInv, WriteLore, NEW e \in list \ list'
    PROVE  e \in {lore[i].orig : i \in {j \in DOMAIN lore : Accounted(j)}}
<1>1. PICK i \in DOMAIN lore : lore[i].origin # "added" /\ Based(i) /\ e = lore[i].orig
  BY DEF WriteLore, Before
<1>2. CASE i \notin touched /\ lore[i].flag = NoConflict
  <2>1. Live(i) /\ lore[i].entry = lore[i].orig BY <1>1, <1>2 DEF LoreInv
  <2>2. e \in Shipped BY <1>1, <2>1 DEF Shipped
  <2> QED BY <2>2 DEF WriteLore
<1> QED BY <1>1, <1>2 DEF Accounted

\* host.writeChat's list, sent with or without open conflicts, takes from RisuAI
\* only entries of rows the user edited, deleted, restored or decided, or whose
\* conflict the panel shows.
THEOREM WritesAccounted == LoreSpec => WritesOnlyAccounted
<1>1. LoreInv /\ [LoreNext]_loreVars =>
        [WriteLore => list \ list' \subseteq
           {lore[i].orig : i \in {j \in DOMAIN lore : Accounted(j)}}]_loreVars
  BY AccountedOnly
<1> QED BY <1>1, LoreInvInit, LoreInvStep, PTL DEF LoreSpec, WritesOnlyAccounted

-----------------------------------------------------------------------------
(* What an open does with what the panel has, and with what RisuAI has.    *)

\* A row that differs from its baseline, through an open.
LEMMA OwnStay ==
    ASSUME LoreInv, Open, NEW i \in DOMAIN lore,
           lore[i].origin # "original" \/ lore[i].entry # lore[i].orig
    PROVE  /\ i \in DOMAIN lore' /\ lore'[i].entry = lore[i].entry
           /\ \/ lore'[i].origin = lore[i].origin
              \/ lore[i].origin = "added" /\ lore[i].entry \in list
<1>1. CASE lore = <<>> /\ Load
  <2>1. DOMAIN lore = {} BY <1>1
  <2> QED BY <2>1
<1>2. ASSUME NEW M \in Matchings({j \in DOMAIN lore : Based(j)}, list),
             Cardinality(Fresh) >= Cardinality(NewIn(M)),
             lore' = Merged(M)
      PROVE  /\ i \in DOMAIN lore' /\ lore'[i].entry = lore[i].entry
             /\ \/ lore'[i].origin = lore[i].origin
                \/ lore[i].origin = "added" /\ lore[i].entry \in list
  <2>1. /\ DOMAIN lore \subseteq DOMAIN lore'
        /\ OldRows(M) /\ AddedRows(M)
    BY <1>2, MergeIs
  <2>2. lore[i] \in LoreRow BY RowTypes
  <2>3. CASE Based(i) /\ \E t : <<i, t>> \in Pairs(M)
    <3>1. PICK t \in list, tier \in Tiers : lore'[i] = Paired(i, t, tier)
      BY <2>1, <2>3 DEF OldRows
    <3>2. lore'[i].entry = lore[i].entry /\ lore'[i].origin = lore[i].origin
      BY <2>3, <3>1, PairedRow
    <3> QED BY <2>1, <3>2
  <2>4. CASE Based(i) /\ ~\E t : <<i, t>> \in Pairs(M)
    <3>1. lore'[i] = Missing(i) BY <2>1, <2>4 DEF OldRows
    <3>2. lore'[i] = [lore[i] EXCEPT !.flag = "deleted-upstream"]
      BY <3>1 DEF Missing, DecideMissing
    <3> QED BY <2>1, <2>2, <3>2 DEF LoreRow
  <2>5. CASE ~Based(i) /\ i \in Folded(NewIn(M))
    <3>1. lore'[i] = [lore[i] EXCEPT !.orig = lore[i].entry, !.origin = "original"]
      BY <2>1, <2>5 DEF AddedRows
    <3>2. lore'[i].entry = lore[i].entry BY <2>2, <3>1 DEF LoreRow
    <3>3. lore[i].entry \in list BY <2>5, FoldedRows DEF NewIn, Right
    <3>4. lore[i].origin = "added" BY <2>5 DEF LoreInv, LoreTypeOK
    <3> QED BY <2>1, <3>2, <3>3, <3>4
  <2>6. CASE ~Based(i) /\ i \notin Folded(NewIn(M))
    <3>1. lore'[i] = lore[i] BY <2>1, <2>6 DEF AddedRows
    <3> QED BY <2>1, <3>1
  <2> QED BY <2>3, <2>4, <2>5, <2>6
<1> QED BY <1>1, <1>2 DEF Open, NewIn, Pairs

\* store.ingest_lore loses nothing the panel holds of its own, however its
\* entries are paired with RisuAI's.
THEOREM OwnSurviveOpen == LoreSpec => OwnEntriesSurviveOpen
<1>1. LoreInv /\ [LoreNext]_loreVars =>
        [Open => \A i \in DOMAIN lore :
            lore[i].origin # "original" \/ lore[i].entry # lore[i].orig =>
              /\ i \in DOMAIN lore' /\ lore'[i].entry = lore[i].entry
              /\ \/ lore'[i].origin = lore[i].origin
                 \/ lore[i].origin = "added" /\ lore[i].entry \in list]_loreVars
  BY OwnStay
<1> QED BY <1>1, LoreInvInit, LoreInvStep, PTL DEF LoreSpec, OwnEntriesSurviveOpen

\* Where a baseline that RisuAI is not said to have dropped comes from.
FromPair(M, i)  == i \in DOMAIN lore /\ <<i, lore'[i].orig>> \in Pairs(M)
FromAdded(M, i) == i \in Folded(NewIn(M)) /\ lore'[i].orig = lore[i].entry
FromNew(M, i)   == i \in DOMAIN lore' \ DOMAIN lore /\ lore'[i].orig = lore'[i].entry

\* There is no fourth source.
LEMMA BaselineFrom ==
    ASSUME LoreInv, NEW M, OldRows(M), AddedRows(M), NewRows(M),
           NEW i \in DOMAIN lore', lore'[i].orig # None, lore'[i].flag # "deleted-upstream"
    PROVE  FromPair(M, i) \/ FromAdded(M, i) \/ FromNew(M, i)
<1>1. CASE i \in DOMAIN lore /\ Based(i) /\ \E t : <<i, t>> \in Pairs(M)
  <2>1. PICK t \in list, tier \in Tiers : <<i, t>> \in Pairs(M) /\ lore'[i] = Paired(i, t, tier)
    BY <1>1 DEF OldRows
  <2>2. lore'[i].orig = t BY <1>1, <2>1, PairedRow
  <2> QED BY <1>1, <2>1, <2>2 DEF FromPair
<1>2. CASE i \in DOMAIN lore /\ Based(i) /\ ~\E t : <<i, t>> \in Pairs(M)
  <2>1. lore'[i] = Missing(i) BY <1>2 DEF OldRows
  <2>2. lore'[i] = [lore[i] EXCEPT !.flag = "deleted-upstream"]
    BY <2>1 DEF Missing, DecideMissing
  <2>3. lore[i] \in LoreRow BY <1>2, RowTypes
  <2> QED BY <2>2, <2>3 DEF LoreRow
<1>3. CASE i \in DOMAIN lore /\ ~Based(i) /\ i \in Folded(NewIn(M))
  <2>1. lore'[i] = [lore[i] EXCEPT !.orig = lore[i].entry, !.origin = "original"]
    BY <1>3 DEF AddedRows
  <2>2. lore[i] \in LoreRow BY <1>3, RowTypes
  <2>3. lore'[i].orig = lore[i].entry BY <2>1, <2>2 DEF LoreRow
  <2> QED BY <1>3, <2>3 DEF FromAdded
<1>4. CASE i \in DOMAIN lore /\ ~Based(i) /\ i \notin Folded(NewIn(M))
  <2>1. lore'[i] = lore[i] BY <1>4 DEF AddedRows
  <2> QED BY <1>4, <2>1 DEF Based
<1>5. CASE i \notin DOMAIN lore
  <2>1. lore'[i] = Original(lore'[i].entry) BY <1>5 DEF NewRows
  <2>2. lore'[i].orig = lore'[i].entry BY <2>1 DEF Original
  <2> QED BY <1>5, <2>2 DEF FromNew
<1> QED BY <1>1, <1>2, <1>3, <1>4, <1>5

\* The three sources share no entry.
LEMMA BaselineOf ==
    ASSUME LoreInv, NEW M, Pairs(M) \subseteq {j \in DOMAIN lore : Based(j)} \X list,
           NewRows(M), NEW i \in DOMAIN lore'
    PROVE  /\ FromPair(M, i) => lore'[i].orig \in list \ NewIn(M)
           /\ FromAdded(M, i) \/ FromNew(M, i) => lore'[i].orig \in NewIn(M)
           /\ FromNew(M, i) => \A j \in Folded(NewIn(M)) : lore'[i].orig # lore[j].entry
<1>1. FromPair(M, i) => lore'[i].orig \in list \ NewIn(M)
  <2> SUFFICES ASSUME FromPair(M, i) PROVE lore'[i].orig \in list \ NewIn(M) OBVIOUS
  <2> DEFINE p == <<i, lore'[i].orig>>
  <2>1. p \in Pairs(M) /\ p[2] = lore'[i].orig BY DEF FromPair
  <2> HIDE DEF p
  <2> QED BY <2>1 DEF NewIn, Right
<1>2. FromAdded(M, i) => lore'[i].orig \in NewIn(M) BY FoldedRows DEF FromAdded
<1>3. FromNew(M, i) => /\ lore'[i].orig \in NewIn(M)
                       /\ \A j \in Folded(NewIn(M)) : lore'[i].orig # lore[j].entry
  BY DEF FromNew, NewRows
<1> QED BY <1>1, <1>2, <1>3

\* One open: first sight of the chat, or the merge with what the panel has.
LEMMA AllAccounted ==
    ASSUME LoreInv, Open
    PROVE  LET D  == DOMAIN lore'
               B  == {i \in D : lore'[i].orig # None}
               Up == {i \in B : lore'[i].flag # "deleted-upstream"}
           IN  /\ list \subseteq {lore'[i].orig : i \in B}
               /\ \A i \in Up : lore'[i].orig \in list
               /\ \A i, j \in Up : i # j => lore'[i].orig # lore'[j].orig
               /\ \A n \in D \ DOMAIN lore, i \in DOMAIN lore :
                     ~Based(i) => lore[i].entry # lore'[n].entry
<1> DEFINE D  == DOMAIN lore'
           B  == {i \in D : lore'[i].orig # None}
           Up == {i \in B : lore'[i].flag # "deleted-upstream"}
<1>0. list \subseteq Entries /\ None \notin Entries BY LoreSyncAssumption DEF LoreInv, LoreTypeOK
<1>1. ASSUME lore = <<>>, Load
      PROVE  /\ list \subseteq {lore'[i].orig : i \in B}
             /\ \A i \in Up : lore'[i].orig \in list
             /\ \A i, j \in Up : i # j => lore'[i].orig # lore'[j].orig
             /\ \A n \in D \ DOMAIN lore, i \in DOMAIN lore :
                   ~Based(i) => lore[i].entry # lore'[n].entry
  <2>1. DOMAIN lore = {} BY <1>1
  <2>2. \A i \in D : lore'[i].entry \in list /\ lore'[i].orig = lore'[i].entry
    <3>1. \A i \in D : lore'[i].entry \in list /\ lore'[i] = Original(lore'[i].entry)
      BY <1>1, LoadIs
    <3> QED BY <1>0, <3>1, OriginalRow
  <2>3. /\ \A e \in list : \E i \in D : lore'[i].entry = e
        /\ \A i, j \in D : i # j => lore'[i].entry # lore'[j].entry
    BY <1>1, LoadIs
  <2> QED BY <1>0, <2>1, <2>2, <2>3
<1>2. ASSUME NEW M \in Matchings({j \in DOMAIN lore : Based(j)}, list),
             Cardinality(Fresh) >= Cardinality(NewIn(M)),
             lore' = Merged(M)
      PROVE  /\ list \subseteq {lore'[i].orig : i \in B}
             /\ \A i \in Up : lore'[i].orig \in list
             /\ \A i, j \in Up : i # j => lore'[i].orig # lore'[j].orig
             /\ \A n \in D \ DOMAIN lore, i \in DOMAIN lore :
                   ~Based(i) => lore[i].entry # lore'[n].entry
  <2>1. DOMAIN lore \subseteq DOMAIN lore' /\ OldRows(M) /\ AddedRows(M) /\ NewRows(M)
    BY <1>2, MergeIs
  <2>2. /\ Pairs(M) \subseteq {j \in DOMAIN lore : Based(j)} \X list
        /\ OneToOne(Pairs(M))
    BY MatchedOnce DEF Pairs
  <2>3. \A i, j, t, u : <<i, t>> \in Pairs(M) /\ <<j, u>> \in Pairs(M) =>
          (i = j <=> t = u)
    <3> SUFFICES ASSUME NEW i, NEW j, NEW t, NEW u, <<i, t>> \in Pairs(M), <<j, u>> \in Pairs(M)
                 PROVE  i = j <=> t = u
      OBVIOUS
    <3> QED BY <2>2 DEF OneToOne
  <2>4. ASSUME NEW e \in list PROVE \E i \in B : lore'[i].orig = e
    <3>1. CASE e \in NewIn(M)
      <4>1. CASE \E j \in Folded(NewIn(M)) : lore[j].entry = e
        <5>1. PICK j \in Folded(NewIn(M)) : lore[j].entry = e BY <4>1
        <5>2. j \in DOMAIN lore /\ ~Based(j) BY <5>1, FoldedRows
        <5>3. lore'[j] = [lore[j] EXCEPT !.orig = lore[j].entry, !.origin = "original"]
          BY <2>1, <5>1, <5>2 DEF AddedRows
        <5>4. lore[j] \in LoreRow BY <5>2, RowTypes
        <5>5. lore'[j].orig = e BY <5>1, <5>3, <5>4 DEF LoreRow
        <5> QED BY <1>0, <2>1, <5>2, <5>5
      <4>2. CASE \E n \in D \ DOMAIN lore : lore'[n].entry = e
        <5>1. PICK n \in D \ DOMAIN lore : lore'[n].entry = e BY <4>2
        <5>2. lore'[n] = Original(lore'[n].entry) BY <2>1 DEF NewRows
        <5>3. lore'[n].orig = e BY <5>1, <5>2 DEF Original
        <5> QED BY <1>0, <5>1, <5>3
      <4> QED BY <2>1, <3>1, <4>1, <4>2 DEF NewRows
    <3>2. CASE e \notin NewIn(M)
      <4>1. PICK p \in Pairs(M) : p[2] = e BY <3>2 DEF NewIn, Right
      <4> DEFINE i == p[1]
      <4>2. i \in DOMAIN lore /\ Based(i) /\ <<i, e>> \in Pairs(M) BY <2>2, <4>1
      <4> HIDE DEF i
      <4>3. PICK t \in list, tier \in Tiers :
              <<i, t>> \in Pairs(M) /\ lore'[i] = Paired(i, t, tier)
        BY <2>1, <4>2 DEF OldRows
      <4>4. t = e BY <2>3, <4>2, <4>3
      <4>5. lore'[i].orig = e BY <4>2, <4>3, <4>4, PairedRow
      <4> QED BY <1>0, <2>1, <4>2, <4>5
    <3> QED BY <3>1, <3>2
  <2>5. \A i \in Up : FromPair(M, i) \/ FromAdded(M, i) \/ FromNew(M, i)
    BY <2>1, BaselineFrom
  <2>6. \A i \in Up :
          /\ FromPair(M, i) => lore'[i].orig \in list \ NewIn(M)
          /\ FromAdded(M, i) \/ FromNew(M, i) => lore'[i].orig \in NewIn(M)
          /\ FromNew(M, i) => \A j \in Folded(NewIn(M)) : lore'[i].orig # lore[j].entry
    BY <2>1, <2>2, BaselineOf
  <2>7. NewIn(M) \subseteq list BY DEF NewIn, Right
  <2>8. ASSUME NEW i \in Up, NEW j \in Up, lore'[i].orig = lore'[j].orig PROVE i = j
    <3>1. CASE FromPair(M, i) /\ FromPair(M, j) BY <2>3, <2>8, <3>1 DEF FromPair
    <3>2. CASE FromAdded(M, i) /\ FromAdded(M, j) BY <2>8, <3>2, FoldedRows DEF FromAdded
    <3>3. CASE FromNew(M, i) /\ FromNew(M, j)
      <4>1. \A m, n \in D \ DOMAIN lore : m # n => lore'[m].entry # lore'[n].entry
        BY <2>1 DEF NewRows
      <4> QED BY <2>8, <3>3, <4>1 DEF FromNew
    <3>4. CASE FromPair(M, i) /\ ~FromPair(M, j) BY <2>5, <2>6, <2>8, <3>4
    <3>5. CASE ~FromPair(M, i) /\ FromPair(M, j) BY <2>5, <2>6, <2>8, <3>5
    <3>6. CASE FromAdded(M, i) /\ FromNew(M, j) BY <2>6, <2>8, <3>6 DEF FromAdded
    <3>7. CASE FromNew(M, i) /\ FromAdded(M, j) BY <2>6, <2>8, <3>7 DEF FromAdded
    <3> QED BY <2>5, <3>1, <3>2, <3>3, <3>4, <3>5, <3>6, <3>7
  <2>9. ASSUME NEW n \in D \ DOMAIN lore, NEW i \in DOMAIN lore, ~Based(i)
        PROVE  lore[i].entry # lore'[n].entry
    <3>1. /\ lore'[n].entry \in NewIn(M)
          /\ \A j \in Folded(NewIn(M)) : lore'[n].entry # lore[j].entry
      BY <2>1 DEF NewRows
    <3>2. lore[i].entry \in NewIn(M) =>
            \E j \in Folded(NewIn(M)) : lore[j].entry = lore[i].entry
      BY <2>9, FoldedRows
    <3> QED BY <3>1, <3>2
  <2> QED BY <2>4, <2>5, <2>6, <2>7, <2>8, <2>9
<1> QED BY <1>1, <1>2 DEF Open, NewIn, Pairs

\* store._merge_lore takes every entry of RisuAI's in, and takes it in once.
THEOREM OpensAccount == LoreSpec => OpenAccountsForAll
<1>1. LoreInv /\ [LoreNext]_loreVars =>
        [Open =>
           LET D  == DOMAIN lore'
               B  == {i \in D : lore'[i].orig # None}
               Up == {i \in B : lore'[i].flag # "deleted-upstream"}
           IN  /\ list \subseteq {lore'[i].orig : i \in B}
               /\ \A i \in Up : lore'[i].orig \in list
               /\ \A i, j \in Up : i # j => lore'[i].orig # lore'[j].orig
               /\ \A n \in D \ DOMAIN lore, i \in DOMAIN lore :
                     ~Based(i) => lore[i].entry # lore'[n].entry]_loreVars
  BY AllAccounted
<1> QED BY <1>1, LoreInvInit, LoreInvStep, PTL DEF LoreSpec, OpenAccountsForAll
=============================================================================
