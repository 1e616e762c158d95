------------------------------- MODULE Merge -------------------------------
(***************************************************************************)
(* The three-way rule of pyserver/app/merge.py, shared by every material   *)
(* that both the panel and RisuAI can edit: chat turns, lorebook entries,  *)
(* card fields, scripts, memory rows.                                      *)
(*                                                                         *)
(*    base    what RisuAI held at the previous upload                      *)
(*    theirs  what RisuAI holds now                                        *)
(*    ours    the panel's working copy                                     *)
(*                                                                         *)
(* Texts are compared through merge.canon, which makes two entries equal   *)
(* when they differ only in key order or in default flags; here a text is  *)
(* its canonical form.                                                     *)
(***************************************************************************)

Tiers   == {"exact", "keyed", "positional"}
Actions == {"adopt", "keep", "conflict", "insert", "delete"}

\* conflict_json.kind of a row, or "none" when the column is NULL.
ConflictKinds == {"both-moved", "deleted-upstream", "weak-match"}
NoConflict    == "none"

\* One paired row. The baseline moves to theirs whatever the answer.
Decide(ours, base, theirs, dirty, tier) ==
    IF \/ theirs = base
       \/ theirs = ours
    THEN [action |-> "keep", kind |-> NoConflict]
    ELSE IF ~dirty /\ ours = base
         THEN IF tier = "positional"
              THEN [action |-> "conflict", kind |-> "weak-match"]
              ELSE [action |-> "adopt", kind |-> NoConflict]
         ELSE [action |-> "conflict", kind |-> "both-moved"]

\* A row whose counterpart is gone from RisuAI. dropMissing is the turns'
\* rule; the list materials ask instead.
DecideMissing(ours, base, dirty, dropMissing) ==
    IF dropMissing /\ ~dirty /\ ours = base
    THEN [action |-> "delete", kind |-> NoConflict]
    ELSE [action |-> "conflict", kind |-> "deleted-upstream"]
=============================================================================
